-------------------------- MODULE VMBackend_proofs --------------------------
(***************************************************************************)
(* Proofs about VMBackend, for any bounds: type correctness; that the      *)
(* rollback of a failed init() deletes only what this init() has created,  *)
(* while a network given by its ids is never deleted by anything, and a    *)
(* VPC that is only named by nothing but a clean() whose file records it;  *)
(* and that a clean(all=True) that removes the cache file leaves nothing   *)
(* of its network.                                                         *)
(***************************************************************************)
EXTENDS VMBackend, FiniteSetTheorems, TLAPS

USE BoundsAssumption

-----------------------------------------------------------------------------
(* The invariant. *)

\* A configuration holds one resource of a kind.
OneEach(S) == \A r, s \in S : r.kind = s.kind => r = s

\* The user's resource of a kind, and the kinds for which it is the one used when
\* the user's network is (Azure has one security group for all networks).
User(k) == [kind |-> k, no |-> 0, vpc |-> 0]
Taken == IF backend = "azure_vms" THEN {"vpc", "subnet"} ELSE Network

\* No resource of the network is the user's; those the user can provide all are.
Ours(S) == \A r \in S : r.kind \in Network => r.no # 0
Theirs(S) == \A k \in Taken : User(k) \in S

\* The kinds that init() provides, all of which the file records.
Parts == {Steps[i] : i \in 1 .. Len(Steps) - 1}

\* What the variables hold, and where each part of the client may be.
TypeInv ==
  /\ backend \in Backends /\ given \in BOOLEAN /\ quitting \in BOOLEAN
  /\ building \in {"no", "new", "kept"}
  /\ proc \in {"idle", "init", "rollback", "up", "build", "clean", "retry", "waiting"}
  /\ config \subseteq Resource /\ OneEach(config)
  /\ cache \subseteq Resource /\ cloud \subseteq Resource /\ own \subseteq Resource
  /\ made \subseteq Kinds
  /\ inits \in 0 .. MaxInits /\ faults \in 0 .. MaxFaults /\ crashes \in 0 .. MaxCrashes
  /\ at \in 1 .. 8
  /\ proc = "init" => at <= Len(Steps)
  /\ proc = "build" => at <= 6
  /\ proc = "clean" => at <= Len(CleanSteps)
  /\ proc = "retry" => at = 1

\* The deletions counted are those of the steps done.
Counted ==
  /\ correct \in 0 .. 5
  /\ proc = "clean" => correct = 0 \/ correct <= at - 2
  /\ proc # "clean" => correct = 0

\* The file records a whole network, the user's or one of ours, and there is one
\* while a session, a build or a clean() is on.
Recorded ==
  /\ proc \in {"up", "build", "clean", "retry"} => cache # {}
  /\ cache # {} =>
       /\ OneEach(cache)
       /\ \A k \in Parts : Has(cache, k)
       /\ Ours(cache) \/ Theirs(cache)

\* What init() has gathered, step by step.  On GCP the names of a new network
\* reach the configuration after its last part.
Unnamed == backend = "gcp_compute_engine" /\ ~given /\ cache = {} /\ at <= 4
Gathered ==
  proc = "init" =>
    /\ inits # 0
    /\ made \subseteq {Steps[i] : i \in 1 .. at - 1}
    /\ Unnamed => config = {} /\ \A i \in 1 .. at - 1 : New(Steps[i]) \in own
    /\ ~Unnamed => \A i \in 1 .. at - 1 : Has(config, Steps[i])
    /\ given => Users \subseteq config
    /\ ~given /\ (cache = {} \/ Ours(cache)) => Ours(config)
    /\ ~given /\ cache # {} /\ Theirs(cache) =>
         \A r \in config : r.kind \in Taken => r = User(r.kind)

\* What is flagged and named was created by this init(), so was every attachment
\* of a gateway it has created, and nothing it has created is the user's.
Created ==
  /\ proc \notin {"init", "rollback"} => own = {} /\ made = {}
  /\ Ours(own) /\ NamedVpc \notin own
  /\ \A r \in own : backend = "aws_ec2" /\ r.kind = "gateway" => r.no = inits
  /\ \A r \in config : r.kind \in made => r \in own
  /\ \A q \in cloud : q.kind = "attach" =>
       /\ backend = "aws_ec2" /\ (q.no <= inits \/ q.no = NamedNo)
       /\ q.no = inits /\ proc \in {"init", "rollback"} => q \in own

\* The user's network is there, and no other has its number.
UsersThere ==
  /\ Users \subseteq cloud
  /\ \A r \in cloud : r.kind \in Network /\ r.no = 0 => r.vpc = 0

\* A build past the making of its VM has one, and a clean() of the user's network
\* leaves the network alone.
OnItsWay ==
  /\ proc = "build" /\ at > 2 =>
       \E r \in cloud : r.kind \in Builders /\ (backend = "gcp_compute_engine" \/ r.no = inits)
  /\ proc = "clean" /\ Provided => at = 1 \/ at >= KeyStep

VMInv ==
  /\ TypeInv /\ Counted /\ Recorded /\ Gathered /\ Created /\ UsersThere /\ OnItsWay

-----------------------------------------------------------------------------
(* Resources. *)

LEMMA Fields ==
    ASSUME NEW r \in Resource
    PROVE  r.kind \in Kinds /\ r.no \in 0 .. NamedNo /\ r.vpc \in 0 .. NamedNo
BY DEF Resource

LEMMA Networks ==
    ASSUME backend \in Backends
    PROVE  /\ Taken \subseteq Network
           /\ "vpc" \in Taken
           /\ Network \subseteq {"vpc", "subnet", "gateway", "sg", "sg2"}
           /\ backend # "azure_vms" => Taken = Network
           /\ backend = "azure_vms" => Network = Taken \cup {"sg"}
BY DEF Network, Taken

LEMMA UsersAre ==
    /\ \A r \in Users : r = User(r.kind) /\ r.kind \in Network /\ r.no = 0 /\ r.vpc = 0
    /\ \A k \in Network : User(k) \in Users
    /\ \A k : User(k).kind = k /\ User(k).no = 0 /\ User(k).vpc = 0
BY DEF Users, User

LEMMA UsersInResource ==
    ASSUME backend \in Backends
    PROVE  Users \subseteq Resource /\ OneEach(Users)
<1>1. Network \subseteq Kinds
  BY Networks DEF Kinds
<1>2. 0 \in 0 .. NamedNo
  BY DEF NamedNo
<1> QED BY <1>1, <1>2 DEF Users, Resource, OneEach

\* The user's VPC that has a name.
LEMMA NamedIs ==
    /\ NamedNo \in Nat /\ NamedNo > MaxInits /\ 0 .. MaxInits \subseteq 0 .. NamedNo
    /\ NamedVpc.kind = "vpc" /\ NamedVpc.no = NamedNo
    /\ \A r \in NamedNetwork :
         r \in Resource /\ r.no = NamedNo /\ (r.kind = "attach" => backend = "aws_ec2")
<1>1. NamedNo \in Nat /\ NamedNo > MaxInits /\ NamedNo \in 0 .. NamedNo /\ 0 \in 0 .. NamedNo
  BY DEF NamedNo
<1>2. 0 .. MaxInits \subseteq 0 .. NamedNo
  BY DEF NamedNo
<1>3. \A k \in {"vpc", "gateway", "attach"}, v \in {0, NamedNo} :
        Named(k, v) \in Resource /\ Named(k, v).no = NamedNo /\ Named(k, v).kind = k
  BY <1>1 DEF Named, Resource, Kinds
<1>4. \A r \in NamedNetwork :
        \E k \in {"vpc", "gateway", "attach"}, v \in {0, NamedNo} :
          r = Named(k, v) /\ (k = "attach" => backend = "aws_ec2")
  BY DEF NamedNetwork, NamedVpc
<1> QED BY <1>1, <1>2, <1>3, <1>4 DEF NamedVpc

\* The one resource of a kind that a set has.
LEMMA TheIs ==
    ASSUME NEW S, NEW k, Has(S, k)
    PROVE  The(S, k) \in S /\ The(S, k).kind = k
BY DEF Has, The

LEMMA TheOnly ==
    ASSUME NEW S, OneEach(S), NEW r \in S
    PROVE  Has(S, r.kind) /\ The(S, r.kind) = r
<1>1. Has(S, r.kind)
  BY DEF Has
<1> QED BY <1>1, TheIs DEF OneEach

LEMMA AddOne ==
    ASSUME NEW S, OneEach(S), NEW r, ~Has(S, r.kind)
    PROVE  OneEach(S \cup {r})
BY DEF OneEach, Has

\* The number of the network in use.
LEMMA VpcNoIs ==
    ASSUME TypeInv
    PROVE  VpcNo \in 0 .. NamedNo
<1>1. CASE Has(config, "vpc")
  <2>1. The(config, "vpc") \in Resource
    BY <1>1, TheIs DEF TypeInv
  <2> QED BY <1>1, <2>1, Fields DEF VpcNo
<1>2. CASE ~Has(config, "vpc")
  BY <1>2, NamedIs DEF VpcNo, TypeInv
<1> QED BY <1>1, <1>2

LEMMA NewIs ==
    ASSUME TypeInv, inits # 0, NEW k \in Kinds
    PROVE  /\ New(k) \in Resource
           /\ New(k).kind = k
           /\ backend = "aws_ec2" => New(k).no = inits
           /\ New(k).no \in {1, inits, VpcNo}
           /\ New(k).no = 0 => VpcNo = 0 /\ backend \in {"azure_vms", "gcp_compute_engine"}
                                         /\ ~(backend = "azure_vms" /\ k = "sg")
           /\ k \in {"vpc", "key"} => New(k).no = inits
<1>1. inits \in 1 .. NamedNo /\ 1 \in 0 .. NamedNo /\ 0 \in 0 .. NamedNo
  BY DEF TypeInv, NamedNo
<1>2. VpcNo \in 0 .. NamedNo
  BY VpcNoIs
<1> QED BY <1>1, <1>2 DEF New, Resource

LEMMA VMIs ==
    ASSUME TypeInv, NEW k \in Kinds
    PROVE  VM(k) \in Resource /\ VM(k).kind = k /\ VM(k).no = inits
<1>1. inits \in 0 .. NamedNo
  BY NamedIs DEF TypeInv
<1> QED BY <1>1, VpcNoIs DEF VM, Resource

-----------------------------------------------------------------------------
(* The steps of init() and of clean(). *)

GcpFirst == {"vpc", "subnet", "sg", "sg2"}

LEMMA StepsAre ==
    ASSUME backend \in Backends
    PROVE  /\ Len(Steps) \in {6, 7}
           /\ \A i \in 1 .. Len(Steps) : (Steps[i] = "rest") <=> (i = Len(Steps))
           /\ \A i \in 1 .. Len(Steps) : Steps[i] \in Kinds \cup {"rest"}
           /\ \A i, j \in 1 .. Len(Steps) : Steps[i] = Steps[j] => i = j
           /\ Taken \subseteq Parts /\ {"vpc", "key"} \subseteq Parts
           /\ backend = "gcp_compute_engine" =>
                /\ \A i \in 1 .. Len(Steps) : Steps[i] \in GcpFirst <=> i <= 4
                /\ GcpFirst = {Steps[i] : i \in 1 .. 4}
                /\ Steps[4] = "sg2"
                /\ GcpFirst \subseteq Taken
<1>1. CASE backend = "aws_ec2"
  BY <1>1 DEF Steps, Parts, Taken, Network, Kinds, GcpFirst
<1>2. CASE backend = "ibm_vpc"
  BY <1>2 DEF Steps, Parts, Taken, Network, Kinds, GcpFirst
<1>3. CASE backend = "gcp_compute_engine"
  BY <1>3 DEF Steps, Parts, Taken, Network, Kinds, GcpFirst
<1>4. CASE backend = "azure_vms"
  BY <1>4 DEF Steps, Parts, Taken, Network, Kinds, GcpFirst
<1> QED BY <1>1, <1>2, <1>3, <1>4

LEMMA CleanStepsAre ==
    ASSUME backend \in Backends
    PROVE  /\ Len(CleanSteps) \in {6, 7, 8}
           /\ CleanSteps[1] = "vms"
           /\ \A i \in 1 .. Len(CleanSteps) :
                /\ CleanSteps[i] \in {"vms", "detach", "file"} \cup Parts
                /\ CleanSteps[i] = "vms" => i = 1
                /\ CleanSteps[i] = "file" <=> i = Len(CleanSteps)
                /\ backend = "aws_ec2" /\ CleanSteps[i] = "key" => i = 7
                /\ CleanSteps[i] = "detach" => backend = "aws_ec2"
           /\ KeyStep \in 2 .. Len(CleanSteps)
           /\ \A i \in KeyStep .. Len(CleanSteps) : CleanSteps[i] \in {"key", "file"}
           /\ backend = "aws_ec2" => KeyStep = 7
<1> DEFINE Keyed(i) == i \in 1 .. Len(CleanSteps) /\ CleanSteps[i] = "key"
<1>0. ASSUME NEW i, Keyed(i), \A j : Keyed(j) => j = i
      PROVE  KeyStep = i
  BY <1>0 DEF KeyStep
<1> USE DEF CleanSteps, Parts, Steps
<1>1. CASE backend = "aws_ec2"
  <2>1. KeyStep = 7
    <3>1. Keyed(7) /\ \A j : Keyed(j) => j = 7
      BY <1>1
    <3> QED BY <1>0, <3>1
  <2> QED BY <1>1, <2>1
<1>2. CASE backend = "ibm_vpc"
  <2>1. KeyStep = 5
    <3>1. Keyed(5) /\ \A j : Keyed(j) => j = 5
      BY <1>2
    <3> QED BY <1>0, <3>1
  <2> QED BY <1>2, <2>1
<1>3. CASE backend = "gcp_compute_engine"
  <2>1. KeyStep = 7
    <3>1. Keyed(7) /\ \A j : Keyed(j) => j = 7
      BY <1>3
    <3> QED BY <1>0, <3>1
  <2> QED BY <1>3, <2>1
<1>4. CASE backend = "azure_vms"
  <2>1. KeyStep = 6
    <3>1. Keyed(6) /\ \A j : Keyed(j) => j = 6
      BY <1>4
    <3> QED BY <1>0, <3>1
  <2> QED BY <1>4, <2>1
<1> QED BY <1>1, <1>2, <1>3, <1>4

-----------------------------------------------------------------------------
(* What the steps of the four backends have in common. *)

FaultsGo == faults' = faults \/ Fault

\* A call raises before it has made anything.
JustRaises == proc = "init" /\ Raise /\ UNCHANGED <<config, made, cloud, own>>

\* A resource that exists, or that the file records, is taken: one of the network
\* is the recorded one, one that AWS or IBM have in the network in use or under
\* its name when none is recorded, or the security group of Azure.
Taking(k, r) ==
  /\ Step(backend, k) /\ Use(r)
  /\ r \in cloud \cup cache /\ r.kind = k
  /\ k \in Network => \/ Has(cache, k) /\ r = The(cache, k)
                      \/ /\ backend \in {"aws_ec2", "ibm_vpc"} /\ Absent(k)
                         /\ r.vpc = VpcNo \/ r.no # 0
                      \/ backend = "azure_vms" /\ k = "sg" /\ r = New("sg")

\* One is made, of the network only when none is recorded, and the step ends or
\* raises; the name is kept in the first case, and may be in the second.
Making(k, C) ==
  /\ Step(backend, k) /\ ~(backend = "gcp_compute_engine" /\ k \in GcpFirst)
  /\ k \in Taken => Absent(k)
  /\ C \in {Whole(k), {New(k)}}
  /\ cloud' = cloud \cup C /\ own' = own \cup C
  /\ \/ /\ config' = config \cup {New(k)} /\ made' \in {made, made \cup {k}}
        /\ Raise \/ (at' = at + 1 /\ UNCHANGED proc)
     \/ UNCHANGED <<config, made>> /\ Raise

\* A part of the network of GCP is made.
Parting(k) ==
  /\ Step(backend, k) /\ backend = "gcp_compute_engine" /\ k \in GcpFirst /\ ~Has(cache, k)
  /\ cloud' = cloud \cup {New(k)} /\ own' = own \cup {New(k)}
  /\ \/ /\ made' = made \cup {k} /\ at' = at + 1 /\ UNCHANGED proc
        /\ config' = IF k = "sg2" THEN config \cup {New(p) : p \in GcpFirst} ELSE config
     \/ Raise /\ UNCHANGED <<config, made>>

InitFrame == UNCHANGED <<backend, given, building, cache, correct, inits, crashes, quitting>>

InitOutcome ==
  /\ InitFrame /\ FaultsGo
  /\ \/ Configured \/ JustRaises
     \/ \E k \in Kinds : \E r : Taking(k, r)
     \/ \E k \in Kinds : \E C : Making(k, C)
     \/ \E k \in Kinds : Parting(k)

LEMMA ReuseTakes ==
    ASSUME NEW k, Step(backend, k), Reuse(k)
    PROVE  Taking(k, The(cache, k)) /\ FaultsGo
BY TheIs DEF Reuse, Taking, Use, FaultsGo

LEMMA GoneRaises ==
    ASSUME NEW k, Step(backend, k), RaiseIfGone(k)
    PROVE  JustRaises /\ FaultsGo
BY DEF RaiseIfGone, JustRaises, Step, FaultsGo

LEMMA CreateMakes ==
    ASSUME NEW k, Step(backend, k), k \in Taken => Absent(k),
           ~(backend = "gcp_compute_engine" /\ k \in GcpFirst), Create(k) \/ CreateThenFail(k)
    PROVE  (\E C : Making(k, C)) /\ FaultsGo
<1>1. CASE Create(k)
  <2>1. Making(k, Whole(k)) \/ Making(k, {New(k)})
    BY <1>1 DEF Create, Making, Raise
  <2> QED BY <1>1, <2>1 DEF Create, FaultsGo
<1>2. CASE CreateThenFail(k)
  <2>1. Making(k, {New(k)})
    BY <1>2 DEF CreateThenFail, Making, Raise
  <2> QED BY <1>2, <2>1 DEF CreateThenFail, FaultsGo
<1> QED BY <1>1, <1>2

LEMMA AwsOutcomes ==
    ASSUME AwsVpc \/ AwsSubnet \/ AwsGateway \/ AwsSecurityGroup \/ AwsSshKey
    PROVE  /\ FaultsGo
           /\ \/ JustRaises
              \/ \E k \in Kinds : \E r : Taking(k, r)
              \/ \E k \in Kinds : \E C : Making(k, C)
<1>1. PICK k \in Kinds :
         /\ Step("aws_ec2", k)
         /\ \/ Reuse(k) \/ RaiseIfGone(k)
            \/ Raise /\ UNCHANGED <<config, made, cloud, own, faults>>
            \/ ~Has(cache, k) /\ \E r \in cloud : /\ r.kind = k /\ (r.vpc = VpcNo \/ r.no # 0)
                                                /\ Use(r)
            \/ ~Has(cache, k) /\ Create(k)
  BY DEF ByName, Found, Attached, AwsVpc, AwsSubnet, AwsGateway, AwsSecurityGroup, AwsSshKey, Kinds
<1>2. backend = "aws_ec2" /\ Step(backend, k)
  BY <1>1 DEF Step
<1>3. CASE Reuse(k)
  BY <1>2, <1>3, ReuseTakes
<1>4. CASE RaiseIfGone(k)
  BY <1>2, <1>4, GoneRaises
<1>5. CASE Raise /\ UNCHANGED <<config, made, cloud, own, faults>>
  BY <1>2, <1>5 DEF JustRaises, Step, FaultsGo
<1>6. CASE ~Has(cache, k) /\ Create(k)
  BY <1>2, <1>6, CreateMakes DEF Absent
<1>7. ASSUME ~Has(cache, k), NEW r \in cloud, r.kind = k, r.vpc = VpcNo \/ r.no # 0, Use(r)
      PROVE  Taking(k, r) /\ FaultsGo
  BY <1>2, <1>7 DEF Taking, Absent, FaultsGo, Use
<1> QED BY <1>1, <1>3, <1>4, <1>5, <1>6, <1>7

LEMMA IbmOutcomes ==
    ASSUME IbmVpc \/ IbmSshKey \/ IbmSubnet \/ IbmGateway \/ IbmFloatingIp
    PROVE  /\ FaultsGo
           /\ \/ JustRaises
              \/ \E k \in Kinds : \E r : Taking(k, r)
              \/ \E k \in Kinds : \E C : Making(k, C)
<1>1. CASE IbmFloatingIp
  <2>1. Step(backend, "fip") /\ backend = "ibm_vpc" /\ "fip" \in Kinds /\ "fip" \notin Network
    BY <1>1 DEF IbmFloatingIp, Step, Kinds, Network
  <2>2. CASE Reuse("fip")
    BY <2>1, <2>2, ReuseTakes
  <2>3. CASE \E r \in cloud : r.kind = "fip" /\ Use(r)
    BY <2>1, <2>3 DEF Taking, FaultsGo, Use
  <2>4. CASE /\ cloud' = cloud \cup {New("fip")} /\ own' = own \cup {New("fip")}
             /\ config' = config \cup {New("fip")} /\ at' = at + 1
             /\ UNCHANGED <<proc, made, faults>>
    <3>1. "fip" \notin Taken
      BY <2>1 DEF Taken
    <3>2. Making("fip", {New("fip")})
      BY <2>1, <2>4, <3>1 DEF Making
    <3> QED BY <2>1, <2>4, <3>2 DEF FaultsGo
  <2> QED BY <1>1, <2>2, <2>3, <2>4 DEF IbmFloatingIp
<1>2. CASE IbmVpc \/ IbmSshKey \/ IbmSubnet \/ IbmGateway
  <2>1. PICK k \in Kinds :
           /\ Step("ibm_vpc", k)
           /\ \/ Reuse(k) \/ RaiseIfGone(k)
              \/ Absent(k) /\ \E r \in cloud : /\ r.kind = k /\ (r.vpc = VpcNo \/ r.no # 0)
                                             /\ Use(r)
              \/ Absent(k) /\ (Create(k) \/ CreateThenFail(k))
    BY <1>2 DEF ByName, Found, IbmVpc, IbmSshKey, IbmSubnet, IbmGateway, Kinds, Absent
  <2>2. backend = "ibm_vpc" /\ Step(backend, k)
    BY <2>1 DEF Step
  <2>3. CASE Reuse(k)
    BY <2>2, <2>3, ReuseTakes
  <2>4. CASE RaiseIfGone(k)
    BY <2>2, <2>4, GoneRaises
  <2>5. ASSUME Absent(k), NEW r \in cloud, r.kind = k, r.vpc = VpcNo \/ r.no # 0, Use(r)
        PROVE  Taking(k, r) /\ FaultsGo
    BY <2>2, <2>5 DEF Taking, FaultsGo, Use
  <2>6. CASE Absent(k) /\ (Create(k) \/ CreateThenFail(k))
    BY <2>2, <2>6, CreateMakes
  <2> QED BY <2>1, <2>3, <2>4, <2>5, <2>6
<1> QED BY <1>1, <1>2

LEMMA GcpOutcomes ==
    ASSUME GcpNetwork \/ GcpNat \/ GcpSshKey
    PROVE  /\ FaultsGo
           /\ \/ JustRaises
              \/ \E k \in Kinds : \E r : Taking(k, r)
              \/ \E k \in Kinds : \E C : Making(k, C)
              \/ \E k \in Kinds : Parting(k)
<1>1. CASE GcpNetwork
  <2>1. PICK k \in GcpFirst :
           /\ Step("gcp_compute_engine", k)
           /\ \/ Has(cache, k) /\ Use(The(cache, k))
              \/ /\ ~Has(cache, k)
                 /\ cloud' = cloud \cup {New(k)} /\ own' = own \cup {New(k)}
                 /\ \/ /\ made' = made \cup {k} /\ at' = at + 1 /\ UNCHANGED <<proc, faults>>
                       /\ config' = IF k = "sg2" THEN config \cup {New(p) : p \in GcpFirst}
                                    ELSE config
                    \/ Fault /\ Raise /\ UNCHANGED <<config, made>>
    BY <1>1 DEF GcpNetwork, GcpParts, GcpFirst
  <2>2. backend = "gcp_compute_engine" /\ Step(backend, k) /\ k \in Kinds
    BY <2>1 DEF Step, GcpFirst, Kinds
  <2>3. CASE Has(cache, k) /\ Use(The(cache, k))
    BY <2>2, <2>3, TheIs DEF Taking, FaultsGo, Use
  <2>4. CASE ~Has(cache, k)
    BY <2>1, <2>2, <2>4 DEF Parting, FaultsGo
  <2> QED BY <2>1, <2>3, <2>4
<1>2. CASE GcpNat
  <2>1. Step(backend, "gateway") /\ "gateway" \in Kinds /\ "gateway" \notin GcpFirst
    BY <1>2 DEF GcpNat, Step, Kinds, GcpFirst
  <2>2. CASE Has(cache, "gateway") /\ Use(The(cache, "gateway"))
    BY <2>1, <2>2, TheIs DEF Taking, FaultsGo, Use
  <2>3. CASE ~Has(cache, "gateway") /\ Create("gateway")
    BY <2>1, <2>3, CreateMakes DEF Absent
  <2> QED BY <1>2, <2>2, <2>3 DEF GcpNat
<1>3. CASE GcpSshKey
  <2>1. Step(backend, "key") /\ "key" \in Kinds /\ "key" \notin GcpFirst
    BY <1>3 DEF GcpSshKey, Step, Kinds, GcpFirst
  <2>2. CASE Reuse("key")
    BY <2>1, <2>2, ReuseTakes
  <2>3. CASE Absent("key") /\ Create("key")
    BY <2>1, <2>3, CreateMakes
  <2> QED BY <1>3, <2>2, <2>3 DEF GcpSshKey
<1> QED BY <1>1, <1>2, <1>3

LEMMA AzureOutcomes ==
    ASSUME AzureVnet \/ AzureSubnet \/ AzureSecurityGroup \/ AzureFloatingIp \/ AzureSshKey
    PROVE  /\ FaultsGo
           /\ \/ JustRaises
              \/ \E k \in Kinds : \E r : Taking(k, r)
              \/ \E k \in Kinds : \E C : Making(k, C)
<1>0. /\ backend = "azure_vms"
      /\ {"vpc", "subnet", "sg", "fip", "key"} \subseteq Kinds
      /\ Taken = {"vpc", "subnet"} /\ "fip" \notin Network
  BY DEF AzureVnet, AzureSubnet, AzureSecurityGroup, AzureFloatingIp, AzureSshKey, Step,
         Kinds, Taken, Network
<1>1. CASE AzureVnet \/ AzureSubnet \/ AzureSshKey
  <2>1. PICK k \in {"vpc", "subnet", "key"} :
           Step(backend, k) /\ (Reuse(k) \/ (Absent(k) /\ Create(k)))
    BY <1>0, <1>1 DEF AzureVnet, AzureSubnet, AzureSshKey
  <2>2. CASE Reuse(k)
    BY <1>0, <2>1, <2>2, ReuseTakes
  <2>3. CASE Absent(k) /\ Create(k)
    BY <1>0, <2>1, <2>3, CreateMakes
  <2> QED BY <2>1, <2>2, <2>3
<1>2. CASE AzureSecurityGroup
  <2>1. Step(backend, "sg")
    BY <1>0, <1>2 DEF AzureSecurityGroup
  <2>2. CASE New("sg") \in cloud /\ Use(New("sg"))
    <3>1. New("sg").kind = "sg"
      BY DEF New
    <3> QED BY <1>0, <2>1, <2>2, <3>1 DEF Taking, FaultsGo, Use
  <2>3. CASE Create("sg")
    BY <1>0, <2>1, <2>3, CreateMakes
  <2> QED BY <1>2, <2>2, <2>3 DEF AzureSecurityGroup
<1>3. CASE AzureFloatingIp
  <2>1. Step(backend, "fip")
    BY <1>0, <1>3 DEF AzureFloatingIp
  <2>2. CASE Raise /\ UNCHANGED <<config, made, cloud, own, faults>>
    BY <2>1, <2>2 DEF JustRaises, Step, FaultsGo
  <2>3. CASE AzureAddress \in cloud /\ Use(AzureAddress)
    <3>1. AzureAddress.kind = "fip"
      BY TheIs DEF AzureAddress, New
    <3> QED BY <1>0, <2>1, <2>3, <3>1 DEF Taking, FaultsGo, Use
  <2>4. CASE Create("fip")
    BY <1>0, <2>1, <2>4, CreateMakes
  <2> QED BY <1>3, <2>2, <2>3, <2>4 DEF AzureFloatingIp
<1> QED BY <1>1, <1>2, <1>3

LEMMA InitOutcomes == InitStep => InitOutcome
<1> SUFFICES ASSUME InitStep
             PROVE  InitOutcome
  OBVIOUS
<1>1. InitFrame
  BY DEF InitStep, InitFrame
<1>2. CASE Configured
  BY <1>1, <1>2 DEF InitOutcome, Configured, FaultsGo
<1>3. CASE CallFails
  BY <1>1, <1>3 DEF InitOutcome, CallFails, JustRaises, FaultsGo
<1> QED BY <1>1, <1>2, <1>3, AwsOutcomes, IbmOutcomes, GcpOutcomes, AzureOutcomes
        DEF InitStep, InitOutcome

-----------------------------------------------------------------------------
(* The steps of init() keep the invariant. *)

LEMMA SameBackend ==
    ASSUME UNCHANGED backend
    PROVE  /\ Network' = Network /\ Taken' = Taken /\ Users' = Users
           /\ Steps' = Steps /\ CleanSteps' = CleanSteps /\ KeyStep' = KeyStep
           /\ Parts' = Parts
<1>1. Network' = Network /\ Steps' = Steps /\ CleanSteps' = CleanSteps
  BY DEF Network, Steps, CleanSteps
<1> QED BY <1>1 DEF Taken, Users, KeyStep, Parts

\* The step that provides a resource of kind k is not the last, and none before it
\* does.
LEMMA AtPart ==
    ASSUME TypeInv, NEW k \in Kinds, proc = "init", Steps[at] = k
    PROVE  /\ at \in 1 .. Len(Steps) - 1 /\ k \in Parts
           /\ k \notin {Steps[i] : i \in 1 .. at - 1}
<1>1. at \in 1 .. Len(Steps) /\ backend \in Backends
  BY DEF TypeInv
<1>2. Len(Steps) \in {6, 7} /\ "rest" \notin Kinds
  BY <1>1, StepsAre DEF Kinds
<1>3. at # Len(Steps)
  BY <1>1, <1>2, StepsAre
<1> QED BY <1>1, <1>2, <1>3, StepsAre DEF Parts

LEMMA VpcNoOurs ==
    ASSUME TypeInv, Gathered, proc = "init", ~given, cache = {} \/ Ours(cache)
    PROVE  VpcNo # 0
<1>1. Ours(config) /\ inits # 0
  BY DEF Gathered
<1>2. "vpc" \in Network
  BY Networks DEF TypeInv
<1>3. CASE Has(config, "vpc")
  BY <1>1, <1>2, <1>3, TheIs DEF Ours, VpcNo
<1>4. CASE ~Has(config, "vpc")
  BY <1>1, <1>4 DEF VpcNo
<1> QED BY <1>3, <1>4

LEMMA TheirsHas ==
    ASSUME TypeInv, Recorded, UsersThere, Theirs(cache), cache # {}, NEW k \in Taken
    PROVE  Has(cache, k) /\ The(cache, k) = User(k) /\ User(k) \in cloud
<1>1. User(k) \in cache /\ OneEach(cache) /\ User(k).kind = k
  BY UsersAre DEF Theirs, Recorded
<1>2. User(k) \in Users
  BY UsersAre, Networks DEF TypeInv
<1> QED BY <1>1, <1>2, TheOnly DEF UsersThere

LEMMA GivenHas ==
    ASSUME Gathered, proc = "init", given, NEW k \in Network
    PROVE  Has(config, k)
BY UsersAre DEF Gathered, Has

LEMMA TakenFrom ==
    ASSUME VMInv, NEW k \in Kinds, NEW r, Taking(k, r)
    PROVE  /\ r \in Resource /\ r.kind = k
           /\ ~(given /\ k \in Network)
           /\ k \in Network /\ (cache = {} \/ Ours(cache)) => r.no # 0
           /\ k \in Taken /\ cache # {} /\ Theirs(cache) => r = User(k)
<1> USE DEF VMInv
<1>1. /\ proc = "init" /\ ~Has(config, k) /\ r \in cloud \cup cache /\ r.kind = k
      /\ r \in Resource /\ inits # 0 /\ backend \in Backends
  BY DEF Taking, Step, TypeInv, Gathered
<1>2. ~(given /\ k \in Network)
  BY <1>1, GivenHas
<1>3. ASSUME k \in Network, cache = {} \/ Ours(cache)
      PROVE  r.no # 0
  <2>0. ~given
    BY <1>2, <1>3
  <2>1. CASE r \in cache
    BY <1>1, <1>3, <2>1 DEF Ours
  <2>2. CASE r \notin cache /\ Has(cache, k) /\ r = The(cache, k)
    BY <2>2, TheIs
  <2>3. CASE r \notin cache /\ r.vpc = VpcNo
    <3>1. VpcNo # 0
      BY <1>1, <1>3, <2>0, VpcNoOurs
    <3> QED BY <1>1, <1>3, <2>3, <3>1 DEF UsersThere
  <2>4. CASE backend = "azure_vms" /\ k = "sg" /\ r = New("sg")
    BY <1>1, <2>4, NewIs
  <2> QED BY <1>3, <2>1, <2>2, <2>3, <2>4 DEF Taking
<1>4. ASSUME k \in Taken, cache # {}, Theirs(cache)
      PROVE  r = User(k)
  <2>1. Has(cache, k) /\ The(cache, k) = User(k) /\ User(k) \in cloud
    BY <1>4, TheirsHas
  <2>2. ~Absent(k) /\ k \in Network /\ ~(backend = "azure_vms" /\ k = "sg")
    BY <1>1, <1>4, <2>1, Networks DEF Absent, Gone, Taken
  <2> QED BY <2>1, <2>2 DEF Taking
<1> QED BY <1>1, <1>2, <1>3, <1>4

LEMMA MadeOurs ==
    ASSUME VMInv, NEW k \in Kinds, Step(backend, k), k \in Taken => Absent(k)
    PROVE  /\ k \in Network => New(k).no # 0 /\ ~given
           /\ ~given /\ cache # {} /\ Theirs(cache) => k \notin Taken
<1> USE DEF VMInv
<1>1. proc = "init" /\ ~Has(config, k) /\ inits # 0 /\ backend \in Backends
  BY DEF Step, TypeInv, Gathered
<1>2. ~(given /\ k \in Network)
  BY <1>1, GivenHas
<1>3. ASSUME cache # {}, Theirs(cache)
      PROVE  k \notin Taken
  BY <1>3, TheirsHas DEF Absent, Gone
<1>4. ASSUME k \in Network
      PROVE  New(k).no # 0
  <2>1. CASE cache = {} \/ Ours(cache)
    <3>1. VpcNo # 0
      BY <1>1, <1>2, <1>4, <2>1, VpcNoOurs
    <3> QED BY <1>1, <3>1, NewIs
  <2>2. CASE cache # {} /\ Theirs(cache)
    <3>1. backend = "azure_vms" /\ k = "sg"
      BY <1>1, <1>3, <1>4, <2>2, Networks
    <3> QED BY <1>1, <3>1, NewIs
  <2> QED BY <2>1, <2>2 DEF Recorded
<1> QED BY <1>2, <1>3, <1>4

LEMMA FaultsBound ==
    ASSUME TypeInv, FaultsGo
    PROVE  faults' \in 0 .. MaxFaults
BY DEF TypeInv, FaultsGo, Fault

LEMMA InitFrameKeeps ==
    ASSUME VMInv, InitFrame, proc = "init", proc' \in {"init", "rollback"}
    PROVE  Counted' /\ Recorded' /\ OnItsWay'
<1> USE DEF VMInv, InitFrame
<1>1. Counted'
  BY DEF Counted
<1>2. Recorded'
  BY SameBackend DEF Recorded, OneEach, Has, Ours, Theirs, User
<1>3. OnItsWay'
  BY DEF OnItsWay
<1> QED BY <1>1, <1>2, <1>3

LEMMA ConfiguredKeeps ==
    ASSUME VMInv, InitFrame, FaultsGo, Configured
    PROVE  VMInv'
<1>0. /\ proc = "init" /\ proc' = proc /\ Has(config, Steps[at]) /\ at' = at + 1
      /\ UNCHANGED config /\ UNCHANGED made /\ UNCHANGED own /\ UNCHANGED cloud
      /\ UNCHANGED backend /\ UNCHANGED given /\ UNCHANGED cache /\ UNCHANGED inits
  BY DEF Configured, InitFrame
<1>1. /\ TypeInv /\ Gathered /\ Created /\ UsersThere
      /\ Steps' = Steps /\ Network' = Network /\ Users' = Users /\ Taken' = Taken
      /\ CleanSteps' = CleanSteps
  BY <1>0, SameBackend DEF VMInv
<1>2. Steps[at] \in Kinds
  <2>1. PICK r \in config : r.kind = Steps[at]
    BY <1>0 DEF Has
  <2> QED BY <1>1, <2>1, Fields DEF TypeInv
<1>3. at \in 1 .. Len(Steps) - 1 /\ Len(Steps) \in {6, 7}
  BY <1>0, <1>1, <1>2, AtPart, StepsAre DEF TypeInv
<1>4. ~Unnamed
  BY <1>0, <1>1 DEF Gathered, Has
<1>5. TypeInv'
  <2>1. at' \in 1 .. 8 /\ at' <= Len(Steps)
    BY <1>0, <1>3
  <2>2. OneEach(config)'
    BY <1>0, <1>1 DEF TypeInv, OneEach
  <2>3. faults' \in 0 .. MaxFaults
    BY <1>1, FaultsBound
  <2> QED BY <1>0, <1>1, <2>1, <2>2, <2>3 DEF TypeInv, InitFrame
<1>6. Gathered'
  <2>1. ~Unnamed'
    BY <1>0, <1>3, <1>4 DEF Unnamed
  <2>2. \A i \in 1 .. at : Has(config, Steps[i])
    BY <1>0, <1>1, <1>3, <1>4 DEF Gathered
  <2>3. made \subseteq {Steps[i] : i \in 1 .. at}
    BY <1>0, <1>1, <1>3 DEF Gathered
  <2>4. at' - 1 = at
    BY <1>0, <1>3
  <2> QED BY <1>0, <1>1, <2>1, <2>2, <2>3, <2>4 DEF Gathered, Has, Ours, Theirs, User
<1>7. Created'
  BY <1>0, <1>1 DEF Created, Ours
<1>8. UsersThere'
  BY <1>0, <1>1 DEF UsersThere
<1> QED BY <1>0, <1>5, <1>6, <1>7, <1>8, InitFrameKeeps DEF VMInv

LEMMA RaisesKeeps ==
    ASSUME VMInv, InitFrame, FaultsGo, JustRaises
    PROVE  VMInv'
<1>0. /\ proc = "init" /\ proc' = "rollback" /\ at' = 1
      /\ UNCHANGED config /\ UNCHANGED made /\ UNCHANGED own /\ UNCHANGED cloud
      /\ UNCHANGED backend /\ UNCHANGED given /\ UNCHANGED cache /\ UNCHANGED inits
  BY DEF JustRaises, Raise, InitFrame
<1>1. /\ TypeInv /\ Created /\ UsersThere
      /\ Network' = Network /\ Users' = Users
  BY <1>0, SameBackend DEF VMInv
<1>2. TypeInv'
  BY <1>0, <1>1, FaultsBound DEF TypeInv, OneEach, InitFrame
<1>3. Gathered'
  BY <1>0 DEF Gathered
<1>4. Created'
  BY <1>0, <1>1 DEF Created, Ours
<1>5. UsersThere'
  BY <1>0, <1>1 DEF UsersThere
<1> QED BY <1>0, <1>2, <1>3, <1>4, <1>5, InitFrameKeeps DEF VMInv

LEMMA TakingKeeps ==
    ASSUME VMInv, InitFrame, FaultsGo, NEW k \in Kinds, NEW r, Taking(k, r)
    PROVE  VMInv'
<1>0. /\ proc = "init" /\ proc' = proc /\ Steps[at] = k /\ ~Has(config, k) /\ at' = at + 1
      /\ config' = config \cup {r}
      /\ UNCHANGED made /\ UNCHANGED own /\ UNCHANGED cloud
      /\ UNCHANGED backend /\ UNCHANGED given /\ UNCHANGED cache /\ UNCHANGED inits
  BY DEF Taking, Step, Use, InitFrame
<1>1. /\ TypeInv /\ Recorded /\ Gathered /\ Created /\ UsersThere
      /\ Steps' = Steps /\ Network' = Network /\ Users' = Users /\ Taken' = Taken
      /\ CleanSteps' = CleanSteps
  BY <1>0, SameBackend DEF VMInv
<1>2. /\ at \in 1 .. Len(Steps) - 1 /\ Len(Steps) \in {6, 7} /\ backend \in Backends
      /\ k \notin {Steps[i] : i \in 1 .. at - 1}
  BY <1>0, <1>1, AtPart, StepsAre DEF TypeInv
<1>3. /\ r \in Resource /\ r.kind = k
      /\ ~(given /\ k \in Network)
      /\ k \in Network /\ (cache = {} \/ Ours(cache)) => r.no # 0
      /\ k \in Taken /\ cache # {} /\ Theirs(cache) => r = User(k)
  BY TakenFrom
<1>4. ~Unnamed
  <2> SUFFICES ASSUME Unnamed
               PROVE  FALSE
    OBVIOUS
  <2>1. backend = "gcp_compute_engine" /\ cache = {} /\ at <= 4
    BY DEF Unnamed
  <2>2. k \in GcpFirst /\ k \in Network
    BY <1>0, <1>2, <2>1, StepsAre, Networks
  <2> QED BY <2>1, <2>2 DEF Taking, Has
<1>5. TypeInv'
  <2>1. OneEach(config')
    BY <1>0, <1>1, <1>3, AddOne DEF TypeInv
  <2>2. config' \subseteq Resource
    BY <1>0, <1>1, <1>3 DEF TypeInv
  <2>3. OneEach(config)'
    BY <2>1 DEF OneEach
  <2>4. faults' \in 0 .. MaxFaults
    BY <1>1, FaultsBound
  <2>5. at' \in 1 .. 8 /\ at' <= Len(Steps)
    BY <1>0, <1>2
  <2> QED BY <1>0, <1>1, <2>2, <2>3, <2>4, <2>5 DEF TypeInv, InitFrame
<1>6. Gathered'
  <2>1. ~Unnamed'
    BY <1>0, <1>2, <1>4 DEF Unnamed
  <2>2. \A i \in 1 .. at : Has(config', Steps[i])
    BY <1>0, <1>1, <1>2, <1>3, <1>4 DEF Gathered, Has
  <2>3. made \subseteq {Steps[i] : i \in 1 .. at}
    BY <1>0, <1>1, <1>2 DEF Gathered
  <2>4. at' - 1 = at
    BY <1>0, <1>2
  <2>5. (~given /\ (cache = {} \/ Ours(cache)) => Ours(config'))
    BY <1>0, <1>1, <1>3 DEF Gathered, Ours
  <2>6. ~given /\ cache # {} /\ Theirs(cache) =>
          \A q \in config' : q.kind \in Taken => q = User(q.kind)
    BY <1>0, <1>1, <1>3 DEF Gathered
  <2>7. given => Users \subseteq config'
    BY <1>0, <1>1 DEF Gathered
  <2>8. inits # 0
    BY <1>0, <1>1 DEF Gathered
  <2> QED BY <1>0, <1>1, <2>1, <2>2, <2>3, <2>4, <2>5, <2>6, <2>7, <2>8
          DEF Gathered, Has, Ours, Theirs, User
<1>7. Created'
  <2>1. k \notin made
    BY <1>0, <1>1, <1>2 DEF Gathered
  <2> QED BY <1>0, <1>1, <1>3, <2>1 DEF Created, Ours
<1>8. UsersThere'
  BY <1>0, <1>1 DEF UsersThere
<1> QED BY <1>0, <1>5, <1>6, <1>7, <1>8, InitFrameKeeps DEF VMInv

LEMMA WholeIs ==
    ASSUME VMInv, NEW k \in Kinds, Step(backend, k), NEW C, C \in {Whole(k), {New(k)}},
           k \in Network => New(k).no # 0
    PROVE  /\ C \subseteq Resource /\ New(k) \in C /\ New(k).kind = k
           /\ Ours(C)
           /\ \A r \in C : backend = "aws_ec2" /\ r.kind = "gateway" => r.no = inits
           /\ NamedVpc \notin C
           /\ \A r \in C : r.kind = "attach" => r.no = inits
           /\ (\E r \in C : r.kind = "attach") => backend = "aws_ec2"
<1>1. TypeInv /\ inits # 0 /\ backend \in Backends /\ "attach" \in Kinds
  BY DEF VMInv, TypeInv, Step, Gathered, Kinds
<1>2. /\ New(k) \in Resource /\ New(k).kind = k
      /\ backend = "aws_ec2" => New(k).no = inits
      /\ New("attach") \in Resource /\ New("attach").kind = "attach"
      /\ backend = "aws_ec2" => New("attach").no = inits
  BY <1>1, NewIs
<1>3. "attach" \notin Network
  BY <1>1, Networks
<1>4. k = "attach" => FALSE
  <2>1. "attach" \notin {Steps[i] : i \in 1 .. Len(Steps)}
    BY <1>1 DEF Steps
  <2>2. at \in 1 .. Len(Steps)
    BY <1>1 DEF TypeInv, Step
  <2> QED BY <2>1, <2>2 DEF Step
<1>5. C = {New(k)} \/ (backend = "aws_ec2" /\ C = {New(k), New("attach")})
  BY DEF Whole
<1>6. \A r \in C : r.kind # "vpc" \/ r.no # NamedNo
  <2>1. inits \in 0 .. MaxInits /\ (k = "vpc" => New(k).no = inits)
    BY <1>1, NewIs DEF TypeInv
  <2>2. inits # NamedNo
    BY <2>1, NamedIs
  <2> QED BY <1>2, <1>5, <2>1, <2>2
<1> QED BY <1>1, <1>2, <1>3, <1>4, <1>5, <1>6, NamedIs DEF Ours

LEMMA MakingKeeps ==
    ASSUME VMInv, InitFrame, FaultsGo, NEW k \in Kinds, NEW C, Making(k, C)
    PROVE  VMInv'
<1>0. /\ proc = "init" /\ proc' \in {"init", "rollback"} /\ Steps[at] = k /\ ~Has(config, k)
      /\ proc' = "init" => at' = at + 1 /\ config' = config \cup {New(k)}
      /\ at' \in {1, at + 1}
      /\ config' \in {config, config \cup {New(k)}}
      /\ made' \in {made, made \cup {k}}
      /\ cloud' = cloud \cup C /\ own' = own \cup C
      /\ UNCHANGED backend /\ UNCHANGED given /\ UNCHANGED cache /\ UNCHANGED inits
  BY DEF Making, Step, Raise, InitFrame
<1>1. /\ TypeInv /\ Recorded /\ Gathered /\ Created /\ UsersThere
      /\ Steps' = Steps /\ Network' = Network /\ Users' = Users /\ Taken' = Taken
      /\ CleanSteps' = CleanSteps
  BY <1>0, SameBackend DEF VMInv
<1>2. /\ at \in 1 .. Len(Steps) - 1 /\ Len(Steps) \in {6, 7} /\ backend \in Backends
      /\ k \notin {Steps[i] : i \in 1 .. at - 1}
  BY <1>0, <1>1, AtPart, StepsAre DEF TypeInv
<1>3. /\ k \in Network => New(k).no # 0 /\ ~given
      /\ ~given /\ cache # {} /\ Theirs(cache) => k \notin Taken
  BY MadeOurs DEF Making
<1>4. /\ C \subseteq Resource /\ New(k) \in C /\ New(k).kind = k
      /\ Ours(C)
      /\ \A r \in C : backend = "aws_ec2" /\ r.kind = "gateway" => r.no = inits
      /\ NamedVpc \notin C
      /\ \A r \in C : r.kind = "attach" => r.no = inits
      /\ (\E r \in C : r.kind = "attach") => backend = "aws_ec2"
  BY <1>3, WholeIs DEF Making
<1>5. ~Unnamed
  BY <1>0, <1>2, StepsAre DEF Unnamed, Making
<1>6. TypeInv'
  <2>1. OneEach(config')
    BY <1>0, <1>1, <1>4, AddOne DEF TypeInv
  <2>2. config' \subseteq Resource /\ cloud' \subseteq Resource /\ own' \subseteq Resource
    BY <1>0, <1>1, <1>4 DEF TypeInv
  <2>3. made' \subseteq Kinds
    BY <1>0, <1>1 DEF TypeInv
  <2>4. OneEach(config)'
    BY <2>1 DEF OneEach
  <2>5. faults' \in 0 .. MaxFaults
    BY <1>1, FaultsBound
  <2>6. at' \in 1 .. 8 /\ at' <= Len(Steps)
    <3>1. at' = 1 \/ at' = at + 1
      BY <1>0
    <3>2. at \in 1 .. Len(Steps) - 1 /\ Len(Steps) \in {6, 7}
      BY <1>2
    <3>3. at \in 1 .. 6 /\ at + 1 <= Len(Steps) /\ 1 <= Len(Steps)
      <4>1. CASE Len(Steps) = 6
        BY <3>2, <4>1
      <4>2. CASE Len(Steps) = 7
        BY <3>2, <4>2
      <4> QED BY <3>2, <4>1, <4>2
    <3> QED BY <3>1, <3>3
  <2> QED BY <1>0, <1>1, <2>2, <2>3, <2>4, <2>5, <2>6 DEF TypeInv, InitFrame
<1>7. Gathered'
  <2> SUFFICES ASSUME proc' = "init"
               PROVE  Gathered'
    BY DEF Gathered
  <2>0. at' = at + 1 /\ config' = config \cup {New(k)}
    BY <1>0
  <2>1. ~Unnamed'
    BY <1>0, <1>2, <1>5, <2>0 DEF Unnamed
  <2>2. \A i \in 1 .. at : Has(config', Steps[i])
    BY <1>0, <1>1, <1>2, <1>4, <1>5, <2>0 DEF Gathered, Has
  <2>3. made' \subseteq {Steps[i] : i \in 1 .. at}
    <3>1. made \subseteq {Steps[i] : i \in 1 .. at - 1}
      BY <1>0, <1>1 DEF Gathered
    <3>2. k \in {Steps[i] : i \in 1 .. at}
      BY <1>0, <1>2
    <3> QED BY <1>0, <1>2, <3>1, <3>2
  <2>4. at' - 1 = at
    BY <1>2, <2>0
  <2>5. ~given /\ (cache = {} \/ Ours(cache)) => Ours(config')
    BY <1>0, <1>1, <1>3, <1>4, <2>0 DEF Gathered, Ours
  <2>6. ~given /\ cache # {} /\ Theirs(cache) =>
          \A q \in config' : q.kind \in Taken => q = User(q.kind)
    BY <1>0, <1>1, <1>3, <1>4, <2>0 DEF Gathered
  <2>7. given => Users \subseteq config'
    BY <1>0, <1>1, <2>0 DEF Gathered
  <2>8. inits # 0
    BY <1>0, <1>1 DEF Gathered
  <2> QED BY <1>0, <1>1, <2>1, <2>2, <2>3, <2>4, <2>5, <2>6, <2>7, <2>8
          DEF Gathered, Has, Ours, Theirs, User
<1>8. Created'
  <2>1. k \notin made
    BY <1>0, <1>1, <1>2 DEF Gathered
  <2>2. \A r \in config' : r.kind \in made' => r \in own'
    BY <1>0, <1>1, <1>4, <2>1 DEF Created, Has
  <2>3. Ours(own)' /\ NamedVpc \notin own'
    BY <1>0, <1>1, <1>4 DEF Created, Ours
  <2>4. \A r \in own' : backend' = "aws_ec2" /\ r.kind = "gateway" => r.no = inits'
    BY <1>0, <1>1, <1>4 DEF Created
  <2>5. \A q \in cloud' : q.kind = "attach" =>
          /\ backend' = "aws_ec2" /\ (q.no <= inits' \/ q.no = NamedNo)
          /\ q.no = inits' /\ proc' \in {"init", "rollback"} => q \in own'
    <3> SUFFICES ASSUME NEW q \in cloud', q.kind = "attach"
                 PROVE  /\ backend = "aws_ec2" /\ (q.no <= inits \/ q.no = NamedNo)
                        /\ q.no = inits => q \in own'
      BY <1>0
    <3>1. inits \in Nat
      BY <1>1 DEF TypeInv
    <3> QED BY <1>0, <1>1, <1>4, <3>1 DEF Created
  <2>6. (NamedVpc \notin own)'
    BY <2>3 DEF NamedVpc, Named, NamedNo
  <2>7. NamedNo' = NamedNo
    BY DEF NamedNo
  <2> QED BY <1>0, <2>2, <2>3, <2>4, <2>5, <2>6, <2>7 DEF Created
<1>9. UsersThere'
  BY <1>0, <1>1, <1>4 DEF UsersThere, Ours
<1> QED BY <1>0, <1>6, <1>7, <1>8, <1>9, InitFrameKeeps DEF VMInv

LEMMA PartingIsUnnamed ==
    ASSUME VMInv, NEW k \in Kinds, Parting(k)
    PROVE  Unnamed /\ config = {} /\ VpcNo = inits /\ GcpFirst \subseteq Network
<1>1. /\ proc = "init" /\ Steps[at] = k /\ ~Has(config, k) /\ ~Has(cache, k)
      /\ backend = "gcp_compute_engine" /\ k \in GcpFirst
      /\ TypeInv /\ Gathered /\ Recorded
  BY DEF Parting, Step, VMInv
<1>2. backend \in Backends /\ at \in 1 .. Len(Steps) - 1 /\ k \in Parts
  BY <1>1, AtPart DEF TypeInv
<1>3. GcpFirst \subseteq Network /\ at <= 4
  BY <1>1, <1>2, StepsAre, Networks
<1>4. cache = {}
  BY <1>1, <1>2 DEF Recorded
<1>5. ~given
  BY <1>1, <1>3, GivenHas
<1>6. Unnamed /\ config = {}
  BY <1>1, <1>3, <1>4, <1>5, <1>2 DEF Unnamed, Gathered, TypeInv
<1> QED BY <1>3, <1>6 DEF VpcNo, Has

LEMMA PartingKeeps ==
    ASSUME VMInv, InitFrame, FaultsGo, NEW k \in Kinds, Parting(k)
    PROVE  VMInv'
<1>0. /\ proc = "init" /\ proc' \in {"init", "rollback"} /\ Steps[at] = k
      /\ backend = "gcp_compute_engine" /\ k \in GcpFirst
      /\ proc' = "init" => /\ at' = at + 1 /\ made' = made \cup {k}
                           /\ config' = IF k = "sg2" THEN {New(p) : p \in GcpFirst} ELSE {}
      /\ proc' = "rollback" => at' = 1 /\ made' = made /\ config' = {}
      /\ cloud' = cloud \cup {New(k)} /\ own' = own \cup {New(k)}
      /\ UNCHANGED backend /\ UNCHANGED given /\ UNCHANGED cache /\ UNCHANGED inits
  BY PartingIsUnnamed DEF Parting, Step, Raise, InitFrame
<1>1. /\ TypeInv /\ Recorded /\ Gathered /\ Created /\ UsersThere
      /\ Steps' = Steps /\ Network' = Network /\ Users' = Users /\ Taken' = Taken
      /\ CleanSteps' = CleanSteps
  BY <1>0, SameBackend DEF VMInv
<1>2. /\ Unnamed /\ config = {} /\ VpcNo = inits /\ inits # 0
      /\ \A i \in 1 .. at - 1 : New(Steps[i]) \in own
      /\ made \subseteq {Steps[i] : i \in 1 .. at - 1}
  BY <1>0, <1>1, PartingIsUnnamed DEF Gathered
<1>3. /\ at \in 1 .. Len(Steps) - 1 /\ Len(Steps) \in {6, 7} /\ backend \in Backends
      /\ at <= 4 /\ GcpFirst = {Steps[i] : i \in 1 .. 4} /\ Steps[4] = "sg2"
      /\ k = "sg2" => at = 4
  BY <1>0, <1>1, <1>2, AtPart, StepsAre DEF TypeInv, Unnamed
<1>4. \A p \in Kinds : /\ New(p) \in Resource /\ New(p).kind = p /\ New(p).no # 0
  BY <1>1, <1>2, NewIs
<1>5. GcpFirst \subseteq Kinds /\ "attach" \notin GcpFirst
  BY DEF GcpFirst, Kinds
<1>6. \A i : config' = {} => New(Steps[i])' = New(Steps[i])
  <2>1. config' = {} => VpcNo' = VpcNo
    BY <1>0, <1>2 DEF VpcNo, Has
  <2> QED BY <1>0, <1>1, <2>1 DEF New
<1>7. TypeInv'
  <2>1. config' = {} \/ config' = {New(p) : p \in GcpFirst}
    BY <1>0
  <2>2. OneEach(config)'
    BY <1>4, <1>5, <2>1 DEF OneEach
  <2>3. config' \subseteq Resource
    BY <1>4, <1>5, <2>1
  <2>4. cloud' \subseteq Resource /\ own' \subseteq Resource /\ made' \subseteq Kinds
    BY <1>0, <1>1, <1>4 DEF TypeInv
  <2>5. faults' \in 0 .. MaxFaults
    BY <1>1, FaultsBound
  <2>6. at' \in 1 .. 8 /\ at' <= Len(Steps)
    <3>1. at' = 1 \/ at' = at + 1
      BY <1>0
    <3> QED BY <1>3, <3>1
  <2> QED BY <1>0, <1>1, <2>2, <2>3, <2>4, <2>5, <2>6 DEF TypeInv, InitFrame
<1>8. Gathered'
  <2> SUFFICES ASSUME proc' = "init"
               PROVE  Gathered'
    BY DEF Gathered
  <2>0. at' = at + 1 /\ made' = made \cup {k} /\ at' - 1 = at
    BY <1>0, <1>3
  <2>1. made' \subseteq {Steps[i] : i \in 1 .. at}
    <3>1. k \in {Steps[i] : i \in 1 .. at}
      BY <1>0, <1>3
    <3> QED BY <1>2, <1>3, <2>0, <3>1
  <2>2. \A i \in 1 .. at : New(Steps[i]) \in own'
    BY <1>0, <1>2, <1>3
  <2>3. Unnamed' => config' = {} /\ \A i \in 1 .. at : New(Steps[i])' \in own'
    <3>1. Unnamed' => at' <= 4
      BY DEF Unnamed
    <3>2. Unnamed' => config' = {}
      <4>1. Unnamed' => k # "sg2"
        BY <1>0, <1>1, <1>3, <2>0, <3>1, StepsAre
      <4> QED BY <1>0, <4>1
    <3> QED BY <1>6, <2>2, <3>2
  <2>4. ~Unnamed' => \A i \in 1 .. at : Has(config', Steps[i])
    <3>1. ~Unnamed' => at = 4
      BY <1>0, <1>2, <1>3, <2>0 DEF Unnamed
    <3>2. at = 4 => k = "sg2" /\ config' = {New(p) : p \in GcpFirst}
      BY <1>0, <1>3
    <3>3. \A p \in GcpFirst : at = 4 => New(p) \in config' /\ New(p).kind = p
      BY <1>4, <1>5, <3>2
    <3>4. \A p \in GcpFirst : at = 4 => Has(config', p)
      BY <3>3 DEF Has
    <3>5. at = 4 => \A i \in 1 .. at : Steps[i] \in GcpFirst
      BY <1>3
    <3>6. at = 4 => \A i \in 1 .. at : Has(config', Steps[i])
      BY <3>4, <3>5
    <3> QED BY <3>1, <3>6
  <2>5. Ours(config') /\ ~given /\ cache = {}
    BY <1>0, <1>2, <1>4, <1>5 DEF Ours, Unnamed
  <2> QED BY <1>0, <1>1, <1>2, <2>0, <2>1, <2>3, <2>4, <2>5
          DEF Gathered, Has, Ours, Theirs, User
<1>9. Created'
  <2>1. \A p \in GcpFirst : config' # {} => New(p) \in own'
    <3>1. config' # {} => at = 4
      BY <1>0, <1>3
    <3> QED BY <1>0, <1>2, <1>3, <3>1
  <2>2. \A r \in config' : r \in own'
    BY <1>0, <2>1
  <2>3. Ours(own)' /\ NamedVpc \notin own'
    <3>1. New(k) # NamedVpc
      <4>1. inits \in 0 .. MaxInits /\ (k = "vpc" => New(k).no = inits)
        BY <1>1, <1>2, NewIs DEF TypeInv
      <4> QED BY <1>4, <4>1, NamedIs
    <3> QED BY <1>0, <1>1, <1>4, <3>1 DEF Created, Ours
  <2>4. New(k).kind # "attach"
    BY <1>0, <1>4, <1>5
  <2> QED BY <1>0, <1>1, <2>2, <2>3, <2>4 DEF Created
<1>10. UsersThere'
  BY <1>0, <1>1, <1>4 DEF UsersThere
<1> QED BY <1>0, <1>7, <1>8, <1>9, <1>10, InitFrameKeeps DEF VMInv

LEMMA InitStepKeeps ==
    ASSUME VMInv, InitStep
    PROVE  VMInv'
<1>1. InitOutcome
  BY InitOutcomes
<1> QED BY <1>1, ConfiguredKeeps, RaisesKeeps, TakingKeeps, MakingKeeps, PartingKeeps
        DEF InitOutcome

LEMMA InitLoses ==
    ASSUME InitStep
    PROVE  cloud \subseteq cloud' /\ proc = "init"
<1>1. InitOutcome
  BY InitOutcomes
<1> QED BY <1>1 DEF InitOutcome, Configured, JustRaises, Taking, Making, Parting, Use, Step

-----------------------------------------------------------------------------
(* The beginning of a client, the end of init() and its rollback.          *)

LEMMA VMInit == Init => VMInv
<1> SUFFICES ASSUME Init
             PROVE  VMInv
  OBVIOUS
<1>1. backend \in Backends /\ Users \subseteq Resource
  BY UsersInResource DEF Init
<1>2. TypeInv
  <2>1. config \subseteq Resource /\ OneEach(config)
    BY DEF Init, OneEach
  <2>2. /\ cloud \subseteq Resource /\ cache \subseteq Resource /\ own \subseteq Resource
        /\ made \subseteq Kinds
    BY <1>1, NamedIs DEF Init
  <2>3. /\ inits \in 0 .. MaxInits /\ faults \in 0 .. MaxFaults /\ crashes \in 0 .. MaxCrashes
        /\ at \in 1 .. 8
    BY DEF Init
  <2> QED BY <1>1, <2>1, <2>2, <2>3 DEF Init, TypeInv
<1>3. Counted /\ Recorded /\ Gathered /\ OnItsWay
  BY DEF Init, Counted, Recorded, Gathered, OnItsWay
<1>4. "attach" \notin Network
  BY <1>1, Networks
<1>5. Created
  BY <1>4, UsersAre, NamedIs DEF Init, Created, Ours
<1>6. UsersThere
  BY UsersAre, NamedIs DEF Init, UsersThere
<1> QED BY <1>2, <1>3, <1>5, <1>6 DEF VMInv

LEMMA InitStartKeeps ==
    ASSUME VMInv, InitStart
    PROVE  VMInv'
<1>0. /\ proc = "idle" /\ proc' = "init" /\ at' = 1 /\ inits' = inits + 1 /\ inits < MaxInits
      /\ given' \in BOOLEAN /\ config' = IF given' THEN Users ELSE {}
      /\ UNCHANGED backend /\ UNCHANGED made /\ UNCHANGED own /\ UNCHANGED cache
      /\ UNCHANGED correct /\ UNCHANGED faults /\ UNCHANGED crashes /\ UNCHANGED quitting
      /\ building' \in {"no", "new", "kept"}
      /\ cloud' = cloud \/ cloud' = cloud \ Images
  BY DEF InitStart, ForSession, ForImage
<1>1. /\ TypeInv /\ Counted /\ Recorded /\ Created /\ UsersThere
      /\ Steps' = Steps /\ Network' = Network /\ Users' = Users /\ Taken' = Taken
      /\ CleanSteps' = CleanSteps /\ Parts' = Parts
  BY <1>0, SameBackend DEF VMInv
<1>2. backend \in Backends /\ own = {} /\ made = {} /\ inits \in Nat /\ MaxInits \in Nat
  BY <1>0, <1>1 DEF TypeInv, Created
<1>3. Users \subseteq cloud' /\ cloud' \subseteq cloud
  <2>1. "image" \notin Network
    BY <1>2, Networks
  <2> QED BY <1>0, <1>1, <2>1, UsersAre DEF UsersThere, Images
<1>4. Len(Steps) \in {6, 7}
  BY <1>2, StepsAre
<1>5. TypeInv'
  <2>1. Users \subseteq Resource /\ OneEach(Users)
    BY <1>2, UsersInResource
  <2>2. OneEach(config)'
    BY <1>0, <2>1 DEF OneEach
  <2>3. config' \subseteq Resource
    BY <1>0, <2>1
  <2>4. inits' \in 0 .. MaxInits
    BY <1>0, <1>2
  <2>5. cloud' \subseteq Resource
    BY <1>1, <1>3 DEF TypeInv
  <2> QED BY <1>0, <1>1, <1>4, <2>2, <2>3, <2>4, <2>5 DEF TypeInv
<1>6. Counted'
  BY <1>0, <1>1 DEF Counted
<1>7. Recorded'
  BY <1>0, <1>1 DEF Recorded, OneEach, Has, Ours, Theirs, User
<1>8. Gathered'
  <2>1. inits' # 0 /\ made' = {} /\ 1 .. at' - 1 = {}
    BY <1>0, <1>2
  <2>2. \A r \in config' : given' /\ r = User(r.kind)
    BY <1>0, UsersAre
  <2>3. Unnamed' => config' = {}
    BY <1>0 DEF Unnamed
  <2> QED BY <1>0, <1>1, <2>1, <2>2, <2>3 DEF Gathered, Has, Ours, Theirs, User
<1>9. Created'
  <2>1. \A q \in cloud' : q.kind = "attach" =>
          backend = "aws_ec2" /\ (q.no <= inits \/ q.no = NamedNo) /\ q.no \in 0 .. NamedNo
    BY <1>1, <1>3, Fields DEF Created, TypeInv
  <2>2. \A q \in cloud' : q.kind = "attach" =>
          (q.no <= inits' \/ q.no = NamedNo) /\ q.no # inits'
    BY <1>0, <1>2, <2>1, NamedIs
  <2> QED BY <1>0, <1>1, <1>2, <2>1, <2>2 DEF Created, Ours
<1>10. UsersThere'
  BY <1>1, <1>3 DEF UsersThere
<1>11. OnItsWay'
  BY <1>0 DEF OnItsWay
<1> QED BY <1>5, <1>6, <1>7, <1>8, <1>9, <1>10, <1>11 DEF VMInv

LEMMA DumpKeeps ==
    ASSUME VMInv, Dump
    PROVE  VMInv'
<1>0. /\ proc = "init" /\ proc' \in {"up", "build"} /\ Steps[at] = "rest" /\ at' = 1
      /\ made' = {} /\ own' = {} /\ cache' = config
      /\ UNCHANGED backend /\ UNCHANGED given /\ UNCHANGED building /\ UNCHANGED config
      /\ UNCHANGED correct /\ UNCHANGED cloud /\ UNCHANGED inits /\ UNCHANGED faults
      /\ UNCHANGED crashes /\ UNCHANGED quitting
  BY DEF Dump, Step
<1>1. /\ TypeInv /\ Counted /\ Recorded /\ Gathered /\ Created /\ UsersThere
      /\ Steps' = Steps /\ Network' = Network /\ Users' = Users /\ Taken' = Taken
      /\ CleanSteps' = CleanSteps /\ Parts' = Parts
  BY <1>0, SameBackend DEF VMInv
<1>2. /\ at = Len(Steps) /\ Len(Steps) \in {6, 7} /\ backend \in Backends
      /\ Taken \subseteq Parts /\ "vpc" \in Parts /\ Taken \subseteq Network
  BY <1>0, <1>1, StepsAre, Networks DEF TypeInv
<1>3. TypeInv'
  BY <1>0, <1>1 DEF TypeInv, OneEach
<1>4. Counted'
  BY <1>0, <1>1 DEF Counted
<1>5. Recorded'
  <2>1. \A k \in Parts : Has(config, k)
    BY <1>0, <1>1, <1>2 DEF Gathered, Unnamed, Parts
  <2>2. config # {}
    BY <1>2, <2>1 DEF Has
  <2>3. Ours(config) \/ Theirs(config)
    <3>1. CASE given
      BY <1>0, <1>1, <1>2, <3>1, UsersAre DEF Gathered, Theirs
    <3>2. CASE ~given /\ (cache = {} \/ Ours(cache))
      BY <1>0, <1>1, <3>2 DEF Gathered
    <3>3. CASE ~given /\ cache # {} /\ Theirs(cache)
      <4> SUFFICES ASSUME NEW k \in Taken
                   PROVE  User(k) \in config
        BY DEF Theirs
      <4>1. The(config, k) \in config /\ The(config, k).kind = k
        BY <1>2, <2>1, TheIs
      <4> QED BY <1>0, <1>1, <3>3, <4>1 DEF Gathered
    <3> QED BY <1>1, <3>1, <3>2, <3>3 DEF Recorded
  <2>4. OneEach(config)
    BY <1>1 DEF TypeInv
  <2> QED BY <1>0, <1>1, <2>1, <2>2, <2>3, <2>4 DEF Recorded, OneEach, Has, Ours, Theirs, User
<1>6. Gathered'
  BY <1>0 DEF Gathered
<1>7. Created'
  BY <1>0, <1>1 DEF Created, Ours
<1>8. UsersThere'
  BY <1>0, <1>1 DEF UsersThere
<1>9. OnItsWay'
  BY <1>0 DEF OnItsWay
<1> QED BY <1>3, <1>4, <1>5, <1>6, <1>7, <1>8, <1>9 DEF VMInv

-----------------------------------------------------------------------------
(* What the steps of a client after init() have in common.                 *)

\* Nothing of the user's network is lost, the VPC that has a name only to a clean()
\* of it, and nothing of a network is new.
CloudFine ==
  /\ Users \subseteq cloud'
  /\ NamedVpc \in cloud \ cloud' => proc = "clean" /\ RecordsNamed
  /\ \A r \in cloud' \ cloud : r \in Resource /\ r.kind \notin Network \cup {"attach"}

Steady ==
  /\ UNCHANGED backend /\ UNCHANGED inits /\ given' \in BOOLEAN /\ quitting' \in BOOLEAN
  /\ building' \in {"no", "new", "kept"} /\ crashes' \in 0 .. MaxCrashes /\ FaultsGo
  /\ proc' \in {"idle", "up", "build", "clean", "retry", "waiting"}
  /\ config' = config \/ config' = {}
  /\ own' = {} /\ made' = {}
  /\ CloudFine
  /\ cache' = cache \/ (cache' = {} /\ proc' = "idle")
  /\ proc' \in {"up", "build", "clean", "retry"} => cache # {}
  /\ at' \in 1 .. 8
  /\ proc' = "build" => at' <= 6
  /\ proc' = "clean" => at' <= Len(CleanSteps)
  /\ proc' = "retry" => at' = 1
  /\ Counted' /\ OnItsWay'

LEMMA SteadyKeeps ==
    ASSUME VMInv, Steady
    PROVE  VMInv'
<1>1. /\ TypeInv /\ Recorded /\ Created /\ UsersThere
      /\ Steps' = Steps /\ Network' = Network /\ Users' = Users /\ Taken' = Taken
      /\ CleanSteps' = CleanSteps /\ Parts' = Parts
  BY SameBackend DEF VMInv, Steady
<1>2. TypeInv'
  <2>1. OneEach(config)'
    BY <1>1 DEF Steady, TypeInv, OneEach
  <2>2. config' \subseteq Resource /\ cache' \subseteq Resource
    BY <1>1 DEF Steady, TypeInv
  <2>3. cloud' \subseteq Resource
    BY <1>1 DEF Steady, CloudFine, TypeInv
  <2>4. faults' \in 0 .. MaxFaults
    BY <1>1, FaultsBound DEF Steady
  <2> QED BY <1>1, <2>1, <2>2, <2>3, <2>4 DEF Steady, TypeInv
<1>3. Recorded'
  BY <1>1 DEF Steady, Recorded, OneEach, Has, Ours, Theirs, User
<1>4. Gathered'
  BY DEF Steady, Gathered
<1>5. Created'
  BY <1>1 DEF Steady, CloudFine, Created, Ours
<1>6. UsersThere'
  BY <1>1 DEF Steady, CloudFine, UsersThere
<1> QED BY <1>2, <1>3, <1>4, <1>5, <1>6 DEF VMInv, Steady

Frame == UNCHANGED <<backend, given, building, inits, crashes, quitting>>

\* The client is at rest.
LEMMA RestSteady ==
    ASSUME VMInv, Rest, FaultsGo, CloudFine, cache' \in {cache, {}},
           UNCHANGED <<backend, given, building, inits, quitting>>,
           crashes' \in 0 .. MaxCrashes
    PROVE  Steady
BY DEF VMInv, TypeInv, Rest, Steady, Counted, OnItsWay

-----------------------------------------------------------------------------
(* The rollback. *)

\* Of what is flagged and named, and of the attachments of its gateways, all was
\* created by this init(), and nothing is the user's.
LEMMA RemovesOwn ==
    ASSUME VMInv, proc = "rollback", NEW k, RolledBack(k)
    PROVE  /\ cloud \cap Remove(The(config, k)) \subseteq own
           /\ Users \cap Remove(The(config, k)) = {}
<1> DEFINE r == The(config, k)
<1>1. /\ TypeInv /\ Created
      /\ r \in config /\ r.kind = k /\ k \in made /\ r \in own
  <2>1. r \in config /\ r.kind = k /\ k \in made
    BY TheIs DEF RolledBack
  <2> QED BY <2>1 DEF VMInv, Created
<1>2. \A q \in own : q \notin Users
  BY <1>1, UsersAre DEF Created, Ours
<1>3. ASSUME NEW q \in cloud, q.kind = "attach", r.kind = "gateway", q.no = r.no
      PROVE  q \in own
  <2>1. backend = "aws_ec2"
    BY <1>1, <1>3 DEF Created
  <2>2. r.no = inits
    BY <1>1, <1>3, <2>1 DEF Created
  <2> QED BY <1>1, <1>3, <2>2 DEF Created
<1>4. \A q \in Users : q.kind # "attach"
  BY <1>1, UsersAre, Networks DEF TypeInv
<1> HIDE DEF r
<1>5. Remove(r) = {r} \cup (IF r.kind = "gateway"
                            THEN {q \in cloud : q.kind = "attach" /\ q.no = r.no} ELSE {})
  BY DEF Remove
<1>6. cloud \cap Remove(r) \subseteq own /\ Users \cap Remove(r) = {}
  BY <1>1, <1>2, <1>3, <1>4, <1>5
<1> QED BY <1>6 DEF r

LEMMA RollbackKeeps ==
    ASSUME VMInv, NEW order, Len(order) \in 0 .. 6, Rollback(order)
    PROVE  VMInv' /\ cloud \ cloud' \subseteq own
<1>0. proc = "rollback" /\ Frame
  BY DEF Rollback, Frame
<1>1. /\ TypeInv /\ Counted /\ Recorded /\ Created /\ UsersThere /\ backend \in Backends
  BY DEF VMInv, TypeInv
<1>2. CASE ForgetFile /\ Rest /\ UNCHANGED <<cloud, faults>>
  <2>1. Steady
    <3>1. CloudFine /\ FaultsGo
      BY <1>1, <1>2 DEF CloudFine, FaultsGo, UsersThere
    <3> QED BY <1>0, <1>1, <1>2, <3>1, RestSteady DEF Frame, TypeInv, ForgetFile
  <2> QED BY <1>2, <2>1, SteadyKeeps
<1>3. ASSUME at <= Len(order), at' = at + 1, FaultsGo,
             UNCHANGED <<proc, config, made, own, correct, cache>>,
             \/ cloud' = cloud
             \/ RolledBack(order[at]) /\ cloud' = cloud \ Remove(The(config, order[at]))
      PROVE  VMInv' /\ cloud \ cloud' \subseteq own
  <2>0. /\ UNCHANGED proc /\ UNCHANGED config /\ UNCHANGED made /\ UNCHANGED own
        /\ UNCHANGED correct /\ UNCHANGED cache /\ UNCHANGED backend /\ UNCHANGED inits
        /\ Network' = Network /\ Users' = Users /\ Taken' = Taken /\ Parts' = Parts
    BY <1>0, <1>3, SameBackend DEF Frame
  <2>1. cloud' \subseteq cloud /\ Users \subseteq cloud' /\ cloud \ cloud' \subseteq own
    BY <1>0, <1>1, <1>3, RemovesOwn DEF UsersThere
  <2>2. TypeInv'
    <3>1. at' \in 1 .. 8
      <4>1. PICK n \in 0 .. 6 : Len(order) = n
        OBVIOUS
      <4>2. at \in 1 .. 8 /\ at <= n /\ at' = at + 1
        BY <1>1, <1>3, <4>1 DEF TypeInv
      <4> QED BY <4>2
    <3>2. faults' \in 0 .. MaxFaults
      BY <1>1, <1>3, FaultsBound
    <3>3. cloud' \subseteq Resource
      BY <1>1, <2>1 DEF TypeInv
    <3>4. OneEach(config)'
      BY <1>1, <2>0 DEF TypeInv, OneEach
    <3> QED BY <1>0, <1>1, <2>0, <3>1, <3>2, <3>3, <3>4 DEF TypeInv, Frame
  <2>3. Counted' /\ Recorded' /\ Gathered' /\ OnItsWay'
    BY <1>0, <1>1, <2>0 DEF Counted, Recorded, Gathered, OnItsWay, OneEach, Has, Ours,
                            Theirs, User
  <2>4. Created'
    BY <1>0, <1>1, <2>0, <2>1 DEF Created, Ours
  <2>5. UsersThere'
    BY <1>1, <2>0, <2>1 DEF UsersThere
  <2> QED BY <2>1, <2>2, <2>3, <2>4, <2>5 DEF VMInv
<1>4. CASE at <= Len(order) /\ RolledBack(order[at])
  <2> DEFINE r == The(config, order[at])
  <2>1. at > Len(order) => FALSE
    BY <1>1, <1>4 DEF TypeInv
  <2>2. /\ at' = at + 1 /\ UNCHANGED <<proc, config, made, own, correct, cache>>
        /\ \/ cloud' = cloud /\ FaultsGo
           \/ cloud' = cloud \ Remove(r) /\ FaultsGo
    BY <1>4, <2>1 DEF Rollback, FaultsGo
  <2> QED BY <1>3, <1>4, <2>2
<1>5. CASE at <= Len(order) /\ ~RolledBack(order[at])
  <2>1. at > Len(order) => FALSE
    BY <1>1, <1>5 DEF TypeInv
  <2>2. /\ at' = at + 1 /\ UNCHANGED <<proc, config, made, own, correct, cache>>
        /\ cloud' = cloud /\ FaultsGo
    BY <1>5, <2>1 DEF Rollback, FaultsGo
  <2> QED BY <1>3, <1>5, <2>2
<1>6. CASE at > Len(order)
  BY <1>1, <1>2, <1>6 DEF Rollback, TypeInv
<1>7. at > Len(order) \/ at <= Len(order)
  BY <1>1 DEF TypeInv
<1> QED BY <1>2, <1>4, <1>5, <1>6, <1>7

LEMMA RollbacksKeep ==
    ASSUME VMInv, AwsRollback \/ IbmRollback \/ GcpRollback \/ AzureRollback
    PROVE  VMInv' /\ cloud \ cloud' \subseteq own
<1>1. CASE AwsRollback
  BY <1>1, RollbackKeeps DEF AwsRollback
<1>2. CASE IbmRollback
  BY <1>2, RollbackKeeps DEF IbmRollback
<1>3. CASE GcpRollback
  BY <1>3, RollbackKeeps DEF GcpRollback
<1>4. CASE AzureRollback
  BY <1>4, RollbackKeeps DEF AzureRollback
<1> QED BY <1>1, <1>2, <1>3, <1>4

-----------------------------------------------------------------------------
(* Sessions and builds. *)

\* A step of a session or of a build that is not its end.
LEMMA OnSteady ==
    ASSUME VMInv, proc \in {"up", "build"}, Frame, FaultsGo, CloudFine,
           UNCHANGED <<proc, config, made, correct, own, cache>>,
           at' \in 1 .. 6, OnItsWay'
    PROVE  Steady
<1>1. TypeInv /\ Counted /\ Recorded /\ Created
  BY DEF VMInv
<1>2. Counted'
  BY <1>1 DEF Counted
<1>3. cache # {}
  BY <1>1 DEF Recorded
<1> QED BY <1>1, <1>2, <1>3 DEF Steady, Frame, TypeInv, Created

LEMMA NewNames ==
    ASSUME VMInv
    PROVE  /\ \A k \in VMs \cup {"stray"} :
                VM(k) \in Resource /\ VM(k).kind \notin Network \cup {"attach"}
           /\ New("fip") \in Resource /\ New("fip").kind \notin Network \cup {"attach"}
           /\ Image \in Resource /\ Image.kind \notin Network \cup {"attach"}
           /\ \A r \in Users \cup {NamedVpc} : r.kind \notin VMs \cup {"image"}
<1>1. TypeInv /\ backend \in Backends
  BY DEF VMInv, TypeInv
<1>2. \A k \in {"master", "worker", "builder", "halted", "image", "stray", "fip", "attach"} :
         k \in Kinds /\ k \notin Network
  BY <1>1, Networks DEF Kinds
<1>3. \A k \in VMs \cup {"stray"} : k \in Kinds /\ k \notin Network \cup {"attach"}
  BY <1>2 DEF VMs, Roles, Builders
<1>4. Image \in Resource /\ Image.kind = "image"
  BY <1>1, <1>2, NamedIs DEF Image, Resource, TypeInv
<1>5. \A r \in Users : r.kind \in Network
  BY UsersAre
<1>6. \A k \in VMs \cup {"stray"} : VM(k) \in Resource /\ VM(k).kind = k
  BY <1>1, <1>3, VMIs
<1>7. New("fip") \in Resource /\ New("fip").kind = "fip"
  BY <1>1, <1>2, VpcNoIs, NamedIs DEF New, Resource, TypeInv
<1>8. NamedVpc.kind \notin VMs \cup {"image"}
  BY NamedIs DEF VMs, Roles, Builders
<1> QED BY <1>2, <1>3, <1>4, <1>5, <1>6, <1>7, <1>8

LEMMA AddsFine ==
    ASSUME VMInv, NEW r \in Resource, r.kind \notin Network \cup {"attach"},
           cloud' = cloud \cup {r}
    PROVE  CloudFine
<1>1. Users \subseteq cloud
  BY DEF VMInv, UsersThere
<1> QED BY <1>1 DEF CloudFine

LEMMA LosesFine ==
    ASSUME VMInv, NEW S, cloud' = cloud \ S, S \cap Users = {},
           NamedVpc \in S => proc = "clean" /\ RecordsNamed
    PROVE  CloudFine
<1>1. Users \subseteq cloud
  BY DEF VMInv, UsersThere
<1> QED BY <1>1 DEF CloudFine

LEMMA SameFine ==
    ASSUME VMInv, cloud' = cloud
    PROVE  CloudFine
BY DEF VMInv, UsersThere, CloudFine

LEMMA SessionSteady ==
    ASSUME VMInv, Session
    PROVE  Steady
<1>0. proc = "up" /\ UNCHANGED <<backend, given, building, client, cache, inits, crashes, quitting>>
  BY DEF Session, AwsCreateInstance, IbmCreateInstance, GcpCreateInstance,
         AzureCreateInstance, Creating, Dismantle
<1>1. TypeInv
  BY DEF VMInv
<1>2. FaultsGo /\ CloudFine
  <2>1. CASE Dismantle
    <3>1. FaultsGo
      BY <2>1 DEF Dismantle, FaultsGo
    <3>2. cloud' = cloud \/ cloud' = cloud \ {r \in cloud : r.kind = "worker" /\ r = VM("worker")}
      BY <2>1 DEF Dismantle
    <3>3. \A r \in Users \cup {NamedVpc} : r.kind # "worker"
      BY NewNames DEF VMs, Roles
    <3> QED BY <3>1, <3>2, <3>3, SameFine, LosesFine
  <2>2. CASE AwsCreateInstance \/ IbmCreateInstance \/ GcpCreateInstance \/ AzureCreateInstance
    <3>1. FaultsGo /\ \E k \in Roles \cup {"stray"} : cloud' \in {cloud, cloud \cup {VM(k)}}
      BY <2>2 DEF AwsCreateInstance, IbmCreateInstance, GcpCreateInstance,
                  AzureCreateInstance, FaultsGo, Stray
    <3>2. Roles \subseteq VMs
      BY DEF VMs
    <3> QED BY <3>1, <3>2, NewNames, SameFine, AddsFine
  <2> QED BY <2>1, <2>2 DEF Session
<1>3. Steady
  <2>1. UNCHANGED <<proc, config, made, correct, own, cache>> /\ at' = at
    BY <1>0 DEF client
  <2>2. VMInv => Counted /\ Recorded /\ Created
    BY DEF VMInv
  <2>3. Counted'
    BY <1>0, <2>1, <2>2 DEF Counted
  <2>4. cache # {} /\ own = {} /\ made = {}
    BY <1>0, <2>2 DEF Recorded, Created
  <2>5. OnItsWay'
    BY <1>0, <2>1 DEF OnItsWay
  <2>6. at' \in 1 .. 8 /\ proc' = "up"
    BY <1>0, <1>1, <2>1 DEF TypeInv
  <2> QED BY <1>0, <1>1, <1>2, <2>1, <2>3, <2>4, <2>5, <2>6 DEF Steady, TypeInv
<1> QED BY <1>3

LEMMA BuilderIs ==
    ASSUME VMInv, proc = "build", at > 2
    PROVE  /\ Builder \in cloud /\ Builder.kind \in Builders
           /\ backend = "gcp_compute_engine" \/ Builder.no = inits
<1>1. \E r \in cloud : r.kind \in Builders /\ (backend = "gcp_compute_engine" \/ r.no = inits)
  BY DEF VMInv, OnItsWay
<1> QED BY <1>1 DEF Builder

LEMMA BuilderLeaves ==
    ASSUME VMInv, proc = "build", at > 2, cloud' = cloud \ {Builder}
    PROVE  CloudFine
<1>1. Builder.kind \in VMs
  BY BuilderIs DEF VMs
<1>2. {Builder} \cap (Users \cup {NamedVpc}) = {}
  BY <1>1, NewNames
<1> QED BY <1>2, LosesFine

\* The VM of a build is there after a step that keeps it, or stops it.
LEMMA BuildStepSteady ==
    ASSUME VMInv, proc = "build", Frame, NextBuildStep, FaultsGo, CloudFine, at < 6,
           at > 1 => \E r \in cloud' : /\ r.kind \in Builders
                                       /\ backend = "gcp_compute_engine" \/ r.no = inits
    PROVE  Steady
<1>1. /\ UNCHANGED <<proc, config, made, correct, own, cache>> /\ at' = at + 1
      /\ UNCHANGED backend /\ UNCHANGED inits
  BY DEF NextBuildStep, Frame
<1>2. at \in 1 .. 5 /\ at' \in 1 .. 6
  BY <1>1 DEF VMInv, TypeInv
<1>3. OnItsWay'
  BY <1>1, <1>2 DEF OnItsWay
<1> QED BY <1>1, <1>2, <1>3, OnSteady

LEMMA BuildRaisesSteady ==
    ASSUME VMInv, Frame, BuildRaises, FaultsGo, CloudFine
    PROVE  Steady
<1>1. crashes' \in 0 .. MaxCrashes
  BY DEF VMInv, TypeInv, Frame
<1> QED BY <1>1, RestSteady DEF Frame, BuildRaises

LEMMA BuildSteady ==
    ASSUME VMInv, Build
    PROVE  Steady
<1>0. /\ Frame /\ proc = "build" /\ at \in 1 .. 6
  BY DEF Build, Frame, BuildAddress, BuildVM, BuildSetup, BuildStop, BuildImage, BuildEnd,
         Building, VMInv, TypeInv
<1>a. /\ BuildSteps[1] = "address" /\ BuildSteps[2] = "vm" /\ BuildSteps[3] = "setup"
      /\ BuildSteps[4] = "stop" /\ BuildSteps[5] = "image" /\ BuildSteps[6] = "end"
  BY DEF BuildSteps
<1>b. at > 2 => /\ Builder \in cloud /\ Builder.kind \in Builders
                /\ backend = "gcp_compute_engine" \/ Builder.no = inits
  BY <1>0, BuilderIs
<1>1. CASE BuildAddress
  <2>0. at = 1
    BY <1>0, <1>1, <1>a DEF BuildAddress, Building
  <2>1. FaultsGo /\ cloud' \in {cloud, cloud \cup {New("fip")}}
    BY <1>1 DEF BuildAddress, FaultsGo
  <2>2. CloudFine
    BY <2>1, NewNames, SameFine, AddsFine
  <2> QED BY <1>0, <1>1, <2>0, <2>1, <2>2, BuildStepSteady, BuildRaisesSteady DEF BuildAddress
<1>2. CASE BuildVM
  <2>0. at = 2
    BY <1>0, <1>2, <1>a DEF BuildVM, Building
  <2>1. FaultsGo /\ cloud' \in {cloud, cloud \cup {VM("builder")}}
    BY <1>2 DEF BuildVM, FaultsGo
  <2>2. VM("builder").kind = "builder" /\ VM("builder").no = inits
    BY DEF VM
  <2>3. CloudFine
    BY <2>1, NewNames, SameFine, AddsFine DEF VMs, Builders
  <2>4. BuildRaises \/ /\ NextBuildStep
                       /\ \E r \in cloud' : /\ r.kind \in Builders
                                            /\ backend = "gcp_compute_engine" \/ r.no = inits
    <3>1. CASE backend = "gcp_compute_engine" /\ Left /\ NextBuildStep /\ UNCHANGED <<cloud, faults>>
      BY <3>1 DEF Left
    <3>2. CASE cloud' = cloud \cup {VM("builder")} /\ NextBuildStep
      BY <2>2, <3>2 DEF Builders
    <3> QED BY <1>2, <3>1, <3>2 DEF BuildVM
  <2> QED BY <1>0, <2>0, <2>1, <2>3, <2>4, BuildStepSteady, BuildRaisesSteady
<1>3. CASE BuildSetup
  <2>0. at = 3
    BY <1>0, <1>3, <1>a DEF BuildSetup, Building
  <2>1. FaultsGo /\ cloud' = cloud
    BY <1>3 DEF BuildSetup, FaultsGo
  <2>2. CloudFine
    BY <2>1, SameFine
  <2>3. BuildRaises \/ NextBuildStep
    BY <1>3 DEF BuildSetup
  <2> QED BY <1>0, <1>b, <2>0, <2>1, <2>2, <2>3, BuildStepSteady, BuildRaisesSteady
<1>4. CASE BuildStop
  <2> DEFINE halted == [Builder EXCEPT !.kind = "halted"]
             stopped == (cloud \ {Builder}) \cup {halted}
  <2>0. at = 4
    BY <1>0, <1>4, <1>a DEF BuildStop, Building
  <2>1. FaultsGo /\ cloud' \in {cloud, stopped} /\ (BuildRaises \/ (NextBuildStep /\ cloud' = stopped))
    BY <1>4 DEF BuildStop, FaultsGo
  <2>2. halted.kind = "halted" /\ halted.no = Builder.no /\ halted \in Resource
    <3>1. Builder \in Resource
      BY <1>b, <2>0 DEF VMInv, TypeInv
    <3>2. "halted" \in Kinds
      BY DEF Kinds
    <3> QED BY <3>1, <3>2 DEF Resource
  <2>3. CloudFine
    <3>1. "halted" \notin Network \cup {"attach"}
      BY Networks DEF VMInv, TypeInv
    <3>2. Builder \notin Users \cup {NamedVpc} /\ Users \subseteq cloud
      <4>1. Builder.kind \in VMs
        BY <1>b, <2>0 DEF VMs
      <4> QED BY <4>1, NewNames DEF VMInv, UsersThere
    <3> QED BY <2>1, <2>2, <3>1, <3>2 DEF CloudFine
  <2>4. cloud' = stopped => \E r \in cloud' : /\ r.kind \in Builders
                                              /\ backend = "gcp_compute_engine" \/ r.no = inits
    <3>1. halted \in stopped /\ halted.kind \in Builders
      BY <2>2 DEF Builders
    <3>2. backend = "gcp_compute_engine" \/ halted.no = inits
      BY <1>b, <2>0, <2>2
    <3> HIDE DEF halted, stopped
    <3> QED BY <3>1, <3>2
  <2> QED BY <1>0, <2>0, <2>1, <2>3, <2>4, BuildStepSteady, BuildRaisesSteady
<1>5. CASE BuildImage
  <2>0. at = 5
    BY <1>0, <1>5, <1>a DEF BuildImage, Building
  <2>1. FaultsGo /\ cloud' \in {cloud, cloud \cup {Image}} /\ (BuildRaises \/ NextBuildStep)
    BY <1>5 DEF BuildImage, FaultsGo
  <2>2. CloudFine
    BY <2>1, NewNames, SameFine, AddsFine
  <2> QED BY <1>0, <1>b, <2>0, <2>1, <2>2, BuildStepSteady, BuildRaisesSteady
<1>6. CASE BuildEnd
  <2>0. at = 6
    BY <1>0, <1>6, <1>a DEF BuildEnd, Building
  <2>1. CASE BuildRaises
    <3>1. FaultsGo /\ cloud' \in {cloud, cloud \ {Builder}}
      BY <1>0, <1>6, <2>1 DEF BuildEnd, FaultsGo, BuildRaises, Rest
    <3>2. CloudFine
      BY <1>0, <2>0, <3>1, SameFine, BuilderLeaves
    <3> QED BY <1>0, <2>1, <3>1, <3>2, BuildRaisesSteady
  <2>2. CASE /\ proc' = "clean" /\ at' = 1 /\ correct' = 0
             /\ UNCHANGED <<config, made, own, cache, cloud, faults>>
    <3>1. CloudFine /\ FaultsGo
      BY <2>2, SameFine DEF FaultsGo
    <3>2. cache # {} /\ own = {} /\ made = {} /\ TypeInv
      BY <1>0 DEF VMInv, Recorded, Created
    <3>3. Counted' /\ OnItsWay'
      BY <2>2 DEF Counted, OnItsWay
    <3>4. 1 <= Len(CleanSteps)
      BY <3>2, CleanStepsAre DEF TypeInv
    <3> QED BY <1>0, <2>2, <3>1, <3>2, <3>3, <3>4 DEF Steady, Frame, TypeInv
  <2> QED BY <1>6, <2>1, <2>2 DEF BuildEnd
<1> QED BY <1>1, <1>2, <1>3, <1>4, <1>5, <1>6 DEF Build

-----------------------------------------------------------------------------
(* clean(). *)

\* What clean() deletes at a step of its own is never the user's.
LEMMA TargetIs ==
    ASSUME VMInv, proc = "clean", CleanSteps[at] \notin {"vms", "file"}
    PROVE  /\ Target \notin Users
           /\ \A r \in Users : ~IsTarget(r)
           /\ Target = NamedVpc \/ IsTarget(NamedVpc) => RecordsNamed
<1> DEFINE k == CleanSteps[at]
<1>1. /\ TypeInv /\ Recorded /\ UsersThere /\ backend \in Backends /\ cache # {}
      /\ at \in 1 .. Len(CleanSteps) /\ (Provided => at = 1 \/ at >= KeyStep)
  BY DEF VMInv, TypeInv, Recorded, OnItsWay
<1>2. k \in {"detach"} \cup Parts /\ at # 1 /\ (k = "detach" => backend = "aws_ec2")
  BY <1>1, CleanStepsAre
<1>3. CASE k = "detach"
  <2>1. Target = [The(cache, "gateway") EXCEPT !.kind = "attach"]
    BY <1>3 DEF Target
  <2>2. The(cache, "gateway") \in Resource
    <3>1. "gateway" \in Taken /\ Taken \subseteq Parts
      BY <1>1, <1>2, <1>3, StepsAre DEF Taken, Network
    <3> QED BY <1>1, <3>1, TheIs DEF Recorded, TypeInv
  <2>3. Target.kind = "attach"
    BY <2>1, <2>2 DEF Resource
  <2>4. "attach" \notin Network
    BY <1>1, Networks
  <2> QED BY <2>3, <2>4, UsersAre, NamedIs DEF IsTarget
<1>4. CASE k # "detach"
  <2>1. Target = The(cache, k)
    BY <1>4 DEF Target
  <2>2. Has(cache, k)
    BY <1>1, <1>2, <1>4 DEF Recorded
  <2>3. Target \in cache /\ Target.kind = k
    BY <2>1, <2>2, TheIs
  <2>0. Target = NamedVpc \/ IsTarget(NamedVpc) => RecordsNamed
    BY <2>1, <2>2, <2>3, NamedIs DEF IsTarget, RecordsNamed
  <2>4. CASE k \notin Network
    BY <2>0, <2>3, <2>4, UsersAre DEF IsTarget
  <2>5. CASE k \in Network
    <3>1. KeyStep \in 2 .. Len(CleanSteps) /\ k # "key"
      BY <1>1, <2>5, Networks, CleanStepsAre
    <3>2. at < KeyStep
      <4>1. \A i \in KeyStep .. Len(CleanSteps) : CleanSteps[i] \in {"key", "file"}
        BY <1>1, CleanStepsAre
      <4>2. at \in KeyStep .. Len(CleanSteps) => FALSE
        BY <3>1, <4>1
      <4>3. PICK n \in 2 .. 8 : KeyStep = n
        BY <1>1, <3>1, CleanStepsAre
      <4>4. PICK m \in {6, 7, 8} : Len(CleanSteps) = m
        BY <1>1, CleanStepsAre
      <4> QED BY <1>1, <4>2, <4>3, <4>4
    <3>3. ~Provided
      BY <1>1, <1>2, <3>1, <3>2
    <3>4. "vpc" \in Taken
      BY <1>1, Networks
    <3>5. ~Theirs(cache)
      BY <1>1, <3>3, <3>4, TheirsHas, UsersAre DEF Provided
    <3>6. Target.no # 0
      BY <1>1, <2>3, <2>5, <3>5 DEF Recorded, Ours
    <3> QED BY <2>0, <3>6, UsersAre DEF IsTarget
  <2> QED BY <2>4, <2>5
<1> QED BY <1>3, <1>4

\* A step of clean() goes on to the next.
LEMMA OnwardSteady ==
    ASSUME VMInv, proc = "clean", CleanSteps[at] # "file", Frame, Onward, FaultsGo, CloudFine,
           \/ correct' = correct
           \/ /\ correct' = correct + 1 /\ backend = "aws_ec2"
              /\ CleanSteps[at] \notin {"vms", "key"}
    PROVE  Steady
<1>1. /\ TypeInv /\ Counted /\ Created /\ backend \in Backends /\ cache # {}
      /\ at \in 1 .. Len(CleanSteps) /\ (Provided => at = 1 \/ at >= KeyStep)
  BY DEF VMInv, TypeInv, Recorded, OnItsWay
<1>2. /\ UNCHANGED <<proc, config, made, own, cache>>
      /\ UNCHANGED <<backend, given, building, inits, crashes, quitting>>
      /\ at' = IF Skipped THEN KeyStep ELSE at + 1
  BY DEF Onward, Frame
<1>3. PICK m \in {6, 7, 8} : m = Len(CleanSteps)
  BY <1>1, CleanStepsAre
<1>4. PICK n : n = KeyStep
  OBVIOUS
<1>5. n \in 2 .. m /\ at \in 1 .. m - 1 /\ (Skipped => at = 1)
  BY <1>1, <1>3, <1>4, CleanStepsAre DEF Skipped
<1>6. Provided /\ at = 1 => Skipped
  BY <1>1, CleanStepsAre DEF Skipped
<1>7. /\ at' \in 2 .. m /\ at' >= at + 1
      /\ Provided => at' >= n
  BY <1>1, <1>2, <1>4, <1>5, <1>6
<1>8. OnItsWay'
  <2>1. KeyStep' = KeyStep /\ Provided' = Provided
    BY <1>2, SameBackend DEF Provided
  <2> QED BY <1>1, <1>2, <1>4, <1>7, <2>1 DEF OnItsWay
<1>9. Counted'
  <2>1. CASE correct' = correct
    BY <1>1, <1>2, <1>5, <1>7, <2>1 DEF Counted
  <2>2. CASE correct' = correct + 1 /\ backend = "aws_ec2" /\ CleanSteps[at] \notin {"vms", "key"}
    <3>1. n = 7
      BY <1>1, <1>4, <2>2, CleanStepsAre
    <3>2. at # 1 /\ ~(at \in n .. m)
      BY <1>1, <1>3, <1>4, <2>2, CleanStepsAre
    <3>3. at \in 2 .. 6
      BY <1>3, <1>5, <3>1, <3>2
    <3>4. correct \in 0 .. 5 /\ (correct = 0 \/ correct <= at - 2)
      BY <1>1 DEF Counted
    <3>5. at' \in Int /\ at' >= at + 1 /\ correct' = correct + 1
      BY <1>7, <2>2
    <3>6. PICK c \in 0 .. 5 : c = correct
      BY <3>4
    <3>7. PICK i \in 2 .. 6 : i = at
      BY <3>3
    <3>8. c + 1 <= i - 1
      BY <3>4, <3>6, <3>7
    <3>9. PICK j \in Int : j = at'
      BY <3>5
    <3>10. j >= i + 1
      BY <3>5, <3>7, <3>9
    <3>11. c + 1 \in 0 .. 5 /\ c + 1 <= j - 2
      BY <3>6, <3>7, <3>8, <3>10
    <3>12. correct' = c + 1
      BY <3>5, <3>6
    <3>13. correct' \in 0 .. 5 /\ correct' <= at' - 2
      BY <3>9, <3>11, <3>12
    <3> QED BY <1>2, <3>13 DEF Counted
  <2> QED BY <2>1, <2>2
<1>10. own = {} /\ made = {}
  BY <1>1 DEF Created
<1>11. at' \in 1 .. 8 /\ at' <= Len(CleanSteps)
  BY <1>3, <1>7
<1> QED BY <1>1, <1>2, <1>8, <1>9, <1>10, <1>11 DEF Steady, TypeInv

LEMMA UnfinishedSteady ==
    ASSUME VMInv, proc = "clean", Frame, FaultsGo, CloudFine, Unfinished \/ GiveUp
    PROVE  Steady
<1>1. CASE GiveUp
  BY <1>1, RestSteady DEF GiveUp, Frame, VMInv, TypeInv
<1>2. CASE proc' = "retry" /\ at' = 1 /\ correct' = 0 /\ UNCHANGED <<config, made, own, cache>>
  <2>1. TypeInv /\ cache # {} /\ own = {} /\ made = {}
    BY DEF VMInv, Recorded, Created
  <2>2. Counted' /\ OnItsWay'
    BY <1>2 DEF Counted, OnItsWay
  <2> QED BY <1>2, <2>1, <2>2 DEF Steady, Frame, TypeInv
<1> QED BY <1>1, <1>2 DEF Unfinished

LEMMA CleanSteady ==
    ASSUME VMInv, CleanStep
    PROVE  Steady
<1>0. Frame
  BY DEF CleanStep, Frame
<1>1. CASE CleanAgain
  <2>0. /\ proc = "retry" /\ proc' = "clean"
        /\ UNCHANGED at /\ UNCHANGED config /\ UNCHANGED made /\ UNCHANGED correct
        /\ UNCHANGED own /\ UNCHANGED cache /\ UNCHANGED cloud /\ UNCHANGED faults
        /\ UNCHANGED backend
    BY <1>0, <1>1 DEF CleanAgain, Frame
  <2>1. /\ TypeInv /\ backend \in Backends /\ cache # {} /\ own = {} /\ made = {}
        /\ at = 1 /\ correct = 0
    BY <2>0 DEF VMInv, TypeInv, Recorded, Created, Counted
  <2>2. CloudFine /\ FaultsGo
    BY <2>0, SameFine DEF FaultsGo
  <2>3. Counted' /\ OnItsWay'
    BY <2>0, <2>1 DEF Counted, OnItsWay
  <2>4. 1 <= Len(CleanSteps)
    BY <2>1, CleanStepsAre
  <2> QED BY <1>0, <2>0, <2>1, <2>2, <2>3, <2>4 DEF Steady, Frame, TypeInv
<1>2. CASE DeleteFile
  <2>1. CloudFine /\ FaultsGo
    BY <1>2, SameFine DEF DeleteFile, FaultsGo
  <2> QED BY <1>0, <1>2, <2>1, RestSteady DEF DeleteFile, Frame, VMInv, TypeInv
<1> DEFINE k == CleanSteps[at]
<1>3. CASE AwsDeleteVms \/ IbmDeleteVms \/ GcpDeleteVms \/ AzureDeleteVms
  <2>0. proc = "clean" /\ k = "vms"
    BY <1>3 DEF AwsDeleteVms, IbmDeleteVms, GcpDeleteVms, AzureDeleteVms, Cleaning
  <2>1. CASE VmsGone
    <3>1. VmsOf \cap (Users \cup {NamedVpc}) = {}
      BY NewNames DEF VmsOf
    <3>2. CloudFine
      BY <2>1, <3>1, LosesFine DEF VmsGone
    <3> QED BY <1>0, <2>0, <2>1, <3>2, OnwardSteady DEF VmsGone, FaultsGo
  <2>2. CASE Fault /\ UNCHANGED cloud /\ (GiveUp \/ Unfinished)
    BY <1>0, <2>0, <2>2, SameFine, UnfinishedSteady DEF FaultsGo
  <2>3. CASE /\ Fault /\ proc' = "waiting"
             /\ UNCHANGED <<at, config, made, own, correct, cache, cloud>>
    <3>1. TypeInv /\ own = {} /\ made = {} /\ at = 1 /\ Counted
      <4>1. TypeInv /\ own = {} /\ made = {} /\ Counted
        BY <2>0 DEF VMInv, Created
      <4> QED BY <2>0, <4>1, CleanStepsAre DEF TypeInv
    <3>2. correct = 0
      BY <2>0, <3>1 DEF Counted
    <3>3. Counted' /\ OnItsWay'
      BY <2>3, <3>1, <3>2 DEF Counted, OnItsWay
    <3>4. CloudFine /\ FaultsGo
      BY <2>3, SameFine DEF FaultsGo
    <3> QED BY <1>0, <2>3, <3>1, <3>3, <3>4 DEF Steady, Frame, TypeInv
  <2> QED BY <1>3, <2>1, <2>2, <2>3
          DEF AwsDeleteVms, IbmDeleteVms, GcpDeleteVms, AzureDeleteVms
<1>4. CASE AwsDeleteVpc
  <2>0. proc = "clean" /\ backend = "aws_ec2" /\ k \notin {"vms", "key", "file"} /\ Onward
    BY <1>4 DEF AwsDeleteVpc, Cleaning
  <2>1. \/ UNCHANGED cloud
        \/ \E r \in cloud : IsTarget(r) /\ cloud' = cloud \ {r}
    BY <1>4 DEF AwsDeleteVpc
  <2>2. CloudFine
    <3>1. ASSUME NEW r \in cloud, IsTarget(r), cloud' = cloud \ {r}
          PROVE  CloudFine
      <4>1. {r} \cap Users = {} /\ (NamedVpc \in {r} => RecordsNamed)
        BY <2>0, <3>1, TargetIs
      <4> QED BY <2>0, <3>1, <4>1, LosesFine
    <3> QED BY <2>1, <3>1, SameFine
  <2>3. FaultsGo /\ (correct' = correct \/ correct' = correct + 1)
    BY <1>4 DEF AwsDeleteVpc, FaultsGo
  <2> QED BY <1>0, <2>0, <2>2, <2>3, OnwardSteady
<1>5. ASSUME proc = "clean", k \notin {"vms", "file"}, FaultsGo,
             cloud' \in {cloud, cloud \ {Target}},
             (Onward /\ UNCHANGED correct) \/ GiveUp \/ Unfinished
      PROVE  Steady
  <2>1. {Target} \cap Users = {} /\ (NamedVpc \in {Target} => RecordsNamed)
    BY <1>5, TargetIs
  <2>2. CloudFine
    BY <1>5, <2>1, SameFine, LosesFine
  <2> QED BY <1>0, <1>5, <2>2, OnwardSteady, UnfinishedSteady
<1>6. CASE AwsDeleteKey
  <2>1. /\ proc = "clean" /\ k \notin {"vms", "file"} /\ FaultsGo
        /\ cloud' \in {cloud, cloud \ {Target}}
        /\ (Onward /\ UNCHANGED correct) \/ Unfinished
    BY <1>6 DEF AwsDeleteKey, Cleaning, FaultsGo
  <2> QED BY <1>5, <2>1
<1>7. CASE IbmDelete \/ GcpDelete \/ AzureDelete \/ AzureDeleteGroup
  <2>1. proc = "clean" /\ k \notin {"vms", "file"}
    BY <1>7 DEF IbmDelete, GcpDelete, AzureDelete, AzureDeleteGroup, Cleaning
  <2>2. /\ FaultsGo
        /\ cloud' \in {cloud, cloud \ {Target}}
        /\ (Onward /\ UNCHANGED correct) \/ GiveUp \/ Unfinished
    BY <1>7 DEF IbmDelete, GcpDelete, AzureDelete, AzureDeleteGroup, Deleted, Refused, Fails,
                FaultsGo
  <2> QED BY <1>5, <2>1, <2>2
<1> QED BY <1>1, <1>2, <1>3, <1>4, <1>6, <1>7 DEF CleanStep

-----------------------------------------------------------------------------
(* Every step. *)

LEMMA OtherSteady ==
    ASSUME VMInv, DeleteImage \/ Leave \/ Crash \/ CleanStart \/ Quit
    PROVE  Steady
<1>1. TypeInv /\ Recorded /\ Created /\ Counted
  BY DEF VMInv
<1>2. CASE DeleteImage
  <2>1. Images \cap (Users \cup {NamedVpc}) = {}
    BY NewNames DEF Images
  <2>2. CloudFine
    BY <1>2, <2>1, LosesFine DEF DeleteImage
  <2>3. Counted' /\ OnItsWay'
    BY <1>1, <1>2 DEF DeleteImage, client, Counted, OnItsWay
  <2> QED BY <1>1, <1>2, <2>2, <2>3 DEF DeleteImage, client, Steady, TypeInv, Created, FaultsGo
<1>3. CASE Leave
  <2>1. CloudFine /\ FaultsGo
    BY <1>3, SameFine DEF Leave, FaultsGo
  <2> QED BY <1>1, <1>3, <2>1, RestSteady DEF Leave, TypeInv
<1>4. CASE Crash
  <2>1. CloudFine /\ FaultsGo
    BY <1>4, SameFine DEF Crash, FaultsGo
  <2>2. crashes' \in 0 .. MaxCrashes
    BY <1>1, <1>4 DEF Crash, TypeInv
  <2> QED BY <1>1, <1>4, <2>1, <2>2, RestSteady DEF Crash
<1>5. CASE CleanStart
  <2>1. CloudFine /\ FaultsGo
    BY <1>5, SameFine DEF CleanStart, FaultsGo
  <2>2. Counted' /\ OnItsWay'
    BY <1>5 DEF CleanStart, Counted, OnItsWay
  <2>3. 1 <= Len(CleanSteps)
    BY <1>1, CleanStepsAre DEF TypeInv
  <2>4. own = {} /\ made = {}
    BY <1>1, <1>5 DEF CleanStart, Created
  <2> QED BY <1>1, <1>5, <2>1, <2>2, <2>3, <2>4 DEF CleanStart, Steady, TypeInv
<1>6. CASE Quit
  <2>1. CloudFine /\ FaultsGo
    BY <1>6, SameFine DEF Quit, FaultsGo
  <2>2. Counted' /\ OnItsWay'
    BY <1>1, <1>6 DEF Quit, client, Counted, OnItsWay
  <2> QED BY <1>1, <1>6, <2>1, <2>2 DEF Quit, client, Steady, TypeInv, Created
<1> QED BY <1>2, <1>3, <1>4, <1>5, <1>6

\* No step changes the backend, so the user's resources stay the same.
LEMMA BackendStays ==
    ASSUME Next
    PROVE  UNCHANGED backend
BY DEF Next, InitStart, InitStep, Dump, AwsRollback, IbmRollback, GcpRollback, AzureRollback,
       Rollback, Session, Build, DeleteImage, Leave, Crash, CleanStart, CleanStep, Quit

LEMMA VMStep ==
    ASSUME VMInv, [Next]_vars
    PROVE  /\ VMInv'
           /\ proc = "rollback" => cloud \ cloud' \subseteq own
<1>1. CASE UNCHANGED vars
  <2>0. UNCHANGED <<backend, given, building, proc, at, config, made, correct, own, cache,
                    cloud, inits, faults, crashes, quitting>>
    BY <1>1 DEF vars, client
  <2>1. VMInv'
    BY <2>0, SameBackend DEF VMInv, TypeInv, Counted, Recorded, Gathered, Created, UsersThere,
       OnItsWay, Unnamed, Provided, Ours, Theirs, OneEach, Has, User, New, VpcNo, The
  <2> QED BY <2>0, <2>1
<1>2. CASE InitStart
  BY <1>2, InitStartKeeps DEF InitStart
<1>3. CASE InitStep
  BY <1>3, InitStepKeeps, InitLoses
<1>4. CASE Dump
  BY <1>4, DumpKeeps DEF Dump, Step
<1>5. CASE AwsRollback \/ IbmRollback \/ GcpRollback \/ AzureRollback
  BY <1>5, RollbacksKeep
<1>6. CASE Session
  <2>1. proc = "up"
    BY <1>6 DEF Session, AwsCreateInstance, IbmCreateInstance, GcpCreateInstance,
                AzureCreateInstance, Creating, Dismantle
  <2> QED BY <1>6, <2>1, SessionSteady, SteadyKeeps
<1>7. CASE Build
  <2>1. proc = "build"
    BY <1>7 DEF Build, BuildAddress, BuildVM, BuildSetup, BuildStop, BuildImage, BuildEnd, Building
  <2> QED BY <1>7, <2>1, BuildSteady, SteadyKeeps
<1>8. CASE DeleteImage \/ Leave \/ Crash \/ CleanStart \/ Quit
  <2>1. proc = "rollback" => cloud' = cloud
    BY <1>8 DEF DeleteImage, Leave, Crash, CleanStart, Quit
  <2> QED BY <1>8, <2>1, OtherSteady, SteadyKeeps
<1>9. CASE CleanStep
  <2>1. proc # "rollback"
    BY <1>9 DEF CleanStep, AwsDeleteVms, AwsDeleteVpc, AwsDeleteKey, IbmDeleteVms, IbmDelete,
                GcpDeleteVms, GcpDelete, AzureDeleteVms, AzureDelete, AzureDeleteGroup,
                Cleaning, DeleteFile, CleanAgain
  <2> QED BY <1>9, <2>1, CleanSteady, SteadyKeeps
<1> QED BY <1>1, <1>2, <1>3, <1>4, <1>5, <1>6, <1>7, <1>8, <1>9 DEF Next

\* The VPC that has a name is lost to a clean() of it only.
LEMMA NamedLost ==
    ASSUME VMInv, Next
    PROVE  NamedVpc \in cloud \ cloud' => proc = "clean" /\ RecordsNamed
<1>1. CASE InitStart
  BY <1>1, NamedIs DEF InitStart, ForSession, ForImage, Images
<1>2. CASE InitStep \/ Dump
  BY <1>2, InitLoses DEF Dump
<1>3. CASE AwsRollback \/ IbmRollback \/ GcpRollback \/ AzureRollback
  BY <1>3, RollbacksKeep DEF VMInv, Created
<1>4. CASE \/ Session \/ Build \/ DeleteImage \/ Leave \/ Crash
           \/ CleanStart \/ CleanStep \/ Quit
  BY <1>4, SessionSteady, BuildSteady, OtherSteady, CleanSteady DEF Steady, CloudFine
<1> QED BY <1>1, <1>2, <1>3, <1>4 DEF Next

LEMMA VMInvariant == Spec => []VMInv
<1>1. VMInv /\ [Next]_vars => VMInv'
  BY VMStep
<1> QED BY <1>1, VMInit, PTL DEF Spec

LEMMA InvTypes == VMInv => TypeOK
<1> SUFFICES ASSUME VMInv
             PROVE  TypeOK
  OBVIOUS
<1>1. TypeInv /\ Counted
  BY DEF VMInv
<1>2. ASSUME NEW k \in Kinds
      PROVE  Cardinality({r \in config : r.kind = k}) <= 1
  <2> DEFINE S == {r \in config : r.kind = k}
  <2>1. Cardinality({}) = 0
    BY FS_EmptySet
  <2>2. \A r : Cardinality({r}) = 1
    BY FS_Singleton
  <2>3. S = {} \/ \E r : S = {r}
    BY <1>1 DEF TypeInv, OneEach
  <2>4. \A r : S = {r} => Cardinality(S) = 1
    BY <2>2
  <2>5. S = {} => Cardinality(S) = 0
    BY <2>1
  <2> HIDE DEF S
  <2>6. Cardinality(S) \in {0, 1}
    BY <2>3, <2>4, <2>5
  <2>7. Cardinality(S) <= 1
    BY <2>6
  <2> QED BY <2>7 DEF S
<1> QED BY <1>1, <1>2 DEF TypeInv, Counted, TypeOK

\* Every variable keeps its type: a configuration never has two resources of a
\* kind, and _delete_vpc never counts more deletions than the five it makes.
THEOREM TypeCorrect == Spec => []TypeOK
BY VMInvariant, InvTypes, PTL

\* Whatever calls fail and whenever the client dies, the rollback of an init() that
\* has failed deletes only what this init() has created, neither a rollback, nor a
\* session, nor the building of an image, nor clean() deletes anything of a network
\* whose ids the user provides, and the VPC that the user names only, which
\* clean(all=True) does delete, is deleted by no other step and never by the clean()
\* of another network.
THEOREM RollbackTakesOwn == Spec => OnlyOwnDeleted
<1>1. VMInv /\ [Next]_vars =>
        [ /\ Users \subseteq cloud'
          /\ proc = "rollback" => cloud \ cloud' \subseteq own
          /\ NamedVpc \in cloud \ cloud' => proc = "clean" /\ RecordsNamed ]_vars
  <2> SUFFICES ASSUME VMInv, Next
               PROVE  /\ Users \subseteq cloud'
                      /\ proc = "rollback" => cloud \ cloud' \subseteq own
                      /\ NamedVpc \in cloud \ cloud' => proc = "clean" /\ RecordsNamed
    OBVIOUS
  <2>1. VMInv' /\ (proc = "rollback" => cloud \ cloud' \subseteq own)
    BY VMStep
  <2>2. Users' = Users
    BY BackendStays, SameBackend
  <2>3. NamedVpc \in cloud \ cloud' => proc = "clean" /\ RecordsNamed
    BY NamedLost
  <2> QED BY <2>1, <2>2, <2>3 DEF VMInv, UsersThere
<1> QED BY <1>1, VMInvariant, PTL DEF Spec, OnlyOwnDeleted

-----------------------------------------------------------------------------
(* What clean() leaves behind. *)

\* Only what init() provides is configured and recorded.
Sourced == \A r \in config \cup cache : r.kind \in Parts

\* On AWS a number and a kind of the network tell one resource from the others,
\* and those that an init() makes are all in the network it uses.
AwsNetwork == {"vpc", "subnet", "sg", "gateway"}
Numbered ==
  backend = "aws_ec2" =>
    /\ \A r \in cloud : r.kind \in AwsNetwork => r.no <= inits \/ r.no = NamedNo
    /\ \A r, s \in cloud :
         r.kind \in AwsNetwork /\ r.kind = s.kind /\ r.no = s.no => r = s
    /\ proc = "init" =>
         \A r \in cloud : r.kind \in AwsNetwork /\ r.no = inits => at > 1 /\ r = New(r.kind)

\* What the steps of clean() that are done have deleted is gone: on AWS when all
\* of them were counted, as they are once the key's turn is over.
Emptied ==
  proc = "clean" /\ at > 1 /\ backend # "ibm_vpc" /\ ~Provided =>
    /\ \A r \in cloud : r.kind \in VMs => r.vpc # The(cache, "vpc").no
    /\ backend = "aws_ec2" /\ at = 8 => correct = 5
    /\ (backend = "aws_ec2" => at = 8 \/ correct = at - 2) =>
         \A i \in 2 .. at - 1 :
           CleanSteps[i] \in Parts \ MayStay => The(cache, CleanSteps[i]) \notin cloud

CleanInv == Sourced /\ Numbered /\ Emptied

LEMMA CleanInit == Init => CleanInv
<1> SUFFICES ASSUME Init
             PROVE  CleanInv
  OBVIOUS
<1>1. Sourced
  BY DEF Init, Sourced
<1>2. Numbered
  BY UsersAre, NamedIs DEF Init, Numbered, NamedNetwork, NamedVpc, Named
<1>3. Emptied
  BY DEF Init, Emptied
<1> QED BY <1>1, <1>2, <1>3 DEF CleanInv

\* The steps that are not of init(), nor of its rollback.
LEMMA AfterInit ==
    ASSUME VMInv,
           Session \/ Build \/ DeleteImage \/ Leave \/ Crash \/ CleanStart \/ CleanStep \/ Quit
    PROVE  Steady
BY SessionSteady, BuildSteady, OtherSteady, CleanSteady

\* A rollback makes nothing, configures and records nothing new.
LEMMA RollbackLoses ==
    ASSUME AwsRollback \/ IbmRollback \/ GcpRollback \/ AzureRollback
    PROVE  /\ cloud' \subseteq cloud /\ proc' \in {"rollback", "idle"}
           /\ config' \subseteq config /\ cache' \subseteq cache
           /\ UNCHANGED <<backend, inits>>
<1>1. ASSUME NEW order, Rollback(order)
      PROVE  /\ cloud' \subseteq cloud /\ proc' \in {"rollback", "idle"}
             /\ config' \subseteq config /\ cache' \subseteq cache
             /\ UNCHANGED <<backend, inits>>
  BY <1>1 DEF Rollback, Rest, ForgetFile
<1> QED BY <1>1 DEF AwsRollback, IbmRollback, GcpRollback, AzureRollback

\* The outcome of a step of init() that provides something.
Provides(k) == (\E r : Taking(k, r)) \/ (\E C : Making(k, C)) \/ Parting(k)

LEMMA ProvidesAt ==
    ASSUME NEW k \in Kinds, Provides(k)
    PROVE  proc = "init" /\ Steps[at] = k /\ ~Has(config, k)
BY DEF Provides, Taking, Making, Parting, Step

LEMMA SourcedKept ==
    ASSUME VMInv, Sourced, Next
    PROVE  Sourced'
<1>1. Parts' = Parts /\ TypeInv /\ backend \in Backends
  BY BackendStays, SameBackend DEF VMInv, TypeInv
<1>2. Network \subseteq Parts /\ (backend = "gcp_compute_engine" => GcpFirst \subseteq Parts)
  <2>1. backend = "azure_vms" => "sg" \in Parts
    BY DEF Parts, Steps
  <2> QED BY <1>1, <2>1, StepsAre, Networks
<1>3. CASE InitStart
  <2>1. config' \in {Users, {}}
    BY <1>3 DEF InitStart
  <2>2. \A r \in Users : r.kind \in Network
    BY UsersAre
  <2> QED BY <1>1, <1>2, <1>3, <2>1, <2>2 DEF InitStart, Sourced
<1>4. CASE InitStep
  <2>1. InitOutcome /\ cache' = cache
    BY <1>4, InitOutcomes DEF InitOutcome, InitFrame
  <2>2. CASE config' = config
    BY <1>1, <2>1, <2>2 DEF Sourced
  <2>3. ASSUME NEW k \in Kinds, Provides(k)
        PROVE  \A r \in config' \ config : r.kind \in Parts
    <3>1. k \in Parts
      BY <1>1, <2>3, ProvidesAt, AtPart
    <3>2. \A q \in Kinds : New(q).kind = q
      BY DEF New
    <3>3. CASE \E r : Taking(k, r)
      BY <3>1, <3>3 DEF Taking, Use
    <3>4. CASE \E C : Making(k, C)
      BY <3>1, <3>2, <3>4 DEF Making
    <3>5. CASE Parting(k)
      <4>1. /\ backend = "gcp_compute_engine"
            /\ config' \subseteq config \cup {New(q) : q \in GcpFirst}
        BY <3>5 DEF Parting
      <4>2. GcpFirst \subseteq Kinds
        BY DEF GcpFirst, Kinds
      <4> QED BY <1>2, <3>2, <4>1, <4>2
    <3> QED BY <2>3, <3>3, <3>4, <3>5 DEF Provides
  <2>4. config' = config \/ \E k \in Kinds : Provides(k)
    BY <2>1 DEF InitOutcome, Configured, JustRaises, Provides
  <2> QED BY <1>1, <2>1, <2>2, <2>3, <2>4 DEF Sourced
<1>5. CASE Dump
  BY <1>1, <1>5 DEF Dump, Sourced
<1>6. CASE AwsRollback \/ IbmRollback \/ GcpRollback \/ AzureRollback
  BY <1>1, <1>6, RollbackLoses DEF Sourced
<1>7. CASE \/ Session \/ Build \/ DeleteImage \/ Leave \/ Crash
           \/ CleanStart \/ CleanStep \/ Quit
  <2>1. config' \in {config, {}} /\ cache' \in {cache, {}}
    BY <1>7, AfterInit DEF Steady
  <2> QED BY <1>1, <2>1 DEF Sourced
<1> QED BY <1>3, <1>4, <1>5, <1>6, <1>7 DEF Next

\* What a step of init() on AWS adds to the cloud, and to the configuration.
LEMMA AwsAdds ==
    ASSUME VMInv, InitOutcome, backend = "aws_ec2"
    PROVE  /\ UNCHANGED inits /\ proc = "init" /\ proc' \in {"init", "rollback"}
           /\ proc' = "init" => at' = at + 1
           /\ config \subseteq config'
           /\ \/ cloud' = cloud
              \/ \E k \in Kinds :
                   /\ Steps[at] = k /\ k # "attach"
                   /\ cloud' \subseteq cloud \cup {New(k), New("attach")}
<1>1. TypeInv /\ UNCHANGED inits
  BY DEF VMInv, InitOutcome, InitFrame
<1>2. CASE Configured \/ JustRaises
  BY <1>1, <1>2 DEF Configured, JustRaises, Raise
<1>3. ASSUME NEW k \in Kinds, NEW r, Taking(k, r)
      PROVE  proc = "init" /\ UNCHANGED <<proc, cloud>> /\ at' = at + 1 /\ config \subseteq config'
  BY <1>3 DEF Taking, Step, Use
<1>4. ASSUME NEW k \in Kinds, NEW C, Making(k, C)
      PROVE  /\ proc = "init" /\ proc' \in {"init", "rollback"}
             /\ proc' = "init" => at' = at + 1
             /\ config \subseteq config'
             /\ Steps[at] = k /\ k # "attach"
             /\ cloud' \subseteq cloud \cup {New(k), New("attach")}
  <2>1. proc = "init" /\ Steps[at] = k
    BY <1>4 DEF Making, Step
  <2>2. k # "attach"
    <3>1. k \in Parts
      BY <1>1, <2>1, AtPart
    <3> QED BY <3>1 DEF Parts, Steps
  <2>3. cloud' \subseteq cloud \cup {New(k), New("attach")}
    BY <1>4 DEF Making, Whole
  <2>4. /\ proc' \in {"init", "rollback"}
        /\ proc' = "init" => at' = at + 1
        /\ config \subseteq config'
    BY <1>4, <2>1 DEF Making, Raise
  <2> QED BY <2>1, <2>2, <2>3, <2>4
<1>5. ASSUME NEW k \in Kinds
      PROVE  ~Parting(k)
  BY DEF Parting
<1> QED BY <1>1, <1>2, <1>3, <1>4, <1>5 DEF InitOutcome

\* The network in use stays the same from the step that provides it on, which is
\* the first.
LEMMA AwsNetworkStays ==
    ASSUME VMInv, VMInv', backend = "aws_ec2", UNCHANGED <<backend, inits>>, proc = "init",
           config \subseteq config', at > 1, NEW k
    PROVE  New(k)' = New(k)
<1>1. at \in Nat /\ Steps[1] = "vpc" /\ ~Unnamed
  BY DEF VMInv, TypeInv, Steps, Unnamed
<1>2. Has(config, "vpc")
  <2>1. 1 \in 1 .. at - 1
    BY <1>1
  <2> QED BY <1>1, <2>1 DEF VMInv, Gathered
<1>3. PICK v : v = The(config, "vpc")
  OBVIOUS
<1>4. v \in config' /\ v.kind = "vpc" /\ OneEach(config')
  BY <1>2, <1>3, TheIs DEF VMInv, TypeInv, OneEach
<1>5. Has(config', "vpc") /\ The(config', "vpc") = v
  BY <1>4, TheOnly
<1>6. VpcNo' = VpcNo
  BY <1>2, <1>3, <1>5 DEF VpcNo
<1> QED BY <1>6 DEF New

LEMMA NumberedKept ==
    ASSUME VMInv, VMInv', Numbered, Next
    PROVE  Numbered'
<1> SUFFICES ASSUME backend = "aws_ec2", UNCHANGED backend
             PROVE  Numbered'
  BY BackendStays DEF Numbered
<1> DEFINE Apart(S) ==
      \A r, s \in S : r.kind \in AwsNetwork /\ r.kind = s.kind /\ r.no = s.no => r = s
<1>1. /\ \A r \in cloud : r.kind \in AwsNetwork => r.no <= inits \/ r.no = NamedNo
      /\ Apart(cloud) /\ inits \in Nat /\ \A r \in cloud : r.no \in Nat
  <2>1. TypeInv
    BY DEF VMInv
  <2> QED BY <2>1, Fields DEF Numbered, TypeInv
<1>2. CASE InitStart
  <2>1. inits' = inits + 1 /\ cloud' \subseteq cloud /\ inits < MaxInits
    BY <1>2 DEF InitStart, ForSession, ForImage
  <2>2. \A r \in cloud : r.kind \in AwsNetwork =>
          (r.no <= inits' \/ r.no = NamedNo) /\ r.no # inits'
    BY <1>1, <2>1, NamedIs
  <2> QED BY <1>1, <2>1, <2>2 DEF Numbered
<1>3. CASE InitStep
  <2>1. /\ UNCHANGED inits /\ proc = "init" /\ proc' \in {"init", "rollback"}
        /\ proc' = "init" => at' = at + 1
        /\ config \subseteq config' /\ at \in Nat /\ at >= 1
        /\ \A r \in cloud : r.kind \in AwsNetwork /\ r.no = inits => at > 1 /\ r = New(r.kind)
    BY <1>3, InitOutcomes, AwsAdds DEF VMInv, TypeInv, Numbered
  <2>2. \A k : at > 1 => New(k)' = New(k)
    BY <2>1, AwsNetworkStays
  <2>3. CASE cloud' = cloud
    BY <1>1, <2>1, <2>2, <2>3 DEF Numbered
  <2>4. ASSUME NEW k \in Kinds, Steps[at] = k, k # "attach",
               cloud' \subseteq cloud \cup {New(k), New("attach")}
        PROVE  Numbered'
    <3>1. New(k).kind = k /\ New(k).no = inits
      BY DEF New
    <3>2. New("attach").kind \notin AwsNetwork
      BY DEF New, AwsNetwork
    <3>3. at = 1 => k = "vpc"
      BY <2>4 DEF Steps
    <3>4. k \in AwsNetwork => New(k)' = New(k)
      <4>1. CASE at = 1
        BY <2>1, <3>3, <4>1 DEF New
      <4> QED BY <2>1, <2>2, <4>1
    <3>5. \A r \in cloud' : r.kind \in AwsNetwork => r \in cloud \/ r = New(k)
      BY <2>4, <3>2
    <3>6. Apart(cloud')
      BY <1>1, <2>1, <3>1, <3>5
    <3>7. proc' = "init" =>
            \A r \in cloud' : r.kind \in AwsNetwork /\ r.no = inits =>
               at' > 1 /\ r = New(r.kind)'
      BY <2>1, <2>2, <3>1, <3>4, <3>5
    <3> QED BY <1>1, <2>1, <3>1, <3>5, <3>6, <3>7 DEF Numbered
  <2>5. \/ cloud' = cloud
        \/ \E k \in Kinds : /\ Steps[at] = k /\ k # "attach"
                            /\ cloud' \subseteq cloud \cup {New(k), New("attach")}
    BY <1>3, InitOutcomes, AwsAdds
  <2> QED BY <2>3, <2>4, <2>5
<1>4. CASE Dump
  BY <1>1, <1>4 DEF Dump, Numbered
<1>5. CASE AwsRollback \/ IbmRollback \/ GcpRollback \/ AzureRollback
  BY <1>1, <1>5, RollbackLoses DEF Numbered
<1>6. CASE \/ Session \/ Build \/ DeleteImage \/ Leave \/ Crash
           \/ CleanStart \/ CleanStep \/ Quit
  <2>1. /\ UNCHANGED inits /\ proc' # "init"
        /\ \A r \in cloud' \ cloud : r.kind \notin Network
    BY <1>6, AfterInit DEF Steady, CloudFine
  <2>2. Network = AwsNetwork
    BY DEF Network, AwsNetwork
  <2> QED BY <1>1, <2>1, <2>2 DEF Numbered
<1> QED BY <1>2, <1>3, <1>4, <1>5, <1>6 DEF Next

\* Every part of a network has a step of clean() between the first and the last.
LEMMA PartsCleaned ==
    ASSUME backend \in Backends, backend # "ibm_vpc", NEW k \in Parts
    PROVE  \E i \in 2 .. Len(CleanSteps) - 1 : CleanSteps[i] = k
<1>1. CASE backend = "aws_ec2"
  <2>1. /\ Len(CleanSteps) = 8 /\ CleanSteps[2] = "sg" /\ CleanSteps[3] = "subnet"
        /\ CleanSteps[5] = "gateway" /\ CleanSteps[6] = "vpc" /\ CleanSteps[7] = "key"
    BY <1>1 DEF CleanSteps
  <2>2. k \in {"vpc", "subnet", "gateway", "sg", "key"}
    BY <1>1 DEF Parts, Steps
  <2> QED BY <2>1, <2>2
<1>2. CASE backend = "gcp_compute_engine"
  <2>1. /\ Len(CleanSteps) = 8 /\ CleanSteps[2] = "sg" /\ CleanSteps[3] = "sg2"
        /\ CleanSteps[4] = "gateway" /\ CleanSteps[5] = "subnet" /\ CleanSteps[6] = "vpc"
        /\ CleanSteps[7] = "key"
    BY <1>2 DEF CleanSteps
  <2>2. k \in {"vpc", "subnet", "sg", "sg2", "gateway", "key"}
    BY <1>2 DEF Parts, Steps
  <2> QED BY <2>1, <2>2
<1>3. CASE backend = "azure_vms"
  <2>1. /\ Len(CleanSteps) = 7 /\ CleanSteps[2] = "subnet" /\ CleanSteps[3] = "vpc"
        /\ CleanSteps[4] = "fip" /\ CleanSteps[5] = "sg" /\ CleanSteps[6] = "key"
    BY <1>3 DEF CleanSteps
  <2>2. k \in {"vpc", "subnet", "sg", "fip", "key"}
    BY <1>3 DEF Parts, Steps
  <2> QED BY <2>1, <2>2
<1> QED BY <1>1, <1>2, <1>3

LEMMA InitGoesOn ==
    ASSUME InitStep
    PROVE  proc' \in {"init", "rollback"}
BY InitOutcomes DEF InitOutcome, Configured, JustRaises, Taking, Making, Parting, Step, Use, Raise

\* A clean() in progress has got there by a step of its own that went on.
LEMMA GoesOnByItself ==
    ASSUME VMInv, Next, proc' = "clean", at' > 1
    PROVE  CleanStep /\ proc = "clean" /\ Onward
<1>1. proc = "retry" => at = 1
  BY DEF VMInv, TypeInv
<1>2. ~Rest /\ ~Unfinished /\ ~GiveUp
  BY DEF Rest, GiveUp, Unfinished
<1>3. CASE CleanStep
  BY <1>1, <1>2, <1>3
     DEF CleanStep, AwsDeleteVms, AwsDeleteVpc, AwsDeleteKey, IbmDeleteVms, IbmDelete,
         GcpDeleteVms, GcpDelete, AzureDeleteVms, AzureDelete, AzureDeleteGroup, VmsGone,
         Deleted, DeleteFile, CleanAgain, Cleaning
<1>4. CASE InitStart \/ Dump \/ Session \/ DeleteImage \/ Leave \/ Crash \/ CleanStart \/ Quit
  <2>1. ~Session
    BY DEF Session, AwsCreateInstance, IbmCreateInstance, GcpCreateInstance,
           AzureCreateInstance, Creating, Dismantle, client
  <2> QED BY <1>2, <1>4, <2>1
          DEF InitStart, Dump, DeleteImage, Leave, Crash, CleanStart, Quit, client
<1>5. CASE InitStep
  BY <1>5, InitGoesOn
<1>6. CASE AwsRollback \/ IbmRollback \/ GcpRollback \/ AzureRollback
  BY <1>6, RollbackLoses
<1>7. CASE Build
  BY <1>2, <1>7 DEF Build, BuildAddress, BuildVM, BuildSetup, BuildStop, BuildImage, BuildEnd,
                    Building, BuildRaises, NextBuildStep
<1> QED BY <1>3, <1>4, <1>5, <1>6, <1>7 DEF Next

LEMMA EmptiedKept ==
    ASSUME VMInv, Numbered, Emptied, Next
    PROVE  Emptied'
<1> SUFFICES ASSUME proc' = "clean", at' > 1, (backend # "ibm_vpc")', ~Provided'
             PROVE  Emptied'
  BY DEF Emptied
<1> DEFINE k == CleanSteps[at]
<1>1. CleanStep /\ proc = "clean" /\ Onward
  BY GoesOnByItself
<1>2. /\ UNCHANGED backend /\ UNCHANGED cache /\ CleanSteps' = CleanSteps
      /\ Provided' = Provided /\ MayStay' = MayStay /\ Parts' = Parts
  BY <1>1, BackendStays, SameBackend DEF Onward, Provided, MayStay
<1>3. /\ backend # "ibm_vpc" /\ ~Provided /\ at' = at + 1 /\ ~Skipped
      /\ backend \in Backends /\ cache # {}
      /\ at \in 1 .. Len(CleanSteps) /\ Len(CleanSteps) \in {6, 7, 8}
  BY <1>1, <1>2, CleanStepsAre DEF Onward, Skipped, VMInv, TypeInv, Recorded
<1>4. correct \in 0 .. 5 /\ (correct = 0 \/ correct <= at - 2)
  BY <1>1 DEF VMInv, Counted
<1>5. cloud' \subseteq cloud
  BY <1>1, <1>3
     DEF CleanStep, AwsDeleteVms, AwsDeleteVpc, AwsDeleteKey, IbmDeleteVms, IbmDelete,
         GcpDeleteVms, GcpDelete, AzureDeleteVms, AzureDelete, AzureDeleteGroup, VmsGone,
         Deleted, DeleteFile, CleanAgain, Cleaning, Refused, Fails
<1>6. ~DeleteFile /\ ~CleanAgain
  BY <1>1 DEF DeleteFile, CleanAgain, Rest
<1>7. CASE at = 1
  <2>1. k = "vms"
    BY <1>3, <1>7, CleanStepsAre
  <2>2. VmsGone
    BY <1>1, <1>3, <1>6, <2>1
       DEF CleanStep, AwsDeleteVms, AwsDeleteVpc, AwsDeleteKey, IbmDeleteVms, IbmDelete,
           GcpDeleteVms, GcpDelete, AzureDeleteVms, AzureDelete, AzureDeleteGroup, Cleaning,
           GiveUp, Unfinished, Rest
  <2>3. \A r \in cloud' : r.kind \in VMs => r.vpc # The(cache, "vpc").no
    BY <2>2 DEF VmsGone, VmsOf
  <2>4. at' = 2
    BY <1>3, <1>7
  <2> QED BY <1>2, <2>3, <2>4 DEF Emptied
<1>8. CASE at > 1
  <2>1. k # "vms" /\ k # "file"
    BY <1>1, <1>3, <1>6, <1>8, CleanStepsAre
       DEF CleanStep, AwsDeleteVpc, AwsDeleteKey, IbmDelete, GcpDelete, AzureDelete,
           AzureDeleteGroup, AwsDeleteVms, IbmDeleteVms, GcpDeleteVms, AzureDeleteVms, Cleaning
  <2>2. /\ \A r \in cloud : r.kind \in VMs => r.vpc # The(cache, "vpc").no
        /\ (backend = "aws_ec2" => at = 8 \/ correct = at - 2) =>
             \A i \in 2 .. at - 1 :
               CleanSteps[i] \in Parts \ MayStay => The(cache, CleanSteps[i]) \notin cloud
    BY <1>1, <1>3, <1>8 DEF Emptied
  <2>3. \A r \in cloud' : r.kind \in VMs => r.vpc # The(cache, "vpc").no
    BY <1>5, <2>2
  <2>4. k # "detach" => Target = The(cache, k)
    BY DEF Target
  <2>5. ASSUME backend = "aws_ec2" => at = 8 \/ correct = at - 2,
               k \in Parts \ MayStay => The(cache, k) \notin cloud'
        PROVE  \A i \in 2 .. at' - 1 :
                 CleanSteps[i] \in Parts \ MayStay => The(cache, CleanSteps[i]) \notin cloud'
    BY <1>3, <1>5, <2>2, <2>5
  <2>6. CASE backend # "aws_ec2"
    <3>1. GcpDelete \/ AzureDelete \/ AzureDeleteGroup
      BY <1>1, <1>3, <1>6, <2>1, <2>6
         DEF CleanStep, AwsDeleteVms, AwsDeleteVpc, AwsDeleteKey, IbmDeleteVms, IbmDelete,
             GcpDeleteVms, AzureDeleteVms, Cleaning
    <3>2. k \in MayStay \/ Deleted
      BY <1>1, <3>1 DEF GcpDelete, AzureDelete, AzureDeleteGroup, Cleaning, MayStay, GiveUp,
                        Unfinished, Rest
    <3>3. k \in Parts => k # "detach"
      <4>1. "detach" \notin Kinds \cup {"rest"}
        BY DEF Kinds
      <4>2. Len(Steps) \in Nat /\ \A i \in 1 .. Len(Steps) : Steps[i] \in Kinds \cup {"rest"}
        BY <1>3, StepsAre
      <4>3. \A i \in 1 .. Len(Steps) - 1 : i \in 1 .. Len(Steps)
        BY ONLY <4>2
      <4>4. Parts \subseteq Kinds \cup {"rest"}
        BY ONLY <4>2, <4>3, Zenon DEF Parts
      <4> QED BY ONLY <4>1, <4>4, Zenon
    <3>4. k \in Parts \ MayStay => The(cache, k) \notin cloud'
      BY <2>4, <3>2, <3>3 DEF Deleted
    <3> QED BY <1>2, <2>3, <2>5, <2>6, <3>4 DEF Emptied
  <2>7. CASE backend = "aws_ec2"
    <3>0. Len(CleanSteps) = 8 /\ at \in 2 .. 7
      BY <1>3, <1>8, <2>1, <2>7, CleanStepsAre DEF CleanSteps
    <3>1. CASE AwsDeleteVpc
      <4>1. at \in 2 .. 6 /\ at' # 8
        <5>1. at # 7
          BY <2>7, <3>1 DEF AwsDeleteVpc, Cleaning, CleanSteps
        <5> QED BY <1>3, <3>0, <5>1
      <4>2. correct' = correct \/ (correct' = correct + 1 /\ (k \in Parts => The(cache, k) \notin cloud'))
        <5>1. ASSUME NEW r \in cloud, IsTarget(r), cloud' = cloud \ {r}, k \in Parts
              PROVE  The(cache, k) \notin cloud'
          <6>1. k # "detach" /\ Has(cache, k) /\ k \in AwsNetwork
            BY <1>3, <2>7, <3>1, <5>1
               DEF Parts, Steps, VMInv, Recorded, AwsDeleteVpc, Cleaning, AwsNetwork
          <6>2. Target = The(cache, k) /\ Target.kind = k
            BY <2>4, <6>1, TheIs
          <6>3. The(cache, k) \in cloud => The(cache, k) = r
            BY <2>7, <6>1, <6>2, <5>1 DEF Numbered, IsTarget
          <6> QED BY <5>1, <6>3
        <5>2. ASSUME DoesNotExist, cloud' = cloud, k \in Parts
              PROVE  The(cache, k) \notin cloud'
          <6>1. k # "detach"
            BY <2>7, <5>2 DEF Parts, Steps
          <6> QED BY <2>4, <5>2, <6>1 DEF DoesNotExist, IsTarget
        <5> QED BY <3>1, <5>1, <5>2 DEF AwsDeleteVpc
      <4>3. ASSUME correct' = at' - 2
            PROVE  correct = at - 2 /\ correct' = correct + 1
        BY <1>3, <1>4, <4>1, <4>2, <4>3
      <4>4. correct' = at' - 2 =>
              \A i \in 2 .. at' - 1 :
                CleanSteps[i] \in Parts \ MayStay => The(cache, CleanSteps[i]) \notin cloud'
        BY <1>4, <2>5, <4>2, <4>3
      <4> QED BY <1>2, <2>3, <2>7, <4>1, <4>4 DEF Emptied
    <3>2. CASE AwsDeleteKey
      <4>1. correct = 5 /\ correct' = 5
        BY <1>1, <3>2 DEF AwsDeleteKey, AllCorrect, Unfinished, GiveUp, Rest
      <4>2. k = "key" /\ "key" \in MayStay
        BY <2>7, <3>2 DEF AwsDeleteKey, Cleaning, MayStay
      <4>3. at = 7
        BY <1>3, <2>7, <4>2, CleanStepsAre
      <4>4. \A i \in 2 .. at' - 1 :
              CleanSteps[i] \in Parts \ MayStay => The(cache, CleanSteps[i]) \notin cloud'
        BY <2>5, <4>1, <4>2, <4>3
      <4> QED BY <1>2, <2>3, <2>7, <4>1, <4>4 DEF Emptied
    <3> QED BY <1>1, <1>6, <2>1, <2>7, <3>1, <3>2
            DEF CleanStep, AwsDeleteVms, IbmDeleteVms, IbmDelete, GcpDeleteVms, GcpDelete,
                AzureDeleteVms, AzureDelete, AzureDeleteGroup, Cleaning
  <2> QED BY <2>6, <2>7
<1> QED BY <1>3, <1>7, <1>8

LEMMA CleanInvariant == Spec => [](VMInv /\ CleanInv)
<1>1. VMInv /\ CleanInv /\ [Next]_vars => (VMInv /\ CleanInv)'
  <2>1. ASSUME VMInv, CleanInv, Next
        PROVE  (VMInv /\ CleanInv)'
    BY <2>1, VMStep, SourcedKept, NumberedKept, EmptiedKept DEF CleanInv
  <2>2. ASSUME VMInv, CleanInv, UNCHANGED vars
        PROVE  (VMInv /\ CleanInv)'
    <3>1. UNCHANGED <<backend, proc, at, config, correct, cache, cloud, inits>>
      BY <2>2 DEF vars, client
    <3>2. VMInv'
      BY <2>2, VMStep
    <3>3. CleanInv'
      BY <2>2, <3>1, SameBackend
         DEF CleanInv, Sourced, Numbered, Emptied, Provided, MayStay, New, VpcNo, Has, The
    <3> QED BY <3>2, <3>3
  <2> QED BY <2>1, <2>2
<1> QED BY <1>1, VMInit, CleanInit, PTL DEF Spec

\* Whatever calls fail and whenever the client dies, clean(all=True) removes the
\* cache file only when the network it records, and every VM in it, is gone (but
\* for what may stay): what is left half done can be cleaned again.
THEOREM CleanTakesAll == Spec => CleanIsComplete
<1>1. VMInv /\ CleanInv /\ [Next]_vars =>
        [ proc = "clean" /\ cache' # cache /\ backend # "ibm_vpc" /\ ~Provided
            => /\ \A r \in cache : r.kind \notin MayStay => r \notin cloud'
               /\ ~\E r \in cloud' : r.kind \in VMs /\ r.vpc = The(cache, "vpc").no ]_vars
  <2> SUFFICES ASSUME VMInv, CleanInv, Next, proc = "clean", cache' # cache,
                      backend # "ibm_vpc", ~Provided
               PROVE  /\ \A r \in cache : r.kind \notin MayStay => r \notin cloud'
                      /\ ~\E r \in cloud' : r.kind \in VMs /\ r.vpc = The(cache, "vpc").no
    OBVIOUS
  <2>1. CleanSteps[at] = "file" /\ UNCHANGED cloud
    <3>1. ~GiveUp /\ ~Unfinished /\ ~Onward
      BY DEF GiveUp, Unfinished, Onward
    <3>2. CleanStep => CleanSteps[at] = "file" /\ UNCHANGED cloud
      BY <3>1 DEF CleanStep, AwsDeleteVms, AwsDeleteVpc, AwsDeleteKey, IbmDeleteVms, IbmDelete,
                  GcpDeleteVms, GcpDelete, AzureDeleteVms, AzureDelete, AzureDeleteGroup,
                  DeleteFile, CleanAgain, VmsGone, Deleted
    <3>3. ~InitStart /\ ~InitStep /\ ~Dump
      BY DEF InitStart, InitStep, Dump, Step
    <3>4. ~AwsRollback /\ ~IbmRollback /\ ~GcpRollback /\ ~AzureRollback
      BY DEF AwsRollback, IbmRollback, GcpRollback, AzureRollback, Rollback
    <3>5. ~Session
      BY DEF Session
    <3>6. ~Build
      BY DEF Build, BuildAddress, BuildVM, BuildSetup, BuildStop, BuildImage, BuildEnd, Building
    <3>7. ~DeleteImage /\ ~Leave /\ ~Crash /\ ~CleanStart /\ ~Quit
      BY DEF DeleteImage, Leave, Crash, CleanStart, Quit
    <3> QED BY <3>2, <3>3, <3>4, <3>5, <3>6, <3>7 DEF Next
  <2>2. /\ backend \in Backends /\ at = Len(CleanSteps) /\ Len(CleanSteps) \in {6, 7, 8}
        /\ backend = "aws_ec2" => Len(CleanSteps) = 8
        /\ OneEach(cache) /\ cache # {}
    <3>1. /\ backend \in Backends /\ at \in 1 .. Len(CleanSteps)
          /\ OneEach(cache) /\ cache # {}
      BY DEF VMInv, TypeInv, Recorded
    <3>2. backend = "aws_ec2" => Len(CleanSteps) = 8
      BY DEF CleanSteps
    <3> QED BY <2>1, <3>1, <3>2, CleanStepsAre
  <2>3. /\ \A r \in cloud : r.kind \in VMs => r.vpc # The(cache, "vpc").no
        /\ \A i \in 2 .. at - 1 :
             CleanSteps[i] \in Parts \ MayStay => The(cache, CleanSteps[i]) \notin cloud
    BY <2>2 DEF CleanInv, Emptied
  <2>4. ASSUME NEW r \in cache, r.kind \notin MayStay
        PROVE  r \notin cloud
    <3>1. r.kind \in Parts
      BY DEF CleanInv, Sourced
    <3>2. PICK i \in 2 .. at - 1 : CleanSteps[i] = r.kind
      BY <2>2, <3>1, PartsCleaned
    <3>3. The(cache, r.kind) = r
      BY <2>2, TheOnly
    <3> QED BY <2>3, <2>4, <3>1, <3>2, <3>3
  <2> QED BY <2>1, <2>3, <2>4
<1> QED BY <1>1, CleanInvariant, PTL DEF Spec, CleanIsComplete

=============================================================================
