------------------------------ MODULE VMBackend ------------------------------
(***************************************************************************)
(* The cloud resources of a standalone backend: aws_ec2, ibm_vpc,          *)
(* gcp_compute_engine and azure_vms.  init() makes a network step by step, *)
(* or takes again what the cache file of an earlier init() records; when a *)
(* step raises, a rollback deletes what init() has flagged.  Then VMs are  *)
(* made in the network, or one from which an image is built.               *)
(* clean(all=True) deletes what the file records, and the file.  Every     *)
(* call to the cloud may fail, also after it has been carried out, and the *)
(* client may die between two calls.                                       *)
(*                                                                         *)
(* A resource is a record: its kind, the number of the init() that gave it *)
(* its id or name (0 when the user provides its id), and the network it is *)
(* in (0: none).  On AWS and IBM the user also has a VPC, of the number    *)
(* NamedNo, that the configuration may name.  One client runs at a time.   *)
(* The cloud is external.                                                  *)
(***************************************************************************)
EXTENDS Integers, Sequences, FiniteSets

CONSTANTS Backends,     \* the backends of this instance
          MaxInits,     \* bound on the runs of init()
          MaxFaults,    \* bound on the failing calls
          MaxCrashes    \* bound on the deaths of the client

ASSUME BoundsAssumption ==
  /\ Backends \subseteq {"aws_ec2", "ibm_vpc", "gcp_compute_engine", "azure_vms"}
  /\ {MaxInits, MaxFaults, MaxCrashes} \subseteq Nat

VARIABLES
  backend,    \* the backend in use
  given,      \* 'provided': the user's configuration names the network
  building,   \* an image is built: "new" when nothing was initialized, else "kept"
  proc,       \* what the client does
  at,         \* the step it is at
  config,     \* self.config: the resources this client uses
  made,       \* self._init_created: the kinds flagged as created
  cache,      \* the cache file: the resources it records, {} without a file
  correct,    \* total_correct of _delete_vpc (aws_ec2)
  cloud,      \* the resources that exist
  own,        \* history: what this init() has created
  inits, faults, crashes,
  quitting    \* the user only cleans from now on

client == <<proc, at, config, made, correct, own>>
vars == <<backend, given, building, client, cache, cloud, inits, faults, crashes, quitting>>

Kinds == {"vpc", "subnet", "gateway", "attach", "sg", "sg2", "fip", "key",
          "master", "worker", "builder", "halted", "image", "stray"}
NamedNo == MaxInits + 1
Resource == [kind : Kinds, no : 0 .. NamedNo, vpc : 0 .. NamedNo]
Builders == {"builder", "halted"}     \* the VM an image is made of, and when it is stopped
Roles == {"master", "worker"}
VMs == Roles \cup Builders

Has(S, k) == \E r \in S : r.kind = k
The(S, k) == CHOOSE r \in S : r.kind = k

\* The network in use: vpc_key, and the name given to a new one.
VpcNo == IF Has(config, "vpc") THEN The(config, "vpc").no ELSE inits

\* The resources the user may provide.
Network ==
  CASE backend = "gcp_compute_engine" -> {"vpc", "subnet", "sg", "sg2", "gateway"}
    [] backend = "azure_vms" -> {"vpc", "subnet", "sg"}
    [] backend = "ibm_vpc" -> {"vpc", "subnet", "gateway"}
    [] backend = "aws_ec2" -> {"vpc", "subnet", "sg", "gateway"}
Users == {[kind |-> k, no |-> 0, vpc |-> 0] : k \in Network}

\* The VPC that the user may name by vpc_name: on AWS one with a gateway, on IBM
\* one without.
Named(k, vpc) == [kind |-> k, no |-> NamedNo, vpc |-> vpc]
NamedVpc == Named("vpc", 0)
NamedNetwork ==
  CASE backend = "aws_ec2" -> {NamedVpc, Named("gateway", 0), Named("attach", NamedNo)}
    [] backend = "ibm_vpc" -> {NamedVpc}
    [] OTHER -> {}

-----------------------------------------------------------------------------
(* The cloud.                                                              *)

\* A new resource.  The Azure and GCP names derive from the network's, the
\* Azure security group has one name for all, the others get a new id.
New(k) ==
  [kind |-> k,
   no |-> IF backend = "azure_vms" /\ k = "sg" THEN 1
          ELSE IF backend \in {"azure_vms", "gcp_compute_engine"} /\ k \notin {"vpc", "key"}
               THEN VpcNo ELSE inits,
   vpc |-> IF \/ k \in {"vpc", "key", "fip"}
              \/ k = "gateway" /\ backend = "aws_ec2"
              \/ k = "sg" /\ backend = "azure_vms"
           THEN 0 ELSE VpcNo]

\* What a call makes: an AWS gateway is made and then attached to the VPC.
Whole(k) == IF k = "gateway" /\ backend = "aws_ec2" THEN {New(k), New("attach")} ELSE {New(k)}

\* What the cloud refuses to delete: a network with something in it, a subnet
\* or a security group in use by a VM, a gateway that is attached.
Blocked(r) ==
  \E q \in cloud :
    CASE r.kind = "vpc" -> q.vpc = r.no
      [] r.kind = "subnet" -> q.kind \in VMs \cup {"stray"} /\ q.vpc = r.vpc
      [] r.kind = "sg" -> q.kind \in VMs \cup {"stray"} /\ r.vpc \in {0, q.vpc}
      [] r.kind = "gateway" -> q.kind = "attach" /\ q.no = r.no
      [] OTHER -> FALSE

Deletable(r) == r \in cloud /\ ~Blocked(r)

Fault == faults < MaxFaults /\ faults' = faults + 1

-----------------------------------------------------------------------------
(* init(): the outcomes of a step that provides a resource of kind k.      *)

Steps ==
  CASE backend = "aws_ec2" -> <<"vpc", "subnet", "gateway", "sg", "key", "rest">>
    [] backend = "ibm_vpc" -> <<"vpc", "key", "subnet", "gateway", "fip", "rest">>
    [] backend = "gcp_compute_engine" -> <<"vpc", "subnet", "sg", "sg2", "gateway", "key", "rest">>
    [] backend = "azure_vms" -> <<"vpc", "subnet", "sg", "fip", "key", "rest">>

Step(b, k) == backend = b /\ proc = "init" /\ Steps[at] = k /\ ~Has(config, k)

Raise == proc' = "rollback" /\ at' = 1
Use(r) == /\ config' = config \cup {r} /\ at' = at + 1
          /\ UNCHANGED <<proc, made, cloud, own, faults>>

\* The cache file records one, and it is found.
Reuse(k) == Has(cache, k) /\ The(cache, k) \in cloud /\ Use(The(cache, k))
Gone(k) == Has(cache, k) /\ The(cache, k) \notin cloud
\* The call that looks for it raises when there is none.
RaiseIfGone(k) == Gone(k) /\ Raise /\ UNCHANGED <<config, made, cloud, own, faults>>

\* The flag is raised when the resource is complete and its id is in the
\* configuration; an error before leaves the resource unknown to the rollback.
Create(k) ==
  \/ /\ cloud' = cloud \cup Whole(k) /\ own' = own \cup Whole(k)
     /\ config' = config \cup {New(k)} /\ made' = made \cup {k}
     /\ at' = at + 1 /\ UNCHANGED <<proc, faults>>
  \/ /\ Fault /\ Raise
     /\ cloud' = cloud \cup {New(k)} /\ own' = own \cup {New(k)}
     /\ UNCHANGED <<config, made>>
\* A further call fails after the flag was raised.
CreateThenFail(k) ==
  /\ Fault /\ Raise
  /\ cloud' = cloud \cup {New(k)} /\ own' = own \cup {New(k)}
  /\ config' = config \cup {New(k)} /\ made' = made \cup {k}

Absent(k) == ~Has(cache, k) \/ Gone(k)
\* One in the network in use, though no file records it.
Found(k) == {r \in cloud : r.kind = k /\ r.vpc = VpcNo}
\* A VPC that is there under the name that the configuration gives, the user's or
\* one that an earlier init() has made under that name.
ByName == {r \in cloud : r.kind = "vpc" /\ r.no # 0}

-----------------------------------------------------------------------------
(* The steps of each backend.                                              *)

AwsVpc == Step("aws_ec2", "vpc")
  /\ \/ Reuse("vpc")
     \/ RaiseIfGone("vpc")
     \/ ~Has(cache, "vpc") /\ \E r \in ByName : Use(r)
     \/ ~Has(cache, "vpc") /\ Create("vpc")

\* A second subnet with the addresses of the first is refused.
AwsSubnet == Step("aws_ec2", "subnet")
  /\ \/ Reuse("subnet")
     \/ RaiseIfGone("subnet")
     \/ /\ ~Has(cache, "subnet") /\ Found("subnet") # {}
        /\ Raise /\ UNCHANGED <<config, made, cloud, own, faults>>
     \/ ~Has(cache, "subnet") /\ Found("subnet") = {} /\ Create("subnet")

\* All gateways of the account are looked at for one attached to the network, and
\* one that is attached to none makes the search raise an IndexError.
Loose == {r \in cloud : r.kind = "gateway" /\ r.no # 0
                        /\ ~\E q \in cloud : q.kind = "attach" /\ q.no = r.no}
Attached == {r \in cloud : r.kind = "gateway" /\ r.no # 0
                           /\ \E q \in Found("attach") : q.no = r.no}
AwsGateway == Step("aws_ec2", "gateway")
  /\ \/ Reuse("gateway")
     \/ RaiseIfGone("gateway")
     \/ /\ ~Has(cache, "gateway") /\ Loose # {}
        /\ Raise /\ UNCHANGED <<config, made, cloud, own, faults>>
     \/ ~Has(cache, "gateway") /\ Loose = {} /\ \E r \in Attached : Use(r)
     \/ ~Has(cache, "gateway") /\ Loose = {} /\ Attached = {} /\ Create("gateway")

AwsSecurityGroup == Step("aws_ec2", "sg")
  /\ \/ Reuse("sg")
     \/ RaiseIfGone("sg")
     \/ ~Has(cache, "sg") /\ \E r \in Found("sg") : Use(r)
     \/ ~Has(cache, "sg") /\ Found("sg") = {} /\ Create("sg")

AwsSshKey == Step("aws_ec2", "key")
  /\ (Reuse("key") \/ RaiseIfGone("key") \/ (~Has(cache, "key") /\ Create("key")))

\* The rules of the security group are added after the flag is raised.
IbmVpc == Step("ibm_vpc", "vpc")
  /\ \/ Reuse("vpc")
     \/ RaiseIfGone("vpc")
     \/ ~Has(cache, "vpc") /\ \E r \in ByName : Use(r)
     \/ ~Has(cache, "vpc") /\ (Create("vpc") \/ CreateThenFail("vpc"))

IbmSshKey == Step("ibm_vpc", "key") /\ (Reuse("key") \/ (Absent("key") /\ Create("key")))

\* Subnets have a name derived from the network's, and are looked for by it.
IbmSubnet == Step("ibm_vpc", "subnet")
  /\ \/ Reuse("subnet")
     \/ Absent("subnet") /\ \E r \in Found("subnet") : Use(r)
     \/ Absent("subnet") /\ Found("subnet") = {} /\ Create("subnet")

\* Attached to the subnet after the flag is raised.
IbmGateway == Step("ibm_vpc", "gateway")
  /\ \/ Reuse("gateway")
     \/ Absent("gateway") /\ \E r \in Found("gateway") : Use(r)
     \/ /\ Absent("gateway") /\ Found("gateway") = {}
        /\ (Create("gateway") \/ CreateThenFail("gateway"))

\* Floating addresses are recycled and never flagged.
IbmFloatingIp == Step("ibm_vpc", "fip")
  /\ \/ Reuse("fip")
     \/ Absent("fip") /\ \E r \in cloud : r.kind = "fip" /\ Use(r)
     \/ /\ Absent("fip") /\ ~Has(cloud, "fip")
        /\ cloud' = cloud \cup {New("fip")} /\ own' = own \cup {New("fip")}
        /\ config' = config \cup {New("fip")} /\ at' = at + 1
        /\ UNCHANGED <<proc, made, faults>>

\* _create_network: what the file records is taken without a look.  The names
\* of what it creates reach the configuration together, after the last of them.
GcpParts == {"vpc", "subnet", "sg", "sg2"}
GcpNetwork == \E k \in GcpParts : Step("gcp_compute_engine", k)
  /\ \/ Has(cache, k) /\ Use(The(cache, k))
     \/ /\ ~Has(cache, k)
        /\ cloud' = cloud \cup {New(k)} /\ own' = own \cup {New(k)}
        /\ \/ /\ made' = made \cup {k} /\ at' = at + 1 /\ UNCHANGED <<proc, faults>>
              /\ config' = IF k = "sg2" THEN config \cup {New(p) : p \in GcpParts} ELSE config
           \/ Fault /\ Raise /\ UNCHANGED <<config, made>>
GcpNat == Step("gcp_compute_engine", "gateway")
  /\ \/ Has(cache, "gateway") /\ Use(The(cache, "gateway"))
     \/ ~Has(cache, "gateway") /\ Create("gateway")
GcpSshKey == Step("gcp_compute_engine", "key")
  /\ (Reuse("key") \/ (Absent("key") /\ Create("key")))

AzureVnet == Step("azure_vms", "vpc")
  /\ (Reuse("vpc") \/ (Absent("vpc") /\ Create("vpc")))

\* The name derives from the network's: the one looked for is the recorded one.
AzureSubnet == Step("azure_vms", "subnet")
  /\ (Reuse("subnet") \/ (Absent("subnet") /\ Create("subnet")))

\* There is one lithops-security-group for all networks of a resource group.
AzureSecurityGroup == Step("azure_vms", "sg")
  /\ IF New("sg") \in cloud THEN Use(New("sg")) ELSE Create("sg")

\* The name of the address derives from vnet_name, which only a created or a
\* recorded network sets.
AzureAddress ==
  IF Has(cache, "fip") /\ The(cache, "fip") \in cloud THEN The(cache, "fip")
  ELSE [New("fip") EXCEPT !.no = IF given THEN The(cache, "vpc").no ELSE VpcNo]
AzureFloatingIp == Step("azure_vms", "fip")
  /\ \/ given /\ cache = {} /\ Raise /\ UNCHANGED <<config, made, cloud, own, faults>>
     \/ /\ ~given \/ cache # {}
        /\ IF AzureAddress \in cloud THEN Use(AzureAddress) ELSE Create("fip")

AzureSshKey == Step("azure_vms", "key")
  /\ (Reuse("key") \/ (Absent("key") /\ Create("key")))

-----------------------------------------------------------------------------
(* The rest of init(), and its rollback.                                   *)

Rest == proc' = "idle" /\ at' = 1 /\ config' = {} /\ made' = {} /\ own' = {} /\ correct' = 0

\* A process starts with the user's configuration and loads the cache file.  To
\* build an image it first deletes one of that name (--overwrite).
Images == {r \in cloud : r.kind = "image"}
ForSession == building' = "no" /\ UNCHANGED cloud
ForImage ==
  /\ backend # "azure_vms"
  /\ building' = IF cache = {} THEN "new" ELSE "kept"
  /\ cloud' = cloud \ Images
InitStart ==
  /\ proc = "idle" /\ ~quitting /\ inits < MaxInits
  /\ inits' = inits + 1
  /\ given' \in BOOLEAN
  /\ config' = IF given' THEN Users ELSE {}
  /\ proc' = "init" /\ at' = 1
  /\ ForSession \/ ForImage
  /\ UNCHANGED <<backend, made, correct, own, cache, faults, crashes, quitting>>

\* _create_... returns at once when the configuration has the resource.
Configured ==
  /\ proc = "init" /\ Has(config, Steps[at]) /\ at' = at + 1
  /\ UNCHANGED <<proc, config, made, own, cloud, faults>>

\* A call of the step fails, and nothing has changed.
CallFails ==
  /\ proc = "init" /\ Fault /\ Raise
  /\ UNCHANGED <<config, made, own, cloud>>

InitStep ==
  /\ \/ Configured \/ CallFails
     \/ AwsVpc \/ AwsSubnet \/ AwsGateway \/ AwsSecurityGroup \/ AwsSshKey
     \/ IbmVpc \/ IbmSshKey \/ IbmSubnet \/ IbmGateway \/ IbmFloatingIp
     \/ GcpNetwork \/ GcpNat \/ GcpSshKey
     \/ AzureVnet \/ AzureSubnet \/ AzureSecurityGroup \/ AzureFloatingIp \/ AzureSshKey
  /\ UNCHANGED <<backend, given, building, cache, correct, inits, crashes, quitting>>

\* Image, prices, instance types; then the cache file is written.
Dump ==
  /\ Step(backend, "rest")
  /\ cache' = config
  /\ proc' = (IF building = "no" THEN "up" ELSE "build") /\ at' = 1 /\ made' = {} /\ own' = {}
  /\ UNCHANGED <<backend, given, building, config, correct, cloud, inits, faults, crashes, quitting>>

\* What is flagged and has an id in the configuration is deleted, an error is
\* logged; at last the file goes, unless the network is the user's.
Remove(r) == {r} \cup (IF r.kind = "gateway"
                       THEN {q \in cloud : q.kind = "attach" /\ q.no = r.no} ELSE {})
\* Mutant: whatever the configuration names is deleted.
RolledBackAll(k) == Has(config, k)
RolledBack(k) == k \in made /\ Has(config, k)
ForgetFile == cache' = IF given THEN cache ELSE {}
Rollback(order) ==
  /\ proc = "rollback"
  /\ \/ /\ at > Len(order)
        /\ ForgetFile /\ Rest /\ UNCHANGED <<cloud, faults>>
     \/ /\ at <= Len(order) /\ RolledBack(order[at])
        /\ LET r == The(config, order[at]) IN
             \/ /\ cloud' = IF Deletable(r) \/ r.kind = "gateway" THEN cloud \ Remove(r) ELSE cloud
                /\ UNCHANGED faults
             \/ Fault /\ UNCHANGED cloud
        /\ at' = at + 1 /\ UNCHANGED <<proc, config, made, own, correct, cache>>
     \/ /\ at <= Len(order) /\ ~RolledBack(order[at])
        /\ at' = at + 1 /\ UNCHANGED <<proc, config, made, own, correct, cache, cloud, faults>>
  /\ UNCHANGED <<backend, given, building, inits, crashes, quitting>>

AwsRollback == backend = "aws_ec2" /\ Rollback(<<"sg", "gateway", "subnet", "vpc", "key">>)
IbmRollback == backend = "ibm_vpc" /\ Rollback(<<"gateway", "subnet", "vpc", "key">>)
GcpRollback == /\ backend = "gcp_compute_engine"
               /\ Rollback(<<"sg", "sg2", "gateway", "subnet", "vpc", "key">>)
AzureRollback == backend = "azure_vms" /\ Rollback(<<"fip", "sg", "subnet", "vpc", "key">>)

-----------------------------------------------------------------------------
(* The VMs of a backend that is up: a master and, here, one worker.        *)

VM(role) == [kind |-> role, no |-> inits, vpc |-> VpcNo]
Stray == VM("stray")
NetworkUp == {r \in config : r.kind \in {"vpc", "subnet", "sg"}} \subseteq cloud

\* create() finds the master by its name, which derives from the network's; a
\* worker has a new name.
Missing(role) == /\ NetworkUp
                 /\ ~\E r \in cloud : r.kind = role /\ r.vpc = VpcNo
Creating(b, role) == backend = b /\ proc = "up" /\ Missing(role)

\* _create_instance and its rollback.  The id is known only when nothing can
\* fail any more, so a VM whose creation fails late stays; a spot instance whose
\* name tag could not be set is in nobody's list.
AwsCreateInstance == \E role \in Roles : Creating("aws_ec2", role)
  /\ \/ cloud' = cloud \cup {VM(role)} /\ UNCHANGED faults
     \/ /\ Fault
        /\ cloud' \in {cloud, cloud \cup {VM(role)}}
                      \cup (IF role = "worker" THEN {cloud \cup {Stray}} ELSE {})
\* The VM is deleted again when its floating address cannot be attached.
IbmCreateInstance == \E role \in Roles : Creating("ibm_vpc", role)
  /\ \/ cloud' = cloud \cup {VM(role)} /\ UNCHANGED faults
     \/ Fault /\ cloud' \in {cloud, cloud \cup {VM(role)}}
\* A VM that exists after an error is deleted, by its name.
GcpCreateInstance == \E role \in Roles : Creating("gcp_compute_engine", role)
  /\ \/ cloud' = cloud \cup {VM(role)} /\ UNCHANGED faults
     \/ Fault /\ cloud' \in {cloud, cloud \cup {VM(role)}}
\* A network interface first, then the VM; an interface whose creation failed
\* late is not deleted, and is in nobody's list.
AzureCreateInstance == \E role \in Roles : Creating("azure_vms", role)
  /\ \/ cloud' = cloud \cup {VM(role)} /\ UNCHANGED faults
     \/ Fault /\ cloud' \in {cloud, cloud \cup {VM(role)}, cloud \cup {Stray}}

\* The workers are deleted, those whose deletion fails are forgotten.
Dismantle ==
  /\ proc = "up"
  /\ \/ /\ cloud' = {r \in cloud : r.kind = "worker" => r # VM("worker")}
        /\ UNCHANGED faults
     \/ Fault /\ UNCHANGED cloud

Session ==
  /\ AwsCreateInstance \/ IbmCreateInstance \/ GcpCreateInstance \/ AzureCreateInstance
     \/ Dismantle
  /\ UNCHANGED <<backend, given, building, client, cache, inits, crashes, quitting>>

-----------------------------------------------------------------------------
(* build_image(), after init(): a VM, the image of its disk, and back to     *)
(* what there was.  An error ends it and the VM stays.                       *)

BuildSteps == <<"address", "vm", "setup", "stop", "image", "end">>
Building(step) == proc = "build" /\ BuildSteps[at] = step
NextBuildStep == at' = at + 1 /\ UNCHANGED <<proc, config, made, correct, own, cache>>
BuildRaises == Rest /\ UNCHANGED cache

\* The name of the VM is that of the image: it is unique in a GCP project.
Builder == CHOOSE r \in cloud : /\ r.kind \in Builders
                                /\ backend = "gcp_compute_engine" \/ r.no = inits

\* On IBM, an address that no VM has, or a new one.
BuildAddress ==
  /\ Building("address")
  /\ \/ /\ Has(cloud, "fip") \/ backend # "ibm_vpc"
        /\ NextBuildStep /\ UNCHANGED <<cloud, faults>>
     \/ /\ backend = "ibm_vpc" /\ \E r \in cloud : r.kind \in Builders \cup {"master"}
        /\ cloud' = cloud \cup {New("fip")}
        /\ NextBuildStep /\ UNCHANGED faults
     \/ Fault /\ BuildRaises /\ UNCHANGED cloud

\* GCP takes the VM that an earlier build of the image has left, IBM refuses a
\* second of the name.
Left == \E r \in cloud : r.kind \in Builders
BuildVM ==
  /\ Building("vm")
  /\ \/ backend = "gcp_compute_engine" /\ Left /\ NextBuildStep /\ UNCHANGED <<cloud, faults>>
     \/ /\ NetworkUp /\ (backend = "aws_ec2" \/ ~Left)
        /\ cloud' = cloud \cup {VM("builder")} /\ NextBuildStep /\ UNCHANGED faults
     \/ /\ ~NetworkUp \/ (backend = "ibm_vpc" /\ Left)
        /\ BuildRaises /\ UNCHANGED <<cloud, faults>>
     \/ Fault /\ cloud' \in {cloud, cloud \cup {VM("builder")}} /\ BuildRaises

\* The scripts run over SSH, which a VM that is stopped does not answer.
BuildSetup ==
  /\ Building("setup")
  /\ UNCHANGED cloud
  /\ \/ Builder.kind = "builder" /\ NextBuildStep /\ UNCHANGED faults
     \/ Builder.kind = "halted" /\ BuildRaises /\ UNCHANGED faults
     \/ Fault /\ BuildRaises

BuildStop ==
  LET stopped == (cloud \ {Builder}) \cup {[Builder EXCEPT !.kind = "halted"]} IN
  /\ Building("stop")
  /\ \/ cloud' = stopped /\ NextBuildStep /\ UNCHANGED faults
     \/ Fault /\ cloud' \in {cloud, stopped} /\ BuildRaises

Image == [kind |-> "image", no |-> inits, vpc |-> 0]
BuildImage ==
  /\ Building("image")
  /\ \/ cloud' = cloud \cup {Image} /\ NextBuildStep /\ UNCHANGED faults
     \/ Fault /\ cloud' \in {cloud, cloud \cup {Image}} /\ BuildRaises

\* What init() has made goes, or the VM alone.
BuildEnd ==
  /\ Building("end")
  /\ \/ /\ building = "new" /\ proc' = "clean" /\ at' = 1 /\ correct' = 0
        /\ UNCHANGED <<config, made, own, cache, cloud, faults>>
     \/ building = "kept" /\ cloud' = cloud \ {Builder} /\ BuildRaises /\ UNCHANGED faults
     \/ building = "kept" /\ Fault /\ cloud' \in {cloud, cloud \ {Builder}} /\ BuildRaises

Build ==
  /\ BuildAddress \/ BuildVM \/ BuildSetup \/ BuildStop \/ BuildImage \/ BuildEnd
  /\ UNCHANGED <<backend, given, building, inits, crashes, quitting>>

\* delete_image(), by itself.
DeleteImage ==
  /\ proc = "idle" /\ Images # {}
  /\ cloud' = cloud \ Images
  /\ UNCHANGED <<backend, given, building, client, cache, inits, faults, crashes, quitting>>

-----------------------------------------------------------------------------
(* The client ends, or dies at any moment.                                   *)

Leave ==
  /\ proc = "up" /\ Rest
  /\ UNCHANGED <<backend, given, building, cache, cloud, inits, faults, crashes, quitting>>
Crash ==
  /\ proc # "idle" /\ crashes < MaxCrashes /\ crashes' = crashes + 1 /\ Rest
  /\ UNCHANGED <<backend, given, building, cache, cloud, inits, faults, quitting>>

-----------------------------------------------------------------------------
(* clean(all=True).  It works from the cache file alone, and ends at once   *)
(* when there is none.                                                      *)

CleanSteps ==
  CASE backend = "aws_ec2" -> <<"vms", "sg", "subnet", "detach", "gateway", "vpc", "key", "file">>
    [] backend = "ibm_vpc" -> <<"vms", "subnet", "gateway", "vpc", "key", "file">>
    [] backend = "gcp_compute_engine" ->
         <<"vms", "sg", "sg2", "gateway", "subnet", "vpc", "key", "file">>
    [] backend = "azure_vms" -> <<"vms", "subnet", "vpc", "fip", "sg", "key", "file">>

Provided == The(cache, "vpc").no = 0

CleanStart ==
  /\ proc = "idle" /\ cache # {}
  /\ proc' = "clean" /\ at' = 1 /\ correct' = 0 /\ building' = "no"
  /\ UNCHANGED <<backend, given, config, made, own, cache, cloud, inits, faults, crashes, quitting>>

Cleaning(b, S) == backend = b /\ proc = "clean" /\ CleanSteps[at] \in S
\* On to the next step; the network of the user is left alone.
Skipped == Provided /\ CleanSteps[at] = "vms"
KeyStep == CHOOSE i \in 1 .. Len(CleanSteps) : CleanSteps[i] = "key"
Onward == /\ at' = IF Skipped THEN KeyStep ELSE at + 1
          /\ UNCHANGED <<proc, config, made, own, cache>>
GiveUp == Rest /\ UNCHANGED cache
\* Not clean yet: build_image() tries again, at once.
Retried == building = "new"
Unfinished ==
  IF Retried THEN proc' = "retry" /\ at' = 1 /\ correct' = 0 /\ UNCHANGED <<config, made, own, cache>>
  ELSE GiveUp
CleanAgain == /\ proc = "retry" /\ proc' = "clean"
              /\ UNCHANGED <<at, config, made, correct, own, cache, cloud, faults>>

\* The VMs, named by prefix: of the recorded network, or of the whole project.
VmsOf == {r \in cloud : /\ r.kind \in VMs
                        /\ \/ backend \in {"gcp_compute_engine", "azure_vms"}
                           \/ r.vpc = The(cache, "vpc").no}
VmsGone == cloud' = cloud \ VmsOf /\ Onward /\ UNCHANGED <<faults, correct>>
AwsDeleteVms == Cleaning("aws_ec2", {"vms"})
  /\ (VmsGone \/ (Fault /\ GiveUp /\ UNCHANGED cloud))
\* An error of the deleting threads is not seen, and the VM is not tried again:
\* clean() waits until it is interrupted.
IbmDeleteVms == Cleaning("ibm_vpc", {"vms"})
  /\ \/ VmsGone
     \/ /\ Fault /\ VmsOf # {} /\ proc' = "waiting"
        /\ UNCHANGED <<at, config, made, own, correct, cache, cloud>>
GcpDeleteVms == Cleaning("gcp_compute_engine", {"vms"})
  /\ (VmsGone \/ (Fault /\ Unfinished /\ UNCHANGED cloud))
AzureDeleteVms == Cleaning("azure_vms", {"vms"})
  /\ (VmsGone \/ (Fault /\ GiveUp /\ UNCHANGED cloud))

\* _delete_vpc: every deletion is tried, and those that succeed or find nothing
\* are counted.  A gateway that exists and is not attached is no success.
Target == IF CleanSteps[at] = "detach" THEN [The(cache, "gateway") EXCEPT !.kind = "attach"]
          ELSE The(cache, CleanSteps[at])
IsTarget(r) == r.kind = Target.kind /\ r.no = Target.no
\* Mutant: an error "does not exist" is no success.
DoesNotExistUncounted == FALSE
DoesNotExist == IF CleanSteps[at] = "detach" THEN The(cache, "gateway") \notin cloud
                ELSE ~\E r \in cloud : IsTarget(r)
AwsDeleteVpc == Cleaning("aws_ec2", {"sg", "subnet", "detach", "gateway", "vpc"})
  /\ \/ /\ \E r \in cloud : IsTarget(r) /\ ~Blocked(r) /\ cloud' = cloud \ {r}
        /\ correct' = correct + 1 /\ UNCHANGED faults
     \/ DoesNotExist /\ correct' = correct + 1 /\ UNCHANGED <<cloud, faults>>
     \/ /\ ~DoesNotExist /\ \A r \in cloud : IsTarget(r) => Blocked(r)
        /\ UNCHANGED <<cloud, correct, faults>>
     \/ Fault /\ UNCHANGED <<cloud, correct>>
  /\ Onward
\* Only when all five are correct do the key and the file go.
\* Mutant: one deletion too few is asked for.
AllCorrectButOne == correct >= 4
AllCorrect == correct = 5
AwsDeleteKey == Cleaning("aws_ec2", {"key"})
  /\ \/ AllCorrect /\ cloud' = cloud \ {Target} /\ Onward /\ UNCHANGED <<faults, correct>>
     \/ AllCorrect /\ Fault /\ Onward /\ UNCHANGED <<cloud, correct>>
     \/ ~AllCorrect /\ Unfinished /\ UNCHANGED <<cloud, faults>>

Deleted == /\ Target \in cloud => ~Blocked(Target)
           /\ cloud' = cloud \ {Target} /\ Onward /\ UNCHANGED <<faults, correct>>
Refused == Target \in cloud /\ Blocked(Target) /\ UNCHANGED <<cloud, faults>>
Fails == Fault /\ UNCHANGED cloud

\* Errors 404 and 400 are passed over, the others are raised.
IbmDelete == Cleaning("ibm_vpc", {"subnet", "gateway", "vpc", "key"})
  /\ \/ Deleted
     \/ Fails /\ Onward /\ UNCHANGED correct
     \/ (Refused \/ Fails) /\ GiveUp
\* Any error but 404 ends the cleaning.
GcpDelete == Cleaning("gcp_compute_engine", {"sg", "sg2", "gateway", "subnet", "vpc", "key"})
  /\ (Deleted \/ (Fails /\ Unfinished))
AzureDelete == Cleaning("azure_vms", {"subnet", "vpc", "fip", "key"})
  /\ (Deleted \/ ((Refused \/ Fails) /\ GiveUp))
\* A security group in use is only warned about.
AzureDeleteGroup == Cleaning("azure_vms", {"sg"})
  /\ (Deleted \/ ((Refused \/ Fails) /\ Onward /\ UNCHANGED correct))

DeleteFile ==
  /\ proc = "clean" /\ CleanSteps[at] = "file"
  /\ cache' = {} /\ Rest /\ UNCHANGED <<cloud, faults>>

CleanStep ==
  /\ \/ AwsDeleteVms \/ AwsDeleteVpc \/ AwsDeleteKey
     \/ IbmDeleteVms \/ IbmDelete
     \/ GcpDeleteVms \/ GcpDelete
     \/ AzureDeleteVms \/ AzureDelete \/ AzureDeleteGroup
     \/ DeleteFile \/ CleanAgain
  /\ UNCHANGED <<backend, given, building, inits, crashes, quitting>>

Quit == /\ proc = "idle" /\ ~quitting /\ quitting' = TRUE
        /\ UNCHANGED <<backend, given, building, client, cache, cloud, inits, faults, crashes>>

-----------------------------------------------------------------------------

Init ==
  /\ backend \in Backends
  /\ given = FALSE /\ building = "no"
  /\ proc = "idle" /\ at = 1 /\ config = {} /\ made = {} /\ own = {} /\ correct = 0
  /\ cache = {}
  /\ cloud = Users \cup NamedNetwork
  /\ inits = 0 /\ faults = 0 /\ crashes = 0 /\ quitting = FALSE

Next ==
  \/ InitStart \/ InitStep \/ Dump
  \/ AwsRollback \/ IbmRollback \/ GcpRollback \/ AzureRollback
  \/ Session \/ Build \/ DeleteImage \/ Leave \/ Crash
  \/ CleanStart \/ CleanStep \/ Quit

Spec == Init /\ [][Next]_vars

\* A user who has quit repeats clean(all=True) while there is a cache file, and
\* the client is not stopped for ever.
FairSpec == Spec /\ WF_vars(CleanStart) /\ WF_vars(CleanStep)

-----------------------------------------------------------------------------
(* Properties.                                                             *)

\* The variables have their types.
TypeOK ==
  /\ backend \in Backends /\ given \in BOOLEAN /\ quitting \in BOOLEAN
  /\ building \in {"no", "new", "kept"}
  /\ proc \in {"idle", "init", "rollback", "up", "build", "clean", "retry", "waiting"}
  /\ at \in 1 .. 9 /\ correct \in 0 .. 5
  /\ {config, cache, cloud, own} \subseteq SUBSET Resource /\ made \subseteq Kinds
  /\ \A k \in Kinds : Cardinality({r \in config : r.kind = k}) <= 1
  /\ inits \in 0 .. MaxInits /\ faults \in 0 .. MaxFaults /\ crashes \in 0 .. MaxCrashes

\* A failed init() deletes only what it has created itself, nothing that it has
\* found or taken from the cache file, and a network whose ids the user provides
\* is never deleted.  (A VPC that the user only names is recorded like one that
\* was created, and clean(all=True) deletes it, with the gateway found in it: but
\* nothing else ever deletes it, and no clean() of another network does.)
RecordsNamed == Has(cache, "vpc") /\ The(cache, "vpc").no = NamedNo
OnlyOwnDeleted ==
  [][ /\ Users \subseteq cloud'
      /\ proc = "rollback" => cloud \ cloud' \subseteq own
      /\ NamedVpc \in cloud \ cloud' => proc = "clean" /\ RecordsNamed ]_vars

\* clean(all=True) removes the cache file only when the network it records, with
\* every VM in it, is gone: otherwise the file is kept and the next clean() can
\* go on.  (On IBM an error 400 is passed over and the file goes all the same;
\* an AWS key may stay, and the Azure security group while others use it.)
MayStay == CASE backend = "aws_ec2" -> {"key"}
             [] backend = "azure_vms" -> {"sg"}
             [] OTHER -> {}
CleanIsComplete ==
  [][ proc = "clean" /\ cache' # cache /\ backend # "ibm_vpc" /\ ~Provided
        => /\ \A r \in cache : r.kind \notin MayStay => r \notin cloud'
           /\ ~\E r \in cloud' : r.kind \in VMs /\ r.vpc = The(cache, "vpc").no ]_vars

\* A user who repeats clean(all=True), or build_image() that repeats it, is rid of
\* the network in the end, also after a clean() that failed half way.  (Not on
\* IBM, where clean() may wait for ever; not on AWS with the user's network, where
\* clean() never gets to the key and the file, and build_image() never ends; not
\* with a VM or interface left that no list shows; not when the VPC, found by its
\* name, has something in it that the file does not record.)
Unrecorded ==
  {q \in cloud : /\ q.kind \notin VMs /\ Has(cache, "vpc") /\ q.vpc = The(cache, "vpc").no
                 /\ ~\E r \in cache : /\ r.no = q.no
                                      /\ r.kind = IF q.kind = "attach" THEN "gateway" ELSE q.kind}
CleanEnds ==
  /\ quitting \/ proc = "retry"
  /\ backend # "ibm_vpc" /\ ~Has(cloud, "stray") /\ Unrecorded = {}
  /\ cache # {} => ~(backend = "aws_ec2" /\ Provided)
  ~> cache = {} \/ (~quitting /\ proc = "idle")

=============================================================================
