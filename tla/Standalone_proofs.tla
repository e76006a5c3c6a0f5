--------------------------- MODULE Standalone_proofs ---------------------------
(***************************************************************************)
(* Proofs about the standalone mode.                                       *)
(*                                                                         *)
(* StandaloneJobs: every call that was pushed is in exactly one place, a   *)
(* job is DONE only when all its calls ran, and DONE is not overwritten,   *)
(* for any number of jobs, calls, workers, consumers and stop requests.    *)
(*                                                                         *)
(* WorkerVM: work is offered only to a validated VM, and the keeper turns  *)
(* no VM off under a task that is younger than the hard timeout, for any   *)
(* number of tasks and retries and any two timeouts.                       *)
(***************************************************************************)
EXTENDS StandaloneJobs, WorkerVM, FiniteSetTheorems, TLAPS

-----------------------------------------------------------------------------
(* The jobs of the master. *)

USE StandaloneAssumption

Names == Jobs \cup {Shared}
Pcs == {"off", "take", "start", "startset", "spawn", "running", "delete", "report",
        "setdone", "ended"}
CancelPcs == {"off", "llen", "rpop", "putback", "signal", "set", "ended", "dead"}
WorkerRec == [state : {"absent", "down", "setup", "active", "gone", "deleted"}, queue : Names]
ConsumerRec == [pc : Pcs, task : Tasks]
CancelRec == [pc : CancelPcs, jobs : Seq(Jobs), tmp : Seq(Tasks), sent : SUBSET Workers]
StoppingRec == [job : Jobs \cup {"none"}, size : Nat, seen : SUBSET Tasks]

\* TypeOK, but for the bound on the list of calls done, which rests on the
\* invariant below.
TypeInv ==
  /\ execMode \in Modes
  /\ clientJobs \in Seq(Jobs) /\ posted \subseteq Jobs
  /\ jobStatus \in [Jobs -> {"none", "submitted", "running", "done", "canceled"}]
  /\ tasksDone \in [Jobs -> Nat]
  /\ pushed \in [Jobs -> Int] /\ \A j \in Jobs : pushed[j] \in -1 .. Calls[j]
  /\ queue \in [Names -> Seq(Tasks)]
  /\ doneFile \subseteq Jobs
  /\ worker \in [Workers -> WorkerRec]
  /\ canceled \in [Workers -> SUBSET Jobs]
  /\ table \in [Workers -> [Tasks -> {"absent", "process", "None"}]]
  /\ proc \in [Tasks -> {"none", "alive", "killed", "reaped"}]
  /\ consumer \in [Consumers -> ConsumerRec]
  /\ cancel \in [Stops -> CancelRec]
  /\ stopping \in [Workers -> StoppingRec]
  /\ installing \in [Jobs -> {"none", "asked", "save", "install"}] /\ listed \subseteq Workers
  /\ doomed \subseteq Workers
  /\ fate \in [Tasks -> {"none", "ran", "killed", "dropped"}]
  /\ cut \subseteq Jobs

\* A cancel thread has a job at hand while it works, and none of the tasks it
\* kept once it signals; a worker that has not started has no consumers.
Orderly ==
  /\ \A k \in Stops :
       /\ cancel[k].pc \in {"llen", "rpop", "putback", "signal", "set"} => cancel[k].jobs # <<>>
       /\ cancel[k].pc \in {"signal", "set"} => cancel[k].tmp = <<>>
  /\ \A c \in Consumers :
       worker[c[1]].state \in {"absent", "down", "setup", "gone"} => consumer[c].pc = "off"

\* Where a task may be.
InQueue(q, t) == t \in ToSet(queue[q])
InTmp(k, t) == t \in ToSet(cancel[k].tmp)
HeldBy(c, t) == Holding(c) /\ consumer[c].task = t
Pushed(t) == t[2] < pushed[t[1]]

\* No list holds a task twice.
Lists ==
  /\ \A q \in Names : IsInjective(queue[q])
  /\ \A k \in Stops : IsInjective(cancel[k].tmp)

\* A task is in at most one place, and somewhere once it was pushed.
Alone(t) ==
  /\ \A q, r \in Names : InQueue(q, t) /\ InQueue(r, t) => q = r
  /\ \A k, l \in Stops : InTmp(k, t) /\ InTmp(l, t) => k = l
  /\ \A c, d \in Consumers : HeldBy(c, t) /\ HeldBy(d, t) => c = d
  /\ \A q \in Names : InQueue(q, t) =>
       /\ Pushed(t) /\ fate[t] = "none"
       /\ \A k \in Stops : ~InTmp(k, t)
       /\ \A c \in Consumers : ~HeldBy(c, t)
  /\ \A k \in Stops : InTmp(k, t) =>
       /\ Pushed(t) /\ fate[t] = "none"
       /\ \A c \in Consumers : ~HeldBy(c, t)
  /\ \A c \in Consumers : HeldBy(c, t) => Pushed(t) /\ fate[t] = "none"
  /\ fate[t] # "none" => Pushed(t)
Somewhere(t) ==
  Pushed(t) => \/ fate[t] # "none"
               \/ \E q \in Names : InQueue(q, t)
               \/ \E k \in Stops : InTmp(k, t)
               \/ \E c \in Consumers : HeldBy(c, t)

Placed(t) == Alone(t) /\ Somewhere(t)
AllPlaced == Lists /\ \A t \in Tasks : Placed(t)

\* The consumers that come back from a process, each with its own task, which
\* ran unless the worker has heard of a stop of its job ...
Back(c) == consumer[c].pc \in {"delete", "report"}
Returned ==
  /\ \A c, d \in Consumers : Back(c) /\ Back(d) /\ consumer[c].task = consumer[d].task => c = d
  /\ \A c \in Consumers : Back(c) => fate[consumer[c].task] # "none"
  /\ \A c \in Consumers : Back(c) =>
       fate[consumer[c].task] = "ran" \/ consumer[c].task[1] \in canceled[c[1]]
\* ... for only the /stop handler of the consumer's own worker kills it.
Killed ==
  /\ \A c \in Consumers : consumer[c].pc = "running" =>
       proc[consumer[c].task] = "alive" \/ consumer[c].task[1] \in canceled[c[1]]
  /\ \A w \in Workers : stopping[w].job # "none" => stopping[w].job \in canceled[w]
  /\ \A w \in Workers, t \in Tasks : table[w][t] # "absent" =>
       \E c \in Consumers : /\ c[1] = w /\ consumer[c].task = t
                            /\ consumer[c].pc \in {"running", "delete"}

\* The calls of a job that ran and are, or may have been, in its list.
TasksOf(j) == {j} \X (0 .. Calls[j] - 1)
Carried(t) == \E c \in Consumers : Back(c) /\ consumer[c].task = t
Reported(j) == {t \in TasksOf(j) : fate[t] = "ran" /\ ~Carried(t)}
Counts == \A j \in Jobs : tasksDone[j] <= Cardinality(Reported(j))
Complete ==
  /\ \A c \in Consumers : consumer[c].pc = "setdone" =>
       tasksDone[consumer[c].task[1]] = Calls[consumer[c].task[1]]
  /\ \A j \in Jobs : jobStatus[j] = "done" => tasksDone[j] = Calls[j]

DoneInv == Returned /\ Killed /\ Counts /\ Complete

-----------------------------------------------------------------------------
(* What the operations on lists do to the set of their members.              *)

LEMMA ListPrepend ==
  ASSUME NEW S, NEW s \in Seq(S), NEW x \in S
  PROVE  /\ <<x>> \o s \in Seq(S)
         /\ ToSet(<<x>> \o s) = ToSet(s) \cup {x}
         /\ IsInjective(s) /\ x \notin ToSet(s) => IsInjective(<<x>> \o s)
<1> DEFINE n == <<x>> \o s
<1>1. /\ n \in Seq(S) /\ Len(n) = Len(s) + 1 /\ Len(s) \in Nat
      /\ DOMAIN n = 1 .. Len(s) + 1 /\ DOMAIN s = 1 .. Len(s)
      /\ n[1] = x /\ \A i \in 1 .. Len(s) : n[i + 1] = s[i]
  OBVIOUS
<1> HIDE DEF n
<1>2. \A i \in 1 .. Len(s) + 1 : i = 1 \/ (i - 1 \in 1 .. Len(s) /\ n[i] = s[i - 1])
  BY <1>1
<1>3. ToSet(n) = ToSet(s) \cup {x}
  <2>0. \A i \in DOMAIN n : n[i] = x \/ n[i] \in ToSet(s)
    BY <1>1, <1>2 DEF ToSet
  <2>1. \A y \in ToSet(n) : y \in ToSet(s) \cup {x}
    BY <2>0 DEF ToSet
  <2>2. x \in ToSet(n)
    BY <1>1 DEF ToSet
  <2>3. ASSUME NEW i \in 1 .. Len(s)
        PROVE  s[i] \in ToSet(n)
    <3>1. i + 1 \in DOMAIN n /\ n[i + 1] = s[i]
      BY <1>1
    <3> QED BY <3>1 DEF ToSet
  <2>4. \A y \in ToSet(s) : y \in ToSet(n)
    BY <2>3, <1>1 DEF ToSet
  <2> QED BY <2>1, <2>2, <2>4
<1>4. ASSUME IsInjective(s), x \notin ToSet(s)
      PROVE  IsInjective(n)
  <2> SUFFICES ASSUME NEW a \in DOMAIN n, NEW b \in DOMAIN n, n[a] = n[b]
               PROVE  a = b
    BY DEF IsInjective
  <2>1. \A i \in DOMAIN s : s[i] # x
    BY <1>4 DEF ToSet
  <2>0. ASSUME NEW i \in DOMAIN n, i # 1
        PROVE  n[i] # x
    <3>1. i - 1 \in DOMAIN s /\ n[i] = s[i - 1]
      BY <1>1, <1>2, <2>0
    <3> QED BY <2>1, <3>1
  <2>2. a = 1 <=> b = 1
    BY <1>1, <2>0
  <2>3. CASE a # 1 /\ b # 1
    <3>1. /\ a - 1 \in DOMAIN s /\ b - 1 \in DOMAIN s /\ s[a - 1] = s[b - 1]
      BY <1>1, <1>2, <2>3
    <3>2. a - 1 = b - 1
      BY <3>1, <1>4 DEF IsInjective
    <3> QED BY <3>2, <1>1
  <2> QED BY <2>2, <2>3
<1> QED BY <1>1, <1>3, <1>4 DEF n

LEMMA ListAppend ==
  ASSUME NEW S, NEW s \in Seq(S), NEW x \in S
  PROVE  /\ Append(s, x) \in Seq(S)
         /\ ToSet(Append(s, x)) = ToSet(s) \cup {x}
         /\ IsInjective(s) /\ x \notin ToSet(s) => IsInjective(Append(s, x))
<1> DEFINE n == Append(s, x)
<1>1. /\ n \in Seq(S) /\ Len(s) \in Nat
      /\ DOMAIN n = 1 .. Len(s) + 1 /\ DOMAIN s = 1 .. Len(s)
      /\ n[Len(s) + 1] = x /\ \A i \in 1 .. Len(s) : n[i] = s[i]
  OBVIOUS
<1> HIDE DEF n
<1>2. ToSet(n) = ToSet(s) \cup {x}
  BY <1>1 DEF ToSet
<1>3. ASSUME IsInjective(s), x \notin ToSet(s)
      PROVE  IsInjective(n)
  BY <1>1, <1>3 DEF IsInjective, ToSet
<1> QED BY <1>1, <1>2, <1>3 DEF n

LEMMA ListFront ==
  ASSUME NEW S, NEW s \in Seq(S), s # <<>>, IsInjective(s)
  PROVE  /\ Front(s) \in Seq(S) /\ Last(s) \in S /\ Last(s) \in ToSet(s)
         /\ ToSet(Front(s)) = ToSet(s) \ {Last(s)}
         /\ IsInjective(Front(s))
<1> DEFINE n == Front(s)
<1>1. /\ n \in Seq(S) /\ Len(s) \in Nat \ {0}
      /\ DOMAIN n = 1 .. Len(s) - 1 /\ DOMAIN s = 1 .. Len(s)
      /\ Last(s) = s[Len(s)] /\ \A i \in 1 .. Len(s) - 1 : n[i] = s[i]
  BY DEF Front, Last
<1> HIDE DEF n
<1>0. Len(s) \in Nat
  OBVIOUS
<1>2. \A i \in 1 .. Len(s) : i = Len(s) \/ i \in 1 .. Len(s) - 1
  BY <1>0
<1>3. ToSet(n) = ToSet(s) \ {Last(s)}
  <2>1. \A y \in ToSet(s) : y = Last(s) \/ y \in ToSet(n)
    BY <1>1, <1>2 DEF ToSet
  <2>a. DOMAIN s = 1 .. Len(s)
    OBVIOUS
  <2>b. Len(s) \in DOMAIN s
    BY <1>1
  <2>2. \A i \in 1 .. Len(s) - 1 : i \in DOMAIN s /\ i # Len(s) /\ Len(s) \in DOMAIN s
    <3>1. \A i \in 1 .. Len(s) - 1 : i \in 1 .. Len(s) /\ i # Len(s)
      BY <1>0
    <3> QED BY <3>1, <2>a, <2>b
  <2>3. \A y \in ToSet(n) : y \in ToSet(s) /\ y # Last(s)
    BY <1>1, <2>2 DEF ToSet, IsInjective
  <2> QED BY <2>1, <2>3
<1>4. IsInjective(n)
  BY <1>1 DEF IsInjective
<1>5. Last(s) \in S /\ Last(s) \in ToSet(s)
  BY <1>1 DEF ToSet
<1> QED BY <1>1, <1>3, <1>4, <1>5 DEF n

LEMMA ListTail ==
  ASSUME NEW S, NEW s \in Seq(S), s # <<>>, IsInjective(s)
  PROVE  /\ Tail(s) \in Seq(S) /\ Head(s) \in S /\ Head(s) \in ToSet(s)
         /\ ToSet(Tail(s)) = ToSet(s) \ {Head(s)}
         /\ IsInjective(Tail(s))
<1> DEFINE n == Tail(s)
<1>1. /\ n \in Seq(S) /\ Len(s) \in Nat \ {0}
      /\ DOMAIN n = 1 .. Len(s) - 1 /\ DOMAIN s = 1 .. Len(s)
      /\ Head(s) = s[1] /\ \A i \in 1 .. Len(s) - 1 : n[i] = s[i + 1]
  OBVIOUS
<1> HIDE DEF n
<1>2. ASSUME NEW i \in 1 .. Len(s), i # 1
      PROVE  i - 1 \in 1 .. Len(s) - 1 /\ n[i - 1] = s[i]
  <2>1. i - 1 \in 1 .. Len(s) - 1
    BY <1>1, <1>2
  <2> QED BY <2>1, <1>1
<1>3. ToSet(n) = ToSet(s) \ {Head(s)}
  <2>0. ASSUME NEW i \in DOMAIN s, s[i] # Head(s)
        PROVE  s[i] \in ToSet(n)
    <3>1. i - 1 \in DOMAIN n /\ n[i - 1] = s[i]
      BY <1>1, <1>2, <2>0
    <3> QED BY <3>1 DEF ToSet
  <2>1. \A y \in ToSet(s) : y = Head(s) \/ y \in ToSet(n)
    BY <2>0 DEF ToSet
  <2>2. ASSUME NEW i \in 1 .. Len(s) - 1
        PROVE  n[i] \in ToSet(s) /\ n[i] # Head(s)
    <3>1. i + 1 \in DOMAIN s /\ 1 \in DOMAIN s /\ i + 1 # 1 /\ n[i] = s[i + 1]
      BY <1>1
    <3> QED BY <3>1, <1>1 DEF ToSet, IsInjective
  <2>3. \A y \in ToSet(n) : y \in ToSet(s) /\ y # Head(s)
    BY <2>2, <1>1 DEF ToSet
  <2> QED BY <2>1, <2>3
<1>4. IsInjective(n)
  <2> SUFFICES ASSUME NEW a \in DOMAIN n, NEW b \in DOMAIN n, n[a] = n[b]
               PROVE  a = b
    BY DEF IsInjective
  <2>1. a + 1 \in DOMAIN s /\ b + 1 \in DOMAIN s /\ s[a + 1] = s[b + 1]
    BY <1>1
  <2>2. a + 1 = b + 1
    BY <2>1 DEF IsInjective
  <2> QED BY <2>2, <1>1
<1>5. Head(s) \in S /\ Head(s) \in ToSet(s)
  BY <1>1 DEF ToSet
<1> QED BY <1>1, <1>3, <1>4, <1>5 DEF n

\* An empty list.
LEMMA ListEmpty == ToSet(<<>>) = {} /\ IsInjective(<<>>)
BY DEF ToSet, IsInjective

-----------------------------------------------------------------------------
(* Type correctness.                                                         *)

\* A task is a job and the number of a call of it.
LEMMA TaskShape ==
  /\ Tasks # {}
  /\ \A t \in Tasks : /\ t[1] \in Jobs /\ t[2] \in 0 .. Calls[t[1]] - 1
                      /\ t = <<t[1], t[2]>>
  /\ \A j \in Jobs : \A i \in 0 .. Calls[j] - 1 : <<j, i>> \in Tasks
<1>1. \A j \in Jobs : \A i \in 0 .. Calls[j] - 1 : <<j, i>> \in Tasks
  BY DEF Tasks
<1>2. \A j \in Jobs : 0 \in 0 .. Calls[j] - 1
  OBVIOUS
<1>3. \A t \in Tasks : /\ t[1] \in Jobs /\ t[2] \in 0 .. Calls[t[1]] - 1
                       /\ t = <<t[1], t[2]>>
  BY DEF Tasks
<1> QED BY <1>1, <1>2, <1>3

LEMMA ConsumerShape ==
  \A c \in Consumers : c[1] \in Workers /\ c[2] \in 1 .. Procs /\ c = <<c[1], c[2]>>
BY DEF Consumers

LEMMA TasksFinite == IsFiniteSet(Tasks)
<1> DEFINE blocks == {TasksOf(j) : j \in Jobs}
<1>1. [j \in Jobs |-> TasksOf(j)] \in Surjection(Jobs, blocks)
  BY DEF Surjection
<1>2. IsFiniteSet(blocks)
  BY <1>1, FS_Surjection
<1>3. ASSUME NEW j \in Jobs
      PROVE  IsFiniteSet(TasksOf(j)) 
  <2>1. IsFiniteSet(0 .. Calls[j] - 1)
    BY FS_Interval
  <2>2. IsFiniteSet({j})
    BY FS_Singleton
  <2> QED BY <2>1, <2>2, FS_Product DEF TasksOf
<1>4. IsFiniteSet(UNION blocks)
  BY <1>2, <1>3, FS_UNION
<1> QED BY <1>4 DEF Tasks, TasksOf

\* The fields of the records.
LEMMA RecordFields ==
  /\ \A r \in ConsumerRec : r.pc \in Pcs /\ r.task \in Tasks
  /\ \A r \in CancelRec : /\ r.pc \in CancelPcs /\ r.jobs \in Seq(Jobs)
                          /\ r.tmp \in Seq(Tasks) /\ r.sent \subseteq Workers
  /\ \A r \in StoppingRec : r.job \in Jobs \cup {"none"} /\ r.seen \subseteq Tasks
  /\ \A r \in WorkerRec : /\ r.state \in {"absent", "down", "setup", "active", "gone", "deleted"}
                          /\ r.queue \in Names
BY DEF ConsumerRec, CancelRec, StoppingRec, WorkerRec

\* A record with another program counter.
LEMMA ConsumerMoves ==
  ASSUME NEW r \in ConsumerRec, NEW p \in Pcs
  PROVE  /\ [r EXCEPT !.pc = p] \in ConsumerRec
         /\ [r EXCEPT !.pc = p].pc = p /\ [r EXCEPT !.pc = p].task = r.task
BY DEF ConsumerRec

LEMMA CancelMoves ==
  ASSUME NEW r \in CancelRec, NEW p \in CancelPcs
  PROVE  /\ [r EXCEPT !.pc = p] \in CancelRec
         /\ [r EXCEPT !.pc = p].pc = p /\ [r EXCEPT !.pc = p].jobs = r.jobs
         /\ [r EXCEPT !.pc = p].tmp = r.tmp
BY DEF CancelRec

\* What a step of a consumer to another place of its code leaves alone.
LEMMA GotoFacts ==
  ASSUME consumer \in [Consumers -> ConsumerRec], NEW c \in Consumers, NEW p \in Pcs,
         Goto(c, p)
  PROVE  /\ consumer' \in [Consumers -> ConsumerRec]
         /\ consumer'[c].pc = p /\ consumer'[c].task = consumer[c].task
         /\ \A d \in Consumers \ {c} : consumer'[d] = consumer[d]
<1>1. consumer' = [consumer EXCEPT ![c] = [consumer[c] EXCEPT !.pc = p]]
  BY DEF Goto
<1> QED BY <1>1, ConsumerMoves

LEMMA CancelGotoFacts ==
  ASSUME cancel \in [Stops -> CancelRec], NEW k \in Stops, NEW p \in CancelPcs,
         CancelGoto(k, p)
  PROVE  /\ cancel' \in [Stops -> CancelRec]
         /\ cancel'[k].pc = p /\ cancel'[k].jobs = cancel[k].jobs
         /\ cancel'[k].tmp = cancel[k].tmp
         /\ \A l \in Stops \ {k} : cancel'[l] = cancel[l]
<1>1. cancel' = [cancel EXCEPT ![k] = [cancel[k] EXCEPT !.pc = p]]
  BY DEF CancelGoto
<1> QED BY <1>1, CancelMoves

LEMMA QueueNameType == \A j \in Jobs : QueueName(j) \in Names
BY DEF QueueName, Names

\* The steps of a set-up that touch nothing but the hash and the state of a
\* worker, and those that take the service of a worker away.
Quiet ==
  \/ \E j \in Jobs : SetupReads(j) \/ SetupSaves(j) \/ SetupFails(j)
  \/ \E w \in Workers : WorkerSetupFails(w)
Leaves(w) ==
  VMDeleted(w) \/ KeeperStops(w) \/ (w = Master /\ \E j \in Jobs : SetupInstalls(j))

LEMMA QuietFacts ==
  ASSUME Quiet
  PROVE  UNCHANGED <<client, redis, pushed, doneFile, canceled, table, proc, consumer, stopping,
                     doomed, cancel, fate, cut>>
BY DEF Quiet, SetupReads, SetupSaves, SetupFails, WorkerSetupFails, workers

LEMMA LeavesFacts ==
  ASSUME NEW w \in Workers, Leaves(w)
  PROVE  ServiceGone(w) /\ UNCHANGED <<client, redis, pushed, doneFile, cancel>>
BY DEF Leaves, VMDeleted, KeeperStops, SetupInstalls

LEMMA NextSteps ==
  ASSUME Next
  PROVE  \/ \E j \in Jobs : Invoke(j) \/ MasterStep(j)
         \/ Quiet
         \/ \E k \in Stops : Clear(k) \/ CancelStep(k)
         \/ \E w \in Workers : WorkerStarts(w) \/ WorkerEnds(w) \/ StopTurn(w) \/ Leaves(w)
         \/ \E c \in Consumers : ConsumerStep(c)
<1>1. Master \in Workers
  OBVIOUS
<1>2. ASSUME NEW j \in Jobs, ConsumeSetup(j)
      PROVE  Quiet \/ Leaves(Master)
  BY <1>2 DEF ConsumeSetup, Quiet, Leaves
<1>3. ASSUME NEW w \in Workers, WorkerStep(w) \/ KeeperStops(w)
      PROVE  Quiet \/ WorkerStarts(w) \/ WorkerEnds(w) \/ StopTurn(w) \/ Leaves(w)
  BY <1>3 DEF WorkerStep, Quiet, Leaves
<1> QED BY <1>1, <1>2, <1>3 DEF Next

LEMMA TypeInit == Init => TypeInv
<1> SUFFICES ASSUME Init
             PROVE  TypeInv
  OBVIOUS
<1> USE DEF Init, Names
<1>1. /\ execMode \in Modes
      /\ installing \in [Jobs -> {"none", "asked", "save", "install"}]
      /\ listed \subseteq Workers /\ cut \subseteq Jobs
      /\ clientJobs \in Seq(Jobs) /\ posted \subseteq Jobs /\ doneFile \subseteq Jobs
      /\ doomed \subseteq Workers
  OBVIOUS
<1>2. /\ jobStatus \in [Jobs -> {"none", "submitted", "running", "done", "canceled"}]
      /\ tasksDone \in [Jobs -> Nat]
      /\ pushed \in [Jobs -> Int] /\ \A j \in Jobs : pushed[j] \in -1 .. Calls[j]
  OBVIOUS
<1>3. queue \in [Names -> Seq(Tasks)]
  OBVIOUS
<1>4. worker \in [Workers -> WorkerRec]
  BY DEF WorkerRec
<1>9. /\ canceled \in [Workers -> SUBSET Jobs]
      /\ table \in [Workers -> [Tasks -> {"absent", "process", "None"}]]
      /\ proc \in [Tasks -> {"none", "alive", "killed", "reaped"}]
      /\ fate \in [Tasks -> {"none", "ran", "killed", "dropped"}]
  OBVIOUS
<1>5. (CHOOSE t \in Tasks : TRUE) \in Tasks
  BY TaskShape
<1>6. consumer \in [Consumers -> ConsumerRec]
  BY <1>5 DEF Pcs, ConsumerRec
<1>7. cancel \in [Stops -> CancelRec]
  BY DEF CancelPcs, CancelRec
<1>8. stopping \in [Workers -> StoppingRec]
  BY DEF StoppingRec
<1> QED BY <1>1, <1>2, <1>3, <1>4, <1>6, <1>7, <1>8, <1>9 DEF TypeInv

\* The steps of the client and of the threads of a job.
LEMMA TypeJob ==
  ASSUME TypeInv, NEW j \in Jobs, Invoke(j) \/ MasterStep(j)
  PROVE  TypeInv'
<1> USE DEF TypeInv, client, redis, setups, workers
<1>0. QueueName(j) \in Names
  BY QueueNameType
<1>1. CASE Invoke(j)
  <2>1. posted' \subseteq Jobs /\ clientJobs' \in Seq(Jobs)
    BY <1>1 DEF Invoke
  <2>2. [state |-> "setup", queue |-> QueueName(j)] \in WorkerRec
    BY <1>0 DEF WorkerRec
  <2>3. worker' \in [Workers -> WorkerRec]
    BY <1>1, <2>2 DEF Invoke
  <2>4. installing' \in [Jobs -> {"none", "asked", "save", "install"}]
    BY <1>1 DEF Invoke
  <2> QED BY <1>1, <2>1, <2>3, <2>4 DEF Invoke
<1>2. CASE SubmitJob(j)
  BY <1>2 DEF SubmitJob
<1>3. CASE PushCall(j)
  <2>1. <<j, pushed[j]>> \in Tasks
    BY <1>3, TaskShape DEF PushCall
  <2>2. <<<<j, pushed[j]>>>> \o queue[QueueName(j)] \in Seq(Tasks)
    BY <2>1, <1>0, ListPrepend
  <2>3. queue' \in [Names -> Seq(Tasks)]
    BY <2>2, <1>3 DEF PushCall
  <2>4. pushed' \in [Jobs -> Int] /\ \A i \in Jobs : pushed'[i] \in -1 .. Calls[i]
    BY <1>3 DEF PushCall
  <2> QED BY <1>3, <2>3, <2>4 DEF PushCall
<1>4. CASE MonitorDone(j)
  BY <1>4 DEF MonitorDone
<1> QED BY <1>1, <1>2, <1>3, <1>4 DEF MasterStep

\* The steps of a consumer.
LEMMA TypeConsumer ==
  ASSUME TypeInv, Lists, NEW c \in Consumers, ConsumerStep(c)
  PROVE  TypeInv'
<1> USE DEF client, redis, setups, workers, At
<1>a. /\ c[1] \in Workers /\ WQ(c) \in Names /\ consumer[c].task \in Tasks
      /\ consumer[c] \in ConsumerRec
  BY ConsumerShape, RecordFields DEF WQ, TypeInv
<1>b. consumer[c].task[1] \in Jobs
  BY <1>a, TaskShape
<1>c. ASSUME NEW p \in Pcs, Goto(c, p)
      PROVE  consumer' \in [Consumers -> ConsumerRec]
  BY <1>c, GotoFacts DEF TypeInv
<1>d. /\ \A p \in {"ended", "startset", "spawn", "running", "delete", "report", "setdone",
                   "take"} : p \in Pcs
  BY DEF Pcs
<1>1. CASE TakeTask(c)
  <2>1. Front(queue[WQ(c)]) \in Seq(Tasks) /\ Last(queue[WQ(c)]) \in Tasks
    BY <1>a, <1>1, ListFront DEF TakeTask, Lists, TypeInv
  <2>2. queue' \in [Names -> Seq(Tasks)]
    BY <1>1, <2>1 DEF TakeTask, AfterPop, TypeInv
  <2>3. [pc |-> "start", task |-> Last(queue[WQ(c)])] \in ConsumerRec
    BY <2>1 DEF ConsumerRec, Pcs
  <2>4. consumer' \in [Consumers -> ConsumerRec]
    BY <1>1, <2>3 DEF TakeTask, TypeInv
  <2> QED BY <1>1, <2>2, <2>4 DEF TakeTask, TypeInv
<1>2. CASE NoMoreTasks(c)
  <2>1. consumer' \in [Consumers -> ConsumerRec]
    BY <1>2, <1>c, <1>d DEF NoMoreTasks
  <2> QED BY <1>2, <2>1 DEF NoMoreTasks, TypeInv
<1>3. CASE StartRead(c)
  <2>1. consumer' \in [Consumers -> ConsumerRec]
    BY <1>3, <1>c, <1>d DEF StartRead
  <2> QED BY <1>3, <2>1 DEF StartRead, TypeInv
<1>4. CASE StartSet(c)
  <2>1. consumer' \in [Consumers -> ConsumerRec]
    BY <1>4, <1>c, <1>d DEF StartSet
  <2>2. jobStatus' \in [Jobs -> {"none", "submitted", "running", "done", "canceled"}]
    BY <1>4, <1>b DEF StartSet, TypeInv
  <2> QED BY <1>4, <2>1, <2>2 DEF StartSet, TypeInv
<1>5. CASE Spawn(c)
  <2>1. consumer' \in [Consumers -> ConsumerRec]
    BY <1>5, <1>c, <1>d DEF Spawn
  <2>2. /\ proc' \in [Tasks -> {"none", "alive", "killed", "reaped"}]
        /\ table' \in [Workers -> [Tasks -> {"absent", "process", "None"}]]
    BY <1>5, <1>a DEF Spawn, TypeInv
  <2> QED BY <1>5, <2>1, <2>2 DEF Spawn, TypeInv
<1>6. CASE Reap(c)
  <2>1. consumer' \in [Consumers -> ConsumerRec]
    BY <1>6, <1>c, <1>d DEF Reap
  <2>2. /\ proc' \in [Tasks -> {"none", "alive", "killed", "reaped"}]
        /\ fate' \in [Tasks -> {"none", "ran", "killed", "dropped"}]
    BY <1>6, <1>a DEF Reap, TypeInv
  <2> QED BY <1>6, <2>1, <2>2 DEF Reap, TypeInv
<1>7. CASE Forget(c)
  <2>1. consumer' \in [Consumers -> ConsumerRec]
    BY <1>7, <1>c, <1>d DEF Forget
  <2>2. table' \in [Workers -> [Tasks -> {"absent", "process", "None"}]]
    BY <1>7, <1>a DEF Forget, TypeInv
  <2> QED BY <1>7, <2>1, <2>2 DEF Forget, TypeInv
<1>8. CASE Report(c)
  <2>1. tasksDone' \in [Jobs -> Nat]
    <3>1. \/ tasksDone' = tasksDone
          \/ tasksDone' = [tasksDone EXCEPT ![consumer[c].task[1]] = @ + 1]
      BY <1>8 DEF Report
    <3>2. tasksDone \in [Jobs -> Nat]
      BY DEF TypeInv
    <3> QED BY <3>1, <3>2, <1>b
  <2>2. consumer' \in [Consumers -> ConsumerRec]
    BY <1>8, <1>c, <1>d DEF Report
  <2> QED BY <1>8, <2>1, <2>2 DEF Report, TypeInv
<1>9. CASE SetDone(c)
  <2>1. consumer' \in [Consumers -> ConsumerRec]
    BY <1>9, <1>c, <1>d DEF SetDone
  <2>2. jobStatus' \in [Jobs -> {"none", "submitted", "running", "done", "canceled"}]
    BY <1>9, <1>b DEF SetDone, TypeInv
  <2> QED BY <1>9, <2>1, <2>2 DEF SetDone, TypeInv
<1>10. CASE TaskRaises(c)
  <2>1. consumer' \in [Consumers -> ConsumerRec]
    BY <1>10, <1>c, <1>d DEF TaskRaises
  <2>2. fate' \in [Tasks -> {"none", "ran", "killed", "dropped"}] /\ cut' \subseteq Jobs
    BY <1>10, <1>a, <1>b DEF TaskRaises, TypeInv
  <2> QED BY <1>10, <2>1, <2>2 DEF TaskRaises, TypeInv
<1> QED
  BY <1>1, <1>2, <1>3, <1>4, <1>5, <1>6, <1>7, <1>8, <1>9, <1>10 DEF ConsumerStep

\* The steps of a set-up.
LEMMA TypeQuiet ==
  ASSUME TypeInv, Quiet
  PROVE  TypeInv'
<1> USE DEF client, redis, workers
<1>a. ASSUME NEW w \in Workers, NEW s \in {"absent", "down", "setup", "active", "gone", "deleted"},
             worker' = [worker EXCEPT ![w] = [worker[w] EXCEPT !.state = s]]
      PROVE  worker' \in [Workers -> WorkerRec]
  <2>1. worker[w] \in WorkerRec
    BY DEF TypeInv
  <2>2. [worker[w] EXCEPT !.state = s] \in WorkerRec
    BY <2>1 DEF WorkerRec
  <2> QED BY <1>a, <2>2 DEF TypeInv
<1>1. worker' \in [Workers -> WorkerRec]
  <2>1. ASSUME NEW w \in Workers, WorkerSetupFails(w)
        PROVE  worker' \in [Workers -> WorkerRec]
    BY <2>1, <1>a DEF WorkerSetupFails
  <2>2. ASSUME NEW j \in Jobs, SetupSaves(j)
        PROVE  worker' \in [Workers -> WorkerRec]
    <3>1. /\ Master \in Workers
          /\ \/ worker' = [worker EXCEPT ![Master] = [worker[Master] EXCEPT !.state = "down"]]
             \/ worker' = [worker EXCEPT ![Master] =
                              [worker[Master] EXCEPT !.state = worker[Master].state]]
      BY <2>2 DEF SetupSaves
    <3>2. worker[Master].state \in {"absent", "down", "setup", "active", "gone", "deleted"}
      BY <3>1, RecordFields DEF TypeInv, WorkerRec
    <3> QED BY <3>1, <3>2, <1>a
  <2>3. ASSUME NEW j \in Jobs, SetupReads(j) \/ SetupFails(j)
        PROVE  worker' \in [Workers -> WorkerRec]
    BY <2>3 DEF SetupReads, SetupFails, TypeInv
  <2> QED BY <2>1, <2>2, <2>3 DEF Quiet
<1>2. /\ installing' \in [Jobs -> {"none", "asked", "save", "install"}]
      /\ listed' \subseteq Workers
  BY DEF Quiet, SetupReads, SetupSaves, SetupFails, WorkerSetupFails, setups, TypeInv
<1> QED BY <1>1, <1>2, QuietFacts DEF TypeInv

\* The steps of a worker.
LEMMA TypeWorker ==
  ASSUME TypeInv, NEW w \in Workers,
         WorkerStarts(w) \/ WorkerEnds(w) \/ StopTurn(w) \/ Leaves(w)
  PROVE  TypeInv'
<1> USE DEF client, redis, setups, workers
<1>a. /\ worker[w] \in WorkerRec /\ stopping[w] \in StoppingRec
      /\ worker[w].queue \in Names /\ stopping[w].seen \subseteq Tasks
  BY RecordFields DEF TypeInv
<1>b. \A s \in {"absent", "down", "setup", "active", "gone", "deleted"} :
        [worker[w] EXCEPT !.state = s] \in WorkerRec
  BY <1>a DEF WorkerRec
<1>c. \A c \in Consumers, p \in Pcs : [consumer[c] EXCEPT !.pc = p] \in ConsumerRec
  BY ConsumerMoves DEF TypeInv
<1>d. "take" \in Pcs /\ "off" \in Pcs
  BY DEF Pcs
<1>1. CASE WorkerStarts(w)
  <2>1. worker' = [worker EXCEPT ![w] = [worker[w] EXCEPT !.state = "active"]]
    BY <1>1 DEF WorkerStarts
  <2>2. worker' \in [Workers -> WorkerRec]
    BY <2>1, <1>b DEF TypeInv
  <2>3. consumer' \in [Consumers -> ConsumerRec]
    BY <1>1, <1>c, <1>d DEF WorkerStarts, TypeInv
  <2>4. listed' \subseteq Workers
    BY <1>1 DEF WorkerStarts, TypeInv
  <2> QED BY <1>1, <2>2, <2>3, <2>4 DEF WorkerStarts, TypeInv
<1>2. CASE WorkerEnds(w)
  <2>1. worker' = [worker EXCEPT ![w] = [worker[w] EXCEPT !.state = "deleted"]]
    BY <1>2 DEF WorkerEnds
  <2>2. worker' \in [Workers -> WorkerRec]
    BY <2>1, <1>b DEF TypeInv
  <2> QED BY <1>2, <2>2 DEF WorkerEnds, TypeInv
<1>3. [job |-> "none", size |-> 0, seen |-> {}] \in StoppingRec
  BY DEF StoppingRec
<1>4. CASE StopTurn(w)
  <2> DEFINE End == stopping' = [stopping EXCEPT ![w] =
                                   [job |-> "none", size |-> 0, seen |-> {}]]
             Sees(t) == stopping' = [stopping EXCEPT ![w] =
                                       [stopping[w] EXCEPT !.seen = stopping[w].seen \cup {t}]]
  <2>1. \/ End /\ UNCHANGED <<table, proc>>
        \/ \E t \in Tasks :
             /\ Sees(t)
             /\ \/ UNCHANGED <<table, proc>>
                \/ /\ proc' = [proc EXCEPT ![t] = IF @ = "alive" THEN "killed" ELSE @]
                   /\ table' = [table EXCEPT ![w][t] = "None"]
    BY <1>4 DEF StopTurn
  <2>2. \A t \in Tasks : [stopping[w] EXCEPT !.seen = stopping[w].seen \cup {t}] \in StoppingRec
    BY <1>a DEF StoppingRec
  <2>3. stopping' \in [Workers -> StoppingRec]
    <3>1. stopping \in [Workers -> StoppingRec]
      BY DEF TypeInv
    <3>2. CASE End
      BY <3>1, <3>2, <1>3
    <3>3. ASSUME NEW t \in Tasks, Sees(t)
          PROVE  stopping' \in [Workers -> StoppingRec]
      BY <3>1, <3>3, <2>2
    <3> QED BY <2>1, <3>2, <3>3
  <2>4. /\ table' \in [Workers -> [Tasks -> {"absent", "process", "None"}]]
        /\ proc' \in [Tasks -> {"none", "alive", "killed", "reaped"}]
    <3>1. /\ table \in [Workers -> [Tasks -> {"absent", "process", "None"}]]
          /\ proc \in [Tasks -> {"none", "alive", "killed", "reaped"}]
      BY DEF TypeInv
    <3>2. ASSUME NEW t \in Tasks,
                 proc' = [proc EXCEPT ![t] = IF @ = "alive" THEN "killed" ELSE @],
                 table' = [table EXCEPT ![w][t] = "None"]
          PROVE  /\ table' \in [Workers -> [Tasks -> {"absent", "process", "None"}]]
                 /\ proc' \in [Tasks -> {"none", "alive", "killed", "reaped"}]
      BY <3>1, <3>2
    <3> HIDE DEF End, Sees
    <3> QED BY <2>1, <3>1, <3>2
  <2> QED BY <1>4, <2>3, <2>4 DEF StopTurn, TypeInv
<1>5. CASE Leaves(w)
  <2>0. ServiceGone(w) /\ UNCHANGED <<client, redis, pushed, doneFile, cancel>>
    BY <1>5, LeavesFacts
  <2>1. worker' \in [Workers -> WorkerRec]
    <3>1. \/ worker' = worker
          \/ \E s \in {"setup", "gone", "deleted"} :
               worker' = [worker EXCEPT ![w] = [worker[w] EXCEPT !.state = s]]
      BY <1>5 DEF Leaves, VMDeleted, KeeperStops, SetupInstalls
    <3>2. worker \in [Workers -> WorkerRec]
      BY DEF TypeInv
    <3>3. ASSUME NEW s \in {"setup", "gone", "deleted"},
                 worker' = [worker EXCEPT ![w] = [worker[w] EXCEPT !.state = s]]
          PROVE  worker' \in [Workers -> WorkerRec]
      BY <3>2, <3>3, <1>b
    <3> QED BY <3>1, <3>2, <3>3
  <2>2. consumer' \in [Consumers -> ConsumerRec]
    BY <2>0, <1>c, <1>d DEF ServiceGone, TypeInv
  <2>3. stopping' \in [Workers -> StoppingRec]
    BY <2>0, <1>3 DEF ServiceGone, TypeInv
  <2>4. /\ table' \in [Workers -> [Tasks -> {"absent", "process", "None"}]]
        /\ proc' \in [Tasks -> {"none", "alive", "killed", "reaped"}]
        /\ canceled' \in [Workers -> SUBSET Jobs]
        /\ fate' \in [Tasks -> {"none", "ran", "killed", "dropped"}]
    BY <2>0 DEF ServiceGone, TypeInv
  <2>5. /\ installing' \in [Jobs -> {"none", "asked", "save", "install"}]
        /\ listed' \subseteq Workers /\ doomed' \subseteq Workers
    <3>1. CASE VMDeleted(w)
      BY <3>1 DEF VMDeleted, TypeInv, setups
    <3>2. CASE KeeperStops(w)
      BY <3>2 DEF KeeperStops, TypeInv
    <3>3. CASE w = Master /\ \E j \in Jobs : SetupInstalls(j)
      BY <3>3 DEF SetupInstalls, TypeInv
    <3> QED BY <1>5, <3>1, <3>2, <3>3 DEF Leaves
  <2>6. cut' \subseteq Jobs
    <3>1. \A c \in Consumers : consumer[c].task[1] \in Jobs
      BY RecordFields, TaskShape DEF TypeInv
    <3>2. cut \subseteq Jobs
      BY DEF TypeInv
    <3> QED BY <2>0, <3>1, <3>2 DEF ServiceGone
  <2> QED BY <2>0, <2>1, <2>2, <2>3, <2>4, <2>5, <2>6 DEF TypeInv
<1> QED BY <1>1, <1>2, <1>4, <1>5

\* A cancel thread at work has a job at hand.
LEMMA CancelHasJob ==
  ASSUME TypeInv, Orderly, NEW k \in Stops,
         cancel[k].pc \in {"llen", "rpop", "putback", "signal", "set"}
  PROVE  /\ CancelJob(k) \in Jobs /\ QueueName(CancelJob(k)) \in Names
         /\ Tail(cancel[k].jobs) \in Seq(Jobs)
<1>1. cancel[k].jobs \in Seq(Jobs) /\ cancel[k].jobs # <<>>
  BY RecordFields DEF TypeInv, Orderly
<1>2. CancelJob(k) \in Jobs /\ Tail(cancel[k].jobs) \in Seq(Jobs)
  BY <1>1 DEF CancelJob
<1> QED BY <1>2, QueueNameType

\* The two outcomes of a pop, and of a turn of the loop that puts back.
LEMMA CancelPopCases ==
  ASSUME TypeInv, Orderly, Lists, NEW k \in Stops, CancelPop(k)
  PROVE  \/ CancelGoto(k, "dead") /\ UNCHANGED <<queue, fate>>
         \/ \E q \in Names, t \in Tasks :
              /\ queue[q] # <<>> /\ t = Last(queue[q])
              /\ queue' = [queue EXCEPT ![q] = Front(queue[q])]
              /\ \/ /\ cancel' = [cancel EXCEPT ![k] =
                         [cancel[k] EXCEPT !.pc = "llen", !.tmp = Append(cancel[k].tmp, t)]]
                    /\ fate' = fate
                 \/ /\ cancel' = [cancel EXCEPT ![k] = [cancel[k] EXCEPT !.pc = "llen"]]
                    /\ fate' = [fate EXCEPT ![t] = "dropped"]
<1> DEFINE q == QueueName(CancelJob(k))
           t == Last(queue[q])
<1>1. q \in Names
  BY CancelHasJob DEF CancelPop
<1> HIDE DEF q
<1>2. CASE queue[q] = <<>>
  BY <1>2 DEF CancelPop, q
<1>3. CASE queue[q] # <<>>
  <2>1. t \in Tasks
    BY <1>1, <1>3, ListFront DEF Lists, TypeInv
  <2>2. queue' = [queue EXCEPT ![q] = Front(queue[q])]
    BY <1>3 DEF CancelPop, AfterPop, q
  <2>3. cancel[k] \in CancelRec
    BY DEF TypeInv
  <2>4. CASE Kept(k, t)
    <3>1. /\ cancel' = [cancel EXCEPT ![k] =
                [cancel[k] EXCEPT !.pc = "llen", !.tmp = Append(cancel[k].tmp, t)]]
          /\ fate' = fate
      BY <1>3, <2>4 DEF CancelPop, q
    <3> QED BY <3>1, <1>1, <1>3, <2>1, <2>2
  <2>5. CASE ~Kept(k, t)
    <3>1. fate' = [fate EXCEPT ![t] = "dropped"]
      BY <1>3, <2>5 DEF CancelPop, q
    <3>2. cancel' = [cancel EXCEPT ![k] =
                       [cancel[k] EXCEPT !.pc = "llen", !.tmp = cancel[k].tmp]]
      BY <1>3, <2>5 DEF CancelPop, q
    <3>3. [cancel[k] EXCEPT !.pc = "llen", !.tmp = cancel[k].tmp]
          = [cancel[k] EXCEPT !.pc = "llen"]
      BY <2>3 DEF CancelRec
    <3> QED BY <3>1, <3>2, <3>3, <1>1, <1>3, <2>1, <2>2
  <2> QED BY <2>4, <2>5
<1> QED BY <1>2, <1>3

LEMMA CancelPutBackCases ==
  ASSUME TypeInv, Orderly, Lists, NEW k \in Stops, CancelPutBack(k)
  PROVE  \/ cancel[k].tmp = <<>> /\ CancelGoto(k, "signal") /\ UNCHANGED queue
         \/ \E q \in Names, t \in Tasks :
              /\ cancel[k].tmp # <<>> /\ t = Head(cancel[k].tmp)
              /\ queue' = [queue EXCEPT ![q] = <<t>> \o queue[q]]
              /\ cancel' = [cancel EXCEPT ![k] = [cancel[k] EXCEPT !.tmp = Tail(cancel[k].tmp)]]
<1> DEFINE q == QueueName(CancelJob(k))
           t == Head(cancel[k].tmp)
<1>1. q \in Names
  BY CancelHasJob DEF CancelPutBack
<1>2. CASE cancel[k].tmp = <<>>
  BY <1>2 DEF CancelPutBack
<1>3. CASE cancel[k].tmp # <<>>
  <2>1. cancel[k].tmp \in Seq(Tasks)
    BY RecordFields DEF TypeInv
  <2>2. t \in Tasks
    BY <1>3, <2>1
  <2>3. /\ queue' = [queue EXCEPT ![q] = <<t>> \o queue[q]]
        /\ cancel' = [cancel EXCEPT ![k] = [cancel[k] EXCEPT !.tmp = Tail(cancel[k].tmp)]]
    BY <1>3 DEF CancelPutBack
  <2> HIDE DEF q, t
  <2>4. t = Head(cancel[k].tmp)
    BY DEF t
  <2> QED BY <1>1, <1>3, <2>2, <2>3, <2>4
<1> QED BY <1>2, <1>3

\* The steps of a cancel thread.
LEMMA TypeCancel ==
  ASSUME TypeInv, Orderly, Lists, NEW k \in Stops, Clear(k) \/ CancelStep(k)
  PROVE  TypeInv'
<1> USE DEF client, redis, setups, workers
<1>a. cancel[k] \in CancelRec /\ cancel[k].tmp \in Seq(Tasks)
  BY RecordFields DEF TypeInv
<1>b. ASSUME NEW p \in CancelPcs, CancelGoto(k, p)
      PROVE  cancel' \in [Stops -> CancelRec]
  BY <1>b, CancelGotoFacts DEF TypeInv
<1>c. \A p \in {"llen", "rpop", "putback", "signal", "set", "ended", "dead"} : p \in CancelPcs
  BY DEF CancelPcs
<1>1. CASE Clear(k)
  <2>1. cancel' = [cancel EXCEPT ![k] = [cancel[k] EXCEPT !.pc = "llen", !.jobs = clientJobs]]
    BY <1>1 DEF Clear
  <2>2. [cancel[k] EXCEPT !.pc = "llen", !.jobs = clientJobs] \in CancelRec
    BY <1>a, <1>c DEF CancelRec, TypeInv
  <2>3. cancel' \in [Stops -> CancelRec]
    BY <2>1, <2>2 DEF TypeInv
  <2>4. doomed' \subseteq Workers
    BY <1>1 DEF Clear
  <2> QED BY <1>1, <2>3, <2>4 DEF Clear, TypeInv
<1>2. CASE CancelLen(k)
  <2>1. cancel' \in [Stops -> CancelRec]
    BY <1>2, <1>b, <1>c DEF CancelLen
  <2> QED BY <1>2, <2>1 DEF CancelLen, TypeInv
<1>3. CASE CancelPop(k)
  <2>1. CASE CancelGoto(k, "dead") /\ UNCHANGED <<queue, fate>>
    <3>1. cancel' \in [Stops -> CancelRec]
      BY <2>1, <1>b, <1>c
    <3> QED BY <1>3, <2>1, <3>1 DEF CancelPop, TypeInv
  <2>2. ASSUME NEW q \in Names, NEW t \in Tasks, queue[q] # <<>>,
               queue' = [queue EXCEPT ![q] = Front(queue[q])],
               \/ /\ cancel' = [cancel EXCEPT ![k] =
                       [cancel[k] EXCEPT !.pc = "llen", !.tmp = Append(cancel[k].tmp, t)]]
                  /\ fate' = fate
               \/ /\ cancel' = [cancel EXCEPT ![k] = [cancel[k] EXCEPT !.pc = "llen"]]
                  /\ fate' = [fate EXCEPT ![t] = "dropped"]
        PROVE  TypeInv'
    <3>1. Front(queue[q]) \in Seq(Tasks)
      BY <2>2, ListFront DEF Lists, TypeInv
    <3>2. queue' \in [Names -> Seq(Tasks)]
      BY <2>2, <3>1 DEF TypeInv
    <3>3. Append(cancel[k].tmp, t) \in Seq(Tasks)
      BY <1>a
    <3>4. /\ [cancel[k] EXCEPT !.pc = "llen", !.tmp = Append(cancel[k].tmp, t)] \in CancelRec
          /\ [cancel[k] EXCEPT !.pc = "llen"] \in CancelRec
      BY <3>3, <1>a, <1>c DEF CancelRec
    <3>5. cancel' \in [Stops -> CancelRec]
      BY <2>2, <3>4 DEF TypeInv
    <3>6. fate' \in [Tasks -> {"none", "ran", "killed", "dropped"}]
      BY <2>2 DEF TypeInv
    <3> QED BY <1>3, <3>2, <3>5, <3>6 DEF CancelPop, TypeInv
  <2> QED BY <1>3, <2>1, <2>2, CancelPopCases
<1>4. CASE CancelPutBack(k)
  <2>1. CASE CancelGoto(k, "signal") /\ UNCHANGED queue
    <3>1. cancel' \in [Stops -> CancelRec]
      BY <2>1, <1>b, <1>c
    <3> QED BY <1>4, <2>1, <3>1 DEF CancelPutBack, TypeInv
  <2>2. ASSUME NEW q \in Names, NEW t \in Tasks, cancel[k].tmp # <<>>,
               queue' = [queue EXCEPT ![q] = <<t>> \o queue[q]],
               cancel' = [cancel EXCEPT ![k] = [cancel[k] EXCEPT !.tmp = Tail(cancel[k].tmp)]]
        PROVE  TypeInv'
    <3>1. <<t>> \o queue[q] \in Seq(Tasks)
      BY ListPrepend DEF TypeInv
    <3>2. queue' \in [Names -> Seq(Tasks)]
      BY <2>2, <3>1 DEF TypeInv
    <3>3. Tail(cancel[k].tmp) \in Seq(Tasks)
      BY <2>2, <1>a
    <3>4. [cancel[k] EXCEPT !.tmp = Tail(cancel[k].tmp)] \in CancelRec
      BY <3>3, <1>a DEF CancelRec
    <3>5. cancel' \in [Stops -> CancelRec]
      BY <2>2, <3>4 DEF TypeInv
    <3> QED BY <1>4, <3>2, <3>5 DEF CancelPutBack, TypeInv
  <2> QED BY <1>4, <2>1, <2>2, CancelPutBackCases
<1>5. CASE CancelNoWorkers(k)
  <2>1. cancel' \in [Stops -> CancelRec]
    BY <1>5, <1>b, <1>c DEF CancelNoWorkers
  <2> QED BY <1>5, <2>1 DEF CancelNoWorkers, TypeInv
<1>6. ASSUME NEW w \in Workers, SignalWorker(k, w)
      PROVE  TypeInv'
  <2>1. CancelJob(k) \in Jobs
    BY <1>6, CancelHasJob DEF SignalWorker
  <2>2. Cardinality({t \in Tasks : table[w][t] # "absent"}) \in Nat
    BY TasksFinite, FS_Subset, FS_CardinalityType
  <2>3. /\ cancel' = [cancel EXCEPT ![k] = [cancel[k] EXCEPT !.sent = cancel[k].sent \cup {w}]]
        /\ [cancel[k] EXCEPT !.sent = cancel[k].sent \cup {w}] \in CancelRec
    BY <1>6, <1>a DEF SignalWorker, CancelRec
  <2>4. cancel' \in [Stops -> CancelRec]
    BY <2>3 DEF TypeInv
  <2>5. canceled' \in [Workers -> SUBSET Jobs]
    <3>1. \/ canceled' = canceled
          \/ canceled' = [canceled EXCEPT ![w] = @ \cup {CancelJob(k)}]
      BY <1>6 DEF SignalWorker
    <3>2. canceled \in [Workers -> SUBSET Jobs]
      BY DEF TypeInv
    <3> QED BY <3>1, <3>2, <2>1
  <2>6. [job |-> CancelJob(k), seen |-> {},
         size |-> Cardinality({t \in Tasks : table[w][t] # "absent"})] \in StoppingRec
    BY <2>1, <2>2 DEF StoppingRec
  <2>7. stopping' \in [Workers -> StoppingRec]
    BY <1>6, <2>6 DEF SignalWorker, TypeInv
  <2> QED BY <1>6, <2>4, <2>5, <2>7 DEF SignalWorker, TypeInv
<1>d. ASSUME NextJob(k), Tail(cancel[k].jobs) \in Seq(Jobs)
      PROVE  cancel' \in [Stops -> CancelRec]
  <2>1. [pc |-> IF Len(cancel[k].jobs) = 1 THEN "ended" ELSE "llen",
         jobs |-> Tail(cancel[k].jobs), tmp |-> <<>>, sent |-> {}] \in CancelRec
    BY <1>d, <1>c DEF CancelRec
  <2> QED BY <1>d, <2>1 DEF NextJob, TypeInv
<1>7. CASE CancelTest(k)
  <2>1. CancelJob(k) \in Jobs /\ Tail(cancel[k].jobs) \in Seq(Jobs)
    BY <1>7, CancelHasJob DEF CancelTest
  <2>2. cancel' \in [Stops -> CancelRec]
    BY <1>7, <2>1, <1>b, <1>c, <1>d DEF CancelTest
  <2> QED BY <1>7, <2>1, <2>2 DEF CancelTest, TypeInv
<1>8. CASE CancelSet(k)
  <2>1. CancelJob(k) \in Jobs /\ Tail(cancel[k].jobs) \in Seq(Jobs)
    BY <1>8, CancelHasJob DEF CancelSet
  <2>2. cancel' \in [Stops -> CancelRec]
    BY <1>8, <2>1, <1>d DEF CancelSet
  <2>3. jobStatus' \in [Jobs -> {"none", "submitted", "running", "done", "canceled"}]
    BY <1>8, <2>1 DEF CancelSet, TypeInv
  <2> QED BY <1>8, <2>2, <2>3 DEF CancelSet, TypeInv
<1> QED BY <1>1, <1>2, <1>3, <1>4, <1>5, <1>6, <1>7, <1>8 DEF CancelStep

LEMMA TypeStep ==
  ASSUME TypeInv, Orderly, Lists, [Next]_vars
  PROVE  TypeInv'
<1>1. CASE UNCHANGED vars
  BY <1>1 DEF TypeInv, vars, client, redis, setups, workers
<1> QED BY <1>1, NextSteps, TypeJob, TypeQuiet, TypeConsumer, TypeWorker, TypeCancel

-----------------------------------------------------------------------------
(* One place for every task.                                                 *)

\* A task that nothing happens to stays where it is.
LEMMA StaysPlaced ==
  ASSUME NEW t \in Tasks, Placed(t),
         \A q \in Names : InQueue(q, t)' <=> InQueue(q, t),
         \A k \in Stops : InTmp(k, t)' <=> InTmp(k, t),
         \A c \in Consumers : HeldBy(c, t)' <=> HeldBy(c, t),
         fate'[t] = fate[t], Pushed(t)' <=> Pushed(t)
  PROVE  Placed(t)'
BY DEF Placed, Alone, Somewhere

\* A task that has come to a queue, a temporary list, a consumer or its end.
LEMMA NowQueued ==
  ASSUME NEW t \in Tasks, NEW q \in Names, Pushed(t)', fate'[t] = "none",
         \A r \in Names : InQueue(r, t)' <=> r = q,
         \A k \in Stops : ~InTmp(k, t)', \A c \in Consumers : ~HeldBy(c, t)'
  PROVE  Placed(t)'
BY DEF Placed, Alone, Somewhere

LEMMA NowKept ==
  ASSUME NEW t \in Tasks, NEW k \in Stops, Pushed(t)', fate'[t] = "none",
         \A l \in Stops : InTmp(l, t)' <=> l = k,
         \A r \in Names : ~InQueue(r, t)', \A c \in Consumers : ~HeldBy(c, t)'
  PROVE  Placed(t)'
BY DEF Placed, Alone, Somewhere

LEMMA NowHeld ==
  ASSUME NEW t \in Tasks, NEW c \in Consumers, Pushed(t)', fate'[t] = "none",
         \A d \in Consumers : HeldBy(d, t)' <=> d = c,
         \A r \in Names : ~InQueue(r, t)', \A l \in Stops : ~InTmp(l, t)'
  PROVE  Placed(t)'
BY DEF Placed, Alone, Somewhere

LEMMA NowEnded ==
  ASSUME NEW t \in Tasks, Pushed(t)', fate'[t] # "none",
         \A r \in Names : ~InQueue(r, t)', \A l \in Stops : ~InTmp(l, t)',
         \A c \in Consumers : ~HeldBy(c, t)'
  PROVE  Placed(t)'
BY DEF Placed, Alone, Somewhere

\* Lists that do not change keep their members.
LEMMA QueueSame ==
  ASSUME UNCHANGED queue
  PROVE  /\ \A q \in Names, t \in Tasks : InQueue(q, t)' <=> InQueue(q, t)
         /\ (\A q \in Names : IsInjective(queue[q])) => \A q \in Names : IsInjective(queue'[q])
BY DEF InQueue

LEMMA TmpSame ==
  ASSUME \A k \in Stops : cancel'[k].tmp = cancel[k].tmp
  PROVE  /\ \A k \in Stops, t \in Tasks : InTmp(k, t)' <=> InTmp(k, t)
         /\ (\A k \in Stops : IsInjective(cancel[k].tmp))
              => \A k \in Stops : IsInjective(cancel'[k].tmp)
BY DEF InTmp

\* A step that moves no task.
LEMMA NothingMoves ==
  ASSUME AllPlaced, UNCHANGED <<queue, fate, pushed>>,
         \A k \in Stops : cancel'[k].tmp = cancel[k].tmp,
         \A c \in Consumers, t \in Tasks : HeldBy(c, t)' <=> HeldBy(c, t)
  PROVE  AllPlaced'
<1>1. Lists'
  BY QueueSame, TmpSame DEF AllPlaced, Lists
<1>2. ASSUME NEW t \in Tasks
      PROVE  Placed(t)'
  <2>1. Pushed(t)' <=> Pushed(t)
    BY DEF Pushed
  <2> QED BY <2>1, QueueSame, TmpSame, StaysPlaced DEF AllPlaced
<1> QED BY <1>1, <1>2 DEF AllPlaced

\* handle_job pushes a call: it was nowhere.
LEMMA PlacePush ==
  ASSUME TypeInv, AllPlaced, NEW j \in Jobs, PushCall(j)
  PROVE  AllPlaced'
<1>a. <<j, pushed[j]>> \in Tasks /\ QueueName(j) \in Names
  BY TaskShape, QueueNameType DEF PushCall, TypeInv
<1>b. PICK x \in Tasks : x = <<j, pushed[j]>>
  BY <1>a
<1>c. PICK Q \in Names : Q = QueueName(j)
  BY <1>a
<1>1. /\ pushed[j] \in Nat /\ pushed[j] \in Int /\ x[1] = j /\ x[2] = pushed[j]
  BY <1>b DEF PushCall, TypeInv
<1>2. /\ queue' = [queue EXCEPT ![Q] = <<x>> \o queue[Q]]
      /\ pushed' = [pushed EXCEPT ![j] = pushed[j] + 1]
      /\ UNCHANGED <<cancel, consumer, fate>>
  BY <1>b, <1>c DEF PushCall, workers
<1>3. queue[Q] \in Seq(Tasks) /\ queue \in [Names -> Seq(Tasks)] /\ pushed \in [Jobs -> Int]
  BY <1>1 DEF TypeInv
<1>4. ~Pushed(x) /\ Placed(x)
  BY <1>1 DEF Pushed, AllPlaced
<1>5. /\ \A q \in Names : ~InQueue(q, x)
      /\ \A k \in Stops : ~InTmp(k, x)
      /\ \A c \in Consumers : ~HeldBy(c, x)
      /\ fate[x] = "none"
  BY <1>4 DEF Placed, Alone
<1>6. /\ ToSet(queue'[Q]) = ToSet(queue[Q]) \cup {x}
      /\ IsInjective(queue'[Q])
  <2>1. queue'[Q] = <<x>> \o queue[Q]
    BY <1>1, <1>2, <1>3
  <2>2. IsInjective(queue[Q]) /\ x \notin ToSet(queue[Q])
    BY <1>1, <1>5 DEF AllPlaced, Lists, InQueue
  <2> QED BY <2>1, <2>2, <1>1, <1>3, ListPrepend
<1>7. \A q \in Names \ {Q} : queue'[q] = queue[q]
  BY <1>2, <1>3
<1>8. /\ \A k \in Stops, t \in Tasks : InTmp(k, t)' <=> InTmp(k, t)
      /\ \A c \in Consumers, t \in Tasks : HeldBy(c, t)' <=> HeldBy(c, t)
  BY <1>2 DEF InTmp, HeldBy, Holding
<1>9. Lists'
  BY <1>2, <1>6, <1>7 DEF AllPlaced, Lists
<1>10. Placed(x)'
  <2>1. Pushed(x)'
    BY <1>1, <1>2, <1>3 DEF Pushed
  <2>2. \A r \in Names : InQueue(r, x)' <=> r = Q
    BY <1>1, <1>5, <1>6, <1>7 DEF InQueue
  <2> QED BY <2>1, <2>2, <1>1, <1>2, <1>5, <1>8, NowQueued
<1>11. ASSUME NEW t \in Tasks, t # x
       PROVE  Placed(t)'
  <2>1. t[1] # j \/ t[2] # pushed[j]
    BY <1>1, <1>b, <1>11, TaskShape
  <2>2. t[2] \in Int /\ t[1] \in Jobs
    BY TaskShape
  <2>3. Pushed(t)' <=> Pushed(t)
    BY <2>1, <2>2, <1>2, <1>3, <1>1 DEF Pushed
  <2>4. \A r \in Names : InQueue(r, t)' <=> InQueue(r, t)
    BY <1>6, <1>7, <1>11 DEF InQueue
  <2>5. fate'[t] = fate[t]
    BY <1>2
  <2> QED BY <2>3, <2>4, <2>5, <1>8, StaysPlaced DEF AllPlaced
<1> QED BY <1>9, <1>10, <1>11 DEF AllPlaced

\* The right end of a queue: what is there, and what a pop leaves.
LEMMA PopFacts ==
  ASSUME TypeInv, AllPlaced, NEW Q \in Names, queue[Q] # <<>>, NEW x, x = Last(queue[Q]),
         queue' = [queue EXCEPT ![Q] = Front(queue[Q])]
  PROVE  /\ x \in Tasks /\ InQueue(Q, x)
         /\ \A q \in Names : IsInjective(queue'[q])
         /\ \A r \in Names : ~InQueue(r, x)'
         /\ \A r \in Names, t \in Tasks \ {x} : InQueue(r, t)' <=> InQueue(r, t)
<1>1. queue[Q] \in Seq(Tasks) /\ IsInjective(queue[Q]) /\ queue \in [Names -> Seq(Tasks)]
  BY DEF TypeInv, AllPlaced, Lists
<1>2. /\ x \in Tasks /\ x \in ToSet(queue[Q])
      /\ ToSet(Front(queue[Q])) = ToSet(queue[Q]) \ {x} /\ IsInjective(Front(queue[Q]))
  BY <1>1, ListFront
<1>3. queue'[Q] = Front(queue[Q]) /\ \A q \in Names \ {Q} : queue'[q] = queue[q]
  BY <1>1
<1>4. InQueue(Q, x)
  BY <1>2 DEF InQueue
<1>5. \A q \in Names : IsInjective(queue'[q])
  BY <1>2, <1>3 DEF AllPlaced, Lists
<1>6. \A r \in Names : InQueue(r, x) => r = Q
  BY <1>2, <1>4 DEF AllPlaced, Placed, Alone
<1>7. \A r \in Names : ~InQueue(r, x)'
  BY <1>2, <1>3, <1>6 DEF InQueue
<1>8. \A r \in Names, t \in Tasks \ {x} : InQueue(r, t)' <=> InQueue(r, t)
  BY <1>2, <1>3 DEF InQueue
<1> QED BY <1>2, <1>4, <1>5, <1>7, <1>8

\* A consumer takes a task from its queue.
LEMMA PlaceTake ==
  ASSUME TypeInv, AllPlaced, NEW c \in Consumers, TakeTask(c)
  PROVE  AllPlaced'
<1>a. WQ(c) \in Names
  BY ConsumerShape, RecordFields DEF WQ, TypeInv
<1>b. PICK Q \in Names : Q = WQ(c)
  BY <1>a
<1>1. queue[Q] # <<>>
  BY <1>b DEF TakeTask
<1>c. PICK x : x = Last(queue[Q])
  OBVIOUS
<1>2. /\ queue' = [queue EXCEPT ![Q] = Front(queue[Q])]
      /\ consumer' = [consumer EXCEPT ![c] = [pc |-> "start", task |-> x]]
      /\ UNCHANGED <<cancel, fate, pushed>>
  BY <1>b, <1>c DEF TakeTask, AfterPop
<1>3. /\ x \in Tasks /\ InQueue(Q, x) /\ \A q \in Names : IsInjective(queue'[q])
      /\ \A r \in Names : ~InQueue(r, x)'
      /\ \A r \in Names, t \in Tasks \ {x} : InQueue(r, t)' <=> InQueue(r, t)
  BY <1>1, <1>2, <1>c, PopFacts
<1>4. /\ Pushed(x) /\ fate[x] = "none"
      /\ \A k \in Stops : ~InTmp(k, x)
      /\ \A d \in Consumers : ~HeldBy(d, x)
  BY <1>1, <1>3 DEF AllPlaced, Placed, Alone
<1>5. \A k \in Stops, t \in Tasks : InTmp(k, t)' <=> InTmp(k, t)
  BY <1>2 DEF InTmp
<1>6. /\ consumer \in [Consumers -> ConsumerRec]
      /\ consumer'[c].pc = "start" /\ consumer'[c].task = x
      /\ \A d \in Consumers \ {c} : consumer'[d] = consumer[d]
  BY <1>2 DEF TypeInv
<1>7. \A d \in Consumers, t \in Tasks : HeldBy(d, t)' <=> IF d = c THEN t = x ELSE HeldBy(d, t)
  BY <1>6 DEF HeldBy, Holding
<1>8. \A t \in Tasks : ~HeldBy(c, t)
  BY DEF TakeTask, At, HeldBy, Holding
<1>9. \A t \in Tasks : Pushed(t)' <=> Pushed(t)
  BY <1>2 DEF Pushed
<1>10. Placed(x)'
  <2>1. \A d \in Consumers : HeldBy(d, x)' <=> d = c
    BY <1>3, <1>4, <1>7
  <2> QED BY <2>1, <1>2, <1>3, <1>4, <1>5, <1>9, NowHeld
<1>11. ASSUME NEW t \in Tasks, t # x
       PROVE  Placed(t)'
  <2>1. \A d \in Consumers : HeldBy(d, t)' <=> HeldBy(d, t)
    BY <1>7, <1>8, <1>11
  <2>2. fate'[t] = fate[t]
    BY <1>2
  <2> QED BY <2>1, <2>2, <1>3, <1>5, <1>9, <1>11, StaysPlaced DEF AllPlaced
<1>12. Lists'
  BY <1>2, <1>3 DEF AllPlaced, Lists
<1> QED BY <1>10, <1>11, <1>12 DEF AllPlaced

\* The process of a task ends, or an exception ends the task before it has one.
LEMMA PlaceReap ==
  ASSUME TypeInv, AllPlaced, NEW c \in Consumers,
         Reap(c) \/ (TaskRaises(c) /\ At(c, "spawn"))
  PROVE  AllPlaced'
<1>a. consumer[c].task \in Tasks
  BY RecordFields DEF TypeInv
<1>b. PICK x \in Tasks : x = consumer[c].task
  BY <1>a
<1>1. consumer \in [Consumers -> ConsumerRec] /\ "delete" \in Pcs /\ "take" \in Pcs
  BY DEF TypeInv, Pcs
<1>2. /\ fate'[x] # "none" /\ \A t \in Tasks \ {x} : fate'[t] = fate[t]
      /\ UNCHANGED <<cancel, queue, pushed>> /\ (Goto(c, "delete") \/ Goto(c, "take"))
      /\ consumer[c].pc \in {"running", "spawn"}
  <2>1. CASE Reap(c)
    BY <2>1, <1>b DEF Reap, TypeInv, At, redis
  <2>2. CASE TaskRaises(c) /\ At(c, "spawn")
    BY <2>2, <1>b DEF TaskRaises, TypeInv, At, redis
  <2> QED BY <2>1, <2>2
<1>3. /\ consumer'[c].pc \in {"delete", "take"} /\ consumer'[c].task = x
      /\ \A d \in Consumers \ {c} : consumer'[d] = consumer[d]
  BY <1>1, <1>2, <1>b, GotoFacts
<1>4. HeldBy(c, x)
  BY <1>2, <1>b DEF HeldBy, Holding
<1>5. /\ Pushed(x) /\ \A r \in Names : ~InQueue(r, x)
      /\ \A k \in Stops : ~InTmp(k, x)
      /\ \A d \in Consumers : HeldBy(d, x) => d = c
  BY <1>1, <1>4 DEF AllPlaced, Placed, Alone
<1>6. \A d \in Consumers, t \in Tasks : HeldBy(d, t)' <=> d # c /\ HeldBy(d, t)
  BY <1>3 DEF HeldBy, Holding
<1>7. \A t \in Tasks : HeldBy(c, t) => t = x
  BY <1>b DEF HeldBy
<1>8. /\ \A k \in Stops, t \in Tasks : InTmp(k, t)' <=> InTmp(k, t)
      /\ \A q \in Names, t \in Tasks : InQueue(q, t)' <=> InQueue(q, t)
      /\ \A t \in Tasks : Pushed(t)' <=> Pushed(t)
  BY <1>2 DEF InTmp, InQueue, Pushed
<1>9. Placed(x)'
  BY <1>1, <1>2, <1>5, <1>6, <1>8, NowEnded
<1>10. ASSUME NEW t \in Tasks, t # x
       PROVE  Placed(t)'
  <2>1. \A d \in Consumers : HeldBy(d, t)' <=> HeldBy(d, t)
    BY <1>6, <1>7, <1>10
  <2> QED BY <2>1, <1>2, <1>8, <1>10, StaysPlaced DEF AllPlaced
<1>11. Lists'
  BY <1>2 DEF AllPlaced, Lists
<1> QED BY <1>9, <1>10, <1>11 DEF AllPlaced

\* A service goes with the tasks its consumers hold.
LEMMA PlaceLeaves ==
  ASSUME TypeInv, AllPlaced, NEW w \in Workers, Leaves(w)
  PROVE  AllPlaced'
<1> DEFINE held == {consumer[c].task : c \in {d \in Consumers : d[1] = w /\ Holding(d)}}
<1>1. /\ consumer' = [c \in Consumers |-> IF c[1] = w THEN [consumer[c] EXCEPT !.pc = "off"]
                                                      ELSE consumer[c]]
      /\ fate' = [t \in Tasks |-> IF t \in held THEN "killed" ELSE fate[t]]
      /\ UNCHANGED <<cancel, queue, pushed>>
  BY LeavesFacts DEF ServiceGone, redis
<1>2. \A t \in Tasks : t \in held <=> \E c \in Consumers : c[1] = w /\ HeldBy(c, t)
  BY DEF HeldBy
<1> HIDE DEF held
<1>3. \A c \in Consumers : /\ consumer'[c].task = consumer[c].task
                           /\ c[1] = w => consumer'[c].pc = "off"
                           /\ c[1] # w => consumer'[c] = consumer[c]
  <2>1. \A c \in Consumers : consumer[c] \in ConsumerRec
    BY DEF TypeInv
  <2>2. "off" \in Pcs
    BY DEF Pcs
  <2> QED BY <2>1, <2>2, <1>1, ConsumerMoves
<1>4. \A c \in Consumers, t \in Tasks : HeldBy(c, t)' <=> c[1] # w /\ HeldBy(c, t)
  BY <1>3 DEF HeldBy, Holding
<1>5. /\ \A k \in Stops, t \in Tasks : InTmp(k, t)' <=> InTmp(k, t)
      /\ \A q \in Names, t \in Tasks : InQueue(q, t)' <=> InQueue(q, t)
      /\ \A t \in Tasks : Pushed(t)' <=> Pushed(t)
  BY <1>1 DEF InTmp, InQueue, Pushed
<1>6. ASSUME NEW t \in Tasks, t \in held
      PROVE  Placed(t)'
  <2>1. PICK c \in Consumers : c[1] = w /\ HeldBy(c, t)
    BY <1>2, <1>6
  <2>2. /\ Pushed(t) /\ \A r \in Names : ~InQueue(r, t)
        /\ \A k \in Stops : ~InTmp(k, t)
        /\ \A d \in Consumers : HeldBy(d, t) => d = c
    BY <2>1 DEF AllPlaced, Placed, Alone
  <2>3. fate'[t] # "none"
    BY <1>1, <1>6
  <2>4. \A d \in Consumers : ~HeldBy(d, t)'
    BY <2>1, <2>2, <1>4
  <2> QED BY <2>2, <2>3, <2>4, <1>5, NowEnded
<1>7. ASSUME NEW t \in Tasks, t \notin held
      PROVE  Placed(t)'
  <2>1. \A d \in Consumers : HeldBy(d, t)' <=> HeldBy(d, t)
    BY <1>2, <1>4, <1>7
  <2>2. fate'[t] = fate[t]
    BY <1>1, <1>7
  <2> QED BY <2>1, <2>2, <1>5, StaysPlaced DEF AllPlaced
<1>8. Lists'
  BY <1>1 DEF AllPlaced, Lists
<1> QED BY <1>6, <1>7, <1>8 DEF AllPlaced

\* cancel_job_process pops a task and keeps it, or drops it, or dies.
LEMMA PlaceCancelPop ==
  ASSUME TypeInv, Orderly, AllPlaced, NEW k \in Stops, CancelPop(k)
  PROVE  AllPlaced'
<1>a. UNCHANGED <<pushed, consumer>>
  BY DEF CancelPop, workers
<1>b. /\ \A c \in Consumers, t \in Tasks : HeldBy(c, t)' <=> HeldBy(c, t)
      /\ \A t \in Tasks : Pushed(t)' <=> Pushed(t)
  BY <1>a DEF HeldBy, Holding, Pushed
<1>c. /\ cancel \in [Stops -> CancelRec] /\ cancel[k] \in CancelRec
      /\ \A l \in Stops : cancel[l].tmp \in Seq(Tasks)
      /\ "dead" \in CancelPcs /\ "llen" \in CancelPcs
  BY RecordFields DEF TypeInv, CancelPcs
<1>1. CASE CancelGoto(k, "dead") /\ UNCHANGED <<queue, fate>>
  <2>1. \A l \in Stops : cancel'[l].tmp = cancel[l].tmp
    BY <1>1, <1>c, CancelGotoFacts
  <2> QED BY <2>1, <1>1, <1>a, <1>b, NothingMoves
<1>2. ASSUME NEW Q \in Names, NEW x \in Tasks, queue[Q] # <<>>, x = Last(queue[Q]),
             queue' = [queue EXCEPT ![Q] = Front(queue[Q])],
             \/ /\ cancel' = [cancel EXCEPT ![k] =
                     [cancel[k] EXCEPT !.pc = "llen", !.tmp = Append(cancel[k].tmp, x)]]
                /\ fate' = fate
             \/ /\ cancel' = [cancel EXCEPT ![k] = [cancel[k] EXCEPT !.pc = "llen"]]
                /\ fate' = [fate EXCEPT ![x] = "dropped"]
      PROVE  AllPlaced'
  <2>1. /\ InQueue(Q, x) /\ \A q \in Names : IsInjective(queue'[q])
        /\ \A r \in Names : ~InQueue(r, x)'
        /\ \A r \in Names, t \in Tasks \ {x} : InQueue(r, t)' <=> InQueue(r, t)
    BY <1>2, PopFacts
  <2>2. /\ Pushed(x) /\ fate[x] = "none"
        /\ \A l \in Stops : ~InTmp(l, x)
        /\ \A d \in Consumers : ~HeldBy(d, x)
    BY <2>1 DEF AllPlaced, Placed, Alone
  <2>3. CASE /\ cancel' = [cancel EXCEPT ![k] =
                  [cancel[k] EXCEPT !.pc = "llen", !.tmp = Append(cancel[k].tmp, x)]]
             /\ fate' = fate
    <3>1. /\ cancel'[k].tmp = Append(cancel[k].tmp, x)
          /\ \A l \in Stops \ {k} : cancel'[l] = cancel[l]
      <4>1. [cancel[k] EXCEPT !.pc = "llen", !.tmp = Append(cancel[k].tmp, x)].tmp
              = Append(cancel[k].tmp, x)
        BY <1>c DEF CancelRec
      <4> QED BY <4>1, <2>3, <1>c
    <3>2. /\ ToSet(cancel'[k].tmp) = ToSet(cancel[k].tmp) \cup {x}
          /\ IsInjective(cancel'[k].tmp)
      <4>1. IsInjective(cancel[k].tmp) /\ x \notin ToSet(cancel[k].tmp)
        BY <2>2 DEF AllPlaced, Lists, InTmp
      <4> QED BY <4>1, <3>1, <1>c, ListAppend
    <3>3. /\ \A l \in Stops : InTmp(l, x)' <=> l = k
          /\ \A l \in Stops, t \in Tasks \ {x} : InTmp(l, t)' <=> InTmp(l, t)
      BY <3>1, <3>2, <2>2 DEF InTmp
    <3>4. Lists'
      BY <3>1, <3>2, <2>1 DEF AllPlaced, Lists
    <3>5. Placed(x)'
      BY <2>1, <2>2, <2>3, <3>3, <1>b, NowKept
    <3>6. ASSUME NEW t \in Tasks, t # x
          PROVE  Placed(t)'
      BY <2>1, <2>3, <3>3, <3>6, <1>b, StaysPlaced DEF AllPlaced
    <3> QED BY <3>4, <3>5, <3>6 DEF AllPlaced
  <2>4. CASE /\ cancel' = [cancel EXCEPT ![k] = [cancel[k] EXCEPT !.pc = "llen"]]
             /\ fate' = [fate EXCEPT ![x] = "dropped"]
    <3>1. \A l \in Stops : cancel'[l].tmp = cancel[l].tmp
      BY <2>4, <1>c, CancelGotoFacts DEF CancelGoto
    <3>2. \A l \in Stops, t \in Tasks : InTmp(l, t)' <=> InTmp(l, t)
      BY <3>1 DEF InTmp
    <3>3. Lists'
      BY <3>1, <2>1 DEF AllPlaced, Lists
    <3>4. fate'[x] # "none" /\ \A t \in Tasks \ {x} : fate'[t] = fate[t]
      BY <2>4 DEF TypeInv
    <3>5. Placed(x)'
      BY <2>1, <2>2, <3>2, <3>4, <1>b, NowEnded
    <3>6. ASSUME NEW t \in Tasks, t # x
          PROVE  Placed(t)'
      BY <2>1, <3>2, <3>4, <3>6, <1>b, StaysPlaced DEF AllPlaced
    <3> QED BY <3>3, <3>5, <3>6 DEF AllPlaced
  <2> QED BY <1>2, <2>3, <2>4
<1> QED BY <1>1, <1>2, CancelPopCases DEF AllPlaced

\* It puts the first of the tasks it kept back at the left end.
LEMMA PlaceCancelPutBack ==
  ASSUME TypeInv, Orderly, AllPlaced, NEW k \in Stops, CancelPutBack(k)
  PROVE  AllPlaced'
<1>a. UNCHANGED <<pushed, consumer, fate>>
  BY DEF CancelPutBack, workers
<1>b. /\ \A c \in Consumers, t \in Tasks : HeldBy(c, t)' <=> HeldBy(c, t)
      /\ \A t \in Tasks : Pushed(t)' <=> Pushed(t)
      /\ \A t \in Tasks : fate'[t] = fate[t]
  BY <1>a DEF HeldBy, Holding, Pushed
<1>c. /\ cancel \in [Stops -> CancelRec] /\ cancel[k] \in CancelRec
      /\ \A l \in Stops : cancel[l].tmp \in Seq(Tasks)
      /\ "signal" \in CancelPcs
  BY RecordFields DEF TypeInv, CancelPcs
<1>1. CASE CancelGoto(k, "signal") /\ UNCHANGED queue
  <2>1. \A l \in Stops : cancel'[l].tmp = cancel[l].tmp
    BY <1>1, <1>c, CancelGotoFacts
  <2> QED BY <2>1, <1>1, <1>a, <1>b, NothingMoves
<1>2. ASSUME NEW Q \in Names, NEW x \in Tasks, cancel[k].tmp # <<>>, x = Head(cancel[k].tmp),
             queue' = [queue EXCEPT ![Q] = <<x>> \o queue[Q]],
             cancel' = [cancel EXCEPT ![k] = [cancel[k] EXCEPT !.tmp = Tail(cancel[k].tmp)]]
      PROVE  AllPlaced'
  <2>1. /\ x \in ToSet(cancel[k].tmp)
        /\ ToSet(Tail(cancel[k].tmp)) = ToSet(cancel[k].tmp) \ {x}
        /\ IsInjective(Tail(cancel[k].tmp))
    BY <1>2, <1>c, ListTail DEF AllPlaced, Lists
  <2>2. /\ Pushed(x) /\ fate[x] = "none"
        /\ \A r \in Names : ~InQueue(r, x)
        /\ \A d \in Consumers : ~HeldBy(d, x)
        /\ \A l \in Stops : InTmp(l, x) <=> l = k
    BY <2>1 DEF AllPlaced, Placed, Alone, InTmp
  <2>3. /\ cancel'[k].tmp = Tail(cancel[k].tmp)
        /\ \A l \in Stops \ {k} : cancel'[l] = cancel[l]
    <3>1. [cancel[k] EXCEPT !.tmp = Tail(cancel[k].tmp)].tmp = Tail(cancel[k].tmp)
      BY <1>c DEF CancelRec
    <3> QED BY <3>1, <1>2, <1>c
  <2>4. /\ \A l \in Stops : ~InTmp(l, x)'
        /\ \A l \in Stops, t \in Tasks \ {x} : InTmp(l, t)' <=> InTmp(l, t)
    BY <2>1, <2>2, <2>3 DEF InTmp
  <2>5. /\ queue \in [Names -> Seq(Tasks)] /\ queue[Q] \in Seq(Tasks)
        /\ queue'[Q] = <<x>> \o queue[Q]
        /\ \A r \in Names \ {Q} : queue'[r] = queue[r]
    BY <1>2 DEF TypeInv
  <2>6. ToSet(queue'[Q]) = ToSet(queue[Q]) \cup {x} /\ IsInjective(queue'[Q])
    <3>1. IsInjective(queue[Q]) /\ x \notin ToSet(queue[Q])
      BY <2>2 DEF AllPlaced, Lists, InQueue
    <3> QED BY <3>1, <2>5, ListPrepend
  <2>7. /\ \A r \in Names : InQueue(r, x)' <=> r = Q
        /\ \A r \in Names, t \in Tasks \ {x} : InQueue(r, t)' <=> InQueue(r, t)
    BY <2>2, <2>5, <2>6 DEF InQueue
  <2>8. Lists'
    BY <2>1, <2>3, <2>5, <2>6 DEF AllPlaced, Lists
  <2>9. Placed(x)'
    BY <2>2, <2>4, <2>7, <1>b, NowQueued
  <2>10. ASSUME NEW t \in Tasks, t # x
         PROVE  Placed(t)'
    BY <2>4, <2>7, <2>10, <1>b, StaysPlaced DEF AllPlaced
  <2> QED BY <2>8, <2>9, <2>10 DEF AllPlaced
<1> QED BY <1>1, <1>2, CancelPutBackCases DEF AllPlaced

\* The steps of a consumer that neither take a task nor end one.
LEMMA ConsumerSilent ==
  ASSUME TypeInv, NEW c \in Consumers,
         NoMoreTasks(c) \/ StartRead(c) \/ StartSet(c) \/ Spawn(c) \/ Forget(c)
           \/ Report(c) \/ SetDone(c) \/ (TaskRaises(c) /\ At(c, "report"))
  PROVE  \A d \in Consumers, t \in Tasks : HeldBy(d, t)' <=> HeldBy(d, t)
<1>1. \E p \in Pcs :
        /\ Goto(c, p)
        /\ p \in {"start", "startset", "spawn", "running"}
             <=> consumer[c].pc \in {"start", "startset", "spawn", "running"}
  BY DEF NoMoreTasks, StartRead, StartSet, Spawn, Forget, Report, SetDone, TaskRaises, At, Pcs
<1>2. PICK p \in Pcs :
        /\ Goto(c, p)
        /\ p \in {"start", "startset", "spawn", "running"}
             <=> consumer[c].pc \in {"start", "startset", "spawn", "running"}
  BY <1>1
<1>3. /\ consumer'[c].pc = p /\ consumer'[c].task = consumer[c].task
      /\ \A d \in Consumers \ {c} : consumer'[d] = consumer[d]
  BY <1>2, GotoFacts DEF TypeInv
<1> QED BY <1>2, <1>3 DEF HeldBy, Holding

LEMMA PlaceConsumer ==
  ASSUME TypeInv, AllPlaced, NEW c \in Consumers, ConsumerStep(c)
  PROVE  AllPlaced'
<1>1. CASE NoMoreTasks(c) \/ StartRead(c) \/ StartSet(c) \/ Spawn(c) \/ Forget(c)
             \/ Report(c) \/ SetDone(c) \/ (TaskRaises(c) /\ At(c, "report"))
  <2>1. UNCHANGED <<queue, fate, pushed, cancel>>
    BY <1>1 DEF NoMoreTasks, StartRead, StartSet, Spawn, Forget, Report, SetDone, TaskRaises, At,
                redis
  <2> QED BY <2>1, <1>1, ConsumerSilent, NothingMoves
<1>2. TaskRaises(c) => At(c, "spawn") \/ At(c, "report")
  BY DEF TaskRaises
<1> QED BY <1>1, <1>2, PlaceTake, PlaceReap DEF ConsumerStep

\* A worker starts, ends or kills: no consumer of a worker that has not
\* started holds a task, so none is lost.
LEMMA PlaceWorker ==
  ASSUME TypeInv, Orderly, AllPlaced, NEW w \in Workers,
         WorkerStarts(w) \/ WorkerEnds(w) \/ StopTurn(w) \/ Leaves(w)
  PROVE  AllPlaced'
<1>1. CASE WorkerStarts(w)
  <2>1. /\ UNCHANGED <<queue, fate, pushed, cancel>> /\ worker[w].state = "setup"
        /\ consumer' = [c \in Consumers |-> IF c[1] = w THEN [consumer[c] EXCEPT !.pc = "take"]
                                                        ELSE consumer[c]]
    BY <1>1 DEF WorkerStarts, redis
  <2>2. ASSUME NEW c \in Consumers
        PROVE  \A t \in Tasks : HeldBy(c, t)' <=> HeldBy(c, t)
    <3>1. CASE c[1] = w
      <4>1. consumer[c].pc = "off"
        BY <2>1, <3>1 DEF Orderly
      <4>2. consumer[c] \in ConsumerRec /\ "take" \in Pcs
        BY DEF TypeInv, Pcs
      <4>3. consumer'[c].pc = "take"
        BY <2>1, <3>1, <4>2, ConsumerMoves
      <4> QED BY <4>1, <4>3 DEF HeldBy, Holding
    <3>2. CASE c[1] # w
      BY <2>1, <3>2 DEF HeldBy, Holding
    <3> QED BY <3>1, <3>2
  <2> QED BY <2>1, <2>2, NothingMoves
<1>2. CASE WorkerEnds(w) \/ StopTurn(w)
  <2>1. UNCHANGED <<queue, fate, pushed, cancel, consumer>>
    BY <1>2 DEF WorkerEnds, StopTurn, redis
  <2>2. \A c \in Consumers, t \in Tasks : HeldBy(c, t)' <=> HeldBy(c, t)
    BY <2>1 DEF HeldBy, Holding
  <2> QED BY <2>1, <2>2, NothingMoves
<1> QED BY <1>1, <1>2, PlaceLeaves

\* Clearing, counting, signalling and marking move no task.
LEMMA PlaceCancel ==
  ASSUME TypeInv, Orderly, AllPlaced, NEW k \in Stops, Clear(k) \/ CancelStep(k)
  PROVE  AllPlaced'
<1>a. /\ cancel \in [Stops -> CancelRec] /\ cancel[k] \in CancelRec
      /\ "dead" \in CancelPcs /\ "llen" \in CancelPcs /\ "rpop" \in CancelPcs
      /\ "putback" \in CancelPcs /\ "set" \in CancelPcs
  BY DEF TypeInv, CancelPcs
<1>b. ASSUME UNCHANGED <<queue, fate, pushed, consumer>>,
             \A l \in Stops : cancel'[l].tmp = cancel[l].tmp
      PROVE  AllPlaced'
  <2>1. \A c \in Consumers, t \in Tasks : HeldBy(c, t)' <=> HeldBy(c, t)
    BY <1>b DEF HeldBy, Holding
  <2> QED BY <2>1, <1>b, NothingMoves
<1>c. ASSUME NEW p \in CancelPcs, CancelGoto(k, p)
      PROVE  \A l \in Stops : cancel'[l].tmp = cancel[l].tmp
  BY <1>a, <1>c, CancelGotoFacts
<1>d. ASSUME NextJob(k), cancel[k].tmp = <<>>
      PROVE  \A l \in Stops : cancel'[l].tmp = cancel[l].tmp
  <2>1. cancel'[k].tmp = <<>> /\ \A l \in Stops \ {k} : cancel'[l] = cancel[l]
    BY <1>a, <1>d DEF NextJob
  <2> QED BY <2>1, <1>d
<1>1. CASE Clear(k)
  <2>1. cancel' = [cancel EXCEPT ![k] = [cancel[k] EXCEPT !.pc = "llen", !.jobs = clientJobs]]
    BY <1>1 DEF Clear
  <2>2. [cancel[k] EXCEPT !.pc = "llen", !.jobs = clientJobs].tmp = cancel[k].tmp
    BY <1>a DEF CancelRec
  <2>3. \A l \in Stops : cancel'[l].tmp = cancel[l].tmp
    BY <2>1, <2>2, <1>a
  <2>4. UNCHANGED <<queue, fate, pushed, consumer>>
    BY <1>1 DEF Clear, redis
  <2> QED BY <2>3, <2>4, <1>b
<1>2. CASE CancelLen(k) \/ CancelNoWorkers(k)
  <2>1. UNCHANGED <<queue, fate, pushed, consumer>>
    BY <1>2 DEF CancelLen, CancelNoWorkers, redis, workers
  <2>2. \A l \in Stops : cancel'[l].tmp = cancel[l].tmp
    BY <1>2, <1>a, <1>c DEF CancelLen, CancelNoWorkers
  <2> QED BY <2>1, <2>2, <1>b
<1>3. ASSUME NEW w \in Workers, SignalWorker(k, w)
      PROVE  AllPlaced'
  <2>1. cancel' = [cancel EXCEPT ![k] = [cancel[k] EXCEPT !.sent = cancel[k].sent \cup {w}]]
    BY <1>3 DEF SignalWorker
  <2>2. [cancel[k] EXCEPT !.sent = cancel[k].sent \cup {w}].tmp = cancel[k].tmp
    BY <1>a DEF CancelRec
  <2>3. \A l \in Stops : cancel'[l].tmp = cancel[l].tmp
    BY <2>1, <2>2, <1>a
  <2>4. UNCHANGED <<queue, fate, pushed, consumer>>
    BY <1>3 DEF SignalWorker, redis
  <2> QED BY <2>3, <2>4, <1>b
<1>4. CASE CancelTest(k) \/ CancelSet(k)
  <2>1. cancel[k].tmp = <<>>
    BY <1>4 DEF CancelTest, CancelSet, Orderly
  <2>2. UNCHANGED <<queue, fate, pushed, consumer>>
    BY <1>4 DEF CancelTest, CancelSet, redis, workers
  <2>3. NextJob(k) \/ CancelGoto(k, "set")
    BY <1>4 DEF CancelTest, CancelSet
  <2>4. \A l \in Stops : cancel'[l].tmp = cancel[l].tmp
    BY <2>1, <2>3, <1>a, <1>c, <1>d
  <2> QED BY <2>2, <2>4, <1>b
<1> QED BY <1>1, <1>2, <1>3, <1>4, PlaceCancelPop, PlaceCancelPutBack DEF CancelStep

LEMMA PlaceStep ==
  ASSUME TypeInv, Orderly, AllPlaced, [Next]_vars
  PROVE  AllPlaced'
<1>1. ASSUME UNCHANGED <<queue, fate, pushed, cancel, consumer>>
      PROVE  AllPlaced'
  <2>1. \A c \in Consumers, t \in Tasks : HeldBy(c, t)' <=> HeldBy(c, t)
    BY <1>1 DEF HeldBy, Holding
  <2> QED BY <2>1, <1>1, NothingMoves
<1>2. ASSUME NEW j \in Jobs, Invoke(j) \/ MonitorDone(j)
      PROVE  AllPlaced'
  BY <1>1, <1>2 DEF Invoke, MonitorDone, redis, workers
<1>3. ASSUME NEW j \in Jobs, SubmitJob(j)
      PROVE  AllPlaced'
  <2>1. /\ pushed' = [pushed EXCEPT ![j] = 0] /\ pushed[j] = -1
        /\ UNCHANGED <<queue, fate, cancel, consumer>>
    BY <1>3 DEF SubmitJob, workers
  <2>2. ASSUME NEW t \in Tasks
        PROVE  Placed(t)'
    <3>1. t[1] \in Jobs /\ t[2] \in Nat
      BY TaskShape
    <3>a. pushed \in [Jobs -> Int]
      BY DEF TypeInv
    <3>2. pushed'[t[1]] = pushed[t[1]] \/ (pushed'[t[1]] = 0 /\ pushed[t[1]] = -1)
      <4>1. \A i \in Jobs : pushed'[i] = pushed[i] \/ (pushed'[i] = 0 /\ pushed[i] = -1)
        BY <2>1, <3>a
      <4> QED BY <4>1, <3>1
    <3>3. Pushed(t)' <=> Pushed(t)
      BY <3>1, <3>2 DEF Pushed
    <3>4. /\ \A q \in Names : InQueue(q, t)' <=> InQueue(q, t)
          /\ \A k \in Stops : InTmp(k, t)' <=> InTmp(k, t)
          /\ \A c \in Consumers : HeldBy(c, t)' <=> HeldBy(c, t)
      BY <2>1 DEF InQueue, InTmp, HeldBy, Holding
    <3>5. fate'[t] = fate[t]
      BY <2>1
    <3> QED BY <3>3, <3>4, <3>5, StaysPlaced DEF AllPlaced
  <2>3. Lists'
    BY <2>1 DEF AllPlaced, Lists
  <2> QED BY <2>2, <2>3 DEF AllPlaced
<1>4. CASE UNCHANGED vars
  BY <1>1, <1>4 DEF vars, redis, workers
<1>5. CASE Quiet
  BY <1>1, <1>5, QuietFacts DEF redis
<1> QED
  BY <1>2, <1>3, <1>4, <1>5, NextSteps, PlacePush, PlaceConsumer, PlaceWorker, PlaceCancel
     DEF MasterStep

\* The order of the cancel threads and of the workers.
LEMMA OrderlyStep ==
  ASSUME TypeInv, Orderly, AllPlaced, [Next]_vars
  PROVE  Orderly'
<1> DEFINE Thread(k) ==
      /\ cancel[k].pc \in {"llen", "rpop", "putback", "signal", "set"} => cancel[k].jobs # <<>>
      /\ cancel[k].pc \in {"signal", "set"} => cancel[k].tmp = <<>>
           Started(c) ==
      worker[c[1]].state \in {"absent", "down", "setup", "gone"} => consumer[c].pc = "off"
<1>a. /\ cancel \in [Stops -> CancelRec] /\ consumer \in [Consumers -> ConsumerRec]
      /\ worker \in [Workers -> WorkerRec] /\ \A k \in Stops : cancel[k] \in CancelRec
      /\ \A k \in Stops : cancel[k].jobs \in Seq(Jobs)
  BY RecordFields DEF TypeInv
<1>b. /\ \A k \in Stops : Thread(k)
      /\ \A c \in Consumers : Started(c)
      /\ \A c \in Consumers : c[1] \in Workers
  BY ConsumerShape DEF Orderly
<1>c. /\ \A p \in {"llen", "rpop", "putback", "signal", "set", "ended", "dead"} : p \in CancelPcs
      /\ \A p \in {"off", "take", "ended", "startset", "spawn", "running", "delete", "report",
                   "setdone"} : p \in Pcs
  BY DEF CancelPcs, Pcs
<1>1. \A k \in Stops : Thread(k)'
  <2>1. CASE UNCHANGED cancel
    BY <2>1, <1>b
  <2>2. ASSUME NEW k \in Stops, Clear(k) \/ CancelStep(k)
        PROVE  \A l \in Stops : Thread(l)'
    <3>1. ASSUME \A l \in Stops \ {k} : cancel'[l] = cancel[l], Thread(k)'
          PROVE  \A l \in Stops : Thread(l)'
      BY <3>1, <1>b
    <3>2. ASSUME NEW p \in CancelPcs, CancelGoto(k, p), cancel[k].jobs # <<>>,
                 p \in {"signal", "set"} => cancel[k].tmp = <<>>
          PROVE  \A l \in Stops : Thread(l)'
      <4>1. /\ cancel'[k].pc = p /\ cancel'[k].jobs = cancel[k].jobs
            /\ cancel'[k].tmp = cancel[k].tmp
            /\ \A l \in Stops \ {k} : cancel'[l] = cancel[l]
        BY <3>2, <1>a, CancelGotoFacts
      <4> QED BY <4>1, <3>1, <3>2
    <3>3. CASE Clear(k)
      <4>1. /\ cancel' = [cancel EXCEPT ![k] =
                            [cancel[k] EXCEPT !.pc = "llen", !.jobs = clientJobs]]
            /\ clientJobs # <<>>
        BY <3>3 DEF Clear
      <4>2. /\ [cancel[k] EXCEPT !.pc = "llen", !.jobs = clientJobs].pc = "llen"
            /\ [cancel[k] EXCEPT !.pc = "llen", !.jobs = clientJobs].jobs = clientJobs
        BY <1>a DEF CancelRec
      <4> QED BY <4>1, <4>2, <3>1, <1>a
    <3>4. CASE CancelLen(k)
      BY <3>2, <3>4, <1>b, <1>c DEF CancelLen
    <3>5. CASE CancelPop(k)
      <4>1. cancel[k].jobs # <<>>
        BY <3>5, <1>b DEF CancelPop
      <4>2. CASE CancelGoto(k, "dead")
        BY <4>1, <4>2, <3>2, <1>c
      <4>3. ASSUME NEW tmp,
                   cancel' = [cancel EXCEPT ![k] = [cancel[k] EXCEPT !.pc = "llen", !.tmp = tmp]]
            PROVE  \A l \in Stops : Thread(l)'
        <5>1. /\ [cancel[k] EXCEPT !.pc = "llen", !.tmp = tmp].pc = "llen"
              /\ [cancel[k] EXCEPT !.pc = "llen", !.tmp = tmp].jobs = cancel[k].jobs
          BY <1>a DEF CancelRec
        <5> QED BY <5>1, <4>1, <4>3, <3>1, <1>a
      <4>4. CASE cancel' = [cancel EXCEPT ![k] = [cancel[k] EXCEPT !.pc = "llen"]]
        BY <4>1, <4>4, <3>2, <1>c DEF CancelGoto
      <4> QED BY <3>5, <4>2, <4>3, <4>4, CancelPopCases DEF AllPlaced
    <3>6. CASE CancelPutBack(k)
      <4>1. cancel[k].jobs # <<>> /\ cancel[k].pc = "putback"
        BY <3>6, <1>b DEF CancelPutBack
      <4>2. CASE cancel[k].tmp = <<>> /\ CancelGoto(k, "signal")
        BY <4>1, <4>2, <3>2, <1>c
      <4>3. CASE cancel' = [cancel EXCEPT ![k] =
                              [cancel[k] EXCEPT !.tmp = Tail(cancel[k].tmp)]]
        <5>1. /\ [cancel[k] EXCEPT !.tmp = Tail(cancel[k].tmp)].pc = cancel[k].pc
              /\ [cancel[k] EXCEPT !.tmp = Tail(cancel[k].tmp)].jobs = cancel[k].jobs
          BY <1>a DEF CancelRec
        <5> QED BY <5>1, <4>1, <4>3, <3>1, <1>a
      <4> QED BY <3>6, <4>2, <4>3, CancelPutBackCases DEF AllPlaced
    <3>7. CASE CancelNoWorkers(k)
      BY <3>2, <3>7, <1>b, <1>c DEF CancelNoWorkers
    <3>8. ASSUME NEW w \in Workers, SignalWorker(k, w)
          PROVE  \A l \in Stops : Thread(l)'
      <4>1. cancel' = [cancel EXCEPT ![k] = [cancel[k] EXCEPT !.sent = cancel[k].sent \cup {w}]]
        BY <3>8 DEF SignalWorker
      <4>2. /\ [cancel[k] EXCEPT !.sent = cancel[k].sent \cup {w}].pc = cancel[k].pc
            /\ [cancel[k] EXCEPT !.sent = cancel[k].sent \cup {w}].jobs = cancel[k].jobs
            /\ [cancel[k] EXCEPT !.sent = cancel[k].sent \cup {w}].tmp = cancel[k].tmp
        BY <1>a DEF CancelRec
      <4> QED BY <4>1, <4>2, <3>1, <1>a, <1>b
    <3>9. ASSUME NextJob(k), cancel[k].jobs # <<>>
          PROVE  \A l \in Stops : Thread(l)'
      <4>1. /\ cancel'[k].pc = IF Len(cancel[k].jobs) = 1 THEN "ended" ELSE "llen"
            /\ cancel'[k].jobs = Tail(cancel[k].jobs) /\ cancel'[k].tmp = <<>>
            /\ \A l \in Stops \ {k} : cancel'[l] = cancel[l]
        BY <3>9, <1>a DEF NextJob
      <4>2. cancel[k].jobs \in Seq(Jobs)
        BY <1>a
      <4>3. Len(cancel[k].jobs) # 1 => Tail(cancel[k].jobs) # <<>>
        <5>1. PICK s : s = cancel[k].jobs
          OBVIOUS
        <5>2. s \in Seq(Jobs) /\ s # <<>>
          BY <4>2, <3>9, <5>1
        <5>3. Len(s) \in Nat \ {0} /\ Len(Tail(s)) = Len(s) - 1
          BY <5>2
        <5>4. Len(s) # 1 => Len(Tail(s)) # 0
          BY <5>3
        <5> QED BY <5>1, <5>4
      <4> QED BY <4>1, <4>3, <3>1
    <3>10. CASE CancelTest(k) \/ CancelSet(k)
      <4>1. cancel[k].jobs # <<>> /\ cancel[k].tmp = <<>>
        BY <3>10, <1>b DEF CancelTest, CancelSet
      <4>2. NextJob(k) \/ CancelGoto(k, "set")
        BY <3>10 DEF CancelTest, CancelSet
      <4> QED BY <4>1, <4>2, <3>2, <3>9, <1>c
    <3> QED BY <2>2, <3>3, <3>4, <3>5, <3>6, <3>7, <3>8, <3>10 DEF CancelStep
  <2> QED
    BY <2>1, <2>2, NextSteps, QuietFacts, LeavesFacts
       DEF MasterStep, ConsumerStep, Invoke, SubmitJob, PushCall, MonitorDone,
           WorkerStarts, WorkerEnds, StopTurn, TakeTask, NoMoreTasks, StartRead,
           StartSet, Spawn, Reap, Forget, Report, SetDone, TaskRaises, vars
<1>2. \A c \in Consumers : Started(c)'
  <2>1. CASE UNCHANGED <<worker, consumer>>
    BY <2>1, <1>b
  <2>2. ASSUME NEW j \in Jobs, Invoke(j)
        PROVE  \A c \in Consumers : Started(c)'
    <3>1. \A w \in Workers : worker'[w] = worker[w] \/ worker[w].state = "absent"
      BY <2>2 DEF Invoke, NewWorkers
    <3>2. UNCHANGED consumer
      BY <2>2 DEF Invoke
    <3> QED BY <3>1, <3>2, <1>b
  <2>3. ASSUME NEW c \in Consumers, ConsumerStep(c)
        PROVE  \A d \in Consumers : Started(d)'
    <3>1. UNCHANGED worker /\ consumer[c].pc # "off"
      BY <2>3 DEF ConsumerStep, TakeTask, NoMoreTasks, StartRead, StartSet, Spawn, Reap, Forget,
                  Report, SetDone, TaskRaises, At
    <3>2. \A d \in Consumers \ {c} : consumer'[d] = consumer[d]
      BY <2>3, <1>a DEF ConsumerStep, TakeTask, NoMoreTasks, StartRead, StartSet, Spawn, Reap,
                  Forget, Report, SetDone, TaskRaises, Goto
    <3> QED BY <3>1, <3>2, <1>b
  <2>4. ASSUME NEW w \in Workers, WorkerStarts(w) \/ WorkerEnds(w)
        PROVE  \A c \in Consumers : Started(c)'
    <3>1. \E s \in {"active", "deleted"} :
            worker' = [worker EXCEPT ![w] = [worker[w] EXCEPT !.state = s]]
      BY <2>4 DEF WorkerStarts, WorkerEnds
    <3>2. \A s \in {"active", "deleted"} : [worker[w] EXCEPT !.state = s].state = s
      BY <1>a DEF WorkerRec
    <3>3. /\ worker'[w].state \in {"active", "deleted"}
          /\ \A v \in Workers \ {w} : worker'[v] = worker[v]
      BY <3>1, <3>2, <1>a
    <3>4. \A c \in Consumers : c[1] # w => consumer'[c] = consumer[c]
      BY <2>4 DEF WorkerStarts, WorkerEnds
    <3> QED BY <3>3, <3>4, <1>b
  <2>5. ASSUME NEW w \in Workers, Leaves(w)
        PROVE  \A c \in Consumers : Started(c)'
    <3>1. /\ \A c \in Consumers : c[1] = w => consumer'[c].pc = "off"
          /\ \A c \in Consumers : c[1] # w => consumer'[c] = consumer[c]
      <4>1. \A c \in Consumers : consumer[c] \in ConsumerRec
        BY <1>a
      <4>2. consumer' = [c \in Consumers |-> IF c[1] = w THEN [consumer[c] EXCEPT !.pc = "off"]
                                                          ELSE consumer[c]]
        BY <2>5, LeavesFacts DEF ServiceGone
      <4> QED BY <4>1, <4>2, <1>c, ConsumerMoves
    <3>2. \A v \in Workers \ {w} : worker'[v] = worker[v]
      BY <2>5, <1>a DEF Leaves, VMDeleted, KeeperStops, SetupInstalls
    <3> QED BY <3>1, <3>2, <1>b
  <2>6. CASE Quiet
    <3>1. UNCHANGED consumer
      BY <2>6, QuietFacts
    <3>2. ASSUME NEW w \in Workers, worker[w].state \in {"absent", "setup"},
                 worker' = [worker EXCEPT ![w] = [worker[w] EXCEPT !.state = "down"]]
          PROVE  \A c \in Consumers : Started(c)'
      <4>1. \A v \in Workers \ {w} : worker'[v] = worker[v]
        BY <3>2, <1>a
      <4> QED BY <3>1, <3>2, <4>1, <1>b
    <3>3. ASSUME NEW w \in Workers, WorkerSetupFails(w)
          PROVE  \A c \in Consumers : Started(c)'
      BY <3>2, <3>3 DEF WorkerSetupFails
    <3>4. ASSUME NEW j \in Jobs, SetupSaves(j)
          PROVE  \A c \in Consumers : Started(c)'
      <4>1. CASE worker[Master].state = "absent"
        BY <3>2, <3>4, <4>1 DEF SetupSaves
      <4>2. CASE worker[Master].state # "absent"
        <5>1. worker' = [worker EXCEPT ![Master] =
                           [worker[Master] EXCEPT !.state = worker[Master].state]]
          BY <3>4, <4>2 DEF SetupSaves
        <5>2. [worker[Master] EXCEPT !.state = worker[Master].state] = worker[Master]
          BY <1>a DEF WorkerRec
        <5>3. worker' = worker
          BY <5>1, <5>2, <1>a
        <5> QED BY <5>3, <3>1, <2>1
      <4> QED BY <4>1, <4>2
    <3>5. ASSUME NEW j \in Jobs, SetupReads(j) \/ SetupFails(j)
          PROVE  \A c \in Consumers : Started(c)'
      BY <3>5, <2>1 DEF SetupReads, SetupFails, workers
    <3> QED BY <2>6, <3>3, <3>4, <3>5 DEF Quiet
  <2> QED
    BY <2>1, <2>2, <2>3, <2>4, <2>5, <2>6, NextSteps
       DEF MasterStep, CancelStep, SubmitJob, PushCall, MonitorDone,
           StopTurn, Clear, CancelLen, CancelPop, CancelPutBack, CancelNoWorkers, SignalWorker,
           CancelTest, CancelSet, vars, workers
<1> QED BY <1>1, <1>2 DEF Orderly

LEMMA PlaceInit == Init => Orderly /\ AllPlaced
<1> SUFFICES ASSUME Init
             PROVE  Orderly /\ AllPlaced
  OBVIOUS
<1>1. /\ \A q \in Names : queue[q] = <<>>
      /\ \A k \in Stops : cancel[k].tmp = <<>> /\ cancel[k].pc = "off"
      /\ \A c \in Consumers : consumer[c].pc = "off"
      /\ \A t \in Tasks : fate[t] = "none"
      /\ \A j \in Jobs : pushed[j] = -1
  BY DEF Init, Names
<1>2. Orderly
  BY <1>1 DEF Orderly
<1>3. Lists
  BY <1>1, ListEmpty DEF Lists
<1>4. ASSUME NEW t \in Tasks
      PROVE  Placed(t)
  <2>1. ~Pushed(t)
    <3>1. t[1] \in Jobs /\ t[2] \in 0 .. Calls[t[1]] - 1
      BY TaskShape
    <3>2. pushed[t[1]] = -1 /\ t[2] \in Nat
      BY <3>1, <1>1
    <3> QED BY <3>2 DEF Pushed
  <2>2. /\ \A q \in Names : ~InQueue(q, t)
        /\ \A k \in Stops : ~InTmp(k, t)
        /\ \A c \in Consumers : ~HeldBy(c, t)
    BY <1>1, ListEmpty DEF InQueue, InTmp, HeldBy, Holding
  <2> QED BY <1>1, <2>1, <2>2 DEF Placed, Alone, Somewhere
<1> QED BY <1>2, <1>3, <1>4 DEF AllPlaced

\* The places of a task, counted: with the invariant the set of its places has
\* one member when it was pushed and none before.
LEMMA PlacesCounted ==
  ASSUME TypeInv, AllPlaced
  PROVE  TaskInOnePlace
<1>1. DOMAIN queue = Names
  BY DEF TypeInv
<1>2. ASSUME NEW t \in Tasks
      PROVE  Cardinality(Places(t)) = IF Pushed(t) THEN 1 ELSE 0
  <2>1. Alone(t) /\ Somewhere(t)
    BY DEF AllPlaced, Placed
  <2>2. \A x : x \in Places(t) <=> \/ \E q \in Names : InQueue(q, t) /\ x = <<"queue", q>>
                                   \/ \E k \in Stops : InTmp(k, t) /\ x = <<"cancel", k>>
                                   \/ \E c \in Consumers : HeldBy(c, t) /\ x = <<"consumer", c>>
                                   \/ fate[t] # "none" /\ x = <<"ended">>
    BY <1>1 DEF Places, InQueue, InTmp, HeldBy
  <2>3. CASE ~Pushed(t)
    <3>1. Places(t) = {}
      BY <2>1, <2>2, <2>3 DEF Alone
    <3> QED BY <3>1, <2>3, FS_EmptySet
  <2>4. CASE Pushed(t)
    <3>1. \E x : Places(t) = {x}
      <4>1. CASE fate[t] # "none"
        <5>1. Places(t) = {<<"ended">>}
          BY <2>1, <2>2, <4>1 DEF Alone
        <5> QED BY <5>1
      <4>2. ASSUME NEW q \in Names, InQueue(q, t)
            PROVE  \E x : Places(t) = {x}
        <5>1. Places(t) = {<<"queue", q>>}
          BY <2>1, <2>2, <4>2 DEF Alone
        <5> QED BY <5>1
      <4>3. ASSUME NEW k \in Stops, InTmp(k, t)
            PROVE  \E x : Places(t) = {x}
        <5>1. Places(t) = {<<"cancel", k>>}
          BY <2>1, <2>2, <4>3 DEF Alone
        <5> QED BY <5>1
      <4>4. ASSUME NEW c \in Consumers, HeldBy(c, t)
            PROVE  \E x : Places(t) = {x}
        <5>1. Places(t) = {<<"consumer", c>>}
          BY <2>1, <2>2, <4>4 DEF Alone
        <5> QED BY <5>1
      <4> QED BY <2>1, <2>4, <4>1, <4>2, <4>3, <4>4 DEF Somewhere
    <3> QED BY <3>1, <2>4, FS_Singleton
  <2> QED BY <2>3, <2>4
<1> QED BY <1>1, <1>2 DEF TaskInOnePlace, Pushed, AllPlaced, Lists

-----------------------------------------------------------------------------
(* DONE: only when every call ran.                                           *)

\* What becomes of a consumer in a step.
LEMMA ConsumerOutcome ==
  ASSUME TypeInv, [Next]_vars, NEW c \in Consumers
  PROVE  \/ consumer'[c] = consumer[c]
         \/ ConsumerStep(c)
         \/ WorkerStarts(c[1]) /\ consumer'[c].pc = "take"
         \/ Leaves(c[1]) /\ consumer'[c].pc = "off"
<1>a. /\ consumer \in [Consumers -> ConsumerRec] /\ consumer[c] \in ConsumerRec
      /\ "take" \in Pcs /\ "off" \in Pcs
  BY DEF TypeInv, Pcs
<1>1. CASE UNCHANGED consumer
  BY <1>1
<1>2. ASSUME NEW d \in Consumers, ConsumerStep(d), d # c
      PROVE  consumer'[c] = consumer[c]
  BY <1>2, <1>a DEF ConsumerStep, TakeTask, NoMoreTasks, StartRead, StartSet, Spawn, Reap, Forget,
                    Report, SetDone, TaskRaises, Goto
<1>3. ASSUME NEW w \in Workers, WorkerStarts(w)
      PROVE  consumer'[c] = consumer[c] \/ (WorkerStarts(c[1]) /\ consumer'[c].pc = "take")
  <2>1. CASE c[1] = w
    <3>1. consumer'[c] = [consumer[c] EXCEPT !.pc = "take"]
      BY <1>3, <2>1 DEF WorkerStarts
    <3>2. consumer'[c].pc = "take"
      BY <3>1, <1>a, ConsumerMoves
    <3> QED BY <3>2, <2>1, <1>3
  <2>2. CASE c[1] # w
    BY <1>3, <2>2 DEF WorkerStarts
  <2> QED BY <2>1, <2>2
<1>4. ASSUME NEW w \in Workers, Leaves(w)
      PROVE  consumer'[c] = consumer[c] \/ (Leaves(c[1]) /\ consumer'[c].pc = "off")
  <2>0. ServiceGone(w)
    BY <1>4, LeavesFacts
  <2>1. CASE c[1] = w
    <3>1. consumer'[c] = [consumer[c] EXCEPT !.pc = "off"]
      BY <2>0, <2>1 DEF ServiceGone
    <3>2. consumer'[c].pc = "off"
      BY <3>1, <1>a, ConsumerMoves
    <3> QED BY <3>2, <2>1, <1>4
  <2>2. CASE c[1] # w
    BY <2>0, <2>2 DEF ServiceGone
  <2> QED BY <2>1, <2>2
<1>5. ASSUME NEW j \in Jobs, Invoke(j) \/ MasterStep(j)
      PROVE  UNCHANGED consumer
  BY <1>5 DEF MasterStep, Invoke, SubmitJob, PushCall, MonitorDone, workers
<1>6. ASSUME NEW k \in Stops, Clear(k) \/ CancelStep(k)
      PROVE  UNCHANGED consumer
  BY <1>6 DEF CancelStep, Clear, CancelLen, CancelPop, CancelPutBack, CancelNoWorkers,
              SignalWorker, CancelTest, CancelSet, workers
<1>7. ASSUME NEW w \in Workers, WorkerEnds(w) \/ StopTurn(w)
      PROVE  UNCHANGED consumer
  BY <1>7 DEF WorkerEnds, StopTurn
<1>8. CASE UNCHANGED vars
  BY <1>8 DEF vars, workers
<1> QED BY <1>1, <1>2, <1>3, <1>4, <1>5, <1>6, <1>7, <1>8, NextSteps, QuietFacts

\* The steps of a consumer that end in a place, by where they begin.
LEMMA ConsumerWays ==
  ASSUME TypeInv, NEW c \in Consumers, ConsumerStep(c)
  PROVE  /\ consumer'[c].pc = "running" => Spawn(c)
         /\ consumer'[c].pc = "delete" => Reap(c)
         /\ consumer'[c].pc = "report" => Forget(c)
         /\ consumer'[c].pc = "setdone" => Report(c)
         /\ consumer[c].pc # "take" => consumer'[c].task = consumer[c].task
<1>a. /\ consumer \in [Consumers -> ConsumerRec]
      /\ \A p \in {"take", "ended", "startset", "spawn", "running", "delete", "report",
                   "setdone"} : p \in Pcs
  BY DEF TypeInv, Pcs
<1>1. CASE TakeTask(c)
  BY <1>1, <1>a DEF TakeTask, At
<1>2. ASSUME NEW p \in Pcs, Goto(c, p)
      PROVE  consumer'[c].pc = p /\ consumer'[c].task = consumer[c].task
  BY <1>2, <1>a, GotoFacts
<1>3. CASE NoMoreTasks(c)
  BY <1>2, <1>3, <1>a DEF NoMoreTasks
<1>4. CASE StartRead(c)
  BY <1>2, <1>4, <1>a DEF StartRead
<1>5. CASE StartSet(c)
  BY <1>2, <1>5, <1>a DEF StartSet
<1>6. CASE Spawn(c)
  BY <1>2, <1>6, <1>a DEF Spawn
<1>7. CASE Reap(c)
  BY <1>2, <1>7, <1>a DEF Reap
<1>8. CASE Forget(c)
  BY <1>2, <1>8, <1>a DEF Forget
<1>9. CASE Report(c)
  BY <1>2, <1>9, <1>a DEF Report
<1>10. CASE SetDone(c)
  BY <1>2, <1>10, <1>a DEF SetDone
<1>11. CASE TaskRaises(c)
  BY <1>2, <1>11, <1>a DEF TaskRaises
<1> QED BY <1>1, <1>3, <1>4, <1>5, <1>6, <1>7, <1>8, <1>9, <1>10, <1>11 DEF ConsumerStep

\* A task that ended keeps its fate.
LEMMA FateKept ==
  ASSUME TypeInv, Orderly, AllPlaced, [Next]_vars, NEW t \in Tasks, fate[t] # "none"
  PROVE  fate'[t] = fate[t]
<1>a. Alone(t) /\ fate \in [Tasks -> {"none", "ran", "killed", "dropped"}]
  BY DEF AllPlaced, Placed, TypeInv
<1>b. \A c \in Consumers : ~HeldBy(c, t)
  BY <1>a DEF Alone
<1>1. CASE UNCHANGED fate
  BY <1>1
<1>2. ASSUME NEW c \in Consumers, Reap(c) \/ TaskRaises(c)
      PROVE  fate'[t] = fate[t]
  <2>1. UNCHANGED fate \/ HeldBy(c, consumer[c].task)
    BY <1>2 DEF Reap, TaskRaises, At, HeldBy, Holding
  <2>2. UNCHANGED fate \/ consumer[c].task # t
    BY <2>1, <1>b
  <2> QED BY <1>2, <2>2, <1>a DEF Reap, TaskRaises
<1>3. ASSUME NEW w \in Workers, Leaves(w)
      PROVE  fate'[t] = fate[t]
  BY <1>3, <1>b, LeavesFacts DEF ServiceGone, HeldBy
<1>4. ASSUME NEW k \in Stops, CancelPop(k)
      PROVE  fate'[t] = fate[t]
  <2>1. CASE UNCHANGED fate
    BY <2>1
  <2>2. ASSUME NEW q \in Names, NEW u \in Tasks, queue[q] # <<>>, u = Last(queue[q]),
               fate' = [fate EXCEPT ![u] = "dropped"]
        PROVE  fate'[t] = fate[t]
    <3>1. queue[q] \in Seq(Tasks) /\ IsInjective(queue[q])
      BY DEF TypeInv, AllPlaced, Lists
    <3>2. InQueue(q, u)
      BY <3>1, <2>2, ListFront DEF InQueue
    <3>3. u # t
      BY <3>2, <1>a DEF Alone
    <3> QED BY <3>3, <2>2, <1>a
  <2> QED BY <2>1, <2>2, <1>4, CancelPopCases DEF AllPlaced
<1>5. ASSUME NEW j \in Jobs, Invoke(j) \/ MasterStep(j)
      PROVE  UNCHANGED fate
  BY <1>5 DEF MasterStep, Invoke, SubmitJob, PushCall, MonitorDone
<1>6. ASSUME NEW k \in Stops, Clear(k) \/ CancelStep(k), ~CancelPop(k)
      PROVE  UNCHANGED fate
  BY <1>6 DEF CancelStep, Clear, CancelLen, CancelPutBack, CancelNoWorkers, SignalWorker,
              CancelTest, CancelSet
<1>7. ASSUME NEW w \in Workers, WorkerStarts(w) \/ WorkerEnds(w) \/ StopTurn(w)
      PROVE  UNCHANGED fate
  BY <1>7 DEF WorkerStarts, WorkerEnds, StopTurn
<1>8. ASSUME NEW c \in Consumers, ConsumerStep(c), ~Reap(c), ~TaskRaises(c)
      PROVE  UNCHANGED fate
  BY <1>8 DEF ConsumerStep, TakeTask, NoMoreTasks, StartRead, StartSet, Spawn, Forget, Report,
              SetDone
<1>9. CASE UNCHANGED vars
  BY <1>9 DEF vars
<1> QED
  BY <1>1, <1>2, <1>3, <1>4, <1>5, <1>6, <1>7, <1>8, <1>9, NextSteps, QuietFacts

\* A worker never forgets that it has heard of a stop while its service runs.
LEMMA CanceledGrows ==
  ASSUME TypeInv, [Next]_vars, NEW w \in Workers, ~Leaves(w)
  PROVE  canceled[w] \subseteq canceled'[w]
<1>1. CASE UNCHANGED canceled
  BY <1>1
<1>2. ASSUME NEW k \in Stops, NEW v \in Workers, SignalWorker(k, v)
      PROVE  canceled[w] \subseteq canceled'[w]
  <2>1. \/ canceled' = canceled
        \/ canceled' = [canceled EXCEPT ![v] = canceled[v] \cup {CancelJob(k)}]
    BY <1>2 DEF SignalWorker
  <2>2. canceled \in [Workers -> SUBSET Jobs]
    BY DEF TypeInv
  <2> QED BY <2>1, <2>2
<1>3. ASSUME NEW k \in Stops, Clear(k) \/ CancelStep(k),
             ~\E v \in Workers : SignalWorker(k, v)
      PROVE  UNCHANGED canceled
  BY <1>3 DEF CancelStep, Clear, CancelLen, CancelPop, CancelPutBack, CancelNoWorkers,
              CancelTest, CancelSet, workers
<1>4. ASSUME NEW v \in Workers, Leaves(v)
      PROVE  canceled[w] \subseteq canceled'[w]
  <2>1. canceled' = [canceled EXCEPT ![v] = {}] /\ v # w
    BY <1>4, LeavesFacts DEF ServiceGone
  <2> QED BY <2>1 DEF TypeInv
<1> QED
  BY <1>1, <1>2, <1>3, <1>4, NextSteps, QuietFacts
     DEF MasterStep, ConsumerStep, Invoke, SubmitJob, PushCall, MonitorDone,
         WorkerStarts, WorkerEnds, StopTurn, TakeTask, NoMoreTasks, StartRead,
         StartSet, Spawn, Reap, Forget, Report, SetDone, TaskRaises, vars, workers

\* The consumers of a service that goes are off.
LEMMA LeavesOff ==
  ASSUME TypeInv, NEW c \in Consumers, Leaves(c[1])
  PROVE  consumer'[c].pc = "off"
<1>1. c[1] \in Workers /\ consumer[c] \in ConsumerRec /\ "off" \in Pcs
  BY ConsumerShape DEF TypeInv, Pcs
<1>2. consumer'[c] = [consumer[c] EXCEPT !.pc = "off"]
  BY <1>1, LeavesFacts DEF ServiceGone
<1> QED BY <1>1, <1>2, ConsumerMoves

\* A consumer is back from a process, now, because it was, or just reaped it.
LEMMA BackOutcome ==
  ASSUME TypeInv, [Next]_vars, NEW c \in Consumers, Back(c)'
  PROVE  /\ consumer'[c].task = consumer[c].task
         /\ Back(c) \/ Reap(c)
<1>1. CASE consumer'[c] = consumer[c]
  BY <1>1 DEF Back
<1>2. CASE ConsumerStep(c)
  <2>1. Reap(c) \/ Forget(c)
    BY <1>2, ConsumerWays DEF Back
  <2>2. consumer[c].pc # "take" /\ (Forget(c) => Back(c))
    BY <2>1 DEF Reap, Forget, At, Back
  <2> QED BY <1>2, <2>1, <2>2, ConsumerWays
<1> QED BY <1>1, <1>2, ConsumerOutcome DEF Back

LEMMA ReturnedStep ==
  ASSUME TypeInv, Orderly, AllPlaced, Returned, Killed, [Next]_vars
  PROVE  Returned'
<1>a. \A c \in Consumers : consumer[c].task \in Tasks /\ consumer[c].task[1] \in Jobs
                             /\ c[1] \in Workers
  BY RecordFields, TaskShape, ConsumerShape DEF TypeInv
<1>b. ASSUME NEW c \in Consumers, Reap(c)
      PROVE  HeldBy(c, consumer[c].task) /\ fate[consumer[c].task] = "none"
  <2>1. HeldBy(c, consumer[c].task)
    BY <1>b DEF Reap, At, HeldBy, Holding
  <2> QED BY <2>1, <1>a DEF AllPlaced, Placed, Alone
<1>1. ASSUME NEW c \in Consumers, NEW d \in Consumers, Back(c)', Back(d)',
             consumer'[c].task = consumer'[d].task
      PROVE  c = d
  <2>1. /\ consumer[c].task = consumer[d].task
        /\ Back(c) \/ Reap(c)
        /\ Back(d) \/ Reap(d)
    BY <1>1, BackOutcome
  <2>2. CASE Back(c) /\ Back(d)
    BY <2>1, <2>2 DEF Returned
  <2>3. CASE Reap(c) /\ Reap(d)
    BY <2>1, <2>3, <1>a, <1>b DEF AllPlaced, Placed, Alone
  <2> QED BY <2>1, <2>2, <2>3, <1>b DEF Returned
<1>2. ASSUME NEW c \in Consumers, Back(c)'
      PROVE  /\ fate'[consumer'[c].task] # "none"
             /\ \/ fate'[consumer'[c].task] = "ran"
                \/ consumer'[c].task[1] \in canceled'[c[1]]
  <2>1. consumer'[c].task = consumer[c].task /\ (Back(c) \/ Reap(c))
    BY <1>2, BackOutcome
  <2>2. canceled[c[1]] \subseteq canceled'[c[1]]
    BY <1>2, <1>a, CanceledGrows, LeavesOff DEF Back
  <2>3. CASE Back(c)
    <3>1. fate[consumer[c].task] # "none"
      BY <2>3 DEF Returned
    <3>2. fate'[consumer[c].task] = fate[consumer[c].task]
      BY <3>1, <1>a, FateKept
    <3> QED BY <3>1, <3>2, <2>1, <2>2, <2>3 DEF Returned
  <2>4. CASE Reap(c)
    <3>1. fate'[consumer[c].task] =
            IF proc[consumer[c].task] = "alive" THEN "ran" ELSE "killed"
      BY <2>4, <1>a DEF Reap, TypeInv
    <3>2. proc[consumer[c].task] = "alive" \/ consumer[c].task[1] \in canceled[c[1]]
      BY <2>4 DEF Reap, At, Killed
    <3> QED BY <3>1, <3>2, <2>1, <2>2
  <2> QED BY <2>1, <2>3, <2>4
<1> QED BY <1>1, <1>2 DEF Returned

\* An entry of job_processes that is there now was there, or is new.
LEMMA TableOutcome ==
  ASSUME TypeInv, [Next]_vars, NEW w \in Workers, NEW t \in Tasks, table'[w][t] # "absent"
  PROVE  \/ table[w][t] # "absent" /\ ~Leaves(w)
            /\ \A c \in Consumers : c[1] = w /\ consumer[c].task = t => ~Forget(c)
         \/ \E c \in Consumers : c[1] = w /\ consumer[c].task = t /\ Spawn(c)
<1>a. table \in [Workers -> [Tasks -> {"absent", "process", "None"}]]
  BY DEF TypeInv
<1>b. \A c \in Consumers : c[1] \in Workers /\ consumer[c].task \in Tasks
  BY ConsumerShape, RecordFields DEF TypeInv
<1>1. ~Leaves(w)
  BY <1>a, LeavesFacts DEF ServiceGone
<1>2. ASSUME NEW c \in Consumers, c[1] = w, consumer[c].task = t
      PROVE  ~Forget(c)
  <2>1. Forget(c) => table' = [table EXCEPT ![w] = [table[w] EXCEPT ![t] = "absent"]]
    BY <1>2 DEF Forget
  <2> QED BY <2>1, <1>a
<1>3. ASSUME UNCHANGED table
      PROVE  table[w][t] # "absent"
  BY <1>3
<1>4. ASSUME NEW c \in Consumers, Spawn(c), ~(c[1] = w /\ consumer[c].task = t)
      PROVE  table[w][t] # "absent"
  <2>1. table' = [table EXCEPT ![c[1]] = [table[c[1]] EXCEPT ![consumer[c].task] = "process"]]
    BY <1>4 DEF Spawn
  <2> QED BY <2>1, <1>4, <1>a, <1>b
<1>5. ASSUME NEW c \in Consumers, Forget(c)
      PROVE  table[w][t] # "absent"
  <2>1. table' = [table EXCEPT ![c[1]] = [table[c[1]] EXCEPT ![consumer[c].task] = "absent"]]
    BY <1>5 DEF Forget
  <2> QED BY <2>1, <1>a, <1>b
<1>6. ASSUME NEW v \in Workers, Leaves(v)
      PROVE  table[w][t] # "absent"
  BY <1>6, <1>a, LeavesFacts DEF ServiceGone
<1>7. ASSUME NEW v \in Workers, StopTurn(v)
      PROVE  table[w][t] # "absent"
  <2>1. \/ table' = table
        \/ \E u \in Tasks : /\ table[v][u] # "absent"
                            /\ table' = [table EXCEPT ![v] = [table[v] EXCEPT ![u] = "None"]]
    BY <1>7 DEF StopTurn
  <2> QED BY <2>1, <1>a
<1>8. ASSUME NEW j \in Jobs, Invoke(j) \/ MasterStep(j)
      PROVE  UNCHANGED table
  BY <1>8 DEF MasterStep, Invoke, SubmitJob, PushCall, MonitorDone, workers
<1>9. ASSUME NEW k \in Stops, Clear(k) \/ CancelStep(k)
      PROVE  UNCHANGED table
  BY <1>9 DEF CancelStep, Clear, CancelLen, CancelPop, CancelPutBack, CancelNoWorkers,
              SignalWorker, CancelTest, CancelSet, workers
<1>10. ASSUME NEW v \in Workers, WorkerStarts(v) \/ WorkerEnds(v)
       PROVE  UNCHANGED table
  BY <1>10 DEF WorkerStarts, WorkerEnds
<1>11. ASSUME NEW c \in Consumers, ConsumerStep(c), ~Spawn(c), ~Forget(c)
       PROVE  UNCHANGED table
  BY <1>11 DEF ConsumerStep, TakeTask, NoMoreTasks, StartRead, StartSet, Reap, Report, SetDone,
               TaskRaises
<1>12. UNCHANGED vars => UNCHANGED table
  BY DEF vars, workers
<1>13. table[w][t] # "absent" \/ \E c \in Consumers : c[1] = w /\ consumer[c].task = t /\ Spawn(c)
  BY <1>3, <1>4, <1>5, <1>6, <1>7, <1>8, <1>9, <1>10, <1>11, <1>12, NextSteps, QuietFacts
<1> QED BY <1>1, <1>2, <1>13

\* A process that runs and is not killed by the /stop handler stays alive.
LEMMA ProcOutcome ==
  ASSUME TypeInv, [Next]_vars, NEW t \in Tasks, proc[t] = "alive"
  PROVE  \/ proc'[t] = "alive"
         \/ \E c \in Consumers : HeldBy(c, t) /\ (Reap(c) \/ Leaves(c[1]))
         \/ \E w \in Workers : /\ StopTurn(w) /\ stopping[w].job = t[1]
                               /\ table[w][t] # "absent"
<1>a. proc \in [Tasks -> {"none", "alive", "killed", "reaped"}]
  BY DEF TypeInv
<1>b. \A c \in Consumers : consumer[c].task \in Tasks
  BY RecordFields DEF TypeInv
<1>1. CASE UNCHANGED proc
  BY <1>1
<1>2. ASSUME NEW c \in Consumers, Spawn(c)
      PROVE  proc'[t] = "alive"
  BY <1>2, <1>a, <1>b DEF Spawn
<1>3. ASSUME NEW c \in Consumers, Reap(c)
      PROVE  proc'[t] = "alive" \/ HeldBy(c, t)
  BY <1>3, <1>a, <1>b DEF Reap, At, HeldBy, Holding
<1>4. ASSUME NEW w \in Workers, Leaves(w)
      PROVE  \/ proc'[t] = "alive"
             \/ \E c \in Consumers : HeldBy(c, t) /\ Leaves(c[1])
  <2>1. \/ proc'[t] = proc[t]
        \/ \E c \in Consumers : c[1] = w /\ Holding(c) /\ consumer[c].task = t
    BY <1>4, LeavesFacts DEF ServiceGone
  <2> QED BY <2>1, <1>4 DEF HeldBy
<1>5. ASSUME NEW w \in Workers, StopTurn(w)
      PROVE  \/ proc'[t] = "alive"
             \/ stopping[w].job = t[1] /\ table[w][t] # "absent"
  <2>1. \/ proc' = proc
        \/ \E u \in Tasks : /\ table[w][u] # "absent" /\ u[1] = stopping[w].job
                            /\ proc' = [proc EXCEPT ![u] =
                                          IF proc[u] = "alive" THEN "killed" ELSE proc[u]]
    BY <1>5 DEF StopTurn
  <2> QED BY <2>1, <1>a
<1>6. ASSUME NEW j \in Jobs, Invoke(j) \/ MasterStep(j)
      PROVE  UNCHANGED proc
  BY <1>6 DEF MasterStep, Invoke, SubmitJob, PushCall, MonitorDone, workers
<1>7. ASSUME NEW k \in Stops, Clear(k) \/ CancelStep(k)
      PROVE  UNCHANGED proc
  BY <1>7 DEF CancelStep, Clear, CancelLen, CancelPop, CancelPutBack, CancelNoWorkers,
              SignalWorker, CancelTest, CancelSet, workers
<1>8. ASSUME NEW w \in Workers, WorkerStarts(w) \/ WorkerEnds(w)
      PROVE  UNCHANGED proc
  BY <1>8 DEF WorkerStarts, WorkerEnds
<1>9. ASSUME NEW c \in Consumers, ConsumerStep(c), ~Spawn(c), ~Reap(c)
      PROVE  UNCHANGED proc
  BY <1>9 DEF ConsumerStep, TakeTask, NoMoreTasks, StartRead, StartSet, Forget, Report, SetDone,
              TaskRaises
<1>10. CASE UNCHANGED vars
  BY <1>10 DEF vars, workers
<1> QED
  BY <1>1, <1>2, <1>3, <1>4, <1>5, <1>6, <1>7, <1>8, <1>9, <1>10, NextSteps, QuietFacts

LEMMA KilledStep ==
  ASSUME TypeInv, Orderly, AllPlaced, Returned, Killed, [Next]_vars
  PROVE  Killed'
<1>a. \A c \in Consumers : consumer[c].task \in Tasks /\ c[1] \in Workers
  BY RecordFields, ConsumerShape DEF TypeInv
<1>1. ASSUME NEW c \in Consumers, consumer'[c].pc = "running"
      PROVE  \/ proc'[consumer'[c].task] = "alive"
             \/ consumer'[c].task[1] \in canceled'[c[1]]
  <2>1. \/ consumer'[c] = consumer[c]
        \/ Spawn(c) /\ consumer'[c].task = consumer[c].task
    <3>1. Spawn(c) => consumer[c].pc # "take"
      BY DEF Spawn, At
    <3> QED BY <3>1, <1>1, ConsumerOutcome, ConsumerWays
  <2>2. CASE Spawn(c) /\ consumer'[c].task = consumer[c].task
    BY <2>2, <1>a DEF Spawn, TypeInv
  <2>3. CASE consumer'[c] = consumer[c]
    <3> DEFINE t == consumer[c].task
    <3>1. t \in Tasks /\ HeldBy(c, t) /\ consumer[c].pc = "running" /\ c[1] \in Workers
      BY <1>1, <1>a, <2>3 DEF HeldBy, Holding
    <3>2. canceled[c[1]] \subseteq canceled'[c[1]]
      BY <1>1, <1>a, CanceledGrows, LeavesOff
    <3>3. CASE t[1] \in canceled[c[1]]
      BY <3>2, <3>3, <2>3
    <3>4. CASE proc[t] = "alive"
      <4>1. ASSUME NEW d \in Consumers, HeldBy(d, t), Reap(d) \/ Leaves(d[1])
            PROVE  FALSE
        <5>1. d = c
          BY <3>1, <4>1 DEF AllPlaced, Placed, Alone
        <5>2. ~Reap(c)
          <6>1. Reap(c) => Goto(c, "delete")
            BY DEF Reap
          <6>2. Goto(c, "delete") => consumer'[c].pc = "delete"
            BY GotoFacts DEF TypeInv, Pcs
          <6> QED BY <6>1, <6>2, <1>1
        <5>3. ~Leaves(c[1])
          BY <1>1, LeavesOff
        <5> QED BY <4>1, <5>1, <5>2, <5>3
      <4>2. ASSUME NEW w \in Workers, StopTurn(w), stopping[w].job = t[1],
                   table[w][t] # "absent"
            PROVE  t[1] \in canceled[c[1]]
        <5>1. PICK d \in Consumers : /\ d[1] = w /\ consumer[d].task = t
                                     /\ consumer[d].pc \in {"running", "delete"}
          BY <4>2, <3>1 DEF Killed
        <5>2. ~Back(d)
          BY <5>1, <3>1 DEF Returned, AllPlaced, Placed, Alone
        <5>3. HeldBy(d, t)
          BY <5>1, <5>2 DEF HeldBy, Holding, Back
        <5>4. d = c
          BY <5>3, <3>1 DEF AllPlaced, Placed, Alone
        <5>5. stopping[w].job # "none"
          BY <4>2 DEF StopTurn
        <5> QED BY <5>1, <5>4, <5>5, <4>2 DEF Killed
      <4>3. CASE proc'[t] = "alive"
        BY <4>3, <2>3
      <4> QED BY <4>1, <4>2, <4>3, <3>1, <3>3, <3>4, ProcOutcome
    <3> QED BY <3>1, <3>3, <3>4 DEF Killed
  <2> QED BY <2>1, <2>2, <2>3
<1>2. ASSUME NEW w \in Workers, stopping'[w].job # "none"
      PROVE  stopping'[w].job \in canceled'[w]
  <2>a. /\ stopping \in [Workers -> StoppingRec] /\ canceled \in [Workers -> SUBSET Jobs]
        /\ canceled[w] \subseteq canceled'[w]
    <3>1. Leaves(w) => stopping' = [stopping EXCEPT ![w] = [job |-> "none", size |-> 0, seen |-> {}]]
      BY LeavesFacts DEF ServiceGone
    <3>2. ~Leaves(w)
      BY <3>1, <1>2 DEF TypeInv
    <3> QED BY <3>2, CanceledGrows DEF TypeInv
  <2>1. CASE stopping'[w].job = stopping[w].job
    BY <2>1, <2>a, <1>2 DEF Killed
  <2>2. ASSUME NEW k \in Stops, NEW v \in Workers, SignalWorker(k, v)
        PROVE  stopping'[w].job \in canceled'[w]
    <3>1. CASE UNCHANGED stopping
      BY <3>1, <2>1
    <3>2. CASE worker[v].state = "active"
      <4>1. PICK n :
              /\ stopping' = [stopping EXCEPT ![v] = [job |-> CancelJob(k), seen |-> {}, size |-> n]]
              /\ canceled' = [canceled EXCEPT ![v] = canceled[v] \cup {CancelJob(k)}]
        BY <2>2, <3>2 DEF SignalWorker
      <4>2. CASE v = w
        BY <4>1, <4>2, <2>a
      <4>3. CASE v # w
        BY <4>1, <4>3, <2>a, <2>1
      <4> QED BY <4>2, <4>3
    <3> QED BY <3>1, <3>2, <2>2 DEF SignalWorker
  <2>3. ASSUME NEW v \in Workers, Leaves(v)
        PROVE  stopping'[w].job = stopping[w].job
    BY <2>3, <2>a, <1>2, LeavesFacts DEF ServiceGone
  <2>4. ASSUME NEW v \in Workers, StopTurn(v)
        PROVE  stopping'[w].job = stopping[w].job
    <3>1. \/ stopping' = [stopping EXCEPT ![v] = [job |-> "none", size |-> 0, seen |-> {}]]
          \/ \E t \in Tasks : stopping' = [stopping EXCEPT ![v] =
                               [stopping[v] EXCEPT !.seen = stopping[v].seen \cup {t}]]
      BY <2>4 DEF StopTurn
    <3>2. ASSUME NEW t \in Tasks
          PROVE  [stopping[v] EXCEPT !.seen = stopping[v].seen \cup {t}].job = stopping[v].job
      BY <2>a DEF StoppingRec
    <3>3. CASE v = w
      <4>1. CASE stopping' = [stopping EXCEPT ![v] = [job |-> "none", size |-> 0, seen |-> {}]]
        BY <4>1, <3>3, <2>a, <1>2
      <4>2. ASSUME NEW t \in Tasks, stopping' = [stopping EXCEPT ![v] =
                                         [stopping[v] EXCEPT !.seen = stopping[v].seen \cup {t}]]
            PROVE  stopping'[w].job = stopping[w].job
        BY <4>2, <3>2, <3>3, <2>a
      <4> QED BY <3>1, <4>1, <4>2
    <3>4. CASE v # w
      BY <3>1, <3>4, <2>a
    <3> QED BY <3>3, <3>4
  <2>5. ASSUME NEW j \in Jobs, Invoke(j) \/ MasterStep(j)
        PROVE  UNCHANGED stopping
    BY <2>5 DEF MasterStep, Invoke, SubmitJob, PushCall, MonitorDone, workers
  <2>6. ASSUME NEW k \in Stops, Clear(k) \/ CancelStep(k),
               ~\E v \in Workers : SignalWorker(k, v)
        PROVE  UNCHANGED stopping
    BY <2>6 DEF CancelStep, Clear, CancelLen, CancelPop, CancelPutBack, CancelNoWorkers,
                CancelTest, CancelSet, workers
  <2>7. ASSUME NEW v \in Workers, WorkerStarts(v) \/ WorkerEnds(v)
        PROVE  UNCHANGED stopping
    BY <2>7 DEF WorkerStarts, WorkerEnds
  <2>8. ASSUME NEW c \in Consumers, ConsumerStep(c)
        PROVE  UNCHANGED stopping
    BY <2>8 DEF ConsumerStep, TakeTask, NoMoreTasks, StartRead, StartSet, Spawn, Reap, Forget,
                Report, SetDone, TaskRaises
  <2>9. UNCHANGED vars => UNCHANGED stopping
    BY DEF vars, workers
  <2> QED
    BY <2>1, <2>2, <2>3, <2>4, <2>5, <2>6, <2>7, <2>8, <2>9, NextSteps, QuietFacts
<1>3. ASSUME NEW w \in Workers, NEW t \in Tasks, table'[w][t] # "absent"
      PROVE  \E c \in Consumers : /\ c[1] = w /\ consumer'[c].task = t
                                  /\ consumer'[c].pc \in {"running", "delete"}
  <2>1. ASSUME NEW c \in Consumers, c[1] = w, consumer[c].task = t, Spawn(c)
        PROVE  consumer'[c].task = t /\ consumer'[c].pc = "running"
    <3>1. Goto(c, "running")
      BY <2>1 DEF Spawn
    <3> QED BY <3>1, <2>1, GotoFacts DEF TypeInv, Pcs
  <2>2. CASE /\ table[w][t] # "absent" /\ ~Leaves(w)
             /\ \A c \in Consumers : c[1] = w /\ consumer[c].task = t => ~Forget(c)
    <3>1. PICK d \in Consumers : /\ d[1] = w /\ consumer[d].task = t
                                 /\ consumer[d].pc \in {"running", "delete"}
      BY <2>2 DEF Killed
    <3>2. ~WorkerStarts(d[1])
      BY <3>1, <1>a DEF Orderly, WorkerStarts
    <3>3. CASE consumer'[d] = consumer[d]
      BY <3>1, <3>3
    <3>4. CASE ConsumerStep(d)
      <4>1. Reap(d)
        BY <3>1, <3>4, <2>2 DEF ConsumerStep, TakeTask, NoMoreTasks, StartRead, StartSet, Spawn,
                                Report, SetDone, TaskRaises, At
      <4>2. Goto(d, "delete")
        BY <4>1 DEF Reap
      <4> QED BY <4>2, <3>1, GotoFacts DEF TypeInv, Pcs
    <3> QED BY <3>1, <3>2, <3>3, <3>4, <2>2, ConsumerOutcome
  <2> QED BY <2>1, <2>2, <1>3, TableOutcome
<1> QED BY <1>1, <1>2, <1>3 DEF Killed

LEMMA JobCounts ==
  ASSUME NEW j \in Jobs
  PROVE  IsFiniteSet(TasksOf(j)) /\ Cardinality(TasksOf(j)) = Calls[j] /\ TasksOf(j) \subseteq Tasks
<1> DEFINE n == Calls[j]
<1>0. n \in Nat \ {0}
  OBVIOUS
<1>1. IsFiniteSet(0 .. n - 1) /\ Cardinality(0 .. n - 1) = n
  <2>1. PICK m \in Int : m = n - 1
    BY <1>0
  <2>2. IsFiniteSet(0 .. m) /\ Cardinality(0 .. m) = IF 0 > m THEN 0 ELSE m - 0 + 1
    BY FS_Interval
  <2>3. 0 <= m /\ m - 0 + 1 = n
    BY <2>1, <1>0
  <2> QED BY <2>1, <2>2, <2>3
<1>2. IsFiniteSet({j}) /\ Cardinality({j}) = 1
  BY FS_Singleton
<1> HIDE DEF n
<1>3. IsFiniteSet({j} \X (0 .. n - 1)) /\ Cardinality({j} \X (0 .. n - 1)) = 1 * n
  BY <1>1, <1>2, FS_Product
<1>4. 1 * n = n
  BY <1>0
<1> QED BY <1>3, <1>4 DEF n, TasksOf, Tasks

\* The calls reported are some of the calls of the job.
LEMMA ReportedBounded ==
  ASSUME NEW j \in Jobs
  PROVE  /\ IsFiniteSet(Reported(j)) /\ Cardinality(Reported(j)) \in Nat
         /\ Cardinality(Reported(j)) <= Calls[j]
         /\ Cardinality(Reported(j)) = Calls[j] => Reported(j) = TasksOf(j)
<1>1. Reported(j) \subseteq TasksOf(j)
  BY DEF Reported
<1>2. IsFiniteSet(TasksOf(j)) /\ Cardinality(TasksOf(j)) = Calls[j]
  BY JobCounts
<1> HIDE DEF Reported
<1>3. IsFiniteSet(Reported(j)) /\ Cardinality(Reported(j)) \in Nat
  BY <1>1, <1>2, FS_Subset, FS_CardinalityType
<1> QED BY <1>1, <1>2, <1>3, FS_Subset

\* A call that has been reported stays so.
LEMMA ReportedGrows ==
  ASSUME TypeInv, Orderly, AllPlaced, Returned, [Next]_vars, NEW j \in Jobs
  PROVE  Reported(j) \subseteq Reported(j)'
<1> SUFFICES ASSUME NEW t \in Reported(j)
             PROVE  t \in Reported(j)'
  OBVIOUS
<1>1. t \in TasksOf(j) /\ t \in Tasks /\ fate[t] = "ran" /\ ~Carried(t)
  BY JobCounts DEF Reported
<1>2. fate'[t] = "ran"
  BY <1>1, FateKept
<1>3. ASSUME NEW c \in Consumers, Back(c)', consumer'[c].task = t
      PROVE  FALSE
  <2>1. consumer[c].task = t /\ (Back(c) \/ Reap(c))
    BY <1>3, BackOutcome
  <2>2. Reap(c) => HeldBy(c, t)
    BY <2>1 DEF Reap, At, HeldBy, Holding
  <2> QED BY <2>1, <2>2, <1>1 DEF Carried, AllPlaced, Placed, Alone
<1> QED BY <1>1, <1>2, <1>3 DEF Reported, Carried

\* The list of calls done changes only by rpush, one call at a time.
LEMMA ListOutcome ==
  ASSUME TypeInv, [Next]_vars, NEW j \in Jobs
  PROVE  \/ tasksDone'[j] = tasksDone[j]
         \/ /\ tasksDone'[j] = tasksDone[j] + 1
            /\ \E c \in Consumers : /\ Report(c) /\ Counted(c) /\ consumer[c].task[1] = j
                                    /\ ~Back(c)'
<1>a. /\ tasksDone \in [Jobs -> Nat]
      /\ \A c \in Consumers : consumer[c].task[1] \in Jobs
  BY RecordFields, TaskShape DEF TypeInv
<1>1. ASSUME NEW c \in Consumers, Report(c), Counted(c)
      PROVE  \/ tasksDone'[j] = tasksDone[j]
             \/ /\ tasksDone'[j] = tasksDone[j] + 1 /\ consumer[c].task[1] = j
                /\ ~Back(c)'
  <2>1. /\ tasksDone' = [tasksDone EXCEPT ![consumer[c].task[1]] =
                           tasksDone[consumer[c].task[1]] + 1]
        /\ Goto(c, "setdone") \/ Goto(c, "take")
    BY <1>1 DEF Report
  <2>2. consumer'[c].pc \in {"setdone", "take"}
    BY <2>1, GotoFacts DEF TypeInv, Pcs
  <2> QED BY <2>1, <2>2, <1>a DEF Back
<1>2. ASSUME NEW c \in Consumers, ConsumerStep(c), ~(Report(c) /\ Counted(c))
      PROVE  UNCHANGED tasksDone
  BY <1>2 DEF ConsumerStep, TakeTask, NoMoreTasks, StartRead, StartSet, Spawn, Reap, Forget,
              Report, SetDone, TaskRaises, redis
<1>3. ASSUME NEW i \in Jobs, Invoke(i) \/ MasterStep(i)
      PROVE  UNCHANGED tasksDone
  BY <1>3 DEF MasterStep, Invoke, SubmitJob, PushCall, MonitorDone, redis
<1>4. ASSUME NEW k \in Stops, Clear(k) \/ CancelStep(k)
      PROVE  UNCHANGED tasksDone
  BY <1>4 DEF CancelStep, Clear, CancelLen, CancelPop, CancelPutBack, CancelNoWorkers,
              SignalWorker, CancelTest, CancelSet, redis
<1>5. ASSUME NEW w \in Workers, WorkerStarts(w) \/ WorkerEnds(w) \/ StopTurn(w) \/ Leaves(w)
      PROVE  UNCHANGED tasksDone
  BY <1>5, LeavesFacts DEF WorkerStarts, WorkerEnds, StopTurn, redis
<1>6. UNCHANGED vars \/ Quiet => UNCHANGED tasksDone
  BY QuietFacts DEF vars, redis
<1> QED BY <1>1, <1>2, <1>3, <1>4, <1>5, <1>6, NextSteps

LEMMA CountsStep ==
  ASSUME TypeInv, Orderly, AllPlaced, Returned, Counts, [Next]_vars, NEW j \in Jobs
  PROVE  tasksDone'[j] <= Cardinality(Reported(j)')
<1>a. /\ tasksDone[j] \in Nat /\ tasksDone[j] <= Cardinality(Reported(j))
      /\ \A c \in Consumers : consumer[c].task \in Tasks
  BY RecordFields DEF TypeInv, Counts
<1>b. /\ IsFiniteSet(Reported(j)) /\ Cardinality(Reported(j)) \in Nat
      /\ Cardinality(Reported(j)) <= Calls[j]
  BY ReportedBounded
<1>c. /\ IsFiniteSet(Reported(j)') /\ Cardinality(Reported(j)') \in Nat
  <2>1. Reported(j)' \subseteq TasksOf(j)
    BY DEF Reported
  <2>2. IsFiniteSet(TasksOf(j))
    BY JobCounts
  <2> QED BY <2>1, <2>2, FS_Subset, FS_CardinalityType
<1>d. Reported(j) \subseteq Reported(j)'
  BY ReportedGrows
<1>1. CASE tasksDone'[j] = tasksDone[j]
  <2>1. Cardinality(Reported(j)) <= Cardinality(Reported(j)')
    BY <1>c, <1>d, FS_Subset
  <2> QED BY <2>1, <1>1, <1>a, <1>b, <1>c
<1>2. ASSUME tasksDone'[j] = tasksDone[j] + 1, NEW c \in Consumers, Report(c), Counted(c),
             consumer[c].task[1] = j, ~Back(c)'
      PROVE  tasksDone'[j] <= Cardinality(Reported(j)')
  <2> DEFINE t == consumer[c].task
  <2>1. Back(c) /\ t \in Tasks /\ t \in TasksOf(j)
    <3>1. t \in Tasks
      BY <1>a
    <3>2. t[2] \in 0 .. Calls[t[1]] - 1 /\ t = <<t[1], t[2]>> /\ t[1] = j
      BY <3>1, <1>2, TaskShape
    <3>3. Back(c)
      BY <1>2 DEF Report, At, Back
    <3> QED BY <3>1, <3>2, <3>3 DEF TasksOf
  <2>2. fate[t] = "ran"
    BY <2>1, <1>2 DEF Returned, Counted
  <2>3. t \notin Reported(j)
    BY <2>1 DEF Reported, Carried
  <2>4. t \in Reported(j)'
    <3>1. PICK u : u = t
      OBVIOUS
    <3>2. fate'[u] = "ran"
      BY <3>1, <2>1, <2>2, FateKept
    <3>3. ASSUME NEW d \in Consumers, Back(d)', consumer'[d].task = u
          PROVE  FALSE
      <4>1. consumer[d].task = u /\ (Back(d) \/ Reap(d))
        BY <3>3, BackOutcome
      <4>2. Reap(d) => HeldBy(d, u)
        BY <4>1 DEF Reap, At, HeldBy, Holding
      <4>3. Back(d)
        BY <4>1, <4>2, <3>1, <2>1, <2>2 DEF AllPlaced, Placed, Alone
      <4>4. d = c
        BY <4>1, <4>3, <3>1, <2>1 DEF Returned
      <4> QED BY <4>4, <3>3, <1>2
    <3>4. u \in TasksOf(j)
      BY <3>1, <2>1
    <3>5. u \in Reported(j)'
      BY <3>2, <3>3, <3>4 DEF Reported, Carried
    <3> QED BY <3>1, <3>5
  <2> HIDE DEF t
  <2>5. PICK u : u = t
    OBVIOUS
  <2>6. PICK R : R = Reported(j)
    OBVIOUS
  <2>7. Cardinality(R \cup {u}) = Cardinality(R) + 1 /\ IsFiniteSet(R \cup {u})
    BY <2>3, <2>5, <2>6, <1>b, FS_AddElement
  <2>8. R \cup {u} \subseteq Reported(j)'
    BY <2>4, <2>5, <2>6, <1>d
  <2>9. Cardinality(R \cup {u}) <= Cardinality(Reported(j)')
    BY <2>8, <1>c, FS_Subset
  <2> QED BY <2>6, <2>7, <2>9, <1>2, <1>a, <1>b, <1>c
<1> QED BY <1>1, <1>2, ListOutcome

\* The list of calls done never exceeds the calls of the job.
LEMMA ListBounded ==
  ASSUME TypeInv, Counts, NEW j \in Jobs
  PROVE  tasksDone[j] <= Calls[j]
<1>1. /\ tasksDone[j] \in Nat /\ Calls[j] \in Nat /\ tasksDone[j] <= Cardinality(Reported(j))
  BY DEF TypeInv, Counts
<1> QED BY <1>1, ReportedBounded

LEMMA StatusOutcome ==
  ASSUME TypeInv, Orderly, [Next]_vars, NEW j \in Jobs
  PROVE  \/ jobStatus'[j] = jobStatus[j]
         \/ jobStatus'[j] = "canceled"
         \/ SubmitJob(j) /\ jobStatus'[j] = "submitted"
         \/ \E c \in Consumers : /\ consumer[c].task[1] = j
                                 /\ \/ StartSet(c) /\ jobStatus'[j] = "running"
                                    \/ SetDone(c) /\ jobStatus'[j] = "done"
<1>a. /\ jobStatus \in [Jobs -> {"none", "submitted", "running", "done", "canceled"}]
      /\ \A c \in Consumers : consumer[c].task[1] \in Jobs
  BY RecordFields, TaskShape DEF TypeInv
<1>1. ASSUME NEW i \in Jobs, SubmitJob(i)
      PROVE  jobStatus'[j] = jobStatus[j] \/ (SubmitJob(j) /\ jobStatus'[j] = "submitted")
  <2>1. jobStatus' = [jobStatus EXCEPT ![i] = "submitted"]
    BY <1>1 DEF SubmitJob
  <2>2. CASE i = j
    BY <2>1, <2>2, <1>1, <1>a
  <2>3. CASE i # j
    BY <2>1, <2>3, <1>a
  <2> QED BY <2>2, <2>3
<1>2. ASSUME NEW c \in Consumers, StartSet(c)
      PROVE  jobStatus'[j] = jobStatus[j] \/ (consumer[c].task[1] = j /\ jobStatus'[j] = "running")
  <2>1. jobStatus' = [jobStatus EXCEPT ![consumer[c].task[1]] = "running"]
    BY <1>2 DEF StartSet
  <2> QED BY <2>1, <1>a
<1>3. ASSUME NEW c \in Consumers, SetDone(c)
      PROVE  jobStatus'[j] = jobStatus[j] \/ (consumer[c].task[1] = j /\ jobStatus'[j] = "done")
  <2>1. jobStatus' = [jobStatus EXCEPT ![consumer[c].task[1]] = "done"]
    BY <1>3 DEF SetDone
  <2> QED BY <2>1, <1>a
<1>4. ASSUME NEW k \in Stops, CancelSet(k)
      PROVE  jobStatus'[j] = jobStatus[j] \/ jobStatus'[j] = "canceled"
  BY <1>4, <1>a DEF CancelSet
<1>5. ASSUME NEW i \in Jobs, Invoke(i) \/ PushCall(i) \/ MonitorDone(i)
      PROVE  UNCHANGED jobStatus
  BY <1>5 DEF Invoke, PushCall, MonitorDone, redis
<1>6. ASSUME NEW c \in Consumers, ConsumerStep(c), ~StartSet(c), ~SetDone(c)
      PROVE  UNCHANGED jobStatus
  BY <1>6 DEF ConsumerStep, TakeTask, NoMoreTasks, StartRead, Spawn, Reap, Forget, Report,
              TaskRaises, redis
<1>7. ASSUME NEW k \in Stops, Clear(k) \/ CancelStep(k), ~CancelSet(k)
      PROVE  UNCHANGED jobStatus
  BY <1>7 DEF CancelStep, Clear, CancelLen, CancelPop, CancelPutBack, CancelNoWorkers,
              SignalWorker, CancelTest, redis
<1>8. ASSUME NEW w \in Workers, WorkerStarts(w) \/ WorkerEnds(w) \/ StopTurn(w) \/ Leaves(w)
      PROVE  UNCHANGED jobStatus
  BY <1>8, LeavesFacts DEF WorkerStarts, WorkerEnds, StopTurn, redis
<1>9. UNCHANGED vars \/ Quiet => UNCHANGED jobStatus
  BY QuietFacts DEF vars, redis
<1> QED
  BY <1>1, <1>2, <1>3, <1>4, <1>5, <1>6, <1>7, <1>8, <1>9, NextSteps DEF MasterStep

LEMMA CompleteStep ==
  ASSUME TypeInv, Orderly, AllPlaced, Returned, Counts, Complete, [Next]_vars,
         TypeInv', Counts'
  PROVE  Complete'
<1>a. ASSUME NEW j \in Jobs, tasksDone[j] = Calls[j]
      PROVE  tasksDone'[j] = Calls[j]
  <2>1. tasksDone'[j] <= Calls[j] /\ tasksDone'[j] \in Nat /\ Calls[j] \in Nat
    <3>1. tasksDone'[j] <= Cardinality(Reported(j)')
      BY DEF Counts
    <3>2. /\ Cardinality(Reported(j)') <= Calls[j] /\ Cardinality(Reported(j)') \in Nat
      <4>1. Reported(j)' \subseteq TasksOf(j)
        BY DEF Reported
      <4>2. PICK R : R = Reported(j)'
        OBVIOUS
      <4>3. R \subseteq TasksOf(j) /\ IsFiniteSet(TasksOf(j))
              /\ Cardinality(TasksOf(j)) = Calls[j]
        BY <4>1, <4>2, JobCounts
      <4>4. Cardinality(R) <= Calls[j] /\ Cardinality(R) \in Nat
        BY <4>3, FS_Subset, FS_CardinalityType
      <4> QED BY <4>2, <4>4
    <3>3. tasksDone'[j] \in Nat /\ Calls[j] \in Nat
      BY DEF TypeInv
    <3> QED BY <3>1, <3>2, <3>3
  <2>2. tasksDone'[j] = tasksDone[j] \/ tasksDone'[j] = tasksDone[j] + 1
    BY ListOutcome
  <2> QED BY <2>1, <2>2, <1>a
<1>b. \A c \in Consumers : consumer[c].task[1] \in Jobs
  BY RecordFields, TaskShape DEF TypeInv
<1>1. ASSUME NEW c \in Consumers, consumer'[c].pc = "setdone"
      PROVE  tasksDone'[consumer'[c].task[1]] = Calls[consumer'[c].task[1]]
  <2>1. \/ consumer'[c] = consumer[c]
        \/ Report(c) /\ consumer'[c].task = consumer[c].task
    <3>1. Report(c) => consumer[c].pc # "take"
      BY DEF Report, At
    <3> QED BY <3>1, <1>1, ConsumerOutcome, ConsumerWays
  <2>2. CASE consumer'[c] = consumer[c]
    BY <2>2, <1>1, <1>a, <1>b DEF Complete
  <2>3. CASE Report(c) /\ consumer'[c].task = consumer[c].task
    <3>1. PICK j \in Jobs : j = consumer[c].task[1]
      BY <1>b
    <3>2. ~Goto(c, "take")
      BY <1>1, GotoFacts DEF TypeInv, Pcs
    <3>3. /\ tasksDone' = [tasksDone EXCEPT ![j] = tasksDone[j] + 1]
          /\ tasksDone[j] + 1 = Calls[j]
      BY <3>1, <3>2, <2>3 DEF Report, LengthTotal
    <3> QED BY <3>1, <3>3, <2>3 DEF TypeInv
  <2> QED BY <2>1, <2>2, <2>3
<1>2. ASSUME NEW j \in Jobs, jobStatus'[j] = "done"
      PROVE  tasksDone'[j] = Calls[j]
  <2>1. tasksDone[j] = Calls[j]
    BY <1>2, StatusOutcome DEF Complete, SetDone, At
  <2> QED BY <2>1, <1>a
<1> QED BY <1>1, <1>2 DEF Complete

LEMMA DoneInit == Init => DoneInv
<1> SUFFICES ASSUME Init
             PROVE  DoneInv
  OBVIOUS
<1>1. \A c \in Consumers : consumer[c].pc = "off"
  BY DEF Init
<1>2. Returned /\ Killed
  BY <1>1 DEF Init, Returned, Killed, Back
<1>3. Counts
  <2>1. ASSUME NEW j \in Jobs
        PROVE  tasksDone[j] <= Cardinality(Reported(j))
    <3>1. tasksDone[j] = 0
      BY DEF Init
    <3> QED BY <3>1, ReportedBounded
  <2> QED BY <2>1 DEF Counts
<1>4. Complete
  BY <1>1 DEF Init, Complete
<1> QED BY <1>2, <1>3, <1>4 DEF DoneInv

JobsInv == TypeInv /\ Orderly /\ AllPlaced /\ DoneInv

\* The inductive invariant of the module.
LEMMA JobsInvStep == JobsInv /\ [Next]_vars => JobsInv'
<1> SUFFICES ASSUME JobsInv, [Next]_vars
             PROVE  JobsInv'
  OBVIOUS
<1> USE DEF JobsInv, DoneInv
<1>1. TypeInv' /\ AllPlaced' /\ Orderly'
  BY TypeStep, PlaceStep, OrderlyStep DEF AllPlaced
<1>2. Returned' /\ Killed'
  BY ReturnedStep, KilledStep
<1>3. Counts'
  <2>1. \A j \in Jobs : tasksDone'[j] <= Cardinality(Reported(j)')
    BY CountsStep
  <2> QED BY <2>1 DEF Counts
<1>4. Complete'
  BY <1>1, <1>3, CompleteStep
<1> QED BY <1>1, <1>2, <1>3, <1>4

LEMMA JobsAlways == Spec => []JobsInv
<1>1. Init => JobsInv
  BY TypeInit, PlaceInit, DoneInit DEF JobsInv
<1> QED BY <1>1, JobsInvStep, PTL DEF Spec

\* A DONE job has all its calls in the list, and each of them ran.
LEMMA DoneAllRan ==
  ASSUME JobsInv, NEW j \in Jobs, jobStatus[j] = "done"
  PROVE  \A t \in Tasks : t[1] = j => fate[t] = "ran"
<1>1. tasksDone[j] = Calls[j] /\ Calls[j] \in Nat /\ tasksDone[j] <= Cardinality(Reported(j))
  BY DEF JobsInv, DoneInv, Complete, Counts
<1>2. Reported(j) = TasksOf(j)
  BY <1>1, ReportedBounded
<1>3. ASSUME NEW t \in Tasks, t[1] = j
      PROVE  t \in TasksOf(j)
  BY <1>3, TaskShape DEF TasksOf
<1> QED BY <1>2, <1>3 DEF Reported

\* The state of the master, of its workers and of the cancel threads is well
\* formed, and no job has more calls in its list than it was posted with.
THEOREM TypeCorrect == Spec => []TypeOK
<1>1. JobsInv => TypeOK
  <2> SUFFICES ASSUME JobsInv
               PROVE  TypeOK
    OBVIOUS
  <2>1. \A j \in Jobs : tasksDone[j] <= Calls[j]
    BY ListBounded DEF JobsInv, DoneInv
  <2> QED
    BY <2>1 DEF JobsInv, TypeInv, TypeOK, Names, Pcs, CancelPcs, WorkerRec, ConsumerRec,
                CancelRec, StoppingRec
<1> QED BY <1>1, JobsAlways, PTL

\* No call is lost and none is doubled while cancel_job_process empties and
\* refills the queues that consumers and handle_job use: TaskInOnePlace holds
\* for any number of jobs, calls, workers, consumers and stop requests.
THEOREM OnePlaceEach == Spec => []TaskInOnePlace
<1>1. JobsInv => TaskInOnePlace
  BY PlacesCounted DEF JobsInv
<1> QED BY <1>1, JobsAlways, PTL

\* rpush counts a call to its end or not at all: whatever is killed, dropped or
\* lost with its VM, a job that is DONE has run every call of it.
THEOREM DoneIsComplete == Spec => []DoneMeansAllRan
<1>1. JobsInv => DoneMeansAllRan
  BY DoneAllRan DEF DoneMeansAllRan
<1> QED BY <1>1, JobsAlways, PTL

\* DONE is not overwritten by a consumer that read SUBMITTED before: while a
\* call has not ended the job is not DONE, and handle_job writes once.
THEOREM DoneIsStable == Spec => DoneNeverReverts
<1>1. ASSUME JobsInv, [Next]_vars, NEW j \in Jobs, jobStatus[j] = "done"
      PROVE  jobStatus'[j] \in {"done", "canceled"}
  <2>1. <<j, 0>> \in Tasks
    BY TaskShape
  <2>2. \A t \in Tasks : t[1] = j => fate[t] = "ran"
    BY <1>1, DoneAllRan
  <2>3. ~SubmitJob(j)
    <3>1. fate[<<j, 0>>] = "ran"
      BY <2>1, <2>2
    <3>2. Pushed(<<j, 0>>)
      BY <2>1, <3>1, <1>1 DEF JobsInv, AllPlaced, Placed, Alone
    <3> QED BY <3>2 DEF Pushed, SubmitJob
  <2>4. ASSUME NEW c \in Consumers, consumer[c].task[1] = j, StartSet(c)
        PROVE  FALSE
    <3>1. consumer[c].task \in Tasks /\ HeldBy(c, consumer[c].task)
      BY <1>1, <2>4, RecordFields DEF JobsInv, TypeInv, StartSet, At, HeldBy, Holding
    <3> QED BY <3>1, <2>2, <2>4, <1>1 DEF JobsInv, AllPlaced, Placed, Alone
  <2> QED BY <1>1, <2>3, <2>4, StatusOutcome DEF JobsInv
<1>2. JobsInv /\ [Next]_vars
        => [\A j \in Jobs : jobStatus[j] = "done" => jobStatus'[j] \in {"done", "canceled"}]_vars
  BY <1>1
<1> QED BY <1>2, JobsAlways, PTL DEF Spec, DoneNeverReverts

-----------------------------------------------------------------------------
(* The life of a worker VM. *)

USE WorkerVMAssumption

\* What is needed of the bound of the clocks.
LEMMA LongestBound == Longest \in Nat /\ Hard <= Longest
BY DEF Longest

USE LongestBound

VMRec == [state : {"on", "off"}, checked : {"new", "ready", "valid"}]
SetupRec == [pc : {"hget", "ready", "valid", "install", "hset", "ended", "failed"},
             ready : 1 .. Retries, valid : 1 .. Retries]
Keepers == {"off", "loop", "scan", "len", "all", "soft", "hard", "stop", "ended", "dead"}
ScanRec == [size : 0 .. Cardinality(VMTasks), seen : SUBSET VMTasks]

\* VMTypeOK, but for the number of VMs.
VMTypeInv ==
  /\ mode \in {"create", "reuse"} /\ autoDism \in BOOLEAN /\ deleteOn \in BOOLEAN
  /\ status \in {"none", "starting", "error", "started", "installing", "active",
                 "stopped"}
  /\ vm \in VMRec /\ creations \in Nat /\ setup \in SetupRec
  /\ service \in {"none", "installing", "up", "ended", "failed"}
  /\ keeper \in Keepers
  /\ jobs \in [VMTasks -> {"none", "running", "done"}]
  /\ doneFiles \subseteq VMTasks
  /\ idle \in 0 .. Longest /\ since \in 0 .. Longest /\ age \in [VMTasks -> 0 .. Longest]
  /\ scan \in ScanRec
  /\ known \subseteq VMTasks /\ jobsRunning \in BOOLEAN /\ ending \in BOOLEAN

\* Every failed validation follows a series of waits for the VM to be ready.
Created == creations >= 1 /\ creations <= (setup.valid - 1) * Retries + setup.ready

\* What the set-up has reached tells how far the VM of that name was checked,
\* and nothing uses it before.
SetUp ==
  /\ setup.pc \in {"hget", "ready", "valid"} =>
       service = "none" /\ status \in {"none", "starting", "error"}
  /\ setup.pc = "valid" => vm.checked = "ready"
  /\ setup.pc \in {"install", "hset", "ended"} => vm.checked = "valid"
  /\ setup.pc \in {"install", "failed"} => service = "none"
  /\ setup.pc = "failed" => status = "error"
  /\ service = "none" => keeper = "off"

\* A job marked done has its file, and all() has passed no others.  A running
\* task is at least as old as the last use; those it knew when the keeper read
\* the clock are at least as old as what it read, have all ended when it counts
\* the soft timeout, and are older than the hard one when it stops the VM.
Marked == \A j \in VMTasks : jobs[j] = "done" => j \in doneFiles
Passed == keeper = "all" => \A j \in scan.seen : jobs[j] = "done"
Older == \A j \in VMTasks : Running(j) => age[j] >= idle
Timed ==
  /\ known \subseteq Keys
  /\ \A j \in known : Running(j) =>
       /\ keeper \in {"scan", "len", "all", "hard"} => age[j] >= since
       /\ keeper # "soft"
       /\ keeper = "stop" => age[j] >= Hard

-----------------------------------------------------------------------------
(* Records and types.                                                        *)

LEMMA VMFields ==
  /\ \A r \in VMRec : r.state \in {"on", "off"} /\ r.checked \in {"new", "ready", "valid"}
  /\ \A r \in SetupRec : /\ r.ready \in 1 .. Retries /\ r.valid \in 1 .. Retries
                         /\ r.pc \in {"hget", "ready", "valid", "install", "hset", "ended",
                                      "failed"}
  /\ \A r \in ScanRec : r.size \in 0 .. Cardinality(VMTasks) /\ r.seen \subseteq VMTasks
BY DEF VMRec, SetupRec, ScanRec

LEMMA SetupMoves ==
  ASSUME NEW r \in SetupRec,
         NEW p \in {"hget", "ready", "valid", "install", "hset", "ended", "failed"}
  PROVE  /\ [r EXCEPT !.pc = p] \in SetupRec /\ [r EXCEPT !.pc = p].pc = p
         /\ [r EXCEPT !.pc = p].ready = r.ready /\ [r EXCEPT !.pc = p].valid = r.valid
BY DEF SetupRec

LEMMA KeysFinite ==
  /\ Keys \subseteq VMTasks /\ IsFiniteSet(Keys) /\ Cardinality(Keys) \in 0 .. Cardinality(VMTasks)
<1>1. Keys \subseteq VMTasks
  BY DEF Keys
<1>2. PICK K : K = Keys
  OBVIOUS
<1>3. /\ IsFiniteSet(K) /\ Cardinality(K) \in Nat /\ Cardinality(K) <= Cardinality(VMTasks)
      /\ Cardinality(VMTasks) \in Nat
  BY <1>1, <1>2, FS_Subset, FS_CardinalityType
<1>4. Cardinality(K) \in 0 .. Cardinality(VMTasks)
  BY <1>3
<1> QED BY <1>1, <1>2, <1>3, <1>4

LEMMA VMTypeInit == VMInit => VMTypeInv /\ Created
<1> SUFFICES ASSUME VMInit
             PROVE  VMTypeInv /\ Created
  OBVIOUS
<1> USE DEF VMInit
<1>1. vm \in VMRec
  BY DEF VMRec
<1>2. setup \in SetupRec
  BY DEF SetupRec
<1>3. Cardinality(VMTasks) \in Nat
  BY FS_CardinalityType
<1>4. scan \in ScanRec
  BY <1>3 DEF ScanRec
<1>5. jobs \in [VMTasks -> {"none", "running", "done"}] /\ age \in [VMTasks -> 0 .. Longest]
  OBVIOUS
<1>6. idle \in 0 .. Longest /\ since \in 0 .. Longest /\ creations \in Nat
  OBVIOUS
<1>7. VMTypeInv
  BY <1>1, <1>2, <1>4, <1>5, <1>6 DEF VMTypeInv, Keepers
<1>8. setup.valid = 1 /\ setup.ready = 1
  OBVIOUS
<1>9. Created
  BY <1>8 DEF Created
<1> QED BY <1>7, <1>9

\* The steps of the set-up, with what they do to its counters.
LEMMA SetupType ==
  ASSUME VMTypeInv, Created, SetupStep
  PROVE  VMTypeInv' /\ Created'
<1> USE DEF config, setupVars, keeperVars, usage
<1>a. /\ setup \in SetupRec /\ vm \in VMRec /\ creations \in Nat
      /\ setup.ready \in 1 .. Retries /\ setup.valid \in 1 .. Retries
  BY VMFields DEF VMTypeInv
<1>b. /\ [state |-> "on", checked |-> "new"] \in VMRec
      /\ \A k \in {"new", "ready", "valid"} : [vm EXCEPT !.checked = k] \in VMRec
  BY <1>a DEF VMRec
<1>1. ASSUME NEW p \in {"hget", "ready", "valid", "install", "hset", "ended", "failed"},
             setup' = [setup EXCEPT !.pc = p], UNCHANGED creations
      PROVE  setup' \in SetupRec /\ Created'
  <2>1. /\ setup' \in SetupRec /\ setup'.ready = setup.ready /\ setup'.valid = setup.valid
    BY <1>1, <1>a, SetupMoves
  <2> QED BY <2>1, <1>1 DEF Created
<1>2. ASSUME setup' \in SetupRec, vm' \in VMRec, creations' \in Nat,
             status' \in {"none", "starting", "error", "started", "installing", "active",
                          "stopped"},
             service' \in {"none", "installing", "up", "ended", "failed"},
             UNCHANGED config, UNCHANGED keeperVars, UNCHANGED usage, UNCHANGED ending
      PROVE  VMTypeInv'
  BY <1>2 DEF VMTypeInv
<1>c. /\ status \in {"none", "starting", "error", "started", "installing", "active", "stopped"}
      /\ service \in {"none", "installing", "up", "ended", "failed"}
  BY DEF VMTypeInv
<1>3. CASE Save \/ Install \/ InstallError \/ SetInstalling
  <2>1. \E p \in {"hget", "ready", "valid", "install", "hset", "ended", "failed"} :
          setup' = [setup EXCEPT !.pc = p]
    BY <1>3 DEF Save, Install, InstallError, SetInstalling
  <2>2. UNCHANGED creations /\ UNCHANGED vm
    BY <1>3 DEF Save, Install, InstallError, SetInstalling
  <2>3. setup' \in SetupRec /\ Created'
    BY <2>1, <2>2, <1>1
  <2> QED BY <1>3, <2>2, <2>3, <1>2, <1>a, <1>c DEF Save, Install, InstallError, SetInstalling
<1>4. CASE WaitReady \/ Validate
  <2>1. /\ \E p \in {"valid", "install"} : setup' = [setup EXCEPT !.pc = p]
        /\ UNCHANGED creations
    BY <1>4 DEF WaitReady, Validate
  <2>2. setup' \in SetupRec /\ Created'
    BY <2>1, <1>1
  <2>3. vm' \in VMRec
    <3>1. vm.checked \in {"new", "ready", "valid"}
      BY <1>a, VMFields
    <3> QED BY <1>4, <1>b, <3>1 DEF WaitReady, Validate
  <2> QED BY <1>4, <2>1, <2>2, <2>3, <1>2, <1>a, <1>c DEF WaitReady, Validate
<1>5. CASE ReadyTimeout
  <2>1. CASE LastTry(setup.ready)
    <3>1. setup' = [setup EXCEPT !.pc = "failed"] /\ UNCHANGED <<vm, creations>>
      BY <1>5, <2>1 DEF ReadyTimeout
    <3>2. setup' \in SetupRec /\ Created'
      BY <3>1, <1>1
    <3> QED BY <1>5, <3>1, <3>2, <1>2, <1>a, <1>c DEF ReadyTimeout
  <2>2. CASE ~LastTry(setup.ready)
    <3>1. /\ setup' = [setup EXCEPT !.ready = setup.ready + 1]
          /\ vm' = [state |-> "on", checked |-> "new"] /\ creations' = creations + 1
      BY <1>5, <2>2 DEF ReadyTimeout
    <3>2. setup.ready + 1 \in 1 .. Retries
      BY <2>2, <1>a DEF LastTry
    <3>3. setup' \in SetupRec /\ setup'.ready = setup.ready + 1 /\ setup'.valid = setup.valid
      BY <3>1, <3>2, <1>a DEF SetupRec
    <3>4. PICK n \in Int : n = (setup.valid - 1) * Retries
      BY <1>a
    <3>5. Created'
      BY <3>1, <3>3, <3>4, <1>a DEF Created
    <3> QED BY <1>5, <3>1, <3>3, <3>5, <1>2, <1>a, <1>b, <1>c DEF ReadyTimeout
  <2> QED BY <2>1, <2>2
<1>6. CASE ValidationError
  <2>1. CASE LastTry(setup.valid)
    <3>1. setup' = [setup EXCEPT !.pc = "failed"] /\ UNCHANGED <<vm, creations>>
      BY <1>6, <2>1 DEF ValidationError
    <3>2. setup' \in SetupRec /\ Created'
      BY <3>1, <1>1
    <3> QED BY <1>6, <3>1, <3>2, <1>2, <1>a, <1>c DEF ValidationError
  <2>2. CASE ~LastTry(setup.valid)
    <3>1. /\ setup' = [pc |-> "ready", ready |-> 1, valid |-> setup.valid + 1]
          /\ vm' = [state |-> "on", checked |-> "new"] /\ creations' = creations + 1
      BY <1>6, <2>2 DEF ValidationError, AfterRecreate
    <3>2. setup.valid + 1 \in 1 .. Retries /\ 1 \in 1 .. Retries
      BY <2>2, <1>a DEF LastTry
    <3>3. setup' \in SetupRec /\ setup'.ready = 1 /\ setup'.valid = setup.valid + 1
      BY <3>1, <3>2 DEF SetupRec
    <3>4. Created'
      <4>1. PICK v \in Int : v = setup.valid
        BY <1>a
      <4>2. (v - 1) * Retries + Retries = v * Retries
        BY <4>1
      <4>3. creations <= (v - 1) * Retries + Retries
        <5>1. PICK n \in Int : n = (v - 1) * Retries
          BY <4>1
        <5> QED BY <5>1, <4>1, <1>a DEF Created
      <4>4. creations + 1 <= v * Retries + 1
        <5>1. PICK n \in Int : n = v * Retries
          BY <4>1
        <5> QED BY <5>1, <4>2, <4>3, <1>a
      <4>5. setup'.valid - 1 = v
        BY <3>3, <4>1
      <4> QED BY <3>1, <3>3, <4>4, <4>5, <1>a DEF Created
    <3> QED BY <1>6, <3>1, <3>3, <3>4, <1>2, <1>a, <1>b, <1>c DEF ValidationError
  <2> QED BY <2>1, <2>2
<1> QED BY <1>3, <1>4, <1>5, <1>6 DEF SetupStep

\* The steps of the service, of the tasks, of the client and of time.
LEMMA ServiceType ==
  ASSUME VMTypeInv,
         ServiceStep \/ ConsumersEnd \/ ClientClear \/ Tick
           \/ (\E j \in VMTasks : AddJob(j) \/ JobDone(j))
  PROVE  VMTypeInv' /\ UNCHANGED setupVars
<1> USE DEF config, setupVars, keeperVars, usage
<1>a. [vm EXCEPT !.state = "off"] \in VMRec
  BY DEF VMTypeInv, VMRec
<1>1. CASE ServiceStep
  BY <1>1, <1>a DEF VMTypeInv, Keepers, ServiceStep, ServiceStarts, ServiceFails, WorkerStop,
                    StopCallback
<1>2. CASE ConsumersEnd \/ ClientClear
  <2>1. vm' \in VMRec /\ ending' \in BOOLEAN
    BY <1>2, <1>a DEF VMTypeInv, ConsumersEnd, ClientClear
  <2> QED BY <1>2, <2>1 DEF VMTypeInv, ConsumersEnd, ClientClear
<1>3. CASE Tick
  <2>1. idle' \in 0 .. Longest
    BY <1>3 DEF Tick, VMTypeInv
  <2>2. age' \in [VMTasks -> 0 .. Longest]
    <3>1. \A j \in VMTasks : age[j] \in 0 .. Longest
      BY DEF VMTypeInv
    <3>2. age' = [j \in VMTasks |-> IF Running(j) /\ age[j] < Longest THEN age[j] + 1 ELSE age[j]]
      BY <1>3 DEF Tick
    <3> QED BY <3>1, <3>2
  <2> QED BY <1>3, <2>1, <2>2 DEF Tick, VMTypeInv
<1>4. ASSUME NEW j \in VMTasks, AddJob(j) \/ JobDone(j)
      PROVE  VMTypeInv' /\ UNCHANGED setupVars
  <2>1. 0 \in 0 .. Longest
    OBVIOUS
  <2>2. age' \in [VMTasks -> 0 .. Longest] /\ idle' \in 0 .. Longest
    BY <1>4, <2>1 DEF AddJob, JobDone, VMTypeInv
  <2> QED BY <1>4, <2>2 DEF AddJob, JobDone, VMTypeInv
<1> QED BY <1>1, <1>2, <1>3, <1>4

LEMMA KeeperType ==
  ASSUME VMTypeInv, KeeperLoop \/ KeeperStop \/ KeeperStopFails
  PROVE  VMTypeInv' /\ UNCHANGED setupVars
<1> USE DEF config, setupVars, keeperVars, usage
<1> DEFINE none == [size |-> 0, seen |-> {}]
           top == [size |-> Cardinality(Keys), seen |-> {}]
<1>0. none \in ScanRec /\ top \in ScanRec
  <2>1. 0 \in 0 .. Cardinality(VMTasks)
    BY KeysFinite, FS_CardinalityType
  <2> QED BY <2>1, KeysFinite DEF ScanRec
<1>a. ASSUME NEW j \in Keys
      PROVE  [scan EXCEPT !.seen = scan.seen \cup {j}] \in ScanRec
  BY KeysFinite DEF VMTypeInv, ScanRec
<1>1. CASE KeeperTurn \/ KeeperLen
  <2>1. scan' \in ScanRec /\ keeper' \in Keepers
    BY <1>0, <1>1 DEF KeeperTurn, KeeperLen, Keepers
  <2>2. known' \subseteq VMTasks
    BY <1>1 DEF KeeperTurn, KeeperLen, Keys, VMTypeInv
  <2> QED BY <1>1, <2>1, <2>2 DEF KeeperTurn, KeeperLen, VMTypeInv
<1>2. CASE KeeperScan
  <2>1. scan' \in ScanRec
    <3>1. scan' = none \/ \E j \in Keys : scan' = [scan EXCEPT !.seen = scan.seen \cup {j}]
      BY <1>2 DEF KeeperScan, NoScan
    <3> QED BY <3>1, <1>0, <1>a
  <2>2. jobs' \in [VMTasks -> {"none", "running", "done"}]
    <3>1. jobs' = jobs \/ \E j \in Keys : jobs' = [jobs EXCEPT ![j] = "done"]
      BY <1>2 DEF KeeperScan
    <3> QED BY <3>1, KeysFinite DEF VMTypeInv
  <2>3. keeper' \in Keepers
    BY <1>2 DEF KeeperScan, VMTypeInv, Keepers
  <2> QED BY <1>2, <2>1, <2>2, <2>3 DEF KeeperScan, VMTypeInv
<1>5. CASE KeeperAll
  <2>1. /\ \/ scan' = none
           \/ \E j \in Keys : scan' = [scan EXCEPT !.seen = scan.seen \cup {j}]
        /\ keeper' \in Keepers
    BY <1>5 DEF KeeperAll, NoScan, Keepers
  <2>2. scan' \in ScanRec
    BY <2>1, <1>0, <1>a
  <2> QED BY <1>5, <2>1, <2>2 DEF KeeperAll, VMTypeInv
<1>6. CASE KeeperDies
  BY <1>6 DEF KeeperDies, VMTypeInv, Keepers
<1>3. CASE KeeperSoft \/ KeeperHard
  <2>1. 0 \in 0 .. Longest /\ idle \in 0 .. Longest
    BY DEF VMTypeInv
  <2>2. /\ idle' \in {0, idle} /\ since' = 0 /\ keeper' \in Keepers
        /\ jobsRunning' \in BOOLEAN
    BY <1>3 DEF KeeperSoft, KeeperHard, AfterReset, Keepers
  <2> QED BY <1>3, <2>1, <2>2 DEF KeeperSoft, KeeperHard, VMTypeInv
<1>4. CASE KeeperStop \/ KeeperStopFails
  <2>1. vm' \in VMRec
    BY <1>4 DEF KeeperStop, KeeperStopFails, VMTypeInv, VMRec
  <2> QED BY <1>4, <2>1 DEF KeeperStop, KeeperStopFails, StopCallback, VMTypeInv, Keepers
<1> QED BY <1>1, <1>2, <1>3, <1>4, <1>5, <1>6 DEF KeeperLoop

LEMMA VMTypeStep ==
  ASSUME VMTypeInv, Created, [VMNext]_vmVars
  PROVE  VMTypeInv' /\ Created'
<1>1. CASE UNCHANGED vmVars
  BY <1>1 DEF vmVars, config, setupVars, keeperVars, usage, VMTypeInv, Created
<1>2. VMTypeInv' /\ UNCHANGED setupVars => VMTypeInv' /\ Created'
  BY DEF setupVars, Created
<1> QED BY <1>1, <1>2, SetupType, ServiceType, KeeperType DEF VMNext

-----------------------------------------------------------------------------
(* The set-up.                                                               *)

LEMMA SetUpStep ==
  ASSUME VMTypeInv, SetUp, [VMNext]_vmVars
  PROVE  SetUp'
<1> USE DEF config, setupVars, keeperVars, usage
<1>a. setup \in SetupRec /\ vm \in VMRec
  BY DEF VMTypeInv
<1>b. /\ \A k \in {"new", "ready", "valid"} : [vm EXCEPT !.checked = k].checked = k
      /\ [vm EXCEPT !.state = "off"].checked = vm.checked
  BY <1>a DEF VMRec
<1>c. \A p \in {"hget", "ready", "valid", "install", "hset", "ended", "failed"} :
        [setup EXCEPT !.pc = p].pc = p
  BY <1>a, SetupMoves
<1>1. CASE Save
  BY <1>1, <1>c DEF Save, SetUp
<1>2. CASE WaitReady
  <2>1. setup'.pc = "valid" /\ vm'.checked = "ready"
    BY <1>2, <1>b, <1>c DEF WaitReady
  <2> QED BY <1>2, <2>1 DEF WaitReady, SetUp
<1>3. CASE ReadyTimeout
  <2>1. setup'.pc \in {"ready", "failed"}
    <3>1. [setup EXCEPT !.ready = setup.ready + 1].pc = setup.pc
      BY <1>a DEF SetupRec
    <3> QED BY <1>3, <3>1, <1>c DEF ReadyTimeout
  <2> QED BY <1>3, <2>1 DEF ReadyTimeout, SetUp
<1>4. CASE ValidationError
  <2>1. setup'.pc \in {"ready", "failed"}
    <3>1. \/ setup' = [setup EXCEPT !.pc = "failed"]
          \/ setup' = [pc |-> "ready", ready |-> 1, valid |-> setup.valid + 1]
      BY <1>4 DEF ValidationError, AfterRecreate
    <3>2. CASE setup' = [setup EXCEPT !.pc = "failed"]
      BY <3>2, <1>c
    <3>3. CASE setup' = [pc |-> "ready", ready |-> 1, valid |-> setup.valid + 1]
      BY <3>3
    <3> QED BY <3>1, <3>2, <3>3
  <2> QED BY <1>4, <2>1 DEF ValidationError, SetUp
<1>5. CASE Validate
  <2>1. setup'.pc = "install"
    BY <1>5, <1>c DEF Validate
  <2>2. vm'.checked = "valid"
    BY <1>5, <1>b DEF Validate, SetUp
  <2> QED BY <1>5, <2>1, <2>2 DEF Validate, SetUp
<1>6. CASE Install
  BY <1>6, <1>c DEF Install, SetUp
<1>7. CASE InstallError
  BY <1>7, <1>c DEF InstallError, SetUp
<1>8. CASE SetInstalling
  BY <1>8, <1>c DEF SetInstalling, SetUp
<1>9. ASSUME UNCHANGED setup, vm'.checked = vm.checked, service # "none", service' # "none"
      PROVE  SetUp'
  BY <1>9, <1>a, VMFields DEF SetUp
<1>10. CASE ServiceStep
  <2>1. vm'.checked = vm.checked
    BY <1>10, <1>b DEF ServiceStep, ServiceStarts, ServiceFails, WorkerStop
  <2> QED BY <1>10, <2>1, <1>9 DEF ServiceStep, ServiceStarts, ServiceFails, WorkerStop
<1>11. CASE KeeperStop \/ KeeperStopFails
  <2>1. vm'.checked = vm.checked
    BY <1>11, <1>b DEF KeeperStop, KeeperStopFails
  <2>2. service # "none"
    BY <1>11 DEF KeeperStop, KeeperStopFails, SetUp
  <2> QED BY <1>11, <2>1, <2>2, <1>9 DEF KeeperStop, KeeperStopFails
<1>12. ASSUME UNCHANGED setup, vm'.checked = vm.checked, UNCHANGED service, UNCHANGED status,
              keeper = "off" => keeper' = "off"
       PROVE  SetUp'
  BY <1>12 DEF SetUp
<1>13. CASE KeeperLoop
  <2>1. /\ UNCHANGED <<config, status, vm, setupVars, service>>
        /\ keeper # "off"
    BY <1>13 DEF KeeperLoop, KeeperTurn, KeeperScan, KeeperLen, KeeperAll, KeeperDies, KeeperSoft,
                 KeeperHard
  <2>2. keeper' # "off"
    BY <1>13 DEF KeeperLoop, KeeperTurn, KeeperScan, KeeperLen, KeeperAll, KeeperDies, KeeperSoft,
                 KeeperHard
  <2> QED BY <2>1, <2>2, <1>12
<1>14. CASE ConsumersEnd \/ ClientClear \/ Tick
  <2>1. vm'.checked = vm.checked
    BY <1>14, <1>b DEF ConsumersEnd, ClientClear, Tick
  <2> QED BY <1>14, <2>1, <1>12 DEF ConsumersEnd, ClientClear, Tick
<1>15. ASSUME NEW j \in VMTasks, AddJob(j) \/ JobDone(j)
       PROVE  SetUp'
  BY <1>15, <1>12 DEF AddJob, JobDone
<1>16. CASE UNCHANGED vmVars
  BY <1>16, <1>12 DEF vmVars
<1> QED
  BY <1>1, <1>2, <1>3, <1>4, <1>5, <1>6, <1>7, <1>8, <1>10, <1>11, <1>13, <1>14, <1>15, <1>16
     DEF VMNext, SetupStep

-----------------------------------------------------------------------------
(* The keeper.                                                               *)

KeeperInv == Marked /\ Passed /\ Older /\ Timed

\* Steps that touch neither the table nor the clocks.
LEMMA KeeperIdle ==
  ASSUME VMTypeInv, KeeperInv, UNCHANGED <<jobs, doneFiles, idle, age, known>>,
         \/ UNCHANGED <<keeper, since, scan>>
         \/ keeper' \in {"off", "loop", "ended", "dead"}
  PROVE  KeeperInv'
<1>1. Keys' = Keys /\ \A j : Running(j)' <=> Running(j)
  BY DEF Running, Keys
<1>2. Marked' /\ Older'
  BY <1>1 DEF KeeperInv, Marked, Older
<1>3. Passed' /\ Timed'
  BY <1>1 DEF KeeperInv, Passed, Timed
<1> QED BY <1>2, <1>3 DEF KeeperInv

LEMMA KeeperAddJob ==
  ASSUME VMTypeInv, KeeperInv, NEW j \in VMTasks, AddJob(j)
  PROVE  KeeperInv'
<1>1. /\ jobs[j] = "none"
      /\ jobs' = [jobs EXCEPT ![j] = "running"] /\ age' = [age EXCEPT ![j] = 0]
      /\ idle' = 0 /\ UNCHANGED <<keeper, since, scan, known, doneFiles>>
  BY DEF AddJob, keeperVars
<1>2. \A i \in VMTasks : age[i] \in 0 .. Longest /\ age'[i] \in 0 .. Longest
  BY <1>1 DEF VMTypeInv
<1>3. \A i \in known : /\ i \in VMTasks /\ i # j /\ age'[i] = age[i] /\ jobs'[i] = jobs[i]
                       /\ i \in Keys'
  BY <1>1 DEF VMTypeInv, KeeperInv, Timed, Keys
<1>4. Marked' /\ Older'
  BY <1>1, <1>2 DEF KeeperInv, Marked, Older, VMTypeInv
<1>5. Passed'
  BY <1>1 DEF KeeperInv, Passed, VMTypeInv
<1>6. Timed'
  <2>1. \A i \in known : Running(i)' <=> Running(i)
    BY <1>1, <1>3 DEF Running
  <2> QED BY <1>1, <1>3, <2>1 DEF KeeperInv, Timed
<1> QED BY <1>4, <1>5, <1>6 DEF KeeperInv

LEMMA KeeperJobDone ==
  ASSUME VMTypeInv, KeeperInv, NEW j \in VMTasks, JobDone(j)
  PROVE  KeeperInv'
<1>1. /\ doneFiles' = doneFiles \cup {j} /\ age' = [age EXCEPT ![j] = 0]
      /\ UNCHANGED idle /\ UNCHANGED <<keeper, since, scan, known, jobs>>
  BY DEF JobDone, keeperVars
<1>2. Keys' = Keys /\ \A i \in VMTasks : Running(i)' => Running(i) /\ age'[i] = age[i]
  BY <1>1 DEF Running, Keys, VMTypeInv
<1>3. Marked' /\ Passed' /\ Older'
  BY <1>1, <1>2 DEF KeeperInv, Marked, Passed, Older
<1>4. Timed'
  BY <1>1, <1>2 DEF KeeperInv, Timed, VMTypeInv
<1> QED BY <1>3, <1>4 DEF KeeperInv

\* Time: the age of what runs grows with the time since the last use.
LEMMA KeeperTick ==
  ASSUME VMTypeInv, KeeperInv, Tick
  PROVE  KeeperInv'
<1>1. /\ idle < Longest /\ idle' = idle + 1
      /\ age' = [j \in VMTasks |-> IF Running(j) /\ age[j] < Longest THEN age[j] + 1 ELSE age[j]]
      /\ UNCHANGED <<keeper, since, scan, known, doneFiles, jobs>>
  BY DEF Tick, keeperVars
<1>2. Keys' = Keys /\ \A i : Running(i)' <=> Running(i)
  BY <1>1 DEF Running, Keys
<1>3. ASSUME NEW i \in VMTasks, Running(i)
      PROVE  /\ age'[i] >= age[i] /\ age[i] \in Nat /\ age'[i] \in Nat
             /\ age'[i] = Longest \/ age'[i] = age[i] + 1
  <2>1. age[i] \in 0 .. Longest
    BY DEF VMTypeInv
  <2>2. age'[i] = IF age[i] < Longest THEN age[i] + 1 ELSE age[i]
    BY <1>1, <1>3
  <2> QED BY <2>1, <2>2
<1>4. Marked' /\ Passed'
  BY <1>1 DEF KeeperInv, Marked, Passed
<1>5. Older'
  <2>1. ASSUME NEW i \in VMTasks, Running(i)
        PROVE  age'[i] >= idle'
    <3>1. age[i] >= idle /\ idle \in Nat
      BY <2>1 DEF KeeperInv, Older, VMTypeInv
    <3> QED BY <3>1, <2>1, <1>1, <1>3
  <2> QED BY <2>1, <1>2 DEF Older
<1>6. Timed'
  <2>1. ASSUME NEW i \in known, Running(i), NEW n \in Nat, age[i] >= n
        PROVE  age'[i] >= n
    <3>1. i \in VMTasks
      BY DEF VMTypeInv
    <3> QED BY <3>1, <2>1, <1>3
  <2>2. since \in Nat
    BY DEF VMTypeInv
  <2> QED BY <2>1, <2>2, <1>1, <1>2 DEF KeeperInv, Timed
<1> QED BY <1>4, <1>5, <1>6 DEF KeeperInv

\* The keeper reads the clock: what runs is at least as old as the last use.
LEMMA KeeperTurns ==
  ASSUME VMTypeInv, KeeperInv, KeeperTurn
  PROVE  KeeperInv'
<1>1. /\ since' = idle /\ known' = Keys /\ keeper' = "scan"
      /\ UNCHANGED <<jobs, doneFiles, idle, age>>
  BY DEF KeeperTurn, usage
<1>2. Keys' = Keys /\ \A i : Running(i)' <=> Running(i)
  BY <1>1 DEF Running, Keys
<1>3. Marked' /\ Passed' /\ Older'
  BY <1>1, <1>2 DEF KeeperInv, Marked, Passed, Older
<1>4. Timed'
  BY <1>1, <1>2 DEF KeeperInv, Older, Timed, Keys
<1> QED BY <1>3, <1>4 DEF KeeperInv

LEMMA KeeperScans ==
  ASSUME VMTypeInv, KeeperInv, KeeperScan
  PROVE  KeeperInv'
<1>1. /\ UNCHANGED <<since, known, doneFiles, idle, age>>
      /\ keeper = "scan" /\ keeper' \in {"scan", "len"}
      /\ \/ UNCHANGED jobs
         \/ \E j \in Keys : j \in doneFiles /\ jobs' = [jobs EXCEPT ![j] = "done"]
  BY DEF KeeperScan
<1>2. /\ \A i \in VMTasks : (jobs'[i] = "none" <=> jobs[i] = "none")
                           /\ (jobs'[i] = jobs[i] \/ i \in doneFiles)
  BY <1>1 DEF VMTypeInv, Keys
<1>3. Keys' = Keys /\ \A i \in VMTasks : Running(i)' <=> Running(i)
  BY <1>1, <1>2 DEF Running, Keys
<1>4. Marked' /\ Passed' /\ Older'
  BY <1>1, <1>2, <1>3 DEF KeeperInv, Marked, Passed, Older
<1>5. Timed'
  BY <1>1, <1>3 DEF KeeperInv, Timed, VMTypeInv
<1> QED BY <1>4, <1>5 DEF KeeperInv

LEMMA KeeperLens ==
  ASSUME VMTypeInv, KeeperInv, KeeperLen
  PROVE  KeeperInv'
<1>1. /\ UNCHANGED <<since, known, doneFiles, idle, age, jobs>>
      /\ keeper = "len" /\ keeper' \in {"all", "hard"} /\ scan'.seen = {}
  BY DEF KeeperLen, usage
<1>2. Keys' = Keys /\ \A i : Running(i)' <=> Running(i)
  BY <1>1 DEF Running, Keys
<1> QED BY <1>1, <1>2 DEF KeeperInv, Marked, Passed, Older, Timed

\* all() comes to the end only when every job of the table is marked.
LEMMA KeeperAlls ==
  ASSUME VMTypeInv, KeeperInv, KeeperAll
  PROVE  KeeperInv'
<1>1. /\ UNCHANGED <<since, known, doneFiles, idle, age, jobs>>
      /\ keeper = "all" /\ keeper' \in {"all", "soft", "hard"}
      /\ keeper' = "soft" => scan.seen = Keys
  BY DEF KeeperAll, usage, Exhausted
<1>2. Keys' = Keys /\ \A i : Running(i)' <=> Running(i)
  BY <1>1 DEF Running, Keys
<1>3. Marked' /\ Older'
  BY <1>1, <1>2 DEF KeeperInv, Marked, Older
<1>4. Passed'
  <2> SUFFICES ASSUME keeper' = "all", NEW i \in scan'.seen
               PROVE  jobs[i] = "done"
    BY <1>1 DEF Passed
  <2>1. PICK j \in Keys : GoesOn(j) /\ scan' = [scan EXCEPT !.seen = scan.seen \cup {j}]
    BY DEF KeeperAll
  <2>2. i = j \/ i \in scan.seen
    BY <2>1 DEF VMTypeInv, ScanRec
  <2> QED BY <1>1, <2>1, <2>2 DEF KeeperInv, Passed, GoesOn
<1>5. Timed'
  <2>1. ASSUME NEW i \in known, Running(i), scan.seen = Keys
        PROVE  FALSE
    <3>1. i \in VMTasks /\ i \in Keys
      BY <2>1 DEF VMTypeInv, Keys, Running
    <3>2. i \in doneFiles
      BY <3>1, <2>1, <1>1 DEF KeeperInv, Passed, Marked
    <3> QED BY <3>2, <2>1 DEF Running
  <2> QED BY <2>1, <1>1, <1>2 DEF KeeperInv, Timed
<1> QED BY <1>3, <1>4, <1>5 DEF KeeperInv

\* The keeper decides: all that ran has ended, or the last use, and with it all
\* that ran, is older than the hard timeout.
LEMMA KeeperDecides ==
  ASSUME VMTypeInv, KeeperInv, KeeperSoft \/ KeeperHard
  PROVE  KeeperInv'
<1>1. /\ keeper \in {"soft", "hard"} /\ UNCHANGED <<known, jobs, doneFiles, age>>
      /\ keeper' \in {"loop", "stop"} /\ idle' \in {0, idle}
      /\ keeper = "hard" /\ keeper' = "stop" => ~(Hard - since > 0)
  BY DEF KeeperSoft, KeeperHard, usage
<1>2. Keys' = Keys /\ \A i : Running(i)' <=> Running(i)
  BY <1>1 DEF Running, Keys
<1>3. Marked' /\ Passed'
  BY <1>1 DEF KeeperInv, Marked, Passed
<1>4. \A i \in VMTasks : age[i] \in Nat
  BY DEF VMTypeInv
<1>5. Older'
  BY <1>1, <1>2, <1>4 DEF KeeperInv, Older
<1>6. Timed'
  <2>1. ASSUME NEW i \in known, Running(i), keeper' = "stop"
        PROVE  age[i] >= Hard
    <3>1. keeper = "hard" /\ age[i] >= since /\ ~(Hard - since > 0)
      BY <2>1, <1>1 DEF KeeperInv, Timed
    <3>2. since \in Nat /\ age[i] \in Nat
      BY <1>4 DEF VMTypeInv
    <3> QED BY <3>1, <3>2
  <2> QED BY <2>1, <1>1, <1>2 DEF KeeperInv, Timed
<1> QED BY <1>3, <1>5, <1>6 DEF KeeperInv

LEMMA KeeperStarts ==
  ASSUME VMTypeInv, KeeperInv, ServiceStarts
  PROVE  KeeperInv'
<1>1. keeper' = "loop" /\ idle' = 0 /\ UNCHANGED <<jobs, doneFiles, age, known>>
  BY DEF ServiceStarts
<1>2. Keys' = Keys /\ \A i : Running(i)' <=> Running(i)
  BY <1>1 DEF Running, Keys
<1>3. \A i \in VMTasks : age[i] \in Nat
  BY DEF VMTypeInv
<1>4. Marked' /\ Older'
  BY <1>1, <1>2, <1>3 DEF KeeperInv, Marked, Older
<1>5. Passed' /\ Timed'
  BY <1>1, <1>2 DEF KeeperInv, Passed, Timed
<1> QED BY <1>4, <1>5 DEF KeeperInv

LEMMA KeeperStep ==
  ASSUME VMTypeInv, KeeperInv, [VMNext]_vmVars
  PROVE  KeeperInv'
<1> USE DEF keeperVars, usage
<1>1. CASE SetupStep
  BY <1>1, KeeperIdle DEF SetupStep, Save, WaitReady, ReadyTimeout, ValidationError, Validate,
                          Install, InstallError, SetInstalling
<1>2. CASE ServiceFails \/ WorkerStop \/ ConsumersEnd \/ ClientClear
  BY <1>2, KeeperIdle DEF ServiceFails, WorkerStop, ConsumersEnd, ClientClear
<1>3. CASE KeeperStop \/ KeeperStopFails
  BY <1>3, KeeperIdle DEF KeeperStop, KeeperStopFails
<1>5. CASE KeeperDies
  BY <1>5, KeeperIdle DEF KeeperDies
<1>4. CASE UNCHANGED vmVars
  BY <1>4, KeeperIdle DEF vmVars
<1> QED
  BY <1>1, <1>2, <1>3, <1>4, <1>5, KeeperAddJob, KeeperJobDone, KeeperTick, KeeperTurns,
     KeeperScans, KeeperLens, KeeperAlls, KeeperDecides, KeeperStarts DEF VMNext, ServiceStep, KeeperLoop

-----------------------------------------------------------------------------
(* The theorems.                                                             *)

WorkerInv == VMTypeInv /\ Created /\ SetUp /\ KeeperInv

LEMMA WorkerAlways == VMSpec => []WorkerInv
<1>1. VMInit => WorkerInv
  <2> SUFFICES ASSUME VMInit
               PROVE  WorkerInv
    OBVIOUS
  <2>1. SetUp
    BY DEF VMInit, SetUp
  <2>2. Keys = {} /\ known = {} /\ \A j \in VMTasks : ~Running(j) /\ jobs[j] = "none"
    BY DEF VMInit, Keys, Running
  <2>3. KeeperInv
    BY <2>2 DEF VMInit, KeeperInv, Marked, Passed, Older, Timed
  <2> QED BY <2>1, <2>3, VMTypeInit DEF WorkerInv
<1>2. WorkerInv /\ [VMNext]_vmVars => WorkerInv'
  BY VMTypeStep, SetUpStep, KeeperStep DEF WorkerInv
<1> QED BY <1>1, <1>2, PTL DEF VMSpec

\* The state of the worker is well formed, and the two loops of its set-up make
\* at most Retries * Retries VMs.
THEOREM VMTypeCorrect == VMSpec => []VMTypeOK
<1>1. WorkerInv => VMTypeOK
  <2> SUFFICES ASSUME WorkerInv
               PROVE  VMTypeOK
    OBVIOUS
  <2>1. setup.valid \in 1 .. Retries /\ setup.ready \in 1 .. Retries
    BY VMFields DEF WorkerInv, VMTypeInv
  <2>2. PICK v \in 1 .. Retries : v = setup.valid
    BY <2>1
  <2>3. (v - 1) * Retries <= (Retries - 1) * Retries
    BY <2>2
  <2>4. (Retries - 1) * Retries + Retries = Retries * Retries
    OBVIOUS
  <2>5. PICK n, m, r \in Int : n = (v - 1) * Retries /\ m = (Retries - 1) * Retries
                               /\ r = Retries * Retries
    BY <2>2
  <2>6. creations \in Nat /\ creations >= 1 /\ creations <= n + setup.ready
    BY <2>2, <2>5 DEF WorkerInv, VMTypeInv, Created
  <2>7. creations <= r
    BY <2>1, <2>3, <2>4, <2>5, <2>6
  <2>8. creations \in 1 .. Retries * Retries
    BY <2>5, <2>6, <2>7
  <2> QED BY <2>8 DEF WorkerInv, VMTypeInv, VMTypeOK, VMRec, SetupRec, ScanRec, Keepers
<1> QED BY <1>1, WorkerAlways, PTL

\* A VM is offered for work only when it was seen ready and validated itself,
\* whatever VMs of the same name failed before it.
THEOREM OnlyValidated == VMSpec => []StartedIsValidated
<1>1. WorkerInv => StartedIsValidated
  BY VMFields DEF WorkerInv, SetUp, StartedIsValidated, VMTypeInv
<1> QED BY <1>1, WorkerAlways, PTL

\* The keeper stops the VM under no task it knew when it read the clock and that is
\* younger than the hard timeout, however tasks come and end while it looks at
\* the table, or after it has.
THEOREM TasksGetTheirTime == VMSpec => NoJobCutShort
<1>1. WorkerInv /\ [VMNext]_vmVars
        => [KeeperStop => \A j \in known : Running(j) => age[j] >= Hard]_vmVars
  BY DEF WorkerInv, KeeperInv, Timed, KeeperStop
<1> QED BY <1>1, WorkerAlways, PTL DEF VMSpec, NoJobCutShort

=============================================================================
