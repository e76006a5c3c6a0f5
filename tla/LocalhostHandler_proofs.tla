---------------------- MODULE LocalhostHandler_proofs ----------------------
(***************************************************************************)
(* Proofs about LocalhostHandler: an open latch has no task of its job     *)
(* left, stop() leaves no process behind, for any number of jobs, tasks    *)
(* and consumer threads.                                                   *)
(***************************************************************************)
EXTENDS LocalhostHandler, FiniteSetTheorems, TLAPS

USE LocalhostAssumption

Pcs == {"idle", "run_job", "manager", "start", "finish", "drain", "stop", "join", "unlock"}
Cpcs == {"off", "get", "popen", "register", "wait", "unlock"}
Mpcs == {"off", "list", "wait", "test", "progress", "reset", "dead"}
ProcStates == {"none", "running", "wrote", "ended", "killed"}

\* TypeOK, but for the latches, which stay above 0 by the invariant below.
TypeInv ==
    /\ pc \in Pcs
    /\ jobs \in 0 .. NumJobs /\ latch \in [Job -> Int]
    /\ invocation_in_progress \in BOOLEAN /\ job_manager \in BOOLEAN
    /\ consumer_threads \in BOOLEAN
    /\ work_queue \in Seq(Task \cup {None})
    /\ keys \subseteq Job /\ to_stop \subseteq keys /\ again \in BOOLEAN
    /\ to_kill \subseteq Task
    /\ cpc \in [Consumer -> Cpcs]
    /\ task \in [Consumer -> Task \cup {None}]
    /\ proc \in [Task -> ProcStates]
    /\ task_processes \subseteq Task
    /\ mpc \in Mpcs
    /\ seen \in 0 .. NumJobs
    /\ clears \in 0 .. MaxClears

\* What the place of the client thread says of the rest.
Client ==
    /\ pc = "run_job" => jobs < NumJobs
    /\ pc # "stop" => to_stop = {} /\ to_kill = {}
    /\ pc = "unlock" => ~consumer_threads

\* A thread that was joined is at its end; one that has a task is working on it.
Threads ==
    /\ ~consumer_threads => \A w \in Consumer : cpc[w] = "off"
    /\ \A w \in Consumer : task[w] = None <=> cpc[w] \in {"off", "get"}

\* A process that runs has a consumer that waits for it, or is about to.
Processes ==
    \A t \in Task : proc[t] \in {"running", "wrote"} =>
        \E w \in Consumer : task[w] = t /\ cpc[w] \in {"register", "wait"}

\* A task is queued once or in the hands of one consumer, and not both, and only
\* when its job was invoked.
Queued(t) == \E k \in DOMAIN work_queue : work_queue[k] = t
InHand(t) == \E w \in Consumer : task[w] = t
Once ==
    /\ \A k, l \in DOMAIN work_queue :
           work_queue[k] = work_queue[l] /\ work_queue[k] # None => k = l
    /\ \A w, v \in Consumer : task[w] = task[v] /\ task[w] # None => w = v
    /\ \A w \in Consumer : task[w] # None => ~Queued(task[w])
Invoked == \A t \in Task : Queued(t) \/ InHand(t) => t[1] <= jobs

\* From its last Drain on, clear() keeps the queue free of tasks.
Drained ==
    pc \in {"stop", "join", "unlock"} =>
        \A k \in DOMAIN work_queue : work_queue[k] = None

-----------------------------------------------------------------------------
(* The queue, as a list.                                                     *)

LEMMA QueueTail ==
  ASSUME NEW S, NEW q \in Seq(S), q # <<>>
  PROVE  /\ Tail(q) \in Seq(S) /\ Head(q) \in S
         /\ 1 \in DOMAIN q /\ Head(q) = q[1]
         /\ \A k \in DOMAIN Tail(q) : k # 0 /\ k + 1 \in DOMAIN q /\ Tail(q)[k] = q[k + 1]
<1> DEFINE n == Tail(q)
<1>1. /\ n \in Seq(S) /\ Len(q) \in Nat \ {0}
      /\ DOMAIN n = 1 .. Len(q) - 1 /\ DOMAIN q = 1 .. Len(q)
      /\ Head(q) = q[1] /\ \A i \in 1 .. Len(q) - 1 : n[i] = q[i + 1]
  OBVIOUS
<1> HIDE DEF n
<1>2. \A k \in 1 .. Len(q) - 1 : k # 0 /\ k + 1 \in 1 .. Len(q)
  BY <1>1
<1>3. 1 \in DOMAIN q /\ q[1] \in S
  BY <1>1
<1> QED BY <1>1, <1>2, <1>3 DEF n

LEMMA QueueConcat ==
  ASSUME NEW S, NEW q \in Seq(S), NEW r \in Seq(S)
  PROVE  /\ q \o r \in Seq(S)
         /\ \A k \in DOMAIN (q \o r) :
              \/ k \in DOMAIN q /\ (q \o r)[k] = q[k]
              \/ \E i \in DOMAIN r : k = Len(q) + i /\ (q \o r)[k] = r[i]
<1> DEFINE n == q \o r
<1>1. /\ n \in Seq(S) /\ Len(q) \in Nat /\ Len(r) \in Nat
      /\ DOMAIN n = 1 .. Len(q) + Len(r) /\ DOMAIN q = 1 .. Len(q) /\ DOMAIN r = 1 .. Len(r)
      /\ \A k \in 1 .. Len(q) + Len(r) :
           n[k] = IF k <= Len(q) THEN q[k] ELSE r[k - Len(q)]
  OBVIOUS
<1> HIDE DEF n
<1>2. ASSUME NEW k \in DOMAIN n
      PROVE  \/ k \in DOMAIN q /\ n[k] = q[k]
             \/ \E i \in DOMAIN r : k = Len(q) + i /\ n[k] = r[i]
  <2>1. k \in Int
    BY <1>1
  <2>2. CASE k <= Len(q)
    BY <1>1, <2>2
  <2>3. CASE ~(k <= Len(q))
    <3>1. k - Len(q) \in DOMAIN r /\ k = Len(q) + (k - Len(q)) /\ n[k] = r[k - Len(q)]
      BY <1>1, <2>1, <2>3
    <3> QED BY <3>1
  <2> QED BY <2>2, <2>3
<1> QED BY <1>1, <1>2 DEF n

\* A task is a job and the number of a call of it.
LEMMA TaskShape ==
  /\ \A t \in Task : /\ t[1] \in Job /\ t # None
                     /\ t[2] \in 1 .. NumTasks[t[1]] /\ t = <<t[1], t[2]>>
  /\ \A j \in Job : \A k \in 1 .. NumTasks[j] : <<j, k>> \in Task
BY DEF Task

\* The tasks of a job, counted.
LEMMA TasksCounted ==
  ASSUME NEW j \in Job
  PROVE  /\ IsFiniteSet(TasksOf({j})) /\ Cardinality(TasksOf({j})) = NumTasks[j]
         /\ TasksOf({j}) \subseteq Task
<1>0. PICK n \in Nat \ {0} : n = NumTasks[j]
  OBVIOUS
<1>1. IsFiniteSet(1 .. n) /\ Cardinality(1 .. n) = n
  <2>1. IsFiniteSet(1 .. n) /\ Cardinality(1 .. n) = IF 1 > n THEN 0 ELSE n - 1 + 1
    BY FS_Interval
  <2> QED BY <2>1
<1>2. IsFiniteSet({j}) /\ Cardinality({j}) = 1
  BY FS_Singleton
<1>3. IsFiniteSet({j} \X (1 .. n)) /\ Cardinality({j} \X (1 .. n)) = 1 * n
  BY <1>1, <1>2, FS_Product
<1>4. TasksOf({j}) = {j} \X (1 .. n)
  <2>1. ASSUME NEW t \in TasksOf({j})
        PROVE  t \in {j} \X (1 .. n)
    BY <2>1, <1>0, TaskShape DEF TasksOf
  <2>2. ASSUME NEW t \in {j} \X (1 .. n)
        PROVE  t \in TasksOf({j})
    <3>1. t[1] = j /\ t[2] \in 1 .. NumTasks[j] /\ t = <<t[1], t[2]>>
      BY <1>0
    <3> QED BY <3>1, TaskShape DEF TasksOf
  <2> QED BY <2>1, <2>2
<1>5. 1 * n = n
  BY <1>0
<1>6. TasksOf({j}) \subseteq Task
  BY DEF TasksOf
<1> QED BY <1>0, <1>3, <1>4, <1>5, <1>6

-----------------------------------------------------------------------------
(* Type correctness.                                                         *)

LEMMA TypeInit == Init => TypeInv
<1> SUFFICES ASSUME Init
             PROVE  TypeInv
  OBVIOUS
<1> USE DEF Init
<1>1. pc \in Pcs /\ mpc \in Mpcs
  BY DEF Pcs, Mpcs
<1>2. cpc \in [Consumer -> Cpcs] /\ task \in [Consumer -> Task \cup {None}]
  BY DEF Cpcs
<1>3. proc \in [Task -> ProcStates]
  BY DEF ProcStates
<1>4. work_queue \in Seq(Task \cup {None}) /\ latch \in [Job -> Int]
  OBVIOUS
<1>5. jobs \in 0 .. NumJobs /\ seen \in 0 .. NumJobs /\ clears \in 0 .. MaxClears
  OBVIOUS
<1> QED BY <1>1, <1>2, <1>3, <1>4, <1>5 DEF TypeInv

\* A function on 1 .. m is a list.
LEMMA ListOf ==
  ASSUME NEW S, NEW m \in Nat, NEW f \in [1 .. m -> S]
  PROVE  f \in Seq(S)
OBVIOUS

\* The steps of the client thread in invoke() ...
LEMMA TypeInvoke ==
  ASSUME TypeInv, Client, Invoke \/ InvokeStep
  PROVE  TypeInv'
<1> USE DEF TypeInv, clearVars, consumerVars, processVars, managerVars
<1>1. CASE Invoke
  BY <1>1 DEF Invoke, Pcs
<1>2. CASE RunJob
  <2>1. PICK n \in Job : n = jobs + 1
    BY <1>2 DEF RunJob, Client, Job
  <2>2. jobs' = n /\ n \in 0 .. NumJobs
    BY <2>1, <1>2 DEF RunJob, Job
  <2>3. latch' \in [Job -> Int]
    <3>1. latch' = [latch EXCEPT ![n] = NumTasks[n]]
      BY <1>2, <2>2 DEF RunJob
    <3> QED BY <3>1
  <2>4. work_queue' \in Seq(Task \cup {None})
    <3>1. PICK new : new = [k \in 1 .. NumTasks[n] |-> <<n, k>>]
      OBVIOUS
    <3>2. new \in Seq(Task \cup {None})
      <4>1. \A k \in 1 .. NumTasks[n] : <<n, k>> \in Task
        BY TaskShape
      <4>2. PICK m \in Nat : m = NumTasks[n]
        OBVIOUS
      <4>3. new \in [1 .. m -> Task \cup {None}]
        BY <3>1, <4>1, <4>2
      <4> QED BY <4>3, ListOf
    <3>3. work_queue' = work_queue \o new
      BY <1>2, <2>2, <3>1 DEF RunJob
    <3> QED BY <3>2, <3>3, QueueConcat
  <2>5. pc' \in Pcs
    BY <1>2 DEF RunJob, Pcs
  <2> QED BY <1>2, <2>2, <2>3, <2>4, <2>5 DEF RunJob
<1>3. CASE StartManager
  BY <1>3 DEF StartManager, Pcs, Mpcs
<1>4. CASE StartConsumers
  BY <1>4 DEF StartConsumers, Pcs, Cpcs
<1>5. CASE FinishInvoke
  BY <1>5 DEF FinishInvoke, InProgress, Pcs
<1> QED BY <1>1, <1>2, <1>3, <1>4, <1>5 DEF InvokeStep

\* ... and in clear().
LEMMA TypeClear ==
  ASSUME TypeInv, Client, Clear \/ ClearStep
  PROVE  TypeInv'
<1> USE DEF TypeInv, clientVars, consumerVars, processVars, managerVars
<1>1. CASE Clear
  <2>1. to_stop = {} /\ to_stop' = {}
    BY <1>1 DEF Clear, Client
  <2>2. keys' \subseteq Job /\ again' \in BOOLEAN
    BY <1>1 DEF Clear, Job
  <2>3. clears' \in 0 .. MaxClears
    BY <1>1 DEF Clear
  <2> QED BY <1>1, <2>1, <2>2, <2>3 DEF Clear, Pcs
<1>2. CASE Drain
  <2>1. work_queue' \in Seq(Task \cup {None})
    <3>1. work_queue # <<>> => Tail(work_queue) \in Seq(Task \cup {None})
      BY QueueTail
    <3> QED BY <1>2, <3>1 DEF Drain
  <2> QED BY <1>2, <2>1 DEF Drain, Pcs
<1>3. ASSUME NEW j \in Job, ListProcesses(j)
      PROVE  TypeInv'
  BY <1>3 DEF ListProcesses
<1>4. ASSUME NEW t \in Task, KillProcess(t)
      PROVE  TypeInv'
  BY <1>4 DEF KillProcess, ProcStates
<1>5. CASE KillFails
  BY <1>5 DEF KillFails, Pcs
<1>6. CASE PutSentinels
  <2>1. Sentinels \in Seq(Task \cup {None})
    BY DEF Sentinels, Consumer
  <2>2. work_queue' \in Seq(Task \cup {None})
    BY <1>6, <2>1, QueueConcat DEF PutSentinels
  <2> QED BY <1>6, <2>2 DEF PutSentinels, Pcs, clearVars
<1>7. CASE JoinConsumers
  BY <1>7 DEF JoinConsumers, Pcs, clearVars
<1>8. CASE UnlockAll
  BY <1>8 DEF UnlockAll, Pcs, clearVars
<1> QED BY <1>1, <1>2, <1>3, <1>4, <1>5, <1>6, <1>7, <1>8 DEF ClearStep

\* The steps of the consumers, of the processes and of the job manager.
LEMMA TypeThreads ==
  ASSUME TypeInv, Threads,
         ManagerStep \/ (\E w \in Consumer : ConsumerStep(w))
           \/ (\E t \in Task : Write(t) \/ Exit(t))
  PROVE  TypeInv'
<1> USE DEF TypeInv, clientVars, clearVars, consumerVars, processVars, managerVars
<1>1. ASSUME NEW w \in Consumer, ConsumerStep(w)
      PROVE  TypeInv'
  <2>a. cpc[w] \notin {"off", "get"} => task[w] \in Task
    BY DEF Threads
  <2>1. CASE Get(w)
    <3>1. work_queue' \in Seq(Task \cup {None}) /\ Head(work_queue) \in Task \cup {None}
      BY <2>1, QueueTail DEF Get
    <3>2. task' \in [Consumer -> Task \cup {None}]
      BY <2>1, <3>1 DEF Get
    <3>3. cpc' \in [Consumer -> Cpcs]
      BY <2>1 DEF Get, Cpcs
    <3> QED BY <2>1, <3>1, <3>2, <3>3 DEF Get
  <2>2. CASE Popen(w)
    BY <2>2 DEF Popen, ProcStates, Cpcs
  <2>3. CASE Register(w)
    BY <2>3, <2>a DEF Register, Cpcs
  <2>4. CASE Reap(w)
    BY <2>4 DEF Reap, Cpcs
  <2>5. CASE Unlock(w)
    <3>1. PICK j \in Job : j = task[w][1]
      BY <2>5, <2>a, TaskShape DEF Unlock
    <3>2. latch' \in [Job -> Int]
      BY <2>5, <3>1 DEF Unlock
    <3>3. task' \in [Consumer -> Task \cup {None}] /\ cpc' \in [Consumer -> Cpcs]
      BY <2>5 DEF Unlock, Cpcs
    <3> QED BY <2>5, <3>2, <3>3 DEF Unlock
  <2> QED BY <1>1, <2>1, <2>2, <2>3, <2>4, <2>5 DEF ConsumerStep
<1>2. ASSUME NEW t \in Task, Write(t) \/ Exit(t)
      PROVE  TypeInv'
  BY <1>2 DEF Write, Exit, ProcStates
<1>3. CASE ManagerStep
  BY <1>3 DEF ManagerStep, ListJobs, WaitJobs, TestJobs, TestProgress, ResetManager, Mpcs
<1> QED BY <1>1, <1>2, <1>3

LEMMA TypeStep ==
  ASSUME TypeInv, Client, Threads, [Next]_vars
  PROVE  TypeInv'
<1>1. CASE UNCHANGED vars
  BY <1>1 DEF TypeInv, vars, clientVars, clearVars, consumerVars, processVars, managerVars
<1> QED BY <1>1, TypeInvoke, TypeClear, TypeThreads DEF Next

-----------------------------------------------------------------------------
(* The threads and the processes.                                            *)

LEMMA ClientStep ==
  ASSUME TypeInv, Client, [Next]_vars
  PROVE  Client'
<1> USE DEF Client
<1>1. CASE Invoke \/ InvokeStep
  BY <1>1 DEF Invoke, InvokeStep, RunJob, StartManager, StartConsumers, FinishInvoke, clearVars
<1>2. CASE Clear \/ ClearStep
  BY <1>2 DEF ClearStep, Clear, Drain, ListProcesses, KillProcess, KillFails, PutSentinels,
              JoinConsumers, UnlockAll, clientVars, clearVars
<1>3. ASSUME NEW w \in Consumer, ConsumerStep(w)
      PROVE  Client'
  BY <1>3 DEF ConsumerStep, Get, Popen, Register, Reap, Unlock, clientVars, clearVars
<1>4. CASE ManagerStep \/ \E t \in Task : Write(t) \/ Exit(t)
  BY <1>4 DEF ManagerStep, ListJobs, WaitJobs, TestJobs, TestProgress, ResetManager, Write, Exit,
              clientVars, clearVars
<1>5. CASE UNCHANGED vars
  BY <1>5 DEF vars, clientVars, clearVars
<1> QED BY <1>1, <1>2, <1>3, <1>4, <1>5 DEF Next

\* Only the consumers change their place and their task, but for env.start.
LEMMA OthersLeaveConsumers ==
  ASSUME [Next]_vars, \A w \in Consumer : ~ConsumerStep(w), ~StartConsumers
  PROVE  UNCHANGED <<cpc, task>>
<1>1. CASE Invoke \/ InvokeStep
  BY <1>1 DEF Invoke, InvokeStep, RunJob, StartManager, FinishInvoke, consumerVars
<1>2. CASE Clear \/ ClearStep
  BY <1>2 DEF ClearStep, Clear, Drain, ListProcesses, KillProcess, KillFails, PutSentinels,
              JoinConsumers, UnlockAll, consumerVars
<1>3. CASE ManagerStep \/ \E t \in Task : Write(t) \/ Exit(t)
  BY <1>3 DEF ManagerStep, ListJobs, WaitJobs, TestJobs, TestProgress, ResetManager, Write, Exit,
              consumerVars
<1>4. CASE UNCHANGED vars
  BY <1>4 DEF vars, consumerVars
<1> QED BY <1>1, <1>2, <1>3, <1>4 DEF Next

LEMMA ThreadsStep ==
  ASSUME TypeInv, Threads, [Next]_vars
  PROVE  Threads'
<1> USE DEF TypeInv
<1>1. ASSUME NEW w \in Consumer, ConsumerStep(w)
      PROVE  Threads'
  <2>1. /\ UNCHANGED consumer_threads /\ cpc[w] # "off"
        /\ \A v \in Consumer \ {w} : cpc'[v] = cpc[v] /\ task'[v] = task[v]
    BY <1>1 DEF ConsumerStep, Get, Popen, Register, Reap, Unlock, clientVars
  <2>2. task'[w] = None <=> cpc'[w] \in {"off", "get"}
    BY <1>1, <2>1 DEF Threads, ConsumerStep, Get, Popen, Register, Reap, Unlock
  <2> QED BY <2>1, <2>2 DEF Threads
<1>2. CASE StartConsumers
  BY <1>2 DEF StartConsumers, Threads
<1>3. ASSUME UNCHANGED <<cpc, task>>, ~StartConsumers
      PROVE  Threads'
  <2>1. UNCHANGED consumer_threads \/ JoinConsumers
    <3>1. Invoke \/ InvokeStep => UNCHANGED consumer_threads
      BY <1>3 DEF Invoke, InvokeStep, RunJob, StartManager, FinishInvoke
    <3>2. Clear \/ ClearStep => UNCHANGED consumer_threads \/ JoinConsumers
      BY DEF ClearStep, Clear, Drain, ListProcesses, KillProcess, KillFails, PutSentinels,
             UnlockAll, clientVars
    <3>3. ManagerStep \/ (\E t \in Task : Write(t) \/ Exit(t)) => UNCHANGED consumer_threads
      BY DEF ManagerStep, ListJobs, WaitJobs, TestJobs, TestProgress, ResetManager, Write, Exit,
             clientVars
    <3>4. (\E w \in Consumer : ConsumerStep(w)) => UNCHANGED consumer_threads
      BY DEF ConsumerStep, Get, Popen, Register, Reap, Unlock, clientVars
    <3>5. UNCHANGED vars => UNCHANGED consumer_threads
      BY DEF vars, clientVars
    <3> QED BY <3>1, <3>2, <3>3, <3>4, <3>5 DEF Next
  <2> QED BY <2>1, <1>3 DEF Threads, JoinConsumers, Joined
<1> QED BY <1>1, <1>2, <1>3, OthersLeaveConsumers

\* The states of the processes.
LEMMA ProcessesStep ==
  ASSUME TypeInv, Threads, Processes, [Next]_vars
  PROVE  Processes'
<1> USE DEF TypeInv
<1> SUFFICES ASSUME NEW t \in Task, proc'[t] \in {"running", "wrote"}
             PROVE  \E w \in Consumer : task'[w] = t /\ cpc'[w] \in {"register", "wait"}
  BY DEF Processes
<1>1. ASSUME NEW w \in Consumer, ConsumerStep(w)
      PROVE  \E v \in Consumer : task'[v] = t /\ cpc'[v] \in {"register", "wait"}
  <2>1. \A v \in Consumer \ {w} : cpc'[v] = cpc[v] /\ task'[v] = task[v]
    BY <1>1 DEF ConsumerStep, Get, Popen, Register, Reap, Unlock
  <2>2. CASE Popen(w) /\ task[w] = t
    BY <2>2 DEF Popen
  <2>3. CASE ~(Popen(w) /\ task[w] = t)
    <3>1. proc'[t] = proc[t]
      <4>1. CASE Popen(w)
        <5>1. task[w] \in Task
          BY <4>1 DEF Popen, Threads
        <5> QED BY <4>1, <5>1, <2>3 DEF Popen
      <4>2. CASE ~Popen(w)
        BY <4>2, <1>1 DEF ConsumerStep, Get, Register, Reap, Unlock, processVars
      <4> QED BY <4>1, <4>2
    <3>2. PICK v \in Consumer : task[v] = t /\ cpc[v] \in {"register", "wait"}
      BY <3>1 DEF Processes
    <3>3. CASE v # w
      BY <3>2, <3>3, <2>1
    <3>4. CASE v = w
      <4>1. ~Reap(w)
        BY <3>1, <3>2, <3>4 DEF Reap
      <4>2. Register(w)
        BY <4>1, <3>2, <3>4, <1>1 DEF ConsumerStep, Get, Popen, Unlock
      <4> QED BY <4>2, <3>2, <3>4 DEF Register
    <3> QED BY <3>3, <3>4
  <2> QED BY <2>2, <2>3
<1>2. ASSUME \A w \in Consumer : ~ConsumerStep(w)
      PROVE  proc[t] \in {"running", "wrote"}
  <2>1. CASE Invoke \/ InvokeStep
    BY <2>1 DEF Invoke, InvokeStep, RunJob, StartManager, StartConsumers, FinishInvoke, processVars
  <2>2. CASE Clear \/ ClearStep
    BY <2>2 DEF ClearStep, Clear, Drain, ListProcesses, KillProcess, KillFails, PutSentinels,
                JoinConsumers, UnlockAll, processVars
  <2>3. CASE ManagerStep \/ \E u \in Task : Write(u) \/ Exit(u)
    BY <2>3 DEF ManagerStep, ListJobs, WaitJobs, TestJobs, TestProgress, ResetManager, Write, Exit,
                processVars
  <2>4. CASE UNCHANGED vars
    BY <2>4 DEF vars, processVars
  <2> QED BY <2>1, <2>2, <2>3, <2>4, <1>2 DEF Next
<1>3. CASE StartConsumers
  <2>1. consumer_threads
    <3>1. UNCHANGED proc
      BY <1>3 DEF StartConsumers, processVars
    <3> QED BY <3>1 DEF Processes, Threads
  <2>2. UNCHANGED <<cpc, task, proc>>
    BY <1>3, <2>1 DEF StartConsumers, processVars
  <2> QED BY <2>2 DEF Processes
<1>4. ASSUME \A w \in Consumer : ~ConsumerStep(w), ~StartConsumers
      PROVE  \E v \in Consumer : task'[v] = t /\ cpc'[v] \in {"register", "wait"}
  BY <1>2, <1>4, OthersLeaveConsumers DEF Processes
<1> QED BY <1>1, <1>3, <1>4

-----------------------------------------------------------------------------
(* The places of the tasks, and the latches.                                 *)

Placed == Once /\ Invoked /\ Drained
Left(t) == Queued(t) \/ InHand(t)

LEMMA UnfinishedCounted ==
  ASSUME NEW j \in Job
  PROVE  /\ IsFiniteSet(Unfinished(j)) /\ Cardinality(Unfinished(j)) \in Nat
         /\ Cardinality(Unfinished(j)) <= NumTasks[j]
         /\ Unfinished(j) = {t \in TasksOf({j}) : Left(t)}
<1>1. Unfinished(j) = {t \in TasksOf({j}) : Left(t)}
  BY DEF Unfinished, Left, Queued, InHand
<1>2. PICK U : U = Unfinished(j)
  OBVIOUS
<1>3. U \subseteq TasksOf({j})
  BY <1>1, <1>2
<1>4. IsFiniteSet(U) /\ Cardinality(U) \in Nat /\ Cardinality(U) <= Cardinality(TasksOf({j}))
  BY <1>3, TasksCounted, FS_Subset, FS_CardinalityType
<1> QED BY <1>1, <1>2, <1>4, TasksCounted

\* A job none of whose tasks came to the queue has no more tasks left.
LEMMA LatchKept ==
  ASSUME LatchCoversTasks, latch \in [Job -> Int], NEW j \in Job, latch'[j] = latch[j],
         \A t \in TasksOf({j}) : Left(t)' => Left(t)
  PROVE  latch'[j] >= Cardinality(Unfinished(j)')
<1>1. PICK V : V = Unfinished(j)'
  OBVIOUS
<1>2. V \subseteq Unfinished(j)
  <2>1. V = {t \in TasksOf({j}) : Left(t)'}
    BY <1>1 DEF Unfinished, Left, Queued, InHand
  <2> QED BY <2>1, UnfinishedCounted
<1>3. Cardinality(V) <= Cardinality(Unfinished(j)) /\ Cardinality(V) \in Nat
  BY <1>2, UnfinishedCounted, FS_Subset, FS_CardinalityType
<1>4. latch[j] >= Cardinality(Unfinished(j)) /\ Cardinality(Unfinished(j)) \in Nat
        /\ latch[j] \in Int
  BY UnfinishedCounted DEF LatchCoversTasks
<1> QED BY <1>1, <1>3, <1>4

\* A new job.
LEMMA PlacedRunJob ==
  ASSUME TypeInv, Client, Placed, LatchCoversTasks, RunJob
  PROVE  Placed' /\ LatchCoversTasks'
<1>1. PICK n \in Job : n = jobs + 1
  BY DEF RunJob, Client, TypeInv, Job
<1>2. PICK new : new = [k \in 1 .. NumTasks[n] |-> <<n, k>>]
  OBVIOUS
<1>3. /\ jobs' = n /\ latch' = [latch EXCEPT ![n] = NumTasks[n]]
      /\ work_queue' = work_queue \o new /\ pc' = "manager" /\ UNCHANGED task
  BY <1>1, <1>2 DEF RunJob, consumerVars
<1>4. new \in Seq(Task \cup {None}) /\ DOMAIN new = 1 .. NumTasks[n]
  <2>1. \A k \in 1 .. NumTasks[n] : <<n, k>> \in Task
    BY TaskShape
  <2> QED BY <1>2, <2>1
<1>5. \A k \in DOMAIN work_queue' :
        \/ k \in DOMAIN work_queue /\ work_queue'[k] = work_queue[k]
        \/ \E i \in 1 .. NumTasks[n] : k = Len(work_queue) + i /\ work_queue'[k] = <<n, i>>
  <2>1. \A k \in DOMAIN work_queue' :
        \/ k \in DOMAIN work_queue /\ work_queue'[k] = work_queue[k]
        \/ \E i \in DOMAIN new : k = Len(work_queue) + i /\ work_queue'[k] = new[i]
    BY <1>3, <1>4, QueueConcat DEF TypeInv
  <2> QED BY <2>1, <1>2, <1>4
<1>6. \A i \in 1 .. NumTasks[n] : ~Queued(<<n, i>>) /\ ~InHand(<<n, i>>)
  <2>1. ~(n <= jobs)
    BY <1>1 DEF TypeInv
  <2> QED BY <2>1, TaskShape DEF Placed, Invoked
<1>7. \A t : InHand(t)' <=> InHand(t)
  BY <1>3 DEF InHand
<1>8. \A t : Queued(t)' => Queued(t) \/ \E i \in 1 .. NumTasks[n] : t = <<n, i>>
  BY <1>5 DEF Queued
<1>9. Once'
  <2>1. ASSUME NEW k \in DOMAIN work_queue', NEW l \in DOMAIN work_queue',
               work_queue'[k] = work_queue'[l], work_queue'[k] # None
        PROVE  k = l
    <3>1. CASE k \in DOMAIN work_queue /\ work_queue'[k] = work_queue[k]
      <4>1. CASE l \in DOMAIN work_queue /\ work_queue'[l] = work_queue[l]
        BY <2>1, <3>1, <4>1 DEF Placed, Once
      <4>2. CASE \E i \in 1 .. NumTasks[n] : work_queue'[l] = <<n, i>>
        BY <2>1, <3>1, <4>2, <1>6 DEF Queued
      <4> QED BY <4>1, <4>2, <1>5
    <3>2. ASSUME NEW i \in 1 .. NumTasks[n], k = Len(work_queue) + i, work_queue'[k] = <<n, i>>
          PROVE  k = l
      <4>1. CASE l \in DOMAIN work_queue /\ work_queue'[l] = work_queue[l]
        BY <2>1, <3>2, <4>1, <1>6 DEF Queued
      <4>2. ASSUME NEW m \in 1 .. NumTasks[n], l = Len(work_queue) + m, work_queue'[l] = <<n, m>>
            PROVE  k = l
        <5>1. <<n, i>> = <<n, m>>
          BY <2>1, <3>2, <4>2
        <5>2. i = m
          BY <5>1
        <5> QED BY <5>2, <3>2, <4>2
      <4> QED BY <4>1, <4>2, <1>5
    <3> QED BY <3>1, <3>2, <1>5
  <2>2. \A w, v \in Consumer : task'[w] = task'[v] /\ task'[w] # None => w = v
    BY <1>3 DEF Placed, Once
  <2>3. ASSUME NEW w \in Consumer, task'[w] # None
        PROVE  ~Queued(task[w])'
    <3>1. ~Queued(task[w]) /\ InHand(task[w]) /\ task'[w] = task[w]
      BY <2>3, <1>3 DEF Placed, Once, InHand
    <3>2. PICK u : u = task[w] /\ u = task'[w]
      BY <3>1
    <3>3. ~Queued(u)'
      BY <3>1, <3>2, <1>6, <1>8
    <3> QED BY <3>2, <3>3
  <2> QED BY <2>1, <2>2, <2>3 DEF Once
<1>10. Invoked'
  <2>1. ASSUME NEW t \in Task, Queued(t)' \/ InHand(t)'
        PROVE  t[1] <= n
    <3>1. jobs \in Nat /\ n = jobs + 1 /\ t[1] \in Nat
      BY <1>1, TaskShape DEF TypeInv, Job
    <3>2. CASE Queued(t) \/ InHand(t)
      BY <3>1, <3>2 DEF Placed, Invoked
    <3>3. CASE \E i \in 1 .. NumTasks[n] : t = <<n, i>>
      BY <3>1, <3>3
    <3> QED BY <3>2, <3>3, <2>1, <1>7, <1>8
  <2> QED BY <2>1, <1>3 DEF Invoked
<1>11. Drained'
  BY <1>3 DEF Drained
<1>12. ASSUME NEW j \in Job
       PROVE  latch'[j] >= Cardinality(Unfinished(j)')
  <2>1. CASE j = n
    <3>1. PICK V : V = Unfinished(j)'
      OBVIOUS
    <3>2. V \subseteq TasksOf({j})
      BY <3>1 DEF Unfinished
    <3>3. Cardinality(V) <= NumTasks[j] /\ Cardinality(V) \in Nat
      <4>1. PICK T : T = TasksOf({j})
        OBVIOUS
      <4>2. IsFiniteSet(T) /\ Cardinality(T) = NumTasks[j]
        BY <4>1, TasksCounted
      <4>3. V \subseteq T
        BY <3>2, <4>1
      <4> HIDE <4>1
      <4> QED BY <4>2, <4>3, FS_Subset, FS_CardinalityType
    <3>4. latch'[j] = NumTasks[j] /\ NumTasks[j] \in Nat
      BY <2>1, <1>3 DEF TypeInv
    <3> QED BY <3>1, <3>3, <3>4
  <2>2. CASE j # n
    <3>1. latch'[j] = latch[j] /\ latch \in [Job -> Int]
      BY <2>2, <1>3 DEF TypeInv
    <3>2. \A t \in TasksOf({j}) : Left(t)' => Left(t)
      BY <2>2, <1>7, <1>8 DEF Left, TasksOf
    <3> QED BY <3>1, <3>2, LatchKept
  <2> QED BY <2>1, <2>2
<1> QED BY <1>9, <1>10, <1>11, <1>12 DEF Placed, LatchCoversTasks

\* The head of the queue is dropped, or taken by a consumer.
LEMMA PlacedTail ==
  ASSUME TypeInv, Placed, LatchCoversTasks, work_queue # <<>>,
         work_queue' = Tail(work_queue), UNCHANGED <<pc, jobs, latch>>,
         \/ UNCHANGED task
         \/ \E w \in Consumer : task[w] = None /\ task' = [task EXCEPT ![w] = Head(work_queue)]
  PROVE  Placed' /\ LatchCoversTasks'
<1>1. /\ 1 \in DOMAIN work_queue /\ Head(work_queue) = work_queue[1]
      /\ \A k \in DOMAIN work_queue' :
           k # 0 /\ k + 1 \in DOMAIN work_queue /\ work_queue'[k] = work_queue[k + 1]
      /\ DOMAIN work_queue' \subseteq Nat
  <2>1. DOMAIN work_queue' \subseteq Nat
    <3>1. work_queue' \in Seq(Task \cup {None})
      BY QueueTail DEF TypeInv
    <3> QED BY <3>1
  <2> QED BY <2>1, QueueTail DEF TypeInv
<1>2. \A t : Queued(t)' => Queued(t)
  BY <1>1 DEF Queued
<1>3. work_queue[1] # None => \A k \in DOMAIN work_queue' : work_queue'[k] # work_queue[1]
  <2>1. ASSUME work_queue[1] # None, NEW k \in DOMAIN work_queue',
               work_queue'[k] = work_queue[1]
        PROVE  FALSE
    <3>1. k + 1 = 1 /\ k \in Nat /\ k # 0
      BY <2>1, <1>1 DEF Placed, Once
    <3> QED BY <3>1
  <2> QED BY <2>1
<1>4. \A k, l \in DOMAIN work_queue' :
        work_queue'[k] = work_queue'[l] /\ work_queue'[k] # None => k = l
  <2>1. ASSUME NEW k \in DOMAIN work_queue', NEW l \in DOMAIN work_queue',
               work_queue'[k] = work_queue'[l], work_queue'[k] # None
        PROVE  k = l
    <3>1. k + 1 = l + 1 /\ k \in Nat /\ l \in Nat
      BY <2>1, <1>1 DEF Placed, Once
    <3> QED BY <3>1
  <2> QED BY <2>1
<1>5. \A t : InHand(t)' => InHand(t) \/ Queued(t)
  BY <1>1 DEF InHand, Queued, TypeInv
<1>6. Once'
  <2>1. CASE UNCHANGED task
    <3>1. \A w \in Consumer : task'[w] # None =>
            \A k \in DOMAIN work_queue' : work_queue'[k] # task'[w]
      BY <2>1, <1>1 DEF Placed, Once, Queued
    <3> QED BY <2>1, <3>1, <1>4 DEF Placed, Once, Queued
  <2>2. ASSUME NEW w \in Consumer, task[w] = None,
               task' = [task EXCEPT ![w] = Head(work_queue)]
        PROVE  Once'
    <3>1. task'[w] = work_queue[1] /\ \A v \in Consumer \ {w} : task'[v] = task[v]
      BY <2>2, <1>1 DEF TypeInv
    <3>2. ASSUME NEW v \in Consumer, NEW x \in Consumer, task'[v] = task'[x], task'[v] # None
          PROVE  v = x
      <4>1. \A y \in Consumer : task[y] = work_queue[1] => task[y] = None
        BY <1>1 DEF Placed, Once, Queued
      <4> QED BY <3>1, <3>2, <4>1 DEF Placed, Once
    <3>3. ASSUME NEW v \in Consumer, task'[v] # None
          PROVE  \A k \in DOMAIN work_queue' : work_queue'[k] # task'[v]
      <4>1. CASE v = w
        BY <3>1, <3>3, <4>1, <1>3
      <4>2. CASE v # w
        BY <3>1, <3>3, <4>2, <1>1 DEF Placed, Once, Queued
      <4> QED BY <4>1, <4>2
    <3> QED BY <3>2, <3>3, <1>4 DEF Once, Queued
  <2> QED BY <2>1, <2>2
<1>7. Invoked'
  BY <1>2, <1>5 DEF Placed, Invoked
<1>8. Drained'
  BY <1>1 DEF Placed, Drained
<1>9. \A j \in Job : latch'[j] >= Cardinality(Unfinished(j)')
  <2>1. \A t : Left(t)' => Left(t)
    BY <1>2, <1>5 DEF Left
  <2> QED BY <2>1, LatchKept DEF TypeInv
<1> QED BY <1>6, <1>7, <1>8, <1>9 DEF Placed, LatchCoversTasks

\* The Nones are no tasks.
LEMMA PlacedSentinels ==
  ASSUME TypeInv, Placed, LatchCoversTasks, PutSentinels
  PROVE  Placed' /\ LatchCoversTasks'
<1>1. Sentinels \in Seq(Task \cup {None}) /\ \A i \in DOMAIN Sentinels : Sentinels[i] = None
  BY DEF Sentinels, Consumer
<1>2. /\ work_queue' = work_queue \o Sentinels /\ pc' = "join" /\ pc = "stop"
      /\ UNCHANGED <<jobs, latch, task>>
  BY DEF PutSentinels, consumerVars
<1>3. \A k \in DOMAIN work_queue' :
        \/ k \in DOMAIN work_queue /\ work_queue'[k] = work_queue[k]
        \/ work_queue'[k] = None
  BY <1>1, <1>2, QueueConcat DEF TypeInv
<1>4. \A t : t # None => (Queued(t)' => Queued(t)) /\ (InHand(t)' => InHand(t))
  BY <1>2, <1>3 DEF Queued, InHand
<1>5. Once'
  <2>1. \A k, l \in DOMAIN work_queue' :
          work_queue'[k] = work_queue'[l] /\ work_queue'[k] # None => k = l
    BY <1>3 DEF Placed, Once
  <2>2. \A w \in Consumer : task'[w] # None =>
          \A k \in DOMAIN work_queue' : work_queue'[k] # task'[w]
    BY <1>2, <1>3 DEF Placed, Once, Queued
  <2> QED BY <2>1, <2>2, <1>2 DEF Placed, Once, Queued
<1>6. Invoked'
  BY <1>2, <1>4, TaskShape DEF Placed, Invoked
<1>7. Drained'
  BY <1>2, <1>3 DEF Placed, Drained
<1>8. \A j \in Job : latch'[j] >= Cardinality(Unfinished(j)')
  <2>1. \A j \in Job : \A t \in TasksOf({j}) : Left(t)' => Left(t)
    BY <1>4, TaskShape DEF Left, TasksOf
  <2> QED BY <2>1, <1>2, LatchKept DEF TypeInv
<1> QED BY <1>5, <1>6, <1>7, <1>8 DEF Placed, LatchCoversTasks

\* A consumer that is done with its task counts the latch down by one, and one
\* task less is left.
LEMMA PlacedUnlock ==
  ASSUME TypeInv, Threads, Placed, LatchCoversTasks, NEW w \in Consumer, Unlock(w)
  PROVE  Placed' /\ LatchCoversTasks'
<1>1. PICK t \in Task : t = task[w]
  BY DEF TypeInv, Threads, Unlock
<1>2. t[1] \in Job /\ t # None
  BY TaskShape
<1>3. /\ latch' = [latch EXCEPT ![t[1]] = latch[t[1]] - 1]
      /\ task' = [task EXCEPT ![w] = None]
      /\ UNCHANGED work_queue /\ UNCHANGED pc /\ UNCHANGED jobs
  BY <1>1 DEF Unlock, clientVars
<1>4. task'[w] = None /\ \A v \in Consumer \ {w} : task'[v] = task[v]
  BY <1>3 DEF TypeInv
<1>5. \A u : Queued(u)' <=> Queued(u)
  BY <1>3 DEF Queued
<1>6. \A u : u # None => (InHand(u)' <=> InHand(u) /\ u # t)
  BY <1>1, <1>2, <1>4 DEF InHand, Placed, Once
<1>7. Once'
  <2>1. \A k, l \in DOMAIN work_queue' :
          work_queue'[k] = work_queue'[l] /\ work_queue'[k] # None => k = l
    BY <1>3 DEF Placed, Once
  <2>2. \A v, x \in Consumer : task'[v] = task'[x] /\ task'[v] # None => v = x
    BY <1>4 DEF Placed, Once
  <2>3. \A v \in Consumer : task'[v] # None =>
          \A k \in DOMAIN work_queue' : work_queue'[k] # task'[v]
    BY <1>3, <1>4 DEF Placed, Once, Queued
  <2> QED BY <2>1, <2>2, <2>3 DEF Once, Queued
<1>8. Invoked'
  BY <1>3, <1>5, <1>6, TaskShape DEF Placed, Invoked
<1>9. Drained'
  BY <1>3 DEF Placed, Drained
<1>10. ASSUME NEW j \in Job
       PROVE  latch'[j] >= Cardinality(Unfinished(j)')
  <2>1. CASE j # t[1]
    <3>1. latch'[j] = latch[j] /\ latch \in [Job -> Int]
      BY <2>1, <1>2, <1>3 DEF TypeInv
    <3>2. \A u \in TasksOf({j}) : Left(u)' => Left(u)
      BY <1>5, <1>6, TaskShape DEF Left, TasksOf
    <3> QED BY <3>1, <3>2, LatchKept
  <2>2. CASE j = t[1]
    <3>1. PICK U, V : U = Unfinished(j) /\ V = Unfinished(j)'
      OBVIOUS
    <3>2. U = {u \in TasksOf({j}) : Left(u)} /\ V = {u \in TasksOf({j}) : Left(u)'}
      BY <3>1, UnfinishedCounted DEF Unfinished, Left, Queued, InHand
    <3>3. \A u \in TasksOf({j}) : Left(u)' <=> Left(u) /\ u # t
      <4>1. ~Queued(t)
        BY <1>1, <1>2 DEF Placed, Once
      <4> QED BY <4>1, <1>5, <1>6, TaskShape DEF Left, TasksOf
    <3>4. V = U \ {t} /\ t \in U
      <4>1. t \in TasksOf({j}) /\ Left(t)
        BY <2>2, <1>1 DEF TasksOf, Left, InHand
      <4> QED BY <3>2, <3>3, <4>1
    <3>5. IsFiniteSet(U) /\ Cardinality(U) \in Nat
      BY <3>1, UnfinishedCounted
    <3>6. Cardinality(V) = Cardinality(U) - 1
      BY <3>4, <3>5, FS_RemoveElement
    <3>7. latch[j] >= Cardinality(U) /\ latch[j] \in Int /\ latch'[j] = latch[j] - 1
      BY <3>1, <2>2, <1>3 DEF LatchCoversTasks, TypeInv
    <3> QED BY <3>1, <3>5, <3>6, <3>7
  <2> QED BY <2>1, <2>2
<1> QED BY <1>7, <1>8, <1>9, <1>10 DEF Placed, LatchCoversTasks

\* clear() opens every latch when all threads are joined and the queue was
\* drained: no task is left to count one down.
LEMMA PlacedUnlockAll ==
  ASSUME TypeInv, Client, Threads, Placed, UnlockAll
  PROVE  Placed' /\ LatchCoversTasks'
<1>1. /\ pc = "unlock" /\ pc' = "idle" /\ latch' = [j \in Job |-> 0]
      /\ UNCHANGED work_queue /\ UNCHANGED task /\ UNCHANGED jobs
  BY DEF UnlockAll, consumerVars
<1>2. /\ \A w \in Consumer : task[w] = None
      /\ \A k \in DOMAIN work_queue : work_queue[k] = None
  BY <1>1 DEF Client, Threads, Placed, Drained
<1>3. Placed'
  BY <1>1 DEF Placed, Once, Invoked, Drained, Queued, InHand
<1>4. ASSUME NEW j \in Job
      PROVE  latch'[j] >= Cardinality(Unfinished(j)')
  <2>1. PICK V : V = Unfinished(j)'
    OBVIOUS
  <2>2. \A t \in Task : t \notin V
    BY <2>1, <1>1, <1>2, TaskShape DEF Unfinished
  <2>3. V \subseteq Task
    BY <2>1 DEF Unfinished, TasksOf
  <2>4. V = {} /\ latch'[j] = 0
    BY <2>2, <2>3, <1>1
  <2> QED BY <2>1, <2>4, FS_EmptySet
<1> QED BY <1>3, <1>4 DEF LatchCoversTasks

LEMMA PlacedStep ==
  ASSUME TypeInv, Client, Threads, Placed, LatchCoversTasks, [Next]_vars
  PROVE  Placed' /\ LatchCoversTasks'
<1>1. ASSUME UNCHANGED <<work_queue, task, latch, jobs>>,
             \/ pc' = pc \/ pc' \notin {"stop", "join", "unlock"}
             \/ pc \in {"stop", "join", "unlock"}
             \/ work_queue = <<>>
      PROVE  Placed' /\ LatchCoversTasks'
  <2>1. \A t : Left(t)' <=> Left(t)
    BY <1>1 DEF Left, Queued, InHand
  <2>2. Once' /\ Invoked'
    BY <1>1 DEF Placed, Once, Invoked, Queued, InHand
  <2>3. Drained'
    BY <1>1 DEF Placed, Drained
  <2>4. \A j \in Job : latch'[j] >= Cardinality(Unfinished(j)')
    BY <1>1, <2>1, LatchKept DEF TypeInv
  <2> QED BY <2>2, <2>3, <2>4 DEF Placed, LatchCoversTasks
<1>2. CASE Invoke \/ StartManager \/ StartConsumers \/ FinishInvoke \/ Clear
  BY <1>1, <1>2 DEF Invoke, StartManager, StartConsumers, FinishInvoke, Clear, consumerVars
<1>3. CASE Drain
  <2>1. CASE work_queue = <<>>
    BY <1>1, <1>3, <2>1 DEF Drain, consumerVars
  <2>2. CASE work_queue # <<>>
    BY <1>3, <2>2, PlacedTail DEF Drain, consumerVars
  <2> QED BY <2>1, <2>2
<1>4. CASE JoinConsumers \/ KillFails \/ (\E j \in Job : ListProcesses(j))
             \/ (\E t \in Task : KillProcess(t))
  BY <1>1, <1>4 DEF JoinConsumers, KillFails, ListProcesses, KillProcess, clientVars, consumerVars
<1>5. ASSUME NEW w \in Consumer, ConsumerStep(w)
      PROVE  Placed' /\ LatchCoversTasks'
  <2>1. CASE Get(w)
    BY <2>1, PlacedTail DEF Get, Threads, clientVars
  <2>2. CASE Popen(w) \/ Register(w) \/ Reap(w)
    BY <1>1, <2>2 DEF Popen, Register, Reap, clientVars
  <2> QED BY <1>5, <2>1, <2>2, PlacedUnlock DEF ConsumerStep
<1>6. CASE ManagerStep \/ \E t \in Task : Write(t) \/ Exit(t)
  BY <1>1, <1>6 DEF ManagerStep, ListJobs, WaitJobs, TestJobs, TestProgress, ResetManager, Write,
                    Exit, clientVars, consumerVars
<1>7. CASE UNCHANGED vars
  BY <1>1, <1>7 DEF vars, clientVars, consumerVars
<1> QED
  BY <1>2, <1>3, <1>4, <1>5, <1>6, <1>7, PlacedRunJob, PlacedSentinels, PlacedUnlockAll
     DEF Next, InvokeStep, ClearStep

-----------------------------------------------------------------------------
(* The theorems.                                                             *)

HandlerInv ==
  TypeInv /\ Client /\ Threads /\ Processes /\ Placed /\ LatchCoversTasks

LEMMA HandlerInit == Init => HandlerInv
<1> SUFFICES ASSUME Init
             PROVE  HandlerInv
  OBVIOUS
<1>1. TypeInv
  BY TypeInit
<1>2. /\ work_queue = <<>> /\ jobs = 0 /\ pc = "idle" /\ to_stop = {} /\ to_kill = {}
      /\ \A w \in Consumer : cpc[w] = "off" /\ task[w] = None
      /\ \A t \in Task : proc[t] = "none"
      /\ \A j \in Job : latch[j] = 0
  BY DEF Init
<1>3. Client /\ Threads /\ Processes
  BY <1>2 DEF Client, Threads, Processes
<1>4. \A t \in Task : ~Queued(t) /\ ~InHand(t)
  BY <1>2, TaskShape DEF Queued, InHand
<1>5. Placed
  BY <1>2, <1>4 DEF Placed, Once, Invoked, Drained
<1>6. ASSUME NEW j \in Job
      PROVE  latch[j] >= Cardinality(Unfinished(j))
  <2>1. Unfinished(j) = {}
    BY <1>4, UnfinishedCounted, TasksCounted DEF Left
  <2> QED BY <2>1, <1>2, FS_EmptySet
<1> QED BY <1>1, <1>3, <1>5, <1>6 DEF HandlerInv, LatchCoversTasks

LEMMA HandlerAlways == Spec => []HandlerInv
<1>1. HandlerInv /\ [Next]_vars => HandlerInv'
  BY TypeStep, ClientStep, ThreadsStep, ProcessesStep, PlacedStep DEF HandlerInv
<1> QED BY <1>1, HandlerInit, PTL DEF Spec

\* The variables of the handler have their types; no latch is counted below 0.
THEOREM TypeCorrect == Spec => []TypeOK
<1>1. HandlerInv => TypeOK
  <2> SUFFICES ASSUME HandlerInv
               PROVE  TypeOK
    OBVIOUS
  <2>1. latch \in [Job -> Nat]
    <3>1. \A j \in Job : latch[j] \in Int /\ latch[j] >= Cardinality(Unfinished(j))
      BY DEF HandlerInv, LatchCoversTasks, TypeInv
    <3>2. ASSUME NEW j \in Job
          PROVE  latch[j] \in Nat
      <4>1. PICK n \in Nat : n = Cardinality(Unfinished(j))
        BY UnfinishedCounted
      <4>2. latch[j] \in Int /\ latch[j] >= n
        BY <3>1, <4>1
      <4> QED BY <4>2
    <3> QED BY <3>2 DEF HandlerInv, TypeInv
  <2> QED BY <2>1 DEF HandlerInv, TypeInv, TypeOK, Pcs, Cpcs, Mpcs, ProcStates
<1> QED BY <1>1, HandlerAlways, PTL

\* A latch that is open has nothing of its job queued or running, however the
\* consumers, invoke() and clear(), which unlocks without tasks, interleave.
THEOREM LatchesTruthful == Spec => []LatchCoversTasks
BY HandlerAlways, PTL DEF HandlerInv

\* When stop() has joined the consumers no process of a task runs on, even one
\* that was started while its job was being cleared.
THEOREM NoProcessLeft == Spec => []NoOrphans
<1>1. HandlerInv => NoOrphans
  BY DEF HandlerInv, Processes, Threads, NoOrphans
<1> QED BY <1>1, HandlerAlways, PTL
=============================================================================
