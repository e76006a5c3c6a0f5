--------------------------- MODULE StandaloneJobs ---------------------------
(* The jobs of a standalone master: standalone/master.py, worker.py and the  *)
(* two calls of standalone.py that reach them (invoke and clear).            *)
(*                                                                           *)
(* The master keeps jobs and work queues in Redis.  Every Redis command is a *)
(* step; what a thread does between two commands is joined to one of them.   *)
(* Threads: one handle_job per job, one cancel_job_process per stop request, *)
(* the job monitor, and on every worker the consumers of the work queue and  *)
(* the HTTP handler of /stop.                                                *)
EXTENDS Integers, Sequences, FiniteSets, SequencesExt

CONSTANTS
  Modes,       \* execution modes looked at: "consume", "create", "reuse"
  Jobs,        \* jobs the master is asked to run
  Others,      \* those of them that another client submits
  Calls,       \* number of calls of each job (total_tasks)
  Workers,     \* worker VMs (in consume mode there is only Master)
  Master,      \* the worker that is the master VM itself
  Procs,       \* worker_processes: consumers per worker
  MaxStops,    \* bound on the stop requests of a behaviour
  MaxMishaps   \* for each mode, bound on the Mishaps after which a set-up may fail, a
               \* consumer meet an exception or a keeper stop its VM

ASSUME StandaloneAssumption ==
  /\ Modes \subseteq {"consume", "create", "reuse"}
  /\ Jobs # {} /\ IsFiniteSet(Jobs) /\ IsFiniteSet(Workers)
  /\ Master \in Workers /\ Others \subseteq Jobs
  /\ Calls \in [Jobs -> Nat \ {0}] /\ Procs \in Nat \ {0} /\ MaxStops \in Nat
  /\ MaxMishaps \in [Modes -> Nat]

Tasks     == UNION {{j} \X (0 .. Calls[j] - 1) : j \in Jobs}
Consumers == Workers \X (1 .. Procs)
Stops     == 1 .. MaxStops
Shared    == "shared"              \* the queue of a runtime or a worker type

VARIABLES
  execMode,    \* "consume", "create" or "reuse"
  clientJobs,  \* StandaloneHandler.jobs of the client that may call clear()
  posted,      \* jobs posted to the master
  jobStatus,   \* field status of job:<key>, "none" before handle_job
  tasksDone,   \* length of the list tasksdone:<key>
  queue,       \* work queues: the left end is the head, consumers pop the last
  pushed,      \* handle_job: calls pushed so far, -1 before it starts
  doneFile,    \* jobs with a .done file on the master
  installing,  \* consume mode: the set-up thread handle_workers started for a job
  listed,      \* workers whose hash in Redis says ACTIVE
  worker,      \* state of a worker VM and the queue it works for
  canceled,    \* worker.canceled
  table,       \* worker.job_processes: "absent", "process" or "None"
  proc,        \* the process of a task
  consumer,    \* program counter and task of a consumer
  cancel,      \* cancel_job_process threads
  stopping,    \* the /stop handler of a worker
  doomed,      \* workers whose VM clear() is about to delete
  fate,        \* how a task ended: its process ended by itself (a crash of it
               \* counts, for nobody looks at its exit code), or was killed or
               \* lost with its VM or service, or it was never started
  cut          \* history: jobs with a call that was never counted because the
               \* service it was on went away or its consumer met an exception

client  == <<execMode, clientJobs, posted>>
redis   == <<jobStatus, tasksDone, queue>>
setups  == <<installing, listed>>
workers == <<worker, canceled, table, proc, consumer, stopping, doomed>>
vars    == <<client, redis, pushed, doneFile, setups, workers, cancel, fate, cut>>

QueueName(j) == IF execMode = "create" THEN j ELSE Shared

(* rpop and brpop: what is left in a queue.                                  *)
AfterPeek(q) == q
AfterPop(q) == Front(q)

TypeOK ==
  /\ execMode \in Modes
  /\ clientJobs \in Seq(Jobs) /\ posted \subseteq Jobs
  /\ jobStatus \in [Jobs -> {"none", "submitted", "running", "done", "canceled"}]
  /\ tasksDone \in [Jobs -> Nat] /\ \A j \in Jobs : tasksDone[j] <= Calls[j]
  /\ pushed \in [Jobs -> Int] /\ \A j \in Jobs : pushed[j] \in -1 .. Calls[j]
  /\ queue \in [Jobs \cup {Shared} -> Seq(Tasks)]
  /\ doneFile \subseteq Jobs
  /\ installing \in [Jobs -> {"none", "asked", "save", "install"}] /\ listed \subseteq Workers
  /\ worker \in [Workers -> [state : {"absent", "down", "setup", "active", "gone", "deleted"},
                             queue : Jobs \cup {Shared}]]
  /\ canceled \in [Workers -> SUBSET Jobs]
  /\ table \in [Workers -> [Tasks -> {"absent", "process", "None"}]]
  /\ proc \in [Tasks -> {"none", "alive", "killed", "reaped"}]
  /\ consumer \in [Consumers -> [pc : {"off", "take", "start", "startset", "spawn", "running",
                                       "delete", "report", "setdone", "ended"},
                                 task : Tasks]]
  /\ cancel \in [Stops -> [pc : {"off", "llen", "rpop", "putback", "signal", "set", "ended",
                                 "dead"},
                           jobs : Seq(Jobs), tmp : Seq(Tasks), sent : SUBSET Workers]]
  /\ stopping \in [Workers -> [job : Jobs \cup {"none"}, size : Nat, seen : SUBSET Tasks]]
  /\ doomed \subseteq Workers
  /\ fate \in [Tasks -> {"none", "ran", "killed", "dropped"}]
  /\ cut \subseteq Jobs

Init ==
  /\ execMode \in Modes
  /\ clientJobs = <<>>
  /\ posted = {}
  /\ jobStatus = [j \in Jobs |-> "none"]
  /\ tasksDone = [j \in Jobs |-> 0]
  /\ queue = [q \in Jobs \cup {Shared} |-> <<>>]
  /\ pushed = [j \in Jobs |-> -1]
  /\ doneFile = {}
  /\ installing = [j \in Jobs |-> "none"]
  /\ listed = {}
  /\ worker = [w \in Workers |-> [state |-> "absent", queue |-> Shared]]
  /\ canceled = [w \in Workers |-> {}]
  /\ table = [w \in Workers |-> [t \in Tasks |-> "absent"]]
  /\ proc = [t \in Tasks |-> "none"]
  /\ consumer = [c \in Consumers |-> [pc |-> "off", task |-> CHOOSE t \in Tasks : TRUE]]
  /\ cancel = [k \in Stops |-> [pc |-> "off", jobs |-> <<>>, tmp |-> <<>>, sent |-> {}]]
  /\ stopping = [w \in Workers |-> [job |-> "none", size |-> 0, seen |-> {}]]
  /\ doomed = {}
  /\ fate = [t \in Tasks |-> "none"]
  /\ cut = {}

-----------------------------------------------------------------------------
(* The client and the threads the master starts for a job.                   *)

(* Jobs with a call cut off, and workers that are down or stopped.           *)
Mishaps == Cardinality(cut) + Cardinality({w \in Workers : worker[w].state \in {"down", "gone"}})

(* invoke() posts the job; run() starts handle_job and handle_workers.  The  *)
(* workers it names are new VMs: at least one in create mode, the missing    *)
(* ones in reuse mode, where those that were found free may have stopped     *)
(* since.  In consume mode it always names the master VM, and handle_workers *)
(* finds out whether that is a worker already.                               *)
NewWorkers(ws) ==
  /\ \A w \in ws : worker[w].state = "absent"
  /\ (execMode = "consume") => ws = {}
  /\ (execMode = "create") => ws # {}
  /\ (execMode = "reuse") => ws # {} \/ \E w \in Workers : worker[w].state \in {"active", "gone"}

Invoke(j) ==
  /\ j \notin posted
  /\ posted' = posted \cup {j}
  /\ clientJobs' = IF j \in Others THEN clientJobs ELSE Append(clientJobs, j)
  /\ installing' = [installing EXCEPT ![j] = IF execMode = "consume" THEN "asked" ELSE @]
  /\ \E ws \in SUBSET Workers :
       /\ NewWorkers(ws)
       /\ worker' = [w \in Workers |-> IF w \in ws
                       THEN [state |-> "setup", queue |-> QueueName(j)] ELSE worker[w]]
  /\ UNCHANGED <<execMode, redis, pushed, doneFile, listed, canceled, table, proc, consumer,
                 cancel, stopping, doomed, fate, cut>>

(* handle_job: the hash of the job first, then one lpush per call.           *)
SubmitJob(j) ==
  /\ j \in posted /\ pushed[j] = -1
  /\ jobStatus' = [jobStatus EXCEPT ![j] = "submitted"]
  /\ pushed' = [pushed EXCEPT ![j] = 0]
  /\ UNCHANGED <<client, setups, tasksDone, queue, doneFile, workers, cancel, fate, cut>>

PushCall(j) ==
  /\ pushed[j] \in 0 .. Calls[j] - 1
  /\ queue' = [queue EXCEPT ![QueueName(j)] = <<<<j, pushed[j]>>>> \o @]
  /\ pushed' = [pushed EXCEPT ![j] = @ + 1]
  /\ UNCHANGED <<client, setups, jobStatus, tasksDone, doneFile, workers, cancel, fate, cut>>

(* run_worker on the VM: the hash says ACTIVE and the consumers start.       *)
WorkerStarts(w) ==
  /\ worker[w].state = "setup"
  /\ worker' = [worker EXCEPT ![w].state = "active"]
  /\ listed' = listed \cup {w}
  /\ consumer' = [c \in Consumers |-> IF c[1] = w THEN [consumer[c] EXCEPT !.pc = "take"]
                                                 ELSE consumer[c]]
  /\ UNCHANGED <<client, redis, pushed, doneFile, installing, canceled, table, proc, cancel,
                 stopping, doomed, fate, cut>>

(* Or the set-up fails, before the installation script runs or in it:        *)
(* handle_workers logs that, and nothing else comes of it.                   *)
WorkerSetupFails(w) ==
  /\ worker[w].state = "setup" /\ Mishaps < MaxMishaps[execMode]
  /\ worker' = [worker EXCEPT ![w].state = "down"]
  /\ UNCHANGED <<client, redis, pushed, doneFile, setups, canceled, table, proc, consumer,
                 cancel, stopping, doomed, fate, cut>>

(* In create mode the consumers end, and the VM removes itself.              *)
WorkerEnds(w) ==
  /\ worker[w].state = "active"
  /\ \A c \in Consumers : c[1] = w => consumer[c].pc = "ended"
  /\ worker' = [worker EXCEPT ![w].state = "deleted"]
  /\ UNCHANGED <<client, setups, redis, pushed, doneFile, canceled, table, proc, consumer,
                 cancel, stopping, doomed, fate, cut>>

(* job_monitor touches the .done file when the list tasksdone is complete.   *)
MonitorDone(j) ==
  /\ jobStatus[j] # "none" /\ tasksDone[j] = Calls[j] /\ j \notin doneFile
  /\ doneFile' = doneFile \cup {j}
  /\ UNCHANGED <<client, setups, redis, pushed, workers, cancel, fate, cut>>

-----------------------------------------------------------------------------
(* A consumer: redis_queue_consumer.                                         *)

At(c, pc) == consumer[c].pc = pc
Goto(c, pc) == consumer' = [consumer EXCEPT ![c].pc = pc]
WQ(c) == worker[c[1]].queue
Holding(c) == consumer[c].pc \in {"start", "startset", "spawn", "running"}

TakeTask(c) ==
  /\ At(c, "take") /\ queue[WQ(c)] # <<>>
  /\ consumer' = [consumer EXCEPT ![c] = [pc |-> "start", task |-> Last(queue[WQ(c)])]]
  /\ queue' = [queue EXCEPT ![WQ(c)] = AfterPop(@)]
  /\ UNCHANGED <<client, setups, jobStatus, tasksDone, pushed, doneFile, worker, canceled,
                 table, proc, stopping, doomed, cancel, fate, cut>>

(* rpop answers None in create mode: the consumer ends.                      *)
NoMoreTasks(c) ==
  /\ execMode = "create"
  /\ At(c, "take") /\ queue[WQ(c)] = <<>>
  /\ Goto(c, "ended")
  /\ UNCHANGED <<client, setups, redis, pushed, doneFile, worker, canceled, table, proc,
                 stopping, doomed, cancel, fate, cut>>

(* notify_task_start: hget, and hset when it read SUBMITTED.                 *)
StartRead(c) ==
  /\ At(c, "start")
  /\ Goto(c, IF jobStatus[consumer[c].task[1]] = "submitted" THEN "startset" ELSE "spawn")
  /\ UNCHANGED <<client, setups, redis, pushed, doneFile, worker, canceled, table, proc,
                 stopping, doomed, cancel, fate, cut>>

StartSet(c) ==
  /\ At(c, "startset")
  /\ jobStatus' = [jobStatus EXCEPT ![consumer[c].task[1]] = "running"]
  /\ Goto(c, "spawn")
  /\ UNCHANGED <<client, setups, tasksDone, queue, pushed, doneFile, worker, canceled, table,
                 proc, stopping, doomed, cancel, fate, cut>>

Spawn(c) ==
  LET t == consumer[c].task
  IN  /\ At(c, "spawn")
      /\ proc' = [proc EXCEPT ![t] = "alive"]
      /\ table' = [table EXCEPT ![c[1]][t] = "process"]
      /\ Goto(c, "running")
      /\ UNCHANGED <<client, setups, redis, pushed, doneFile, worker, canceled, stopping, doomed,
                     cancel, fate, cut>>

(* The process ends, by itself or killed, and communicate() returns.         *)
Reap(c) ==
  LET t == consumer[c].task
  IN  /\ At(c, "running")
      /\ fate' = [fate EXCEPT ![t] = IF proc[t] = "alive" THEN "ran" ELSE "killed"]
      /\ proc' = [proc EXCEPT ![t] = "reaped"]
      /\ Goto(c, "delete")
      /\ UNCHANGED <<client, setups, redis, pushed, doneFile, worker, canceled, table,
                     stopping, doomed, cancel, cut>>

(* An exception on the way (a task or log file that cannot be written, a     *)
(* process that cannot be started) is logged; the consumer takes the next    *)
(* call, and this one is neither run nor counted, or run and not counted.    *)
TaskRaises(c) ==
  LET t == consumer[c].task
  IN  /\ \/ At(c, "spawn") /\ fate' = [fate EXCEPT ![t] = "dropped"]
         \/ At(c, "report") /\ UNCHANGED fate
      /\ Mishaps < MaxMishaps[execMode]
      /\ cut' = cut \cup {t[1]}
      /\ Goto(c, "take")
      /\ UNCHANGED <<client, redis, pushed, doneFile, setups, worker, canceled, table, proc,
                     stopping, doomed, cancel>>

Forget(c) ==
  /\ At(c, "delete")
  /\ table' = [table EXCEPT ![c[1]][consumer[c].task] = "absent"]
  /\ Goto(c, "report")
  /\ UNCHANGED <<client, setups, redis, pushed, doneFile, worker, canceled, proc, stopping, doomed,
                 cancel, fate, cut>>

CountedAlways(c) == TRUE
Counted(c) == consumer[c].task[1] \notin canceled[c[1]]

LengthTotalLess(j, n) == n >= Calls[j] - 1
LengthTotal(j, n) == n = Calls[j]

(* notify_task_done, unless the worker has heard of a stop of the job: rpush *)
(* answers the length of the list, and the last call sets DONE.              *)
Report(c) ==
  LET j == consumer[c].task[1]
  IN  /\ At(c, "report")
      /\ IF Counted(c)
         THEN /\ tasksDone' = [tasksDone EXCEPT ![j] = @ + 1]
              /\ Goto(c, IF LengthTotal(j, tasksDone[j] + 1) THEN "setdone" ELSE "take")
         ELSE Goto(c, "take") /\ UNCHANGED tasksDone
      /\ UNCHANGED <<client, setups, jobStatus, queue, pushed, doneFile, worker, canceled,
                     table, proc, stopping, doomed, cancel, fate, cut>>

SetDone(c) ==
  /\ At(c, "setdone")
  /\ jobStatus' = [jobStatus EXCEPT ![consumer[c].task[1]] = "done"]
  /\ Goto(c, "take")
  /\ UNCHANGED <<client, setups, tasksDone, queue, pushed, doneFile, worker, canceled, table,
                 proc, stopping, doomed, cancel, fate, cut>>

-----------------------------------------------------------------------------
(* Stopping jobs.                                                            *)

(* clear() posts every job of the handler; stop() starts the thread.  Then   *)
(* backend.clear() deletes the VMs this client created, not in reuse mode.   *)
(* In consume mode it has created none.                                      *)
Clear(k) ==
  /\ cancel[k].pc = "off" /\ \A m \in Stops : m < k => cancel[m].pc # "off"
  /\ clientJobs # <<>>
  /\ cancel' = [cancel EXCEPT ![k].pc = "llen", ![k].jobs = clientJobs]
  /\ doomed' = IF execMode # "create" THEN {}
               ELSE {w \in Workers : /\ worker[w].state \in {"down", "setup", "active"}
                                     /\ worker[w].queue \in ToSet(clientJobs)}
  /\ UNCHANGED <<client, setups, redis, pushed, doneFile, worker, canceled, table, proc,
                 consumer, stopping, fate, cut>>

(* The service of a worker goes with all that runs in it, and with what it   *)
(* knew of stopped jobs.                                                     *)
ServiceGone(w) ==
  LET own  == {c \in Consumers : c[1] = w}
      held == {consumer[c].task : c \in {d \in own : Holding(d)}}
      busy == {d \in own : consumer[d].pc \notin {"off", "take", "ended"}}
  IN  /\ consumer' = [c \in Consumers |-> IF c[1] = w THEN [consumer[c] EXCEPT !.pc = "off"]
                                                     ELSE consumer[c]]
      /\ proc' = [t \in Tasks |-> IF t \in held THEN "reaped" ELSE proc[t]]
      /\ table' = [table EXCEPT ![w] = [t \in Tasks |-> "absent"]]
      /\ canceled' = [canceled EXCEPT ![w] = {}]
      /\ stopping' = [stopping EXCEPT ![w] = [job |-> "none", size |-> 0, seen |-> {}]]
      /\ fate' = [t \in Tasks |-> IF t \in held THEN "killed" ELSE fate[t]]
      /\ cut' = cut \cup {consumer[c].task[1] : c \in busy}

(* The VM is deleted; its hash stays in Redis.                               *)
VMDeleted(w) ==
  /\ w \in doomed
  /\ doomed' = doomed \ {w}
  /\ worker' = IF worker[w].state = "deleted" THEN worker
               ELSE [worker EXCEPT ![w].state = "gone"]
  /\ ServiceGone(w)
  /\ UNCHANGED <<client, redis, pushed, doneFile, setups, cancel>>

(* The worker's own keeper stops the VM at a timeout (WorkerVM says when),   *)
(* and deletes it, hash and all, in create mode.  A consume worker has none. *)
KeeperStops(w) ==
  /\ execMode # "consume" /\ worker[w].state = "active"
  /\ Mishaps < MaxMishaps[execMode]
  /\ worker' = [worker EXCEPT ![w].state = IF execMode = "create" THEN "deleted" ELSE "gone"]
  /\ listed' = listed \ {w}
  /\ ServiceGone(w)
  /\ UNCHANGED <<client, redis, pushed, doneFile, installing, doomed, cancel>>

(* setup_worker_consume, in the thread of each job: the hash is read, and    *)
(* unless it says ACTIVE written anew; then the installation script stops    *)
(* the worker service, were it running, and starts it again.  The script may *)
(* fail before that.                                                         *)
SetupReads(j) ==
  /\ installing[j] = "asked"
  /\ installing' = [installing EXCEPT ![j] = IF Master \in listed THEN "none" ELSE "save"]
  /\ UNCHANGED <<client, redis, pushed, doneFile, listed, workers, cancel, fate, cut>>

SetupSaves(j) ==
  /\ installing[j] = "save"
  /\ installing' = [installing EXCEPT ![j] = "install"]
  /\ listed' = listed \ {Master}
  /\ worker' = [worker EXCEPT ![Master].state = IF @ = "absent" THEN "down" ELSE @]
  /\ UNCHANGED <<client, redis, pushed, doneFile, canceled, table, proc, consumer, stopping,
                 doomed, cancel, fate, cut>>

SetupInstalls(j) ==
  /\ installing[j] = "install"
  /\ installing' = [installing EXCEPT ![j] = "none"]
  /\ worker' = [worker EXCEPT ![Master].state = "setup"]
  /\ ServiceGone(Master)
  /\ UNCHANGED <<client, redis, pushed, doneFile, listed, doomed, cancel>>

SetupFails(j) ==
  /\ installing[j] = "install"
  /\ installing' = [installing EXCEPT ![j] = "none"]
  /\ UNCHANGED <<client, redis, pushed, doneFile, listed, workers, cancel, fate, cut>>

CancelGoto(k, pc) == cancel' = [cancel EXCEPT ![k].pc = pc]
CancelJob(k) == Head(cancel[k].jobs)

(* hget of queue_name, at the first turn, and llen.  Before handle_job the   *)
(* name is None and llen(None) ends the thread with an exception.            *)
CancelLen(k) ==
  /\ cancel[k].pc = "llen"
  /\ CancelGoto(k, IF jobStatus[CancelJob(k)] = "none" THEN "dead"
                   ELSE IF queue[QueueName(CancelJob(k))] # <<>> THEN "rpop" ELSE "putback")
  /\ UNCHANGED <<client, setups, redis, pushed, doneFile, workers, fate, cut>>

KeptNone(k, t) == FALSE
Kept(k, t) == t[1] # CancelJob(k)

(* rpop: None when a consumer was faster, and json.loads(None) ends the      *)
(* thread with the tasks it holds.                                           *)
CancelPop(k) ==
  LET q == QueueName(CancelJob(k))
      t == Last(queue[q])
  IN  /\ cancel[k].pc = "rpop"
      /\ IF queue[q] = <<>>
         THEN CancelGoto(k, "dead") /\ UNCHANGED <<queue, fate>>
         ELSE /\ queue' = [queue EXCEPT ![q] = AfterPop(@)]
              /\ cancel' = [cancel EXCEPT ![k].pc = "llen",
                              ![k].tmp = IF Kept(k, t) THEN Append(@, t) ELSE @]
              /\ fate' = IF Kept(k, t) THEN fate ELSE [fate EXCEPT ![t] = "dropped"]
      /\ UNCHANGED <<client, setups, jobStatus, tasksDone, pushed, doneFile, workers, cut>>

CancelPutBack(k) ==
  LET q == QueueName(CancelJob(k))
  IN  /\ cancel[k].pc = "putback"
      /\ IF cancel[k].tmp = <<>>
         THEN CancelGoto(k, "signal") /\ UNCHANGED queue
         ELSE /\ queue' = [queue EXCEPT ![q] = <<Head(cancel[k].tmp)>> \o @]
              /\ cancel' = [cancel EXCEPT ![k].tmp = Tail(@)]
      /\ UNCHANGED <<client, setups, jobStatus, tasksDone, pushed, doneFile, workers, fate, cut>>

Registered == {w \in Workers : worker[w].state \in {"down", "setup", "active", "gone"}}

(* ThreadPoolExecutor(0): without a registered worker the thread ends.       *)
CancelNoWorkers(k) ==
  /\ cancel[k].pc = "signal" /\ cancel[k].sent = {} /\ Registered = {}
  /\ CancelGoto(k, "dead")
  /\ UNCHANGED <<client, setups, redis, pushed, doneFile, workers, fate, cut>>

(* POST /stop to a worker.  Its server answers one request at a time; a      *)
(* worker that does not listen (yet) never gets the request.                 *)
SignalWorker(k, w) ==
  /\ cancel[k].pc = "signal" /\ w \in Registered \ cancel[k].sent
  /\ cancel' = [cancel EXCEPT ![k].sent = @ \cup {w}]
  /\ IF worker[w].state = "active"
     THEN /\ stopping[w].job = "none"
          /\ canceled' = [canceled EXCEPT ![w] = @ \cup {CancelJob(k)}]
          /\ stopping' = [stopping EXCEPT ![w] =
               [job |-> CancelJob(k), seen |-> {},
                size |-> Cardinality({t \in Tasks : table[w][t] # "absent"})]]
     ELSE UNCHANGED <<canceled, stopping>>
  /\ UNCHANGED <<client, setups, redis, pushed, doneFile, worker, table, proc, consumer,
                 doomed, fate, cut>>

NextJob(k) ==
  cancel' = [cancel EXCEPT ![k] =
    [pc |-> IF Len(cancel[k].jobs) = 1 THEN "ended" ELSE "llen",
     jobs |-> Tail(cancel[k].jobs), tmp |-> <<>>, sent |-> {}]]

(* All requests sent: the .done file, and hget of the status.                *)
CancelTest(k) ==
  /\ cancel[k].pc = "signal" /\ cancel[k].sent # {} /\ Registered \subseteq cancel[k].sent
  /\ doneFile' = doneFile \cup {CancelJob(k)}
  /\ IF jobStatus[CancelJob(k)] = "done" THEN NextJob(k) ELSE CancelGoto(k, "set")
  /\ UNCHANGED <<client, setups, redis, pushed, workers, fate, cut>>

CancelSet(k) ==
  /\ cancel[k].pc = "set"
  /\ jobStatus' = [jobStatus EXCEPT ![CancelJob(k)] = "canceled"]
  /\ NextJob(k)
  /\ UNCHANGED <<client, setups, tasksDone, queue, pushed, doneFile, workers, fate, cut>>

(* One turn of the loop of the /stop handler over job_processes.  The loop   *)
(* raises when the dictionary has another size than at its start, when the   *)
(* entry is None already, and when the process has been reaped.              *)
StopTurn(w) ==
  LET s       == stopping[w]
      present == {t \in Tasks : table[w][t] # "absent"}
      End     == stopping' = [stopping EXCEPT ![w] = [job |-> "none", size |-> 0, seen |-> {}]]
  IN  /\ s.job # "none"
      /\ \/ /\ present \subseteq s.seen \/ Cardinality(present) # s.size
            /\ End /\ UNCHANGED <<table, proc>>
         \/ /\ Cardinality(present) = s.size
            /\ \E t \in present \ s.seen :
                 IF t[1] # s.job
                 THEN /\ stopping' = [stopping EXCEPT ![w].seen = @ \cup {t}]
                      /\ UNCHANGED <<table, proc>>
                 ELSE IF table[w][t] = "None" \/ proc[t] = "reaped"
                 THEN End /\ UNCHANGED <<table, proc>>
                 ELSE /\ proc' = [proc EXCEPT ![t] = IF @ = "alive" THEN "killed" ELSE @]
                      /\ table' = [table EXCEPT ![w][t] = "None"]
                      /\ stopping' = [stopping EXCEPT ![w].seen = @ \cup {t}]
      /\ UNCHANGED <<client, setups, redis, pushed, doneFile, worker, canceled, consumer,
                     doomed, cancel, fate, cut>>

-----------------------------------------------------------------------------
ConsumerStep(c) ==
  \/ TakeTask(c) \/ NoMoreTasks(c) \/ StartRead(c) \/ StartSet(c) \/ Spawn(c)
  \/ Reap(c) \/ Forget(c) \/ Report(c) \/ SetDone(c) \/ TaskRaises(c)

CancelStep(k) ==
  \/ CancelLen(k) \/ CancelPop(k) \/ CancelPutBack(k)
  \/ CancelNoWorkers(k) \/ (\E w \in Workers : SignalWorker(k, w))
  \/ CancelTest(k) \/ CancelSet(k)

MasterStep(j) == SubmitJob(j) \/ PushCall(j) \/ MonitorDone(j)
ConsumeSetup(j) == SetupReads(j) \/ SetupSaves(j) \/ SetupInstalls(j) \/ SetupFails(j)
WorkerStep(w) ==
  \/ WorkerStarts(w) \/ WorkerSetupFails(w) \/ WorkerEnds(w) \/ StopTurn(w) \/ VMDeleted(w)

Next ==
  \/ \E j \in Jobs : Invoke(j) \/ MasterStep(j) \/ ConsumeSetup(j)
  \/ \E k \in Stops : Clear(k) \/ CancelStep(k)
  \/ \E w \in Workers : WorkerStep(w) \/ KeeperStops(w)
  \/ \E c \in Consumers : ConsumerStep(c)

-----------------------------------------------------------------------------
(* Threads are scheduled and processes end; clients do as they please.  A    *)
(* set-up ends, well or not, and no VM has to be stopped by its keeper.  No  *)
(* thread spins, so it is enough that some thread goes on while one can.     *)
ThreadStep ==
  \/ \E j \in Jobs : MasterStep(j) \/ ConsumeSetup(j)
  \/ \E k \in Stops : CancelStep(k)
  \/ \E w \in Workers : WorkerStep(w)
  \/ \E c \in Consumers : ConsumerStep(c)

Fairness == WF_vars(ThreadStep)

Spec == Init /\ [][Next]_vars /\ Fairness

-----------------------------------------------------------------------------
Places(t) ==
  {<<"queue", q>> : q \in {r \in DOMAIN queue : t \in ToSet(queue[r])}}
    \cup {<<"cancel", k>> : k \in {l \in Stops : t \in ToSet(cancel[l].tmp)}}
    \cup {<<"consumer", c>> : c \in {d \in Consumers : Holding(d) /\ consumer[d].task = t}}
    \cup (IF fate[t] = "none" THEN {} ELSE {<<"ended">>})

(* A call that handle_job has pushed is in exactly one place until it ends   *)
(* and ends once: a work queue, the hands of one consumer, or the temporary  *)
(* list of one cancel thread (of a dead one too: those calls are lost).  No  *)
(* call runs twice, although cancel_job_process empties and refills queues   *)
(* that consumers and handle_job use at the same time.                       *)
TaskInOnePlace ==
  /\ \A q \in DOMAIN queue : IsInjective(queue[q])
  /\ \A k \in Stops : IsInjective(cancel[k].tmp)
  /\ \A t \in Tasks : Cardinality(Places(t)) = IF t[2] < pushed[t[1]] THEN 1 ELSE 0

(* A job is DONE only if the process of every call of it has ended by itself *)
(* (a crash is such an end): a call that was killed, dropped or lost with    *)
(* its VM or service is never counted by rpush.                              *)
DoneMeansAllRan ==
  \A j \in Jobs : jobStatus[j] = "done" =>
    \A t \in Tasks : t[1] = j => fate[t] = "ran"

(* DONE is not overwritten by SUBMITTED or RUNNING, although the two         *)
(* commands of notify_task_start are not a transaction.                      *)
DoneNeverReverts ==
  [][\A j \in Jobs : jobStatus[j] = "done" => jobStatus'[j] \in {"done", "canceled"}]_vars

CancelDied == \E k \in Stops : cancel[k].pc = "dead"

Served(q) == \E w \in Workers : worker[w].state = "active" /\ worker[w].queue = q

(* In the modes whose consumers never end, every job is marked as over at    *)
(* last (which is what lets the master VM be dismantled), another client's   *)
(* jobs by being DONE, as long as a worker serves its queue, and unless a    *)
(* cancel thread died of its race with the consumers or a call of the job    *)
(* was cut off by a service that went away or an exception of its consumer.  *)
(* In those cases nothing tries again, and a job may stay submitted or       *)
(* running for ever.                                                         *)
JobsEnd ==
  []<>(\A j \in Jobs : j \in posted /\ execMode # "create"
         => \/ CancelDied \/ j \in cut \/ ~Served(QueueName(j))
            \/ j \in doneFile /\ (j \in Others => jobStatus[j] = "done"))

=============================================================================
