-------------------------- MODULE LocalhostHandler --------------------------
(***************************************************************************)
(* The localhost backend, version 2 (lithops/localhost/v2/localhost.py):   *)
(* the client thread invokes jobs and clears them, worker_processes        *)
(* consumer threads run one task each at a time in a process of its own,   *)
(* and a job manager thread waits for the latches of the jobs, one count   *)
(* per task.  Tasks and the Nones that stop consumers share work_queue.    *)
(* The environment is the DefaultEnvironment, without a container.         *)
(***************************************************************************)
EXTENDS Integers, Sequences, FiniteSets

CONSTANTS
    NumJobs,   \* jobs the client invokes, one after the other
    NumTasks,  \* [1 .. NumJobs -> Nat \ {0}]  the calls of each job
    worker_processes,
    MaxClears, \* bound: how often executors.wait clears jobs
    None       \* what stops a consumer

Job == 1 .. NumJobs
Task == UNION {{<<j, k>> : k \in 1 .. NumTasks[j]} : j \in Job}
Consumer == 1 .. worker_processes

ASSUME LocalhostAssumption ==
    /\ NumJobs \in Nat /\ MaxClears \in Nat
    /\ NumTasks \in [Job -> Nat \ {0}]
    /\ worker_processes \in Nat \ {0}
    /\ None \notin Task

VARIABLES
    pc,      \* where the client thread is
    jobs,    \* how many keys env.jobs has
    latch,   \* the count of each job's CountDownLatch
    invocation_in_progress,
    job_manager,      \* TRUE when it is not None
    consumer_threads, \* TRUE when the list is not empty
    work_queue,
    keys,    \* the job_keys of clear()
    again,   \* TRUE when clear() runs in the exception handler of wait()
    to_stop, \* those whose processes are still to be killed
    to_kill, \* the processes that stop() has listed for one of them
    cpc, task, \* where each consumer thread is, and with which task
    proc,      \* the process of each task
    task_processes, \* the keys of the dictionary
    mpc, seen, \* where the job manager is, and the size of env.jobs it saw
    clears

clientVars == <<pc, jobs, invocation_in_progress, consumer_threads>>
clearVars == <<keys, again, to_stop, to_kill, clears>>
consumerVars == <<cpc, task>>
processVars == <<proc, task_processes>>
managerVars == <<mpc, seen>>
vars == <<clientVars, latch, job_manager, work_queue, clearVars, consumerVars,
          processVars, managerVars>>

Init ==
    /\ pc = "idle" /\ jobs = 0
    /\ latch = [j \in Job |-> 0]
    /\ invocation_in_progress = FALSE /\ job_manager = FALSE
    /\ consumer_threads = FALSE
    /\ work_queue = <<>>
    /\ keys = {} /\ again = FALSE /\ to_stop = {} /\ to_kill = {}
    /\ cpc = [w \in Consumer |-> "off"]
    /\ task = [w \in Consumer |-> None]
    /\ proc = [t \in Task |-> "none"]
    /\ task_processes = {}
    /\ mpc = "off" /\ seen = 0
    /\ clears = 0

-----------------------------------------------------------------------------
(* The client thread in invoke(). *)

Invoke ==
    /\ pc = "idle" /\ jobs < NumJobs
    /\ invocation_in_progress' = TRUE
    /\ pc' = "run_job"
    /\ UNCHANGED <<jobs, latch, job_manager, consumer_threads, work_queue, clearVars,
                   consumerVars, processVars, managerVars>>

\* env.run_job makes a latch for the job and queues its tasks.  That they come to
\* the queue's end at once hides nothing: this thread alone puts into it, and the
\* others only take what is at its head.
RunJob ==
    /\ pc = "run_job"
    /\ jobs' = jobs + 1
    /\ latch' = [latch EXCEPT ![jobs'] = NumTasks[jobs']]
    /\ work_queue' = work_queue \o [k \in 1 .. NumTasks[jobs'] |-> <<jobs', k>>]
    /\ pc' = "manager"
    /\ UNCHANGED <<invocation_in_progress, job_manager, consumer_threads, clearVars,
                   consumerVars, processVars, managerVars>>

\* start_manager starts a manager when there is none, and then the consumers.
StartManager ==
    /\ pc = "manager"
    /\ IF job_manager
       THEN pc' = "finish" /\ UNCHANGED <<job_manager, mpc>>
       ELSE pc' = "start" /\ job_manager' = TRUE /\ mpc' = "list"
    /\ UNCHANGED <<jobs, latch, invocation_in_progress, consumer_threads, work_queue,
                   clearVars, consumerVars, processVars, seen>>

\* env.start
StartConsumers ==
    /\ pc = "start"
    /\ consumer_threads' = TRUE
    /\ cpc' = IF consumer_threads THEN cpc ELSE [w \in Consumer |-> "get"]
    /\ pc' = "finish"
    /\ UNCHANGED <<jobs, latch, invocation_in_progress, job_manager, work_queue,
                   clearVars, task, processVars, managerVars>>

\* Mutant of InProgress: the flag stays up.
InProgressStays == TRUE

\* What invoke() leaves in invocation_in_progress.
InProgress == FALSE

FinishInvoke ==
    /\ pc = "finish"
    /\ invocation_in_progress' = InProgress
    /\ pc' = "idle"
    /\ UNCHANGED <<jobs, latch, job_manager, consumer_threads, work_queue, clearVars,
                   consumerVars, processVars, managerVars>>

-----------------------------------------------------------------------------
(* The client thread in clear(), which executors.wait calls. *)

TasksOf(js) == {t \in Task : t[1] \in js}

\* Either all calls of the jobs have written their status, or an exception or
\* Ctrl-C ended the wait for them.
Clear ==
    /\ pc = "idle" /\ clears < MaxClears
    /\ keys' \in SUBSET (1 .. jobs) \ {{}}
    /\ again' \in BOOLEAN
    /\ ~again' => \A t \in TasksOf(keys') : proc[t] \in {"wrote", "ended"}
    /\ clears' = clears + 1
    /\ pc' = "drain"
    /\ UNCHANGED <<jobs, latch, invocation_in_progress, job_manager, consumer_threads,
                   work_queue, to_stop, to_kill, consumerVars, processVars, managerVars>>

\* clear() empties the queue, whoever's tasks are in it.
Drain ==
    /\ pc = "drain"
    /\ IF work_queue # <<>>
       THEN work_queue' = Tail(work_queue) /\ UNCHANGED <<pc, to_stop>>
       ELSE pc' = "stop" /\ to_stop' = keys /\ UNCHANGED work_queue
    /\ UNCHANGED <<jobs, latch, invocation_in_progress, job_manager, consumer_threads,
                   keys, again, to_kill, clears, consumerVars, processVars,
                   managerVars>>

\* DefaultEnvironment.stop lists the processes of a job ...
ListProcesses(j) ==
    /\ pc = "stop" /\ to_kill = {} /\ j \in to_stop
    /\ to_stop' = to_stop \ {j}
    /\ to_kill' = task_processes \cap TasksOf({j})
    /\ UNCHANGED <<clientVars, latch, job_manager, work_queue, keys, again, clears,
                   consumerVars, processVars, managerVars>>

\* ... and kills each.  The None it then leaves in the dictionary has no effect.
KillProcess(t) ==
    /\ pc = "stop" /\ t \in to_kill \cap task_processes
    /\ to_kill' = to_kill \ {t}
    /\ proc' = [proc EXCEPT ![t] = IF @ \in {"running", "wrote"} THEN "killed" ELSE @]
    /\ UNCHANGED <<clientVars, latch, job_manager, work_queue, keys, again, to_stop,
                   clears, consumerVars, task_processes, managerVars>>

\* A process its consumer has removed meanwhile is a KeyError: wait() catches
\* it and clears again, but not a second one.
KillFails ==
    /\ pc = "stop" /\ to_kill \ task_processes # {}
    /\ pc' = IF again THEN "idle" ELSE "drain"
    /\ again' = TRUE
    /\ to_kill' = {} /\ to_stop' = {}
    /\ UNCHANGED <<jobs, latch, invocation_in_progress, job_manager, consumer_threads,
                   work_queue, keys, clears, consumerVars, processVars,
                   managerVars>>

\* Mutant of Sentinels: one too few.
SentinelsFew == [w \in 1 .. worker_processes - 1 |-> None]

Sentinels == [w \in Consumer |-> None]

\* ExecutionEnvironment.stop puts a None for every consumer ...
PutSentinels ==
    /\ pc = "stop" /\ to_stop = {} /\ to_kill = {}
    /\ work_queue' = work_queue \o Sentinels
    /\ pc' = "join"
    /\ UNCHANGED <<jobs, latch, invocation_in_progress, job_manager, consumer_threads,
                   clearVars, consumerVars, processVars, managerVars>>

\* Mutant of Joined: no thread is joined.
JoinedNone == TRUE

Joined == \A w \in Consumer : cpc[w] = "off"

\* ... and joins them.
JoinConsumers ==
    /\ pc = "join" /\ Joined
    /\ consumer_threads' = FALSE
    /\ pc' = "unlock"
    /\ UNCHANGED <<jobs, latch, invocation_in_progress, job_manager, work_queue,
                   clearVars, consumerVars, processVars, managerVars>>

\* Every latch is unlocked until its count is 0: below, the loop never ends.
UnlockAll ==
    /\ pc = "unlock" /\ \A j \in 1 .. jobs : latch[j] >= 0
    /\ latch' = [j \in Job |-> 0]
    /\ pc' = "idle"
    /\ UNCHANGED <<jobs, invocation_in_progress, job_manager, consumer_threads,
                   work_queue, clearVars, consumerVars, processVars, managerVars>>

-----------------------------------------------------------------------------
(* queue_consumer, process_task and run_task, one per consumer thread. *)

Get(w) ==
    /\ cpc[w] = "get" /\ work_queue # <<>>
    /\ work_queue' = Tail(work_queue)
    /\ task' = [task EXCEPT ![w] = Head(work_queue)]
    /\ cpc' = [cpc EXCEPT ![w] = IF Head(work_queue) = None THEN "off" ELSE "popen"]
    /\ UNCHANGED <<clientVars, latch, job_manager, clearVars, processVars, managerVars>>

Popen(w) ==
    /\ cpc[w] = "popen"
    /\ proc' = [proc EXCEPT ![task[w]] = "running"]
    /\ cpc' = [cpc EXCEPT ![w] = "register"]
    /\ UNCHANGED <<clientVars, latch, job_manager, work_queue, clearVars, task,
                   task_processes, managerVars>>

\* Only now can stop() see the process.
Register(w) ==
    /\ cpc[w] = "register"
    /\ task_processes' = task_processes \cup {task[w]}
    /\ cpc' = [cpc EXCEPT ![w] = "wait"]
    /\ UNCHANGED <<clientVars, latch, job_manager, work_queue, clearVars, task, proc,
                   managerVars>>

\* process.communicate returns.
Reap(w) ==
    /\ cpc[w] = "wait" /\ proc[task[w]] \in {"ended", "killed"}
    /\ task_processes' = task_processes \ {task[w]}
    /\ cpc' = [cpc EXCEPT ![w] = "unlock"]
    /\ UNCHANGED <<clientVars, latch, job_manager, work_queue, clearVars, task, proc,
                   managerVars>>

Unlock(w) ==
    /\ cpc[w] = "unlock"
    /\ latch' = [latch EXCEPT ![task[w][1]] = @ - 1]
    /\ task' = [task EXCEPT ![w] = None]
    /\ cpc' = [cpc EXCEPT ![w] = "get"]
    /\ UNCHANGED <<clientVars, job_manager, work_queue, clearVars, processVars,
                   managerVars>>

\* The process of a task writes the status of the call and ends.
Write(t) ==
    /\ proc[t] = "running"
    /\ proc' = [proc EXCEPT ![t] = "wrote"]
    /\ UNCHANGED <<clientVars, latch, job_manager, work_queue, clearVars, consumerVars,
                   task_processes, managerVars>>

Exit(t) ==
    /\ proc[t] = "wrote"
    /\ proc' = [proc EXCEPT ![t] = "ended"]
    /\ UNCHANGED <<clientVars, latch, job_manager, work_queue, clearVars, consumerVars,
                   task_processes, managerVars>>

-----------------------------------------------------------------------------
(* The job manager thread. *)

\* for job_key in list(self.env.jobs.keys())
ListJobs ==
    /\ mpc = "list"
    /\ seen' = jobs
    /\ mpc' = "wait"
    /\ UNCHANGED <<clientVars, latch, job_manager, work_queue, clearVars, consumerVars,
                   processVars>>

\* The latches it has listed open, and it begins to look at all jobs.
WaitJobs ==
    /\ mpc = "wait" /\ \A j \in 1 .. seen : latch[j] <= 0
    /\ seen' = jobs
    /\ mpc' = "test"
    /\ UNCHANGED <<clientVars, latch, job_manager, work_queue, clearVars, consumerVars,
                   processVars>>

\* all(job.done for job in self.env.jobs.values()): a job that is added before
\* it has seen the last one makes it raise, and the thread dies.
TestJobs ==
    /\ mpc = "test"
    /\ \/ mpc' = IF \A j \in 1 .. seen : latch[j] = 0 THEN "progress" ELSE "list"
       \/ seen # jobs /\ mpc' = "dead"
    /\ UNCHANGED <<clientVars, latch, job_manager, work_queue, clearVars, consumerVars,
                   processVars, seen>>

TestProgress ==
    /\ mpc = "progress"
    /\ mpc' = IF invocation_in_progress THEN "list" ELSE "reset"
    /\ UNCHANGED <<clientVars, latch, job_manager, work_queue, clearVars, consumerVars,
                   processVars, seen>>

\* self.job_manager = None
ResetManager ==
    /\ mpc = "reset"
    /\ job_manager' = FALSE
    /\ mpc' = "off"
    /\ UNCHANGED <<clientVars, latch, work_queue, clearVars, consumerVars, processVars,
                   seen>>

-----------------------------------------------------------------------------

InvokeStep == RunJob \/ StartManager \/ StartConsumers \/ FinishInvoke

ClearStep ==
    \/ Drain \/ KillFails \/ PutSentinels \/ JoinConsumers \/ UnlockAll
    \/ \E j \in Job : ListProcesses(j)
    \/ \E t \in Task : KillProcess(t)

ConsumerStep(w) == Get(w) \/ Popen(w) \/ Register(w) \/ Reap(w) \/ Unlock(w)

ManagerStep == ListJobs \/ WaitJobs \/ TestJobs \/ TestProgress \/ ResetManager

Next ==
    \/ Invoke \/ InvokeStep \/ Clear \/ ClearStep
    \/ \E w \in Consumer : ConsumerStep(w)
    \/ \E t \in Task : Write(t) \/ Exit(t)
    \/ ManagerStep

Spec == Init /\ [][Next]_vars

\* Started methods go on, threads are scheduled, functions return or are killed
\* at their execution timeout.  Nothing makes the user invoke or clear.
Fairness ==
    /\ WF_vars(InvokeStep) /\ WF_vars(ClearStep) /\ WF_vars(ManagerStep)
    /\ \A w \in Consumer : WF_vars(ConsumerStep(w))
    /\ \A t \in Task : WF_vars(Write(t) \/ Exit(t))

FairSpec == Spec /\ Fairness

-----------------------------------------------------------------------------
(* Properties. *)

\* The values of every variable.
TypeOK ==
    /\ pc \in {"idle", "run_job", "manager", "start", "finish", "drain", "stop",
               "join", "unlock"}
    /\ jobs \in 0 .. NumJobs /\ latch \in [Job -> Nat]
    /\ invocation_in_progress \in BOOLEAN /\ job_manager \in BOOLEAN
    /\ consumer_threads \in BOOLEAN
    /\ work_queue \in Seq(Task \cup {None})
    /\ keys \subseteq Job /\ to_stop \subseteq keys /\ again \in BOOLEAN
    /\ to_kill \subseteq Task
    /\ cpc \in [Consumer -> {"off", "get", "popen", "register", "wait", "unlock"}]
    /\ task \in [Consumer -> Task \cup {None}]
    /\ proc \in [Task -> {"none", "running", "wrote", "ended", "killed"}]
    /\ task_processes \subseteq Task
    /\ mpc \in {"off", "list", "wait", "test", "progress", "reset", "dead"}
    /\ seen \in 0 .. NumJobs
    /\ clears \in 0 .. MaxClears

\* The tasks of a job that are still queued or in the hands of a consumer.
Unfinished(j) ==
    {t \in TasksOf({j}) :
       \/ \E k \in DOMAIN work_queue : work_queue[k] = t
       \/ \E w \in Consumer : task[w] = t}

\* A latch that is open means that nothing of its job is queued or running, and
\* its count never passes 0, where done would be false again and clear() would
\* unlock it for ever: clear() unlocks latches too, without their tasks.
LatchCoversTasks == \A j \in Job : latch[j] >= Cardinality(Unfinished(j))

\* When stop() has returned, no process is left behind, not even one that was
\* started while its job was being cleared and that stop() did not see.
NoOrphans ==
    ~consumer_threads => \A t \in Task : proc[t] \notin {"running", "wrote"}

\* clear() returns: it finds every consumer alive enough to take its None and
\* every latch above 0, whatever the consumers, an earlier clear() that left
\* its Nones behind, or a KeyError did.
ClearReturns == pc \in {"drain", "stop", "join", "unlock"} ~> pc = "idle"

\* The manager, a thread that keeps the interpreter alive, ends when all jobs
\* are done, unless another is being invoked.
ManagerStops ==
    (mpc # "off" /\ \A j \in 1 .. jobs : latch[j] = 0) ~> (mpc \in {"off", "dead"} \/ pc # "idle")

=============================================================================
