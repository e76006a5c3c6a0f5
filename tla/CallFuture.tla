----------------------------- MODULE CallFuture -----------------------------
(***************************************************************************)
(* How the client learns the outcome of a call: the worker writes an init  *)
(* key, its output and its status to the object storage                    *)
(* (lithops/worker/handler.py, jobrunner.py, status.py), the thread of     *)
(* StorageMonitor polls them (lithops/monitor.py) and the user's threads   *)
(* read them through ResponseFuture.status and result                      *)
(* (lithops/future.py), called by wait (lithops/wait.py) or directly.      *)
(*                                                                         *)
(* The monitor and the user share the fields of a future without a lock.   *)
(* A step is what a thread does between two reads of shared state it acts  *)
(* upon: the test of a field and the assignment that follows are apart,    *)
(* the assignments of one _set_running or _set_ready are together.         *)
(***************************************************************************)
EXTENDS Naturals, FiniteSets

CONSTANTS
    Call,     \* the calls of one executor
    NumJobs,  \* jobs, submitted one after the other
    JobOf,    \* [Call -> 1 .. NumJobs]
    Direct,   \* TRUE when the user calls result() on futures that wait()
              \* has not seen ready
    MinSlack, \* how many calls may be missing for the monitor to ask for the
              \* status of every one (10 in the code)
    MaxFails, \* bound: how often wait() ends with an exception
    None      \* no future is being tagged

ASSUME FutureAssumption ==
    /\ NumJobs \in Nat /\ JobOf \in [Call -> 1 .. NumJobs]
    /\ Direct \in BOOLEAN
    /\ MinSlack \in Nat /\ MaxFails \in Nat
    /\ None \notin Call /\ IsFiniteSet(Call)

VARIABLES
    issued,     \* how many jobs the invoker has invoked
    registered, \* how many of them the monitor was told of
    worker,     \* what the worker of each call is doing
    inits,      \* the calls with an init key in the storage
    outputs,    \* the calls with an output in the storage
    stat,       \* the status of each call in the storage
    state,      \* ResponseFuture._state
    cs,         \* ResponseFuture._call_status
    read,       \* the calls whose _call_output is set
    tracked,    \* Monitor.futures
    mpc,        \* where the monitor thread is
    seen_run, seen_done, \* what get_job_status returned, empty once it is used
    todo,       \* the futures left in the monitor's current loop
    tagging,    \* the future the monitor has found invoked, or too long running
    got,        \* the calls whose status a query thread has in hand
    run_processed,  \* callids_running_processed_timeout
    done_processed, \* callids_done_processed_status
    expired,    \* the running calls whose execution timeout is over
    upc,        \* where the user's thread is in result(), per future
    told,       \* what result() has told the user, per future
    failing,    \* the futures that a failed wait() may still make unknown
    fails

clientVars == <<issued, registered, fails, failing>>
workerVars == <<worker, inits, outputs, stat>>
futureVars == <<state, cs, read>>
monitorVars == <<tracked, mpc, seen_run, seen_done, todo, tagging, got,
                 run_processed, done_processed>>
userVars == <<upc, told>>
vars == <<clientVars, workerVars, futureVars, monitorVars, expired, userVars>>

Finished == {"Done", "Error", "Unknown"}  \* the property done
Seen == Finished \cup {"Success"}         \* success or done

Init ==
    /\ issued = 0 /\ registered = 0
    /\ fails = 0 /\ failing = {}
    /\ worker = [c \in Call |-> "off"]
    /\ inits = {} /\ outputs = {}
    /\ stat = [c \in Call |-> "none"]
    /\ state = [c \in Call |-> "Invoked"]
    /\ cs = [c \in Call |-> "none"]
    /\ read = {}
    /\ tracked = {} /\ mpc = "off"
    /\ seen_run = {} /\ seen_done = {}
    /\ todo = {} /\ tagging = None /\ got = {}
    /\ run_processed = {} /\ done_processed = {}
    /\ expired = {}
    /\ upc = [c \in Call |-> "out"]
    /\ told = [c \in Call |-> {}]

-----------------------------------------------------------------------------
(* The client thread in run_job: the calls are invoked, then the futures are *)
(* created and given to the monitor, which starts with the first job.        *)

InvokeJob ==
    /\ issued = registered /\ issued < NumJobs /\ failing = {}
    /\ issued' = issued + 1
    /\ worker' = [c \in Call |-> IF JobOf[c] = issued' THEN "called" ELSE worker[c]]
    /\ UNCHANGED <<registered, fails, failing, inits, outputs, stat, futureVars, monitorVars,
                   expired, userVars>>

RegisterJob ==
    /\ registered < issued
    /\ registered' = issued
    /\ tracked' = tracked \cup {c \in Call : JobOf[c] = issued}
    /\ mpc' = IF mpc = "off" THEN "list" ELSE mpc
    /\ UNCHANGED <<issued, fails, failing, workerVars, futureVars, seen_run, seen_done, todo,
                   tagging, got, run_processed, done_processed, expired, userVars>>

-----------------------------------------------------------------------------
(* The worker: run_task and JobRunner.run.  Nothing makes it go on: a worker *)
(* that takes no further step was killed by its backend, or never started.   *)

\* send_init_event
StartCall(c) ==
    /\ worker[c] = "called"
    /\ worker' = [worker EXCEPT ![c] = "running"]
    /\ inits' = inits \cup {c}
    /\ UNCHANGED <<clientVars, outputs, stat, futureVars, monitorVars, expired, userVars>>

\* A result of 8 KB or more goes to the storage before the status.
StoreOutput(c) ==
    /\ worker[c] = "running"
    /\ worker' = [worker EXCEPT ![c] = "stored"]
    /\ outputs' = outputs \cup {c}
    /\ UNCHANGED <<clientVars, inits, stat, futureVars, monitorVars, expired, userVars>>

\* A mutant of FinalStatus: the status of a large result precedes its output.
FinalStatusEarly(c) == {"inline", "empty", "stored", "error"}

\* What the final status can say: the result, a reference to it, that there is
\* none, or the exception (of the function, or of its time or memory limit).
FinalStatus(c) ==
    IF worker[c] = "stored" THEN {"stored", "error"} ELSE {"inline", "empty", "error"}

\* send_finish_event
EndCall(c) ==
    /\ worker[c] \in {"running", "stored"}
    /\ worker' = [worker EXCEPT ![c] = "ended"]
    /\ \E s \in FinalStatus(c) : stat' = [stat EXCEPT ![c] = s]
    /\ UNCHANGED <<clientVars, inits, outputs, futureVars, monitorVars, expired, userVars>>

\* execution_timeout and 5 seconds have passed since the future is running.
Expire(c) ==
    /\ state[c] = "Running" /\ c \notin expired
    /\ expired' = expired \cup {c}
    /\ UNCHANGED <<clientVars, workerVars, futureVars, monitorVars, userVars>>

-----------------------------------------------------------------------------
(* The monitor thread: _poll_and_process_job_status. *)

\* InternalStorage.get_job_status, when the last iteration has ended.
ListStatus ==
    /\ mpc = "list" \/ (mpc = "query" /\ todo = {} /\ got = {})
    /\ seen_run' = inits
    /\ seen_done' = {c \in Call : stat[c] # "none"}
    /\ mpc' = "select"
    /\ UNCHANGED <<clientVars, workerVars, futureVars, tracked, todo, tagging, got,
                   run_processed, done_processed, expired, userVars>>

\* _tag_future_as_running looks for futures that are only invoked ...
SelectInvoked ==
    /\ mpc = "select"
    /\ todo' = {c \in tracked : state[c] = "Invoked"} \cap (seen_run \ run_processed)
    /\ mpc' = "tag"
    /\ UNCHANGED <<clientVars, workerVars, futureVars, tracked, seen_run, seen_done,
                   tagging, got, run_processed, done_processed, expired, userVars>>

\* ... tests each again ...
TestInvoked(c) ==
    /\ mpc = "tag" /\ tagging = None /\ c \in todo
    /\ todo' = todo \ {c}
    /\ tagging' = IF state[c] = "Invoked" THEN c ELSE None
    /\ UNCHANGED <<clientVars, workerVars, futureVars, tracked, mpc, seen_run, seen_done,
                   got, run_processed, done_processed, expired, userVars>>

\* ... and sets it running.
SetRunning(c) ==
    /\ mpc = "tag" /\ tagging = c
    /\ cs' = [cs EXCEPT ![c] = "init"]
    /\ state' = [state EXCEPT ![c] = "Running"]
    /\ tagging' = None
    /\ UNCHANGED <<clientVars, workerVars, read, tracked, mpc, seen_run, seen_done,
                   todo, got, run_processed, done_processed, expired, userVars>>

\* All the calls it has listed count as processed, tracked or not.
SelectRunning ==
    /\ mpc = "tag" /\ tagging = None /\ todo = {}
    /\ run_processed' = run_processed \cup seen_run
    /\ seen_run' = {}
    /\ todo' = {c \in tracked : state[c] = "Running" /\ cs[c] # "none"}
    /\ mpc' = "expire"
    /\ UNCHANGED <<clientVars, workerVars, futureVars, tracked, seen_done,
                   tagging, got, done_processed, expired, userVars>>

\* _future_timeout_checker reads when a call has begun; a status that the user
\* has just reset to None makes it raise ...
CheckTimeout(c) ==
    /\ mpc = "expire" /\ tagging = None /\ c \in todo
    /\ tagging' = IF c \in expired /\ cs[c] # "none" THEN c ELSE None
    /\ IF cs[c] = "none"
       THEN mpc' = "list" /\ todo' = {} /\ seen_done' = {}
       ELSE todo' = todo \ {c} /\ UNCHANGED <<mpc, seen_done>>
    /\ UNCHANGED <<clientVars, workerVars, futureVars, tracked, seen_run, got,
                   run_processed, done_processed, expired, userVars>>

\* ... and makes up the status of one that takes too long.
SetTimedOut(c) ==
    /\ mpc = "expire" /\ tagging = c
    /\ cs' = [cs EXCEPT ![c] = "timeout"]
    /\ state' = [state EXCEPT ![c] = "Ready"]
    /\ tagging' = None
    /\ UNCHANGED <<clientVars, workerVars, read, tracked, mpc, seen_run, seen_done,
                   todo, got, run_processed, done_processed, expired, userVars>>

Slack ==
    IF Cardinality(tracked) \div 10 > MinSlack THEN Cardinality(tracked) \div 10 ELSE MinSlack

\* Mutants of NotReady: finished futures are asked for again; only futures that
\* were seen running are asked for.
NotReadyAny == tracked
NotReadyRunning == {c \in tracked : state[c] = "Running"}

NotReady == {c \in tracked : state[c] \notin Seen \cup {"Ready"}}

\* _tag_future_as_ready asks for the status of every unfinished future when
\* few calls are missing, and else of those it has just listed.
SelectQueries ==
    /\ mpc = "expire" /\ tagging = None /\ todo = {}
    /\ todo' = IF Cardinality(tracked) <= Cardinality(seen_done) + Slack
               THEN NotReady
               ELSE NotReady \cap (seen_done \ done_processed)
    /\ seen_done' = {}
    /\ mpc' = "query"
    /\ UNCHANGED <<clientVars, workerVars, futureVars, tracked, seen_run, tagging, got,
                   run_processed, done_processed, expired, userVars>>

\* A query thread reads the status ...
QueryStatus(c) ==
    /\ mpc = "query" /\ c \in todo
    /\ todo' = todo \ {c}
    /\ got' = IF stat[c] # "none" THEN got \cup {c} ELSE got
    /\ UNCHANGED <<clientVars, workerVars, futureVars, tracked, mpc, seen_run, seen_done,
                   tagging, run_processed, done_processed, expired, userVars>>

\* ... and sets the future ready.
SetReady(c) ==
    /\ mpc = "query" /\ c \in got
    /\ cs' = [cs EXCEPT ![c] = stat[c]]
    /\ state' = [state EXCEPT ![c] = "Ready"]
    /\ got' = got \ {c}
    /\ done_processed' = done_processed \cup {c}
    /\ UNCHANGED <<clientVars, workerVars, read, tracked, mpc, seen_run, seen_done,
                   todo, tagging, run_processed, expired, userVars>>

\* add_futures changes the set while a loop of the monitor runs over it: run()
\* logs the exception and starts over.
IterationError ==
    /\ registered < issued
    /\ mpc = "select" \/ (mpc \in {"tag", "expire"} /\ tagging = None /\ todo = {})
    /\ mpc' = "list" /\ seen_run' = {} /\ seen_done' = {}
    /\ UNCHANGED <<clientVars, workerVars, futureVars, tracked, todo,
                   tagging, got, run_processed, done_processed, expired, userVars>>

-----------------------------------------------------------------------------
(* The user's threads: ResponseFuture.result, which begins with status. *)

Tell(c, what) == told' = [told EXCEPT ![c] = @ \cup {what}]

\* A future that is done gives its output, if it has one, and never raises.
Again(c) ==
    /\ upc[c] = "out" /\ JobOf[c] <= registered /\ state[c] \in Finished
    /\ Tell(c, IF c \in read THEN "value" ELSE "nothing")
    /\ UNCHANGED <<clientVars, workerVars, futureVars, monitorVars, expired, upc>>

\* wait() asks for the futures that are ready; the user for any.
AskResult(c) ==
    /\ upc[c] = "out" /\ JobOf[c] <= registered /\ state[c] \notin Finished
    /\ Direct \/ state[c] \in {"Ready", "Success"}
    /\ upc' = [upc EXCEPT ![c] =
                 IF state[c] = "Success" THEN "output"
                 ELSE IF cs[c] \in {"none", "init"} THEN "read" ELSE "use"]
    /\ UNCHANGED <<clientVars, workerVars, futureVars, monitorVars, expired, told>>

\* get_call_status
ReadStatus(c) ==
    /\ upc[c] = "read"
    /\ cs' = [cs EXCEPT ![c] = stat[c]]
    /\ upc' = [upc EXCEPT ![c] = "test"]
    /\ UNCHANGED <<clientVars, workerVars, state, read, monitorVars, expired, told>>

\* while self._call_status is None
TestStatus(c) ==
    /\ upc[c] = "test"
    /\ upc' = [upc EXCEPT ![c] = IF cs[c] = "none" THEN "read" ELSE "use"]
    /\ UNCHANGED <<clientVars, workerVars, futureVars, monitorVars, expired, told>>

\* A status of type __init__ lacks the keys that status() reads.
UseInit(c) ==
    /\ upc[c] = "use" /\ cs[c] = "init"
    /\ Tell(c, "crash")
    /\ upc' = [upc EXCEPT ![c] = "out"]
    /\ UNCHANGED <<clientVars, workerVars, futureVars, monitorVars, expired>>

UseError(c) ==
    /\ upc[c] = "use" /\ cs[c] \in {"error", "timeout"}
    /\ state' = [state EXCEPT ![c] = "Error"]
    /\ Tell(c, cs[c])
    /\ upc' = [upc EXCEPT ![c] = "out"]
    /\ UNCHANGED <<clientVars, workerVars, cs, read, monitorVars, expired>>

\* The status holds the result, or says that there is none.
UseResult(c) ==
    /\ upc[c] = "use" /\ cs[c] \in {"inline", "empty"}
    /\ state' = [state EXCEPT ![c] = "Done"]
    /\ read' = IF cs[c] = "inline" THEN read \cup {c} ELSE read
    /\ Tell(c, "value")
    /\ upc' = [upc EXCEPT ![c] = "out"]
    /\ UNCHANGED <<clientVars, workerVars, cs, monitorVars, expired>>

\* status() alone ends with a success; result() goes on to the output, which
\* it may have from an earlier time.
UseStored(c) ==
    /\ upc[c] = "use" /\ cs[c] = "stored"
    /\ state' = [state EXCEPT ![c] = IF c \in read THEN "Done" ELSE "Success"]
    /\ \/ c \notin read /\ upc' = [upc EXCEPT ![c] = "output"] /\ UNCHANGED told
       \/ c \notin read /\ upc' = [upc EXCEPT ![c] = "out"] /\ UNCHANGED told
       \/ c \in read /\ upc' = [upc EXCEPT ![c] = "out"] /\ Tell(c, "value")
    /\ UNCHANGED <<clientVars, workerVars, cs, read, monitorVars, expired>>

\* get_call_output; after all retries a missing output raises.
ReadOutput(c) ==
    /\ upc[c] = "output"
    /\ upc' = [upc EXCEPT ![c] = "out"]
    /\ \/ /\ c \in outputs
          /\ read' = read \cup {c}
          /\ state' = [state EXCEPT ![c] = "Done"]
          /\ Tell(c, "value")
       \/ /\ c \notin outputs
          /\ Tell(c, "lost")
          /\ UNCHANGED <<state, read>>
    /\ UNCHANGED <<clientVars, workerVars, cs, monitorVars, expired>>

\* executors.wait ends with an exception, Ctrl-C or its own timeout: the
\* futures leave the monitor, and _set_exception finds which are not done ...
WaitFails ==
    /\ fails < MaxFails /\ registered = issued /\ registered > 0 /\ failing = {}
    /\ fails' = fails + 1
    /\ tracked' = {}
    /\ failing' = {c \in Call : JobOf[c] <= registered /\ state[c] \notin Finished}
    /\ UNCHANGED <<issued, registered, workerVars, futureVars, mpc, seen_run, seen_done,
                   todo, tagging, got, run_processed, done_processed, expired, userVars>>

\* ... and makes each unknown, unless a thread that wait() has left behind has
\* finished it before it was looked at.
SetUnknown(c) ==
    /\ c \in failing
    /\ failing' = failing \ {c}
    /\ \/ state' = [state EXCEPT ![c] = "Unknown"]
       \/ state[c] \in Finished /\ UNCHANGED state
    /\ UNCHANGED <<issued, registered, fails, workerVars, cs, read, monitorVars,
                   expired, userVars>>

-----------------------------------------------------------------------------

WorkerStep(c) == StartCall(c) \/ StoreOutput(c) \/ EndCall(c)

MonitorStep ==
    \/ ListStatus \/ SelectInvoked \/ SelectRunning \/ SelectQueries
    \/ \E c \in Call : \/ TestInvoked(c) \/ SetRunning(c)
                       \/ CheckTimeout(c) \/ SetTimedOut(c)
                       \/ QueryStatus(c) \/ SetReady(c)

UserStep(c) ==
    \/ AskResult(c) \/ ReadStatus(c) \/ TestStatus(c) \/ UseInit(c) \/ UseError(c)
    \/ UseResult(c) \/ UseStored(c) \/ ReadOutput(c)

FailStep == \E c \in Call : SetUnknown(c)

Next ==
    \/ InvokeJob \/ RegisterJob \/ WaitFails \/ FailStep
    \/ MonitorStep \/ IterationError
    \/ \E c \in Call : WorkerStep(c) \/ Expire(c) \/ UserStep(c) \/ Again(c)

Spec == Init /\ [][Next]_vars

\* run_job and _set_exception return, time passes, the monitor polls and the
\* user waits for every future.  Nothing makes a worker go on.
Fairness ==
    /\ WF_vars(RegisterJob) /\ WF_vars(FailStep)
    /\ WF_vars(MonitorStep)
    /\ \A c \in Call : WF_vars(Expire(c)) /\ WF_vars(UserStep(c))

FairSpec == Spec /\ Fairness

-----------------------------------------------------------------------------
(* Properties. *)

Status == {"none", "inline", "empty", "stored", "error"}

\* The values of every variable.
TypeOK ==
    /\ issued \in 0 .. NumJobs /\ registered \in 0 .. issued /\ fails \in 0 .. MaxFails
    /\ failing \subseteq Call
    /\ worker \in [Call -> {"off", "called", "running", "stored", "ended"}]
    /\ inits \subseteq Call /\ outputs \subseteq Call
    /\ stat \in [Call -> Status]
    /\ state \in [Call -> {"Invoked", "Running", "Ready"} \cup Seen]
    /\ cs \in [Call -> Status \cup {"init", "timeout"}]
    /\ read \subseteq Call /\ tracked \subseteq Call
    /\ mpc \in {"off", "list", "select", "tag", "expire", "query"}
    /\ seen_run \subseteq inits /\ seen_done \subseteq Call
    /\ todo \subseteq Call /\ tagging \in Call \cup {None} /\ got \subseteq Call
    /\ run_processed \subseteq inits /\ done_processed \subseteq Call
    /\ expired \subseteq Call
    /\ upc \in [Call -> {"out", "read", "test", "use", "output"}]
    /\ told \in [Call -> SUBSET {"value", "nothing", "error", "timeout", "crash", "lost"}]

\* What result() tells is what the worker stored: a value only of a call that
\* ended well, its exception only of one that raised, never a missing output;
\* a timeout only of a call that was running too long.
Truthful ==
    \A c \in Call :
        /\ "value" \in told[c] => stat[c] \in {"inline", "empty", "stored"}
        /\ "error" \in told[c] => stat[c] = "error"
        /\ "timeout" \in told[c] => c \in inits \cap expired
        /\ "lost" \notin told[c]

\* A user who waits is never told two outcomes, however the answer of a late
\* worker, the monitor's timeout and the retries of wait() are interleaved,
\* and never sees status() fail over a half-made status.
OneOutcome ==
    \A c \in Call :
        /\ Cardinality(told[c] \cap {"value", "error", "timeout"}) <= 1
        /\ "crash" \notin told[c]

\* A future whose outcome was read never becomes running or ready again by a
\* monitor that acts on an older look at it, nor does it lose its output; only
\* a wait() that fails at that moment can still make it unknown.
DoneStaysDone ==
    [][\A c \in Call :
          state[c] \in {"Done", "Error"} =>
             state'[c] \in {state[c], "Unknown"} /\ (c \in read => c \in read')]_vars

\* A call that ends is reported to a user who waits, or its wait() has failed,
\* even when the monitor's loop over the futures keeps failing meanwhile.  (The
\* premise, once true, remains so until the call is reported or not waited for.)
CallReported ==
    \A c \in Call : []<>(stat[c] # "none" /\ c \in tracked => told[c] # {})

=============================================================================
