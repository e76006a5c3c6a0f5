------------------------------ MODULE WorkerVM ------------------------------
(* The life of one worker VM: its set-up by the master                       *)
(* (setup_worker_create_reuse in standalone/master.py), its service          *)
(* (run_worker in standalone/worker.py) and the thread that turns it off     *)
(* (BudgetKeeper in standalone/keeper.py).                                   *)
(*                                                                           *)
(* Time is counted in ticks since the last use, up to the hard timeout.      *)
EXTENDS Integers, FiniteSets

CONSTANTS
  VMTasks,        \* tasks the consumers of the worker may still take
  Retries,     \* worker_create_retries
  Soft, Hard   \* soft_dismantle_timeout, hard_dismantle_timeout, in ticks

ASSUME WorkerVMAssumption ==
  /\ IsFiniteSet(VMTasks) /\ Retries \in Nat \ {0}
  /\ Soft \in Nat /\ Hard \in Nat

(* No clock has to count beyond the longer of the two timeouts.              *)
Longest == IF Soft < Hard THEN Hard ELSE Soft

VARIABLES
  mode,        \* "create" or "reuse"
  autoDism,    \* auto_dismantle
  deleteOn,    \* instance.delete_on_dismantle
  status,      \* field status of worker:<name>, "none" when there is no hash
  vm,          \* [state, checked]: "on" or "off", and what is known of this VM
  creations,   \* VMs made for this worker
  setup,       \* setup thread: [pc, ready, valid] with its two retry counters
  service,     \* "none", "installing", "up", "ended" or "failed"
  keeper,      \* the keeper's thread, see KeeperLoop
  jobs,        \* BudgetKeeper.jobs, "none" for a key that is not there
  doneFiles,    \* jobs with a .done file
  idle,        \* ticks since last_usage_time
  age,         \* ticks since add_job of a running task
  since,       \* the keeper's local time_since_last_usage
  scan,        \* the keeper's iterator over jobs: [size, seen]
  known,       \* history: the tasks in the table when the keeper read the clock
  jobsRunning, \* the keeper's local jobs_running
  ending       \* run_worker has left its consumers and calls stop_instance

config == <<mode, autoDism, deleteOn>>
setupVars == <<setup, creations>>
keeperVars == <<keeper, since, scan, known, jobsRunning>>
usage == <<jobs, doneFiles, idle, age>>
vmVars == <<config, status, vm, setupVars, service, keeperVars, usage, ending>>

VMTypeOK ==
  /\ mode \in {"create", "reuse"} /\ autoDism \in BOOLEAN /\ deleteOn \in BOOLEAN
  /\ status \in {"none", "starting", "error", "started", "installing", "active",
                 "stopped"}
  /\ vm \in [state : {"on", "off"}, checked : {"new", "ready", "valid"}]
  /\ creations \in 1 .. Retries * Retries
  /\ setup \in [pc : {"hget", "ready", "valid", "install", "hset", "ended", "failed"},
                ready : 1 .. Retries, valid : 1 .. Retries]
  /\ service \in {"none", "installing", "up", "ended", "failed"}
  /\ keeper \in {"off", "loop", "scan", "len", "all", "soft", "hard", "stop", "ended", "dead"}
  /\ jobs \in [VMTasks -> {"none", "running", "done"}]
  /\ doneFiles \subseteq VMTasks
  /\ idle \in 0 .. Longest /\ since \in 0 .. Longest /\ age \in [VMTasks -> 0 .. Longest]
  /\ scan \in [size : 0 .. Cardinality(VMTasks), seen : SUBSET VMTasks]
  /\ known \subseteq VMTasks /\ jobsRunning \in BOOLEAN /\ ending \in BOOLEAN

VMInit ==
  /\ mode \in {"create", "reuse"} /\ autoDism \in BOOLEAN /\ deleteOn \in BOOLEAN
  /\ status = "none"
  /\ vm = [state |-> "on", checked |-> "new"]
  /\ creations = 1
  /\ setup = [pc |-> "hget", ready |-> 1, valid |-> 1]
  /\ service = "none"
  /\ keeper = "off"
  /\ jobs = [j \in VMTasks |-> "none"]
  /\ doneFiles = {}
  /\ idle = 0 /\ since = 0 /\ age = [j \in VMTasks |-> 0]
  /\ scan = [size |-> 0, seen |-> {}] /\ known = {}
  /\ jobsRunning = FALSE
  /\ ending = FALSE

-----------------------------------------------------------------------------
(* setup_worker_create_reuse                                                 *)

(* An ACTIVE worker is left alone; otherwise its hash is written.            *)
Save ==
  /\ setup.pc = "hget"
  /\ IF status = "active"
     THEN setup' = [setup EXCEPT !.pc = "ended"] /\ UNCHANGED status
     ELSE setup' = [setup EXCEPT !.pc = "ready"] /\ status' = "starting"
  /\ UNCHANGED <<config, vm, creations, service, keeperVars, usage, ending>>

WaitReady ==
  /\ setup.pc = "ready" /\ vm.state = "on"
  /\ vm' = [vm EXCEPT !.checked = "ready"]
  /\ setup' = [setup EXCEPT !.pc = "valid"]
  /\ UNCHANGED <<config, status, creations, service, keeperVars, usage, ending>>

LastTry(n) == n = Retries

(* TimeoutError: delete and create, or give up after the last try.           *)
ReadyTimeout ==
  /\ setup.pc = "ready"
  /\ status' = "error"
  /\ IF LastTry(setup.ready)
     THEN setup' = [setup EXCEPT !.pc = "failed"] /\ UNCHANGED <<vm, creations>>
     ELSE /\ setup' = [setup EXCEPT !.ready = @ + 1]
          /\ vm' = [state |-> "on", checked |-> "new"]
          /\ creations' = creations + 1
  /\ UNCHANGED <<config, service, keeperVars, usage, ending>>

(* After a failed validation the new VM goes through the wait of above.      *)
AfterRecreateSkip == "valid"
AfterRecreate == "ready"

ValidationError ==
  /\ setup.pc = "valid"
  /\ status' = "error"
  /\ IF LastTry(setup.valid)
     THEN setup' = [setup EXCEPT !.pc = "failed"] /\ UNCHANGED <<vm, creations>>
     ELSE /\ setup' = [pc |-> AfterRecreate, ready |-> 1, valid |-> setup.valid + 1]
          /\ vm' = [state |-> "on", checked |-> "new"]
          /\ creations' = creations + 1
  /\ UNCHANGED <<config, service, keeperVars, usage, ending>>

Validate ==
  /\ setup.pc = "valid" /\ vm.state = "on"
  /\ vm' = [vm EXCEPT !.checked = IF @ = "ready" THEN "valid" ELSE @]
  /\ status' = "started"
  /\ setup' = [setup EXCEPT !.pc = "install"]
  /\ UNCHANGED <<config, creations, service, keeperVars, usage, ending>>

(* The installation script is uploaded and started, and not waited for.      *)
Install ==
  /\ setup.pc = "install" /\ vm.state = "on"
  /\ service' = "installing"
  /\ setup' = [setup EXCEPT !.pc = "hset"]
  /\ UNCHANGED <<config, status, vm, creations, keeperVars, usage, ending>>

InstallError ==
  /\ setup.pc = "install"
  /\ status' = "error"
  /\ setup' = [setup EXCEPT !.pc = "failed"]
  /\ UNCHANGED <<config, vm, creations, service, keeperVars, usage, ending>>

SetInstalling ==
  /\ setup.pc = "hset"
  /\ status' = "installing"
  /\ setup' = [setup EXCEPT !.pc = "ended"]
  /\ UNCHANGED <<config, vm, creations, service, keeperVars, usage, ending>>

-----------------------------------------------------------------------------
(* run_worker                                                                *)

ServiceStarts ==
  /\ service = "installing" /\ vm.state = "on"
  /\ service' = "up"
  /\ status' = "active"
  /\ keeper' = "loop" /\ idle' = 0
  /\ UNCHANGED <<config, vm, setupVars, since, scan, known, jobsRunning, jobs, doneFiles, age,
                 ending>>

ServiceFails ==
  /\ service = "installing"
  /\ service' = "failed"
  /\ UNCHANGED <<config, status, vm, setupVars, keeperVars, usage, ending>>

(* A consumer takes a task: budget_keeper.add_job.                           *)
AddJob(j) ==
  /\ service = "up" /\ vm.state = "on" /\ ~ending /\ jobs[j] = "none"
  /\ jobs' = [jobs EXCEPT ![j] = "running"]
  /\ idle' = 0 /\ age' = [age EXCEPT ![j] = 0]
  /\ UNCHANGED <<config, status, vm, setupVars, service, keeperVars, doneFiles, ending>>

JobDone(j) ==
  /\ vm.state = "on" /\ jobs[j] # "none" /\ j \notin doneFiles
  /\ doneFiles' = doneFiles \cup {j}
  /\ age' = [age EXCEPT ![j] = 0]
  /\ UNCHANGED <<config, status, vm, setupVars, service, keeperVars, jobs, idle, ending>>

Running(j) == jobs[j] # "none" /\ j \notin doneFiles

(* In create mode the consumers end with the queue, and run_worker stops the *)
(* VM itself.                                                                *)
ConsumersEnd ==
  /\ mode = "create" /\ service = "up" /\ vm.state = "on" /\ ~ending
  /\ \A j \in VMTasks : ~Running(j)
  /\ ending' = TRUE
  /\ UNCHANGED <<config, status, vm, setupVars, service, keeperVars, usage>>

-----------------------------------------------------------------------------
(* BudgetKeeper                                                              *)

Keys == {j \in VMTasks : jobs[j] # "none"}

(* The top of the loop: the time since the last use is read once.            *)
KeeperTurn ==
  /\ keeper = "loop" /\ vm.state = "on"
  /\ since' = idle
  /\ known' = Keys
  /\ scan' = [size |-> Cardinality(Keys), seen |-> {}]
  /\ keeper' = "scan"
  /\ UNCHANGED <<config, status, vm, setupVars, service, jobsRunning, usage, ending>>

(* What next() of an iterator over the table does: a job that was added      *)
(* since it was made changes the size of the dictionary, and the thread ends *)
(* with an exception.                                                        *)
Grown == Cardinality(Keys) # scan.size
KeeperDies ==
  /\ keeper \in {"scan", "all"} /\ vm.state = "on" /\ Grown
  /\ keeper' = "dead"
  /\ UNCHANGED <<config, status, vm, setupVars, service, since, scan, known, jobsRunning,
                 usage, ending>>

Exhausted == scan.seen = Keys
NoScan == [size |-> 0, seen |-> {}]

(* The loop that marks the jobs that have a file.                            *)
KeeperScan ==
  /\ keeper = "scan" /\ vm.state = "on" /\ ~Grown
  /\ \/ /\ Exhausted
        /\ keeper' = "len"
        /\ scan' = NoScan /\ UNCHANGED jobs
     \/ \E j \in Keys \ scan.seen :
        /\ jobs' = IF j \in doneFiles THEN [jobs EXCEPT ![j] = "done"] ELSE jobs
        /\ scan' = [scan EXCEPT !.seen = @ \cup {j}]
        /\ UNCHANGED keeper
  /\ UNCHANGED <<config, status, vm, setupVars, service, since, known, jobsRunning, doneFiles,
                 idle, age, ending>>

(* len(self.jobs) > 0, and a new iterator for all().  The table may have     *)
(* grown since the loop over it, which nothing notices.                      *)
KeeperLen ==
  /\ keeper = "len" /\ vm.state = "on"
  /\ keeper' = IF Keys = {} THEN "hard" ELSE "all"
  /\ scan' = [size |-> Cardinality(Keys), seen |-> {}]
  /\ UNCHANGED <<config, status, vm, setupVars, service, since, known, jobsRunning, usage, ending>>

(* all() goes on while the values are DONE.                                  *)
GoesOnAlways(j) == TRUE
GoesOn(j) == jobs[j] = "done"

KeeperAll ==
  /\ keeper = "all" /\ vm.state = "on" /\ ~Grown
  /\ \/ /\ Exhausted
        /\ keeper' = IF autoDism THEN "soft" ELSE "hard"
        /\ scan' = NoScan
     \/ \E j \in Keys \ scan.seen :
        /\ keeper' = IF GoesOn(j) THEN "all" ELSE "hard"
        /\ scan' = IF GoesOn(j) THEN [scan EXCEPT !.seen = @ \cup {j}] ELSE NoScan
  /\ UNCHANGED <<config, status, vm, setupVars, service, since, known, jobsRunning, usage, ending>>

AfterResetKept == TRUE
AfterReset == FALSE

(* All jobs are done: the soft timeout counts from the moment that this is   *)
(* seen first, and the clock is read again; a sleep leads back to the top.   *)
KeeperSoft ==
  /\ keeper = "soft" /\ vm.state = "on"
  /\ LET idleNow == IF jobsRunning THEN 0 ELSE idle
     IN  /\ idle' = idleNow
         /\ keeper' = IF Soft - idleNow > 0 THEN "loop" ELSE "stop"
  /\ jobsRunning' = AfterReset /\ since' = 0
  /\ UNCHANGED <<config, status, vm, setupVars, service, scan, known, jobs, doneFiles, age,
                 ending>>

(* The hard timeout is compared with the time read at the top of the loop.   *)
KeeperHard ==
  /\ keeper = "hard" /\ vm.state = "on"
  /\ keeper' = IF Hard - since > 0 THEN "loop" ELSE "stop"
  /\ jobsRunning' = TRUE /\ since' = 0
  /\ UNCHANGED <<config, status, vm, setupVars, service, scan, known, usage, ending>>

(* stop_instance: the callback tells Redis first, then the VM is stopped, or *)
(* the call fails and the loop goes on.  The main thread of run_worker calls *)
(* it too.                                                                   *)
StopCallback == status' = IF deleteOn THEN "none" ELSE "stopped"

KeeperStop ==
  /\ keeper = "stop" /\ vm.state = "on"
  /\ StopCallback
  /\ vm' = [vm EXCEPT !.state = "off"] /\ keeper' = "ended"
  /\ UNCHANGED <<config, setupVars, service, since, scan, known, jobsRunning, usage, ending>>

KeeperStopFails ==
  /\ keeper = "stop" /\ vm.state = "on"
  /\ StopCallback
  /\ keeper' = "loop"
  /\ UNCHANGED <<config, vm, setupVars, service, since, scan, known, jobsRunning, usage, ending>>

WorkerStop ==
  /\ ending /\ service = "up" /\ vm.state = "on"
  /\ service' = "ended"
  /\ StopCallback
  /\ \/ vm' = [vm EXCEPT !.state = "off"] /\ keeper' = "ended"
     \/ UNCHANGED <<vm, keeper>>
  /\ UNCHANGED <<config, setupVars, since, scan, known, jobsRunning, usage, ending>>

(* clear() of the client deletes the VMs it created, whatever they do.       *)
ClientClear ==
  /\ mode = "create" /\ vm.state = "on"
  /\ vm' = [vm EXCEPT !.state = "off"]
  /\ UNCHANGED <<config, status, setupVars, service, keeperVars, usage, ending>>

Tick ==
  /\ vm.state = "on" /\ keeper \notin {"off", "ended", "dead"} /\ idle < Longest
  /\ idle' = idle + 1
  /\ age' = [j \in VMTasks |-> IF Running(j) /\ age[j] < Longest THEN age[j] + 1 ELSE age[j]]
  /\ UNCHANGED <<config, status, vm, setupVars, service, keeperVars, jobs, doneFiles, ending>>

SetupStep ==
  \/ Save \/ WaitReady \/ ReadyTimeout \/ ValidationError \/ Validate
  \/ Install \/ InstallError \/ SetInstalling
ServiceStep == ServiceStarts \/ ServiceFails \/ WorkerStop
KeeperLoop ==
  KeeperTurn \/ KeeperScan \/ KeeperLen \/ KeeperAll \/ KeeperDies \/ KeeperSoft \/ KeeperHard

VMNext ==
  \/ SetupStep \/ ServiceStep \/ KeeperLoop \/ KeeperStop \/ KeeperStopFails
  \/ \E j \in VMTasks : AddJob(j) \/ JobDone(j)
  \/ ConsumersEnd \/ ClientClear \/ Tick

(* The threads run and time passes; a cloud that is asked to stop a VM again *)
(* and again does so in the end.  Nothing is said of tasks: they may hang.   *)
VMFairness ==
  /\ WF_vmVars(SetupStep) /\ WF_vmVars(ServiceStep) /\ WF_vmVars(KeeperLoop)
  /\ SF_vmVars(KeeperStop) /\ WF_vmVars(Tick)

VMSpec == VMInit /\ [][VMNext]_vmVars /\ VMFairness

-----------------------------------------------------------------------------
(* A VM is only offered for work after it was seen ready and validated, and  *)
(* not one of its predecessors of the same name: each retry of either loop   *)
(* puts a new VM behind the worker's name.                                   *)
StartedIsValidated ==
  status \in {"started", "installing", "active"} => vm.checked = "valid"

(* The keeper does not turn the VM off under a task that was in its table    *)
(* when it read the clock, unless the task is older than the hard timeout.   *)
(* A task taken between that moment and the call is lost, whatever its age:  *)
(* the keeper goes on with the time it has read, or notices nothing.         *)
NoJobCutShort ==
  [][KeeperStop => \A j \in known : Running(j) => age[j] >= Hard]_vmVars

(* A worker whose service started is turned off in the end, even if its      *)
(* tasks hang, unless the keeper's thread died on a table that grew while it *)
(* read it.                                                                  *)
Dismantled ==
  service = "up" ~> (vm.state = "off" \/ keeper = "dead")

=============================================================================
