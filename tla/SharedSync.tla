----------------------------- MODULE SharedSync -----------------------------
(* The synchronization objects of lithops.multiprocessing: a Condition over  *)
(* a Lock kept as Redis lists (synchronize.py), and the three objects made   *)
(* of one: Event, JoinableQueue (queues.py) and Barrier, whose algorithm is  *)
(* that of threading.Barrier.                                                *)
(*                                                                           *)
(* A step is a Redis command.  The processes share one object, of the kind   *)
(* chosen at the start, and make up to MaxOps calls each.                    *)
EXTENDS Integers, Sequences, FiniteSets

CONSTANTS Procs, MaxOps

ASSUME SharedSyncAssumption == IsFiniteSet(Procs) /\ Procs # {} /\ MaxOps \in Nat

VARIABLES
  kind,     \* "event", "queue" or "barrier"
  pc,       \* next command of a process
  ret,      \* where its wait() or notify_all() returns to
  calls,    \* calls it has made
  lock,     \* llen of the list of the Lock
  notifyQ,  \* list of wait handles: a process, or "gone" after its timeout
  told,     \* handles notify_all() of a process has read
  token,    \* processes whose wait handle holds a token
  flag,     \* Event: the flag
  items,    \* JoinableQueue: llen of the list of items
  sem,      \* JoinableQueue: llen of _unfinished_tasks
  state,    \* Barrier: 0 filling, 1 draining
  count,    \* Barrier: processes inside
  puts, dones, due,  \* history: put() and task_done() made, puts before a join()
  entered, passed    \* history: rounds of the barrier a process is in, is through

objects == <<flag, items, sem, state, count>>
history == <<puts, dones, due, entered, passed>>
vars == <<kind, pc, ret, calls, lock, notifyQ, told, token, objects, history>>

Calls == CASE kind = "event" -> {"set", "clear", "ewait"}
           [] kind = "queue" -> {"put", "get", "join"}
           [] kind = "barrier" -> {"enter"}

Init ==
  /\ kind \in {"event", "queue", "barrier"}
  /\ pc = [p \in Procs |-> "idle"]
  /\ ret = [p \in Procs |-> "release"]
  /\ calls = [p \in Procs |-> 0]
  /\ lock = 1
  /\ notifyQ = <<>> /\ told = [p \in Procs |-> <<>>] /\ token = {}
  /\ flag = FALSE
  /\ items = 0 /\ sem = 0
  /\ state = 0 /\ count = 0
  /\ puts = 0 /\ dones = 0 /\ due = [p \in Procs |-> 0]
  /\ entered = [p \in Procs |-> 0] /\ passed = [p \in Procs |-> 0]

Goto(p, label) == pc' = [pc EXCEPT ![p] = label]

(* Every call but get() begins with "with self._cond".                       *)
Call(p) ==
  /\ pc[p] = "idle" /\ calls[p] < MaxOps
  /\ calls' = [calls EXCEPT ![p] = @ + 1]
  /\ \E op \in Calls :
       /\ Goto(p, IF op = "get" THEN "get" ELSE "acquire")
       /\ ret' = [ret EXCEPT ![p] = op]
  /\ UNCHANGED <<kind, lock, notifyQ, told, token, objects, history>>

-----------------------------------------------------------------------------
(* Lock and Condition                                                        *)

Acquire(p) ==
  /\ pc[p] = "acquire" /\ lock > 0
  /\ lock' = lock - 1
  /\ Goto(p, ret[p])
  /\ due' = IF ret[p] = "join" THEN [due EXCEPT ![p] = puts] ELSE due
  /\ entered' = IF ret[p] = "enter" /\ entered[p] = passed[p]
                THEN [entered EXCEPT ![p] = @ + 1] ELSE entered
  /\ UNCHANGED <<kind, ret, calls, notifyQ, told, token, objects, puts, dones, passed>>

(* The script never lets the list grow past max_value.                       *)
Released == IF lock >= 1 THEN lock ELSE lock + 1

Release(p) ==
  /\ pc[p] = "release"
  /\ lock' = Released
  /\ Goto(p, "idle")
  /\ UNCHANGED <<kind, ret, calls, notifyQ, told, token, objects, history>>

(* Condition.wait: the handle is in the list before the lock is released.    *)
WaitOrderSwapped == [first |-> "unlock", second |-> "enqueue"]
WaitOrder == [first |-> "enqueue", second |-> "unlock"]

After(label) == IF label = WaitOrder.first THEN WaitOrder.second ELSE "sleep"

Enqueue(p) ==
  /\ pc[p] = "enqueue"
  /\ notifyQ' = Append(notifyQ, p)
  /\ Goto(p, After("enqueue"))
  /\ UNCHANGED <<kind, ret, calls, lock, told, token, objects, history>>

Unlock(p) ==
  /\ pc[p] = "unlock"
  /\ lock' = Released
  /\ Goto(p, After("unlock"))
  /\ UNCHANGED <<kind, ret, calls, notifyQ, told, token, objects, history>>

AfterSleepUnlocked(p) == ret[p]
AfterSleep(p) == "acquire"

Sleep(p) ==
  /\ pc[p] = "sleep" /\ p \in token
  /\ token' = token \ {p}
  /\ Goto(p, AfterSleep(p))
  /\ UNCHANGED <<kind, ret, calls, lock, notifyQ, told, objects, history>>

(* Only a wait() on an Event is given a timeout here.  The handle stays in   *)
(* the list; wait_for() finds its time used up and returns.                  *)
Timeout(p) ==
  /\ kind = "event" /\ pc[p] = "sleep" /\ p \notin token
  /\ LET gone(s) == [i \in DOMAIN s |-> IF s[i] = p THEN "gone" ELSE s[i]]
     IN  /\ notifyQ' = gone(notifyQ)
         /\ told' = [q \in Procs |-> gone(told[q])]
  /\ ret' = [ret EXCEPT ![p] = "release"]
  /\ Goto(p, "acquire")
  /\ UNCHANGED <<kind, calls, lock, token, objects, history>>

(* notify_all: lrange, delete, and a token for each handle read.             *)
ReadHandles(p) ==
  /\ pc[p] = "notify"
  /\ told' = [told EXCEPT ![p] = notifyQ]
  /\ Goto(p, "delete")
  /\ UNCHANGED <<kind, ret, calls, lock, notifyQ, token, objects, history>>

DeleteHandles(p) ==
  /\ pc[p] = "delete"
  /\ notifyQ' = <<>>
  /\ Goto(p, "push")
  /\ UNCHANGED <<kind, ret, calls, lock, told, token, objects, history>>

PushTokens(p) ==
  /\ pc[p] = "push"
  /\ token' = token \cup ({told[p][i] : i \in DOMAIN told[p]} \ {"gone"})
  /\ told' = [told EXCEPT ![p] = <<>>]
  /\ Goto(p, ret[p])
  /\ UNCHANGED <<kind, ret, calls, lock, notifyQ, objects, history>>

(* What a call does next: wait() or notify_all(), and then where it goes on. *)
Then(p, label, back) == Goto(p, label) /\ ret' = [ret EXCEPT ![p] = back]

-----------------------------------------------------------------------------
(* Event                                                                     *)

Set(p) ==
  /\ pc[p] = "set"
  /\ flag' = TRUE
  /\ Then(p, "notify", "release")
  /\ UNCHANGED <<kind, calls, lock, notifyQ, told, token, items, sem, state, count, history>>

Clear(p) ==
  /\ pc[p] = "clear"
  /\ flag' = FALSE
  /\ Then(p, "release", "release")
  /\ UNCHANGED <<kind, calls, lock, notifyQ, told, token, items, sem, state, count, history>>

(* wait_for: the flag is tested again after each notification.               *)
TestFlag(p) ==
  /\ pc[p] = "ewait"
  /\ IF flag THEN Then(p, "release", "release") ELSE Then(p, WaitOrder.first, "ewait")
  /\ UNCHANGED <<kind, calls, lock, notifyQ, told, token, objects, history>>

-----------------------------------------------------------------------------
(* JoinableQueue                                                             *)

PutItem(p) ==
  /\ pc[p] = "put"
  /\ items' = items + 1 /\ puts' = puts + 1
  /\ Goto(p, "putSem")
  /\ UNCHANGED <<kind, ret, calls, lock, notifyQ, told, token, flag, sem, state, count,
                 dones, due, entered, passed>>

(* _unfinished_tasks is a Semaphore, so its list may grow to SEM_VALUE_MAX.  *)
SemMax == 2 ^ 30

PutSem(p) ==
  /\ pc[p] = "putSem"
  /\ sem' = IF sem >= SemMax THEN sem ELSE sem + 1
  /\ Goto(p, "release")
  /\ UNCHANGED <<kind, ret, calls, lock, notifyQ, told, token, flag, items, state, count,
                 history>>

HasItem == items > 0

(* get() takes no lock; the process then calls task_done().                  *)
Get(p) ==
  /\ pc[p] = "get" /\ HasItem
  /\ items' = items - 1
  /\ Then(p, "acquire", "done")
  /\ UNCHANGED <<kind, calls, lock, notifyQ, told, token, flag, sem, state, count, history>>

TaskDone(p) ==
  /\ pc[p] = "done" /\ sem > 0
  /\ sem' = sem - 1 /\ dones' = dones + 1
  /\ Goto(p, "doneTest")
  /\ UNCHANGED <<kind, ret, calls, lock, notifyQ, told, token, flag, items, state, count,
                 puts, due, entered, passed>>

NoneLeftEarly == sem <= 1
NoneLeft == sem = 0

TaskDoneTest(p) ==
  /\ pc[p] = "doneTest"
  /\ Then(p, IF NoneLeft THEN "notify" ELSE "release", "release")
  /\ UNCHANGED <<kind, calls, lock, notifyQ, told, token, objects, history>>

(* join() waits once and does not test again.                                *)
Join(p) ==
  /\ pc[p] = "join"
  /\ IF sem # 0 THEN Then(p, WaitOrder.first, "joined") ELSE Then(p, "joined", "joined")
  /\ UNCHANGED <<kind, calls, lock, notifyQ, told, token, objects, history>>

Joined(p) ==
  /\ pc[p] = "joined"
  /\ Then(p, "release", "release")
  /\ UNCHANGED <<kind, calls, lock, notifyQ, told, token, objects, history>>

-----------------------------------------------------------------------------
(* Barrier of all processes                                                  *)

DrainingIgnored == FALSE
Draining == state = 1

Enter(p) ==
  /\ pc[p] = "enter"
  /\ IF Draining
     THEN Then(p, WaitOrder.first, "enter") /\ UNCHANGED count
     ELSE /\ count' = count + 1
          /\ IF count + 1 = Cardinality(Procs) THEN Then(p, "open", "open")
             ELSE Then(p, "fill", "fill")
  /\ UNCHANGED <<kind, calls, lock, notifyQ, told, token, flag, items, sem, state, history>>

Open(p) ==
  /\ pc[p] = "open"
  /\ state' = 1
  /\ Then(p, "notify", "exit")
  /\ UNCHANGED <<kind, calls, lock, notifyQ, told, token, flag, items, sem, count, history>>

Fill(p) ==
  /\ pc[p] = "fill"
  /\ IF state # 0 THEN Then(p, "exit", "exit") ELSE Then(p, WaitOrder.first, "fill")
  /\ UNCHANGED <<kind, calls, lock, notifyQ, told, token, objects, history>>

AfterDrainedSilent == "release"
AfterDrained == "notify"

Exit(p) ==
  /\ pc[p] = "exit"
  /\ count' = count - 1
  /\ passed' = [passed EXCEPT ![p] = @ + 1]
  /\ IF count = 1 /\ state = 1
     THEN state' = 0 /\ Then(p, AfterDrained, "release")
     ELSE Then(p, "release", "release") /\ UNCHANGED state
  /\ UNCHANGED <<kind, calls, lock, notifyQ, told, token, flag, items, sem, puts, dones,
                 due, entered>>

-----------------------------------------------------------------------------
ConditionStep(p) ==
  \/ Acquire(p) \/ Release(p) \/ Enqueue(p) \/ Unlock(p) \/ Sleep(p)
  \/ ReadHandles(p) \/ DeleteHandles(p) \/ PushTokens(p)
EventStep(p) == Set(p) \/ Clear(p) \/ TestFlag(p)
QueueStep(p) ==
  \/ PutItem(p) \/ PutSem(p) \/ Get(p) \/ TaskDone(p) \/ TaskDoneTest(p)
  \/ Join(p) \/ Joined(p)
BarrierStep(p) == Enter(p) \/ Open(p) \/ Fill(p) \/ Exit(p)
ProcStep(p) == ConditionStep(p) \/ EventStep(p) \/ QueueStep(p) \/ BarrierStep(p)

Next == \E p \in Procs : Call(p) \/ ProcStep(p) \/ Timeout(p)

(* A process that has begun a call runs; it may make no further one, except  *)
(* that the parties of a barrier all come.                                   *)
Fairness == \A p \in Procs : WF_vars(ProcStep(p) \/ (kind = "barrier" /\ Call(p)))

Spec == Init /\ [][Next]_vars /\ Fairness

-----------------------------------------------------------------------------
Labels == {"idle", "acquire", "release", "enqueue", "unlock", "sleep", "notify",
           "delete", "push", "set", "clear", "ewait", "get", "put", "putSem", "done",
           "doneTest", "join", "joined", "enter", "open", "fill", "exit"}

TypeOK ==
  /\ kind \in {"event", "queue", "barrier"}
  /\ pc \in [Procs -> Labels] /\ ret \in [Procs -> Labels]
  /\ calls \in [Procs -> 0 .. MaxOps]
  /\ lock \in 0 .. 1
  /\ notifyQ \in Seq(Procs \cup {"gone"})
  /\ told \in [Procs -> Seq(Procs \cup {"gone"})]
  /\ token \subseteq Procs
  /\ flag \in BOOLEAN /\ items \in Nat /\ sem \in Nat
  /\ state \in 0 .. 1 /\ count \in 0 .. Cardinality(Procs)
  /\ puts \in Nat /\ dones \in Nat /\ due \in [Procs -> Nat]
  /\ entered \in [Procs -> Nat] /\ passed \in [Procs -> Nat]

Holds(p) == pc[p] \notin {"idle", "acquire", "sleep", "get"}

(* The list of the Lock and the processes that believe they hold it add up   *)
(* to one through every wait(), so two bodies of "with cond" never overlap.  *)
LockExclusive == lock + Cardinality({p \in Procs : Holds(p)}) = 1

(* join() does not return before every task put when it began is done,       *)
(* although it waits once and does not look again when it is woken.          *)
JoinTruthful == \A p \in Procs : pc[p] = "joined" => dones >= due[p]

(* No process is through a round of the barrier that another has not come    *)
(* to, also when a fast one comes back while the round before still drains.  *)
BarrierTogether == \A p, q \in Procs : passed[p] <= entered[q]

InEventWait(p) ==
  \/ kind = "event" /\ pc[p] \in {"ewait", "enqueue", "unlock", "sleep"}
  \/ kind = "event" /\ pc[p] = "acquire" /\ ret[p] = "ewait"

(* No wake-up is lost: a process in Event.wait() returns unless the event is *)
(* cleared.                                                                  *)
EventWakes ==
  \A p \in Procs : (InEventWait(p) /\ flag) ~> (~InEventWait(p) \/ ~flag)

(* Every party passes all rounds of the barrier.                             *)
BarrierEnds == kind = "barrier" ~> \A p \in Procs : passed[p] = MaxOps

=============================================================================
