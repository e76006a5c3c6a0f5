-------------------------- MODULE SharedSync_proofs --------------------------
(* Proofs about SharedSync, for any processes and any number of calls: type  *)
(* correctness, mutual exclusion of the bodies of "with cond", that join()   *)
(* tells the truth, and that nobody leaves a round of the barrier early.     *)
EXTENDS SharedSync, FiniteSetTheorems, TLAPS

USE SharedSyncAssumption

-----------------------------------------------------------------------------
(* Type correctness.                                                         *)

(* Which commands a process can be at, and where its wait() or notify_all()  *)
(* returns to, for each kind of object.                                      *)
OwnLabel(l) ==
  /\ l \in {"set", "clear", "ewait"} => kind = "event"
  /\ l \in {"put", "putSem", "get", "done", "doneTest", "join", "joined"} => kind = "queue"
  /\ l \in {"enter", "open", "fill", "exit"} => kind = "barrier"

ReturnsTo(l, b) ==
  /\ l = "acquire" =>
       \/ kind = "event" /\ b \in {"set", "clear", "ewait", "release"}
       \/ kind = "queue" /\ b \in {"put", "join", "done", "joined"}
       \/ kind = "barrier" /\ b \in {"enter", "fill"}
  /\ l \in {"enqueue", "unlock", "sleep"} =>
       \/ kind = "event" /\ b = "ewait"
       \/ kind = "queue" /\ b = "joined"
       \/ kind = "barrier" /\ b \in {"enter", "fill"}
  /\ l \in {"notify", "delete", "push"} =>
       b = "release" \/ (kind = "barrier" /\ b = "exit")

Shapes == \A p \in Procs : OwnLabel(pc[p]) /\ ReturnsTo(pc[p], ret[p])

(* The part of TypeOK that needs no counting, and the labels.                *)
TypeInv ==
  /\ kind \in {"event", "queue", "barrier"}
  /\ pc \in [Procs -> Labels] /\ ret \in [Procs -> Labels]
  /\ calls \in [Procs -> 0 .. MaxOps]
  /\ lock \in 0 .. 1
  /\ notifyQ \in Seq(Procs \cup {"gone"})
  /\ told \in [Procs -> Seq(Procs \cup {"gone"})]
  /\ token \subseteq Procs
  /\ flag \in BOOLEAN /\ items \in Nat /\ sem \in Nat
  /\ state \in 0 .. 1 /\ count \in Int
  /\ puts \in Nat /\ dones \in Nat /\ due \in [Procs -> Nat]
  /\ entered \in [Procs -> Nat] /\ passed \in [Procs -> Nat]
  /\ Shapes

LEMMA TypeInit == Init => TypeInv
<1> SUFFICES ASSUME Init
             PROVE  TypeInv
  OBVIOUS
<1>1. Shapes
  BY DEF Init, Shapes, OwnLabel, ReturnsTo
<1>2. /\ pc \in [Procs -> Labels] /\ ret \in [Procs -> Labels]
      /\ calls \in [Procs -> 0 .. MaxOps]
  BY DEF Init, Labels
<1>3. notifyQ \in Seq(Procs \cup {"gone"}) /\ told \in [Procs -> Seq(Procs \cup {"gone"})]
  BY DEF Init
<1>4. /\ due \in [Procs -> Nat]
      /\ entered \in [Procs -> Nat] /\ passed \in [Procs -> Nat]
  BY DEF Init
<1>5. /\ kind \in {"event", "queue", "barrier"} /\ token \subseteq Procs
      /\ lock \in 0 .. 1 /\ state \in 0 .. 1 /\ count \in Int
      /\ items \in Nat /\ sem \in Nat /\ puts \in Nat /\ dones \in Nat
  BY DEF Init
<1>6. flag \in BOOLEAN
  BY DEF Init
<1> QED BY <1>1, <1>2, <1>3, <1>4, <1>5, <1>6 DEF TypeInv

(* What a call that goes on at l, to return to b, must keep to.              *)
LEMMA Moves ==
    ASSUME TypeInv, NEW p \in Procs, NEW l \in Labels, NEW b \in Labels, UNCHANGED kind,
           Then(p, l, b), OwnLabel(l), ReturnsTo(l, b)
    PROVE  Shapes' /\ pc' \in [Procs -> Labels] /\ ret' \in [Procs -> Labels]
<1>1. /\ pc' = [pc EXCEPT ![p] = l] /\ ret' = [ret EXCEPT ![p] = b]
      /\ pc \in [Procs -> Labels] /\ ret \in [Procs -> Labels]
  BY DEF Then, Goto, TypeInv
<1>2. ASSUME NEW q \in Procs
      PROVE  OwnLabel(pc[q])' /\ ReturnsTo(pc[q], ret[q])'
  <2>1. CASE q = p
    BY <1>1, <2>1 DEF OwnLabel, ReturnsTo
  <2>2. CASE q # p
    BY <1>1, <2>2 DEF OwnLabel, ReturnsTo, TypeInv, Shapes
  <2> QED BY <2>1, <2>2
<1> QED BY <1>1, <1>2 DEF Shapes

(* The steps of Lock and Condition ...                                       *)
LEMMA ConditionTypes ==
    ASSUME TypeInv, NEW p \in Procs, ConditionStep(p)
    PROVE  TypeInv'
<1> USE DEF TypeInv, Labels, Shapes, OwnLabel, ReturnsTo, Goto, objects, history
<1>1. CASE Acquire(p)
  <2>1. due' \in [Procs -> Nat] /\ entered' \in [Procs -> Nat] /\ lock' \in 0 .. 1
    BY <1>1 DEF Acquire
  <2>2. pc' = [pc EXCEPT ![p] = ret[p]] /\ pc[p] = "acquire"
    BY <1>1 DEF Acquire
  <2>3. UNCHANGED <<kind, ret>>
    BY <1>1 DEF Acquire
  <2>4. Shapes' /\ pc' \in [Procs -> Labels]
    BY <2>2, <2>3
  <2> QED BY <1>1, <2>1, <2>2, <2>3, <2>4 DEF Acquire
<1>2. CASE Release(p)
  <2>1. pc' = [pc EXCEPT ![p] = "idle"] /\ pc[p] = "release" /\ UNCHANGED <<kind, ret>>
    BY <1>2 DEF Release
  <2>2. Shapes' /\ pc' \in [Procs -> Labels]
    BY <2>1
  <2>3. lock' \in 0 .. 1
    BY <1>2 DEF Release, Released
  <2> QED BY <1>2, <2>2, <2>3 DEF Release
<1>3. CASE Enqueue(p)
  <2>1. notifyQ' \in Seq(Procs \cup {"gone"})
    BY <1>3 DEF Enqueue
  <2>2. pc' = [pc EXCEPT ![p] = "unlock"] /\ pc[p] = "enqueue" /\ UNCHANGED <<kind, ret>>
    BY <1>3 DEF Enqueue, After, WaitOrder
  <2>3. Shapes' /\ pc' \in [Procs -> Labels]
    BY <2>2
  <2> QED BY <1>3, <2>1, <2>2, <2>3 DEF Enqueue
<1>4. CASE Unlock(p)
  <2>1. pc' = [pc EXCEPT ![p] = "sleep"] /\ pc[p] = "unlock" /\ UNCHANGED <<kind, ret>>
    BY <1>4 DEF Unlock, After, WaitOrder
  <2>2. Shapes' /\ pc' \in [Procs -> Labels]
    BY <2>1
  <2>3. lock' \in 0 .. 1
    BY <1>4 DEF Unlock, Released
  <2> QED BY <1>4, <2>2, <2>3 DEF Unlock
<1>5. CASE Sleep(p)
  <2>1. pc' = [pc EXCEPT ![p] = "acquire"] /\ pc[p] = "sleep" /\ UNCHANGED <<kind, ret>>
    BY <1>5 DEF Sleep, AfterSleep
  <2>2. Shapes' /\ pc' \in [Procs -> Labels]
    BY <2>1
  <2> QED BY <1>5, <2>2 DEF Sleep
<1>6. CASE ReadHandles(p)
  <2>1. pc' = [pc EXCEPT ![p] = "delete"] /\ pc[p] = "notify" /\ UNCHANGED <<kind, ret>>
    BY <1>6 DEF ReadHandles
  <2>2. Shapes' /\ pc' \in [Procs -> Labels]
    BY <2>1
  <2>3. told' \in [Procs -> Seq(Procs \cup {"gone"})]
    BY <1>6 DEF ReadHandles
  <2> QED BY <1>6, <2>2, <2>3 DEF ReadHandles
<1>7. CASE DeleteHandles(p)
  <2>1. pc' = [pc EXCEPT ![p] = "push"] /\ pc[p] = "delete" /\ UNCHANGED <<kind, ret>>
    BY <1>7 DEF DeleteHandles
  <2>2. Shapes' /\ pc' \in [Procs -> Labels]
    BY <2>1
  <2>3. notifyQ' \in Seq(Procs \cup {"gone"})
    BY <1>7 DEF DeleteHandles
  <2> QED BY <1>7, <2>2, <2>3 DEF DeleteHandles
<1>8. CASE PushTokens(p)
  <2>1. pc' = [pc EXCEPT ![p] = ret[p]] /\ pc[p] = "push" /\ UNCHANGED <<kind, ret>>
    BY <1>8 DEF PushTokens
  <2>2. Shapes' /\ pc' \in [Procs -> Labels]
    BY <2>1
  <2>3. told' \in [Procs -> Seq(Procs \cup {"gone"})]
    <3>1. told' = [told EXCEPT ![p] = <<>>]
      BY <1>8 DEF PushTokens
    <3> QED BY <3>1
  <2>4. token' \subseteq Procs
    <3>1. \A i \in DOMAIN told[p] : told[p][i] \in Procs \cup {"gone"}
      OBVIOUS
    <3> QED BY <1>8, <3>1 DEF PushTokens
  <2> QED BY <1>8, <2>2, <2>3, <2>4 DEF PushTokens
<1> QED BY <1>1, <1>2, <1>3, <1>4, <1>5, <1>6, <1>7, <1>8 DEF ConditionStep

(* ... and of the three objects.                                             *)
LEMMA EventTypes ==
    ASSUME TypeInv, NEW p \in Procs, EventStep(p)
    PROVE  TypeInv'
<1> USE DEF TypeInv, Labels, Shapes, OwnLabel, ReturnsTo, Goto, objects, history
<1>1. CASE Set(p)
  BY <1>1 DEF Set, Then
<1>2. CASE Clear(p)
  BY <1>2 DEF Clear, Then
<1>3. CASE TestFlag(p)
  <2>1. UNCHANGED kind /\ kind = "event"
    BY <1>3 DEF TestFlag
  <2>2. \/ Then(p, "release", "release")
        \/ Then(p, "enqueue", "ewait")
    BY <1>3 DEF TestFlag, WaitOrder
  <2>3. /\ OwnLabel("release") /\ ReturnsTo("release", "release")
        /\ OwnLabel("enqueue") /\ ReturnsTo("enqueue", "ewait")
    BY <2>1
  <2>4. {"enqueue", "ewait", "release"} \subseteq Labels
    OBVIOUS
  <2>5. Shapes' /\ pc' \in [Procs -> Labels] /\ ret' \in [Procs -> Labels]
    BY <2>1, <2>2, <2>3, <2>4, Moves
  <2> QED BY <1>3, <2>5 DEF TestFlag
<1> QED BY <1>1, <1>2, <1>3 DEF EventStep

LEMMA QueueTypes ==
    ASSUME TypeInv, NEW p \in Procs, QueueStep(p)
    PROVE  TypeInv'
<1> USE DEF TypeInv, Labels, Shapes, OwnLabel, ReturnsTo, Goto, objects, history
<1>1. CASE PutItem(p)
  BY <1>1 DEF PutItem
<1>2. CASE PutSem(p)
  <2>1. sem' \in Nat
    BY <1>2 DEF PutSem
  <2>2. pc' = [pc EXCEPT ![p] = "release"] /\ pc[p] = "putSem" /\ UNCHANGED <<kind, ret>>
    BY <1>2 DEF PutSem
  <2>3. Shapes' /\ pc' \in [Procs -> Labels]
    BY <2>2
  <2> QED BY <1>2, <2>1, <2>2, <2>3 DEF PutSem
<1>3. CASE Get(p)
  BY <1>3 DEF Get, Then, HasItem
<1>4. CASE TaskDone(p)
  BY <1>4 DEF TaskDone
<1>5. CASE TaskDoneTest(p)
  BY <1>5 DEF TaskDoneTest, Then
<1>6. CASE Join(p)
  <2>1. UNCHANGED kind /\ kind = "queue"
    BY <1>6 DEF Join
  <2>2. \/ Then(p, "joined", "joined")
        \/ Then(p, "enqueue", "joined")
    BY <1>6 DEF Join, WaitOrder
  <2>3. /\ OwnLabel("joined") /\ ReturnsTo("joined", "joined")
        /\ OwnLabel("enqueue") /\ ReturnsTo("enqueue", "joined")
    BY <2>1
  <2>4. {"enqueue", "joined"} \subseteq Labels
    OBVIOUS
  <2>5. Shapes' /\ pc' \in [Procs -> Labels] /\ ret' \in [Procs -> Labels]
    BY <2>1, <2>2, <2>3, <2>4, Moves
  <2> QED BY <1>6, <2>5 DEF Join
<1>7. CASE Joined(p)
  BY <1>7 DEF Joined, Then
<1> QED BY <1>1, <1>2, <1>3, <1>4, <1>5, <1>6, <1>7 DEF QueueStep

LEMMA BarrierTypes ==
    ASSUME TypeInv, NEW p \in Procs, BarrierStep(p)
    PROVE  TypeInv'
<1> USE DEF TypeInv, Labels, Shapes, OwnLabel, ReturnsTo, Goto, objects, history
<1>1. CASE Enter(p)
  <2>1. UNCHANGED kind /\ kind = "barrier"
    BY <1>1 DEF Enter
  <2>2. \/ Then(p, "enqueue", "enter")
        \/ Then(p, "open", "open")
        \/ Then(p, "fill", "fill")
    BY <1>1 DEF Enter, WaitOrder
  <2>3. /\ OwnLabel("enqueue") /\ ReturnsTo("enqueue", "enter")
        /\ OwnLabel("open") /\ ReturnsTo("open", "open")
        /\ OwnLabel("fill") /\ ReturnsTo("fill", "fill")
    BY <2>1
  <2>4. {"enqueue", "enter", "fill", "open"} \subseteq Labels
    OBVIOUS
  <2>5. Shapes' /\ pc' \in [Procs -> Labels] /\ ret' \in [Procs -> Labels]
    BY <2>1, <2>2, <2>3, <2>4, Moves
  <2>6. count' \in Int
    BY <1>1 DEF Enter
  <2> QED BY <1>1, <2>5, <2>6 DEF Enter
<1>2. CASE Open(p)
  BY <1>2 DEF Open, Then
<1>3. CASE Fill(p)
  <2>1. UNCHANGED kind /\ kind = "barrier"
    BY <1>3 DEF Fill
  <2>2. \/ Then(p, "exit", "exit")
        \/ Then(p, "enqueue", "fill")
    BY <1>3 DEF Fill, WaitOrder
  <2>3. /\ OwnLabel("exit") /\ ReturnsTo("exit", "exit")
        /\ OwnLabel("enqueue") /\ ReturnsTo("enqueue", "fill")
    BY <2>1
  <2>4. {"enqueue", "exit", "fill"} \subseteq Labels
    OBVIOUS
  <2>5. Shapes' /\ pc' \in [Procs -> Labels] /\ ret' \in [Procs -> Labels]
    BY <2>1, <2>2, <2>3, <2>4, Moves
  <2> QED BY <1>3, <2>5 DEF Fill
<1>4. CASE Exit(p)
  <2>1. UNCHANGED kind /\ kind = "barrier"
    BY <1>4 DEF Exit
  <2>2. \/ Then(p, "notify", "release")
        \/ Then(p, "release", "release")
    BY <1>4 DEF Exit, AfterDrained
  <2>3. /\ OwnLabel("notify") /\ ReturnsTo("notify", "release")
        /\ OwnLabel("release") /\ ReturnsTo("release", "release")
    BY <2>1
  <2>4. {"notify", "release"} \subseteq Labels
    OBVIOUS
  <2>5. Shapes' /\ pc' \in [Procs -> Labels] /\ ret' \in [Procs -> Labels]
    BY <2>1, <2>2, <2>3, <2>4, Moves
  <2>6. count' \in Int /\ state' \in 0 .. 1 /\ passed' \in [Procs -> Nat]
    BY <1>4 DEF Exit
  <2> QED BY <1>4, <2>5, <2>6 DEF Exit
<1> QED BY <1>1, <1>2, <1>3, <1>4 DEF BarrierStep

LEMMA TypeStep == TypeInv /\ [Next]_vars => TypeInv'
<1> SUFFICES ASSUME TypeInv, [Next]_vars
             PROVE  TypeInv'
  OBVIOUS
<1>1. ASSUME NEW p \in Procs, Call(p)
      PROVE  TypeInv'
  <2>1. PICK op \in Calls : Then(p, IF op = "get" THEN "get" ELSE "acquire", op)
    BY <1>1 DEF Call, Then
  <2>2. op \in {"set", "clear", "ewait", "put", "get", "join", "enter"}
    BY DEF Calls, TypeInv
  <2>3. OwnLabel("get") \/ op # "get"
    BY DEF Calls, OwnLabel, TypeInv
  <2>4. ReturnsTo("get", op) /\ OwnLabel("acquire") /\ (op = "get" \/ ReturnsTo("acquire", op))
    BY DEF Calls, OwnLabel, ReturnsTo, TypeInv
  <2>5. UNCHANGED kind /\ op \in Labels /\ {"get", "acquire"} \subseteq Labels
    BY <1>1, <2>2 DEF Call, Labels
  <2>6. Shapes' /\ pc' \in [Procs -> Labels] /\ ret' \in [Procs -> Labels]
    BY <2>1, <2>3, <2>4, <2>5, Moves
  <2>7. calls' \in [Procs -> 0 .. MaxOps]
    BY <1>1 DEF Call, TypeInv
  <2> QED BY <1>1, <2>6, <2>7 DEF Call, TypeInv, objects, history
<1>2. ASSUME NEW p \in Procs, ProcStep(p)
      PROVE  TypeInv'
  BY <1>2, ConditionTypes, EventTypes, QueueTypes, BarrierTypes DEF ProcStep
<1>3. ASSUME NEW p \in Procs, Timeout(p)
      PROVE  TypeInv'
  <2>1. Then(p, "acquire", "release") /\ kind = "event" /\ UNCHANGED kind
    BY <1>3 DEF Timeout, Then
  <2>2. OwnLabel("acquire") /\ ReturnsTo("acquire", "release")
    BY <2>1 DEF OwnLabel, ReturnsTo
  <2>3. Shapes' /\ pc' \in [Procs -> Labels] /\ ret' \in [Procs -> Labels]
    BY <2>1, <2>2, Moves DEF Labels
  <2>4. \A s \in Seq(Procs \cup {"gone"}) :
          [i \in DOMAIN s |-> IF s[i] = p THEN "gone" ELSE s[i]] \in Seq(Procs \cup {"gone"})
    OBVIOUS
  <2>5. notifyQ' \in Seq(Procs \cup {"gone"}) /\ told' \in [Procs -> Seq(Procs \cup {"gone"})]
    BY <1>3, <2>4 DEF Timeout, TypeInv
  <2> QED BY <1>3, <2>3, <2>5 DEF Timeout, TypeInv, objects, history
<1>4. CASE UNCHANGED vars
  BY <1>4 DEF vars, objects, history, TypeInv, Shapes, OwnLabel, ReturnsTo
<1> QED BY <1>1, <1>2, <1>3, <1>4 DEF Next

-----------------------------------------------------------------------------
(* Mutual exclusion.                                                         *)

Holders == {p \in Procs : Holds(p)}

(* The holders are counted.                                                  *)
LEMMA HoldersFinite == IsFiniteSet(Holders) /\ Cardinality(Holders) \in Nat
BY FS_Subset, FS_CardinalityType DEF Holders

(* What the count means: who holds the lock is alone with it.                *)
LEMMA HolderAlone ==
    ASSUME TypeInv, LockExclusive
    PROVE  /\ \A p \in Procs : Holds(p) => lock = 0
           /\ \A p, q \in Procs : Holds(p) /\ Holds(q) => p = q
           /\ lock = 1 => \A p \in Procs : ~Holds(p)
<1>1. lock + Cardinality(Holders) = 1 /\ lock \in 0 .. 1
  BY DEF LockExclusive, Holders, TypeInv
<1>2. lock = 1 => Holders = {}
  BY <1>1, HoldersFinite, FS_EmptySet
<1>3. lock = 0 => \E h : Holders = {h}
  <2>1. lock = 0 => Cardinality(Holders) = 1
    BY <1>1, HoldersFinite
  <2> QED BY <2>1, HoldersFinite, FS_Singleton, Zenon
<1> QED BY <1>1, <1>2, <1>3 DEF Holders

LEMMA LockInit == Init => LockExclusive
<1> SUFFICES ASSUME Init
             PROVE  LockExclusive
  OBVIOUS
<1>1. {p \in Procs : Holds(p)} = {}
  BY DEF Init, Holds
<1>2. Cardinality({}) = 0 /\ lock = 1
  BY FS_EmptySet DEF Init
<1> QED BY <1>1, <1>2 DEF LockExclusive

(* The three ways a step can treat the lock.                                 *)
LEMMA LockKept ==
    ASSUME LockExclusive, UNCHANGED lock, \A p \in Procs : Holds(p)' <=> Holds(p)
    PROVE  LockExclusive'
<1>1. {p \in Procs : Holds(p)}' = {p \in Procs : Holds(p)}
  OBVIOUS
<1> QED BY <1>1 DEF LockExclusive

LEMMA LockTaken ==
    ASSUME LockExclusive, NEW p \in Procs, ~Holds(p), lock' = lock - 1, lock \in 0 .. 1,
           Holds(p)', \A q \in Procs \ {p} : Holds(q)' <=> Holds(q)
    PROVE  LockExclusive'
<1>1. {q \in Procs : Holds(q)}' = Holders \cup {p}
  BY DEF Holders
<1>2. Cardinality(Holders \cup {p}) = Cardinality(Holders) + 1
  BY HoldersFinite, FS_AddElement DEF Holders
<1> QED BY <1>1, <1>2, HoldersFinite DEF LockExclusive, Holders

LEMMA LockGiven ==
    ASSUME TypeInv, LockExclusive, NEW p \in Procs, Holds(p), lock' = Released,
           ~Holds(p)', \A q \in Procs \ {p} : Holds(q)' <=> Holds(q)
    PROVE  LockExclusive'
<1>1. {q \in Procs : Holds(q)}' = Holders \ {p}
  BY DEF Holders
<1>2. Cardinality(Holders \ {p}) = Cardinality(Holders) - 1
  BY HoldersFinite, FS_RemoveElement DEF Holders
<1>3. lock = 0 /\ lock' = 1
  BY HolderAlone DEF Released
<1> QED BY <1>1, <1>2, <1>3, HoldersFinite DEF LockExclusive, Holders

(* Only these three take the lock or let go of it.                            *)
LEMMA LockMoves ==
    ASSUME TypeInv, LockExclusive, NEW p \in Procs,
           Acquire(p) \/ Release(p) \/ Unlock(p)
    PROVE  LockExclusive'
<1> USE DEF Goto
<1>1. pc \in [Procs -> Labels]
  BY DEF TypeInv
<1>2. CASE Acquire(p)
  <2>1. Holds(p)' /\ ~Holds(p)
    BY <1>2, <1>1 DEF Acquire, Holds, TypeInv, Shapes, ReturnsTo
  <2>2. \A q \in Procs \ {p} : Holds(q)' <=> Holds(q)
    BY <1>2, <1>1 DEF Acquire, Holds
  <2> QED BY <1>2, <2>1, <2>2, LockTaken DEF Acquire, TypeInv
<1>3. CASE Release(p)
  <2>1. Holds(p) /\ ~Holds(p)' /\ \A q \in Procs \ {p} : Holds(q)' <=> Holds(q)
    BY <1>3, <1>1 DEF Release, Holds
  <2> QED BY <1>3, <2>1, LockGiven DEF Release
<1>4. CASE Unlock(p)
  <2>1. Holds(p) /\ ~Holds(p)' /\ \A q \in Procs \ {p} : Holds(q)' <=> Holds(q)
    BY <1>4, <1>1 DEF Unlock, Holds, After, WaitOrder
  <2> QED BY <1>4, <2>1, LockGiven DEF Unlock
<1> QED BY <1>2, <1>3, <1>4

LEMMA LockStep == TypeInv /\ LockExclusive /\ [Next]_vars => LockExclusive'
<1> SUFFICES ASSUME TypeInv, LockExclusive, [Next]_vars
             PROVE  LockExclusive'
  OBVIOUS
<1>1. pc \in [Procs -> Labels]
  BY DEF TypeInv
<1> USE DEF Goto, Then, Holds
<1>2. ASSUME NEW p \in Procs,
             Call(p) \/ Sleep(p) \/ Timeout(p) \/ Get(p)
      PROVE  LockExclusive'
  <2>1. UNCHANGED lock /\ \A q \in Procs \ {p} : Holds(q)' <=> Holds(q)
    BY <1>1, <1>2 DEF Call, Sleep, AfterSleep, Timeout, Get
  <2>2. ~Holds(p) /\ ~Holds(p)'
    BY <1>1, <1>2 DEF Call, Sleep, AfterSleep, Timeout, Get
  <2> QED BY <2>1, <2>2, LockKept
<1>3. ASSUME NEW p \in Procs,
             \/ Enqueue(p) \/ ReadHandles(p) \/ DeleteHandles(p) \/ PushTokens(p)
             \/ EventStep(p)
      PROVE  LockExclusive'
  <2>1. UNCHANGED lock /\ \A q \in Procs \ {p} : Holds(q)' <=> Holds(q)
    BY <1>1, <1>3 DEF Enqueue, ReadHandles, DeleteHandles, PushTokens, EventStep,
                      Set, Clear, TestFlag
  <2>2. Holds(p) /\ Holds(p)'
    BY <1>1, <1>3 DEF Enqueue, ReadHandles, DeleteHandles, PushTokens, EventStep,
                      Set, Clear, TestFlag, After, WaitOrder, TypeInv, Shapes, ReturnsTo
  <2> QED BY <2>1, <2>2, LockKept
<1>4. ASSUME NEW p \in Procs, QueueStep(p), ~Get(p)
      PROVE  LockExclusive'
  <2>1. UNCHANGED lock /\ \A q \in Procs \ {p} : Holds(q)' <=> Holds(q)
    BY <1>1, <1>4 DEF QueueStep, PutItem, PutSem, TaskDone, TaskDoneTest, Join, Joined
  <2>2. Holds(p) /\ Holds(p)'
    BY <1>1, <1>4 DEF QueueStep, PutItem, PutSem, TaskDone, TaskDoneTest, Join, Joined,
                      WaitOrder
  <2> QED BY <2>1, <2>2, LockKept
<1>5. ASSUME NEW p \in Procs, BarrierStep(p)
      PROVE  LockExclusive'
  <2>1. UNCHANGED lock /\ \A q \in Procs \ {p} : Holds(q)' <=> Holds(q)
    BY <1>1, <1>5 DEF BarrierStep, Enter, Open, Fill, Exit
  <2>2. Holds(p) /\ Holds(p)'
    BY <1>1, <1>5 DEF BarrierStep, Enter, Open, Fill, Exit, WaitOrder, AfterDrained
  <2> QED BY <2>1, <2>2, LockKept
<1>6. CASE UNCHANGED vars
  BY <1>6, LockKept DEF vars
<1> QED BY <1>2, <1>3, <1>4, <1>5, <1>6, LockMoves
        DEF Next, ProcStep, ConditionStep, QueueStep

(* Two processes are never inside "with cond" together, through every wait() *)
(* and notification, and the lock is never left taken by nobody.             *)
THEOREM MutualExclusion == Spec => []LockExclusive
<1> QED BY TypeInit, TypeStep, LockInit, LockStep, PTL DEF Spec

-----------------------------------------------------------------------------
(* The queue.  A call counts towards _unfinished_tasks from its putSem on.   *)
(* All of it holds while fewer than SemMax calls were put: beyond, the       *)
(* semaphore stays at SemMax and calls are forgotten.                        *)

(* The semaphore is the number of calls put and not done, but for the        *)
(* process between put and putSem.                                           *)
SemCounts ==
  /\ \A p \in Procs : pc[p] = "putSem" => sem + dones + 1 = puts
  /\ (\A p \in Procs : pc[p] # "putSem") => sem + dones = puts

(* A waiter's handle is in the list from its enqueue to its delete, then in  *)
(* the hands of the notifier, then a token; notified means truth.            *)
Waiting(p) == \E i \in DOMAIN notifyQ : notifyQ[i] = p
Told(p) == \E q \in Procs : \E i \in DOMAIN told[q] : told[q][i] = p

QueueWaits ==
  /\ \A p \in Procs : Waiting(p) => pc[p] \in {"unlock", "sleep"}
  /\ \A p \in Procs : Told(p) \/ p \in token => pc[p] = "sleep" /\ dones >= due[p]
  /\ \A p \in Procs : p \in token => ~Waiting(p) /\ ~Told(p)
  /\ \A q \in Procs : told[q] # <<>> => pc[q] \in {"delete", "push"}
  /\ \A q \in Procs : pc[q] = "push" => notifyQ = <<>>
  /\ \A q \in Procs : pc[q] \in {"notify", "delete", "push"} => sem = 0

JoinsTrue ==
  /\ \A p \in Procs : due[p] <= puts
  /\ \A p \in Procs : pc[p] = "joined" => dones >= due[p]
  /\ \A p \in Procs : pc[p] = "acquire" /\ ret[p] = "joined" => dones >= due[p]

QueueInv ==
  (kind = "queue" /\ puts <= SemMax) => SemCounts /\ QueueWaits /\ JoinsTrue

LEMMA SemMaxType == SemMax \in Nat
BY DEF SemMax

LEMMA QueueInit == Init => QueueInv
BY DEF Init, QueueInv, SemCounts, QueueWaits, JoinsTrue, Waiting, Told

(* One process takes a step on a queue, of which at most SemMax calls were   *)
(* put; no other process holds the lock.                                     *)
LEMMA QueueMoves ==
    ASSUME TypeInv, LockExclusive, QueueInv, kind = "queue", puts' <= SemMax,
           NEW p \in Procs, Call(p) \/ ConditionStep(p) \/ QueueStep(p)
    PROVE  SemCounts' /\ QueueWaits' /\ JoinsTrue'
<1> USE DEF Goto, Then, objects, history
<1>1. /\ pc \in [Procs -> Labels] /\ ret \in [Procs -> Labels]
      /\ sem \in Nat /\ puts \in Nat /\ dones \in Nat /\ due \in [Procs -> Nat]
      /\ told \in [Procs -> Seq(Procs \cup {"gone"})]
      /\ notifyQ \in Seq(Procs \cup {"gone"}) /\ token \subseteq Procs
      /\ lock \in 0 .. 1 /\ Shapes
  BY DEF TypeInv
<1>2. SemCounts /\ QueueWaits /\ JoinsTrue
  <2>1. puts <= puts'
    BY <1>1 DEF Call, ConditionStep, QueueStep, PutItem, Acquire, Release, Enqueue,
       Unlock, Sleep, ReadHandles, DeleteHandles, PushTokens, PutSem, Get, TaskDone,
       TaskDoneTest, Join, Joined
  <2>2. puts \in Nat /\ puts' \in Nat /\ SemMax \in Nat
    <3>1. TypeInv'
      BY TypeStep DEF Next, ProcStep
    <3> QED BY <1>1, <3>1, SemMaxType DEF TypeInv
  <2> QED BY <2>1, <2>2 DEF QueueInv
<1>3. /\ \A q \in Procs : Holds(q) => lock = 0
      /\ Holds(p) => \A q \in Procs \ {p} : pc[q] \in {"idle", "acquire", "sleep", "get"}
  BY HolderAlone DEF Holds
<1>4. CASE Call(p)
  <2>1. SemCounts'
    BY <1>1, <1>2, <1>3, <1>4 DEF Call, Calls, SemCounts, Holds, Shapes, ReturnsTo
  <2>2. QueueWaits'
    BY <1>1, <1>2, <1>3, <1>4 DEF Call, Calls, QueueWaits, Waiting, Told, Holds, Shapes, ReturnsTo
  <2>3. JoinsTrue'
    BY <1>1, <1>2, <1>3, <1>4 DEF Call, Calls, JoinsTrue, SemCounts, QueueWaits, Holds, Shapes, ReturnsTo
  <2> QED BY <2>1, <2>2, <2>3
<1>5. CASE Acquire(p)
  <2>1. SemCounts'
    BY <1>1, <1>2, <1>3, <1>5 DEF Acquire, SemCounts, Holds, Shapes, ReturnsTo
  <2>2. QueueWaits'
    <3>1. /\ pc' = [pc EXCEPT ![p] = ret[p]] /\ pc[p] = "acquire"
          /\ ret[p] \in {"put", "join", "done", "joined"}
      BY <1>1, <1>2, <1>3, <1>5 DEF Acquire, Shapes, ReturnsTo
    <3>2. UNCHANGED <<notifyQ, told, token, sem, dones>>
      BY <1>5 DEF Acquire
    <3>3. \A q \in Procs : Told(q) \/ q \in token => due'[q] = due[q]
      BY <1>1, <1>2, <1>3, <1>5 DEF Acquire, QueueWaits
    <3>4. \A q \in Procs : (Waiting(q)' <=> Waiting(q)) /\ (Told(q)' <=> Told(q))
      BY <3>2 DEF Waiting, Told
    <3>5. \A q \in Procs : pc[q] \notin {"notify", "delete", "push"}
      <4>1. lock # 0
        BY <1>1, <1>5 DEF Acquire
      <4>2. \A q \in Procs : ~Holds(q)
        BY <1>3, <4>1
      <4> QED BY <4>2 DEF Holds
    <3>6. \A q \in Procs : pc'[q] \notin {"notify", "delete", "push"}
      BY <1>1, <3>1, <3>5
    <3>7. ~Waiting(p) /\ ~Told(p) /\ p \notin token
      BY <1>2, <3>1 DEF QueueWaits
    <3>8. \A q \in Procs \ {p} : pc'[q] = pc[q]
      BY <1>1, <3>1
    <3> QED BY <1>1, <1>2, <3>2, <3>3, <3>4, <3>5, <3>6, <3>7, <3>8 DEF QueueWaits
  <2>3. JoinsTrue'
    BY <1>1, <1>2, <1>3, <1>5 DEF Acquire, JoinsTrue, SemCounts, QueueWaits, Holds, Shapes, ReturnsTo
  <2> QED BY <2>1, <2>2, <2>3
<1>6. CASE Release(p)
  <2>1. SemCounts'
    BY <1>1, <1>2, <1>3, <1>6 DEF Release, Released, SemCounts, Holds, Shapes, ReturnsTo
  <2>2. QueueWaits'
    BY <1>1, <1>2, <1>3, <1>6 DEF Release, Released, QueueWaits, Waiting, Told, Holds, Shapes, ReturnsTo
  <2>3. JoinsTrue'
    BY <1>1, <1>2, <1>3, <1>6 DEF Release, Released, JoinsTrue, SemCounts, QueueWaits, Holds, Shapes, ReturnsTo
  <2> QED BY <2>1, <2>2, <2>3
<1>7. CASE Enqueue(p)
  <2>1. SemCounts'
    BY <1>1, <1>2, <1>3, <1>7 DEF Enqueue, After, WaitOrder, SemCounts, Holds, Shapes, ReturnsTo
  <2>2. QueueWaits'
    <3>1. /\ pc' = [pc EXCEPT ![p] = "unlock"] /\ pc[p] = "enqueue"
          /\ UNCHANGED <<told, token, sem, dones, due>>
          /\ notifyQ' = Append(notifyQ, p)
      BY <1>7 DEF Enqueue, After, WaitOrder
    <3>2. \A q \in Procs : Waiting(q)' => Waiting(q) \/ q = p
      BY <1>1, <3>1 DEF Waiting
    <3>3. \A q \in Procs : Told(q)' <=> Told(q)
      BY <3>1 DEF Told
    <3>4. \A q \in Procs : pc[q] # "push"
      BY <1>1, <1>2, <1>3, <3>1 DEF Holds
    <3> QED BY <1>1, <1>2, <1>3, <3>1, <3>2, <3>3, <3>4 DEF QueueWaits, Holds
  <2>3. JoinsTrue'
    BY <1>1, <1>2, <1>3, <1>7 DEF Enqueue, After, WaitOrder, JoinsTrue, SemCounts, QueueWaits, Holds, Shapes, ReturnsTo
  <2> QED BY <2>1, <2>2, <2>3
<1>8. CASE Unlock(p)
  <2>1. SemCounts'
    BY <1>1, <1>2, <1>3, <1>8 DEF Unlock, Released, After, WaitOrder, SemCounts, Holds, Shapes, ReturnsTo
  <2>2. QueueWaits'
    BY <1>1, <1>2, <1>3, <1>8 DEF Unlock, Released, After, WaitOrder, QueueWaits, Waiting, Told, Holds, Shapes, ReturnsTo
  <2>3. JoinsTrue'
    BY <1>1, <1>2, <1>3, <1>8 DEF Unlock, Released, After, WaitOrder, JoinsTrue, SemCounts, QueueWaits, Holds, Shapes, ReturnsTo
  <2> QED BY <2>1, <2>2, <2>3
<1>9. CASE Sleep(p)
  <2>1. SemCounts'
    BY <1>1, <1>2, <1>3, <1>9 DEF Sleep, AfterSleep, SemCounts, Holds, Shapes, ReturnsTo
  <2>2. QueueWaits'
    BY <1>1, <1>2, <1>3, <1>9 DEF Sleep, AfterSleep, QueueWaits, Waiting, Told, Holds, Shapes, ReturnsTo
  <2>3. JoinsTrue'
    BY <1>1, <1>2, <1>3, <1>9 DEF Sleep, AfterSleep, JoinsTrue, SemCounts, QueueWaits, Holds, Shapes, ReturnsTo
  <2> QED BY <2>1, <2>2, <2>3
<1>10. CASE ReadHandles(p)
  <2>1. SemCounts'
    BY <1>1, <1>2, <1>3, <1>10 DEF ReadHandles, SemCounts, Holds, Shapes, ReturnsTo
  <2>2. QueueWaits'
    <3>1. /\ pc' = [pc EXCEPT ![p] = "delete"] /\ pc[p] = "notify"
          /\ UNCHANGED <<notifyQ, token, sem, dones, due>>
          /\ told' = [told EXCEPT ![p] = notifyQ]
      BY <1>10 DEF ReadHandles
    <3>2. \A q \in Procs : Waiting(q)' <=> Waiting(q)
      BY <3>1 DEF Waiting
    <3>3. \A q \in Procs : Told(q)' => Told(q) \/ Waiting(q)
      BY <1>1, <3>1 DEF Told, Waiting
    <3>4. sem = 0 /\ dones = puts
      <4>1. sem = 0
        BY <1>2, <3>1 DEF QueueWaits
      <4>2. \A q \in Procs : pc[q] # "putSem"
        BY <1>3, <3>1 DEF Holds
      <4> QED BY <1>1, <1>2, <4>1, <4>2 DEF SemCounts
    <3>5. \A q \in Procs : Waiting(q) => pc[q] = "sleep" /\ dones >= due[q]
      BY <1>1, <1>2, <1>3, <3>1, <3>4 DEF QueueWaits, JoinsTrue, Holds
    <3> QED BY <1>1, <1>2, <1>3, <3>1, <3>2, <3>3, <3>4, <3>5 DEF QueueWaits
  <2>3. JoinsTrue'
    BY <1>1, <1>2, <1>3, <1>10 DEF ReadHandles, JoinsTrue, SemCounts, QueueWaits, Holds, Shapes, ReturnsTo
  <2> QED BY <2>1, <2>2, <2>3
<1>11. CASE DeleteHandles(p)
  <2>1. SemCounts'
    BY <1>1, <1>2, <1>3, <1>11 DEF DeleteHandles, SemCounts, Holds, Shapes, ReturnsTo
  <2>2. QueueWaits'
    BY <1>1, <1>2, <1>3, <1>11 DEF DeleteHandles, QueueWaits, Waiting, Told, Holds, Shapes, ReturnsTo
  <2>3. JoinsTrue'
    BY <1>1, <1>2, <1>3, <1>11 DEF DeleteHandles, JoinsTrue, SemCounts, QueueWaits, Holds, Shapes, ReturnsTo
  <2> QED BY <2>1, <2>2, <2>3
<1>12. CASE PushTokens(p)
  <2>1. SemCounts'
    BY <1>1, <1>2, <1>3, <1>12 DEF PushTokens, SemCounts, Holds, Shapes, ReturnsTo
  <2>2. QueueWaits'
    <3>1. /\ pc' = [pc EXCEPT ![p] = ret[p]] /\ pc[p] = "push" /\ ret[p] = "release"
          /\ UNCHANGED <<notifyQ, sem, dones, due>>
          /\ told' = [told EXCEPT ![p] = <<>>]
      BY <1>1, <1>12 DEF PushTokens, Shapes, ReturnsTo
    <3>2. \A q \in token' : q \in token \/ Told(q)
      BY <1>1, <1>12 DEF PushTokens, Told
    <3>3. notifyQ = <<>> /\ \A q \in Procs \ {p} : told[q] = <<>>
      BY <1>1, <1>2, <1>3, <3>1 DEF QueueWaits, Holds
    <3>4. \A q \in Procs : ~Told(q)'
      BY <1>1, <3>1, <3>3 DEF Told
    <3>5. \A q \in Procs : ~Waiting(q)'
      BY <3>1, <3>3 DEF Waiting
    <3>6. \A q \in Procs : pc'[q] \notin {"push", "delete", "notify"} /\ told'[q] = <<>>
      BY <1>1, <1>2, <1>3, <3>1, <3>3 DEF Holds
    <3> QED BY <1>1, <1>2, <1>3, <3>1, <3>2, <3>4, <3>5, <3>6 DEF QueueWaits
  <2>3. JoinsTrue'
    BY <1>1, <1>2, <1>3, <1>12 DEF PushTokens, JoinsTrue, SemCounts, QueueWaits, Holds, Shapes, ReturnsTo
  <2> QED BY <2>1, <2>2, <2>3
<1>13. CASE PutItem(p)
  <2>1. SemCounts'
    BY <1>1, <1>2, <1>3, <1>13 DEF PutItem, SemCounts, Holds, Shapes, ReturnsTo
  <2>2. QueueWaits'
    BY <1>1, <1>2, <1>3, <1>13 DEF PutItem, QueueWaits, Waiting, Told, Holds, Shapes, ReturnsTo
  <2>3. JoinsTrue'
    BY <1>1, <1>2, <1>3, <1>13 DEF PutItem, JoinsTrue, SemCounts, QueueWaits, Holds, Shapes, ReturnsTo
  <2> QED BY <2>1, <2>2, <2>3
<1>14. CASE PutSem(p)
  <2>1. SemCounts'
    <3>1. /\ pc' = [pc EXCEPT ![p] = "release"] /\ pc[p] = "putSem"
          /\ sem' = (IF sem >= SemMax THEN sem ELSE sem + 1) /\ UNCHANGED <<puts, dones>>
      BY <1>14 DEF PutSem
    <3>2. sem + dones + 1 = puts
      BY <1>2, <3>1 DEF SemCounts
    <3>3. sem' = sem + 1
      BY <1>1, <3>1, <3>2, SemMaxType
    <3>4. \A q \in Procs : pc'[q] # "putSem"
      BY <1>1, <1>3, <3>1 DEF Holds
    <3> QED BY <1>1, <3>1, <3>2, <3>3, <3>4 DEF SemCounts
  <2>2. QueueWaits'
    <3>1. /\ pc' = [pc EXCEPT ![p] = "release"] /\ pc[p] = "putSem"
          /\ UNCHANGED <<notifyQ, token, told, dones, due>>
      BY <1>14 DEF PutSem
    <3>2. \A q \in Procs : pc'[q] \notin {"push", "delete", "notify"}
      BY <1>1, <1>2, <1>3, <3>1 DEF Holds
    <3> QED BY <1>1, <1>2, <1>3, <3>1, <3>2 DEF QueueWaits, Waiting, Told
  <2>3. JoinsTrue'
    BY <1>1, <1>2, <1>3, <1>14 DEF PutSem, JoinsTrue, SemCounts, QueueWaits, Holds, Shapes, ReturnsTo
  <2> QED BY <2>1, <2>2, <2>3
<1>15. CASE Get(p)
  <2>1. SemCounts'
    BY <1>1, <1>2, <1>3, <1>15 DEF Get, HasItem, SemCounts, Holds, Shapes, ReturnsTo
  <2>2. QueueWaits'
    BY <1>1, <1>2, <1>3, <1>15 DEF Get, HasItem, QueueWaits, Waiting, Told, Holds, Shapes, ReturnsTo
  <2>3. JoinsTrue'
    BY <1>1, <1>2, <1>3, <1>15 DEF Get, HasItem, JoinsTrue, SemCounts, QueueWaits, Holds, Shapes, ReturnsTo
  <2> QED BY <2>1, <2>2, <2>3
<1>16. CASE TaskDone(p)
  <2>1. SemCounts'
    BY <1>1, <1>2, <1>3, <1>16 DEF TaskDone, SemCounts, Holds, Shapes, ReturnsTo
  <2>2. QueueWaits'
    BY <1>1, <1>2, <1>3, <1>16 DEF TaskDone, QueueWaits, Waiting, Told, Holds, Shapes, ReturnsTo
  <2>3. JoinsTrue'
    BY <1>1, <1>2, <1>3, <1>16 DEF TaskDone, JoinsTrue, SemCounts, QueueWaits, Holds, Shapes, ReturnsTo
  <2> QED BY <2>1, <2>2, <2>3
<1>17. CASE TaskDoneTest(p)
  <2>1. SemCounts'
    BY <1>1, <1>2, <1>3, <1>17 DEF TaskDoneTest, NoneLeft, SemCounts, Holds, Shapes, ReturnsTo
  <2>2. QueueWaits'
    BY <1>1, <1>2, <1>3, <1>17 DEF TaskDoneTest, NoneLeft, QueueWaits, Waiting, Told, Holds, Shapes, ReturnsTo
  <2>3. JoinsTrue'
    BY <1>1, <1>2, <1>3, <1>17 DEF TaskDoneTest, NoneLeft, JoinsTrue, SemCounts, QueueWaits, Holds, Shapes, ReturnsTo
  <2> QED BY <2>1, <2>2, <2>3
<1>18. CASE Join(p)
  <2>1. SemCounts'
    BY <1>1, <1>2, <1>3, <1>18 DEF Join, WaitOrder, SemCounts, Holds, Shapes, ReturnsTo
  <2>2. QueueWaits'
    <3>1. /\ pc' = [pc EXCEPT ![p] = IF sem # 0 THEN "enqueue" ELSE "joined"]
          /\ pc[p] = "join"
          /\ UNCHANGED <<notifyQ, token, told, sem, dones, due>>
      BY <1>18 DEF Join, WaitOrder
    <3> QED BY <1>1, <1>2, <1>3, <3>1 DEF QueueWaits, Waiting, Told
  <2>3. JoinsTrue'
    <3>1. /\ pc' = [pc EXCEPT ![p] = IF sem # 0 THEN "enqueue" ELSE "joined"]
          /\ pc[p] = "join" /\ UNCHANGED <<puts, dones, due>>
          /\ ret' = [ret EXCEPT ![p] = "joined"]
      BY <1>18 DEF Join, WaitOrder
    <3>2. sem = 0 => dones = puts
      <4>1. \A q \in Procs : pc[q] # "putSem"
        BY <1>3, <3>1 DEF Holds
      <4> QED BY <1>1, <1>2, <4>1 DEF SemCounts
    <3> QED BY <1>1, <1>2, <1>3, <3>1, <3>2 DEF JoinsTrue
  <2> QED BY <2>1, <2>2, <2>3
<1>19. CASE Joined(p)
  <2>1. SemCounts'
    BY <1>1, <1>2, <1>3, <1>19 DEF Joined, SemCounts, Holds, Shapes, ReturnsTo
  <2>2. QueueWaits'
    BY <1>1, <1>2, <1>3, <1>19 DEF Joined, QueueWaits, Waiting, Told, Holds, Shapes, ReturnsTo
  <2>3. JoinsTrue'
    BY <1>1, <1>2, <1>3, <1>19 DEF Joined, JoinsTrue, SemCounts, QueueWaits, Holds, Shapes, ReturnsTo
  <2> QED BY <2>1, <2>2, <2>3
<1> QED BY <1>4, <1>5, <1>6, <1>7, <1>8, <1>9, <1>10, <1>11, <1>12, <1>13, <1>14, <1>15, <1>16, <1>17, <1>18, <1>19 DEF ConditionStep, QueueStep

LEMMA QueueInvStep == TypeInv /\ LockExclusive /\ QueueInv /\ [Next]_vars => QueueInv'
<1> SUFFICES ASSUME TypeInv, LockExclusive, QueueInv, [Next]_vars,
                    kind' = "queue", puts' <= SemMax
             PROVE  (SemCounts /\ QueueWaits /\ JoinsTrue)'
  BY DEF QueueInv
<1>1. kind = "queue" /\ Shapes
  BY DEF Next, vars, ProcStep, ConditionStep, EventStep, QueueStep, BarrierStep, Call,
     Acquire, Release, Enqueue, Unlock, Sleep, ReadHandles, DeleteHandles, PushTokens,
     Timeout, Set, Clear, TestFlag, PutItem, PutSem, Get, TaskDone, TaskDoneTest, Join,
     Joined, Enter, Open, Fill, Exit, TypeInv
<1>2. CASE UNCHANGED vars
  BY <1>1, <1>2 DEF vars, objects, history, QueueInv, SemCounts, QueueWaits, JoinsTrue,
     Waiting, Told
<1>3. ASSUME NEW p \in Procs
      PROVE  ~EventStep(p) /\ ~BarrierStep(p) /\ ~Timeout(p)
  BY <1>1 DEF EventStep, BarrierStep, Timeout, Set, Clear, TestFlag, Enter, Open, Fill,
     Exit, Shapes, OwnLabel
<1> QED BY <1>1, <1>2, <1>3, QueueMoves DEF Next, ProcStep

(* join() tells the truth, as long as the semaphore has room for every call  *)
(* put: of more than SemMax it forgets some, and join() returns early.       *)
THEOREM JoinsTruthful == Spec => [](puts <= SemMax => JoinTruthful)
<1>1. TypeInv /\ QueueInv => (puts <= SemMax => JoinTruthful)
  BY DEF TypeInv, Shapes, OwnLabel, QueueInv, JoinsTrue, JoinTruthful
<1> QED BY <1>1, TypeInit, TypeStep, LockInit, LockStep, QueueInit, QueueInvStep, PTL
        DEF Spec

-----------------------------------------------------------------------------
(* The barrier.                                                              *)

(* The processes that count has counted: between enter and exit.             *)
Inside(p) ==
  \/ pc[p] \in {"open", "fill", "exit"}
  \/ pc[p] \in {"enqueue", "unlock", "sleep", "acquire"} /\ ret[p] = "fill"
  \/ pc[p] \in {"notify", "delete", "push"} /\ ret[p] = "exit"

(* In a round: from the lock taken to the exit.                              *)
Coming(p) ==
  \/ pc[p] = "enter"
  \/ pc[p] \in {"enqueue", "unlock", "sleep"} /\ ret[p] = "enter"

Counted == count = Cardinality({p \in Procs : Inside(p)})

InRound ==
  /\ \A p \in Procs : entered[p] \in {passed[p], passed[p] + 1}
  /\ \A p \in Procs : Inside(p) \/ Coming(p) => entered[p] = passed[p] + 1

(* The barrier opens when all are in, and is left only while it drains.      *)
Leaving(p) ==
  pc[p] = "exit" \/ (pc[p] \in {"notify", "delete", "push"} /\ ret[p] = "exit")

OpensFull ==
  /\ \A p \in Procs : pc[p] = "open" => count = Cardinality(Procs) /\ state = 0
  /\ \A p \in Procs : Leaving(p) => state = 1

(* While it fills, all are through as many rounds; while it drains, those    *)
(* still inside are one behind.                                              *)
Together ==
  /\ state = 0 => \A p, q \in Procs : passed[p] = passed[q]
  /\ state = 1 =>
       \A p, q \in Procs :
         /\ (Inside(p) <=> Inside(q)) => passed[q] = passed[p]
         /\ Inside(p) /\ ~Inside(q) => passed[q] = passed[p] + 1

Rounds == Counted /\ InRound /\ OpensFull /\ Together

BarrierInv ==
  IF kind = "barrier" THEN Rounds
  ELSE count = 0 /\ state = 0 /\ \A p \in Procs : passed[p] = 0

LEMMA BarrierInit == Init => BarrierInv
<1> SUFFICES ASSUME Init
             PROVE  BarrierInv
  OBVIOUS
<1>1. {p \in Procs : Inside(p)} = {}
  BY DEF Init, Inside
<1>2. Counted
  BY <1>1, FS_EmptySet DEF Init, Counted
<1>3. InRound /\ OpensFull /\ Together
  BY DEF Init, InRound, OpensFull, Together, Inside, Coming, Leaving
<1> QED BY <1>2, <1>3 DEF Init, BarrierInv, Rounds

InsideSet == {p \in Procs : Inside(p)}

LEMMA InsideFinite == IsFiniteSet(InsideSet) /\ Cardinality(InsideSet) \in Nat
BY FS_Subset, FS_CardinalityType DEF InsideSet

(* A step in which nobody comes in or goes out.                              *)
LEMMA RoundsKept ==
    ASSUME Rounds, UNCHANGED <<count, state, passed>>,
           \A q \in Procs : Inside(q)' <=> Inside(q),
           InRound', OpensFull'
    PROVE  Rounds'
<1>1. {q \in Procs : Inside(q)}' = {q \in Procs : Inside(q)}
  OBVIOUS
<1>2. Counted'
  BY <1>1 DEF Rounds, Counted
<1>3. Together'
  BY DEF Rounds, Together
<1> QED BY <1>2, <1>3 DEF Rounds

LEMMA BarrierMoves ==
    ASSUME TypeInv, LockExclusive, kind = "barrier", Rounds,
           NEW p \in Procs, Call(p) \/ ConditionStep(p) \/ Fill(p)
    PROVE  Rounds'
<1> USE DEF Goto, Then, objects, history, Labels
<1>1. /\ pc \in [Procs -> Labels] /\ ret \in [Procs -> Labels] /\ Shapes
      /\ entered \in [Procs -> Nat] /\ passed \in [Procs -> Nat] /\ state \in 0 .. 1
  BY DEF TypeInv
<1>2. UNCHANGED <<count, state, passed>>
  BY DEF Call, ConditionStep, Acquire, Release, Enqueue, Unlock, Sleep, ReadHandles,
     DeleteHandles, PushTokens, Fill
<1>3. InRound /\ OpensFull
  BY DEF Rounds
<1>4. CASE Call(p)
  <2>1. \A q \in Procs : Inside(q)' <=> Inside(q)
    BY <1>1, <1>4 DEF Call, Calls, Inside, Shapes, ReturnsTo
  <2>2. InRound'
    BY <1>1, <1>2, <1>3, <2>1, <1>4 DEF Call, Calls, InRound, Coming, Shapes, ReturnsTo
  <2>3. OpensFull'
    BY <1>1, <1>2, <1>3, <1>4 DEF Call, Calls, OpensFull, Leaving, Shapes, ReturnsTo
  <2> QED BY <1>2, <2>1, <2>2, <2>3, RoundsKept
<1>5. CASE Acquire(p)
  <2>1. \A q \in Procs : Inside(q)' <=> Inside(q)
    BY <1>1, <1>5 DEF Acquire, Inside, Shapes, ReturnsTo
  <2>2. InRound'
    BY <1>1, <1>2, <1>3, <2>1, <1>5 DEF Acquire, InRound, Coming, Shapes, ReturnsTo
  <2>3. OpensFull'
    BY <1>1, <1>2, <1>3, <1>5 DEF Acquire, OpensFull, Leaving, Shapes, ReturnsTo
  <2> QED BY <1>2, <2>1, <2>2, <2>3, RoundsKept
<1>6. CASE Release(p)
  <2>1. \A q \in Procs : Inside(q)' <=> Inside(q)
    BY <1>1, <1>6 DEF Release, Released, Inside, Shapes, ReturnsTo
  <2>2. InRound'
    BY <1>1, <1>2, <1>3, <2>1, <1>6 DEF Release, Released, InRound, Coming, Shapes, ReturnsTo
  <2>3. OpensFull'
    BY <1>1, <1>2, <1>3, <1>6 DEF Release, Released, OpensFull, Leaving, Shapes, ReturnsTo
  <2> QED BY <1>2, <2>1, <2>2, <2>3, RoundsKept
<1>7. CASE Enqueue(p)
  <2>1. \A q \in Procs : Inside(q)' <=> Inside(q)
    BY <1>1, <1>7 DEF Enqueue, After, WaitOrder, Inside, Shapes, ReturnsTo
  <2>2. InRound'
    BY <1>1, <1>2, <1>3, <2>1, <1>7 DEF Enqueue, After, WaitOrder, InRound, Coming, Shapes, ReturnsTo
  <2>3. OpensFull'
    BY <1>1, <1>2, <1>3, <1>7 DEF Enqueue, After, WaitOrder, OpensFull, Leaving, Shapes, ReturnsTo
  <2> QED BY <1>2, <2>1, <2>2, <2>3, RoundsKept
<1>8. CASE Unlock(p)
  <2>1. \A q \in Procs : Inside(q)' <=> Inside(q)
    BY <1>1, <1>8 DEF Unlock, Released, After, WaitOrder, Inside, Shapes, ReturnsTo
  <2>2. InRound'
    BY <1>1, <1>2, <1>3, <2>1, <1>8 DEF Unlock, Released, After, WaitOrder, InRound, Coming, Shapes, ReturnsTo
  <2>3. OpensFull'
    BY <1>1, <1>2, <1>3, <1>8 DEF Unlock, Released, After, WaitOrder, OpensFull, Leaving, Shapes, ReturnsTo
  <2> QED BY <1>2, <2>1, <2>2, <2>3, RoundsKept
<1>9. CASE Sleep(p)
  <2>1. \A q \in Procs : Inside(q)' <=> Inside(q)
    BY <1>1, <1>9 DEF Sleep, AfterSleep, Inside, Shapes, ReturnsTo
  <2>2. InRound'
    BY <1>1, <1>2, <1>3, <2>1, <1>9 DEF Sleep, AfterSleep, InRound, Coming, Shapes, ReturnsTo
  <2>3. OpensFull'
    BY <1>1, <1>2, <1>3, <1>9 DEF Sleep, AfterSleep, OpensFull, Leaving, Shapes, ReturnsTo
  <2> QED BY <1>2, <2>1, <2>2, <2>3, RoundsKept
<1>10. CASE ReadHandles(p)
  <2>1. \A q \in Procs : Inside(q)' <=> Inside(q)
    BY <1>1, <1>10 DEF ReadHandles, Inside, Shapes, ReturnsTo
  <2>2. InRound'
    BY <1>1, <1>2, <1>3, <2>1, <1>10 DEF ReadHandles, InRound, Coming, Shapes, ReturnsTo
  <2>3. OpensFull'
    BY <1>1, <1>2, <1>3, <1>10 DEF ReadHandles, OpensFull, Leaving, Shapes, ReturnsTo
  <2> QED BY <1>2, <2>1, <2>2, <2>3, RoundsKept
<1>11. CASE DeleteHandles(p)
  <2>1. \A q \in Procs : Inside(q)' <=> Inside(q)
    BY <1>1, <1>11 DEF DeleteHandles, Inside, Shapes, ReturnsTo
  <2>2. InRound'
    BY <1>1, <1>2, <1>3, <2>1, <1>11 DEF DeleteHandles, InRound, Coming, Shapes, ReturnsTo
  <2>3. OpensFull'
    BY <1>1, <1>2, <1>3, <1>11 DEF DeleteHandles, OpensFull, Leaving, Shapes, ReturnsTo
  <2> QED BY <1>2, <2>1, <2>2, <2>3, RoundsKept
<1>12. CASE PushTokens(p)
  <2>1. \A q \in Procs : Inside(q)' <=> Inside(q)
    BY <1>1, <1>12 DEF PushTokens, Inside, Shapes, ReturnsTo
  <2>2. InRound'
    BY <1>1, <1>2, <1>3, <2>1, <1>12 DEF PushTokens, InRound, Coming, Shapes, ReturnsTo
  <2>3. OpensFull'
    BY <1>1, <1>2, <1>3, <1>12 DEF PushTokens, OpensFull, Leaving, Shapes, ReturnsTo
  <2> QED BY <1>2, <2>1, <2>2, <2>3, RoundsKept
<1>13. CASE Fill(p)
  <2>1. \A q \in Procs : Inside(q)' <=> Inside(q)
    BY <1>1, <1>13 DEF Fill, WaitOrder, Inside, Shapes, ReturnsTo
  <2>2. InRound'
    BY <1>1, <1>2, <1>3, <2>1, <1>13 DEF Fill, WaitOrder, InRound, Coming, Shapes, ReturnsTo
  <2>3. OpensFull'
    BY <1>1, <1>2, <1>3, <1>13 DEF Fill, WaitOrder, OpensFull, Leaving, Shapes, ReturnsTo
  <2> QED BY <1>2, <2>1, <2>2, <2>3, RoundsKept
<1> QED BY <1>4, <1>5, <1>6, <1>7, <1>8, <1>9, <1>10, <1>11, <1>12, <1>13 DEF ConditionStep

(* While the barrier drains a newcomer waits; else it is counted.            *)
LEMMA EnterMoves ==
    ASSUME TypeInv, LockExclusive, kind = "barrier", Rounds, NEW p \in Procs, Enter(p)
    PROVE  Rounds'
<1> USE DEF Goto, Then
<1>1. /\ pc \in [Procs -> Labels] /\ ret \in [Procs -> Labels]
      /\ pc[p] = "enter" /\ ~Inside(p) /\ state \in 0 .. 1
      /\ UNCHANGED <<state, passed, entered>>
  BY DEF TypeInv, Enter, Inside, history
<1>2. InRound /\ OpensFull /\ Together
  BY DEF Rounds
<1>3. \A q \in Procs \ {p} : pc'[q] = pc[q] /\ ret'[q] = ret[q]
  BY <1>1 DEF Enter
<1>4. \A q \in Procs \ {p} : Inside(q)' <=> Inside(q)
  BY <1>3 DEF Inside
<1>5. \A q \in Procs \ {p} : pc[q] # "open" /\ ~Leaving(q)
  BY <1>1, HolderAlone DEF Holds, Leaving
<1>6. \A q \in Procs \ {p} : pc'[q] # "open" /\ ~Leaving(q)'
  BY <1>3, <1>5 DEF Leaving
<1>7. entered[p] = passed[p] + 1
  BY <1>1, <1>2 DEF InRound, Coming
<1>8. InRound'
  BY <1>1, <1>2, <1>3, <1>4, <1>7 DEF InRound, Coming
<1>9. CASE Draining
  <2>1. pc'[p] = "enqueue" /\ ret'[p] = "enter" /\ UNCHANGED count
    BY <1>1, <1>9 DEF Enter, WaitOrder
  <2>2. ~Inside(p)' /\ ~Leaving(p)'
    BY <2>1 DEF Inside, Leaving
  <2>3. OpensFull'
    BY <1>6, <2>1, <2>2 DEF OpensFull
  <2> QED BY <1>1, <1>4, <1>8, <2>1, <2>2, <2>3, RoundsKept
<1>10. CASE ~Draining
  <2>1. state = 0 /\ count' = count + 1
    BY <1>1, <1>10 DEF Enter, Draining
  <2>2. /\ pc'[p] \in {"open", "fill"}
        /\ pc'[p] = "open" => count' = Cardinality(Procs)
    BY <1>1, <1>10, <2>1 DEF Enter
  <2>3. Inside(p)' /\ ~Leaving(p)'
    BY <2>2 DEF Inside, Leaving
  <2>4. {q \in Procs : Inside(q)}' = InsideSet \cup {p}
    BY <1>4, <2>3 DEF InsideSet
  <2>5. Cardinality(InsideSet \cup {p}) = Cardinality(InsideSet) + 1
    BY <1>1, InsideFinite, FS_AddElement DEF InsideSet
  <2>6. Counted'
    BY <2>1, <2>4, <2>5 DEF Rounds, Counted, InsideSet
  <2>7. OpensFull'
    BY <1>1, <1>6, <2>1, <2>2, <2>3 DEF OpensFull
  <2>8. Together'
    BY <1>1, <1>2, <2>1 DEF Together
  <2> QED BY <1>8, <2>6, <2>7, <2>8 DEF Rounds
<1> QED BY <1>9, <1>10

(* The last to come has been counted, so that everybody is inside.           *)
LEMMA OpenMoves ==
    ASSUME TypeInv, LockExclusive, kind = "barrier", Rounds, NEW p \in Procs, Open(p)
    PROVE  Rounds'
<1> USE DEF Goto, Then
<1>1. /\ pc \in [Procs -> Labels] /\ ret \in [Procs -> Labels]
      /\ pc[p] = "open" /\ state' = 1 /\ UNCHANGED <<count, passed, entered>>
      /\ pc' = [pc EXCEPT ![p] = "notify"] /\ ret' = [ret EXCEPT ![p] = "exit"]
  BY DEF TypeInv, Open, history
<1>2. InRound /\ OpensFull /\ Together
  BY DEF Rounds
<1>3. count = Cardinality(Procs) /\ state = 0
  BY <1>1, <1>2 DEF OpensFull
<1>4. InsideSet = Procs
  <2>1. Cardinality(InsideSet) = Cardinality(Procs)
    BY <1>3 DEF Rounds, Counted, InsideSet
  <2>2. InsideSet \in SUBSET Procs
    BY DEF InsideSet
  <2> QED BY <2>1, <2>2, FS_Subset
<1>5. \A q \in Procs : Inside(q)
  BY <1>4 DEF InsideSet
<1>6. \A q \in Procs : Inside(q)'
  BY <1>1, <1>5 DEF Inside
<1>7. Counted'
  <2>1. {q \in Procs : Inside(q)}' = {q \in Procs : Inside(q)}
    BY <1>5, <1>6
  <2> QED BY <1>1, <2>1 DEF Rounds, Counted
<1>8. InRound'
  BY <1>1, <1>2, <1>5 DEF InRound
<1>9. OpensFull'
  <2>1. \A q \in Procs \ {p} : pc[q] # "open"
    BY <1>1, HolderAlone DEF Holds
  <2> QED BY <1>1, <2>1 DEF OpensFull
<1>10. Together'
  BY <1>1, <1>2, <1>3, <1>6 DEF Together
<1> QED BY <1>7, <1>8, <1>9, <1>10 DEF Rounds

(* The last to leave finds the others one round further, and joins them.     *)
LEMMA ExitMoves ==
    ASSUME TypeInv, LockExclusive, kind = "barrier", Rounds, NEW p \in Procs, Exit(p)
    PROVE  Rounds'
<1> USE DEF Goto, Then
<1>1. /\ pc \in [Procs -> Labels] /\ ret \in [Procs -> Labels]
      /\ entered \in [Procs -> Nat] /\ passed \in [Procs -> Nat] /\ count \in Int
      /\ pc[p] = "exit" /\ count' = count - 1 /\ UNCHANGED entered
      /\ passed' = [passed EXCEPT ![p] = @ + 1]
  BY DEF TypeInv, Exit
<1>2. InRound /\ OpensFull /\ Together
  BY DEF Rounds
<1>3. state = 1 /\ Inside(p)
  BY <1>1, <1>2 DEF OpensFull, Leaving, Inside
<1>4. /\ pc'[p] \in {"notify", "release"} /\ ret'[p] = "release"
      /\ IF count = 1 THEN state' = 0 ELSE state' = state
  BY <1>1, <1>3 DEF Exit, AfterDrained
<1>5. \A q \in Procs \ {p} : pc'[q] = pc[q] /\ ret'[q] = ret[q]
  BY <1>1 DEF Exit
<1>6. ~Inside(p)' /\ ~Coming(p)' /\ ~Leaving(p)'
  BY <1>4 DEF Inside, Coming, Leaving
<1>7. \A q \in Procs \ {p} : (Inside(q)' <=> Inside(q)) /\ (Coming(q)' <=> Coming(q))
  BY <1>5 DEF Inside, Coming
<1>8. \A q \in Procs \ {p} : pc'[q] # "open" /\ ~Leaving(q)'
  BY <1>1, <1>5, HolderAlone DEF Holds, Leaving
<1>9. Counted'
  <2>1. {q \in Procs : Inside(q)}' = InsideSet \ {p}
    BY <1>6, <1>7 DEF InsideSet
  <2>2. Cardinality(InsideSet \ {p}) = Cardinality(InsideSet) - 1
    BY <1>3, InsideFinite, FS_RemoveElement DEF InsideSet
  <2> QED BY <1>1, <2>1, <2>2 DEF Rounds, Counted, InsideSet
<1>10. InRound'
  BY <1>1, <1>2, <1>3, <1>6, <1>7 DEF InRound
<1>11. OpensFull'
  BY <1>4, <1>6, <1>8 DEF OpensFull
<1>12. Together'
  <2>1. CASE count = 1
    <3>1. Cardinality(InsideSet) = 1
      BY <2>1 DEF Rounds, Counted, InsideSet
    <3>2. PICK h : InsideSet = {h}
      BY <3>1, InsideFinite, FS_Singleton, Zenon
    <3>3. \A q \in Procs \ {p} : ~Inside(q)
      BY <3>2, <1>3 DEF InsideSet
    <3>4. \A q \in Procs \ {p} : passed[q] = passed[p] + 1
      BY <1>2, <1>3, <3>3 DEF Together
    <3> QED BY <1>1, <1>4, <2>1, <3>4 DEF Together
  <2>2. CASE count # 1
    <3>1. \A q \in Procs \ {p} : passed'[q] = passed[q]
      BY <1>1
    <3>2. passed'[p] = passed[p] + 1
      BY <1>1
    <3>3. \A q \in Procs \ {p} : IF Inside(q) THEN passed[q] = passed[p]
                                            ELSE passed[q] = passed[p] + 1
      BY <1>2, <1>3 DEF Together
    <3> QED BY <1>1, <1>2, <1>3, <1>4, <1>6, <1>7, <2>2, <3>1, <3>2, <3>3 DEF Together
  <2> QED BY <2>1, <2>2
<1> QED BY <1>9, <1>10, <1>11, <1>12 DEF Rounds

LEMMA BarrierStepInv == TypeInv /\ LockExclusive /\ BarrierInv /\ [Next]_vars => BarrierInv'
<1> SUFFICES ASSUME TypeInv, LockExclusive, BarrierInv, [Next]_vars
             PROVE  BarrierInv'
  OBVIOUS
<1>1. kind' = kind /\ Shapes
  BY DEF Next, vars, ProcStep, ConditionStep, EventStep, QueueStep, BarrierStep, Call,
     Acquire, Release, Enqueue, Unlock, Sleep, ReadHandles, DeleteHandles, PushTokens,
     Timeout, Set, Clear, TestFlag, PutItem, PutSem, Get, TaskDone, TaskDoneTest, Join,
     Joined, Enter, Open, Fill, Exit, TypeInv
<1>2. CASE UNCHANGED vars
  BY <1>1, <1>2 DEF vars, objects, history, BarrierInv, Rounds, Counted, InRound,
     OpensFull, Together, Inside, Coming, Leaving
<1>3. CASE kind = "barrier" /\ Next
  <2>1. ASSUME NEW p \in Procs
        PROVE  ~EventStep(p) /\ ~QueueStep(p) /\ ~Timeout(p)
    BY <1>1, <1>3 DEF EventStep, QueueStep, Timeout, Set, Clear, TestFlag, PutItem, PutSem,
       Get, TaskDone, TaskDoneTest, Join, Joined, Shapes, OwnLabel
  <2>2. Rounds'
    BY <1>3, <2>1, BarrierMoves, EnterMoves, OpenMoves, ExitMoves
       DEF Next, ProcStep, BarrierStep, BarrierInv
  <2> QED BY <1>1, <1>3, <2>2 DEF BarrierInv
<1>4. CASE kind # "barrier" /\ Next
  <2>1. ASSUME NEW p \in Procs
        PROVE  ~BarrierStep(p)
    BY <1>1, <1>4 DEF BarrierStep, Enter, Open, Fill, Exit, Shapes, OwnLabel
  <2>2. UNCHANGED <<count, state, passed>>
    BY <1>4, <2>1 DEF Next, ProcStep, ConditionStep, EventStep, QueueStep, Call,
     Acquire, Release, Enqueue, Unlock, Sleep, ReadHandles, DeleteHandles, PushTokens,
     Timeout, Set, Clear, TestFlag, PutItem, PutSem, Get, TaskDone, TaskDoneTest, Join,
     Joined, objects, history
  <2> QED BY <1>1, <1>4, <2>2 DEF BarrierInv
<1> QED BY <1>2, <1>3, <1>4

(* Nobody is through a round of the barrier that another has not come to,    *)
(* for any parties and rounds, however fast one of them comes back.          *)
THEOREM BarriersTogether == Spec => []BarrierTogether
<1>1. TypeInv /\ BarrierInv => BarrierTogether
  <2> SUFFICES ASSUME TypeInv, BarrierInv, NEW p \in Procs, NEW q \in Procs
               PROVE  passed[p] <= entered[q]
    BY DEF BarrierTogether
  <2>1. passed \in [Procs -> Nat] /\ entered \in [Procs -> Nat] /\ state \in 0 .. 1
    BY DEF TypeInv
  <2>2. CASE kind = "barrier"
    <3>1. InRound /\ Together
      BY <2>2 DEF BarrierInv, Rounds
    <3>2. CASE state = 0
      BY <2>1, <3>1, <3>2 DEF InRound, Together
    <3>3. CASE state = 1 /\ Inside(q)
      BY <2>1, <3>1, <3>3 DEF InRound, Together
    <3>4. CASE state = 1 /\ ~Inside(q)
      BY <2>1, <3>1, <3>4 DEF InRound, Together
    <3> QED BY <2>1, <3>2, <3>3, <3>4
  <2>3. CASE kind # "barrier"
    BY <2>1, <2>3 DEF BarrierInv
  <2> QED BY <2>2, <2>3
<1> QED BY <1>1, TypeInit, TypeStep, LockInit, LockStep, BarrierInit, BarrierStepInv, PTL
        DEF Spec

(* Every variable keeps its type; in particular the barrier never counts     *)
(* more processes than there are, nor fewer than none.                       *)
THEOREM TypeCorrect == Spec => []TypeOK
<1>1. TypeInv /\ BarrierInv => TypeOK
  <2> SUFFICES ASSUME TypeInv, BarrierInv
               PROVE  TypeOK
    OBVIOUS
  <2>1. Cardinality(Procs) \in Nat /\ Cardinality(InsideSet) <= Cardinality(Procs)
    BY FS_CardinalityType, FS_Subset DEF InsideSet
  <2>2. count \in 0 .. Cardinality(Procs)
    BY <2>1, InsideFinite DEF BarrierInv, Rounds, Counted, InsideSet
  <2> QED BY <2>2 DEF TypeInv, TypeOK
<1> QED BY <1>1, TypeInit, TypeStep, LockInit, LockStep, BarrierInit, BarrierStepInv, PTL
        DEF Spec

=============================================================================
