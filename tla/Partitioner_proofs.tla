------------------------- MODULE Partitioner_proofs -------------------------
(***************************************************************************)
(* Proofs about Partitioner, for any objects, rows, chunk sizes, chunk     *)
(* numbers and threshold: type correctness; that the workers together read *)
(* every byte of an object once; and that the reducers of a bucket get the *)
(* partitions of one object each.                                          *)
(***************************************************************************)
EXTENDS Partitioner, SequenceTheorems, WellFoundedInduction, TLAPS

-----------------------------------------------------------------------------
(* Numbers.                                                                  *)

(* Every set of natural numbers has a least element.                         *)
LEMMA LeastBy ==
  ASSUME NEW R, IsWellFoundedOn(R, Nat), \A x, y \in Nat : x < y => <<x, y>> \in R,
         NEW T \in SUBSET Nat, T # {}
  PROVE  \E x \in T : \A y \in T : x <= y
<1>1. IsWellFoundedOn(R, Nat)
  OBVIOUS
<1>2. T \subseteq Nat /\ T # {}
  OBVIOUS
<1>3. \E x \in T : \A y \in T : ~(<<y, x>> \in R)
  BY ONLY <1>1, <1>2, WFMin, Zenon
<1> PICK x \in T : \A y \in T : ~(<<y, x>> \in R)
  BY <1>3
<1>4. \A y \in T : ~(y < x)
  OBVIOUS
<1> QED BY <1>4

LEMMA LeastElement ==
  ASSUME NEW T \in SUBSET Nat, T # {}
  PROVE  \E x \in T : \A y \in T : x <= y
<1>1. IsWellFoundedOn(OpToRel(<, Nat), Nat)
  BY NatLessThanWellFounded
<1>2. \A x, y \in Nat : x < y => <<x, y>> \in OpToRel(<, Nat)
  BY DEF OpToRel
<1> QED BY <1>1, <1>2, LeastBy

LEMMA MinOfTwo ==
  ASSUME NEW a \in Int, NEW b \in Int
  PROVE  Min({a, b}) = IF a <= b THEN a ELSE b
<1>1. \E x \in {a, b} : \A y \in {a, b} : x <= y
  OBVIOUS
<1>2. Min({a, b}) \in {a, b} /\ \A y \in {a, b} : Min({a, b}) <= y
  BY <1>1 DEF Min
<1> QED BY <1>2

(* find() gives the first newline of a range, or -1 when it has none.        *)
LEMMA FindFirst ==
  ASSUME NEW p, objs[p.obj].nl \subseteq Nat, NEW from \in Int, NEW to \in Int
  PROVE  \/ /\ Find(p, from, to) = -1
            /\ \A k \in objs[p.obj].nl : ~(from <= k /\ k < to)
         \/ /\ Find(p, from, to) \in objs[p.obj].nl
            /\ from <= Find(p, from, to) /\ Find(p, from, to) < to
            /\ \A k \in objs[p.obj].nl : from <= k /\ k < to => Find(p, from, to) <= k
<1> DEFINE found == {k \in objs[p.obj].nl : from <= k /\ k < to}
<1>1. Find(p, from, to) = IF found = {} THEN -1 ELSE Min(found)
  BY DEF Find
<1>2. CASE found = {}
  BY <1>1, <1>2
<1>3. CASE found # {}
  <2>1. \E x \in found : \A y \in found : x <= y
    BY <1>3, LeastElement
  <2>2. Min(found) \in found /\ \A y \in found : Min(found) <= y
    BY <2>1 DEF Min
  <2> QED BY <1>1, <1>3, <2>2
<1> QED BY <1>2, <1>3

-----------------------------------------------------------------------------
(* Type correctness.                                                         *)

TaskRec == [pc : {"start", "loop", "append", "ended", "raised"}, at : Nat,
            size : Nat, chunk : Nat, parts : Seq(Part)]
Range0 == [from : Nat, to : Nat, whole : BOOLEAN]

(* A task that has not begun has split nothing, and every chunk has a length. *)
Begun(t) ==
  /\ t.pc = "start" => t.at = 0 /\ t.parts = <<>>
  /\ t.pc \in {"loop", "append", "ended"} => t.chunk > 0

TypeInv == TypeOK /\ \A i \in Tasks : Begun(task[i])

LEMMA SeqElement ==
  ASSUME NEW S, NEW s \in Seq(S), NEW i \in DOMAIN s
  PROVE  s[i] \in S /\ i \in Nat /\ i > 0 /\ i <= Len(s)
OBVIOUS

LEMMA TaskFields ==
  ASSUME TypeInv, NEW i \in Tasks
  PROVE  /\ i \in Nat /\ i > 0 /\ i <= Len(objs) /\ objs \in Seq([size : Nat, nl : SUBSET Nat])
         /\ objs[i].size \in Nat /\ objs[i].nl \subseteq Nat
         /\ task[i] \in TaskRec /\ DOMAIN task = Tasks
         /\ task[i].pc \in {"start", "loop", "append", "ended", "raised"}
         /\ task[i].at \in Nat /\ task[i].size \in Nat /\ task[i].chunk \in Nat
         /\ task[i].parts \in Seq(Part)
         /\ Begun(task[i])
<1>1. objs \in Seq([size : Nat, nl : SUBSET Nat]) /\ i \in DOMAIN objs
  BY PartitionerAssumption DEF TypeInv, TypeOK, Tasks
<1>2. objs[i] \in [size : Nat, nl : SUBSET Nat] /\ i \in Nat /\ i > 0 /\ i <= Len(objs)
  BY <1>1, SeqElement
<1>3. task \in [Tasks -> TaskRec]
  BY DEF TypeInv, TypeOK, TaskRec
<1>4. task[i] \in TaskRec /\ DOMAIN task = Tasks
  BY <1>3
<1> QED BY <1>1, <1>2, <1>4 DEF TaskRec, TypeInv

(* Chunk sizes.                                                              *)
LEMMA ChunkType ==
  ASSUME opt \in Options, NEW size \in Nat
  PROVE  ChunkOf(size) \in Nat
<1>1. opt.chunkNumber \in Nat /\ opt.chunkSize \in Nat
  BY PartitionerAssumption
<1>2. ASSUME NEW n \in Nat, n > 0
      PROVE  CeilDiv(size, n) \in Nat
  BY <1>2 DEF CeilDiv
<1> QED BY <1>1, <1>2 DEF ChunkOf

LEMMA ByteRangeType ==
  ASSUME NEW t \in TaskRec, t.chunk > 0
  PROVE  ByteRange(t) \in Range0
<1>1. t.at \in Nat /\ t.size \in Nat /\ t.chunk \in Nat
  BY DEF TaskRec
<1>2. CASE t.size <= t.chunk
  BY <1>1, <1>2 DEF ByteRange, Range0
<1>3. CASE t.size > t.chunk /\ ~newline
  BY <1>1, <1>3 DEF ByteRange, Range0
<1>4. CASE t.size > t.chunk /\ newline /\ t.at + t.chunk < t.size
  <2>1. PlusByte(t.at) \in Nat
    BY <1>1 DEF PlusByte
  <2> QED BY PartitionerAssumption, <1>1, <1>4, <2>1 DEF ByteRange, Range0
<1>5. CASE t.size > t.chunk /\ newline /\ t.at + t.chunk >= t.size
  <2>1. t.at - 1 \in Nat
    BY <1>1, <1>5
  <2> QED BY <1>1, <1>5, <2>1 DEF ByteRange, Range0
<1> QED BY <1>1, <1>2, <1>3, <1>4, <1>5

(* The part that AddPartition appends, and the task it leaves.               *)
NewChunk(t) ==
  IF t.size <= t.chunk THEN t.size ELSE IF LastChunk(t) THEN t.size - t.at ELSE t.chunk
NewPart(i) ==
  [obj |-> i, part |-> Len(task[i].parts) + 1, range |-> ByteRange(task[i]),
   chunk |-> NewChunk(task[i])]

LEMMA PartType ==
  ASSUME TypeInv, NEW i \in Tasks, task[i].pc = "loop", MoreToSplit(task[i])
  PROVE  /\ NewPart(i) \in Part /\ NewChunk(task[i]) \in Nat /\ NewChunk(task[i]) > 0
<1>1. /\ i \in Nat /\ task[i] \in TaskRec /\ task[i].chunk > 0
      /\ task[i].at \in Nat /\ task[i].size \in Nat /\ task[i].chunk \in Nat
      /\ task[i].parts \in Seq(Part)
  BY TaskFields DEF Begun
<1>2. NewChunk(task[i]) \in Nat /\ NewChunk(task[i]) > 0
  <2>1. /\ task[i].at < task[i].size - 1
        /\ task[i].size - task[i].at \in Nat /\ task[i].size - task[i].at > 0 /\ task[i].size > 0
    BY <1>1 DEF MoreToSplit
  <2> QED BY <1>1, <2>1 DEF NewChunk
<1>3. ByteRange(task[i]) \in Range0
  BY <1>1, ByteRangeType
<1>4. Len(task[i].parts) + 1 \in Nat
  BY <1>1
<1> QED BY <1>1, <1>2, <1>3, <1>4 DEF NewPart, Part, Range0

(* A task that is replaced by another of the type.                           *)
LEMMA TaskTypes ==
  ASSUME TypeInv, NEW i \in Tasks, NEW t \in TaskRec, task' = [task EXCEPT ![i] = t],
         Begun(t), UNCHANGED input
  PROVE  /\ task' \in [Tasks' -> TaskRec] /\ Tasks' = Tasks
         /\ \A k \in Tasks' : Begun(task'[k])
         /\ source' \in {"storage", "paths", "urls"} /\ ranges' \in BOOLEAN
         /\ newline' \in BOOLEAN /\ objs' \in Inputs /\ opt' \in Options
<1>1. task \in [Tasks -> TaskRec] /\ Tasks' = Tasks
  BY DEF TypeInv, TypeOK, TaskRec, Tasks, input
<1>2. task' \in [Tasks -> TaskRec] /\ task'[i] = t
      /\ \A k \in Tasks \ {i} : task'[k] = task[k]
  BY <1>1
<1> QED BY <1>1, <1>2 DEF TypeInv, TypeOK, input

LEMMA TypeInit == Init => TypeInv
<1> SUFFICES ASSUME Init
             PROVE  TypeInv
  OBVIOUS
<1>1. [pc |-> "start", at |-> 0, size |-> 0, chunk |-> 0, parts |-> <<>>] \in TaskRec
  BY DEF TaskRec
<1>2. task \in [Tasks -> TaskRec] /\ \A i \in Tasks : Begun(task[i])
  BY <1>1 DEF Init, Begun, Tasks
<1> QED BY <1>2 DEF Init, TypeInv, TypeOK, TaskRec

LEMMA StartType ==
  ASSUME TypeInv, NEW i \in Tasks, Start(i)
  PROVE  TypeInv'
<1>0. PICK known \in BOOLEAN :
        LET size == IF NoSize(i, known) THEN 1 ELSE objs[i].size
            chunk == IF ~ranges \/ NoSize(i, known) THEN size ELSE ChunkOf(size)
        IN  task' = [task EXCEPT ![i] =
                       [@ EXCEPT !.pc = IF chunk = 0 THEN "raised" ELSE "loop",
                                 !.size = size, !.chunk = chunk]]
  BY DEF Start
<1> DEFINE size == IF NoSize(i, known) THEN 1 ELSE objs[i].size
           chunk == IF ~ranges \/ NoSize(i, known) THEN size ELSE ChunkOf(size)
           t == [task[i] EXCEPT !.pc = IF chunk = 0 THEN "raised" ELSE "loop",
                                !.size = size, !.chunk = chunk]
<1>1. task[i] \in TaskRec /\ task[i].pc = "start" /\ objs[i].size \in Nat /\ opt \in Options
  BY TaskFields DEF Start, TypeInv, TypeOK
<1>2. size \in Nat
  BY <1>1
<1>3. chunk \in Nat
  BY <1>1, <1>2, ChunkType
<1>4. task' = [task EXCEPT ![i] = t] /\ UNCHANGED input
  BY <1>0 DEF Start
<1> HIDE DEF size, chunk
<1>5. t \in TaskRec /\ Begun(t)
  <2>1. CASE chunk = 0
    <3>1. t = [task[i] EXCEPT !.pc = "raised", !.size = size, !.chunk = chunk]
      BY <2>1
    <3> QED BY <1>1, <1>2, <1>3, <3>1 DEF TaskRec, Begun
  <2>2. CASE chunk # 0
    <3>1. t = [task[i] EXCEPT !.pc = "loop", !.size = size, !.chunk = chunk]
      BY <2>2
    <3> HIDE DEF t
    <3>2. t \in TaskRec
      BY <1>1, <1>2, <1>3, <3>1 DEF TaskRec
    <3>3. t.pc = "loop" /\ t.chunk = chunk /\ chunk > 0
      BY <1>1, <1>3, <2>2, <3>1 DEF TaskRec
    <3> QED BY <3>2, <3>3 DEF Begun
  <2> QED BY <2>1, <2>2
<1> HIDE DEF t
<1> QED BY <1>4, <1>5, TaskTypes DEF Start, TypeInv, TypeOK, TaskRec, reduce

LEMMA RaiseStep ==
  ASSUME TypeInv, NEW i \in Tasks, SplitRaises(i)
  PROVE  LET t == [task[i] EXCEPT !.pc = "raised"]
         IN  /\ task' = [task EXCEPT ![i] = t] /\ t \in TaskRec /\ Begun(t)
             /\ t.parts = <<>> /\ t.at = 0 /\ t.pc = "raised"
<1> DEFINE t == [task[i] EXCEPT !.pc = "raised"]
<1>1. task[i] \in TaskRec /\ task[i].at = 0 /\ task[i].parts = <<>>
  BY TaskFields DEF Begun, SplitRaises
<1>2. t \in TaskRec /\ t.pc = "raised" /\ t.parts = <<>> /\ t.at = 0
  BY <1>1 DEF TaskRec
<1>3. task' = [task EXCEPT ![i] = t]
  BY DEF SplitRaises
<1> HIDE DEF t
<1> QED BY <1>2, <1>3 DEF Begun, t

LEMMA RaiseType ==
  ASSUME TypeInv, NEW i \in Tasks, SplitRaises(i)
  PROVE  TypeInv'
<1>1. PICK t \in TaskRec : task' = [task EXCEPT ![i] = t] /\ Begun(t)
  BY RaiseStep
<1>2. UNCHANGED input /\ UNCHANGED <<partitions, parts_per_object, reduce>>
  BY DEF SplitRaises
<1> QED BY <1>1, <1>2, TaskTypes DEF TypeInv, TypeOK, TaskRec, reduce

LEMMA AddStep ==
  ASSUME TypeInv, NEW i \in Tasks, AddPartition(i)
  PROVE  LET chunk == NewChunk(task[i])
             t == [task[i] EXCEPT !.parts = Append(task[i].parts, NewPart(i)),
                                  !.at = task[i].at + chunk, !.chunk = chunk]
         IN  /\ task' = [task EXCEPT ![i] = t] /\ t \in TaskRec /\ Begun(t)
             /\ task[i].pc = "loop" /\ MoreToSplit(task[i])
<1> DEFINE chunk == NewChunk(task[i])
           part == NewPart(i)
           t == [task[i] EXCEPT !.parts = Append(task[i].parts, part),
                                !.at = task[i].at + chunk, !.chunk = chunk]
<1>1. task[i].pc = "loop" /\ MoreToSplit(task[i]) /\ task[i] \in TaskRec
  BY TaskFields DEF AddPartition
<1>2. task' = [task EXCEPT ![i] = t]
  BY DEF AddPartition, NewPart, NewChunk
<1>3. chunk \in Nat /\ chunk > 0 /\ part \in Part
  BY <1>1, PartType
<1> HIDE DEF chunk, part
<1>4. task[i].parts \in Seq(Part) /\ task[i].at \in Nat
  BY <1>1 DEF TaskRec
<1>5. Append(task[i].parts, part) \in Seq(Part) /\ task[i].at + chunk \in Nat
  BY <1>3, <1>4
<1>6. t \in TaskRec /\ Begun(t)
  BY <1>1, <1>3, <1>5 DEF TaskRec, Begun
<1> QED BY <1>1, <1>2, <1>6 DEF chunk, part

(* The steps that only move on an object's program counter.                  *)
LEMMA PcStep ==
  ASSUME TypeInv, NEW i \in Tasks, NEW l \in {"append", "ended"},
         task[i].pc \in {"loop", "append"},
         task' = [task EXCEPT ![i].pc = l]
  PROVE  LET t == [task[i] EXCEPT !.pc = l]
         IN  /\ task' = [task EXCEPT ![i] = t] /\ t \in TaskRec /\ Begun(t)
             /\ t.parts = task[i].parts /\ t.pc = l
<1> DEFINE t == [task[i] EXCEPT !.pc = l]
<1>1. task[i] \in TaskRec /\ task[i].chunk > 0
  BY TaskFields DEF Begun
<1>2. t \in TaskRec /\ t.chunk = task[i].chunk /\ t.pc = l /\ t.parts = task[i].parts
  BY <1>1 DEF TaskRec
<1>3. task' = [task EXCEPT ![i] = t]
  OBVIOUS
<1> HIDE DEF t
<1>4. Begun(t)
  BY <1>1, <1>2 DEF Begun
<1> QED BY <1>2, <1>3, <1>4 DEF t

LEMMA AddType ==
  ASSUME TypeInv, NEW i \in Tasks, AddPartition(i)
  PROVE  TypeInv'
<1>1. PICK t \in TaskRec : task' = [task EXCEPT ![i] = t] /\ Begun(t)
  BY AddStep
<1>2. UNCHANGED input /\ UNCHANGED <<partitions, parts_per_object, reduce>>
  BY DEF AddPartition
<1> QED BY <1>1, <1>2, TaskTypes DEF TypeInv, TypeOK, TaskRec, reduce

LEMMA ExtendType ==
  ASSUME TypeInv, NEW i \in Tasks, Extend(i)
  PROVE  TypeInv'
<1>1. PICK t \in TaskRec : task' = [task EXCEPT ![i] = t] /\ Begun(t)
  BY PcStep DEF Extend
<1>2. UNCHANGED input /\ UNCHANGED <<parts_per_object, reduce>>
  BY DEF Extend
<1>3. partitions' \in Seq(Part)
  BY TaskFields DEF Extend, TypeInv, TypeOK
<1> QED BY <1>1, <1>2, <1>3, TaskTypes DEF TypeInv, TypeOK, TaskRec, reduce

LEMMA AppendType ==
  ASSUME TypeInv, NEW i \in Tasks, AppendCount(i)
  PROVE  TypeInv'
<1>1. PICK t \in TaskRec : task' = [task EXCEPT ![i] = t] /\ Begun(t)
  BY PcStep DEF AppendCount
<1>2. UNCHANGED input /\ UNCHANGED <<partitions, reduce>>
  BY DEF AppendCount
<1>3. parts_per_object' \in Seq(Nat)
  <2>1. Len(task[i].parts) \in Nat
    BY TaskFields
  <2> QED BY <2>1 DEF AppendCount, TypeInv, TypeOK
<1> QED BY <1>1, <1>2, <1>3, TaskTypes DEF TypeInv, TypeOK, TaskRec, reduce

(* A slice of a list, as Python takes it.                                    *)
LEMMA SliceType ==
  ASSUME NEW S, NEW s \in Seq(S), NEW m \in Nat, NEW n \in Nat
  PROVE  SubSeq(s, m + 1, Min({n, Len(s)})) \in Seq(S)
<1>1. Len(s) \in Nat
  OBVIOUS
<1>2. PICK k \in Nat : k = Min({n, Len(s)}) /\ k <= Len(s)
  BY <1>1, MinOfTwo
<1>3. \A i \in m + 1 .. k : s[i] \in S
  BY <1>2
<1>4. SubSeq(s, m + 1, k) \in Seq(S)
  BY <1>3, SubSeqProperties
<1> QED BY <1>2, <1>4

LEMMA ReducerType ==
  ASSUME TypeInv, AddReducer
  PROVE  TypeInv'
<1> DEFINE upto == prev_total + parts_per_object[Len(iterdata) + 1]
<1>1. /\ parts_per_object \in Seq(Nat) /\ iterdata \in Seq(Seq(Part)) /\ prev_total \in Nat
      /\ partitions \in Seq(Part)
  BY DEF TypeInv, TypeOK
<1>2. upto \in Nat
  <2>1. Len(iterdata) + 1 \in DOMAIN parts_per_object
    BY <1>1 DEF AddReducer
  <2> QED BY <1>1, <2>1, SeqElement
<1>3. SubSeq(partitions, prev_total + 1, Min({upto, Len(partitions)})) \in Seq(Part)
  BY <1>1, <1>2, SliceType
<1>4. iterdata' = Append(iterdata, SubSeq(partitions, prev_total + 1, Min({upto, Len(partitions)})))
      /\ prev_total' = upto /\ UNCHANGED <<input, task, partitions, parts_per_object>>
  BY DEF AddReducer
<1> HIDE DEF upto
<1>5. iterdata' \in Seq(Seq(Part)) /\ prev_total' \in Nat
  BY <1>1, <1>2, <1>3, <1>4, AppendProperties
<1>6. Tasks' = Tasks /\ objs' = objs /\ task' = task
  BY <1>4 DEF Tasks, input
<1> QED BY <1>4, <1>5, <1>6 DEF TypeInv, TypeOK, input

LEMMA TypeStep == TypeInv /\ [Next]_vars => TypeInv'
<1> SUFFICES ASSUME TypeInv, [Next]_vars
             PROVE  TypeInv'
  OBVIOUS
<1>1. CASE \E i \in Tasks : \/ Start(i) \/ SplitRaises(i) \/ AddPartition(i)
                            \/ Extend(i) \/ AppendCount(i)
  BY <1>1, StartType, RaiseType, AddType, ExtendType, AppendType
<1>2. CASE AddReducer
  BY <1>2, ReducerType
<1>3. CASE UNCHANGED vars
  <2>1. Tasks' = Tasks
    BY <1>3 DEF vars, input, Tasks
  <2> QED BY <1>3, <2>1 DEF vars, input, reduce, TypeInv, TypeOK
<1> QED BY <1>1, <1>2, <1>3 DEF Next

(* Every variable of the partitioner keeps its type.                         *)
THEOREM TypeCorrect == Spec => []TypeOK
<1>1. TypeInv => TypeOK
  BY DEF TypeInv
<1> QED BY TypeInit, TypeStep, <1>1, PTL DEF Spec

-----------------------------------------------------------------------------
(* The reducers' groups.                                                     *)

Extended(k) == task[k].pc \in {"append", "ended"}

(* Objects of a bucket are split in their order, so the two lists are too.   *)
Sequential ==
  \A i, k \in Tasks : k < i /\ task[i].pc # "start" => task[k].pc = "ended"
Counted ==
  /\ Len(parts_per_object) <= Len(objs)
  /\ \A k \in Tasks : task[k].pc = "ended" <=> k <= Len(parts_per_object)
  /\ \A k \in Tasks : task[k].pc = "ended" => parts_per_object[k] = Len(task[k].parts)

(* off[k] is where the parts of object k begin in the list of partitions,    *)
(* which goes as far as the last object whose parts were added.              *)
Offsets(off) ==
  /\ off[1] = 0
  /\ \A k \in Tasks : Extended(k) =>
       /\ off[k + 1] = off[k] + Len(task[k].parts) /\ off[k + 1] <= Len(partitions)
       /\ \A m \in 1 .. Len(task[k].parts) : partitions[off[k] + m] = task[k].parts[m]
  /\ \A k \in 1 .. Len(objs) + 1 :
       /\ k - 1 \in Tasks => Extended(k - 1)
       /\ k \in Tasks => ~Extended(k)
       => off[k] = Len(partitions)
  /\ prev_total = off[Len(iterdata) + 1]
Stacked == \E off \in [Nat -> Nat] : Offsets(off)

Handed ==
  /\ Len(iterdata) <= Len(parts_per_object)
  /\ \A k \in DOMAIN iterdata : iterdata[k] = task[k].parts

GroupInv == source = "storage" => Sequential /\ Counted /\ Stacked /\ Handed

LEMMA TasksAre ==
  ASSUME TypeInv
  PROVE  /\ Tasks = 1 .. Len(objs) /\ Len(objs) \in Nat /\ Len(partitions) \in Nat
         /\ Len(parts_per_object) \in Nat /\ Len(iterdata) \in Nat
         /\ DOMAIN parts_per_object = 1 .. Len(parts_per_object)
         /\ DOMAIN iterdata = 1 .. Len(iterdata)
<1>1. objs \in Seq([size : Nat, nl : SUBSET Nat])
  BY PartitionerAssumption DEF TypeInv, TypeOK
<1> QED BY <1>1 DEF TypeInv, TypeOK, Tasks

LEMMA Before ==
  ASSUME TypeInv, NEW i \in Tasks
  PROVE  \A k \in 1 .. i - 1 : k \in Tasks /\ k < i /\ k # i
<1>1. Tasks = 1 .. Len(objs) /\ Len(objs) \in Nat
  BY TasksAre
<1> HIDE DEF Tasks
<1>2. i \in Nat /\ i <= Len(objs)
  BY ONLY <1>1, i \in Tasks
<1> QED BY ONLY <1>1, <1>2

(* The objects of the groups that are made have ended.                       *)
LEMMA HandedEnded ==
  ASSUME TypeInv, Counted, Handed, NEW k \in DOMAIN iterdata
  PROVE  k \in Tasks /\ task[k].pc = "ended"
<1>1. /\ Tasks = 1 .. Len(objs) /\ Len(objs) \in Nat /\ Len(parts_per_object) \in Nat
      /\ Len(iterdata) \in Nat /\ DOMAIN iterdata = 1 .. Len(iterdata)
  BY TasksAre
<1>2. Len(iterdata) <= Len(parts_per_object) /\ Len(parts_per_object) <= Len(objs)
  BY DEF Counted, Handed
<1>3. k \in Tasks /\ k <= Len(parts_per_object)
  BY ONLY <1>1, <1>2, k \in DOMAIN iterdata
<1> QED BY <1>3 DEF Counted

(* The object at work is the first whose count is missing, and those after   *)
(* it have not begun.                                                        *)
LEMMA AtWork ==
  ASSUME TypeInv, Sequential, Counted, NEW i \in Tasks,
         \A k \in 1 .. i - 1 : task[k].pc = "ended", task[i].pc # "ended"
  PROVE  /\ i = Len(parts_per_object) + 1
         /\ \A k \in Tasks : k > i => task[k].pc = "start"
<1>1. Tasks = 1 .. Len(objs) /\ Len(objs) \in Nat /\ Len(parts_per_object) \in Nat
  BY TasksAre
<1>2. ~(i <= Len(parts_per_object))
  BY DEF Counted
<1>3. i = 1 \/ i - 1 <= Len(parts_per_object)
  BY <1>1 DEF Counted
<1> QED BY <1>1, <1>2, <1>3 DEF Sequential

LEMMA GroupInit == Init => GroupInv
<1> SUFFICES ASSUME Init
             PROVE  Sequential /\ Counted /\ Stacked /\ Handed
  BY DEF GroupInv
<1>1. objs \in Seq([size : Nat, nl : SUBSET Nat])
  BY PartitionerAssumption DEF Init
<1>2. Tasks = 1 .. Len(objs) /\ Len(objs) \in Nat
  BY <1>1 DEF Tasks
<1>3. \A k \in Tasks : task[k].pc = "start"
  BY DEF Init, Tasks
<1>4. Offsets([k \in Nat |-> 0])
  BY <1>2, <1>3 DEF Offsets, Extended, Init
<1>5. [k \in Nat |-> 0] \in [Nat -> Nat]
  OBVIOUS
<1> QED BY <1>2, <1>3, <1>4, <1>5 DEF Sequential, Counted, Stacked, Handed, Init

(* Start and AddPartition work on an object that is not in the lists yet.    *)
LEMMA SplitGroups ==
  ASSUME TypeInv, GroupInv, NEW i \in Tasks, Start(i) \/ AddPartition(i)
  PROVE  GroupInv'
<1> SUFFICES ASSUME source = "storage"
             PROVE  (Sequential /\ Counted /\ Stacked /\ Handed)'
  BY DEF GroupInv, Start, AddPartition, input
<1>1. Sequential /\ Counted /\ Handed
  BY DEF GroupInv
<1>a. Tasks = 1 .. Len(objs) /\ Len(objs) \in Nat
  BY TasksAre
<1>2. PICK off \in [Nat -> Nat] : Offsets(off)
  BY DEF GroupInv, Stacked
<1>3. /\ task[i].pc \in {"start", "loop"} /\ task'[i].pc \in {"loop", "raised"}
      /\ \A k \in Tasks \ {i} : task'[k] = task[k]
      /\ UNCHANGED <<objs, partitions, parts_per_object, prev_total, iterdata>>
  <2>1. CASE Start(i)
    BY <2>1, TaskFields DEF Start, TaskRec, input, reduce
  <2>2. CASE AddPartition(i)
    BY <2>2, TaskFields DEF AddPartition, TaskRec, input, reduce
  <2> QED BY <2>1, <2>2
<1>4. \A k \in 1 .. i - 1 : task[k].pc = "ended"
  <2>1. CASE Start(i)
    BY <2>1 DEF Start, MayRun
  <2>2. CASE AddPartition(i)
    <3>1. \A k \in 1 .. i - 1 : k \in Tasks /\ k < i
      BY Before
    <3>2. task[i].pc = "loop"
      BY <2>2 DEF AddPartition
    <3> QED BY <1>1, <3>1, <3>2 DEF Sequential
  <2> QED BY <2>1, <2>2
<1>5. Tasks' = Tasks /\ Tasks \subseteq Nat
  BY <1>3, TaskFields DEF Tasks
<1>6. \A k \in Tasks : k > i => task[k].pc = "start"
  BY <1>1, <1>3, <1>4, AtWork
<1>7. Sequential'
  <2> SUFFICES ASSUME NEW j \in Tasks, NEW k \in Tasks, k < j, task'[j].pc # "start"
               PROVE  task'[k].pc = "ended"
    BY <1>5 DEF Sequential
  <2>1. CASE j = i
    <3>1. k \in 1 .. i - 1 /\ k # i
      BY ONLY <1>a, <2>1, k \in Tasks, j \in Tasks, k < j
    <3> QED BY <3>1, <1>3, <1>4
  <2>2. CASE j # i
    BY <2>2, <1>1, <1>3, <1>5 DEF Sequential
  <2> QED BY <2>1, <2>2
<1>8. \A k \in Tasks :
        /\ task'[k].pc = "ended" <=> task[k].pc = "ended"
        /\ Extended(k)' <=> Extended(k)
        /\ Extended(k) => task'[k] = task[k]
  BY <1>3 DEF Extended
<1>9. Counted'
  BY <1>1, <1>3, <1>5, <1>8 DEF Counted, Extended
<1>10. Offsets(off)'
  <2>1. \A k \in 1 .. Len(objs) + 1 :
          /\ k - 1 \in Tasks => Extended(k - 1)
          /\ k \in Tasks => ~Extended(k)
          => off[k] = Len(partitions)
    BY <1>2 DEF Offsets
  <2>2. ASSUME NEW k \in 1 .. Len(objs) + 1,
               k - 1 \in Tasks => Extended(k - 1)', k \in Tasks => ~Extended(k)'
        PROVE  off[k] = Len(partitions)
    <3>1. k - 1 \in Tasks => Extended(k - 1)
      BY <2>2, <1>8
    <3>2. k \in Tasks => ~Extended(k)
      BY <2>2, <1>8 DEF Extended
    <3> QED BY <2>1, <3>1, <3>2
  <2>3. ASSUME NEW k \in Tasks, Extended(k)'
        PROVE  /\ off[k + 1] = off[k] + Len(task'[k].parts) /\ off[k + 1] <= Len(partitions)
               /\ \A m \in 1 .. Len(task'[k].parts) : partitions[off[k] + m] = task'[k].parts[m]
    <3>1. Extended(k) /\ task'[k] = task[k]
      BY <2>3, <1>8 DEF Extended
    <3> QED BY <3>1, <1>2 DEF Offsets
  <2> QED BY <1>2, <1>3, <1>5, <2>2, <2>3 DEF Offsets
<1>11. Handed'
  <2>1. \A k \in DOMAIN iterdata : k \in Tasks /\ task[k].pc = "ended"
    BY <1>1, HandedEnded
  <2> QED BY <2>1, <1>1, <1>3, <1>8 DEF Handed, Extended
<1> QED BY <1>7, <1>9, <1>10, <1>11 DEF Stacked

LEMMA Inside ==
  ASSUME NEW a \in Nat, NEW l \in Nat, NEW n \in Nat, a + l <= n, NEW m \in 1 .. l
  PROVE  a + m \in 1 .. n
OBVIOUS

(* Extend puts the parts of the object at work behind those of the objects   *)
(* before it.                                                                *)
LEMMA ExtendOffsets ==
  ASSUME TypeInv, Sequential, Counted, Handed, NEW off, off \in [Nat -> Nat], Offsets(off),
         NEW i \in Tasks, Extend(i), source = "storage",
         NEW new, new \in [Nat -> Nat], new[i + 1] = off[i] + Len(task[i].parts),
         \A k \in Nat : k # i + 1 => new[k] = off[k]
  PROVE  Offsets(new)'
<1> DEFINE parts == task[i].parts
<1>1. /\ Tasks = 1 .. Len(objs) /\ Len(objs) \in Nat /\ Len(partitions) \in Nat
      /\ Len(parts_per_object) \in Nat /\ Len(iterdata) \in Nat
  BY TasksAre
<1>2. /\ i \in Nat /\ i > 0 /\ i <= Len(objs) /\ parts \in Seq(Part) /\ Len(parts) \in Nat
      /\ partitions \in Seq(Part) /\ task[i].pc = "loop"
  <2>1. i \in Nat /\ i > 0 /\ i <= Len(objs) /\ parts \in Seq(Part)
    BY TaskFields
  <2>2. partitions \in Seq(Part) /\ task[i].pc = "loop"
    BY DEF Extend, TypeInv, TypeOK
  <2>3. Len(parts) \in Nat
    BY <2>1, LenProperties
  <2> QED BY <2>1, <2>2, <2>3
<1>3. /\ task'[i].pc = "append" /\ task'[i].parts = parts
      /\ \A k \in Tasks \ {i} : task'[k] = task[k]
      /\ partitions' = partitions \o parts
      /\ UNCHANGED <<objs, parts_per_object, prev_total, iterdata>>
  BY TaskFields DEF Extend, TaskRec, input, reduce
<1>4. Tasks' = Tasks
  BY <1>3 DEF Tasks
<1>5. \A k \in Tasks : k < i => task[k].pc = "ended"
  BY <1>2 DEF Sequential
<1>6. i = Len(parts_per_object) + 1 /\ \A k \in Tasks : k > i => task[k].pc = "start"
  <2>1. \A k \in 1 .. i - 1 : task[k].pc = "ended"
    BY <1>5, Before
  <2> QED BY <1>2, <2>1, AtWork
<1>7. off[i] = Len(partitions)
  <2>1. i \in 1 .. Len(objs) + 1
    BY <1>1, <1>2
  <2>2. i - 1 \in Tasks => Extended(i - 1)
    <3>1. i - 1 \in Tasks => i - 1 < i
      BY <1>2
    <3> QED BY <1>5, <3>1 DEF Extended
  <2>3. ~Extended(i)
    BY <1>2 DEF Extended
  <2> QED BY <2>1, <2>2, <2>3 DEF Offsets
<1> HIDE DEF parts
<1>8. /\ Len(partitions') = Len(partitions) + Len(parts)
      /\ \A m \in 1 .. Len(partitions) : partitions'[m] = partitions[m]
      /\ \A m \in 1 .. Len(parts) : partitions'[Len(partitions) + m] = parts[m]
  BY <1>2, <1>3, ConcatProperties
<1>9. /\ new[i + 1] = Len(partitions') /\ new[i] = Len(partitions)
      /\ \A k \in Nat : k # i + 1 => new[k] = off[k]
  <2>1. new[i + 1] = off[i] + Len(parts)
    BY DEF parts
  <2>2. i # i + 1
    BY <1>2
  <2> QED BY <1>2, <1>7, <1>8, <2>1, <2>2
<1>a. /\ off[1] = 0 /\ prev_total = off[Len(iterdata) + 1]
      /\ Len(iterdata) <= Len(parts_per_object)
  BY DEF Offsets, Handed
<1>10. new[1] = 0
  <2>1. 1 # i + 1 /\ 1 \in Nat
    BY <1>2
  <2> QED BY <1>9, <1>a, <2>1
<1>11. ASSUME NEW k \in Tasks, Extended(k)'
       PROVE  /\ new[k + 1] = new[k] + Len(task'[k].parts) /\ new[k + 1] <= Len(partitions')
              /\ \A m \in 1 .. Len(task'[k].parts) : partitions'[new[k] + m] = task'[k].parts[m]
  <2>1. CASE k = i
    <3>1. /\ new[k + 1] = Len(partitions') /\ new[k] = Len(partitions)
          /\ task'[k].parts = parts
      BY <2>1, <1>3, <1>9
    <3>2. Len(partitions') \in Nat
      BY ONLY <1>1, <1>2, <1>8
    <3>3. Len(partitions') = Len(partitions) + Len(parts) /\ Len(partitions') <= Len(partitions')
      BY ONLY <1>8, <3>2
    <3>4. \A m \in 1 .. Len(parts) : partitions'[new[k] + m] = parts[m]
      BY <1>8, <3>1
    <3> QED BY ONLY <3>1, <3>3, <3>4
  <2>2. CASE k # i
    <3>1. task'[k] = task[k] /\ Extended(k)
      BY <2>2, <1>3, <1>11 DEF Extended
    <3>2. k < i /\ k \in Nat
      <4>1. ~(k > i)
        BY <1>6, <3>1 DEF Extended
      <4>2. k \in Nat
        BY <1>1
      <4> QED BY ONLY <1>2, <2>2, <4>1, <4>2
    <3>3. /\ off[k + 1] = off[k] + Len(task[k].parts) /\ off[k + 1] <= Len(partitions)
          /\ \A m \in 1 .. Len(task[k].parts) : partitions[off[k] + m] = task[k].parts[m]
      BY <3>1 DEF Offsets
    <3>4. /\ new[k] = off[k] /\ new[k + 1] = off[k + 1] /\ off[k] \in Nat
          /\ Len(task[k].parts) \in Nat
      <4>1. k # i + 1 /\ k + 1 # i + 1 /\ k + 1 \in Nat
        BY ONLY <1>2, <3>2
      <4>2. Len(task[k].parts) \in Nat
        BY TaskFields, LenProperties
      <4> QED BY <1>9, <3>2, <4>1, <4>2
    <3>5. ASSUME NEW m \in 1 .. Len(task[k].parts)
          PROVE  partitions'[off[k] + m] = partitions[off[k] + m]
      <4>1. off[k] + m \in 1 .. Len(partitions)
        <5>1. off[k] + Len(task[k].parts) <= Len(partitions)
          BY <3>3
        <5> QED BY <1>1, <3>4, <5>1, Inside
      <4> QED BY <4>1, <1>8
    <3>6. new[k + 1] <= Len(partitions')
      <4>1. Len(partitions') >= Len(partitions) /\ Len(partitions') \in Nat
        BY ONLY <1>1, <1>2, <1>8
      <4>2. off[k + 1] \in Nat
        <5>1. k + 1 \in Nat
          BY ONLY <3>2
        <5> QED BY <5>1
      <4>3. off[k + 1] <= Len(partitions) /\ new[k + 1] = off[k + 1]
        BY <3>3, <3>4
      <4> QED BY ONLY <1>1, <4>1, <4>2, <4>3
    <3>7. \A m \in 1 .. Len(task[k].parts) : partitions'[new[k] + m] = task[k].parts[m]
      BY <3>3, <3>4, <3>5
    <3>8. new[k + 1] = new[k] + Len(task[k].parts) /\ task'[k] = task[k]
      BY <3>1, <3>3, <3>4
    <3> QED BY ONLY <3>6, <3>7, <3>8, Zenon
  <2> QED BY <2>1, <2>2
<1>12. ASSUME NEW k \in 1 .. Len(objs) + 1,
              k - 1 \in Tasks => Extended(k - 1)', k \in Tasks => ~Extended(k)'
       PROVE  new[k] = Len(partitions')
  <2>1. ~(k < i)
    <3> SUFFICES ASSUME k < i
                 PROVE  FALSE
      OBVIOUS
    <3>1. k \in Tasks /\ k # i
      BY <1>1, <1>2
    <3> QED BY <1>3, <1>5, <1>12, <3>1 DEF Extended
  <2>2. k # i
    BY <1>3, <1>12 DEF Extended
  <2>3. ~(k > i + 1)
    <3> SUFFICES ASSUME k > i + 1
                 PROVE  FALSE
      OBVIOUS
    <3>1. k - 1 \in Tasks /\ k - 1 > i
      BY <1>1, <1>2
    <3>2. task'[k - 1].pc = "start"
      BY <1>1, <1>2, <1>3, <1>6, <3>1
    <3> QED BY <1>12, <3>1, <3>2 DEF Extended
  <2>4. k = i + 1
    BY <1>1, <1>2, <2>1, <2>2, <2>3
  <2> QED BY <1>9, <2>4
<1>13. prev_total' = new[Len(iterdata') + 1]
  <2>1. Len(iterdata) + 1 # i + 1 /\ Len(iterdata) + 1 \in Nat
    <3>1. Len(iterdata) \in Nat /\ Len(parts_per_object) \in Nat /\ i = Len(parts_per_object) + 1
      BY <1>1, <1>6
    <3>2. Len(iterdata) <= Len(parts_per_object)
      BY <1>a
    <3> QED BY ONLY <3>1, <3>2
  <2> QED BY <1>3, <1>9, <1>a, <2>1
<1>14. /\ \A k \in Tasks' : Extended(k)' =>
            /\ new[k + 1] = new[k] + Len(task'[k].parts) /\ new[k + 1] <= Len(partitions')
            /\ \A m \in 1 .. Len(task'[k].parts) : partitions'[new[k] + m] = task'[k].parts[m]
       /\ \A k \in 1 .. Len(objs') + 1 :
            /\ k - 1 \in Tasks' => Extended(k - 1)'
            /\ k \in Tasks' => ~Extended(k)'
            => new[k] = Len(partitions')
  BY <1>3, <1>4, <1>11, <1>12
<1> QED BY <1>10, <1>13, <1>14 DEF Offsets

LEMMA ExtendGroups ==
  ASSUME TypeInv, GroupInv, NEW i \in Tasks, Extend(i)
  PROVE  GroupInv'
<1> SUFFICES ASSUME source = "storage"
             PROVE  (Sequential /\ Counted /\ Stacked /\ Handed)'
  BY DEF GroupInv, Extend, input
<1>1. Sequential /\ Counted /\ Handed
  BY DEF GroupInv
<1>2. PICK off : off \in [Nat -> Nat] /\ Offsets(off)
  BY DEF GroupInv, Stacked
<1>3. /\ task[i].pc = "loop" /\ task'[i].pc = "append" /\ task'[i].parts = task[i].parts
      /\ \A k \in Tasks \ {i} : task'[k] = task[k]
      /\ UNCHANGED <<objs, parts_per_object, iterdata>>
  BY TaskFields DEF Extend, TaskRec, input, reduce
<1>4. Tasks' = Tasks /\ i \in Nat
  BY <1>3, TaskFields DEF Tasks
<1>5. Sequential'
  <2> SUFFICES ASSUME NEW j \in Tasks, NEW k \in Tasks, k < j, task'[j].pc # "start"
               PROVE  task'[k].pc = "ended"
    BY <1>4 DEF Sequential
  <2>1. task[j].pc # "start"
    BY <1>3
  <2>2. task[k].pc = "ended"
    BY <1>1, <2>1 DEF Sequential
  <2>3. k # i
    BY <1>3, <2>2
  <2> QED BY <1>3, <2>2, <2>3
<1>6. Counted'
  BY <1>1, <1>3, <1>4 DEF Counted
<1>7. Stacked'
  <2>1. Len(task[i].parts) \in Nat
    BY TaskFields, LenProperties
  <2>2. PICK n \in Nat : n = off[i] + Len(task[i].parts)
    <3>1. off[i] \in Nat
      BY <1>2, <1>4
    <3>2. off[i] + Len(task[i].parts) \in Nat
      BY ONLY <2>1, <3>1
    <3> QED BY <3>2
  <2>3. i + 1 \in Nat /\ i # i + 1
    BY <1>4
  <2> DEFINE moved == [off EXCEPT ![i + 1] = n]
  <2>4. PICK new \in [Nat -> Nat] : /\ new[i + 1] = off[i] + Len(task[i].parts)
                                    /\ \A k \in Nat : k # i + 1 => new[k] = off[k]
    <3>1. moved \in [Nat -> Nat] /\ moved[i + 1] = n
          /\ \A k \in Nat : k # i + 1 => moved[k] = off[k]
      BY <1>2, <2>3
    <3> QED BY <2>2, <3>1
  <2>5. Offsets(new)'
    BY <1>1, <1>2, <2>4, ExtendOffsets
  <2> QED BY <2>5 DEF Stacked
<1>8. Handed'
  <2>1. \A k \in DOMAIN iterdata : k \in Tasks /\ task[k].pc = "ended"
    BY <1>1, HandedEnded
  <2> QED BY <2>1, <1>1, <1>3 DEF Handed
<1> QED BY <1>5, <1>6, <1>7, <1>8

(* AppendCount adds the count of the object at work.                         *)
LEMMA AppendGroups ==
  ASSUME TypeInv, GroupInv, NEW i \in Tasks, AppendCount(i)
  PROVE  GroupInv'
<1> SUFFICES ASSUME source = "storage"
             PROVE  (Sequential /\ Counted /\ Stacked /\ Handed)'
  BY DEF GroupInv, AppendCount, input
<1>1. Sequential /\ Counted /\ Handed
  BY DEF GroupInv
<1>2. PICK off : off \in [Nat -> Nat] /\ Offsets(off)
  BY DEF GroupInv, Stacked
<1>3. /\ task[i].pc = "append" /\ task'[i].pc = "ended" /\ task'[i].parts = task[i].parts
      /\ \A k \in Tasks \ {i} : task'[k] = task[k]
      /\ parts_per_object' = Append(parts_per_object, Len(task[i].parts))
      /\ UNCHANGED <<objs, partitions, prev_total, iterdata>>
  BY TaskFields DEF AppendCount, TaskRec, input, reduce
<1>4. /\ Tasks = 1 .. Len(objs) /\ Len(objs) \in Nat /\ Len(parts_per_object) \in Nat
      /\ Tasks' = Tasks /\ i \in Nat /\ i <= Len(objs)
  BY <1>3, TasksAre, TaskFields DEF Tasks
<1>5. i = Len(parts_per_object) + 1 /\ \A k \in Tasks : k > i => task[k].pc = "start"
  <2>1. \A k \in 1 .. i - 1 : task[k].pc = "ended"
    BY <1>1, <1>3, Before DEF Sequential
  <2> QED BY <1>1, <1>3, <2>1, AtWork
<1>6. Sequential'
  <2> SUFFICES ASSUME NEW j \in Tasks, NEW k \in Tasks, k < j, task'[j].pc # "start"
               PROVE  task'[k].pc = "ended"
    BY <1>4 DEF Sequential
  <2>1. CASE k = i
    BY <1>3, <2>1
  <2>2. CASE k # i
    <3>1. task[j].pc # "start"
      BY <1>3
    <3> QED BY <1>1, <1>3, <2>2, <3>1 DEF Sequential
  <2> QED BY <2>1, <2>2
<1>7. Counted'
  <2>1. /\ Len(parts_per_object') = i /\ parts_per_object'[i] = Len(task[i].parts)
        /\ \A k \in 1 .. i - 1 : parts_per_object'[k] = parts_per_object[k]
    <3>1. parts_per_object \in Seq(Nat) /\ Len(task[i].parts) \in Nat
      BY TaskFields, LenProperties DEF TypeInv, TypeOK
    <3> QED BY <1>3, <1>4, <1>5, <3>1, AppendProperties
  <2> SUFFICES ASSUME NEW k \in Tasks
               PROVE  /\ task'[k].pc = "ended" <=> k <= i
                      /\ task'[k].pc = "ended" => parts_per_object'[k] = Len(task'[k].parts)
    BY <1>4, <1>3, <2>1 DEF Counted
  <2>2. CASE k = i
    BY <1>3, <1>4, <2>1, <2>2
  <2>3. CASE k # i
    <3>1. task'[k] = task[k] /\ k \in Nat /\ k > 0
      BY <1>3, <1>4, <2>3
    <3>2. task[k].pc = "ended" <=> k <= Len(parts_per_object)
      BY <1>1 DEF Counted
    <3>3. task[k].pc = "ended" <=> k <= i
      BY ONLY <1>4, <1>5, <2>3, <3>1, <3>2
    <3>4. task[k].pc = "ended" => k \in 1 .. i - 1
      BY ONLY <1>4, <2>3, <3>1, <3>3
    <3> QED BY <1>1, <2>1, <3>1, <3>3, <3>4 DEF Counted
  <2> QED BY <2>2, <2>3
<1>8. Offsets(off)'
  <2>1. \A k \in Tasks : Extended(k)' <=> Extended(k)
    BY <1>3 DEF Extended
  <2>2. \A k \in Tasks : task'[k].parts = task[k].parts
    BY <1>3
  <2>3. ASSUME NEW k \in 1 .. Len(objs) + 1,
               k - 1 \in Tasks => Extended(k - 1)', k \in Tasks => ~Extended(k)'
        PROVE  off[k] = Len(partitions)
    <3>1. k - 1 \in Tasks => Extended(k - 1)
      BY <2>1, <2>3
    <3>2. k \in Tasks => ~Extended(k)
      BY <2>1, <2>3
    <3> QED BY <1>2, <3>1, <3>2 DEF Offsets
  <2>4. ASSUME NEW k \in Tasks, Extended(k)'
        PROVE  /\ off[k + 1] = off[k] + Len(task'[k].parts) /\ off[k + 1] <= Len(partitions)
               /\ \A m \in 1 .. Len(task'[k].parts) : partitions[off[k] + m] = task'[k].parts[m]
    <3>1. Extended(k) /\ task'[k].parts = task[k].parts
      BY <2>1, <2>2, <2>4
    <3> QED BY <1>2, <3>1 DEF Offsets
  <2>5. off[1] = 0 /\ prev_total' = off[Len(iterdata') + 1]
    BY <1>2, <1>3 DEF Offsets
  <2>6. /\ \A k \in Tasks' : Extended(k)' =>
             /\ off[k + 1] = off[k] + Len(task'[k].parts) /\ off[k + 1] <= Len(partitions')
             /\ \A m \in 1 .. Len(task'[k].parts) : partitions'[off[k] + m] = task'[k].parts[m]
        /\ \A k \in 1 .. Len(objs') + 1 :
             /\ k - 1 \in Tasks' => Extended(k - 1)'
             /\ k \in Tasks' => ~Extended(k)'
             => off[k] = Len(partitions')
    BY <1>3, <1>4, <2>3, <2>4
  <2> QED BY <2>5, <2>6 DEF Offsets
<1>9. Handed'
  <2>1. \A k \in DOMAIN iterdata : k \in Tasks /\ task[k].pc = "ended"
    BY <1>1, HandedEnded
  <2>2. Len(iterdata') <= Len(parts_per_object')
    <3>1. Len(parts_per_object') = Len(parts_per_object) + 1
      BY <1>3, TaskFields, LenProperties, AppendProperties DEF TypeInv, TypeOK
    <3>2. Len(iterdata) \in Nat /\ Len(iterdata) <= Len(parts_per_object) /\ iterdata' = iterdata
      BY <1>1, <1>3, TasksAre DEF Handed
    <3>3. Len(parts_per_object) \in Nat
      BY <1>4
    <3> QED BY ONLY <3>1, <3>2, <3>3
  <2>3. \A k \in DOMAIN iterdata' : iterdata'[k] = task'[k].parts
    BY <1>1, <1>3, <2>1 DEF Handed
  <2> QED BY <2>2, <2>3 DEF Handed
<1> QED BY <1>2, <1>6, <1>7, <1>8, <1>9 DEF Stacked

(* The slice that AddReducer takes is the parts of one object.               *)
LEMMA SliceIsParts ==
  ASSUME NEW s, NEW S, s \in Seq(S), NEW p, NEW R, p \in Seq(R), NEW a \in Nat, NEW b \in Nat,
         b = a + Len(p), b <= Len(s), \A m \in 1 .. Len(p) : s[a + m] = p[m]
  PROVE  SubSeq(s, a + 1, b) = p
<1>1. Len(p) \in Nat /\ p = [m \in 1 .. Len(p) |-> p[m]]
  BY LenProperties
<1>2. \A m \in a + 1 .. b : s[m] \in S
  BY <1>1
<1>3. /\ SubSeq(s, a + 1, b) \in Seq(S)
      /\ Len(SubSeq(s, a + 1, b)) = IF a + 1 <= b THEN b - (a + 1) + 1 ELSE 0
      /\ \A m \in 1 .. b - (a + 1) + 1 : SubSeq(s, a + 1, b)[m] = s[a + 1 + m - 1]
  BY <1>2, SubSeqProperties
<1>4. Len(SubSeq(s, a + 1, b)) = Len(p)
  BY <1>1, <1>3
<1>5. ASSUME NEW m \in 1 .. Len(p)
      PROVE  SubSeq(s, a + 1, b)[m] = p[m]
  <2>1. a + 1 + m - 1 = a + m /\ m \in 1 .. b - (a + 1) + 1
    BY <1>1
  <2> QED BY <1>3, <2>1
<1> QED BY <1>3, <1>4, <1>5, SeqEqual

LEMMA ReducerGroups ==
  ASSUME TypeInv, GroupInv, AddReducer
  PROVE  GroupInv'
<1> SUFFICES ASSUME source = "storage"
             PROVE  (Sequential /\ Counted /\ Stacked /\ Handed)'
  BY DEF GroupInv, AddReducer, input
<1> DEFINE n == Len(iterdata) + 1
           upto == prev_total + parts_per_object[n]
           slice == SubSeq(partitions, prev_total + 1, Min({upto, Len(partitions)}))
<1>1. Sequential /\ Counted /\ Handed
  BY DEF GroupInv
<1>2. PICK off : off \in [Nat -> Nat] /\ Offsets(off)
  BY DEF GroupInv, Stacked
<1>3. /\ Ended /\ Len(iterdata) < Len(parts_per_object)
      /\ iterdata' = Append(iterdata, slice) /\ prev_total' = upto
      /\ UNCHANGED <<objs, task, partitions, parts_per_object>>
  BY DEF AddReducer, input
<1>4. /\ Tasks = 1 .. Len(objs) /\ Len(objs) \in Nat /\ Len(partitions) \in Nat
      /\ Len(parts_per_object) \in Nat /\ Len(iterdata) \in Nat
      /\ DOMAIN iterdata = 1 .. Len(iterdata)
  BY TasksAre
<1>5. n \in Tasks /\ n \in Nat /\ task[n].pc = "ended"
  <2>1. Len(parts_per_object) <= Len(objs)
    BY <1>1 DEF Counted
  <2>2. Len(iterdata) < Len(parts_per_object)
    BY <1>3
  <2>3. n \in 1 .. Len(objs) /\ n \in Nat
    BY ONLY <1>4, <2>1, <2>2
  <2> QED BY <1>3, <1>4, <2>3 DEF Ended, LeftOut
<1> HIDE DEF n
<1>6. /\ prev_total = off[n] /\ parts_per_object[n] = Len(task[n].parts)
      /\ off[n + 1] = off[n] + Len(task[n].parts) /\ off[n + 1] <= Len(partitions)
      /\ \A m \in 1 .. Len(task[n].parts) : partitions[off[n] + m] = task[n].parts[m]
  <2>1. Extended(n)
    BY <1>5 DEF Extended
  <2>2. prev_total = off[n]
    BY <1>2 DEF Offsets, n
  <2>3. parts_per_object[n] = Len(task[n].parts)
    BY <1>1, <1>5 DEF Counted
  <2> QED BY <1>2, <1>5, <2>1, <2>2, <2>3 DEF Offsets
<1>7. off[n] \in Nat /\ off[n + 1] \in Nat
  <2>1. n + 1 \in Nat
    BY <1>5
  <2> QED BY <1>2, <1>5, <2>1
<1>8. upto = off[n + 1]
  BY <1>6
<1>9. Min({upto, Len(partitions)}) = off[n + 1]
  <2>1. Min({off[n + 1], Len(partitions)}) = off[n + 1]
    <3>1. off[n + 1] \in Int /\ Len(partitions) \in Int
      BY <1>4, <1>7
    <3> QED BY <1>6, <3>1, MinOfTwo
  <2> QED BY <1>8, <2>1
<1>10. slice = task[n].parts
  <2>1. partitions \in Seq(Part) /\ task[n].parts \in Seq(Part)
    BY <1>5, TaskFields DEF TypeInv, TypeOK
  <2>2. SubSeq(partitions, off[n] + 1, off[n + 1]) = task[n].parts
    BY <1>6, <1>7, <2>1, SliceIsParts
  <2> QED BY <1>6, <1>9, <2>2
<1> HIDE DEF slice
<1>11. /\ Len(iterdata') = n /\ DOMAIN iterdata' = 1 .. n /\ iterdata'[n] = slice
       /\ \A k \in 1 .. n - 1 : iterdata'[k] = iterdata[k]
  <2>1. iterdata \in Seq(Seq(Part)) /\ slice \in Seq(Part)
    BY <1>5, <1>10, TaskFields DEF TypeInv, TypeOK
  <2>2. iterdata' = Append(iterdata, slice)
    BY <1>3
  <2> QED BY ONLY <1>4, <2>1, <2>2, AppendProperties DEF n
<1>12. /\ Tasks' = Tasks /\ UNCHANGED <<objs, task, partitions, parts_per_object>>
  BY <1>3 DEF Tasks
<1>13. Sequential' /\ Counted'
  BY <1>1, <1>12 DEF Sequential, Counted
<1>14. Handed'
  <2>1. n <= Len(parts_per_object)
    BY <1>3, <1>4 DEF n
  <2>2. ASSUME NEW k \in 1 .. n
        PROVE  iterdata'[k] = task[k].parts
    <3>1. CASE k = n
      BY <1>10, <1>11, <3>1
    <3>2. CASE k # n
      <4>1. k \in 1 .. n - 1
        BY ONLY <1>5, <3>2, k \in 1 .. n
      <4>2. k \in DOMAIN iterdata
        BY <1>4, <4>1 DEF n
      <4> QED BY <1>1, <1>11, <4>1, <4>2 DEF Handed
    <3> QED BY <3>1, <3>2
  <2> QED BY <1>11, <1>12, <2>1, <2>2 DEF Handed
<1>15. Offsets(off)'
  <2>1. prev_total' = off[Len(iterdata') + 1]
    BY <1>3, <1>8, <1>11
  <2>2. \A k : Extended(k)' <=> Extended(k)
    BY <1>12 DEF Extended
  <2> QED BY <1>2, <1>12, <2>1 DEF Offsets, Extended
<1> QED BY <1>2, <1>13, <1>14, <1>15 DEF Stacked

LEMMA GroupStep == TypeInv /\ GroupInv /\ [Next]_vars => GroupInv'
<1> SUFFICES ASSUME TypeInv, GroupInv, [Next]_vars
             PROVE  GroupInv'
  OBVIOUS
<1>1. ASSUME NEW i \in Tasks, \/ Start(i) \/ SplitRaises(i) \/ AddPartition(i)
                               \/ Extend(i) \/ AppendCount(i)
      PROVE  GroupInv'
  <2>1. CASE SplitRaises(i)
    BY <2>1 DEF SplitRaises, GroupInv, input
  <2> QED BY <1>1, <2>1, SplitGroups, ExtendGroups, AppendGroups
<1>2. CASE AddReducer
  BY <1>2, ReducerGroups
<1>3. CASE UNCHANGED vars
  <2>1. Tasks' = Tasks /\ UNCHANGED <<source, objs, task, partitions, parts_per_object>>
        /\ UNCHANGED <<prev_total, iterdata>>
    BY <1>3 DEF vars, input, reduce, Tasks
  <2>2. Sequential' <=> Sequential
    BY <2>1 DEF Sequential
  <2>3. (Counted' <=> Counted) /\ (Handed' <=> Handed)
    BY <2>1 DEF Counted, Handed
  <2>4. Stacked' <=> Stacked
    BY <2>1 DEF Stacked, Offsets, Extended
  <2> QED BY <2>1, <2>2, <2>3, <2>4 DEF GroupInv
<1> QED BY <1>1, <1>2, <1>3 DEF Next

LEMMA GroupsHold ==
  ASSUME TypeInv, GroupInv
  PROVE  GroupsMatch
<1> SUFFICES ASSUME source = "storage"
             PROVE  /\ Ended => Len(parts_per_object) = Len(objs)
                    /\ \A k \in DOMAIN iterdata : iterdata[k] = task[k].parts
  BY DEF GroupsMatch
<1>1. Counted /\ Handed
  BY DEF GroupInv
<1>2. ASSUME Ended
      PROVE  Len(parts_per_object) = Len(objs)
  <2>1. Tasks = 1 .. Len(objs) /\ Len(objs) \in Nat /\ Len(parts_per_object) \in Nat
    BY TasksAre
  <2>2. Len(parts_per_object) <= Len(objs)
    BY <1>1 DEF Counted
  <2>3. Len(objs) \in Tasks => Len(objs) <= Len(parts_per_object)
    BY <1>1, <1>2 DEF Counted, Ended, LeftOut
  <2> QED BY ONLY <2>1, <2>2, <2>3
<1> QED BY <1>1, <1>2 DEF Handed

(* Each reducer of a bucket gets all the partitions of one object, in their  *)
(* order, and none of another's.                                             *)
THEOREM ReducersGetObjects == Spec => []GroupsMatch
<1>1. TypeInv /\ GroupInv => GroupsMatch
  BY GroupsHold
<1> QED BY TypeInit, TypeStep, GroupInit, GroupStep, <1>1, PTL DEF Spec

-----------------------------------------------------------------------------
(* What is in the parts of an object.                                        *)

(* The range and the length of the part that begins at byte a of an object   *)
(* that is cut every c bytes.                                                *)
RangeAt(rows, size, a, c) ==
  IF ~rows THEN [from |-> a, to |-> a + c, whole |-> FALSE]
  ELSE IF a + c < size
  THEN [from |-> PlusByte(a), to |-> a + c + Threshold + 1, whole |-> FALSE]
  ELSE [from |-> a - 1, to |-> size, whole |-> FALSE]
ChunkAt(rows, size, a, c) == IF rows /\ a + c >= size THEN size - a ELSE c

(* p is the kth part of object i.                                            *)
CutPart(rows, size, i, k, c, p) ==
  p.obj = i /\ p.range = RangeAt(rows, size, (k - 1) * c, c)
            /\ p.chunk = ChunkAt(rows, size, (k - 1) * c, c)

Unsplit(t) == Len(t.parts) = 0 /\ t.at = 0
Whole(i, t) ==
  /\ Len(t.parts) = 1 /\ t.at = t.size /\ t.size > 1
  /\ t.parts[1].obj = i /\ t.parts[1].range = [from |-> 0, to |-> t.size, whole |-> TRUE]
Cut(rows, size, i, t, c) ==
  LET n == Len(t.parts)
  IN  /\ n > 0 /\ 0 < c /\ c < size /\ t.parts[1].chunk = c
      /\ \A k \in 1 .. n : CutPart(rows, size, i, k, c, t.parts[k])
      /\ (n - 1) * c < size - 1
      /\ (t.chunk = c /\ t.at = n * c) \/ (rows /\ n * c >= size /\ t.at = size)

(* Sizes are those of the objects, but for empty or unknown ones.            *)
Sized(size, t) == t.size = size \/ t.size = 1
Shaped(rows, size, i, t) ==
  /\ t.pc \in {"loop", "append", "ended"} => Sized(size, t)
  /\ t.pc \in {"append", "ended"} => t.at >= t.size - 1
  /\ \/ Unsplit(t)
     \/ Whole(i, t)
     \/ \E c \in Nat : t.size = size /\ Cut(rows, size, i, t, c)

ShapeInv == \A i \in Tasks : Shaped(newline, objs[i].size, i, task[i])

LEMMA Multiples ==
  ASSUME NEW k \in Nat, NEW l \in Nat, NEW c \in Nat
  PROVE  /\ k * c \in Nat /\ (k + 1) * c = k * c + c /\ (k + 1 - 1) * c = k * c
         /\ k <= l => k * c <= l * c
         /\ c > 0 => k <= k * c
<1>1. k * c \in Nat /\ (k + 1) * c = k * c + c /\ (k + 1 - 1) * c = k * c
  OBVIOUS
<1>2. ASSUME k <= l
      PROVE  k * c <= l * c
  <2>1. PICK d \in Nat : l = k + d
    <3>1. l - k \in Nat /\ l = k + (l - k)
      BY <1>2
    <3> QED BY <3>1
  <2>2. l * c = k * c + d * c /\ d * c \in Nat
    BY <2>1
  <2> QED BY ONLY <1>1, <2>2
<1>3. ASSUME c > 0
      PROVE  k <= k * c
  <2>1. PICK d \in Nat : c = d + 1
    <3>1. c - 1 \in Nat /\ c = c - 1 + 1
      BY <1>3
    <3> QED BY <3>1
  <2>2. k * c = k * d + k /\ k * d \in Nat
    BY <2>1
  <2> QED BY ONLY <2>2, k \in Nat
<1> QED BY <1>1, <1>2, <1>3

(* The part that AddPartition appends to an object that is cut.              *)
LEMMA NewCutPart ==
  ASSUME TypeInv, NEW i \in Tasks, NEW k \in Nat, NEW c \in Nat,
         c < task[i].size, task[i].chunk = c, task[i].at = (k - 1) * c
  PROVE  CutPart(newline, task[i].size, i, k, c, NewPart(i))
<1>1. task[i].at \in Nat /\ task[i].size \in Nat
  BY TaskFields
<1>2. ByteRange(task[i]) = RangeAt(newline, task[i].size, (k - 1) * c, c)
  BY <1>1 DEF ByteRange, RangeAt
<1>3. NewChunk(task[i]) = ChunkAt(newline, task[i].size, (k - 1) * c, c)
  BY <1>1 DEF NewChunk, LastChunk, ChunkAt
<1> QED BY <1>2, <1>3 DEF CutPart, NewPart

(* The first part of an object.                                              *)
LEMMA FirstPart ==
  ASSUME TypeInv, NEW i \in Tasks, AddPartition(i), Unsplit(task[i]),
         Shaped(newline, objs[i].size, i, task[i])
  PROVE  Shaped(newline, objs[i].size, i, task'[i])
<1> DEFINE t == task[i]
           size == t.size
           c == t.chunk
<1>1. /\ t.pc = "loop" /\ t.at = 0 /\ t.parts = <<>> /\ 0 < size - 1
      /\ size \in Nat /\ c \in Nat /\ c > 0 /\ objs[i].size \in Nat
      /\ Sized(objs[i].size, t)
  <2>1. t.parts \in Seq(Part) /\ t.pc = "loop"
    BY TaskFields DEF AddPartition
  <2>2. t.parts = <<>>
    BY <2>1, EmptySeq DEF Unsplit
  <2> QED BY <2>1, <2>2, TaskFields DEF AddPartition, Unsplit, MoreToSplit, Begun, Shaped
<1>2. PICK u \in TaskRec : /\ task' = [task EXCEPT ![i] = u] /\ u.pc = "loop" /\ u.size = size
                           /\ u.parts = <<NewPart(i)>>
                           /\ u.chunk = NewChunk(t) /\ u.at = NewChunk(t)
  <2> DEFINE d == NewChunk(t)
             u == [t EXCEPT !.parts = Append(t.parts, NewPart(i)), !.at = t.at + d, !.chunk = d]
  <2>1. task' = [task EXCEPT ![i] = u] /\ u \in TaskRec
    BY AddStep
  <2>2. Append(t.parts, NewPart(i)) = <<NewPart(i)>> /\ t.at + d = d
    <3>1. d \in Nat
      BY <1>1, PartType DEF AddPartition
    <3> QED BY <1>1, <3>1
  <2>3. t \in TaskRec
    BY TaskFields
  <2>4. u.pc = t.pc /\ u.size = size /\ u.parts = <<NewPart(i)>> /\ u.chunk = d /\ u.at = d
    BY <2>2, <2>3 DEF TaskRec
  <2> QED BY <1>1, <2>1, <2>4
<1>3. task'[i] = u
  BY <1>2, TaskFields
<1>4. u.parts[1] = NewPart(i) /\ Len(u.parts) = 1
  BY <1>2
<1> HIDE DEF t
<1>5. CASE size <= c
  <2>1. /\ ByteRange(t) = [from |-> 0, to |-> size, whole |-> TRUE] /\ NewChunk(t) = size
    BY <1>1, <1>5 DEF ByteRange, NewChunk
  <2>2. Whole(i, u)
    <3>1. NewPart(i).obj = i /\ NewPart(i).range = ByteRange(t)
      BY DEF NewPart, t
    <3>2. u.at = u.size
      BY <1>2, <2>1
    <3> QED BY <1>1, <1>2, <1>4, <2>1, <3>1, <3>2 DEF Whole
  <2> QED BY <1>1, <1>2, <1>3, <2>2 DEF Shaped, Sized
<1>6. CASE size > c
  <2>1. size = objs[i].size
    BY <1>1, <1>6 DEF Sized
  <2>2. NewChunk(t) = c /\ ChunkAt(newline, size, 0, c) = c
    BY <1>1, <1>6 DEF NewChunk, LastChunk, ChunkAt
  <2>3. CutPart(newline, size, i, 1, c, NewPart(i))
    <3>1. t.at = (1 - 1) * c
      BY <1>1
    <3> QED BY <1>1, <1>6, <3>1, NewCutPart DEF t
  <2>4. u.parts[1].chunk = c
    BY <1>4, <2>2 DEF NewPart, t
  <2>5. \A k \in 1 .. 1 : k = 1
    OBVIOUS
  <2>6. (1 - 1) * c = 0 /\ 1 * c = c
    BY <1>1
  <2>7. Cut(newline, size, i, u, c)
    BY <1>1, <1>2, <1>4, <1>6, <2>2, <2>3, <2>4, <2>5, <2>6 DEF Cut
  <2> QED BY <1>1, <1>2, <1>3, <2>1, <2>7 DEF Shaped, Sized
<1> QED BY <1>1, <1>5, <1>6

(* A part more of an object that is cut.                                     *)
LEMMA NextPart ==
  ASSUME TypeInv, NEW i \in Tasks, AddPartition(i), NEW c \in Nat,
         Shaped(newline, objs[i].size, i, task[i]), task[i].size = objs[i].size,
         Cut(newline, objs[i].size, i, task[i], c)
  PROVE  Shaped(newline, objs[i].size, i, task'[i])
<1> DEFINE t == task[i]
           size == objs[i].size
           n == Len(t.parts)
<1>1. /\ t.pc = "loop" /\ t.at < size - 1 /\ t.parts \in Seq(Part)
      /\ t.at \in Nat /\ size \in Nat /\ Sized(size, t)
  BY TaskFields DEF AddPartition, MoreToSplit, Shaped
<1>2. n \in Nat
  BY <1>1, LenProperties
<1>3. /\ n > 0 /\ 0 < c /\ c < size /\ t.parts[1].chunk = c
      /\ \A k \in 1 .. n : CutPart(newline, size, i, k, c, t.parts[k])
      /\ t.chunk = c /\ t.at = n * c
  BY <1>1 DEF Cut
<1>4. PICK u \in TaskRec : /\ task' = [task EXCEPT ![i] = u] /\ u.pc = "loop" /\ u.size = size
                           /\ u.parts = Append(t.parts, NewPart(i))
                           /\ u.chunk = NewChunk(t) /\ u.at = t.at + NewChunk(t)
  <2> DEFINE d == NewChunk(t)
             u == [t EXCEPT !.parts = Append(t.parts, NewPart(i)), !.at = t.at + d, !.chunk = d]
  <2>1. task' = [task EXCEPT ![i] = u] /\ u \in TaskRec
    BY AddStep
  <2>2. t \in TaskRec
    BY TaskFields
  <2>3. /\ u.pc = t.pc /\ u.size = t.size /\ u.parts = Append(t.parts, NewPart(i))
        /\ u.chunk = d /\ u.at = t.at + d
    BY <2>2 DEF TaskRec
  <2> QED BY <1>1, <2>1, <2>3
<1>5. task'[i] = u
  BY <1>4, TaskFields
<1>6. CutPart(newline, size, i, n + 1, c, NewPart(i))
  <2>1. t.at = (n + 1 - 1) * c /\ n + 1 \in Nat
    BY <1>2, <1>3
  <2> QED BY <1>3, <2>1, NewCutPart
<1> HIDE DEF t, size, n
<1>7. /\ Len(u.parts) = n + 1 /\ u.parts[n + 1] = NewPart(i)
      /\ \A k \in 1 .. n : u.parts[k] = t.parts[k]
  <2>1. NewPart(i) \in Part
    BY PartType DEF AddPartition
  <2> QED BY <1>1, <1>4, <2>1, AppendProperties DEF n
<1>8. \A k \in 1 .. n + 1 : CutPart(newline, size, i, k, c, u.parts[k])
  <2> SUFFICES ASSUME NEW k \in 1 .. n + 1
               PROVE  CutPart(newline, size, i, k, c, u.parts[k])
    OBVIOUS
  <2>1. k = n + 1 \/ k \in 1 .. n
    BY <1>2
  <2> QED BY <1>3, <1>6, <1>7, <2>1
<1>9. u.parts[1].chunk = c /\ n + 1 > 0
  <2>1. 1 \in 1 .. n
    BY <1>2, <1>3
  <2> QED BY <1>2, <1>3, <1>7, <2>1
<1>10. (n + 1) * c = n * c + c /\ (n + 1 - 1) * c = n * c /\ n * c \in Nat
  BY <1>2, Multiples
<1>11. \/ u.chunk = c /\ u.at = (n + 1) * c
       \/ newline /\ (n + 1) * c >= size /\ u.at = size
  <2>1. t.size = size
    BY DEF t, size
  <2>2. CASE newline /\ t.at + c >= size
    <3>1. NewChunk(t) = size - t.at
      BY <1>1, <1>3, <2>1, <2>2 DEF NewChunk, LastChunk
    <3>2. u.at = size
      BY <1>1, <1>4, <3>1
    <3> QED BY <1>3, <1>10, <2>2, <3>2
  <2>3. CASE ~(newline /\ t.at + c >= size)
    <3>1. NewChunk(t) = c
      BY <1>1, <1>3, <2>1, <2>3 DEF NewChunk, LastChunk
    <3> QED BY <1>3, <1>4, <1>10, <3>1
  <2> QED BY <2>2, <2>3
<1>12. (n + 1 - 1) * c < size - 1
  BY <1>1, <1>3, <1>10
<1>13. Cut(newline, size, i, u, c)
  <2>1. (Len(u.parts) - 1) * c < size - 1 /\ Len(u.parts) > 0
    <3>1. Len(u.parts) = n + 1
      BY <1>7
    <3>2. Len(u.parts) - 1 = n + 1 - 1 /\ Len(u.parts) > 0
      BY ONLY <3>1, <1>2
    <3> QED BY ONLY <3>2, <1>12, Zenon
  <2>2. \/ u.chunk = c /\ u.at = Len(u.parts) * c
        \/ newline /\ Len(u.parts) * c >= size /\ u.at = size
    BY <1>7, <1>11
  <2>3. \A k \in 1 .. Len(u.parts) : CutPart(newline, size, i, k, c, u.parts[k])
    BY <1>7, <1>8
  <2> QED BY <1>3, <1>9, <2>1, <2>2, <2>3 DEF Cut
<1> QED BY <1>4, <1>5, <1>13 DEF Shaped, Sized, size

LEMMA ShapeInit == Init => ShapeInv
<1> SUFFICES ASSUME Init, NEW i \in Tasks
             PROVE  Shaped(newline, objs[i].size, i, task[i])
  BY DEF ShapeInv
<1>1. task[i] = [pc |-> "start", at |-> 0, size |-> 0, chunk |-> 0, parts |-> <<>>]
  BY DEF Init, Tasks
<1>2. Unsplit(task[i]) /\ task[i].pc = "start"
  BY <1>1 DEF Unsplit
<1> QED BY <1>2 DEF Shaped

(* Start gives the object a size; the others that do not split leave its     *)
(* parts alone.                                                              *)
LEMMA StartShape ==
  ASSUME TypeInv, NEW i \in Tasks, Start(i)
  PROVE  Shaped(newline, objs[i].size, i, task'[i])
<1>0. PICK known \in BOOLEAN :
        LET size == IF NoSize(i, known) THEN 1 ELSE objs[i].size
            chunk == IF ~ranges \/ NoSize(i, known) THEN size ELSE ChunkOf(size)
        IN  task' = [task EXCEPT ![i] =
                       [@ EXCEPT !.pc = IF chunk = 0 THEN "raised" ELSE "loop",
                                 !.size = size, !.chunk = chunk]]
  BY DEF Start
<1> DEFINE size == IF NoSize(i, known) THEN 1 ELSE objs[i].size
           chunk == IF ~ranges \/ NoSize(i, known) THEN size ELSE ChunkOf(size)
           u == [task[i] EXCEPT !.pc = IF chunk = 0 THEN "raised" ELSE "loop",
                                !.size = size, !.chunk = chunk]
<1>1. task[i] \in TaskRec /\ task[i].pc = "start" /\ task[i].at = 0 /\ task[i].parts = <<>>
  BY TaskFields DEF Start, Begun
<1>2. task'[i] = u
  BY <1>0, TaskFields
<1> HIDE DEF chunk
<1>3. /\ u.pc \in {"raised", "loop"} /\ u.at = 0 /\ u.parts = <<>> /\ u.size = size
  BY <1>1 DEF TaskRec
<1> HIDE DEF u
<1>4. Unsplit(u) /\ Sized(objs[i].size, u)
  BY <1>3 DEF Unsplit, Sized, NoSize
<1> QED BY <1>2, <1>3, <1>4 DEF Shaped

LEMMA PcShape ==
  ASSUME TypeInv, NEW i \in Tasks, NEW l \in {"append", "ended"},
         task[i].pc \in {"loop", "append"}, task' = [task EXCEPT ![i].pc = l],
         task[i].at >= task[i].size - 1, Shaped(newline, objs[i].size, i, task[i])
  PROVE  Shaped(newline, objs[i].size, i, task'[i])
<1>1. task[i] \in TaskRec /\ DOMAIN task = Tasks
  BY TaskFields
<1>2. /\ task'[i].pc = l /\ task'[i].at = task[i].at /\ task'[i].size = task[i].size
      /\ task'[i].chunk = task[i].chunk /\ task'[i].parts = task[i].parts
  BY <1>1 DEF TaskRec
<1>3. (Unsplit(task'[i]) <=> Unsplit(task[i])) /\ (Whole(i, task'[i]) <=> Whole(i, task[i]))
  BY <1>2 DEF Unsplit, Whole
<1>4. \A c \in Nat : Cut(newline, objs[i].size, i, task'[i], c)
                     <=> Cut(newline, objs[i].size, i, task[i], c)
  BY <1>2 DEF Cut
<1>5. Sized(objs[i].size, task'[i])
  BY <1>2 DEF Shaped, Sized
<1> QED BY <1>2, <1>3, <1>4, <1>5 DEF Shaped

LEMMA ShapeStep == TypeInv /\ ShapeInv /\ [Next]_vars => ShapeInv'
<1> SUFFICES ASSUME TypeInv, ShapeInv, [Next]_vars
             PROVE  ShapeInv'
  OBVIOUS
<1>1. ASSUME UNCHANGED input, NEW i \in Tasks,
             \A k \in Tasks \ {i} : task'[k] = task[k],
             Shaped(newline, objs[i].size, i, task'[i])
      PROVE  ShapeInv'
  <2>1. Tasks' = Tasks /\ objs' = objs /\ newline' = newline
    BY <1>1 DEF Tasks, input
  <2>2. \A k \in Tasks : Shaped(newline, objs[k].size, k, task'[k])
    BY <1>1 DEF ShapeInv
  <2> QED BY <2>1, <2>2 DEF ShapeInv
<1>2. ASSUME NEW i \in Tasks, Start(i)
      PROVE  ShapeInv'
  <2>1. UNCHANGED input /\ \A k \in Tasks \ {i} : task'[k] = task[k]
    BY <1>2, TaskFields DEF Start
  <2> QED BY <1>1, <1>2, <2>1, StartShape
<1>6. ASSUME NEW i \in Tasks, SplitRaises(i)
      PROVE  ShapeInv'
  <2>1. UNCHANGED input /\ \A k \in Tasks \ {i} : task'[k] = task[k]
    BY <1>6, TaskFields DEF SplitRaises
  <2>2. task'[i].parts = <<>> /\ task'[i].at = 0 /\ task'[i].pc = "raised"
    BY <1>6, RaiseStep, TaskFields
  <2>3. Shaped(newline, objs[i].size, i, task'[i])
    BY <2>2 DEF Shaped, Unsplit
  <2> QED BY <1>1, <2>1, <2>3
<1>3. ASSUME NEW i \in Tasks, AddPartition(i)
      PROVE  ShapeInv'
  <2>1. UNCHANGED input /\ \A k \in Tasks \ {i} : task'[k] = task[k]
    BY <1>3, TaskFields DEF AddPartition
  <2>2. Shaped(newline, objs[i].size, i, task[i])
    BY DEF ShapeInv
  <2>3. ~Whole(i, task[i])
    BY <1>3, TaskFields DEF Whole, AddPartition, MoreToSplit
  <2>4. \/ Unsplit(task[i])
        \/ \E c \in Nat : task[i].size = objs[i].size /\ Cut(newline, objs[i].size, i, task[i], c)
    BY <2>2, <2>3 DEF Shaped
  <2>5. Shaped(newline, objs[i].size, i, task'[i])
    BY <1>3, <2>2, <2>4, FirstPart, NextPart
  <2> QED BY <1>1, <2>1, <2>5
<1>4. ASSUME NEW i \in Tasks, Extend(i) \/ AppendCount(i)
      PROVE  ShapeInv'
  <2>1. UNCHANGED input /\ \A k \in Tasks \ {i} : task'[k] = task[k]
    BY <1>4, TaskFields DEF Extend, AppendCount
  <2>2. Shaped(newline, objs[i].size, i, task[i])
    BY DEF ShapeInv
  <2>3. task[i].at >= task[i].size - 1
    BY <1>4, <2>2, TaskFields DEF Extend, AppendCount, MoreToSplit, Shaped
  <2>4. \E l \in {"append", "ended"} : task' = [task EXCEPT ![i].pc = l]
    BY <1>4 DEF Extend, AppendCount
  <2>5. Shaped(newline, objs[i].size, i, task'[i])
    BY <1>4, <2>2, <2>3, <2>4, PcShape DEF Extend, AppendCount
  <2> QED BY <1>1, <2>1, <2>5
<1>5. CASE AddReducer \/ UNCHANGED vars
  <2>1. Tasks' = Tasks /\ objs' = objs /\ newline' = newline /\ task' = task
    BY <1>5 DEF AddReducer, vars, Tasks, input
  <2> QED BY <2>1 DEF ShapeInv
<1> QED BY <1>2, <1>3, <1>4, <1>5, <1>6 DEF Next

-----------------------------------------------------------------------------
(* Where the parts of an object are in the list of partitions.               *)

Placed(s, i, parts) ==
  \E off \in Nat :
    /\ off + Len(parts) <= Len(s)
    /\ \A m \in 1 .. Len(parts) : s[off + m] = parts[m]
    /\ \A j \in 1 .. Len(s) : s[j].obj = i => off < j /\ j <= off + Len(parts)
Absent(s, i) == \A j \in 1 .. Len(s) : s[j].obj # i
PlaceInv ==
  \A i \in Tasks :
    /\ task[i].pc \in {"append", "ended"} => Placed(partitions, i, task[i].parts)
    /\ ~(task[i].pc \in {"append", "ended"}) => Absent(partitions, i)

LEMMA OwnParts ==
  ASSUME TypeInv, ShapeInv, NEW i \in Tasks
  PROVE  \A m \in 1 .. Len(task[i].parts) : task[i].parts[m].obj = i
<1>1. \/ Unsplit(task[i])
      \/ Whole(i, task[i])
      \/ \E c \in Nat : Cut(newline, objs[i].size, i, task[i], c)
  BY DEF ShapeInv, Shaped
<1>2. CASE Unsplit(task[i])
  BY <1>2 DEF Unsplit
<1>3. CASE Whole(i, task[i])
  BY <1>3 DEF Whole
<1>4. CASE \E c \in Nat : Cut(newline, objs[i].size, i, task[i], c)
  BY <1>4 DEF Cut, CutPart
<1> QED BY <1>1, <1>2, <1>3, <1>4

(* The list when the parts q of object i are put behind it.                  *)
LEMMA PlaceOwn ==
  ASSUME NEW s, NEW q, s \in Seq(Part), q \in Seq(Part), NEW i, Absent(s, i)
  PROVE  Placed(s \o q, i, q)
<1>1. /\ Len(s) \in Nat /\ Len(q) \in Nat /\ Len(s \o q) = Len(s) + Len(q)
      /\ \A j \in 1 .. Len(s) + Len(q) : (s \o q)[j] = IF j <= Len(s) THEN s[j] ELSE q[j - Len(s)]
  BY LenProperties, ConcatProperties
<1>2. ASSUME NEW m \in 1 .. Len(q)
      PROVE  (s \o q)[Len(s) + m] = q[m]
  <2>1. /\ Len(s) + m \in 1 .. Len(s) + Len(q) /\ ~(Len(s) + m <= Len(s))
        /\ Len(s) + m - Len(s) = m
    BY <1>1
  <2> QED BY <1>1, <2>1
<1>3. ASSUME NEW j \in 1 .. Len(s \o q), (s \o q)[j].obj = i
      PROVE  Len(s) < j /\ j <= Len(s) + Len(q)
  <2>1. j \in 1 .. Len(s) + Len(q)
    BY <1>1
  <2>2. ~(j <= Len(s))
    BY <1>1, <1>3, <2>1 DEF Absent
  <2> QED BY <1>1, <2>1, <2>2
<1>4. Len(s) + Len(q) <= Len(s \o q)
  BY ONLY <1>1
<1>5. Len(s) \in Nat
  BY <1>1
<1> QED BY ONLY <1>2, <1>3, <1>4, <1>5, Zenon DEF Placed

LEMMA PlaceOther ==
  ASSUME NEW s, NEW q, s \in Seq(Part), q \in Seq(Part), NEW i,
         \A m \in 1 .. Len(q) : q[m].obj # i
  PROVE  /\ Absent(s, i) => Absent(s \o q, i)
         /\ \A p \in Seq(Part) : Placed(s, i, p) => Placed(s \o q, i, p)
<1>1. /\ Len(s) \in Nat /\ Len(q) \in Nat /\ Len(s \o q) = Len(s) + Len(q)
      /\ \A j \in 1 .. Len(s) + Len(q) : (s \o q)[j] = IF j <= Len(s) THEN s[j] ELSE q[j - Len(s)]
  BY LenProperties, ConcatProperties
<1>2. ASSUME NEW j \in 1 .. Len(s \o q), (s \o q)[j].obj = i
      PROVE  j \in 1 .. Len(s) /\ s[j].obj = i
  <2>1. j \in 1 .. Len(s) + Len(q)
    BY <1>1
  <2>2. CASE j <= Len(s)
    BY <1>1, <1>2, <2>1, <2>2
  <2>3. CASE ~(j <= Len(s))
    <3>1. j - Len(s) \in 1 .. Len(q)
      BY <1>1, <2>1, <2>3
    <3> QED BY <1>1, <1>2, <2>1, <2>3, <3>1
  <2> QED BY <2>2, <2>3
<1>3. ASSUME NEW p \in Seq(Part), Placed(s, i, p)
      PROVE  Placed(s \o q, i, p)
  <2>1. PICK off \in Nat : /\ off + Len(p) <= Len(s)
                           /\ \A m \in 1 .. Len(p) : s[off + m] = p[m]
                           /\ \A j \in 1 .. Len(s) : s[j].obj = i => off < j /\ j <= off + Len(p)
    BY <1>3 DEF Placed
  <2>2. Len(p) \in Nat
    BY LenProperties
  <2>3. off + Len(p) <= Len(s \o q)
    BY <1>1, <2>1, <2>2
  <2>4. ASSUME NEW m \in 1 .. Len(p)
        PROVE  (s \o q)[off + m] = p[m]
    <3>1. off + m \in 1 .. Len(s)
      BY <1>1, <2>1, <2>2, Inside
    <3>2. off + m \in 1 .. Len(s) + Len(q) /\ off + m <= Len(s)
      BY <1>1, <3>1
    <3> QED BY <1>1, <2>1, <3>2
  <2> QED BY <1>2, <2>1, <2>3, <2>4 DEF Placed
<1> QED BY <1>2, <1>3 DEF Absent

LEMMA PlaceInit == Init => PlaceInv
<1> SUFFICES ASSUME Init, NEW i \in Tasks
             PROVE  task[i].pc = "start" /\ Absent(partitions, i)
  BY DEF PlaceInv
<1> QED BY DEF Init, Tasks, Absent

LEMMA PlaceStep == TypeInv /\ ShapeInv /\ PlaceInv /\ [Next]_vars => PlaceInv'
<1> SUFFICES ASSUME TypeInv, ShapeInv, PlaceInv, [Next]_vars
             PROVE  PlaceInv'
  OBVIOUS
<1>1. ASSUME NEW i \in Tasks,
             Start(i) \/ SplitRaises(i) \/ AddPartition(i) \/ AppendCount(i)
      PROVE  PlaceInv'
  <2>1. Tasks' = Tasks /\ partitions' = partitions /\ \A k \in Tasks \ {i} : task'[k] = task[k]
    <3>1. Tasks' = Tasks /\ partitions' = partitions
      BY <1>1 DEF Start, SplitRaises, AddPartition, AppendCount, Tasks, input
    <3>2. \A k \in Tasks \ {i} : task'[k] = task[k]
      BY <1>1, TaskFields DEF Start, SplitRaises, AddPartition, AppendCount
    <3> QED BY <3>1, <3>2
  <2>2. \/ /\ ~(task[i].pc \in {"append", "ended"}) /\ ~(task'[i].pc \in {"append", "ended"})
        \/ /\ task[i].pc = "append" /\ task'[i].pc = "ended" /\ task'[i].parts = task[i].parts
    <3>1. CASE Start(i)
      BY <3>1, TaskFields DEF Start, TaskRec
    <3>2. CASE AddPartition(i)
      BY <3>2, TaskFields DEF AddPartition, TaskRec
    <3>3. CASE AppendCount(i)
      BY <3>3, TaskFields DEF AppendCount, TaskRec
    <3>4. CASE SplitRaises(i)
      BY <3>4, RaiseStep, TaskFields DEF SplitRaises
    <3> QED BY <1>1, <3>1, <3>2, <3>3, <3>4
  <2> QED BY <2>1, <2>2 DEF PlaceInv
<1>2. ASSUME NEW i \in Tasks, Extend(i)
      PROVE  PlaceInv'
  <2>1. /\ task[i].pc = "loop" /\ task'[i].pc = "append" /\ task'[i].parts = task[i].parts
        /\ \A k \in Tasks \ {i} : task'[k] = task[k]
        /\ Tasks' = Tasks /\ partitions' = partitions \o task[i].parts
    <3>1. Tasks' = Tasks
      BY <1>2 DEF Extend, Tasks, input
    <3> QED BY <1>2, <3>1, TaskFields DEF Extend, TaskRec
  <2>2. partitions \in Seq(Part) /\ \A k \in Tasks : task[k].parts \in Seq(Part)
    BY TaskFields DEF TypeInv, TypeOK
  <2>3. Placed(partitions', i, task'[i].parts)
    <3>1. Absent(partitions, i)
      BY <2>1 DEF PlaceInv
    <3>2. Placed(partitions \o task[i].parts, i, task[i].parts)
      BY <2>2, <3>1, PlaceOwn
    <3> QED BY <2>1, <3>2
  <2>4. ASSUME NEW k \in Tasks \ {i}
        PROVE  /\ task'[k].pc \in {"append", "ended"} => Placed(partitions', k, task'[k].parts)
               /\ ~(task'[k].pc \in {"append", "ended"}) => Absent(partitions', k)
    <3>1. \A m \in 1 .. Len(task[i].parts) : task[i].parts[m].obj # k
      BY OwnParts
    <3>2. /\ Absent(partitions, k) => Absent(partitions \o task[i].parts, k)
          /\ Placed(partitions, k, task[k].parts)
             => Placed(partitions \o task[i].parts, k, task[k].parts)
      BY <2>2, <3>1, PlaceOther
    <3> QED BY <2>1, <3>2 DEF PlaceInv
  <2> QED BY <2>1, <2>3, <2>4 DEF PlaceInv
<1>3. CASE AddReducer \/ UNCHANGED vars
  <2>1. Tasks' = Tasks /\ partitions' = partitions /\ task' = task
    BY <1>3 DEF AddReducer, vars, Tasks, input
  <2> QED BY <2>1 DEF PlaceInv
<1> QED BY <1>1, <1>2, <1>3 DEF Next

-----------------------------------------------------------------------------
(* What a part reads.                                                        *)

(* The first row that ends at byte x or later ends before RowEnd(i, x);      *)
(* without rows, a byte is a row.                                            *)
RowEnd(i, x) ==
  IF x >= objs[i].size THEN objs[i].size
  ELSE IF x = 0 \/ ~newline THEN x ELSE Find([obj |-> i], x - 1, objs[i].size) + 1

Rows(i) ==
  /\ objs[i].size \in Nat /\ objs[i].nl \subseteq Nat
  /\ newline => RowsFit(i) /\ EndsWithNewline(i)

LEMMA FindIs ==
  ASSUME NEW p, objs[p.obj].nl \subseteq Nat, NEW from \in Int, NEW to \in Int,
         NEW e \in Nat, e \in objs[p.obj].nl, from <= e, e < to,
         \A m \in objs[p.obj].nl : from <= m => e <= m
  PROVE  Find(p, from, to) = e
<1>1. \/ /\ Find(p, from, to) = -1
         /\ \A k \in objs[p.obj].nl : ~(from <= k /\ k < to)
      \/ /\ Find(p, from, to) \in objs[p.obj].nl
         /\ from <= Find(p, from, to) /\ Find(p, from, to) < to
         /\ \A k \in objs[p.obj].nl : from <= k /\ k < to => Find(p, from, to) <= k
  BY FindFirst
<1>2. /\ Find(p, from, to) \in Nat /\ Find(p, from, to) <= e /\ e <= Find(p, from, to)
  BY <1>1
<1> QED BY <1>2

(* The first newline at or after byte k: the object has one, and no further  *)
(* than the threshold.                                                       *)
LEMMA NextRow ==
  ASSUME NEW i, Rows(i), newline, NEW k \in Nat, k < objs[i].size
  PROVE  \E e \in Nat : /\ e \in objs[i].nl /\ k <= e /\ e < objs[i].size /\ e < k + Threshold + 2
                       /\ \A m \in objs[i].nl : k <= m => e <= m
<1> DEFINE size == objs[i].size
           nl == objs[i].nl
           after == {m \in nl : k <= m}
<1>1. size \in Nat /\ nl \subseteq Nat /\ size - 1 \in nl /\ Threshold \in Nat
  BY PartitionerAssumption DEF Rows, EndsWithNewline
<1>2. k + Threshold + 2 > size \/ Find([obj |-> i], k, k + Threshold + 2) # -1
  BY <1>1 DEF Rows, RowsFit
<1>3. size - 1 \in after /\ after \subseteq Nat
  BY <1>1
<1>4. PICK e \in after : \A m \in after : e <= m
  BY <1>3, LeastElement
<1>5. e \in Nat /\ e \in nl /\ k <= e /\ e <= size - 1 /\ \A m \in nl : k <= m => e <= m
  BY <1>1, <1>3, <1>4
<1>6. e < k + Threshold + 2
  <2>1. CASE k + Threshold + 2 > size
    BY <1>1, <1>5, <2>1
  <2>2. CASE Find([obj |-> i], k, k + Threshold + 2) # -1
    <3> DEFINE p == [obj |-> i]
               to == k + Threshold + 2
    <3>1. p.obj = i /\ to \in Int /\ k \in Int
      BY <1>1
    <3> HIDE DEF p, to
    <3>2. objs[p.obj].nl \subseteq Nat
      BY <1>1, <3>1
    <3>3. Find(p, k, to) \in objs[p.obj].nl /\ k <= Find(p, k, to) /\ Find(p, k, to) < to
      BY <2>2, <3>1, <3>2, FindFirst DEF p, to
    <3>4. Find(p, k, to) \in Nat /\ e <= Find(p, k, to)
      BY <1>1, <1>5, <3>1, <3>3
    <3> QED BY <1>1, <1>5, <3>1, <3>3, <3>4 DEF to
  <2> QED BY <1>2, <2>1, <2>2
<1> QED BY <1>1, <1>5, <1>6

(* The end of a row inside the object.                                       *)
LEMMA RowEndInside ==
  ASSUME NEW i, Rows(i), newline, NEW x \in Nat, 0 < x, x < objs[i].size
  PROVE  \E e \in Nat : /\ e \in objs[i].nl /\ x - 1 <= e /\ e < objs[i].size
                       /\ e < x - 1 + Threshold + 2 /\ RowEnd(i, x) = e + 1
                       /\ \A m \in objs[i].nl : x - 1 <= m => e <= m
<1>1. x - 1 \in Nat /\ x - 1 < objs[i].size
  BY DEF Rows
<1>2. PICK e \in Nat : /\ e \in objs[i].nl /\ x - 1 <= e /\ e < objs[i].size
                       /\ e < x - 1 + Threshold + 2
                       /\ \A m \in objs[i].nl : x - 1 <= m => e <= m
  BY <1>1, NextRow
<1>3. Find([obj |-> i], x - 1, objs[i].size) = e
  <2> DEFINE p == [obj |-> i]
  <2>1. p.obj = i
    OBVIOUS
  <2> HIDE DEF p
  <2>2. objs[p.obj].nl \subseteq Nat /\ x - 1 \in Int /\ objs[i].size \in Int
    BY <1>1, <2>1 DEF Rows
  <2>3. Find(p, x - 1, objs[i].size) = e
    BY <1>2, <2>1, <2>2, FindIs
  <2> QED BY <2>3 DEF p
<1>4. RowEnd(i, x) = e + 1
  BY <1>3 DEF RowEnd, Rows
<1> QED BY <1>2, <1>4

LEMMA RowEndBounds ==
  ASSUME NEW i, Rows(i), NEW x \in Nat
  PROVE  /\ RowEnd(i, x) \in Nat /\ RowEnd(i, x) <= objs[i].size
         /\ x <= objs[i].size => x <= RowEnd(i, x)
         /\ x >= objs[i].size => RowEnd(i, x) = objs[i].size
         /\ x = 0 => RowEnd(i, x) = 0
<1>1. objs[i].size \in Nat
  BY DEF Rows
<1>2. CASE x >= objs[i].size \/ x = 0 \/ ~newline
  BY <1>1, <1>2 DEF RowEnd
<1>3. CASE ~(x >= objs[i].size \/ x = 0 \/ ~newline)
  <2>1. PICK e \in Nat : x - 1 <= e /\ e < objs[i].size /\ RowEnd(i, x) = e + 1
    BY <1>1, <1>3, RowEndInside
  <2> QED BY <1>1, <1>3, <2>1
<1> QED BY <1>2, <1>3

LEMMA RowEndMonotone ==
  ASSUME NEW i, Rows(i), NEW x \in Nat, NEW y \in Nat, x <= y
  PROVE  RowEnd(i, x) <= RowEnd(i, y)
<1>1. objs[i].size \in Nat
  BY DEF Rows
<1>2. /\ RowEnd(i, x) \in Nat /\ RowEnd(i, y) \in Nat /\ RowEnd(i, x) <= objs[i].size
      /\ x = 0 => RowEnd(i, x) = 0
      /\ y >= objs[i].size => RowEnd(i, y) = objs[i].size
  BY RowEndBounds
<1>3. CASE y >= objs[i].size \/ x = 0
  BY <1>2, <1>3
<1>4. CASE y < objs[i].size /\ ~newline
  BY <1>1, <1>4 DEF RowEnd
<1>5. CASE y < objs[i].size /\ newline /\ 0 < x
  <2>0. x < objs[i].size
    BY <1>1, <1>5
  <2>1. PICK e \in Nat : /\ RowEnd(i, x) = e + 1 /\ \A m \in objs[i].nl : x - 1 <= m => e <= m
    BY <1>5, <2>0, RowEndInside
  <2>b. 0 < y /\ y < objs[i].size
    BY <1>5
  <2>2. PICK f \in Nat : f \in objs[i].nl /\ y - 1 <= f /\ RowEnd(i, y) = f + 1
    BY <1>5, <2>b, RowEndInside
  <2>3. x - 1 <= f
    BY <2>2
  <2> QED BY <2>1, <2>2, <2>3
<1> QED BY <1>1, <1>3, <1>4, <1>5

(* The part p of object i that begins at byte a, cut every c bytes.          *)
PartAt(i, p, a, c) ==
  /\ p.obj = i /\ 0 < c /\ c < objs[i].size /\ a < objs[i].size - 1 /\ (a = 0 \/ a >= c)
  /\ p.range = RangeAt(newline, objs[i].size, a, c)
  /\ p.chunk = ChunkAt(newline, objs[i].size, a, c)

(* Where the worker looks for the rows of such a part.                       *)
LEMMA FetchedRows ==
  ASSUME NEW i, Rows(i), newline, NEW p, NEW a \in Nat, NEW c \in Nat, c > 1, PartAt(i, p, a, c)
  PROVE  \E to \in Nat :
           /\ Fetched(p) = [from |-> p.range.from, to |-> to] /\ to <= objs[i].size
           /\ (IF p.range.from = 0 THEN 0 ELSE p.range.from + 1) = a
           /\ a > 0 => p.range.from = a - 1 /\ p.range.from # 0
           /\ ~p.range.whole
           /\ \/ /\ a + c < objs[i].size /\ p.chunk = c
                 /\ to = objs[i].size \/ to = a + c + Threshold + 1
              \/ a + c >= objs[i].size /\ p.chunk = objs[i].size - a /\ to = objs[i].size
<1> DEFINE size == objs[i].size
<1>1. size \in Nat /\ Threshold \in Nat /\ p.obj = i /\ 0 < c /\ c < size /\ a < size - 1
      /\ (a = 0 \/ a >= c)
  BY PartitionerAssumption DEF Rows, PartAt
<1>2. CASE a + c < size
  <2>1. /\ p.range = [from |-> PlusByte(a), to |-> a + c + Threshold + 1, whole |-> FALSE]
        /\ p.chunk = c
    BY <1>1, <1>2 DEF PartAt, RangeAt, ChunkAt
  <2>2. PlusByte(a) = IF a > 0 THEN a - 1 ELSE 0
    BY DEF PlusByte
  <2>3. a + c + Threshold + 1 \in Nat
    BY <1>1
  <2>4. PICK to \in Nat : /\ to = Min({a + c + Threshold + 1, size}) /\ to <= size
                          /\ to = size \/ to = a + c + Threshold + 1
    <3>1. Min({a + c + Threshold + 1, size})
            = IF a + c + Threshold + 1 <= size THEN a + c + Threshold + 1 ELSE size
      BY <1>1, <2>3, MinOfTwo
    <3> QED BY <1>1, <2>3, <3>1
  <2>5. Fetched(p) = [from |-> p.range.from, to |-> to]
    BY <1>1, <2>1, <2>4 DEF Fetched
  <2> QED BY <1>1, <1>2, <2>1, <2>2, <2>4, <2>5
<1>3. CASE a + c >= size
  <2>1. p.range = [from |-> a - 1, to |-> size, whole |-> FALSE] /\ p.chunk = size - a
    BY <1>1, <1>3 DEF PartAt, RangeAt, ChunkAt
  <2>2. Min({size, size}) = size
    BY <1>1, MinOfTwo
  <2>3. Fetched(p) = [from |-> p.range.from, to |-> size]
    BY <1>1, <2>1, <2>2 DEF Fetched
  <2>4. a > 1
    BY <1>1, <1>3
  <2> QED BY <1>1, <1>3, <2>1, <2>3, <2>4
<1> QED BY <1>1, <1>2, <1>3

LEMMA ReadsFrom ==
  ASSUME NEW i, Rows(i), newline, NEW p, NEW a \in Nat, NEW c \in Nat, c > 1, PartAt(i, p, a, c),
         NEW to \in Nat, to <= objs[i].size, a > 0 => p.range.from = a - 1 /\ p.range.from # 0,
         a = 0 => p.range.from = 0,
         to = objs[i].size \/ to = a + c + Threshold + 1
  PROVE  FirstRowStart(p, a, to) = RowEnd(i, a)
<1>1. objs[i].size \in Nat /\ p.obj = i /\ a < objs[i].size /\ objs[i].nl \subseteq Nat
      /\ Threshold \in Nat
  BY PartitionerAssumption DEF Rows, PartAt
<1>2. CASE a = 0
  BY <1>1, <1>2 DEF FirstRowStart, RowEnd
<1>3. CASE a > 0
  <2>1. PICK e \in Nat : /\ e \in objs[i].nl /\ a - 1 <= e /\ e < objs[i].size
                         /\ e < a - 1 + Threshold + 2 /\ RowEnd(i, a) = e + 1
                         /\ \A m \in objs[i].nl : a - 1 <= m => e <= m
    BY <1>1, <1>3, RowEndInside
  <2>2. CASE a - 1 \in objs[i].nl
    <3>1. e = a - 1
      BY <1>1, <1>3, <2>1, <2>2
    <3>2. RowEnd(i, a) = a
      BY <2>1, <3>1
    <3> QED BY <1>1, <1>3, <2>2, <3>2 DEF FirstRowStart
  <2>3. CASE a - 1 \notin objs[i].nl
    <3>1. e # a - 1
      BY <2>1, <2>3
    <3>2. a <= e
      BY <1>1, <1>3, <2>1, <3>1
    <3>3. e < to
      BY <1>1, <2>1
    <3>4. \A m \in objs[p.obj].nl : a <= m => e <= m
      BY <1>1, <2>1
    <3>5. Find(p, a, to) = e
      BY <1>1, <2>1, <3>2, <3>3, <3>4, FindIs
    <3>6. e # -1
      OBVIOUS
    <3> QED BY <1>1, <1>3, <2>1, <2>3, <3>5, <3>6 DEF FirstRowStart
  <2> QED BY <2>2, <2>3
<1> QED BY <1>2, <1>3

LEMMA ReadsTo ==
  ASSUME NEW i, Rows(i), newline, NEW p, NEW a \in Nat, NEW c \in Nat, c > 1, PartAt(i, p, a, c),
         NEW to \in Nat, to <= objs[i].size,
         \/ /\ a + c < objs[i].size /\ p.chunk = c
            /\ to = objs[i].size \/ to = a + c + Threshold + 1
         \/ a + c >= objs[i].size /\ p.chunk = objs[i].size - a /\ to = objs[i].size
  PROVE  LastRowEnd(p, a, to) = RowEnd(i, a + c)
<1> DEFINE size == objs[i].size
<1>1. /\ size \in Nat /\ p.obj = i /\ a < size - 1 /\ objs[i].nl \subseteq Nat /\ Threshold \in Nat
      /\ size > 0 => size - 1 \in objs[i].nl
  BY PartitionerAssumption DEF Rows, PartAt, EndsWithNewline
<1>2. CASE a + c < size
  <2>1. p.chunk = c /\ (to = size \/ to = a + c + Threshold + 1)
    BY <1>1, <1>2
  <2>2. PICK e \in Nat : /\ e \in objs[i].nl /\ a + c - 1 <= e /\ e < size
                         /\ e < a + c - 1 + Threshold + 2 /\ RowEnd(i, a + c) = e + 1
                         /\ \A m \in objs[i].nl : a + c - 1 <= m => e <= m
    <3>1. a + c \in Nat /\ 0 < a + c
      OBVIOUS
    <3> QED BY <1>2, <3>1, RowEndInside
  <2>3. e < to /\ ~(to - a < c)
    BY <1>1, <1>2, <2>1, <2>2
  <2>4. Find(p, a + c - 1, to) = e
    <3>1. a + c - 1 \in Int /\ \A m \in objs[p.obj].nl : a + c - 1 <= m => e <= m
      BY <1>1, <2>2
    <3> QED BY <1>1, <2>2, <2>3, <3>1, FindIs
  <2>5. e # -1
    OBVIOUS
  <2> QED BY <2>1, <2>2, <2>3, <2>4, <2>5 DEF LastRowEnd
<1>3. CASE a + c >= size
  <2>1. p.chunk = size - a /\ to = size
    BY <1>1, <1>3
  <2>2. PICK e \in Nat : e = size - 1 /\ e \in objs[i].nl
    BY <1>1
  <2>3. Find(p, e, size) = e
    <3>1. e \in Int /\ size \in Int /\ e <= e /\ e < size
          /\ \A m \in objs[p.obj].nl : e <= m => e <= m
      BY <1>1, <2>2
    <3> QED BY <1>1, <2>2, <3>1, FindIs
  <2>4. a + (size - a) - 1 = e /\ ~(size - a < size - a) /\ e # -1 /\ e + 1 = size
    BY <1>1, <2>2
  <2>5. LastRowEnd(p, a, to) = size
    BY <2>1, <2>3, <2>4 DEF LastRowEnd
  <2> QED BY <1>3, <2>5 DEF RowEnd
<1> QED BY <1>1, <1>2, <1>3

(* A part reads the rows that end from its begin on, as far as the last that *)
(* ends at the begin of the next part or across it.                          *)
LEMMA ReadsRows ==
  ASSUME NEW i, Rows(i), NEW p, NEW a \in Nat, NEW c \in Nat, PartAt(i, p, a, c), newline => c > 1
  PROVE  IF RowEnd(i, a) < RowEnd(i, a + c)
         THEN Read(p) = [from |-> RowEnd(i, a), to |-> RowEnd(i, a + c)]
         ELSE Read(p) = Nothing
<1>1. objs[i].size \in Nat /\ p.obj = i /\ a < objs[i].size - 1 /\ 0 < c /\ a + c \in Nat
  BY DEF Rows, PartAt
<1>2. CASE newline
  <2>1. PICK to \in Nat :
           /\ Fetched(p) = [from |-> p.range.from, to |-> to] /\ to <= objs[i].size
           /\ (IF p.range.from = 0 THEN 0 ELSE p.range.from + 1) = a
           /\ a > 0 => p.range.from = a - 1 /\ p.range.from # 0
           /\ ~p.range.whole
           /\ \/ /\ a + c < objs[i].size /\ p.chunk = c
                 /\ to = objs[i].size \/ to = a + c + Threshold + 1
              \/ a + c >= objs[i].size /\ p.chunk = objs[i].size - a /\ to = objs[i].size
    BY <1>2, FetchedRows
  <2>2. a = 0 => p.range.from = 0
    <3>1. p.range = RangeAt(newline, objs[i].size, a, c)
      BY DEF PartAt
    <3>2. a = 0 => a + c < objs[i].size
      BY <1>1 DEF PartAt
    <3> QED BY <1>2, <3>1, <3>2 DEF RangeAt, PlusByte
  <2>3. FirstRowStart(p, a, to) = RowEnd(i, a)
    BY <1>2, <2>1, <2>2, ReadsFrom
  <2>4. LastRowEnd(p, a, to) = RowEnd(i, a + c)
    BY <1>2, <2>1, ReadsTo
  <2>5. RowEnd(i, a) \in Nat /\ RowEnd(i, a + c) \in Nat
    BY <1>1, RowEndBounds
  <2>6. Read(p) = IF RowEnd(i, a) >= RowEnd(i, a + c) THEN Nothing
                  ELSE [from |-> RowEnd(i, a), to |-> RowEnd(i, a + c)]
    BY <1>2, <2>1, <2>3, <2>4 DEF Read
  <2> QED BY <2>5, <2>6
<1>3. CASE ~newline
  <2>1. p.range = [from |-> a, to |-> a + c, whole |-> FALSE]
    BY <1>3 DEF PartAt, RangeAt
  <2>2. Min({a + c, objs[i].size}) = RowEnd(i, a + c)
    <3>1. Min({a + c, objs[i].size}) = IF a + c <= objs[i].size THEN a + c ELSE objs[i].size
      BY <1>1, MinOfTwo
    <3> QED BY <1>1, <1>3, <3>1 DEF RowEnd
  <2>3. RowEnd(i, a) = a
    BY <1>1, <1>3 DEF RowEnd
  <2>4. Read(p) = [from |-> a, to |-> RowEnd(i, a + c)]
    BY <1>1, <1>3, <2>1, <2>2 DEF Read, Fetched
  <2>5. a < RowEnd(i, a + c)
    BY <1>1, <1>3 DEF RowEnd
  <2> QED BY <2>3, <2>4, <2>5
<1> QED BY <1>2, <1>3

-----------------------------------------------------------------------------
(* What the parts of an object read together.                                *)

(* If the mth of the n partitions of an object reads from end[m - 1] to      *)
(* end[m], or nothing, then together they read once what is before end[n].   *)
LEMMA CoversBy ==
  ASSUME NEW i, NEW off \in Nat, NEW n \in Nat, NEW end,
         Len(partitions) \in Nat, DOMAIN partitions = 1 .. Len(partitions),
         off + n <= Len(partitions),
         \A j \in 1 .. Len(partitions) : partitions[j].obj = i <=> off < j /\ j <= off + n,
         end[0] = 0, \A k \in 0 .. n : end[k] \in Nat,
         \A k, l \in 0 .. n : k <= l => end[k] <= end[l],
         \A m \in 1 .. n : IF end[m - 1] < end[m]
                          THEN Read(partitions[off + m]) = [from |-> end[m - 1], to |-> end[m]]
                          ELSE Read(partitions[off + m]) = Nothing
  PROVE  Covers(i, end[n])
<1> DEFINE own == {k \in DOMAIN partitions : partitions[k].obj = i}
           pieces == [k \in own |-> Read(partitions[k])]
           read == {k \in DOMAIN pieces : NonEmpty(pieces[k])}
<1>1. ASSUME NEW k \in read
      PROVE  \E m \in 1 .. n : /\ k = off + m /\ end[m - 1] < end[m]
                              /\ pieces[k] = [from |-> end[m - 1], to |-> end[m]]
  <2>1. /\ k \in 1 .. Len(partitions) /\ partitions[k].obj = i /\ pieces[k] = Read(partitions[k])
        /\ NonEmpty(Read(partitions[k]))
    OBVIOUS
  <2>2. off < k /\ k <= off + n
    BY <2>1
  <2>3. k - off \in 1 .. n /\ k = off + (k - off)
    BY <2>1, <2>2
  <2>4. Read(partitions[k]) # Nothing
    BY <2>1 DEF NonEmpty, Nothing
  <2>5. PICK m \in 1 .. n : k = off + m
    BY <2>3
  <2>6. end[m - 1] < end[m] /\ Read(partitions[k]) = [from |-> end[m - 1], to |-> end[m]]
    BY <2>4, <2>5
  <2> QED BY <2>1, <2>5, <2>6
<1>2. ASSUME NEW m \in 1 .. n, end[m - 1] < end[m]
      PROVE  off + m \in read /\ pieces[off + m] = [from |-> end[m - 1], to |-> end[m]]
  <2>1. off + m \in 1 .. Len(partitions) /\ off < off + m /\ off + m <= off + n
    OBVIOUS
  <2>2. off + m \in own
    BY <2>1
  <2>3. Read(partitions[off + m]) = [from |-> end[m - 1], to |-> end[m]]
    BY <1>2
  <2>4. NonEmpty([from |-> end[m - 1], to |-> end[m]])
    BY <1>2 DEF NonEmpty
  <2> QED BY <2>2, <2>3, <2>4
<1> HIDE DEF pieces, read
<1>3. ASSUME NEW b \in 0 .. end[n] - 1
      PROVE  \E k \in read : pieces[k].from <= b /\ b < pieces[k].to
  <2> DEFINE beyond == {m \in 1 .. n : b < end[m]}
  <2>0. n \in 0 .. n /\ end[n] \in Nat
    OBVIOUS
  <2>1. b \in Nat /\ b < end[n]
    BY <2>0
  <2>2. n \in beyond /\ beyond \subseteq Nat
    <3>1. n # 0
      BY <2>1
    <3> QED BY <2>1, <3>1
  <2>3. PICK m \in beyond : \A l \in beyond : m <= l
    BY <2>2, LeastElement
  <2>4. m \in 1 .. n /\ b < end[m] /\ m - 1 \in 0 .. n
    BY <2>3
  <2>5. end[m - 1] <= b
    <3>1. CASE m = 1
      BY <2>1, <3>1
    <3>2. CASE m # 1
      <4>1. m - 1 \in 1 .. n /\ ~(m <= m - 1)
        BY <2>4, <3>2
      <4>2. m - 1 \notin beyond
        BY <2>3, <4>1
      <4>3. ~(b < end[m - 1]) /\ end[m - 1] \in Nat
        BY <2>4, <4>1, <4>2
      <4> QED BY <2>1, <4>3
    <3> QED BY <3>1, <3>2
  <2>6. end[m - 1] < end[m]
    <3>1. end[m - 1] \in Nat /\ end[m] \in Nat
      BY <2>4
    <3> QED BY <2>1, <2>4, <2>5, <3>1
  <2>7. off + m \in read /\ pieces[off + m] = [from |-> end[m - 1], to |-> end[m]]
    BY <1>2, <2>4, <2>6
  <2>8. pieces[off + m].from <= b /\ b < pieces[off + m].to
    BY <2>4, <2>5, <2>7
  <2> QED BY ONLY <2>7, <2>8, Zenon
<1>4. ASSUME NEW k \in read
      PROVE  0 <= pieces[k].from /\ pieces[k].to <= end[n]
  <2>1. PICK m \in 1 .. n : pieces[k] = [from |-> end[m - 1], to |-> end[m]]
    BY <1>1
  <2>2. m - 1 \in 0 .. n /\ m \in 0 .. n /\ n \in 0 .. n /\ m <= n
    OBVIOUS
  <2>3. end[m - 1] \in Nat /\ end[m] <= end[n]
    BY <2>2
  <2> QED BY <2>1, <2>3
<1>5. ASSUME NEW k \in read, NEW l \in read, k < l
      PROVE  pieces[k].to <= pieces[l].from
  <2>1. PICK m \in 1 .. n : k = off + m /\ pieces[k] = [from |-> end[m - 1], to |-> end[m]]
    BY <1>1
  <2>2. PICK r \in 1 .. n : l = off + r /\ pieces[l] = [from |-> end[r - 1], to |-> end[r]]
    BY <1>1
  <2>3. m \in 0 .. n /\ r - 1 \in 0 .. n /\ m <= r - 1
    BY <1>5, <2>1, <2>2
  <2>4. end[m] <= end[r - 1]
    BY <2>3
  <2> QED BY <2>1, <2>2, <2>4
<1> QED BY <1>3, <1>4, <1>5 DEF Covers, pieces, read

(* The partitions of an object that ended are its parts, and no others.      *)
LEMMA OwnPlaces ==
  ASSUME TypeInv, ShapeInv, PlaceInv, NEW i \in Tasks, task[i].pc = "ended"
  PROVE  \E off \in Nat :
           /\ off + Len(task[i].parts) <= Len(partitions)
           /\ \A m \in 1 .. Len(task[i].parts) : partitions[off + m] = task[i].parts[m]
           /\ \A j \in 1 .. Len(partitions) :
                partitions[j].obj = i <=> off < j /\ j <= off + Len(task[i].parts)
<1> DEFINE parts == task[i].parts
<1>1. Placed(partitions, i, parts)
  BY DEF PlaceInv
<1>2. PICK off \in Nat : /\ off + Len(parts) <= Len(partitions)
                         /\ \A m \in 1 .. Len(parts) : partitions[off + m] = parts[m]
                         /\ \A j \in 1 .. Len(partitions) :
                              partitions[j].obj = i => off < j /\ j <= off + Len(parts)
  BY <1>1 DEF Placed
<1>3. Len(partitions) \in Nat /\ Len(parts) \in Nat
  BY TasksAre, TaskFields, LenProperties
<1>4. ASSUME NEW j \in 1 .. Len(partitions), off < j, j <= off + Len(parts)
      PROVE  partitions[j].obj = i
  <2>1. PICK m \in 1 .. Len(parts) : j = off + m
    <3>1. j - off \in 1 .. Len(parts) /\ j = off + (j - off)
      BY <1>3, <1>4
    <3> QED BY <3>1
  <2> QED BY <1>2, <2>1, OwnParts
<1> QED BY <1>2, <1>4

(* An object that was not cut is read whole.                                 *)
LEMMA WholeCovers ==
  ASSUME TypeInv, ShapeInv, PlaceInv, NEW i \in Tasks, task[i].pc = "ended",
         Whole(i, task[i]), Sized(objs[i].size, task[i])
  PROVE  Covers(i, objs[i].size)
<1> DEFINE size == objs[i].size
           end == [k \in 0 .. 1 |-> IF k = 0 THEN 0 ELSE size]
<1>1. size \in Nat /\ task[i].size = size
  BY TaskFields DEF Sized, Whole
<1>2. PICK off \in Nat :
        /\ off + 1 <= Len(partitions) /\ partitions[off + 1] = task[i].parts[1]
        /\ \A j \in 1 .. Len(partitions) : partitions[j].obj = i <=> off < j /\ j <= off + 1
  <2>1. Len(task[i].parts) = 1
    BY DEF Whole
  <2>2. 1 \in 1 .. 1
    OBVIOUS
  <2> QED BY <2>1, <2>2, OwnPlaces
<1>3. Read(partitions[off + 1]) = [from |-> 0, to |-> size]
  <2>1. Min({task[i].size, size}) = size
    BY <1>1, MinOfTwo
  <2>2. PICK p : p = task[i].parts[1]
    OBVIOUS
  <2>3. p.obj = i /\ p.range = [from |-> 0, to |-> task[i].size, whole |-> TRUE]
    BY <2>2 DEF Whole
  <2>4. Fetched(p) = [from |-> 0, to |-> size]
    BY <2>1, <2>3 DEF Fetched
  <2>5. Read(p) = Fetched(p)
    BY <2>3 DEF Read
  <2> QED BY <1>2, <2>2, <2>4, <2>5
<1>4. Len(partitions) \in Nat /\ DOMAIN partitions = 1 .. Len(partitions)
  BY DEF TypeInv, TypeOK
<1>5. end[0] = 0 /\ end[1] = size
  OBVIOUS
<1> HIDE DEF end
<1>6. \A k \in 0 .. 1 : k = 0 \/ k = 1
  OBVIOUS
<1>7. \A k \in 0 .. 1 : end[k] \in Nat
  BY <1>1, <1>5, <1>6
<1>8. \A k, l \in 0 .. 1 : k <= l => end[k] <= end[l]
  BY <1>1, <1>5, <1>6
<1>9. \A m \in 1 .. 1 : IF end[m - 1] < end[m]
                       THEN Read(partitions[off + m]) = [from |-> end[m - 1], to |-> end[m]]
                       ELSE Read(partitions[off + m]) = Nothing
  <2>1. \A m \in 1 .. 1 : m = 1 /\ m - 1 = 0
    OBVIOUS
  <2>2. IF 0 < size THEN Read(partitions[off + 1]) = [from |-> 0, to |-> size]
        ELSE Read(partitions[off + 1]) = Nothing
    BY <1>1, <1>3 DEF Nothing
  <2> QED BY <1>5, <2>1, <2>2
<1>10. Covers(i, end[1])
  <2>1. 1 \in Nat
    OBVIOUS
  <2> QED BY <1>2, <1>4, <1>5, <1>7, <1>8, <1>9, <2>1, CoversBy
<1> QED BY <1>5, <1>10

LEMMA UnsplitCovers ==
  ASSUME TypeInv, ShapeInv, PlaceInv, NEW i \in Tasks,
         task[i].pc = "raised" \/ (task[i].pc = "ended" /\ Unsplit(task[i]))
  PROVE  Covers(i, 0)
<1>1. \A j \in DOMAIN partitions : partitions[j].obj # i
  <2>1. DOMAIN partitions = 1 .. Len(partitions)
    BY DEF TypeInv, TypeOK
  <2>2. CASE task[i].pc = "raised"
    BY <2>1, <2>2 DEF PlaceInv, Absent
  <2>3. CASE task[i].pc = "ended" /\ Unsplit(task[i])
    <3>1. PICK off \in Nat : \A j \in 1 .. Len(partitions) :
                              partitions[j].obj = i <=> off < j /\ j <= off + 0
      BY <2>3, OwnPlaces DEF Unsplit
    <3> QED BY <2>1, <3>1
  <2> QED BY <2>2, <2>3
<1>2. 0 .. 0 - 1 = {}
  OBVIOUS
<1> QED BY <1>1, <1>2 DEF Covers

(* An object that was cut is read as far as the last row that ends in it.    *)
LEMMA CutCovers ==
  ASSUME TypeInv, ShapeInv, PlaceInv, NEW i \in Tasks, task[i].pc = "ended", Rows(i),
         NEW c \in Nat, newline => c > 1, Cut(newline, objs[i].size, i, task[i], c)
  PROVE  Covers(i, RowEnd(i, Len(task[i].parts) * c))
<1> DEFINE n == Len(task[i].parts)
           end == [k \in Nat |-> RowEnd(i, k * c)]
<1>1. n \in Nat /\ objs[i].size \in Nat
  BY TaskFields, LenProperties
<1>2. PICK off \in Nat :
        /\ off + n <= Len(partitions)
        /\ \A m \in 1 .. n : partitions[off + m] = task[i].parts[m]
        /\ \A j \in 1 .. Len(partitions) : partitions[j].obj = i <=> off < j /\ j <= off + n
  BY OwnPlaces
<1>3. Len(partitions) \in Nat /\ DOMAIN partitions = 1 .. Len(partitions)
  BY DEF TypeInv, TypeOK
<1>4. /\ n > 0 /\ 0 < c /\ c < objs[i].size /\ (n - 1) * c < objs[i].size - 1
      /\ \A k \in 1 .. n : CutPart(newline, objs[i].size, i, k, c, task[i].parts[k])
  BY DEF Cut
<1> HIDE DEF n
<1>5. \A k \in Nat : end[k] = RowEnd(i, k * c) /\ k * c \in Nat
  BY Multiples
<1> HIDE DEF end
<1>6. end[0] = 0
  <2>1. 0 * c = 0 /\ 0 \in Nat
    OBVIOUS
  <2> QED BY <1>5, <2>1, RowEndBounds
<1>7. \A k \in 0 .. n : end[k] \in Nat
  <2>1. \A k \in 0 .. n : k \in Nat
    OBVIOUS
  <2> QED BY <1>5, <2>1, RowEndBounds
<1>8. \A k, l \in 0 .. n : k <= l => end[k] <= end[l]
  <2> SUFFICES ASSUME NEW k \in 0 .. n, NEW l \in 0 .. n, k <= l
               PROVE  end[k] <= end[l]
    OBVIOUS
  <2>1. k \in Nat /\ l \in Nat
    OBVIOUS
  <2>2. k * c <= l * c
    BY <2>1, Multiples
  <2> QED BY <1>5, <2>1, <2>2, RowEndMonotone
<1>9. ASSUME NEW m \in 1 .. n
      PROVE  IF end[m - 1] < end[m]
             THEN Read(partitions[off + m]) = [from |-> end[m - 1], to |-> end[m]]
             ELSE Read(partitions[off + m]) = Nothing
  <2>1. PICK k \in Nat : m = k + 1 /\ m - 1 = k /\ k <= n - 1 /\ n - 1 \in Nat
    <3>1. m - 1 \in Nat /\ m = m - 1 + 1 /\ m - 1 <= n - 1 /\ n - 1 \in Nat
      BY <1>1
    <3> QED BY <3>1
  <2>2. PICK a \in Nat : a = k * c
    BY Multiples
  <2>3. m * c = a + c /\ (m - 1) * c = a /\ (k = 0 => a = 0)
    <3>1. (k + 1) * c = k * c + c
      BY Multiples
    <3>2. 0 * c = 0
      OBVIOUS
    <3> QED BY <2>1, <2>2, <3>1, <3>2
  <2>4. a < objs[i].size - 1
    <3>1. k * c <= (n - 1) * c /\ (n - 1) * c \in Nat
      BY <2>1, Multiples
    <3> QED BY <1>1, <1>4, <2>2, <3>1
  <2>5. a = 0 \/ a >= c
    <3>1. CASE k = 0
      BY <2>3, <3>1
    <3>2. CASE k # 0
      <4>1. 1 <= k /\ 1 \in Nat
        BY <3>2
      <4>2. 1 * c <= k * c /\ 1 * c = c
        BY <4>1, Multiples
      <4> QED BY <2>2, <4>2
    <3> QED BY <3>1, <3>2
  <2>6. CutPart(newline, objs[i].size, i, m, c, partitions[off + m])
    BY <1>2, <1>4
  <2>7. PartAt(i, partitions[off + m], a, c)
    BY <1>4, <2>3, <2>4, <2>5, <2>6 DEF CutPart, PartAt
  <2>8. IF RowEnd(i, a) < RowEnd(i, a + c)
        THEN Read(partitions[off + m]) = [from |-> RowEnd(i, a), to |-> RowEnd(i, a + c)]
        ELSE Read(partitions[off + m]) = Nothing
    BY <2>7, ReadsRows
  <2>9. end[m - 1] = RowEnd(i, a) /\ end[m] = RowEnd(i, a + c)
    <3>1. m \in Nat /\ m - 1 \in Nat
      BY <2>1
    <3> QED BY <1>5, <2>3, <3>1
  <2> QED BY <2>8, <2>9
<1>10. Covers(i, end[n])
  BY <1>1, <1>2, <1>3, <1>6, <1>7, <1>8, <1>9, CoversBy DEF n
<1> QED BY <1>1, <1>5, <1>10 DEF n

(* An object whose size the client did not get was not split.                *)
LEMMA NothingRead ==
  ASSUME TypeInv, ShapeInv, PlaceInv, NEW i \in Tasks, Unread(i)
  PROVE  Covers(i, 0)
<1>1. CASE LeftOut(i)
  BY <1>1, UnsplitCovers DEF LeftOut
<1>2. CASE task[i].pc = "ended" /\ task[i].size < objs[i].size
  <2>1. Sized(objs[i].size, task[i]) /\ Shaped(newline, objs[i].size, i, task[i])
    BY <1>2 DEF ShapeInv, Shaped
  <2>2. task[i].size = 1 /\ task[i].size # objs[i].size
    BY <1>2, <2>1, TaskFields DEF Sized
  <2>3. Unsplit(task[i])
    BY <2>1, <2>2 DEF Shaped, Whole
  <2> QED BY <1>2, <2>3, UnsplitCovers
<1> QED BY <1>1, <1>2 DEF Unread

LEMMA ReadOnce ==
  ASSUME TypeInv, ShapeInv, PlaceInv
  PROVE  EveryByteOnce
<1> SUFFICES ASSUME NEW i \in Tasks, task[i].pc = "ended", ~Unread(i),
                    newline => RowsFit(i) /\ EndsWithNewline(i) /\ LargeChunks(i)
             PROVE  Covers(i, objs[i].size) \/ (LastByteLost(i) /\ Covers(i, objs[i].size - 1))
  BY NothingRead DEF EveryByteOnce
<1> DEFINE size == objs[i].size
           t == task[i]
<1>1. /\ size \in Nat /\ t.size \in Nat /\ t.at \in Nat /\ t.parts \in Seq(Part)
      /\ objs[i].nl \subseteq Nat
  BY TaskFields
<1>2. Sized(size, t) /\ t.at >= t.size - 1
  BY DEF ShapeInv, Shaped
<1>3. Rows(i)
  BY <1>1 DEF Rows
<1>4. CASE Whole(i, t)
  BY <1>2, <1>4, WholeCovers
<1>5. CASE Unsplit(t)
  <2>1. Covers(i, 0)
    BY <1>5, UnsplitCovers
  <2>2. size = 0 \/ size = 1
    BY <1>1, <1>2, <1>5 DEF Unsplit, Sized, Unread
  <2>3. CASE size = 0
    BY <2>1, <2>3
  <2>4. CASE size = 1
    <3>1. LastByteLost(i)
      BY <2>4 DEF LastByteLost
    <3>2. size - 1 = 0
      BY <2>4
    <3> QED BY <2>1, <3>1, <3>2
  <2> QED BY <2>2, <2>3, <2>4
<1>6. ASSUME NEW c \in Nat, t.size = size, Cut(newline, size, i, t, c)
      PROVE  Covers(i, size) \/ (LastByteLost(i) /\ Covers(i, size - 1))
  <2> DEFINE n == Len(t.parts)
  <2>1. n > 0 /\ 0 < c /\ t.parts[1].chunk = c /\ t.parts # <<>>
    BY <1>1, <1>6 DEF Cut
  <2>2. newline => c > 1
    BY <2>1 DEF LargeChunks
  <2>3. Covers(i, RowEnd(i, n * c))
    BY <1>3, <1>6, <2>2, CutCovers
  <2>4. n \in Nat
    BY <1>1, LenProperties
  <2>5. PICK x \in Nat : x = n * c /\ n <= x
    BY <2>1, <2>4, Multiples
  <2>6. x >= size - 1
    BY <1>1, <1>2, <1>6, <2>5 DEF Cut
  <2>7. /\ RowEnd(i, x) \in Nat /\ RowEnd(i, x) <= size
        /\ x >= size => RowEnd(i, x) = size
    BY <1>3, RowEndBounds
  <2>8. x <= size => x <= RowEnd(i, x)
    BY <1>3, RowEndBounds
  <2>9. CASE RowEnd(i, x) = size
    BY <2>3, <2>5, <2>9
  <2>10. CASE RowEnd(i, x) # size
    <3>1. x = size - 1 /\ RowEnd(i, x) = size - 1
      <4>1. RowEnd(i, x) \in Nat /\ RowEnd(i, x) <= size /\ x < size
        BY <1>1, <2>7, <2>10
      <4> QED BY <1>1, <2>6, <2>8, <2>10, <4>1
    <3>2. LastByteLost(i)
      <4>1. n \in 0 .. size /\ n * c = size - 1
        BY <1>1, <2>4, <2>5, <3>1
      <4> QED BY <2>1, <4>1 DEF LastByteLost
    <3> QED BY <2>3, <2>5, <3>1, <3>2
  <2> QED BY <2>9, <2>10
<1> QED BY <1>4, <1>5, <1>6 DEF ShapeInv, Shaped

(* The workers together read every byte of an object once, whatever the      *)
(* rows, the cut and the threads that split.                                 *)
THEOREM BytesReadOnce == Spec => []EveryByteOnce
<1>1. TypeInv /\ ShapeInv /\ PlaceInv => EveryByteOnce
  BY ReadOnce
<1> QED BY TypeInit, TypeStep, ShapeInit, ShapeStep, PlaceInit, PlaceStep, <1>1, PTL DEF Spec

=============================================================================
