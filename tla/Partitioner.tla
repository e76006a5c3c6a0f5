---------------------------- MODULE Partitioner ----------------------------
(* Input objects cut into partitions by the client (job/partitioner.py),     *)
(* read by the workers with line integrity (utils.py, worker/jobrunner.py)   *)
(* and grouped again for the reducers (job/job.py).                          *)
(*                                                                           *)
(* A byte is its offset in the object; all that is known of it is whether it *)
(* is a newline.  A piece of data is [from, to), to excluded.                *)
EXTENDS Integers, Sequences, FiniteSetsExt

CONSTANTS
  Inputs,     \* sequences of objects [size, nl], nl the offsets of newlines
  Options,    \* [chunkNumber, chunkSize], 0 when not given
  Threshold   \* CHUNK_THRESHOLD, in bytes

ASSUME PartitionerAssumption ==
  /\ Threshold \in Nat
  /\ Inputs \subseteq Seq([size : Nat, nl : SUBSET Nat])
  /\ Options \subseteq [chunkNumber : Nat, chunkSize : Nat]

VARIABLES
  source,     \* "storage", "paths" or "urls"
  ranges,     \* the server of the urls accepts ranges
  newline,    \* obj_newline is given
  objs,       \* map_func_args_list
  opt,        \* chunk_number, chunk_size
  task,       \* _split for object i: [pc, at, size, chunk, parts]
  partitions, parts_per_object,
  prev_total, \* prev_total_partitions of create_reduce_job
  iterdata    \* the partitions of each reducer

input == <<source, ranges, newline, objs, opt>>
reduce == <<prev_total, iterdata>>
vars == <<input, task, partitions, parts_per_object, reduce>>

Tasks == DOMAIN objs

Init ==
  /\ source \in {"storage", "paths", "urls"}
  /\ ranges \in BOOLEAN /\ (source # "urls" => ranges)
  /\ newline \in BOOLEAN
  /\ objs \in Inputs /\ opt \in Options
  /\ task = [i \in DOMAIN objs |->
               [pc |-> "start", at |-> 0, size |-> 0, chunk |-> 0, parts |-> <<>>]]
  /\ partitions = <<>> /\ parts_per_object = <<>>
  /\ prev_total = 0 /\ iterdata = <<>>

(* The objects of a bucket are split one after the other, the others by the  *)
(* 64 threads of a pool.                                                     *)
MayRunAny(i) == TRUE
MayRun(i) == source = "storage" => \A k \in 1 .. i - 1 : task[k].pc = "ended"

(* size // n + round(size % n / n + 0.5)                                     *)
CeilDiv(size, n) == size \div n + (IF size % n > 0 THEN 1 ELSE 0)

ChunkOf(size) ==
  CASE opt.chunkNumber > 0 -> CeilDiv(size, opt.chunkNumber)
    [] opt.chunkNumber = 0 /\ opt.chunkSize > 0 -> opt.chunkSize
    [] OTHER -> size

(* The size of a file or url is taken to be 1 when it is empty, or when the  *)
(* server of the url gives no content-length.                                *)
NoSize(i, known) == source # "storage" /\ (~known \/ objs[i].size = 0)

(* An empty object of a bucket makes the division of the log message fail,   *)
(* unless a size of chunk was asked for.                                     *)
Start(i) ==
  /\ task[i].pc = "start" /\ MayRun(i)
  /\ \E known \in {TRUE} \cup {source # "urls"} :
       LET size == IF NoSize(i, known) THEN 1 ELSE objs[i].size
           chunk == IF ~ranges \/ NoSize(i, known) THEN size ELSE ChunkOf(size)
       IN  task' = [task EXCEPT ![i] =
                      [@ EXCEPT !.pc = IF chunk = 0 THEN "raised" ELSE "loop",
                                !.size = size, !.chunk = chunk]]
  /\ UNCHANGED <<input, partitions, parts_per_object, reduce>>

(* HEAD or stat raises: nobody reads the results of the pool, so the object  *)
(* is left out and the client goes on.                                       *)
SplitRaises(i) ==
  /\ task[i].pc = "start" /\ source # "storage"
  /\ task' = [task EXCEPT ![i].pc = "raised"]
  /\ UNCHANGED <<input, partitions, parts_per_object, reduce>>

(* The byte before the chunk, to see if it ends a line.                      *)
PlusByteNone(at) == at
PlusByte(at) == IF at > 0 THEN at - 1 ELSE 0

(* Byte ranges are [from, to), where the code has an inclusive end; size 0   *)
(* stands for no range.                                                      *)
ByteRange(t) ==
  CASE t.size <= t.chunk -> [from |-> 0, to |-> t.size, whole |-> TRUE]
    [] t.size > t.chunk /\ ~newline ->
         [from |-> t.at, to |-> t.at + t.chunk, whole |-> FALSE]
    [] t.size > t.chunk /\ newline /\ t.at + t.chunk < t.size ->
         [from |-> PlusByte(t.at), to |-> t.at + t.chunk + Threshold + 1, whole |-> FALSE]
    [] OTHER -> [from |-> t.at - 1, to |-> t.size, whole |-> FALSE]

LastChunk(t) == newline /\ t.size > t.chunk /\ t.at + t.chunk >= t.size

MoreToSplit(t) == t.at < t.size - 1

AddPartition(i) ==
  /\ task[i].pc = "loop" /\ MoreToSplit(task[i])
  /\ LET t == task[i]
         chunk == IF t.size <= t.chunk THEN t.size
                  ELSE IF LastChunk(t) THEN t.size - t.at ELSE t.chunk
         part == [obj |-> i, part |-> Len(t.parts) + 1, range |-> ByteRange(t), chunk |-> chunk]
     IN  task' = [task EXCEPT ![i] = [t EXCEPT !.parts = Append(t.parts, part),
                                               !.at = t.at + chunk, !.chunk = chunk]]
  /\ UNCHANGED <<input, partitions, parts_per_object, reduce>>

(* The two lists are extended in two steps.                                  *)
Extend(i) ==
  /\ task[i].pc = "loop" /\ ~MoreToSplit(task[i])
  /\ partitions' = partitions \o task[i].parts
  /\ task' = [task EXCEPT ![i].pc = "append"]
  /\ UNCHANGED <<input, parts_per_object, reduce>>

AppendCount(i) ==
  /\ task[i].pc = "append"
  /\ parts_per_object' = Append(parts_per_object, Len(task[i].parts))
  /\ task' = [task EXCEPT ![i].pc = "ended"]
  /\ UNCHANGED <<input, partitions, reduce>>

LeftOut(i) == task[i].pc = "raised" /\ source # "storage"
Ended == \A i \in Tasks : task[i].pc = "ended" \/ LeftOut(i)

(* create_reduce_job, when there is to be a reducer per object: one round of *)
(* its loop over parts_per_object.                                           *)
AddReducer ==
  /\ Ended /\ Len(iterdata) < Len(parts_per_object)
  /\ LET upto == prev_total + parts_per_object[Len(iterdata) + 1]
         end == Min({upto, Len(partitions)})     \* a slice ends where its list ends
     IN  /\ iterdata' = Append(iterdata, SubSeq(partitions, prev_total + 1, end))
         /\ prev_total' = upto
  /\ UNCHANGED <<input, task, partitions, parts_per_object>>

Next ==
  \/ \E i \in Tasks : Start(i) \/ SplitRaises(i) \/ AddPartition(i) \/ Extend(i) \/ AppendCount(i)
  \/ AddReducer

Spec == Init /\ [][Next]_vars

-----------------------------------------------------------------------------
(* The data a worker gets by read() of its partition                         *)

Nothing == [from |-> 0, to |-> 0]

(* What the store returns for a range that goes past the end.                *)
Fetched(p) ==
  [from |-> p.range.from, to |-> Min({p.range.to, objs[p.obj].size})]

(* find(newline) in [from, to): the offset of the first one, -1 if none.     *)
Find(p, from, to) ==
  LET found == {k \in objs[p.obj].nl : from <= k /\ k < to}
  IN  IF found = {} THEN -1 ELSE Min(found)

(* The first row, unless the byte before it is a newline.                    *)
FirstRowStart(p, from, to) ==
  IF p.range.from = 0 \/ p.range.from \in objs[p.obj].nl THEN from
  ELSE IF Find(p, from, to) = -1 THEN from ELSE Find(p, from, to) + 1

(* The end of the row the chunk ends in; find's -1 takes a byte away.        *)
LastRowEnd(p, from, to) ==
  IF to - from < p.chunk THEN to
  ELSE LET nl == Find(p, from + p.chunk - 1, to)
       IN  IF nl = -1 THEN from + p.chunk - 1 ELSE nl + 1

Read(p) ==
  LET data == Fetched(p)
      from == IF p.range.from = 0 THEN 0 ELSE data.from + 1
      first == FirstRowStart(p, from, data.to)
      last == LastRowEnd(p, from, data.to)
  IN  IF p.range.whole \/ ~newline THEN data
      ELSE IF first >= last THEN Nothing ELSE [from |-> first, to |-> last]

-----------------------------------------------------------------------------
NonEmpty(d) == d.from < d.to

(* What is read from the partitions of an object, in their order, is the     *)
(* bytes from 0 to upto, each of them once.                                  *)
Covers(i, upto) ==
  LET pieces == [k \in {k \in DOMAIN partitions : partitions[k].obj = i} |-> Read(partitions[k])]
      read == {k \in DOMAIN pieces : NonEmpty(pieces[k])}
  IN  /\ \A b \in 0 .. upto - 1 : \E k \in read : pieces[k].from <= b /\ b < pieces[k].to
      /\ \A k \in read : 0 <= pieces[k].from /\ pieces[k].to <= upto
      /\ \A k, l \in read : k < l => pieces[k].to <= pieces[l].from

(* The loop ends one byte before the end: a byte left after the last full    *)
(* chunk is given to no partition.                                           *)
LastByteLost(i) ==
  \/ objs[i].size = 1
  \/ /\ task[i].parts # <<>>
     /\ \E n \in 0 .. objs[i].size : n * task[i].parts[1].chunk = objs[i].size - 1

(* No row is longer than the bytes fetched after the end of a chunk.         *)
RowsFit(i) ==
  \A k \in 0 .. objs[i].size - 1 :
    k + Threshold + 2 > objs[i].size \/ Find([obj |-> i], k, k + Threshold + 2) # -1
LargeChunks(i) == task[i].parts # <<>> => task[i].parts[1].chunk > 1
EndsWithNewline(i) == objs[i].size > 0 => objs[i].size - 1 \in objs[i].nl

Part == [obj : Nat, part : Nat, chunk : Nat,
         range : [from : Nat, to : Nat, whole : BOOLEAN]]

TypeOK ==
  /\ source \in {"storage", "paths", "urls"} /\ ranges \in BOOLEAN /\ newline \in BOOLEAN
  /\ objs \in Inputs /\ opt \in Options
  /\ task \in [Tasks -> [pc : {"start", "loop", "append", "ended", "raised"}, at : Nat,
                         size : Nat, chunk : Nat, parts : Seq(Part)]]
  /\ partitions \in Seq(Part) /\ parts_per_object \in Seq(Nat)
  /\ prev_total \in Nat /\ iterdata \in Seq(Seq(Part))

(* The objects no byte of which is read, with no word to the user: those of  *)
(* which HEAD or stat failed, and urls without content-length, whose size of *)
(* 1 makes no partition.                                                     *)
Unread(i) == LeftOut(i) \/ (task[i].pc = "ended" /\ task[i].size < objs[i].size)

(* The workers together read every byte of an object exactly once, whatever  *)
(* the rows and the cut: with obj_newline also the rows that lie over a cut  *)
(* or over several, which one worker adds and the others skip.  Asked of     *)
(* objects whose rows fit the threshold and end with a newline, cut in       *)
(* chunks of two bytes or more, and but for the last byte that is lost.  Of  *)
(* an object whose size the client did not get, nothing at all is read: it   *)
(* is never read in part.                                                    *)
EveryByteOnce ==
  \A i \in Tasks :
    /\ (/\ task[i].pc = "ended" /\ ~Unread(i)
        /\ newline => RowsFit(i) /\ EndsWithNewline(i) /\ LargeChunks(i))
       => Covers(i, objs[i].size) \/ (LastByteLost(i) /\ Covers(i, objs[i].size - 1))
    /\ Unread(i) => Covers(i, 0)

(* With one reducer per object of a bucket, each reducer gets the partitions *)
(* of one object, all of them and in order, and each object has a reducer.   *)
(* (The threads that split files and urls extend the two lists in any order, *)
(* and mix the groups up.)                                                   *)
GroupsMatch ==
  source = "storage" =>
    /\ Ended => Len(parts_per_object) = Len(objs)
    /\ \A k \in DOMAIN iterdata : iterdata[k] = task[k].parts

=============================================================================
