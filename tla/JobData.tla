-------------------------------- MODULE JobData --------------------------------
(***************************************************************************)
(* The data of jobs in the object storage.  The client of an executor puts *)
(* the function, once, and the data of each job; the worker of a job's     *)
(* call gets both and puts an init event, its output and its status; the   *)
(* monitor lists the executor's keys and gets the status; the client gets  *)
(* the output.  clean() leaves a request in a directory for the cleaner, a *)
(* process it starts when there is none, which lists and deletes keys.     *)
(* Besides, the user may call one operation of Storage.                    *)
(*                                                                         *)
(* Every operation runs in the steps that StorageBackends gives it on the  *)
(* backend in use, and everybody works at the same time; what an actor     *)
(* does by itself between two requests belongs to the first of them.  A    *)
(* request to the storage may fail, also after it has been carried out,    *)
(* and the cleaner may be killed.  A job has one call.  The services are   *)
(* external.                                                               *)
(***************************************************************************)
EXTENDS Integers, Sequences, FiniteSets, SequencesExt, StorageBackends

CONSTANTS Starts,      \* the executors to begin with: [backend, earlier, extras]
          JobOrder,    \* the jobs, in the order of their keys
          Job,         \* the job that is run
          PageSize,    \* keys in a page of a list and in a request to delete
          Retries      \* queries for an output before result() gives up

(* An executor may have run earlier jobs.  The extras bound failing        *)
(* requests, kills of the cleaner and the user's calls of Storage.         *)
ASSUME BoundsAssumption ==
  /\ Starts \subseteq [backend : DOMAIN Storage, earlier : SUBSET (Range(JobOrder) \ {Job}),
                      extras : Nat]
  /\ Job \in Range(JobOrder)
  /\ PageSize \in Nat \ {0} /\ Retries \in Nat \ {0}

VARIABLES
  backend,    \* the storage backend: its name and the traits of its methods
  bucket,     \* the bucket exists
  objects,    \* what each key holds: "none", "empty" or "data"
  index,      \* directories (localhost), entries of directories (redis)
  op,         \* the operation each actor is in
  client,     \* [at, exiting, done, cleaned, toClean]: the executor
  cached,     \* FUNCTION_CACHE has the function's key
  worker,     \* where the worker of the job is
  worked,     \* the status tells of no exception
  ready,      \* the monitor has the status
  removed,    \* the future was removed from the monitor
  queries,    \* _output_query_count
  requests,   \* the files in CLEANER_DIR: [jobs, whole, quiet]
  cleaner,    \* [at, batch, left]: the cleaner process
  pidfile,    \* CLEANER_PID_FILE exists
  gone,       \* history: the jobs cleaned that were quiet when asked for
  broken,     \* history: the cleaner was killed or could not load a request
  local,      \* what the user's local file holds
  user,       \* what the user does
  lied,       \* history: the operations with an answer true at no moment of them
  extras      \* failing requests, kills and the user's calls that may still come

store == <<bucket, objects, index>>
clientVars == <<client, cached, queries, removed>>
workerVars == <<worker, worked>>
cleanerVars == <<requests, cleaner, pidfile, gone, broken>>
userVars == <<local, user>>
processes == <<clientVars, workerVars, ready, cleanerVars, userVars>>
vars == <<backend, store, op, processes, lied, extras>>

Jobs == Range(JobOrder)
Executor == "E"     \* the directory of the executor's functions

(* A key is the sequence of its path's components. *)
FuncKey == <<"jobs", Executor, "func">>
DataKey(j) == <<"jobs", j, "data">>
CallKey(j, what) == <<"jobs", j, what>>
UserKey == <<"user">>

JobKeys(j) == <<CallKey(j, "init"), CallKey(j, "output"), CallKey(j, "status"), DataKey(j)>>
KeyOrder == [i \in 1 .. 4 * Len(JobOrder) |-> JobKeys(JobOrder[(i + 3) \div 4])[((i + 3) % 4) + 1]]
              \o <<FuncKey, UserKey>>
Keys == Range(KeyOrder)
Place == [k \in Keys |-> CHOOSE i \in DOMAIN KeyOrder : KeyOrder[i] = k]
FirstOf(ks, n) == {k \in ks : Cardinality({l \in ks : Place[l] <= Place[k]}) <= n}

Dirs(k) == {SubSeq(k, 1, i) : i \in 1..(Len(k) - 1)}
Under == [d \in UNION {Dirs(k) : k \in Keys} |-> {k \in Keys : d \in Dirs(k)}]
In == [d \in DOMAIN Under |-> {x \in Keys \cup DOMAIN Under : Len(x) > 1 /\ Front(x) = d}]

Actors == {"client", "monitor", "cleaner", "user", Job}

(* The keys of jobs differ from the executor's and from those names.       *)
ASSUME NamesAssumption ==
  /\ JobOrder \in Seq(Jobs)
  /\ Jobs \cap {Executor, "client", "monitor", "cleaner", "user"} = {}
Idle == [do |-> "none", at |-> "none", keys |-> {}, prefix |-> <<>>, dirs |-> {}, got |-> {},
         passed |-> {}, missing |-> {}]

Method(do) == backend.does[do]     \* the traits of a method

Gets == {"get", "head"}
Lists == {"listKeys", "listObjects"}

(* What a get finds, and what a list finds: on redis, the entries of       *)
(* directories, whether the object is there or not.                        *)
Stored(objs) == {k \in Keys : objs[k] # "none"}
Present == Stored(objects)
ListableIn(objs, idx) == IF backend.name = "redis" THEN idx \cap Keys ELSE Stored(objs)
Listable == ListableIn(objects, index)
Seen(o, objs, idx) ==
  IF o.do \in Lists THEN ListableIn(objs, idx) \cap Under[o.prefix] ELSE Stored(objs) \cap o.keys

\* Everybody's operation takes notice of what is still there after a step: a
\* get and a list have missed what was there throughout and they have not got.
Watch(o) ==
  IF o.do \in Gets \cup Lists THEN [o EXCEPT !.missing = @ \cap Seen(o, objects', index')] ELSE o
Becomes(a, o) == op' = [x \in Actors |-> IF x = a THEN o ELSE Watch(op[x])]

At(a, do, at) == op[a].do = do /\ op[a].at = at
Key(a) == CHOOSE k \in op[a].keys : \A l \in op[a].keys : Place[k] <= Place[l]

---------------------------------------------------------------------------
(* The beginning of an operation. *)

FirstStep(do) ==
  CASE do = "create" -> IF Method("create").by = "look" THEN "look" ELSE "make"
    [] do = "put" -> CASE Method("put").by = "file" -> "mkdir"
                       [] Method("put").by = "pipeline" -> "index"
                       [] OTHER -> "send"
    [] do = "get" -> IF Method("get").by = "exists" THEN "exists" ELSE "fetch"
    [] do = "delete" -> CASE Method("delete").n = "file" -> "remove"
                          [] Method("delete").n = "pipeline" -> "del"
                          [] OTHER -> "batch"
    [] do \in Lists -> Method(do).by
    [] do = "head" -> "head"

\* os.makedirs() makes the directories it does not find, and a walk starts at
\* the directory of the prefix.
FirstDirs(do, keys, prefix) ==
  CASE do = "put" /\ Method("put").by = "file" -> UNION {Dirs(k) : k \in keys} \ index'
    [] do \in Lists -> {prefix}
    [] OTHER -> {}

Begun(do, keys, prefix) ==
  LET o == [Idle EXCEPT !.do = do, !.at = FirstStep(do), !.keys = keys, !.prefix = prefix,
                        !.dirs = FirstDirs(do, keys, prefix)]
  IN IF do \in Gets \cup Lists THEN [o EXCEPT !.missing = Seen(o, objects', index')] ELSE o

Put(k) == Begun("put", {k}, <<>>)
Get(k) == Begun("get", {k}, <<>>)
List(prefix) == Begun("listKeys", {}, prefix)
Delete(ks) == Begun("delete", ks, <<>>)

---------------------------------------------------------------------------
(* The client: the function and the data of a job, its invocation, wait()  *)
(* or result(), and clean().                                               *)

ClientAt(at) == client.at = at
ClientOp(at) ==
  CASE at = "func" -> Put(FuncKey)
    [] at = "data" -> Put(DataKey(Job))
    [] at = "output" -> Get(CallKey(Job, "output"))
    [] OTHER -> Idle
ClientGoes(c) == client' = c /\ Becomes("client", ClientOp(c.at))

\* After the job the user's program ends, and clean() is called at its exit.
GoOn(c) == ClientGoes([c EXCEPT !.at = IF c.exiting THEN "ended" ELSE "exit"])
CleanUp(c, jobs) ==
  IF jobs = {} THEN GoOn(c) ELSE ClientGoes([c EXCEPT !.toClean = jobs, !.at = "open"])

\* wait() fails: it stops monitoring the job and cleans all jobs of the executor,
\* whatever they do.
ForceClean == removed' = TRUE /\ CleanUp(client, (client.done \cup {Job}) \ client.cleaned)

PutFunction(answer) ==
  /\ ClientAt("func")
  /\ cached' = (answer = "ok")
  /\ IF cached' THEN ClientGoes([client EXCEPT !.at = "data"]) ELSE GoOn(client)
  /\ UNCHANGED <<queries, removed, worker>>

PutJobData(answer) ==
  /\ ClientAt("data")
  /\ IF answer = "ok" THEN ClientGoes([client EXCEPT !.at = "wait"]) /\ worker' = "start"
     ELSE GoOn(client) /\ UNCHANGED worker
  /\ UNCHANGED <<cached, queries, removed>>

\* wait() cleans the jobs of the futures that are done; result() does not.
GetOutput(answer) ==
  LET c == [client EXCEPT !.done = @ \cup {Job}] IN
  /\ ClientAt("output")
  /\ CASE answer = "data" -> /\ CleanUp(c, c.done \ c.cleaned) \/ GoOn(c)
                             /\ UNCHANGED <<queries, removed>>
       [] answer = "nokey" /\ queries + 1 < Retries ->
            queries' = queries + 1 /\ ClientGoes(client) /\ UNCHANGED removed
       [] OTHER -> ForceClean /\ UNCHANGED queries
  /\ UNCHANGED <<cached, worker>>

BucketMade(answer) ==
  /\ ClientAt("create")
  /\ ClientGoes([client EXCEPT !.at = IF answer = "ok" THEN "ready" ELSE "ended"])
  /\ UNCHANGED <<cached, queries, removed, worker>>

ClientAnswer(answer) ==
  /\ BucketMade(answer) \/ PutFunction(answer) \/ PutJobData(answer) \/ GetOutput(answer)
  /\ UNCHANGED <<worked, ready, cleanerVars, userVars>>

---------------------------------------------------------------------------
(* The worker of the job's call: create_job() gets the function and the    *)
(* data, run_task() sends the init event, runs the function, which puts    *)
(* its output, and sends the status.                                       *)

WorkerOp(at) ==
  CASE at = "func" -> Get(FuncKey)
    [] at = "data" -> Get(DataKey(Job))
    [] at \in {"init", "output", "status"} -> Put(CallKey(Job, at))
    [] OTHER -> Idle
WorkerGoes(at) == worker' = at /\ Becomes(Job, WorkerOp(at))

\* An activation ends without a word when its function or data cannot be got.
GetFunction(answer) ==
  /\ worker = "func"
  /\ WorkerGoes(IF answer = "data" THEN "data" ELSE "ended")
  /\ UNCHANGED worked

\* What is no pickled data raises later, in the job runner.
GetData(answer) ==
  /\ worker = "data"
  /\ worked' = (answer = "data")
  /\ WorkerGoes(IF answer \in {"nokey", "raises"} THEN "ended" ELSE "init")

SendInit(answer) ==
  /\ worker = "init"
  /\ worked' = (worked /\ answer = "ok")
  /\ WorkerGoes(IF worked' THEN "output" ELSE "status")

PutOutput(answer) ==
  /\ worker = "output"
  /\ worked' = (answer = "ok")
  /\ WorkerGoes("status")

SendStatus ==
  /\ worker = "status"
  /\ WorkerGoes("ended")
  /\ UNCHANGED worked

WorkerAnswer(answer) ==
  /\ \/ GetFunction(answer) \/ GetData(answer)
     \/ SendInit(answer) \/ PutOutput(answer) \/ SendStatus
  /\ UNCHANGED <<clientVars, ready, cleanerVars, userVars>>

---------------------------------------------------------------------------
(* The monitor lists the keys of the executor's jobs, and gets a status it *)
(* finds, or one it has not found when few futures are left.  An error     *)
(* ends its iteration.                                                     *)

\* Mutant: an error ends the monitor.
QueryStatusDies(o, answer) ==
  /\ o.do = "listKeys"
  /\ Becomes("monitor", IF answer # "ok" THEN [Idle EXCEPT !.do = "died"]
                        ELSE IF CallKey(Job, "status") \in o.got THEN Get(CallKey(Job, "status"))
                        ELSE Idle)
  /\ UNCHANGED ready

\* Whether few futures are left depends on jobs that are not modelled.
QueryStatus(o, answer) ==
  /\ o.do = "listKeys"
  /\ \/ answer = "ok" /\ Becomes("monitor", Get(CallKey(Job, "status")))
     \/ /\ answer = "ok" => CallKey(Job, "status") \notin o.got
        /\ Becomes("monitor", Idle)
  /\ UNCHANGED ready

SetReady(o, answer) ==
  /\ o.do = "get"
  /\ Becomes("monitor", Idle)
  /\ ready' = (ready \/ answer = "data")

MonitorAnswer(o, answer) ==
  /\ QueryStatus(o, answer) \/ SetReady(o, answer)
  /\ UNCHANGED <<clientVars, workerVars, cleanerVars, userVars>>

---------------------------------------------------------------------------
(* The cleaner process.  The requests for jobs are those of one executor   *)
(* and are worked off by one thread, which an exception ends.              *)

JobFiles(batch) == batch \ {{Executor}}
FileOf(batch) == CHOOSE f \in JobFiles(batch) : TRUE
JobToClean(left) == CHOOSE j \in left : TRUE
CleanerOff == [at |-> "none", batch |-> {}, left |-> {}]

CleanJobs(batch, left) ==
  /\ cleaner' = [at |-> "clean", batch |-> batch, left |-> left]
  /\ Becomes("cleaner", List(<<"jobs", JobToClean(left)>>))

CleanNext(batch) ==
  CASE batch = {} -> /\ cleaner' = [CleanerOff EXCEPT !.at = "look"]
                     /\ Becomes("cleaner", Idle)
    [] JobFiles(batch) # {} -> CleanJobs(batch, FileOf(batch))
    [] OTHER -> /\ cleaner' = [at |-> "functions", batch |-> batch, left |-> {}]
                /\ Becomes("cleaner", List(<<"jobs", Executor>>))

\* Mutant: the request's file is not removed.
RemoveRequestForgets(f) == UNCHANGED <<requests, gone>>

RemoveRequest(f) ==
  /\ requests' = {r \in requests : r.jobs # f}
  /\ gone' = gone \cup UNION {r.quiet : r \in {x \in requests : x.jobs = f}}

\* Mutant: a list shorter than a page is taken for the last one.
EmptiedWhenShort(ks) == Cardinality(ks) < PageSize

\* clean_bucket() goes on until a list is empty.
Emptied(ks) == ks = {}

CleanJob(o, answer) ==
  LET batch == cleaner.batch
      left == cleaner.left \ {JobToClean(cleaner.left)}
  IN
  /\ cleaner.at = "clean"
  /\ IF answer = "ok" /\ o.do = "listKeys" /\ Emptied(o.got) /\ left = {}
     THEN RemoveRequest(FileOf(batch)) /\ CleanNext(batch \ {FileOf(batch)})
     ELSE /\ CASE answer # "ok" -> CleanNext(batch \ JobFiles(batch))
               [] answer = "ok" /\ o.do = "delete" -> CleanJobs(batch, cleaner.left)
               [] answer = "ok" /\ o.do = "listKeys" ->
                    IF Emptied(o.got) THEN CleanJobs(batch, left)
                    ELSE Becomes("cleaner", Delete(o.got)) /\ UNCHANGED cleaner
          /\ UNCHANGED <<requests, gone>>

\* clean_functions() lists and deletes once, and what raises leaves the file.
CleanFunctions(o, answer) ==
  /\ cleaner.at = "functions"
  /\ IF o.do = "listKeys" /\ answer = "ok"
     THEN Becomes("cleaner", Delete(o.got)) /\ UNCHANGED <<cleaner, requests, gone>>
     ELSE /\ CleanNext({})
          /\ IF answer = "ok" THEN RemoveRequest({Executor}) ELSE UNCHANGED <<requests, gone>>

CleanerAnswer(o, answer) ==
  /\ CleanJob(o, answer) \/ CleanFunctions(o, answer)
  /\ UNCHANGED <<pidfile, broken, clientVars, workerVars, ready, userVars>>

---------------------------------------------------------------------------
(* The user's program calls Storage itself after a job done.  upload_file()*)
(* and download_file() answer whether they have succeeded.                 *)

UserAnswer(answer) ==
  /\ Becomes("user", Idle)
  /\ user' \in IF answer \in {"ok", "data", "text", "empty"} THEN {"true"}
               ELSE IF user \in {"upload", "download"} THEN Method(user).fails ELSE Raises
  /\ local' = IF user = "download" /\ user' = "true" THEN answer ELSE local
  /\ UNCHANGED <<clientVars, workerVars, ready, cleanerVars>>

---------------------------------------------------------------------------
(* An operation goes on, or it answers and its actor goes on.              *)

\* An object of no bytes, where that is taken for a missing key.
Blank(k) == objects[k] = "empty" /\ Method("get").zero = "nokey"

(* An object that is not found was not there at some moment of the search, *)
(* or is blank, and a list has all the keys that were there throughout,    *)
(* unless it is one page.                                                  *)
Truthful(o, answer) ==
  /\ o.do \in Gets /\ answer = "nokey" => o.missing = {} \/ \E k \in o.keys : Blank(k)
  /\ o.do \in Lists /\ answer = "ok" /\ Method(o.do).by # "page" => o.missing = {}

GoesOn(a, next) ==
  /\ \E o \in {next} : Becomes(a, Watch(o))
  /\ UNCHANGED <<processes, lied>>

Ends(a, last, answer) == \E o \in {last} :
  /\ lied' = IF Truthful(Watch(o), answer) THEN lied ELSE lied \cup {o.do}
  /\ CASE a = "client" -> ClientAnswer(answer)
       [] a = Job -> WorkerAnswer(answer)
       [] a = "monitor" -> MonitorAnswer(o, answer)
       [] a = "cleaner" -> CleanerAnswer(o, answer)
       [] a = "user" -> UserAnswer(answer)
Answered(a, answer) == Ends(a, op[a], answer)

---------------------------------------------------------------------------
(* What the request of a step changes.  How many keys a request to delete  *)
(* has depends on the backend.                                             *)

Batch(ks) ==
  CASE Method("delete").n = "one" -> FirstOf(ks, 1)
    [] Method("delete").n = "page" -> FirstOf(ks, PageSize)
    [] OTHER -> ks
AfterBatch(ks) == ks \ Batch(ks)

Without(ks) == objects' = [k \in Keys |-> IF k \in ks THEN "none" ELSE objects[k]]

\* What an actor puts: an init event has no bytes.
Value(k) == IF Last(k) = "init" THEN "empty" ELSE "data"

\* Mutant: the object is set before the entries of the directories are made.
EffectSetsFirst(a) ==
  LET o == op[a] IN
  CASE o.at = "index" ->
         objects' = [objects EXCEPT ![Key(a)] = Value(Key(a))] /\ UNCHANGED <<bucket, index>>
    [] o.at = "set" ->
         index' = index \cup Dirs(Key(a)) \cup {Key(a)} /\ UNCHANGED <<bucket, objects>>
    [] o.at = "del" -> Without(o.keys) /\ UNCHANGED <<bucket, index>>
    [] o.at = "unindex" -> index' = index \ o.keys /\ UNCHANGED <<bucket, objects>>
    [] OTHER -> UNCHANGED store

Effect(a) ==
  LET o == op[a] IN
  CASE o.at = "make" -> bucket' = TRUE /\ UNCHANGED <<objects, index>>
    [] o.at \in {"send", "set"} ->
         objects' = [objects EXCEPT ![Key(a)] = Value(Key(a))] /\ UNCHANGED <<bucket, index>>
    [] o.at = "index" ->
         index' = index \cup Dirs(Key(a)) \cup {Key(a)} /\ UNCHANGED <<bucket, objects>>
    [] o.at = "batch" -> Without(Batch(o.keys)) /\ UNCHANGED <<bucket, index>>
    [] o.at = "del" -> Without(o.keys) /\ UNCHANGED <<bucket, index>>
    [] o.at = "unindex" -> index' = index \ o.keys /\ UNCHANGED <<bucket, objects>>
    [] OTHER -> UNCHANGED store

---------------------------------------------------------------------------
(* create_bucket() *)

CreateLook(a) ==
  /\ At(a, "create", "look")
  /\ UNCHANGED store
  /\ IF bucket THEN Answered(a, "ok") ELSE GoesOn(a, [op[a] EXCEPT !.at = "make"])

CreateMake(a) ==
  /\ At(a, "create", "make")
  /\ Effect(a)
  /\ Answered(a, "ok")

---------------------------------------------------------------------------
(* put_object() *)

Send(a) ==
  /\ At(a, "put", "send")
  /\ IF bucket THEN Effect(a) /\ Answered(a, "ok")
     ELSE UNCHANGED store /\ Answered(a, "raises")

\* os.makedirs() from the top.  A parent may have been removed meanwhile.
MakeDir(a) ==
  /\ At(a, "put", "mkdir")
  /\ UNCHANGED <<bucket, objects>>
  /\ IF op[a].dirs = {}
     THEN UNCHANGED index /\ GoesOn(a, [op[a] EXCEPT !.at = "open"])
     ELSE LET d == CHOOSE x \in op[a].dirs : \A y \in op[a].dirs : Len(x) <= Len(y) IN
          IF Len(d) = 1 \/ Front(d) \in index
          THEN /\ index' = index \cup {d}
               /\ GoesOn(a, [op[a] EXCEPT !.dirs = @ \ {d}])
          ELSE UNCHANGED index /\ Answered(a, "raises")

OpenFile(a) ==
  /\ At(a, "put", "open")
  /\ UNCHANGED <<bucket, index>>
  /\ IF Dirs(Key(a)) \subseteq index
     THEN objects' = [objects EXCEPT ![Key(a)] = "empty"] /\ GoesOn(a, [op[a] EXCEPT !.at = "write"])
     ELSE UNCHANGED objects /\ Answered(a, "raises")

\* What is written to a file that was removed meanwhile is lost.
WriteFile(a) ==
  /\ At(a, "put", "write")
  /\ objects' = [objects EXCEPT ![Key(a)] = IF @ = "none" THEN "none" ELSE Value(Key(a))]
  /\ UNCHANGED <<bucket, index>>
  /\ Answered(a, "ok")

\* The entries of the directories come before the object.
IndexNames(a) ==
  /\ At(a, "put", "index")
  /\ Effect(a)
  /\ GoesOn(a, [op[a] EXCEPT !.at = "set"])

SetValue(a) ==
  /\ At(a, "put", "set")
  /\ Effect(a)
  /\ Answered(a, "ok")

PutStep(a) ==
  \/ Send(a)
  \/ MakeDir(a) \/ OpenFile(a) \/ WriteFile(a)
  \/ IndexNames(a) \/ SetValue(a)

---------------------------------------------------------------------------
(* get_object().  The job's data are read by a range, the rest as a whole. *)

Exists(a) ==
  /\ At(a, "get", "exists")
  /\ UNCHANGED store
  /\ IF objects[Key(a)] = "none" THEN Answered(a, "nokey") ELSE GoesOn(a, [op[a] EXCEPT !.at = "fetch"])

Ranged(k) == Last(k) = "data"
Content(k) ==
  CASE objects[k] = "data" -> "data"
    [] objects[k] = "empty" -> IF Blank(k) THEN "nokey" ELSE "empty"
    [] objects[k] = "none" ->
         IF Method("get").by = "exists" THEN "raises"
         ELSE IF Ranged(k) THEN Method("get").range ELSE "nokey"

Fetch(a) ==
  /\ At(a, "get", "fetch")
  /\ UNCHANGED store
  /\ Answered(a, Content(Key(a)))

---------------------------------------------------------------------------
(* delete_object() and delete_objects() *)

DeleteBatch(a) ==
  LET ks == op[a].keys
      missing == \E k \in Batch(ks) : objects[k] = "none"
  IN
  /\ At(a, "delete", "batch")
  /\ Effect(a)
  /\ CASE ks = {} -> Answered(a, IF Method("delete").none = "raises" THEN "raises" ELSE "ok")
       [] missing /\ Method("delete").gone = "raises" -> Answered(a, "raises")
       [] missing /\ Method("delete").gone = "ends" -> Answered(a, "ok")
       [] OTHER -> IF AfterBatch(ks) = {} THEN Answered(a, "ok")
                   ELSE GoesOn(a, [op[a] EXCEPT !.keys = AfterBatch(ks)])

RemoveFile(a) ==
  /\ At(a, "delete", "remove")
  /\ UNCHANGED <<bucket, index>>
  /\ IF op[a].keys = {}
     THEN UNCHANGED objects /\ Answered(a, "ok")
     ELSE /\ Without({Key(a)})
          /\ GoesOn(a, [op[a] EXCEPT !.at = "rmdir", !.prefix = Front(Key(a))])

\* os.rmdir() of the directories above, up to the first that is not empty.
EmptyDir(d) ==
  /\ d \in index
  /\ \A x \in index \cup Present : x = d \/ ~IsPrefix(d, x)

RemoveDir(a) ==
  LET d == op[a].prefix IN
  /\ At(a, "delete", "rmdir")
  /\ UNCHANGED <<bucket, objects>>
  /\ IF d # <<>> /\ EmptyDir(d)
     THEN index' = index \ {d} /\ GoesOn(a, [op[a] EXCEPT !.prefix = Front(d)])
     ELSE UNCHANGED index /\ GoesOn(a, [op[a] EXCEPT !.at = "remove", !.keys = @ \ {Key(a)}])

\* DEL of all keys, which refuses none, then SREM of each name.
DelKeys(a) ==
  /\ At(a, "delete", "del")
  /\ Effect(a)
  /\ IF op[a].keys = {} THEN Answered(a, "raises") ELSE GoesOn(a, [op[a] EXCEPT !.at = "unindex"])

Unindex(a) ==
  /\ At(a, "delete", "unindex")
  /\ Effect(a)
  /\ Answered(a, "ok")

DeleteStep(a) ==
  \/ DeleteBatch(a)
  \/ RemoveFile(a) \/ RemoveDir(a)
  \/ DelKeys(a) \/ Unindex(a)

---------------------------------------------------------------------------
(* list_keys() and list_objects() *)

\* A page holds the first keys that come after the last key of the page before.
Rest(o) == (Present \cap Under[o.prefix]) \ o.passed

\* What is kept of the keys found: the monitor wants the status, and
\* list_objects() the keys whose sizes it looks for.
Wanted(a) ==
  CASE a = "monitor" -> {CallKey(Job, "status")}
    [] a = "user" /\ Method("listObjects").sizes \in {"listed", "values"} -> {}
    [] OTHER -> Keys
Found(o, a, ks) == [o EXCEPT !.got = @ \cup (ks \cap Wanted(a)), !.missing = @ \ ks]

\* list_keys() answers its keys; list_objects() looks for their sizes.
Listed(a, o) ==
  IF o.do = "listKeys" THEN Ends(a, o, "ok") ELSE GoesOn(a, [o EXCEPT !.at = "sizes"])

\* The next page starts after the last key of this one; not one further.
CursorSkips(page) == {k \in Keys : \E l \in page : Place[k] <= Place[l] + 1}
Cursor(page) == {k \in Keys : \E l \in page : Place[k] <= Place[l]}

ListPages(a) ==
  LET o == op[a] IN
  /\ o.at = "pages"
  /\ UNCHANGED store
  /\ \E rest \in {Rest(o)} :
       LET page == FirstOf(rest, PageSize)
           found == Found(o, a, page)
       IN IF page = rest THEN Listed(a, found)
          ELSE GoesOn(a, [found EXCEPT !.passed = Cursor(page)])

ListOnePage(a) ==
  /\ op[a].at = "page"
  /\ UNCHANGED store
  /\ Listed(a, Found(op[a], a, FirstOf(Rest(op[a]), PageSize)))

ListWhole(a) ==
  /\ op[a].at = "whole"
  /\ UNCHANGED store
  /\ Listed(a, Found(op[a], a, Present \cap Under[op[a].prefix]))

\* One directory after the other is read, the deepest first: glob() and _walk().
WalkDir(a) ==
  LET o == op[a] IN
  /\ o.at = "walk"
  /\ UNCHANGED store
  /\ \E d \in {x \in o.dirs : \A y \in o.dirs : Len(x) >= Len(y)} :
       \E found \in {[Found(o, a, In[d] \cap Listable)
                       EXCEPT !.dirs = (@ \ {d}) \cup ((In[d] \cap index) \ Keys)]} :
         IF found.dirs = {} THEN Listed(a, found) ELSE GoesOn(a, found)

\* An object may be gone, or have no bytes, when its size is asked for.
Sizes(a) ==
  LET o == op[a]
      how == Method("listObjects").sizes
      missing == {k \in o.got : objects[k] = "none" \/ (how = "get" /\ Blank(k))}
  IN
  /\ o.at = "sizes"
  /\ UNCHANGED store
  /\ CASE missing # {} /\ how \in {"stat", "get"} -> Answered(a, "raises")
       [] how = "twice" -> GoesOn(a, [o EXCEPT !.got = @ \ missing, !.at = "again"])
       [] OTHER -> Answered(a, "ok")

\* The second get of an object that is gone has no length.
SizesAgain(a) ==
  /\ op[a].at = "again"
  /\ UNCHANGED store
  /\ Answered(a, IF op[a].got \subseteq Present THEN "ok" ELSE "raises")

ListStep(a) ==
  \/ ListPages(a) \/ ListOnePage(a) \/ ListWhole(a) \/ WalkDir(a)
  \/ Sizes(a) \/ SizesAgain(a)

---------------------------------------------------------------------------
(* head_object() *)

HeadObject(a) ==
  /\ op[a].at = "head"
  /\ UNCHANGED store
  /\ Answered(a, CASE objects[Key(a)] = "none" -> Method("head").gone
                   [] Blank(Key(a)) -> "nokey"
                   [] OTHER -> "data")

StorageStep(a) ==
  /\ op[a].do # "none"
  /\ \/ CreateLook(a) \/ CreateMake(a)
     \/ PutStep(a)
     \/ Exists(a) \/ Fetch(a) \/ HeadObject(a)
     \/ DeleteStep(a)
     \/ ListStep(a)
  /\ UNCHANGED <<backend, extras>>

---------------------------------------------------------------------------
(* A request that fails, before or after it has been carried out. *)

Requests == {"look", "make", "send", "index", "set", "exists", "fetch", "head", "batch",
             "del", "unindex", "pages", "page", "whole", "walk", "sizes"}
Fails(do) == IF do \in Lists THEN Raises ELSE Method(do).fails

Failed(a, how) ==
  CASE how = "again" -> GoesOn(a, op[a])
    [] how = "lost" /\ op[a].do = "delete" /\ AfterBatch(op[a].keys) # {} ->
         GoesOn(a, [op[a] EXCEPT !.keys = AfterBatch(@)])
    [] OTHER -> Answered(a, IF how = "lost" THEN "ok" ELSE how)

FailingRequest(a) ==
  /\ extras > 0 /\ extras' = extras - 1
  /\ backend.name # "localhost"
  /\ op[a].at \in Requests
  /\ Effect(a) \/ UNCHANGED store
  /\ \E how \in Fails(op[a].do) : Failed(a, how)
  /\ UNCHANGED backend

---------------------------------------------------------------------------
(* What the actors do when no request has been answered.                   *)

CreateBucket ==
  /\ ClientAt("start")
  /\ UNCHANGED store
  /\ IF Method("create").by = "none" THEN client' = [client EXCEPT !.at = "ready"] /\ UNCHANGED op
     ELSE client' = [client EXCEPT !.at = "create"] /\ Becomes("client", Begun("create", {}, <<>>))
  /\ UNCHANGED <<cached, queries, removed, requests, cleaner>>

CreateJob ==
  /\ ClientAt("ready")
  /\ UNCHANGED store
  /\ ClientGoes([client EXCEPT !.at = IF cached THEN "data" ELSE "func"])
  /\ UNCHANGED <<cached, queries, removed, requests, cleaner>>

StatusReady ==
  /\ ClientAt("wait") /\ ready
  /\ UNCHANGED store
  /\ IF worked THEN ClientGoes([client EXCEPT !.at = "output"]) /\ UNCHANGED removed ELSE ForceClean
  /\ UNCHANGED <<cached, queries, requests, cleaner>>

Timeout ==
  /\ ClientAt("wait")
  /\ UNCHANGED store
  /\ ForceClean
  /\ UNCHANGED <<cached, queries, requests, cleaner>>

\* save_data_to_clean() makes a file, then writes it.  A job is quiet when its
\* worker has ended.
HasEnded == worker = "ended"
Quiet(j) == j # Job \/ HasEnded
Request(jobs) == [jobs |-> jobs, whole |-> FALSE, quiet |-> {j \in jobs \cap Jobs : Quiet(j)}]
Written(jobs) ==
  requests' = {IF r.jobs = jobs THEN [r EXCEPT !.whole = TRUE] ELSE r : r \in requests}

SaveRequest ==
  /\ \/ /\ ClientAt("open") /\ requests' = requests \cup {Request(client.toClean)}
        /\ client' = [client EXCEPT !.at = "dump"]
     \/ /\ ClientAt("dump") /\ Written(client.toClean)
        /\ client' = [client EXCEPT !.at = "spawn", !.cleaned = @ \cup client.toClean]
  /\ UNCHANGED <<store, op, cached, queries, removed, cleaner>>

\* The clean() of the exit: the functions, then the jobs that are done.
SaveFunctionRequest ==
  /\ UNCHANGED store
  /\ \/ /\ ClientAt("exit") /\ requests' = requests \cup {Request({Executor})}
        /\ client' = [client EXCEPT !.at = "dumpFn"] /\ UNCHANGED op
     \/ /\ ClientAt("dumpFn") /\ Written({Executor})
        /\ CleanUp([client EXCEPT !.exiting = TRUE], client.done \ client.cleaned)
  /\ UNCHANGED <<cached, queries, removed, cleaner>>

\* A cleaner is started unless one is running.
SpawnCleaner ==
  /\ ClientAt("spawn")
  /\ UNCHANGED store
  /\ GoOn(client)
  /\ cleaner' = IF cleaner.at = "none" THEN [cleaner EXCEPT !.at = "start"] ELSE cleaner
  /\ UNCHANGED <<cached, queries, removed, requests>>

ClientStep ==
  /\ op["user"].do = "none"
  /\ \/ CreateBucket \/ CreateJob \/ StatusReady
     \/ SaveRequest \/ SaveFunctionRequest \/ SpawnCleaner
  /\ UNCHANGED <<backend, workerVars, ready, pidfile, gone, broken, userVars, lied, extras>>

TimedOut ==
  /\ Timeout
  /\ UNCHANGED <<backend, workerVars, ready, pidfile, gone, broken, userVars, lied, extras>>

StartWorker ==
  /\ worker = "start"
  /\ UNCHANGED store
  /\ WorkerGoes("func")
  /\ UNCHANGED <<backend, clientVars, worked, ready, cleanerVars, userVars, lied, extras>>

Monitored == worker # "none" /\ ~ready /\ ~removed

ListStatus ==
  /\ Monitored /\ op["monitor"].do = "none"
  /\ UNCHANGED store
  /\ Becomes("monitor", List(<<"jobs">>))
  /\ UNCHANGED <<backend, processes, lied, extras>>

Start ==
  /\ cleaner.at = "start"
  /\ pidfile' = TRUE
  /\ cleaner' = [CleanerOff EXCEPT !.at = IF pidfile THEN "none" ELSE "look"]
  /\ UNCHANGED <<op, broken>>

Look ==
  /\ cleaner.at = "look"
  /\ cleaner' = IF requests = {} THEN [CleanerOff EXCEPT !.at = "leave"]
                ELSE [at |-> "load", batch |-> {r.jobs : r \in requests}, left |-> {}]
  /\ UNCHANGED <<op, pidfile, broken>>

\* A file that is not yet written cannot be unpickled.
Load ==
  LET fine == \A r \in requests : r.jobs \in cleaner.batch => r.whole IN
  /\ cleaner.at = "load"
  /\ broken' = (broken \/ ~fine)
  /\ IF fine THEN CleanNext(cleaner.batch)
     ELSE cleaner' = [CleanerOff EXCEPT !.at = "leave"] /\ UNCHANGED op
  /\ UNCHANGED pidfile

Leave ==
  /\ cleaner.at = "leave"
  /\ pidfile' = FALSE
  /\ cleaner' = CleanerOff
  /\ UNCHANGED <<op, broken>>

CleanerStep ==
  /\ UNCHANGED store
  /\ Start \/ Look \/ Load \/ Leave
  /\ UNCHANGED <<backend, clientVars, workerVars, ready, requests, gone, userVars, lied, extras>>

\* A cleaner that is killed leaves its PID file.
Kill ==
  /\ cleaner.at \notin {"none", "start"}
  /\ extras > 0 /\ extras' = extras - 1
  /\ cleaner' = CleanerOff
  /\ broken' = TRUE
  /\ UNCHANGED store
  /\ Becomes("cleaner", Idle)
  /\ UNCHANGED <<backend, clientVars, workerVars, ready, requests, pidfile, gone, userVars, lied>>

UserCall ==
  /\ user = "none" /\ ClientAt("exit") /\ Job \in client.done
  /\ extras > 0 /\ extras' = extras - 1
  /\ UNCHANGED store
  /\ \/ user' = "upload" /\ Becomes("user", Put(UserKey)) /\ UNCHANGED local
     \/ \E k \in {CallKey(Job, "init"), CallKey(Job, "output")} :
          \/ /\ user' = "download" /\ Becomes("user", Get(k))
             /\ local' = IF Method("download").file = "first" THEN "empty" ELSE local
          \/ /\ user' = "head" /\ Becomes("user", Begun("head", {k}, <<>>))
             /\ UNCHANGED local
     \/ user' = "list" /\ Becomes("user", Begun("listObjects", {}, <<"jobs">>)) /\ UNCHANGED local
  /\ UNCHANGED <<backend, clientVars, workerVars, ready, cleanerVars, lied>>

---------------------------------------------------------------------------

(* An executor that is new, or one that has run jobs whose results its     *)
(* program has got by result(), which leaves them in the storage.          *)
LeftBy(earlier) ==
  IF earlier = {} THEN {} ELSE {FuncKey} \cup UNION {Under[<<"jobs", j>>] : j \in earlier}

Init ==
  \E s \in Starts :
    LET there == LeftBy(s.earlier) IN
    /\ backend = [name |-> s.backend, does |-> Storage[s.backend]]
    /\ bucket = (s.earlier # {} \/ Method("create").by = "none")
    /\ objects = [k \in Keys |-> IF k \in there THEN Value(k) ELSE "none"]
    /\ index = CASE s.backend = "localhost" -> UNION {Dirs(k) : k \in there}
                 [] s.backend = "redis" -> UNION {Dirs(k) \cup {k} : k \in there}
                 [] OTHER -> {}
    /\ op = [a \in Actors |-> Idle]
    /\ client = [at |-> IF s.earlier = {} THEN "start" ELSE "ready", exiting |-> FALSE,
                 done |-> s.earlier, cleaned |-> {}, toClean |-> {}]
    /\ cached = (s.earlier # {})
    /\ worker = "none" /\ worked = FALSE
    /\ ready = FALSE /\ removed = FALSE
    /\ queries = 0
    /\ requests = {}
    /\ cleaner = CleanerOff
    /\ pidfile = FALSE /\ gone = {} /\ broken = FALSE
    /\ local = "old" /\ user = "none" /\ lied = {} /\ extras = s.extras

ClientThread == StorageStep("client") \/ StorageStep("user") \/ ClientStep
WorkerProcess == StorageStep(Job) \/ StartWorker
MonitorThread == StorageStep("monitor") \/ ListStatus
CleanerProcess == StorageStep("cleaner") \/ CleanerStep

Next ==
  \/ ClientThread \/ WorkerProcess \/ MonitorThread \/ CleanerProcess
  \/ TimedOut
  \/ \E a \in Actors : FailingRequest(a)
  \/ Kill
  \/ UserCall

Spec == Init /\ [][Next]_vars

(* Every process goes on; nothing must time out, fail or be killed. *)
FairSpec ==
  /\ Spec
  /\ WF_vars(MonitorThread) /\ WF_vars(CleanerProcess)

---------------------------------------------------------------------------

TypeOK ==
  /\ \E b \in DOMAIN Storage : backend = [name |-> b, does |-> Storage[b]]
  /\ {bucket, cached, worked, ready, removed, pidfile, broken} \subseteq BOOLEAN
  /\ objects \in [Keys -> {"none", "empty", "data"}]
  /\ worker \in {"none", "start", "func", "data", "init", "output", "status", "ended"}
  /\ gone \subseteq Jobs
  /\ queries \in 0..Retries /\ extras \in Nat

(* What an operation answers is true of some moment of it: an object that  *)
(* is not found was not there, and a list, read page by page or directory  *)
(* by directory while others put and delete, has all the keys that were    *)
(* there throughout.  A Swift request that fails is taken for a missing    *)
(* key, as is a head_object of Oracle that the service refuses, and an     *)
(* object of no bytes on Infinispan by REST.                               *)
AnswersTruthful ==
  lied \subseteq CASE backend.name = "swift" -> {"get", "head"}
                   [] backend.name = "oracle_oss" -> {"head"}
                   [] OTHER -> {}

(* Two changes make an object on redis and an entry of its directory, and  *)
(* a list gives the entries; still no list passes over an object of a job, *)
(* unless it was asked to clean the job while its worker was running.      *)
Asked == client.cleaned \cup IF client.at = "dump" THEN client.toClean ELSE {}
AskedQuietly(j) == \E r \in requests : j \in r.quiet
ObjectsListed ==
  \A j \in Jobs : j \notin Asked \/ AskedQuietly(j)
    => Under[<<"jobs", j>>] \cap Present \subseteq Listable

(* When the cleaner has removed the request for a job whose worker had     *)
(* ended, nothing of the job is left in the storage.                       *)
CleanedIsGone == \A j \in gone : Under[<<"jobs", j>>] \cap Present = {}

(* The status a worker has put reaches the monitor, unless the client ends *)
(* or stops waiting; backends that list one page may never show it.        *)
StatusSeen ==
  HasEnded /\ objects[CallKey(Job, "status")] = "data" /\ Method("listKeys").by # "page"
    ~> ready \/ removed \/ ClientAt("ended")

(* What a cleaner has loaded it cleans, whatever requests fail on the way. *)
LoadedIsCleaned ==
  \A j \in Jobs :
    (cleaner.at = "clean" /\ j \in UNION cleaner.batch)
      ~> broken \/ ~\E r \in requests : j \in r.jobs
=============================================================================
