# Lithops in TLA+

Models of the concurrent parts of [Lithops](../src/README.md), the
multi-cloud serverless framework, checked by TLC on small instances and proved
with TLAPS for every instance. A module follows the code it names and not its
documentation; `PROJECT.json` gives, for each definition, the lines it stands for.

## 1. The system

A client program calls `FunctionExecutor.map`. The executor serialises function
and data to object storage, an *invoker* starts activations on a compute
backend, each *worker* runs some calls and writes an init key, an output and a
status per call to the storage, a *monitor* thread of the client polls that
storage and updates *futures*, and `wait`/`get_result` read them. When `wait`
is over, well or not, the executor clears the backend; at the exit of the
program it leaves requests to a *cleaner* process that deletes what the jobs
stored. A backend is the local machine, a *serverless* service, on which a
*runtime* is deployed before the first invocation, or a set of VMs
(*standalone*) with a master that keeps its queues in Redis.

| component (src/lithops/) | state | operations | talks to |
|---|---|---|---|
| FaaS invoker, `invokers.py` | `running_workers`, `should_run`, `pending_calls_q`, `token_bucket_q`, its threads | `_invoke_job`, `_invoke_task`, invoker threads, `stop`, `select_runtime` | backend (call), monitor (token queue), `wait` (stops it) |
| Storage monitor, `monitor.py` | `futures`, `present_jobs`, the sets of processed calls, `workers_done` | `add_futures`, `remove_futures`, the polling iteration, timeouts, tokens | storage (list, get), futures (writes their fields without a lock), token queue |
| RabbitMQ monitor, `monitor.py` | the same, fed by messages | message callback, its end | workers, through a queue |
| Futures and `wait`, `future.py`, `wait.py` | `_state`, `_call_status`, `_call_output` | `status`, `result`, `wait`, `_set_*` | storage, monitor |
| Worker, `worker/` | the call in progress | `function_handler`, `run_task`, `JobRunner.run`, `CallStatus` | storage |
| Executor, `executors.py` | futures, jobs to clean | `map`, `wait`, `get_result`, `clean` | all of the above |
| Storage, `storage/` and 13 backends | objects under `lithops.jobs/<executor>-<job>/<call>`, runtime metadata | put, get, head, list, delete, create a bucket | worker, monitor, futures, cleaner |
| Data cleaner, `scripts/cleaner.py` | request files, a PID file | the cleaner's loop | storage, executor |
| Job creation and partitioner, `job/` | none | byte ranges, chunks, upload | storage |
| Localhost backend v2, `localhost/v2/` | `env.jobs` (a latch per job), `work_queue`, `task_processes`, consumers, `job_manager` | `invoke`, `start_manager`, `clear`, consumer loop, `stop` | task processes |
| Localhost backend v1, `localhost/v1/` | one job queue and one manager thread | `invoke`, `clear` | task processes |
| Standalone mode, `standalone/` | Redis lists of tasks, `job:` and `worker:` hashes, VM set | `handle_job`, worker consumers, `stop`, set-up of workers, `BudgetKeeper` | Redis, VMs over HTTP |
| VM backends, `standalone/backends/` | network, VMs, images, cache file | `init`, create, stop and delete instances, build and delete images, `dismantle`, `clean` | four clouds |
| Serverless backends, `serverless/`, 14 of them | functions, queues, images, metadata caches | build, deploy, invoke, list, delete a runtime, `clean` | clouds, storage, command line |
| Multiprocessing API, `multiprocessing/` | Redis lists, counters, waiters' lists | locks, conditions, events, barriers, queues, pools | Redis |
| Retrying executor, `retries.py` | futures and their retry counts | `map`, `wait` | executor |
| Configuration, CLI, plots | files | input and output; `runtime`, `clean` act on the clouds | serverless, storage |

### What is hard, and what makes each part correct

* **Invoker.** Two queues are shared by the client thread, invoker threads of
  the current and of an earlier start, refused tasks that put their chunk back,
  the monitor and `stop`; the backend may refuse a chunk, raise, or kill its
  worker. Correct: no chunk of calls reaches the backend twice, every worker slot
  is accounted for, no more than a known number of activations run, and every
  issued call is invoked while there is a slot to serve it.
* **Monitor and futures.** The monitor tests a future and later assigns it; a
  user's thread does the same from the other side; a worker may answer after its
  timeout, or never; `wait` may fail in the middle, and an iteration may be cut
  short by an exception. Correct: what the user is told is true and unique, an
  outcome once read stays, and every call that ended is reported.
* **Job data.** Client, workers, monitor and cleaner use the same keys with no
  coordination but the order of their requests; a request may fail before or
  after it was carried out, lists come in pages, and some backends make an
  operation of several commands. Correct: an answer was true at some moment, a
  status that was put is seen, what is cleaned is gone and stays gone, and a
  request the cleaner has read is served.
* **Localhost backend.** Manager, consumers and client share latches, a queue
  and a dictionary of processes while `clear` tears them down. Correct: a latch
  matches its tasks, no process outlives `clear`, `clear` returns, the manager
  ends.
* **Standalone.** Work queues of Redis are filled and drained by master and
  workers in several commands; `clear` and the budget keeper stop things that
  may still be needed; a VM is replaced while it is being set up, or its set-up
  fails, or is done again under its running service. Correct: a task is in one
  place and runs at most once, a job is done when its calls have run, a job with
  a worker ends, a VM with work is not dismantled and an idle one is.
* **VM backends.** `init` makes up to seven resources, any of which may fail;
  a rollback, a cache file and `clean` must agree on what is Lithops' own, where
  a network can be given by its ids, found by its name, or made.
  Correct: nothing else is deleted (but a network found by its name), and a
  `clean` that says so has left nothing.
* **Serverless backends.** A runtime is several resources, and the metadata that
  say it is deployed are in three places; clients work at the same time, share
  names, queues and build files, and die in between. Correct: metadata mean a
  runtime, `clean` is complete, operations end, and what was left half done can
  be cleaned and deployed again.
* **Multiprocessing.** Every primitive is several Redis commands. Correct:
  mutual exclusion, no lost notification, a barrier that opens once for all.
* **Partitioner.** Rounded sizes, inclusive ranges and a byte too many on either
  side. Correct: every byte is read once, and reducers get whole objects.

`PROJECT.json` lists the hazards with their lines; those without a property say
why.

## 2. Modules

    ActivationPool  <--implements--  FaaSInvoker  <-- MCFaaSInvoker
    ServerlessRuntime  <-- MCServerlessRuntime
    FaaSInvoker, ServerlessRuntime  <-- Serverless_proofs
    CallFuture         <-- CallFuture_proofs, MCCallFuture
    LocalhostHandler   <-- LocalhostHandler_proofs, MCLocalhostHandler
    StandaloneJobs     <-- MCStandaloneJobs
    WorkerVM           <-- MCWorkerVM
    StandaloneJobs, WorkerVM  <-- Standalone_proofs
    SharedSync         <-- SharedSync_proofs, MCSharedSync
    VMBackend          <-- VMBackend_proofs, MCVMBackend
    StorageBackends    <-- JobData  <-- JobData_proofs, MCJobData
    Partitioner        <-- Partitioner_proofs, MCPartitioner

### FaaSInvoker (`invokers.py`, token part of `monitor.py`)

The client thread has a program counter: `BeginJob`, `CollectToken`,
`InvokeDirect`, `QueueRest` and `Register` are `_invoke_job` and `run_job` cut
where another thread may act; `Stop`, `Drain`, `EndDrain`, then `PutDollar` and
`PutNone` once per thread, and `Remove` are `stop` and what `wait` does after
it. An invoker thread goes round
`LoopTest`, `TakeToken`, `TakePending`, `Submit` or `GiveUp`. A call of
`_invoke_task` in a thread pool is a count per chunk, first in `pool`, then
accepted (`Accept`) or refused (`Refuse`, `Requeue`, `ReturnToken`: the two
`put`s after a refusal are two steps), or the backend's `invoke` raises
(`InvokeRaises`): the pool keeps the exception, nobody reads it, and the chunk is
counted in `lost`; only a synchronous client meets it and stops
(`DirectRaised`). `GenerateToken` is one token of
`_generate_tokens`. Calls are grouped into chunks as `iterchunks` does, and
only the chunk's length is kept of its calls. Every token is alike: the code
compares `'$'` with nothing and never looks at what it takes.

### ActivationPool

The abstract specification: chunks are activated at most once, at most `Limit`
run at a time. `FaaSInvoker` implements it with `started` the chunks ever
accepted, `active` those that run, and `Limit` equal to
`max_workers + ASYNC_INVOKERS`. `max_workers` alone would not do: each invoker
thread begins with a token for which there is no free worker.

### CallFuture (`monitor.py`, `future.py`, `wait.py`, `worker/`)

For each call: the worker's progress and its three storage objects, the
future's `_state` and `_call_status`, where the user's thread is in `result`,
and what it was told (a history). The monitor thread is one program counter
through `_poll_and_process_job_status`, with `todo` the futures left in its
current loop; the query threads of `_tag_future_as_ready` run inside it
(`QueryStatus`, `SetReady`). `CheckTimeout` finds a call that takes too long and
`SetTimedOut` makes up its status. A test of a field and the assignment that follows
are separate steps wherever another thread can come between. `Direct` tells
whether the user calls `result` on any future, or only through `wait`.
Statuses are reduced to what the code tells apart: an init event, a result
inside the status, a result in an object of its own, none, an exception, the
timeout the monitor makes up. `WaitFails` and `SetUnknown` are the exception
handler of `FunctionExecutor.wait`.

### LocalhostHandler (`localhost/v2/localhost.py`, `utils.CountDownLatch`)

The client's `invoke` (`Invoke`, `RunJob`, `StartManager`, `StartConsumers`,
`FinishInvoke`) and `clear` (`Clear` to `UnlockAll`), the consumer threads
(`Get`, `Popen`, `Register`, `Reap`, `Unlock`), the task's process (`Write`,
`Exit`) and the job manager (`ListJobs` to `ResetManager`). `KillFails` is the
`KeyError` of a process removed while `stop` goes over the dictionary: `wait`
catches it and clears again. `RunJob` makes the latch of a job and puts all its
tasks in one step: this thread alone puts into the queue, the consumers take
from its head, and a `clear` is made by the same thread, so nobody can tell.

### StorageBackends and JobData (`storage/`, `scripts/cleaner.py`, `executors.py`)

`StorageBackends` is data: for each method of each of the thirteen backends,
what requests it consists of and what becomes of one that fails, as a record of
traits (`Storage[backend][method]`). `JobData` gives the traits their meaning:
an operation of an actor (`op[a]`) goes through its requests one step at a time
(`Send`, `Fetch`, `ListPages`, `DeleteBatch`, ..., and for localhost the file
and directory calls, for Redis the pipelines), and `Ends` hands the answer to
the actor, whose next operation begins in the same step. The actors are the
client (`_create_job`, then `wait`'s output and `clean`), the worker of the
job's one call (`run_task`), the monitor (`_poll_and_process_job_status`), the
cleaner (PID file, look for files, load them, `clean_bucket` until the list is
empty, remove the file, poll again) and the user, who calls `Storage` directly.
Objects are "none", "empty" or "data": the worker's init event has no bytes
(`Value`), which Infinispan by REST answers like a missing key (`Blank`), in
`get`, `head` and the sizes of `list_objects`. Keys are paths, listed in the
order of `KeyOrder`. The monitor gets the statuses it has listed, or, when few
futures are left, asks for all of them. An exception of `wait` cleans every job
of the executor that is not yet cleaned (`ForceClean`); a request notes which of
its jobs are quiet, that is, have no worker at work any more. An operation carries the set of keys it works on, what a list has got
(`got`) and passed (`passed`), and, for the property alone, what it has missed so
far although it was there all the time (`missing`). `extras` bounds failing
requests, kills of the cleaner and the user's calls together.

### StandaloneJobs (`standalone/master.py`, `worker.py`, `standalone.py`)

The Redis lists and hashes of the master, a step per command. `Invoke` is the
client's `invoke`, `SubmitJob`, `PushCall` and what follows are `handle_job`,
`WorkerStarts` or `WorkerSetupFails` is what becomes of a set-up (`WorkerVM` has
its steps), and the consumers (`TakeTask` to `SetDone`) are a worker VM's
`run_worker` and `redis_queue_consumer`, `Clear` and the `Cancel...` steps are
the client's `clear` and the `cancel_job_process` thread that empties a queue
into a list and refills it, `StopTurn` a worker's `/stop`, `VMDeleted` a worker
VM that the client deletes and `KeeperStops` one that stops itself. In `consume`
mode the master is the only worker, and the thread of each job may install it
again under its running service (`SetupReads` to `SetupFails`, from
`setup_worker_consume`). A service that goes takes the calls in its hands with it
(`ServiceGone`). `TaskRaises` is the exception handler of the consumer, which
drops the call it has, or one that ran without counting it. A process that
crashes is, for `communicate` and the count, one that has run. The history
`cut` has the jobs that lost a call in one of these ways.

### WorkerVM (`standalone/master.py`, `worker.py`, `keeper.py`)

One worker VM: the set-up thread (`setup_worker_create_reuse` with its two retry
loops, each of which puts another VM behind the worker's name), the service
(`run_worker`), the `BudgetKeeper` with its table of jobs, and time in ticks.
The keeper's round is cut wherever `add_job` may come in between: `KeeperTurn`
reads the clock and makes the iterator, `KeeperScan` marks a job, `KeeperLen`
asks for the length after the loop, `KeeperAll` looks at one job,
`KeeperSoft` and `KeeperHard` decide, the one with the clock read again, the
other with the time read at the top, and a table that grew under one of the two
iterators kills the thread (`KeeperDies`). It then stops the VM through a
callback that writes the status first. `known` is a history: the jobs that were
in the table when the clock was read.

### SharedSync (`multiprocessing/synchronize.py`, `queues.py`)

A Lock and a Condition as Redis lists, a step per command, and on top of it an
Event, a JoinableQueue or a Barrier. `wait` enqueues its handle, releases,
blocks on a list of its own and acquires again; `notify_all` reads and deletes
the list of handles in two commands.

### Partitioner (`job/partitioner.py`, `utils.py`, `worker/jobrunner.py`)

An object is a size and the offsets of its newlines; a url's server may not tell
the size, which is then taken to be one byte (`NoSize`), or the request may raise
in its thread, which nobody notices (`SplitRaises`). `Start`, `AddPartition`,
`Extend` and `AppendCount` are the split of one object, a step per write of the
lists the threads share, and `ByteRange` the range of a partition; `Read` is
what `WrappedStreamingBodyPartition` makes of one with its extra byte, its
search for the first newline and its threshold. `AddReducer` is one round of
the loop of `create_reduce_job` over `parts_per_object`, a slice of the list of
partitions for each reducer. Threads of the pools for files and urls end in any
order.

### VMBackend (`standalone/backends/`)

Per backend, the steps of `init()` in their order (`InitStep`), the flags it
sets, the rollback that reads the flags, the cache file it writes (`Dump`), a
session that makes and deletes VMs (`Session`), the steps of an image's build
(`BuildVM` to `BuildEnd`), and the steps of `clean(all=True)`, which a build in
a new network repeats until it says it is done (`CleanAgain`). A resource is its
kind, the number of the `init()` that made it (0 for the network the user gives by
its ids, `NamedNo` for one that only has the configured name) and the network it
is in. On AWS and IBM the named VPC may be found and used instead of a new one
(`ByName`, and on AWS its gateway, `Attached`); it is then recorded like a new
one. Every call may fail, also after being carried out,
and the client may die between two calls.

### ServerlessRuntime (`serverless/`, `scripts/cli.py`, `storage.py`)

What a backend does is a table: a sequence of steps, one per call that reads or
changes the cloud or the files of a build, cut into parts by the functions of
the source (`K8sBuild`, `AwsBatchCleanRest`, ...). `Build`, `Deploy`, `Delete`,
`Clean` and `Invoke` collect the tables of the fourteen backends, and
`SelectRuntime` and `Cli...` what the invoker and the command line put around
them: lists, metadata in the object store, on disk and in memory. `Call`,
`Look`, `Try` and the actions for tokens, metadata and lists interpret a step;
`FaultyCall` fails it, `Die` ends the process. On k8s and code_engine the
metadata are written by a job of the cluster, which completes with or without a
client that waits (`RunEnds`); `clean` of k8s takes those that have completed. A step in a `try` names its
`finally` clause. Clients work in one directory, so their builds share files.

## 3. What TLC checks

| run | instance | shows |
|---|---|---|
| `invoker_stops` | 2 jobs (2 full chunks, 1 short), 1 worker, 2 threads per start, 1 stop, 1 refusal, 1 `invoke` that raises, 1 killed activation | types; a chunk is in one place only (`OnePlace`); none is activated twice |
| `invoker_live` | 2 jobs with full and short chunks, 1 worker, 2 threads, 1 refusal, 1 `invoke` that raises, 1 killed activation, no stop | slots are accounted for, `ActivationPool` is implemented, every call is activated while a slot is left |
| `future_wait` | 2 jobs of a call each, `wait` failing at most once | one outcome per future; a read outcome is not undone; every call that ended is reported |
| `future_direct` | 1 call, user asks at any time, one failed `wait` | `result` only tells what the worker stored |
| `localhost_clear` | jobs of 2 and 1 tasks, 2 consumers, 2 `clear` | latches match tasks, no orphan process, `clear` returns, the manager ends |
| `standalone_jobs` | a job of 2 calls and another client's of 1, 2 workers, all three modes, 1 cancel, 1 mishap outside create mode (a set-up that fails, a VM that stops, a task that raises) | a task is in one place; done means every call ran; done stays; outside create mode, every job ends that has a worker and lost no call |
| `worker_vm` | 2 tasks, 2 retries, soft limit 1 tick, hard limit 2, create and reuse | the service runs on a validated VM only; no task there when the clock was read is cut short; a VM is turned off in the end |
| `shared_sync` | 3 processes, 2 calls each, on an event, a queue or a barrier | mutual exclusion, truthful `join`, barriers that hold and open, no lost wake-up |
| `partitions` | all small objects, newlines, chunk sizes and numbers, urls of unknown size, threshold 1 | each byte is read once, or none of an object of unknown size; reducers get the partitions of one object |
| `vm_backend` | 4 backends, network new, given, or found by name, 3 `init` for a session or an image, 2 failing calls, 1 death | a rollback deletes its own only, and only `clean` a VPC found by name; `clean` is complete; repeated, it ends |
| `runtimes` | 14 backends, 2 clients, 3 operations, 1 failing call or death, then a user who cleans and deploys | metadata mean a deployed runtime with its image; `clean` is complete; operations end; a runtime can be restored |
| `job_data` | 13 backends, three of them alike; one job after an earlier one or alone; 1 failing request, kill or user's call (2 on oracle_oss, none on redis); pages of 3 keys, 2 retries | answers were true; lists give every object; what is cleaned is gone; a status is seen; loaded requests are served |

**Bounds, and why they are enough.** `MaxStops`, `MaxQuota`, `MaxCrashes`,
`MaxErrors`, `MaxMishaps`, `MaxFails`, `MaxClears`, `MaxFaults` and `extras` bound only how often the
environment interferes; one stop already leaves threads of an earlier start
beside those of the next, one refusal sends a chunk through both queues again,
two `clear`s are what leaves unread `None`s behind, one failing call at every
point is each way to leave an operation half done, and the second one of
`vm_backend` fails the rollback or the `clean` after it. In create mode
`standalone_jobs` has no mishap: there the `clear` it has takes VMs away as it is. Two jobs are the least
for a job to be invoked, listed or queued while another is in use; one worker
with two threads makes tokens scarce: of its three slots, the short chunk, the
call that raises and the killed one take every one. Two futures fill and empty every loop of
the monitor, and `MinSlack = 0` (10 in the code) makes both branches of
`_tag_future_as_ready` reachable with them. Two consumers let one be joined
while the other waits for its process. Three `init`s are a failed one, one that
takes its cache file, and one after that. In `runtimes` the first operation runs
alone, so that there is something to disturb, and the other two interleave from
any state it leaves; memory sizes do not interact beyond the names they share,
so one size and the command "for all" are kept. Pages of three keys cut the five
keys of a job and those of the earlier job in two. Three processes with two
calls are the least for a barrier to be used again while one drains and another
waits. `Threshold = 1` lets a row end beyond, at and before the threshold.
Deadlock is not checked where users, clients or workers may rest for good, and
each configuration says so.

**Fairness.** `WF` for each thread by itself: started methods go on, the
scheduler runs threads, the monitor polls while it should, the backend answers,
a function returns or is killed at its limit (localhost, invoker, standalone).
In `StandaloneJobs`, where every thread comes to an end or to rest, the weaker
`WF` of all threads together is enough; a set-up ends, well or not, and `JobsEnd`
is asked only while a worker is up. Nothing makes a user submit, stop or clear, no fault, timeout or death must
happen. In `CallFuture` workers have none: a worker that takes no further step
is one the backend killed, which is what timeouts are for. In `WorkerVM` the
call that stops the VM has `SF`, since it may fail and is made again each time
round the loop, and tasks have none: they may hang. In `SharedSync` a process
that has begun a call goes on; only the parties of a barrier must come. In
`VMBackend` and `ServerlessRuntime` the last user repeats `clean`: that is the
property's premise, not the code's promise. In `JobData` the monitor and the
cleaner run; the client, the worker and the user may stop at any point.

**What the models show the code to do.** These are left as they are, because the
properties are stated around them; each was met as a counterexample.

* Invoker: a short last chunk never gives its slot back (`monitor.py:422`), nor
  does a killed worker, nor a call whose `invoke` raises, which is not invoked
  again either (`invokers.py:378`, for instance `aws_lambda.py:641`): the
  executor does not notice. After `max_workers + ASYNC_INVOKERS` of these, calls
  wait for ever (`Starved`).
* Futures: a call listed before its future is registered never times out; a
  direct `result` can tell a value and later a timeout, and the monitor can set
  a finished future back to ready; asked twice, it gives `None` for a call that
  raised.
* Localhost v2: a job invoked while the last manager ends, or after a `clear`
  that left `None`s, has no consumers and never runs (`localhost.py:116`).
* Job data: redis puts and deletes in two commands, and a concurrent pair leaves
  an object no list shows (`redis.py:66`, `191`); aliyun_oss, oracle_oss and
  swift read one page of a list, so statuses beyond it are never seen; swift
  takes any failing get or head for a missing key, and oracle_oss any failing
  head (`oracle_oss.py:200`, met by the proof: the run then had too few failures
  to show a user's head on it); Infinispan by REST answers an init event, which
  has no bytes, as a missing key (`infinispan.py:120`), and lists that look for
  its size raise (`infinispan.py:240`); localhost's `put` fails when a
  `delete` removes the directory it has just made. A request file read before it
  is written kills the cleaner (`executors.py:585`, `cleaner.py:130`); a killed
  cleaner leaves its PID file, and no other works (`cleaner.py:165`); a request
  left when the cleaner has looked for the last time is not served
  (`executors.py:627`); an empty list of functions raises on redis and
  aliyun_oss for ever (`cleaner.py:105`). One call per job is modelled: with
  several, `executors.py:612` cleans a job when any of them is done.
* Partitioner: the last chunk of an object that does not end with a newline
  loses its last byte (`utils.py:702`, a `-1` of `find` used as a position); a url
  whose server gives no content-length is read by nobody (`partitioner.py:125`),
  and one whose request raises is left out in silence (`173`); a
  last chunk of one byte is lost; `readline` counts too few bytes
  (`utils.py:708`); the threads for files and urls mix the reducers' groups
  (`partitioner.py:172`); an empty object divides by zero (`345`).
* Standalone: a table that grows while the keeper reads it kills the keeper
  (`keeper.py:86`); a task that comes between the loop and the test makes it stop
  with the time it read before (`91`, `104`), and one that comes after the test
  goes with the VM (`107`); a set-up that fails is only logged (`master.py:404`),
  one of consume mode restarts a service at work (`master.py:372`), and a task
  that raises in the consumer is neither run nor counted (`worker.py:203`), so
  that jobs stay submitted or running; `INSTALLING` overwrites `ACTIVE` (`master.py:330`); a cancel that
  finds a list empty dies, and its calls with it (`master.py:447`); a consumer
  that finds its queue empty ends (`worker.py:156`); `clear` stops every job of
  the handler (`standalone.py:363`); a VM whose set-up failed in reuse mode is
  never dismantled.
* Multiprocessing: a lock believes to be owned after a failed non-blocking
  acquire (`synchronize.py:136`); a `wait` that timed out leaves its handle, to
  which a later `notify` is lost (`197`); a full queue drops what is put
  (`queues.py:73`).
* VM backends: a VPC of the user's that has the configured `vpc_name` is recorded
  like a new one and deleted by `clean` (`ibm_vpc.py:244`, `aws_ec2.py:255`), and
  what else is in it makes that `clean` fail; any failed `init` removes the cache file although the network
  came from it (`aws_ec2.py:228` and the others); on GCP and AWS what was made
  just before the failure is not flagged and stays; on AWS with the user's
  network `clean` never finishes, and `image build` repeats it for ever
  (`aws_ec2.py:816`); a build that fails leaves its VM, which on IBM and, once
  stopped, on GCP makes the next build of that image fail; `--overwrite` deletes
  the old image first, and a failure leaves none; on IBM an error 400 is passed over and
  `clean` may wait for ever.
* Serverless: `runtime update` stores metadata without a timeout, and the next
  map raises (`cli.py:606`, `job.py:201`); two deployments at a time take each
  other's answer or job on azure_functions, k8s and code_engine and wait for
  ever; gcp_cloudrun and ibm_cf leave a mutex locked; azure_functions publishes
  an app without code when another build has removed the directory
  (`azure_functions.py:243`); aws_lambda leaves its layer builder when another
  deployment removes the zip first (`aws_lambda.py:237`); an interrupted
  `clean` leaves aws_batch disabled until it is repeated; a `runtime delete`
  that dies halfway leaves metadata of nothing (`cli.py:666`); topics, queues,
  applications and secrets stay (`MayStay`), and on k8s a metadata job that runs
  or has failed (`k8s.py:314`).

## 4. What is proved

Ten modules have their theorems in eight proof modules. Each proves type
correctness and the safety properties of its runs for all values of the
constants, from the assumptions the module states about them (that sets of
calls, jobs or processes are finite where the code holds them in memory, that
sizes and bounds are numbers, that there is a client and a size of runtime) and
nothing else. The pattern is the same everywhere: an inductive invariant, a
conjunction of named parts that TLC has checked on the instance of the run (but
for those of `Partitioner` that speak of all numbers); one lemma per action, or
per action and part where an action disturbs several; the theorem from the two
with temporal reasoning. What follows says why each invariant is what it is.

**`Serverless_proofs`** of `FaaSInvoker`: `TypeCorrect`, `PlacesExclusive` (`OnePlace`),
`ActivatedOnce` (`NoDoubleActivation`), `SlotsKept` (`SlotsConserved`),
`PoolImplemented` (`PoolSpec`).
`NoDoubleActivation` is far from inductive: `acts[c] = 0` with the chunk twice
in the queue satisfies it. `OnePlace` says where a chunk can be (the pending
queue at one position, one thread's hands, one `_invoke_task` or activation),
that these exclude each other, and that a chunk neither submitted nor queued
yet (`Issued`) is nowhere. Every action moves one chunk from one place to one
other, or drops it; `InvokeDirect` and `QueueRest` take new chunks at `next`,
which none of the places holds. `SlotsConserved` counts on each side: free
tokens, threads that have claimed one, chunks on their way or running that the
monitor will give back, and chunks that have forfeited theirs (raised, killed or
short), against `running_workers` and the tokens the
threads were started with. It needs `OnePlace`, for a chunk in two places would
be counted once, and `Undisturbed`, what is true of an invoker nobody stops: no
`None` in the queue, no thread of another start. The property is stated until the first `stop`, the
refinement for an executor that is not stopped at all (`MaxStops = 0`): after a
`stop` the next job counts `running_workers` from 0 while activations of the last
one run (`invokers.py:430`), so neither holds then. The refinement
then is arithmetic: a chunk about to be accepted holds a slot, so fewer than
`max_workers + ASYNC_INVOKERS` others run.

**`Serverless_proofs`** of `ServerlessRuntime`: `RuntimeTypeCorrect`, `Reliance`
(`MetadataMeansDeployed`). Metadata are written last, by a client that has made
the function a few calls ago, and others may have deleted or replaced it in
between. So the property is not inductive: `FunctionRelied` says of a client
past the making of its function (`Made`) what the property says of one who knows
metadata, and names the exception exactly, a client between the deletion of a
function and the making of the new one (`Gap`); `ImageRelied` says the same of
the image, which nothing takes away. That the invariant holds does not depend on
the backend but on a few facts about its tables. They are shown row by row
(`BuildIs`, `DeployIs`, `InvokeIs`, `DeleteIs`, `CleanIs`): which step makes the
function and which the image, that no jump leads past either without the
resource being there, that a function is deleted only by deletions, or to be
made again by the next step but one, that a `finally` clause only tidies up.
`StepsFine` and `DeployingFine` carry them over to the operations of the
handler, and what follows speaks of any table they are true of. An action is
then one lemma: it keeps what metadata rely on (`Kept`) and teaches a client no
more than it has made itself (`Learnt`), and these two imply the invariant. A
redeployment that dies or fails in the gap notes the function as removed, as
the property allows; a call carried out whose answer is lost has done all its
work, so both outcomes of each call are cases of each lemma.

**`CallFuture_proofs`**: `TypeCorrect`, `OnlyTruthTold` (`Truthful`),
`WaitersToldOnce` (`OneOutcome`), `DoneIsFinal` (`DoneStaysDone`).
`Truthful` speaks of what was told only; what makes it hold is that every belief
on the way has evidence. `TruthInv` adds: a worker begins when its job is
invoked and writes output, then status (`WrittenInOrder`); the monitor takes for
running, and lets time out, only calls with an init key (`OnlyStarted`); a
future's `_call_status` is an init event, a made-up timeout of an expired call,
or the very status in the storage, and a future looks for an output or has one
only when that status says so (`OnlyBacked`). Each step of the monitor and of the
user passes evidence on, whichever of them writes the field last: the lock that
is missing cannot make `result` lie, and this holds for both values of `Direct`.
It can make it raise a `KeyError` over an init event (`crash` in the model), or
tell two outcomes, when a user does not wait first; so `OneOutcome` and
`DoneStaysDone` are proved for `~Direct`, as the run checks them. There the order
of monitor and user replaces the lock, and `WaitInv` says how: what the monitor
holds on to between a look and a write is a future of which nothing is known yet
(`MonitorHolds`), a user reads only a future whose status is whole
(`ReadyIsKnown`), so the status under which something was told never changes
(`ToldByStatus`).

**`LocalhostHandler_proofs`**: `TypeCorrect`, `LatchesTruthful`
(`LatchCoversTasks`), `NoProcessLeft` (`NoOrphans`). The latch of a job goes down
when a consumer is through with a task, and when `clear` drains a task from the
queue or unlocks what is left. That the last of these happens only when no task
is left takes that a task is once in the queue or in one consumer's hands
(`Placed`), that after its last drain `clear` finds `None`s only, and that
joined consumers hold nothing (`Threads`). `NoOrphans` follows from those and
from `Processes`: every running process has a consumer that waits for it.

**`Standalone_proofs`** of `StandaloneJobs`: `TypeCorrect`, `OnePlaceEach` (`TaskInOnePlace`),
`DoneIsComplete` (`DoneMeansAllRan`), `DoneIsStable` (`DoneNeverReverts`).
`AllPlaced` is `TaskInOnePlace` without counting: a task in a queue, a cancel's
list or a consumer's hands is nowhere else and its fate is open, and a pushed
task whose fate is open is in one of them. A service that goes, or an exception
of a consumer, decides the fate of what it holds in the same step. The cancel thread moves tasks with
several commands, in which one is in its list and not in the queue, and that is
why the list is a place. `DoneInv` makes a length mean something:
`rpush` to the list of done tasks counts tasks that ran, each once (`Returned`,
`Counts`), which a kill would spoil unless the killed task's worker knew that its
job was stopped (`Killed`). `DoneNeverReverts` follows although status and list
are tested and set in two commands: a list as long as the job stays so.

**`Standalone_proofs`** of `WorkerVM`: `VMTypeCorrect` (with at most `Retries * Retries` VMs made),
`OnlyValidated` (`StartedIsValidated`), `TasksGetTheirTime` (`NoJobCutShort`), for
any two timeouts, since nothing in the code orders them. `SetUp` ties the set-up's place to how far
the VM now behind the name was checked, since a new one may have been put there.
`KeeperInv` is the argument for the keeper's loop, which looks at one job at a
time while time passes and tasks come and end: a task is at least as old as the
last use of the VM (`Older`), a known one at least as old as the time that was
read (`Timed`), `all` has passed only tasks that are done (`Passed`), and what is
marked done has its file (`Marked`). So the hard branch waits for the known
tasks with the time it has read, and the soft one finds none of them running.
The theorem says nothing of a task that was added after the clock was read, and
cannot: the code stops the VM under it.

**`SharedSync_proofs`**: `TypeCorrect`, `MutualExclusion` (`LockExclusive`),
`JoinsTruthful` (`JoinTruthful`), `BarriersTogether` (`BarrierTogether`), for any
number of processes and calls. The lock's list and the holders are counted
together. For `join`, a handle is in the list of waiters, with a notifier or a
token, and a notifier exists only once all is done (`QueueWaits`). The theorem
has the hypothesis `puts <= SemMax`: the counter of unfinished tasks is a
semaphore that stops counting at `SEM_VALUE_MAX`, after which `join` does return
early. For the barrier, `Together` relates how many rounds each party is through
to whether it is inside, while the barrier fills and while it drains.

**`VMBackend_proofs`**: `TypeCorrect`, `RollbackTakesOwn` (`OnlyOwnDeleted`),
`CleanTakesAll` (`CleanIsComplete`), for all four clouds, with or without a given
network or one of the configured name, any number of `init`s, failing calls and
deaths of the client. `OnlyOwnDeleted` has three parts, and the third is the
weaker promise for a VPC that is only named: a `clean` deletes it, but only one
whose file records it.
`VMInv` says what `init` has gathered step by step, from the file, the cloud or
by creating it (`Gathered`), that what it has flagged and named it has created
(`Created`), a VPC found by its name not among it, and that the file holds a whole
network, all given by the user or nothing of that (`Recorded`); the rollback deletes by flag and name. `CleanInv` says what each
step of `clean` has emptied so far (`Emptied`), which on AWS depends on a count of
the deletions that went well, and that no two resources there have the same kind
and number (`Numbered`).

**`Partitioner_proofs`**: `TypeCorrect`, `BytesReadOnce` (`EveryByteOnce`),
`ReducersGetObjects` (`GroupsMatch`), for any objects, places of newlines, sizes,
numbers of chunks and threshold. `EveryByteOnce` is stated per byte, so that no
fold or filter of a sequence stands in the way. Its invariant has two parts and
no reading in it: `ShapeInv`, that an object is unsplit, whole, or cut every `c`
bytes, the `k`th part beginning at `(k - 1) * c` (`CutPart`), and `PlaceInv`, that
the parts of an object are together and once in the list whatever the threads
did. The rest is about one state. `RowEnd(i, x)` is where the first row that
reaches byte `x` ends, and `ReadsRows` shows that the part from `a` to `a + c` reads
from `RowEnd(i, a)` to `RowEnd(i, a + c)`: both neighbours find the same row end,
one from the byte before its chunk, the other within the threshold behind it.
These ends only grow, and that they leave no gap needs the least part that goes
beyond a byte; induction over data is replaced by the well-ordering of the
naturals (`LeastElement`). What `EveryByteOnce` presupposes is what the code
needs: rows within the threshold (`RowsFit`), a newline at the end, and chunks of
two bytes or more, for a part that begins at byte 1 has its extra byte at 0 and
takes itself for the first (`FetchedRows`). An object of which the client did not
get the size (`Unread`) is the other case of the theorem: its loop makes no part,
so not one byte of it is read. `GroupInv` gives every object the
place where its parts begin (`Offsets`), and shows that `prev_total` is that of
the next reducer; it needs the objects to be split in their order (`Sequential`).

**`JobData_proofs`**: `TypeCorrect`, `Truthfulness` (`AnswersTruthful`),
`ListedObjects` (`ObjectsListed`), `CleanedAway` (`CleanedIsGone`), for each of the thirteen backends, any earlier
jobs, page size, numbers of retries, failures and calls of the user. What the
proof needs of the table of traits is said once (`Fits`) and shown of every row
(`TraitsFit`); after that a backend is only what `Fits` says. `DataInv` is the
invariant of the first two: an operation on its way is at a step that its backend
has (`Stages`), and a list has missed no key that it will not still come to
(`ListOK`): by pages, nothing before its cursor; on a walk, only what is below a
directory that is still to be read, for which localhost must have the directories
of its objects and redis those of its entries (`StoreOK`). Nobody but the actor
changes its operation, save that keys which have gone are no longer missing
(`Watch`), so the proof goes step by step through the operations (`GoesWell`,
`EndsWell`) and then, as for a call and its return, through what the actors make
of the answers (`Turn`). An object of no bytes that is answered as missing is excused where the answer is
made (`Blank`), and nowhere else. `CleanInv` is the invariant of the other two. A job is
`Quiet` when its worker has ended, or is not the running one; its directory then
only loses keys (`Calm`), since who puts where is fixed (`Roles`). A request
keeps the set of those of its jobs that were quiet when it was written, and a job
is asked for once only (`RequestsOK`), so a quiet job stays so. The cleaner leaves a job when a list of
its directory is empty: the list had to have every key that was present since its
beginning, by `AnswersTruthful`; on redis it has the entries of the directory, and
there the index must hold every object of the job, which is true only if no
deletion came between the two commands of a put (`EntriesOK`). What the cleaner
has been through stays empty until the request is removed (`CleaningOK`).

**Model-checked only.** Every liveness property: tlapm has no rule for `WF` and
`SF` over `ENABLED` here. `CleanIsComplete` of `ServerlessRuntime`: it needs to
know, for each backend, every kind of resource that any of its tables can leave
behind and which row of `clean` takes it, which TLC goes through. Every
invariant of the runs is proved, and type correctness of all ten modules, also
where no run spends an invariant on it.

## 5. What is not modelled

* *RabbitMQ monitor* (`monitor.py:265`): planned. *Retrying executor*: a loop
  over `wait`, planned. *Localhost v1*: no longer the default, a simpler manager.
* Invoker: the remote invoker and the limit of the thread pools (more tasks may
  run at once than in the code). Futures: futures that functions return,
  `return_when` other than all, `check_only`, `throw_except=False`.
* Worker: the reduce wait, the system monitor, the process pool in a worker; the
  workers of k8s (`entry_point.py`) and singularity, which share calls out among
  themselves.
* Storage: streamed gets, cloud objects, `head_bucket`, `cloud_proxy.py`.
* Standalone: how the master VM is found and set up over SSH, listing and
  pinging, installation scripts, the metadata calls, a Redis that fails or is
  gone; of the VM backends,
  `consume` mode, the lists of images, and the `vm` backend, which makes nothing.
* Serverless: the deletion of completed jobs by the cluster at the end of their
  time to live, `clean --all`, https triggers, custom images as runtimes of
  aws_lambda and aliyun_fc, roles and networks the user provides.
* Multiprocessing: semaphores above one, RLock, plain Queue and Pipe, Pool,
  Process, managers.
* Configuration, plots, logs, lists and statistics: input and output only.

## 6. Plan

1. `RabbitMonitor`: messages, the end of the consumer, jobs registered
   meanwhile; `RetryingExecutor` over an abstract `wait`.
2. Batch workers of k8s and singularity: the shares of a job handed out over
   HTTP or a queue, with a master that restarts.
3. Proofs: an abstract specification of a job for `StandaloneJobs` and of a lock
   for `SharedSync`, with the step-by-step refinement.

## 7. Running

    tlc -config MCInvokerStops.cfg MCFaaSInvoker     # and the other pairs of PROJECT.json
    tlapm Serverless_proofs.tla                      # and the other *_proofs modules

The runs take from a second to about two minutes (`future_wait`, `job_data`,
`standalone_jobs`, `runtimes`, on two cores), the proofs from fifteen seconds to
five minutes each (`Serverless_proofs`, `Standalone_proofs`, `JobData_proofs`,
`VMBackend_proofs`).
