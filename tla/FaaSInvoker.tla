---------------------------- MODULE FaaSInvoker ----------------------------
(***************************************************************************)
(* The serverless invoker of Lithops (lithops/invokers.py, class           *)
(* FaaSInvoker) with the part of the storage monitor that feeds its token  *)
(* bucket (lithops/monitor.py, StorageMonitor._generate_tokens).           *)
(*                                                                         *)
(* Three kinds of threads share two queues:                                *)
(*   - the client thread runs _invoke_job and stop;                        *)
(*   - ASYNC_INVOKERS threads per start loop over token_bucket_q and       *)
(*     pending_calls_q;                                                    *)
(*   - the monitor thread puts one token per worker seen to be finished.   *)
(* A worker is one backend activation; it runs one chunk of the calls of a *)
(* job.  Chunks are numbered in the order iterchunks yields them.          *)
(***************************************************************************)
EXTENDS Naturals, Sequences, FiniteSets

CONSTANTS
    NumJobs,        \* jobs the client submits, one after the other
    TotalCalls,     \* [Job -> Nat \ {0}]  job.total_calls
    ChunkSize,      \* [Job -> Nat \ {0}]  job.chunksize
    MaxWorkers,     \* max_workers of the executor
    ASYNC_INVOKERS, \* invoker threads per start (2 in the code)
    Sync,           \* TRUE when the client is itself a Lithops worker
    MaxStops,       \* bound: how often the client stops the invoker
    MaxQuota,       \* bound: how often the backend refuses for lack of quota
    MaxErrors,      \* bound: how often the call to the backend raises
    MaxCrashes,     \* bound: activations that die without finishing
    NoCall          \* the pair (None, None) that stop() queues

Job == 1 .. NumJobs

ASSUME InvokerAssumption ==
    /\ NumJobs \in Nat
    /\ TotalCalls \in [Job -> Nat \ {0}]
    /\ ChunkSize \in [Job -> Nat \ {0}]
    /\ MaxWorkers \in Nat \ {0}
    /\ ASYNC_INVOKERS \in Nat \ {0}
    /\ Sync \in BOOLEAN
    /\ MaxStops \in Nat /\ MaxQuota \in Nat
    /\ MaxErrors \in Nat /\ MaxCrashes \in Nat

\* iterchunks: how many chunks a job has, the last of which may be short.
NumChunks(j) ==
    TotalCalls[j] \div ChunkSize[j]
      + (IF TotalCalls[j] % ChunkSize[j] > 0 THEN 1 ELSE 0)

ChunksOf(j) == {<<j, k>> : k \in 1 .. NumChunks(j)}
Chunk == UNION {ChunksOf(j) : j \in Job}

ChunkCalls(c) ==
    IF c[2] * ChunkSize[c[1]] <= TotalCalls[c[1]]
    THEN ChunkSize[c[1]]
    ELSE TotalCalls[c[1]] % ChunkSize[c[1]]

ASSUME ChunkAssumption == NoCall \notin Chunk

\* A thread is named by the start that created it and its number in it.
Thread == (1 .. MaxStops + 1) \X (1 .. ASYNC_INVOKERS)

VARIABLES
    pc,       \* where the client thread is
    job,      \* the last job the client began to submit
    next,     \* its first chunk that is neither submitted nor queued
    running,  \* self.running_workers
    should_run, \* self.should_run; self.invokers is empty exactly when FALSE
    starts,   \* how often _start_async_invokers ran
    sentinels, \* for how many threads stop has still to put a sentinel
    invoke_futures, \* the direct chunks whose task has not returned, or has raised
    dropped,  \* the jobs whose futures stop's caller removes from the monitor
    tokens,   \* length of token_bucket_q: its items are never looked at
    pending,  \* pending_calls_q
    tpc,      \* where each invoker thread is
    item,     \* the pair an invoker thread has taken from pending_calls_q
    pool,     \* _invoke_task calls waiting for the backend's answer, per chunk
    sleeping, \* _invoke_task calls that were refused and sleep before retrying
    owed,     \* _invoke_task calls between their put of the chunk and of '#'
    lost,     \* _invoke_task calls that have raised, per chunk
    acts,     \* activations the backend accepted so far, per chunk
    live,     \* activations still executing, per chunk
    ended,    \* chunks whose calls all have their status in the storage
    present,  \* StorageMonitor.present_jobs
    workers_done, \* StorageMonitor.workers_done
    stops, quota, errors, crashes

clientVars == <<pc, job, next, running, should_run, starts, sentinels, dropped>>
queueVars == <<tokens, pending>>
threadVars == <<tpc, item>>
taskVars == <<pool, sleeping, owed, lost, invoke_futures>>
cloudVars == <<acts, live, ended>>
monitorVars == <<present, workers_done>>
bounds == <<stops, quota, errors, crashes>>
vars == <<clientVars, queueVars, threadVars, taskVars, cloudVars, monitorVars, bounds>>

Init ==
    /\ pc = "idle" /\ job = 0 /\ next = 1
    /\ running = 0 /\ should_run = FALSE /\ starts = 0
    /\ sentinels = 0 /\ dropped = {}
    /\ tokens = 0 /\ pending = <<>>
    /\ tpc = [t \in Thread |-> "off"]
    /\ item = [t \in Thread |-> NoCall]
    /\ pool = [c \in Chunk |-> 0]
    /\ sleeping = [c \in Chunk |-> 0]
    /\ owed = 0 /\ lost = [c \in Chunk |-> 0] /\ invoke_futures = {}
    /\ acts = [c \in Chunk |-> 0]
    /\ live = [c \in Chunk |-> 0]
    /\ ended = {}
    /\ present = {} /\ workers_done = {}
    /\ stops = 0 /\ quota = 0 /\ errors = 0 /\ crashes = 0

-----------------------------------------------------------------------------
(* The client thread: run_job, _invoke_job. *)

\* _invoke_job starts the invoker threads, with a token each, when none run.
BeginJob ==
    /\ pc = "idle" /\ job < NumJobs
    /\ job' = job + 1
    /\ next' = 1
    /\ pc' = "collect"
    /\ \/ /\ should_run
          /\ UNCHANGED <<running, should_run, starts, tokens, tpc>>
       \/ /\ ~should_run
          /\ running' = 0
          /\ should_run' = TRUE
          /\ starts' = starts + 1
          /\ tokens' = tokens + ASYNC_INVOKERS
          /\ tpc' = [t \in Thread |-> IF t[1] = starts + 1 THEN "head" ELSE tpc[t]]
    /\ UNCHANGED <<sentinels, dropped, pending, item, taskVars, cloudVars, monitorVars, bounds>>

\* Each token found in the bucket stands for a worker that has finished.
CollectToken ==
    /\ pc = "collect" /\ running > 0 /\ tokens > 0
    /\ tokens' = tokens - 1
    /\ running' = running - 1
    /\ UNCHANGED <<pc, job, next, should_run, starts, sentinels, dropped, pending,
                   threadVars, taskVars, cloudVars, monitorVars, bounds>>

\* Mutant of FreeWorkers: running_workers is forgotten.
FreeWorkersAll == MaxWorkers

\* The workers the client may still start.
FreeWorkers == IF running < MaxWorkers THEN MaxWorkers - running ELSE 0

\* How many chunks of the job get one of them.
DirectChunks ==
    IF FreeWorkers < NumChunks(job) THEN FreeWorkers ELSE NumChunks(job)

\* Mutants of FirstQueued: the slices overlap, by one chunk or altogether.
FirstQueuedTwice == DirectChunks
FirstQueuedFromStart == 1

\* The first chunk that is left for the queue.
FirstQueued == DirectChunks + 1

\* The chunks for which there is a free worker are submitted right away.
InvokeDirect ==
    /\ pc = "collect" /\ (running = 0 \/ tokens = 0)
    /\ LET direct == {<<job, k>> : k \in 1 .. DirectChunks}
       IN /\ pool' = [c \in Chunk |-> IF c \in direct THEN pool[c] + 1 ELSE pool[c]]
          /\ invoke_futures' = direct
    /\ running' = running + DirectChunks
    /\ next' = FirstQueued
    /\ pc' = "rest"
    /\ UNCHANGED <<job, should_run, starts, sentinels, dropped, queueVars, threadVars,
                   sleeping, owed, lost, cloudVars, monitorVars, bounds>>

\* The other chunks are queued in order; a client that is itself a worker
\* first waits for the direct submissions to return, which one that has raised
\* does not.
QueueRest ==
    /\ pc = "rest" /\ (Sync => invoke_futures = {})
    /\ next <= NumChunks(job)
    /\ pending' = Append(pending, <<job, next>>)
    /\ next' = next + 1
    /\ UNCHANGED <<pc, job, running, should_run, starts, sentinels, dropped, tokens,
                   threadVars, taskVars, cloudVars, monitorVars, bounds>>

\* Mutant of Tracked: a new job replaces the earlier ones in the monitor.
TrackedLast == {job}

\* Monitor.add_futures
Tracked == present \cup {job}

\* run_job hands the futures to the job monitor.
Register ==
    /\ pc = "rest" /\ (Sync => invoke_futures = {})
    /\ next > NumChunks(job)
    /\ present' = Tracked
    /\ pc' = "idle"
    /\ UNCHANGED <<job, next, running, should_run, starts, sentinels, dropped, queueVars,
                   threadVars, taskVars, cloudVars, workers_done, bounds>>

\* To a client that waits for it, a submission that raises is an exception.
DirectRaised == Sync /\ pc = "rest" /\ \E c \in invoke_futures : lost[c] > 0

\* stop() runs when wait() fails on the futures of some jobs, and when an
\* exception (DirectRaised is one) or Ctrl-C ends _invoke_job; only wait() then
\* tells the monitor.
Stop ==
    /\ pc \in {"idle", "collect", "rest"} /\ stops < MaxStops
    /\ stops' = stops + 1
    /\ dropped' \in IF pc = "idle" THEN SUBSET (1 .. job) \ {{}} ELSE {{}}
    /\ pc' = IF should_run THEN "drain" ELSE "remove"
    /\ should_run' = FALSE
    /\ UNCHANGED <<job, next, running, starts, sentinels, queueVars, threadVars, taskVars,
                   cloudVars, monitorVars, quota, errors, crashes>>

\* stop() empties the queue, whoever's calls are in it.
Drain ==
    /\ pc = "drain" /\ pending # <<>>
    /\ pending' = Tail(pending)
    /\ UNCHANGED <<clientVars, tokens, threadVars, taskVars, cloudVars,
                   monitorVars, bounds>>

\* It has seen the queue empty: every thread it started is due a sentinel ...
EndDrain ==
    /\ pc = "drain" /\ pending = <<>>
    /\ sentinels' = ASYNC_INVOKERS
    /\ pc' = "dollar"
    /\ UNCHANGED <<job, next, running, should_run, starts, dropped, queueVars,
                   threadVars, taskVars, cloudVars, monitorVars, bounds>>

\* ... a '$' among the tokens ...
PutDollar ==
    /\ pc = "dollar"
    /\ tokens' = tokens + 1
    /\ pc' = "none"
    /\ UNCHANGED <<job, next, running, should_run, starts, sentinels, dropped, pending,
                   threadVars, taskVars, cloudVars, monitorVars, bounds>>

\* ... and a (None, None) among the pending calls.
PutNone ==
    /\ pc = "none"
    /\ pending' = Append(pending, NoCall)
    /\ sentinels' = sentinels - 1
    /\ pc' = IF sentinels > 1 THEN "dollar" ELSE "remove"
    /\ UNCHANGED <<job, next, running, should_run, starts, dropped, tokens, threadVars,
                   taskVars, cloudVars, monitorVars, bounds>>

\* job_monitor.remove(futures)
Remove ==
    /\ pc = "remove"
    /\ present' = present \ dropped
    /\ dropped' = {}
    /\ pc' = "idle"
    /\ UNCHANGED <<job, next, running, should_run, starts, sentinels, queueVars, threadVars,
                   taskVars, cloudVars, workers_done, bounds>>

-----------------------------------------------------------------------------
(* invoker_process, one per thread. *)

\* while self.should_run
LoopTest(t) ==
    /\ tpc[t] = "head"
    /\ tpc' = [tpc EXCEPT ![t] = IF should_run THEN "token" ELSE "off"]
    /\ UNCHANGED <<clientVars, queueVars, item, taskVars, cloudVars, monitorVars, bounds>>

TakeToken(t) ==
    /\ tpc[t] = "token" /\ tokens > 0
    /\ tokens' = tokens - 1
    /\ tpc' = [tpc EXCEPT ![t] = "pending"]
    /\ UNCHANGED <<clientVars, pending, item, taskVars, cloudVars, monitorVars, bounds>>

TakePending(t) ==
    /\ tpc[t] = "pending" /\ pending # <<>>
    /\ item' = [item EXCEPT ![t] = Head(pending)]
    /\ pending' = Tail(pending)
    /\ tpc' = [tpc EXCEPT ![t] = "submit"]
    /\ UNCHANGED <<clientVars, tokens, taskVars, cloudVars, monitorVars, bounds>>

\* A thread that still should run submits what it took; (None, None) makes
\* _invoke_task raise in the pool, where nobody looks.
Submit(t) ==
    /\ tpc[t] = "submit" /\ should_run
    /\ pool' = [c \in Chunk |-> IF c = item[t] THEN pool[c] + 1 ELSE pool[c]]
    /\ item' = [item EXCEPT ![t] = NoCall]
    /\ tpc' = [tpc EXCEPT ![t] = "head"]
    /\ UNCHANGED <<clientVars, queueVars, sleeping, owed, lost, invoke_futures,
                   cloudVars, monitorVars, bounds>>

\* A thread that was stopped meanwhile drops what it took.
GiveUp(t) ==
    /\ tpc[t] = "submit" /\ ~should_run
    /\ item' = [item EXCEPT ![t] = NoCall]
    /\ tpc' = [tpc EXCEPT ![t] = "off"]
    /\ UNCHANGED <<clientVars, queueVars, taskVars, cloudVars, monitorVars, bounds>>

-----------------------------------------------------------------------------
(* _invoke_task, in the thread pools, and the backend. *)

\* compute_handler.invoke returns an activation id.
Accept(c) ==
    /\ pool[c] > 0
    /\ pool' = [pool EXCEPT ![c] = @ - 1]
    /\ acts' = [acts EXCEPT ![c] = @ + 1]
    /\ live' = [live EXCEPT ![c] = @ + 1]
    /\ invoke_futures' = invoke_futures \ {c}
    /\ UNCHANGED <<clientVars, queueVars, threadVars, sleeping, owed, lost, ended,
                   monitorVars, bounds>>

\* It returns none: the quota is reached and the task sleeps.
Refuse(c) ==
    /\ pool[c] > 0 /\ quota < MaxQuota
    /\ quota' = quota + 1
    /\ pool' = [pool EXCEPT ![c] = @ - 1]
    /\ sleeping' = [sleeping EXCEPT ![c] = @ + 1]
    /\ UNCHANGED <<clientVars, queueVars, threadVars, owed, lost, invoke_futures,
                   cloudVars, monitorVars, stops, errors, crashes>>

\* It raises, as for an unauthorised or missing function or a lost connection:
\* the chunk and its slot are gone, and only a client that waits for this very
\* submission is told.  (Where that client will stop, a stop must be in bounds.)
InvokeRaises(c) ==
    /\ pool[c] > 0 /\ errors < MaxErrors
    /\ Sync /\ pc = "rest" /\ c \in invoke_futures => stops < MaxStops
    /\ errors' = errors + 1
    /\ pool' = [pool EXCEPT ![c] = @ - 1]
    /\ lost' = [lost EXCEPT ![c] = @ + 1]
    /\ UNCHANGED <<clientVars, queueVars, threadVars, sleeping, owed, invoke_futures,
                   cloudVars, monitorVars, stops, quota, crashes>>

\* pending_calls_q.put((job, call_ids_range)), stopped or not ...
Requeue(c) ==
    /\ sleeping[c] > 0
    /\ sleeping' = [sleeping EXCEPT ![c] = @ - 1]
    /\ pending' = Append(pending, c)
    /\ owed' = owed + 1
    /\ invoke_futures' = invoke_futures \ {c}
    /\ UNCHANGED <<clientVars, tokens, threadVars, pool, lost, cloudVars, monitorVars, bounds>>

\* ... and then token_bucket_q.put('#').
ReturnToken ==
    /\ owed > 0
    /\ owed' = owed - 1
    /\ tokens' = tokens + 1
    /\ UNCHANGED <<clientVars, pending, threadVars, pool, sleeping, lost, invoke_futures,
                   cloudVars, monitorVars, bounds>>

\* The worker has run every call of its chunk and stored their status.
EndActivation(c) ==
    /\ live[c] > 0
    /\ live' = [live EXCEPT ![c] = @ - 1]
    /\ ended' = ended \cup {c}
    /\ UNCHANGED <<clientVars, queueVars, threadVars, taskVars, acts, monitorVars, bounds>>

\* The worker is killed: some call of its chunk never gets a status.
Crash(c) ==
    /\ live[c] > 0 /\ crashes < MaxCrashes
    /\ crashes' = crashes + 1
    /\ live' = [live EXCEPT ![c] = @ - 1]
    /\ UNCHANGED <<clientVars, queueVars, threadVars, taskVars, acts, ended,
                   monitorVars, stops, quota, errors>>

-----------------------------------------------------------------------------
(* StorageMonitor._generate_tokens, one token at a time *)

\* Mutant of FinishedWorkers: a worker is not remembered as done.
FinishedWorkersAgain ==
    {c \in ended : c[1] \in present /\ ChunkCalls(c) = ChunkSize[c[1]]}

\* The workers that give a token: all calls of a full chunk are done.
FinishedWorkers ==
    {c \in ended \ workers_done : c[1] \in present /\ ChunkCalls(c) = ChunkSize[c[1]]}

GenerateToken(c) ==
    /\ c \in FinishedWorkers
    /\ tokens' = tokens + 1
    /\ workers_done' = workers_done \cup {c}
    /\ UNCHANGED <<clientVars, pending, threadVars, taskVars, cloudVars, present, bounds>>

-----------------------------------------------------------------------------

ClientStep ==
    \/ BeginJob \/ CollectToken \/ InvokeDirect \/ QueueRest \/ Register
    \/ Stop \/ Drain \/ EndDrain \/ PutDollar \/ PutNone \/ Remove

ThreadStep(t) ==
    LoopTest(t) \/ TakeToken(t) \/ TakePending(t) \/ Submit(t) \/ GiveUp(t)

TaskStep(c) == Accept(c) \/ Refuse(c) \/ InvokeRaises(c) \/ Requeue(c)

Next ==
    \/ ClientStep
    \/ \E t \in Thread : ThreadStep(t)
    \/ \E c \in Chunk : TaskStep(c) \/ EndActivation(c) \/ Crash(c) \/ GenerateToken(c)
    \/ ReturnToken

Spec == Init /\ [][Next]_vars

\* Started methods return, threads are scheduled, the backend answers and the
\* monitor polls.  Nothing makes the user submit a job or stop.
Fairness ==
    /\ WF_vars(CollectToken \/ InvokeDirect \/ QueueRest \/ Register)
    /\ WF_vars(DirectRaised /\ Stop)
    /\ WF_vars(Drain \/ EndDrain \/ PutDollar \/ PutNone \/ Remove)
    /\ \A t \in Thread : WF_vars(ThreadStep(t))
    /\ \A c \in Chunk :
         WF_vars(Accept(c)) /\ WF_vars(Requeue(c)) /\ WF_vars(EndActivation(c))
    /\ WF_vars(ReturnToken)
    /\ WF_vars(\E c \in Chunk : GenerateToken(c))

FairSpec == Spec /\ Fairness

-----------------------------------------------------------------------------
(* Properties. *)

\* The values of every variable; the queue of pending calls holds chunks and
\* the pairs (None, None) of stop().
TypeOK ==
    /\ pc \in {"idle", "collect", "rest", "drain", "dollar", "none", "remove"}
    /\ job \in 0 .. NumJobs
    /\ next \in Nat \ {0}
    /\ running \in 0 .. MaxWorkers
    /\ should_run \in BOOLEAN
    /\ starts \in 0 .. (MaxStops + 1)
    /\ sentinels \in 0 .. ASYNC_INVOKERS
    /\ invoke_futures \subseteq Chunk
    /\ dropped \subseteq Job
    /\ tokens \in Nat
    /\ pending \in Seq(Chunk \cup {NoCall})
    /\ tpc \in [Thread -> {"off", "head", "token", "pending", "submit"}]
    /\ item \in [Thread -> Chunk \cup {NoCall}]
    /\ pool \in [Chunk -> Nat]
    /\ sleeping \in [Chunk -> Nat]
    /\ owed \in Nat
    /\ lost \in [Chunk -> Nat]
    /\ acts \in [Chunk -> Nat]
    /\ live \in [Chunk -> Nat]
    /\ ended \subseteq Chunk
    /\ present \subseteq Job
    /\ workers_done \subseteq Chunk
    /\ stops \in 0 .. MaxStops
    /\ quota \in 0 .. MaxQuota
    /\ errors \in 0 .. MaxErrors
    /\ crashes \in 0 .. MaxCrashes

\* No call is ever activated twice: through direct submission, the pending
\* queue, quota retries, stop() and restarts, a chunk of calls reaches the
\* backend at most once (the user's function has side effects).
NoDoubleActivation == \A c \in Chunk : acts[c] <= 1

\* Where a chunk can be on its way to the backend.
Issued(c) == c[1] < job \/ (c[1] = job /\ c[2] < next)
Tasks(c) == pool[c] + sleeping[c] + acts[c] + lost[c]
Queued(c) == \E k \in DOMAIN pending : pending[k] = c
Held(c) == \E t \in Thread : item[t] = c

\* The invariant behind NoDoubleActivation: a chunk that was handed out is in
\* at most one place, the pending queue, one thread's hands or one
\* _invoke_task; an activation accepted for it is its last place, and so is an
\* _invoke_task that has raised.
OnePlace ==
    /\ \A c \in Chunk :
         /\ Tasks(c) <= 1
         /\ Tasks(c) > 0 => Issued(c) /\ ~Queued(c) /\ ~Held(c)
         /\ Queued(c) => Issued(c) /\ ~Held(c)
         /\ Held(c) => Issued(c)
    /\ \A k, l \in DOMAIN pending : pending[k] = pending[l] /\ pending[k] # NoCall => k = l
    /\ \A s, t \in Thread : item[s] = item[t] /\ item[s] # NoCall => s = t

\* The threads that have taken a token and not yet submitted for it.
Claims == {t \in Thread : tpc[t] \in {"pending", "submit"}}

\* The chunks whose slot never comes back: the call to the backend raised, the
\* worker was killed, or the chunk is short of chunksize calls, of which the
\* monitor waits for chunksize.
Forfeited ==
    {c \in Chunk : \/ lost[c] > 0
                   \/ /\ acts[c] > 0 /\ live[c] = 0
                      /\ c \in ended => ChunkCalls(c) # ChunkSize[c[1]]}

\* The chunks that an _invoke_task works on, and those whose activation runs or
\* has ended and will be given back by the monitor.
InUse == {c \in Chunk : Tasks(c) > 0 /\ c \notin workers_done} \ Forfeited

\* Until the executor is first stopped, every worker slot is accounted for: it is
\* a token, is claimed by a thread, belongs to a task or an activation, or is
\* forfeited.  Refusals and the collection of tokens by the next job neither
\* create nor lose one, and nothing else than Forfeited names loses one.
SlotsConserved ==
    stops = 0 =>
      tokens + owed + Cardinality(Claims) + Cardinality(InUse) + Cardinality(Forfeited)
      = running + starts * ASYNC_INVOKERS

\* Hence the invoker implements an activation pool with room for max_workers
\* activations and for one more per token the invoker threads start with.
Pool == INSTANCE ActivationPool WITH
    Work <- Chunk, Limit <- MaxWorkers + ASYNC_INVOKERS,
    started <- {c \in Chunk : acts[c] > 0},
    active <- {c \in Chunk : live[c] > 0}
PoolSpec == Pool!Spec

\* Every slot the executor has is forfeited, and its queue is not served again.
Starved == Cardinality(Forfeited) >= running + starts * ASYNC_INVOKERS

\* Every call the client has issued is activated in the end, however many jobs
\* share the workers and however often the backend refuses, unless the call to
\* the backend raised for it, or raised calls, killed workers and short chunks
\* have used up every slot: a single one that is left serves the whole queue.
EveryCallInvoked ==
    \A c \in Chunk : Issued(c) ~> (acts[c] > 0 \/ lost[c] > 0 \/ Starved)

=============================================================================
