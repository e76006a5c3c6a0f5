-------------------------- MODULE CallFuture_proofs --------------------------
(***************************************************************************)
(* Proofs about CallFuture, for any calls and jobs and however many        *)
(* wait()s fail: type correctness; that what result() tells the user is    *)
(* what the worker stored, whether the user waits or asks directly; and    *)
(* that users who wait are told one outcome of a call, which stays as it   *)
(* was read.                                                               *)
(***************************************************************************)
EXTENDS CallFuture, FiniteSetTheorems, TLAPS

USE FutureAssumption

-----------------------------------------------------------------------------
(* Type correctness. *)

LEMMA TypeInit == Init => TypeOK
BY DEF Init, TypeOK, Status, Seen, Finished

\* The steps of the client thread and of a failed wait().
LEMMA ClientTypes ==
    ASSUME TypeOK, InvokeJob \/ RegisterJob \/ WaitFails \/ FailStep
    PROVE  TypeOK'
<1> USE DEF TypeOK, Status, Seen, Finished, clientVars, workerVars, futureVars,
            monitorVars, userVars
<1>1. CASE InvokeJob
  BY <1>1 DEF InvokeJob
<1>2. CASE RegisterJob
  BY <1>2 DEF RegisterJob
<1>3. CASE WaitFails
  BY <1>3 DEF WaitFails
<1>4. CASE FailStep
  BY <1>4 DEF FailStep, SetUnknown
<1> QED BY <1>1, <1>2, <1>3, <1>4

LEMMA WorkerTypes ==
    ASSUME TypeOK, NEW c \in Call, WorkerStep(c) \/ Expire(c)
    PROVE  TypeOK'
<1> USE DEF TypeOK, Status, Seen, Finished, clientVars, workerVars, futureVars,
            monitorVars, userVars
<1>1. CASE StartCall(c)
  BY <1>1 DEF StartCall
<1>2. CASE StoreOutput(c)
  BY <1>2 DEF StoreOutput
<1>3. CASE EndCall(c)
  BY <1>3 DEF EndCall, FinalStatus
<1>4. CASE Expire(c)
  BY <1>4 DEF Expire
<1> QED BY <1>1, <1>2, <1>3, <1>4 DEF WorkerStep

LEMMA MonitorTypes ==
    ASSUME TypeOK, MonitorStep \/ IterationError
    PROVE  TypeOK'
<1> USE DEF TypeOK, Status, Seen, Finished, clientVars, workerVars, futureVars,
            monitorVars, userVars
<1>1. CASE ListStatus
  BY <1>1 DEF ListStatus
<1>2. CASE SelectInvoked
  BY <1>2 DEF SelectInvoked
<1>3. CASE SelectRunning
  BY <1>3 DEF SelectRunning
<1>4. CASE SelectQueries
  <2>1. NotReady \subseteq Call
    BY DEF NotReady
  <2>2. todo' \subseteq NotReady
    BY <1>4 DEF SelectQueries
  <2> QED BY <1>4, <2>1, <2>2 DEF SelectQueries
<1>5. CASE IterationError
  BY <1>5 DEF IterationError
<1>6. ASSUME NEW c \in Call, TestInvoked(c)
      PROVE  TypeOK'
  BY <1>6 DEF TestInvoked
<1>7. ASSUME NEW c \in Call, SetRunning(c)
      PROVE  TypeOK'
  BY <1>7 DEF SetRunning
<1>8. ASSUME NEW c \in Call, CheckTimeout(c) \/ SetTimedOut(c)
      PROVE  TypeOK'
  BY <1>8 DEF CheckTimeout, SetTimedOut
<1>9. ASSUME NEW c \in Call, QueryStatus(c)
      PROVE  TypeOK'
  BY <1>9 DEF QueryStatus
<1>10. ASSUME NEW c \in Call, SetReady(c)
       PROVE  TypeOK'
  BY <1>10 DEF SetReady
<1> QED BY <1>1, <1>2, <1>3, <1>4, <1>5, <1>6, <1>7, <1>8, <1>9, <1>10 DEF MonitorStep

LEMMA UserTypes ==
    ASSUME TypeOK, NEW c \in Call, UserStep(c) \/ Again(c)
    PROVE  TypeOK'
<1> USE DEF TypeOK, Status, Seen, Finished, clientVars, workerVars, futureVars,
            monitorVars, userVars, Tell
<1>1. CASE AskResult(c)
  BY <1>1 DEF AskResult
<1>2. CASE ReadStatus(c)
  BY <1>2 DEF ReadStatus
<1>3. CASE TestStatus(c)
  BY <1>3 DEF TestStatus
<1>4. CASE UseInit(c)
  BY <1>4 DEF UseInit
<1>5. CASE UseError(c)
  BY <1>5 DEF UseError
<1>6. CASE UseResult(c)
  BY <1>6 DEF UseResult
<1>7. CASE UseStored(c)
  BY <1>7 DEF UseStored
<1>8. CASE ReadOutput(c)
  BY <1>8 DEF ReadOutput
<1>9. CASE Again(c)
  BY <1>9 DEF Again
<1> QED BY <1>1, <1>2, <1>3, <1>4, <1>5, <1>6, <1>7, <1>8, <1>9 DEF UserStep

LEMMA TypeStep == TypeOK /\ [Next]_vars => TypeOK'
<1>1. ASSUME TypeOK, UNCHANGED vars
      PROVE  TypeOK'
  BY <1>1 DEF TypeOK, vars, clientVars, workerVars, futureVars, monitorVars, userVars
<1> QED BY <1>1, ClientTypes, WorkerTypes, MonitorTypes, UserTypes DEF Next

\* Every variable of the monitor, the futures, the workers and the users keeps
\* its type; in particular the storage never holds a half-made final status.
THEOREM TypeCorrect == Spec => []TypeOK
BY TypeInit, TypeStep, PTL DEF Spec

-----------------------------------------------------------------------------
(* What the client believes has evidence in the storage. *)

\* What a status the client holds entitles it to: a final one is the one in the
\* storage, a made-up timeout is of a call that ran too long.
Backed(c, s) ==
    /\ s \in {"inline", "empty", "stored", "error"} => stat[c] = s
    /\ s = "timeout" => c \in inits /\ c \in expired

\* A worker begins when its job is invoked; it writes its status last, and its
\* output before.
WrittenInOrder ==
    \A c \in Call :
        /\ worker[c] # "off" => JobOf[c] <= issued
        /\ stat[c] # "none" => worker[c] = "ended"
        /\ worker[c] = "stored" \/ stat[c] = "stored" => c \in outputs

\* The monitor takes for running, and lets time out, only what has started.
OnlyStarted ==
    /\ expired \subseteq inits
    /\ \A c \in Call : state[c] = "Running" => c \in inits
    /\ mpc = "tag" => todo \subseteq inits
    /\ tagging # None => tagging \in inits
    /\ tagging # None /\ mpc = "expire" => tagging \in expired

\* A future believes what its status says, and looks for an output, or has
\* one, only when the status says that there is one.
OnlyBacked ==
    \A c \in Call :
        /\ Backed(c, cs[c])
        /\ state[c] = "Success" \/ upc[c] = "output" => stat[c] = "stored"
        /\ c \in read => stat[c] \in {"inline", "stored"}

TruthInv == WrittenInOrder /\ OnlyStarted /\ OnlyBacked /\ Truthful

LEMMA TruthInit == Init => TruthInv
BY DEF Init, TruthInv, WrittenInOrder, OnlyStarted, OnlyBacked, Backed, Truthful

LEMMA ClientTruth ==
    ASSUME TypeOK, TruthInv, InvokeJob \/ RegisterJob \/ WaitFails \/ FailStep
    PROVE  TruthInv'
<1> USE DEF TypeOK, Status, Seen, Finished, clientVars, workerVars, futureVars,
            monitorVars, userVars, TruthInv, WrittenInOrder, OnlyStarted, OnlyBacked,
            Backed, Truthful
<1>1. CASE InvokeJob
  BY <1>1 DEF InvokeJob
<1>2. CASE RegisterJob
  BY <1>2 DEF RegisterJob
<1>3. CASE WaitFails
  BY <1>3 DEF WaitFails
<1>4. CASE FailStep
  BY <1>4 DEF FailStep, SetUnknown
<1> QED BY <1>1, <1>2, <1>3, <1>4

LEMMA WorkerTruth ==
    ASSUME TypeOK, TruthInv, NEW c \in Call, WorkerStep(c) \/ Expire(c)
    PROVE  TruthInv'
<1> USE DEF TypeOK, Status, Seen, Finished, clientVars, workerVars, futureVars,
            monitorVars, userVars, TruthInv, WrittenInOrder, OnlyStarted, OnlyBacked,
            Backed, Truthful
<1>1. CASE StartCall(c)
  BY <1>1 DEF StartCall
<1>2. CASE StoreOutput(c)
  BY <1>2 DEF StoreOutput
<1>3. CASE EndCall(c)
  BY <1>3 DEF EndCall, FinalStatus
<1>4. CASE Expire(c)
  BY <1>4 DEF Expire
<1> QED BY <1>1, <1>2, <1>3, <1>4 DEF WorkerStep

LEMMA MonitorTruth ==
    ASSUME TypeOK, TruthInv, MonitorStep \/ IterationError
    PROVE  TruthInv'
<1> USE DEF TypeOK, Status, Seen, Finished, clientVars, workerVars, futureVars,
            monitorVars, userVars, TruthInv, WrittenInOrder, OnlyStarted, OnlyBacked,
            Backed, Truthful
<1>1. CASE ListStatus
  BY <1>1 DEF ListStatus
<1>2. CASE SelectInvoked
  BY <1>2 DEF SelectInvoked
<1>3. CASE SelectRunning
  BY <1>3 DEF SelectRunning
<1>4. CASE SelectQueries
  BY <1>4 DEF SelectQueries
<1>5. CASE IterationError
  BY <1>5 DEF IterationError
<1>6. ASSUME NEW c \in Call, TestInvoked(c)
      PROVE  TruthInv'
  BY <1>6 DEF TestInvoked
<1>7. ASSUME NEW c \in Call, SetRunning(c)
      PROVE  TruthInv'
  BY <1>7 DEF SetRunning
<1>8. ASSUME NEW c \in Call, CheckTimeout(c) \/ SetTimedOut(c)
      PROVE  TruthInv'
  BY <1>8 DEF CheckTimeout, SetTimedOut
<1>9. ASSUME NEW c \in Call, QueryStatus(c)
      PROVE  TruthInv'
  BY <1>9 DEF QueryStatus
<1>10. ASSUME NEW c \in Call, SetReady(c)
       PROVE  TruthInv'
  BY <1>10 DEF SetReady
<1> QED BY <1>1, <1>2, <1>3, <1>4, <1>5, <1>6, <1>7, <1>8, <1>9, <1>10 DEF MonitorStep

LEMMA UserTruth ==
    ASSUME TypeOK, TruthInv, NEW c \in Call, UserStep(c) \/ Again(c)
    PROVE  TruthInv'
<1> USE DEF TypeOK, Status, Seen, Finished, clientVars, workerVars, futureVars,
            monitorVars, userVars, TruthInv, WrittenInOrder, OnlyStarted, OnlyBacked,
            Backed, Truthful, Tell
<1>1. CASE AskResult(c)
  BY <1>1 DEF AskResult
<1>2. CASE ReadStatus(c)
  BY <1>2 DEF ReadStatus
<1>3. CASE TestStatus(c)
  BY <1>3 DEF TestStatus
<1>4. CASE UseInit(c)
  BY <1>4 DEF UseInit
<1>5. CASE UseError(c)
  BY <1>5 DEF UseError
<1>6. CASE UseResult(c)
  BY <1>6 DEF UseResult
<1>7. CASE UseStored(c)
  BY <1>7 DEF UseStored
<1>8. CASE ReadOutput(c)
  BY <1>8 DEF ReadOutput
<1>9. CASE Again(c)
  BY <1>9 DEF Again
<1> QED BY <1>1, <1>2, <1>3, <1>4, <1>5, <1>6, <1>7, <1>8, <1>9 DEF UserStep

LEMMA TruthStep == TypeOK /\ TruthInv /\ [Next]_vars => TruthInv'
<1>1. ASSUME TruthInv, UNCHANGED vars
      PROVE  TruthInv'
  BY <1>1 DEF TruthInv, WrittenInOrder, OnlyStarted, OnlyBacked, Backed, Truthful,
              vars, clientVars, workerVars, futureVars, monitorVars, userVars
<1> QED BY <1>1, ClientTruth, WorkerTruth, MonitorTruth, UserTruth DEF Next

LEMMA TruthAlways == Spec => []TruthInv
BY TypeCorrect, TruthInit, TruthStep, PTL DEF Spec

\* Whoever asks, when, and how often, is told a value, an exception or a timeout
\* only of a call that gave one, and never that an output is missing: the worker
\* stores the output before the status, and the client never believes more than
\* what the storage or its own clock shows.
THEOREM OnlyTruthTold == Spec => []Truthful
<1>1. TruthInv => Truthful
  BY DEF TruthInv
<1> QED BY <1>1, TruthAlways, PTL

-----------------------------------------------------------------------------
(* A user who waits: with Direct = FALSE a thread asks for a result only when *)
(* wait() has seen the future ready.                                          *)

\* Nothing is known of the outcome of a call, and nobody asks for it.
Fresh(c) ==
    /\ state[c] \in {"Invoked", "Running", "Unknown"}
    /\ cs[c] \in {"none", "init"}
    /\ upc[c] = "out"

\* The one outcome that a status can make of a call.
Outcome(s) ==
    CASE s \in {"inline", "empty", "stored"} -> {"value"}
      [] s = "error" -> {"error"}
      [] s = "timeout" -> {"timeout"}
      [] OTHER -> {}

\* The monitor holds on to futures, from a look to the step that acts on it, only
\* while nothing is known of them; the statuses it has in hand and those it has
\* yet to ask for are of different calls.
MonitorHolds ==
    /\ \A c \in todo \cup got : Fresh(c)
    /\ tagging # None => Fresh(tagging)
    /\ tagging # None => mpc \in {"tag", "expire"} /\ tagging \notin todo
    /\ got # {} => mpc = "query"
    /\ todo \cap got = {}
    /\ \A c \in got : stat[c] # "none"

\* A future on the way to its end is fresh until it is ready; whoever reads one
\* has a whole status, and reads it before it is done.
ReadyIsKnown ==
    \A c \in Call :
        /\ state[c] \in {"Invoked", "Running"} => Fresh(c)
        /\ state[c] = "Ready" => cs[c] \notin {"none", "init"}
        /\ state[c] = "Success" \/ upc[c] = "output" => cs[c] = "stored"
        /\ c \in read => cs[c] \in {"inline", "stored"}
        /\ upc[c] \in {"out", "use", "output"}
        /\ upc[c] # "out" => cs[c] \notin {"none", "init"}
        /\ upc[c] # "out" => state[c] \notin {"Done", "Error"}

\* All that was told is what the present status says.
ToldByStatus ==
    \A c \in Call :
        /\ told[c] \cap {"value", "error", "timeout"} \subseteq Outcome(cs[c])
        /\ "crash" \notin told[c]

WaitInv == MonitorHolds /\ ReadyIsKnown /\ ToldByStatus

LEMMA WaitInit == Init => WaitInv
BY DEF Init, WaitInv, MonitorHolds, ReadyIsKnown, ToldByStatus, Fresh, Outcome

LEMMA ClientWait ==
    ASSUME TypeOK, WaitInv, InvokeJob \/ RegisterJob \/ WaitFails \/ FailStep
    PROVE  WaitInv'
<1> USE DEF TypeOK, Status, Seen, Finished, clientVars, workerVars, futureVars,
            monitorVars, userVars, WaitInv, MonitorHolds, Fresh, ReadyIsKnown,
            ToldByStatus, Outcome
<1>1. CASE InvokeJob
  BY <1>1 DEF InvokeJob
<1>2. CASE RegisterJob
  BY <1>2 DEF RegisterJob
<1>3. CASE WaitFails
  BY <1>3 DEF WaitFails
<1>4. CASE FailStep
  BY <1>4 DEF FailStep, SetUnknown
<1> QED BY <1>1, <1>2, <1>3, <1>4

LEMMA WorkerWait ==
    ASSUME TypeOK, WaitInv, NEW c \in Call, WorkerStep(c) \/ Expire(c)
    PROVE  WaitInv'
<1> USE DEF TypeOK, Status, Seen, Finished, clientVars, workerVars, futureVars,
            monitorVars, userVars, WaitInv, MonitorHolds, Fresh, ReadyIsKnown,
            ToldByStatus, Outcome
<1>1. CASE StartCall(c)
  BY <1>1 DEF StartCall
<1>2. CASE StoreOutput(c)
  BY <1>2 DEF StoreOutput
<1>3. CASE EndCall(c)
  BY <1>3 DEF EndCall, FinalStatus
<1>4. CASE Expire(c)
  BY <1>4 DEF Expire
<1> QED BY <1>1, <1>2, <1>3, <1>4 DEF WorkerStep

LEMMA MonitorWait ==
    ASSUME TypeOK, WaitInv, MonitorStep \/ IterationError
    PROVE  WaitInv'
<1> USE DEF TypeOK, Status, Seen, Finished, clientVars, workerVars, futureVars,
            monitorVars, userVars, WaitInv, MonitorHolds, Fresh, ReadyIsKnown,
            ToldByStatus, Outcome
<1>1. CASE ListStatus
  BY <1>1 DEF ListStatus
<1>2. CASE SelectInvoked
  BY <1>2 DEF SelectInvoked
<1>3. CASE SelectRunning
  BY <1>3 DEF SelectRunning
<1>4. CASE SelectQueries
  <2>1. \A c \in NotReady : c \in Call /\ Fresh(c)
    BY DEF NotReady
  <2>2. todo' \subseteq NotReady
    BY <1>4 DEF SelectQueries
  <2> QED BY <1>4, <2>1, <2>2 DEF SelectQueries
<1>5. CASE IterationError
  BY <1>5 DEF IterationError
<1>6. ASSUME NEW c \in Call, TestInvoked(c)
      PROVE  WaitInv'
  BY <1>6 DEF TestInvoked
<1>7. ASSUME NEW c \in Call, SetRunning(c)
      PROVE  WaitInv'
  BY <1>7 DEF SetRunning
<1>8. ASSUME NEW c \in Call, CheckTimeout(c) \/ SetTimedOut(c)
      PROVE  WaitInv'
  BY <1>8 DEF CheckTimeout, SetTimedOut
<1>9. ASSUME NEW c \in Call, QueryStatus(c)
      PROVE  WaitInv'
  BY <1>9 DEF QueryStatus
<1>10. ASSUME NEW c \in Call, SetReady(c)
       PROVE  WaitInv'
  BY <1>10 DEF SetReady
<1> QED BY <1>1, <1>2, <1>3, <1>4, <1>5, <1>6, <1>7, <1>8, <1>9, <1>10 DEF MonitorStep

LEMMA UserWait ==
    ASSUME TypeOK, WaitInv, ~Direct, NEW c \in Call, UserStep(c) \/ Again(c)
    PROVE  WaitInv'
<1> USE DEF TypeOK, Status, Seen, Finished, clientVars, workerVars, futureVars,
            monitorVars, userVars, WaitInv, MonitorHolds, Fresh, ReadyIsKnown,
            ToldByStatus, Outcome, Tell
<1>1. CASE AskResult(c)
  BY <1>1 DEF AskResult
<1>2. CASE ReadStatus(c)
  BY <1>2 DEF ReadStatus
<1>3. CASE TestStatus(c)
  BY <1>3 DEF TestStatus
<1>4. CASE UseInit(c)
  BY <1>4 DEF UseInit
<1>5. CASE UseError(c)
  BY <1>5 DEF UseError
<1>6. CASE UseResult(c)
  BY <1>6 DEF UseResult
<1>7. CASE UseStored(c)
  BY <1>7 DEF UseStored
<1>8. CASE ReadOutput(c)
  BY <1>8 DEF ReadOutput
<1>9. CASE Again(c)
  BY <1>9 DEF Again
<1> QED BY <1>1, <1>2, <1>3, <1>4, <1>5, <1>6, <1>7, <1>8, <1>9 DEF UserStep

LEMMA WaitStep == TypeOK /\ WaitInv /\ ~Direct /\ [Next]_vars => WaitInv'
<1>1. ASSUME WaitInv, UNCHANGED vars
      PROVE  WaitInv'
  BY <1>1 DEF WaitInv, MonitorHolds, Fresh, ReadyIsKnown, ToldByStatus,
              vars, clientVars, workerVars, futureVars, monitorVars, userVars
<1> QED BY <1>1, ClientWait, WorkerWait, MonitorWait, UserWait DEF Next

LEMMA WaitAlways == ~Direct => (Spec => []WaitInv)
<1> SUFFICES ASSUME ~Direct
             PROVE  Spec => []WaitInv
  OBVIOUS
<1>1. TypeOK /\ WaitInv /\ [Next]_vars => WaitInv'
  BY WaitStep
<1> QED BY <1>1, TypeCorrect, WaitInit, PTL DEF Spec

LEMMA OneOfOutcome ==
    ASSUME TypeOK, WaitInv
    PROVE  OneOutcome
<1> SUFFICES ASSUME NEW c \in Call
             PROVE  /\ Cardinality(told[c] \cap {"value", "error", "timeout"}) <= 1
                    /\ "crash" \notin told[c]
  BY DEF OneOutcome
<1> DEFINE T == told[c] \cap {"value", "error", "timeout"}
<1>1. T \subseteq Outcome(cs[c]) /\ "crash" \notin told[c]
  BY DEF WaitInv, ToldByStatus
<1>2. T = {} \/ T = {"value"} \/ T = {"error"} \/ T = {"timeout"}
  BY <1>1 DEF Outcome
<1>3. Cardinality(T) \in {0, 1}
  <2>1. Cardinality({}) = 0
    BY FS_EmptySet
  <2>2. \A x : Cardinality({x}) = 1
    BY FS_Singleton
  <2>3. \A x : T = {x} => Cardinality(T) = 1
    BY <2>2
  <2>4. T = {} => Cardinality(T) = 0
    BY <2>1
  <2> HIDE DEF T
  <2> QED BY <1>2, <2>3, <2>4
<1> QED BY <1>1, <1>3

\* A user who waits for the futures before asking for their results is told at
\* most one of a value, an exception and a timeout of a call, and never meets a
\* half-made status: when a future is ready its status is final, and no thread
\* that has looked at it before writes it again.
THEOREM WaitersToldOnce == ~Direct => (Spec => []OneOutcome)
<1>1. TypeOK /\ WaitInv => OneOutcome
  BY OneOfOutcome
<1> QED BY <1>1, WaitAlways, TypeCorrect, PTL

LEMMA DoneStep ==
    ASSUME TypeOK, WaitInv, ~Direct, [Next]_vars
    PROVE  \A c \in Call :
              state[c] \in {"Done", "Error"} =>
                 state'[c] \in {state[c], "Unknown"} /\ (c \in read => c \in read')
<1> USE DEF TypeOK, Status, Seen, Finished, clientVars, workerVars, futureVars,
            monitorVars, userVars, WaitInv, MonitorHolds, Fresh, ReadyIsKnown,
            ToldByStatus, Outcome, Tell
<1>1. CASE UNCHANGED vars
  BY <1>1 DEF vars
<1>2. CASE InvokeJob \/ RegisterJob \/ WaitFails
  BY <1>2 DEF InvokeJob, RegisterJob, WaitFails
<1>3. CASE FailStep
  BY <1>3 DEF FailStep, SetUnknown
<1>4. CASE ListStatus \/ SelectInvoked \/ SelectRunning \/ SelectQueries \/ IterationError
  BY <1>4 DEF ListStatus, SelectInvoked, SelectRunning, SelectQueries, IterationError
<1>5. ASSUME NEW c \in Call,
             \/ TestInvoked(c) \/ SetRunning(c) \/ CheckTimeout(c) \/ SetTimedOut(c)
             \/ QueryStatus(c) \/ SetReady(c)
      PROVE  state' = state \/ \E s : Fresh(c) /\ state' = [state EXCEPT ![c] = s]
  BY <1>5 DEF TestInvoked, SetRunning, CheckTimeout, SetTimedOut, QueryStatus, SetReady
<1>6. ASSUME NEW c \in Call,
             \/ TestInvoked(c) \/ SetRunning(c) \/ CheckTimeout(c) \/ SetTimedOut(c)
             \/ QueryStatus(c) \/ SetReady(c)
      PROVE  read' = read
  BY <1>6 DEF TestInvoked, SetRunning, CheckTimeout, SetTimedOut, QueryStatus, SetReady
<1>7. ASSUME NEW c \in Call, WorkerStep(c) \/ Expire(c) \/ Again(c)
      PROVE  state' = state /\ read' = read
  BY <1>7 DEF WorkerStep, StartCall, StoreOutput, EndCall, Expire, Again
<1>8. ASSUME NEW c \in Call, UserStep(c)
      PROVE  /\ \/ state' = state
                \/ \E s : upc[c] # "out" /\ state' = [state EXCEPT ![c] = s]
             /\ read \subseteq read'
  BY <1>8 DEF UserStep, AskResult, ReadStatus, TestStatus, UseInit, UseError, UseResult,
              UseStored, ReadOutput
<1>9. ASSUME NEW c \in Call, NEW s, Fresh(c) \/ upc[c] # "out",
             state' = [state EXCEPT ![c] = s], NEW d \in Call, state[d] \in {"Done", "Error"}
      PROVE  state'[d] = state[d]
  BY <1>9
<1> QED BY <1>1, <1>2, <1>3, <1>4, <1>5, <1>6, <1>7, <1>8, <1>9 DEF Next, MonitorStep

\* For a user who waits, a future whose outcome was read is never made running or
\* ready again by the monitor, which holds on to futures across its loops, and
\* keeps its output.
THEOREM DoneIsFinal == ~Direct => (Spec => DoneStaysDone)
<1> SUFFICES ASSUME ~Direct
             PROVE  Spec => DoneStaysDone
  OBVIOUS
<1>1. TypeOK /\ WaitInv /\ [Next]_vars =>
        [\A c \in Call :
            state[c] \in {"Done", "Error"} =>
               state'[c] \in {state[c], "Unknown"} /\ (c \in read => c \in read')]_vars
  BY DoneStep
<1> QED BY <1>1, WaitAlways, TypeCorrect, PTL DEF Spec, DoneStaysDone

=============================================================================
