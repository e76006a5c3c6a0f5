-------------------------- MODULE Serverless_proofs --------------------------
(***************************************************************************)
(* Proofs about the serverless mode.                                       *)
(*                                                                         *)
(* ServerlessRuntime, for any clients, sizes of runtimes and faults, on    *)
(* each of the backends: type correctness, and that metadata mean a        *)
(* deployed runtime.  What a backend does is a table of steps; the first   *)
(* sections establish, row by row, the few facts about the tables that the *)
(* invariant needs, and the rest is about any table they are true of.      *)
(*                                                                         *)
(* FaaSInvoker, for any number of jobs, calls, workers, invoker threads,   *)
(* refusals, errors and crashes: type correctness; that no chunk of calls  *)
(* is activated twice, whatever is stopped and started again; that it      *)
(* implements ActivationPool if it is never stopped; and that until the    *)
(* first stop every worker slot is accounted for: free, in use, or lost    *)
(* with a call that raised, a worker that was killed or a short chunk.     *)
(***************************************************************************)
EXTENDS FaaSInvoker, ServerlessRuntime, FunctionTheorems, FiniteSetTheorems, TLAPS

USE BoundsAssumption

-----------------------------------------------------------------------------
(* The steps of the operations, and what the proofs use of them. *)

\* What steps do and what to. A drop deletes; the marks say what becomes of an
\* exception.
Drops == {"drop", "drop!", "drop?", "purge"}
Does == Calls \cup {"look", "try", "token", "redeploy", "select", "store", "save",
                    "unsave", "unstore", "list", "next"}
Kinds == {"function", "second", "queue", "reply", "topic", "map", "zip", "bin", "image",
          "repository", "package", "layer", "layer_zip", "builder", "env", "app",
          "namespace", "project", "secret", "run", "ran", "queue_off", "env_off", "meta", "all",
          "some", "full", "short"}

\* What is true of each step by itself.
StepType ==
  {s \in [do : Does, k : Kinds, skip : Int] :
     /\ s.do \in {"look", "try"} => s.skip \in Nat
     /\ s.do \in {"fresh", "off", "clear", "clear?", "sweep?"} => s.k \notin {"function", "image"}
     /\ s.do \in Drops => s.k # "image"
     /\ s.do \in {"store", "save"} => s.k \in {"full", "short"}}

\* The step of a try statement with a finally clause, the steps of the clause, and
\* those between the deletion of a function and the making of the new one.
Guarded(s) == s.skip > 0 /\ s.do \notin {"look", "try"}
InClause(Q, i) ==
  i \in 1 .. Len(Q) /\ \/ Q[i].skip = -1
                       \/ Q[i].skip = 0 /\ i + 1 <= Len(Q) /\ Q[i + 1].skip = -1
InGap(Q, i) ==
  i \in 1 .. Len(Q) /\ \/ Q[i] = S("new", "function")
                       \/ Q[i] = S("need", "zip") /\ i + 1 <= Len(Q) /\ Q[i + 1] = S("new", "function")
DropsFunction(s) == s.do \in Drops /\ s.k = "function"

\* What is true of the steps of a part of an operation.
PartFine(Q) ==
  /\ Q \in Seq(StepType)
  /\ \A i \in 1 .. Len(Q) :
       /\ Guarded(Q[i]) => InClause(Q, i + Q[i].skip)
       /\ InClause(Q, i) => Q[i].do \in Drops /\ Q[i].k # "function"
       /\ Q[i].do \notin {"select", "store", "save", "unsave", "unstore"}
  /\ Len(Q) > 0 => Q[1].skip # -1

\* A part without a loop, and one that deletes a function only to make it again.
NoLoop(Q) == \A i \in 1 .. Len(Q) : Q[i].do \notin {"list", "next"}
Replaced(Q) ==
  \A i \in 1 .. Len(Q) : DropsFunction(Q[i]) =>
    /\ backend \in Replacing /\ Q[i].skip = 0 /\ Q[i].do # "purge"
    /\ InGap(Q, i + 1)

\* The step of deploy_runtime that makes the function, and the one that makes the
\* image.
MakerOf ==
  [aws_lambda |-> 12, aws_batch |-> 14, aliyun_fc |-> 5, azure_functions |-> 5,
   azure_containers |-> 6, gcp_functions |-> 8, gcp_cloudrun |-> 7, ibm_cf |-> 6,
   oracle_f |-> 8, openwhisk |-> 5, code_engine |-> 10, knative |-> 8]
ImagerOf ==
  [aws_batch |-> 5, azure_containers |-> 4, gcp_cloudrun |-> 4, oracle_f |-> 4,
   code_engine |-> 6, knative |-> 4, k8s |-> 4, singularity |-> 4]

\* What the proofs use of build_runtime, invoke, delete_runtime and clean ...
BuildFine(Q) ==
  PartFine(Q) /\ NoLoop(Q) /\ Len(Q) > 0 /\ \A i \in 1 .. Len(Q) : ~DropsFunction(Q[i])
InvokeFine(Q) == PartFine(Q) /\ NoLoop(Q) /\ Replaced(Q)
DeleteFine(Q) == PartFine(Q) /\ NoLoop(Q)
CleanFine(Q) ==
  /\ PartFine(Q)
  /\ \A i \in 1 .. Len(Q) : Q[i].do \in {"list", "next"} =>
       2 <= Len(Q) /\ \E j \in 1 .. Len(Q) : Q[j].do = "next"

\* ... and of deploy_runtime: which step makes the function, which the image, and
\* that no jump passes them by.
MadeBy(Q, m) ==
  /\ m \in 1 .. Len(Q) /\ Q[m].k = "function" /\ Q[m].do \in {"new", "put", "register"}
  /\ \A i \in 1 .. Len(Q) :
       Q[i].do \in {"look", "try"} /\ i <= m /\ m < i + 1 + Q[i].skip => Q[i].k = "function"
ImagedBy(Q, m) ==
  /\ m \in 1 .. Len(Q) /\ Q[m].k = "image" /\ Q[m].do = "put"
  /\ \A i \in 1 .. Len(Q) :
       Q[i].do \in {"look", "try"} /\ i <= m => i + 1 + Q[i].skip <= m
DeployFine(Q) ==
  /\ PartFine(Q) /\ NoLoop(Q) /\ Replaced(Q)
  /\ HasFunction => MadeBy(Q, MakerOf[backend])
  /\ HasImage => ImagedBy(Q, ImagerOf[backend])

-----------------------------------------------------------------------------
(* The parts of the operations on each backend, step by step. *)

\* A part, and its steps written out.
Spelled(Q, F) ==
  /\ Q \in Seq(StepType) /\ F \in Seq(StepType) /\ Len(Q) = Len(F)
  /\ \A i \in 1 .. Len(Q) : Q[i] = F[i]

\* Two parts with the same steps are the same.
LEMMA SpelledSame ==
    ASSUME NEW P, NEW Q, Spelled(P, Q)
    PROVE  P = Q
BY DEF Spelled

\* The steps of the backends, written out where a part is put together from others.
AwsLambdaBuildSteps ==
  << Skip("put", "zip", 2), Skip("need", "zip", 1), Last("drop!", "zip"),
     S("put", "repository"), S("put", "image") >>
AzureContainersBuildSteps ==
  << Skip("put", "zip", 2), Skip("need", "zip", 1), Last("drop!", "zip"),
     S("put", "image") >>
SingularityBuildSteps ==
  << Skip("put", "zip", 3), Skip("need", "zip", 2), Skip("put", "image", 1),
     Last("drop!", "zip") >>
AwsLambdaDeploySteps ==
  << Skip("look", "layer", 7), S("put", "layer_zip"), S("need", "layer_zip"),
     Skip("new", "builder", 2), Skip("need", "builder", 1), S("drop!", "layer_zip"),
     Last("drop", "builder"), S("put", "layer"), S("put", "zip"), S("need", "zip"),
     S("drop!", "zip"), S("put", "function"), S("need", "function"),
     S("need", "function") >>
AwsBatchDeploySteps ==
  << Skip("put", "zip", 2), Skip("need", "zip", 1), Last("drop!", "zip"),
     S("put", "repository"), S("put", "image"), S("enabled", "env"),
     Skip("look", "env", 1), S("new", "env"), S("enabled", "queue"),
     Skip("look", "queue", 1), S("new", "queue"), S("one", "function"),
     Skip("look", "function", 1), S("register", "function"), S("need", "queue"),
     S("ask", "function"), S("take", "reply") >>
AliyunDeploySteps ==
  << S("drop", "zip"), S("put", "zip"), S("drop", "function"), S("need", "zip"),
     S("new", "function"), S("need", "function") >>
AzureFunctionsDeploySteps ==
  << S("drop", "package"), S("put", "package"), S("need", "package"),
     Skip("look", "function", 1), S("put", "function"), S("need", "function"),
     S("publish", "function"), S("fresh", "queue"), S("need", "queue"),
     S("ask", "function"), S("wait", "reply") >>
AzureContainersDeploySteps ==
  << Skip("put", "zip", 2), Skip("need", "zip", 1), Last("drop!", "zip"),
     S("put", "image"), S("fresh", "queue"), S("put", "function"), S("need", "queue"),
     S("ask", "function"), S("take", "reply") >>
GcpFunctionsDeploySteps ==
  << S("put", "zip"), Skip("need", "zip", 2), Skip("put", "bin", 1),
     Last("drop!", "zip"), S("drop", "topic"), S("new", "topic"), S("drop", "function"),
     S("new", "function"), S("need", "topic"), S("ask", "function"), S("take", "reply"),
     S("need", "topic"), S("ask", "function"), S("take", "reply") >>
GcpCloudrunDeploySteps ==
  << Skip("put", "zip", 2), Skip("need", "zip", 1), Last("drop!", "zip"),
     S("put", "image"), Skip("try", "function", 2), S("drop?", "function"),
     S("new", "function"), S("need", "function"), S("token", "function"),
     S("need", "function") >>
IbmCfDeploySteps ==
  << S("put", "namespace"), S("put?", "package"), S("put", "zip"),
     Skip("need", "zip", 3), Skip("need", "package", 2), Skip("put", "function", 1),
     Last("drop!", "zip"), S("need", "function") >>
OracleDeploySteps ==
  << Skip("put", "zip", 2), Skip("need", "zip", 1), Last("drop!", "zip"),
     S("put", "image"), Skip("look", "app", 1), S("new", "app"),
     Skip("look", "function", 1), S("new", "function"), S("need", "function"),
     S("need", "function") >>
OpenwhiskDeploySteps ==
  << S("put?", "package"), S("put", "zip"), Skip("need", "zip", 3),
     Skip("need", "package", 2), Skip("put", "function", 1), Last("drop!", "zip"),
     S("need", "function") >>
CodeEngineDeploySteps ==
  << Skip("look", "project", 1), S("new", "project"), Skip("put", "zip", 2),
     Skip("need", "zip", 1), Last("drop!", "zip"), S("put", "image"),
     S("drop", "secret"), S("put", "secret"), S("drop", "function"),
     S("new", "function"), S("put", "map"), S("drop?", "run"),
     Skip("run", "function", 2), S("await", "run"), S("drop?", "run"),
     Last("drop?", "map"), S("take", "reply") >>
KnativeDeploySteps ==
  << Skip("put", "zip", 2), Skip("need", "zip", 1), Last("drop!", "zip"),
     S("put", "image"), S("drop?", "secret"), S("put", "secret"),
     S("drop?", "function"), S("new", "function"), S("need", "function") >>
K8sDeploySteps ==
  << Skip("put", "zip", 2), Skip("need", "zip", 1), Last("drop!", "zip"),
     S("put", "image"), S("drop?", "secret"), S("put", "secret"), S("drop?", "run"),
     S("new", "run"), Skip("await", "run", 1), Last("drop?", "run"), S("take", "reply") >>
SingularityDeploySteps ==
  << S("put", "queue"), Skip("put", "zip", 3), Skip("need", "zip", 2),
     Skip("put", "image", 1), Last("drop!", "zip"), S("ask", "queue"),
     S("take", "reply") >>
IbmCfInvokeSteps ==
  << S("put", "namespace"), S("redeploy", "function") >>
CodeEngineInvokeSteps ==
  << Skip("look", "project", 1), S("new", "project"), Skip("look", "function", 4),
     S("drop", "secret"), S("put", "secret"), S("drop", "function"),
     S("new", "function"), S("put", "map"), S("need", "function") >>
AwsLambdaDeleteSteps ==
  << S("drop!", "function"), S("drop", "layer") >>
AwsLambdaCleanSteps ==
  << S("list", "all"), S("drop!", "function"), S("next", "function"), S("drop", "layer") >>
AwsBatchCleanSteps ==
  << S("list", "all"), S("drop!", "function"), S("drop", "function"),
     S("next", "function"), S("off", "queue"), S("drop", "queue_off"), S("off", "env"),
     S("drop", "env_off") >>
AliyunCleanSteps ==
  << S("list", "all"), S("drop!", "function"), S("next", "function") >>
AzureFunctionsCleanSteps ==
  << S("list", "all"), S("drop!", "function"), S("drop?", "queue"),
     S("next", "function"), S("drop?", "queue") >>
AzureContainersCleanSteps ==
  << S("list", "all"), S("drop!", "function"), S("drop?", "queue"),
     S("next", "function") >>
GcpFunctionsCleanSteps ==
  << S("list", "all"), S("drop", "function"), S("drop", "topic"), S("drop", "bin"),
     S("next", "function") >>
GcpCloudrunCleanSteps ==
  << S("list", "all"), S("drop?", "function"), S("next", "function") >>
IbmCfCleanSteps ==
  << S("list", "all"), S("purge", "function"), S("next", "function"),
     S("drop?", "package") >>
CodeEngineCleanSteps ==
  << S("list", "all"), S("drop?", "function"), S("next", "function"), S("clear?", "map") >>

\* The builds.
LEMMA BuildIs == backend \in Backends => BuildFine(Build[backend])
<1>1. CASE backend = "aws_lambda"
  <2>1. Spelled(AwsLambdaBuild, AwsLambdaBuildSteps)
    BY DEF Spelled, StepType, Does, Calls, Kinds, Drops, AwsLambdaBuildSteps, S, Skip,
      Last, CreateHandlerZip, ImageBuild, EcrRepository, AwsLambdaBuild
  <2>2. Build[backend] = AwsLambdaBuildSteps
    BY <1>1, <2>1, SpelledSame DEF Build
  <2> QED BY <1>1, <2>2 DEF BuildFine, PartFine, StepType, Does, Calls, Kinds, Drops,
      Guarded, InClause, NoLoop, DropsFunction, AwsLambdaBuildSteps, S, Skip, Last
<1>2. CASE backend = "aws_batch"
  <2>1. Spelled(AwsBatchBuild, AwsLambdaBuildSteps)
    BY DEF Spelled, StepType, Does, Calls, Kinds, Drops, AwsLambdaBuildSteps, S, Skip,
      Last, CreateHandlerZip, ImageBuild, EcrRepository, AwsBatchBuild
  <2>2. Build[backend] = AwsLambdaBuildSteps
    BY <1>2, <2>1, SpelledSame DEF Build
  <2> QED BY <1>2, <2>2 DEF BuildFine, PartFine, StepType, Does, Calls, Kinds, Drops,
      Guarded, InClause, NoLoop, DropsFunction, AwsLambdaBuildSteps, S, Skip, Last
<1>3. CASE backend = "aliyun_fc"
  <2>1. Build[backend] = AliyunBuild
    BY <1>3 DEF Build
  <2> QED BY <1>3, <2>1 DEF BuildFine, PartFine, StepType, Does, Calls, Kinds, Drops,
      Guarded, InClause, NoLoop, DropsFunction, S, AliyunBuild
<1>4. CASE backend = "azure_functions"
  <2>1. Build[backend] = AzureFunctionsBuild
    BY <1>4 DEF Build
  <2> QED BY <1>4, <2>1 DEF BuildFine, PartFine, StepType, Does, Calls, Kinds, Drops,
      Guarded, InClause, NoLoop, DropsFunction, S, AzureFunctionsBuild
<1>5. CASE backend = "azure_containers"
  <2>1. Spelled(AzureContainersBuild, AzureContainersBuildSteps)
    BY DEF Spelled, StepType, Does, Calls, Kinds, Drops, AzureContainersBuildSteps, S,
      Skip, Last, CreateHandlerZip, ImageBuild, ImagePush, AzureContainersBuild
  <2>2. Build[backend] = AzureContainersBuildSteps
    BY <1>5, <2>1, SpelledSame DEF Build
  <2> QED BY <1>5, <2>2 DEF BuildFine, PartFine, StepType, Does, Calls, Kinds, Drops,
      Guarded, InClause, NoLoop, DropsFunction, AzureContainersBuildSteps, S, Skip, Last
<1>6. CASE backend = "gcp_functions"
  <2>1. Build[backend] = GcpFunctionsBuild
    BY <1>6 DEF Build
  <2> QED BY <1>6, <2>1 DEF BuildFine, PartFine, StepType, Does, Calls, Kinds, Drops,
      Guarded, InClause, NoLoop, DropsFunction, Skip, CreateHandlerZip,
      GcpFunctionsBuild
<1>7. CASE backend = "gcp_cloudrun"
  <2>1. Spelled(GcpCloudrunBuild, AzureContainersBuildSteps)
    BY DEF Spelled, StepType, Does, Calls, Kinds, Drops, AzureContainersBuildSteps, S,
      Skip, Last, CreateHandlerZip, ImageBuild, ImagePush, GcpCloudrunBuild
  <2>2. Build[backend] = AzureContainersBuildSteps
    BY <1>7, <2>1, SpelledSame DEF Build
  <2> QED BY <1>7, <2>2 DEF BuildFine, PartFine, StepType, Does, Calls, Kinds, Drops,
      Guarded, InClause, NoLoop, DropsFunction, AzureContainersBuildSteps, S, Skip, Last
<1>8. CASE backend = "ibm_cf"
  <2>1. Build[backend] = IbmCfBuild
    BY <1>8 DEF Build
  <2> QED BY <1>8, <2>1 DEF BuildFine, PartFine, StepType, Does, Calls, Kinds, Drops,
      Guarded, InClause, NoLoop, DropsFunction, S, ImagePush, IbmCfBuild
<1>9. CASE backend = "oracle_f"
  <2>1. Spelled(OracleBuild, AzureContainersBuildSteps)
    BY DEF Spelled, StepType, Does, Calls, Kinds, Drops, AzureContainersBuildSteps, S,
      Skip, Last, CreateHandlerZip, ImageBuild, ImagePush, OracleBuild
  <2>2. Build[backend] = AzureContainersBuildSteps
    BY <1>9, <2>1, SpelledSame DEF Build
  <2> QED BY <1>9, <2>2 DEF BuildFine, PartFine, StepType, Does, Calls, Kinds, Drops,
      Guarded, InClause, NoLoop, DropsFunction, AzureContainersBuildSteps, S, Skip, Last
<1>10. CASE backend = "openwhisk"
  <2>1. Build[backend] = OpenwhiskBuild
    BY <1>10 DEF Build
  <2> QED BY <1>10, <2>1 DEF BuildFine, PartFine, StepType, Does, Calls, Kinds, Drops,
      Guarded, InClause, NoLoop, DropsFunction, S, ImagePush, OpenwhiskBuild
<1>11. CASE backend = "code_engine"
  <2>1. Spelled(CodeEngineBuild, AzureContainersBuildSteps)
    BY DEF Spelled, StepType, Does, Calls, Kinds, Drops, AzureContainersBuildSteps, S,
      Skip, Last, CreateHandlerZip, ImageBuild, ImagePush, CodeEngineBuild
  <2>2. Build[backend] = AzureContainersBuildSteps
    BY <1>11, <2>1, SpelledSame DEF Build
  <2> QED BY <1>11, <2>2 DEF BuildFine, PartFine, StepType, Does, Calls, Kinds, Drops,
      Guarded, InClause, NoLoop, DropsFunction, AzureContainersBuildSteps, S, Skip, Last
<1>12. CASE backend = "knative"
  <2>1. Spelled(KnativeBuild, AzureContainersBuildSteps)
    BY DEF Spelled, StepType, Does, Calls, Kinds, Drops, AzureContainersBuildSteps, S,
      Skip, Last, CreateHandlerZip, ImageBuild, ImagePush, KnativeBuild
  <2>2. Build[backend] = AzureContainersBuildSteps
    BY <1>12, <2>1, SpelledSame DEF Build
  <2> QED BY <1>12, <2>2 DEF BuildFine, PartFine, StepType, Does, Calls, Kinds, Drops,
      Guarded, InClause, NoLoop, DropsFunction, AzureContainersBuildSteps, S, Skip, Last
<1>13. CASE backend = "k8s"
  <2>1. Spelled(K8sBuild, AzureContainersBuildSteps)
    BY DEF Spelled, StepType, Does, Calls, Kinds, Drops, AzureContainersBuildSteps, S,
      Skip, Last, CreateHandlerZip, ImageBuild, ImagePush, K8sBuild
  <2>2. Build[backend] = AzureContainersBuildSteps
    BY <1>13, <2>1, SpelledSame DEF Build
  <2> QED BY <1>13, <2>2 DEF BuildFine, PartFine, StepType, Does, Calls, Kinds, Drops,
      Guarded, InClause, NoLoop, DropsFunction, AzureContainersBuildSteps, S, Skip, Last
<1>14. CASE backend = "singularity"
  <2>1. Spelled(SingularityBuild, SingularityBuildSteps)
    BY DEF Spelled, StepType, Does, Calls, Kinds, Drops, SingularityBuildSteps, Skip,
      Last, CreateHandlerZip, SingularityBuild
  <2>2. Build[backend] = SingularityBuildSteps
    BY <1>14, <2>1, SpelledSame DEF Build
  <2> QED BY <1>14, <2>2 DEF BuildFine, PartFine, StepType, Does, Calls, Kinds, Drops,
      Guarded, InClause, NoLoop, DropsFunction, SingularityBuildSteps, S, Skip, Last
<1> QED BY <1>1, <1>2, <1>3, <1>4, <1>5, <1>6, <1>7, <1>8, <1>9, <1>10, <1>11, <1>12,
      <1>13, <1>14

\* The deployments.
LEMMA DeployIs == backend \in Backends => DeployFine(Deploy[backend])
<1>1. CASE backend = "aws_lambda"
  <2>1. Spelled(AwsLambdaDeploy, AwsLambdaDeploySteps)
    BY DEF Spelled, StepType, Does, Calls, Kinds, Drops, AwsLambdaDeploySteps, S, Skip,
      Last, AwsLambdaLayer, AwsLambdaHandlerBin, AwsLambdaMeta, AwsLambdaDeploy
  <2>2. Deploy[backend] = AwsLambdaDeploySteps
    BY <1>1, <2>1, SpelledSame DEF Deploy
  <2> QED BY <1>1, <2>2 DEF DeployFine, PartFine, StepType, Does, Calls, Kinds, Drops,
      Guarded, InClause, NoLoop, Replaced, Replacing, DropsFunction, InGap, HasFunction,
      HasImage, MadeBy, MakerOf, ImagedBy, ImagerOf, AwsLambdaDeploySteps, S, Skip, Last
<1>2. CASE backend = "aws_batch"
  <2>1. Spelled(AwsBatchDeploy, AwsBatchDeploySteps)
    BY DEF Spelled, StepType, Does, Calls, Kinds, Drops, AwsBatchDeploySteps, S, Skip,
      Last, CreateHandlerZip, ImageBuild, EcrRepository, AwsBatchBuild, AwsBatchEnv,
      AwsBatchQueue, AwsBatchJobDef, AwsBatchMeta, AwsBatchDeploy
  <2>2. Deploy[backend] = AwsBatchDeploySteps
    BY <1>2, <2>1, SpelledSame DEF Deploy
  <2> QED BY <1>2, <2>2 DEF DeployFine, PartFine, StepType, Does, Calls, Kinds, Drops,
      Guarded, InClause, NoLoop, Replaced, Replacing, DropsFunction, InGap, HasFunction,
      HasImage, MadeBy, MakerOf, ImagedBy, ImagerOf, AwsBatchDeploySteps, S, Skip, Last
<1>3. CASE backend = "aliyun_fc"
  <2>1. Spelled(AliyunDeploy, AliyunDeploySteps)
    BY DEF Spelled, StepType, Does, Calls, Kinds, Drops, AliyunDeploySteps, S,
      AliyunBuild, AliyunExists, AliyunCreate, AliyunMeta, AliyunDeploy
  <2>2. Deploy[backend] = AliyunDeploySteps
    BY <1>3, <2>1, SpelledSame DEF Deploy
  <2> QED BY <1>3, <2>2 DEF DeployFine, PartFine, StepType, Does, Calls, Kinds, Drops,
      Guarded, InClause, NoLoop, Replaced, Replacing, DropsFunction, InGap, HasFunction,
      HasImage, MadeBy, MakerOf, ImagedBy, ImagerOf, AliyunDeploySteps, S, Skip, Last
<1>4. CASE backend = "azure_functions"
  <2>1. Spelled(AzureFunctionsDeploy, AzureFunctionsDeploySteps)
    BY DEF Spelled, StepType, Does, Calls, Kinds, Drops, AzureFunctionsDeploySteps, S,
      Skip, AzureFunctionsBuild, AzureFunctionsPublish, AzureFunctionsQueue,
      AzureFunctionsCreate, AzureFunctionsMeta, AzureFunctionsDeploy
  <2>2. Deploy[backend] = AzureFunctionsDeploySteps
    BY <1>4, <2>1, SpelledSame DEF Deploy
  <2> QED BY <1>4, <2>2 DEF DeployFine, PartFine, StepType, Does, Calls, Kinds, Drops,
      Guarded, InClause, NoLoop, Replaced, Replacing, DropsFunction, InGap, HasFunction,
      HasImage, MadeBy, MakerOf, ImagedBy, ImagerOf, AzureFunctionsDeploySteps, S, Skip,
      Last
<1>5. CASE backend = "azure_containers"
  <2>1. Spelled(AzureContainersDeploy, AzureContainersDeploySteps)
    BY DEF Spelled, StepType, Does, Calls, Kinds, Drops, AzureContainersDeploySteps, S,
      Skip, Last, CreateHandlerZip, ImageBuild, ImagePush, AzureContainersBuild,
      AzureContainersCreate, AzureContainersMeta, AzureContainersDeploy
  <2>2. Deploy[backend] = AzureContainersDeploySteps
    BY <1>5, <2>1, SpelledSame DEF Deploy
  <2> QED BY <1>5, <2>2 DEF DeployFine, PartFine, StepType, Does, Calls, Kinds, Drops,
      Guarded, InClause, NoLoop, Replaced, Replacing, DropsFunction, InGap, HasFunction,
      HasImage, MadeBy, MakerOf, ImagedBy, ImagerOf, AzureContainersDeploySteps, S,
      Skip, Last
<1>6. CASE backend = "gcp_functions"
  <2>1. Spelled(GcpFunctionsDeploy, GcpFunctionsDeploySteps)
    BY DEF Spelled, StepType, Does, Calls, Kinds, Drops, GcpFunctionsDeploySteps, S,
      Skip, Last, CreateHandlerZip, GcpFunctionsBuild, GcpFunctionsCreate,
      GcpFunctionsAsk, GcpFunctionsMeta, GcpFunctionsDeploy
  <2>2. Deploy[backend] = GcpFunctionsDeploySteps
    BY <1>6, <2>1, SpelledSame DEF Deploy
  <2> QED BY <1>6, <2>2 DEF DeployFine, PartFine, StepType, Does, Calls, Kinds, Drops,
      Guarded, InClause, NoLoop, Replaced, Replacing, DropsFunction, InGap, HasFunction,
      HasImage, MadeBy, MakerOf, ImagedBy, ImagerOf, GcpFunctionsDeploySteps, S, Skip,
      Last
<1>7. CASE backend = "gcp_cloudrun"
  <2>1. Spelled(GcpCloudrunDeploy, GcpCloudrunDeploySteps)
    BY DEF Spelled, StepType, Does, Calls, Kinds, Drops, GcpCloudrunDeploySteps, S,
      Skip, Last, CreateHandlerZip, ImageBuild, ImagePush, GcpCloudrunBuild,
      GcpCloudrunCreate, GcpCloudrunMeta, GcpCloudrunDeploy
  <2>2. Deploy[backend] = GcpCloudrunDeploySteps
    BY <1>7, <2>1, SpelledSame DEF Deploy
  <2> QED BY <1>7, <2>2 DEF DeployFine, PartFine, StepType, Does, Calls, Kinds, Drops,
      Guarded, InClause, NoLoop, Replaced, Replacing, DropsFunction, InGap, HasFunction,
      HasImage, MadeBy, MakerOf, ImagedBy, ImagerOf, GcpCloudrunDeploySteps, S, Skip,
      Last
<1>8. CASE backend = "ibm_cf"
  <2>1. Spelled(IbmCfDeploy, IbmCfDeploySteps)
    BY DEF Spelled, StepType, Does, Calls, Kinds, Drops, IbmCfDeploySteps, S, Skip,
      Last, CreateHandlerZip, IbmCfNamespace, IbmCfMeta, IbmCfDeploy
  <2>2. Deploy[backend] = IbmCfDeploySteps
    BY <1>8, <2>1, SpelledSame DEF Deploy
  <2> QED BY <1>8, <2>2 DEF DeployFine, PartFine, StepType, Does, Calls, Kinds, Drops,
      Guarded, InClause, NoLoop, Replaced, Replacing, DropsFunction, InGap, HasFunction,
      HasImage, MadeBy, MakerOf, ImagedBy, ImagerOf, IbmCfDeploySteps, S, Skip, Last
<1>9. CASE backend = "oracle_f"
  <2>1. Spelled(OracleDeploy, OracleDeploySteps)
    BY DEF Spelled, StepType, Does, Calls, Kinds, Drops, OracleDeploySteps, S, Skip,
      Last, CreateHandlerZip, ImageBuild, ImagePush, OracleBuild, OracleMeta,
      OracleDeploy
  <2>2. Deploy[backend] = OracleDeploySteps
    BY <1>9, <2>1, SpelledSame DEF Deploy
  <2> QED BY <1>9, <2>2 DEF DeployFine, PartFine, StepType, Does, Calls, Kinds, Drops,
      Guarded, InClause, NoLoop, Replaced, Replacing, DropsFunction, InGap, HasFunction,
      HasImage, MadeBy, MakerOf, ImagedBy, ImagerOf, OracleDeploySteps, S, Skip, Last
<1>10. CASE backend = "openwhisk"
  <2>1. Spelled(OpenwhiskDeploy, OpenwhiskDeploySteps)
    BY DEF Spelled, StepType, Does, Calls, Kinds, Drops, OpenwhiskDeploySteps, S, Skip,
      Last, CreateHandlerZip, OpenwhiskMeta, OpenwhiskDeploy
  <2>2. Deploy[backend] = OpenwhiskDeploySteps
    BY <1>10, <2>1, SpelledSame DEF Deploy
  <2> QED BY <1>10, <2>2 DEF DeployFine, PartFine, StepType, Does, Calls, Kinds, Drops,
      Guarded, InClause, NoLoop, Replaced, Replacing, DropsFunction, InGap, HasFunction,
      HasImage, MadeBy, MakerOf, ImagedBy, ImagerOf, OpenwhiskDeploySteps, S, Skip, Last
<1>11. CASE backend = "code_engine"
  <2>1. Spelled(CodeEngineDeploy, CodeEngineDeploySteps)
    BY DEF Spelled, StepType, Does, Calls, Kinds, Drops, CodeEngineDeploySteps, S, Skip,
      Last, CreateHandlerZip, ImageBuild, ImagePush, CodeEngineBuild, CodeEngineProject,
      CodeEngineSecret, CodeEngineJobDef, CodeEngineConfigMap, CodeEngineMeta,
      CodeEngineDeploy
  <2>2. Deploy[backend] = CodeEngineDeploySteps
    BY <1>11, <2>1, SpelledSame DEF Deploy
  <2> QED BY <1>11, <2>2 DEF DeployFine, PartFine, StepType, Does, Calls, Kinds, Drops,
      Guarded, InClause, NoLoop, Replaced, Replacing, DropsFunction, InGap, HasFunction,
      HasImage, MadeBy, MakerOf, ImagedBy, ImagerOf, CodeEngineDeploySteps, S, Skip,
      Last
<1>12. CASE backend = "knative"
  <2>1. Spelled(KnativeDeploy, KnativeDeploySteps)
    BY DEF Spelled, StepType, Does, Calls, Kinds, Drops, KnativeDeploySteps, S, Skip,
      Last, CreateHandlerZip, ImageBuild, ImagePush, KnativeBuild, KnativeSecret,
      KnativeCreate, KnativeMeta, KnativeDeploy
  <2>2. Deploy[backend] = KnativeDeploySteps
    BY <1>12, <2>1, SpelledSame DEF Deploy
  <2> QED BY <1>12, <2>2 DEF DeployFine, PartFine, StepType, Does, Calls, Kinds, Drops,
      Guarded, InClause, NoLoop, Replaced, Replacing, DropsFunction, InGap, HasFunction,
      HasImage, MadeBy, MakerOf, ImagedBy, ImagerOf, KnativeDeploySteps, S, Skip, Last
<1>13. CASE backend = "k8s"
  <2>1. Spelled(K8sDeploy, K8sDeploySteps)
    BY DEF Spelled, StepType, Does, Calls, Kinds, Drops, K8sDeploySteps, S, Skip, Last,
      CreateHandlerZip, ImageBuild, ImagePush, K8sBuild, K8sSecret, K8sMeta, K8sDeploy
  <2>2. Deploy[backend] = K8sDeploySteps
    BY <1>13, <2>1, SpelledSame DEF Deploy
  <2> QED BY <1>13, <2>2 DEF DeployFine, PartFine, StepType, Does, Calls, Kinds, Drops,
      Guarded, InClause, NoLoop, Replaced, Replacing, DropsFunction, InGap, HasFunction,
      HasImage, MadeBy, MakerOf, ImagedBy, ImagerOf, K8sDeploySteps, S, Skip, Last
<1>14. CASE backend = "singularity"
  <2>1. Spelled(SingularityDeploy, SingularityDeploySteps)
    BY DEF Spelled, StepType, Does, Calls, Kinds, Drops, SingularityDeploySteps, S,
      Skip, Last, CreateHandlerZip, SingularityBuild, SingularityMeta, SingularityDeploy
  <2>2. Deploy[backend] = SingularityDeploySteps
    BY <1>14, <2>1, SpelledSame DEF Deploy
  <2> QED BY <1>14, <2>2 DEF DeployFine, PartFine, StepType, Does, Calls, Kinds, Drops,
      Guarded, InClause, NoLoop, Replaced, Replacing, DropsFunction, InGap, HasFunction,
      HasImage, MadeBy, MakerOf, ImagedBy, ImagerOf, SingularityDeploySteps, S, Skip,
      Last
<1> QED BY <1>1, <1>2, <1>3, <1>4, <1>5, <1>6, <1>7, <1>8, <1>9, <1>10, <1>11, <1>12,
      <1>13, <1>14

\* The invocations.
LEMMA InvokeIs == backend \in Backends => InvokeFine(Invoke[backend])
<1>1. CASE backend = "aws_lambda"
  <2>1. Invoke[backend] = AwsLambdaInvoke
    BY <1>1 DEF Invoke
  <2> QED BY <1>1, <2>1 DEF InvokeFine, PartFine, StepType, Does, Calls, Kinds, Drops,
      Guarded, InClause, NoLoop, Replaced, Replacing, DropsFunction, InGap, S,
      AwsLambdaInvoke
<1>2. CASE backend = "aws_batch"
  <2>1. Invoke[backend] = AwsBatchInvoke
    BY <1>2 DEF Invoke
  <2> QED BY <1>2, <2>1 DEF InvokeFine, PartFine, StepType, Does, Calls, Kinds, Drops,
      Guarded, InClause, NoLoop, Replaced, Replacing, DropsFunction, InGap, S,
      AwsBatchInvoke
<1>3. CASE backend = "aliyun_fc"
  <2>1. Invoke[backend] = AliyunInvoke
    BY <1>3 DEF Invoke
  <2> QED BY <1>3, <2>1 DEF InvokeFine, PartFine, StepType, Does, Calls, Kinds, Drops,
      Guarded, InClause, NoLoop, Replaced, Replacing, DropsFunction, InGap, S,
      AliyunInvoke
<1>4. CASE backend = "azure_functions"
  <2>1. Invoke[backend] = AzureFunctionsInvoke
    BY <1>4 DEF Invoke
  <2> QED BY <1>4, <2>1 DEF InvokeFine, PartFine, StepType, Does, Calls, Kinds, Drops,
      Guarded, InClause, NoLoop, Replaced, Replacing, DropsFunction, InGap, S,
      AzureFunctionsInvoke
<1>5. CASE backend = "azure_containers"
  <2>1. Invoke[backend] = AzureContainersInvoke
    BY <1>5 DEF Invoke
  <2> QED BY <1>5, <2>1 DEF InvokeFine, PartFine, StepType, Does, Calls, Kinds, Drops,
      Guarded, InClause, NoLoop, Replaced, Replacing, DropsFunction, InGap, S,
      AzureContainersInvoke
<1>6. CASE backend = "gcp_functions"
  <2>1. Invoke[backend] = GcpFunctionsInvoke
    BY <1>6 DEF Invoke
  <2> QED BY <1>6, <2>1 DEF InvokeFine, PartFine, StepType, Does, Calls, Kinds, Drops,
      Guarded, InClause, NoLoop, Replaced, Replacing, DropsFunction, InGap, S,
      GcpFunctionsInvoke
<1>7. CASE backend = "gcp_cloudrun"
  <2>1. Invoke[backend] = GcpCloudrunInvoke
    BY <1>7 DEF Invoke
  <2> QED BY <1>7, <2>1 DEF InvokeFine, PartFine, StepType, Does, Calls, Kinds, Drops,
      Guarded, InClause, NoLoop, Replaced, Replacing, DropsFunction, InGap, S,
      GcpCloudrunInvoke
<1>8. CASE backend = "ibm_cf"
  <2>1. Spelled(IbmCfInvoke, IbmCfInvokeSteps)
    BY DEF Spelled, StepType, Does, Calls, Kinds, Drops, IbmCfInvokeSteps, S,
      IbmCfNamespace, IbmCfInvoke
  <2>2. Invoke[backend] = IbmCfInvokeSteps
    BY <1>8, <2>1, SpelledSame DEF Invoke
  <2> QED BY <1>8, <2>2 DEF InvokeFine, PartFine, StepType, Does, Calls, Kinds, Drops,
      Guarded, InClause, NoLoop, Replaced, Replacing, DropsFunction, InGap,
      IbmCfInvokeSteps, S, Skip, Last
<1>9. CASE backend = "oracle_f"
  <2>1. Invoke[backend] = OracleInvoke
    BY <1>9 DEF Invoke
  <2> QED BY <1>9, <2>1 DEF InvokeFine, PartFine, StepType, Does, Calls, Kinds, Drops,
      Guarded, InClause, NoLoop, Replaced, Replacing, DropsFunction, InGap, S,
      OracleInvoke
<1>10. CASE backend = "openwhisk"
  <2>1. Invoke[backend] = OpenwhiskInvoke
    BY <1>10 DEF Invoke
  <2> QED BY <1>10, <2>1 DEF InvokeFine, PartFine, StepType, Does, Calls, Kinds, Drops,
      Guarded, InClause, NoLoop, Replaced, Replacing, DropsFunction, InGap, S,
      OpenwhiskInvoke
<1>11. CASE backend = "code_engine"
  <2>1. Spelled(CodeEngineInvoke, CodeEngineInvokeSteps)
    BY DEF Spelled, StepType, Does, Calls, Kinds, Drops, CodeEngineInvokeSteps, S, Skip,
      CodeEngineProject, CodeEngineSecret, CodeEngineJobDef, CodeEngineConfigMap,
      CodeEngineInvoke
  <2>2. Invoke[backend] = CodeEngineInvokeSteps
    BY <1>11, <2>1, SpelledSame DEF Invoke
  <2> QED BY <1>11, <2>2 DEF InvokeFine, PartFine, StepType, Does, Calls, Kinds, Drops,
      Guarded, InClause, NoLoop, Replaced, Replacing, DropsFunction, InGap,
      CodeEngineInvokeSteps, S, Skip, Last
<1>12. CASE backend = "knative"
  <2>1. Invoke[backend] = KnativeInvoke
    BY <1>12 DEF Invoke
  <2> QED BY <1>12, <2>1 DEF InvokeFine, PartFine, StepType, Does, Calls, Kinds, Drops,
      Guarded, InClause, NoLoop, Replaced, Replacing, DropsFunction, InGap, S,
      KnativeInvoke
<1>13. CASE backend = "k8s"
  <2>1. Invoke[backend] = K8sInvoke
    BY <1>13 DEF Invoke
  <2> QED BY <1>13, <2>1 DEF InvokeFine, PartFine, StepType, Does, Calls, Kinds, Drops,
      Guarded, InClause, NoLoop, Replaced, Replacing, DropsFunction, InGap, S, K8sInvoke
<1>14. CASE backend = "singularity"
  <2>1. Invoke[backend] = SingularityInvoke
    BY <1>14 DEF Invoke
  <2> QED BY <1>14, <2>1 DEF InvokeFine, PartFine, StepType, Does, Calls, Kinds, Drops,
      Guarded, InClause, NoLoop, Replaced, Replacing, DropsFunction, InGap, S,
      SingularityInvoke
<1> QED BY <1>1, <1>2, <1>3, <1>4, <1>5, <1>6, <1>7, <1>8, <1>9, <1>10, <1>11, <1>12,
      <1>13, <1>14

\* The deletions.
LEMMA DeleteIs == backend \in Backends => DeleteFine(Delete[backend])
<1>1. CASE backend = "aws_lambda"
  <2>1. Spelled(AwsLambdaDelete, AwsLambdaDeleteSteps)
    BY DEF Spelled, StepType, Does, Calls, Kinds, Drops, AwsLambdaDeleteSteps, S,
      AwsLambdaDeleteLayer, AwsLambdaDeleteFunction, AwsLambdaDelete
  <2>2. Delete[backend] = AwsLambdaDeleteSteps
    BY <1>1, <2>1, SpelledSame DEF Delete
  <2> QED BY <1>1, <2>2 DEF DeleteFine, PartFine, StepType, Does, Calls, Kinds, Drops,
      Guarded, InClause, NoLoop, AwsLambdaDeleteSteps, S, Skip, Last
<1>2. CASE backend = "aws_batch"
  <2>1. Delete[backend] = AwsBatchDelete
    BY <1>2 DEF Delete
  <2> QED BY <1>2, <2>1 DEF DeleteFine, PartFine, StepType, Does, Calls, Kinds, Drops,
      Guarded, InClause, NoLoop, S, AwsBatchDelete
<1>3. CASE backend = "aliyun_fc"
  <2>1. Delete[backend] = AliyunDelete
    BY <1>3 DEF Delete
  <2> QED BY <1>3, <2>1 DEF DeleteFine, PartFine, StepType, Does, Calls, Kinds, Drops,
      Guarded, InClause, NoLoop, S, AliyunExists, AliyunDelete
<1>4. CASE backend = "azure_functions"
  <2>1. Delete[backend] = AzureFunctionsDelete
    BY <1>4 DEF Delete
  <2> QED BY <1>4, <2>1 DEF DeleteFine, PartFine, StepType, Does, Calls, Kinds, Drops,
      Guarded, InClause, NoLoop, S, AzureFunctionsDelete
<1>5. CASE backend = "azure_containers"
  <2>1. Delete[backend] = AzureContainersDelete
    BY <1>5 DEF Delete
  <2> QED BY <1>5, <2>1 DEF DeleteFine, PartFine, StepType, Does, Calls, Kinds, Drops,
      Guarded, InClause, NoLoop, S, AzureContainersDelete
<1>6. CASE backend = "gcp_functions"
  <2>1. Delete[backend] = GcpFunctionsDelete
    BY <1>6 DEF Delete
  <2> QED BY <1>6, <2>1 DEF DeleteFine, PartFine, StepType, Does, Calls, Kinds, Drops,
      Guarded, InClause, NoLoop, S, GcpFunctionsDelete
<1>7. CASE backend = "gcp_cloudrun"
  <2>1. Delete[backend] = GcpCloudrunDelete
    BY <1>7 DEF Delete
  <2> QED BY <1>7, <2>1 DEF DeleteFine, PartFine, StepType, Does, Calls, Kinds, Drops,
      Guarded, InClause, NoLoop, S, GcpCloudrunDelete
<1>8. CASE backend = "ibm_cf"
  <2>1. Delete[backend] = IbmCfDelete
    BY <1>8 DEF Delete
  <2> QED BY <1>8, <2>1 DEF DeleteFine, PartFine, StepType, Does, Calls, Kinds, Drops,
      Guarded, InClause, NoLoop, S, IbmCfDelete
<1>9. CASE backend = "oracle_f"
  <2>1. Delete[backend] = OracleDelete
    BY <1>9 DEF Delete
  <2> QED BY <1>9, <2>1 DEF DeleteFine, PartFine, StepType, Does, Calls, Kinds, Drops,
      Guarded, InClause, NoLoop, S, OracleDelete
<1>10. CASE backend = "openwhisk"
  <2>1. Delete[backend] = OpenwhiskDelete
    BY <1>10 DEF Delete
  <2> QED BY <1>10, <2>1 DEF DeleteFine, PartFine, StepType, Does, Calls, Kinds, Drops,
      Guarded, InClause, NoLoop, S, OpenwhiskDelete
<1>11. CASE backend = "code_engine"
  <2>1. Delete[backend] = CodeEngineDelete
    BY <1>11 DEF Delete
  <2> QED BY <1>11, <2>1 DEF DeleteFine, PartFine, StepType, Does, Calls, Kinds, Drops,
      Guarded, InClause, NoLoop, S, CodeEngineDelete
<1>12. CASE backend = "knative"
  <2>1. Delete[backend] = KnativeDelete
    BY <1>12 DEF Delete
  <2> QED BY <1>12, <2>1 DEF DeleteFine, PartFine, StepType, Does, Calls, Kinds, Drops,
      Guarded, InClause, NoLoop, S, KnativeDelete
<1>13. CASE backend = "k8s"
  <2>1. Delete[backend] = << >>
    BY <1>13 DEF Delete
  <2> QED BY <1>13, <2>1 DEF DeleteFine, PartFine, StepType, Does, Calls, Kinds, Drops,
      Guarded, InClause, NoLoop
<1>14. CASE backend = "singularity"
  <2>1. Delete[backend] = << >>
    BY <1>14 DEF Delete
  <2> QED BY <1>14, <2>1 DEF DeleteFine, PartFine, StepType, Does, Calls, Kinds, Drops,
      Guarded, InClause, NoLoop
<1> QED BY <1>1, <1>2, <1>3, <1>4, <1>5, <1>6, <1>7, <1>8, <1>9, <1>10, <1>11, <1>12,
      <1>13, <1>14

\* The cleanings.
LEMMA CleanIs == backend \in Backends => CleanFine(Clean[backend])
<1>1. CASE backend = "aws_lambda"
  <2>1. Spelled(AwsLambdaClean, AwsLambdaCleanSteps)
    BY DEF Spelled, StepType, Does, Calls, Kinds, Drops, AwsLambdaCleanSteps, S,
      AwsLambdaDeleteLayer, AwsLambdaDeleteFunction, ForEach, AwsLambdaClean
  <2>2. Clean[backend] = AwsLambdaCleanSteps
    BY <1>1, <2>1, SpelledSame DEF Clean
  <2> QED BY <1>1, <2>2 DEF CleanFine, PartFine, StepType, Does, Calls, Kinds, Drops,
      Guarded, InClause, AwsLambdaCleanSteps, S, Skip, Last
<1>2. CASE backend = "aws_batch"
  <2>1. Spelled(AwsBatchClean, AwsBatchCleanSteps)
    BY DEF Spelled, StepType, Does, Calls, Kinds, Drops, AwsBatchCleanSteps, S, ForEach,
      AwsBatchCleanDefs, AwsBatchCleanRest, AwsBatchClean
  <2>2. Clean[backend] = AwsBatchCleanSteps
    BY <1>2, <2>1, SpelledSame DEF Clean
  <2> QED BY <1>2, <2>2 DEF CleanFine, PartFine, StepType, Does, Calls, Kinds, Drops,
      Guarded, InClause, AwsBatchCleanSteps, S, Skip, Last
<1>3. CASE backend = "aliyun_fc"
  <2>1. Spelled(AliyunClean, AliyunCleanSteps)
    BY DEF Spelled, StepType, Does, Calls, Kinds, Drops, AliyunCleanSteps, S, ForEach,
      AliyunClean
  <2>2. Clean[backend] = AliyunCleanSteps
    BY <1>3, <2>1, SpelledSame DEF Clean
  <2> QED BY <1>3, <2>2 DEF CleanFine, PartFine, StepType, Does, Calls, Kinds, Drops,
      Guarded, InClause, AliyunCleanSteps, S, Skip, Last
<1>4. CASE backend = "azure_functions"
  <2>1. Spelled(AzureFunctionsClean, AzureFunctionsCleanSteps)
    BY DEF Spelled, StepType, Does, Calls, Kinds, Drops, AzureFunctionsCleanSteps, S,
      AzureFunctionsDelete, ForEach, AzureFunctionsClean
  <2>2. Clean[backend] = AzureFunctionsCleanSteps
    BY <1>4, <2>1, SpelledSame DEF Clean
  <2> QED BY <1>4, <2>2 DEF CleanFine, PartFine, StepType, Does, Calls, Kinds, Drops,
      Guarded, InClause, AzureFunctionsCleanSteps, S, Skip, Last
<1>5. CASE backend = "azure_containers"
  <2>1. Spelled(AzureContainersClean, AzureContainersCleanSteps)
    BY DEF Spelled, StepType, Does, Calls, Kinds, Drops, AzureContainersCleanSteps, S,
      AzureContainersDelete, ForEach, AzureContainersClean
  <2>2. Clean[backend] = AzureContainersCleanSteps
    BY <1>5, <2>1, SpelledSame DEF Clean
  <2> QED BY <1>5, <2>2 DEF CleanFine, PartFine, StepType, Does, Calls, Kinds, Drops,
      Guarded, InClause, AzureContainersCleanSteps, S, Skip, Last
<1>6. CASE backend = "gcp_functions"
  <2>1. Spelled(GcpFunctionsClean, GcpFunctionsCleanSteps)
    BY DEF Spelled, StepType, Does, Calls, Kinds, Drops, GcpFunctionsCleanSteps, S,
      GcpFunctionsDelete, ForEach, GcpFunctionsClean
  <2>2. Clean[backend] = GcpFunctionsCleanSteps
    BY <1>6, <2>1, SpelledSame DEF Clean
  <2> QED BY <1>6, <2>2 DEF CleanFine, PartFine, StepType, Does, Calls, Kinds, Drops,
      Guarded, InClause, GcpFunctionsCleanSteps, S, Skip, Last
<1>7. CASE backend = "gcp_cloudrun"
  <2>1. Spelled(GcpCloudrunClean, GcpCloudrunCleanSteps)
    BY DEF Spelled, StepType, Does, Calls, Kinds, Drops, GcpCloudrunCleanSteps, S,
      GcpCloudrunDelete, ForEach, GcpCloudrunClean
  <2>2. Clean[backend] = GcpCloudrunCleanSteps
    BY <1>7, <2>1, SpelledSame DEF Clean
  <2> QED BY <1>7, <2>2 DEF CleanFine, PartFine, StepType, Does, Calls, Kinds, Drops,
      Guarded, InClause, GcpCloudrunCleanSteps, S, Skip, Last
<1>8. CASE backend = "ibm_cf"
  <2>1. Spelled(IbmCfClean, IbmCfCleanSteps)
    BY DEF Spelled, StepType, Does, Calls, Kinds, Drops, IbmCfCleanSteps, S, ForEach,
      IbmCfClean
  <2>2. Clean[backend] = IbmCfCleanSteps
    BY <1>8, <2>1, SpelledSame DEF Clean
  <2> QED BY <1>8, <2>2 DEF CleanFine, PartFine, StepType, Does, Calls, Kinds, Drops,
      Guarded, InClause, IbmCfCleanSteps, S, Skip, Last
<1>9. CASE backend = "oracle_f"
  <2>1. Spelled(OracleClean, AliyunCleanSteps)
    BY DEF Spelled, StepType, Does, Calls, Kinds, Drops, AliyunCleanSteps, S, ForEach,
      OracleClean
  <2>2. Clean[backend] = AliyunCleanSteps
    BY <1>9, <2>1, SpelledSame DEF Clean
  <2> QED BY <1>9, <2>2 DEF CleanFine, PartFine, StepType, Does, Calls, Kinds, Drops,
      Guarded, InClause, AliyunCleanSteps, S, Skip, Last
<1>10. CASE backend = "openwhisk"
  <2>1. Spelled(OpenwhiskClean, IbmCfCleanSteps)
    BY DEF Spelled, StepType, Does, Calls, Kinds, Drops, IbmCfCleanSteps, S, ForEach,
      OpenwhiskClean
  <2>2. Clean[backend] = IbmCfCleanSteps
    BY <1>10, <2>1, SpelledSame DEF Clean
  <2> QED BY <1>10, <2>2 DEF CleanFine, PartFine, StepType, Does, Calls, Kinds, Drops,
      Guarded, InClause, IbmCfCleanSteps, S, Skip, Last
<1>11. CASE backend = "code_engine"
  <2>1. Spelled(CodeEngineClean, CodeEngineCleanSteps)
    BY DEF Spelled, StepType, Does, Calls, Kinds, Drops, CodeEngineCleanSteps, S,
      CodeEngineDelete, ForEach, CodeEngineCleanMaps, CodeEngineClean
  <2>2. Clean[backend] = CodeEngineCleanSteps
    BY <1>11, <2>1, SpelledSame DEF Clean
  <2> QED BY <1>11, <2>2 DEF CleanFine, PartFine, StepType, Does, Calls, Kinds, Drops,
      Guarded, InClause, CodeEngineCleanSteps, S, Skip, Last
<1>12. CASE backend = "knative"
  <2>1. Spelled(KnativeClean, GcpCloudrunCleanSteps)
    BY DEF Spelled, StepType, Does, Calls, Kinds, Drops, GcpCloudrunCleanSteps, S,
      KnativeDelete, ForEach, KnativeClean
  <2>2. Clean[backend] = GcpCloudrunCleanSteps
    BY <1>12, <2>1, SpelledSame DEF Clean
  <2> QED BY <1>12, <2>2 DEF CleanFine, PartFine, StepType, Does, Calls, Kinds, Drops,
      Guarded, InClause, GcpCloudrunCleanSteps, S, Skip, Last
<1>13. CASE backend = "k8s"
  <2>1. Clean[backend] = K8sClean
    BY <1>13 DEF Clean
  <2> QED BY <1>13, <2>1 DEF CleanFine, PartFine, StepType, Does, Calls, Kinds, Drops,
      Guarded, InClause, S, K8sClean
<1>14. CASE backend = "singularity"
  <2>1. Clean[backend] = SingularityClean
    BY <1>14 DEF Clean
  <2> QED BY <1>14, <2>1 DEF CleanFine, PartFine, StepType, Does, Calls, Kinds, Drops,
      Guarded, InClause, S, SingularityClean
<1> QED BY <1>1, <1>2, <1>3, <1>4, <1>5, <1>6, <1>7, <1>8, <1>9, <1>10, <1>11, <1>12,
      <1>13, <1>14

HIDE BoundsAssumption

-----------------------------------------------------------------------------
(* The operations of the handler, put together from the parts. *)

\* The operations, those that deploy, and where in them the metadata are saved, the
\* function is made and the image.
Ops == {"invoke", "build", "deploy", "update", "delete", "clean"}
DeployOps == {"invoke", "deploy", "update"}

Shift(op) == IF op = "deploy" THEN 0 ELSE 1
End(op) == Shift(op) + Len(Deploy[backend]) + 2
Maker(op) == Shift(op) + MakerOf[backend]
Imager(op) == Shift(op) + ImagerOf[backend]

\* A part of an operation begins after its first s steps.
Within(Q, P, s) ==
  /\ s \in Nat /\ s + Len(Q) <= Len(P)
  /\ \A i \in 1 .. Len(Q) : P[s + i] = Q[i]
  /\ s + Len(Q) < Len(P) => P[s + Len(Q) + 1].skip = 0

\* The places of a part, as places of the operation.
LEMMA Lifted ==
    ASSUME NEW Q, NEW P, NEW s, PartFine(Q), P \in Seq(StepType), Within(Q, P, s), NEW i \in 1 .. Len(Q)
    PROVE  /\ s + i \in 1 .. Len(P)
           /\ InClause(Q, i) <=> InClause(P, s + i)
           /\ InGap(Q, i) => InGap(P, s + i)
<1> USE DEF Within, PartFine
<1>1. Len(Q) \in Nat /\ Len(P) \in Nat /\ P[s + i] = Q[i]
  OBVIOUS
<1>2. i + 1 <= Len(Q) => P[s + i + 1] = Q[i + 1]
  <2> SUFFICES ASSUME i + 1 <= Len(Q) PROVE P[s + i + 1] = Q[i + 1]
    OBVIOUS
  <2>1. i + 1 \in 1 .. Len(Q) /\ s + (i + 1) = s + i + 1
    BY <1>1
  <2> QED BY <2>1
<1>3. i = Len(Q) /\ s + i + 1 <= Len(P) => P[s + i + 1].skip = 0
  BY <1>1
<1>4. s + i \in 1 .. Len(P)
  BY <1>1
<1>5. InClause(Q, i) <=> InClause(P, s + i)
  BY <1>1, <1>2, <1>3, <1>4 DEF InClause
<1>6. InGap(Q, i) => InGap(P, s + i)
  BY <1>1, <1>2, <1>3, <1>4 DEF InGap
<1> QED BY <1>4, <1>5, <1>6

\* What the operation has of the part.
LEMMA LiftedFine ==
    ASSUME NEW Q, NEW P, NEW s, PartFine(Q), P \in Seq(StepType), Within(Q, P, s), NEW i \in 1 .. Len(Q)
    PROVE  /\ Guarded(P[s + i]) => InClause(P, s + i + P[s + i].skip)
           /\ InClause(P, s + i) => P[s + i].do \in Drops /\ P[s + i].k # "function"
           /\ Replaced(Q) /\ DropsFunction(P[s + i]) =>
                /\ backend \in Replacing /\ P[s + i].skip = 0 /\ P[s + i].do # "purge"
                /\ InGap(P, s + i + 1)
<1>1. P[s + i] = Q[i] /\ s \in Nat /\ Len(Q) \in Nat /\ Q[i].skip \in Int
  BY DEF Within, PartFine, StepType
<1>2. Guarded(Q[i]) => InClause(P, s + i + Q[i].skip)
  <2> SUFFICES ASSUME Guarded(Q[i]) PROVE InClause(P, s + i + Q[i].skip)
    OBVIOUS
  <2>1. InClause(Q, i + Q[i].skip)
    BY DEF PartFine
  <2>2. i + Q[i].skip \in 1 .. Len(Q) /\ s + (i + Q[i].skip) = s + i + Q[i].skip
    BY <1>1, <2>1 DEF InClause
  <2> QED BY <2>1, <2>2, Lifted
<1>3. InClause(P, s + i) => Q[i].do \in Drops /\ Q[i].k # "function"
  BY Lifted DEF PartFine
<1>4. ASSUME Replaced(Q), DropsFunction(Q[i])
      PROVE  backend \in Replacing /\ Q[i].skip = 0 /\ Q[i].do # "purge" /\ InGap(P, s + i + 1)
  <2>1. backend \in Replacing /\ Q[i].skip = 0 /\ Q[i].do # "purge" /\ InGap(Q, i + 1)
    BY <1>4 DEF Replaced
  <2>2. i + 1 \in 1 .. Len(Q) /\ s + (i + 1) = s + i + 1
    BY <1>1, <2>1 DEF InGap
  <2> QED BY <2>1, <2>2, Lifted
<1> QED BY <1>1, <1>2, <1>3, <1>4

\* A step without a jump.
LEMMA PlainStep ==
    /\ \A k \in Kinds, d \in Does :
         (d \in {"store", "save"} => k \in {"full", "short"}) /\ d \notin {"look", "try", "fresh", "off", "clear", "clear?", "sweep?"} \cup Drops
            => S(d, k) \in StepType
    /\ \A k, d : S(d, k).do = d /\ S(d, k).k = k /\ S(d, k).skip = 0
BY DEF S, StepType

\* Two parts, one after the other.
Join(X, Y) == X \o Y

\* A join has the steps of both parts ...
LEMMA JoinType ==
    ASSUME NEW X \in Seq(StepType), NEW Y \in Seq(StepType)
    PROVE  Join(X, Y) \in Seq(StepType) /\ Len(Join(X, Y)) = Len(X) + Len(Y)
BY DEF Join

\* ... first those of the one ...
LEMMA JoinLeft ==
    ASSUME NEW X \in Seq(StepType), NEW Y \in Seq(StepType), NEW i \in 1 .. Len(X)
    PROVE  Join(X, Y)[i] = X[i]
BY DEF Join

\* ... and then those of the other.
LEMMA JoinRight ==
    ASSUME NEW X \in Seq(StepType), NEW Y \in Seq(StepType), NEW i \in 1 .. Len(Y)
    PROVE  Join(X, Y)[Len(X) + i] = Y[i]
BY DEF Join

\* A step, a part, and what follows it.
Framed(a, D, T) == Join(Join(<<a>>, D), T)

\* A framed part has its own steps, one before and some after ...
LEMMA FramedType ==
    ASSUME NEW a \in StepType, NEW D \in Seq(StepType), NEW T \in Seq(StepType)
    PROVE  Framed(a, D, T) \in Seq(StepType) /\ Len(Framed(a, D, T)) = 1 + Len(D) + Len(T)
<1> DEFINE A == <<a>>
<1>1. A \in Seq(StepType) /\ Len(A) = 1
  OBVIOUS
<1>2. Framed(a, D, T) = Join(Join(A, D), T)
  BY DEF Framed
<1> HIDE DEF A
<1>3. Join(A, D) \in Seq(StepType) /\ Len(Join(A, D)) = 1 + Len(D)
  BY <1>1, JoinType
<1> QED BY <1>2, <1>3, JoinType

\* ... the first ...
LEMMA FramedFirst ==
    ASSUME NEW a \in StepType, NEW D \in Seq(StepType), NEW T \in Seq(StepType)
    PROVE  Framed(a, D, T)[1] = a
<1> DEFINE A == <<a>>
<1>1. A \in Seq(StepType) /\ 1 \in 1 .. Len(A) /\ A[1] = a
  OBVIOUS
<1>2. Framed(a, D, T) = Join(Join(A, D), T)
  BY DEF Framed
<1> HIDE DEF A
<1>3. Join(A, D) \in Seq(StepType) /\ Join(A, D)[1] = a
  BY <1>1, JoinType, JoinLeft
<1>4. 1 \in 1 .. Len(Join(A, D))
  BY <1>1, JoinType
<1> QED BY <1>2, <1>3, <1>4, JoinLeft

\* ... its own ...
LEMMA FramedMiddle ==
    ASSUME NEW a \in StepType, NEW D \in Seq(StepType), NEW T \in Seq(StepType),
           NEW i \in 1 .. Len(D)
    PROVE  Framed(a, D, T)[1 + i] = D[i]
<1> DEFINE A == <<a>>
<1>1. A \in Seq(StepType) /\ Len(A) = 1
  OBVIOUS
<1>2. Framed(a, D, T) = Join(Join(A, D), T)
  BY DEF Framed
<1> HIDE DEF A
<1>3. Join(A, D) \in Seq(StepType) /\ Len(Join(A, D)) = 1 + Len(D)
  BY <1>1, JoinType
<1>4. Join(A, D)[Len(A) + i] = D[i]
  BY <1>1, JoinRight
<1>5. 1 + i \in 1 .. Len(Join(A, D)) /\ Join(A, D)[1 + i] = D[i]
  BY <1>1, <1>3, <1>4
<1> QED BY <1>2, <1>3, <1>5, JoinLeft

\* ... and those that follow.
LEMMA FramedLast ==
    ASSUME NEW a \in StepType, NEW D \in Seq(StepType), NEW T \in Seq(StepType),
           NEW i \in 1 .. Len(T)
    PROVE  Framed(a, D, T)[1 + Len(D) + i] = T[i]
<1> DEFINE A == <<a>> Q == Join(A, D)
<1>1. A \in Seq(StepType) /\ Len(A) = 1
  OBVIOUS
<1>2. Framed(a, D, T) = Join(Q, T)
  BY DEF Framed
<1> HIDE DEF A
<1>3. Q \in Seq(StepType)
  BY <1>1, JoinType
<1>4. Len(Q) = 1 + Len(D)
  BY <1>1, JoinType
<1> HIDE DEF Q
<1>5. Join(Q, T)[Len(Q) + i] = T[i]
  BY <1>3, JoinRight
<1> QED BY <1>2, <1>4, <1>5

\* The steps of deploy_runtime and of the handler around it: what each operation is
\* made of, in the order of the handler.
LEMMA DeployFacts ==
    ASSUME backend \in Backends
    PROVE  LET P == Program("deploy") D == Deploy[backend]
           IN /\ P \in Seq(StepType) /\ Len(P) = Len(D) + 2 /\ Len(D) \in Nat
              /\ Within(D, P, 0)
              /\ P[Len(D) + 1] = S("store", "full")
              /\ P[Len(D) + 2] = S("save", "full")
<1> DEFINE P == Program("deploy") D == Deploy[backend]
           T == <<S("store", "full"), S("save", "full")>>
<1>1. D \in Seq(StepType)
  BY DeployIs DEF DeployFine, PartFine
<1>2. T \in Seq(StepType)
  BY PlainStep DEF Does, Kinds, Drops
<1>3. P = Join(D, T)
  BY DEF Program, Programs, CliDeploy, Join
<1>4. T[1] = S("store", "full") /\ T[2] = S("save", "full") /\ T[1].skip = 0
  BY PlainStep
<1>5. Len(T) = 2 /\ 1 \in 1 .. Len(T) /\ 2 \in 1 .. Len(T)
  OBVIOUS
<1> HIDE DEF T, P, D
<1>6. P \in Seq(StepType) /\ Len(P) = Len(D) + Len(T)
  BY <1>1, <1>2, <1>3, JoinType
<1>7. ASSUME NEW i \in 1 .. Len(D)
      PROVE  P[i] = D[i]
  BY <1>1, <1>2, <1>3, JoinLeft
<1>8. P[Len(D) + 1] = T[1] /\ P[Len(D) + 2] = T[2]
  BY <1>1, <1>2, <1>3, <1>5, JoinRight
<1>9. Len(D) \in Nat
  BY <1>1
<1>10. Within(D, P, 0)
  BY <1>4, <1>5, <1>6, <1>7, <1>8, <1>9 DEF Within
<1> QED BY <1>4, <1>5, <1>6, <1>8, <1>9, <1>10 DEF P, D

\* A job: the metadata are selected, or the runtime is deployed, and then invoked.
LEMMA InvokeFacts ==
    ASSUME backend \in Backends
    PROVE  LET P == Program("invoke") D == Deploy[backend] V == Invoke[backend]
           IN /\ P \in Seq(StepType) /\ Len(P) = Len(D) + 3 + Len(V)
              /\ Len(D) \in Nat /\ Len(V) \in Nat
              /\ Within(D, P, 1) /\ Within(V, P, Len(D) + 3)
              /\ P[1] = S("select", "meta")
              /\ P[Len(D) + 2] = S("store", "full")
              /\ P[Len(D) + 3] = S("save", "full")
              /\ Len(SelectRuntime(backend)) = Len(D) + 3
<1> DEFINE P == Program("invoke") D == Deploy[backend] V == Invoke[backend]
           a == S("select", "meta") T == <<S("store", "full"), S("save", "full")>>
           R == SelectRuntime(backend)
<1>1. D \in Seq(StepType) /\ V \in Seq(StepType)
  BY DeployIs, InvokeIs DEF DeployFine, InvokeFine, PartFine
<1>2. a \in StepType /\ T \in Seq(StepType)
  BY PlainStep DEF Does, Kinds, Drops
<1>3. R = Framed(a, D, T)
  BY DEF SelectRuntime, Framed, Join
<1>4. P = Join(R, V)
  BY DEF Program, Programs, Join
<1>5. T[1] = S("store", "full") /\ T[2] = S("save", "full") /\ T[1].skip = 0
  BY PlainStep
<1>6. Len(T) = 2 /\ 1 \in 1 .. Len(T) /\ 2 \in 1 .. Len(T)
  OBVIOUS
<1> HIDE DEF P, D, V, a, T, R
<1>7. Len(D) \in Nat /\ Len(V) \in Nat
  BY <1>1
<1>8. R \in Seq(StepType)
  BY <1>1, <1>2, <1>3, FramedType
<1>9. Len(R) = 1 + Len(D) + Len(T)
  BY <1>1, <1>2, <1>3, FramedType
<1>10. Len(R) = Len(D) + 3
  BY <1>6, <1>7, <1>9
<1>11. P \in Seq(StepType) /\ Len(P) = Len(R) + Len(V)
  BY <1>1, <1>4, <1>8, JoinType
<1>12. ASSUME NEW i \in 1 .. Len(R)
       PROVE  P[i] = R[i]
  BY <1>1, <1>4, <1>8, JoinLeft
<1>13. ASSUME NEW i \in 1 .. Len(V)
       PROVE  P[Len(R) + i] = V[i]
  BY <1>1, <1>4, <1>8, JoinRight
<1>14. P[1] = a
  <2>1. 1 \in 1 .. Len(R)
    BY <1>7, <1>10
  <2>2. R[1] = a
    BY <1>1, <1>2, <1>3, FramedFirst
  <2> QED BY <2>1, <2>2, <1>12
<1>15. ASSUME NEW i \in 1 .. Len(D)
       PROVE  P[1 + i] = D[i]
  <2>1. 1 + i \in 1 .. Len(R)
    BY <1>7, <1>10
  <2>2. R[1 + i] = D[i]
    BY <1>1, <1>2, <1>3, FramedMiddle
  <2> QED BY <2>1, <2>2, <1>12
<1>16. ASSUME NEW i \in 1 .. 2
       PROVE  P[Len(D) + 1 + i] = T[i]
  <2>1. 1 + Len(D) + i \in 1 .. Len(R) /\ 1 + Len(D) + i = Len(D) + 1 + i
    BY <1>7, <1>10
  <2>2. R[1 + Len(D) + i] = T[i]
    BY <1>1, <1>2, <1>3, <1>6, FramedLast
  <2> QED BY <2>1, <2>2, <1>12
<1>17. P[Len(D) + 2] = T[1] /\ P[Len(D) + 3] = T[2]
  <2>1. Len(D) + 1 + 1 = Len(D) + 2 /\ Len(D) + 1 + 2 = Len(D) + 3
    BY <1>7
  <2> QED BY <1>16, <2>1
<1>18. Within(D, P, 1)
  BY <1>5, <1>7, <1>10, <1>11, <1>15, <1>17 DEF Within
<1>19. Within(V, P, Len(D) + 3)
  BY <1>7, <1>10, <1>11, <1>13 DEF Within
<1> QED BY <1>5, <1>7, <1>10, <1>11, <1>14, <1>17, <1>18, <1>19 DEF P, D, V, a, R

\* The command that redeploys the runtimes listed.
LEMMA UpdateFacts ==
    ASSUME backend \in Backends
    PROVE  LET P == Program("update") D == Deploy[backend]
           IN /\ P \in Seq(StepType) /\ Len(P) = Len(D) + 4 /\ Len(D) \in Nat
              /\ Within(D, P, 1)
              /\ P[1] = S("list", "some")
              /\ P[Len(D) + 2] = S("store", "short")
              /\ P[Len(D) + 3] = S("save", "short")
              /\ P[Len(D) + 4] = S("next", "function")
<1> DEFINE P == Program("update") D == Deploy[backend] a == S("list", "some")
           T == <<S("store", "short"), S("save", "short"), S("next", "function")>>
<1>1. D \in Seq(StepType)
  BY DeployIs DEF DeployFine, PartFine
<1>2. a \in StepType /\ T \in Seq(StepType)
  BY PlainStep DEF Does, Kinds, Drops
<1>3. P = Framed(a, D, T)
  BY DEF Program, Programs, CliUpdate, Framed, Join
<1>4. /\ T[1] = S("store", "short") /\ T[2] = S("save", "short")
      /\ T[3] = S("next", "function") /\ T[1].skip = 0
  BY PlainStep
<1>5. Len(T) = 3 /\ \A i \in 1 .. 3 : i \in 1 .. Len(T)
  OBVIOUS
<1> HIDE DEF P, D, a, T
<1>6. Len(D) \in Nat
  BY <1>1
<1>7. P \in Seq(StepType) /\ Len(P) = 1 + Len(D) + Len(T)
  BY <1>1, <1>2, <1>3, FramedType
<1>8. P[1] = a
  BY <1>1, <1>2, <1>3, FramedFirst
<1>9. ASSUME NEW i \in 1 .. Len(D)
      PROVE  P[1 + i] = D[i]
  BY <1>1, <1>2, <1>3, FramedMiddle
<1>10. ASSUME NEW i \in 1 .. 3
       PROVE  P[1 + Len(D) + i] = T[i]
  BY <1>1, <1>2, <1>3, <1>5, FramedLast
<1>11. P[Len(D) + 2] = T[1] /\ P[Len(D) + 3] = T[2] /\ P[Len(D) + 4] = T[3]
  <2>1. /\ 1 + Len(D) + 1 = Len(D) + 2 /\ 1 + Len(D) + 2 = Len(D) + 3
        /\ 1 + Len(D) + 3 = Len(D) + 4
    BY <1>6
  <2>2. 1 \in 1 .. 3 /\ 2 \in 1 .. 3 /\ 3 \in 1 .. 3
    OBVIOUS
  <2> QED BY <1>10, <2>1, <2>2
<1>12. Within(D, P, 1)
  BY <1>4, <1>5, <1>6, <1>7, <1>9, <1>11 DEF Within
<1> QED BY <1>4, <1>5, <1>6, <1>7, <1>8, <1>11, <1>12 DEF P, D, a

\* The command that deletes the runtimes listed.
LEMMA DeleteFacts ==
    ASSUME backend \in Backends
    PROVE  LET P == Program("delete") D == Delete[backend]
           IN /\ P \in Seq(StepType) /\ Len(P) = Len(D) + 4 /\ Len(D) \in Nat
              /\ Within(D, P, 1)
              /\ P[1] = S("list", "some")
              /\ P[Len(D) + 2] = S("unsave", "meta")
              /\ P[Len(D) + 3] = S("unstore", "meta")
              /\ P[Len(D) + 4] = S("next", "function")
<1> DEFINE P == Program("delete") D == Delete[backend] a == S("list", "some")
           T == <<S("unsave", "meta"), S("unstore", "meta"), S("next", "function")>>
<1>1. D \in Seq(StepType)
  BY DeleteIs DEF DeleteFine, PartFine
<1>2. a \in StepType /\ T \in Seq(StepType)
  BY PlainStep DEF Does, Kinds, Drops
<1>3. P = Framed(a, D, T)
  BY DEF Program, Programs, CliDelete, Framed, Join
<1>4. /\ T[1] = S("unsave", "meta") /\ T[2] = S("unstore", "meta")
      /\ T[3] = S("next", "function") /\ T[1].skip = 0
  BY PlainStep
<1>5. Len(T) = 3 /\ \A i \in 1 .. 3 : i \in 1 .. Len(T)
  OBVIOUS
<1> HIDE DEF P, D, a, T
<1>6. Len(D) \in Nat
  BY <1>1
<1>7. P \in Seq(StepType) /\ Len(P) = 1 + Len(D) + Len(T)
  BY <1>1, <1>2, <1>3, FramedType
<1>8. P[1] = a
  BY <1>1, <1>2, <1>3, FramedFirst
<1>9. ASSUME NEW i \in 1 .. Len(D)
      PROVE  P[1 + i] = D[i]
  BY <1>1, <1>2, <1>3, FramedMiddle
<1>10. ASSUME NEW i \in 1 .. 3
       PROVE  P[1 + Len(D) + i] = T[i]
  BY <1>1, <1>2, <1>3, <1>5, FramedLast
<1>11. P[Len(D) + 2] = T[1] /\ P[Len(D) + 3] = T[2] /\ P[Len(D) + 4] = T[3]
  <2>1. /\ 1 + Len(D) + 1 = Len(D) + 2 /\ 1 + Len(D) + 2 = Len(D) + 3
        /\ 1 + Len(D) + 3 = Len(D) + 4
    BY <1>6
  <2>2. 1 \in 1 .. 3 /\ 2 \in 1 .. 3 /\ 3 \in 1 .. 3
    OBVIOUS
  <2> QED BY <1>10, <2>1, <2>2
<1>12. Within(D, P, 1)
  BY <1>4, <1>5, <1>6, <1>7, <1>9, <1>11 DEF Within
<1> QED BY <1>4, <1>5, <1>6, <1>7, <1>8, <1>11, <1>12 DEF P, D, a

\* The cleaning of a backend, and of the storage after it.
LEMMA CleanFacts ==
    ASSUME backend \in Backends
    PROVE  LET P == Program("clean") D == Clean[backend]
           IN /\ P \in Seq(StepType) /\ Len(P) > Len(D) /\ Len(D) \in Nat
              /\ Within(D, P, 0)
              /\ \A i \in 1 .. Len(P) :
                   i > Len(D) => P[i] \in {S("unstore", "all"), S("clear", "reply"), S("unsave", "all")}
<1> DEFINE P == Program("clean") D == Clean[backend]
           E == {S("unstore", "all"), S("clear", "reply"), S("unsave", "all")}
           X == <<S("unstore", "all")>> Z == <<S("unsave", "all")>>
           Y == IF backend \in AnswersWithJobs THEN <<S("clear", "reply")>> ELSE << >>
           Q == Join(D, X) R == Join(Q, Y)
<1>1. D \in Seq(StepType)
  BY CleanIs DEF CleanFine, PartFine
<1>2. E \subseteq StepType /\ \A s \in E : s.skip = 0
  BY DEF S, StepType, Does, Calls, Kinds, Drops
<1>0. X \in Seq(E) /\ Y \in Seq(E) /\ Z \in Seq(E)
  <2>1. S("unstore", "all") \in E /\ S("clear", "reply") \in E /\ S("unsave", "all") \in E
    OBVIOUS
  <2> HIDE DEF E
  <2>2. X \in Seq(E) /\ Z \in Seq(E)
    BY <2>1
  <2>3. Y \in Seq(E)
    <3>1. CASE backend \in AnswersWithJobs
      BY <2>1, <3>1
    <3>2. CASE backend \notin AnswersWithJobs
      BY <2>1, <3>2
    <3> QED BY <3>1, <3>2
  <2> QED BY <2>2, <2>3
<1>3. Len(X) = 1 /\ Len(Z) = 1 /\ 1 \in 1 .. Len(X) /\ 1 \in 1 .. Len(Z)
  OBVIOUS
<1>4. P = Join(R, Z)
  BY DEF Program, Programs, CliClean, Join
<1> HIDE DEF P, D, X, Y, Z, E
<1>5. X \in Seq(StepType) /\ Y \in Seq(StepType) /\ Z \in Seq(StepType)
  BY <1>0, <1>2
<1>6. Len(D) \in Nat /\ Len(Y) \in Nat
  BY <1>0, <1>1
<1>7. Q \in Seq(StepType) /\ Len(Q) = Len(D) + Len(X)
  BY <1>1, <1>5, JoinType
<1> HIDE DEF Q
<1>8. R \in Seq(StepType) /\ Len(R) = Len(Q) + Len(Y)
  BY <1>5, <1>7, JoinType
<1> HIDE DEF R
<1>9. P \in Seq(StepType) /\ Len(P) = Len(R) + Len(Z)
  BY <1>4, <1>5, <1>8, JoinType
<1>10. ASSUME NEW i \in 1 .. Len(D)
       PROVE  P[i] = D[i]
  <2>1. Q[i] = D[i]
    BY <1>1, <1>5, JoinLeft DEF Q
  <2>2. i \in 1 .. Len(Q)
    BY <1>3, <1>6, <1>7
  <2>3. R[i] = Q[i]
    BY <1>5, <1>7, <2>2, JoinLeft DEF R
  <2>4. i \in 1 .. Len(R)
    BY <1>3, <1>6, <1>7, <1>8
  <2>5. P[i] = R[i]
    BY <1>4, <1>5, <1>8, <2>4, JoinLeft
  <2> QED BY <2>1, <2>3, <2>5
<1>11. ASSUME NEW i \in 1 .. Len(P), i > Len(D)
       PROVE  P[i] \in E
  <2>1. CASE i = Len(P)
    <3>1. 1 \in 1 .. Len(Z) /\ Z[1] \in E
      <4>1. \A n \in 1 .. Len(Z) : Z[n] \in E
        BY <1>0
      <4> QED BY <1>3, <4>1
    <3>2. P[Len(R) + 1] = Z[1]
      BY <1>4, <1>5, <1>8, <3>1, JoinRight
    <3> QED BY <1>3, <1>9, <2>1, <3>1, <3>2
  <2>2. CASE i = Len(D) + 1 /\ i # Len(P)
    <3>1. 1 \in 1 .. Len(X) /\ X[1] \in E
      <4>1. \A n \in 1 .. Len(X) : X[n] \in E
        BY <1>0
      <4> QED BY <1>3, <4>1
    <3>2. Q[Len(D) + 1] = X[1]
      BY <1>1, <1>5, <3>1, JoinRight DEF Q
    <3>3. i \in 1 .. Len(Q) /\ i \in 1 .. Len(R)
      BY <1>3, <1>6, <1>7, <1>8, <1>9, <2>2
    <3>4. R[i] = Q[i]
      BY <1>5, <1>7, <3>3, JoinLeft DEF R
    <3>5. P[i] = R[i]
      BY <1>4, <1>5, <1>8, <3>3, JoinLeft
    <3> QED BY <2>2, <3>1, <3>2, <3>4, <3>5
  <2>3. CASE i # Len(D) + 1 /\ i # Len(P)
    <3> DEFINE n == i - Len(Q)
    <3>1. n \in 1 .. Len(Y) /\ i = Len(Q) + n /\ i \in 1 .. Len(R)
      BY <1>3, <1>6, <1>7, <1>8, <1>9, <1>11, <2>3
    <3> HIDE DEF n
    <3>2. Y[n] \in E
      BY <1>0, <3>1
    <3>3. R[Len(Q) + n] = Y[n]
      BY <1>5, <1>7, <3>1, JoinRight DEF R
    <3>4. P[i] = R[i]
      BY <1>4, <1>5, <1>8, <3>1, JoinLeft
    <3> QED BY <3>1, <3>2, <3>3, <3>4
  <2> QED BY <2>1, <2>2, <2>3
<1>12. Len(P) > Len(D)
  BY <1>3, <1>6, <1>7, <1>8, <1>9
<1>13. Within(D, P, 0)
  <2>1. Len(D) + 1 \in 1 .. Len(P) /\ Len(P) \in Nat
    BY <1>3, <1>6, <1>7, <1>8, <1>9
  <2>2. P[Len(D) + 1].skip = 0
    BY <1>2, <1>6, <1>11, <2>1
  <2> QED BY <1>6, <1>10, <1>12, <2>1, <2>2 DEF Within
<1> QED BY <1>6, <1>9, <1>11, <1>12, <1>13 DEF P, D, E

-----------------------------------------------------------------------------
(* Every step of every operation. *)

\* What is true of step i of an operation: an exception in a try statement leads to its
\* finally clause, which only deletes, and no functions; loops have an end; and a
\* function is deleted by deletions and cleanings, or to be made again.
StepFine(op, P, i) ==
  /\ Guarded(P[i]) => InClause(P, i + P[i].skip)
  /\ InClause(P, i) => P[i].do \in Drops /\ P[i].k # "function"
  /\ P[i].do \in {"list", "next"} =>
       2 <= Len(P) /\ \E j \in 1 .. Len(P) : P[j].do = "next"
  /\ DropsFunction(P[i]) =>
       \/ op \in {"delete", "clean"}
       \/ /\ op \in DeployOps /\ backend \in Replacing
          /\ P[i].skip = 0 /\ P[i].do # "purge" /\ InGap(P, i + 1)

\* What follows a part, or begins one, is outside every finally clause.
LEMMA PartBegins ==
    ASSUME NEW Q, NEW P, NEW s, PartFine(Q), P \in Seq(StepType), Within(Q, P, s),
           s + 1 <= Len(P)
    PROVE  P[s + 1].skip # -1
<1>1. CASE Len(Q) = 0
  BY <1>1 DEF Within
<1>2. CASE Len(Q) > 0
  <2>1. 1 \in 1 .. Len(Q) /\ Q[1].skip # -1
    BY <1>2 DEF PartFine
  <2> QED BY <2>1 DEF Within
<1>3. Len(Q) \in Nat
  BY DEF PartFine
<1> QED BY <1>1, <1>2, <1>3

\* An operation may delete functions, replace them, or neither.
Allowed(op, Q) ==
  \/ op \in {"delete", "clean"}
  \/ op \in DeployOps /\ Replaced(Q)
  \/ \A i \in 1 .. Len(Q) : ~DropsFunction(Q[i])

\* A step of a part is fine in the operation ...
LEMMA PartStepFine ==
    ASSUME NEW Q, NEW P, NEW s, PartFine(Q), P \in Seq(StepType), Within(Q, P, s),
           NEW op, Allowed(op, Q),
           NEW j \in 1 .. Len(Q),
           Q[j].do \in {"list", "next"} =>
             2 <= Len(P) /\ \E i \in 1 .. Len(P) : P[i].do = "next"
    PROVE  StepFine(op, P, s + j)
<1>1. P[s + j] = Q[j]
  BY DEF Within
<1>2. /\ Guarded(P[s + j]) => InClause(P, s + j + P[s + j].skip)
      /\ InClause(P, s + j) => P[s + j].do \in Drops /\ P[s + j].k # "function"
      /\ Replaced(Q) /\ DropsFunction(P[s + j]) =>
           /\ backend \in Replacing /\ P[s + j].skip = 0 /\ P[s + j].do # "purge"
           /\ InGap(P, s + j + 1)
  BY LiftedFine
<1> QED BY <1>1, <1>2 DEF StepFine, Allowed

\* ... and so is one of the handler, which guards nothing.
LEMMA SingleStepFine ==
    ASSUME NEW P, NEW op, NEW i \in 1 .. Len(P), P[i].skip = 0, P[i].do \notin Drops,
           i + 1 <= Len(P) => P[i + 1].skip # -1,
           P[i].do \in {"list", "next"} =>
             2 <= Len(P) /\ \E j \in 1 .. Len(P) : P[j].do = "next"
    PROVE  StepFine(op, P, i)
BY DEF StepFine, Guarded, InClause, DropsFunction

\* What the steps of the handler are.
LEMMA PlainDoes ==
    /\ \A d \in {"select", "store", "save", "unsave", "unstore", "list", "next", "clear"} :
         d \notin Drops
    /\ \A d \in {"select", "store", "save", "unsave", "unstore", "clear"} :
         d \notin {"list", "next"}
    /\ \A d, k : S(d, k).do = d /\ S(d, k).k = k /\ S(d, k).skip = 0
BY DEF Drops, S

\* The building of a runtime, step by step.
LEMMA BuildFineProgram ==
    ASSUME backend \in Backends, NEW i \in 1 .. Len(Program("build"))
    PROVE  StepFine("build", Program("build"), i)
<1>1. Program("build") = Build[backend]
  BY DEF Program, Programs, CliBuild
<1>2. BuildFine(Build[backend])
  BY BuildIs
<1>3. Within(Build[backend], Program("build"), 0) /\ 0 + i = i
  BY <1>1, <1>2 DEF BuildFine, PartFine, Within
<1>4. Program("build") \in Seq(StepType)
  BY <1>1, <1>2 DEF BuildFine, PartFine
<1>5. Build[backend][i].do \notin {"list", "next"}
  BY <1>1, <1>2 DEF BuildFine, NoLoop
<1> QED BY <1>1, <1>2, <1>3, <1>4, <1>5, PartStepFine DEF BuildFine, Allowed

\* A deployment, step by step.
LEMMA DeployFineProgram ==
    ASSUME backend \in Backends, NEW i \in 1 .. Len(Program("deploy"))
    PROVE  StepFine("deploy", Program("deploy"), i)
<1> DEFINE P == Program("deploy") D == Deploy[backend] n == Len(D)
<1>1. PartFine(D) /\ NoLoop(D) /\ Replaced(D)
  BY DeployIs DEF DeployFine
<1>2. /\ P \in Seq(StepType) /\ Len(P) = Len(D) + 2 /\ Len(D) \in Nat
      /\ Within(D, P, 0)
      /\ P[Len(D) + 1] = S("store", "full")
      /\ P[Len(D) + 2] = S("save", "full")
  BY DeployFacts
<1> HIDE DEF P, D
<1>3. CASE i <= n
  <2>1. i \in 1 .. Len(D) /\ D[i].do \notin {"list", "next"} /\ 0 + i = i
    BY <1>1, <1>2, <1>3 DEF NoLoop
  <2> QED BY <1>1, <1>2, <2>1, PartStepFine DEF DeployOps, Allowed, P
<1>4. CASE i = n + 1
  <2>1. i + 1 = n + 2
    BY <1>2, <1>4
  <2>2. P[i].skip = 0 /\ P[i].do \notin Drops /\ P[i + 1].skip # -1 /\ P[i].do \notin {"list", "next"}
    BY <1>2, <1>4, <2>1, PlainDoes
  <2> QED BY <2>2, SingleStepFine DEF P
<1>5. CASE i = n + 2
  <2>1. ~(i + 1 <= Len(P))
    BY <1>2, <1>5
  <2>2. P[i].skip = 0 /\ P[i].do \notin Drops /\ P[i].do \notin {"list", "next"}
    BY <1>2, <1>5, PlainDoes
  <2> QED BY <2>1, <2>2, SingleStepFine DEF P
<1> QED BY <1>2, <1>3, <1>4, <1>5 DEF P

\* A job, step by step.
LEMMA InvokeFineProgram ==
    ASSUME backend \in Backends, NEW i \in 1 .. Len(Program("invoke"))
    PROVE  StepFine("invoke", Program("invoke"), i)
<1> DEFINE P == Program("invoke") D == Deploy[backend] V == Invoke[backend] n == Len(D)
<1>1. PartFine(D) /\ NoLoop(D) /\ Replaced(D) /\ PartFine(V) /\ NoLoop(V) /\ Replaced(V)
  BY DeployIs, InvokeIs DEF DeployFine, InvokeFine
<1>2. /\ P \in Seq(StepType) /\ Len(P) = Len(D) + 3 + Len(V)
      /\ Len(D) \in Nat /\ Len(V) \in Nat
      /\ Within(D, P, 1) /\ Within(V, P, Len(D) + 3)
      /\ P[1] = S("select", "meta")
      /\ P[Len(D) + 2] = S("store", "full")
      /\ P[Len(D) + 3] = S("save", "full")
  BY InvokeFacts
<1>3. i \in 1 .. Len(P)
  OBVIOUS
<1> HIDE DEF P, D, V
<1>4. CASE i = 1
  <2>1. P[1 + 1].skip # -1
    <3>1. 1 + 1 <= Len(P)
      BY <1>2
    <3> QED BY <1>1, <1>2, <3>1, PartBegins
  <2>2. P[i].skip = 0 /\ P[i].do \notin Drops /\ P[i].do \notin {"list", "next"}
    BY <1>2, <1>4, PlainDoes
  <2> QED BY <1>3, <1>4, <2>1, <2>2, SingleStepFine DEF P
<1>5. CASE i \in 2 .. n + 1
  <2> DEFINE j == i - 1
  <2>1. j \in 1 .. Len(D) /\ 1 + j = i
    BY <1>2, <1>5
  <2> HIDE DEF j
  <2>2. D[j].do \notin {"list", "next"}
    BY <1>1, <2>1 DEF NoLoop
  <2>3. StepFine("invoke", P, 1 + j)
    BY <1>1, <1>2, <2>1, <2>2, PartStepFine DEF DeployOps, Allowed
  <2> QED BY <2>1, <2>3 DEF P
<1>6. CASE i = n + 2
  <2>1. i + 1 = n + 3
    BY <1>2, <1>6
  <2>2. P[i].skip = 0 /\ P[i].do \notin Drops /\ P[i + 1].skip # -1 /\ P[i].do \notin {"list", "next"}
    BY <1>2, <1>6, <2>1, PlainDoes
  <2> QED BY <1>3, <2>2, SingleStepFine DEF P
<1>7. CASE i = n + 3
  <2>1. i + 1 <= Len(P) => P[i + 1].skip # -1
    BY <1>1, <1>2, <1>7, PartBegins
  <2>2. P[i].skip = 0 /\ P[i].do \notin Drops /\ P[i].do \notin {"list", "next"}
    BY <1>2, <1>7, PlainDoes
  <2> QED BY <1>3, <2>1, <2>2, SingleStepFine DEF P
<1>8. CASE i > n + 3
  <2> DEFINE j == i - (n + 3)
  <2>1. j \in 1 .. Len(V) /\ (n + 3) + j = i
    BY <1>2, <1>3, <1>8
  <2> HIDE DEF j
  <2>2. V[j].do \notin {"list", "next"}
    BY <1>1, <2>1 DEF NoLoop
  <2>3. StepFine("invoke", P, (n + 3) + j)
    BY <1>1, <1>2, <2>1, <2>2, PartStepFine DEF DeployOps, Allowed
  <2> QED BY <2>1, <2>3 DEF P
<1> QED BY <1>2, <1>3, <1>4, <1>5, <1>6, <1>7, <1>8 DEF P

\* A redeployment, step by step.
LEMMA UpdateFineProgram ==
    ASSUME backend \in Backends, NEW i \in 1 .. Len(Program("update"))
    PROVE  StepFine("update", Program("update"), i)
<1> DEFINE P == Program("update") D == Deploy[backend] n == Len(D)
<1>1. PartFine(D) /\ NoLoop(D) /\ Replaced(D)
  BY DeployIs DEF DeployFine
<1>2. /\ P \in Seq(StepType) /\ Len(P) = Len(D) + 4 /\ Len(D) \in Nat
      /\ Within(D, P, 1)
      /\ P[1] = S("list", "some")
      /\ P[Len(D) + 2] = S("store", "short")
      /\ P[Len(D) + 3] = S("save", "short")
      /\ P[Len(D) + 4] = S("next", "function")
  BY UpdateFacts
<1>3. i \in 1 .. Len(P)
  OBVIOUS
<1> HIDE DEF P, D
<1>9. 2 <= Len(P) /\ \E j \in 1 .. Len(P) : P[j].do = "next"
  <2>1. n + 4 \in 1 .. Len(P) /\ P[n + 4].do = "next"
    BY <1>2, PlainDoes
  <2> QED BY <1>2, <2>1
<1>4. CASE i = 1
  <2>1. P[1 + 1].skip # -1
    <3>1. 1 + 1 <= Len(P)
      BY <1>2
    <3> QED BY <1>1, <1>2, <3>1, PartBegins
  <2>2. P[i].skip = 0 /\ P[i].do \notin Drops
    BY <1>2, <1>4, PlainDoes
  <2> QED BY <1>3, <1>4, <1>9, <2>1, <2>2, SingleStepFine DEF P
<1>5. CASE i \in 2 .. n + 1
  <2> DEFINE j == i - 1
  <2>1. j \in 1 .. Len(D) /\ 1 + j = i
    BY <1>2, <1>5
  <2> HIDE DEF j
  <2>2. D[j].do \notin {"list", "next"}
    BY <1>1, <2>1 DEF NoLoop
  <2>3. StepFine("update", P, 1 + j)
    BY <1>1, <1>2, <2>1, <2>2, PartStepFine DEF DeployOps, Allowed
  <2> QED BY <2>1, <2>3 DEF P
<1>6. CASE i = n + 2 \/ i = n + 3
  <2>1. i + 1 = n + 3 \/ i + 1 = n + 4
    BY <1>2, <1>6
  <2>2. P[i].skip = 0 /\ P[i].do \notin Drops /\ P[i + 1].skip # -1
    BY <1>2, <1>6, <2>1, PlainDoes
  <2> QED BY <1>3, <1>9, <2>2, SingleStepFine DEF P
<1>7. CASE i = n + 4
  <2>1. ~(i + 1 <= Len(P))
    BY <1>2, <1>7
  <2>2. P[i].skip = 0 /\ P[i].do \notin Drops
    BY <1>2, <1>7, PlainDoes
  <2> QED BY <1>3, <1>9, <2>1, <2>2, SingleStepFine DEF P
<1> QED BY <1>2, <1>3, <1>4, <1>5, <1>6, <1>7 DEF P

\* A deletion, step by step.
LEMMA DeleteFineProgram ==
    ASSUME backend \in Backends, NEW i \in 1 .. Len(Program("delete"))
    PROVE  StepFine("delete", Program("delete"), i)
<1> DEFINE P == Program("delete") D == Delete[backend] n == Len(D)
<1>1. PartFine(D) /\ NoLoop(D)
  BY DeleteIs DEF DeleteFine
<1>2. /\ P \in Seq(StepType) /\ Len(P) = Len(D) + 4 /\ Len(D) \in Nat
      /\ Within(D, P, 1)
      /\ P[1] = S("list", "some")
      /\ P[Len(D) + 2] = S("unsave", "meta")
      /\ P[Len(D) + 3] = S("unstore", "meta")
      /\ P[Len(D) + 4] = S("next", "function")
  BY DeleteFacts
<1>3. i \in 1 .. Len(P)
  OBVIOUS
<1> HIDE DEF P, D
<1>9. 2 <= Len(P) /\ \E j \in 1 .. Len(P) : P[j].do = "next"
  <2>1. n + 4 \in 1 .. Len(P) /\ P[n + 4].do = "next"
    BY <1>2, PlainDoes
  <2> QED BY <1>2, <2>1
<1>4. CASE i = 1
  <2>1. P[1 + 1].skip # -1
    <3>1. 1 + 1 <= Len(P)
      BY <1>2
    <3> QED BY <1>1, <1>2, <3>1, PartBegins
  <2>2. P[i].skip = 0 /\ P[i].do \notin Drops
    BY <1>2, <1>4, PlainDoes
  <2> QED BY <1>3, <1>4, <1>9, <2>1, <2>2, SingleStepFine DEF P
<1>5. CASE i \in 2 .. n + 1
  <2> DEFINE j == i - 1
  <2>1. j \in 1 .. Len(D) /\ 1 + j = i
    BY <1>2, <1>5
  <2> HIDE DEF j
  <2>2. D[j].do \notin {"list", "next"}
    BY <1>1, <2>1 DEF NoLoop
  <2>3. StepFine("delete", P, 1 + j)
    <3>1. Allowed("delete", D)
      BY DEF Allowed
    <3> QED BY <1>1, <1>2, <2>1, <2>2, <3>1, PartStepFine
  <2> QED BY <2>1, <2>3 DEF P
<1>6. CASE i = n + 2 \/ i = n + 3
  <2>1. i + 1 = n + 3 \/ i + 1 = n + 4
    BY <1>2, <1>6
  <2>2. P[i].skip = 0 /\ P[i].do \notin Drops /\ P[i + 1].skip # -1
    BY <1>2, <1>6, <2>1, PlainDoes
  <2> QED BY <1>3, <1>9, <2>2, SingleStepFine DEF P
<1>7. CASE i = n + 4
  <2>1. ~(i + 1 <= Len(P))
    BY <1>2, <1>7
  <2>2. P[i].skip = 0 /\ P[i].do \notin Drops
    BY <1>2, <1>7, PlainDoes
  <2> QED BY <1>3, <1>9, <2>1, <2>2, SingleStepFine DEF P
<1> QED BY <1>2, <1>3, <1>4, <1>5, <1>6, <1>7 DEF P

\* A cleaning, step by step.
LEMMA CleanFineProgram ==
    ASSUME backend \in Backends, NEW i \in 1 .. Len(Program("clean"))
    PROVE  StepFine("clean", Program("clean"), i)
<1> DEFINE P == Program("clean") D == Clean[backend] n == Len(D)
<1>1. CleanFine(D) /\ PartFine(D)
  BY CleanIs DEF CleanFine
<1>2. /\ P \in Seq(StepType) /\ Len(P) > Len(D) /\ Len(D) \in Nat
      /\ Within(D, P, 0)
      /\ \A j \in 1 .. Len(P) :
           j > Len(D) => P[j] \in {S("unstore", "all"), S("clear", "reply"), S("unsave", "all")}
  BY CleanFacts
<1>3. i \in 1 .. Len(P)
  OBVIOUS
<1> HIDE DEF P, D
<1>4. CASE i <= n
  <2>1. i \in 1 .. Len(D) /\ 0 + i = i
    BY <1>2, <1>3, <1>4
  <2>2. D[i].do \in {"list", "next"} =>
          2 <= Len(P) /\ \E j \in 1 .. Len(P) : P[j].do = "next"
    <3> SUFFICES ASSUME D[i].do \in {"list", "next"}
                 PROVE  2 <= Len(P) /\ \E j \in 1 .. Len(P) : P[j].do = "next"
      OBVIOUS
    <3>1. PICK j \in 1 .. Len(D) : D[j].do = "next" /\ 2 <= Len(D)
      BY <1>1, <2>1 DEF CleanFine
    <3>2. P[0 + j] = D[j] /\ 0 + j \in 1 .. Len(P) /\ 2 <= Len(P)
      BY <1>2, <3>1 DEF Within
    <3> QED BY <3>1, <3>2
  <2>3. StepFine("clean", P, 0 + i)
    <3>1. Allowed("clean", D)
      BY DEF Allowed
    <3> QED BY <1>1, <1>2, <2>1, <2>2, <3>1, PartStepFine
  <2> QED BY <2>1, <2>3 DEF P
<1>5. CASE i > n
  <2>1. \A j \in 1 .. Len(P) : j > n => P[j].skip = 0 /\ P[j].do \notin Drops \cup {"list", "next"}
    BY <1>2, PlainDoes
  <2>2. i + 1 <= Len(P) => P[i + 1].skip # -1
    <3> SUFFICES ASSUME i + 1 <= Len(P) PROVE P[i + 1].skip # -1
      OBVIOUS
    <3>1. i + 1 \in 1 .. Len(P) /\ i + 1 > n
      BY <1>2, <1>3, <1>5
    <3> QED BY <2>1, <3>1
  <2> QED BY <1>3, <1>5, <2>1, <2>2, SingleStepFine DEF P
<1> QED BY <1>2, <1>3, <1>4, <1>5 DEF P

\* What is true of every step of every operation.
LEMMA StepsFine ==
    ASSUME backend \in Backends, NEW op \in Ops
    PROVE  /\ Program(op) \in Seq(StepType) /\ Len(Program(op)) >= 1
           /\ \A i \in 1 .. Len(Program(op)) : StepFine(op, Program(op), i)
<1>1. CASE op = "build"
  <2>1. Program(op) = Build[backend]
    BY <1>1 DEF Program, Programs, CliBuild
  <2>2. Program(op) \in Seq(StepType) /\ Len(Program(op)) > 0
    BY <2>1, BuildIs DEF BuildFine, PartFine
  <2>3. Len(Program(op)) >= 1
    BY <2>2
  <2> QED BY <1>1, <2>2, <2>3, BuildFineProgram
<1>2. CASE op = "deploy"
  BY <1>2, DeployFacts, DeployFineProgram
<1>3. CASE op = "invoke"
  <2>1. Program(op) \in Seq(StepType)
    BY <1>3, InvokeFacts
  <2>2. Len(Program(op)) >= 1
    <3> DEFINE n == Len(Deploy[backend]) m == Len(Invoke[backend])
    <3>1. Len(Program(op)) = n + 3 + m /\ n \in Nat /\ m \in Nat
      BY <1>3, InvokeFacts
    <3> HIDE DEF n, m
    <3> QED BY <3>1
  <2> QED BY <1>3, <2>1, <2>2, InvokeFineProgram
<1>4. CASE op = "update"
  BY <1>4, UpdateFacts, UpdateFineProgram
<1>5. CASE op = "delete"
  BY <1>5, DeleteFacts, DeleteFineProgram
<1>6. CASE op = "clean"
  BY <1>6, CleanFacts, CleanFineProgram
<1> QED BY <1>1, <1>2, <1>3, <1>4, <1>5, <1>6 DEF Ops

-----------------------------------------------------------------------------
(* The operations that deploy. *)

\* What is true of step i of an operation that deploys.
DeployingStep(op, P, i) ==
  /\ P[i].do \in {"store", "save"} =>
       /\ i <= End(op)
       /\ HasFunction => Maker(op) < i
       /\ HasImage => Imager(op) < i
  /\ P[i].do \in {"list", "next"} => (i = 1 /\ op = "update") \/ i > End(op)
  /\ P[i].do = "select" => i = 1 /\ op = "invoke"
  /\ HasFunction =>
       /\ i = Maker(op) => P[i].k = "function" /\ P[i].do \in {"new", "put", "register"}
       /\ P[i].do \in {"look", "try"} /\ i <= Maker(op) /\ Maker(op) < i + 1 + P[i].skip
            => P[i].k = "function"
  /\ HasImage =>
       /\ i = Imager(op) => P[i].k = "image" /\ P[i].do = "put"
       /\ P[i].do \in {"look", "try"} /\ i <= Imager(op) => i + 1 + P[i].skip <= Imager(op)

\* The deployment within an operation.
LEMMA DeployingShape ==
    ASSUME backend \in Backends, NEW op \in DeployOps
    PROVE  LET P == Program(op) D == Deploy[backend]
           IN /\ P \in Seq(StepType) /\ Len(D) \in Nat /\ Len(P) \in Nat
              /\ Within(D, P, Shift(op)) /\ Len(P) >= End(op)
              /\ P[Shift(op) + Len(D) + 1].do = "store" /\ P[End(op)].do = "save"
              /\ op # "deploy" => P[1].do = IF op = "invoke" THEN "select" ELSE "list"
              /\ \A i \in 1 .. Len(P) : i > End(op) => P[i].do \notin {"select", "store", "save"}
<1> DEFINE P == Program(op) D == Deploy[backend]
<1>1. CASE op = "deploy"
  <2> HIDE DEF P, D
  <2>1. /\ P \in Seq(StepType) /\ Len(P) = Len(D) + 2 /\ Len(D) \in Nat
        /\ Within(D, P, 0)
        /\ P[Len(D) + 1] = S("store", "full")
        /\ P[Len(D) + 2] = S("save", "full")
    BY <1>1, DeployFacts DEF P, D
  <2>2. Shift(op) = 0 /\ End(op) = Len(D) + 2 /\ Shift(op) + Len(D) + 1 = Len(D) + 1
    BY <1>1, <2>1 DEF Shift, End, D
  <2>3. \A i \in 1 .. Len(P) : ~(i > End(op))
    BY <2>1, <2>2
  <2>4. P[Len(D) + 1].do = "store" /\ P[End(op)].do = "save"
    BY <2>1, <2>2, PlainDoes
  <2>5. Len(P) \in Nat /\ Len(P) >= End(op)
    BY <2>1, <2>2
  <2> QED BY <1>1, <2>1, <2>2, <2>3, <2>4, <2>5 DEF P, D
<1>2. CASE op = "invoke"
  <2> DEFINE V == Invoke[backend]
  <2>0. PartFine(V)
    BY InvokeIs DEF InvokeFine
  <2> HIDE DEF P, D, V
  <2>1. /\ P \in Seq(StepType) /\ Len(P) = Len(D) + 3 + Len(V)
        /\ Len(D) \in Nat /\ Len(V) \in Nat
        /\ Within(D, P, 1) /\ Within(V, P, Len(D) + 3)
        /\ P[1] = S("select", "meta")
        /\ P[Len(D) + 2] = S("store", "full")
        /\ P[Len(D) + 3] = S("save", "full")
    BY <1>2, InvokeFacts DEF P, D, V
  <2>2. Shift(op) = 1 /\ End(op) = Len(D) + 3 /\ Shift(op) + Len(D) + 1 = Len(D) + 2
    BY <1>2, <2>1 DEF Shift, End, D
  <2>3. \A i \in 1 .. Len(P) : i > End(op) => P[i].do \notin {"select", "store", "save"}
    <3> SUFFICES ASSUME NEW i \in 1 .. Len(P), i > End(op)
                 PROVE  P[i].do \notin {"select", "store", "save"}
      OBVIOUS
    <3> DEFINE j == i - (Len(D) + 3)
    <3>1. j \in 1 .. Len(V) /\ (Len(D) + 3) + j = i
      BY <2>1, <2>2
    <3> HIDE DEF j
    <3>2. P[i] = V[j]
      BY <2>1, <3>1 DEF Within
    <3> QED BY <2>0, <3>1, <3>2 DEF PartFine
  <2>4. P[1].do = "select" /\ P[Len(D) + 2].do = "store" /\ P[End(op)].do = "save"
    BY <2>1, <2>2, PlainDoes
  <2>5. Len(P) \in Nat /\ Len(P) >= End(op)
    BY <2>1, <2>2
  <2> QED BY <1>2, <2>1, <2>2, <2>3, <2>4, <2>5 DEF P, D
<1>3. CASE op = "update"
  <2> HIDE DEF P, D
  <2>1. /\ P \in Seq(StepType) /\ Len(P) = Len(D) + 4 /\ Len(D) \in Nat
        /\ Within(D, P, 1)
        /\ P[1] = S("list", "some")
        /\ P[Len(D) + 2] = S("store", "short")
        /\ P[Len(D) + 3] = S("save", "short")
        /\ P[Len(D) + 4] = S("next", "function")
    BY <1>3, UpdateFacts DEF P, D
  <2>2. Shift(op) = 1 /\ End(op) = Len(D) + 3 /\ Shift(op) + Len(D) + 1 = Len(D) + 2
    BY <1>3, <2>1 DEF Shift, End, D
  <2>3. \A i \in 1 .. Len(P) : i > End(op) => P[i].do \notin {"select", "store", "save"}
    <3>1. \A i \in 1 .. Len(P) : i > End(op) => i = Len(D) + 4
      BY <2>1, <2>2
    <3>2. P[Len(D) + 4].do = "next"
      BY <2>1, PlainDoes
    <3> QED BY <3>1, <3>2
  <2>4. P[1].do = "list" /\ P[Len(D) + 2].do = "store" /\ P[End(op)].do = "save"
    BY <2>1, <2>2, PlainDoes
  <2>5. Len(P) \in Nat /\ Len(P) >= End(op)
    BY <2>1, <2>2
  <2> QED BY <1>3, <2>1, <2>2, <2>3, <2>4, <2>5 DEF P, D
<1> QED BY <1>1, <1>2, <1>3 DEF DeployOps

\* Where the steps that matter are.
LEMMA MakerNumbers ==
    ASSUME backend \in Backends, NEW op \in DeployOps
    PROVE  /\ Len(Deploy[backend]) \in Nat /\ Shift(op) \in {0, 1} /\ End(op) \in Nat
           /\ End(op) = Shift(op) + Len(Deploy[backend]) + 2
           /\ HasFunction => /\ MakerOf[backend] \in 1 .. Len(Deploy[backend])
                             /\ Maker(op) \in Nat /\ Maker(op) = Shift(op) + MakerOf[backend]
           /\ HasImage => /\ ImagerOf[backend] \in 1 .. Len(Deploy[backend])
                          /\ Imager(op) \in Nat /\ Imager(op) = Shift(op) + ImagerOf[backend]
<1> DEFINE D == Deploy[backend]
<1>1. /\ PartFine(D) /\ HasFunction => MadeBy(D, MakerOf[backend])
      /\ HasImage => ImagedBy(D, ImagerOf[backend])
  BY DeployIs DEF DeployFine
<1>2. Len(D) \in Nat /\ Shift(op) \in {0, 1}
  BY DeployingShape DEF Shift
<1>3. /\ HasFunction => MakerOf[backend] \in 1 .. Len(D)
      /\ HasImage => ImagerOf[backend] \in 1 .. Len(D)
  BY <1>1, DeployIs DEF DeployFine, MadeBy, ImagedBy
<1> HIDE DEF D
<1>4. End(op) \in Nat /\ End(op) = Shift(op) + Len(D) + 2
  BY <1>2 DEF End, D
<1>5. HasFunction => Maker(op) \in Nat /\ Maker(op) = Shift(op) + MakerOf[backend]
  BY <1>2, <1>3 DEF Maker
<1>6. HasImage => Imager(op) \in Nat /\ Imager(op) = Shift(op) + ImagerOf[backend]
  BY <1>2, <1>3 DEF Imager
<1> QED BY <1>2, <1>3, <1>4, <1>5, <1>6 DEF D

\* Metadata are stored after the function and the image are made, and no jump leads
\* past the making of either.
LEMMA DeployingFine ==
    ASSUME backend \in Backends, NEW op \in DeployOps, NEW i \in 1 .. Len(Program(op))
    PROVE  DeployingStep(op, Program(op), i)
<1> DEFINE P == Program(op) D == Deploy[backend] n == Len(D) s == Shift(op)
           m == MakerOf[backend] g == ImagerOf[backend]
<1>0. i \in 1 .. Len(P)
  OBVIOUS
<1>1. /\ PartFine(D) /\ NoLoop(D)
      /\ HasFunction => MadeBy(D, m)
      /\ HasImage => ImagedBy(D, g)
  BY DeployIs DEF DeployFine
<1>2. /\ P \in Seq(StepType) /\ n \in Nat /\ Len(P) \in Nat
      /\ Within(D, P, s) /\ Len(P) >= End(op)
      /\ P[s + n + 1].do = "store" /\ P[End(op)].do = "save"
      /\ op # "deploy" => P[1].do = IF op = "invoke" THEN "select" ELSE "list"
      /\ \A j \in 1 .. Len(P) : j > End(op) => P[j].do \notin {"select", "store", "save"}
  BY DeployingShape
<1>3. s \in {0, 1} /\ End(op) = s + n + 2 /\ (op = "deploy" <=> s = 0)
  <2>1. s \in {0, 1} /\ End(op) = s + n + 2
    BY MakerNumbers
  <2>2. op = "deploy" <=> s = 0
    BY DEF Shift
  <2> QED BY <2>1, <2>2
<1>4. /\ HasFunction => m \in 1 .. n /\ Maker(op) = s + m
      /\ HasImage => g \in 1 .. n /\ Imager(op) = s + g
  BY MakerNumbers
<1> HIDE DEF P, D, n, s, m, g
<1>5. CASE i <= s
  <2>1. s = 1 /\ i = 1 /\ op # "deploy" /\ P[i].do \in {"select", "list"}
    BY <1>0, <1>2, <1>3, <1>5
  <2>2. P[i].do = "select" => op = "invoke"
    BY <1>2, <2>1
  <2>3. P[i].do = "list" => op = "update"
    BY <1>2, <2>1 DEF DeployOps
  <2>4. /\ HasFunction => i # Maker(op)
        /\ HasImage => i # Imager(op)
    BY <1>2, <1>4, <2>1
  <2> QED BY <2>1, <2>2, <2>3, <2>4 DEF DeployingStep, P
<1>6. CASE i > s /\ i <= s + n
  <2> DEFINE j == i - s
  <2>1. j \in 1 .. n /\ s + j = i /\ j \in Nat
    BY <1>0, <1>2, <1>3, <1>6
  <2> HIDE DEF j
  <2>2. P[i] = D[j]
    BY <2>1, <1>2 DEF Within, n
  <2>3. D[j].do \notin {"select", "store", "save", "list", "next"} /\ D[j].skip \in Int
    BY <1>1, <2>1 DEF PartFine, NoLoop, n, StepType
  <2>4. ASSUME HasFunction
        PROVE  /\ i = Maker(op) => D[j].k = "function" /\ D[j].do \in {"new", "put", "register"}
               /\ D[j].do \in {"look", "try"} /\ i <= Maker(op) /\ Maker(op) < i + 1 + D[j].skip
                    => D[j].k = "function"
    <3>1. MadeBy(D, m) /\ Maker(op) = s + m /\ m \in 1 .. n
      BY <1>1, <1>4, <2>4
    <3>2. i = Maker(op) => j = m
      BY <1>3, <2>1, <3>1
    <3>3. i <= Maker(op) /\ Maker(op) < i + 1 + D[j].skip => j <= m /\ m < j + 1 + D[j].skip
      BY <1>3, <2>1, <2>3, <3>1
    <3> QED BY <2>1, <3>1, <3>2, <3>3 DEF MadeBy, n
  <2>5. ASSUME HasImage
        PROVE  /\ i = Imager(op) => D[j].k = "image" /\ D[j].do = "put"
               /\ D[j].do \in {"look", "try"} /\ i <= Imager(op) => i + 1 + D[j].skip <= Imager(op)
    <3>1. ImagedBy(D, g) /\ Imager(op) = s + g /\ g \in 1 .. n
      BY <1>1, <1>4, <2>5
    <3>2. i = Imager(op) => j = g
      BY <1>3, <2>1, <3>1
    <3>3. i <= Imager(op) => j <= g
      BY <1>3, <2>1, <3>1
    <3>4. j + 1 + D[j].skip <= g => i + 1 + D[j].skip <= Imager(op)
      BY <1>3, <2>1, <2>3, <3>1
    <3> QED BY <2>1, <3>1, <3>2, <3>3, <3>4 DEF ImagedBy, n
  <2> QED BY <2>2, <2>3, <2>4, <2>5 DEF DeployingStep, P
<1>7. CASE i > s + n /\ i <= End(op)
  <2>1. P[i].do \in {"store", "save"}
    <3>1. i = s + n + 1 \/ i = End(op)
      BY <1>0, <1>2, <1>3, <1>7
    <3> QED BY <1>2, <3>1
  <2>2. /\ HasFunction => Maker(op) < i
        /\ HasImage => Imager(op) < i
    BY <1>2, <1>3, <1>4, <1>7
  <2>3. /\ HasFunction => i # Maker(op)
        /\ HasImage => i # Imager(op)
    BY <1>2, <1>3, <1>4, <1>7
  <2> QED BY <1>7, <2>1, <2>2, <2>3 DEF DeployingStep, P
<1>8. CASE i > End(op)
  <2>1. P[i].do \notin {"select", "store", "save"}
    BY <1>0, <1>2, <1>8
  <2>2. /\ HasFunction => Maker(op) < i /\ i # Maker(op) /\ ~(i <= Maker(op))
        /\ HasImage => Imager(op) < i /\ i # Imager(op) /\ ~(i <= Imager(op))
    BY <1>2, <1>3, <1>4, <1>8
  <2> QED BY <1>8, <2>1, <2>2 DEF DeployingStep, P
<1>9. \/ i <= s
      \/ i > s /\ i <= s + n
      \/ i > s + n /\ i <= End(op)
      \/ i > End(op)
  BY <1>0, <1>2, <1>3
<1> QED BY <1>5, <1>6, <1>7, <1>8, <1>9 DEF P

\* Only these operations look for metadata and write them.
LEMMA OthersDoNotStore ==
    ASSUME backend \in Backends, NEW op \in Ops \ DeployOps, NEW i \in 1 .. Len(Program(op))
    PROVE  Program(op)[i].do \notin {"select", "store", "save"}
<1>1. CASE op = "build"
  <2>1. Program(op) = Build[backend]
    BY <1>1 DEF Program, Programs, CliBuild
  <2> QED BY <2>1, BuildIs DEF BuildFine, PartFine
<1>2. CASE op = "delete"
  <2> DEFINE P == Program(op) D == Delete[backend]
  <2>1. PartFine(D)
    BY DeleteIs DEF DeleteFine
  <2>2. i \in 1 .. Len(P)
    OBVIOUS
  <2> HIDE DEF P, D
  <2>3. /\ P \in Seq(StepType) /\ Len(P) = Len(D) + 4 /\ Len(D) \in Nat
        /\ Within(D, P, 1)
        /\ P[1] = S("list", "some")
        /\ P[Len(D) + 2] = S("unsave", "meta")
        /\ P[Len(D) + 3] = S("unstore", "meta")
        /\ P[Len(D) + 4] = S("next", "function")
    BY <1>2, DeleteFacts DEF P, D
  <2>4. CASE i \in 2 .. Len(D) + 1
    <3> DEFINE j == i - 1
    <3>1. j \in 1 .. Len(D) /\ 1 + j = i
      BY <2>3, <2>4
    <3> HIDE DEF j
    <3>2. P[i] = D[j]
      BY <2>3, <3>1 DEF Within
    <3> QED BY <2>1, <3>1, <3>2 DEF PartFine, P
  <2>5. CASE i \notin 2 .. Len(D) + 1
    <3>1. i \in {1, Len(D) + 2, Len(D) + 3, Len(D) + 4}
      BY <2>2, <2>3, <2>5
    <3>2. P[i].do \in {"list", "unsave", "unstore", "next"}
      BY <2>3, <3>1, PlainDoes
    <3> QED BY <3>2 DEF P
  <2> QED BY <2>4, <2>5
<1>3. CASE op = "clean"
  <2> DEFINE P == Program(op) D == Clean[backend]
  <2>1. PartFine(D)
    BY CleanIs DEF CleanFine
  <2>2. i \in 1 .. Len(P)
    OBVIOUS
  <2> HIDE DEF P, D
  <2>3. /\ P \in Seq(StepType) /\ Len(P) > Len(D) /\ Len(D) \in Nat
        /\ Within(D, P, 0)
        /\ \A j \in 1 .. Len(P) :
             j > Len(D) => P[j] \in {S("unstore", "all"), S("clear", "reply"), S("unsave", "all")}
    BY <1>3, CleanFacts DEF P, D
  <2>4. CASE i <= Len(D)
    <3>1. i \in 1 .. Len(D) /\ 0 + i = i
      BY <2>2, <2>3, <2>4
    <3>2. P[i] = D[i]
      BY <2>3, <3>1 DEF Within
    <3> QED BY <2>1, <3>1, <3>2 DEF PartFine, P
  <2>5. CASE i > Len(D)
    <3>1. P[i].do \in {"unstore", "clear", "unsave"}
      BY <2>2, <2>3, <2>5, PlainDoes
    <3> QED BY <3>1 DEF P
  <2> QED BY <2>2, <2>3, <2>4, <2>5
<1> QED BY <1>1, <1>2, <1>3 DEF Ops, DeployOps

-----------------------------------------------------------------------------
(* The state, and how a client moves. *)

\* The types of the variables.
Phases == {"none", "cleaning", "deploying", "done"}
Values == {"none", "full", "short"}
ProcType ==
  [op : Ops \cup {"none"}, at : Nat, mem : Keys, todo : SUBSET Keys, failing : BOOLEAN]

\* Where a client may be in its operation: at one of its steps, and, after an
\* exception, in a finally clause.
Placed(p) ==
  IF p.op = "none" THEN ~p.failing
  ELSE p.at \in 1 .. Len(Program(p.op)) /\ (p.failing => InClause(Program(p.op), p.at))
Procs == proc \in [Clients -> ProcType] /\ \A c \in Clients : Placed(proc[c])
Rest ==
  /\ backend \in Backends /\ leaver \in Phases
  /\ meta \in [Keys -> Values]
  /\ disk \in [Clients -> [Keys -> Values]] /\ memo \in [Clients -> [Keys -> Values]]
  /\ token \in [Clients -> Keys]
  /\ removed \subseteq Keys /\ held \cup alone \cup erred \subseteq Clients
  /\ ops \in 0 .. MaxOps /\ faults \in 0 .. MaxFaults

\* A step of one client moves that client alone.
Moved(c) ==
  /\ proc' \in [Clients -> ProcType] /\ Placed(proc'[c])
  /\ \A d \in Clients : d # c => proc'[d] = proc[d]

\* When one client moves, all are at steps of their operations.
LEMMA MovedProcs ==
    ASSUME Procs, NEW c \in Clients, Moved(c), backend' = backend
    PROVE  Procs'
<1>2. \A d \in Clients : Placed(proc'[d])
  BY DEF Moved, Procs
<1>3. ASSUME NEW d \in Clients
      PROVE  Placed(proc[d])'
  BY <1>2 DEF Placed, Program, InClause
<1> QED BY <1>3 DEF Procs, Moved

\* The step at which a client is.
LEMMA Current ==
    ASSUME Procs, backend \in Backends, NEW c \in Clients, Working(c)
    PROVE  /\ proc[c].op \in Ops /\ proc[c].mem \in Keys /\ MyKey(c) \in Keys
           /\ proc[c].at \in 1 .. Len(Program(proc[c].op))
           /\ Program(proc[c].op) \in Seq(StepType)
           /\ StepOf(c) = Program(proc[c].op)[proc[c].at] /\ StepOf(c) \in StepType
           /\ StepFine(proc[c].op, Program(proc[c].op), proc[c].at)
           /\ proc[c].failing => StepOf(c).do \in Drops /\ InClause(Program(proc[c].op), proc[c].at)
<1>1. proc[c] \in ProcType /\ Placed(proc[c]) /\ proc[c].op # "none"
  BY DEF Procs, Working
<1>2. proc[c].op \in Ops /\ proc[c].mem \in Keys
  BY <1>1 DEF ProcType
<1>3. MyKey(c) \in Keys
  BY <1>2 DEF MyKey, Key, Keys
<1> DEFINE P == Program(proc[c].op) i == proc[c].at
<1>4. i \in 1 .. Len(P) /\ (proc[c].failing => InClause(P, i))
  BY <1>1 DEF Placed
<1>5. P \in Seq(StepType) /\ StepFine(proc[c].op, P, i)
  BY <1>2, <1>4, StepsFine
<1>6. StepOf(c) = P[i]
  BY DEF StepOf
<1> HIDE DEF P, i
<1>7. P[i] \in StepType
  BY <1>4, <1>5
<1>8. proc[c].failing => P[i].do \in Drops
  BY <1>4, <1>5 DEF StepFine
<1> QED BY <1>2, <1>3, <1>4, <1>5, <1>6, <1>7, <1>8 DEF P, i

\* The end of an operation.
LEMMA IdleMoved ==
    ASSUME Procs, NEW c \in Clients, proc' = [proc EXCEPT ![c] = Idle]
    PROVE  Moved(c) /\ proc'[c] = Idle
<1>1. Idle \in ProcType
  BY DEF Idle, ProcType, Keys
<1>2. Placed(Idle)
  BY DEF Idle, Placed
<1> QED BY <1>1, <1>2 DEF Moved, Procs

\* The client is further on by n steps, or by one more, past the end of a loop.
Advanced(c, n) ==
  /\ proc'[c].op = proc[c].op /\ proc'[c].mem = proc[c].mem
  /\ proc'[c].todo = proc[c].todo /\ proc'[c].failing = proc[c].failing
  /\ \/ proc'[c].at = proc[c].at + n
     \/ /\ proc'[c].at = proc[c].at + n + 1 /\ proc[c].at + n <= Len(Program(proc[c].op))
        /\ Program(proc[c].op)[proc[c].at + n].do = "next"

\* The next step, or one further on.
LEMMA OnwardMoved ==
    ASSUME Procs, backend \in Backends, leaver \in Phases, NEW c \in Clients, Working(c),
           NEW n \in Nat, Onward(c, n),
           proc[c].failing => n = 1 /\ StepOf(c).skip # -1
    PROVE  Moved(c) /\ (proc'[c] = Idle \/ Advanced(c, n)) /\ leaver' \in Phases
<1> DEFINE P == Program(proc[c].op) i == proc[c].at
           p == IF i + n <= Len(P) /\ P[i + n].do = "next" /\ proc[c].todo = {}
                THEN i + n + 1 ELSE i + n
<1>1. i \in 1 .. Len(P) /\ P \in Seq(StepType) /\ StepOf(c) = P[i]
      /\ (proc[c].failing => InClause(P, i))
      /\ \A j \in 1 .. Len(P) : StepFine(proc[c].op, P, j)
  BY Current, StepsFine
<1>2. \/ p > Len(P) /\ proc' = [proc EXCEPT ![c] = Idle] /\ Succeeded(proc[c].op)
      \/ p <= Len(P) /\ proc' = [proc EXCEPT ![c].at = p] /\ UNCHANGED leaver
  <2>1. \/ p > Len(P) /\ proc' = [proc EXCEPT ![c] = Idle] /\ Succeeded(proc[c].op)
        \/ ~(p > Len(P)) /\ proc' = [proc EXCEPT ![c].at = p] /\ UNCHANGED leaver
    BY DEF Onward
  <2>2. p \in Int /\ Len(P) \in Int
    <3> HIDE DEF P, i
    <3> QED BY <1>1
  <2> HIDE DEF P, i, p
  <2> QED BY <2>1, <2>2
<1>3. leaver' \in Phases
  BY <1>2 DEF Succeeded, Phases
<1>4. CASE p <= Len(P) /\ proc' = [proc EXCEPT ![c].at = p]
  <2> USE <1>4
  <2>1. proc[c] \in ProcType
    BY DEF Procs
  <2>2. p \in 1 .. Len(P) /\ (p = i + n \/ (p = i + n + 1 /\ i + n <= Len(P) /\ P[i + n].do = "next"))
    <3> HIDE DEF P, i
    <3>1. i \in 1 .. Len(P) /\ Len(P) \in Nat
      BY <1>1
    <3>2. CASE i + n <= Len(P) /\ P[i + n].do = "next" /\ proc[c].todo = {}
      <4>1. p = i + n + 1
        BY <3>2
      <4> HIDE DEF p
      <4> QED BY <3>1, <3>2, <4>1
    <3>3. CASE ~(i + n <= Len(P) /\ P[i + n].do = "next" /\ proc[c].todo = {})
      <4>1. p = i + n
        BY <3>3
      <4>2. p <= Len(P)
        OBVIOUS
      <4> HIDE DEF p
      <4>3. p \in 1 .. Len(P)
        BY <3>1, <4>1, <4>2
      <4> QED BY <4>1, <4>3
    <3> QED BY <3>2, <3>3
  <2>3. proc[c].failing => InClause(P, p)
    <3> HIDE DEF i, P
    <3> SUFFICES ASSUME proc[c].failing PROVE InClause(P, p)
      OBVIOUS
    <3>1. n = 1 /\ P[i].skip # -1 /\ InClause(P, i)
      BY <1>1
    <3>2. P[i].skip = 0 /\ i + 1 <= Len(P) /\ P[i + 1].skip = -1
      BY <3>1 DEF InClause
    <3>3. i + 1 \in 1 .. Len(P) /\ InClause(P, i + 1)
      BY <1>1, <3>2 DEF InClause
    <3>4. P[i + 1].do # "next"
      BY <1>1, <3>3 DEF StepFine, Drops
    <3> QED BY <3>1, <3>3, <3>4
  <2> HIDE DEF i, p
  <2>4. /\ proc'[c].op = proc[c].op /\ proc'[c].mem = proc[c].mem
        /\ proc'[c].todo = proc[c].todo /\ proc'[c].failing = proc[c].failing
        /\ proc'[c].at = p
    BY <2>1 DEF Procs, ProcType
  <2>5. p \in Nat
    BY <2>2
  <2>6. proc' \in [Clients -> ProcType]
    BY <2>5 DEF Procs, ProcType
  <2>7. Placed(proc'[c])
    BY <2>2, <2>3, <2>4 DEF Placed, Working
  <2>8. Moved(c)
    BY <2>6, <2>7 DEF Moved, Procs
  <2>9. Advanced(c, n)
    BY <2>2, <2>4 DEF Advanced, i
  <2> QED BY <1>3, <2>8, <2>9
<1>5. CASE proc' = [proc EXCEPT ![c] = Idle]
  BY <1>3, <1>5, IdleMoved
<1> QED BY <1>2, <1>4, <1>5

\* An exception in the body of a try: on to its finally clause.
LEMMA KeepMoved ==
    ASSUME Procs, backend \in Backends, leaver \in Phases, NEW c \in Clients, Working(c),
           Finally(c), Keep(c)
    PROVE  /\ Moved(c) /\ leaver' \in Phases
           /\ proc'[c].failing /\ proc'[c].op = proc[c].op
           /\ proc'[c].at = proc[c].at + StepOf(c).skip
           /\ InClause(Program(proc[c].op), proc'[c].at)
<1> DEFINE P == Program(proc[c].op) i == proc[c].at j == i + StepOf(c).skip
<1>1. i \in 1 .. Len(P) /\ P \in Seq(StepType) /\ StepOf(c) = P[i]
      /\ StepFine(proc[c].op, P, i)
  BY Current
<1>2. Guarded(P[i])
  BY <1>1 DEF Finally, Guarded
<1>3. InClause(P, j)
  BY <1>1, <1>2 DEF StepFine
<1>4. j \in 1 .. Len(P) /\ j \in Nat
  BY <1>3 DEF InClause
<1> HIDE DEF j
<1>5. proc' = [proc EXCEPT ![c].at = j, ![c].failing = TRUE] /\ leaver' = leaver
  BY DEF Keep, j
<1>6. proc[c] \in ProcType
  BY DEF Procs
<1>7. /\ proc'[c].op = proc[c].op /\ proc'[c].failing = TRUE /\ proc'[c].at = j
  BY <1>5, <1>6 DEF Procs, ProcType
<1>8. proc' \in [Clients -> ProcType]
  BY <1>4, <1>5 DEF Procs, ProcType
<1>9. Placed(proc'[c])
  BY <1>3, <1>4, <1>7 DEF Placed, Working
<1>10. Moved(c)
  BY <1>5, <1>8, <1>9 DEF Moved, Procs
<1> QED BY <1>3, <1>5, <1>7, <1>10 DEF j

\* The next runtime of a loop.
LEMMA EachMoved ==
    ASSUME Procs, backend \in Backends, leaver \in Phases, NEW c \in Clients, Working(c),
           StepOf(c).do \in {"list", "next"}, NEW todo \in SUBSET Keys, Each(c, todo)
    PROVE  /\ Moved(c) /\ leaver' \in Phases
           /\ proc'[c].op = proc[c].op /\ proc'[c].at = 2
<1> DEFINE P == Program(proc[c].op)
<1>1. /\ P \in Seq(StepType) /\ StepFine(proc[c].op, P, proc[c].at)
      /\ StepOf(c) = P[proc[c].at]
      /\ proc[c].failing => StepOf(c).do \in Drops
  BY Current
<1>2. 2 \in 1 .. Len(P)
  <2> HIDE DEF P
  <2>1. 2 <= Len(P) /\ Len(P) \in Nat
    BY <1>1 DEF StepFine
  <2> QED BY <2>1
<1>3. ~proc[c].failing
  BY <1>1 DEF Drops
<1>4. PICK k \in todo :
        proc' = [proc EXCEPT ![c].at = 2, ![c].todo = todo \ {k}, ![c].mem = k] /\ UNCHANGED leaver
  BY DEF Each
<1> HIDE DEF P
<1>5. proc[c] \in ProcType
  BY DEF Procs
<1>6. proc'[c].op = proc[c].op /\ proc'[c].at = 2 /\ proc'[c].failing = proc[c].failing
  BY <1>4, <1>5 DEF Procs, ProcType
<1>7. proc' \in [Clients -> ProcType]
  <2>1. k \in Keys /\ todo \ {k} \in SUBSET Keys /\ 2 \in Nat
    OBVIOUS
  <2> DEFINE rest == todo \ {k}
  <2> HIDE DEF rest
  <2>2. proc' = [proc EXCEPT ![c].at = 2, ![c].todo = rest, ![c].mem = k]
    BY <1>4 DEF rest
  <2>3. k \in Keys /\ rest \in SUBSET Keys
    BY <2>1 DEF rest
  <2> DEFINE q == [proc[c] EXCEPT !.at = 2, !.todo = rest, !.mem = k]
  <2>4. q \in ProcType
    BY <1>5, <2>1, <2>3 DEF ProcType
  <2>5. proc' = [proc EXCEPT ![c] = q]
    BY <2>2
  <2> HIDE DEF q
  <2> QED BY <2>4, <2>5 DEF Procs
<1>8. Placed(proc'[c])
  BY <1>2, <1>3, <1>6 DEF Placed, P
<1>9. Moved(c)
  BY <1>4, <1>7, <1>8 DEF Moved, Procs
<1> QED BY <1>4, <1>6, <1>9

-----------------------------------------------------------------------------
(* The cloud. *)

\* The image of the backend.
Image == Res("image", 0)

\* Of a client at p: its deployment has made the function, or the image, and has
\* not yet stored all metadata; or has deleted the function and not made the new one.
Deploys(p) == p.op \in DeployOps
Made(p) == Deploys(p) /\ ~p.failing /\ Maker(p.op) < p.at /\ p.at <= End(p.op)
Imaged(p) == Deploys(p) /\ ~p.failing /\ Imager(p.op) < p.at /\ p.at <= End(p.op)
Gap(p) == Deploys(p) /\ InGap(Program(p.op), p.at)

\* The resources of a runtime: its function ...
LEMMA ResFunction ==
    ASSUME NEW m
    PROVE  Res("function", m) = Function(Key(m))
<1>1. "function" \in PerRuntime
  BY DEF PerRuntime
<1> QED BY <1>1 DEF Res, Function

\* ... the image that all sizes share ...
LEMMA ResImage ==
    ASSUME NEW m
    PROVE  Res("image", m) = Image
<1>1. "image" \notin PerRuntime
  BY DEF PerRuntime
<1> QED BY <1>1 DEF Res, Image

\* ... and any other, which is of its kind.
LEMMA ResKind ==
    ASSUME NEW k, NEW m
    PROVE  Res(k, m).kind = k
BY DEF Res

\* What goes with a deletion.
LEMMA WithItIs ==
    ASSUME NEW c, NEW r \in WithIt(c)
    PROVE  r = Mine(c) \/ r.kind \in {"reply", "hollow", "second", "ran"}
<1> DEFINE m == proc[c].mem
<1>1. /\ Reply(m).kind = "reply" /\ Hollow.kind = "hollow"
      /\ Res("second", m).kind = "second" /\ Ran(m).kind = "ran"
  BY ResKind DEF Reply, Hollow, Ran
<1>2. r \in {Mine(c), Reply(m), Hollow, Res("second", m), Ran(m)}
  BY DEF WithIt
<1> QED BY <1>1, <1>2

\* What a call takes out of the cloud.
LEMMA AfterLoses ==
    ASSUME NEW c, NEW r \in cloud, r \notin After(c)
    PROVE  \/ StepOf(c).do \in Drops \cup {"fresh", "off", "sweep?"} /\ r = Mine(c)
           \/ StepOf(c).do \in {"clear", "clear?"} /\ r.kind = StepOf(c).k
           \/ r.kind \in {"reply", "hollow", "second", "ran"}
<1> DEFINE m == proc[c].mem d == StepOf(c).do
<1>1. Reply(m).kind = "reply" /\ Hollow.kind = "hollow"
  BY ResKind DEF Reply, Hollow
<1>2. CASE d \in Drops
  <2>1. After(c) = cloud \ WithIt(c)
    BY <1>2 DEF After, Drops
  <2> QED BY <1>2, <2>1, WithItIs
<1>3. CASE d = "fresh"
  <2>1. After(c) = (cloud \ WithIt(c)) \cup {Mine(c)}
    BY <1>3 DEF After, Drops
  <2> QED BY <1>3, <2>1, WithItIs
<1>4. CASE d = "off"
  <2>1. r = Mine(c)
    BY <1>4 DEF After, Drops
  <2> QED BY <1>4, <2>1
<1>5. CASE d \in {"clear", "clear?"}
  <2>1. After(c) = {q \in cloud : q.kind # StepOf(c).k}
    BY <1>5 DEF After, Drops
  <2> QED BY <1>5, <2>1
<1>6. CASE d \in {"publish"}
  <2>1. r = Hollow
    BY <1>6 DEF After
  <2> QED BY <1>1, <2>1
<1>7. CASE d \in {"take", "wait"}
  <2>1. r = Reply(m)
    BY <1>7 DEF After
  <2> QED BY <1>1, <2>1
<1>8. CASE d = "sweep?"
  <2>1. After(c) \in {cloud, cloud \ WithIt(c)}
    BY <1>8 DEF After
  <2> QED BY <1>8, <2>1, WithItIs
<1>9. CASE d \notin Drops \cup {"fresh", "off", "clear", "clear?", "sweep?", "publish", "take",
                            "wait"}
  BY <1>9 DEF After, Drops
<1> QED BY <1>2, <1>3, <1>4, <1>5, <1>6, <1>7, <1>8, <1>9

\* What a call brings into the cloud.
LEMMA AfterMakes ==
    ASSUME NEW c, StepOf(c).do \in {"new", "put", "register", "try"}
    PROVE  Mine(c) \in After(c)
<1>1. CASE StepOf(c).do \in {"new", "put", "try"}
  BY <1>1 DEF After
<1>2. CASE StepOf(c).do = "register"
  BY <1>2 DEF After
<1> QED BY <1>1, <1>2

\* A function is lost by the steps of deletions, of which a redeployment has those
\* that make a new one.
LEMMA FunctionLost ==
    ASSUME Procs, backend \in Backends, NEW c \in Clients, Working(c),
           cloud' \in {cloud, After(c)}, NEW k \in Keys, Deployed(k), Function(k) \notin cloud'
    PROVE  /\ MyKey(c) = k /\ StepOf(c).do \in Drops
           /\ \/ Asked(c)
              \/ /\ Deploying(c) /\ backend \in Replacing
                 /\ StepOf(c).skip = 0 /\ StepOf(c).do # "purge"
                 /\ InGap(Program(proc[c].op), proc[c].at + 1)
<1> DEFINE s == StepOf(c)
<1>1. Function(k) \in cloud /\ Function(k) \notin After(c) /\ Function(k).kind = "function"
  BY DEF Deployed, Function
<1>2. /\ s \in StepType /\ StepFine(proc[c].op, Program(proc[c].op), proc[c].at)
      /\ s = Program(proc[c].op)[proc[c].at] /\ proc[c].op \in Ops
  BY Current
<1>3. Mine(c).kind = s.k
  BY ResKind DEF Mine
<1>4. s.do \in Drops /\ Function(k) = Mine(c)
  <2>1. s.do \in {"fresh", "off", "clear", "clear?", "sweep?"} => s.k # "function"
    BY <1>2 DEF StepType
  <2>2. \/ s.do \in Drops \cup {"fresh", "off", "sweep?"} /\ Function(k) = Mine(c)
        \/ s.do \in {"clear", "clear?"} /\ Function(k).kind = s.k
    BY <1>1, AfterLoses
  <2> QED BY <1>1, <1>3, <2>1, <2>2
<1>5. s.k = "function"
  BY <1>1, <1>3, <1>4
<1>6. MyKey(c) = k
  <2>1. Function(k) = Function(Key(proc[c].mem))
    BY <1>4, <1>5, ResFunction DEF Mine
  <2>2. Function(k).key = Function(Key(proc[c].mem)).key
    BY <2>1
  <2> QED BY <2>2 DEF Function, MyKey
<1>7. DropsFunction(s)
  BY <1>4, <1>5 DEF DropsFunction
<1>8. \/ proc[c].op \in {"delete", "clean"}
      \/ /\ proc[c].op \in DeployOps /\ backend \in Replacing
         /\ s.skip = 0 /\ s.do # "purge" /\ InGap(Program(proc[c].op), proc[c].at + 1)
  BY <1>2, <1>7 DEF StepFine
<1>9. CASE proc[c].op \in {"delete", "clean"}
  <2>1. Asked(c)
    BY <1>4, <1>5, <1>9 DEF Asked, Drops
  <2> QED BY <1>4, <1>6, <2>1
<1> QED BY <1>4, <1>6, <1>8, <1>9 DEF Deploying, DeployOps

\* No step takes the image away.
LEMMA ImageStays ==
    ASSUME Procs, backend \in Backends, NEW c \in Clients, Working(c),
           cloud' \in {cloud, After(c)}, Image \in cloud
    PROVE  Image \in cloud'
<1>1. SUFFICES ASSUME Image \notin After(c) PROVE FALSE
  OBVIOUS
<1>2. Image.kind = "image" /\ Mine(c).kind = StepOf(c).k
  BY ResKind DEF Image, Mine
<1>3. StepOf(c) \in StepType
  BY Current
<1>4. StepOf(c).do \in Drops \cup {"fresh", "off", "clear", "clear?", "sweep?"} => StepOf(c).k # "image"
  BY <1>3 DEF StepType
<1>5. \/ StepOf(c).do \in Drops \cup {"fresh", "off", "sweep?"} /\ Image = Mine(c)
      \/ StepOf(c).do \in {"clear", "clear?"} /\ Image.kind = StepOf(c).k
  BY <1>1, <1>2, AfterLoses
<1> QED BY <1>2, <1>4, <1>5

\* What has been removed is noted, of a redeployment that fails too.
LEMMA NotedIs ==
    ASSUME NEW c, NEW failed, Noted(c, failed), MyKey(c) \in Keys, removed \subseteq Keys
    PROVE  /\ removed \subseteq removed' /\ removed' \subseteq Keys
           /\ Asked(c) \/ (failed /\ Deploying(c) /\ backend \in Replacing) =>
                Function(MyKey(c)) \in cloud' \/ MyKey(c) \in removed'
BY DEF Noted

\* In a deployment, a step leads to the step it is meant to, or behind the metadata.
LEMMA Landing ==
    ASSUME Procs, backend \in Backends, NEW c \in Clients, Working(c), Deploys(proc[c]),
           NEW n \in Nat \ {0}, Advanced(c, n), proc'[c].at <= End(proc[c].op)
    PROVE  proc'[c].at = proc[c].at + n
<1> DEFINE op == proc[c].op P == Program(op) i == proc[c].at
<1>1. op \in DeployOps /\ i \in 1 .. Len(P) /\ P \in Seq(StepType) /\ End(op) \in Nat
  BY Current, MakerNumbers DEF Deploys
<1>2. proc'[c].at = i + n \/ (proc'[c].at = i + n + 1 /\ i + n <= Len(P) /\ P[i + n].do = "next")
  BY DEF Advanced
<1>3. proc'[c].at <= End(op)
  OBVIOUS
<1>4. CASE proc'[c].at = i + n + 1 /\ i + n <= Len(P) /\ P[i + n].do = "next"
  <2> HIDE DEF P, i
  <2>1. i + n \in 1 .. Len(P) /\ i + n # 1
    BY <1>1, <1>4
  <2> DEFINE j == i + n
  <2> HIDE DEF j
  <2>2. j \in 1 .. Len(P) /\ j # 1 /\ P[j].do = "next" /\ proc'[c].at = j + 1
    BY <1>4, <2>1 DEF j
  <2>3. DeployingStep(op, P, j)
    BY <1>1, <2>2, DeployingFine DEF P
  <2>4. j > End(op)
    BY <2>2, <2>3 DEF DeployingStep
  <2> HIDE DEF op
  <2> QED BY <1>1, <1>3, <2>2, <2>4
<1> QED BY <1>2, <1>4

\* A client that is now past the step which makes the function was there before, or
\* has just left it or passed it by.
LEMMA MadeBefore ==
    ASSUME Procs, backend \in Backends, NEW c \in Clients, Working(c),
           NEW n \in Nat \ {0}, Advanced(c, n), HasFunction, Made(proc'[c])
    PROVE  /\ Key(proc'[c].mem) = MyKey(c) /\ Deploys(proc[c]) /\ proc'[c].at = proc[c].at + n
           /\ \/ Made(proc[c])
              \/ proc[c].at <= Maker(proc[c].op) /\ Maker(proc[c].op) < proc[c].at + n
<1> DEFINE op == proc[c].op i == proc[c].at
<1>1. proc'[c].op = op /\ ~proc[c].failing /\ Key(proc'[c].mem) = MyKey(c)
  BY DEF Made, Advanced, MyKey
<1>2. Deploys(proc[c]) /\ proc'[c].at <= End(op) /\ Maker(op) < proc'[c].at
  BY <1>1 DEF Made, Deploys
<1>3. proc'[c].at = i + n
  BY <1>2, Landing
<1>4. i \in 1 .. Len(Program(op)) /\ Program(op) \in Seq(StepType)
  BY Current
<1>5. End(op) \in Nat /\ Maker(op) \in Nat
  BY <1>2, MakerNumbers DEF Deploys
<1>6. i \in Nat
  BY <1>4
<1>7. CASE Maker(op) < i
  <2>1. i <= End(op)
    <3> HIDE DEF i, op
    <3> QED BY <1>2, <1>3, <1>5, <1>6
  <2> QED BY <1>1, <1>2, <1>3, <1>7, <2>1 DEF Made
<1>8. CASE ~(Maker(op) < i)
  <2>1. i <= Maker(op)
    <3> HIDE DEF i, op
    <3> QED BY <1>5, <1>6, <1>8
  <2> QED BY <1>1, <1>2, <1>3, <2>1
<1> QED BY <1>7, <1>8

\* The same of the image.
LEMMA ImagedBefore ==
    ASSUME Procs, backend \in Backends, NEW c \in Clients, Working(c),
           NEW n \in Nat \ {0}, Advanced(c, n), HasImage, Imaged(proc'[c])
    PROVE  /\ Deploys(proc[c]) /\ proc'[c].at = proc[c].at + n
           /\ \/ Imaged(proc[c])
              \/ proc[c].at <= Imager(proc[c].op) /\ Imager(proc[c].op) < proc[c].at + n
<1> DEFINE op == proc[c].op i == proc[c].at
<1>1. proc'[c].op = op /\ ~proc[c].failing
  BY DEF Imaged, Advanced
<1>2. Deploys(proc[c]) /\ proc'[c].at <= End(op) /\ Imager(op) < proc'[c].at
  BY <1>1 DEF Imaged, Deploys
<1>3. proc'[c].at = i + n
  BY <1>2, Landing
<1>4. i \in 1 .. Len(Program(op)) /\ Program(op) \in Seq(StepType)
  BY Current
<1>5. End(op) \in Nat /\ Imager(op) \in Nat
  BY <1>2, MakerNumbers DEF Deploys
<1>6. i \in Nat
  BY <1>4
<1>7. CASE Imager(op) < i
  <2>1. i <= End(op)
    <3> HIDE DEF i, op
    <3> QED BY <1>2, <1>3, <1>5, <1>6
  <2> QED BY <1>1, <1>2, <1>3, <1>7, <2>1 DEF Imaged
<1>8. CASE ~(Imager(op) < i)
  <2>1. i <= Imager(op)
    <3> HIDE DEF i, op
    <3> QED BY <1>5, <1>6, <1>8
  <2> QED BY <1>1, <1>2, <1>3, <2>1
<1> QED BY <1>7, <1>8

\* The step at which a deployment is.
LEMMA DeployingCurrent ==
    ASSUME Procs, backend \in Backends, NEW c \in Clients, Working(c), Deploys(proc[c])
    PROVE  /\ DeployingStep(proc[c].op, Program(proc[c].op), proc[c].at)
           /\ StepOf(c) = Program(proc[c].op)[proc[c].at] /\ proc[c].at \in Nat
           /\ StepOf(c) \in StepType
           /\ HasFunction => Maker(proc[c].op) \in Nat
           /\ HasImage => Imager(proc[c].op) \in Nat
           /\ End(proc[c].op) \in Nat
<1>1. /\ proc[c].at \in 1 .. Len(Program(proc[c].op))
      /\ StepOf(c) = Program(proc[c].op)[proc[c].at] /\ StepOf(c) \in StepType
      /\ proc[c].op \in DeployOps
  BY Current DEF Deploys
<1>2. DeployingStep(proc[c].op, Program(proc[c].op), proc[c].at)
  BY <1>1, DeployingFine
<1>3. /\ HasFunction => Maker(proc[c].op) \in Nat
      /\ HasImage => Imager(proc[c].op) \in Nat
      /\ End(proc[c].op) \in Nat
  BY <1>1, MakerNumbers
<1> QED BY <1>1, <1>2, <1>3

\* One step on: the function has been made before, or by this step.
LEMMA OneOnMade ==
    ASSUME Procs, backend \in Backends, NEW c \in Clients, Working(c), Advanced(c, 1),
           HasFunction, Made(proc'[c])
    PROVE  /\ Key(proc'[c].mem) = MyKey(c)
           /\ Made(proc[c]) \/ (StepOf(c).do \in {"new", "put", "register"} /\ Mine(c) = Function(MyKey(c)))
<1> DEFINE op == proc[c].op P == Program(op) i == proc[c].at
<1>1. /\ Key(proc'[c].mem) = MyKey(c) /\ Deploys(proc[c])
      /\ Made(proc[c]) \/ (i <= Maker(op) /\ Maker(op) < i + 1)
  BY MadeBefore
<1>2. ASSUME i <= Maker(op), Maker(op) < i + 1
      PROVE  StepOf(c).do \in {"new", "put", "register"} /\ StepOf(c).k = "function"
  <2>1. DeployingStep(op, P, i) /\ StepOf(c) = P[i] /\ i \in Nat /\ Maker(op) \in Nat
    BY <1>1, DeployingCurrent
  <2> HIDE DEF op, P, i
  <2>2. i = Maker(op)
    BY <1>2, <2>1
  <2> QED BY <2>1, <2>2 DEF DeployingStep
<1>3. StepOf(c).k = "function" => Mine(c) = Function(MyKey(c))
  BY ResFunction DEF Mine, MyKey
<1> QED BY <1>1, <1>2, <1>3

\* The same of the image.
LEMMA OneOnImaged ==
    ASSUME Procs, backend \in Backends, NEW c \in Clients, Working(c), Advanced(c, 1),
           HasImage, Imaged(proc'[c])
    PROVE  Imaged(proc[c]) \/ (StepOf(c).do = "put" /\ Mine(c) = Image)
<1> DEFINE op == proc[c].op P == Program(op) i == proc[c].at
<1>1. /\ Deploys(proc[c])
      /\ Imaged(proc[c]) \/ (i <= Imager(op) /\ Imager(op) < i + 1)
  BY ImagedBefore
<1>2. ASSUME i <= Imager(op), Imager(op) < i + 1
      PROVE  StepOf(c).do = "put" /\ StepOf(c).k = "image"
  <2>1. DeployingStep(op, P, i) /\ StepOf(c) = P[i] /\ i \in Nat /\ Imager(op) \in Nat
    BY <1>1, DeployingCurrent
  <2> HIDE DEF op, P, i
  <2>2. i = Imager(op)
    BY <1>2, <2>1
  <2> QED BY <2>1, <2>2 DEF DeployingStep
<1>3. StepOf(c).k = "image" => Mine(c) = Image
  BY ResImage DEF Mine
<1> QED BY <1>1, <1>2, <1>3

\* A step that leaves others out passes by the making of a function only if it is
\* about that function, and never by that of an image.
LEMMA SkipsMade ==
    ASSUME Procs, backend \in Backends, NEW c \in Clients, Working(c),
           StepOf(c).do \in {"look", "try"}, NEW n \in {1, 1 + StepOf(c).skip},
           Advanced(c, n), HasFunction, Made(proc'[c])
    PROVE  /\ Key(proc'[c].mem) = MyKey(c)
           /\ Made(proc[c]) \/ (Mine(c) = Function(MyKey(c)) /\ n # 1)
<1> DEFINE op == proc[c].op P == Program(op) i == proc[c].at
<1>0. StepOf(c) \in StepType
  BY Current
<1>01. n \in Nat \ {0}
  BY <1>0 DEF StepType
<1>1. /\ Key(proc'[c].mem) = MyKey(c) /\ Deploys(proc[c])
      /\ Made(proc[c]) \/ (i <= Maker(op) /\ Maker(op) < i + n)
  BY <1>01, MadeBefore
<1>2. ASSUME i <= Maker(op), Maker(op) < i + n
      PROVE  StepOf(c).k = "function" /\ n # 1
  <2>1. DeployingStep(op, P, i) /\ StepOf(c) = P[i] /\ i \in Nat /\ Maker(op) \in Nat
    BY <1>1, DeployingCurrent
  <2> DEFINE s == StepOf(c).skip
  <2>3. s \in Nat
    BY <1>0 DEF StepType
  <2>4. n = 1 \/ n = 1 + s
    OBVIOUS
  <2>5. i = Maker(op) => P[i].do \notin {"look", "try"}
    BY <2>1 DEF DeployingStep
  <2>6. i # Maker(op)
    BY <2>1, <2>5
  <2> HIDE DEF op, P, i, s
  <2>7. n # 1
    BY <1>2, <2>1, <2>6
  <2>8. n = 1 + s /\ Maker(op) < i + 1 + s
    BY <1>2, <2>1, <2>3, <2>4, <2>7
  <2>9. P[i].do \in {"look", "try"} /\ P[i].skip = s
    BY <2>1 DEF s
  <2>10. P[i].k = "function"
    BY <1>2, <2>1, <2>8, <2>9 DEF DeployingStep
  <2> QED BY <2>1, <2>7, <2>10
<1>3. StepOf(c).k = "function" => Mine(c) = Function(MyKey(c))
  BY ResFunction DEF Mine, MyKey
<1> QED BY <1>1, <1>2, <1>3

\* The image is not passed by.
LEMMA SkipsImaged ==
    ASSUME Procs, backend \in Backends, NEW c \in Clients, Working(c),
           StepOf(c).do \in {"look", "try"}, NEW n \in {1, 1 + StepOf(c).skip},
           Advanced(c, n), HasImage, Imaged(proc'[c])
    PROVE  Imaged(proc[c])
<1> DEFINE op == proc[c].op P == Program(op) i == proc[c].at
<1>0. StepOf(c) \in StepType
  BY Current
<1>01. n \in Nat \ {0}
  BY <1>0 DEF StepType
<1>1. /\ Deploys(proc[c])
      /\ Imaged(proc[c]) \/ (i <= Imager(op) /\ Imager(op) < i + n)
  BY <1>01, ImagedBefore
<1>2. ASSUME i <= Imager(op), Imager(op) < i + n
      PROVE  FALSE
  <2>1. DeployingStep(op, P, i) /\ StepOf(c) = P[i] /\ i \in Nat /\ Imager(op) \in Nat
    BY <1>1, DeployingCurrent
  <2> DEFINE s == StepOf(c).skip
  <2>3. s \in Nat
    BY <1>0 DEF StepType
  <2>4. n = 1 \/ n = 1 + s
    OBVIOUS
  <2>9. P[i].do \in {"look", "try"} /\ P[i].skip = s
    BY <2>1
  <2>10. i + 1 + s <= Imager(op)
    BY <1>2, <2>1, <2>9 DEF DeployingStep
  <2> HIDE DEF op, P, i, s
  <2> QED BY <1>2, <2>1, <2>3, <2>4, <2>10
<1> QED BY <1>1, <1>2

-----------------------------------------------------------------------------
(* What metadata rely on, step by step. *)

\* What a step of a client does to what metadata rely on: a function stays, or is
\* noted as removed, or its client is at making the new one; a deployment gets past
\* the making of the function with the function made; and so for the image.
FunctionsKept(c) ==
  \A k \in Keys : Function(k) \in cloud =>
    \/ Function(k) \in cloud' \/ k \in removed'
    \/ backend \in Replacing /\ Gap(proc'[c]) /\ Key(proc'[c].mem) = k
MadeKept(c) ==
  HasFunction /\ Made(proc'[c]) =>
    \/ Made(proc[c]) /\ Key(proc'[c].mem) = MyKey(c)
    \/ Function(Key(proc'[c].mem)) \in cloud'
GapKept(c) ==
  backend \in Replacing /\ Gap(proc[c]) =>
    \/ Gap(proc'[c]) /\ Key(proc'[c].mem) = MyKey(c)
    \/ Function(MyKey(c)) \in cloud' \/ MyKey(c) \in removed'
RemovedKept(c) ==
  removed' \subseteq Keys /\ \A k \in removed : k \in removed' \/ Function(k) \in cloud'
ImageKept(c) ==
  /\ Image \in cloud => Image \in cloud'
  /\ HasImage /\ Imaged(proc'[c]) => Imaged(proc[c]) \/ Image \in cloud'
Kept(c) ==
  /\ Moved(c) /\ leaver' \in Phases
  /\ FunctionsKept(c) /\ MadeKept(c) /\ GapKept(c) /\ RemovedKept(c) /\ ImageKept(c)

\* A client that rests has made nothing.
LEMMA IdleIsNothing == ~Made(Idle) /\ ~Imaged(Idle) /\ ~Gap(Idle)
BY DEF Made, Imaged, Gap, Deploys, DeployOps, Idle

\* The part of the state that the cloud depends on.
Sound == Procs /\ backend \in Backends /\ leaver \in Phases /\ removed \subseteq Keys

\* In the gap, a step is the making of the function or the one before.
LEMMA InTheGap ==
    ASSUME Sound, NEW c \in Clients, Working(c), Gap(proc[c])
    PROVE  /\ Deploying(c) /\ StepOf(c).skip = 0
           /\ \/ StepOf(c).do = "new" /\ Mine(c) = Function(MyKey(c))
              \/ /\ StepOf(c).do = "need"
                 /\ InGap(Program(proc[c].op), proc[c].at + 1)
<1> DEFINE P == Program(proc[c].op) i == proc[c].at
<1>1. /\ i \in 1 .. Len(P) /\ P \in Seq(StepType) /\ StepOf(c) = P[i]
  BY Current DEF Sound
<1>2. Deploying(c) /\ InGap(P, i)
  BY DEF Gap, Deploys, DeployOps, Deploying
<1> HIDE DEF P, i
<1>3. CASE P[i] = S("new", "function")
  <2>1. P[i].do = "new" /\ P[i].k = "function" /\ P[i].skip = 0
    BY <1>3, PlainStep
  <2>2. Mine(c) = Function(MyKey(c))
    BY <1>1, <2>1, ResFunction DEF Mine, MyKey
  <2> QED BY <1>1, <1>2, <2>1, <2>2
<1>4. CASE P[i] = S("need", "zip") /\ i + 1 <= Len(P) /\ P[i + 1] = S("new", "function")
  <2>1. P[i].do = "need" /\ P[i].skip = 0
    BY <1>4, PlainStep
  <2>2. i + 1 \in 1 .. Len(P)
    BY <1>1, <1>4
  <2>3. InGap(P, i + 1)
    BY <1>4, <2>2 DEF InGap
  <2> QED BY <1>1, <1>2, <2>1, <2>3 DEF P, i
<1> QED BY <1>2, <1>3, <1>4 DEF InGap

\* A step that is in a gap.
LEMMA GapStep ==
    ASSUME NEW P, NEW j, P \in Seq(StepType), InGap(P, j)
    PROVE  j \in 1 .. Len(P) /\ P[j].do \in {"new", "need"}
BY PlainStep DEF InGap

\* The runtime a client is at.
LEMMA CurrentKey ==
    ASSUME Sound, NEW c \in Clients, Working(c)
    PROVE  MyKey(c) \in Keys
BY Current DEF Sound

\* An exception, or the death of the client.
LEMMA RaiseKept ==
    ASSUME Sound, NEW c \in Clients, Working(c), cloud' \in {cloud, After(c)}, Raise(c)
    PROVE  Kept(c)
<1>1. Moved(c) /\ proc'[c] = Idle
  BY IdleMoved DEF Raise, Sound
<1>2. leaver' \in Phases
  BY DEF Raise, Sound, Phases
<1>3. /\ removed \subseteq removed' /\ removed' \subseteq Keys
      /\ Asked(c) \/ (Deploying(c) /\ backend \in Replacing) =>
           Function(MyKey(c)) \in cloud' \/ MyKey(c) \in removed'
  <2>1. Noted(c, TRUE) /\ MyKey(c) \in Keys
    BY CurrentKey DEF Raise
  <2> QED BY <2>1, NotedIs DEF Sound
<1>4. FunctionsKept(c)
  <2> SUFFICES ASSUME NEW k \in Keys, Function(k) \in cloud, Function(k) \notin cloud'
               PROVE  k \in removed'
    BY DEF FunctionsKept
  <2>1. MyKey(c) = k /\ (Asked(c) \/ (Deploying(c) /\ backend \in Replacing))
    BY FunctionLost DEF Sound, Deployed
  <2> QED BY <1>3, <2>1
<1>5. MadeKept(c)
  BY <1>1, IdleIsNothing DEF MadeKept
<1>6. GapKept(c)
  <2> SUFFICES ASSUME backend \in Replacing, Gap(proc[c])
               PROVE  Function(MyKey(c)) \in cloud' \/ MyKey(c) \in removed'
    BY DEF GapKept
  <2>1. Deploying(c)
    BY InTheGap
  <2> QED BY <1>3, <2>1
<1>7. RemovedKept(c)
  BY <1>3 DEF RemovedKept
<1>8. ImageKept(c)
  <2>1. Image \in cloud => Image \in cloud'
    BY ImageStays DEF Sound
  <2> QED BY <1>1, <2>1, IdleIsNothing DEF ImageKept
<1> QED BY <1>1, <1>2, <1>4, <1>5, <1>6, <1>7, <1>8 DEF Kept

\* An exception on its way to a finally clause.
LEMMA KeepKept ==
    ASSUME Sound, NEW c \in Clients, Working(c), cloud' \in {cloud, After(c)},
           Finally(c), Keep(c)
    PROVE  Kept(c)
<1> DEFINE P == Program(proc[c].op)
<1>1. /\ Moved(c) /\ leaver' \in Phases /\ proc'[c].failing
      /\ proc'[c].op = proc[c].op /\ InClause(P, proc'[c].at)
  BY KeepMoved DEF Sound
<1>2. StepOf(c).skip # 0
  BY DEF Finally
<1>3. /\ removed \subseteq removed' /\ removed' \subseteq Keys
      /\ Asked(c) => Function(MyKey(c)) \in cloud' \/ MyKey(c) \in removed'
  <2>1. Noted(c, FALSE) /\ MyKey(c) \in Keys
    BY CurrentKey DEF Keep
  <2> QED BY <2>1, NotedIs DEF Sound
<1>4. FunctionsKept(c)
  <2> SUFFICES ASSUME NEW k \in Keys, Function(k) \in cloud, Function(k) \notin cloud'
               PROVE  k \in removed'
    BY DEF FunctionsKept
  <2>1. MyKey(c) = k /\ Asked(c)
    BY <1>2, FunctionLost DEF Sound, Deployed
  <2> QED BY <1>3, <2>1
<1>5. ~Made(proc'[c]) /\ ~Imaged(proc'[c])
  BY <1>1 DEF Made, Imaged
<1>6. MadeKept(c)
  BY <1>5 DEF MadeKept
<1>7. GapKept(c)
  BY <1>2, InTheGap DEF GapKept
<1>8. RemovedKept(c)
  BY <1>3 DEF RemovedKept
<1>9. ImageKept(c)
  BY <1>5, ImageStays DEF Sound, ImageKept
<1> QED BY <1>1, <1>4, <1>6, <1>7, <1>8, <1>9 DEF Kept

\* The call will be made again.
LEMMA AgainKept ==
    ASSUME Sound, NEW c \in Clients, Working(c), cloud' \in {cloud, After(c)},
           StepOf(c).do \notin Drops \/ StepOf(c).do = "purge",
           UNCHANGED <<proc, leaver>>, Noted(c, FALSE)
    PROVE  Kept(c)
<1>1. Moved(c) /\ leaver' \in Phases
  BY DEF Sound, Moved, Procs
<1>3. /\ removed \subseteq removed' /\ removed' \subseteq Keys
      /\ Asked(c) => Function(MyKey(c)) \in cloud' \/ MyKey(c) \in removed'
  <2>1. MyKey(c) \in Keys
    BY CurrentKey
  <2> QED BY <2>1, NotedIs DEF Sound
<1>4. FunctionsKept(c)
  <2> SUFFICES ASSUME NEW k \in Keys, Function(k) \in cloud, Function(k) \notin cloud'
               PROVE  k \in removed'
    BY DEF FunctionsKept
  <2>1. MyKey(c) = k /\ Asked(c)
    BY FunctionLost DEF Sound, Deployed
  <2> QED BY <1>3, <2>1
<1>6. MadeKept(c) /\ GapKept(c)
  BY DEF MadeKept, GapKept, MyKey
<1>8. RemovedKept(c)
  BY <1>3 DEF RemovedKept
<1>9. ImageKept(c)
  BY ImageStays DEF Sound, ImageKept
<1> QED BY <1>1, <1>4, <1>6, <1>8, <1>9 DEF Kept

\* A step on leads to the next step, where no loop ends.
LEMMA OnwardLands ==
    ASSUME Sound, NEW c \in Clients, Working(c), Onward(c, 1),
           proc[c].at + 1 \in 1 .. Len(Program(proc[c].op)),
           Program(proc[c].op)[proc[c].at + 1].do # "next"
    PROVE  /\ proc'[c].at = proc[c].at + 1 /\ proc'[c].op = proc[c].op
           /\ proc'[c].mem = proc[c].mem
<1> DEFINE P == Program(proc[c].op) j == proc[c].at + 1
<1>1. j \in 1 .. Len(P) /\ P[j].do # "next"
  OBVIOUS
<1>2. P \in Seq(StepType)
  BY Current DEF Sound
<1>3. ~(j > Len(P))
  <2> HIDE DEF P, j
  <2> QED BY <1>1, <1>2
<1>4. proc' = [proc EXCEPT ![c].at = j]
  BY <1>1, <1>3 DEF Onward
<1> HIDE DEF j
<1>5. proc[c] \in ProcType
  BY DEF Sound, Procs
<1>6. proc'[c].at = j /\ proc'[c].op = proc[c].op /\ proc'[c].mem = proc[c].mem
  BY <1>4, <1>5 DEF Sound, Procs, ProcType
<1> QED BY <1>6 DEF j

\* A call that has done its work, or whose exception is swallowed.
LEMMA CallKept ==
    ASSUME Sound, NEW c \in Clients, Working(c), cloud' \in {cloud, After(c)},
           StepOf(c).do \in Calls, cloud' = After(c) \/ StepOf(c).do \in Swallowed,
           proc[c].failing => StepOf(c).skip # -1, Onward(c, 1), Noted(c, FALSE)
    PROVE  Kept(c)
<1> DEFINE P == Program(proc[c].op)
<1>1. Moved(c) /\ (proc'[c] = Idle \/ Advanced(c, 1)) /\ leaver' \in Phases
  BY OnwardMoved DEF Sound
<1>2. StepOf(c).do \in {"new", "put", "register"} => cloud' = After(c) /\ Mine(c) \in cloud'
  BY AfterMakes DEF Swallowed
<1>3. /\ removed \subseteq removed' /\ removed' \subseteq Keys
      /\ Asked(c) => Function(MyKey(c)) \in cloud' \/ MyKey(c) \in removed'
  <2>1. MyKey(c) \in Keys
    BY CurrentKey
  <2> QED BY <2>1, NotedIs DEF Sound
<1>4. P \in Seq(StepType)
  BY Current DEF Sound
<1>5. ASSUME InGap(P, proc[c].at + 1), Deploying(c)
      PROVE  Gap(proc'[c]) /\ Key(proc'[c].mem) = MyKey(c)
  <2>1. proc[c].at + 1 \in 1 .. Len(P) /\ P[proc[c].at + 1].do # "next"
    <3>1. proc[c].at + 1 \in 1 .. Len(P) /\ P[proc[c].at + 1].do \in {"new", "need"}
      BY <1>4, <1>5, GapStep
    <3> QED BY <3>1
  <2>2. /\ proc'[c].at = proc[c].at + 1 /\ proc'[c].op = proc[c].op
        /\ proc'[c].mem = proc[c].mem
    BY <2>1, OnwardLands
  <2> QED BY <1>5, <2>2 DEF Gap, Deploys, DeployOps, Deploying, MyKey
<1>6. FunctionsKept(c)
  <2> SUFFICES ASSUME NEW k \in Keys, Function(k) \in cloud, Function(k) \notin cloud'
               PROVE  \/ k \in removed'
                      \/ backend \in Replacing /\ Gap(proc'[c]) /\ Key(proc'[c].mem) = k
    BY DEF FunctionsKept
  <2>1. /\ MyKey(c) = k
        /\ \/ Asked(c)
           \/ Deploying(c) /\ backend \in Replacing /\ InGap(P, proc[c].at + 1)
    BY FunctionLost DEF Sound, Deployed
  <2> QED BY <1>3, <1>5, <2>1
<1>7. MadeKept(c)
  <2> SUFFICES ASSUME HasFunction, Made(proc'[c])
               PROVE  \/ Made(proc[c]) /\ Key(proc'[c].mem) = MyKey(c)
                      \/ Function(Key(proc'[c].mem)) \in cloud'
    BY DEF MadeKept
  <2>1. Advanced(c, 1)
    BY <1>1, IdleIsNothing
  <2>2. /\ Key(proc'[c].mem) = MyKey(c)
        /\ Made(proc[c]) \/ (StepOf(c).do \in {"new", "put", "register"} /\ Mine(c) = Function(MyKey(c)))
    BY <2>1, OneOnMade DEF Sound
  <2> QED BY <1>2, <2>2
<1>8. GapKept(c)
  <2> SUFFICES ASSUME backend \in Replacing, Gap(proc[c])
               PROVE  \/ Gap(proc'[c]) /\ Key(proc'[c].mem) = MyKey(c)
                      \/ Function(MyKey(c)) \in cloud'
    BY DEF GapKept
  <2>1. /\ Deploying(c)
        /\ \/ StepOf(c).do = "new" /\ Mine(c) = Function(MyKey(c))
           \/ InGap(P, proc[c].at + 1)
    BY InTheGap
  <2> QED BY <1>2, <1>5, <2>1
<1>9. RemovedKept(c)
  BY <1>3 DEF RemovedKept
<1>10. ImageKept(c)
  <2>1. Image \in cloud => Image \in cloud'
    BY ImageStays DEF Sound
  <2>2. ASSUME HasImage, Imaged(proc'[c])
        PROVE  Imaged(proc[c]) \/ Image \in cloud'
    <3>1. Advanced(c, 1)
      BY <1>1, <2>2, IdleIsNothing
    <3>2. Imaged(proc[c]) \/ (StepOf(c).do = "put" /\ Mine(c) = Image)
      BY <2>2, <3>1, OneOnImaged DEF Sound
    <3> QED BY <1>2, <3>2
  <2> QED BY <2>1, <2>2 DEF ImageKept
<1> QED BY <1>1, <1>6, <1>7, <1>8, <1>9, <1>10 DEF Kept

\* A step that leaves the cloud alone, and is none of those that matter to it.
LEMMA PassKept ==
    ASSUME Sound, NEW c \in Clients, Working(c), UNCHANGED cloud, RemovedKept(c),
           StepOf(c).do \notin Calls \cup {"look", "try"}, Onward(c, 1)
    PROVE  Kept(c)
<1>1. ~proc[c].failing
  BY Current DEF Sound, Drops, Calls
<1>2. Moved(c) /\ (proc'[c] = Idle \/ Advanced(c, 1)) /\ leaver' \in Phases
  BY <1>1, OnwardMoved DEF Sound
<1>3. StepOf(c).do \notin {"new", "put", "register", "need"}
  BY DEF Calls
<1>4. FunctionsKept(c)
  BY DEF FunctionsKept
<1>5. MadeKept(c)
  BY <1>2, <1>3, IdleIsNothing, OneOnMade DEF Sound, MadeKept
<1>6. GapKept(c)
  BY <1>3, InTheGap DEF GapKept
<1>7. ImageKept(c)
  BY <1>2, <1>3, IdleIsNothing, OneOnImaged DEF Sound, ImageKept
<1> QED BY <1>2, <1>4, <1>5, <1>6, <1>7 DEF Kept

\* A step that leads past what remains of a deployment.
LEMMA JumpKept ==
    ASSUME Sound, NEW c \in Clients, Working(c), UNCHANGED cloud, RemovedKept(c),
           StepOf(c).do \notin Calls \cup {"look", "try"}, NEW n \in Nat, Onward(c, n),
           Deploys(proc[c]) => proc[c].at + n > End(proc[c].op)
    PROVE  Kept(c)
<1>1. ~proc[c].failing
  BY Current DEF Sound, Drops, Calls
<1>2. Moved(c) /\ (proc'[c] = Idle \/ Advanced(c, n)) /\ leaver' \in Phases
  BY <1>1, OnwardMoved DEF Sound
<1>3. StepOf(c).do \notin {"new", "put", "register", "need"}
  BY DEF Calls
<1>4. FunctionsKept(c)
  BY DEF FunctionsKept
<1>5. ASSUME Made(proc'[c]) \/ Imaged(proc'[c])
      PROVE  FALSE
  <2>1. Advanced(c, n)
    BY <1>2, <1>5, IdleIsNothing
  <2>2. proc'[c].op = proc[c].op /\ Deploys(proc'[c]) /\ proc'[c].at <= End(proc'[c].op)
    BY <1>5, <2>1 DEF Made, Imaged, Advanced
  <2>3. Deploys(proc[c])
    BY <2>2 DEF Deploys
  <2>4. proc[c].at \in Nat /\ End(proc[c].op) \in Nat
    BY <2>3, DeployingCurrent DEF Sound
  <2>5. proc'[c].at = proc[c].at + n \/ proc'[c].at = proc[c].at + n + 1
    BY <2>1 DEF Advanced
  <2> DEFINE i == proc[c].at e == End(proc[c].op)
  <2>6. i \in Nat /\ e \in Nat /\ i + n > e
    BY <2>3, <2>4
  <2>7. (i + n <= e) \/ (i + n + 1 <= e)
    BY <2>2, <2>5
  <2> HIDE DEF i, e
  <2> QED BY <2>6, <2>7
<1>6. MadeKept(c) /\ ImageKept(c)
  BY <1>5 DEF MadeKept, ImageKept
<1>7. GapKept(c)
  BY <1>3, InTheGap DEF GapKept
<1> QED BY <1>2, <1>4, <1>6, <1>7 DEF Kept

\* A step that looks for a resource, or tries to make it, and leaves steps out.
LEMMA LookKept ==
    ASSUME Sound, NEW c \in Clients, Working(c), UNCHANGED removed,
           StepOf(c).do \in {"look", "try"}, NEW n \in {1, 1 + StepOf(c).skip}, Onward(c, n),
           \/ cloud' = cloud /\ (n # 1 => Mine(c) \in cloud)
           \/ cloud' = cloud \cup {Mine(c)}
    PROVE  Kept(c)
<1>0. StepOf(c) \in StepType
  BY Current DEF Sound
<1>1. ~proc[c].failing
  BY Current DEF Sound, Drops
<1>2. n \in Nat
  BY <1>0 DEF StepType
<1>3. Moved(c) /\ (proc'[c] = Idle \/ Advanced(c, n)) /\ leaver' \in Phases
  BY <1>1, <1>2, OnwardMoved DEF Sound
<1>4. FunctionsKept(c)
  BY DEF FunctionsKept
<1>5. MadeKept(c)
  <2> SUFFICES ASSUME HasFunction, Made(proc'[c])
               PROVE  \/ Made(proc[c]) /\ Key(proc'[c].mem) = MyKey(c)
                      \/ Function(Key(proc'[c].mem)) \in cloud'
    BY DEF MadeKept
  <2>1. Advanced(c, n)
    BY <1>3, IdleIsNothing
  <2>2. /\ Key(proc'[c].mem) = MyKey(c)
        /\ Made(proc[c]) \/ (Mine(c) = Function(MyKey(c)) /\ n # 1)
    BY <2>1, SkipsMade DEF Sound
  <2> QED BY <2>2
<1>6. GapKept(c)
  BY InTheGap DEF GapKept
<1>7. RemovedKept(c)
  BY DEF RemovedKept, Sound
<1>8. ImageKept(c)
  <2>1. HasImage /\ Imaged(proc'[c]) => Imaged(proc[c])
    BY <1>3, IdleIsNothing, SkipsImaged DEF Sound
  <2> QED BY <2>1 DEF ImageKept
<1> QED BY <1>3, <1>4, <1>5, <1>6, <1>7, <1>8 DEF Kept

\* Nothing is made by a first step.
LEMMA MakersAreLate ==
    ASSUME backend \in Backends, NEW op \in DeployOps
    PROVE  /\ HasFunction => ~(Maker(op) < 2)
           /\ HasImage => ~(Imager(op) < 2)
<1>1. HasFunction => MakerOf[backend] \in Nat /\ MakerOf[backend] >= 2
  <2> SUFFICES ASSUME HasFunction PROVE MakerOf[backend] \in Nat /\ MakerOf[backend] >= 2
    OBVIOUS
  <2>1. backend \in {"aws_lambda", "aws_batch", "aliyun_fc", "azure_functions",
          "azure_containers", "gcp_functions", "gcp_cloudrun", "ibm_cf", "oracle_f",
          "openwhisk", "code_engine", "knative"}
    BY BoundsAssumption DEF HasFunction
  <2>2. MakerOf[backend] \in {12, 14, 5, 6, 8, 7, 10}
    BY <2>1 DEF MakerOf
  <2> QED BY <2>2
<1>2. HasImage => ImagerOf[backend] \in Nat /\ ImagerOf[backend] >= 2
  <2> SUFFICES ASSUME HasImage PROVE ImagerOf[backend] \in Nat /\ ImagerOf[backend] >= 2
    OBVIOUS
  <2>1. ImagerOf[backend] \in {4, 5, 6}
    BY DEF HasImage, ImagerOf
  <2> QED BY <2>1
<1>3. Shift(op) \in Nat
  BY DEF Shift
<1> QED BY <1>1, <1>2, <1>3 DEF Maker, Imager

\* A loop goes to its next runtime.
LEMMA EachKept ==
    ASSUME Sound, NEW c \in Clients, Working(c), UNCHANGED <<cloud, removed>>,
           StepOf(c).do \in {"list", "next"}, NEW todo \in SUBSET Keys, Each(c, todo)
    PROVE  Kept(c)
<1>1. Moved(c) /\ leaver' \in Phases /\ proc'[c].at = 2
  BY EachMoved DEF Sound
<1>2. FunctionsKept(c)
  BY DEF FunctionsKept
<1>3. /\ HasFunction => ~Made(proc'[c])
      /\ HasImage => ~Imaged(proc'[c])
  BY <1>1, MakersAreLate DEF Sound, Made, Imaged, Deploys
<1>4. MadeKept(c) /\ ImageKept(c)
  BY <1>3 DEF MadeKept, ImageKept
<1>5. GapKept(c)
  BY InTheGap DEF GapKept
<1>6. RemovedKept(c)
  BY DEF RemovedKept, Sound
<1> QED BY <1>1, <1>2, <1>4, <1>5, <1>6 DEF Kept

\* A step that the cloud does not notice.
LEMMA NothingChanges ==
    ASSUME Sound, NEW c \in Clients, Working(c), UNCHANGED <<proc, leaver, cloud, removed>>
    PROVE  Kept(c)
<1>1. Moved(c) /\ leaver' \in Phases
  BY DEF Sound, Moved, Procs
<1>2. FunctionsKept(c) /\ MadeKept(c) /\ GapKept(c) /\ ImageKept(c)
  BY DEF FunctionsKept, MadeKept, GapKept, ImageKept, MyKey
<1>3. RemovedKept(c)
  BY DEF RemovedKept, Sound
<1> QED BY <1>1, <1>2, <1>3 DEF Kept

\* The call that has done its work, within a finally clause or outside.
LEMMA ProceedKept ==
    ASSUME Sound, NEW c \in Clients, Working(c), cloud' \in {cloud, After(c)},
           StepOf(c).do \in Calls, cloud' = After(c) \/ StepOf(c).do \in Swallowed, Proceed(c)
    PROVE  Kept(c)
<1>1. CASE proc[c].failing /\ StepOf(c).skip = -1
  <2>1. Raise(c)
    BY <1>1 DEF Proceed
  <2> QED BY <2>1, RaiseKept
<1>2. CASE ~(proc[c].failing /\ StepOf(c).skip = -1)
  <2>1. Onward(c, 1) /\ Noted(c, FALSE)
    BY <1>2 DEF Proceed
  <2>2. proc[c].failing => StepOf(c).skip # -1
    BY <1>2
  <2> QED BY <2>1, <2>2, CallKept
<1> QED BY <1>1, <1>2

\* The steps of a client, one by one: a call that does its work ...
LEMMA CallStep ==
    ASSUME Sound, NEW c \in Clients, Call(c)
    PROVE  Kept(c)
<1>1. Working(c) /\ StepOf(c).do \in Calls
  BY DEF Call
<1>2. CASE Refused(c) /\ Finally(c)
  <2>1. cloud' = cloud /\ Keep(c)
    BY <1>2 DEF Call
  <2> QED BY <1>1, <1>2, <2>1, KeepKept
<1>3. CASE Refused(c) /\ ~Finally(c)
  <2>1. cloud' = cloud /\ Raise(c)
    BY <1>3 DEF Call
  <2> QED BY <1>1, <2>1, RaiseKept
<1>4. CASE ~Refused(c)
  <2>1. cloud' = After(c) /\ Proceed(c)
    BY <1>4 DEF Call
  <2> QED BY <1>1, <2>1, ProceedKept
<1> QED BY <1>2, <1>3, <1>4

\* ... or that fails, with or without having done it ...
LEMMA FaultyStep ==
    ASSUME Sound, NEW c \in Clients, FaultyCall(c)
    PROVE  Kept(c)
<1>1. Working(c) /\ cloud' \in {cloud, After(c)}
  BY DEF FaultyCall
<1>2. CASE StepOf(c).do \in Swallowed
  <2>1. Proceed(c)
    BY <1>2 DEF FaultyCall
  <2>2. StepOf(c).do \in Calls
    BY <1>2 DEF Swallowed, Calls
  <2> QED BY <1>1, <1>2, <2>1, <2>2, ProceedKept
<1>3. CASE StepOf(c).do \notin Swallowed /\ Finally(c)
  <2>1. Keep(c)
    BY <1>3 DEF FaultyCall
  <2> QED BY <1>1, <1>3, <2>1, KeepKept
<1>4. CASE StepOf(c).do \notin Swallowed /\ ~Finally(c) /\ CalledAgain(c)
  <2>1. UNCHANGED <<proc, leaver>> /\ Noted(c, FALSE)
    BY <1>4 DEF FaultyCall
  <2>2. StepOf(c).do \notin Drops \/ StepOf(c).do = "purge"
    BY <1>4 DEF CalledAgain, Drops
  <2> QED BY <1>1, <2>1, <2>2, AgainKept
<1>5. CASE StepOf(c).do \notin Swallowed /\ ~Finally(c) /\ ~CalledAgain(c)
  <2>1. Raise(c)
    BY <1>5 DEF FaultyCall
  <2> QED BY <1>1, <2>1, RaiseKept
<1> QED BY <1>2, <1>3, <1>4, <1>5

\* ... the death of the process ...
LEMMA DieStep ==
    ASSUME Sound, NEW c \in Clients, Die(c)
    PROVE  Kept(c)
<1>1. Working(c) /\ cloud' = cloud /\ Raise(c)
  BY DEF Die
<1> QED BY <1>1, RaiseKept

\* ... a look at a resource ...
LEMMA LookStep ==
    ASSUME Sound, NEW c \in Clients, Look(c)
    PROVE  Kept(c)
<1> DEFINE n == IF Mine(c) \in cloud THEN 1 + StepOf(c).skip ELSE 1
<1>1. /\ Working(c) /\ StepOf(c).do \in {"look", "try"} /\ Onward(c, n)
      /\ cloud' = cloud /\ removed' = removed
  BY DEF Look, Is
<1>2. n \in {1, 1 + StepOf(c).skip} /\ (n # 1 => Mine(c) \in cloud)
  OBVIOUS
<1> HIDE DEF n
<1> QED BY <1>1, <1>2, LookKept

\* ... an attempt to make it ...
LEMMA TryStep ==
    ASSUME Sound, NEW c \in Clients, Try(c)
    PROVE  Kept(c)
<1> DEFINE n == IF Mine(c) \in cloud THEN 1 ELSE 1 + StepOf(c).skip
<1>1. /\ Working(c) /\ StepOf(c).do = "try" /\ Onward(c, n)
      /\ cloud' = After(c) /\ removed' = removed
  BY DEF Try, Is
<1>2. n \in {1, 1 + StepOf(c).skip}
  OBVIOUS
<1> HIDE DEF n
<1>3. After(c) = cloud \cup {Mine(c)}
  BY <1>1 DEF After
<1> QED BY <1>1, <1>2, <1>3, LookKept

\* ... the url and the token of a namespace ...
LEMMA TokenStep ==
    ASSUME Sound, NEW c \in Clients, GetUrlAndToken(c)
    PROVE  Kept(c)
<1>1. Working(c) /\ StepOf(c).do = "token" /\ cloud' = cloud
  BY DEF GetUrlAndToken, Is
<1>2. Raise(c) \/ (Onward(c, 1) /\ removed' = removed)
  BY DEF GetUrlAndToken
<1>3. CASE Raise(c)
  BY <1>1, <1>3, RaiseKept
<1>4. CASE Onward(c, 1) /\ removed' = removed
  <2>1. RemovedKept(c)
    BY <1>4 DEF RemovedKept, Sound
  <2> QED BY <1>1, <1>4, <2>1, PassKept DEF Calls
<1> QED BY <1>2, <1>3, <1>4

\* ... the choice between redeploying and invoking ...
LEMMA RedeployStep ==
    ASSUME Sound, NEW c \in Clients, Redeploy(c)
    PROVE  Kept(c)
<1>1. Working(c) /\ StepOf(c).do = "redeploy" /\ cloud' = cloud /\ removed' = removed
  BY DEF Redeploy, Is
<1>2. Onward(c, 1) \/ UNCHANGED <<proc, leaver>>
  BY DEF Redeploy
<1>3. CASE UNCHANGED <<proc, leaver>>
  BY <1>1, <1>3, NothingChanges
<1>4. CASE Onward(c, 1)
  <2>1. RemovedKept(c)
    BY <1>1 DEF RemovedKept, Sound
  <2> QED BY <1>1, <1>4, <2>1, PassKept DEF Calls
<1> QED BY <1>2, <1>3, <1>4

\* ... the selection of metadata, in memory, on disk or in the storage ...
LEMMA SelectStep ==
    ASSUME Sound, NEW c \in Clients, GetRuntimeMeta(c)
    PROVE  Kept(c)
<1> DEFINE n == Len(SelectRuntime(backend))
<1>1. Working(c) /\ StepOf(c).do = "select" /\ cloud' = cloud
  BY DEF GetRuntimeMeta, Is
<1>2. \/ Onward(c, 1) /\ removed' = removed
      \/ Onward(c, n) /\ removed' = removed
      \/ Raise(c)
  BY DEF GetRuntimeMeta
<1>3. RemovedKept(c) \/ Raise(c)
  BY <1>2 DEF RemovedKept, Sound
<1>4. CASE Raise(c)
  BY <1>1, <1>4, RaiseKept
<1>5. CASE Onward(c, 1) /\ RemovedKept(c)
  BY <1>1, <1>5, PassKept DEF Calls
<1>6. CASE Onward(c, n) /\ RemovedKept(c)
  <2>1. n = Len(Deploy[backend]) + 3 /\ Len(Deploy[backend]) \in Nat
    BY InvokeFacts DEF Sound
  <2>2. n \in Nat
    <3> DEFINE l == Len(Deploy[backend])
    <3>1. l \in Nat /\ n = l + 3
      BY <2>1
    <3> HIDE DEF l, n
    <3> QED BY <3>1
  <2>3. Deploys(proc[c]) => proc[c].at + n > End(proc[c].op)
    <3> SUFFICES ASSUME Deploys(proc[c]) PROVE proc[c].at + n > End(proc[c].op)
      OBVIOUS
    <3>1. proc[c].at = 1 /\ proc[c].op = "invoke"
      BY <1>1, DeployingCurrent DEF Sound, DeployingStep
    <3>2. End(proc[c].op) = 1 + Len(Deploy[backend]) + 2
      BY <3>1 DEF End, Shift
    <3> DEFINE l == Len(Deploy[backend]) i == proc[c].at e == End(proc[c].op)
    <3>3. l \in Nat /\ n = l + 3 /\ e = 1 + l + 2 /\ i = 1
      BY <2>1, <3>1, <3>2
    <3> HIDE DEF l, n, i, e
    <3>4. i + n > e
      BY <3>3
    <3> QED BY <3>4 DEF i, e
  <2> HIDE DEF n
  <2> QED BY <1>1, <1>6, <2>2, <2>3, JumpKept DEF Calls
<1> QED BY <1>2, <1>3, <1>4, <1>5, <1>6

\* ... their storing and saving ...
LEMMA PutStep ==
    ASSUME Sound, NEW c \in Clients, PutRuntimeMeta(c)
    PROVE  Kept(c)
<1>1. /\ Working(c) /\ StepOf(c).do \in {"store", "save"} /\ cloud' = cloud /\ Onward(c, 1)
      /\ removed' = removed \/ removed' = IF Deployed(MyKey(c)) THEN removed \ {MyKey(c)} ELSE removed
  BY DEF PutRuntimeMeta, Is
<1>2. RemovedKept(c)
  BY <1>1 DEF RemovedKept, Sound, Deployed
<1> QED BY <1>1, <1>2, PassKept DEF Calls

\* ... their deletion ...
LEMMA UnstoreStep ==
    ASSUME Sound, NEW c \in Clients, DeleteRuntimeMeta(c)
    PROVE  Kept(c)
<1>1. /\ Working(c) /\ StepOf(c).do \in {"unsave", "unstore"} /\ cloud' = cloud
      /\ Onward(c, 1) /\ removed' = removed
  BY DEF DeleteRuntimeMeta, Is
<1>2. RemovedKept(c)
  BY <1>1 DEF RemovedKept, Sound
<1> QED BY <1>1, <1>2, PassKept DEF Calls

\* A loop has an end.
LEMMA EndOfLoopIs ==
    ASSUME Sound, NEW c \in Clients, Working(c), StepOf(c).do \in {"list", "next"}
    PROVE  /\ EndOfLoop(c) \in 1 .. Len(Program(proc[c].op))
           /\ Program(proc[c].op)[EndOfLoop(c)].do = "next"
<1>1. /\ StepFine(proc[c].op, Program(proc[c].op), proc[c].at)
      /\ StepOf(c) = Program(proc[c].op)[proc[c].at]
  BY Current DEF Sound
<1>2. \E j \in 1 .. Len(Program(proc[c].op)) : Program(proc[c].op)[j].do = "next"
  BY <1>1 DEF StepFine
<1> QED BY <1>2 DEF EndOfLoop

\* ... the listing of runtimes ...
LEMMA ListStep ==
    ASSUME Sound, NEW c \in Clients, List(c)
    PROVE  Kept(c)
<1>1. Working(c) /\ StepOf(c).do = "list" /\ UNCHANGED <<cloud, removed>>
  BY DEF List, Is
<1>2. Listed(c) \in SUBSET Keys
  BY DEF Listed, ListRuntimes
<1>3. CASE Each(c, Listed(c))
  BY <1>1, <1>2, <1>3, EachKept
<1>4. CASE Onward(c, EndOfLoop(c) - 1)
  <2> DEFINE P == Program(proc[c].op) e == EndOfLoop(c) i == proc[c].at
  <2>1. e \in 1 .. Len(P) /\ P[e].do = "next" /\ P \in Seq(StepType) /\ i \in 1 .. Len(P)
    BY <1>1, EndOfLoopIs, Current DEF Sound
  <2>2. e - 1 \in Nat
    <3> HIDE DEF e, P
    <3> QED BY <2>1
  <2>3. Deploys(proc[c]) => i + (e - 1) > End(proc[c].op)
    <3> SUFFICES ASSUME Deploys(proc[c]) PROVE i + (e - 1) > End(proc[c].op)
      OBVIOUS
    <3> DEFINE op == proc[c].op
    <3>1. op \in DeployOps /\ backend \in Backends
      BY DEF Deploys, Sound
    <3>2. DeployingStep(op, P, e)
      BY <2>1, <3>1, DeployingFine
    <3>3. (e = 1 /\ op = "update") \/ e > End(op)
      BY <2>1, <3>2 DEF DeployingStep
    <3>4. op = "update" => P[1].do = "list"
      BY <3>1, DeployingShape
    <3>5. e > End(op) /\ End(op) \in Nat
      BY <2>1, <3>1, <3>3, <3>4, MakerNumbers
    <3> DEFINE l == End(op)
    <3>6. e > l /\ l \in Nat
      BY <3>5
    <3> HIDE DEF e, l, i, P, op
    <3>7. i + (e - 1) > l
      BY <2>1, <3>6
    <3> QED BY <3>7 DEF l, op
  <2>4. RemovedKept(c)
    BY <1>1 DEF RemovedKept, Sound
  <2> DEFINE n == e - 1
  <2>5. Onward(c, n) /\ n \in Nat /\ (Deploys(proc[c]) => proc[c].at + n > End(proc[c].op))
    BY <1>4, <2>2, <2>3
  <2> HIDE DEF n
  <2> QED BY <1>1, <2>4, <2>5, JumpKept DEF Calls
<1> QED BY <1>3, <1>4 DEF List

\* ... and the next of them.
LEMMA NextStep ==
    ASSUME Sound, NEW c \in Clients, NextOne(c)
    PROVE  Kept(c)
<1>1. /\ Working(c) /\ StepOf(c).do = "next" /\ UNCHANGED <<cloud, removed>>
      /\ Each(c, proc[c].todo)
  BY DEF NextOne, Is
<1>2. proc[c].todo \in SUBSET Keys
  BY DEF Sound, Procs, ProcType
<1> QED BY <1>1, <1>2, EachKept

-----------------------------------------------------------------------------
(* The invariant. *)

\* What a client may come to know.
Learnt(c) ==
  \A k \in Keys : Known(k)' =>
    \/ Known(k)
    \/ /\ HasFunction => Made(proc[c]) /\ MyKey(c) = k
       /\ HasImage => Imaged(proc[c])

\* The invariant: who knows metadata of a runtime, or is about to store them, may
\* rely on its function and its image.
FunctionRelied ==
  HasFunction => \A k \in Keys :
    Known(k) \/ (\E c \in Clients : Made(proc[c]) /\ MyKey(c) = k) =>
      \/ Function(k) \in cloud \/ k \in removed
      \/ backend \in Replacing /\ \E c \in Clients : Gap(proc[c]) /\ MyKey(c) = k
ImageRelied ==
  HasImage => ((\E k \in Keys : Known(k)) \/ (\E c \in Clients : Imaged(proc[c]))
               => Image \in cloud)

\* Who reads and writes no metadata learns nothing.
LEMMA LearntNothing ==
    ASSUME NEW c \in Clients, UNCHANGED <<meta, disk, memo>>
    PROVE  Learnt(c)
BY DEF Learnt, Known

\* The places of a client after its step.
LEMMA PlacesNext ==
    ASSUME backend' = backend, NEW c \in Clients
    PROVE  /\ Made(proc[c])' <=> Made(proc'[c])
           /\ Imaged(proc[c])' <=> Imaged(proc'[c])
           /\ Gap(proc[c])' <=> Gap(proc'[c])
           /\ MyKey(c)' = Key(proc'[c].mem)
<1>1. /\ Made(proc[c])' <=> Made(proc'[c])
      /\ Imaged(proc[c])' <=> Imaged(proc'[c])
  BY DEF Made, Imaged, Deploys, Maker, Imager, End, Shift
<1>2. Gap(proc[c])' <=> Gap(proc'[c])
  BY DEF Gap, Deploys, Program, InGap
<1>3. MyKey(c)' = Key(proc'[c].mem)
  BY DEF MyKey, Key
<1> QED BY <1>1, <1>2, <1>3

\* A step that keeps what metadata rely on, of a client that learns no more than it
\* has made, keeps the invariant: of functions ...
LEMMA FunctionRelyKept ==
    ASSUME Sound, FunctionRelied, NEW c \in Clients, Kept(c), Learnt(c), backend' = backend
    PROVE  FunctionRelied'
<1>1. SUFFICES ASSUME HasFunction, NEW k \in Keys,
                      Known(k)' \/ (\E d \in Clients : Made(proc'[d]) /\ Key(proc'[d].mem) = k)
               PROVE  \/ Function(k) \in cloud' \/ k \in removed'
                      \/ backend \in Replacing
                         /\ \E d \in Clients : Gap(proc'[d]) /\ Key(proc'[d].mem) = k
  <2>1. HasFunction' <=> HasFunction
    BY DEF HasFunction
  <2>2. ASSUME NEW k \in Keys
        PROVE  Function(k)' = Function(k)
    BY DEF Function
  <2>3. Keys' = Keys
    BY DEF Keys
  <2> QED BY <2>1, <2>2, <2>3, PlacesNext DEF FunctionRelied
<1>2. \A d \in Clients : d # c => proc'[d] = proc[d]
  BY DEF Kept, Moved
<1>3. \/ Known(k) \/ (\E d \in Clients : Made(proc[d]) /\ MyKey(d) = k)
      \/ Function(k) \in cloud'
  <2>1. CASE Known(k)'
    BY <1>1, <2>1 DEF Learnt
  <2>2. ASSUME NEW d \in Clients, Made(proc'[d]), Key(proc'[d].mem) = k
        PROVE  (Made(proc[d]) /\ MyKey(d) = k) \/ Function(k) \in cloud'
    <3>1. CASE d = c
      BY <1>1, <2>2, <3>1 DEF Kept, MadeKept
    <3>2. CASE d # c
      BY <1>2, <2>2, <3>2 DEF MyKey
    <3> QED BY <3>1, <3>2
  <2> QED BY <1>1, <2>1, <2>2
<1>4. \/ Function(k) \in cloud' \/ Function(k) \in cloud \/ k \in removed
      \/ backend \in Replacing /\ \E d \in Clients : Gap(proc[d]) /\ MyKey(d) = k
  BY <1>1, <1>3 DEF FunctionRelied
<1>5. CASE Function(k) \in cloud
  BY <1>5 DEF Kept, FunctionsKept
<1>6. CASE k \in removed
  BY <1>6 DEF Kept, RemovedKept
<1>7. ASSUME backend \in Replacing, NEW d \in Clients, Gap(proc[d]), MyKey(d) = k
      PROVE  \/ Function(k) \in cloud' \/ k \in removed'
             \/ Gap(proc'[d]) /\ Key(proc'[d].mem) = k
  <2>1. CASE d = c
    BY <1>7, <2>1 DEF Kept, GapKept
  <2>2. CASE d # c
    BY <1>2, <1>7, <2>2 DEF MyKey
  <2> QED BY <2>1, <2>2
<1> QED BY <1>4, <1>5, <1>6, <1>7

\* ... and of images.
LEMMA ImageRelyKept ==
    ASSUME Sound, ImageRelied, NEW c \in Clients, Kept(c), Learnt(c), backend' = backend
    PROVE  ImageRelied'
<1>1. SUFFICES ASSUME HasImage,
                      (\E k \in Keys : Known(k)') \/ (\E d \in Clients : Imaged(proc'[d]))
               PROVE  Image \in cloud'
  <2>1. HasImage' <=> HasImage
    BY DEF HasImage
  <2>2. Image' = Image
    BY DEF Image, Res, PerRuntime, Key
  <2>3. Keys' = Keys
    BY DEF Keys
  <2> QED BY <2>1, <2>2, <2>3, PlacesNext DEF ImageRelied
<1>2. \A d \in Clients : d # c => proc'[d] = proc[d]
  BY DEF Kept, Moved
<1>3. \/ \E k \in Keys : Known(k)
      \/ \E d \in Clients : Imaged(proc[d])
      \/ Image \in cloud'
  <2>1. CASE \E k \in Keys : Known(k)'
    BY <1>1, <2>1 DEF Learnt
  <2>2. ASSUME NEW d \in Clients, Imaged(proc'[d])
        PROVE  Imaged(proc[d]) \/ Image \in cloud'
    <3>1. CASE d = c
      BY <1>1, <2>2, <3>1 DEF Kept, ImageKept
    <3>2. CASE d # c
      BY <1>2, <2>2, <3>2
    <3> QED BY <3>1, <3>2
  <2> QED BY <1>1, <2>1, <2>2
<1>4. Image \in cloud \/ Image \in cloud'
  BY <1>1, <1>3 DEF ImageRelied
<1> QED BY <1>4 DEF Kept, ImageKept

\* The invariant is as strong as the property.
LEMMA ImpliesMetadataMeansDeployed ==
    ASSUME FunctionRelied, ImageRelied
    PROVE  MetadataMeansDeployed
<1> SUFFICES ASSUME NEW k \in Keys, Known(k)
             PROVE  /\ HasImage => Res("image", k) \in cloud
                    /\ (HasFunction /\ k \notin removed /\ ~Deployed(k))
                         => backend \in Replacing /\ \E c \in Clients : Deploying(c) /\ MyKey(c) = k
  BY DEF MetadataMeansDeployed
<1>1. HasImage => Res("image", k) \in cloud
  BY ResImage DEF ImageRelied
<1>2. HasFunction /\ k \notin removed /\ ~Deployed(k)
        => backend \in Replacing /\ \E c \in Clients : Gap(proc[c]) /\ MyKey(c) = k
  BY DEF FunctionRelied, Deployed
<1>3. \A c \in Clients : Gap(proc[c]) => Deploying(c)
  BY DEF Gap, Deploys, DeployOps, Deploying
<1> QED BY <1>1, <1>2, <1>3

-----------------------------------------------------------------------------
(* The other variables, and the steps that no operation takes. *)

\* An operation begins.
LEMMA BeginKept ==
    ASSUME Sound, NEW c \in Clients, NEW op \in Ops, NEW m \in Keys, Begin(c, op, m)
    PROVE  Kept(c) /\ backend' = backend
<1> DEFINE p == [Idle EXCEPT !.op = op, !.mem = m]
<1>1. /\ ~Working(c) /\ proc' = [proc EXCEPT ![c] = p]
      /\ UNCHANGED <<backend, cloud, meta, disk, removed, faults, leaver>>
  BY DEF Begin
<1>2. p.op = op /\ p.mem = m /\ p.at = 1 /\ p.failing = FALSE /\ p \in ProcType
  BY DEF Idle, ProcType
<1> HIDE DEF p
<1>3. proc' \in [Clients -> ProcType] /\ proc'[c] = p /\ \A d \in Clients : d # c => proc'[d] = proc[d]
  BY <1>1, <1>2 DEF Sound, Procs
<1>4. Placed(p)
  <2>1. Program(op) \in Seq(StepType) /\ Len(Program(op)) >= 1
    BY StepsFine DEF Sound
  <2> DEFINE l == Len(Program(op))
  <2>2. l \in Nat /\ l >= 1
    BY <2>1
  <2> HIDE DEF l
  <2>3. 1 \in 1 .. l
    BY <2>2
  <2> QED BY <1>2, <2>3 DEF Placed, l
<1>5. Moved(c) /\ leaver' \in Phases
  BY <1>1, <1>3, <1>4 DEF Moved, Sound
<1>6. /\ HasFunction => ~Made(p)
      /\ HasImage => ~Imaged(p)
  <2> SUFFICES ASSUME Deploys(p)
               PROVE  /\ HasFunction => ~(Maker(op) < 1)
                      /\ HasImage => ~(Imager(op) < 1)
    BY <1>2 DEF Made, Imaged
  <2>1. op \in DeployOps /\ backend \in Backends
    BY <1>2 DEF Deploys, Sound
  <2>2. /\ HasFunction => ~(Maker(op) < 2) /\ Maker(op) \in Nat
        /\ HasImage => ~(Imager(op) < 2) /\ Imager(op) \in Nat
    BY <2>1, MakersAreLate, MakerNumbers
  <2> DEFINE a == Maker(op) b == Imager(op)
  <2>3. /\ HasFunction => ~(a < 2) /\ a \in Nat
        /\ HasImage => ~(b < 2) /\ b \in Nat
    BY <2>2
  <2> HIDE DEF a, b
  <2>4. /\ HasFunction => ~(a < 1)
        /\ HasImage => ~(b < 1)
    BY <2>3
  <2> QED BY <2>4 DEF a, b
<1>7. ~Gap(proc[c])
  BY <1>1 DEF Gap, Deploys, DeployOps, Working
<1>8. FunctionsKept(c) /\ MadeKept(c) /\ GapKept(c) /\ RemovedKept(c) /\ ImageKept(c)
  BY <1>1, <1>3, <1>6, <1>7
     DEF FunctionsKept, MadeKept, GapKept, RemovedKept, ImageKept, Sound
<1> QED BY <1>1, <1>5, <1>8 DEF Kept

\* Nobody knows anything at first.
LEMMA NoMetaType == NoMeta \in [Keys -> Values] /\ 0 \in Keys
BY DEF NoMeta, Values, Keys

\* A new process knows less.
LEMMA ForgetLearns ==
    ASSUME Rest, NEW c \in Clients, UNCHANGED <<meta, disk>>, Forget(c)
    PROVE  /\ Learnt(c)
           /\ memo' \in [Clients -> [Keys -> Values]] /\ token' \in [Clients -> Keys]
           /\ held' \subseteq Clients
<1>1. memo' \in [Clients -> [Keys -> Values]] /\ token' \in [Clients -> Keys]
  BY NoMetaType DEF Forget, Rest
<1>2. held' \subseteq Clients
  BY DEF Forget, Rest
<1>3. ASSUME NEW k \in Keys, NEW d \in Clients, memo'[d][k] # "none"
      PROVE  memo[d][k] # "none"
  BY <1>3 DEF Forget, Rest, NoMeta
<1>4. Learnt(c)
  BY <1>3 DEF Learnt, Known
<1> QED BY <1>1, <1>2, <1>4

\* Faults are bounded.
LEMMA FaultType ==
    ASSUME Rest, Fault
    PROVE  faults' \in 0 .. MaxFaults
BY BoundsAssumption DEF Rest, Fault

\* Metadata of one client, written.
LEMMA Written ==
    ASSUME NEW f \in [Clients -> [Keys -> Values]], NEW c \in Clients, NEW k \in Keys,
           NEW v \in Values
    PROVE  [f EXCEPT ![c][k] = v] \in [Clients -> [Keys -> Values]]
<1> HIDE DEF Keys, Values
<1>1. [f[c] EXCEPT ![k] = v] \in [Keys -> Values]
  OBVIOUS
<1> QED BY <1>1

\* Selecting metadata teaches what somebody knows.
LEMMA SelectLearns ==
    ASSUME Sound, Rest, NEW c \in Clients, GetRuntimeMeta(c)
    PROVE  /\ Learnt(c)
           /\ memo' \in [Clients -> [Keys -> Values]] /\ disk' \in [Clients -> [Keys -> Values]]
<1> DEFINE k == MyKey(c)
           found == IF memo[c][k] # "none" THEN memo[c][k]
                    ELSE IF disk[c][k] # "none" THEN disk[c][k] ELSE meta[k]
<1>1. k \in Keys
  BY CurrentKey DEF GetRuntimeMeta, Is
<1>2. /\ meta' = meta /\ memo' = [memo EXCEPT ![c][k] = found]
      /\ disk' = [disk EXCEPT ![c][k] = found] \/ disk' = disk
  BY DEF GetRuntimeMeta
<1> HIDE DEF k
<1>3. found \in Values /\ (found # "none" => Known(k))
  BY <1>1 DEF Rest, Known
<1> HIDE DEF found
<1>4. memo' \in [Clients -> [Keys -> Values]] /\ disk' \in [Clients -> [Keys -> Values]]
  <2>1. memo \in [Clients -> [Keys -> Values]] /\ disk \in [Clients -> [Keys -> Values]]
    BY DEF Rest
  <2>2. [memo EXCEPT ![c][k] = found] \in [Clients -> [Keys -> Values]]
    BY <1>1, <1>3, <2>1, Written
  <2>3. [disk EXCEPT ![c][k] = found] \in [Clients -> [Keys -> Values]]
    BY <1>1, <1>3, <2>1, Written
  <2> QED BY <1>2, <2>1, <2>2, <2>3
<1>5. ASSUME NEW q \in Keys, NEW d \in Clients, memo'[d][q] # "none" \/ disk'[d][q] # "none"
      PROVE  Known(q)
  <2>1. CASE d = c /\ q = k
    <3>1. memo'[c][k] = found /\ (disk'[c][k] = found \/ disk' = disk)
      BY <1>1, <1>2 DEF Rest
    <3> QED BY <1>3, <1>5, <2>1, <3>1 DEF Known
  <2>2. CASE ~(d = c /\ q = k)
    <3>1. memo'[d][q] = memo[d][q] /\ disk'[d][q] = disk[d][q]
      BY <1>1, <1>2, <2>2 DEF Rest
    <3> QED BY <1>5, <3>1 DEF Known
  <2> QED BY <2>1, <2>2
<1>6. Learnt(c)
  BY <1>2, <1>5 DEF Learnt, Known
<1> QED BY <1>4, <1>6

\* Storing them teaches what this client has made.
LEMMA PutLearns ==
    ASSUME Sound, Rest, NEW c \in Clients, PutRuntimeMeta(c)
    PROVE  /\ Learnt(c)
           /\ meta' \in [Keys -> Values] /\ disk' \in [Clients -> [Keys -> Values]]
<1> DEFINE k == MyKey(c) v == StepOf(c).k op == proc[c].op P == Program(op) i == proc[c].at
<1>1. /\ k \in Keys /\ Working(c) /\ StepOf(c).do \in {"store", "save"} /\ memo' = memo
      /\ \/ meta' = [meta EXCEPT ![k] = v] /\ disk' = disk
         \/ meta' = meta /\ disk' = [disk EXCEPT ![c][k] = v]
  BY CurrentKey DEF PutRuntimeMeta, Is
<1>2. /\ StepOf(c) \in StepType /\ op \in Ops /\ i \in 1 .. Len(P) /\ StepOf(c) = P[i]
      /\ ~proc[c].failing
  BY <1>1, Current DEF Sound, Drops
<1>3. v \in Values
  BY <1>1, <1>2 DEF StepType, Values
<1>4. Deploys(proc[c])
  BY <1>1, <1>2, OthersDoNotStore DEF Sound, Deploys
<1>5. DeployingStep(op, P, i)
  BY <1>1, <1>4, DeployingCurrent DEF Sound
<1>6. /\ HasFunction => Made(proc[c])
      /\ HasImage => Imaged(proc[c])
  BY <1>1, <1>2, <1>4, <1>5 DEF DeployingStep, Made, Imaged
<1> HIDE DEF k, v, op, P, i
<1>7. meta' \in [Keys -> Values] /\ disk' \in [Clients -> [Keys -> Values]]
  <2>1. disk \in [Clients -> [Keys -> Values]] /\ meta \in [Keys -> Values]
    BY DEF Rest
  <2>2. [disk EXCEPT ![c][k] = v] \in [Clients -> [Keys -> Values]]
    BY <1>1, <1>3, <2>1, Written
  <2>3. [meta EXCEPT ![k] = v] \in [Keys -> Values]
    BY <1>1, <1>3, <2>1
  <2> QED BY <1>1, <2>1, <2>2, <2>3
<1>8. ASSUME NEW q \in Keys, q # k
      PROVE  meta'[q] = meta[q] /\ \A d \in Clients : disk'[d][q] = disk[d][q]
  BY <1>1, <1>8 DEF Rest
<1>9. ASSUME NEW q \in Keys, Known(q)'
      PROVE  Known(q) \/ q = k
  BY <1>1, <1>8, <1>9 DEF Known
<1>10. Learnt(c)
  BY <1>6, <1>9 DEF Learnt, k
<1> QED BY <1>7, <1>10

\* Deleting them teaches nothing.
LEMMA UnstoreLearns ==
    ASSUME Rest, NEW c \in Clients, DeleteRuntimeMeta(c)
    PROVE  /\ Learnt(c)
           /\ meta' \in [Keys -> Values] /\ disk' \in [Clients -> [Keys -> Values]]
<1>1. CASE /\ meta' = meta /\ memo' = memo
           /\ disk' = [disk EXCEPT ![c] = [k \in Keys |-> IF k \in Chosen(c) THEN "none" ELSE @[k]]]
  <2>1. disk' \in [Clients -> [Keys -> Values]]
    BY <1>1 DEF Rest, Values
  <2>2. ASSUME NEW q \in Keys, NEW d \in Clients, disk'[d][q] # "none"
        PROVE  disk[d][q] # "none"
    BY <1>1, <2>2 DEF Rest
  <2>3. Learnt(c)
    BY <1>1, <2>2 DEF Learnt, Known
  <2> QED BY <1>1, <2>1, <2>3 DEF Rest
<1>2. CASE /\ disk' = disk /\ memo' = memo
           /\ meta' = [k \in Keys |-> IF k \in Chosen(c) THEN "none" ELSE meta[k]]
  <2>1. meta' \in [Keys -> Values]
    BY <1>2 DEF Rest, Values
  <2>2. ASSUME NEW q \in Keys, meta'[q] # "none"
        PROVE  meta[q] # "none"
    BY <1>2, <2>2
  <2>3. Learnt(c)
    BY <1>2, <2>2 DEF Learnt, Known
  <2> QED BY <1>2, <2>1, <2>3 DEF Rest
<1>3. memo' = memo
  BY DEF DeleteRuntimeMeta
<1> QED BY <1>1, <1>2, <1>3 DEF DeleteRuntimeMeta

\* The other variables keep their types.
LEMMA RestKept ==
    ASSUME Rest, NEW c \in Clients, Kept(c), backend' = backend,
           meta' \in [Keys -> Values], disk' \in [Clients -> [Keys -> Values]],
           memo' \in [Clients -> [Keys -> Values]], token' \in [Clients -> Keys],
           held' \cup alone' \cup erred' \subseteq Clients, ops' \in 0 .. MaxOps,
           faults' \in 0 .. MaxFaults
    PROVE  Rest'
<1>1. leaver' \in Phases /\ removed' \subseteq Keys
  BY DEF Kept, RemovedKept
<1>2. Keys' = Keys
  BY DEF Keys
<1> QED BY <1>1, <1>2 DEF Rest, Phases, Values

\* What does not concern functions and images.
Fine == Sound /\ Rest

\* All that a client does within an operation.
LEMMA ActKept ==
    ASSUME Fine, NEW c \in Clients, Act(c)
    PROVE  Kept(c) /\ Learnt(c) /\ Rest' /\ backend' = backend
<1> USE DEF Fine
<1>0. UNCHANGED <<backend, alone, ops>>
  BY DEF Act
<1>1. CASE Call(c)
  <2>1. UNCHANGED <<meta, disk, memo, token, held, erred, faults>>
    BY <1>1 DEF Call
  <2>2. Kept(c) /\ Learnt(c)
    BY <1>1, <2>1, CallStep, LearntNothing
  <2> QED BY <1>0, <2>1, <2>2, RestKept DEF Rest
<1>2. CASE FaultyCall(c)
  <2>1. UNCHANGED <<meta, disk, memo, token>> /\ Fault
        /\ held' \subseteq held \cup {c} /\ erred' = erred \cup {c}
    BY <1>2 DEF FaultyCall
  <2>2. Kept(c) /\ Learnt(c) /\ faults' \in 0 .. MaxFaults
    BY <1>2, <2>1, FaultyStep, LearntNothing, FaultType
  <2> QED BY <1>0, <2>1, <2>2, RestKept DEF Rest
<1>3. CASE Die(c)
  <2>1. UNCHANGED <<cloud, meta, disk>> /\ Fault /\ erred' = erred \cup {c}
        /\ (Forget(c) \/ UNCHANGED <<memo, token, held>>)
    BY <1>3 DEF Die
  <2>2. Kept(c) /\ faults' \in 0 .. MaxFaults
    BY <1>3, <2>1, DieStep, FaultType
  <2>3. /\ Learnt(c) /\ memo' \in [Clients -> [Keys -> Values]]
        /\ token' \in [Clients -> Keys] /\ held' \subseteq Clients
    BY <2>1, ForgetLearns, LearntNothing DEF Rest
  <2> QED BY <1>0, <2>1, <2>2, <2>3, RestKept DEF Rest
<1>4. CASE Look(c)
  <2>1. UNCHANGED <<meta, disk, memo, token, held, erred, faults>>
    BY <1>4 DEF Look
  <2>2. Kept(c) /\ Learnt(c)
    BY <1>4, <2>1, LookStep, LearntNothing
  <2> QED BY <1>0, <2>1, <2>2, RestKept DEF Rest
<1>5. CASE Try(c)
  <2>1. UNCHANGED <<meta, disk, memo, token, held, erred, faults>>
    BY <1>5 DEF Try
  <2>2. Kept(c) /\ Learnt(c)
    BY <1>5, <2>1, TryStep, LearntNothing
  <2> QED BY <1>0, <2>1, <2>2, RestKept DEF Rest
<1>6. CASE GetUrlAndToken(c)
  <2>1. UNCHANGED <<meta, disk, memo, erred, faults>> /\ held' \subseteq held \cup {c}
        /\ (token' = [token EXCEPT ![c] = MyKey(c)] \/ token' = token)
    BY <1>6 DEF GetUrlAndToken
  <2>2. Kept(c) /\ Learnt(c)
    BY <1>6, <2>1, TokenStep, LearntNothing
  <2>3. MyKey(c) \in Keys
    BY <1>6, CurrentKey DEF GetUrlAndToken, Is
  <2>4. token' \in [Clients -> Keys]
    BY <2>1, <2>3 DEF Rest
  <2> QED BY <1>0, <2>1, <2>2, <2>4, RestKept DEF Rest
<1>7. CASE Redeploy(c)
  <2>1. UNCHANGED <<meta, disk, memo, token, erred, faults>> /\ held' \subseteq held \cup {c}
    BY <1>7 DEF Redeploy
  <2>2. Kept(c) /\ Learnt(c)
    BY <1>7, <2>1, RedeployStep, LearntNothing
  <2> QED BY <1>0, <2>1, <2>2, RestKept DEF Rest
<1>8. CASE GetRuntimeMeta(c)
  <2>1. UNCHANGED <<meta, token, held, erred, faults>>
    BY <1>8 DEF GetRuntimeMeta
  <2>2. /\ Kept(c) /\ Learnt(c)
        /\ memo' \in [Clients -> [Keys -> Values]] /\ disk' \in [Clients -> [Keys -> Values]]
    BY <1>8, SelectStep, SelectLearns
  <2> QED BY <1>0, <2>1, <2>2, RestKept DEF Rest
<1>9. CASE PutRuntimeMeta(c)
  <2>1. UNCHANGED <<memo, token, held, erred, faults>>
    BY <1>9 DEF PutRuntimeMeta
  <2>2. /\ Kept(c) /\ Learnt(c)
        /\ meta' \in [Keys -> Values] /\ disk' \in [Clients -> [Keys -> Values]]
    BY <1>9, PutStep, PutLearns
  <2> QED BY <1>0, <2>1, <2>2, RestKept DEF Rest
<1>10. CASE DeleteRuntimeMeta(c)
  <2>1. UNCHANGED <<memo, token, held, erred, faults>>
    BY <1>10 DEF DeleteRuntimeMeta
  <2>2. /\ Kept(c) /\ Learnt(c)
        /\ meta' \in [Keys -> Values] /\ disk' \in [Clients -> [Keys -> Values]]
    BY <1>10, UnstoreStep, UnstoreLearns
  <2> QED BY <1>0, <2>1, <2>2, RestKept DEF Rest
<1>11. CASE List(c)
  <2>1. UNCHANGED <<meta, disk, memo, token, held, erred, faults>>
    BY <1>11 DEF List
  <2>2. Kept(c) /\ Learnt(c)
    BY <1>11, <2>1, ListStep, LearntNothing
  <2> QED BY <1>0, <2>1, <2>2, RestKept DEF Rest
<1>12. CASE NextOne(c)
  <2>1. UNCHANGED <<meta, disk, memo, token, held, erred, faults>>
    BY <1>12 DEF NextOne
  <2>2. Kept(c) /\ Learnt(c)
    BY <1>12, <2>1, NextStep, LearntNothing
  <2> QED BY <1>0, <2>1, <2>2, RestKept DEF Rest
<1> QED BY <1>1, <1>2, <1>3, <1>4, <1>5, <1>6, <1>7, <1>8, <1>9, <1>10, <1>11, <1>12
        DEF Act, Step

\* The inductive invariant.
RuntimeInv == Fine /\ FunctionRelied /\ ImageRelied

\* There is a client, and a size.
LEMMA SomeUser == User \in Clients /\ Size \in Mem
BY BoundsAssumption DEF User, Size

\* The invariant holds when nothing is deployed ...
LEMMA RuntimeInitially == RuntimeInit => RuntimeInv
<1> SUFFICES ASSUME RuntimeInit PROVE RuntimeInv
  OBVIOUS
<1>1. backend \in Backends /\ leaver \in Phases /\ meta = NoMeta
      /\ disk = [c \in Clients |-> NoMeta] /\ memo = disk
      /\ proc = [c \in Clients |-> Idle] /\ token = [c \in Clients |-> 0]
      /\ held = {} /\ removed = {} /\ alone = {} /\ erred = {} /\ ops = 0 /\ faults = 0
  BY DEF RuntimeInit, Phases
<1>2. Idle \in ProcType /\ Placed(Idle)
  BY DEF Idle, ProcType, Keys, Placed
<1>3. Procs
  BY <1>1, <1>2 DEF Procs
<1>4. Rest
  BY <1>1, NoMetaType, BoundsAssumption DEF Rest
<1>5. \A c \in Clients : ~Made(proc[c]) /\ ~Imaged(proc[c])
  BY <1>1, IdleIsNothing
<1>6. \A k \in Keys : ~Known(k)
  BY <1>1 DEF Known, NoMeta
<1>7. FunctionRelied /\ ImageRelied
  BY <1>5, <1>6 DEF FunctionRelied, ImageRelied
<1> QED BY <1>3, <1>4, <1>7 DEF RuntimeInv, Fine, Sound, Rest

\* The other variables at the beginning of an operation.
LEMMA BeginRest ==
    ASSUME Rest, NEW c \in Clients, NEW op, NEW m, Begin(c, op, m)
    PROVE  /\ UNCHANGED <<meta, disk, removed, faults>>
           /\ alone' \subseteq Clients /\ erred' \subseteq Clients
BY DEF Begin, Rest

\* A client begins an operation.
LEMMA StartKept ==
    ASSUME Fine, NEW c \in Clients, Start(c)
    PROVE  Kept(c) /\ Learnt(c) /\ Rest' /\ backend' = backend
<1> USE DEF Fine
<1>1. PICK op \in Ops, m \in Keys : Begin(c, op, m)
  BY DEF Start, Ops, Keys
<1>2. Kept(c) /\ backend' = backend
  BY <1>1, BeginKept
<1>3. /\ UNCHANGED <<meta, disk, removed, faults>>
      /\ alone' \subseteq Clients /\ erred' \subseteq Clients
  BY <1>1, BeginRest
<1>4. ops' \in 0 .. MaxOps
  BY BoundsAssumption DEF Start, Rest
<1>5. Forget(c) \/ UNCHANGED <<memo, token, held>>
  BY DEF Start
<1>6. /\ Learnt(c) /\ memo' \in [Clients -> [Keys -> Values]]
      /\ token' \in [Clients -> Keys] /\ held' \subseteq Clients
  BY <1>3, <1>5, ForgetLearns, LearntNothing DEF Rest
<1> QED BY <1>2, <1>3, <1>4, <1>6, RestKept DEF Rest

\* The runtime is deployed again after a failure.
LEMMA RepairKept ==
    ASSUME Fine, Repair
    PROVE  Kept(User) /\ Learnt(User) /\ Rest' /\ backend' = backend
<1> USE DEF Fine
<1>0. User \in Clients
  BY SomeUser
<1>1. PICK op \in Ops, m \in Keys : Begin(User, op, m)
  BY SomeUser DEF Repair, Ops, Keys
<1>2. Kept(User) /\ backend' = backend
  BY <1>0, <1>1, BeginKept
<1>3. /\ UNCHANGED <<meta, disk, removed, faults>>
      /\ alone' \subseteq Clients /\ erred' \subseteq Clients
  BY <1>0, <1>1, BeginRest
<1>4. UNCHANGED <<memo, token, held, ops>>
  BY DEF Repair
<1>5. Learnt(User)
  BY <1>0, <1>3, <1>4, LearntNothing
<1> QED BY <1>0, <1>2, <1>3, <1>4, <1>5, RestKept DEF Rest

\* The user begins to leave.
LEMMA LeaveKept ==
    ASSUME RuntimeInv, Leave
    PROVE  RuntimeInv'
<1>1. /\ leaver' = "cleaning" /\ proc' = [c \in Clients |-> Idle]
      /\ memo' = [c \in Clients |-> NoMeta] /\ token' = [c \in Clients |-> 0] /\ held' = {}
      /\ removed' = removed \cup {k \in Keys : ~Deployed(k)} /\ erred' = Clients
      /\ UNCHANGED <<backend, cloud, meta, disk, alone, ops, faults>>
  BY DEF Leave
<1>2. Idle \in ProcType /\ Idle.op = "none" /\ ~Idle.failing
  BY DEF Idle, ProcType, Keys
<1>3. Procs'
  BY <1>1, <1>2 DEF Procs, Placed
<1>4. Rest'
  BY <1>1, NoMetaType DEF RuntimeInv, Fine, Rest, Phases, Values, Keys
<1>5. Sound'
  BY <1>3, <1>4 DEF Sound, Rest
<1>6. ASSUME NEW k \in Keys
      PROVE  Function(k) \in cloud' \/ k \in removed'
  BY <1>1 DEF Deployed
<1>7. FunctionRelied'
  BY <1>6 DEF FunctionRelied, Function, Keys
<1>8. ASSUME NEW k \in Keys, Known(k)'
      PROVE  Known(k)
  BY <1>1, <1>8 DEF Known, NoMeta
<1>9. \A c \in Clients : ~Imaged(proc'[c])
  BY <1>1, IdleIsNothing
<1>10. \A c \in Clients : ~Imaged(proc[c])'
  BY <1>1, <1>9, PlacesNext
<1>11. HasImage' = HasImage /\ Image' = Image /\ Keys' = Keys
  BY <1>1 DEF HasImage, Image, Res, PerRuntime, Key, Keys
<1>12. ImageRelied'
  BY <1>1, <1>8, <1>10, <1>11 DEF RuntimeInv, ImageRelied
<1> QED BY <1>4, <1>5, <1>7, <1>12 DEF RuntimeInv, Fine

\* One step of one client, as the invariant sees it.
LEMMA OneClientStep ==
    ASSUME RuntimeInv, NEW c \in Clients, Kept(c), Learnt(c), Rest', backend' = backend
    PROVE  RuntimeInv'
<1> USE DEF RuntimeInv, Fine
<1>1. Moved(c) /\ Procs
  BY DEF Kept, Sound
<1>2. Procs'
  BY <1>1, MovedProcs
<1>3. Sound'
  BY <1>2 DEF Sound, Rest
<1>4. FunctionRelied' /\ ImageRelied'
  BY FunctionRelyKept, ImageRelyKept
<1> QED BY <1>3, <1>4

\* A job ends that nobody may wait for.
LEMMA RunEndsKept ==
    ASSUME RuntimeInv, NEW m, RunEnds(m)
    PROVE  RuntimeInv'
<1>1. /\ cloud \subseteq cloud'
      /\ UNCHANGED <<backend, meta, disk, memo, proc, token, held, removed, alone, erred,
                     ops, faults, leaver>>
  BY DEF RunEnds
<1>2. Fine'
  BY <1>1 DEF RuntimeInv, Fine, Sound, Rest, Procs, Placed, Program, InClause, Keys,
              Phases, Values
<1>3. /\ HasFunction' = HasFunction /\ HasImage' = HasImage /\ Image' = Image /\ Keys' = Keys
      /\ \A k \in Keys : Known(k)' <=> Known(k)
  BY <1>1 DEF HasFunction, HasImage, Image, Res, PerRuntime, Key, Keys, Known
<1>4. ASSUME NEW c \in Clients
      PROVE  /\ Made(proc[c])' <=> Made(proc[c])
             /\ Imaged(proc[c])' <=> Imaged(proc[c])
             /\ Gap(proc[c])' <=> Gap(proc[c])
             /\ MyKey(c)' = MyKey(c)
  <2>1. proc'[c] = proc[c] /\ backend' = backend
    BY <1>1
  <2>2. MyKey(c)' = MyKey(c)
    BY <2>1 DEF MyKey, Key
  <2> QED BY <2>1, <2>2, PlacesNext
<1>5. FunctionRelied'
  <2>1. SUFFICES ASSUME HasFunction, NEW k \in Keys,
                        Known(k) \/ (\E c \in Clients : Made(proc[c]) /\ MyKey(c) = k)
                 PROVE  \/ Function(k) \in cloud' \/ k \in removed'
                        \/ /\ backend' \in Replacing
                           /\ \E c \in Clients : Gap(proc[c]) /\ MyKey(c) = k
    BY <1>3, <1>4 DEF FunctionRelied, Function
  <2> QED BY <1>1, <2>1 DEF RuntimeInv, FunctionRelied
<1>6. ImageRelied'
  <2>1. SUFFICES ASSUME HasImage,
                        (\E k \in Keys : Known(k)) \/ (\E c \in Clients : Imaged(proc[c]))
                 PROVE  Image \in cloud'
    BY <1>3, <1>4 DEF ImageRelied
  <2> QED BY <1>1, <2>1 DEF RuntimeInv, ImageRelied
<1> QED BY <1>2, <1>5, <1>6 DEF RuntimeInv

\* ... and is kept by every step.
LEMMA RuntimeStep == RuntimeInv /\ [RuntimeNext]_runtimeVars => RuntimeInv'
<1> SUFFICES ASSUME RuntimeInv, [RuntimeNext]_runtimeVars
             PROVE  RuntimeInv'
  OBVIOUS
<1>0. Fine
  BY DEF RuntimeInv
<1>1. CASE Leave
  BY <1>1, LeaveKept
<1>2. CASE Repair
  BY <1>0, <1>2, RepairKept, SomeUser, OneClientStep
<1>3. ASSUME NEW c \in Clients, Act(c)
      PROVE  RuntimeInv'
  BY <1>0, <1>3, ActKept, OneClientStep
<1>4. ASSUME NEW c \in Clients, Start(c)
      PROVE  RuntimeInv'
  BY <1>0, <1>4, StartKept, OneClientStep
<1>5. CASE UNCHANGED runtimeVars
  BY <1>5 DEF runtimeVars, RuntimeInv, Fine, Sound, Rest, Procs, Placed, Program, InClause,
              FunctionRelied, ImageRelied, Known, Made, Imaged, Gap, InGap, Deploys, Maker,
              Imager, End, MyKey, Key, HasFunction, HasImage, Function, Image, Res, PerRuntime,
              Keys, Phases, Values
<1>6. ASSUME NEW m \in Mem, RunEnds(m)
      PROVE  RuntimeInv'
  BY <1>6, RunEndsKept
<1> QED BY <1>1, <1>2, <1>3, <1>4, <1>5, <1>6 DEF RuntimeNext

\* The invariant has the types of all variables.
LEMMA ImpliesRuntimeTypeOK == RuntimeInv => RuntimeTypeOK
<1> SUFFICES ASSUME RuntimeInv PROVE RuntimeTypeOK
  OBVIOUS
<1>1. Rest /\ Sound
  BY DEF RuntimeInv, Fine
<1>2. ASSUME NEW c \in Clients, Working(c)
      PROVE  proc[c].at \in 1 .. Len(Program(proc[c].op)) /\ proc[c].mem \in Keys
  BY <1>1, <1>2, Current DEF Sound
<1> QED BY <1>1, <1>2 DEF Rest, RuntimeTypeOK, Phases, Values

-----------------------------------------------------------------------------
(* The theorems. *)

\* For any clients, sizes, faults and any of the backends: every client is at a step of
\* its operation, in a finally clause after an exception; and who knows metadata of a
\* runtime, or has made it and is about to store them, finds its function and its image.
THEOREM RuntimeInvariant == RuntimeSpec => []RuntimeInv
BY RuntimeInitially, RuntimeStep, PTL DEF RuntimeSpec

\* Type correctness of the serverless handler and its backends.
THEOREM RuntimeTypeCorrect == RuntimeSpec => []RuntimeTypeOK
BY RuntimeInvariant, ImpliesRuntimeTypeOK, PTL

\* Metadata mean a deployed runtime: whoever finds metadata of a runtime, in the storage,
\* on its disk or in its memory, so that it will not deploy it, may rely on the function
\* and the image being there, unless somebody has removed them or is replacing the
\* function, whatever calls fail, and whatever clients die on the way.
THEOREM Reliance == RuntimeSpec => []MetadataMeansDeployed
<1>1. RuntimeInv => MetadataMeansDeployed
  BY ImpliesMetadataMeansDeployed DEF RuntimeInv
<1> QED BY <1>1, RuntimeInvariant, PTL

USE InvokerAssumption, ChunkAssumption

-----------------------------------------------------------------------------
(* The invoker: the shape of its data. *)

\* A job has a number of chunks.
LEMMA NumChunksType == \A j \in Job : NumChunks(j) \in Nat
<1> SUFFICES ASSUME NEW j \in Job
             PROVE  NumChunks(j) \in Nat
  OBVIOUS
<1>1. TotalCalls[j] \in Nat /\ ChunkSize[j] \in Nat \ {0}
  OBVIOUS
<1>2. \A a \in Nat, b \in Nat \ {0} : a \div b \in Nat
  OBVIOUS
<1> QED BY <1>1, <1>2 DEF NumChunks

\* A chunk is the pair of a job and of a position in it ...
LEMMA ChunkShape ==
    \A c \in Chunk : /\ c[1] \in Job /\ c[2] \in 1 .. NumChunks(c[1])
                     /\ c = <<c[1], c[2]>>
BY DEF Chunk, ChunksOf

\* ... and every such pair is one.
LEMMA ChunkIntro ==
    ASSUME NEW j \in Job, NEW k \in 1 .. NumChunks(j)
    PROVE  <<j, k>> \in Chunk
BY DEF Chunk, ChunksOf

LEMMA ChunkNumbers == \A c \in Chunk : c[1] \in Nat /\ c[2] \in Nat \ {0}
BY ChunkShape, NumChunksType DEF Job

-----------------------------------------------------------------------------
(* Type correctness. *)

\* While a job is being submitted there is one, and before its first chunk is
\* handed out nothing of it is issued; while stop puts sentinels it has some left.
Submitting ==
    /\ pc \in {"collect", "rest"} => job \in Job
    /\ pc = "collect" => next = 1
    /\ pc \in {"dollar", "none"} => sentinels > 0

\* The invoker threads are started again only after a stop.
StartsBounded == starts <= stops + (IF should_run THEN 1 ELSE 0)

TypeInv == TypeOK /\ Submitting /\ StartsBounded

LEMMA DirectChunksType ==
    ASSUME job \in Job, running \in 0 .. MaxWorkers
    PROVE  /\ DirectChunks \in 0 .. NumChunks(job)
           /\ running + DirectChunks \in 0 .. MaxWorkers
<1>1. NumChunks(job) \in Nat
  BY NumChunksType
<1> QED BY <1>1 DEF DirectChunks, FreeWorkers

LEMMA TypeInit == Init => TypeInv
<1> SUFFICES ASSUME Init
             PROVE  TypeInv
  OBVIOUS
<1>1. pending \in Seq(Chunk \cup {NoCall}) /\ pc = "idle"
  BY DEF Init
<1>4. StartsBounded
  BY DEF Init, StartsBounded
<1>2. job \in 0 .. NumJobs /\ running \in 0 .. MaxWorkers /\ starts \in 0 .. (MaxStops + 1)
  BY DEF Init
<1>3. /\ stops \in 0 .. MaxStops /\ quota \in 0 .. MaxQuota /\ crashes \in 0 .. MaxCrashes
      /\ next \in Nat \ {0} /\ tokens \in Nat /\ owed \in Nat /\ errors \in 0 .. MaxErrors
      /\ sentinels \in 0 .. ASYNC_INVOKERS
  BY DEF Init
<1> QED BY <1>1, <1>2, <1>3, <1>4 DEF Init, TypeInv, TypeOK, Submitting

LEMMA TypeStep == TypeInv /\ [Next]_vars => TypeInv'
<1> SUFFICES ASSUME TypeInv, [Next]_vars
             PROVE  TypeInv'
  OBVIOUS
<1> USE DEF TypeInv, TypeOK, Submitting, StartsBounded, clientVars, queueVars, threadVars,
            taskVars, cloudVars, monitorVars, bounds
<1>1. CASE BeginJob
  <2>1. job' \in Job /\ next' = 1
    BY <1>1 DEF BeginJob, Job
  <2>2. starts' \in 0 .. (MaxStops + 1) /\ StartsBounded'
    BY <1>1 DEF BeginJob
  <2>3. running' \in 0 .. MaxWorkers /\ tokens' \in Nat
    BY <1>1 DEF BeginJob
  <2>4. should_run' \in BOOLEAN
    BY <1>1 DEF BeginJob
  <2>5. tpc' \in [Thread -> {"off", "head", "token", "pending", "submit"}]
    BY <1>1 DEF BeginJob
  <2>6. job' \in 0 .. NumJobs
    BY <2>1 DEF Job
  <2> QED BY <1>1, <2>1, <2>2, <2>3, <2>4, <2>5, <2>6 DEF BeginJob
<1>2. CASE CollectToken
  BY <1>2 DEF CollectToken
<1>3. CASE InvokeDirect
  <2>1. job \in Job
    BY <1>3 DEF InvokeDirect
  <2>2. NumChunks(job) \in Nat
    BY <2>1, NumChunksType
  <2>3. DirectChunks \in 0 .. NumChunks(job) /\ running + DirectChunks \in 0 .. MaxWorkers
    BY <2>1, DirectChunksType
  <2>4. invoke_futures' \subseteq Chunk
    BY <1>3, <2>1, <2>2, <2>3, ChunkIntro DEF InvokeDirect
  <2>5. pool' \in [Chunk -> Nat] /\ next' \in Nat \ {0}
    BY <1>3, <2>2, <2>3 DEF InvokeDirect, FirstQueued
  <2> QED BY <1>3, <2>1, <2>3, <2>4, <2>5 DEF InvokeDirect
<1>4. CASE QueueRest
  <2>1. <<job, next>> \in Chunk
    BY <1>4, NumChunksType, ChunkIntro DEF QueueRest
  <2> QED BY <1>4, <2>1 DEF QueueRest
<1>5. CASE Register
  BY <1>5 DEF Register, Tracked
<1>6. CASE Stop
  <2>1. dropped' \subseteq Job
    BY <1>6 DEF Stop, Job
  <2>2. stops' \in 0 .. MaxStops /\ StartsBounded'
    BY <1>6 DEF Stop
  <2> QED BY <1>6, <2>1, <2>2 DEF Stop
<1>7. CASE Drain
  BY <1>7 DEF Drain
<1>8. CASE EndDrain
  BY <1>8 DEF EndDrain
<1>15. CASE PutDollar
  BY <1>15 DEF PutDollar
<1>14. CASE PutNone
  <2>1. pending' \in Seq(Chunk \cup {NoCall})
    BY <1>14 DEF PutNone
  <2>2. sentinels' \in 0 .. ASYNC_INVOKERS /\ (pc' \in {"dollar", "none"} => sentinels' > 0)
    BY <1>14 DEF PutNone
  <2> QED BY <1>14, <2>1, <2>2 DEF PutNone
<1>9. CASE Remove
  BY <1>9 DEF Remove
<1>10. ASSUME NEW t \in Thread, ThreadStep(t)
       PROVE  TypeInv'
  <2>1. CASE LoopTest(t)
    BY <2>1 DEF LoopTest
  <2>2. CASE TakeToken(t)
    BY <2>2 DEF TakeToken
  <2>3. CASE TakePending(t)
    BY <2>3 DEF TakePending
  <2>4. CASE Submit(t)
    BY <2>4 DEF Submit
  <2>5. CASE GiveUp(t)
    BY <2>5 DEF GiveUp
  <2> QED BY <1>10, <2>1, <2>2, <2>3, <2>4, <2>5 DEF ThreadStep
<1>11. ASSUME NEW c \in Chunk,
              TaskStep(c) \/ EndActivation(c) \/ Crash(c) \/ GenerateToken(c)
       PROVE  TypeInv'
  <2>1. CASE Accept(c)
    BY <2>1 DEF Accept
  <2>2. CASE Refuse(c)
    BY <2>2 DEF Refuse
  <2>3. CASE Requeue(c)
    BY <2>3 DEF Requeue
  <2>4. CASE EndActivation(c)
    BY <2>4 DEF EndActivation
  <2>5. CASE Crash(c)
    BY <2>5 DEF Crash
  <2>6. CASE GenerateToken(c)
    BY <2>6 DEF GenerateToken
  <2>7. CASE InvokeRaises(c)
    BY <2>7 DEF InvokeRaises
  <2> QED BY <1>11, <2>1, <2>2, <2>3, <2>4, <2>5, <2>6, <2>7 DEF TaskStep
<1>12. CASE ReturnToken
  BY <1>12 DEF ReturnToken
<1>13. CASE UNCHANGED vars
  BY <1>13 DEF vars
<1> QED
  BY <1>1, <1>2, <1>3, <1>4, <1>5, <1>6, <1>7, <1>8, <1>9, <1>10, <1>11, <1>12,
     <1>13, <1>14, <1>15 DEF Next, ClientStep

\* Every variable keeps its type: in particular the count of busy workers stays
\* between 0 and max_workers although it is only corrected from tokens.
THEOREM TypeCorrect == Spec => []TypeOK
<1>1. TypeInv => TypeOK
  BY DEF TypeInv
<1> QED BY <1>1, TypeInit, TypeStep, PTL DEF Spec

-----------------------------------------------------------------------------
(* No double activation. *)

\* The three parts of OnePlace.
AtMostOnePlace(c) ==
    /\ Tasks(c) <= 1
    /\ Tasks(c) > 0 => Issued(c) /\ ~Queued(c) /\ ~Held(c)
    /\ Queued(c) => Issued(c) /\ ~Held(c)
    /\ Held(c) => Issued(c)
QueuedOnce ==
    \A k, l \in DOMAIN pending : pending[k] = pending[l] /\ pending[k] # NoCall => k = l
HeldOnce ==
    \A s, t \in Thread : item[s] = item[t] /\ item[s] # NoCall => s = t

LEMMA OnePlaceParts ==
    OnePlace <=> (\A c \in Chunk : AtMostOnePlace(c)) /\ QueuedOnce /\ HeldOnce
BY DEF OnePlace, AtMostOnePlace, QueuedOnce, HeldOnce

\* A step that leaves the queue, the threads' items and the tasks alone, and
\* takes no chunk back, keeps every chunk in its place.
LEMMA PlacesKept ==
    ASSUME OnePlace, UNCHANGED <<pending, item, pool, sleeping, acts, lost>>,
           \A c \in Chunk : Issued(c) => Issued(c)'
    PROVE  OnePlace'
<1>1. \A c \in Chunk : AtMostOnePlace(c)'
  BY OnePlaceParts DEF AtMostOnePlace, Tasks, Queued, Held
<1>2. QueuedOnce' /\ HeldOnce'
  BY OnePlaceParts DEF QueuedOnce, HeldOnce
<1> QED BY <1>1, <1>2, OnePlaceParts DEF OnePlace, AtMostOnePlace, QueuedOnce, HeldOnce

LEMMA PlaceInit == Init => OnePlace
<1> SUFFICES ASSUME Init
             PROVE  OnePlace
  OBVIOUS
<1>1. \A c \in Chunk : Tasks(c) = 0
  BY DEF Init, Tasks
<1>2. \A c \in Chunk : ~Queued(c) /\ ~Held(c)
  BY DEF Init, Queued, Held
<1>3. QueuedOnce /\ HeldOnce
  BY DEF Init, QueuedOnce, HeldOnce
<1> QED BY <1>1, <1>2, <1>3, OnePlaceParts DEF AtMostOnePlace

\* Issued grows while a job is submitted, and is kept by everything else.
LEMMA IssuedKept ==
    ASSUME TypeInv, [Next]_vars, ~InvokeDirect, ~QueueRest
    PROVE  \A c \in Chunk : Issued(c) => Issued(c)'
<1> SUFFICES ASSUME NEW c \in Chunk, Issued(c)
             PROVE  Issued(c)'
  OBVIOUS
<1>1. c[1] \in Nat /\ job \in Nat
  BY ChunkNumbers DEF TypeInv, TypeOK
<1>2. CASE BeginJob
  BY <1>1, <1>2 DEF BeginJob, Issued
<1>3. CASE UNCHANGED <<job, next>>
  BY <1>3 DEF Issued
<1> QED
  BY <1>2, <1>3 DEF Next, vars, clientVars, ClientStep, ThreadStep, TaskStep,
     CollectToken, Register, Stop, Drain, EndDrain, PutDollar, PutNone, Remove, LoopTest, TakeToken,
     TakePending, Submit, GiveUp, Accept, Refuse, InvokeRaises, Requeue, EndActivation, Crash,
     GenerateToken, ReturnToken

LEMMA PlaceDirect ==
    ASSUME TypeInv, OnePlace, InvokeDirect
    PROVE  OnePlace'
<1> DEFINE direct == {<<job, k>> : k \in 1 .. DirectChunks}
<1> HIDE DEF direct
<1>1. job \in Job /\ next = 1 /\ next' = DirectChunks + 1 /\ job' = job
  BY DEF InvokeDirect, FirstQueued, TypeInv, Submitting
<1>2. DirectChunks \in Nat
  BY <1>1, DirectChunksType, NumChunksType DEF TypeInv, TypeOK
<1>3. \A c \in Chunk : c[1] \in Nat /\ c[2] \in Nat \ {0}
  BY ChunkNumbers
<1>4. \A c \in Chunk : c \in direct => ~Issued(c) /\ Issued(c)'
  BY <1>1, <1>2, <1>3 DEF direct, Issued, Job
<1>5. \A c \in Chunk : Issued(c) => Issued(c)'
  BY <1>1, <1>2, <1>3 DEF Issued
<1>6. pool' = [c \in Chunk |-> IF c \in direct THEN pool[c] + 1 ELSE pool[c]]
  BY DEF InvokeDirect, direct
<1>7. UNCHANGED <<pending, item, sleeping, acts, lost>>
  BY DEF InvokeDirect, queueVars, threadVars, cloudVars
<1>8. ASSUME NEW c \in Chunk
      PROVE  AtMostOnePlace(c)'
  <2>1. AtMostOnePlace(c)
    BY OnePlaceParts
  <2>2. CASE c \in direct
    <3>1. Tasks(c) = 0 /\ ~Queued(c) /\ ~Held(c) /\ Tasks(c) \in Nat
      BY <2>1, <2>2, <1>4 DEF AtMostOnePlace, Tasks, TypeInv, TypeOK
    <3>2. Tasks(c)' = 1
      BY <3>1, <2>2, <1>6, <1>7 DEF Tasks, TypeInv, TypeOK
    <3> QED BY <3>1, <3>2, <2>2, <1>4, <1>7 DEF AtMostOnePlace, Queued, Held
  <2>3. CASE c \notin direct
    <3>1. Tasks(c)' = Tasks(c)
      BY <2>3, <1>6, <1>7 DEF Tasks
    <3> QED BY <3>1, <2>1, <1>5, <1>7 DEF AtMostOnePlace, Queued, Held
  <2> QED BY <2>2, <2>3
<1>9. QueuedOnce' /\ HeldOnce'
  BY <1>7, OnePlaceParts DEF QueuedOnce, HeldOnce
<1> QED BY <1>8, <1>9 DEF OnePlace, AtMostOnePlace, QueuedOnce, HeldOnce

\* A chunk that is nowhere may enter the queue.
LEMMA PlaceAppend ==
    ASSUME TypeInv, OnePlace, NEW q \in Chunk,
           pending' = Append(pending, q), UNCHANGED item,
           UNCHANGED acts, Tasks(q)' = 0, ~Queued(q), ~Held(q), Issued(q)',
           \A c \in Chunk \ {q} : Tasks(c)' = Tasks(c),
           \A c \in Chunk : Issued(c) => Issued(c)'
    PROVE  OnePlace'
<1>1. /\ Len(pending) \in Nat /\ Len(pending') = Len(pending) + 1
      /\ DOMAIN pending = 1 .. Len(pending) /\ DOMAIN pending' = 1 .. Len(pending')
      /\ \A k \in 1 .. Len(pending) : pending'[k] = pending[k]
      /\ pending'[Len(pending) + 1] = q
  BY DEF TypeInv, TypeOK
<1>2. \A c \in Chunk \ {q} : Queued(c)' <=> Queued(c)
  BY <1>1 DEF Queued
<1>3. \A c \in Chunk : Held(c)' <=> Held(c)
  BY DEF Held
<1>4. ASSUME NEW c \in Chunk
      PROVE  AtMostOnePlace(c)'
  BY <1>2, <1>3, OnePlaceParts DEF AtMostOnePlace
<1>5. QueuedOnce'
  <2>1. \A k \in 1 .. Len(pending) : pending[k] # q
    BY <1>1 DEF Queued
  <2> QED BY <2>1, <1>1, OnePlaceParts DEF QueuedOnce
<1>6. HeldOnce'
  BY OnePlaceParts DEF HeldOnce
<1> QED BY <1>4, <1>5, <1>6 DEF OnePlace, AtMostOnePlace, QueuedOnce, HeldOnce

\* The head of the queue may leave it, into the hands of a thread or not.
LEMMA PlaceTail ==
    ASSUME TypeInv, OnePlace, pending # <<>>, pending' = Tail(pending),
           UNCHANGED <<pool, sleeping, acts, lost, job, next>>,
           \/ UNCHANGED item
           \/ \E t \in Thread : item' = [item EXCEPT ![t] = Head(pending)]
    PROVE  OnePlace'
<1>1. /\ Len(pending) \in Nat \ {0} /\ Len(pending') = Len(pending) - 1
      /\ DOMAIN pending = 1 .. Len(pending) /\ DOMAIN pending' = 1 .. Len(pending')
      /\ \A k \in 1 .. Len(pending') : pending'[k] = pending[k + 1]
      /\ Head(pending) = pending[1]
  BY DEF TypeInv, TypeOK
<1>2. \A c \in Chunk : Queued(c)' => Queued(c)
  BY <1>1 DEF Queued
<1>3. QueuedOnce'
  BY <1>1, OnePlaceParts DEF QueuedOnce
<1>4. \A c \in Chunk : (Tasks(c)' = Tasks(c)) /\ (Issued(c)' <=> Issued(c))
  BY DEF Tasks, Issued
<1>5. CASE UNCHANGED item
  <2>1. \A c \in Chunk : Held(c)' <=> Held(c)
    BY <1>5 DEF Held
  <2>2. \A c \in Chunk : AtMostOnePlace(c)'
    BY <2>1, <1>2, <1>4, OnePlaceParts DEF AtMostOnePlace
  <2>3. HeldOnce'
    BY <1>5, OnePlaceParts DEF HeldOnce
  <2> QED BY <2>2, <2>3, <1>3 DEF OnePlace, AtMostOnePlace, QueuedOnce, HeldOnce
<1>6. ASSUME NEW t \in Thread, item' = [item EXCEPT ![t] = Head(pending)]
      PROVE  OnePlace'
  <2>1. \A c \in Chunk : Held(c)' => Held(c) \/ c = pending[1]
    BY <1>1, <1>6 DEF Held, TypeInv, TypeOK
  <2>2. \A c \in Chunk : c = pending[1] => Queued(c) /\ ~Queued(c)'
    BY <1>1, OnePlaceParts DEF Queued, QueuedOnce
  <2>3. \A c \in Chunk : AtMostOnePlace(c)'
    BY <2>1, <2>2, <1>2, <1>4, OnePlaceParts DEF AtMostOnePlace
  <2>4. \A s \in Thread : item[s] = pending[1] => item[s] = NoCall
    <3> SUFFICES ASSUME NEW s \in Thread, item[s] = pending[1], item[s] # NoCall
                 PROVE  FALSE
      OBVIOUS
    <3>1. item[s] \in Chunk
      BY DEF TypeInv, TypeOK
    <3> QED BY <3>1, <2>2, OnePlaceParts DEF AtMostOnePlace, Held
  <2>5. HeldOnce'
    BY <2>4, <1>1, <1>6, OnePlaceParts DEF HeldOnce, TypeInv, TypeOK
  <2> QED BY <2>3, <2>5, <1>3 DEF OnePlace, AtMostOnePlace, QueuedOnce, HeldOnce
<1> QED BY <1>5, <1>6

\* A thread that lets go of its item, into the pool or not.
LEMMA PlaceRelease ==
    ASSUME TypeInv, OnePlace, NEW t \in Thread,
           item' = [item EXCEPT ![t] = NoCall],
           UNCHANGED <<pending, sleeping, acts, lost, job, next>>,
           \/ UNCHANGED pool
           \/ pool' = [c \in Chunk |-> IF c = item[t] THEN pool[c] + 1 ELSE pool[c]]
    PROVE  OnePlace'
<1>1. \A c \in Chunk : Held(c)' => Held(c) /\ c # item[t]
  BY OnePlaceParts DEF Held, HeldOnce, TypeInv, TypeOK
<1>2. \A c \in Chunk : (Queued(c)' <=> Queued(c)) /\ (Issued(c)' <=> Issued(c))
  BY DEF Queued, Issued
<1>3. QueuedOnce' /\ HeldOnce'
  BY OnePlaceParts DEF QueuedOnce, HeldOnce, TypeInv, TypeOK
<1>4. ASSUME NEW c \in Chunk
      PROVE  AtMostOnePlace(c)'
  <2>1. CASE c # item[t] \/ UNCHANGED pool
    <3>1. Tasks(c)' = Tasks(c)
      BY <2>1 DEF Tasks
    <3> QED BY <3>1, <1>1, <1>2, OnePlaceParts DEF AtMostOnePlace
  <2>2. CASE c = item[t] /\ ~UNCHANGED pool
    <3>1. Held(c)
      BY <2>2 DEF Held
    <3>2. /\ Tasks(c) \in Nat /\ pool[c] \in Nat /\ sleeping[c] \in Nat
          /\ acts[c] \in Nat /\ lost[c] \in Nat
      BY DEF Tasks, TypeInv, TypeOK
    <3>3. Issued(c) /\ ~Queued(c) /\ Tasks(c) = 0
      BY <3>1, <3>2, OnePlaceParts DEF AtMostOnePlace
    <3>4. pool'[c] = pool[c] + 1
      BY <2>2
    <3>5. Tasks(c)' = 1
      BY <3>2, <3>3, <3>4 DEF Tasks
    <3> QED BY <3>3, <3>5, <2>2, <1>1, <1>2 DEF AtMostOnePlace
  <2> QED BY <2>1, <2>2
<1> QED BY <1>3, <1>4 DEF OnePlace, AtMostOnePlace, QueuedOnce, HeldOnce

\* A task that moves between pool, sleep and backend stays one task.
LEMMA PlaceMove ==
    ASSUME TypeInv, OnePlace, UNCHANGED <<pending, item, job, next>>,
           \A c \in Chunk : Tasks(c)' = Tasks(c)
    PROVE  OnePlace'
<1>1. \A c \in Chunk : AtMostOnePlace(c)'
  BY OnePlaceParts DEF AtMostOnePlace, Queued, Held, Issued
<1>2. QueuedOnce' /\ HeldOnce'
  BY OnePlaceParts DEF QueuedOnce, HeldOnce
<1> QED BY <1>1, <1>2 DEF OnePlace, AtMostOnePlace, QueuedOnce, HeldOnce

LEMMA PlaceQueueRest ==
    ASSUME TypeInv, OnePlace, QueueRest
    PROVE  OnePlace'
<1>1. job \in Job /\ job' = job /\ next \in Nat \ {0} /\ next' = next + 1
  BY DEF QueueRest, TypeInv, Submitting, TypeOK
<1>2. <<job, next>> \in Chunk
  BY <1>1, NumChunksType, ChunkIntro DEF QueueRest
<1>3. PICK q \in Chunk : q = <<job, next>>
  BY <1>2
<1>4. q[1] = job /\ q[2] = next /\ job \in Int
  BY <1>1, <1>3 DEF Job
<1>5. ~Issued(q) /\ Issued(q)'
  BY <1>1, <1>4 DEF Issued
<1>6. \A c \in Chunk : Issued(c) => Issued(c)'
  BY <1>1, ChunkNumbers DEF Issued
<1>7. pending' = Append(pending, q) /\ UNCHANGED <<item, pool, sleeping, acts, lost>>
  BY <1>3 DEF QueueRest, threadVars, taskVars, cloudVars
<1>8. \A c \in Chunk : Tasks(c)' = Tasks(c)
  BY <1>7 DEF Tasks
<1>9. Tasks(q) \in Nat
  BY DEF Tasks, TypeInv, TypeOK
<1>10. Tasks(q)' = 0 /\ ~Queued(q) /\ ~Held(q)
  BY <1>5, <1>8, <1>9, OnePlaceParts DEF AtMostOnePlace
<1> QED BY <1>5, <1>6, <1>7, <1>8, <1>10, PlaceAppend

LEMMA PlaceRequeue ==
    ASSUME TypeInv, OnePlace, NEW q \in Chunk, Requeue(q)
    PROVE  OnePlace'
<1>1. /\ pending' = Append(pending, q) /\ UNCHANGED <<item, pool, acts, lost, job, next>>
      /\ sleeping[q] > 0 /\ sleeping' = [sleeping EXCEPT ![q] = @ - 1]
  BY DEF Requeue, threadVars, cloudVars, clientVars
<1>2. /\ Tasks(q) = 1 /\ Issued(q) /\ ~Queued(q) /\ ~Held(q)
      /\ pool[q] = 0 /\ acts[q] = 0 /\ sleeping[q] = 1 /\ lost[q] = 0
  BY <1>1, OnePlaceParts DEF AtMostOnePlace, Tasks, TypeInv, TypeOK
<1>3. Tasks(q)' = 0
  BY <1>1, <1>2 DEF Tasks, TypeInv, TypeOK
<1>4. \A c \in Chunk \ {q} : Tasks(c)' = Tasks(c)
  BY <1>1 DEF Tasks, TypeInv, TypeOK
<1>5. \A c \in Chunk : Issued(c)' <=> Issued(c)
  BY <1>1 DEF Issued
<1> QED BY <1>1, <1>2, <1>3, <1>4, <1>5, PlaceAppend

LEMMA PlaceStep == TypeInv /\ OnePlace /\ [Next]_vars => OnePlace'
<1> SUFFICES ASSUME TypeInv, OnePlace, [Next]_vars
             PROVE  OnePlace'
  OBVIOUS
<1> USE DEF clientVars, queueVars, threadVars, taskVars, cloudVars
<1>1. CASE InvokeDirect
  BY <1>1, PlaceDirect
<1>2. CASE QueueRest
  BY <1>2, PlaceQueueRest
<1>3. CASE \/ BeginJob \/ CollectToken \/ Register \/ Stop \/ EndDrain \/ PutDollar
          \/ Remove \/ ReturnToken
  <2>1. UNCHANGED <<pending, item, pool, sleeping, acts, lost>>
    BY <1>3 DEF BeginJob, CollectToken, Register, Stop, EndDrain, PutDollar, Remove, ReturnToken
  <2>2. ~InvokeDirect /\ ~QueueRest => OnePlace'
    BY <2>1, IssuedKept, PlacesKept
  <2> QED BY <2>2, <1>1, <1>2
<1>4. CASE Drain
  BY <1>4, PlaceTail DEF Drain
<1>5. CASE PutNone
  <2>1. /\ Len(pending) \in Nat /\ Len(pending') = Len(pending) + 1
        /\ DOMAIN pending = 1 .. Len(pending) /\ DOMAIN pending' = 1 .. Len(pending')
        /\ \A k \in 1 .. Len(pending) : pending'[k] = pending[k]
        /\ pending'[Len(pending) + 1] = NoCall
    BY <1>5 DEF PutNone, TypeInv, TypeOK
  <2>2. \A c \in Chunk : Queued(c)' <=> Queued(c)
    BY <2>1 DEF Queued
  <2>3. QueuedOnce'
    BY <2>1, OnePlaceParts DEF QueuedOnce
  <2>4. HeldOnce'
    BY <1>5, OnePlaceParts DEF PutNone, HeldOnce
  <2>5. \A c \in Chunk : AtMostOnePlace(c)'
    BY <1>5, <2>2, OnePlaceParts
       DEF PutNone, AtMostOnePlace, Tasks, Held, Issued
  <2> QED BY <2>3, <2>4, <2>5 DEF OnePlace, AtMostOnePlace, QueuedOnce, HeldOnce
<1>6. ASSUME NEW t \in Thread, ThreadStep(t)
      PROVE  OnePlace'
  <2>1. CASE LoopTest(t) \/ TakeToken(t)
    BY <2>1, PlaceMove DEF LoopTest, TakeToken, Tasks
  <2>2. CASE TakePending(t)
    BY <2>2, PlaceTail DEF TakePending
  <2>3. CASE Submit(t)
    BY <2>3, PlaceRelease DEF Submit
  <2>4. CASE GiveUp(t)
    BY <2>4, PlaceRelease DEF GiveUp
  <2> QED BY <1>6, <2>1, <2>2, <2>3, <2>4 DEF ThreadStep
<1>7. ASSUME NEW c \in Chunk,
             TaskStep(c) \/ EndActivation(c) \/ Crash(c) \/ GenerateToken(c)
      PROVE  OnePlace'
  <2>1. CASE Accept(c)
    <3>1. \A d \in Chunk : Tasks(d)' = Tasks(d)
      BY <2>1 DEF Accept, Tasks, TypeInv, TypeOK
    <3> QED BY <2>1, <3>1, PlaceMove DEF Accept
  <2>2. CASE Refuse(c)
    <3>1. \A d \in Chunk : Tasks(d)' = Tasks(d)
      BY <2>2 DEF Refuse, Tasks, TypeInv, TypeOK
    <3> QED BY <2>2, <3>1, PlaceMove DEF Refuse
  <2>3. CASE Requeue(c)
    BY <2>3, PlaceRequeue
  <2>4. CASE EndActivation(c) \/ Crash(c) \/ GenerateToken(c)
    BY <2>4, PlaceMove DEF EndActivation, Crash, GenerateToken, Tasks
  <2>5. CASE InvokeRaises(c)
    <3>2. \A d \in Chunk : Tasks(d)' = Tasks(d)
      BY <2>5 DEF InvokeRaises, Tasks, TypeInv, TypeOK
    <3> QED BY <2>5, <3>2, PlaceMove DEF InvokeRaises
  <2> QED BY <1>7, <2>1, <2>2, <2>3, <2>4, <2>5 DEF TaskStep
<1>8. CASE UNCHANGED vars
  BY <1>8, PlaceMove DEF vars, Tasks
<1> QED
  BY <1>1, <1>2, <1>3, <1>4, <1>5, <1>6, <1>7, <1>8 DEF Next, ClientStep

\* A chunk is in at most one place on its way to the backend.
THEOREM PlacesExclusive == Spec => []OnePlace
<1> QED BY TypeInit, TypeStep, PlaceInit, PlaceStep, PTL DEF Spec

\* No chunk is activated twice, whatever the client, the invoker threads, the
\* quota retries, stops and restarts do to the queues.
THEOREM ActivatedOnce == Spec => []NoDoubleActivation
<1>1. TypeOK /\ OnePlace => NoDoubleActivation
  BY DEF NoDoubleActivation, OnePlace, Tasks, TypeOK
<1> QED BY <1>1, TypeCorrect, PlacesExclusive, PTL

-----------------------------------------------------------------------------
(* The activations and what the monitor has seen of them. *)

\* An activation runs at most once; one that has ended runs no more, and the
\* monitor gives back only such, of full chunks.
Backed(c) ==
    /\ live[c] <= acts[c]
    /\ c \in ended => acts[c] > 0 /\ live[c] = 0
    /\ c \in workers_done => c \in ended /\ ChunkCalls(c) = ChunkSize[c[1]]
BackedAll == \A c \in Chunk : Backed(c)

LEMMA BackedInit == Init => BackedAll
BY DEF Init, BackedAll, Backed

LEMMA BackedStep == TypeInv /\ OnePlace /\ BackedAll /\ [Next]_vars => BackedAll'
<1> SUFFICES ASSUME TypeInv, OnePlace, BackedAll, [Next]_vars
             PROVE  BackedAll'
  OBVIOUS
<1> USE DEF clientVars, queueVars, threadVars, taskVars, cloudVars, monitorVars,
            BackedAll, Backed
<1>1. CASE UNCHANGED <<acts, live, ended, workers_done>>
  BY <1>1
<1>2. ASSUME NEW c \in Chunk, Accept(c)
      PROVE  BackedAll'
  <2>1. acts[c] = 0 /\ live[c] = 0
    BY <1>2, OnePlaceParts DEF Accept, AtMostOnePlace, Tasks, TypeInv, TypeOK
  <2> QED BY <1>2, <2>1 DEF Accept, TypeInv, TypeOK
<1>3. ASSUME NEW c \in Chunk, EndActivation(c)
      PROVE  BackedAll'
  <2>1. acts[c] = 1 /\ live[c] = 1
    BY <1>3, OnePlaceParts DEF EndActivation, AtMostOnePlace, Tasks, TypeInv, TypeOK
  <2> QED BY <1>3, <2>1 DEF EndActivation, TypeInv, TypeOK
<1>4. ASSUME NEW c \in Chunk, Crash(c)
      PROVE  BackedAll'
  BY <1>4 DEF Crash, TypeInv, TypeOK
<1>5. ASSUME NEW c \in Chunk, GenerateToken(c)
      PROVE  BackedAll'
  BY <1>5 DEF GenerateToken, FinishedWorkers, TypeInv, TypeOK
<1> QED
  BY <1>1, <1>2, <1>3, <1>4, <1>5
     DEF Next, vars, ClientStep, ThreadStep, TaskStep, BeginJob, CollectToken,
         InvokeDirect, QueueRest, Register, Stop, Drain, EndDrain, PutDollar, PutNone, Remove, LoopTest,
         TakeToken, TakePending, Submit, GiveUp, Refuse, InvokeRaises, Requeue, ReturnToken

-----------------------------------------------------------------------------
(* Worker slots of an executor that was not stopped yet. *)

\* Threads run only once they were started, and every pair they take from the
\* queue names a chunk.
Undisturbed ==
    /\ pc \in {"idle", "collect", "rest"}
    /\ pc # "idle" => should_run
    /\ ~should_run => starts = 0 /\ running = 0
    /\ \A t \in Thread : t[1] > starts => tpc[t] = "off"
    /\ \A k \in DOMAIN pending : pending[k] \in Chunk
    /\ \A t \in Thread : tpc[t] = "submit" => item[t] \in Chunk

LEMMA UndisturbedInit == Init => Undisturbed
BY DEF Init, Undisturbed

LEMMA UndisturbedStep ==
    ASSUME stops' = 0, TypeInv, Undisturbed, [Next]_vars
    PROVE  Undisturbed'
<1> USE DEF clientVars, queueVars, threadVars, taskVars, cloudVars, monitorVars,
            bounds, Undisturbed, TypeInv, TypeOK
<1>0. \A t \in Thread : t[1] \in Nat
  BY DEF Thread
<1>1. CASE BeginJob
  <2>1. CASE should_run
    BY <1>1, <2>1 DEF BeginJob
  <2>2. CASE ~should_run
    <3>3. starts = 0 /\ starts' = 1
      BY <1>1, <2>2 DEF BeginJob
    <3>4. \A t \in Thread : t[1] > 0
      BY DEF Thread
    <3>5. \A t \in Thread : tpc[t] = "off"
      BY <1>0, <3>3, <3>4
    <3>6. tpc' = [t \in Thread |-> IF t[1] = 1 THEN "head" ELSE tpc[t]]
      BY <1>1, <2>2, <3>3 DEF BeginJob
    <3>1. \A t \in Thread : t[1] > 1 => tpc'[t] = "off"
      BY <1>0, <3>5, <3>6
    <3>2. \A t \in Thread : tpc'[t] # "submit"
      BY <3>5, <3>6
    <3> QED BY <1>1, <2>2, <3>1, <3>2, <3>3 DEF BeginJob
  <2> QED BY <2>1, <2>2
<1>2. CASE QueueRest
  <2>1. <<job, next>> \in Chunk
    BY <1>2, NumChunksType, ChunkIntro DEF QueueRest, Submitting
  <2>2. \A k \in DOMAIN pending' : pending'[k] \in Chunk
    BY <1>2, <2>1 DEF QueueRest
  <2> QED BY <1>2, <2>2 DEF QueueRest
<1>3. CASE CollectToken \/ InvokeDirect \/ Register
  BY <1>3 DEF CollectToken, InvokeDirect, Register
<1>4. CASE Stop \/ Drain \/ EndDrain \/ PutDollar \/ PutNone \/ Remove
  BY <1>4 DEF Stop, Drain, EndDrain, PutDollar, PutNone, Remove
<1>5. ASSUME NEW t \in Thread, ThreadStep(t)
      PROVE  Undisturbed'
  <2>1. CASE LoopTest(t)
    BY <1>0, <2>1 DEF LoopTest
  <2>2. CASE TakeToken(t)
    BY <1>0, <2>2 DEF TakeToken
  <2>3. CASE TakePending(t)
    <3>1. /\ Head(pending) \in Chunk
          /\ \A k \in DOMAIN pending' : pending'[k] \in Chunk
      BY <2>3 DEF TakePending
    <3> QED BY <1>0, <2>3, <3>1 DEF TakePending
  <2>4. CASE Submit(t)
    BY <1>0, <2>4 DEF Submit
  <2>5. CASE GiveUp(t)
    BY <1>0, <2>5 DEF GiveUp
  <2> QED BY <1>5, <2>1, <2>2, <2>3, <2>4, <2>5 DEF ThreadStep
<1>6. ASSUME NEW c \in Chunk, Requeue(c)
      PROVE  Undisturbed'
  <2>1. \A k \in DOMAIN pending' : pending'[k] \in Chunk
    BY <1>6 DEF Requeue
  <2> QED BY <1>6, <2>1 DEF Requeue
<1>7. ASSUME NEW c \in Chunk,
             Accept(c) \/ Refuse(c) \/ InvokeRaises(c) \/ EndActivation(c) \/ Crash(c) \/ GenerateToken(c)
      PROVE  Undisturbed'
  BY <1>7 DEF Accept, Refuse, InvokeRaises, EndActivation, Crash, GenerateToken
<1>8. CASE ReturnToken \/ UNCHANGED vars
  BY <1>8 DEF ReturnToken, vars
<1> QED
  BY <1>1, <1>2, <1>3, <1>4, <1>5, <1>6, <1>7, <1>8 DEF Next, ClientStep, TaskStep

\* There are finitely many chunks and threads.
LEMMA ChunkFinite == IsFiniteSet(Chunk)
<1> DEFINE chunks == {ChunksOf(j) : j \in Job}
<1>1. IsFiniteSet(Job)
  BY FS_Interval DEF Job
<1>2. [j \in Job |-> ChunksOf(j)] \in Surjection(Job, chunks)
  BY DEF Surjection
<1>3. IsFiniteSet(chunks)
  BY <1>1, <1>2, FS_Surjection
<1>4. ASSUME NEW j \in Job
      PROVE  IsFiniteSet(ChunksOf(j))
  <2>1. IsFiniteSet(1 .. NumChunks(j))
    BY NumChunksType, FS_Interval
  <2>2. [k \in 1 .. NumChunks(j) |-> <<j, k>>] \in Surjection(1 .. NumChunks(j), ChunksOf(j))
    BY DEF Surjection, ChunksOf
  <2> QED BY <2>1, <2>2, FS_Surjection
<1>5. IsFiniteSet(UNION chunks)
  BY <1>3, <1>4, FS_UNION
<1> QED BY <1>5 DEF Chunk

LEMMA ThreadFinite == IsFiniteSet(Thread)
<1>1. IsFiniteSet(1 .. MaxStops + 1) /\ IsFiniteSet(1 .. ASYNC_INVOKERS)
  BY FS_Interval
<1> QED BY <1>1, FS_Product DEF Thread

\* The chunks that hold a slot, whether it will come back or not.
Busy == {c \in Chunk : Tasks(c) > 0 /\ c \notin workers_done}

LEMMA Counts ==
    /\ IsFiniteSet(Claims) /\ Cardinality(Claims) \in Nat
    /\ IsFiniteSet(Busy) /\ Cardinality(Busy) \in Nat
    /\ IsFiniteSet(Claims') /\ Cardinality(Claims') \in Nat
    /\ IsFiniteSet(Busy') /\ Cardinality(Busy') \in Nat
<1>1. Claims \subseteq Thread /\ Claims' \subseteq Thread
  BY DEF Claims
<1>2. Busy \subseteq Chunk /\ Busy' \subseteq Chunk
  BY DEF Busy
<1> QED BY <1>1, <1>2, ChunkFinite, ThreadFinite, FS_Subset, FS_CardinalityType

\* The slots in the queue, in flight, in use; those that were given out.
Free == tokens + owed
Granted == starts * ASYNC_INVOKERS

LEMMA GrantedType ==
    ASSUME TypeInv
    PROVE  Granted \in Nat
BY DEF TypeInv, TypeOK, Granted

\* A slot that becomes busy or is released changes the count by one.
LEMMA BusyAdd ==
    ASSUME NEW c \in Chunk, c \notin Busy, Busy' = Busy \cup {c}
    PROVE  Cardinality(Busy') = Cardinality(Busy) + 1
BY Counts, FS_AddElement

LEMMA BusyRemove ==
    ASSUME NEW c \in Chunk, c \in Busy, Busy' = Busy \ {c}
    PROVE  Cardinality(Busy') = Cardinality(Busy) - 1
BY Counts, FS_RemoveElement

\* What has no task is neither activated nor given back.
LEMMA NotBusy ==
    ASSUME TypeInv, BackedAll, NEW c \in Chunk, Tasks(c) = 0
    PROVE  c \notin Busy /\ c \notin workers_done
BY DEF Busy, Tasks, BackedAll, Backed, TypeInv, TypeOK

\* SlotsConserved when nothing disturbs it, in the terms of the lemmas.
Conserved == Free + Cardinality(Claims) + Cardinality(Busy) = running + Granted

LEMMA SlotsDirect ==
    ASSUME TypeInv, OnePlace, BackedAll, Conserved, InvokeDirect
    PROVE  Conserved'
<1> DEFINE direct == {<<job, k>> : k \in 1 .. DirectChunks}
<1>1. job \in Job /\ next = 1 /\ running' = running + DirectChunks
  BY DEF InvokeDirect, TypeInv, Submitting
<1>2. DirectChunks \in 0 .. NumChunks(job) /\ NumChunks(job) \in Nat
  BY <1>1, DirectChunksType, NumChunksType DEF TypeInv, TypeOK
<1>3. direct \subseteq Chunk
  BY <1>1, <1>2, ChunkIntro
<1>4. IsFiniteSet(direct) /\ Cardinality(direct) = DirectChunks
  <2>1. IsFiniteSet(1 .. DirectChunks) /\ Cardinality(1 .. DirectChunks) = DirectChunks
    BY <1>2, FS_Interval
  <2> DEFINE f == [k \in 1 .. DirectChunks |-> <<job, k>>]
  <2>2. f \in Surjection(1 .. DirectChunks, direct)
    BY DEF Surjection
  <2>3. f \in Injection(1 .. DirectChunks, direct)
    BY DEF Injection, IsInjective
  <2>4. f \in Bijection(1 .. DirectChunks, direct)
    BY <2>2, <2>3 DEF Bijection
  <2>5. ExistsBijection(1 .. DirectChunks, direct)
    BY <2>4 DEF ExistsBijection
  <2> QED BY <2>1, <2>5, FS_Bijection
<1> HIDE DEF direct
<1>5. pool' = [c \in Chunk |-> IF c \in direct THEN pool[c] + 1 ELSE pool[c]]
  BY DEF InvokeDirect, direct
<1>6. UNCHANGED <<tokens, owed, tpc, sleeping, acts, lost, workers_done, starts>>
  BY DEF InvokeDirect, queueVars, threadVars, cloudVars, monitorVars
<1>7. \A c \in direct : c[1] = job /\ c[2] \in Nat \ {0}
  BY <1>2 DEF direct
<1>8. \A c \in direct : Tasks(c) = 0
  <2>1. \A c \in direct : ~Issued(c)
    BY <1>1, <1>7 DEF Issued, Job
  <2>2. \A c \in Chunk : Tasks(c) \in Nat
    BY DEF Tasks, TypeInv, TypeOK
  <2> QED BY <2>1, <2>2, <1>3, OnePlaceParts DEF AtMostOnePlace
<1>9. \A c \in direct : c \notin Busy /\ c \notin workers_done
  BY <1>3, <1>8, NotBusy
<1>10. \A c \in direct : Tasks(c)' = 1
  BY <1>3, <1>5, <1>6, <1>8 DEF Tasks, TypeInv, TypeOK
<1>11. \A c \in Chunk \ direct : Tasks(c)' = Tasks(c)
  BY <1>5, <1>6 DEF Tasks
<1>12. Busy' = Busy \cup direct
  BY <1>3, <1>6, <1>9, <1>10, <1>11 DEF Busy
<1>13. Busy \cap direct = {}
  BY <1>9
<1>14. Cardinality(Busy') = Cardinality(Busy) + DirectChunks
  <2>1. Cardinality(Busy \cup direct) = Cardinality(Busy) + DirectChunks - Cardinality({})
    BY <1>4, <1>13, Counts, FS_Union
  <2> QED BY <1>2, <1>12, <2>1, Counts, FS_EmptySet
<1>15. UNCHANGED Free /\ UNCHANGED Claims /\ UNCHANGED Granted
  BY <1>6 DEF Free, Claims, Granted
<1>16. Free \in Nat /\ running \in Nat
  BY DEF Free, TypeInv, TypeOK
<1> QED
  BY <1>1, <1>2, <1>14, <1>15, <1>16, GrantedType, Counts DEF Conserved

\* A thread that takes a token or submits for it.
LEMMA SlotsThread ==
    ASSUME TypeInv, OnePlace, BackedAll, Undisturbed, Conserved,
           NEW t \in Thread, ThreadStep(t)
    PROVE  Conserved'
<1> USE DEF clientVars, queueVars, threadVars, taskVars, cloudVars, monitorVars
<1>1. UNCHANGED Granted /\ UNCHANGED running /\ UNCHANGED owed /\ UNCHANGED workers_done
  BY DEF ThreadStep, LoopTest, TakeToken, TakePending, Submit, GiveUp, Granted
<1>2. running \in Nat /\ tokens \in Nat /\ owed \in Nat
  BY DEF TypeInv, TypeOK
<1>3. \A c \in Chunk : Tasks(c) \in Nat
  BY DEF Tasks, TypeInv, TypeOK
<1>4. CASE LoopTest(t)
  <2>1. UNCHANGED <<Free, Claims, Busy>>
    BY <1>4 DEF LoopTest, Free, Claims, Busy, Tasks, TypeInv, TypeOK
  <2> QED BY <2>1, <1>1 DEF Conserved
<1>5. CASE TakeToken(t)
  <2>1. t \notin Claims /\ Claims' = Claims \cup {t} /\ UNCHANGED Busy
    BY <1>5 DEF TakeToken, Claims, Busy, Tasks, TypeInv, TypeOK
  <2>2. Cardinality(Claims') = Cardinality(Claims) + 1
    BY <2>1, Counts, FS_AddElement
  <2>3. Free' = Free - 1 /\ Free \in Nat
    BY <1>1, <1>2, <1>5 DEF TakeToken, Free
  <2> QED BY <2>1, <2>2, <2>3, <1>1, <1>2, Counts, GrantedType DEF Conserved
<1>6. CASE TakePending(t)
  <2>1. UNCHANGED <<Free, Claims, Busy>>
    BY <1>6 DEF TakePending, Free, Claims, Busy, Tasks, TypeInv, TypeOK
  <2> QED BY <2>1, <1>1 DEF Conserved
<1>7. CASE Submit(t)
  <2>1. t \in Claims /\ Claims' = Claims \ {t} /\ UNCHANGED Free
    BY <1>7 DEF Submit, Claims, Free, TypeInv, TypeOK
  <2>2. Cardinality(Claims') = Cardinality(Claims) - 1
    BY <2>1, Counts, FS_RemoveElement
  <2>3. PICK c \in Chunk : c = item[t]
    BY <1>7 DEF Submit, Undisturbed
  <2>4. Tasks(c) = 0
    BY <1>3, <2>3, OnePlaceParts DEF AtMostOnePlace, Held
  <2>5. c \notin Busy /\ c \notin workers_done
    BY <2>4, NotBusy
  <2>6. /\ pool' = [d \in Chunk |-> IF d = c THEN pool[d] + 1 ELSE pool[d]]
        /\ UNCHANGED <<sleeping, acts, lost>>
    BY <1>7, <2>3 DEF Submit
  <2>7. Tasks(c)' = 1 /\ \A d \in Chunk \ {c} : Tasks(d)' = Tasks(d)
    BY <2>4, <2>6 DEF Tasks, TypeInv, TypeOK
  <2>8. Busy' = Busy \cup {c}
    BY <1>1, <2>5, <2>7 DEF Busy
  <2>9. Cardinality(Busy') = Cardinality(Busy) + 1
    BY <2>5, <2>8, BusyAdd
  <2>10. Free \in Nat
    BY <1>2 DEF Free
  <2> QED BY <2>1, <2>2, <2>9, <2>10, <1>1, <1>2, Counts, GrantedType DEF Conserved
<1>8. CASE GiveUp(t)
  <2>1. t[1] > starts
    BY <1>8 DEF GiveUp, Undisturbed, Thread
  <2> QED BY <2>1, <1>8 DEF GiveUp, Undisturbed
<1> QED BY <1>4, <1>5, <1>6, <1>7, <1>8 DEF ThreadStep

\* A task, its activation, the monitor.
LEMMA SlotsTask ==
    ASSUME TypeInv, OnePlace, BackedAll, Conserved, NEW c \in Chunk,
           TaskStep(c) \/ EndActivation(c) \/ Crash(c) \/ GenerateToken(c)
    PROVE  Conserved'
<1> USE DEF clientVars, queueVars, threadVars, taskVars, cloudVars, monitorVars, TypeInv, TypeOK
<1>1. UNCHANGED <<running, Claims, Granted>>
  BY DEF TaskStep, Accept, Refuse, InvokeRaises, Requeue, EndActivation, Crash, GenerateToken, Claims, Granted
<1>2. running \in Nat /\ tokens \in Nat /\ owed \in Nat
  OBVIOUS
<1>3. CASE Accept(c)
  <2>1. \A d \in Chunk : Tasks(d)' = Tasks(d)
    BY <1>3 DEF Accept, Tasks
  <2>2. UNCHANGED <<Free, Busy>>
    BY <1>3, <2>1 DEF Accept, Free, Busy
  <2> QED BY <2>2, <1>1 DEF Conserved
<1>4. CASE Refuse(c)
  <2>1. \A d \in Chunk : Tasks(d)' = Tasks(d)
    BY <1>4 DEF Refuse, Tasks
  <2>2. UNCHANGED <<Free, Busy>>
    BY <1>4, <2>1 DEF Refuse, Free, Busy
  <2> QED BY <2>2, <1>1 DEF Conserved
<1>8. CASE InvokeRaises(c)
  <2>2. \A d \in Chunk : Tasks(d)' = Tasks(d)
    BY <1>8 DEF InvokeRaises, Tasks
  <2>3. UNCHANGED <<Free, Busy>>
    BY <1>8, <2>2 DEF InvokeRaises, Free, Busy
  <2> QED BY <2>3, <1>1 DEF Conserved
<1>5. CASE Requeue(c)
  <2>1. Tasks(c) = 1 /\ acts[c] = 0
    BY <1>5, OnePlaceParts DEF Requeue, AtMostOnePlace, Tasks
  <2>2. c \notin workers_done
    BY <2>1 DEF BackedAll, Backed
  <2>3. c \in Busy
    BY <2>1, <2>2 DEF Busy
  <2>4. Tasks(c)' = 0 /\ \A d \in Chunk \ {c} : Tasks(d)' = Tasks(d)
    BY <2>1, <1>5 DEF Requeue, Tasks
  <2>5. Busy' = Busy \ {c}
    BY <2>4, <1>5 DEF Requeue, Busy
  <2>6. Cardinality(Busy') = Cardinality(Busy) - 1
    BY <2>3, <2>5, BusyRemove
  <2>7. Free' = Free + 1 /\ Free \in Nat
    BY <1>2, <1>5 DEF Requeue, Free
  <2> QED BY <1>1, <1>2, <2>6, <2>7, Counts, GrantedType DEF Conserved
<1>6. CASE EndActivation(c) \/ Crash(c)
  <2>1. UNCHANGED <<Free, Busy>>
    BY <1>6 DEF EndActivation, Crash, Free, Busy, Tasks
  <2> QED BY <2>1, <1>1 DEF Conserved
<1>7. CASE GenerateToken(c)
  <2>1. c \in ended /\ c \notin workers_done
    BY <1>7 DEF GenerateToken, FinishedWorkers
  <2>2. c \in Busy
    BY <2>1 DEF Busy, Tasks, BackedAll, Backed
  <2>3. Busy' = Busy \ {c}
    BY <1>7 DEF GenerateToken, Busy, Tasks
  <2>4. Cardinality(Busy') = Cardinality(Busy) - 1
    BY <2>2, <2>3, BusyRemove
  <2>5. Free' = Free + 1 /\ Free \in Nat
    BY <1>2, <1>7 DEF GenerateToken, Free
  <2> QED BY <1>1, <1>2, <2>4, <2>5, Counts, GrantedType DEF Conserved
<1> QED BY <1>3, <1>4, <1>5, <1>6, <1>7, <1>8 DEF TaskStep

\* The start of the threads gives one slot to each.
LEMMA SlotsBegin ==
    ASSUME TypeInv, Undisturbed, Conserved, BeginJob
    PROVE  Conserved'
<1>1. UNCHANGED Busy
  BY DEF BeginJob, Busy, Tasks, taskVars, cloudVars, monitorVars
<1>2. CASE should_run
  <2>1. UNCHANGED <<Free, Claims, Granted, running>>
    BY <1>2 DEF BeginJob, Free, Claims, Granted, taskVars
  <2> QED BY <1>1, <2>1 DEF Conserved
<1>3. CASE ~should_run
  <2>1. running' = running /\ Free' = Free + ASYNC_INVOKERS /\ Free \in Nat
    BY <1>3 DEF BeginJob, Free, taskVars, TypeInv, TypeOK, Undisturbed
  <2>2. \A s \in Thread : s[1] \in Nat
    BY DEF Thread
  <2>3. UNCHANGED Claims
    <3>1. \A s \in Thread : tpc[s] = "off"
      BY <1>3, <2>2 DEF Undisturbed, Thread
    <3>2. \A s \in Thread : tpc'[s] \in {"off", "head"}
      BY <1>3, <3>1 DEF BeginJob
    <3> QED BY <3>1, <3>2 DEF Claims
  <2>4. starts = 0 /\ starts' = 1
    BY <1>3 DEF BeginJob, Undisturbed
  <2>5. Granted = 0 /\ Granted' = ASYNC_INVOKERS
    BY <2>4 DEF Granted
  <2>6. running \in Nat
    BY DEF TypeInv, TypeOK
  <2> QED BY <1>1, <2>1, <2>3, <2>5, <2>6, Counts DEF Conserved
<1> QED BY <1>2, <1>3

LEMMA SlotsStep ==
    ASSUME stops' = 0, TypeInv, OnePlace, BackedAll, Undisturbed, Conserved, [Next]_vars
    PROVE  Conserved'
<1> USE DEF clientVars, queueVars, threadVars, taskVars, cloudVars, monitorVars
<1>1. CASE BeginJob
  BY <1>1, SlotsBegin
<1>2. CASE InvokeDirect
  BY <1>2, SlotsDirect
<1>3. CASE CollectToken
  <2>1. UNCHANGED Claims /\ UNCHANGED Busy /\ UNCHANGED Granted
    BY <1>3 DEF CollectToken, Claims, Busy, Tasks, Granted
  <2>2. running' = running - 1 /\ Free' = Free - 1 /\ running \in Nat /\ Free \in Nat
    BY <1>3 DEF CollectToken, Free, TypeInv, TypeOK
  <2>3. Cardinality(Claims) \in Nat /\ Cardinality(Busy) \in Nat /\ Granted \in Nat
    BY Counts, GrantedType
  <2> QED BY <2>1, <2>2, <2>3 DEF Conserved
<1>4. CASE QueueRest \/ Register \/ UNCHANGED vars
  <2>1. UNCHANGED <<Free, Claims, Busy, Granted, running>>
    BY <1>4 DEF QueueRest, Register, Free, Claims, Busy, Tasks, Granted, vars
  <2> QED BY <2>1 DEF Conserved
<1>5. CASE Stop \/ Drain \/ EndDrain \/ PutDollar \/ PutNone \/ Remove
  BY <1>5 DEF Stop, Drain, EndDrain, PutDollar, PutNone, Remove, Undisturbed, TypeInv, TypeOK
<1>6. CASE \E t \in Thread : ThreadStep(t)
  BY <1>6, SlotsThread
<1>7. CASE \E c \in Chunk : TaskStep(c) \/ EndActivation(c) \/ Crash(c) \/ GenerateToken(c)
  BY <1>7, SlotsTask
<1>8. CASE ReturnToken
  <2>1. UNCHANGED <<Claims, Busy, Granted, running>>
    BY <1>8 DEF ReturnToken, Claims, Busy, Tasks, Granted
  <2>2. UNCHANGED Free
    BY <1>8 DEF ReturnToken, Free, TypeInv, TypeOK
  <2> QED BY <2>1, <2>2 DEF Conserved
<1> QED
  BY <1>1, <1>2, <1>3, <1>4, <1>5, <1>6, <1>7, <1>8 DEF Next, ClientStep

LEMMA SlotsInit == Init => Conserved
<1> SUFFICES ASSUME Init
             PROVE  Conserved
  OBVIOUS
<1>1. Claims = {} /\ Busy = {}
  BY DEF Init, Claims, Busy, Tasks
<1>2. Free = 0 /\ Granted = 0 /\ running = 0
  BY DEF Init, Free, Granted
<1> QED BY <1>1, <1>2, FS_EmptySet DEF Conserved

\* What has a slot, and has not forfeited it, uses it.
LEMMA BusySplit ==
    ASSUME TypeInv, OnePlace, BackedAll
    PROVE  /\ Cardinality(Busy) = Cardinality(InUse) + Cardinality(Forfeited)
           /\ Cardinality(InUse) \in Nat /\ Cardinality(Forfeited) \in Nat
<1>1. Forfeited \subseteq Chunk /\ Busy \subseteq Chunk
  BY DEF Forfeited, Busy, TypeInv, TypeOK
<1>2. \A c \in Chunk : lost[c] > 0 => Tasks(c) > 0 /\ c \notin workers_done
  <2> SUFFICES ASSUME NEW c \in Chunk, lost[c] > 0
               PROVE  Tasks(c) > 0 /\ c \notin workers_done
    OBVIOUS
  <2>1. acts[c] = 0 /\ Tasks(c) = 1
    BY OnePlaceParts DEF AtMostOnePlace, Tasks, TypeInv, TypeOK
  <2> QED BY <2>1 DEF BackedAll, Backed
<1>3. \A c \in Chunk : acts[c] > 0 => Tasks(c) > 0
  BY DEF Tasks, TypeInv, TypeOK
<1>4. Forfeited \subseteq Busy
  BY <1>1, <1>2, <1>3 DEF Forfeited, Busy, BackedAll, Backed
<1>5. InUse = Busy \ Forfeited
  BY DEF InUse, Busy
<1>6. IsFiniteSet(Forfeited) /\ IsFiniteSet(InUse)
  BY <1>1, <1>5, ChunkFinite, FS_Subset
<1>7. Busy = InUse \cup Forfeited /\ InUse \cap Forfeited = {}
  BY <1>4, <1>5
<1>8. Cardinality(Busy) = Cardinality(InUse) + Cardinality(Forfeited) - Cardinality({})
  BY <1>6, <1>7, FS_Union
<1> QED BY <1>6, <1>8, FS_EmptySet, FS_CardinalityType

\* The inductive invariant, part of which holds until the first stop.
SlotInv ==
    /\ TypeInv /\ OnePlace /\ BackedAll
    /\ stops = 0 => Undisturbed /\ Conserved

LEMMA SlotInvariant == Spec => []SlotInv
<1>1. Init => SlotInv
  BY TypeInit, PlaceInit, BackedInit, UndisturbedInit, SlotsInit DEF SlotInv
<1>2. SlotInv /\ [Next]_vars => SlotInv'
  <2> SUFFICES ASSUME SlotInv, [Next]_vars
               PROVE  SlotInv'
    OBVIOUS
  <2>1. TypeInv' /\ OnePlace' /\ BackedAll'
    BY TypeStep, PlaceStep, BackedStep DEF SlotInv
  <2>2. stops' = 0 => stops = 0
    BY DEF Next, vars, bounds, ClientStep, ThreadStep, TaskStep, BeginJob, CollectToken,
         InvokeDirect, QueueRest, Register, Stop, Drain, EndDrain, PutDollar, PutNone,
         Remove, LoopTest, TakeToken, TakePending, Submit, GiveUp, Accept, Refuse, InvokeRaises,
         Requeue, EndActivation, Crash, GenerateToken, ReturnToken, SlotInv, TypeInv, TypeOK
  <2>3. stops' = 0 => Undisturbed' /\ Conserved'
    BY <2>2, UndisturbedStep, SlotsStep DEF SlotInv
  <2> QED BY <2>1, <2>3 DEF SlotInv
<1> QED BY <1>1, <1>2, PTL DEF Spec

\* Until the first stop every worker slot is accounted for, through submission,
\* collection of tokens, refusals, calls that raise, killed workers and the
\* monitor, and only what Forfeited names is lost, for any number of each.
THEOREM SlotsKept == Spec => []SlotsConserved
<1>1. SlotInv => SlotsConserved
  <2> SUFFICES ASSUME SlotInv, stops = 0
               PROVE  tokens + owed + Cardinality(Claims) + Cardinality(InUse)
                        + Cardinality(Forfeited) = running + Granted
    BY DEF SlotsConserved, Granted
  <2>1. Free + Cardinality(Claims) + Cardinality(Busy) = running + Granted
    BY DEF SlotInv, Conserved
  <2>2. tokens \in Nat /\ owed \in Nat
    BY DEF SlotInv, TypeInv, TypeOK
  <2> QED BY <2>1, <2>2, BusySplit, Counts DEF SlotInv, Free
<1> QED BY <1>1, SlotInvariant, PTL

-----------------------------------------------------------------------------
(* The activation pool. *)

\* A chunk that the backend is about to accept finds room for it: its slot is
\* one of those granted, and so is that of every activation that runs.
LEMMA RoomToActivate ==
    ASSUME MaxStops = 0, SlotInv, NEW c \in Chunk, pool[c] > 0
    PROVE  /\ acts[c] = 0
           /\ Cardinality({d \in Chunk : live[d] > 0}) < MaxWorkers + ASYNC_INVOKERS
<1> DEFINE active == {d \in Chunk : live[d] > 0}
<1> USE DEF SlotInv, TypeInv, TypeOK
<1>1. Tasks(c) = 1 /\ acts[c] = 0
  BY OnePlaceParts DEF AtMostOnePlace, Tasks
<1>2. c \in Busy /\ c \notin active
  BY <1>1 DEF Busy, BackedAll, Backed
<1>3. active \subseteq Busy
  BY DEF Busy, Tasks, BackedAll, Backed
<1>4. active \subseteq Busy \ {c}
  BY <1>2, <1>3
<1> HIDE DEF active
<1>5. IsFiniteSet(Busy \ {c}) /\ Cardinality(Busy \ {c}) = Cardinality(Busy) - 1
  BY <1>2, Counts, FS_RemoveElement
<1>6. Cardinality(active) <= Cardinality(Busy) - 1 /\ Cardinality(active) \in Nat
  BY <1>4, <1>5, FS_Subset, FS_CardinalityType
<1>7. stops = 0 /\ (starts = 0 \/ starts = 1)
  BY DEF StartsBounded
<1>8. Granted <= ASYNC_INVOKERS /\ Granted \in Nat
  BY <1>7 DEF Granted
<1>9. Free \in Nat /\ running \in Nat /\ running <= MaxWorkers
  BY DEF Free
<1>10. Cardinality(Busy) <= MaxWorkers + ASYNC_INVOKERS
  BY <1>7, <1>8, <1>9, Counts DEF Conserved
<1>11. Cardinality(active) < MaxWorkers + ASYNC_INVOKERS
  BY <1>6, <1>10, Counts
<1> QED BY <1>1, <1>11 DEF active

LEMMA PoolCardinality == \A T : Pool!Cardinality(T) = Cardinality(T)
BY DEF Pool!Cardinality, Cardinality

\* Each step of the invoker is a step of the pool or leaves it alone.
LEMMA PoolStep ==
    ASSUME MaxStops = 0, SlotInv, [Next]_vars
    PROVE  [Pool!Next]_(Pool!vars)
<1> USE DEF clientVars, queueVars, threadVars, taskVars, cloudVars, monitorVars
<1>0. acts \in [Chunk -> Nat] /\ live \in [Chunk -> Nat]
  BY DEF SlotInv, TypeInv, TypeOK
<1>1. CASE UNCHANGED <<acts, live>>
  BY <1>1 DEF Pool!vars
<1>2. ASSUME NEW c \in Chunk, Accept(c)
      PROVE  Pool!Next
  <2>1. /\ acts[c] = 0
        /\ Cardinality({d \in Chunk : live[d] > 0}) < MaxWorkers + ASYNC_INVOKERS
    BY <1>2, RoomToActivate DEF Accept
  <2>2. {d \in Chunk : acts'[d] > 0} = {d \in Chunk : acts[d] > 0} \cup {c}
    BY <1>0, <1>2 DEF Accept
  <2>3. {d \in Chunk : live'[d] > 0} = {d \in Chunk : live[d] > 0} \cup {c}
    BY <1>0, <1>2 DEF Accept
  <2>4. c \notin {d \in Chunk : acts[d] > 0}
    BY <2>1
  <2>5. Pool!Activate(c)
    BY <2>1, <2>2, <2>3, <2>4, PoolCardinality DEF Pool!Activate
  <2> QED BY <2>5 DEF Pool!Next
<1>3. ASSUME NEW c \in Chunk, EndActivation(c) \/ Crash(c)
      PROVE  Pool!Next
  <2>1. live[c] = 1
    BY <1>3, OnePlaceParts
       DEF EndActivation, Crash, SlotInv, BackedAll, Backed, AtMostOnePlace, Tasks, TypeInv, TypeOK
  <2>2. live' = [live EXCEPT ![c] = @ - 1] /\ acts' = acts
    BY <1>3 DEF EndActivation, Crash
  <2>3. {d \in Chunk : live'[d] > 0} = {d \in Chunk : live[d] > 0} \ {c}
    BY <1>0, <2>1, <2>2
  <2> QED BY <2>1, <2>2, <2>3 DEF Pool!Next, Pool!Leave
<1> QED
  BY <1>1, <1>2, <1>3
     DEF Next, vars, ClientStep, ThreadStep, TaskStep, BeginJob, CollectToken,
         InvokeDirect, QueueRest, Register, Stop, Drain, EndDrain, PutDollar, PutNone, Remove, LoopTest,
         TakeToken, TakePending, Submit, GiveUp, Refuse, InvokeRaises, Requeue, GenerateToken, ReturnToken

\* An executor that is never stopped implements the activation pool: at most
\* max_workers activations and one per invoker thread run at a time, each for
\* a chunk that was not activated before.
THEOREM PoolImplemented == MaxStops = 0 => (Spec => PoolSpec)
<1> SUFFICES ASSUME MaxStops = 0
             PROVE  Spec => PoolSpec
  OBVIOUS
<1>1. Init => Pool!Init
  BY DEF Init, Pool!Init
<1>2. SlotInv /\ [Next]_vars => [Pool!Next]_(Pool!vars)
  BY PoolStep
<1> QED BY <1>1, <1>2, SlotInvariant, PTL DEF Spec, PoolSpec, Pool!Spec

=============================================================================
