--------------------------- MODULE ServerlessRuntime ---------------------------
(***************************************************************************)
(* The life of a runtime on the serverless backends: deployment, at the    *)
(* first invocation or by `lithops runtime deploy`; update and deletion by *)
(* `lithops runtime`; `lithops clean`; and the metadata in the object      *)
(* store, on a client's disk and in its memory that tell an invoker that   *)
(* the runtime is deployed.  Several clients work at the same time.  Every *)
(* call to the cloud may fail, also after it has been carried out, and a   *)
(* client may die between two calls.                                       *)
(*                                                                         *)
(* What a backend does is a table of steps, one for each call that reads   *)
(* or changes the cloud.  A step has the form [do, k, skip]: what it does, *)
(* the kind of resource, and for "look" and "try" how many steps are left  *)
(* out, for a step in a try statement how far on its finally clause is, -1 *)
(* for the last one of the clause, after which the exception goes on.      *)
(* The default runtime, whose image or package every deployment builds, is *)
(* deployed in several memory sizes; the clients work in one directory.    *)
(* The cloud is external.                                                  *)
(***************************************************************************)
EXTENDS Integers, Sequences, FiniteSets

CONSTANTS Backends,     \* the backends of this instance
          Clients,      \* the machines from which Lithops is used
          Mem,          \* the memory sizes of the runtime
          MaxOps,       \* bound on the operations before everybody cleans
          MaxFaults     \* bound on failing calls and deaths of clients

ASSUME BoundsAssumption ==
  /\ Backends \subseteq {"aws_lambda", "aws_batch", "aliyun_fc", "azure_functions",
       "azure_containers", "gcp_functions", "gcp_cloudrun", "ibm_cf", "oracle_f",
       "openwhisk", "code_engine", "knative", "k8s", "singularity"}
  /\ Mem \subseteq Nat \ {0} /\ {MaxOps, MaxFaults} \subseteq Nat
  /\ Clients # {} /\ Mem # {}

VARIABLES
  backend,    \* the backend in use
  cloud,      \* the resources that exist, and the files of the directory
  meta,       \* the metadata in the object store
  disk,       \* the metadata in the local files of a client
  memo,       \* RUNTIME_META_CACHE of a client's process
  proc,       \* what a client does
  token,      \* the runtime whose URL and token a client has (gcp_cloudrun)
  held,       \* clients whose invocation mutex will never be released
  removed,    \* history: the runtimes deleted, or lost by a failed redeployment
  alone,      \* history: the clients that nobody has worked beside
  erred,      \* history: the clients whose operation met a failing call
  ops, faults,
  leaver      \* the phase of the last user, who cleans and deploys again

runtimeVars == <<backend, cloud, meta, disk, memo, proc, token, held,
                 removed, alone, erred, ops, faults, leaver>>

\* The names of an azure_functions app and the keys of the metadata of k8s and
\* singularity do not depend on the memory.
OneName == {"azure_functions", "k8s", "singularity"}
Key(m) == IF backend \in OneName THEN 0 ELSE m
Keys == Mem \cup {0}

\* One per runtime, or one for all.
PerRuntime ==
  CASE backend = "azure_containers" -> {"function", "queue", "reply"}
    [] backend = "gcp_functions" -> {"function", "topic"}
    [] backend = "code_engine" -> {"function", "map", "reply"}
    [] backend = "aws_batch" -> {"function", "second"}
    [] OTHER -> {"function"}
Res(k, m) == [kind |-> k, key |-> IF k \in PerRuntime THEN Key(m) ELSE 0]
Function(key) == [kind |-> "function", key |-> key]
Deployed(key) == Function(key) \in cloud
HasFunction == backend \notin {"k8s", "singularity"}

-----------------------------------------------------------------------------
(* The tables: build_runtime.                                              *)

S(d, k) == [do |-> d, k |-> k, skip |-> 0]
Skip(d, k, n) == [do |-> d, k |-> k, skip |-> n]
Last(d, k) == [do |-> d, k |-> k, skip |-> -1]

\* The handler is zipped in the working directory.
CreateHandlerZip(n) == << Skip("put", "zip", n) >>
\* The image is built with the zip, and with the Dockerfile of the default runtime,
\* a file of the same directory and fate; then they are removed.
ImageBuild ==
  CreateHandlerZip(2)
    \o << Skip("need", "zip", 1), Last("drop!", "zip") >>
\* It is pushed to the registry after a login.
ImagePush == << S("put", "image") >>

\* The repository is made unless there is one.
EcrRepository == << S("put", "repository"), S("put", "image") >>
AwsLambdaBuild == ImageBuild \o EcrRepository
AwsBatchBuild == ImageBuild \o EcrRepository
\* The function is zipped anew; the zip stays.
AliyunBuild == << S("drop", "zip"), S("put", "zip") >>
\* The directory of all builds is removed, and the function made in it.
AzureFunctionsBuild ==
  << S("drop", "package"), S("put", "package"), S("need", "package") >>
AzureContainersBuild == ImageBuild \o ImagePush
GcpFunctionsBuild == CreateHandlerZip(0)
GcpCloudrunBuild == ImageBuild \o ImagePush
IbmCfBuild == ImagePush
OracleBuild == ImageBuild \o ImagePush
OpenwhiskBuild == ImagePush
CodeEngineBuild == ImageBuild \o ImagePush
KnativeBuild == ImageBuild \o ImagePush
K8sBuild == ImageBuild \o ImagePush
\* The image is a file.
SingularityBuild ==
  CreateHandlerZip(3)
    \o << Skip("need", "zip", 2), Skip("put", "image", 1), Last("drop!", "zip") >>

\* The default runtime of aws_lambda, ibm_cf and openwhisk is no image of this kind.
Build ==
  [aws_lambda |-> AwsLambdaBuild, aws_batch |-> AwsBatchBuild, aliyun_fc |-> AliyunBuild,
   azure_functions |-> AzureFunctionsBuild, azure_containers |-> AzureContainersBuild,
   gcp_functions |-> GcpFunctionsBuild, gcp_cloudrun |-> GcpCloudrunBuild,
   ibm_cf |-> IbmCfBuild, oracle_f |-> OracleBuild, openwhisk |-> OpenwhiskBuild,
   code_engine |-> CodeEngineBuild, knative |-> KnativeBuild, k8s |-> K8sBuild,
   singularity |-> SingularityBuild]

-----------------------------------------------------------------------------
(* deploy_runtime.                                                         *)

\* _create_layer has a function of its own, deleted when it has built the layer
\* or failed, after the zip of that function.
AwsLambdaLayer ==
  << Skip("look", "layer", 7), S("put", "layer_zip"), S("need", "layer_zip"),
     Skip("new", "builder", 2), Skip("need", "builder", 1), S("drop!", "layer_zip"),
     Last("drop", "builder"), S("put", "layer") >>
AwsLambdaHandlerBin == << S("put", "zip"), S("need", "zip"), S("drop!", "zip") >>
AwsLambdaMeta == << S("need", "function") >>
\* A function that exists is left as it is.
AwsLambdaDeploy ==
  AwsLambdaLayer \o AwsLambdaHandlerBin
    \o << S("put", "function"), S("need", "function") >> \o AwsLambdaMeta

\* What exists must be enabled; two job definitions of one name are an error.
AwsBatchEnv == << S("enabled", "env"), Skip("look", "env", 1), S("new", "env") >>
AwsBatchQueue == << S("enabled", "queue"), Skip("look", "queue", 1), S("new", "queue") >>
AwsBatchJobDef ==
  << S("one", "function"), Skip("look", "function", 1), S("register", "function") >>
AwsBatchMeta == << S("need", "queue"), S("ask", "function"), S("take", "reply") >>
AwsBatchDeploy == AwsBatchBuild \o AwsBatchEnv \o AwsBatchQueue \o AwsBatchJobDef \o AwsBatchMeta

AliyunExists == << S("drop", "function") >>
AliyunCreate == << S("need", "zip"), S("new", "function") >>
AliyunMeta == << S("need", "function") >>
AliyunDeploy == AliyunBuild \o AliyunExists \o AliyunCreate \o AliyunMeta

\* What is in the directory of the build is published: nothing when it is gone.
AzureFunctionsPublish == << S("publish", "function") >>
AzureFunctionsQueue == << S("fresh", "queue") >>
AzureFunctionsCreate ==
  << Skip("look", "function", 1), S("put", "function"), S("need", "function") >>
    \o AzureFunctionsPublish \o AzureFunctionsQueue
\* The answer comes by a queue that is read until there is one, and emptied.
AzureFunctionsMeta == << S("need", "queue"), S("ask", "function"), S("wait", "reply") >>
\* Mutant: the queues are emptied when the question has been asked.
AzureFunctionsDeployEmpties ==
  AzureFunctionsBuild \o AzureFunctionsCreate
    \o << S("ask", "function"), S("fresh", "queue"), S("wait", "reply") >>
AzureFunctionsDeploy == AzureFunctionsBuild \o AzureFunctionsCreate \o AzureFunctionsMeta

AzureContainersCreate == << S("fresh", "queue"), S("put", "function") >>
AzureContainersMeta == << S("need", "queue"), S("ask", "function"), S("take", "reply") >>
AzureContainersDeploy == AzureContainersBuild \o AzureContainersCreate \o AzureContainersMeta

\* The trigger is pub/sub, the default.
GcpFunctionsCreate ==
  << S("drop", "topic"), S("new", "topic"), S("drop", "function"), S("new", "function") >>
GcpFunctionsAsk == << S("need", "topic"), S("ask", "function"), S("take", "reply") >>
\* The metadata is asked for twice.
GcpFunctionsMeta == GcpFunctionsAsk \o GcpFunctionsAsk
GcpFunctionsDeploy ==
  GcpFunctionsBuild
    \o << Skip("need", "zip", 2), Skip("put", "bin", 1), Last("drop!", "zip") >>
    \o GcpFunctionsCreate \o GcpFunctionsMeta

\* A service that exists is deleted and created again.
GcpCloudrunCreate ==
  << Skip("try", "function", 2), S("drop?", "function"), S("new", "function"),
     S("need", "function") >>
GcpCloudrunMeta == << S("token", "function"), S("need", "function") >>
GcpCloudrunDeploy == GcpCloudrunBuild \o GcpCloudrunCreate \o GcpCloudrunMeta

\* The client of OpenWhisk logs the error of a package it cannot create.
IbmCfNamespace == << S("put", "namespace") >>
IbmCfMeta == << S("need", "function") >>
IbmCfDeploy ==
  IbmCfNamespace \o << S("put?", "package") >> \o CreateHandlerZip(0)
    \o << Skip("need", "zip", 3), Skip("need", "package", 2), Skip("put", "function", 1),
          Last("drop!", "zip") >>
    \o IbmCfMeta

OracleMeta == << S("need", "function"), S("need", "function") >>
OracleDeploy ==
  OracleBuild \o
  << Skip("look", "app", 1), S("new", "app"), Skip("look", "function", 1),
     S("new", "function") >> \o OracleMeta

OpenwhiskMeta == << S("need", "function") >>
OpenwhiskDeploy ==
  << S("put?", "package") >> \o CreateHandlerZip(0)
    \o << Skip("need", "zip", 3), Skip("need", "package", 2), Skip("put", "function", 1),
          Last("drop!", "zip") >>
    \o OpenwhiskMeta

CodeEngineProject == << Skip("look", "project", 1), S("new", "project") >>
CodeEngineSecret == << S("drop", "secret"), S("put", "secret") >>
CodeEngineJobDef == CodeEngineSecret \o << S("drop", "function"), S("new", "function") >>
CodeEngineConfigMap == << S("put", "map") >>
\* The run that writes the metadata has one name for all, and is waited for by
\* its name; it is deleted also after an error.
CodeEngineMeta ==
  CodeEngineConfigMap \o
  << S("drop?", "run"), Skip("run", "function", 2), S("await", "run"),
     S("drop?", "run"), Last("drop?", "map"), S("take", "reply") >>
CodeEngineDeploy == CodeEngineProject \o CodeEngineBuild \o CodeEngineJobDef \o CodeEngineMeta

KnativeSecret == << S("drop?", "secret"), S("put", "secret") >>
KnativeCreate == << S("drop?", "function"), S("new", "function") >>
KnativeMeta == << S("need", "function") >>
KnativeDeploy == KnativeBuild \o KnativeSecret \o KnativeCreate \o KnativeMeta

K8sSecret == << S("drop?", "secret"), S("put", "secret") >>
\* A job of one name for all writes the metadata; it is deleted also when it failed.
K8sMeta ==
  << S("drop?", "run"), S("new", "run"), Skip("await", "run", 1), Last("drop?", "run"),
     S("take", "reply") >>
\* Nothing is deployed.
K8sDeploy == K8sBuild \o K8sSecret \o K8sMeta

\* The queue is declared when the backend is made; the workers read it.
SingularityMeta == << S("ask", "queue"), S("take", "reply") >>
SingularityDeploy == << S("put", "queue") >> \o SingularityBuild \o SingularityMeta

Deploy ==
  [aws_lambda |-> AwsLambdaDeploy, aws_batch |-> AwsBatchDeploy,
   aliyun_fc |-> AliyunDeploy, azure_functions |-> AzureFunctionsDeploy,
   azure_containers |-> AzureContainersDeploy, gcp_functions |-> GcpFunctionsDeploy,
   gcp_cloudrun |-> GcpCloudrunDeploy, ibm_cf |-> IbmCfDeploy,
   oracle_f |-> OracleDeploy, openwhisk |-> OpenwhiskDeploy,
   code_engine |-> CodeEngineDeploy, knative |-> KnativeDeploy, k8s |-> K8sDeploy,
   singularity |-> SingularityDeploy]

\* A function that exists is deleted before the new one is made.
Replacing == {"aliyun_fc", "gcp_functions", "gcp_cloudrun", "code_engine", "knative"}

-----------------------------------------------------------------------------
(* delete_runtime and clean (without --all): for one runtime, and after.   *)

AwsLambdaDeleteLayer == << S("drop", "layer") >>
AwsLambdaDeleteFunction == << S("drop!", "function") >>
AwsLambdaDelete == AwsLambdaDeleteFunction \o AwsLambdaDeleteLayer
AwsBatchDelete == << S("one", "function"), S("drop!", "function") >>
AliyunDelete == AliyunExists
AzureFunctionsDelete == << S("drop!", "function"), S("drop?", "queue") >>
AzureContainersDelete == << S("drop!", "function"), S("drop?", "queue") >>
GcpFunctionsDelete == << S("drop", "function"), S("drop", "topic"), S("drop", "bin") >>
GcpCloudrunDelete == << S("drop?", "function") >>
IbmCfDelete == << S("drop?", "function") >>
OracleDelete == << S("drop", "function") >>
OpenwhiskDelete == << S("drop?", "function") >>
CodeEngineDelete == << S("drop?", "function") >>
KnativeDelete == << S("drop?", "function") >>

Delete ==
  [aws_lambda |-> AwsLambdaDelete, aws_batch |-> AwsBatchDelete,
   aliyun_fc |-> AliyunDelete, azure_functions |-> AzureFunctionsDelete,
   azure_containers |-> AzureContainersDelete, gcp_functions |-> GcpFunctionsDelete,
   gcp_cloudrun |-> GcpCloudrunDelete, ibm_cf |-> IbmCfDelete,
   oracle_f |-> OracleDelete, openwhisk |-> OpenwhiskDelete,
   code_engine |-> CodeEngineDelete, knative |-> KnativeDelete, k8s |-> << >>,
   singularity |-> << >>]

\* clean() does something for each runtime of the list, and then the rest.
ForEach(steps) ==
  <<S("list", "all")>> \o steps \o <<S("next", "function")>>

AwsLambdaClean == ForEach(AwsLambdaDeleteFunction) \o AwsLambdaDeleteLayer

\* Mutant: only one of them is found.
AwsBatchCleanDefsOne == ForEach(<< S("drop!", "function") >>)
\* Both job definitions of a name are in the list.
AwsBatchCleanDefs == ForEach(<< S("drop!", "function"), S("drop", "function") >>)
\* Mutant: what has been disabled is not deleted.
AwsBatchCleanRestDisables == << S("off", "queue"), S("off", "env") >>
AwsBatchCleanRest ==
  << S("off", "queue"), S("drop", "queue_off"), S("off", "env"), S("drop", "env_off") >>
AwsBatchClean == AwsBatchCleanDefs \o AwsBatchCleanRest

AliyunClean == ForEach(<< S("drop!", "function") >>)
AzureFunctionsClean == ForEach(AzureFunctionsDelete) \o << S("drop?", "queue") >>
AzureContainersClean == ForEach(AzureContainersDelete)
GcpFunctionsClean == ForEach(GcpFunctionsDelete)
GcpCloudrunClean == ForEach(GcpCloudrunDelete)
\* The actions are deleted until there are none, and then the package.
IbmCfClean == ForEach(<< S("purge", "function") >>) \o << S("drop?", "package") >>
OracleClean == ForEach(<< S("drop!", "function") >>)
OpenwhiskClean == ForEach(<< S("purge", "function") >>) \o << S("drop?", "package") >>
CodeEngineCleanMaps == << S("clear?", "map") >>
CodeEngineClean == ForEach(CodeEngineDelete) \o CodeEngineCleanMaps
KnativeClean == ForEach(KnativeDelete)
\* A job that has not completed, because it runs or has failed, is left.
K8sClean == << S("sweep?", "run") >>
SingularityClean == << S("drop", "queue") >>

Clean ==
  [aws_lambda |-> AwsLambdaClean, aws_batch |-> AwsBatchClean, aliyun_fc |-> AliyunClean,
   azure_functions |-> AzureFunctionsClean, azure_containers |-> AzureContainersClean,
   gcp_functions |-> GcpFunctionsClean, gcp_cloudrun |-> GcpCloudrunClean,
   ibm_cf |-> IbmCfClean, oracle_f |-> OracleClean, openwhisk |-> OpenwhiskClean,
   code_engine |-> CodeEngineClean, knative |-> KnativeClean, k8s |-> K8sClean,
   singularity |-> SingularityClean]

-----------------------------------------------------------------------------
(* invoke().                                                               *)

AwsLambdaInvoke == << S("need", "function") >>
AwsBatchInvoke == << S("need", "queue"), S("need", "function") >>
AliyunInvoke == << S("need", "function") >>
AzureFunctionsInvoke == << S("need", "queue") >>
AzureContainersInvoke == << S("need", "queue") >>
GcpFunctionsInvoke == << S("need", "topic") >>
GcpCloudrunInvoke == << S("token", "function"), S("need", "function") >>
\* An action that is missing is deployed again, by a thread that holds the mutex
\* which the deployment takes.
IbmCfInvoke == IbmCfNamespace \o << S("redeploy", "function") >>
OracleInvoke == << S("need", "app"), S("need", "function") >>
\* Anything is accepted: the number 404 is taken for the id of an activation.
OpenwhiskInvoke == << S("send", "function") >>
CodeEngineInvoke ==
  CodeEngineProject \o << Skip("look", "function", 4) >> \o CodeEngineJobDef
    \o CodeEngineConfigMap \o << S("need", "function") >>
KnativeInvoke == << S("need", "function") >>
K8sInvoke == << S("send", "run") >>
SingularityInvoke == << S("send", "queue") >>

Invoke ==
  [aws_lambda |-> AwsLambdaInvoke, aws_batch |-> AwsBatchInvoke,
   aliyun_fc |-> AliyunInvoke, azure_functions |-> AzureFunctionsInvoke,
   azure_containers |-> AzureContainersInvoke, gcp_functions |-> GcpFunctionsInvoke,
   gcp_cloudrun |-> GcpCloudrunInvoke, ibm_cf |-> IbmCfInvoke,
   oracle_f |-> OracleInvoke, openwhisk |-> OpenwhiskInvoke,
   code_engine |-> CodeEngineInvoke, knative |-> KnativeInvoke, k8s |-> K8sInvoke,
   singularity |-> SingularityInvoke]

-----------------------------------------------------------------------------
(* What a client runs.                                                     *)

\* Mutant: the metadata are stored before the runtime is deployed.
SelectRuntimeStoresFirst(b) ==
  <<S("select", "meta"), S("store", "full")>> \o Deploy[b] \o <<S("save", "full")>>
\* Deployment only when there are no metadata.
SelectRuntime(b) ==
  <<S("select", "meta")>> \o Deploy[b] \o <<S("store", "full"), S("save", "full")>>
CliBuild(b) == Build[b]
CliDeploy(b) == Deploy[b] \o <<S("store", "full"), S("save", "full")>>
\* The metadata of an update lack the timeout of the runtime.
CliUpdate(b) ==
  <<S("list", "some")>> \o Deploy[b]
    \o <<S("store", "short"), S("save", "short"), S("next", "function")>>
CliDelete(b) ==
  <<S("list", "some")>> \o Delete[b]
    \o <<S("unsave", "meta"), S("unstore", "meta"), S("next", "function")>>
\* The backends whose answers are among the objects of the jobs.
AnswersWithJobs == {"gcp_functions", "code_engine", "k8s", "singularity"}
CliClean(b) ==
  Clean[b] \o <<S("unstore", "all")>>
    \o (IF b \in AnswersWithJobs THEN <<S("clear", "reply")>> ELSE << >>)
    \o <<S("unsave", "all")>>

Programs ==
  [b \in Backends |->
     [invoke |-> SelectRuntime(b) \o Invoke[b], build |-> CliBuild(b), deploy |-> CliDeploy(b),
      update |-> CliUpdate(b), delete |-> CliDelete(b), clean |-> CliClean(b)]]
Program(op) == Programs[backend][op]

Idle == [op |-> "none", at |-> 1, mem |-> 0, todo |-> {}, failing |-> FALSE]
StepOf(c) == Program(proc[c].op)[proc[c].at]
Working(c) == proc[c].op # "none"
Is(c, d) == Working(c) /\ StepOf(c).do = d
Mine(c) == Res(StepOf(c).k, proc[c].mem)
MyKey(c) == Key(proc[c].mem)

\* On by n steps, past the end of a loop that is done, or the end of the operation.
Succeeded(op) == leaver' = CASE leaver = "cleaning" /\ op = "clean" -> "deploying"
                             [] leaver = "deploying" /\ op = "deploy" -> "done"
                             [] OTHER -> leaver
Onward(c, n) ==
  LET to == proc[c].at + n
      steps == Program(proc[c].op)
      past == IF to <= Len(steps) /\ steps[to].do = "next" /\ proc[c].todo = {}
              THEN to + 1 ELSE to
  IN IF past > Len(steps)
       THEN proc' = [proc EXCEPT ![c] = Idle] /\ Succeeded(proc[c].op)
       ELSE proc' = [proc EXCEPT ![c].at = past] /\ UNCHANGED leaver
\* A user asks for the deletion of the runtime.
Deploying(c) == proc[c].op \in {"invoke", "deploy", "update"}
Asked(c) == proc[c].op \in {"delete", "clean"} /\ StepOf(c).k = "function"
            /\ StepOf(c).do \in {"drop", "drop!", "drop?", "purge"}
Noted(c, failed) ==
  removed' = IF /\ Function(MyKey(c)) \notin cloud'
                /\ Asked(c) \/ (failed /\ Deploying(c) /\ backend \in Replacing)
             THEN removed \cup {MyKey(c)} ELSE removed
\* An exception ends the operation.
Raise(c) ==
  /\ proc' = [proc EXCEPT ![c] = Idle]
  /\ leaver' = IF leaver = "deploying" THEN "cleaning" ELSE leaver
  /\ Noted(c, TRUE)

-----------------------------------------------------------------------------
(* The steps.                                                              *)

Reply(m) == Res("reply", m)
Off(k) == k \o "_off"
\* A function app without code does not answer.
Hollow == Res("hollow", 0)

\* A job, or job run, that has completed.
Ran(m) == Res("ran", m)

\* What a deletion takes away.  The answers of azure_functions are in the queue;
\* of two job definitions, one stays.
WithIt(c) ==
  LET m == proc[c].mem
  IN CASE backend = "azure_functions" /\ StepOf(c).k = "queue" -> {Mine(c), Reply(m)}
       [] backend = "azure_functions" /\ StepOf(c).k = "function" -> {Mine(c), Hollow}
       [] backend = "aws_batch" /\ Res("second", m) \in cloud /\ StepOf(c).k = "function" ->
            {Res("second", m)}
       [] StepOf(c).k = "run" -> {Mine(c), Ran(m)}
       [] OTHER -> {Mine(c)}

\* The cloud after a call that has been carried out.
After(c) ==
  LET s == StepOf(c)
      r == Mine(c)
      m == proc[c].mem
  IN CASE s.do \in {"new", "put", "put?", "try"} -> cloud \cup {r}
       [] s.do \in {"drop", "drop!", "drop?", "purge"} -> cloud \ WithIt(c)
       [] s.do = "register" -> cloud \cup {IF r \in cloud THEN Res("second", m) ELSE r}
       [] s.do = "fresh" -> (cloud \ WithIt(c)) \cup {r}
       [] s.do = "publish" -> IF Res("package", m) \in cloud THEN cloud \ {Hollow}
                              ELSE cloud \cup {Hollow}
       [] s.do = "ask" -> IF r \in cloud /\ Hollow \notin cloud THEN cloud \cup {Reply(m)} ELSE cloud
       [] s.do \in {"take", "wait"} -> cloud \ {Reply(m)}
       [] s.do = "run" -> cloud \cup {Res("run", m)}
       [] s.do = "await" -> IF Ran(m) \in cloud THEN cloud ELSE cloud \cup {Reply(m), Ran(m)}
       [] s.do = "sweep?" -> IF Ran(m) \in cloud THEN cloud \ WithIt(c) ELSE cloud
       [] s.do = "off" -> IF r \in cloud THEN (cloud \ {r}) \cup {Res(Off(s.k), m)} ELSE cloud
       [] s.do \in {"clear", "clear?"} -> {q \in cloud : q.kind # s.k}
       [] OTHER -> cloud

\* What makes a call raise.
Refused(c) ==
  LET s == StepOf(c)
      m == proc[c].mem
  IN CASE s.do = "new" -> Mine(c) \in cloud
       [] s.do \in {"need", "drop!", "publish"} -> Mine(c) \notin cloud
       [] s.do = "run" -> Mine(c) \notin cloud \/ Res("run", m) \in cloud
       [] s.do = "enabled" -> Res(Off(s.k), m) \in cloud
       [] s.do = "one" -> Res("second", m) \in cloud
       [] s.do = "take" -> Reply(m) \notin cloud
       [] OTHER -> FALSE

Calls == {"new", "put", "put?", "drop", "drop!", "drop?", "purge", "register", "fresh",
          "ask", "take", "wait", "run", "await", "off", "clear", "clear?", "sweep?", "need", "enabled",
          "one", "send", "publish"}
\* Loops that end only when there is an answer.
Answered(c) == /\ Is(c, "wait") => Reply(proc[c].mem) \in cloud
               /\ Is(c, "await") => Mine(c) \in cloud

\* Where an exception goes: logged and forgotten; kept until the deletions of a
\* finally clause are done; or the call is made again.
Swallowed == {"put?", "drop?", "clear?", "sweep?"}
Finally(c) == StepOf(c).skip > 0 /\ StepOf(c).do \notin {"look", "try"}
CalledAgain(c) == \/ StepOf(c).do \in {"purge", "await"}
                  \/ StepOf(c).do = "put" /\ backend = "azure_containers"

\* An exception in the body of a try with a finally clause.
Keep(c) == /\ proc' = [proc EXCEPT ![c].at = @ + StepOf(c).skip, ![c].failing = TRUE]
           /\ UNCHANGED leaver /\ Noted(c, FALSE)

Proceed(c) ==
  IF proc[c].failing /\ StepOf(c).skip = -1 THEN Raise(c) ELSE Onward(c, 1) /\ Noted(c, FALSE)

Call(c) ==
  /\ Working(c) /\ StepOf(c).do \in Calls /\ Answered(c)
  /\ IF Refused(c)
       THEN /\ UNCHANGED cloud
            /\ IF Finally(c) THEN Keep(c) ELSE Raise(c)
       ELSE cloud' = After(c) /\ Proceed(c)
  /\ UNCHANGED <<meta, disk, memo, token, held, erred, faults>>

\* Something that exists is used, and the steps that make it are left out.
Look(c) ==
  /\ Is(c, "look")
  /\ Onward(c, IF Mine(c) \in cloud THEN 1 + StepOf(c).skip ELSE 1)
  /\ UNCHANGED <<cloud, meta, disk, memo, token, held, removed, erred, faults>>

\* It is made unless it exists.
Try(c) ==
  /\ Is(c, "try")
  /\ cloud' = After(c)
  /\ Onward(c, IF Mine(c) \in cloud THEN 1 ELSE 1 + StepOf(c).skip)
  /\ UNCHANGED <<meta, disk, memo, token, held, removed, erred, faults>>

\* The URL and the token of a service are asked for under a mutex, which an
\* exception leaves locked; a command line has a process of its own.
Session(c) == proc[c].op = "invoke"
GetUrlAndToken(c) ==
  /\ Is(c, "token") /\ (Session(c) => c \notin held)
  /\ UNCHANGED <<cloud, meta, disk, memo, erred, faults>>
  /\ IF (Session(c) /\ token[c] = MyKey(c)) \/ Deployed(MyKey(c))
       THEN /\ token' = IF Session(c) THEN [token EXCEPT ![c] = MyKey(c)] ELSE token
            /\ Onward(c, 1) /\ UNCHANGED <<held, removed>>
       ELSE /\ held' = IF Session(c) THEN held \cup {c} ELSE held
            /\ Raise(c) /\ UNCHANGED token

\* The thread that finds the action missing takes the mutex and waits for itself.
Redeploy(c) ==
  /\ Is(c, "redeploy") /\ c \notin held
  /\ IF Deployed(MyKey(c)) THEN Onward(c, 1) /\ UNCHANGED held
     ELSE held' = held \cup {c} /\ UNCHANGED <<proc, leaver>>
  /\ UNCHANGED <<cloud, meta, disk, memo, token, removed, erred, faults>>

\* The metadata in memory, then on disk, then in the object store.
GetRuntimeMeta(c) ==
  LET k == MyKey(c)
      found == IF memo[c][k] # "none" THEN memo[c][k]
               ELSE IF disk[c][k] # "none" THEN disk[c][k] ELSE meta[k]
  IN /\ Is(c, "select")
     /\ UNCHANGED <<cloud, meta, token, held, erred, faults>>
     /\ memo' = [memo EXCEPT ![c][k] = found]
     /\ disk' = IF memo[c][k] = "none" /\ disk[c][k] = "none"
                THEN [disk EXCEPT ![c][k] = found] ELSE disk
     /\ \/ found = "none" /\ Onward(c, 1) /\ UNCHANGED removed
        \/ found = "full" /\ Onward(c, Len(SelectRuntime(backend))) /\ UNCHANGED removed
        \* The job is made with the timeout of the runtime.
        \/ found = "short" /\ Raise(c)

PutRuntimeMeta(c) ==
  /\ \/ /\ Is(c, "store") /\ meta' = [meta EXCEPT ![MyKey(c)] = StepOf(c).k]
        /\ UNCHANGED disk
        /\ removed' = IF Deployed(MyKey(c)) THEN removed \ {MyKey(c)} ELSE removed
     \/ /\ Is(c, "save") /\ disk' = [disk EXCEPT ![c][MyKey(c)] = StepOf(c).k]
        /\ UNCHANGED <<meta, removed>>
  /\ Onward(c, 1)
  /\ UNCHANGED <<cloud, memo, token, held, erred, faults>>

Chosen(c) == IF StepOf(c).k = "all" THEN Keys ELSE {MyKey(c)}
DeleteRuntimeMeta(c) ==
  /\ \/ Is(c, "unsave") /\ UNCHANGED meta
        /\ disk' = [disk EXCEPT ![c] = [k \in Keys |-> IF k \in Chosen(c) THEN "none" ELSE @[k]]]
     \/ Is(c, "unstore") /\ UNCHANGED disk
        /\ meta' = [k \in Keys |-> IF k \in Chosen(c) THEN "none" ELSE meta[k]]
  /\ Onward(c, 1)
  /\ UNCHANGED <<cloud, memo, token, held, removed, erred, faults>>

-----------------------------------------------------------------------------
(* Lists of runtimes.                                                      *)

\* The Azure backends compare the name with that of the worker, and find none;
\* some list the memory as a string, which is no number the user can give.
NameNotFound == {"azure_functions", "azure_containers"}
MemoryIsString == {"aws_batch", "gcp_cloudrun", "azure_containers", "knative"}
ListRuntimes == {k \in Keys : Deployed(k)}
Listed(c) ==
  IF StepOf(c).k = "all" \/ (proc[c].mem = 0 /\ backend \notin NameNotFound) THEN ListRuntimes
  ELSE IF backend \in NameNotFound \cup MemoryIsString THEN {}
  ELSE ListRuntimes \cap {MyKey(c)}

\* One after another; what follows the loop when there is none.
Each(c, todo) ==
  \E k \in todo :
    proc' = [proc EXCEPT ![c].at = 2, ![c].todo = todo \ {k}, ![c].mem = k] /\ UNCHANGED leaver
EndOfLoop(c) ==
  CHOOSE i \in 1 .. Len(Program(proc[c].op)) : Program(proc[c].op)[i].do = "next"
List(c) ==
  /\ Is(c, "list")
  /\ Each(c, Listed(c)) \/ (Listed(c) = {} /\ Onward(c, EndOfLoop(c) - 1))
  /\ UNCHANGED <<cloud, meta, disk, memo, token, held, removed, erred, faults>>
NextOne(c) ==
  /\ Is(c, "next") /\ Each(c, proc[c].todo)
  /\ UNCHANGED <<cloud, meta, disk, memo, token, held, removed, erred, faults>>

-----------------------------------------------------------------------------
(* Clients.                                                                *)

Fault == faults < MaxFaults /\ faults' = faults + 1
Local == {"list", "next", "save", "unsave", "redeploy"}

\* A call fails, before or after the cloud has carried it out.
FaultyCall(c) ==
  /\ Working(c) /\ StepOf(c).do \notin (Local \ {"list"}) /\ Fault /\ Answered(c)
  /\ (Is(c, "token") /\ Session(c) => c \notin held)
  /\ cloud' \in {cloud} \cup (IF Refused(c) THEN {} ELSE {After(c)})
  /\ held' = IF Is(c, "token") /\ Session(c) THEN held \cup {c} ELSE held
  /\ erred' = erred \cup {c}
  /\ IF StepOf(c).do \in Swallowed THEN Proceed(c)
     ELSE IF Finally(c) THEN Keep(c)
     ELSE IF CalledAgain(c) THEN UNCHANGED <<proc, leaver>> /\ Noted(c, FALSE)
     ELSE Raise(c)
  /\ UNCHANGED <<meta, disk, memo, token>>

NoMeta == [k \in Keys |-> "none"]
\* A new process.
Forget(c) == /\ memo' = [memo EXCEPT ![c] = NoMeta] /\ token' = [token EXCEPT ![c] = 0]
             /\ held' = held \ {c}

\* The process dies.
Die(c) ==
  /\ Working(c) /\ Fault /\ erred' = erred \cup {c}
  /\ UNCHANGED <<cloud, meta, disk>>
  /\ Raise(c)
  /\ IF Session(c) THEN Forget(c) ELSE UNCHANGED <<memo, token, held>>

Step(c) ==
  \/ Call(c) \/ Look(c) \/ Try(c) \/ GetUrlAndToken(c) \/ Redeploy(c)
  \/ GetRuntimeMeta(c) \/ PutRuntimeMeta(c) \/ DeleteRuntimeMeta(c)
  \/ List(c) \/ NextOne(c)
Act(c) == (Step(c) \/ FaultyCall(c) \/ Die(c)) /\ UNCHANGED <<backend, alone, ops>>

\* The job that writes the metadata goes on when its client is gone.
RunEnds(m) ==
  /\ backend \in {"code_engine", "k8s"} /\ Res("run", m) \in cloud /\ Ran(m) \notin cloud
  /\ cloud' = cloud \cup {Reply(m), Ran(m)}
  /\ UNCHANGED <<backend, meta, disk, memo, proc, token, held, removed, alone, erred,
                 ops, faults, leaver>>

User == CHOOSE c \in Clients : TRUE
Begin(c, op, m) ==
  /\ ~Working(c)
  /\ proc' = [proc EXCEPT ![c] = [Idle EXCEPT !.op = op, !.mem = m]]
  /\ alone' = IF \E d \in Clients : Working(d) THEN {} ELSE {c}
  /\ erred' = erred \ {c}
  /\ UNCHANGED <<backend, cloud, meta, disk, removed, faults, leaver>>

\* A user invokes, with the process of before or a new one, or gives a command.
\* Memory 0: the command is given for all sizes.  Bound: the first is the
\* operation of User, alone.
Start(c) ==
  /\ leaver = "none" /\ ops < MaxOps /\ ops' = ops + 1
  /\ ops = 0 => c = User
  /\ ops = 1 => \A d \in Clients : ~Working(d)
  /\ \/ /\ \E m \in Mem : Begin(c, "invoke", m)
        /\ Forget(c) \/ UNCHANGED <<memo, token, held>>
     \/ /\ \/ \E m \in Mem : Begin(c, "deploy", m)
           \/ \E m \in Mem \cup {0} : Begin(c, "delete", m)
           \/ Begin(c, "update", 0)
           \/ Begin(c, "build", 0)
           \/ Begin(c, "clean", 0)
        /\ UNCHANGED <<memo, token, held>>

\* All processes end; one user cleans, and deploys when that has succeeded.
Size == CHOOSE m \in Mem : TRUE
Leave ==
  /\ leaver = "none" /\ leaver' = "cleaning"
  /\ proc' = [c \in Clients |-> Idle] /\ memo' = [c \in Clients |-> NoMeta]
  /\ token' = [c \in Clients |-> 0] /\ held' = {}
  /\ removed' = removed \cup {k \in Keys : ~Deployed(k)}
  /\ erred' = Clients
  /\ UNCHANGED <<backend, cloud, meta, disk, alone, ops, faults>>
Repair ==
  /\ \/ leaver = "cleaning" /\ Begin(User, "clean", 0)
     \/ leaver = "deploying" /\ Begin(User, "deploy", Size)
  /\ UNCHANGED <<memo, token, held, ops>>

RuntimeInit ==
  /\ backend \in Backends
  /\ cloud = {} /\ meta = NoMeta
  /\ disk = [c \in Clients |-> NoMeta] /\ memo = disk
  /\ proc = [c \in Clients |-> Idle]
  /\ token = [c \in Clients |-> 0]
  /\ held = {} /\ removed = {} /\ alone = {} /\ erred = {}
  /\ ops = 0 /\ faults = 0 /\ leaver = "none"

RuntimeNext ==
  \/ Leave \/ Repair
  \/ \E m \in Mem : RunEnds(m)
  \/ \E c \in Clients : Act(c) \/ Start(c)

RuntimeSpec == RuntimeInit /\ [][RuntimeNext]_runtimeVars
\* The calls return, and the user who repairs goes on.
RuntimeFairSpec ==
  RuntimeSpec /\ WF_runtimeVars(Repair)
       /\ \A c \in Clients : WF_runtimeVars(Step(c) /\ UNCHANGED <<backend, alone, ops>>)

-----------------------------------------------------------------------------
(* Properties.                                                             *)

\* The variables have their types.
RuntimeTypeOK ==
  /\ backend \in Backends /\ leaver \in {"none", "cleaning", "deploying", "done"}
  /\ meta \in [Keys -> {"none", "full", "short"}]
  /\ {disk[c] : c \in Clients} \cup {memo[c] : c \in Clients} \subseteq [Keys -> {"none", "full", "short"}]
  /\ {removed} \subseteq SUBSET Keys /\ held \cup alone \cup erred \subseteq Clients
  /\ \A c \in Clients : Working(c) => proc[c].at \in 1 .. Len(Program(proc[c].op))
                                   /\ proc[c].mem \in Keys /\ token[c] \in Keys
  /\ ops \in 0 .. MaxOps /\ faults \in 0 .. MaxFaults

\* While somebody holds metadata of a runtime, in the object store, on a disk or
\* in memory, the runtime is deployed, unless a user has deleted it since, or a
\* redeployment that replaces it is on its way or has failed; and the image from
\* which its workers are started has been made.
Known(k) == meta[k] # "none" \/ \E c \in Clients : disk[c][k] # "none" \/ memo[c][k] # "none"
HasImage == backend \in {"aws_batch", "azure_containers", "gcp_cloudrun", "oracle_f",
                         "code_engine", "knative", "k8s", "singularity"}
MetadataMeansDeployed ==
  \A k \in Keys : Known(k) =>
    /\ HasImage => Res("image", k) \in cloud
    /\ (HasFunction /\ k \notin removed /\ ~Deployed(k))
         => backend \in Replacing /\ \E c \in Clients : Deploying(c) /\ MyKey(c) = k

\* What is built is not deleted, nor what clean() loses sight of after a failure, nor
\* a job for metadata that has not completed when clean() looks at it.
Built == {"zip", "layer_zip", "package", "repository", "image", "hollow"}
MayStay ==
  CASE backend = "aws_lambda" -> {"builder"}
    [] backend = "aws_batch" -> {"reply"}
    [] backend = "azure_containers" -> {"queue", "reply"}
    [] backend = "gcp_functions" -> {"topic", "bin"}
    [] backend = "ibm_cf" -> {"namespace"}
    [] backend = "oracle_f" -> {"app"}
    [] backend = "code_engine" -> {"project", "secret", "run", "ran", "reply"}
    [] backend = "knative" -> {"secret"}
    [] backend = "k8s" -> {"secret", "run", "ran", "reply"}
    [] OTHER -> {}
\* A `lithops clean` that works alone and meets no error leaves nothing of the
\* runtimes, and no metadata that would send an invocation to them.
CleanIsComplete ==
  [][ \A c \in alone \ erred' :
        proc[c].op = "clean" /\ proc[c].at = Len(CliClean(backend)) /\ proc'[c].op = "none"
          => /\ \A r \in cloud' : r.kind \in MayStay \cup Built
             /\ meta' = NoMeta /\ disk'[c] = NoMeta ]_runtimeVars

\* Operations end: again and again nobody is in one.  (Two deployments at a time may
\* wait for ever on azure_functions, k8s and code_engine, where one takes the answer or
\* deletes the job of the other; the mutex of gcp_cloudrun and ibm_cf is never released
\* after an invocation that met a missing runtime or an error.)  Their number is
\* bounded, so one that does not end would be all that goes on in the end.
OperationsEnd ==
  []<>(\A c \in Clients :
         \/ ~Working(c) \/ c \in held
         \/ c \notin alone /\ backend \in {"azure_functions", "k8s", "code_engine"})

\* Whatever happened, a user left alone who repeats `lithops clean` until it
\* succeeds, and then deploys, has a runtime in the end, which answers.  (Who has
\* begun to clean is never at "none" again, and who is done stops.)
RuntimeRestored == []<>(leaver = "none" \/ (leaver = "done" /\ Hollow \notin cloud))

=============================================================================
