-------------------------- MODULE MCServerlessRuntime --------------------------
(* Instances of ServerlessRuntime for TLC. *)
EXTENDS ServerlessRuntime

AllBackends == {"aws_lambda", "aws_batch", "aliyun_fc", "azure_functions",
  "azure_containers", "gcp_functions", "gcp_cloudrun", "ibm_cf", "oracle_f",
  "openwhisk", "code_engine", "knative", "k8s", "singularity"}
=============================================================================
