----------------------------- MODULE MCVMBackend -----------------------------
(* Instances of VMBackend for TLC. *)
EXTENDS VMBackend

AllBackends == {"aws_ec2", "ibm_vpc", "gcp_compute_engine", "azure_vms"}
=============================================================================
