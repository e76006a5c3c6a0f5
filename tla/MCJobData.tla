------------------------------- MODULE MCJobData -------------------------------
(* Instances of JobData for TLC. *)
EXTENDS JobData

ASSUME SameTraits == Storage.ceph = Storage.ibm_cos /\ Storage.minio = Storage.ibm_cos

(* Every backend (ceph and minio have the traits of ibm_cos), when the     *)
(* executor is new and one thing happens besides, on redis, which takes    *)
(* more steps, nothing, on oracle_oss also two (a call of the user that    *)
(* fails); with a job that ran before, on backends that list by pages, by  *)
(* one page and at once.                                                   *)
AllStarts ==
  [backend : DOMAIN Storage \ {"ceph", "minio", "redis"}, earlier : {{}}, extras : {1}]
    \cup [backend : {"redis"}, earlier : {{}}, extras : {0}]
    \cup [backend : {"oracle_oss"}, earlier : {{}}, extras : {2}]
    \cup [backend : {"aws_s3", "aliyun_oss", "infinispan"}, earlier : {{"B"}}, extras : {0}]
BeforeAndNow == <<"B", "A">>

=============================================================================
