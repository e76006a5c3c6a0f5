---------------------------- MODULE StorageBackends ----------------------------
(***************************************************************************)
(* What the thirteen storage backends make of the operations of Storage:   *)
(* for each method, the requests it consists of and what it does with a    *)
(* request that fails, as a record of traits.  JobData gives them meaning. *)
(*                                                                         *)
(*   create  by: "look" and make, "try" to make, "none" at all             *)
(*   put     by: one "request", a "file", or a "pipeline" of commands      *)
(*   get     by: one "request", or "exists" and download                   *)
(*           zero: what an object of no bytes gives                        *)
(*           range: what a range of an object that is not there gives      *)
(*   upload  by: the backend's own "put", or a "request" of the library    *)
(*   download  file: opened "first", before the object, or "last"          *)
(*   head    gone: what an object that is not there gives                  *)
(*   delete  n: keys per request, gone: what a key that is not there does, *)
(*           none: what an empty list of keys does                         *)
(*   list    by: all "pages", one "page", the "whole" at once, a "walk"    *)
(*           sizes: where list_objects takes the sizes from                *)
(*                                                                         *)
(* "fails" is the set of outcomes of a failing request: the method raises, *)
(* tries "again", goes on as if it had been carried out ("lost"), says     *)
(* that there is no such key, or gives the text of the error as data.      *)
(***************************************************************************)

Raises == {"raises"}

---------------------------------------------------------------------------
(* AWS S3; IBM COS, Ceph and MinIO use the same interface, and repeat a    *)
(* request whose answer does not come in time up to five times.            *)

AwsS3Create == [by |-> "look", fails |-> Raises]
AwsS3Put == [by |-> "request", fails |-> Raises]
AwsS3Get == [by |-> "request", zero |-> "data", range |-> "nokey", fails |-> Raises]
AwsS3Upload == [by |-> "request", fails |-> {"false", "raises"}]
AwsS3Download == [file |-> "last", fails |-> {"false", "raises"}]
AwsS3Head == [gone |-> "nokey", fails |-> Raises]
AwsS3Delete == [n |-> "page", gone |-> "passes", none |-> "passes", fails |-> {"raises", "lost"}]
AwsS3ListObjects == [by |-> "pages", sizes |-> "listed"]
AwsS3ListKeys == [by |-> "pages"]

Repeated == {"again"}

IbmCosCreate == AwsS3Create
IbmCosPut == [AwsS3Put EXCEPT !.fails = Raises \cup Repeated]
IbmCosGet == [AwsS3Get EXCEPT !.fails = Raises \cup Repeated]
IbmCosUpload == AwsS3Upload
IbmCosDownload == AwsS3Download
IbmCosHead == [AwsS3Head EXCEPT !.fails = Raises \cup Repeated]
IbmCosDelete == AwsS3Delete
IbmCosListObjects == AwsS3ListObjects
IbmCosListKeys == AwsS3ListKeys

CephCreate == AwsS3Create
CephPut == IbmCosPut
CephGet == IbmCosGet
CephUpload == AwsS3Upload
CephDownload == AwsS3Download
CephHead == IbmCosHead
CephDelete == AwsS3Delete
CephListObjects == AwsS3ListObjects
CephListKeys == AwsS3ListKeys

MinioCreate == AwsS3Create
MinioPut == IbmCosPut
MinioGet == IbmCosGet
MinioUpload == AwsS3Upload
MinioDownload == AwsS3Download
MinioHead == IbmCosHead
MinioDelete == AwsS3Delete
MinioListObjects == AwsS3ListObjects
MinioListKeys == AwsS3ListKeys

---------------------------------------------------------------------------
(* Azure Blob Storage.  A batch with a blob that is gone raises when the   *)
(* others have been deleted.                                               *)

AzureCreate == [by |-> "try", fails |-> Raises]
AzurePut == [by |-> "request", fails |-> Raises]
AzureGet == [by |-> "request", zero |-> "data", range |-> "nokey", fails |-> Raises]
AzureUpload == [by |-> "put", fails |-> {"false"}]
AzureDownload == [file |-> "first", fails |-> {"false"}]
AzureHead == [gone |-> "raises", fails |-> Raises]
AzureDelete == [n |-> "page", gone |-> "raises", none |-> "passes", fails |-> Raises]
AzureListObjects == [by |-> "pages", sizes |-> "listed"]
AzureListKeys == [by |-> "pages"]

---------------------------------------------------------------------------
(* Google Cloud Storage.  get_object() looks before it downloads, and      *)
(* delete_blobs() ends at the first blob that is gone.                     *)

GcpCreate == [by |-> "look", fails |-> Raises]
GcpPut == [by |-> "request", fails |-> Raises \cup Repeated]
GcpGet == [by |-> "exists", zero |-> "data", range |-> "nokey", fails |-> Raises]
GcpUpload == [by |-> "put", fails |-> {"false"}]
GcpDownload == [file |-> "first", fails |-> {"false"}]
GcpHead == [gone |-> "nokey", fails |-> Raises]
GcpDelete == [n |-> "one", gone |-> "ends", none |-> "passes", fails |-> Raises]
GcpListObjects == [by |-> "pages", sizes |-> "listed"]
GcpListKeys == [by |-> "pages"]

---------------------------------------------------------------------------
(* Aliyun OSS lists one page of a thousand keys; the library refuses an    *)
(* empty list of keys to delete.                                           *)

AliyunCreate == [by |-> "look", fails |-> Raises]
AliyunPut == [by |-> "request", fails |-> Raises]
AliyunGet == [by |-> "request", zero |-> "data", range |-> "nokey", fails |-> Raises]
AliyunUpload == [by |-> "put", fails |-> {"false"}]
AliyunDownload == [file |-> "first", fails |-> {"false"}]
AliyunHead == [gone |-> "nokey", fails |-> Raises]
AliyunDelete == [n |-> "all", gone |-> "passes", none |-> "raises", fails |-> Raises]
AliyunListObjects == [by |-> "page", sizes |-> "listed"]
AliyunListKeys == [by |-> "page"]

---------------------------------------------------------------------------
(* Oracle Object Storage: list_keys() reads all pages, list_objects() one. *)

OracleCreate == [by |-> "try", fails |-> {"lost"}]
OraclePut == [by |-> "request", fails |-> Raises]
OracleGet == [by |-> "request", zero |-> "data", range |-> "nokey", fails |-> Raises]
OracleUpload == [by |-> "request", fails |-> {"false"}]
OracleDownload == [file |-> "first", fails |-> {"false"}]
OracleHead == [gone |-> "nokey", fails |-> {"nokey"}]
OracleDelete == [n |-> "one", gone |-> "raises", none |-> "passes", fails |-> Raises]
OracleListObjects == [by |-> "page", sizes |-> "listed"]
OracleListKeys == [by |-> "pages"]

---------------------------------------------------------------------------
(* OpenStack Swift: errors of put_object() are printed and forgotten, and  *)
(* every error of a get is "no such key".                                  *)

SwiftCreate == [by |-> "none", fails |-> {}]
SwiftPut == [by |-> "request", fails |-> {"lost"}]
SwiftGet == [by |-> "request", zero |-> "data", range |-> "nokey", fails |-> {"nokey"}]
SwiftUpload == [by |-> "put", fails |-> {"false"}]
SwiftDownload == [file |-> "first", fails |-> {"false"}]
SwiftHead == [gone |-> "nokey", fails |-> {"nokey"}]
SwiftDelete == [n |-> "all", gone |-> "passes", none |-> "passes", fails |-> {"raises", "lost"}]
SwiftListObjects == [by |-> "page", sizes |-> "listed"]
SwiftListKeys == [by |-> "page"]

---------------------------------------------------------------------------
(* Infinispan, by REST and by Hot Rod.  The REST backend does not look at  *)
(* the status of an answer, and takes an empty one for a missing key.      *)

InfinispanCreate == [by |-> "none", fails |-> {}]
InfinispanPut == [by |-> "request", fails |-> {"raises", "lost"}]
InfinispanGet == [by |-> "request", zero |-> "nokey", range |-> "nokey", fails |-> {"raises", "text"}]
InfinispanUpload == [by |-> "put", fails |-> {"false"}]
InfinispanDownload == [file |-> "first", fails |-> {"false"}]
InfinispanHead == [gone |-> "nokey", fails |-> {"raises", "text"}]
InfinispanDelete == [n |-> "one", gone |-> "passes", none |-> "passes", fails |-> {"raises", "lost"}]
InfinispanListObjects == [by |-> "whole", sizes |-> "get"]
InfinispanListKeys == [by |-> "whole"]

HotrodCreate == InfinispanCreate
HotrodPut == [by |-> "request", fails |-> Raises]
HotrodGet == [by |-> "request", zero |-> "data", range |-> "nokey", fails |-> Raises]
HotrodUpload == InfinispanUpload
HotrodDownload == InfinispanDownload
HotrodHead == [gone |-> "nokey", fails |-> Raises]
HotrodDelete == [n |-> "one", gone |-> "passes", none |-> "passes", fails |-> Raises]
HotrodListObjects == [by |-> "whole", sizes |-> "twice"]
HotrodListKeys == [by |-> "whole"]

---------------------------------------------------------------------------
(* Redis: an object is a string, and a directory a set of names.           *)

RedisCreate == [by |-> "none", fails |-> {}]
RedisPut == [by |-> "pipeline", fails |-> Raises]
RedisGet == [by |-> "request", zero |-> "data", range |-> "empty", fails |-> Raises]
RedisUpload == [by |-> "put", fails |-> {"false"}]
RedisDownload == [file |-> "first", fails |-> {"false"}]
RedisHead == [gone |-> "nokey", fails |-> Raises]
RedisDelete == [n |-> "pipeline", gone |-> "passes", none |-> "raises", fails |-> Raises]
RedisListObjects == [by |-> "walk", sizes |-> "values"]
RedisListKeys == [by |-> "walk"]

---------------------------------------------------------------------------
(* The file system of localhost: an object is a file.                      *)

LocalhostCreate == [by |-> "none", fails |-> {}]
LocalhostPut == [by |-> "file", fails |-> Raises]
LocalhostGet == [by |-> "request", zero |-> "data", range |-> "nokey", fails |-> {"nokey"}]
LocalhostUpload == [by |-> "put", fails |-> {"false"}]
LocalhostDownload == [file |-> "first", fails |-> {"false"}]
LocalhostHead == [gone |-> "nokey", fails |-> Raises]
LocalhostDelete == [n |-> "file", gone |-> "passes", none |-> "passes", fails |-> {"lost"}]
LocalhostListObjects == [by |-> "walk", sizes |-> "stat"]
LocalhostListKeys == [by |-> "walk"]

---------------------------------------------------------------------------
(* Storage loads the backend of its configuration and hands over to it.    *)

Traits(create, put, get, upload, download, head, delete, listObjects, listKeys) ==
  [create |-> create, put |-> put, get |-> get, upload |-> upload, download |-> download,
   head |-> head, delete |-> delete, listObjects |-> listObjects, listKeys |-> listKeys]

Storage ==
  [aws_s3 |-> Traits(AwsS3Create, AwsS3Put, AwsS3Get, AwsS3Upload, AwsS3Download,
     AwsS3Head, AwsS3Delete, AwsS3ListObjects, AwsS3ListKeys),
   ibm_cos |-> Traits(IbmCosCreate, IbmCosPut, IbmCosGet, IbmCosUpload, IbmCosDownload,
     IbmCosHead, IbmCosDelete, IbmCosListObjects, IbmCosListKeys),
   ceph |-> Traits(CephCreate, CephPut, CephGet, CephUpload, CephDownload,
     CephHead, CephDelete, CephListObjects, CephListKeys),
   minio |-> Traits(MinioCreate, MinioPut, MinioGet, MinioUpload, MinioDownload,
     MinioHead, MinioDelete, MinioListObjects, MinioListKeys),
   azure_storage |-> Traits(AzureCreate, AzurePut, AzureGet, AzureUpload, AzureDownload,
     AzureHead, AzureDelete, AzureListObjects, AzureListKeys),
   gcp_storage |-> Traits(GcpCreate, GcpPut, GcpGet, GcpUpload, GcpDownload,
     GcpHead, GcpDelete, GcpListObjects, GcpListKeys),
   aliyun_oss |-> Traits(AliyunCreate, AliyunPut, AliyunGet, AliyunUpload, AliyunDownload,
     AliyunHead, AliyunDelete, AliyunListObjects, AliyunListKeys),
   oracle_oss |-> Traits(OracleCreate, OraclePut, OracleGet, OracleUpload, OracleDownload,
     OracleHead, OracleDelete, OracleListObjects, OracleListKeys),
   swift |-> Traits(SwiftCreate, SwiftPut, SwiftGet, SwiftUpload, SwiftDownload,
     SwiftHead, SwiftDelete, SwiftListObjects, SwiftListKeys),
   infinispan |-> Traits(InfinispanCreate, InfinispanPut, InfinispanGet, InfinispanUpload,
     InfinispanDownload, InfinispanHead, InfinispanDelete, InfinispanListObjects,
     InfinispanListKeys),
   infinispan_hotrod |-> Traits(HotrodCreate, HotrodPut, HotrodGet, HotrodUpload,
     HotrodDownload, HotrodHead, HotrodDelete, HotrodListObjects, HotrodListKeys),
   redis |-> Traits(RedisCreate, RedisPut, RedisGet, RedisUpload, RedisDownload,
     RedisHead, RedisDelete, RedisListObjects, RedisListKeys),
   localhost |-> Traits(LocalhostCreate, LocalhostPut, LocalhostGet, LocalhostUpload,
     LocalhostDownload, LocalhostHead, LocalhostDelete, LocalhostListObjects,
     LocalhostListKeys)]
=============================================================================
