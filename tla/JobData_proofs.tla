----------------------------- MODULE JobData_proofs -----------------------------
EXTENDS JobData, TLAPS, FiniteSetTheorems, WellFoundedInduction, SequenceTheorems

\* What a job has in the store, and the key of one part of it.
Parts == {"init", "output", "status", "data"}
JobKey(j, what) == <<"jobs", j, what>>

\* The jobs in the order of their names.
LEMMA JobOrderType ==
  /\ Len(JobOrder) \in Nat /\ DOMAIN JobOrder = 1 .. Len(JobOrder)
  /\ \A i \in 1 .. Len(JobOrder) : JobOrder[i] \in Jobs
  /\ \A j \in Jobs : \E i \in 1 .. Len(JobOrder) : JobOrder[i] = j
  /\ Job \in Jobs
BY NamesAssumption, BoundsAssumption, LenProperties, ElementOfSeq DEF Jobs, Range

\* The order of the keys: four of each job, the function, the key of the user.
LEMMA KeyOrderIs ==
  /\ DOMAIN KeyOrder = 1 .. 4 * Len(JobOrder) + 2
  /\ \A i \in 1 .. 4 * Len(JobOrder) :
       KeyOrder[i] = JobKeys(JobOrder[(i + 3) \div 4])[((i + 3) % 4) + 1]
  /\ KeyOrder[4 * Len(JobOrder) + 1] = FuncKey
  /\ KeyOrder[4 * Len(JobOrder) + 2] = UserKey
PROOF
<1> DEFINE N == 4 * Len(JobOrder)
           f == [i \in 1 .. N |-> JobKeys(JobOrder[(i + 3) \div 4])[((i + 3) % 4) + 1]]
           S == {f[i] : i \in 1 .. N} \cup {FuncKey, UserKey}
           t == <<FuncKey, UserKey>>
<1>1. N \in Nat
  BY JobOrderType
<1>2. f \in Seq(S)
  <2> HIDE DEF S
  <2>1. \A i \in 1 .. N : f[i] \in S
    BY DEF S
  <2> QED
    BY <1>1, <2>1, IsASeq
<1>3. t \in Seq(S)
  BY IsASeq DEF S
<1>4. Len(f) = N /\ Len(t) = 2
  BY <1>1, <1>2
<1>5. KeyOrder = f \o t
  BY DEF KeyOrder
<1> HIDE DEF f, t, S
<1>6. /\ DOMAIN (f \o t) = 1 .. N + 2
      /\ \A i \in 1 .. N : (f \o t)[i] = f[i]
      /\ (f \o t)[N + 1] = t[1] /\ (f \o t)[N + 2] = t[2]
  <2>1. /\ f \o t \in Seq(S) /\ Len(f \o t) = N + 2
        /\ \A i \in 1 .. N + 2 : (f \o t)[i] = IF i <= N THEN f[i] ELSE t[i - N]
    <3>1. /\ f \o t \in Seq(S) /\ Len(f \o t) = Len(f) + Len(t)
          /\ \A i \in 1 .. Len(f) + Len(t) :
               (f \o t)[i] = IF i <= Len(f) THEN f[i] ELSE t[i - Len(f)]
      BY <1>2, <1>3, ConcatProperties, Zenon
    <3> QED
      BY <1>4, <3>1
  <2> HIDE DEF N
  <2>2. DOMAIN (f \o t) = 1 .. N + 2
    BY ONLY <2>1, LenProperties
  <2> QED
    BY ONLY <1>1, <2>1, <2>2
<1> QED
  BY <1>1, <1>5, <1>6 DEF f, t

\* All keys.
LEMMA KeysAre ==
  Keys = {JobKey(j, w) : j \in Jobs, w \in Parts} \cup {FuncKey, UserKey}
PROOF
<1> DEFINE N == Len(JobOrder)
<1>0. /\ N \in Nat
      /\ \A j : JobKeys(j)[1] = JobKey(j, "init") /\ JobKeys(j)[2] = JobKey(j, "output")
               /\ JobKeys(j)[3] = JobKey(j, "status") /\ JobKeys(j)[4] = JobKey(j, "data")
  BY JobOrderType DEF JobKeys, JobKey, CallKey, DataKey
<1>1. ASSUME NEW k \in Keys
      PROVE  k \in {JobKey(j, w) : j \in Jobs, w \in Parts} \cup {FuncKey, UserKey}
  <2>1. PICK i \in 1 .. 4 * N + 2 : k = KeyOrder[i]
    BY <1>1, KeyOrderIs DEF Keys, Range
  <2>2. CASE i \in 1 .. 4 * N
    <3> DEFINE m == (i + 3) \div 4
               w == ((i + 3) % 4) + 1
    <3>1. m \in 1 .. N /\ w \in {1, 2, 3, 4}
      BY <1>0, <2>2
    <3>2. k = JobKeys(JobOrder[m])[w]
      BY <2>1, <2>2, KeyOrderIs
    <3>3. JobOrder[m] \in Jobs
      BY <3>1, JobOrderType
    <3> HIDE DEF m, w
    <3> QED
      BY <1>0, <3>1, <3>2, <3>3 DEF Parts
  <2>3. CASE i \in {4 * N + 1, 4 * N + 2}
    BY <2>1, <2>3, KeyOrderIs
  <2> QED
    BY <1>0, <2>1, <2>2, <2>3
<1>2. ASSUME NEW j \in Jobs, NEW w \in Parts
      PROVE  JobKey(j, w) \in Keys
  <2>1. PICK m \in 1 .. N : JobOrder[m] = j
    BY JobOrderType
  <2>2. PICK t \in {1, 2, 3, 4} : JobKey(j, w) = JobKeys(j)[t]
    BY <1>0 DEF Parts
  <2> DEFINE i == 4 * (m - 1) + t
  <2>3. i \in 1 .. 4 * N /\ (i + 3) \div 4 = m /\ ((i + 3) % 4) + 1 = t
    BY <1>0
  <2>4. KeyOrder[i] = JobKey(j, w)
    BY <2>1, <2>2, <2>3, KeyOrderIs
  <2>5. i \in DOMAIN KeyOrder
    BY <1>0, <2>3, KeyOrderIs
  <2> HIDE DEF i
  <2> QED
    BY <2>4, <2>5 DEF Keys, Range
<1>3. {FuncKey, UserKey} \subseteq Keys
  <2>1. 4 * N + 1 \in DOMAIN KeyOrder /\ 4 * N + 2 \in DOMAIN KeyOrder
    BY <1>0, KeyOrderIs
  <2> QED
    BY <2>1, KeyOrderIs DEF Keys, Range
<1> QED
  BY <1>1, <1>2, <1>3

\* Keys have places in the order.
LEMMA PlaceNat == \A k \in Keys : Place[k] \in Nat
PROOF
<1> SUFFICES ASSUME NEW k \in Keys
             PROVE  Place[k] \in Nat
  OBVIOUS
<1>1. \E i \in DOMAIN KeyOrder : KeyOrder[i] = k
  BY DEF Keys, Range
<1>2. Place[k] \in DOMAIN KeyOrder
  BY <1>1 DEF Place
<1> QED
  BY <1>2, KeyOrderIs, JobOrderType

\* There are finitely many.
LEMMA KeysFinite == IsFiniteSet(Keys)
PROOF
<1> DEFINE D == 1 .. 4 * Len(JobOrder) + 2
<1>1. IsFiniteSet(D)
  BY JobOrderType, FS_Interval
<1>2. Keys = {KeyOrder[i] : i \in D}
  BY KeyOrderIs DEF Keys, Range
<1> HIDE DEF D
<1>3. KeyOrder \in Surjection(D, Keys)
  <2>1. DOMAIN KeyOrder = D
    BY KeyOrderIs DEF D
  <2>2. KeyOrder = [i \in D |-> KeyOrder[i]]
    BY <2>1, JobOrderType DEF KeyOrder
  <2> QED
    BY <1>2, <2>2 DEF Surjection
<1> QED
  BY <1>1, <1>3, FS_Surjection

\* The directories of a key, which are its proper prefixes.
LEMMA DirsAre ==
  /\ \A j, w : Dirs(JobKey(j, w)) = {<<"jobs">>, <<"jobs", j>>}
  /\ Dirs(FuncKey) = {<<"jobs">>, <<"jobs", Executor>>}
  /\ Dirs(UserKey) = {}
PROOF
<1>1. ASSUME NEW j, NEW w
      PROVE  Dirs(<<"jobs", j, w>>) = {<<"jobs">>, <<"jobs", j>>}
  <2> DEFINE k == <<"jobs", j, w>>
  <2>1. Len(k) = 3 /\ 1 .. (Len(k) - 1) = {1, 2}
    OBVIOUS
  <2>2. SubSeq(k, 1, 1) = <<"jobs">> /\ SubSeq(k, 1, 2) = <<"jobs", j>>
    <3> DEFINE S == {"jobs", j, w}
    <3>1. k \in Seq(S)
      OBVIOUS
    <3>2. /\ SubSeq(k, 1, 1) \in Seq(S) /\ Len(SubSeq(k, 1, 1)) = 1 /\ SubSeq(k, 1, 1)[1] = k[1]
          /\ SubSeq(k, 1, 2) \in Seq(S) /\ Len(SubSeq(k, 1, 2)) = 2
          /\ SubSeq(k, 1, 2)[1] = k[1] /\ SubSeq(k, 1, 2)[2] = k[2]
      BY <2>1, <3>1, SubSeqProperties
    <3>3. ASSUME NEW u \in Seq(S), Len(u) = 1, u[1] = "jobs"
          PROVE  u = <<"jobs">>
      BY <3>3, SeqEqual
    <3>4. ASSUME NEW u \in Seq(S), Len(u) = 2, u[1] = "jobs", u[2] = j
          PROVE  u = <<"jobs", j>>
      BY <3>4, SeqEqual
    <3>5. k[1] = "jobs" /\ k[2] = j
      OBVIOUS
    <3> HIDE DEF k
    <3> QED
      BY <3>2, <3>3, <3>4, <3>5
  <2> QED
    BY <2>1, <2>2 DEF Dirs
<1>2. Len(UserKey) = 1 /\ 1 .. (Len(UserKey) - 1) = {}
  BY DEF UserKey
<1> QED
  BY <1>1, <1>2 DEF Dirs, JobKey, FuncKey

\* The directory of a job, and those who have one.
JobDir(j) == <<"jobs", j>>
Owners == Jobs \cup {Executor}

\* Keys and directories of different parts of the store are different.
LEMMA Distinct ==
  /\ \A i, j : JobDir(i) = JobDir(j) => i = j
  /\ \A i, j, v, w : JobKey(i, v) = JobKey(j, w) => i = j /\ v = w
  /\ \A j : JobDir(j) # <<"jobs">>
  /\ \A j, w : JobKey(j, w) # UserKey /\ JobKey(j, w) # <<"jobs">> /\ JobKey(j, w) # <<>>
  /\ \A i, j, w : JobKey(j, w) # JobDir(i)
  /\ FuncKey = JobKey(Executor, "func") /\ UserKey # <<"jobs">> /\ UserKey # <<>>
  /\ \A j : UserKey # JobDir(j)
  /\ Executor \notin Jobs
PROOF
<1>1. \A j, w : Len(JobKey(j, w)) = 3 /\ Len(JobDir(j)) = 2
  BY DEF JobKey, JobDir
<1>2. Len(UserKey) = 1 /\ Len(<<"jobs">>) = 1 /\ Len(<<>>) = 0 /\ UserKey[1] = "user" /\ <<"jobs">>[1] = "jobs"
  BY DEF UserKey
<1>3. \A j, w : JobKey(j, w)[2] = j /\ JobKey(j, w)[3] = w /\ JobDir(j)[2] = j
  BY DEF JobKey, JobDir
<1>4. FuncKey = JobKey(Executor, "func") /\ Executor \notin Jobs
  BY NamesAssumption DEF JobKey, FuncKey
<1> QED
  BY <1>1, <1>2, <1>3, <1>4

\* The directories of the store and what is under them.
LEMMA UnderIs ==
  /\ DOMAIN Under = {<<"jobs">>} \cup {JobDir(j) : j \in Owners}
  /\ \A d \in DOMAIN Under : Under[d] = {k \in Keys : d \in Dirs(k)}
PROOF
<1>1. DOMAIN Under = UNION {Dirs(k) : k \in Keys}
  BY DEF Under
<1>2. \A d \in DOMAIN Under : Under[d] = {k \in Keys : d \in Dirs(k)}
  BY DEF Under
<1>3. ASSUME NEW d \in UNION {Dirs(k) : k \in Keys}
      PROVE  d \in {<<"jobs">>} \cup {JobDir(j) : j \in Owners}
  <2>1. PICK k \in Keys : d \in Dirs(k)
    OBVIOUS
  <2> QED
    BY <2>1, KeysAre, DirsAre DEF JobDir, Owners
<1>4. ASSUME NEW d \in {<<"jobs">>} \cup {JobDir(j) : j \in Owners}
      PROVE  \E k \in Keys : d \in Dirs(k)
  <2>1. FuncKey \in Keys /\ \A j \in Jobs : JobKey(j, "data") \in Keys
    BY KeysAre DEF Parts
  <2> QED
    BY <2>1, DirsAre DEF JobDir, Owners
<1> QED
  BY <1>1, <1>2, <1>3, <1>4

\* What is under the directories of the jobs and of the executor.
LEMMA UnderJob ==
  /\ \A d \in DOMAIN Under : Under[d] \subseteq Keys
  /\ \A j \in Jobs : JobDir(j) \in DOMAIN Under /\ Under[JobDir(j)] = {JobKey(j, w) : w \in Parts}
  /\ JobDir(Executor) \in DOMAIN Under /\ Under[JobDir(Executor)] = {FuncKey}
  /\ <<"jobs">> \in DOMAIN Under
PROOF
<1>1. \A d \in DOMAIN Under : Under[d] \subseteq Keys
  BY UnderIs
<1>2. ASSUME NEW j \in Jobs
      PROVE  JobDir(j) \in DOMAIN Under /\ Under[JobDir(j)] = {JobKey(j, w) : w \in Parts}
  <2>1. JobDir(j) \in DOMAIN Under
    BY UnderIs DEF Owners
  <2>2. \A i, w : JobDir(j) \in Dirs(JobKey(i, w)) <=> i = j
    BY DirsAre, Distinct DEF JobDir
  <2>3. JobDir(j) \notin Dirs(FuncKey) /\ JobDir(j) \notin Dirs(UserKey)
    BY DirsAre, Distinct DEF JobDir
  <2> QED
    BY <2>1, <2>2, <2>3, UnderIs, KeysAre
<1>3. JobDir(Executor) \in DOMAIN Under /\ Under[JobDir(Executor)] = {FuncKey}
  <2>1. JobDir(Executor) \in DOMAIN Under
    BY UnderIs DEF Owners
  <2>2. \A i \in Jobs, w \in Parts : JobDir(Executor) \notin Dirs(JobKey(i, w))
    BY DirsAre, Distinct DEF JobDir
  <2>3. JobDir(Executor) \in Dirs(FuncKey) /\ JobDir(Executor) \notin Dirs(UserKey)
    BY DirsAre, Distinct DEF JobDir
  <2> QED
    BY <2>1, <2>2, <2>3, UnderIs, KeysAre
<1> QED
  BY <1>1, <1>2, <1>3, UnderIs

\* The directory that holds a key, and that of a directory.
LEMMA Fronts ==
  /\ \A j, w : Len(JobKey(j, w)) = 3 /\ Front(JobKey(j, w)) = JobDir(j)
  /\ \A j : Len(JobDir(j)) = 2 /\ Front(JobDir(j)) = <<"jobs">>
PROOF
<1>1. ASSUME NEW j, NEW w
      PROVE  Len(JobKey(j, w)) = 3 /\ Front(JobKey(j, w)) = JobDir(j)
  <2> DEFINE k == <<"jobs", j, w>>
             S == {"jobs", j, w}
  <2>1. /\ SubSeq(k, 1, 2) \in Seq(S) /\ Len(SubSeq(k, 1, 2)) = 2
        /\ SubSeq(k, 1, 2)[1] = k[1] /\ SubSeq(k, 1, 2)[2] = k[2]
    BY SubSeqProperties
  <2>2. ASSUME NEW u \in Seq(S), Len(u) = 2, u[1] = "jobs", u[2] = j
        PROVE  u = <<"jobs", j>>
    BY <2>2, SeqEqual
  <2>3. k[1] = "jobs" /\ k[2] = j /\ Len(k) = 3
    OBVIOUS
  <2>4. Front(k) = SubSeq(k, 1, 2)
    BY <2>3 DEF Front
  <2> HIDE DEF k
  <2>5. SubSeq(k, 1, 2) = <<"jobs", j>>
    BY <2>1, <2>2, <2>3
  <2> QED
    BY <2>3, <2>4, <2>5 DEF k, JobKey, JobDir
<1>2. ASSUME NEW j
      PROVE  Len(JobDir(j)) = 2 /\ Front(JobDir(j)) = <<"jobs">>
  <2> DEFINE k == <<"jobs", j>>
             S == {"jobs", j}
  <2>1. /\ SubSeq(k, 1, 1) \in Seq(S) /\ Len(SubSeq(k, 1, 1)) = 1
        /\ SubSeq(k, 1, 1)[1] = k[1]
    BY SubSeqProperties
  <2>2. ASSUME NEW u \in Seq(S), Len(u) = 1, u[1] = "jobs"
        PROVE  u = <<"jobs">>
    BY <2>2, SeqEqual
  <2>3. k[1] = "jobs" /\ Len(k) = 2
    OBVIOUS
  <2>4. Front(k) = SubSeq(k, 1, 1)
    BY <2>3 DEF Front
  <2> HIDE DEF k
  <2>5. SubSeq(k, 1, 1) = <<"jobs">>
    BY <2>1, <2>2, <2>3
  <2> QED
    BY <2>3, <2>4, <2>5 DEF k, JobDir
<1> QED
  BY <1>1, <1>2

\* A key under a directory is in it, or in a directory below it.
LEMMA Steps ==
  ASSUME NEW k \in Keys, NEW d \in Dirs(k)
  PROVE  /\ d \in DOMAIN Under /\ k \in Under[d]
         /\ k \in In[d] \/ \E c \in Dirs(k) : c \in In[d] /\ c \notin Keys
PROOF
<1>1. k # UserKey
  BY DirsAre
<1>2. \E j \in Owners : \E w : k = JobKey(j, w)
  BY <1>1, KeysAre, Distinct DEF Owners
<1>a. PICK j \in Owners : \E w : k = JobKey(j, w)
  BY <1>2
<1>b. PICK w : k = JobKey(j, w)
  BY <1>a
<1>3. Dirs(k) = {<<"jobs">>, JobDir(j)}
  BY <1>b, DirsAre DEF JobDir
<1>4. {<<"jobs">>, JobDir(j)} \subseteq DOMAIN Under
  BY UnderIs
<1>5. d \in DOMAIN Under /\ k \in Under[d]
  BY <1>3, <1>4, UnderIs
<1>6. In[d] = {x \in Keys \cup DOMAIN Under : Len(x) > 1 /\ Front(x) = d}
  BY <1>5 DEF In
<1>c. Len(k) = 3 /\ Front(k) = JobDir(j)
  BY <1>b, Fronts
<1>7. CASE d = JobDir(j)
  <2>1. k \in Keys \cup DOMAIN Under /\ Len(k) > 1 /\ Front(k) = d
    BY <1>c, <1>7
  <2>2. k \in {x \in Keys \cup DOMAIN Under : Len(x) > 1 /\ Front(x) = d}
    BY <2>1, Zenon
  <2> QED
    BY <1>5, <1>6, <2>2, Zenon
<1>8. CASE d = <<"jobs">>
  <2>1. JobDir(j) \notin Keys
    BY KeysAre, Distinct
  <2> QED
    BY <1>3, <1>4, <1>5, <1>6, <1>8, <2>1, Fronts
<1> QED
  BY <1>3, <1>7, <1>8

\* A directory of a key is a proper prefix of it.
LEMMA DirPrefix ==
  ASSUME NEW k \in Keys, NEW d \in Dirs(k)
  PROVE  IsPrefix(d, k) /\ d # k
PROOF
<1>1. k # UserKey
  BY DirsAre
<1>2. \E j \in Owners : \E w : k = JobKey(j, w)
  BY <1>1, KeysAre, Distinct DEF Owners
<1>a. PICK j \in Owners : \E w : k = JobKey(j, w)
  BY <1>2
<1>b. PICK w : k = JobKey(j, w)
  BY <1>a
<1>3. Len(k) = 3 /\ k \in Seq({"jobs", j, w})
  BY <1>b DEF JobKey
<1>4. /\ Dirs(k) = {SubSeq(k, 1, 1), SubSeq(k, 1, 2)}
      /\ \A n \in {1, 2} : SubSeq(k, 1, n) \in Seq({"jobs", j, w}) /\ Len(SubSeq(k, 1, n)) = n
  BY <1>3, SubSeqProperties DEF Dirs
<1>5. PICK n \in {1, 2} : d = SubSeq(k, 1, n)
  BY <1>4
<1>6. Len(d) = n /\ d \in Seq({"jobs", j, w})
  BY <1>4, <1>5
<1>7. SubSeq(d, 1, Len(d)) = SubSeq(k, 1, Len(d))
  BY <1>5, <1>6, SubSeqFull
<1>8. Len(d) <= Len(k) /\ Len(d) # Len(k)
  BY <1>3, <1>6
<1>9. IsPrefix(d, k)
  BY <1>7, <1>8, Zenon DEF IsPrefix
<1> QED
  BY <1>8, <1>9

\* What has a path of one name is in the root.
LEMMA FrontsShort ==
  Front(<<"jobs">>) = <<>> /\ Front(UserKey) = <<>>
PROOF
<1>1. ASSUME NEW x
      PROVE  Front(<<x>>) = <<>>
  <2> DEFINE t == <<x>>
  <2>1. Len(t) = 1
    OBVIOUS
  <2>2. Front(t) = SubSeq(t, 1, 0)
    BY <2>1 DEF Front
  <2>3. SubSeq(t, 1, 0) = <<>>
    OBVIOUS
  <2> QED
    BY <2>2, <2>3
<1> QED
  BY <1>1 DEF UserKey

\* A directory is no key; what is in the directory of a job is under it.
LEMMA InJob ==
  /\ DOMAIN Under \cap Keys = {}
  /\ \A d \in DOMAIN Under : In[d] \subseteq Keys \cup DOMAIN Under
  /\ \A d \in DOMAIN Under : \A k : k \in Under[d] <=> k \in Keys /\ d \in Dirs(k)
  /\ \A j \in Owners : In[JobDir(j)] \subseteq Under[JobDir(j)]
PROOF
<1>1. DOMAIN Under \cap Keys = {}
  BY UnderIs, KeysAre, Distinct
<1>2. \A d \in DOMAIN Under : In[d] = {x \in Keys \cup DOMAIN Under : Len(x) > 1 /\ Front(x) = d}
  BY DEF In
<1>3. ASSUME NEW j \in Owners, NEW x \in In[JobDir(j)]
      PROVE  x \in Under[JobDir(j)]
  <2>1. JobDir(j) \in DOMAIN Under
    BY UnderIs
  <2>2. x \in Keys \cup DOMAIN Under /\ Len(x) > 1 /\ Front(x) = JobDir(j)
    BY <1>2, <1>3, <2>1
  <2>3. x \notin DOMAIN Under
    <3>1. x # <<"jobs">>
      <4>1. Len(<<"jobs">>) = 1 /\ Len(x) > 1
        BY <2>2
      <4> SUFFICES ASSUME x = <<"jobs">> PROVE FALSE
        OBVIOUS
      <4>2. Len(x) = 1
        OBVIOUS
      <4> QED
        BY <4>1, <4>2
    <3>2. \A i : x # JobDir(i)
      BY <2>2, Fronts, Distinct
    <3> QED
      BY <3>1, <3>2, UnderIs
  <2>4. x # UserKey
    <3>1. Len(UserKey) = 1
      BY DEF UserKey
    <3> QED
      BY <2>2, <3>1
  <2>5. \E i \in Owners : \E w : x = JobKey(i, w)
    BY <2>2, <2>3, <2>4, KeysAre, Distinct DEF Owners
  <2>a. PICK i \in Owners : \E w : x = JobKey(i, w)
    BY <2>5
  <2>b. PICK w : x = JobKey(i, w)
    BY <2>a
  <2>6. i = j
    BY <2>2, <2>b, Fronts, Distinct
  <2>7. JobDir(j) \in Dirs(x)
    BY <2>b, <2>6, DirsAre DEF JobDir
  <2> QED
    BY <2>1, <2>2, <2>3, <2>7, UnderIs
<1> QED
  BY <1>1, <1>2, <1>3, UnderIs

\* The directory that holds a key or a directory is one.
LEMMA FrontPaths ==
  \A k \in Keys \cup (DOMAIN Under) : Front(k) \in {<<>>} \cup DOMAIN Under
PROOF
<1>1. ASSUME NEW k \in Keys
      PROVE  Front(k) \in {<<>>} \cup DOMAIN Under
  BY KeysAre, Fronts, FrontsShort, Distinct, UnderIs DEF Owners
<1>2. ASSUME NEW k \in DOMAIN Under
      PROVE  Front(k) \in {<<>>} \cup DOMAIN Under
  BY Fronts, FrontsShort, UnderIs
<1> QED
  BY <1>1, <1>2

\* The first n of a set are closed downwards in the order.
LEMMA FirstDown ==
  ASSUME NEW ks \in SUBSET Keys, NEW n \in Nat,
         NEW k \in FirstOf(ks, n), NEW l \in ks, Place[l] <= Place[k]
  PROVE  l \in FirstOf(ks, n)
PROOF
<1> DEFINE Upto(x) == {m \in ks : Place[m] <= Place[x]}
<1>1. \A x \in ks : Upto(x) \in SUBSET Keys
  OBVIOUS
<1>2. IsFiniteSet(Upto(k)) /\ Cardinality(Upto(k)) \in Nat
  BY <1>1, KeysFinite, FS_Subset, FS_CardinalityType
<1>3. Upto(l) \subseteq Upto(k)
  BY PlaceNat DEF FirstOf
<1>4. Cardinality(Upto(l)) <= Cardinality(Upto(k)) /\ Cardinality(Upto(l)) \in Nat
  BY <1>2, <1>3, FS_Subset, FS_CardinalityType
<1>5. Cardinality(Upto(k)) <= n
  BY DEF FirstOf
<1>6. Cardinality(Upto(l)) <= n
  BY <1>2, <1>4, <1>5
<1> QED
  BY <1>6 DEF FirstOf

\* A set of keys has a first one.
LEMMA LeastKey ==
  ASSUME NEW ks \in SUBSET Keys, ks # {}
  PROVE  \E k \in ks : \A l \in ks : Place[k] <= Place[l]
PROOF
<1> DEFINE T == {Place[k] : k \in ks}
<1>1. T \subseteq Nat /\ T # {}
  BY PlaceNat
<1>2. PICK x \in T : \A y \in T : ~(<<y, x>> \in OpToRel(<, Nat))
  BY <1>1, NatLessThanWellFounded, WFMin, Zenon
<1>3. \A y \in T : ~(y < x)
  BY <1>1, <1>2 DEF OpToRel
<1>4. PICK k \in ks : Place[k] = x
  OBVIOUS
<1>5. \A l \in ks : Place[l] \in T /\ Place[l] \in Nat /\ x \in Nat
  BY <1>1, PlaceNat
<1> HIDE DEF T
<1>6. \A l \in ks : x <= Place[l]
  BY <1>3, <1>5
<1> QED
  BY <1>4, <1>6

\* The first n of a set are some, unless it is empty.
LEMMA FirstSome ==
  ASSUME NEW ks \in SUBSET Keys, ks # {}, NEW n \in Nat \ {0}
  PROVE  FirstOf(ks, n) # {}
PROOF
<1>1. PICK k \in ks : \A l \in ks : Place[k] <= Place[l]
  BY LeastKey
<1>2. {l \in ks : Place[l] <= Place[k]} = {k}
  <2>1. \A l \in ks : Place[l] <= Place[k] => Place[l] = Place[k]
    BY <1>1, PlaceNat
  <2>2. \A m \in Keys : KeyOrder[Place[m]] = m
    BY DEF Place, Keys, Range
  <2> QED
    BY <2>1, <2>2, PlaceNat
<1>3. Cardinality({l \in ks : Place[l] <= Place[k]}) = 1
  BY <1>2, FS_Singleton
<1> QED
  BY <1>3 DEF FirstOf

---------------------------------------------------------------------------
(* What the traits of a backend have to do with one another. *)

\* The steps at which a backend b is in an operation.
Stages(b, do) ==
  CASE do = "none" -> {"none"}
    [] do = "create" -> {"look", "make"}
    [] do = "put" -> CASE b = "localhost" -> {"mkdir", "open", "write"}
                       [] b = "redis" -> {"index", "set"}
                       [] OTHER -> {"send"}
    [] do = "get" -> {"exists", "fetch"}
    [] do = "head" -> {"head"}
    [] do = "delete" -> CASE b = "localhost" -> {"remove", "rmdir"}
                          [] b = "redis" -> {"del", "unindex"}
                          [] OTHER -> {"batch"}
    [] do = "listKeys" -> {Storage[b].listKeys.by}
    [] do = "listObjects" -> {Storage[b].listObjects.by, "sizes", "again"}

\* What the invariant needs to know of the table of a backend.
Fits(b, s) ==
  /\ b = "localhost" => s.put.by = "file" /\ s.delete.n = "file"
  /\ b = "redis" => s.put.by = "pipeline" /\ s.delete.n = "pipeline"
  /\ b \notin {"localhost", "redis"} => s.put.by = "request" /\ s.delete.n \in {"one", "page", "all"}
  /\ {s.listKeys.by, s.listObjects.by} \subseteq
       IF b \in {"localhost", "redis"} THEN {"walk"} ELSE {"pages", "page", "whole"}
  /\ "nokey" \in s.get.fails => b \in {"swift", "localhost"}
  /\ "nokey" \in s.head.fails => b \in {"swift", "oracle_oss"}

\* The table of each backend is as the invariant needs it.
LEMMA TraitsFit == \A b \in DOMAIN Storage : Fits(b, Storage[b])
PROOF
<1>1. DOMAIN Storage = {"aws_s3", "ibm_cos", "ceph", "minio", "azure_storage", "gcp_storage",
                        "aliyun_oss", "oracle_oss", "swift", "infinispan", "infinispan_hotrod",
                        "redis", "localhost"}
  BY DEF Storage
<1>2. Fits("aws_s3", Storage["aws_s3"])
  BY DEF Fits, Storage, Traits, Raises, AwsS3Put, AwsS3Get, AwsS3Head, AwsS3Delete,
         AwsS3ListKeys, AwsS3ListObjects
<1>3. Fits("ibm_cos", Storage["ibm_cos"])
  BY DEF Fits, Storage, Traits, Raises, Repeated, IbmCosPut, IbmCosGet, IbmCosHead,
         IbmCosDelete, IbmCosListKeys, IbmCosListObjects, AwsS3Put, AwsS3Get,
         AwsS3Head, AwsS3Delete, AwsS3ListKeys, AwsS3ListObjects
<1>4. Fits("ceph", Storage["ceph"])
  BY DEF Fits, Storage, Traits, Raises, Repeated, CephPut, CephGet, CephHead,
         CephDelete, CephListKeys, CephListObjects, IbmCosPut, IbmCosGet,
         IbmCosHead, IbmCosDelete, IbmCosListKeys, IbmCosListObjects, AwsS3Put,
         AwsS3Get, AwsS3Head, AwsS3Delete, AwsS3ListKeys, AwsS3ListObjects
<1>5. Fits("minio", Storage["minio"])
  BY DEF Fits, Storage, Traits, Raises, Repeated, MinioPut, MinioGet, MinioHead,
         MinioDelete, MinioListKeys, MinioListObjects, IbmCosPut, IbmCosGet,
         IbmCosHead, IbmCosDelete, IbmCosListKeys, IbmCosListObjects, AwsS3Put,
         AwsS3Get, AwsS3Head, AwsS3Delete, AwsS3ListKeys, AwsS3ListObjects
<1>6. Fits("azure_storage", Storage["azure_storage"])
  BY DEF Fits, Storage, Traits, Raises, AzurePut, AzureGet, AzureHead, AzureDelete,
         AzureListKeys, AzureListObjects
<1>7. Fits("gcp_storage", Storage["gcp_storage"])
  BY DEF Fits, Storage, Traits, Raises, Repeated, GcpPut, GcpGet, GcpHead,
         GcpDelete, GcpListKeys, GcpListObjects
<1>8. Fits("aliyun_oss", Storage["aliyun_oss"])
  BY DEF Fits, Storage, Traits, Raises, AliyunPut, AliyunGet, AliyunHead,
         AliyunDelete, AliyunListKeys, AliyunListObjects
<1>9. Fits("oracle_oss", Storage["oracle_oss"])
  BY DEF Fits, Storage, Traits, Raises, OraclePut, OracleGet, OracleHead,
         OracleDelete, OracleListKeys, OracleListObjects
<1>10. Fits("swift", Storage["swift"])
  BY DEF Fits, Storage, Traits, Raises, SwiftPut, SwiftGet, SwiftHead, SwiftDelete,
         SwiftListKeys, SwiftListObjects
<1>11. Fits("infinispan", Storage["infinispan"])
  BY DEF Fits, Storage, Traits, Raises, InfinispanPut, InfinispanGet,
         InfinispanHead, InfinispanDelete, InfinispanListKeys, InfinispanListObjects
<1>12. Fits("infinispan_hotrod", Storage["infinispan_hotrod"])
  BY DEF Fits, Storage, Traits, Raises, HotrodPut, HotrodGet, HotrodHead,
         HotrodDelete, HotrodListKeys, HotrodListObjects
<1>13. Fits("redis", Storage["redis"])
  BY DEF Fits, Storage, Traits, Raises, RedisPut, RedisGet, RedisHead, RedisDelete,
         RedisListKeys, RedisListObjects
<1>14. Fits("localhost", Storage["localhost"])
  BY DEF Fits, Storage, Traits, Raises, LocalhostPut, LocalhostGet, LocalhostHead,
         LocalhostDelete, LocalhostListKeys, LocalhostListObjects
<1> QED
  BY <1>1, <1>2, <1>3, <1>4, <1>5, <1>6, <1>7, <1>8, <1>9, <1>10, <1>11, <1>12, <1>13, <1>14

---------------------------------------------------------------------------
(* The inductive invariant: the store, the operations, and who does what. *)

\* The prefixes of the listings, and all positions in an operation.
Paths == {<<>>} \cup DOMAIN Under

\* The steps of an operation.
Ats ==
  {"none", "look", "make", "mkdir", "open", "write", "index", "set", "send", "exists", "fetch",
   "head", "remove", "rmdir", "del", "unindex", "batch", "walk", "pages", "page", "whole",
   "sizes", "again"}

\* The type of an operation that is on its way.
OpType ==
  [do : {"none", "create", "put", "get", "head", "delete", "listKeys", "listObjects"},
   at : Ats, keys : SUBSET Keys, prefix : Paths, dirs : SUBSET DOMAIN Under,
   got : SUBSET Keys, passed : SUBSET Keys, missing : SUBSET Keys]

(* A walk still has a directory above each key that it has missed, a list  *)
(* by pages has missed nothing that it has passed, and sizes are asked for *)
(* when nothing was missed.                                                *)
ListOK(b, o) ==
  /\ o.prefix \in DOMAIN Under
  /\ o.prefix # <<"jobs">> => o.dirs \subseteq {o.prefix} /\ o.got \subseteq Under[o.prefix]
  /\ o.at = "pages" => o.missing \cap o.passed = {}
  /\ o.at = "page" => o.passed = {}
  /\ o.at = "walk" => \A k \in o.missing : \E d \in o.dirs : d \in Dirs(k)
  /\ o.at \in {"sizes", "again"} /\ Storage[b].listObjects.by # "page" => o.missing = {}

\* An operation on its way on backend b.
OpOK(b, o) ==
  /\ o \in OpType
  /\ o.at \in Stages(b, o.do)
  /\ o.do \in {"put", "get", "head"} => \E k \in Keys : o.keys = {k}
  /\ o.do \in Lists => ListOK(b, o)

(* On localhost the directories of an object are there, and on redis the   *)
(* entries of the directories of an entry.                                 *)
StoreOK(b, objs, idx) ==
  /\ objs \in [Keys -> {"none", "empty", "data"}]
  /\ b = "localhost" => \A k \in Stored(objs) : Dirs(k) \subseteq idx
  /\ b = "redis" => \A k \in idx \cap Keys : Dirs(k) \subseteq idx

\* What a request names: jobs of the executor, or its functions.
JobSets == ((SUBSET Jobs) \ {{}}) \cup {{Executor}}

\* Where the client is.
ClientAts ==
  {"start", "create", "ready", "func", "data", "wait", "output", "exit", "dumpFn", "open",
   "dump", "spawn", "ended"}

\* The client cleans no job twice.
ClientOK(c) ==
  /\ c \in [at : ClientAts, exiting : BOOLEAN, done : SUBSET Jobs, cleaned : SUBSET Jobs,
            toClean : SUBSET Jobs]
  /\ c.at = "open" => c.toClean # {} /\ c.toClean \cap c.cleaned = {}

\* The requests of the cleaner.
RequestType == [jobs : JobSets, whole : BOOLEAN, quiet : SUBSET Jobs]

\* The cleaner works at jobs of the request it has opened.
CleanerOK(c) ==
  /\ c \in [at : {"none", "start", "look", "load", "leave", "clean", "functions"},
            batch : SUBSET JobSets, left : SUBSET Jobs]
  /\ c.at = "clean" => /\ JobFiles(c.batch) # {} /\ c.left # {}
                       /\ c.left \subseteq FileOf(c.batch)

\* The types of client, requests and cleaner.
ControlOK == ClientOK(client) /\ requests \subseteq RequestType /\ CleanerOK(cleaner)

\* The inductive invariant of the types and of the answers.
DataInv ==
  /\ TypeOK
  /\ StoreOK(backend.name, objects, index)
  /\ op \in [Actors -> OpType] /\ \A a \in Actors : OpOK(backend.name, op[a])
  /\ op["cleaner"].do \in {"none", "listKeys", "delete"}
  /\ ControlOK
  /\ AnswersTruthful

(* The jobs that were asked to be cleaned, those whose worker has ended,   *)
(* and those asked for after their worker had ended.                       *)

\* Who puts what, and when; only the cleaner deletes.
Roles ==
  /\ op["client"].do = "put" => client.at \in {"func", "data"}
  /\ client.at \in {"start", "create", "ready", "func", "data"} => worker = "none"
  /\ op[Job].do = "put" => worker \in {"init", "output", "status"}
  /\ op["user"].do = "put" => op["user"].keys = {UserKey}
  /\ op["monitor"].do # "put" /\ op["cleaner"].do # "put"
  /\ \A a \in Actors : op[a].do = "put" => op[a].keys \subseteq {FuncKey, UserKey} \cup Under[JobDir(Job)]
  /\ \A a \in Actors \ {"cleaner"} : op[a].do # "delete"
  /\ cleaner.at \notin {"clean", "functions"} => op["cleaner"].do = "none"

\* No key of the job is present.
NothingLeft(j) == Under[JobDir(j)] \cap Present = {}

\* A request names jobs that have been asked for; the quiet ones are quiet.
RequestsOK ==
  /\ \A r \in requests : /\ r.jobs \subseteq Asked \cup {Executor}
                         /\ r.quiet \subseteq r.jobs /\ \A j \in r.quiet : Quiet(j)
  /\ \A f \in cleaner.batch : f \subseteq Asked \cup {Executor}

(* What the cleaner has emptied of a job asked for quietly stays empty,    *)
(* and its list has the keys that it has not missed.                       *)
CleaningOK ==
  LET o == op["cleaner"]
      dir == JobDir(IF cleaner.at = "clean" THEN JobToClean(cleaner.left) ELSE Executor) IN
  /\ o.do = "listKeys" => o.prefix = dir
  /\ o.do = "delete" => o.keys \subseteq Under[dir]
  /\ cleaner.at = "clean" =>
       /\ \A j \in FileOf(cleaner.batch) \ cleaner.left : AskedQuietly(j) => NothingLeft(j)
       /\ AskedQuietly(JobToClean(cleaner.left)) =>
            /\ o.do = "listKeys" => Seen(o, objects, index) \subseteq o.missing \cup o.got
            /\ o.at = "unindex" => o.keys \cap Present = {}

(* On redis the objects of a job have entries, unless it was asked to be   *)
(* cleaned before its worker had ended.                                    *)
EntriesOK ==
  backend.name = "redis" => \A j \in Jobs :
    /\ j \notin Asked \/ AskedQuietly(j) => Present \cap Under[JobDir(j)] \subseteq index
    /\ j \notin Asked =>
         \A a \in Actors : op[a].at = "set" => op[a].keys \cap Under[JobDir(j)] \subseteq index

\* What the cleaner calls gone is gone.
GoneOK == \A j \in gone : Quiet(j) /\ NothingLeft(j)

\* The inductive invariant of the cleaning.
CleanInv ==
  /\ DataInv
  /\ Roles /\ RequestsOK /\ CleaningOK /\ EntriesOK /\ GoneOK

---------------------------------------------------------------------------
(* Operations: what they watch, and how they begin. *)

\* The operations of a backend.
Dos == {"create", "put", "get", "head", "delete", "listKeys", "listObjects"}

\* The methods of the backend in use.
LEMMA Methods ==
  ASSUME TypeOK
  PROVE  /\ backend.name \in DOMAIN Storage /\ backend.does = Storage[backend.name]
         /\ \A do : Method(do) = Storage[backend.name][do]
         /\ Fits(backend.name, Storage[backend.name])
PROOF
<1>1. PICK b \in DOMAIN Storage : backend = [name |-> b, does |-> Storage[b]]
  BY DEF TypeOK
<1>2. backend.name = b /\ backend.does = Storage[b]
  BY <1>1
<1> QED
  BY <1>2, TraitsFit DEF Method

\* What a listing can find are keys, those under its prefix.
LEMMA SeenKeys ==
  ASSUME NEW o, NEW objs, NEW idx,
         o.do \in Lists => o.prefix \in DOMAIN Under
  PROVE  /\ Seen(o, objs, idx) \subseteq Keys
         /\ o.do \in Lists => Seen(o, objs, idx) \subseteq Under[o.prefix]
PROOF
<1>1. CASE o.do \in Lists
  BY <1>1, UnderJob DEF Seen
<1>2. CASE o.do \notin Lists
  BY <1>2 DEF Seen, Stored
<1> QED
  BY <1>1, <1>2

\* What the observation of an operation changes: keys that have gone are no
\* longer missing.
LEMMA WatchIs ==
  ASSUME NEW o \in OpType
  PROVE  /\ Watch(o) \in OpType
         /\ Watch(o).do = o.do /\ Watch(o).at = o.at /\ Watch(o).keys = o.keys
         /\ Watch(o).prefix = o.prefix /\ Watch(o).dirs = o.dirs /\ Watch(o).got = o.got
         /\ Watch(o).passed = o.passed /\ Watch(o).missing \subseteq o.missing
         /\ o.do \in Gets \cup Lists =>
              Watch(o).missing = o.missing \cap Seen(o, objects', index')
PROOF
<1>1. CASE o.do \in Gets \cup Lists
  <2> DEFINE m == o.missing \cap Seen(o, objects', index')
             w == [o EXCEPT !.missing = m]
  <2>1. Watch(o) = w
    BY <1>1 DEF Watch
  <2>2. m \subseteq o.missing /\ o.missing \subseteq Keys
    BY DEF OpType
  <2> HIDE DEF m
  <2>3. /\ w \in OpType /\ w.missing = m
        /\ w.do = o.do /\ w.at = o.at /\ w.keys = o.keys /\ w.prefix = o.prefix
        /\ w.dirs = o.dirs /\ w.got = o.got /\ w.passed = o.passed
    BY <2>2 DEF OpType
  <2> HIDE DEF w
  <2> QED
    BY <2>1, <2>2, <2>3 DEF m
<1>2. CASE o.do \notin Gets \cup Lists
  BY <1>2 DEF Watch
<1> QED
  BY <1>1, <1>2

\* It keeps the invariant of operations.
LEMMA Watched ==
  ASSUME NEW b, NEW o, OpOK(b, o)
  PROVE  OpOK(b, Watch(o))
PROOF
<1> DEFINE w == Watch(o)
<1>1. o \in OpType
  BY DEF OpOK
<1>2. /\ w \in OpType
      /\ w.do = o.do /\ w.at = o.at /\ w.keys = o.keys /\ w.prefix = o.prefix
      /\ w.dirs = o.dirs /\ w.got = o.got /\ w.passed = o.passed /\ w.missing \subseteq o.missing
  BY <1>1, WatchIs
<1> HIDE DEF w
<1>3. OpOK(b, w)
  BY <1>2 DEF OpOK, ListOK
<1> QED
  BY <1>3 DEF w

\* The first step of an operation is one of its steps.
LEMMA FirstStepIs ==
  ASSUME TypeOK, NEW do \in Dos
  PROVE  /\ FirstStep(do) \in Stages(backend.name, do)
         /\ FirstStep(do) \in {"look", "make", "mkdir", "index", "send", "exists", "fetch", "head",
                               "remove", "del", "batch", "walk", "pages", "page", "whole"}
PROOF
<1> DEFINE b == backend.name
<1>1. /\ b \in DOMAIN Storage /\ Fits(b, Storage[b])
      /\ \A d : Method(d) = Storage[b][d]
  BY Methods
<1>2. /\ FirstStep("create") \in {"look", "make"} /\ FirstStep("get") \in {"exists", "fetch"}
      /\ FirstStep("head") = "head"
  BY DEF FirstStep, Lists
<1>3. /\ b = "localhost" => FirstStep("put") = "mkdir" /\ FirstStep("delete") = "remove"
      /\ b = "redis" => FirstStep("put") = "index" /\ FirstStep("delete") = "del"
      /\ b \notin {"localhost", "redis"} => FirstStep("put") = "send" /\ FirstStep("delete") = "batch"
  BY <1>1 DEF FirstStep, Fits, Lists
<1>5. \A d \in Lists : /\ FirstStep(d) = Storage[b][d].by
                       /\ FirstStep(d) \in {"walk", "pages", "page", "whole"}
  BY <1>1 DEF FirstStep, Fits, Lists
<1>4. FirstStep(do) \in Stages(b, do)
  <2>1. CASE do = "put"
    BY <1>3, <2>1 DEF Stages
  <2>2. CASE do = "delete"
    BY <1>3, <2>2 DEF Stages
  <2>3. CASE do \in Lists
    BY <1>5, <2>3 DEF Stages, Lists
  <2> QED
    BY <1>2, <2>1, <2>2, <2>3 DEF Stages, Dos, Lists
<1> QED
  <2>1. CASE do = "put"
    BY <1>4, <1>3, <2>1
  <2>2. CASE do = "delete"
    BY <1>4, <1>3, <2>2
  <2>3. CASE do \in Lists
    BY <1>4, <1>5, <2>3
  <2>4. CASE do = "create" \/ do = "get" \/ do = "head"
    BY <1>4, <1>2, <2>4
  <2> QED
    BY <1>4, <2>1, <2>2, <2>3, <2>4 DEF Dos, Lists

\* An operation at its beginning.
Beginning(o, do, keys, prefix) ==
  /\ OpOK(backend.name, o)
  /\ o.do = do /\ o.keys = keys /\ o.prefix = prefix /\ o.got = {}
  /\ o.at \notin {"set", "unindex"}
  /\ do \in Lists => o.missing = Seen(o, objects', index')

\* The arguments with which an operation is begun.
Beginnable(do, keys, prefix) ==
  /\ do \in Dos /\ keys \in SUBSET Keys /\ prefix \in Paths
  /\ do \in {"put", "get", "head"} => \E k \in Keys : keys = {k}
  /\ do \in Lists => prefix \in DOMAIN Under

\* An operation that is begun is at its beginning.
LEMMA BegunOK ==
  ASSUME TypeOK, NEW do, NEW keys, NEW prefix, Beginnable(do, keys, prefix)
  PROVE  Beginning(Begun(do, keys, prefix), do, keys, prefix)
PROOF
<1> DEFINE b == backend.name
           at == FirstStep(do)
           dirs == FirstDirs(do, keys, prefix)
           q == [Idle EXCEPT !.do = do, !.at = at, !.keys = keys, !.prefix = prefix,
                             !.dirs = dirs]
           m == IF do \in Gets \cup Lists THEN Seen(q, objects', index') ELSE {}
           o == Begun(do, keys, prefix)
<1>0. /\ do \in Dos /\ keys \in SUBSET Keys /\ prefix \in Paths
      /\ do \in {"put", "get", "head"} => \E k \in Keys : keys = {k}
      /\ do \in Lists => prefix \in DOMAIN Under
  BY DEF Beginnable
<1>1. /\ b \in DOMAIN Storage /\ Fits(b, Storage[b])
      /\ \A d : Method(d) = Storage[b][d]
  BY Methods
<1>2. at \in Stages(b, do) /\ at \in Ats /\ at \notin {"set", "unindex", "sizes", "again"}
  <2>1. at \in {"look", "make", "mkdir", "index", "send", "exists", "fetch", "head",
                "remove", "del", "batch", "walk", "pages", "page", "whole"}
    BY <1>0, FirstStepIs
  <2>2. at \in Stages(b, do)
    BY <1>0, FirstStepIs
  <2> HIDE DEF at
  <2>3. at \in Ats
    BY <2>1 DEF Ats
  <2>4. at \notin {"set", "unindex", "sizes", "again"}
    BY <2>1
  <2> QED
    BY <2>2, <2>3, <2>4
<1>3. dirs \subseteq DOMAIN Under /\ (do \in Lists => dirs = {prefix})
  <2>1. \A k \in Keys : Dirs(k) \subseteq DOMAIN Under
    BY Steps
  <2> QED
    BY <1>0, <2>1 DEF FirstDirs, Lists
<1> HIDE DEF at, dirs
<1>4. q \in OpType
  BY <1>0, <1>2, <1>3 DEF Idle, OpType, Dos, Paths
<1>6. /\ q.do = do /\ q.at = at /\ q.keys = keys /\ q.prefix = prefix /\ q.dirs = dirs
      /\ q.got = {} /\ q.passed = {} /\ q.missing = {}
  BY DEF Idle
<1>5. o = IF do \in Gets \cup Lists THEN [q EXCEPT !.missing = m] ELSE q
  BY DEF Begun, at, dirs
<1> HIDE DEF q
<1>7. /\ m \subseteq Keys
      /\ do \in Lists => m \subseteq Under[prefix] /\ m = Seen(q, objects', index')
  BY <1>0, <1>6, SeenKeys
<1> HIDE DEF m, o
<1>8. /\ o.do = do /\ o.at = at /\ o.keys = keys /\ o.prefix = prefix /\ o.dirs = dirs
      /\ o.got = {} /\ o.passed = {} /\ o.missing = m
  <2>1. do \notin Gets \cup Lists => m = {}
    BY DEF m
  <2> QED
    BY <1>4, <1>5, <1>6, <2>1 DEF OpType
<1>9. o \in OpType
  BY <1>4, <1>5, <1>7 DEF OpType
<1>10. do \in Lists => ListOK(b, o)
  <2> SUFFICES ASSUME do \in Lists
               PROVE  ListOK(b, o)
    OBVIOUS
  <2>1. o.at = "walk" => \A k \in o.missing : \E d \in o.dirs : d \in Dirs(k)
    BY <1>0, <1>3, <1>7, <1>8, InJob
  <2> QED
    BY <1>0, <1>2, <1>3, <1>8, <2>1 DEF ListOK
<1>11. OpOK(b, o)
  BY <1>0, <1>2, <1>8, <1>9, <1>10 DEF OpOK
<1>12. do \in Lists => o.missing = Seen(o, objects', index')
  BY <1>6, <1>7, <1>8 DEF Seen
<1> QED
  BY <1>2, <1>8, <1>11, <1>12 DEF o, Beginning

---------------------------------------------------------------------------
(* What a request changes. *)

\* The step at which an operation is tells the operation and the backend.
LEMMA AtMeans ==
  ASSUME NEW b, NEW o, OpOK(b, o), Fits(b, Storage[b])
  PROVE  /\ o.at = "none" => o.do = "none"
         /\ o.at \in {"look", "make"} => o.do = "create"
         /\ o.at \in {"mkdir", "open", "write"} => o.do = "put" /\ b = "localhost"
         /\ o.at \in {"index", "set"} => o.do = "put" /\ b = "redis"
         /\ o.at = "send" => o.do = "put" /\ b \notin {"localhost", "redis"}
         /\ o.at \in {"exists", "fetch"} => o.do = "get"
         /\ o.at = "head" => o.do = "head"
         /\ o.at \in {"remove", "rmdir"} => o.do = "delete" /\ b = "localhost"
         /\ o.at \in {"del", "unindex"} => o.do = "delete" /\ b = "redis"
         /\ o.at = "batch" => o.do = "delete" /\ b \notin {"localhost", "redis"}
         /\ o.at = "walk" => o.do \in Lists /\ b \in {"localhost", "redis"}
         /\ o.at \in {"pages", "page", "whole"} =>
              o.do \in Lists /\ b \notin {"localhost", "redis"} /\ o.at = Storage[b][o.do].by
         /\ o.at \in {"sizes", "again"} => o.do = "listObjects"
PROOF
<1>1. /\ o.do \in {"none", "create", "put", "get", "head", "delete", "listKeys", "listObjects"}
      /\ o.at \in Stages(b, o.do)
  BY DEF OpOK, OpType
<1>2. CASE o.do = "none"
  BY <1>1, <1>2 DEF Stages
<1>3. CASE o.do = "create"
  BY <1>1, <1>3 DEF Stages
<1>4. CASE o.do = "put"
  BY <1>1, <1>4 DEF Stages
<1>5. CASE o.do = "get" \/ o.do = "head"
  BY <1>1, <1>5 DEF Stages
<1>6. CASE o.do = "delete"
  BY <1>1, <1>6 DEF Stages
<1>7. CASE o.do = "listKeys"
  BY <1>1, <1>7 DEF Stages, Fits, Lists
<1>8. CASE o.do = "listObjects"
  BY <1>1, <1>8 DEF Stages, Fits, Lists
<1> QED
  BY <1>1, <1>2, <1>3, <1>4, <1>5, <1>6, <1>7, <1>8

\* The key of an operation that has one.
LEMMA KeyIs ==
  ASSUME NEW a, op[a].keys \subseteq Keys
  PROVE  /\ \A k \in Keys : op[a].keys = {k} => Key(a) = k
         /\ op[a].keys # {} => Key(a) \in op[a].keys
PROOF
<1>1. ASSUME op[a].keys # {}
      PROVE  Key(a) \in op[a].keys
  <2>1. \E k \in op[a].keys : \A l \in op[a].keys : Place[k] <= Place[l]
    BY <1>1, LeastKey
  <2> QED
    BY <2>1 DEF Key
<1> QED
  BY <1>1

\* What the invariant says of the operation of an actor.
LEMMA OpIs ==
  ASSUME DataInv, NEW a \in Actors
  PROVE  /\ op[a] \in OpType /\ OpOK(backend.name, op[a])
         /\ backend.name \in DOMAIN Storage /\ Fits(backend.name, Storage[backend.name])
         /\ \A do : Method(do) = Storage[backend.name][do]
         /\ op[a].keys \subseteq Keys
         /\ op[a].do \in {"put", "get", "head"} => op[a].keys = {Key(a)} /\ Key(a) \in Keys
         /\ op[a].keys # {} => Key(a) \in op[a].keys
PROOF
<1>1. op[a] \in OpType /\ OpOK(backend.name, op[a]) /\ TypeOK
  BY DEF DataInv
<1>2. op[a].keys \subseteq Keys
  BY <1>1 DEF OpType
<1>3. op[a].do \in {"put", "get", "head"} => \E k \in Keys : op[a].keys = {k}
  BY <1>1 DEF OpOK
<1> QED
  BY <1>1, <1>2, <1>3, KeyIs, Methods

(* A put makes its keys present, and an unindex alone forgets entries.     *)
StoreMoves(a) ==
  LET o == op[a] IN
  /\ \A k \in Stored(objects') : k \in Present \/ (o.do = "put" /\ k \in o.keys)
  /\ \A k \in index' \cap Keys : k \in index \/ (o.do = "put" /\ k \in o.keys)
  /\ backend.name = "redis" =>
       /\ \A k \in index \cap Keys : k \in index' \/ (o.at = "unindex" /\ k \in o.keys)
       /\ \A k \in Stored(objects') : k \in Present \/ (o.at = "set" /\ k \in o.keys)

\* A step that leaves the store as it is.
LEMMA StoreSame ==
  ASSUME DataInv, UNCHANGED <<objects, index>>, NEW a
  PROVE  StoreOK(backend.name, objects', index') /\ StoreMoves(a)
BY DEF DataInv, StoreMoves, Present

\* What is put is no missing object.
LEMMA Values == \A k : Value(k) \in {"empty", "data"}
BY DEF Value

\* A request that is carried out keeps the store well formed.
LEMMA EffectOK ==
  ASSUME DataInv, NEW a \in Actors, Effect(a)
  PROVE  StoreOK(backend.name, objects', index') /\ StoreMoves(a)
PROOF
<1> DEFINE b == backend.name
           o == op[a]
<1>1. /\ OpOK(b, o) /\ Fits(b, Storage[b]) /\ o.keys \subseteq Keys
      /\ o.do = "put" => o.keys = {Key(a)} /\ Key(a) \in Keys
  BY OpIs
<1>2. StoreOK(b, objects, index)
  BY DEF DataInv
<1>3. /\ o.at \in {"index", "set"} => o.do = "put" /\ b = "redis"
      /\ o.at = "send" => o.do = "put" /\ b \notin {"localhost", "redis"}
      /\ o.at \in {"del", "unindex"} => o.do = "delete" /\ b = "redis"
      /\ o.at = "batch" => o.do = "delete" /\ b \notin {"localhost", "redis"}
  BY <1>1, AtMeans
<1>4. CASE o.at \in {"send", "set"}
  <2>1. objects' = [objects EXCEPT ![Key(a)] = Value(Key(a))] /\ UNCHANGED index
    BY <1>4 DEF Effect
  <2>2. /\ Stored(objects') \subseteq Present \cup {Key(a)}
        /\ objects' \in [Keys -> {"none", "empty", "data"}]
    BY <1>1, <1>2, <1>3, <1>4, <2>1, Values DEF Stored, Present, StoreOK
  <2> QED
    BY <1>1, <1>2, <1>3, <1>4, <2>1, <2>2 DEF StoreOK, StoreMoves
<1>5. CASE o.at = "index"
  <2>1. index' = index \cup Dirs(Key(a)) \cup {Key(a)} /\ UNCHANGED objects
    BY <1>5 DEF Effect
  <2>2. Dirs(Key(a)) \cap Keys = {} /\ Key(a) \in Keys
    BY <1>1, <1>3, <1>5, Steps, InJob
  <2> QED
    BY <1>1, <1>2, <1>3, <1>5, <2>1, <2>2 DEF StoreOK, StoreMoves, Present
<1>6. CASE o.at \in {"batch", "del"}
  <2>1. PICK ks : Without(ks) /\ UNCHANGED index
    BY <1>6 DEF Effect
  <2>2. objects' = [k \in Keys |-> IF k \in ks THEN "none" ELSE objects[k]]
    BY <2>1 DEF Without
  <2>3. Stored(objects') \subseteq Present
    BY <2>2 DEF Stored, Present
  <2>4. objects' \in [Keys -> {"none", "empty", "data"}]
    BY <1>2, <2>2 DEF StoreOK
  <2> QED
    BY <1>2, <1>3, <1>6, <2>1, <2>3, <2>4 DEF StoreOK, StoreMoves, Present
<1>7. CASE o.at = "unindex"
  <2>1. index' = index \ o.keys /\ UNCHANGED objects
    BY <1>7 DEF Effect
  <2>2. \A k \in Keys : Dirs(k) \cap Keys = {}
    BY Steps, InJob
  <2> QED
    BY <1>1, <1>2, <1>3, <1>7, <2>1, <2>2 DEF StoreOK, StoreMoves, Present
<1>8. CASE o.at \notin {"send", "set", "index", "batch", "del", "unindex"}
  <2>1. UNCHANGED <<objects, index>>
    BY <1>8 DEF Effect, store
  <2> QED
    BY <2>1, StoreSame
<1> QED
  BY <1>4, <1>5, <1>6, <1>7, <1>8

\* So do the steps on the file system.
LEMMA FilesOK ==
  ASSUME DataInv, NEW a \in Actors,
         MakeDir(a) \/ OpenFile(a) \/ WriteFile(a) \/ RemoveFile(a) \/ RemoveDir(a)
  PROVE  StoreOK(backend.name, objects', index') /\ StoreMoves(a)
PROOF
<1> DEFINE b == backend.name
           o == op[a]
<1>1. /\ OpOK(b, o) /\ Fits(b, Storage[b]) /\ o.keys \subseteq Keys
      /\ o.do = "put" => o.keys = {Key(a)} /\ Key(a) \in Keys
      /\ o \in OpType
  BY OpIs
<1>2. StoreOK(b, objects, index)
  BY DEF DataInv
<1>3. o.at \in {"mkdir", "open", "write", "remove", "rmdir"} => b = "localhost"
  BY <1>1, AtMeans
<1>4. CASE MakeDir(a)
  <2>1. o.at = "mkdir" /\ UNCHANGED objects
    BY <1>4 DEF MakeDir, At
  <2>2. UNCHANGED index \/ \E d \in o.dirs : index' = index \cup {d}
    <3>1. CASE o.dirs = {}
      BY <1>4, <3>1 DEF MakeDir
    <3>2. CASE o.dirs # {}
      <4> DEFINE d == CHOOSE x \in o.dirs : \A y \in o.dirs : Len(x) <= Len(y)
      <4>1. index' = index \cup {d} \/ UNCHANGED index
        BY <1>4, <3>2 DEF MakeDir
      <4>2. d \in o.dirs
        <5>1. \E x \in o.dirs : \A y \in o.dirs : Len(x) <= Len(y)
          <6>1. \A x \in o.dirs : Len(x) = 1 \/ Len(x) = 2
            <7>1. o.dirs \subseteq DOMAIN Under
              BY <1>1 DEF OpType
            <7>2. \A x \in DOMAIN Under : Len(x) = 1 \/ Len(x) = 2
              <8>1. Len(<<"jobs">>) = 1
                OBVIOUS
              <8> QED
                BY <8>1, UnderIs, Fronts
            <7> QED
              BY <7>1, <7>2
          <6> QED
            BY <3>2, <6>1
        <5> QED
          BY <5>1
      <4> QED
        BY <4>1, <4>2
    <3> QED
      BY <3>1, <3>2
  <2>3. DOMAIN Under \cap Keys = {} /\ o.dirs \subseteq DOMAIN Under
    BY <1>1, InJob DEF OpType
  <2> QED
    BY <1>2, <1>3, <2>1, <2>2, <2>3 DEF StoreOK, StoreMoves, Present
<1>5. CASE OpenFile(a) \/ WriteFile(a)
  <2>1. o.at \in {"open", "write"} /\ o.do = "put" /\ UNCHANGED index
    BY <1>5 DEF OpenFile, WriteFile, At
  <2>2. CASE UNCHANGED objects
    BY <2>1, <2>2, StoreSame
  <2>3. ASSUME OpenFile(a), Dirs(Key(a)) \subseteq index
        PROVE  StoreOK(b, objects', index') /\ StoreMoves(a)
    <3>1. objects' = [objects EXCEPT ![Key(a)] = "empty"]
      BY <2>3 DEF OpenFile
    <3>2. /\ Stored(objects') \subseteq Present \cup {Key(a)}
          /\ objects' \in [Keys -> {"none", "empty", "data"}]
      BY <1>1, <1>2, <2>1, <3>1 DEF Stored, Present, StoreOK
    <3> QED
      BY <1>1, <1>2, <1>3, <2>1, <2>3, <3>2 DEF StoreOK, StoreMoves, Present
  <2>4. CASE WriteFile(a)
    <3>1. objects' = [objects EXCEPT ![Key(a)] = IF objects[Key(a)] = "none" THEN "none" ELSE Value(Key(a))]
      BY <2>4 DEF WriteFile
    <3>2. /\ Stored(objects') \subseteq Present
          /\ objects' \in [Keys -> {"none", "empty", "data"}]
      BY <1>1, <1>2, <2>1, <3>1, Values DEF Stored, Present, StoreOK
    <3> QED
      BY <1>1, <1>2, <1>3, <2>1, <3>2 DEF StoreOK, StoreMoves, Present
  <2> QED
    BY <1>5, <2>2, <2>3, <2>4 DEF OpenFile
<1>6. CASE RemoveFile(a)
  <2>1. o.at = "remove" /\ UNCHANGED index
    BY <1>6 DEF RemoveFile, At
  <2>2. CASE UNCHANGED objects
    BY <2>1, <2>2, StoreSame
  <2>3. CASE Without({Key(a)})
    <3>1. objects' = [k \in Keys |-> IF k \in {Key(a)} THEN "none" ELSE objects[k]]
      BY <2>3 DEF Without
    <3>2. /\ Stored(objects') \subseteq Present
          /\ objects' \in [Keys -> {"none", "empty", "data"}]
      BY <1>2, <3>1 DEF Stored, Present, StoreOK
    <3> QED
      BY <1>2, <1>3, <2>1, <3>2 DEF StoreOK, StoreMoves, Present
  <2> QED
    BY <1>6, <2>2, <2>3 DEF RemoveFile
<1>7. CASE RemoveDir(a)
  <2>1. o.at = "rmdir" /\ UNCHANGED objects
    BY <1>7 DEF RemoveDir, At
  <2>2. CASE UNCHANGED index
    BY <2>1, <2>2, StoreSame
  <2>3. ASSUME EmptyDir(o.prefix), index' = index \ {o.prefix}
        PROVE  StoreOK(b, objects', index') /\ StoreMoves(a)
    <3>1. ASSUME NEW k \in Present
          PROVE  o.prefix \notin Dirs(k)
      <4>1. o.prefix = k \/ ~IsPrefix(o.prefix, k)
        BY <2>3 DEF EmptyDir
      <4>2. k \in Keys
        BY DEF Present, Stored
      <4> QED
        BY <4>1, <4>2, DirPrefix
    <3> QED
      BY <1>2, <1>3, <2>1, <2>3, <3>1 DEF StoreOK, StoreMoves, Present
  <2> QED
    BY <1>7, <2>2, <2>3 DEF RemoveDir
<1> QED
  BY <1>4, <1>5, <1>6, <1>7

---------------------------------------------------------------------------
(* How an operation goes on or ends. *)

\* The operations whose answer may be false, by backend.
Excused ==
  CASE backend.name = "swift" -> {"get", "head"}
    [] backend.name = "oracle_oss" -> {"head"}
    [] OTHER -> {}

\* Operation o of actor a goes on from the one before the step: it neither gains
\* a key to write nor loses sight of one that it has to list.
Follows(a, o) ==
  LET p == op[a] IN
  /\ o.do = p.do /\ o.keys \subseteq p.keys
  /\ p.do \in Lists =>
       /\ o.prefix = p.prefix
       /\ o.prefix # <<"jobs">> => o.got \subseteq Under[o.prefix]
  /\ p.do = "listKeys" /\ a = "cleaner" =>
       (p.missing \cup p.got) \cap Seen(p, objects', index') \subseteq o.missing \cup o.got
  /\ o.at = "set" => p.at = "set" \/ (p.at = "index" /\ o.keys \subseteq index')
  /\ o.at = "unindex" => p.at = "unindex" \/ o.keys \cap Stored(objects') = {}

\* A step inside an operation.
GoesWell(a) == \E o \in OpType :
  /\ Becomes(a, o) /\ UNCHANGED <<processes, lied>>
  /\ OpOK(backend.name, o) /\ Follows(a, o)

\* The last step of an operation, o being the operation as it was answered.
EndsWith(a, o, answer) ==
  /\ Ends(a, o, answer) /\ Follows(a, o)
  /\ Truthful(Watch(o), answer) \/ o.do \in Excused
  /\ a = "cleaner" /\ o.do = "listKeys" /\ answer = "ok" /\ o.got = {} =>
       /\ UNCHANGED <<objects, index>>
       /\ Method("listKeys").by = "page" => Present \cap Under[o.prefix] = {}
EndsWell(a) == \E o \in OpType : \E answer : EndsWith(a, o, answer)

\* An operation that stays as it is.
LEMMA Follows0 ==
  ASSUME DataInv, NEW a \in Actors
  PROVE  Follows(a, op[a])
PROOF
<1>1. OpOK(backend.name, op[a])
  BY OpIs
<1> QED
  BY <1>1 DEF Follows, OpOK, ListOK

\* An operation that goes on, when the observation is what is well formed.
LEMMA GoesOnWatched ==
  ASSUME DataInv, NEW a \in Actors, NEW o \in OpType,
         GoesOn(a, o), OpOK(backend.name, Watch(o)), Follows(a, o)
  PROVE  GoesWell(a)
PROOF
<1> DEFINE w == Watch(o)
<1>1. Becomes(a, w) /\ UNCHANGED <<processes, lied>>
  BY DEF GoesOn
<1>2. /\ OpOK(backend.name, w) /\ w \in OpType
      /\ w.do = o.do /\ w.at = o.at /\ w.keys = o.keys
      /\ w.prefix = o.prefix /\ w.dirs = o.dirs /\ w.got = o.got
      /\ w.passed = o.passed /\ w.missing \subseteq o.missing
      /\ o.do \in Gets \cup Lists => w.missing = o.missing \cap Seen(o, objects', index')
  BY WatchIs
<1>3. o.do \in Lists => Seen(o, objects', index') = Seen(op[a], objects', index')
  BY DEF Follows, Seen
<1> HIDE DEF w
<1>4. Follows(a, w)
  BY <1>2, <1>3 DEF Follows, Lists
<1> QED
  BY <1>1, <1>2, <1>4 DEF GoesWell

\* An operation that goes on.
LEMMA GoesOnWell ==
  ASSUME DataInv, NEW a \in Actors, NEW o \in OpType,
         GoesOn(a, o), OpOK(backend.name, o), Follows(a, o)
  PROVE  GoesWell(a)
BY Watched, GoesOnWatched

\* An operation that is answered: with "no such key" only when there is none or
\* a blank one, unless the backend is excused, and with a list from its last step.
LEMMA AnswersWell ==
  ASSUME DataInv, NEW a \in Actors, NEW answer, Answered(a, answer),
         op[a].do \in Gets /\ answer = "nokey" =>
           objects'[Key(a)] = "none" \/ Blank(Key(a)) \/ op[a].do \in Excused,
         op[a].do \in Lists /\ answer = "ok" =>
           op[a].do = "listObjects" /\ op[a].at \in {"sizes", "again"}
  PROVE  EndsWell(a)
PROOF
<1> DEFINE o == op[a]
<1>1. o \in OpType /\ OpOK(backend.name, o) /\ Follows(a, o)
  BY OpIs, Follows0
<1>2. Ends(a, o, answer)
  BY DEF Answered
<1>3. /\ Watch(o).do = o.do /\ Watch(o).missing \subseteq o.missing
      /\ o.do \in Gets \cup Lists => Watch(o).missing = o.missing \cap Seen(o, objects', index')
  BY <1>1, WatchIs
<1>4. ASSUME o.do \in Gets, objects'[Key(a)] = "none"
      PROVE  Watch(o).missing = {}
  <2>1. o.keys = {Key(a)}
    BY <1>4, OpIs DEF Gets
  <2>2. Seen(o, objects', index') = Stored(objects') \cap {Key(a)}
    BY <1>4, <2>1 DEF Seen, Gets, Lists
  <2>3. Key(a) \notin Stored(objects')
    BY <1>4 DEF Stored
  <2> QED
    BY <1>3, <1>4, <2>2, <2>3
<1>5. ASSUME o.do \in Lists, answer = "ok", Method(o.do).by # "page"
      PROVE  Watch(o).missing = {}
  <2>1. o.do = "listObjects" /\ o.at \in {"sizes", "again"}
    BY <1>5
  <2>2. Method("listObjects") = Storage[backend.name].listObjects
    BY OpIs
  <2>3. o.missing = {}
    BY <1>1, <1>5, <2>1, <2>2 DEF OpOK, ListOK
  <2> QED
    BY <1>3, <2>3
<1>6. Truthful(Watch(o), answer) \/ o.do \in Excused
  <2>1. o.do \in Gets => o.keys = {Key(a)}
    BY OpIs DEF Gets
  <2>2. Watch(o).keys = o.keys
    BY <1>1, WatchIs
  <2> QED
    BY <1>3, <1>4, <1>5, <2>1, <2>2 DEF Truthful
<1>7. ~(o.do = "listKeys" /\ answer = "ok")
  BY DEF Lists
<1> QED
  BY <1>1, <1>2, <1>6, <1>7 DEF EndsWell, EndsWith

\* An operation that goes on and is no listing.
LEMMA FollowsPlain ==
  ASSUME DataInv, NEW a \in Actors, NEW o \in OpType,
         o.do = op[a].do, o.do \notin Lists, o.at \in Stages(backend.name, o.do),
         o.keys = op[a].keys \/ (o.do = "delete" /\ o.keys \subseteq op[a].keys),
         o.at = "set" => op[a].at = "set" \/ (op[a].at = "index" /\ o.keys \subseteq index'),
         o.at = "unindex" => op[a].at = "unindex" \/ o.keys \cap Stored(objects') = {}
  PROVE  Follows(a, o) /\ OpOK(backend.name, o)
PROOF
<1>1. OpOK(backend.name, op[a])
  BY OpIs
<1>2. OpOK(backend.name, o)
  BY <1>1 DEF OpOK
<1> QED
  BY <1>2 DEF Follows, Lists

\* create_bucket: it goes on, or is answered.
LEMMA CreateOutcome ==
  ASSUME DataInv, NEW a \in Actors, CreateLook(a) \/ CreateMake(a)
  PROVE  GoesWell(a) \/ EndsWell(a)
PROOF
<1> DEFINE o == [op[a] EXCEPT !.at = "make"]
<1>1. op[a] \in OpType /\ op[a].do = "create"
  BY OpIs DEF CreateLook, CreateMake, At
<1>2. o \in OpType /\ o.do = "create" /\ o.at = "make" /\ o.keys = op[a].keys
  BY <1>1 DEF OpType, Ats
<1>3. CASE Answered(a, "ok")
  BY <1>1, <1>3, AnswersWell DEF Gets, Lists
<1> HIDE DEF o
<1>4. CASE GoesOn(a, o)
  <2>1. o.at \in Stages(backend.name, o.do)
    BY <1>2 DEF Stages
  <2>2. Follows(a, o) /\ OpOK(backend.name, o)
    BY <1>1, <1>2, <2>1, FollowsPlain DEF Lists
  <2> QED
    BY <1>2, <1>4, <2>2, GoesOnWell
<1> QED
  BY <1>3, <1>4 DEF CreateLook, CreateMake, o

\* put_object.
LEMMA PutOutcome ==
  ASSUME DataInv, NEW a \in Actors, PutStep(a)
  PROVE  GoesWell(a) \/ EndsWell(a)
PROOF
<1> DEFINE b == backend.name
           p == op[a]
<1>1. p \in OpType /\ p.do = "put" /\ p.keys = {Key(a)} /\ OpOK(b, p) /\ Fits(b, Storage[b])
  BY OpIs DEF PutStep, Send, MakeDir, OpenFile, WriteFile, IndexNames, SetValue, At
<1>2. ASSUME NEW answer, Answered(a, answer)
      PROVE  EndsWell(a)
  BY <1>1, <1>2, AnswersWell DEF Gets, Lists
<1>3. /\ p.at \in {"mkdir", "open", "write"} => b = "localhost"
      /\ p.at \in {"index", "set"} => b = "redis"
  BY <1>1, AtMeans
<1>4. ASSUME NEW at \in {"open", "write", "set"}, GoesOn(a, [p EXCEPT !.at = at]),
             at = "set" => b = "redis" /\ p.at = "index" /\ {Key(a)} \subseteq index',
             at \in {"open", "write"} => b = "localhost"
      PROVE  GoesWell(a)
  <2> DEFINE o == [p EXCEPT !.at = at]
  <2>1. o \in OpType /\ o.do = "put" /\ o.at = at /\ o.keys = p.keys
    BY <1>1 DEF OpType, Ats
  <2> HIDE DEF o
  <2>2. o.at \in Stages(b, o.do)
    BY <1>4, <2>1 DEF Stages
  <2>3. Follows(a, o) /\ OpOK(backend.name, o)
    BY <1>1, <1>4, <2>1, <2>2, FollowsPlain DEF Lists
  <2> QED
    BY <1>4, <2>1, <2>3, GoesOnWell DEF o
<1>5. CASE Send(a)
  BY <1>2, <1>5 DEF Send
<1>6. CASE MakeDir(a)
  <2>1. p.at = "mkdir"
    BY <1>6 DEF MakeDir, At
  <2>2. CASE p.dirs = {}
    BY <1>3, <1>4, <1>6, <2>1, <2>2 DEF MakeDir
  <2>3. CASE p.dirs # {}
    <3> DEFINE d == CHOOSE x \in p.dirs : \A y \in p.dirs : Len(x) <= Len(y)
               o == [p EXCEPT !.dirs = p.dirs \ {d}]
    <3>1. GoesOn(a, o) \/ Answered(a, "raises")
      BY <1>6, <2>3 DEF MakeDir
    <3> HIDE DEF d
    <3>2. o \in OpType /\ o.do = "put" /\ o.at = "mkdir" /\ o.keys = p.keys
      BY <1>1, <2>1 DEF OpType
    <3>3. o.at \in Stages(b, o.do)
      BY <1>3, <2>1, <3>2 DEF Stages
    <3> HIDE DEF o
    <3>4. Follows(a, o) /\ OpOK(backend.name, o)
      BY <1>1, <3>2, <3>3, FollowsPlain DEF Lists
    <3> QED
      BY <1>2, <3>1, <3>2, <3>4, GoesOnWell
  <2> QED
    BY <2>2, <2>3
<1>7. CASE OpenFile(a)
  <2>1. p.at = "open"
    BY <1>7 DEF OpenFile, At
  <2> QED
    BY <1>2, <1>3, <1>4, <1>7, <2>1 DEF OpenFile
<1>8. CASE WriteFile(a)
  BY <1>2, <1>8 DEF WriteFile
<1>9. CASE IndexNames(a)
  <2>1. p.at = "index" /\ Effect(a) /\ GoesOn(a, [p EXCEPT !.at = "set"])
    BY <1>9 DEF IndexNames, At
  <2>2. Key(a) \in index'
    BY <2>1 DEF Effect
  <2> QED
    BY <1>3, <1>4, <2>1, <2>2
<1>10. CASE SetValue(a)
  BY <1>2, <1>10 DEF SetValue
<1> QED
  BY <1>5, <1>6, <1>7, <1>8, <1>9, <1>10 DEF PutStep

\* get_object and head_object.
LEMMA GetOutcome ==
  ASSUME DataInv, NEW a \in Actors, Exists(a) \/ Fetch(a) \/ HeadObject(a)
  PROVE  GoesWell(a) \/ EndsWell(a)
PROOF
<1> DEFINE b == backend.name
           p == op[a]
           k == Key(a)
<1>1. p \in OpType /\ OpOK(b, p) /\ Fits(b, Storage[b]) /\ \A do : Method(do) = Storage[b][do]
  BY OpIs
<1>2. /\ Exists(a) \/ Fetch(a) => p.do = "get"
      /\ HeadObject(a) => p.do = "head"
      /\ p.do \in Gets /\ k \in Keys /\ UNCHANGED objects
  <2>1. /\ Exists(a) \/ Fetch(a) => p.do = "get"
        /\ HeadObject(a) => p.do = "head"
    BY <1>1, AtMeans DEF Exists, Fetch, HeadObject, At
  <2>2. UNCHANGED objects
    BY DEF Exists, Fetch, HeadObject, store
  <2> QED
    BY <2>1, <2>2, OpIs DEF Gets
<1>3. ASSUME NEW answer, Answered(a, answer), answer = "nokey" => objects[k] = "none" \/ Blank(k)
      PROVE  EndsWell(a)
  BY <1>2, <1>3, AnswersWell DEF Gets, Lists
<1>4. CASE Exists(a)
  <2> DEFINE o == [p EXCEPT !.at = "fetch"]
  <2>1. o \in OpType /\ o.do = "get" /\ o.at = "fetch" /\ o.keys = p.keys
    BY <1>1, <1>2, <1>4 DEF OpType, Ats
  <2>2. (objects[k] = "none" /\ Answered(a, "nokey")) \/ GoesOn(a, o)
    BY <1>4 DEF Exists
  <2> HIDE DEF o
  <2>3. Follows(a, o) /\ OpOK(backend.name, o)
    <3>1. o.at \in Stages(b, o.do)
      BY <2>1 DEF Stages
    <3> QED
      BY <1>2, <1>4, <2>1, <3>1, FollowsPlain DEF Lists
  <2> QED
    BY <1>3, <2>1, <2>2, <2>3, GoesOnWell
<1>5. CASE Fetch(a)
  <2>1. Answered(a, Content(k))
    BY <1>5 DEF Fetch
  <2>2. Content(k) = "nokey" => objects[k] = "none" \/ Blank(k)
    <3>1. objects[k] \in {"none", "empty", "data"}
      BY <1>2 DEF DataInv, StoreOK
    <3> QED
      BY <3>1 DEF Content
  <2> QED
    BY <1>3, <2>1, <2>2
<1>6. CASE HeadObject(a)
  <2>1. Answered(a, CASE objects[k] = "none" -> Method("head").gone
                      [] Blank(k) -> "nokey"
                      [] OTHER -> "data")
    BY <1>6 DEF HeadObject
  <2> QED
    BY <1>3, <2>1
<1> QED
  BY <1>4, <1>5, <1>6

\* delete_objects.
LEMMA DeleteOutcome ==
  ASSUME DataInv, NEW a \in Actors, DeleteStep(a)
  PROVE  GoesWell(a) \/ EndsWell(a)
PROOF
<1> DEFINE b == backend.name
           p == op[a]
<1>1. p \in OpType /\ p.do = "delete" /\ OpOK(b, p) /\ Fits(b, Storage[b])
  BY OpIs DEF DeleteStep, DeleteBatch, RemoveFile, RemoveDir, DelKeys, Unindex, At
<1>2. ASSUME NEW answer, Answered(a, answer)
      PROVE  EndsWell(a)
  BY <1>1, <1>2, AnswersWell DEF Gets, Lists
<1>3. ASSUME NEW o \in OpType, GoesOn(a, o), o.do = "delete", o.keys \subseteq p.keys,
             o.at \in Stages(b, "delete"),
             o.at = "unindex" => o.keys \cap Stored(objects') = {}
      PROVE  GoesWell(a)
  <2>1. o.at # "set"
    BY <1>3 DEF Stages
  <2>2. Follows(a, o) /\ OpOK(backend.name, o)
    BY <1>1, <1>3, <2>1, FollowsPlain DEF Lists
  <2> QED
    BY <1>3, <2>2, GoesOnWell
<1>4. /\ b = "localhost" => Stages(b, "delete") = {"remove", "rmdir"}
      /\ b = "redis" => Stages(b, "delete") = {"del", "unindex"}
      /\ p.at \in {"remove", "rmdir"} => b = "localhost"
      /\ p.at \in {"del", "unindex"} => b = "redis"
      /\ p.at \in Stages(b, "delete")
  BY <1>1, AtMeans DEF Stages, OpOK
<1>5. CASE DeleteBatch(a)
  <2> DEFINE o == [p EXCEPT !.keys = AfterBatch(p.keys)]
  <2>1. GoesOn(a, o) \/ \E answer : Answered(a, answer)
    BY <1>5 DEF DeleteBatch
  <2>2. AfterBatch(p.keys) \subseteq p.keys /\ p.keys \subseteq Keys
    BY <1>1 DEF AfterBatch, OpType
  <2>3. o \in OpType /\ o.do = "delete" /\ o.keys \subseteq p.keys /\ o.at = "batch" /\ p.at = "batch"
    BY <1>1, <1>5, <2>2 DEF OpType, DeleteBatch, At
  <2> HIDE DEF o
  <2> QED
    BY <1>2, <1>3, <1>4, <2>1, <2>3
<1>6. CASE RemoveFile(a)
  <2>1. p.at = "remove"
    BY <1>6 DEF RemoveFile, At
  <2>2. CASE p.keys = {}
    BY <1>2, <1>6, <2>2 DEF RemoveFile
  <2>3. CASE p.keys # {}
    <3> DEFINE d == Front(Key(a))
               o == [p EXCEPT !.at = "rmdir", !.prefix = d]
    <3>1. GoesOn(a, o)
      BY <1>6, <2>3 DEF RemoveFile
    <3>2. d \in Paths
      <4>1. Key(a) \in Keys
        BY <2>3, OpIs
      <4> QED
        BY <4>1, FrontPaths DEF Paths
    <3> HIDE DEF d
    <3>3. o \in OpType /\ o.do = "delete" /\ o.keys = p.keys /\ o.at = "rmdir"
      BY <1>1, <3>2 DEF OpType, Ats
    <3> HIDE DEF o
    <3> QED
      BY <1>3, <1>4, <2>1, <3>1, <3>3
  <2> QED
    BY <2>2, <2>3
<1>7. CASE RemoveDir(a)
  <2>1. p.at = "rmdir"
    BY <1>7 DEF RemoveDir, At
  <2> DEFINE o1 == [p EXCEPT !.prefix = Front(p.prefix)]
             o2 == [p EXCEPT !.at = "remove", !.keys = p.keys \ {Key(a)}]
  <2>2. (p.prefix # <<>> /\ GoesOn(a, o1)) \/ GoesOn(a, o2)
    BY <1>7 DEF RemoveDir
  <2>3. p.prefix # <<>> => Front(p.prefix) \in Paths
    BY <1>1, FrontPaths DEF Paths, OpType
  <2>4. p.prefix # <<>> => /\ o1 \in OpType /\ o1.do = "delete" /\ o1.keys = p.keys
                           /\ o1.at = "rmdir"
    BY <1>1, <2>1, <2>3 DEF OpType
  <2>5. o2 \in OpType /\ o2.do = "delete" /\ o2.keys \subseteq p.keys /\ o2.at = "remove"
    BY <1>1 DEF OpType, Ats
  <2> HIDE DEF o1, o2
  <2> QED
    BY <1>3, <1>4, <2>1, <2>2, <2>4, <2>5
<1>8. CASE DelKeys(a)
  <2> DEFINE o == [p EXCEPT !.at = "unindex"]
  <2>1. p.at = "del" /\ Without(p.keys)
    BY <1>8 DEF DelKeys, At, Effect
  <2>2. GoesOn(a, o) \/ \E answer : Answered(a, answer)
    BY <1>8 DEF DelKeys
  <2>3. o \in OpType /\ o.do = "delete" /\ o.keys = p.keys /\ o.at = "unindex"
    BY <1>1 DEF OpType, Ats
  <2>4. p.keys \cap Stored(objects') = {}
    BY <2>1 DEF Without, Stored
  <2> HIDE DEF o
  <2> QED
    BY <1>2, <1>3, <1>4, <2>1, <2>2, <2>3, <2>4
<1>9. CASE Unindex(a)
  BY <1>2, <1>9 DEF Unindex
<1> QED
  BY <1>5, <1>6, <1>7, <1>8, <1>9 DEF DeleteStep

\* A listing that has found keys goes on from the one before.
LEMMA FoundFollows ==
  ASSUME DataInv, NEW a \in Actors, op[a].do \in Lists,
         NEW ks \in SUBSET Keys, op[a].prefix # <<"jobs">> => ks \subseteq Under[op[a].prefix],
         NEW o, o.do = op[a].do, o.at = op[a].at, o.keys = op[a].keys, o.prefix = op[a].prefix,
         o.got = op[a].got \cup (ks \cap Wanted(a)), o.missing = op[a].missing \ ks
  PROVE  Follows(a, o)
PROOF
<1>1. OpOK(backend.name, op[a]) /\ Fits(backend.name, Storage[backend.name])
  BY OpIs
<1>2. ListOK(backend.name, op[a])
  BY <1>1 DEF OpOK
<1>3. o.at \notin {"set", "unindex"}
  BY <1>1, AtMeans DEF Lists
<1>4. a = "cleaner" => Wanted(a) = Keys
  BY DEF Wanted
<1> QED
  BY <1>2, <1>3, <1>4 DEF Follows, ListOK

\* What finding changes.
LEMMA FoundIs ==
  ASSUME DataInv, NEW a \in Actors, op[a].do \in Lists, NEW ks \in SUBSET Keys
  PROVE  LET o == Found(op[a], a, ks) IN
         /\ o \in OpType
         /\ o.do = op[a].do /\ o.at = op[a].at /\ o.keys = op[a].keys /\ o.prefix = op[a].prefix
         /\ o.dirs = op[a].dirs /\ o.passed = op[a].passed
         /\ o.got = op[a].got \cup (ks \cap Wanted(a)) /\ o.missing = op[a].missing \ ks
PROOF
<1> DEFINE p == op[a]
           w == ks \cap Wanted(a)
           o == [p EXCEPT !.got = p.got \cup w, !.missing = p.missing \ ks]
<1>1. p \in OpType
  BY OpIs
<1>2. w \subseteq Keys
  OBVIOUS
<1> HIDE DEF w
<1>3. /\ o \in OpType
      /\ o.do = p.do /\ o.at = p.at /\ o.keys = p.keys /\ o.prefix = p.prefix
      /\ o.dirs = p.dirs /\ o.passed = p.passed
      /\ o.got = p.got \cup w /\ o.missing = p.missing \ ks
  BY <1>1, <1>2 DEF OpType
<1> HIDE DEF o
<1>4. Found(p, a, ks) = o
  BY DEF Found, o, w
<1> QED
  BY <1>3, <1>4 DEF w

\* A listing that is complete is answered; on the backends that page, when
\* nothing is missing.
LEMMA ListedWell ==
  ASSUME DataInv, NEW a \in Actors, NEW o \in OpType, o.do \in Lists,
         Listed(a, o), Follows(a, o), UNCHANGED store, o.prefix \in DOMAIN Under,
         o.prefix # <<"jobs">> => o.dirs \subseteq {o.prefix},
         Method(o.do).by # "page" => o.missing \cap Seen(o, objects', index') = {},
         Method(o.do).by = "page" /\ a = "cleaner" /\ o.got = {} =>
           Present \cap Under[o.prefix] = {}
  PROVE  GoesWell(a) \/ EndsWell(a)
PROOF
<1> DEFINE b == backend.name
<1>1. Watch(o).missing = o.missing \cap Seen(o, objects', index') /\ Watch(o).do = o.do
  BY WatchIs
<1>2. CASE o.do = "listKeys"
  <2>1. Ends(a, o, "ok")
    BY <1>2 DEF Listed
  <2>2. Truthful(Watch(o), "ok")
    BY <1>1, <1>2 DEF Truthful, Gets
  <2>3. UNCHANGED <<objects, index>>
    BY DEF store
  <2> QED
    BY <1>2, <2>1, <2>2, <2>3 DEF EndsWell, EndsWith
<1>3. CASE o.do = "listObjects"
  <2> DEFINE s == [o EXCEPT !.at = "sizes"]
             w == Watch(s)
  <2>1. GoesOn(a, s)
    BY <1>3 DEF Listed
  <2>2. /\ s \in OpType /\ s.at = "sizes"
        /\ s.do = o.do /\ s.keys = o.keys /\ s.prefix = o.prefix
        /\ s.dirs = o.dirs /\ s.got = o.got /\ s.passed = o.passed /\ s.missing = o.missing
    BY DEF OpType, Ats
  <2> HIDE DEF s
  <2>3. Follows(a, s)
    BY <1>3, <2>2 DEF Follows
  <2>4. Seen(s, objects', index') = Seen(o, objects', index')
    BY <1>3, <2>2 DEF Seen
  <2>5. /\ w \in OpType /\ w.at = "sizes"
        /\ w.do = o.do /\ w.keys = o.keys /\ w.prefix = o.prefix
        /\ w.dirs = o.dirs /\ w.got = o.got
        /\ w.missing = o.missing \cap Seen(o, objects', index')
    BY <2>2, <2>4, WatchIs
  <2> HIDE DEF w
  <2>6. Method(o.do).by = Storage[b].listObjects.by
    BY <1>3, OpIs
  <2>7. o.prefix # <<"jobs">> => o.got \subseteq Under[o.prefix]
    BY DEF Follows
  <2>8. ListOK(b, w)
    BY <2>5, <2>6, <2>7 DEF ListOK
  <2>9. OpOK(b, w)
    BY <1>3, <2>5, <2>8 DEF OpOK, Stages
  <2> QED
    BY <2>1, <2>2, <2>3, <2>9, GoesOnWatched DEF w
<1> QED
  BY <1>2, <1>3 DEF Lists

\* A listing that asks for page after page: it has passed the keys before its
\* cursor, and missed none of them.
LEMMA PagesOutcome ==
  ASSUME DataInv, NEW a \in Actors, ListPages(a)
  PROVE  GoesWell(a) \/ EndsWell(a)
PROOF
<1> DEFINE b == backend.name
           p == op[a]
           rest == Rest(p)
           page == FirstOf(rest, PageSize)
           found == Found(p, a, page)
           next == [found EXCEPT !.passed = Cursor(page)]
<1>1. /\ p.at = "pages" /\ p.do \in Lists /\ b \notin {"localhost", "redis"}
      /\ ListOK(b, p) /\ p \in OpType
      /\ Method(p.do).by = "pages"
  <2>1. p.at = "pages"
    BY DEF ListPages
  <2>2. OpOK(b, p) /\ Fits(b, Storage[b]) /\ p \in OpType
    BY OpIs
  <2>3. p.do \in Lists /\ b \notin {"localhost", "redis"} /\ p.at = Storage[b][p.do].by
    BY <2>1, <2>2, AtMeans
  <2> QED
    BY <2>1, <2>2, <2>3, OpIs DEF OpOK
<1>2. /\ UNCHANGED store /\ objects' = objects /\ index' = index
      /\ IF page = rest THEN Listed(a, found) ELSE GoesOn(a, next)
  BY DEF ListPages, store
<1>3. /\ p.prefix \in DOMAIN Under /\ Under[p.prefix] \subseteq Keys
      /\ rest = (Present \cap Under[p.prefix]) \ p.passed
      /\ page \subseteq rest
  BY <1>1, UnderJob DEF ListOK, Rest, FirstOf
<1>4. Seen(p, objects', index') = Present \cap Under[p.prefix]
  BY <1>1, <1>2 DEF Seen, ListableIn, Present
<1>5. rest \subseteq Keys /\ page \in SUBSET Keys /\ PageSize \in Nat
  BY <1>3, BoundsAssumption
<1>6. /\ found \in OpType
      /\ found.do = p.do /\ found.at = p.at /\ found.keys = p.keys /\ found.prefix = p.prefix
      /\ found.dirs = p.dirs /\ found.passed = p.passed
      /\ found.got = p.got \cup (page \cap Wanted(a)) /\ found.missing = p.missing \ page
  BY <1>1, <1>5, FoundIs
<1>7. Seen(found, objects', index') = Present \cap Under[p.prefix]
  BY <1>1, <1>4, <1>6 DEF Seen
<1>8. p.missing \cap p.passed = {}
  BY <1>1 DEF ListOK
<1>9. p.prefix # <<"jobs">> => p.dirs \subseteq {p.prefix}
  BY <1>1 DEF ListOK
<1>10. CASE page = rest
  <2>1. Follows(a, found)
    <3> HIDE DEF page, found
    <3> QED
      BY <1>1, <1>3, <1>5, <1>6, FoundFollows
  <2>2. found.missing \cap Seen(found, objects', index') = {}
    BY <1>3, <1>6, <1>7, <1>8, <1>10
  <2>3. Listed(a, found)
    BY <1>2, <1>10
  <2> HIDE DEF found
  <2> QED
    BY <1>1, <1>2, <1>3, <1>6, <1>9, <2>1, <2>2, <2>3, ListedWell
<1>11. CASE page # rest
  <2> DEFINE w == Watch(next)
  <2>1. GoesOn(a, next)
    BY <1>2, <1>11
  <2>2. Cursor(page) \subseteq Keys
    BY DEF Cursor
  <2> HIDE DEF found
  <2>3. /\ next \in OpType
        /\ next.do = p.do /\ next.at = p.at /\ next.keys = p.keys /\ next.prefix = p.prefix
        /\ next.dirs = p.dirs /\ next.passed = Cursor(page)
        /\ next.got = p.got \cup (page \cap Wanted(a)) /\ next.missing = p.missing \ page
    BY <1>6, <2>2 DEF OpType
  <2> HIDE DEF next, page
  <2>4. Follows(a, next)
    BY <1>1, <1>3, <1>5, <2>3, FoundFollows
  <2>5. Seen(next, objects', index') = Present \cap Under[p.prefix]
    BY <1>1, <1>4, <2>3 DEF Seen
  <2>6. /\ w \in OpType /\ w.do = p.do /\ w.at = p.at /\ w.keys = p.keys
        /\ w.prefix = p.prefix /\ w.dirs = p.dirs /\ w.passed = Cursor(page)
        /\ w.got = next.got
        /\ w.missing = (p.missing \ page) \cap Present \cap Under[p.prefix]
    BY <1>1, <2>3, <2>5, WatchIs
  <2> HIDE DEF w
  <2>7. w.missing \cap w.passed = {}
    <3> SUFFICES ASSUME NEW k \in w.missing, k \in w.passed
                 PROVE  FALSE
      OBVIOUS
    <3>1. k \in rest
      BY <1>3, <1>8, <2>6
    <3>2. PICK l \in page : Place[k] <= Place[l]
      BY <2>6 DEF Cursor
    <3>3. k \in page
      BY <1>5, <3>1, <3>2, FirstDown DEF page
    <3> QED
      BY <2>6, <3>3
  <2>8. w.prefix # <<"jobs">> => w.got \subseteq Under[w.prefix]
    BY <1>1, <2>3, <2>4, <2>6 DEF Follows
  <2>9. ListOK(b, w)
    BY <1>1, <1>3, <1>9, <2>6, <2>7, <2>8 DEF ListOK
  <2>10. p.at \in Stages(b, p.do)
    BY OpIs DEF OpOK
  <2>11. OpOK(b, w)
    BY <1>1, <2>6, <2>9, <2>10 DEF OpOK, Lists
  <2> QED
    BY <2>1, <2>3, <2>4, <2>11, GoesOnWatched DEF w
<1> QED
  BY <1>10, <1>11

\* A listing that is cut at one page.
LEMMA PageOutcome ==
  ASSUME DataInv, NEW a \in Actors, ListOnePage(a)
  PROVE  GoesWell(a) \/ EndsWell(a)
PROOF
<1> DEFINE b == backend.name
           p == op[a]
           rest == Rest(p)
           page == FirstOf(rest, PageSize)
           found == Found(p, a, page)
<1>1. /\ p.at = "page" /\ p.do \in Lists /\ ListOK(b, p) /\ Method(p.do).by = "page"
  <2>1. p.at = "page"
    BY DEF ListOnePage
  <2>2. OpOK(b, p) /\ Fits(b, Storage[b])
    BY OpIs
  <2>3. p.do \in Lists /\ p.at = Storage[b][p.do].by
    BY <2>1, <2>2, AtMeans
  <2> QED
    BY <2>1, <2>2, <2>3, OpIs DEF OpOK
<1>2. UNCHANGED store /\ Listed(a, found)
  BY DEF ListOnePage
<1>3. /\ p.prefix \in DOMAIN Under /\ Under[p.prefix] \subseteq Keys
      /\ rest = Present \cap Under[p.prefix] /\ page \subseteq rest
  BY <1>1, UnderJob DEF ListOK, Rest, FirstOf
<1>4. rest \in SUBSET Keys /\ page \in SUBSET Keys /\ PageSize \in Nat \ {0}
  BY <1>3, BoundsAssumption
<1>5. rest # {} => page # {}
  <2> HIDE DEF rest
  <2> QED
    BY <1>4, FirstSome
<1> HIDE DEF page
<1>6. /\ found \in OpType
      /\ found.do = p.do /\ found.at = p.at /\ found.keys = p.keys /\ found.prefix = p.prefix
      /\ found.dirs = p.dirs
      /\ found.got = p.got \cup (page \cap Wanted(a)) /\ found.missing = p.missing \ page
  BY <1>1, <1>4, FoundIs
<1> HIDE DEF found
<1>7. Follows(a, found)
  BY <1>1, <1>3, <1>4, <1>6, FoundFollows
<1>8. a = "cleaner" /\ found.got = {} => Present \cap Under[found.prefix] = {}
  <2>1. a = "cleaner" => Wanted(a) = Keys
    BY DEF Wanted
  <2> QED
    BY <1>3, <1>4, <1>5, <1>6, <2>1
<1>9. p.prefix # <<"jobs">> => p.dirs \subseteq {p.prefix}
  BY <1>1 DEF ListOK
<1> QED
  BY <1>1, <1>2, <1>3, <1>6, <1>7, <1>8, <1>9, ListedWell

\* A listing in one answer.
LEMMA WholeOutcome ==
  ASSUME DataInv, NEW a \in Actors, ListWhole(a)
  PROVE  GoesWell(a) \/ EndsWell(a)
PROOF
<1> DEFINE b == backend.name
           p == op[a]
           ks == Present \cap Under[p.prefix]
           found == Found(p, a, ks)
<1>1. /\ p.at = "whole" /\ p.do \in Lists /\ ListOK(b, p) /\ Method(p.do).by = "whole"
      /\ b # "redis"
  <2>1. p.at = "whole"
    BY DEF ListWhole
  <2>2. OpOK(b, p) /\ Fits(b, Storage[b])
    BY OpIs
  <2>3. p.do \in Lists /\ p.at = Storage[b][p.do].by /\ b # "redis"
    BY <2>1, <2>2, AtMeans
  <2> QED
    BY <2>1, <2>2, <2>3, OpIs DEF OpOK
<1>2. UNCHANGED store /\ Listed(a, found) /\ objects' = objects
  BY DEF ListWhole, store
<1>3. p.prefix \in DOMAIN Under /\ ks \in SUBSET Keys /\ ks \subseteq Under[p.prefix]
  BY <1>1, UnderJob DEF ListOK
<1>4. Stored(objects') \cap Under[p.prefix] = ks
  BY <1>2 DEF Present
<1> HIDE DEF ks
<1>5. /\ found \in OpType
      /\ found.do = p.do /\ found.at = p.at /\ found.keys = p.keys /\ found.prefix = p.prefix
      /\ found.dirs = p.dirs
      /\ found.got = p.got \cup (ks \cap Wanted(a)) /\ found.missing = p.missing \ ks
  BY <1>1, <1>3, FoundIs
<1> HIDE DEF found
<1>6. Follows(a, found)
  BY <1>1, <1>3, <1>5, FoundFollows
<1>7. Seen(found, objects', index') = ks
  BY <1>1, <1>4, <1>5 DEF Seen, ListableIn
<1>8. p.prefix # <<"jobs">> => p.dirs \subseteq {p.prefix}
  BY <1>1 DEF ListOK
<1> QED
  BY <1>1, <1>2, <1>3, <1>5, <1>6, <1>7, <1>8, ListedWell

\* A walk over directories: what is missing is below one that is still to do.
LEMMA WalkOutcome ==
  ASSUME DataInv, NEW a \in Actors, WalkDir(a)
  PROVE  GoesWell(a) \/ EndsWell(a)
PROOF
<1> DEFINE b == backend.name
           p == op[a]
<1>1. /\ p.at = "walk" /\ p.do \in Lists /\ ListOK(b, p) /\ b \in {"localhost", "redis"}
      /\ p \in OpType /\ Method(p.do).by = "walk"
  <2>1. p.at = "walk"
    BY DEF WalkDir
  <2>2. OpOK(b, p) /\ Fits(b, Storage[b]) /\ p \in OpType
    BY OpIs
  <2>3. p.do \in Lists /\ b \in {"localhost", "redis"}
    BY <2>1, <2>2, AtMeans
  <2>4. Storage[b][p.do].by = "walk"
    BY <2>2, <2>3 DEF Fits, Lists
  <2> QED
    BY <2>1, <2>2, <2>3, <2>4, OpIs DEF OpOK
<1>2. UNCHANGED store /\ objects' = objects /\ index' = index
  BY DEF WalkDir, store
<1>3. PICK d \in p.dirs :
        \E found \in {[Found(p, a, In[d] \cap Listable)
                         EXCEPT !.dirs = (@ \ {d}) \cup ((In[d] \cap index) \ Keys)]} :
          IF found.dirs = {} THEN Listed(a, found) ELSE GoesOn(a, found)
  BY DEF WalkDir
<1> DEFINE ks == In[d] \cap Listable
           f == Found(p, a, ks)
           dirs == (p.dirs \ {d}) \cup ((In[d] \cap index) \ Keys)
           found == [f EXCEPT !.dirs = dirs]
<1>4. /\ p.prefix \in DOMAIN Under /\ Under[p.prefix] \subseteq Keys
      /\ d \in DOMAIN Under /\ p.dirs \subseteq DOMAIN Under
  BY <1>1, UnderJob DEF ListOK, OpType
<1>5. Listable \subseteq Keys
  BY DEF Listable, ListableIn, Stored
<1>6. p.prefix # <<"jobs">> =>
        p.dirs \subseteq {p.prefix} /\ d = p.prefix /\ In[d] \subseteq Under[d] /\ Under[d] \subseteq Keys
  BY <1>1, <1>4, InJob, UnderIs DEF ListOK
<1>7. /\ ks \in SUBSET Keys /\ (p.prefix # <<"jobs">> => ks \subseteq Under[p.prefix])
      /\ dirs \subseteq DOMAIN Under /\ (p.prefix # <<"jobs">> => dirs \subseteq {p.prefix})
  BY <1>4, <1>5, <1>6, InJob
<1>8. IF found.dirs = {} THEN Listed(a, found) ELSE GoesOn(a, found)
  <2>1. f.dirs = p.dirs
    BY <1>1, <1>7, FoundIs
  <2> QED
    BY <1>3, <2>1
<1>9. /\ f \in OpType
      /\ f.do = p.do /\ f.at = p.at /\ f.keys = p.keys /\ f.prefix = p.prefix
      /\ f.got = p.got \cup (ks \cap Wanted(a)) /\ f.missing = p.missing \ ks
  BY <1>1, <1>7, FoundIs
<1>10. Seen(p, objects', index') = Listable \cap Under[p.prefix]
  BY <1>1, <1>2 DEF Seen, Listable
<1>11. ASSUME NEW k \in (p.missing \ ks) \cap Listable \cap Under[p.prefix]
       PROVE  \E e \in dirs : e \in Dirs(k)
  <2>1. PICK e \in p.dirs : e \in Dirs(k)
    BY <1>1 DEF ListOK
  <2>2. CASE e # d
    BY <2>1, <2>2
  <2>3. CASE e = d
    <3>1. k \in Keys
      BY <1>5
    <3>2. k \notin In[d]
      BY <1>11
    <3>3. PICK c \in Dirs(k) : c \in In[d] /\ c \notin Keys
      BY <2>1, <2>3, <3>1, <3>2, Steps
    <3>4. Dirs(k) \subseteq index
      <4>1. StoreOK(b, objects, index)
        BY DEF DataInv
      <4> QED
        BY <1>1, <3>1, <4>1 DEF StoreOK, Listable, ListableIn
    <3> QED
      BY <3>3, <3>4
  <2> QED
    BY <2>2, <2>3
<1> HIDE DEF ks, f, dirs
<1>12. /\ found \in OpType
       /\ found.do = p.do /\ found.at = p.at /\ found.keys = p.keys /\ found.prefix = p.prefix
       /\ found.dirs = dirs
       /\ found.got = p.got \cup (ks \cap Wanted(a)) /\ found.missing = p.missing \ ks
  BY <1>7, <1>9 DEF OpType
<1> HIDE DEF found
<1>13. Follows(a, found)
  BY <1>1, <1>7, <1>12, FoundFollows
<1>14. Seen(found, objects', index') = Listable \cap Under[p.prefix]
  BY <1>1, <1>10, <1>12 DEF Seen
<1>15. CASE found.dirs = {}
  <2>1. Listed(a, found)
    BY <1>8, <1>15
  <2>2. found.missing \cap Seen(found, objects', index') = {}
    BY <1>11, <1>12, <1>14, <1>15
  <2> QED
    BY <1>1, <1>2, <1>4, <1>7, <1>12, <1>13, <2>1, <2>2, ListedWell
<1>16. CASE found.dirs # {}
  <2> DEFINE w == Watch(found)
  <2>1. GoesOn(a, found)
    BY <1>8, <1>16
  <2>2. /\ w \in OpType /\ w.do = p.do /\ w.at = p.at /\ w.keys = p.keys
        /\ w.prefix = p.prefix /\ w.dirs = dirs /\ w.got = found.got
        /\ w.missing = (p.missing \ ks) \cap Listable \cap Under[p.prefix]
    BY <1>1, <1>12, <1>14, WatchIs
  <2> HIDE DEF w
  <2>3. w.prefix # <<"jobs">> => w.got \subseteq Under[w.prefix]
    BY <1>1, <1>12, <1>13, <2>2 DEF Follows
  <2>4. ListOK(b, w)
    BY <1>1, <1>4, <1>7, <1>11, <2>2, <2>3 DEF ListOK
  <2>5. p.at \in Stages(b, p.do)
    BY OpIs DEF OpOK
  <2>6. OpOK(b, w)
    BY <1>1, <2>2, <2>4, <2>5 DEF OpOK, Lists
  <2> QED
    BY <1>12, <1>13, <2>1, <2>6, GoesOnWatched DEF w
<1> QED
  BY <1>15, <1>16

\* The sizes of what has been listed.
LEMMA SizesOutcome ==
  ASSUME DataInv, NEW a \in Actors, Sizes(a) \/ SizesAgain(a)
  PROVE  GoesWell(a) \/ EndsWell(a)
PROOF
<1> DEFINE b == backend.name
           p == op[a]
           how == Method("listObjects").sizes
           missing == {k \in p.got : objects[k] = "none" \/ (how = "get" /\ Blank(k))}
           o == [p EXCEPT !.got = p.got \ missing, !.at = "again"]
<1>1. /\ p.at \in {"sizes", "again"} /\ p.do = "listObjects" /\ ListOK(b, p) /\ p \in OpType
      /\ p.keys \subseteq Keys
  <2>1. p.at \in {"sizes", "again"}
    BY DEF Sizes, SizesAgain
  <2>2. OpOK(b, p) /\ Fits(b, Storage[b]) /\ p \in OpType
    BY OpIs
  <2>3. p.do = "listObjects"
    BY <2>1, <2>2, AtMeans
  <2> QED
    BY <2>1, <2>2, <2>3 DEF OpOK, Lists, OpType
<1>2. (\E answer : Answered(a, answer)) \/ (p.at = "sizes" /\ GoesOn(a, o))
  BY DEF Sizes, SizesAgain
<1>3. ASSUME NEW answer, Answered(a, answer)
      PROVE  EndsWell(a)
  BY <1>1, <1>3, AnswersWell DEF Gets
<1>4. CASE p.at = "sizes" /\ GoesOn(a, o)
  <2>1. /\ o \in OpType /\ o.at = "again" /\ o.do = p.do /\ o.keys = p.keys
        /\ o.prefix = p.prefix /\ o.dirs = p.dirs /\ o.missing = p.missing
        /\ o.got \subseteq p.got
    BY <1>1 DEF OpType, Ats
  <2> HIDE DEF o
  <2>2. ListOK(b, o)
    BY <1>1, <1>4, <2>1 DEF ListOK
  <2>3. OpOK(b, o)
    BY <1>1, <2>1, <2>2 DEF OpOK, Stages
  <2>4. Follows(a, o)
    BY <1>1, <2>1, <2>2 DEF Follows, ListOK
  <2> QED
    BY <1>4, <2>1, <2>3, <2>4, GoesOnWell
<1> QED
  BY <1>2, <1>3, <1>4

\* A request that fails.
LEMMA FailureOutcome ==
  ASSUME DataInv, NEW a \in Actors, FailingRequest(a)
  PROVE  GoesWell(a) \/ EndsWell(a)
PROOF
<1> DEFINE b == backend.name
           p == op[a]
           o == [p EXCEPT !.keys = AfterBatch(p.keys)]
<1>1. /\ p \in OpType /\ OpOK(b, p) /\ Fits(b, Storage[b]) /\ \A do : Method(do) = Storage[b][do]
  BY OpIs
<1>2. PICK how \in Fails(p.do) : Failed(a, how)
  BY DEF FailingRequest
<1>3. b # "localhost"
  BY DEF FailingRequest
<1>4. CASE how = "again"
  <2>1. GoesOn(a, p)
    BY <1>2, <1>4 DEF Failed
  <2> QED
    BY <1>1, <2>1, Follows0, GoesOnWell
<1>5. CASE how = "lost" /\ p.do = "delete" /\ AfterBatch(p.keys) # {}
  <2>1. GoesOn(a, o)
    BY <1>2, <1>5 DEF Failed
  <2>2. AfterBatch(p.keys) \subseteq p.keys /\ p.keys \subseteq Keys
    BY <1>1 DEF AfterBatch, OpType
  <2>3. o \in OpType /\ o.do = "delete" /\ o.keys \subseteq p.keys /\ o.at = p.at
    BY <1>1, <1>5, <2>2 DEF OpType
  <2> HIDE DEF o
  <2>4. o.at \in Stages(b, o.do)
    BY <1>1, <1>5, <2>3 DEF OpOK
  <2>5. o.at # "set"
    BY <2>3, <2>4 DEF Stages
  <2>6. Follows(a, o) /\ OpOK(b, o)
    BY <1>5, <2>3, <2>4, <2>5, FollowsPlain DEF Lists
  <2> QED
    BY <2>1, <2>3, <2>6, GoesOnWell
<1>6. CASE how # "again" /\ ~(how = "lost" /\ p.do = "delete" /\ AfterBatch(p.keys) # {})
  <2>1. PICK answer : Answered(a, answer) /\ answer = IF how = "lost" THEN "ok" ELSE how
    BY <1>2, <1>6 DEF Failed
  <2>2. p.do \in Lists => answer = "raises"
    BY <2>1 DEF Fails, Raises
  <2>3. p.do \in Gets /\ answer = "nokey" => p.do \in Excused
    <3>1. CASE p.do = "get"
      <4>1. Fails(p.do) = Storage[b].get.fails
        BY <1>1, <3>1 DEF Fails, Lists
      <4> QED
        BY <1>1, <1>2, <1>3, <2>1, <3>1, <4>1 DEF Fits, Excused
    <3>2. CASE p.do = "head"
      <4>1. Fails(p.do) = Storage[b].head.fails
        BY <1>1, <3>2 DEF Fails, Lists
      <4> QED
        BY <1>1, <1>2, <1>3, <2>1, <3>2, <4>1 DEF Fits, Excused
    <3> QED
      BY <3>1, <3>2 DEF Gets
  <2> QED
    BY <2>1, <2>2, <2>3, AnswersWell
<1> QED
  BY <1>4, <1>5, <1>6

\* A step of the storage: the operation goes on, or is answered truthfully.
LEMMA StepWell ==
  ASSUME DataInv, NEW a \in Actors, StorageStep(a) \/ FailingRequest(a)
  PROVE  /\ GoesWell(a) \/ EndsWell(a)
         /\ StoreOK(backend.name, objects', index') /\ StoreMoves(a)
         /\ UNCHANGED backend /\ extras' \in Nat
PROOF
<1>0. extras \in Nat
  BY DEF DataInv, TypeOK
<1>1. CASE FailingRequest(a)
  <2>1. Effect(a) \/ UNCHANGED <<objects, index>>
    BY <1>1 DEF FailingRequest, store
  <2>2. UNCHANGED backend /\ extras' \in Nat
    BY <1>0, <1>1 DEF FailingRequest
  <2> QED
    BY <1>1, <2>1, <2>2, FailureOutcome, EffectOK, StoreSame
<1>2. CASE StorageStep(a)
  <2>1. UNCHANGED backend /\ extras' \in Nat
    BY <1>0, <1>2 DEF StorageStep
  <2>2. GoesWell(a) \/ EndsWell(a)
    BY <1>2, CreateOutcome, PutOutcome, GetOutcome, DeleteOutcome, PagesOutcome, PageOutcome,
       WholeOutcome, WalkOutcome, SizesOutcome DEF StorageStep, ListStep
  <2>3. CASE Effect(a) \/ UNCHANGED <<objects, index>>
    BY <2>1, <2>2, <2>3, EffectOK, StoreSame
  <2>4. CASE MakeDir(a) \/ OpenFile(a) \/ WriteFile(a) \/ RemoveFile(a) \/ RemoveDir(a)
    BY <2>1, <2>2, <2>4, FilesOK
  <2>5. CASE CreateLook(a) \/ CreateMake(a)
    BY <2>3, <2>5 DEF CreateLook, CreateMake, store
  <2>6. CASE PutStep(a)
    BY <2>3, <2>4, <2>6 DEF PutStep, Send, IndexNames, SetValue, store
  <2>7. CASE Exists(a) \/ Fetch(a) \/ HeadObject(a)
    BY <2>3, <2>7 DEF Exists, Fetch, HeadObject, store
  <2>8. CASE DeleteStep(a)
    BY <2>3, <2>4, <2>8 DEF DeleteStep, DeleteBatch, DelKeys, Unindex, store
  <2>9. CASE ListStep(a)
    BY <2>3, <2>9 DEF ListStep, ListPages, ListOnePage, ListWhole, WalkDir, Sizes, SizesAgain, store
  <2> QED
    BY <1>2, <2>5, <2>6, <2>7, <2>8, <2>9 DEF StorageStep
<1> QED
  BY <1>1, <1>2

---------------------------------------------------------------------------
(* The steps of the client. *)

\* The operations of all actors.
OpsOK == op \in [Actors -> OpType] /\ \A a \in Actors : OpOK(backend.name, op[a])

\* No operation is well formed.
LEMMA IdleOK ==
  /\ Idle \in OpType /\ Idle.do = "none" /\ Idle.at = "none"
  /\ \A b : OpOK(b, Idle)
PROOF
<1>1. Idle \in OpType /\ Idle.do = "none" /\ Idle.at = "none"
  BY DEF Idle, OpType, Ats, Paths
<1> QED
  BY <1>1 DEF OpOK, Stages, Lists

\* What the others did goes on when it is observed.
LEMMA WatchFollows ==
  ASSUME DataInv, NEW x \in Actors
  PROVE  Follows(x, Watch(op[x]))
PROOF
<1> DEFINE p == op[x]
           w == Watch(p)
<1>1. p \in OpType /\ Follows(x, p)
  BY OpIs, Follows0
<1>2. /\ w.do = p.do /\ w.at = p.at /\ w.keys = p.keys /\ w.prefix = p.prefix /\ w.got = p.got
      /\ p.do \in Gets \cup Lists => w.missing = p.missing \cap Seen(p, objects', index')
  BY <1>1, WatchIs
<1> HIDE DEF w
<1>3. Follows(x, w)
  BY <1>1, <1>2 DEF Follows, Lists
<1> QED
  BY <1>3 DEF w

\* One actor begins an operation; those of the others go on.
LEMMA BecomesOK ==
  ASSUME DataInv, NEW a \in Actors, NEW o, OpOK(backend.name, o), Becomes(a, o),
         UNCHANGED backend
  PROVE  /\ OpsOK'
         /\ op'[a] = o
         /\ \A x \in Actors \ {a} : Follows(x, op'[x])
PROOF
<1>1. op' = [x \in Actors |-> IF x = a THEN o ELSE Watch(op[x])]
  BY DEF Becomes
<1>2. \A x \in Actors : op[x] \in OpType /\ OpOK(backend.name, op[x])
  BY OpIs
<1>3. \A x \in Actors : OpOK(backend.name, Watch(op[x])) /\ Watch(op[x]) \in OpType
  BY <1>2, Watched, WatchIs
<1>4. o \in OpType
  BY DEF OpOK
<1>5. op'[a] = o /\ \A x \in Actors \ {a} : op'[x] = Watch(op[x])
  BY <1>1
<1> QED
  BY <1>1, <1>3, <1>4, <1>5, WatchFollows DEF OpsOK

\* The operations that the actors begin are at their beginning.
LEMMA BeginsOK ==
  ASSUME DataInv
  PROVE  /\ \A k \in Keys : /\ Beginning(Put(k), "put", {k}, <<>>)
                            /\ Beginning(Get(k), "get", {k}, <<>>)
                            /\ Beginning(Begun("head", {k}, <<>>), "head", {k}, <<>>)
         /\ \A d \in DOMAIN Under :
              /\ Beginning(List(d), "listKeys", {}, d)
              /\ Beginning(Begun("listObjects", {}, d), "listObjects", {}, d)
         /\ \A ks \in SUBSET Keys : Beginning(Delete(ks), "delete", ks, <<>>)
         /\ Beginning(Begun("create", {}, <<>>), "create", {}, <<>>)
PROOF
<1>1. TypeOK /\ <<>> \in Paths /\ DOMAIN Under \subseteq Paths /\ {} \in SUBSET Keys
  BY DEF DataInv, Paths
<1>2. ASSUME NEW do \in {"put", "get", "head"}, NEW k \in Keys
      PROVE  Beginning(Begun(do, {k}, <<>>), do, {k}, <<>>)
  <2>1. Beginnable(do, {k}, <<>>)
    BY <1>1 DEF Beginnable, Dos, Lists
  <2> QED
    BY <1>1, <2>1, BegunOK
<1>3. ASSUME NEW do \in Lists, NEW d \in DOMAIN Under
      PROVE  Beginning(Begun(do, {}, d), do, {}, d)
  <2>1. Beginnable(do, {}, d)
    BY <1>1 DEF Beginnable, Dos, Lists
  <2> QED
    BY <1>1, <2>1, BegunOK
<1>4. ASSUME NEW do \in {"create", "delete"}, NEW ks \in SUBSET Keys
      PROVE  Beginning(Begun(do, ks, <<>>), do, ks, <<>>)
  <2>1. Beginnable(do, ks, <<>>)
    BY <1>1 DEF Beginnable, Dos, Lists
  <2> QED
    BY <1>1, <2>1, BegunOK
<1> QED
  BY <1>1, <1>2, <1>3, <1>4 DEF Put, Get, List, Delete, Lists

\* The keys that the program uses.
LEMMA KeysOf ==
  /\ FuncKey \in Keys /\ UserKey \in Keys
  /\ DataKey(Job) \in Keys /\ DataKey(Job) \in Under[JobDir(Job)]
  /\ \A what \in {"init", "output", "status"} :
       CallKey(Job, what) \in Keys /\ CallKey(Job, what) \in Under[JobDir(Job)]
  /\ \A j : <<"jobs", j>> = JobDir(j)
  /\ \A j \in Owners : JobDir(j) \in DOMAIN Under
  /\ <<"jobs">> \in DOMAIN Under
PROOF
<1>1. Job \in Jobs
  BY JobOrderType
<1>2. /\ DataKey(Job) = JobKey(Job, "data") /\ \A what : CallKey(Job, what) = JobKey(Job, what)
      /\ \A j : <<"jobs", j>> = JobDir(j)
  BY DEF DataKey, CallKey, JobKey, JobDir
<1>3. \A what \in Parts : JobKey(Job, what) \in Keys /\ JobKey(Job, what) \in Under[JobDir(Job)]
  BY <1>1, KeysAre, UnderJob
<1>4. FuncKey \in Keys /\ UserKey \in Keys
  BY KeysAre
<1>5. /\ \A j \in Owners : JobDir(j) \in DOMAIN Under
      /\ <<"jobs">> \in DOMAIN Under
  BY UnderIs
<1> QED
  BY <1>2, <1>3, <1>4, <1>5 DEF Parts

\* The operation of the client at a place.
LEMMA ClientOpOK ==
  ASSUME DataInv, NEW at
  PROVE  LET o == ClientOp(at) IN
         /\ OpOK(backend.name, o) /\ o.do \in {"none", "put", "get"}
         /\ o.at \notin {"set", "unindex"}
         /\ o.do = "put" => at \in {"func", "data"} /\ o.keys \subseteq {FuncKey} \cup Under[JobDir(Job)]
PROOF
<1>1. CASE at = "func"
  BY <1>1, BeginsOK, KeysOf DEF ClientOp, Beginning
<1>2. ASSUME at = "data"
      PROVE  /\ Beginning(ClientOp(at), "put", {DataKey(Job)}, <<>>)
             /\ DataKey(Job) \in Under[JobDir(Job)]
  BY <1>2, BeginsOK, KeysOf DEF ClientOp
<1>3. CASE at = "output"
  BY <1>3, BeginsOK, KeysOf DEF ClientOp, Beginning
<1>4. CASE at \notin {"func", "data", "output"}
  BY <1>4, IdleOK DEF ClientOp
<1> QED
  BY <1>1, <1>2, <1>3, <1>4 DEF Beginning

\* The operation of the worker at a place.
LEMMA WorkerOpOK ==
  ASSUME DataInv, NEW at
  PROVE  LET o == WorkerOp(at) IN
         /\ OpOK(backend.name, o) /\ o.do \in {"none", "put", "get"}
         /\ o.at \notin {"set", "unindex"}
         /\ o.do = "put" => at \in {"init", "output", "status"} /\ o.keys \subseteq Under[JobDir(Job)]
PROOF
<1>1. CASE at = "func"
  BY <1>1, BeginsOK, KeysOf DEF WorkerOp, Beginning
<1>2. CASE at = "data"
  BY <1>2, BeginsOK, KeysOf DEF WorkerOp, Beginning
<1>3. ASSUME at \in {"init", "output", "status"}
      PROVE  Beginning(WorkerOp(at), "put", {CallKey(Job, at)}, <<>>) /\ CallKey(Job, at) \in Under[JobDir(Job)]
  BY <1>3, BeginsOK, KeysOf DEF WorkerOp
<1>4. CASE at \notin {"func", "data", "init", "output", "status"}
  BY <1>4, IdleOK DEF WorkerOp
<1> QED
  BY <1>1, <1>2, <1>3, <1>4 DEF Beginning

\* Where the client is before the job is invoked.
Early == {"start", "create", "ready", "func", "data"}

\* The operation that the client begins at a place.
ClientFits(o, at) ==
  /\ o.do \in {"none", "create", "put", "get"} /\ o.at \notin {"set", "unindex"}
  /\ o.do = "put" => at \in {"func", "data"} /\ o.keys \subseteq {FuncKey} \cup Under[JobDir(Job)]

\* What the client does when an operation of its has been answered.
ClientTurns ==
  /\ \E o : Becomes("client", o) /\ OpOK(backend.name, o) /\ ClientFits(o, client'.at)
  /\ ClientOK(client') /\ client'.cleaned = client.cleaned
  /\ client.at # "dump" /\ client'.at # "dump"
  /\ client'.at \in Early => client.at \in Early /\ UNCHANGED worker
  /\ UNCHANGED worker \/ (client.at \in Early /\ worker' = "start")
  /\ {cached', removed'} \subseteq BOOLEAN /\ queries' \in 0 .. Retries

\* The client goes to a place and begins the operation of that place.
LEMMA ClientGoesOK ==
  ASSUME DataInv, NEW c, ClientGoes(c)
  PROVE  /\ client' = c
         /\ \E o : Becomes("client", o) /\ OpOK(backend.name, o) /\ ClientFits(o, c.at)
BY ClientOpOK DEF ClientGoes, ClientFits

\* The client goes on from a clean() that has c as its state.
CleansUp(c) ==
  /\ client'.at \in {"ended", "exit", "open"} /\ client'.cleaned = c.cleaned /\ ClientOK(client')
  /\ \E o : Becomes("client", o) /\ OpOK(backend.name, o) /\ ClientFits(o, client'.at)

\* clean() ends with the client where it goes on.
LEMMA CleanUpOK ==
  ASSUME DataInv, NEW c, ClientOK(c)
  PROVE  /\ GoOn(c) => CleansUp(c)
         /\ \A jobs \in SUBSET Jobs :
              CleanUp(c, jobs) /\ jobs \cap c.cleaned = {} => CleansUp(c)
PROOF
<1> DEFINE R == [at : ClientAts, exiting : BOOLEAN, done : SUBSET Jobs, cleaned : SUBSET Jobs,
                 toClean : SUBSET Jobs]
<1>1. c \in R
  BY DEF ClientOK
<1>2. ASSUME GoOn(c)
      PROVE  CleansUp(c)
  <2> DEFINE at == IF c.exiting THEN "ended" ELSE "exit"
             d == [c EXCEPT !.at = at]
  <2>1. ClientGoes(d) /\ at \in {"ended", "exit"} /\ at \in ClientAts
    BY <1>2 DEF GoOn, ClientAts
  <2> HIDE DEF at
  <2>2. d \in R /\ d.at = at /\ d.cleaned = c.cleaned
    BY <1>1, <2>1
  <2> HIDE DEF d
  <2>3. ClientOK(d)
    BY <2>1, <2>2 DEF ClientOK
  <2> QED
    BY <2>1, <2>2, <2>3, ClientGoesOK DEF CleansUp
<1>3. ASSUME NEW jobs \in SUBSET Jobs, CleanUp(c, jobs), jobs \cap c.cleaned = {}, jobs # {}
      PROVE  CleansUp(c)
  <2> DEFINE d == [c EXCEPT !.toClean = jobs, !.at = "open"]
  <2>1. ClientGoes(d) /\ "open" \in ClientAts
    BY <1>3 DEF CleanUp, ClientAts
  <2>2. d \in R /\ d.at = "open" /\ d.cleaned = c.cleaned /\ d.toClean = jobs
    BY <1>1, <2>1
  <2> HIDE DEF d
  <2>3. ClientOK(d)
    BY <1>3, <2>1, <2>2 DEF ClientOK
  <2> QED
    BY <2>1, <2>2, <2>3, ClientGoesOK DEF CleansUp
<1> QED
  BY <1>2, <1>3 DEF CleanUp

\* A turn of the client that ends in clean().
LEMMA TurnBy ==
  ASSUME DataInv, NEW c, CleansUp(c), c.cleaned = client.cleaned, client.at # "dump",
         UNCHANGED worker, {cached', removed'} \subseteq BOOLEAN, queries' \in 0 .. Retries
  PROVE  ClientTurns
PROOF
<1>1. PICK o : Becomes("client", o) /\ OpOK(backend.name, o) /\ ClientFits(o, client'.at)
  BY DEF CleansUp
<1> QED
  BY <1>1 DEF CleansUp, ClientTurns, Early

\* A turn of the client to another place.
LEMMA TurnTo ==
  ASSUME DataInv, NEW at \in ClientAts \ {"dump", "open"}, client.at # "dump",
         ClientGoes([client EXCEPT !.at = at]),
         at \in Early => client.at \in Early /\ UNCHANGED worker,
         UNCHANGED worker \/ (client.at \in Early /\ worker' = "start"),
         {cached', removed'} \subseteq BOOLEAN, queries' \in 0 .. Retries
  PROVE  ClientTurns
PROOF
<1> DEFINE c == [client EXCEPT !.at = at]
<1>1. ClientOK(client)
  BY DEF DataInv, ControlOK
<1>2. ClientOK(c) /\ c.at = at /\ c.cleaned = client.cleaned
  BY <1>1 DEF ClientOK
<1>3. client' = c /\ \E o : Becomes("client", o) /\ OpOK(backend.name, o) /\ ClientFits(o, c.at)
  BY ClientGoesOK
<1> HIDE DEF c
<1> QED
  BY <1>2, <1>3 DEF ClientTurns

\* The clean() that is forced, of the functions too.
LEMMA ForceCleanOK ==
  ASSUME DataInv, ForceClean
  PROVE  CleansUp(client) /\ removed' = TRUE
PROOF
<1>1. ClientOK(client) /\ Job \in Jobs
  BY JobOrderType DEF DataInv, ControlOK
<1> DEFINE jobs == (client.done \cup {Job}) \ client.cleaned
<1>2. jobs \in SUBSET Jobs /\ jobs \cap client.cleaned = {}
  BY <1>1 DEF ClientOK
<1>3. CleanUp(client, jobs) /\ removed' = TRUE
  BY DEF ForceClean
<1> HIDE DEF jobs
<1> QED
  BY <1>1, <1>2, <1>3, CleanUpOK

\* Each answer to the client is a turn of it.
LEMMA ClientAnswers ==
  ASSUME DataInv, NEW answer, ClientAnswer(answer)
  PROVE  ClientTurns
PROOF
<1>1. /\ ClientOK(client) /\ {cached, removed} \subseteq BOOLEAN /\ queries \in 0 .. Retries
      /\ Retries \in Nat /\ Job \in Jobs
  BY BoundsAssumption, JobOrderType DEF DataInv, ControlOK, TypeOK
<1>2. /\ {"ready", "ended", "data", "wait"} \subseteq ClientAts \ {"dump", "open"}
      /\ {"ready", "data"} \subseteq Early /\ "wait" \notin Early
  BY DEF ClientAts, Early
<1>3. CASE BucketMade(answer)
  <2> DEFINE at == IF answer = "ok" THEN "ready" ELSE "ended"
  <2>1. /\ client.at = "create" /\ ClientGoes([client EXCEPT !.at = at])
        /\ UNCHANGED <<cached, queries, removed, worker>>
    BY <1>3 DEF BucketMade, ClientAt
  <2>2. at \in ClientAts \ {"dump", "open"} /\ client.at \in Early
    BY <1>2, <2>1 DEF Early
  <2> HIDE DEF at
  <2> QED
    BY <1>1, <2>1, <2>2, TurnTo
<1>4. CASE PutFunction(answer)
  <2>1. client.at = "func" /\ UNCHANGED <<queries, removed, worker>> /\ cached' \in BOOLEAN
    BY <1>4 DEF PutFunction, ClientAt
  <2>2. CASE ClientGoes([client EXCEPT !.at = "data"])
    BY <1>1, <1>2, <2>1, <2>2, TurnTo DEF Early
  <2>3. CASE GoOn(client)
    BY <1>1, <2>1, <2>3, CleanUpOK, TurnBy
  <2> QED
    BY <1>4, <2>2, <2>3 DEF PutFunction
<1>5. CASE PutJobData(answer)
  <2>1. client.at = "data" /\ UNCHANGED <<queries, removed, cached>>
    BY <1>5 DEF PutJobData, ClientAt
  <2>2. CASE ClientGoes([client EXCEPT !.at = "wait"]) /\ worker' = "start"
    BY <1>1, <1>2, <2>1, <2>2, TurnTo DEF Early
  <2>3. CASE GoOn(client) /\ UNCHANGED worker
    BY <1>1, <2>1, <2>3, CleanUpOK, TurnBy
  <2> QED
    BY <1>5, <2>2, <2>3 DEF PutJobData
<1>6. CASE GetOutput(answer)
  <2>1. client.at = "output" /\ UNCHANGED <<cached, worker>>
    BY <1>6 DEF GetOutput, ClientAt
  <2>2. CASE answer = "data"
    <3> DEFINE c == [client EXCEPT !.done = @ \cup {Job}]
    <3>1. ClientOK(c) /\ c.cleaned = client.cleaned /\ c.done \in SUBSET Jobs
      BY <1>1 DEF ClientOK
    <3>2. CleanUp(c, c.done \ c.cleaned) \/ GoOn(c)
      BY <1>6, <2>2 DEF GetOutput
    <3>3. UNCHANGED <<queries, removed>>
      BY <1>6, <2>2 DEF GetOutput
    <3> HIDE DEF c
    <3>4. CleansUp(c)
      BY <3>1, <3>2, CleanUpOK
    <3> QED
      BY <1>1, <2>1, <3>1, <3>3, <3>4, TurnBy
  <2>3. CASE answer = "nokey" /\ queries + 1 < Retries
    <3>1. queries' = queries + 1 /\ ClientGoes(client) /\ UNCHANGED removed
      BY <1>6, <2>3 DEF GetOutput
    <3>2. queries' \in 0 .. Retries
      BY <1>1, <2>3, <3>1
    <3>3. client' = client /\ \E o : Becomes("client", o) /\ OpOK(backend.name, o) /\ ClientFits(o, client.at)
      BY <3>1, ClientGoesOK
    <3> QED
      BY <1>1, <2>1, <3>1, <3>2, <3>3 DEF ClientTurns, Early
  <2>4. CASE ~(answer = "data") /\ ~(answer = "nokey" /\ queries + 1 < Retries)
    <3>1. ForceClean /\ UNCHANGED queries
      BY <1>6, <2>4 DEF GetOutput
    <3> QED
      BY <1>1, <2>1, <3>1, ForceCleanOK, TurnBy
  <2> QED
    BY <2>2, <2>3, <2>4
<1> QED
  BY <1>3, <1>4, <1>5, <1>6 DEF ClientAnswer

\* Where the worker is.
Workers == {"none", "start", "func", "data", "init", "output", "status", "ended"}

\* The operation that the worker begins at a place.
WorkerFits(o, at) ==
  /\ o.do \in {"none", "put", "get"} /\ o.at \notin {"set", "unindex"}
  /\ o.do = "put" => at \in {"init", "output", "status"} /\ o.keys \subseteq Under[JobDir(Job)]

\* What the worker does when an operation of its has been answered.
WorkerTurns ==
  /\ \E o : Becomes(Job, o) /\ OpOK(backend.name, o) /\ WorkerFits(o, worker')
  /\ worker \notin {"none", "ended"} /\ worker' \in Workers \ {"none"} /\ worked' \in BOOLEAN

\* The worker goes to a place.
LEMMA WorkerGoesOK ==
  ASSUME DataInv, NEW at \in Workers \ {"none"}, WorkerGoes(at),
         worker \notin {"none", "ended"}, worked' \in BOOLEAN
  PROVE  WorkerTurns
PROOF
<1>1. /\ worker' = at /\ Becomes(Job, WorkerOp(at)) /\ OpOK(backend.name, WorkerOp(at))
      /\ WorkerFits(WorkerOp(at), at)
  BY WorkerOpOK DEF WorkerGoes, WorkerFits
<1> QED
  BY <1>1 DEF WorkerTurns

\* Each answer to the worker is a turn of it.
LEMMA WorkerAnswers ==
  ASSUME DataInv, NEW answer, WorkerAnswer(answer)
  PROVE  WorkerTurns
PROOF
<1>1. worked \in BOOLEAN
  BY DEF DataInv, TypeOK
<1>2. {"func", "data", "init", "output", "status", "ended"} \subseteq Workers \ {"none"}
  BY DEF Workers
<1>3. CASE GetFunction(answer)
  BY <1>1, <1>2, <1>3, WorkerGoesOK DEF GetFunction
<1>4. CASE GetData(answer)
  BY <1>2, <1>4, WorkerGoesOK DEF GetData
<1>5. CASE SendInit(answer)
  BY <1>1, <1>2, <1>5, WorkerGoesOK DEF SendInit
<1>6. CASE PutOutput(answer)
  BY <1>2, <1>6, WorkerGoesOK DEF PutOutput
<1>7. CASE SendStatus
  BY <1>1, <1>2, <1>7, WorkerGoesOK DEF SendStatus
<1> QED
  BY <1>3, <1>4, <1>5, <1>6, <1>7 DEF WorkerAnswer

\* What the storage monitor does when an operation of its has been answered.
MonitorTurns ==
  /\ \E o : Becomes("monitor", o) /\ OpOK(backend.name, o) /\ o.do \in {"none", "get", "listKeys"}
            /\ o.at \notin {"set", "unindex"}
  /\ ready' \in BOOLEAN

\* Each answer to the monitor is a turn of it.
LEMMA MonitorAnswers ==
  ASSUME DataInv, NEW o, NEW answer, MonitorAnswer(o, answer)
  PROVE  MonitorTurns
PROOF
<1>1. ready \in BOOLEAN
  BY DEF DataInv, TypeOK
<1>2. /\ OpOK(backend.name, Idle) /\ Idle.do = "none" /\ Idle.at = "none"
      /\ Beginning(Get(CallKey(Job, "status")), "get", {CallKey(Job, "status")}, <<>>)
  BY IdleOK, BeginsOK, KeysOf
<1>3. CASE QueryStatus(o, answer)
  <2>1. /\ Becomes("monitor", Idle) \/ Becomes("monitor", Get(CallKey(Job, "status")))
        /\ UNCHANGED ready
    BY <1>3 DEF QueryStatus
  <2> QED
    BY <1>1, <1>2, <2>1 DEF MonitorTurns, Beginning
<1>4. CASE SetReady(o, answer)
  <2>1. Becomes("monitor", Idle) /\ ready' \in BOOLEAN
    BY <1>1, <1>4 DEF SetReady
  <2> QED
    BY <1>2, <2>1 DEF MonitorTurns
<1> QED
  BY <1>3, <1>4 DEF MonitorAnswer

\* The directory that the cleaner empties.
CleanDir(c) == JobDir(IF c.at = "clean" THEN JobToClean(c.left) ELSE Executor)

\* The answer with which the cleaner leaves a job.
EmptyList(last, answer) == last.do = "listKeys" /\ answer = "ok" /\ last.got = {}

\* The operation that the cleaner begins, `last` being the one just answered.
CleanerFits(o, c, last) ==
  /\ o.do \in {"none", "listKeys", "delete"} /\ o.at \notin {"set", "unindex"}
  /\ c.at \notin {"clean", "functions"} => o.do = "none"
  /\ o.do = "listKeys" => o.prefix = CleanDir(c) /\ o.missing = Seen(o, objects', index')
  /\ o.do = "delete" => c = cleaner /\ last.do = "listKeys" /\ o.keys = last.got

\* The cleaner goes on with a file of the batch.
CleanerGoes(batch, last) ==
  /\ \E o : Becomes("cleaner", o) /\ OpOK(backend.name, o) /\ CleanerFits(o, cleaner', last)
  /\ CleanerOK(cleaner') /\ cleaner'.batch \subseteq batch

\* The file that the cleaner takes from a batch.
LEMMA FileIs ==
  ASSUME NEW batch \in SUBSET JobSets, JobFiles(batch) # {}
  PROVE  /\ FileOf(batch) \in batch /\ FileOf(batch) \subseteq Jobs /\ FileOf(batch) # {}
         /\ FileOf(batch) # {Executor}
PROOF
<1> DEFINE f == FileOf(batch)
<1>1. f \in JobFiles(batch)
  BY DEF FileOf
<1>2. f \in batch /\ f # {Executor} /\ f \in JobSets
  BY <1>1 DEF JobFiles
<1> HIDE DEF f
<1>3. \A g \in JobSets : g = {Executor} \/ (g \subseteq Jobs /\ g # {})
  BY DEF JobSets
<1> QED
  BY <1>2, <1>3 DEF f

\* The cleaner works at jobs of a file.
LEMMA CleanJobsOK ==
  ASSUME DataInv, NEW batch \in SUBSET JobSets, JobFiles(batch) # {},
         NEW left \in SUBSET Jobs, left # {}, left \subseteq FileOf(batch),
         CleanJobs(batch, left), NEW last
  PROVE  /\ CleanerGoes(batch, last)
         /\ cleaner'.at = "clean" /\ cleaner'.batch = batch /\ cleaner'.left = left
PROOF
<1> DEFINE c == [at |-> "clean", batch |-> batch, left |-> left]
           j == JobToClean(left)
<1>1. cleaner' = c /\ Becomes("cleaner", List(<<"jobs", j>>))
  BY DEF CleanJobs
<1>2. c.at = "clean" /\ c.batch = batch /\ c.left = left /\ CleanerOK(c)
  BY DEF CleanerOK
<1>3. j \in Jobs
  BY DEF JobToClean
<1> HIDE DEF c
<1>4. JobDir(j) \in DOMAIN Under /\ <<"jobs", j>> = JobDir(j) /\ CleanDir(c) = JobDir(j)
  BY <1>2, <1>3, KeysOf DEF Owners, CleanDir
<1> HIDE DEF j
<1>5. Beginning(List(JobDir(j)), "listKeys", {}, JobDir(j))
  BY <1>4, BeginsOK
<1>6. OpOK(backend.name, List(JobDir(j))) /\ CleanerFits(List(JobDir(j)), c, last)
  BY <1>2, <1>4, <1>5 DEF Beginning, CleanerFits, Lists
<1> QED
  BY <1>1, <1>2, <1>4, <1>6 DEF CleanerGoes

\* The cleaner takes the next file.
LEMMA CleanNextOK ==
  ASSUME DataInv, NEW batch \in SUBSET JobSets, CleanNext(batch), NEW last
  PROVE  /\ CleanerGoes(batch, last)
         /\ cleaner'.at = "clean" => cleaner'.left = FileOf(cleaner'.batch)
PROOF
<1>1. CASE batch = {}
  <2> DEFINE c == [CleanerOff EXCEPT !.at = "look"]
  <2>1. cleaner' = c /\ Becomes("cleaner", Idle)
    BY <1>1 DEF CleanNext, JobFiles
  <2>2. c.at = "look" /\ c.batch = {} /\ CleanerOK(c)
    BY DEF CleanerOff, CleanerOK
  <2> HIDE DEF c
  <2> QED
    BY <2>1, <2>2, IdleOK DEF CleanerGoes, CleanerFits
<1>2. CASE batch # {} /\ JobFiles(batch) # {}
  <2>1. CleanJobs(batch, FileOf(batch))
    BY <1>2 DEF CleanNext
  <2>2. FileOf(batch) \in SUBSET Jobs /\ FileOf(batch) # {}
    BY <1>2, FileIs
  <2> QED
    BY <1>2, <2>1, <2>2, CleanJobsOK
<1>3. CASE batch # {} /\ JobFiles(batch) = {}
  <2> DEFINE c == [at |-> "functions", batch |-> batch, left |-> {}]
             d == JobDir(Executor)
  <2>1. cleaner' = c /\ Becomes("cleaner", List(<<"jobs", Executor>>))
    BY <1>3 DEF CleanNext
  <2>2. c.at = "functions" /\ c.batch = batch /\ CleanerOK(c)
    BY DEF CleanerOK
  <2> HIDE DEF c
  <2>3. d \in DOMAIN Under /\ <<"jobs", Executor>> = d /\ CleanDir(c) = d
    BY <2>2, KeysOf DEF Owners, CleanDir
  <2> HIDE DEF d
  <2>4. Beginning(List(d), "listKeys", {}, d)
    BY <2>3, BeginsOK
  <2>5. OpOK(backend.name, List(d)) /\ CleanerFits(List(d), c, last)
    BY <2>2, <2>3, <2>4 DEF Beginning, CleanerFits, Lists
  <2> QED
    BY <2>1, <2>2, <2>3, <2>5 DEF CleanerGoes
<1> QED
  BY <1>1, <1>2, <1>3

\* What the cleaner does when an operation of its has been answered.
CleanerTurns(last, answer) ==
  /\ CleanerGoes(cleaner.batch, last)
  /\ cleaner.at \in {"clean", "functions"}
  /\ cleaner'.at = "clean" =>
       \/ cleaner'.left = FileOf(cleaner'.batch)
       \/ cleaner' = cleaner
       \/ /\ cleaner.at = "clean" /\ cleaner'.batch = cleaner.batch
          /\ cleaner'.left = cleaner.left \ {JobToClean(cleaner.left)} /\ EmptyList(last, answer)
  /\ \/ UNCHANGED <<requests, gone>>
     \/ RemoveRequest({Executor})
     \/ /\ RemoveRequest(FileOf(cleaner.batch)) /\ cleaner.at = "clean"
        /\ cleaner.left = {JobToClean(cleaner.left)} /\ EmptyList(last, answer)

\* What the cleaner does with a job after an answer.
LEMMA CleanJobTurns ==
  ASSUME DataInv, NEW last \in OpType, last.do \in {"listKeys", "delete"},
         NEW answer, CleanJob(last, answer)
  PROVE  CleanerTurns(last, answer)
PROOF
<1> DEFINE batch == cleaner.batch
           j == JobToClean(cleaner.left)
           left == cleaner.left \ {j}
           f == FileOf(batch)
           over == EmptyList(last, answer) /\ left = {}
<1>1. /\ CleanerOK(cleaner) /\ cleaner.at = "clean"
      /\ batch \in SUBSET JobSets /\ cleaner.left \subseteq f /\ cleaner.left # {}
      /\ JobFiles(batch) # {} /\ cleaner.left \in SUBSET Jobs
  BY DEF DataInv, ControlOK, CleanerOK, CleanJob
<1>2. j \in cleaner.left
  BY <1>1 DEF JobToClean
<1> HIDE DEF j
<1>3. CASE over
  <2>1. RemoveRequest(f) /\ CleanNext(batch \ {f})
    BY <1>3 DEF CleanJob, EmptyList, Emptied, j
  <2>2. CleanerGoes(batch \ {f}, last) /\ (cleaner'.at = "clean" => cleaner'.left = FileOf(cleaner'.batch))
    BY <1>1, <2>1, CleanNextOK
  <2>3. cleaner.left = {j}
    BY <1>2, <1>3
  <2>4. CleanerGoes(batch, last)
    BY <2>2 DEF CleanerGoes
  <2> QED
    BY <1>1, <1>3, <2>1, <2>2, <2>3, <2>4 DEF CleanerTurns, j
<1>4. CASE ~over
  <2>1. ~(answer = "ok" /\ last.do = "listKeys" /\ Emptied(last.got) /\ left = {})
    BY <1>4 DEF EmptyList, Emptied
  <2>2. UNCHANGED <<requests, gone>>
    BY <2>1 DEF CleanJob, j
  <2>3. CASE answer # "ok"
    <3>1. CleanNext(batch \ JobFiles(batch))
      BY <2>1, <2>3 DEF CleanJob, j
    <3>2. /\ CleanerGoes(batch \ JobFiles(batch), last)
          /\ cleaner'.at = "clean" => cleaner'.left = FileOf(cleaner'.batch)
      BY <1>1, <3>1, CleanNextOK
    <3>3. CleanerGoes(batch, last)
      BY <3>2 DEF CleanerGoes
    <3> QED
      BY <1>1, <2>2, <3>2, <3>3 DEF CleanerTurns
  <2>4. CASE answer = "ok" /\ last.do = "delete"
    <3>1. CleanJobs(batch, cleaner.left)
      BY <2>1, <2>4 DEF CleanJob, j
    <3>2. /\ CleanerGoes(batch, last)
          /\ cleaner'.at = "clean" /\ cleaner'.batch = batch /\ cleaner'.left = cleaner.left
      BY <1>1, <3>1, CleanJobsOK
    <3>3. cleaner' = cleaner
      <4>1. cleaner' = [at |-> "clean", batch |-> batch, left |-> cleaner.left]
        BY <3>1 DEF CleanJobs
      <4>2. cleaner = [at |-> "clean", batch |-> batch, left |-> cleaner.left]
        BY <1>1 DEF CleanerOK
      <4> QED
        BY <4>1, <4>2
    <3> QED
      BY <1>1, <2>2, <3>2, <3>3 DEF CleanerTurns
  <2>5. CASE answer = "ok" /\ last.do = "listKeys"
    <3>1. IF Emptied(last.got) THEN CleanJobs(batch, left)
          ELSE Becomes("cleaner", Delete(last.got)) /\ UNCHANGED cleaner
      BY <2>1, <2>5 DEF CleanJob, j
    <3>2. CASE Emptied(last.got)
      <4>1. left # {} /\ left \in SUBSET Jobs /\ left \subseteq f
        BY <1>1, <2>1, <2>5, <3>2
      <4> HIDE DEF left
      <4>2. /\ CleanerGoes(batch, last)
            /\ cleaner'.at = "clean" /\ cleaner'.batch = batch /\ cleaner'.left = left
        BY <1>1, <3>1, <3>2, <4>1, CleanJobsOK
      <4>3. EmptyList(last, answer)
        BY <2>5, <3>2 DEF EmptyList, Emptied
      <4> QED
        BY <1>1, <2>2, <4>2, <4>3 DEF CleanerTurns, left, j
    <3>3. CASE ~Emptied(last.got)
      <4>1. last.got \in SUBSET Keys
        BY DEF OpType
      <4>2. Beginning(Delete(last.got), "delete", last.got, <<>>)
        BY <4>1, BeginsOK
      <4>3. Becomes("cleaner", Delete(last.got)) /\ cleaner' = cleaner
        BY <3>1, <3>3
      <4>4. OpOK(backend.name, Delete(last.got)) /\ CleanerFits(Delete(last.got), cleaner', last)
        BY <1>1, <2>5, <4>2, <4>3 DEF Beginning, CleanerFits
      <4>5. CleanerGoes(batch, last)
        BY <1>1, <4>3, <4>4 DEF CleanerGoes
      <4> QED
        BY <1>1, <2>2, <4>3, <4>5 DEF CleanerTurns
    <3> QED
      BY <3>2, <3>3
  <2> QED
    BY <2>3, <2>4, <2>5
<1> QED
  BY <1>3, <1>4

\* Each answer to the cleaner is a turn of it.
LEMMA CleanerAnswers ==
  ASSUME DataInv, NEW last \in OpType, last.do \in {"listKeys", "delete"},
         NEW answer, CleanerAnswer(last, answer)
  PROVE  CleanerTurns(last, answer)
PROOF
<1>1. /\ CleanerOK(cleaner) /\ cleaner.batch \in SUBSET JobSets
  BY DEF DataInv, ControlOK, CleanerOK
<1>2. CASE CleanJob(last, answer)
  BY <1>2, CleanJobTurns
<1>3. CASE CleanFunctions(last, answer)
  <2>1. cleaner.at = "functions"
    BY <1>3 DEF CleanFunctions
  <2>2. CASE last.do = "listKeys" /\ answer = "ok"
    <3>1. last.got \in SUBSET Keys
      BY DEF OpType
    <3>2. Beginning(Delete(last.got), "delete", last.got, <<>>)
      BY <3>1, BeginsOK
    <3>3. Becomes("cleaner", Delete(last.got)) /\ cleaner' = cleaner /\ UNCHANGED <<requests, gone>>
      BY <1>3, <2>2 DEF CleanFunctions
    <3>4. OpOK(backend.name, Delete(last.got)) /\ CleanerFits(Delete(last.got), cleaner', last)
      BY <2>1, <2>2, <3>2, <3>3 DEF Beginning, CleanerFits
    <3> QED
      BY <1>1, <2>1, <3>3, <3>4 DEF CleanerGoes, CleanerTurns
  <2>3. CASE ~(last.do = "listKeys" /\ answer = "ok")
    <3>1. /\ CleanNext({})
          /\ UNCHANGED <<requests, gone>> \/ RemoveRequest({Executor})
      BY <1>3, <2>3 DEF CleanFunctions
    <3>2. /\ CleanerGoes({}, last)
          /\ cleaner'.at = "clean" => cleaner'.left = FileOf(cleaner'.batch)
      <4>1. {} \in SUBSET JobSets
        OBVIOUS
      <4> QED
        BY <3>1, <4>1, CleanNextOK
    <3>3. CleanerGoes(cleaner.batch, last)
      BY <3>2 DEF CleanerGoes
    <3> QED
      BY <2>1, <3>1, <3>2, <3>3 DEF CleanerTurns
  <2> QED
    BY <2>2, <2>3
<1> QED
  BY <1>2, <1>3 DEF CleanerAnswer

\* What the user does when a call has been answered.
UserTurns ==
  \E o : /\ Becomes("user", o) /\ OpOK(backend.name, o) /\ o.at \notin {"set", "unindex"}
         /\ o.do # "delete" /\ (o.do = "put" => o.keys = {UserKey})

\* Each answer to the user is a turn of it.
LEMMA UserAnswers ==
  ASSUME DataInv, NEW answer, UserAnswer(answer)
  PROVE  UserTurns
PROOF
<1>1. Becomes("user", Idle)
  BY DEF UserAnswer
<1> QED
  BY <1>1, IdleOK DEF UserTurns

---------------------------------------------------------------------------
(* Every step keeps the invariant of the store and the operations. *)

\* What actor a does when its operation has been answered.
Turn(a, last, answer) ==
  \/ a = "client" /\ ClientTurns /\ UNCHANGED <<worked, ready, cleanerVars>>
  \/ a = Job /\ WorkerTurns /\ UNCHANGED <<clientVars, ready, cleanerVars>>
  \/ a = "monitor" /\ MonitorTurns /\ UNCHANGED <<clientVars, workerVars, cleanerVars>>
  \/ /\ a = "cleaner" /\ CleanerTurns(last, answer)
     /\ UNCHANGED <<clientVars, workerVars, ready, pidfile, broken>>
  \/ a = "user" /\ UserTurns /\ UNCHANGED <<clientVars, workerVars, ready, cleanerVars>>

\* So the last step of an operation is a turn of its actor, and no answer is
\* false but the excused ones.
LEMMA EndsTurn ==
  ASSUME DataInv, NEW a \in Actors, op[a].do # "none",
         NEW last \in OpType, NEW answer, EndsWith(a, last, answer)
  PROVE  Turn(a, last, answer) /\ lied' \subseteq Excused
PROOF
<1>1. /\ lied' = IF Truthful(Watch(last), answer) THEN lied ELSE lied \cup {last.do}
      /\ CASE a = "client" -> ClientAnswer(answer)
           [] a = Job -> WorkerAnswer(answer)
           [] a = "monitor" -> MonitorAnswer(last, answer)
           [] a = "cleaner" -> CleanerAnswer(last, answer)
           [] a = "user" -> UserAnswer(answer)
  BY DEF EndsWith, Ends
<1>2. lied' \subseteq Excused
  <2>1. lied \subseteq Excused
    BY DEF DataInv, AnswersTruthful, Excused
  <2>2. Truthful(Watch(last), answer) \/ last.do \in Excused
    BY DEF EndsWith
  <2> QED
    BY <1>1, <2>1, <2>2
<1>3. /\ Job \notin {"client", "monitor", "cleaner", "user"}
      /\ a \in {"client", "monitor", "cleaner", "user", Job}
  BY JobOrderType, NamesAssumption DEF Actors
<1>4. CASE a = "client"
  <2>1. ClientAnswer(answer)
    BY <1>1, <1>3, <1>4
  <2>2. UNCHANGED <<worked, ready, cleanerVars>>
    BY <2>1 DEF ClientAnswer
  <2> QED
    BY <1>2, <1>4, <2>1, <2>2, ClientAnswers DEF Turn
<1>5. CASE a = Job
  <2>1. WorkerAnswer(answer)
    BY <1>1, <1>3, <1>5
  <2>2. UNCHANGED <<clientVars, ready, cleanerVars>>
    BY <2>1 DEF WorkerAnswer
  <2> QED
    BY <1>2, <1>5, <2>1, <2>2, WorkerAnswers DEF Turn
<1>6. CASE a = "monitor"
  <2>1. MonitorAnswer(last, answer)
    BY <1>1, <1>3, <1>6
  <2>2. UNCHANGED <<clientVars, workerVars, cleanerVars>>
    BY <2>1 DEF MonitorAnswer
  <2> QED
    BY <1>2, <1>6, <2>1, <2>2, MonitorAnswers DEF Turn
<1>7. CASE a = "cleaner"
  <2>1. CleanerAnswer(last, answer)
    BY <1>1, <1>3, <1>7
  <2>2. UNCHANGED <<clientVars, workerVars, ready, pidfile, broken>>
    BY <2>1 DEF CleanerAnswer
  <2>3. last.do \in {"listKeys", "delete"}
    <3>1. last.do = op[a].do
      BY DEF EndsWith, Follows
    <3>2. op["cleaner"].do \in {"none", "listKeys", "delete"}
      BY DEF DataInv
    <3> QED
      BY <1>7, <3>1, <3>2
  <2> QED
    BY <1>2, <1>7, <2>1, <2>2, <2>3, CleanerAnswers DEF Turn
<1>8. CASE a = "user"
  <2>1. UserAnswer(answer)
    BY <1>1, <1>3, <1>8
  <2>2. UNCHANGED <<clientVars, workerVars, ready, cleanerVars>>
    BY <2>1 DEF UserAnswer
  <2> QED
    BY <1>2, <1>8, <2>1, <2>2, UserAnswers DEF Turn
<1> QED
  BY <1>3, <1>4, <1>5, <1>6, <1>7, <1>8

\* The other variables.
Flags ==
  /\ {cached, worked, ready, removed, pidfile, broken} \subseteq BOOLEAN
  /\ worker \in Workers /\ gone \subseteq Jobs /\ queries \in 0 .. Retries

\* The invariant but for the contents of the store.
OpsControlOK ==
  /\ OpsOK /\ op["cleaner"].do \in {"none", "listKeys", "delete"}
  /\ ControlOK /\ Flags

\* The invariant, taken apart and put together.
LEMMA DataParts ==
  /\ DataInv => OpsControlOK /\ StoreOK(backend.name, objects, index) /\ lied \subseteq Excused
  /\ /\ \E b \in DOMAIN Storage : backend' = [name |-> b, does |-> Storage[b]]
     /\ bucket' \in BOOLEAN /\ extras' \in Nat
     /\ StoreOK(backend'.name, objects', index')
     /\ lied' \subseteq Excused'
     /\ OpsControlOK'
     => DataInv'
PROOF
<1>1. DataInv => OpsControlOK
  BY DEF DataInv, TypeOK, OpsControlOK, OpsOK, Flags, Workers
<1>2. DataInv => StoreOK(backend.name, objects, index) /\ lied \subseteq Excused
  BY DEF DataInv, AnswersTruthful, Excused
<1>3. ASSUME \E b \in DOMAIN Storage : backend' = [name |-> b, does |-> Storage[b]],
             bucket' \in BOOLEAN, extras' \in Nat,
             StoreOK(backend'.name, objects', index'), lied' \subseteq Excused', OpsControlOK'
      PROVE  DataInv'
  <2>1. TypeOK'
    <3>1. objects' \in [Keys -> {"none", "empty", "data"}]
      BY <1>3 DEF StoreOK
    <3>2. Flags'
      BY <1>3 DEF OpsControlOK
    <3> QED
      BY <1>3, <3>1, <3>2 DEF TypeOK, Flags, Workers
  <2>2. AnswersTruthful'
    BY <1>3 DEF AnswersTruthful, Excused
  <2>3. /\ (op \in [Actors -> OpType] /\ \A a \in Actors : OpOK(backend.name, op[a]))'
        /\ (op["cleaner"].do \in {"none", "listKeys", "delete"})' /\ ControlOK'
    BY <1>3 DEF OpsControlOK, OpsOK
  <2> QED
    BY <1>3, <2>1, <2>2, <2>3 DEF DataInv
<1> QED
  BY <1>1, <1>2, <1>3

\* The bucket is there or not.
LEMMA BucketKept ==
  ASSUME DataInv, NEW a \in Actors, StorageStep(a) \/ FailingRequest(a)
  PROVE  bucket' \in BOOLEAN
PROOF
<1>1. bucket \in BOOLEAN
  BY DEF DataInv, TypeOK
<1>2. Effect(a) => bucket' = bucket \/ bucket' = TRUE
  BY DEF Effect, store
<1>3. CASE FailingRequest(a)
  BY <1>1, <1>2, <1>3 DEF FailingRequest, store
<1>4. CASE StorageStep(a)
  <2>1. CASE CreateLook(a) \/ CreateMake(a)
    BY <1>1, <1>2, <2>1 DEF CreateLook, CreateMake, store
  <2>2. CASE PutStep(a)
    BY <1>1, <1>2, <2>2 DEF PutStep, Send, IndexNames, SetValue, MakeDir, OpenFile, WriteFile, store
  <2>3. CASE Exists(a) \/ Fetch(a) \/ HeadObject(a)
    BY <1>1, <2>3 DEF Exists, Fetch, HeadObject, store
  <2>4. CASE DeleteStep(a)
    BY <1>1, <1>2, <2>4 DEF DeleteStep, DeleteBatch, DelKeys, Unindex, RemoveFile, RemoveDir, store
  <2>5. CASE ListStep(a)
    BY <1>1, <2>5 DEF ListStep, ListPages, ListOnePage, ListWhole, WalkDir, Sizes, SizesAgain, store
  <2> QED
    BY <1>4, <2>1, <2>2, <2>3, <2>4, <2>5 DEF StorageStep
<1> QED
  BY <1>3, <1>4

\* When one actor begins, the operations stay well formed.
LEMMA OthersFollow ==
  ASSUME DataInv, NEW a \in Actors, NEW o, OpOK(backend.name, o), Becomes(a, o),
         UNCHANGED backend,
         a = "cleaner" => o.do \in {"none", "listKeys", "delete"}
  PROVE  OpsOK' /\ op'["cleaner"].do \in {"none", "listKeys", "delete"}
PROOF
<1>1. OpsOK' /\ op'[a] = o /\ \A x \in Actors \ {a} : Follows(x, op'[x])
  BY BecomesOK
<1>2. "cleaner" \in Actors /\ op["cleaner"].do \in {"none", "listKeys", "delete"}
  BY DEF Actors, DataInv
<1> QED
  BY <1>1, <1>2 DEF Follows

\* A turn keeps the invariant but for the store.
LEMMA TurnKeeps ==
  ASSUME DataInv, UNCHANGED backend, NEW a, NEW last, NEW answer, Turn(a, last, answer)
  PROVE  OpsControlOK'
PROOF
<1>1. OpsControlOK /\ ControlOK /\ Flags
  BY DataParts DEF OpsControlOK
<1>2. {"client", "monitor", "cleaner", "user", Job} \subseteq Actors
      /\ Job \notin {"client", "monitor", "cleaner", "user"}
  BY JobOrderType, NamesAssumption DEF Actors
<1>3. CASE a = "client" /\ ClientTurns /\ UNCHANGED <<worked, ready, cleanerVars>>
  <2>1. PICK o : Becomes("client", o) /\ OpOK(backend.name, o)
    BY <1>3 DEF ClientTurns
  <2>2. OpsOK' /\ op'["cleaner"].do \in {"none", "listKeys", "delete"}
    BY <1>2, <2>1, OthersFollow
  <2>3. ControlOK'
    BY <1>1, <1>3 DEF ControlOK, ClientTurns, cleanerVars
  <2>4. Flags'
    BY <1>1, <1>3 DEF Flags, Workers, ClientTurns, cleanerVars
  <2> QED
    BY <2>2, <2>3, <2>4 DEF OpsControlOK
<1>4. CASE a = Job /\ WorkerTurns /\ UNCHANGED <<clientVars, ready, cleanerVars>>
  <2>1. PICK o : Becomes(Job, o) /\ OpOK(backend.name, o)
    BY <1>4 DEF WorkerTurns
  <2>2. OpsOK' /\ op'["cleaner"].do \in {"none", "listKeys", "delete"}
    BY <1>2, <2>1, OthersFollow
  <2>3. ControlOK'
    BY <1>1, <1>4 DEF ControlOK, clientVars, cleanerVars
  <2>4. Flags'
    BY <1>1, <1>4 DEF Flags, WorkerTurns, clientVars, cleanerVars
  <2> QED
    BY <2>2, <2>3, <2>4 DEF OpsControlOK
<1>5. CASE a = "monitor" /\ MonitorTurns /\ UNCHANGED <<clientVars, workerVars, cleanerVars>>
  <2>1. PICK o : Becomes("monitor", o) /\ OpOK(backend.name, o)
    BY <1>5 DEF MonitorTurns
  <2>2. OpsOK' /\ op'["cleaner"].do \in {"none", "listKeys", "delete"}
    BY <1>2, <2>1, OthersFollow
  <2>3. ControlOK'
    BY <1>1, <1>5 DEF ControlOK, clientVars, cleanerVars
  <2>4. Flags'
    BY <1>1, <1>5 DEF Flags, MonitorTurns, clientVars, workerVars, cleanerVars
  <2> QED
    BY <2>2, <2>3, <2>4 DEF OpsControlOK
<1>6. CASE /\ a = "cleaner" /\ CleanerTurns(last, answer)
           /\ UNCHANGED <<clientVars, workerVars, ready, pidfile, broken>>
  <2>1. PICK o : Becomes("cleaner", o) /\ OpOK(backend.name, o) /\ CleanerFits(o, cleaner', last)
    BY <1>6 DEF CleanerTurns, CleanerGoes
  <2>2. OpsOK' /\ op'["cleaner"].do \in {"none", "listKeys", "delete"}
    BY <1>2, <2>1, OthersFollow DEF CleanerFits
  <2>3. requests' \subseteq requests /\ gone' \subseteq Jobs
    <3>1. gone \subseteq Jobs
      BY <1>1 DEF Flags
    <3>2. UNCHANGED <<requests, gone>> \/ \E f : RemoveRequest(f)
      BY <1>6 DEF CleanerTurns
    <3>3. \A r \in requests : r.quiet \subseteq Jobs
      BY <1>1 DEF ControlOK, RequestType
    <3> QED
      BY <3>1, <3>2, <3>3 DEF RemoveRequest
  <2>4. ControlOK'
    <3>1. CleanerOK(cleaner')
      BY <1>6 DEF CleanerTurns, CleanerGoes
    <3> QED
      BY <1>1, <1>6, <2>3, <3>1 DEF ControlOK, clientVars
  <2>5. Flags'
    BY <1>1, <1>6, <2>3 DEF Flags, clientVars, workerVars
  <2> QED
    BY <2>2, <2>4, <2>5 DEF OpsControlOK
<1>7. CASE a = "user" /\ UserTurns /\ UNCHANGED <<clientVars, workerVars, ready, cleanerVars>>
  <2>1. PICK o : Becomes("user", o) /\ OpOK(backend.name, o)
    BY <1>7 DEF UserTurns
  <2>2. OpsOK' /\ op'["cleaner"].do \in {"none", "listKeys", "delete"}
    BY <1>2, <2>1, OthersFollow
  <2>3. ControlOK'
    BY <1>1, <1>7 DEF ControlOK, clientVars, cleanerVars
  <2>4. Flags'
    BY <1>1, <1>7 DEF Flags, clientVars, workerVars, cleanerVars
  <2> QED
    BY <2>2, <2>3, <2>4 DEF OpsControlOK
<1> QED
  BY <1>3, <1>4, <1>5, <1>6, <1>7 DEF Turn

\* Only an actor that has an operation takes a storage step.
LEMMA StepsBusy ==
  ASSUME DataInv, NEW a \in Actors, StorageStep(a) \/ FailingRequest(a)
  PROVE  op[a].do # "none"
PROOF
<1>1. CASE StorageStep(a)
  BY <1>1 DEF StorageStep
<1>2. CASE FailingRequest(a)
  <2>1. op[a].at \in Requests /\ OpOK(backend.name, op[a])
    BY <1>2, OpIs DEF FailingRequest
  <2> QED
    BY <2>1 DEF OpOK, Stages, Requests
<1> QED
  BY <1>1, <1>2

\* A storage step keeps the invariant.
LEMMA StorageKeeps ==
  ASSUME DataInv, NEW a \in Actors, StorageStep(a) \/ FailingRequest(a)
  PROVE  DataInv'
PROOF
<1>1. /\ GoesWell(a) \/ EndsWell(a)
      /\ StoreOK(backend.name, objects', index')
      /\ UNCHANGED backend /\ extras' \in Nat
  BY StepWell
<1>2. bucket' \in BOOLEAN
  BY BucketKept
<1>3. /\ OpsControlOK /\ ControlOK /\ Flags /\ lied \subseteq Excused
      /\ \E b \in DOMAIN Storage : backend = [name |-> b, does |-> Storage[b]]
  BY DataParts DEF OpsControlOK, DataInv, TypeOK
<1>4. op[a].do # "none"
  BY StepsBusy
<1>5. CASE GoesWell(a)
  <2>1. PICK o \in OpType : /\ Becomes(a, o) /\ UNCHANGED <<processes, lied>>
                            /\ OpOK(backend.name, o) /\ Follows(a, o)
    BY <1>5 DEF GoesWell
  <2>2. a = "cleaner" => o.do \in {"none", "listKeys", "delete"}
    <3>1. o.do = op[a].do
      BY <2>1 DEF Follows
    <3> QED
      BY <1>3, <3>1 DEF OpsControlOK
  <2>3. OpsOK' /\ op'["cleaner"].do \in {"none", "listKeys", "delete"}
    BY <1>1, <2>1, <2>2, OthersFollow
  <2>4. ControlOK' /\ Flags'
    BY <1>3, <2>1 DEF ControlOK, Flags, processes, clientVars, workerVars, cleanerVars
  <2>5. OpsControlOK' /\ lied' \subseteq Excused'
    BY <1>1, <1>3, <2>1, <2>3, <2>4 DEF OpsControlOK, Excused
  <2> QED
    BY <1>1, <1>2, <1>3, <2>5, DataParts
<1>6. CASE EndsWell(a)
  <2>1. PICK o \in OpType : \E answer : EndsWith(a, o, answer)
    BY <1>6 DEF EndsWell
  <2>2. PICK answer : EndsWith(a, o, answer)
    BY <2>1
  <2>3. Turn(a, o, answer) /\ lied' \subseteq Excused
    BY <1>4, <2>2, EndsTurn
  <2>4. OpsControlOK' /\ lied' \subseteq Excused'
    BY <1>1, <2>3, TurnKeeps DEF Excused
  <2> QED
    BY <1>1, <1>2, <1>3, <2>4, DataParts
<1> QED
  BY <1>1, <1>5, <1>6

\* A step of the client that no storage step takes.
ClientAlone ==
  \/ /\ ClientTurns /\ UNCHANGED requests
     /\ UNCHANGED cleaner \/ (cleaner.at = "none" /\ cleaner' = [cleaner EXCEPT !.at = "start"])
  \/ ClientTurns /\ Written({Executor}) /\ UNCHANGED cleaner
  \/ /\ UNCHANGED <<op, cleaner, cached, queries, removed>> /\ ClientOK(client')
     /\ \/ /\ client.at = "start" /\ client'.at = "ready" /\ UNCHANGED requests
           /\ client'.cleaned = client.cleaned
        \/ /\ client.at = "exit" /\ client'.at = "dumpFn"
           /\ client'.cleaned = client.cleaned
           /\ requests' = requests \cup {Request({Executor})}
        \/ /\ client.at = "open" /\ client'.at = "dump"
           /\ client'.cleaned = client.cleaned /\ client'.toClean = client.toClean
           /\ requests' = requests \cup {Request(client.toClean)}
        \/ /\ client.at = "dump" /\ client'.at = "spawn" /\ Written(client.toClean)
           /\ client'.cleaned = client.cleaned \cup client.toClean

\* The steps of the client alone.
LEMMA ClientSteps ==
  ASSUME DataInv, UNCHANGED worker,
         \/ CreateBucket \/ CreateJob \/ StatusReady \/ Timeout
         \/ SaveRequest \/ SaveFunctionRequest \/ SpawnCleaner
  PROVE  ClientAlone
PROOF
<1>1. /\ ClientOK(client) /\ {cached, removed} \subseteq BOOLEAN /\ queries \in 0 .. Retries
      /\ Retries \in Nat /\ Job \in Jobs
  BY BoundsAssumption, JobOrderType DEF DataInv, ControlOK, TypeOK
<1>2. /\ {"create", "ready", "func", "data", "output"} \subseteq ClientAts \ {"dump", "open"}
      /\ {"create", "ready", "func", "data"} \subseteq Early /\ "output" \notin Early
      /\ {"dumpFn", "dump", "spawn"} \subseteq ClientAts
  BY DEF ClientAts, Early
<1>a. /\ \A at \in ClientAts \ {"open"} :
           /\ ClientOK([client EXCEPT !.at = at]) /\ [client EXCEPT !.at = at].at = at
           /\ [client EXCEPT !.at = at].cleaned = client.cleaned
           /\ [client EXCEPT !.at = at].toClean = client.toClean
  BY <1>1 DEF ClientOK
<1>3. CASE CreateBucket
  <2>1. client.at = "start" /\ UNCHANGED <<cached, queries, removed, requests, cleaner>>
    BY <1>3 DEF CreateBucket, ClientAt
  <2>2. CASE client' = [client EXCEPT !.at = "ready"] /\ UNCHANGED op
    BY <1>2, <1>a, <2>1, <2>2 DEF ClientAlone
  <2>3. CASE /\ client' = [client EXCEPT !.at = "create"]
             /\ Becomes("client", Begun("create", {}, <<>>))
    <3>1. Beginning(Begun("create", {}, <<>>), "create", {}, <<>>)
      BY BeginsOK
    <3>2. /\ OpOK(backend.name, Begun("create", {}, <<>>))
          /\ ClientFits(Begun("create", {}, <<>>), client'.at)
      BY <3>1 DEF Beginning, ClientFits
    <3>3. ClientOK(client') /\ client'.at = "create" /\ client'.cleaned = client.cleaned
      BY <1>2, <1>a, <2>3
    <3>4. ClientTurns
      BY <1>1, <1>2, <2>1, <2>3, <3>2, <3>3 DEF ClientTurns, Early
    <3> QED
      BY <2>1, <3>4 DEF ClientAlone
  <2> QED
    BY <1>3, <2>2, <2>3 DEF CreateBucket
<1>4. CASE CreateJob
  <2> DEFINE at == IF cached THEN "data" ELSE "func"
  <2>1. /\ client.at = "ready" /\ UNCHANGED <<cached, queries, removed, requests, cleaner>>
        /\ ClientGoes([client EXCEPT !.at = at])
    BY <1>4 DEF CreateJob, ClientAt
  <2>2. at \in ClientAts \ {"dump", "open"} /\ client.at \in Early
    BY <1>2, <2>1 DEF Early
  <2> HIDE DEF at
  <2>3. ClientTurns
    BY <1>1, <2>1, <2>2, TurnTo
  <2> QED
    BY <2>1, <2>3 DEF ClientAlone
<1>5. CASE StatusReady
  <2>1. client.at = "wait" /\ UNCHANGED <<cached, queries, requests, cleaner>>
    BY <1>5 DEF StatusReady, ClientAt
  <2>2. CASE ClientGoes([client EXCEPT !.at = "output"]) /\ UNCHANGED removed
    <3>1. ClientTurns
      BY <1>1, <1>2, <2>1, <2>2, TurnTo
    <3> QED
      BY <2>1, <3>1 DEF ClientAlone
  <2>3. CASE ForceClean
    <3>1. ClientTurns
      BY <1>1, <2>1, <2>3, ForceCleanOK, TurnBy
    <3> QED
      BY <2>1, <3>1 DEF ClientAlone
  <2> QED
    BY <1>5, <2>2, <2>3 DEF StatusReady
<1>6. CASE Timeout
  <2>1. client.at = "wait" /\ ForceClean /\ UNCHANGED <<cached, queries, requests, cleaner>>
    BY <1>6 DEF Timeout, ClientAt
  <2>2. ClientTurns
    BY <1>1, <2>1, ForceCleanOK, TurnBy
  <2> QED
    BY <2>1, <2>2 DEF ClientAlone
<1>7. CASE SaveRequest
  <2>1. UNCHANGED <<op, cached, queries, removed, cleaner>>
    BY <1>7 DEF SaveRequest
  <2>2. CASE /\ ClientAt("open") /\ requests' = requests \cup {Request(client.toClean)}
             /\ client' = [client EXCEPT !.at = "dump"]
    BY <1>2, <1>a, <2>1, <2>2 DEF ClientAlone, ClientAt
  <2>3. CASE /\ ClientAt("dump") /\ Written(client.toClean)
             /\ client' = [client EXCEPT !.at = "spawn", !.cleaned = @ \cup client.toClean]
    <3>1. ClientOK(client') /\ client'.at = "spawn" /\ client'.cleaned = client.cleaned \cup client.toClean
      BY <1>1, <1>2, <2>3 DEF ClientOK
    <3> QED
      BY <2>1, <2>3, <3>1 DEF ClientAlone, ClientAt
  <2> QED
    BY <1>7, <2>2, <2>3 DEF SaveRequest
<1>8. CASE SaveFunctionRequest
  <2>1. UNCHANGED <<cached, queries, removed, cleaner>>
    BY <1>8 DEF SaveFunctionRequest
  <2>2. CASE /\ ClientAt("exit") /\ requests' = requests \cup {Request({Executor})}
             /\ client' = [client EXCEPT !.at = "dumpFn"] /\ UNCHANGED op
    BY <1>2, <1>a, <2>1, <2>2 DEF ClientAlone, ClientAt
  <2>3. CASE /\ ClientAt("dumpFn") /\ Written({Executor})
             /\ CleanUp([client EXCEPT !.exiting = TRUE], client.done \ client.cleaned)
    <3> DEFINE c == [client EXCEPT !.exiting = TRUE]
               jobs == client.done \ client.cleaned
    <3>1. ClientOK(c) /\ c.cleaned = client.cleaned /\ jobs \in SUBSET Jobs /\ jobs \cap c.cleaned = {}
      BY <1>1 DEF ClientOK
    <3>2. CleanUp(c, jobs)
      BY <2>3
    <3> HIDE DEF c, jobs
    <3>3. CleansUp(c)
      BY <3>1, <3>2, CleanUpOK
    <3>4. ClientTurns
      BY <1>1, <2>1, <2>3, <3>1, <3>3, TurnBy DEF ClientAt
    <3> QED
      BY <2>1, <2>3, <3>4 DEF ClientAlone
  <2> QED
    BY <1>8, <2>2, <2>3 DEF SaveFunctionRequest
<1>9. CASE SpawnCleaner
  <2>1. /\ client.at = "spawn" /\ GoOn(client) /\ UNCHANGED <<cached, queries, removed, requests>>
        /\ UNCHANGED cleaner \/ (cleaner.at = "none" /\ cleaner' = [cleaner EXCEPT !.at = "start"])
    BY <1>9 DEF SpawnCleaner, ClientAt
  <2>2. ClientTurns
    BY <1>1, <2>1, CleanUpOK, TurnBy
  <2> QED
    BY <2>1, <2>2 DEF ClientAlone
<1> QED
  BY <1>3, <1>4, <1>5, <1>6, <1>7, <1>8, <1>9

\* A step of the cleaner that no storage step takes.
CleanerAlone ==
  \/ /\ UNCHANGED op /\ CleanerOK(cleaner')
     /\ cleaner.at \notin {"clean", "functions"} /\ cleaner'.at \notin {"clean", "functions"}
     /\ cleaner'.batch \subseteq {r.jobs : r \in requests}
  \/ /\ cleaner.at = "load" /\ CleanerGoes(cleaner.batch, Idle)
     /\ cleaner'.at = "clean" => cleaner'.left = FileOf(cleaner'.batch)
  \/ Becomes("cleaner", Idle) /\ cleaner' = CleanerOff

\* A cleaner that is off, or at a place outside the cleaning.
LEMMA OffOK ==
  \A at \in {"none", "start", "look", "load", "leave", "functions"} :
    LET c == [CleanerOff EXCEPT !.at = at] IN
    /\ CleanerOK(c) /\ c.at = at /\ c.batch = {}
    /\ CleanerOK(CleanerOff) /\ CleanerOff.at = "none" /\ CleanerOff.batch = {}
BY DEF CleanerOff, CleanerOK

\* The steps of the cleaner alone.
LEMMA CleanerSteps ==
  ASSUME DataInv, Start \/ Look \/ Load \/ Leave
  PROVE  /\ CleanerAlone
         /\ pidfile' \in BOOLEAN /\ broken' \in BOOLEAN
PROOF
<1>1. /\ CleanerOK(cleaner) /\ requests \subseteq RequestType
      /\ pidfile \in BOOLEAN /\ broken \in BOOLEAN
      /\ cleaner.batch \in SUBSET JobSets
  BY DEF DataInv, TypeOK, ControlOK, CleanerOK
<1>2. CASE Start
  <2> DEFINE at == IF pidfile THEN "none" ELSE "look"
  <2>1. /\ cleaner.at = "start" /\ cleaner' = [CleanerOff EXCEPT !.at = at]
        /\ UNCHANGED <<op, broken>> /\ pidfile' = TRUE
    BY <1>2 DEF Start
  <2>2. at \in {"none", "look"}
    OBVIOUS
  <2> HIDE DEF at
  <2>3. CleanerOK(cleaner') /\ cleaner'.at = at /\ cleaner'.batch = {}
    BY <2>1, <2>2, OffOK
  <2> QED
    BY <1>1, <2>1, <2>2, <2>3 DEF CleanerAlone
<1>3. CASE Look
  <2>1. cleaner.at = "look" /\ UNCHANGED <<op, pidfile, broken>>
    BY <1>3 DEF Look
  <2>2. CASE requests = {}
    <3>1. cleaner' = [CleanerOff EXCEPT !.at = "leave"]
      BY <1>3, <2>2 DEF Look
    <3>2. CleanerOK(cleaner') /\ cleaner'.at = "leave" /\ cleaner'.batch = {}
      BY <3>1, OffOK
    <3> QED
      BY <1>1, <2>1, <3>2 DEF CleanerAlone
  <2>3. CASE requests # {}
    <3> DEFINE c == [at |-> "load", batch |-> {r.jobs : r \in requests}, left |-> {}]
    <3>1. cleaner' = c
      BY <1>3, <2>3 DEF Look
    <3>2. {r.jobs : r \in requests} \in SUBSET JobSets
      BY <1>1 DEF RequestType
    <3>3. CleanerOK(c) /\ c.at = "load" /\ c.batch = {r.jobs : r \in requests}
      BY <3>2 DEF CleanerOK
    <3> HIDE DEF c
    <3> QED
      BY <1>1, <2>1, <3>1, <3>3 DEF CleanerAlone
  <2> QED
    BY <2>2, <2>3
<1>4. CASE Load
  <2>1. cleaner.at = "load" /\ UNCHANGED pidfile /\ broken' \in BOOLEAN
    BY <1>1, <1>4 DEF Load
  <2>2. CASE CleanNext(cleaner.batch)
    BY <1>1, <2>1, <2>2, CleanNextOK DEF CleanerAlone
  <2>3. CASE cleaner' = [CleanerOff EXCEPT !.at = "leave"] /\ UNCHANGED op
    <3>1. CleanerOK(cleaner') /\ cleaner'.at = "leave" /\ cleaner'.batch = {}
      BY <2>3, OffOK
    <3> QED
      BY <1>1, <2>1, <2>3, <3>1 DEF CleanerAlone
  <2> QED
    BY <1>1, <1>4, <2>1, <2>2, <2>3 DEF Load
<1>5. CASE Leave
  <2>1. /\ cleaner.at = "leave" /\ cleaner' = CleanerOff /\ UNCHANGED <<op, broken>>
        /\ pidfile' = FALSE
    BY <1>5 DEF Leave
  <2>2. CleanerOK(cleaner') /\ cleaner'.at = "none" /\ cleaner'.batch = {}
    BY <2>1, OffOK
  <2> QED
    BY <1>1, <2>1, <2>2 DEF CleanerAlone
<1> QED
  BY <1>2, <1>3, <1>4, <1>5

\* A step that changes no operation.
LEMMA OpsSame ==
  ASSUME DataInv, UNCHANGED <<op, backend>>
  PROVE  OpsOK' /\ op'["cleaner"].do \in {"none", "listKeys", "delete"}
BY DEF DataInv, OpsOK

\* The requests that are written are well formed.
LEMMA RequestFits ==
  ASSUME DataInv
  PROVE  /\ Request({Executor}) \in RequestType
         /\ client.at = "open" => Request(client.toClean) \in RequestType
         /\ \A jobs : Written(jobs) => requests' \subseteq RequestType
PROOF
<1>1. requests \subseteq RequestType /\ ClientOK(client)
  BY DEF DataInv, ControlOK
<1>2. \A jobs \in JobSets : Request(jobs) \in RequestType
  BY DEF Request, RequestType, HasEnded
<1>3. {Executor} \in JobSets
  BY DEF JobSets
<1>4. client.at = "open" => client.toClean \in JobSets
  BY <1>1 DEF ClientOK, JobSets
<1>5. ASSUME NEW jobs, Written(jobs)
      PROVE  requests' \subseteq RequestType
  BY <1>1, <1>5 DEF Written, RequestType
<1> QED
  BY <1>2, <1>3, <1>4, <1>5

\* A step of one actor alone keeps the invariant but for the store.
LEMMA AloneKeeps ==
  ASSUME DataInv, UNCHANGED backend
  PROVE  /\ ClientAlone /\ UNCHANGED <<workerVars, ready, pidfile, gone, broken>> => OpsControlOK'
         /\ /\ CleanerAlone /\ {pidfile', broken'} \subseteq BOOLEAN
            /\ UNCHANGED <<clientVars, workerVars, ready, requests, gone>>
            => OpsControlOK'
PROOF
<1>1. OpsControlOK /\ ControlOK /\ Flags
  BY DataParts DEF OpsControlOK
<1>2. {"client", "cleaner"} \subseteq Actors
  BY DEF Actors
<1>3. ASSUME ClientAlone, UNCHANGED <<workerVars, ready, pidfile, gone, broken>>
      PROVE  OpsControlOK'
  <2>1. OpsOK' /\ op'["cleaner"].do \in {"none", "listKeys", "delete"}
    <3>1. CASE ClientTurns
      <4>1. PICK o : Becomes("client", o) /\ OpOK(backend.name, o)
        BY <3>1 DEF ClientTurns
      <4> QED
        BY <1>2, <4>1, OthersFollow
    <3> QED
      BY <1>3, <3>1, OpsSame DEF ClientAlone
  <2>2. ClientOK(client')
    BY <1>3 DEF ClientAlone, ClientTurns
  <2>3. requests' \subseteq RequestType
    <3>1. requests \subseteq RequestType
      BY <1>1 DEF ControlOK
    <3> QED
      BY <1>3, <3>1, RequestFits DEF ClientAlone
  <2>4. CleanerOK(cleaner')
    <3>1. CleanerOK(cleaner)
      BY <1>1 DEF ControlOK
    <3>2. CASE UNCHANGED cleaner
      BY <3>1, <3>2
    <3>3. CASE cleaner.at = "none" /\ cleaner' = [cleaner EXCEPT !.at = "start"]
      BY <3>1, <3>3 DEF CleanerOK
    <3> QED
      BY <1>3, <3>2, <3>3 DEF ClientAlone
  <2>5. {cached', removed'} \subseteq BOOLEAN /\ queries' \in 0 .. Retries
    BY <1>1, <1>3 DEF ClientAlone, ClientTurns, Flags
  <2>6. Flags'
    BY <1>1, <1>3, <2>5 DEF Flags, workerVars
  <2> QED
    BY <2>1, <2>2, <2>3, <2>4, <2>6 DEF OpsControlOK, ControlOK
<1>4. ASSUME CleanerAlone, {pidfile', broken'} \subseteq BOOLEAN,
             UNCHANGED <<clientVars, workerVars, ready, requests, gone>>
      PROVE  OpsControlOK'
  <2>1. OpsOK' /\ op'["cleaner"].do \in {"none", "listKeys", "delete"}
    <3>1. CASE UNCHANGED op
      BY <3>1, OpsSame
    <3>2. ASSUME NEW o, Becomes("cleaner", o), OpOK(backend.name, o),
                 o.do \in {"none", "listKeys", "delete"}
          PROVE  OpsOK' /\ op'["cleaner"].do \in {"none", "listKeys", "delete"}
      BY <1>2, <3>2, OthersFollow
    <3>3. CASE Becomes("cleaner", Idle)
      BY <3>2, <3>3, IdleOK
    <3>4. CASE CleanerGoes(cleaner.batch, Idle)
      BY <3>2, <3>4 DEF CleanerGoes, CleanerFits
    <3> QED
      BY <1>4, <3>1, <3>3, <3>4 DEF CleanerAlone
  <2>2. CleanerOK(cleaner')
    BY <1>4, OffOK DEF CleanerAlone, CleanerGoes
  <2>3. ControlOK'
    BY <1>1, <1>4, <2>2 DEF ControlOK, clientVars
  <2>4. Flags'
    BY <1>1, <1>4 DEF Flags, clientVars, workerVars
  <2> QED
    BY <2>1, <2>3, <2>4 DEF OpsControlOK
<1> QED
  BY <1>3, <1>4

\* And the store, when it leaves that as it is.
LEMMA DataSame ==
  ASSUME DataInv, UNCHANGED <<backend, store, lied>>, OpsControlOK', extras' \in Nat
  PROVE  DataInv'
PROOF
<1>1. /\ bucket \in BOOLEAN /\ StoreOK(backend.name, objects, index) /\ lied \subseteq Excused
      /\ \E b \in DOMAIN Storage : backend = [name |-> b, does |-> Storage[b]]
  BY DataParts DEF DataInv, TypeOK
<1>2. /\ bucket' \in BOOLEAN /\ StoreOK(backend'.name, objects', index')
      /\ \E b \in DOMAIN Storage : backend' = [name |-> b, does |-> Storage[b]]
  BY <1>1 DEF store
<1>3. lied' \subseteq Excused'
  BY <1>1 DEF Excused
<1> QED
  BY <1>2, <1>3, DataParts

\* Steps of the client alone leave the rest as it is.
LEMMA AloneSteps ==
  ASSUME DataInv, ClientStep \/ TimedOut
  PROVE  /\ UNCHANGED <<backend, store, lied, extras, workerVars, ready, pidfile, gone, broken>>
         /\ UNCHANGED <<objects, index, worker>>
         /\ ClientAlone
PROOF
<1>1. UNCHANGED <<backend, workerVars, ready, pidfile, gone, broken, userVars, lied, extras>>
  BY DEF ClientStep, TimedOut
<1>2. /\ \/ CreateBucket \/ CreateJob \/ StatusReady \/ Timeout
         \/ SaveRequest \/ SaveFunctionRequest \/ SpawnCleaner
      /\ UNCHANGED store
  BY DEF ClientStep, TimedOut, CreateBucket, CreateJob, StatusReady, Timeout,
     SaveRequest, SaveFunctionRequest, SpawnCleaner
<1>3. UNCHANGED <<objects, index, worker>>
  BY <1>1, <1>2 DEF store, workerVars
<1>4. ClientAlone
  BY <1>2, <1>3, ClientSteps
<1> QED
  BY <1>1, <1>2, <1>3, <1>4

\* The start of the worker is a turn of it.
LEMMA StartTurns ==
  ASSUME DataInv, StartWorker
  PROVE  /\ WorkerTurns /\ UNCHANGED <<clientVars, ready, cleanerVars>>
         /\ UNCHANGED <<backend, store, lied, extras>>
PROOF
<1>1. /\ worker = "start" /\ WorkerGoes("func") /\ UNCHANGED worked
      /\ UNCHANGED <<backend, store, lied, extras>>
      /\ UNCHANGED <<clientVars, ready, cleanerVars>>
  BY DEF StartWorker
<1>2. "func" \in Workers \ {"none"} /\ worked' \in BOOLEAN
  BY <1>1 DEF Workers, DataInv, TypeOK
<1> QED
  BY <1>1, <1>2, WorkerGoesOK

\* The monitor begins to list.
LEMMA ListStatusTurns ==
  ASSUME DataInv, ListStatus
  PROVE  /\ MonitorTurns /\ UNCHANGED <<clientVars, workerVars, cleanerVars>>
         /\ UNCHANGED <<backend, store, lied, extras>>
PROOF
<1>1. /\ Becomes("monitor", List(<<"jobs">>))
      /\ UNCHANGED <<backend, store, lied, extras, processes>>
  BY DEF ListStatus
<1>2. UNCHANGED <<clientVars, workerVars, cleanerVars, ready>> /\ ready \in BOOLEAN
  BY <1>1 DEF processes, DataInv, TypeOK
<1>3. Beginning(List(<<"jobs">>), "listKeys", {}, <<"jobs">>)
  BY BeginsOK, KeysOf
<1> QED
  BY <1>1, <1>2, <1>3 DEF MonitorTurns, Beginning

\* The user begins a call.
LEMMA UserCallTurns ==
  ASSUME DataInv, UserCall
  PROVE  /\ UserTurns /\ UNCHANGED <<clientVars, workerVars, ready, cleanerVars>>
         /\ UNCHANGED <<backend, store, lied>> /\ extras' \in Nat
PROOF
<1>1. /\ UNCHANGED <<backend, store, lied, clientVars, workerVars, ready, cleanerVars>>
      /\ extras' \in Nat
  BY DEF UserCall, DataInv, TypeOK
<1>2. /\ Beginning(Put(UserKey), "put", {UserKey}, <<>>)
      /\ Beginning(Begun("listObjects", {}, <<"jobs">>), "listObjects", {}, <<"jobs">>)
  BY BeginsOK, KeysOf
<1>3. ASSUME NEW what \in {"init", "output"}
      PROVE  /\ Beginning(Get(CallKey(Job, what)), "get", {CallKey(Job, what)}, <<>>)
             /\ Beginning(Begun("head", {CallKey(Job, what)}, <<>>), "head",
                          {CallKey(Job, what)}, <<>>)
  BY BeginsOK, KeysOf
<1>4. \/ Becomes("user", Put(UserKey))
      \/ Becomes("user", Begun("listObjects", {}, <<"jobs">>))
      \/ \E what \in {"init", "output"} :
           \/ Becomes("user", Get(CallKey(Job, what)))
           \/ Becomes("user", Begun("head", {CallKey(Job, what)}, <<>>))
  BY DEF UserCall
<1> QED
  BY <1>1, <1>2, <1>3, <1>4 DEF UserTurns, Beginning

\* Every step keeps the invariant.
LEMMA DataNext ==
  ASSUME DataInv, [Next]_vars
  PROVE  DataInv'
PROOF
<1>1. /\ OpsControlOK /\ ControlOK /\ Flags /\ extras \in Nat
      /\ Job \in Jobs /\ {"client", "monitor", "cleaner", "user", Job} \subseteq Actors
  BY DataParts, JobOrderType DEF OpsControlOK, DataInv, TypeOK, Actors
<1>2. ASSUME NEW a \in Actors, StorageStep(a) \/ FailingRequest(a)
      PROVE  DataInv'
  BY <1>2, StorageKeeps
<1>3. CASE ClientStep \/ TimedOut
  <2>1. /\ UNCHANGED <<backend, store, lied, extras, workerVars, ready, pidfile, gone, broken>>
        /\ ClientAlone
    BY <1>3, AloneSteps
  <2>2. OpsControlOK'
    BY <2>1, AloneKeeps
  <2> QED
    BY <1>1, <2>1, <2>2, DataSame
<1>4. CASE StartWorker
  <2>1. UNCHANGED <<backend, store, lied, extras>> /\ Turn(Job, Idle, "ok")
    BY <1>4, StartTurns DEF Turn
  <2> QED
    BY <1>1, <2>1, TurnKeeps, DataSame
<1>5. CASE ListStatus
  <2>1. UNCHANGED <<backend, store, lied, extras>> /\ Turn("monitor", Idle, "ok")
    BY <1>5, ListStatusTurns DEF Turn
  <2> QED
    BY <1>1, <2>1, TurnKeeps, DataSame
<1>6. CASE CleanerStep
  <2>1. /\ Start \/ Look \/ Load \/ Leave
        /\ UNCHANGED <<backend, store, lied, extras, clientVars, workerVars, ready, requests, gone>>
    BY <1>6 DEF CleanerStep
  <2>2. CleanerAlone /\ {pidfile', broken'} \subseteq BOOLEAN
    BY <2>1, CleanerSteps
  <2>3. OpsControlOK'
    BY <2>1, <2>2, AloneKeeps
  <2> QED
    BY <1>1, <2>1, <2>3, DataSame
<1>7. CASE Kill
  <2>1. /\ cleaner' = CleanerOff /\ Becomes("cleaner", Idle) /\ broken' = TRUE
        /\ UNCHANGED <<backend, store, lied, clientVars, workerVars, ready, requests, gone, pidfile>>
        /\ extras' \in Nat
    BY <1>1, <1>7 DEF Kill
  <2>2. {pidfile', broken'} \subseteq BOOLEAN
    BY <1>1, <2>1 DEF Flags
  <2>3. OpsControlOK'
    BY <2>1, <2>2, AloneKeeps DEF CleanerAlone
  <2> QED
    BY <2>1, <2>3, DataSame
<1>8. CASE UserCall
  <2>1. UNCHANGED <<backend, store, lied>> /\ extras' \in Nat /\ Turn("user", Idle, "ok")
    BY <1>1, <1>8, UserCallTurns DEF Turn
  <2> QED
    BY <2>1, TurnKeeps, DataSame
<1>9. CASE UNCHANGED vars
  BY <1>9 DEF vars, store, processes, clientVars, workerVars, cleanerVars, userVars, DataInv,
     TypeOK, AnswersTruthful, ControlOK
<1>10. CASE Next
  BY <1>1, <1>2, <1>3, <1>4, <1>5, <1>6, <1>7, <1>8, <1>10
     DEF Next, ClientThread, WorkerProcess, MonitorThread, CleanerProcess
<1> QED
  BY <1>9, <1>10

\* The initial states satisfy both invariants.
LEMMA DataInit ==
  ASSUME Init
  PROVE  CleanInv
PROOF
<1>1. PICK s \in Starts :
        LET there == LeftBy(s.earlier) IN
        /\ backend = [name |-> s.backend, does |-> Storage[s.backend]]
        /\ bucket = (s.earlier # {} \/ Method("create").by = "none")
        /\ objects = [k \in Keys |-> IF k \in there THEN Value(k) ELSE "none"]
        /\ index = CASE s.backend = "localhost" -> UNION {Dirs(k) : k \in there}
                     [] s.backend = "redis" -> UNION {Dirs(k) \cup {k} : k \in there}
                     [] OTHER -> {}
        /\ op = [a \in Actors |-> Idle]
        /\ client = [at |-> IF s.earlier = {} THEN "start" ELSE "ready", exiting |-> FALSE,
                     done |-> s.earlier, cleaned |-> {}, toClean |-> {}]
        /\ cached = (s.earlier # {})
        /\ worker = "none" /\ worked = FALSE
        /\ ready = FALSE /\ removed = FALSE
        /\ queries = 0
        /\ requests = {}
        /\ cleaner = CleanerOff
        /\ pidfile = FALSE /\ gone = {} /\ broken = FALSE
        /\ local = "old" /\ user = "none" /\ lied = {} /\ extras = s.extras
  BY DEF Init
<1> DEFINE there == LeftBy(s.earlier)
<1>2. /\ s.backend \in DOMAIN Storage /\ s.earlier \in SUBSET Jobs /\ s.extras \in Nat
      /\ Retries \in Nat
  BY BoundsAssumption DEF Jobs
<1>3. there \subseteq Keys
  <2>1. \A j \in Jobs : Under[<<"jobs", j>>] \subseteq Keys
    BY UnderJob, KeysOf
  <2>2. FuncKey \in Keys
    BY KeysOf
  <2> QED
    BY <1>2, <2>1, <2>2 DEF LeftBy
<1>4. backend.name = s.backend
  BY <1>1
<1>5. objects = [k \in Keys |-> IF k \in there THEN Value(k) ELSE "none"] /\ Stored(objects) = there
  <2>1. objects = [k \in Keys |-> IF k \in there THEN Value(k) ELSE "none"]
    BY <1>1
  <2> HIDE DEF there
  <2> QED
    BY <1>3, <2>1, Values DEF Stored
<1>6. /\ s.backend = "localhost" => index = UNION {Dirs(k) : k \in there}
      /\ s.backend = "redis" => index = UNION {Dirs(k) \cup {k} : k \in there}
  BY <1>1
<1> HIDE DEF there
<1>7. \A k \in Keys : Dirs(k) \subseteq DOMAIN Under /\ Dirs(k) \cap Keys = {}
  BY Steps, InJob
<1>8. StoreOK(backend.name, objects, index)
  <2>1. s.backend = "redis" => index \cap Keys \subseteq there
    BY <1>3, <1>6, <1>7
  <2>2. objects \in [Keys -> {"none", "empty", "data"}]
    BY <1>5, Values
  <2>3. /\ s.backend = "localhost" => \A k \in there : Dirs(k) \subseteq index
        /\ s.backend = "redis" => \A k \in there : Dirs(k) \subseteq index
    BY <1>6
  <2> QED
    BY <1>4, <1>5, <2>1, <2>2, <2>3 DEF StoreOK
<1>9. OpsOK /\ \A a \in Actors : op[a] = Idle
  BY <1>1, IdleOK DEF OpsOK
<1>10. ClientOK(client) /\ client.at \in {"start", "ready"} /\ client.cleaned = {}
  BY <1>1, <1>2 DEF ClientOK, ClientAts
<1>11. CleanerOK(cleaner) /\ cleaner.at = "none" /\ cleaner.batch = {}
  BY <1>1, OffOK
<1>12. TypeOK
  <2>1. \E b \in DOMAIN Storage : backend = [name |-> b, does |-> Storage[b]]
    BY <1>1, <1>2
  <2>2. {bucket, cached, worked, ready, removed, pidfile, broken} \subseteq BOOLEAN
    <3>1. bucket \in BOOLEAN /\ cached \in BOOLEAN
      BY <1>1
    <3> QED
      BY <1>1, <3>1
  <2>3. objects \in [Keys -> {"none", "empty", "data"}]
    BY <1>5, Values
  <2>4. /\ worker \in {"none", "start", "func", "data", "init", "output", "status", "ended"}
        /\ gone \subseteq Jobs /\ queries \in 0 .. Retries /\ extras \in Nat
    BY <1>1, <1>2
  <2> QED
    BY <2>1, <2>2, <2>3, <2>4 DEF TypeOK
<1>13. "cleaner" \in Actors /\ {"client", "user", "monitor", Job} \subseteq Actors /\ Idle.do = "none" /\ Idle.at = "none"
  BY IdleOK DEF Actors
<1>14. DataInv
  <2>1. AnswersTruthful
    BY <1>1 DEF AnswersTruthful
  <2>2. ControlOK
    BY <1>1, <1>10, <1>11 DEF ControlOK
  <2> QED
    BY <1>8, <1>9, <1>12, <1>13, <2>1, <2>2 DEF DataInv, OpsOK
<1>15. Roles
  BY <1>1, <1>9, <1>13 DEF Roles
<1>16. RequestsOK /\ GoneOK
  BY <1>1, <1>11 DEF RequestsOK, GoneOK
<1>17. CleaningOK
  BY <1>9, <1>11, <1>13 DEF CleaningOK
<1>18. EntriesOK
  <2>1. s.backend = "redis" => Present \subseteq index
    BY <1>5, <1>6 DEF Present
  <2> QED
    BY <1>4, <1>9, <1>13, <2>1 DEF EntriesOK
<1> QED
  BY <1>14, <1>15, <1>16, <1>17, <1>18 DEF CleanInv

\* The invariant of the operations, of the store and of the program: every
\* operation in flight is at a step its backend has, and every key it may still
\* write or delete is one that its caller named or was shown.
THEOREM DataCorrect == Spec => []DataInv
PROOF
<1>1. Init => DataInv
  BY DataInit DEF CleanInv
<1>2. DataInv /\ [Next]_vars => DataInv'
  BY DataNext
<1> QED
  BY <1>1, <1>2, PTL DEF Spec

\* The variables have their types, on every backend of the table.
THEOREM TypeCorrect == Spec => []TypeOK
PROOF
<1>1. DataInv => TypeOK
  BY DEF DataInv
<1> QED
  BY <1>1, DataCorrect, PTL

\* On every backend, with any interleaving of requests, and whatever fails, an
\* operation that says that a key does not exist says so of some moment of it, and a
\* list has all the keys that were there throughout, however it pages or walks; but
\* for get and head on Swift and head on Oracle, where a failure is taken for a
\* missing key, for an object of no bytes on Infinispan by REST, and for the lists
\* that are one page.
THEOREM Truthfulness == Spec => []AnswersTruthful
PROOF
<1>1. DataInv => AnswersTruthful
  BY DEF DataInv
<1> QED
  BY <1>1, DataCorrect, PTL

---------------------------------------------------------------------------
(* What is cleaned is gone. *)

\* Directories of different jobs have no key in common.
LEMMA Apart ==
  /\ \A i, j \in Owners : i # j => Under[JobDir(i)] \cap Under[JobDir(j)] = {}
  /\ \A j \in Jobs : UserKey \notin Under[JobDir(j)] /\ FuncKey \notin Under[JobDir(j)]
PROOF
<1>1. \A j \in Jobs : Under[JobDir(j)] = {JobKey(j, w) : w \in Parts}
  BY UnderJob
<1>2. Under[JobDir(Executor)] = {FuncKey} /\ FuncKey = JobKey(Executor, "func")
  BY UnderJob, Distinct
<1>3. \A i, j, v, w : JobKey(i, v) = JobKey(j, w) => i = j
  BY Distinct
<1>4. \A j, w : JobKey(j, w) # UserKey
  BY Distinct
<1>5. Executor \notin Jobs
  BY Distinct
<1>6. ASSUME NEW j \in Owners, NEW k \in Under[JobDir(j)]
      PROVE  \E w : k = JobKey(j, w)
  BY <1>1, <1>2, <1>6 DEF Owners
<1>7. ASSUME NEW i \in Owners, NEW j \in Owners, i # j
      PROVE  Under[JobDir(i)] \cap Under[JobDir(j)] = {}
  <2> SUFFICES ASSUME NEW k \in Under[JobDir(i)], k \in Under[JobDir(j)]
               PROVE  FALSE
    OBVIOUS
  <2>1. PICK v : k = JobKey(i, v)
    BY <1>6
  <2>2. PICK w : k = JobKey(j, w)
    BY <1>6
  <2> QED
    BY <1>3, <1>7, <2>1, <2>2
<1> QED
  BY <1>1, <1>2, <1>3, <1>4, <1>5, <1>7

\* A step by which quiet jobs gain neither keys nor entries.
Calm ==
  \A j \in Jobs : Quiet(j) =>
    /\ Stored(objects') \cap Under[JobDir(j)] \subseteq Present
    /\ index' \cap Under[JobDir(j)] \subseteq index

\* What may happen to the requests and to what has been asked for.
Growth ==
  /\ Asked \subseteq Asked'
  /\ \A j \in Jobs : Quiet(j) => Quiet(j)'
  /\ \A r \in requests' :
       \/ \E q \in requests : q.jobs = r.jobs /\ q.quiet = r.quiet
       \/ r.jobs = {Executor} /\ r.quiet = {}
       \/ /\ r.jobs \subseteq Asked' \cap Jobs /\ r.jobs \cap Asked = {}
          /\ r.quiet \subseteq r.jobs /\ \A j \in r.quiet : Quiet(j)

\* What a storage step puts is of the running job, by those who have that role.
LEMMA CalmOK ==
  ASSUME DataInv, Roles, NEW a \in Actors, StoreMoves(a)
  PROVE  Calm
PROOF
<1> SUFFICES ASSUME NEW j \in Jobs, Quiet(j), NEW k \in Under[JobDir(j)],
                    op[a].do = "put", k \in op[a].keys
             PROVE  FALSE
  <2>1. \A i \in Jobs : Under[JobDir(i)] \subseteq Keys
    BY UnderJob
  <2> QED
    BY <2>1 DEF Calm, StoreMoves
<1>1. op[a].keys \subseteq {FuncKey, UserKey} \cup Under[JobDir(Job)] /\ Job \in Jobs
  BY JobOrderType DEF Roles
<1>2. j = Job
  BY <1>1, Apart DEF Owners
<1>3. worker = "ended"
  BY <1>2 DEF Quiet, HasEnded
<1>4. a \notin {"client", Job}
  BY <1>3 DEF Roles
<1>5. a = "user"
  BY <1>4 DEF Roles, Actors
<1> QED
  BY <1>5, Apart DEF Roles

\* A request that is quiet names quiet jobs; so does the file of the cleaner.
LEMMA QuietFacts ==
  ASSUME CleanInv
  PROVE  /\ \A j \in Jobs : AskedQuietly(j) => Quiet(j) /\ j \in Asked
         /\ cleaner.at = "clean" =>
              /\ FileOf(cleaner.batch) \subseteq Asked \cap Jobs
              /\ JobToClean(cleaner.left) \in cleaner.left
              /\ cleaner.left \subseteq FileOf(cleaner.batch)
PROOF
<1>1. RequestsOK /\ CleanerOK(cleaner) /\ Executor \notin Jobs
  BY Distinct DEF CleanInv, DataInv, ControlOK
<1>2. \A j \in Jobs : AskedQuietly(j) => Quiet(j) /\ j \in Asked
  BY <1>1 DEF RequestsOK, AskedQuietly
<1>3. ASSUME cleaner.at = "clean"
      PROVE  /\ FileOf(cleaner.batch) \subseteq Asked \cap Jobs
             /\ JobToClean(cleaner.left) \in cleaner.left
             /\ cleaner.left \subseteq FileOf(cleaner.batch)
  <2>1. /\ cleaner.batch \in SUBSET JobSets /\ JobFiles(cleaner.batch) # {}
        /\ cleaner.left # {} /\ cleaner.left \subseteq FileOf(cleaner.batch)
    BY <1>1, <1>3 DEF CleanerOK
  <2>2. FileOf(cleaner.batch) \in cleaner.batch /\ FileOf(cleaner.batch) \subseteq Jobs
    BY <2>1, FileIs
  <2>3. FileOf(cleaner.batch) \subseteq Asked \cup {Executor}
    BY <1>1, <2>2 DEF RequestsOK
  <2>4. JobToClean(cleaner.left) \in cleaner.left
    BY <2>1 DEF JobToClean
  <2> QED
    BY <1>1, <2>1, <2>2, <2>3, <2>4
<1> QED
  BY <1>2, <1>3

\* What has been asked for quietly was, or is asked for now.
LEMMA GrowthGives ==
  ASSUME CleanInv, Growth
  PROVE  /\ \A j \in Jobs : AskedQuietly(j)' => Quiet(j) /\ (AskedQuietly(j) \/ j \notin Asked)
         /\ \A r \in requests' : /\ r.jobs \subseteq Asked' \cup {Executor}
                                 /\ r.quiet \subseteq r.jobs /\ \A j \in r.quiet : Quiet(j)'
PROOF
<1>1. RequestsOK /\ Executor \notin Jobs /\ requests \subseteq RequestType
  BY Distinct DEF CleanInv, DataInv, ControlOK
<1>2. ASSUME NEW j \in Jobs, AskedQuietly(j)'
      PROVE  Quiet(j) /\ (AskedQuietly(j) \/ j \notin Asked)
  <2>1. PICK r \in requests' : j \in r.quiet
    BY <1>2 DEF AskedQuietly
  <2>2. CASE \E q \in requests : q.jobs = r.jobs /\ q.quiet = r.quiet
    BY <1>1, <2>1, <2>2 DEF AskedQuietly, RequestsOK
  <2> QED
    BY <1>1, <2>1, <2>2 DEF Growth
<1>3. ASSUME NEW r \in requests'
      PROVE  /\ r.jobs \subseteq Asked' \cup {Executor}
             /\ r.quiet \subseteq r.jobs /\ \A j \in r.quiet : Quiet(j)'
  <2>1. CASE \E q \in requests : q.jobs = r.jobs /\ q.quiet = r.quiet
    <3>1. PICK q \in requests : q.jobs = r.jobs /\ q.quiet = r.quiet
      BY <2>1
    <3>2. q.jobs \subseteq Asked \cup {Executor} /\ q.quiet \subseteq q.jobs /\ \A j \in q.quiet : Quiet(j)
      BY <1>1 DEF RequestsOK
    <3>3. q.quiet \subseteq Jobs
      BY <1>1 DEF RequestType
    <3> QED
      BY <3>1, <3>2, <3>3 DEF Growth
  <2> QED
    BY <1>1, <1>3, <2>1 DEF Growth
<1> QED
  BY <1>2, <1>3

\* An operation that has done nothing yet.
Begins(o) == o.at \notin {"set", "unindex"}

\* On Redis a key that is present and to be cleaned stays in the index.
LEMMA EntriesKept ==
  ASSUME CleanInv, Growth, Calm, UNCHANGED backend, NEW a \in Actors, StoreMoves(a),
         \A x \in Actors : Follows(x, op'[x]) \/ Begins(op'[x])
  PROVE  EntriesOK'
PROOF
<1> SUFFICES ASSUME backend.name = "redis", NEW j \in Jobs
             PROVE  /\ j \notin Asked' \/ AskedQuietly(j)'
                         => Stored(objects') \cap Under[JobDir(j)] \subseteq index'
                    /\ j \notin Asked' =>
                         \A x \in Actors : op'[x].at = "set" =>
                           op'[x].keys \cap Under[JobDir(j)] \subseteq index'
  BY DEF EntriesOK, Present
<1> DEFINE U == Under[JobDir(j)]
           p == op["cleaner"]
<1>1. DataInv /\ Roles /\ CleaningOK /\ EntriesOK /\ U \subseteq Keys
  BY UnderJob DEF CleanInv
<1>2. /\ j \notin Asked \/ AskedQuietly(j) => Present \cap U \subseteq index
      /\ j \notin Asked => \A x \in Actors : op[x].at = "set" => op[x].keys \cap U \subseteq index
  BY <1>1 DEF EntriesOK
<1>3. ASSUME NEW k \in index, k \in U, k \notin index'
      PROVE  /\ j \in Asked /\ a = "cleaner" /\ p.at = "unindex" /\ k \in p.keys
             /\ cleaner.at = "clean" /\ j = JobToClean(cleaner.left)
  <2>1. op[a].at = "unindex" /\ k \in op[a].keys
    BY <1>1, <1>3 DEF StoreMoves
  <2>2. op[a].do = "delete"
    <3>1. OpOK(backend.name, op[a]) /\ Fits(backend.name, Storage[backend.name])
      BY <1>1, OpIs
    <3> QED
      BY <2>1, <3>1, AtMeans
  <2>3. a = "cleaner"
    BY <1>1, <2>2 DEF Roles
  <2>4. cleaner.at \in {"clean", "functions"}
    BY <1>1, <2>2, <2>3 DEF Roles
  <2>5. p.keys \subseteq Under[CleanDir(cleaner)]
    BY <1>1, <2>2, <2>3 DEF CleaningOK, CleanDir
  <2>6. k \in Under[CleanDir(cleaner)]
    BY <2>1, <2>3, <2>5
  <2>7. cleaner.at = "clean" => JobToClean(cleaner.left) \in Asked \cap Jobs
    BY QuietFacts
  <2>8. cleaner.at = "clean" /\ j = JobToClean(cleaner.left)
    <3>1. cleaner.at = "functions" => CleanDir(cleaner) = JobDir(Executor)
      BY DEF CleanDir
    <3>2. cleaner.at = "clean" => CleanDir(cleaner) = JobDir(JobToClean(cleaner.left))
      BY DEF CleanDir
    <3>3. Executor \notin Jobs
      BY Distinct
    <3> QED
      BY <1>3, <2>4, <2>6, <2>7, <3>1, <3>2, <3>3, Apart DEF Owners
  <2> QED
    BY <2>1, <2>3, <2>7, <2>8
<1>4. ASSUME j \notin Asked'
      PROVE  Stored(objects') \cap U \subseteq index'
  <2>1. j \notin Asked
    BY <1>4 DEF Growth
  <2> SUFFICES ASSUME NEW k \in Stored(objects'), k \in U
               PROVE  k \in index'
    OBVIOUS
  <2>2. k \in Present \/ (op[a].at = "set" /\ k \in op[a].keys)
    BY DEF StoreMoves
  <2>3. k \in index
    BY <1>2, <2>1, <2>2
  <2> QED
    BY <1>3, <2>1, <2>3
<1>5. ASSUME AskedQuietly(j)'
      PROVE  Stored(objects') \cap U \subseteq index'
  <2> SUFFICES ASSUME NEW k \in Stored(objects'), k \in U
               PROVE  k \in index'
    OBVIOUS
  <2>1. Quiet(j) /\ (AskedQuietly(j) \/ j \notin Asked)
    BY <1>5, GrowthGives
  <2>2. k \in Present
    BY <2>1 DEF Calm
  <2>3. k \in index
    BY <1>2, <2>1, <2>2
  <2> SUFFICES ASSUME k \notin index'
               PROVE  FALSE
    OBVIOUS
  <2>4. /\ j \in Asked /\ p.at = "unindex" /\ k \in p.keys
        /\ cleaner.at = "clean" /\ j = JobToClean(cleaner.left)
    BY <1>3, <2>3
  <2>5. p.keys \cap Present = {}
    BY <1>1, <2>1, <2>4 DEF CleaningOK
  <2> QED
    BY <2>2, <2>4, <2>5
<1>6. ASSUME j \notin Asked', NEW x \in Actors, op'[x].at = "set"
      PROVE  op'[x].keys \cap U \subseteq index'
  <2>1. j \notin Asked
    BY <1>6 DEF Growth
  <2>2. /\ op'[x].keys \subseteq op[x].keys
        /\ op[x].at = "set" \/ (op[x].at = "index" /\ op'[x].keys \subseteq index')
    BY <1>6 DEF Begins, Follows
  <2> QED
    BY <1>2, <1>3, <2>1, <2>2
<1> QED
  BY <1>4, <1>5, <1>6

\* What is gone stays gone.
LEMMA GoneKept ==
  ASSUME CleanInv, Growth, Calm, UNCHANGED gone
  PROVE  GoneOK'
PROOF
<1>1. GoneOK /\ gone \subseteq Jobs
  BY DEF CleanInv, DataInv, TypeOK
<1> SUFFICES ASSUME NEW j \in gone
             PROVE  Quiet(j)' /\ NothingLeft(j)'
  BY DEF GoneOK
<1>2. Quiet(j) /\ NothingLeft(j) /\ j \in Jobs
  BY <1>1 DEF GoneOK
<1>3. Stored(objects') \cap Under[JobDir(j)] \subseteq Present
  BY <1>2 DEF Calm
<1> QED
  BY <1>2, <1>3 DEF Growth, NothingLeft, Present

\* The operation of the cleaner goes on while others work.
LEMMA CleaningCarried ==
  ASSUME CleanInv, Growth, Calm, UNCHANGED <<backend, cleaner>>,
         Follows("cleaner", op'["cleaner"]), OpsOK'
  PROVE  CleaningOK'
PROOF
<1> DEFINE p == op["cleaner"]
           o == op'["cleaner"]
           dir == CleanDir(cleaner)
<1>0. PICK j : j = JobToClean(cleaner.left)
  OBVIOUS
<1>1. /\ o.do = p.do /\ o.keys \subseteq p.keys
      /\ p.do \in Lists => o.prefix = p.prefix
      /\ p.do = "listKeys" =>
           (p.missing \cup p.got) \cap Seen(p, objects', index') \subseteq o.missing \cup o.got
      /\ o.at = "unindex" => p.at = "unindex" \/ o.keys \cap Stored(objects') = {}
  BY DEF Follows
<1>2. /\ p.do = "listKeys" => p.prefix = dir
      /\ p.do = "delete" => p.keys \subseteq Under[dir]
      /\ cleaner.at = "clean" =>
           /\ \A i \in FileOf(cleaner.batch) \ cleaner.left : AskedQuietly(i) => NothingLeft(i)
           /\ AskedQuietly(j) =>
                /\ p.do = "listKeys" => Seen(p, objects, index) \subseteq p.missing \cup p.got
                /\ p.at = "unindex" => p.keys \cap Present = {}
  BY <1>0 DEF CleanInv, CleaningOK, CleanDir
<1>3. o.at = "unindex" => o.do = "delete"
  <2>1. OpOK(backend'.name, o) /\ "cleaner" \in Actors
    BY DEF OpsOK, Actors
  <2>2. Fits(backend.name, Storage[backend.name])
    BY <2>1, OpIs DEF CleanInv
  <2> QED
    BY <2>1, <2>2, AtMeans
<1>4. o.do = "listKeys" => o.prefix = dir
  BY <1>1, <1>2 DEF Lists
<1>5. o.do = "delete" => o.keys \subseteq Under[dir]
  BY <1>1, <1>2
<1>6. ASSUME cleaner.at = "clean", NEW i \in FileOf(cleaner.batch) \ cleaner.left, AskedQuietly(i)'
      PROVE  NothingLeft(i)'
  <2>1. i \in Jobs /\ i \in Asked
    BY <1>6, QuietFacts
  <2>2. AskedQuietly(i) /\ Quiet(i)
    BY <1>6, <2>1, GrowthGives
  <2>3. NothingLeft(i) /\ Stored(objects') \cap Under[JobDir(i)] \subseteq Present
    BY <1>2, <1>6, <2>1, <2>2 DEF Calm
  <2> QED
    BY <2>3 DEF NothingLeft, Present
<1>7. ASSUME cleaner.at = "clean", AskedQuietly(j)'
      PROVE  /\ j \in Jobs /\ AskedQuietly(j) /\ Quiet(j) /\ dir = JobDir(j)
             /\ Stored(objects') \cap Under[JobDir(j)] \subseteq Present
             /\ index' \cap Under[JobDir(j)] \subseteq index
  <2>1. j \in Jobs /\ j \in Asked
    BY <1>0, <1>7, QuietFacts
  <2>2. AskedQuietly(j) /\ Quiet(j)
    BY <1>7, <2>1, GrowthGives
  <2>3. dir = JobDir(j)
    BY <1>0, <1>7 DEF CleanDir
  <2> QED
    BY <2>1, <2>2, <2>3 DEF Calm
<1>8. ASSUME cleaner.at = "clean", AskedQuietly(j)', o.do = "listKeys"
      PROVE  Seen(op["cleaner"], objects, index)' \subseteq o.missing \cup o.got
  <2>1. p.prefix = JobDir(j) /\ o.prefix = JobDir(j) /\ p.do = "listKeys"
    BY <1>1, <1>2, <1>4, <1>7, <1>8
  <2>2. /\ Seen(o, objects', index') = ListableIn(objects', index') \cap Under[JobDir(j)]
        /\ Seen(p, objects', index') = ListableIn(objects', index') \cap Under[JobDir(j)]
        /\ Seen(p, objects, index) = ListableIn(objects, index) \cap Under[JobDir(j)]
    BY <1>8, <2>1 DEF Seen, Lists
  <2>3. ListableIn(objects', index') \cap Under[JobDir(j)] \subseteq ListableIn(objects, index)
    BY <1>7, <1>8 DEF ListableIn, Present
  <2>4. Seen(p, objects', index') \subseteq p.missing \cup p.got
    BY <1>2, <1>7, <1>8, <2>1, <2>2, <2>3
  <2>5. Seen(op["cleaner"], objects, index)' = Seen(o, objects', index')
    BY DEF Seen, ListableIn
  <2> QED
    BY <1>1, <2>1, <2>2, <2>4, <2>5
<1>9. ASSUME cleaner.at = "clean", AskedQuietly(j)', o.at = "unindex"
      PROVE  o.keys \cap Stored(objects') = {}
  BY <1>1, <1>2, <1>3, <1>5, <1>7, <1>9
<1>10. /\ dir = JobDir(IF cleaner'.at = "clean" THEN JobToClean(cleaner'.left) ELSE Executor)
       /\ cleaner' = cleaner /\ Present' = Stored(objects')
  BY DEF CleanDir, Present
<1> HIDE DEF dir, o, p
<1>11. AskedQuietly(JobToClean(cleaner.left))' => AskedQuietly(j)'
  BY <1>0, <1>10 DEF AskedQuietly
<1>12. cleaner'.at = "clean" =>
         /\ \A i \in FileOf(cleaner'.batch) \ cleaner'.left : AskedQuietly(i)' => NothingLeft(i)'
         /\ AskedQuietly(JobToClean(cleaner.left))' =>
              /\ o.do = "listKeys" => Seen(op["cleaner"], objects, index)' \subseteq o.missing \cup o.got
              /\ o.at = "unindex" => o.keys \cap Present' = {}
  BY <1>6, <1>8, <1>9, <1>10, <1>11
<1> QED
  BY <1>4, <1>5, <1>10, <1>12 DEF CleaningOK, o

\* The cleaner begins an operation.
LEMMA CleaningBegun ==
  ASSUME CleanInv, UNCHANGED backend, NEW last, NEW o, op'["cleaner"] = o,
         CleanerFits(o, cleaner', last),
         o.do = "delete" => o.keys \subseteq Under[CleanDir(cleaner')],
         cleaner'.at = "clean" =>
           \A i \in FileOf(cleaner'.batch) \ cleaner'.left : AskedQuietly(i)' => NothingLeft(i)'
  PROVE  CleaningOK'
PROOF
<1>1. /\ o.do = "listKeys" => o.prefix = CleanDir(cleaner') /\ o.missing = Seen(o, objects', index')
      /\ o.at # "unindex"
  BY DEF CleanerFits
<1>2. Seen(op["cleaner"], objects, index)' = Seen(o, objects', index')
  BY DEF Seen, ListableIn
<1> QED
  BY <1>1, <1>2 DEF CleaningOK, CleanDir

\* A listing that ends empty was of an empty directory: no key of a quiet job
\* has come since it began.
LEMMA EndedEmpty ==
  ASSUME CleanInv, NEW last \in OpType, NEW answer, EndsWith("cleaner", last, answer),
         EmptyList(last, answer), cleaner.at = "clean", AskedQuietly(JobToClean(cleaner.left))
  PROVE  Stored(objects') \cap Under[JobDir(JobToClean(cleaner.left))] = {}
PROOF
<1> DEFINE j == JobToClean(cleaner.left)
           p == op["cleaner"]
           U == Under[JobDir(j)]
<1>1. /\ last.do = "listKeys" /\ answer = "ok" /\ last.got = {} /\ last.do = p.do
      /\ last.prefix = p.prefix
      /\ (p.missing \cup p.got) \cap Seen(p, objects', index') \subseteq last.missing \cup last.got
  BY DEF EmptyList, EndsWith, Follows, Lists
<1>2. /\ UNCHANGED <<objects, index>>
      /\ Method("listKeys").by = "page" => Present \cap Under[last.prefix] = {}
      /\ Truthful(Watch(last), answer) \/ last.do \in Excused
  BY <1>1 DEF EndsWith
<1>3. p.prefix = JobDir(j) /\ Seen(p, objects, index) \subseteq p.missing \cup p.got
  BY <1>1 DEF CleanInv, CleaningOK
<1>4. CASE Method("listKeys").by = "page"
  BY <1>1, <1>2, <1>3, <1>4 DEF Present
<1>5. CASE Method("listKeys").by # "page"
  <2>1. last.do \notin Excused
    BY <1>1 DEF Excused
  <2>2. /\ Watch(last).do = last.do
        /\ Watch(last).missing = last.missing \cap Seen(last, objects', index')
    BY <1>1, WatchIs DEF Lists
  <2>3. Watch(last).missing = {}
    BY <1>1, <1>2, <1>5, <2>1, <2>2 DEF Truthful, Lists
  <2>4. /\ Seen(p, objects', index') = ListableIn(objects', index') \cap U
        /\ Seen(last, objects', index') = ListableIn(objects', index') \cap U
        /\ Seen(p, objects, index) = ListableIn(objects, index) \cap U
    BY <1>1, <1>3 DEF Seen, Lists
  <2>5. ListableIn(objects', index') = ListableIn(objects, index)
    BY <1>2 DEF ListableIn, Stored
  <2>6. ListableIn(objects', index') \cap U = {}
    BY <1>1, <1>3, <2>2, <2>3, <2>4, <2>5
  <2>7. CASE backend.name = "redis"
    <3>1. j \in Jobs /\ U \subseteq Keys
      BY QuietFacts, UnderJob
    <3>2. Present \cap U \subseteq index
      BY <2>7, <3>1 DEF CleanInv, EntriesOK
    <3>3. index \cap Keys \cap U = {}
      BY <1>2, <2>6, <2>7 DEF ListableIn
    <3> QED
      BY <1>2, <3>1, <3>2, <3>3 DEF Present
  <2>8. CASE backend.name # "redis"
    BY <2>6, <2>8 DEF ListableIn
  <2> QED
    BY <2>7, <2>8
<1> QED
  BY <1>4, <1>5

\* The jobs of the file that the cleaner has done with are empty.
LEMMA CleanedBefore ==
  ASSUME CleanInv, Growth, Calm, cleaner.at = "clean",
         NEW i \in FileOf(cleaner.batch) \ cleaner.left, AskedQuietly(i)
  PROVE  Quiet(i) /\ Stored(objects') \cap Under[JobDir(i)] = {}
PROOF
<1>1. i \in Jobs /\ Quiet(i)
  BY QuietFacts
<1>2. NothingLeft(i)
  BY DEF CleanInv, CleaningOK
<1>3. Stored(objects') \cap Under[JobDir(i)] \subseteq Present
  BY <1>1 DEF Calm
<1> QED
  BY <1>1, <1>2, <1>3 DEF NothingLeft

\* A turn of the cleaner: it leaves a job, and drops a request, when nothing
\* is left.
LEMMA CleaningTurned ==
  ASSUME CleanInv, Growth, Calm, UNCHANGED backend, NEW last \in OpType, NEW answer,
         EndsWith("cleaner", last, answer), CleanerTurns(last, answer)
  PROVE  CleaningOK' /\ GoneOK'
PROOF
<1> DEFINE p == op["cleaner"]
<1>0. PICK j : j = JobToClean(cleaner.left)
  OBVIOUS
<1>a. DataInv /\ CleaningOK /\ GoneOK /\ gone \subseteq Jobs /\ "cleaner" \in Actors
  BY DEF CleanInv, DataInv, TypeOK, Actors
<1>b. RequestsOK /\ \A r \in requests : r.quiet \subseteq Jobs
  BY DEF CleanInv, DataInv, ControlOK, RequestType
<1>1. PICK o : Becomes("cleaner", o) /\ OpOK(backend.name, o) /\ CleanerFits(o, cleaner', last)
  BY DEF CleanerTurns, CleanerGoes
<1>2. op'["cleaner"] = o
  BY <1>1, <1>a DEF Becomes
<1>3. o.do = "delete" => o.keys \subseteq Under[CleanDir(cleaner')]
  <2> SUFFICES ASSUME o.do = "delete"
               PROVE  o.keys \subseteq Under[CleanDir(cleaner')]
    OBVIOUS
  <2>1. cleaner' = cleaner /\ last.do = "listKeys" /\ o.keys = last.got
    BY <1>1 DEF CleanerFits
  <2>2. /\ p.do = "listKeys" /\ last.prefix = p.prefix
        /\ last.prefix # <<"jobs">> => last.got \subseteq Under[last.prefix]
    BY <2>1 DEF EndsWith, Follows, Lists
  <2>3. p.prefix = CleanDir(cleaner)
    BY <1>a, <2>2 DEF CleaningOK, CleanDir
  <2>4. CleanDir(cleaner) # <<"jobs">>
    BY Distinct DEF CleanDir
  <2> QED
    BY <2>1, <2>2, <2>3, <2>4
<1>4. requests' \subseteq requests
  BY DEF CleanerTurns, RemoveRequest
<1>5. \A i : AskedQuietly(i)' => AskedQuietly(i)
  BY <1>4 DEF AskedQuietly
<1>6. ASSUME cleaner.at = "clean", EmptyList(last, answer), AskedQuietly(j)
      PROVE  Stored(objects') \cap Under[JobDir(j)] = {}
  BY <1>0, <1>6, EndedEmpty
<1>7. ASSUME cleaner'.at = "clean", NEW i \in FileOf(cleaner'.batch) \ cleaner'.left, AskedQuietly(i)'
      PROVE  NothingLeft(i)'
  <2>1. AskedQuietly(i)
    BY <1>5, <1>7
  <2>2. CASE cleaner'.left = FileOf(cleaner'.batch)
    BY <1>7, <2>2
  <2>3. CASE cleaner' = cleaner
    BY <1>7, <2>1, <2>3, CleanedBefore DEF NothingLeft, Present
  <2>4. CASE /\ cleaner.at = "clean" /\ cleaner'.batch = cleaner.batch
             /\ cleaner'.left = cleaner.left \ {JobToClean(cleaner.left)} /\ EmptyList(last, answer)
    <3>1. i = j \/ i \in FileOf(cleaner.batch) \ cleaner.left
      BY <1>0, <1>7, <2>4
    <3>2. Stored(objects') \cap Under[JobDir(i)] = {}
      BY <1>6, <2>1, <2>4, <3>1, CleanedBefore
    <3> QED
      BY <3>2 DEF NothingLeft, Present
  <2> QED
    BY <1>7, <2>2, <2>3, <2>4 DEF CleanerTurns
<1>8. CleaningOK'
  BY <1>1, <1>2, <1>3, <1>7, CleaningBegun
<1>9. CASE UNCHANGED gone
  BY <1>8, <1>9, GoneKept
<1>10. CASE RemoveRequest({Executor})
  <2>1. gone' = gone \cup UNION {r.quiet : r \in {x \in requests : x.jobs = {Executor}}}
    BY <1>10 DEF RemoveRequest
  <2>2. \A r \in requests : r.quiet \subseteq r.jobs \cap Jobs
    BY <1>b DEF RequestsOK
  <2>3. gone' = gone
    BY <2>1, <2>2, Distinct
  <2> QED
    BY <1>8, <2>3, GoneKept
<1>11. CASE /\ RemoveRequest(FileOf(cleaner.batch)) /\ cleaner.at = "clean"
            /\ cleaner.left = {JobToClean(cleaner.left)} /\ EmptyList(last, answer)
  <2> SUFFICES ASSUME NEW i \in gone'
               PROVE  Quiet(i)' /\ NothingLeft(i)'
    BY <1>8 DEF GoneOK
  <2>1. gone' = gone \cup UNION {r.quiet : r \in {x \in requests : x.jobs = FileOf(cleaner.batch)}}
    BY <1>11 DEF RemoveRequest
  <2>2. CASE i \in gone
    <3>1. Quiet(i) /\ NothingLeft(i) /\ i \in Jobs
      BY <1>a, <2>2 DEF GoneOK
    <3>2. Stored(objects') \cap Under[JobDir(i)] \subseteq Present
      BY <3>1 DEF Calm
    <3> QED
      BY <3>1, <3>2 DEF Growth, NothingLeft, Present
  <2>3. CASE i \notin gone
    <3>1. PICK r \in requests : r.jobs = FileOf(cleaner.batch) /\ i \in r.quiet
      BY <2>1, <2>3
    <3>2. AskedQuietly(i) /\ i \in Jobs /\ i \in r.jobs
      BY <1>b, <3>1 DEF AskedQuietly, RequestsOK
    <3>3. Quiet(i)
      BY <3>2, QuietFacts
    <3>4. i = j \/ i \in FileOf(cleaner.batch) \ cleaner.left
      BY <1>0, <1>11, <3>1, <3>2
    <3>5. Stored(objects') \cap Under[JobDir(i)] = {}
      BY <1>6, <1>11, <3>2, <3>4, CleanedBefore
    <3> QED
      BY <3>2, <3>3, <3>5 DEF Growth, NothingLeft, Present
  <2> QED
    BY <2>2, <2>3
<1> QED
  BY <1>8, <1>9, <1>10, <1>11 DEF CleanerTurns

\* Roles, one actor at a time.
ActorRole(x, o) ==
  /\ o.do = "put" => /\ o.keys \subseteq {FuncKey, UserKey} \cup Under[JobDir(Job)]
                     /\ x \notin {"monitor", "cleaner"}
                     /\ x = "user" => o.keys = {UserKey}
  /\ o.do = "delete" => x = "cleaner"

\* The roles that tell where an actor is.
Places ==
  /\ op["client"].do = "put" => client.at \in {"func", "data"}
  /\ client.at \in Early => worker = "none"
  /\ op[Job].do = "put" => worker \in {"init", "output", "status"}
  /\ cleaner.at \notin {"clean", "functions"} => op["cleaner"].do = "none"

\* Roles, taken apart and put together.
LEMMA RolesFrom ==
  /\ Roles => Places /\ \A x \in Actors : ActorRole(x, op[x])
  /\ Places' /\ (\A x \in Actors : ActorRole(x, op'[x])) => Roles'
PROOF
<1>1. {"client", "monitor", "cleaner", "user", Job} \subseteq Actors
  BY DEF Actors
<1>2. Roles => Places /\ \A x \in Actors : ActorRole(x, op[x])
  <2> SUFFICES ASSUME Roles
               PROVE  Places /\ \A x \in Actors : ActorRole(x, op[x])
    OBVIOUS
  <2>1. Places
    BY DEF Roles, Places, Early
  <2>2. ASSUME NEW x \in Actors
        PROVE  ActorRole(x, op[x])
    BY DEF Roles, ActorRole
  <2> QED
    BY <2>1, <2>2
<1>3. ASSUME Places', \A x \in Actors : ActorRole(x, op'[x])
      PROVE  Roles'
  <2>1. /\ ActorRole("monitor", op'["monitor"]) /\ ActorRole("cleaner", op'["cleaner"])
        /\ ActorRole("user", op'["user"])
    BY <1>1, <1>3
  <2>2. /\ op'["user"].do = "put" => op'["user"].keys = {UserKey}
        /\ op'["monitor"].do # "put" /\ op'["cleaner"].do # "put"
    BY <2>1 DEF ActorRole
  <2>3. ASSUME NEW x \in Actors
        PROVE  /\ op'[x].do = "put" => op'[x].keys \subseteq {FuncKey, UserKey} \cup Under[JobDir(Job)]
               /\ x # "cleaner" => op'[x].do # "delete"
    BY <1>3 DEF ActorRole
  <2> QED
    BY <1>3, <2>2, <2>3 DEF Roles, Places, Early
<1> QED
  BY <1>2, <1>3

\* An operation that goes on keeps its role.
LEMMA RoleFollows ==
  ASSUME DataInv, Roles, OpsOK', NEW x \in Actors, Follows(x, op'[x])
  PROVE  ActorRole(x, op'[x])
PROOF
<1>1. ActorRole(x, op[x])
  BY RolesFrom
<1>2. op'[x].do = op[x].do /\ op'[x].keys \subseteq op[x].keys
  BY DEF Follows
<1>3. op'[x].do = "put" => \E k : op'[x].keys = {k}
  BY DEF OpsOK, OpOK
<1> QED
  BY <1>1, <1>2, <1>3 DEF ActorRole

\* The parts that make the invariant after a step.
LEMMA CleanFrom ==
  ASSUME CleanInv, DataInv', Growth, Calm, UNCHANGED backend, NEW a \in Actors, StoreMoves(a),
         \A x \in Actors : Follows(x, op'[x]) \/ (Begins(op'[x]) /\ ActorRole(x, op'[x])),
         cleaner'.batch \subseteq cleaner.batch \cup {r.jobs : r \in requests},
         Places', CleaningOK', GoneOK'
  PROVE  CleanInv'
PROOF
<1>1. DataInv /\ Roles /\ RequestsOK /\ OpsOK'
  BY DEF CleanInv, DataInv, OpsOK
<1>2. Roles'
  BY <1>1, RolesFrom, RoleFollows
<1>3. EntriesOK'
  BY EntriesKept
<1>4. RequestsOK'
  <2>1. \A f \in cleaner.batch \cup {r.jobs : r \in requests} : f \subseteq Asked \cup {Executor}
    BY <1>1 DEF RequestsOK
  <2>2. \A f \in cleaner'.batch : f \subseteq Asked' \cup {Executor}
    BY <2>1 DEF Growth
  <2> QED
    BY <2>2, GrowthGives DEF RequestsOK
<1> QED
  BY <1>2, <1>3, <1>4 DEF CleanInv

\* A storage step inside an operation.
LEMMA CleanGoesOn ==
  ASSUME CleanInv, DataInv', UNCHANGED backend, NEW a \in Actors, StoreMoves(a), GoesWell(a)
  PROVE  CleanInv'
PROOF
<1>1. DataInv /\ Roles /\ OpsOK' /\ {"client", "cleaner", Job} \subseteq Actors
  BY DEF CleanInv, DataInv, OpsOK, Actors
<1>2. PICK o \in OpType : /\ Becomes(a, o) /\ UNCHANGED <<processes, lied>>
                          /\ OpOK(backend.name, o) /\ Follows(a, o)
  BY DEF GoesWell
<1>3. \A x \in Actors : Follows(x, op'[x])
  BY <1>1, <1>2, BecomesOK
<1>4. UNCHANGED <<client, worker, requests, cleaner, gone>>
  BY <1>2 DEF processes, clientVars, workerVars, cleanerVars
<1>5. Calm
  BY <1>1, CalmOK
<1>6. Growth
  BY <1>4 DEF Growth, Asked, Quiet, HasEnded
<1>7. Places'
  BY <1>1, <1>3, <1>4, RolesFrom DEF Places, Follows
<1>8. CleaningOK' /\ GoneOK'
  BY <1>1, <1>3, <1>4, <1>5, <1>6, CleaningCarried, GoneKept
<1> QED
  BY <1>3, <1>4, <1>5, <1>6, <1>7, <1>8, CleanFrom

\* A step by which an actor begins an operation.
LEMMA CleanBecomes ==
  ASSUME CleanInv, DataInv', UNCHANGED backend, NEW a \in Actors, StoreMoves(a), Growth,
         NEW o, Becomes(a, o), OpOK(backend.name, o), Begins(o), ActorRole(a, o),
         cleaner'.batch \subseteq cleaner.batch \cup {r.jobs : r \in requests}
  PROVE  /\ op'[a] = o /\ \A x \in Actors \ {a} : Follows(x, op'[x])
         /\ Places' /\ CleaningOK' /\ GoneOK' => CleanInv'
         /\ Places' /\ a # "cleaner" /\ UNCHANGED <<cleaner, gone>> => CleanInv'
PROOF
<1>1. DataInv /\ Roles /\ OpsOK' /\ "cleaner" \in Actors
  BY DEF CleanInv, DataInv, OpsOK, Actors
<1>2. op'[a] = o /\ \A x \in Actors \ {a} : Follows(x, op'[x])
  BY <1>1, BecomesOK
<1>3. \A x \in Actors : Follows(x, op'[x]) \/ (Begins(op'[x]) /\ ActorRole(x, op'[x]))
  BY <1>2
<1>4. Calm
  BY <1>1, CalmOK
<1>5. a # "cleaner" /\ UNCHANGED <<cleaner, gone>> => CleaningOK' /\ GoneOK'
  BY <1>1, <1>2, <1>4, CleaningCarried, GoneKept
<1> QED
  BY <1>2, <1>3, <1>4, <1>5, CleanFrom

\* A turn of an actor, by actor.
LEMMA TurnClean ==
  ASSUME CleanInv, DataInv', UNCHANGED backend, NEW a \in Actors, StoreMoves(a),
         NEW last \in OpType, NEW answer, Turn(a, last, answer),
         a = "cleaner" => EndsWith(a, last, answer)
  PROVE  CleanInv'
PROOF
<1>1. /\ DataInv /\ Roles /\ Places /\ OpsOK' /\ {"client", "monitor", "cleaner", "user", Job} \subseteq Actors
      /\ Job \notin {"client", "monitor", "cleaner", "user"}
  BY JobOrderType, NamesAssumption, RolesFrom DEF CleanInv, DataInv, OpsOK, Actors
<1>2. Calm
  BY <1>1, CalmOK
<1>3. CASE a = "client" /\ ClientTurns /\ UNCHANGED <<worked, ready, cleanerVars>>
  <2>1. PICK o : Becomes("client", o) /\ OpOK(backend.name, o) /\ ClientFits(o, client'.at)
    BY <1>3 DEF ClientTurns
  <2>2. UNCHANGED <<requests, cleaner, gone>>
    BY <1>3 DEF cleanerVars
  <2>3. Growth
    <3>1. Asked' = Asked
      BY <1>3 DEF ClientTurns, Asked
    <3>2. HasEnded => HasEnded'
      BY <1>1, <1>3 DEF ClientTurns, HasEnded, Places
    <3> QED
      BY <2>2, <3>1, <3>2 DEF Growth, Quiet
  <2>4. Begins(o) /\ ActorRole("client", o)
    BY <2>1 DEF ClientFits, Begins, ActorRole
  <2>5. /\ op'["client"] = o /\ \A x \in Actors \ {"client"} : Follows(x, op'[x])
        /\ Places' => CleanInv'
    BY <1>3, <2>1, <2>2, <2>3, <2>4, CleanBecomes
  <2>6. Places'
    <3>1. op'[Job].do = op[Job].do /\ op'["cleaner"].do = op["cleaner"].do
      BY <1>1, <2>5 DEF Follows
    <3>2. op'["client"].do = "put" => client'.at \in {"func", "data"}
      BY <2>1, <2>5 DEF ClientFits
    <3> QED
      BY <1>1, <1>3, <2>2, <3>1, <3>2 DEF Places, ClientTurns
  <2> QED
    BY <2>5, <2>6
<1>4. CASE a = Job /\ WorkerTurns /\ UNCHANGED <<clientVars, ready, cleanerVars>>
  <2>1. PICK o : Becomes(Job, o) /\ OpOK(backend.name, o) /\ WorkerFits(o, worker')
    BY <1>4 DEF WorkerTurns
  <2>2. UNCHANGED <<client, requests, cleaner, gone>> /\ worker \notin {"none", "ended"}
    BY <1>4 DEF cleanerVars, clientVars, WorkerTurns
  <2>3. Growth
    BY <2>2 DEF Growth, Asked, Quiet, HasEnded
  <2>4. Begins(o) /\ ActorRole(Job, o)
    BY <1>1, <2>1 DEF WorkerFits, Begins, ActorRole
  <2>5. /\ op'[Job] = o /\ \A x \in Actors \ {Job} : Follows(x, op'[x])
        /\ Places' => CleanInv'
    BY <1>1, <1>4, <2>1, <2>2, <2>3, <2>4, CleanBecomes
  <2>6. Places'
    <3>1. op'["client"].do = op["client"].do /\ op'["cleaner"].do = op["cleaner"].do
      BY <1>1, <2>5 DEF Follows
    <3>2. op'[Job].do = "put" => worker' \in {"init", "output", "status"}
      BY <2>1, <2>5 DEF WorkerFits
    <3> QED
      BY <1>1, <2>2, <3>1, <3>2 DEF Places
  <2> QED
    BY <2>5, <2>6
<1>5. CASE a = "monitor" /\ MonitorTurns /\ UNCHANGED <<clientVars, workerVars, cleanerVars>>
  <2>1. PICK o : /\ Becomes("monitor", o) /\ OpOK(backend.name, o) /\ o.do \in {"none", "get", "listKeys"}
                 /\ o.at \notin {"set", "unindex"}
    BY <1>5 DEF MonitorTurns
  <2>2. UNCHANGED <<client, worker, requests, cleaner, gone>>
    BY <1>5 DEF cleanerVars, clientVars, workerVars
  <2>3. Growth
    BY <2>2 DEF Growth, Asked, Quiet, HasEnded
  <2>4. Begins(o) /\ ActorRole("monitor", o)
    BY <2>1 DEF Begins, ActorRole
  <2>5. /\ \A x \in Actors \ {"monitor"} : Follows(x, op'[x])
        /\ Places' => CleanInv'
    BY <1>1, <1>5, <2>1, <2>2, <2>3, <2>4, CleanBecomes
  <2>6. Places'
    BY <1>1, <2>2, <2>5 DEF Places, Follows
  <2> QED
    BY <2>5, <2>6
<1>6. CASE a = "user" /\ UserTurns /\ UNCHANGED <<clientVars, workerVars, ready, cleanerVars>>
  <2>1. PICK o : /\ Becomes("user", o) /\ OpOK(backend.name, o) /\ o.at \notin {"set", "unindex"}
                 /\ o.do # "delete" /\ (o.do = "put" => o.keys = {UserKey})
    BY <1>6 DEF UserTurns
  <2>2. UNCHANGED <<client, worker, requests, cleaner, gone>>
    BY <1>6 DEF cleanerVars, clientVars, workerVars
  <2>3. Growth
    BY <2>2 DEF Growth, Asked, Quiet, HasEnded
  <2>4. Begins(o) /\ ActorRole("user", o)
    BY <2>1 DEF Begins, ActorRole
  <2>5. /\ \A x \in Actors \ {"user"} : Follows(x, op'[x])
        /\ Places' => CleanInv'
    BY <1>1, <1>6, <2>1, <2>2, <2>3, <2>4, CleanBecomes
  <2>6. Places'
    BY <1>1, <2>2, <2>5 DEF Places, Follows
  <2> QED
    BY <2>5, <2>6
<1>7. CASE /\ a = "cleaner" /\ CleanerTurns(last, answer)
           /\ UNCHANGED <<clientVars, workerVars, ready, pidfile, broken>>
  <2>1. PICK o : Becomes("cleaner", o) /\ OpOK(backend.name, o) /\ CleanerFits(o, cleaner', last)
    BY <1>7 DEF CleanerTurns, CleanerGoes
  <2>2. UNCHANGED <<client, worker>> /\ requests' \subseteq requests /\ cleaner'.batch \subseteq cleaner.batch
    BY <1>7 DEF clientVars, workerVars, CleanerTurns, CleanerGoes, RemoveRequest
  <2>3. Growth
    BY <2>2 DEF Growth, Asked, Quiet, HasEnded
  <2>4. Begins(o) /\ ActorRole("cleaner", o)
    BY <2>1 DEF CleanerFits, Begins, ActorRole
  <2>5. /\ op'["cleaner"] = o /\ \A x \in Actors \ {"cleaner"} : Follows(x, op'[x])
        /\ Places' /\ CleaningOK' /\ GoneOK' => CleanInv'
    BY <1>1, <1>7, <2>1, <2>2, <2>3, <2>4, CleanBecomes
  <2>6. Places'
    <3>1. op'["client"].do = op["client"].do /\ op'[Job].do = op[Job].do
      BY <1>1, <2>5 DEF Follows
    <3>2. cleaner'.at \notin {"clean", "functions"} => op'["cleaner"].do = "none"
      BY <2>1, <2>5 DEF CleanerFits
    <3> QED
      BY <1>1, <2>2, <3>1, <3>2 DEF Places
  <2>7. CleaningOK' /\ GoneOK'
    BY <1>2, <1>7, <2>3, CleaningTurned
  <2> QED
    BY <2>5, <2>6, <2>7
<1> QED
  BY <1>3, <1>4, <1>5, <1>6, <1>7 DEF Turn

\* A cleaner that cleans nothing.
LEMMA CleaningIdle ==
  ASSUME op'["cleaner"].do = "none", cleaner'.at \notin {"clean", "functions"}
  PROVE  CleaningOK'
BY DEF CleaningOK

\* Writing a request changes its wholeness alone.
LEMMA WrittenGrows ==
  ASSUME DataInv, NEW jobs, Written(jobs)
  PROVE  \A r \in requests' : \E q \in requests : q.jobs = r.jobs /\ q.quiet = r.quiet
PROOF
<1>1. requests \subseteq RequestType
  BY DEF DataInv, ControlOK
<1>2. \A q \in requests : /\ [q EXCEPT !.whole = TRUE].jobs = q.jobs
                          /\ [q EXCEPT !.whole = TRUE].quiet = q.quiet
  BY <1>1 DEF RequestType
<1> QED
  BY <1>2 DEF Written

\* What a step of the client alone asks for.
LEMMA ClientGrows ==
  ASSUME CleanInv, ClientAlone, UNCHANGED worker
  PROVE  Growth
PROOF
<1>1. DataInv /\ ClientOK(client)
  BY DEF CleanInv, DataInv, ControlOK
<1>2. \A j \in Jobs : Quiet(j) => Quiet(j)'
  BY DEF Quiet, HasEnded
<1>3. CASE ClientTurns /\ (UNCHANGED requests \/ Written({Executor}))
  <2>1. Asked' = Asked
    BY <1>3 DEF ClientTurns, Asked
  <2> QED
    BY <1>1, <1>2, <1>3, <2>1, WrittenGrows DEF Growth
<1>4. CASE /\ client.at = "start" /\ client'.at = "ready" /\ UNCHANGED requests
           /\ client'.cleaned = client.cleaned
  BY <1>2, <1>4 DEF Growth, Asked
<1>5. CASE /\ client.at = "exit" /\ client'.at = "dumpFn"
           /\ client'.cleaned = client.cleaned
           /\ requests' = requests \cup {Request({Executor})}
  <2>1. Asked' = Asked
    BY <1>5 DEF Asked
  <2>2. Request({Executor}).jobs = {Executor} /\ Request({Executor}).quiet = {}
    BY Distinct DEF Request
  <2> QED
    BY <1>2, <1>5, <2>1, <2>2 DEF Growth
<1>6. CASE /\ client.at = "open" /\ client'.at = "dump"
           /\ client'.cleaned = client.cleaned /\ client'.toClean = client.toClean
           /\ requests' = requests \cup {Request(client.toClean)}
  <2>1. Asked = client.cleaned /\ Asked' = client.cleaned \cup client.toClean
    BY <1>6 DEF Asked
  <2>2. client.toClean \subseteq Jobs /\ client.toClean \cap client.cleaned = {}
    BY <1>1, <1>6 DEF ClientOK
  <2>3. /\ Request(client.toClean).jobs = client.toClean
        /\ Request(client.toClean).quiet \subseteq client.toClean
        /\ \A j \in Request(client.toClean).quiet : Quiet(j)
    BY DEF Request
  <2> QED
    BY <1>2, <1>6, <2>1, <2>2, <2>3 DEF Growth
<1>7. CASE /\ client.at = "dump" /\ client'.at = "spawn" /\ Written(client.toClean)
           /\ client'.cleaned = client.cleaned \cup client.toClean
  <2>1. Asked' = Asked
    BY <1>7 DEF Asked
  <2> QED
    BY <1>1, <1>2, <1>7, <2>1, WrittenGrows DEF Growth
<1> QED
  BY <1>3, <1>4, <1>5, <1>6, <1>7 DEF ClientAlone

\* It keeps the invariant of the cleaning.
LEMMA ClientClean ==
  ASSUME CleanInv, DataInv', UNCHANGED <<backend, objects, index, worker, gone>>, ClientAlone
  PROVE  CleanInv'
PROOF
<1>1. /\ DataInv /\ Roles /\ Places /\ OpsOK' /\ {"client", "cleaner", Job} \subseteq Actors
      /\ Job \notin {"client", "monitor", "cleaner", "user"}
  BY JobOrderType, NamesAssumption, RolesFrom DEF CleanInv, DataInv, OpsOK, Actors
<1>2. Growth /\ StoreMoves("client")
  BY <1>1, ClientGrows, StoreSame
<1>3. Calm
  BY <1>1, <1>2, CalmOK
<1>4. GoneOK'
  BY <1>2, <1>3, GoneKept
<1>5. CASE ClientTurns
  <2>1. PICK o : Becomes("client", o) /\ OpOK(backend.name, o) /\ ClientFits(o, client'.at)
    BY <1>5 DEF ClientTurns
  <2>2. Begins(o) /\ ActorRole("client", o)
    BY <2>1 DEF ClientFits, Begins, ActorRole
  <2>3. UNCHANGED cleaner \/ (cleaner.at = "none" /\ cleaner' = [cleaner EXCEPT !.at = "start"])
    BY DEF ClientAlone
  <2>4. CleanerOK(cleaner)
    BY <1>1 DEF DataInv, ControlOK
  <2>5. cleaner'.batch = cleaner.batch
    BY <2>3, <2>4 DEF CleanerOK
  <2>6. /\ op'["client"] = o /\ \A x \in Actors \ {"client"} : Follows(x, op'[x])
        /\ Places' /\ CleaningOK' /\ GoneOK' => CleanInv'
    BY <1>1, <1>2, <2>1, <2>2, <2>5, CleanBecomes
  <2>7. op'[Job].do = op[Job].do /\ op'["cleaner"].do = op["cleaner"].do
    BY <1>1, <2>6 DEF Follows
  <2>8. CASE UNCHANGED cleaner
    <3>1. Places'
      BY <1>1, <1>5, <2>1, <2>6, <2>7, <2>8 DEF Places, ClientTurns, ClientFits
    <3>2. CleaningOK'
      BY <1>1, <1>2, <1>3, <2>6, <2>8, CleaningCarried
    <3> QED
      BY <1>4, <2>6, <3>1, <3>2
  <2>9. CASE cleaner.at = "none" /\ cleaner' = [cleaner EXCEPT !.at = "start"]
    <3>1. cleaner'.at = "start" /\ op'["cleaner"].do = "none"
      BY <1>1, <2>4, <2>7, <2>9 DEF Places, CleanerOK
    <3>2. Places'
      BY <1>1, <1>5, <2>1, <2>6, <2>7, <3>1 DEF Places, ClientTurns, ClientFits
    <3>3. CleaningOK'
      BY <3>1, CleaningIdle
    <3> QED
      BY <1>4, <2>6, <3>2, <3>3
  <2> QED
    BY <2>3, <2>8, <2>9
<1>6. CASE UNCHANGED <<op, cleaner>>
  <2>1. \A x \in Actors : Follows(x, op'[x])
    BY <1>1, <1>6, Follows0
  <2>2. CleaningOK'
    BY <1>1, <1>2, <1>3, <1>6, <2>1, CleaningCarried
  <2>3. client'.at \in Early => client.at \in Early
    <3>1. CASE ClientTurns
      BY <3>1 DEF ClientTurns
    <3> QED
      BY <3>1 DEF ClientAlone, Early
  <2>4. client.at \in {"func", "data"} => client'.at \in {"func", "data"} \/ ClientTurns
    BY DEF ClientAlone
  <2>5. CASE ClientTurns
    BY <1>5, <2>5
  <2>6. CASE ~ClientTurns
    <3>1. Places'
      BY <1>1, <1>6, <2>3, <2>4, <2>6 DEF Places
    <3> QED
      BY <1>1, <1>2, <1>3, <1>4, <1>6, <2>1, <2>2, <3>1, CleanFrom
  <2> QED
    BY <2>5, <2>6
<1> QED
  BY <1>5, <1>6 DEF ClientAlone

\* So does a step of the cleaner alone.
LEMMA CleanerClean ==
  ASSUME CleanInv, DataInv', CleanerAlone,
         UNCHANGED <<backend, objects, index, client, worker, requests, gone>>
  PROVE  CleanInv'
PROOF
<1>1. /\ DataInv /\ Roles /\ Places /\ OpsOK' /\ {"client", "cleaner", Job} \subseteq Actors
      /\ Job \notin {"client", "monitor", "cleaner", "user"}
  BY JobOrderType, NamesAssumption, RolesFrom DEF CleanInv, DataInv, OpsOK, Actors
<1>2. Growth /\ StoreMoves("cleaner")
  BY <1>1, StoreSame DEF Growth, Asked, Quiet, HasEnded
<1>3. Calm
  BY <1>1, <1>2, CalmOK
<1>4. GoneOK'
  BY <1>2, <1>3, GoneKept
<1>5. CASE /\ UNCHANGED op
           /\ cleaner.at \notin {"clean", "functions"} /\ cleaner'.at \notin {"clean", "functions"}
           /\ cleaner'.batch \subseteq {r.jobs : r \in requests}
  <2>1. \A x \in Actors : Follows(x, op'[x])
    BY <1>1, <1>5, Follows0
  <2>2. op'["cleaner"].do = "none"
    BY <1>1, <1>5 DEF Places
  <2>3. Places' /\ CleaningOK'
    BY <1>1, <1>5, <2>2, CleaningIdle DEF Places
  <2> QED
    BY <1>1, <1>2, <1>3, <1>4, <1>5, <2>1, <2>3, CleanFrom
<1>6. ASSUME NEW o, Becomes("cleaner", o), OpOK(backend.name, o), CleanerFits(o, cleaner', Idle),
             cleaner'.batch \subseteq cleaner.batch,
             cleaner'.at = "clean" => cleaner'.left = FileOf(cleaner'.batch)
      PROVE  CleanInv'
  <2>1. Begins(o) /\ o.do # "delete" /\ ActorRole("cleaner", o)
    BY <1>6, IdleOK DEF CleanerFits, Begins, ActorRole
  <2>2. /\ op'["cleaner"] = o /\ \A x \in Actors \ {"cleaner"} : Follows(x, op'[x])
        /\ Places' /\ CleaningOK' /\ GoneOK' => CleanInv'
    BY <1>1, <1>2, <1>6, <2>1, CleanBecomes
  <2>3. op'["client"].do = op["client"].do /\ op'[Job].do = op[Job].do
    BY <1>1, <2>2 DEF Follows
  <2>4. Places'
    BY <1>1, <1>6, <2>2, <2>3 DEF Places, CleanerFits
  <2>5. CleaningOK'
    BY <1>6, <2>1, <2>2, CleaningBegun
  <2> QED
    BY <1>4, <2>2, <2>4, <2>5
<1>7. CASE /\ cleaner.at = "load" /\ CleanerGoes(cleaner.batch, Idle)
           /\ cleaner'.at = "clean" => cleaner'.left = FileOf(cleaner'.batch)
  BY <1>6, <1>7 DEF CleanerGoes
<1>8. CASE Becomes("cleaner", Idle) /\ cleaner' = CleanerOff
  <2>1. cleaner'.at = "none" /\ cleaner'.batch = {}
    BY <1>8, OffOK
  <2>2. OpOK(backend.name, Idle) /\ CleanerFits(Idle, cleaner', Idle)
    BY IdleOK DEF CleanerFits
  <2> QED
    BY <1>6, <1>8, <2>1, <2>2
<1> QED
  BY <1>5, <1>7, <1>8 DEF CleanerAlone

\* So does a storage step.
LEMMA CleanStorage ==
  ASSUME CleanInv, NEW a \in Actors, StorageStep(a) \/ FailingRequest(a)
  PROVE  CleanInv'
PROOF
<1>1. DataInv /\ DataInv'
  BY StorageKeeps DEF CleanInv
<1>2. (GoesWell(a) \/ EndsWell(a)) /\ StoreMoves(a) /\ UNCHANGED backend
  BY <1>1, StepWell
<1>3. CASE GoesWell(a)
  BY <1>1, <1>2, <1>3, CleanGoesOn
<1>4. CASE EndsWell(a)
  <2>1. PICK o \in OpType : \E answer : EndsWith(a, o, answer)
    BY <1>4 DEF EndsWell
  <2>2. PICK answer : EndsWith(a, o, answer)
    BY <2>1
  <2>3. op[a].do # "none"
    BY <1>1, StepsBusy
  <2>4. Turn(a, o, answer)
    BY <1>1, <2>2, <2>3, EndsTurn
  <2> QED
    BY <1>1, <1>2, <2>2, <2>4, TurnClean
<1> QED
  BY <1>2, <1>3, <1>4

\* So every step does.
LEMMA CleanStep ==
  ASSUME CleanInv, [Next]_vars
  PROVE  CleanInv'
PROOF
<1>1. /\ DataInv /\ DataInv' /\ Flags
      /\ Job \in Jobs /\ {"client", "monitor", "cleaner", "user", Job} \subseteq Actors
      /\ Job \notin {"client", "monitor", "cleaner", "user"}
  BY DataNext, DataParts, JobOrderType, NamesAssumption DEF CleanInv, OpsControlOK, Actors
<1>2. ASSUME NEW a \in Actors \ {"cleaner"}, Turn(a, Idle, "ok"), UNCHANGED <<backend, store>>
      PROVE  CleanInv'
  <2>1. StoreMoves(a)
    BY <1>1, <1>2, StoreSame DEF store
  <2> QED
    BY <1>1, <1>2, <2>1, IdleOK, TurnClean
<1>3. CASE ClientStep \/ TimedOut
  <2>1. UNCHANGED <<backend, objects, index, worker, gone>> /\ ClientAlone
    BY <1>1, <1>3, AloneSteps
  <2> QED
    BY <1>1, <2>1, ClientClean
<1>4. CASE StartWorker
  BY <1>1, <1>2, <1>4, StartTurns DEF Turn
<1>5. CASE ListStatus
  BY <1>1, <1>2, <1>5, ListStatusTurns DEF Turn
<1>6. CASE UserCall
  BY <1>1, <1>2, <1>6, UserCallTurns DEF Turn
<1>7. CASE CleanerStep \/ Kill
  <2>1. /\ CleanerAlone
        /\ UNCHANGED <<backend, objects, index, client, worker, requests, gone>>
    BY <1>1, <1>7, CleanerSteps DEF CleanerStep, Kill, CleanerAlone, store, clientVars, workerVars
  <2> QED
    BY <1>1, <2>1, CleanerClean
<1>8. CASE UNCHANGED vars
  BY <1>1, <1>8 DEF vars, store, processes, clientVars, workerVars, cleanerVars, CleanInv, Roles,
     RequestsOK, CleaningOK, EntriesOK, GoneOK, Asked, Quiet, HasEnded, AskedQuietly, NothingLeft,
     Present, Stored, Seen, ListableIn
<1>9. CASE Next
  BY <1>1, <1>3, <1>4, <1>5, <1>6, <1>7, <1>9, CleanStorage
     DEF Next, ClientThread, WorkerProcess, MonitorThread, CleanerProcess
<1> QED
  BY <1>8, <1>9

\* The invariant of the cleaning: requests name jobs whose worker had ended, or
\* are not counted on; what the cleaner lists of such a job it sees, and what it
\* has left is empty.
THEOREM CleanCorrect == Spec => []CleanInv
PROOF
<1>1. Init => CleanInv
  BY DataInit
<1>2. CleanInv /\ [Next]_vars => CleanInv'
  BY CleanStep
<1> QED
  BY <1>1, <1>2, PTL DEF Spec

\* When the data cleaner has removed the request for a job whose worker had ended
\* when it was asked for, no key of the job is present, nor will one be: on every
\* backend, however it pages, whatever requests fail and whoever else works on the
\* store.
THEOREM CleanedAway == Spec => []CleanedIsGone
PROOF
<1>1. CleanInv => CleanedIsGone
  BY KeysOf DEF CleanInv, GoneOK, NothingLeft, CleanedIsGone
<1> QED
  BY <1>1, CleanCorrect, PTL

\* Whatever others do between the two changes that make or delete an object on
\* Redis, every object of a job is listed, on every backend, unless the job was
\* asked to be cleaned while its worker was running.
THEOREM ListedObjects == Spec => []ObjectsListed
PROOF
<1>1. CleanInv => ObjectsListed
  <2> SUFFICES ASSUME CleanInv, NEW j \in Jobs, j \notin Asked \/ AskedQuietly(j)
               PROVE  Under[JobDir(j)] \cap Present \subseteq Listable
    BY DEF ObjectsListed, JobDir
  <2>1. CASE backend.name = "redis"
    <3>1. Present \cap Under[JobDir(j)] \subseteq index /\ Present \subseteq Keys
      BY <2>1 DEF CleanInv, EntriesOK, Present, Stored
    <3> QED
      BY <2>1, <3>1 DEF Listable, ListableIn
  <2>2. CASE backend.name # "redis"
    BY <2>2 DEF Listable, ListableIn, Present
  <2> QED
    BY <2>1, <2>2
<1> QED
  BY <1>1, CleanCorrect, PTL

=============================================================================
