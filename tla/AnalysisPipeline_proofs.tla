----------------------- MODULE AnalysisPipeline_proofs -----------------------
(***************************************************************************)
(* What holds of the analysis pipeline for any number of workers, uploads, *)
(* analyses, rows and failures.  Its types and terminal states.  An        *)
(* analysis that is done, and that no reaper has touched, is exact, and    *)
(* with that the pipeline implements the lifecycle a polling client is     *)
(* promised.  The fan-in: as long as the counter and the jobs of an        *)
(* analysis are as published, one worker closes the counter, and the       *)
(* reduce it enqueues finds every partial.                                 *)
(***************************************************************************)
EXTENDS AnalysisPipelineInv, SequenceTheorems, FiniteSetTheorems, TLAPS

----------------------------------------------------------------------------
(* Shards. *)

(* PublishAnalysis computes at least one shard, and as many as cover the    *)
(* rows.                                                                    *)
LEMMA ShardCountCovers ==
    ASSUME NEW a \in Analysis
    PROVE  /\ EntryCount[UploadOf[a]] \in Nat
           /\ ShardCount(a) \in Nat \ {0}
           /\ EntryCount[UploadOf[a]] <= ShardCount(a) * ShardSize
<1> DEFINE n == EntryCount[UploadOf[a]]
           q == (n + ShardSize - 1) \div ShardSize
<1>1. n \in Nat /\ ShardSize \in Nat \ {0}
  BY ConstantsAssumption
<1>2. q \in Int /\ n + ShardSize - 1 >= 0
  BY <1>1
<1>3. n + ShardSize - 1 < (q + 1) * ShardSize
  BY <1>1, <1>2, Z3
<1>4. QED
  BY <1>1, <1>2, <1>3 DEF ShardCount

(* Multiplying keeps the order of naturals. *)
LEMMA TimesMonotone ==
    ASSUME NEW m \in Nat, NEW n \in Nat, NEW k \in Nat, m <= n
    PROVE  m * k <= n * k
<1>1. PICK d \in Nat : n = m + d
  BY n - m \in Nat
<1>2. n * k = m * k + d * k /\ d * k \in Nat
  BY <1>1
<1> QED
  BY <1>2

(* Every row lies in the shard its index divided by the shard size names,   *)
(* and in no other: the offsets and limits partition the upload.            *)
LEMMA ShardsPartition ==
    ASSUME NEW a \in Analysis
    PROVE  ExactlyOnce(a, FullParts(a))
<1> DEFINE n == EntryCount[UploadOf[a]]
           c == ShardCount(a)
<1>1. n \in Nat /\ c \in Nat \ {0} /\ n <= c * ShardSize /\ ShardSize \in Nat \ {0}
  BY ShardCountCovers, ConstantsAssumption
<1> SUFFICES ASSUME NEW r \in Rows(a)
             PROVE  \E i \in DOMAIN FullParts(a) :
                      /\ r \in FullParts(a)[i]
                      /\ \A k \in DOMAIN FullParts(a) \ {i} : r \notin FullParts(a)[k]
  BY DEF ExactlyOnce
<1> DEFINE q == r \div ShardSize
<1>2. r \in Nat /\ r < n
  BY <1>1 DEF Rows
<1>3. q \in Nat /\ q * ShardSize <= r /\ r < (q + 1) * ShardSize
  BY <1>1, <1>2, Z3
<1> HIDE DEF q
<1>4. q < c
  <2>1. SUFFICES ASSUME c <= q PROVE FALSE
    BY <1>1, <1>3
  <2>2. c * ShardSize <= q * ShardSize
    BY <1>1, <1>3, <2>1, TimesMonotone
  <2> QED
    BY <1>1, <1>2, <1>3, <2>2
<1>5. \A s \in Nat : r \in ShardRows(a, s) <=> s = q
  <2> TAKE s \in Nat
  <2>1. s * ShardSize \in Nat /\ (s + 1) * ShardSize = s * ShardSize + ShardSize
    BY <1>1
  <2>2. r \in ShardRows(a, s) <=> s * ShardSize <= r /\ r < (s + 1) * ShardSize
    BY <2>1 DEF ShardRows, Slice
  <2>3. ASSUME s < q PROVE (s + 1) * ShardSize <= r
    BY <1>1, <1>2, <1>3, <2>1, <2>3, TimesMonotone, s + 1 <= q, s + 1 \in Nat
  <2>4. ASSUME q < s PROVE r < s * ShardSize
    BY <1>1, <1>2, <1>3, <2>1, <2>4, TimesMonotone, q + 1 <= s, q + 1 \in Nat
  <2> QED
    BY <1>1, <1>2, <1>3, <2>1, <2>2, <2>3, <2>4
<1>6. DOMAIN FullParts(a) = 1 .. c
      /\ \A i \in 1 .. c : FullParts(a)[i] = ShardRows(a, i - 1)
  BY DEF FullParts
<1>7. q + 1 \in 1 .. c /\ r \in FullParts(a)[q + 1]
  BY <1>1, <1>3, <1>4, <1>5, <1>6
<1>8. \A k \in (1 .. c) \ {q + 1} : r \notin FullParts(a)[k]
  <2> TAKE k \in (1 .. c) \ {q + 1}
  <2>1. k - 1 \in Nat /\ k - 1 # q
    BY <1>1, <1>3
  <2> QED
    BY <1>5, <1>6, <2>1
<1> QED
  BY <1>6, <1>7, <1>8

----------------------------------------------------------------------------
(* Jobs and the queue. *)

(* The jobs the gateway, the fan-in and the reaper build address shards the *)
(* analysis has.                                                            *)
LEMMA MapTyped ==
    ASSUME NEW a \in Analysis, NEW s \in ShardIds(a)
    PROVE  MapJob(a, s) \in Job /\ Original(MapJob(a, s))
<1>1. ShardCount(a) \in Nat \ {0} /\ s \in Nat /\ s * ShardSize \in Nat
  BY ShardCountCovers, ConstantsAssumption DEF ShardIds
<1> QED
  BY <1>1, ConstantsAssumption DEF MapJob, Job, JobRecord, Original

(* ... the requeued one, *)
LEMMA RequeueTyped ==
    ASSUME NEW a \in Analysis
    PROVE  RequeueJob(a) \in Job
  BY ShardCountCovers, ConstantsAssumption
     DEF RequeueJob, Job, JobRecord, ShardIds

(* ... and the reduce. *)
LEMMA ReduceTyped ==
    ASSUME NEW j \in Job
    PROVE  ReduceJob(j) \in Job /\ (Original(j) => Original(ReduceJob(j)))
  BY ShardCountCovers DEF ReduceJob, Job, JobRecord, ShardIds, Original

(* BRPOP takes a member and leaves the others. *)
LEMMA PopMembers ==
    ASSUME NEW q \in Seq(Job), q # << >>
    PROVE  /\ Head(q) \in Job /\ Tail(q) \in Seq(Job)
           /\ Head(q) \in Members(q) /\ Members(Tail(q)) \subseteq Members(q)
<1>1. Len(q) \in Nat /\ Len(q) # 0 /\ DOMAIN q = 1 .. Len(q)
  OBVIOUS
<1>2. Tail(q) \in Seq(Job) /\ Len(Tail(q)) = Len(q) - 1
      /\ \A i \in 1 .. Len(q) - 1 : Tail(q)[i] = q[i + 1]
  BY <1>1
<1>3. DOMAIN Tail(q) = 1 .. Len(q) - 1
  BY <1>2
<1> QED
  BY <1>1, <1>2, <1>3 DEF Members

(* LPUSH adds the job it pushes. *)
LEMMA PushMembers ==
    ASSUME NEW q \in Seq(Job), NEW j \in Job
    PROVE  /\ Append(q, j) \in Seq(Job)
           /\ Members(Append(q, j)) = Members(q) \cup {j}
<1>1. DOMAIN q = 1 .. Len(q) /\ Len(q) \in Nat
  OBVIOUS
<1>2. /\ Append(q, j) \in Seq(Job) /\ DOMAIN Append(q, j) = 1 .. Len(q) + 1
      /\ \A i \in 1 .. Len(q) : Append(q, j)[i] = q[i]
      /\ Append(q, j)[Len(q) + 1] = j
  BY <1>1
<1> QED
  BY <1>1, <1>2 DEF Members

(* Concatenation keeps the members of both. *)
LEMMA ConcatMembers ==
    ASSUME NEW q \in Seq(Job), NEW n \in Seq(Job)
    PROVE  /\ q \o n \in Seq(Job)
           /\ Members(q \o n) \subseteq Members(q) \cup Members(n)
<1>1. /\ Len(q) \in Nat /\ DOMAIN q = 1 .. Len(q)
      /\ Len(n) \in Nat /\ DOMAIN n = 1 .. Len(n)
  OBVIOUS
<1>2. /\ q \o n \in Seq(Job) /\ DOMAIN (q \o n) = 1 .. Len(q) + Len(n)
      /\ \A i \in 1 .. Len(q) + Len(n) :
            (q \o n)[i] = IF i <= Len(q) THEN q[i] ELSE n[i - Len(q)]
  BY <1>1, ConcatProperties
<1>3. ASSUME NEW i \in 1 .. Len(q) + Len(n)
      PROVE  (q \o n)[i] \in Members(q) \cup Members(n)
  <2>1. CASE i <= Len(q)
    BY <1>1, <1>2, <2>1 DEF Members
  <2>2. CASE ~ (i <= Len(q))
    <3>1. i - Len(q) \in DOMAIN n /\ (q \o n)[i] = n[i - Len(q)]
      BY <1>1, <1>2, <2>2
    <3> QED
      BY <3>1 DEF Members
  <2> QED
    BY <2>1, <2>2
<1> QED
  BY <1>2, <1>3 DEF Members

(* The jobs of a fan-out, in one sequence. *)
LEMMA FanTyped ==
    ASSUME NEW a \in Analysis
    PROVE  LET fan == [i \in 1 .. ShardCount(a) |-> MapJob(a, i - 1)]
           IN  fan \in Seq(Job) /\ Len(fan) = ShardCount(a)
<1> DEFINE fan == [i \in 1 .. ShardCount(a) |-> MapJob(a, i - 1)]
<1>1. ShardCount(a) \in Nat
  BY ShardCountCovers
<1>2. \A i \in 1 .. ShardCount(a) : MapJob(a, i - 1) \in Job
  BY ShardCountCovers, MapTyped DEF ShardIds
<1>3. fan \in [1 .. ShardCount(a) -> Job]
  BY <1>2
<1> HIDE DEF fan
<1>4. fan \in Seq(Job) /\ Len(fan) = ShardCount(a)
  BY <1>1, <1>3
<1> QED
  BY <1>4 DEF fan

(* The fan-out adds the map jobs of the analysis, and nothing else.         *)
LEMMA PublishMembers ==
    ASSUME NEW q \in Seq(Job), NEW a \in Analysis
    PROVE  LET r == q \o [i \in 1 .. ShardCount(a) |-> MapJob(a, i - 1)]
           IN  /\ r \in Seq(Job)
               /\ \A j \in Members(r) : \/ j \in Members(q)
                                        \/ j.analysis = a /\ Original(j)
<1> DEFINE new == [i \in 1 .. ShardCount(a) |-> MapJob(a, i - 1)]
<1>1. \A i \in 1 .. ShardCount(a) : i - 1 \in ShardIds(a)
  BY ShardCountCovers DEF ShardIds
<1>2. new \in Seq(Job)
  BY FanTyped
<1>3. \A j \in Members(new) : j.analysis = a /\ Original(j)
  BY <1>1, MapTyped DEF MapJob, Members
<1> QED
  BY <1>2, <1>3, ConcatMembers

----------------------------------------------------------------------------
(* Type correctness. *)

(* TypeOK by who keeps the variables: by Postgres *)
DbType ==
    /\ uploads \subseteq Upload
    /\ status \in [Analysis -> Status]
    /\ beat \in [Analysis -> {"null", "fresh", "stale"}]
    /\ findings \in [Analysis -> SUBSET [id : Nat, parts : Seq(SUBSET Nat)]]
    /\ saves \in [Analysis -> Nat]

(* ... by Redis *)
RedisType ==
    /\ queue \in Seq(Job)
    /\ pending \in [Analysis -> {Nil} \cup Int]
    /\ DOMAIN partials = Analysis
    /\ \A a \in Analysis :
           partials[a] \in [ShardIds(a) -> {Nil} \cup SUBSET Rows(a)]

(* ... by the worker loops *)
ProcType ==
    /\ pc \in [Worker -> Points]
    /\ job \in [Worker -> {NoJob} \cup Job]
    /\ held \in [Worker -> Seq(SUBSET Nat)]
    /\ seen \in [Worker -> SUBSET Nat]

(* ... by the gateway and the reapers *)
OtherType ==
    /\ gw \in [Analysis -> {"none", "created", "unpublished", "ended"}]
    /\ requeued \in [Worker -> SUBSET Analysis]
    /\ reduces \in [Analysis -> Nat]

(* ... and the bounds. *)
BudgetType ==
    /\ reaps \in [Analysis -> 0 .. MaxReaps]
    /\ expired \in [Analysis -> 0 .. MaxExpiries]
    /\ crashes \in 0 .. MaxCrashes
    /\ faults \in 0 .. MaxFaults

(* The inductive form of TypeOK: a busy worker has a job. *)
TypeInv ==
    DbType /\ RedisType /\ ProcType /\ WorkerInv /\ OtherType /\ BudgetType

(* TypeInv is TypeOK and WorkerInv. *)
LEMMA TypeParts == TypeInv <=> TypeOK /\ WorkerInv
  BY DEF TypeInv, TypeOK, DbType, RedisType, ProcType, OtherType, BudgetType

(* What a step leaves alone keeps its type.                                 *)
LEMMA Kept ==
    /\ DbType /\ UNCHANGED db => DbType'
    /\ RedisType /\ UNCHANGED redis => RedisType'
    /\ ProcType /\ WorkerInv /\ UNCHANGED worker => ProcType' /\ WorkerInv'
    /\ OtherType /\ UNCHANGED <<gw, requeued, reduces>> => OtherType'
    /\ BudgetType /\ UNCHANGED budget => BudgetType'
<1>1. DbType /\ UNCHANGED db => DbType'
  BY DEF DbType, db
<1>2. RedisType /\ UNCHANGED redis => RedisType'
  BY DEF RedisType, redis
<1>3. ProcType /\ WorkerInv /\ UNCHANGED worker => ProcType' /\ WorkerInv'
  BY DEF ProcType, WorkerInv, Busy, worker
<1>4. OtherType /\ UNCHANGED <<gw, requeued, reduces>> => OtherType'
  BY DEF OtherType
<1>5. BudgetType /\ UNCHANGED budget => BudgetType'
  BY DEF BudgetType, budget
<1> QED
  BY <1>1, <1>2, <1>3, <1>4, <1>5

(* What membership in Job gives, without its definition. *)
LEMMA JobFields ==
    /\ NoJob \notin Job
    /\ \A j \in Job : /\ j.analysis \in Analysis
                      /\ j.shard \in ShardIds(j.analysis)
                      /\ j.count \in 1 .. ShardCount(j.analysis)
                      /\ j.count \in Nat
                      /\ j.kind \in {"map", "reduce"}
  BY NilAssumption DEF Job, JobRecord

(* The program points are distinct names of Points. *)
LEMMA PointNames ==
    {"idle", "reserved", "failing", "load", "put", "mapTiming", "complete", "fanin",
     "merge", "score", "save", "commit", "finish", "persistTiming", "embed",
     "saveVectors", "embedTiming", "drop", "totalTiming"} \subseteq Points
  BY DEF Points, InTry, MapPoints, ReducePoints, AfterFinish

(* The statuses the actions write. *)
LEMMA StatusNames ==
    {"absent", "queued", "running", "done", "failed", "deleted"} \subseteq Status
  BY DEF Status

(* A worker in handle() has a job.                                          *)
LEMMA BusyJob ==
    ASSUME WorkerInv, NEW w \in Worker, NEW p, pc[w] = p, p # "idle"
    PROVE  job[w] \in Job /\ job[w].analysis \in Analysis
  BY JobFields DEF WorkerInv, Busy

(* The ids a transaction reads. *)
LEMMA FindingIds ==
    ASSUME DbType, NEW a \in Analysis
    PROVE  {f.id : f \in findings[a]} \in SUBSET Nat
  BY DEF DbType

(* A row is a number, and the rows of a shard are a set of them.            *)
LEMMA RowSets ==
    ASSUME NEW a \in Analysis
    PROVE  /\ SUBSET Rows(a) \subseteq SUBSET Nat
           /\ \A o, l : Slice(a, o, l) \in SUBSET Rows(a)
<1>1. EntryCount[UploadOf[a]] \in Nat
  BY ConstantsAssumption
<1> QED
  BY <1>1 DEF Rows, Slice

(* get_partials returns as many aggregates as the job counts shards.        *)
LEMMA FoundTyped ==
    ASSUME RedisType, NEW j \in Job
    PROVE  Found(j) \in Seq(SUBSET Nat)
<1>1. j.analysis \in Analysis /\ j.count \in Nat
      /\ \A i \in 1 .. j.count : i - 1 \in ShardIds(j.analysis)
  BY JobFields, ShardCountCovers DEF ShardIds
<1>2. \A s \in ShardIds(j.analysis) :
         partials[j.analysis][s] \in {Nil} \cup SUBSET Nat
  BY <1>1, RowSets DEF RedisType
<1>3. \A i \in 1 .. j.count :
         (IF partials[j.analysis][i - 1] = Nil THEN {}
          ELSE partials[j.analysis][i - 1]) \in SUBSET Nat
  BY <1>1, <1>2
<1> QED
  BY <1>1, <1>3 DEF Found

(* The aggregates a worker may hold. *)
LEMMA EmptyHeld == << >> \in Seq(SUBSET Nat)
  OBVIOUS

(* A map worker holds the one aggregate of its shard, *)
LEMMA SingleHeld ==
    ASSUME NEW S, NEW x \in S
    PROVE  /\ << x >> \in Seq(S) /\ Len(<< x >>) = 1 /\ << x >>[1] = x
  OBVIOUS

(* ... and stores it. *)
LEMMA OnlyElement ==
    ASSUME NEW S, NEW q \in Seq(S), Len(q) = 1
    PROVE  q[1] \in S
  OBVIOUS

(* handle() ends: the worker is idle again, and the others go on. *)
LEMMA ReleaseTyped ==
    ASSUME ProcType, WorkerInv, NEW w \in Worker, Release(w)
    PROVE  ProcType' /\ WorkerInv'
<1>1. ProcType'
  BY EmptyHeld, PointNames DEF Release, ProcType
<1>2. pc'[w] = "idle"
      /\ \A v \in Worker \ {w} : pc'[v] = pc[v] /\ job'[v] = job[v] /\ held'[v] = held[v]
  BY DEF Release, ProcType
<1> QED
  BY <1>1, <1>2 DEF WorkerInv, Busy

(* A step within handle() that keeps its job and its aggregate.             *)
LEMMA MoveTyped ==
    ASSUME ProcType, WorkerInv, NEW w \in Worker, NEW from, NEW to,
           Move(w, from, to), from # "idle", to \in Points \ {"put", "load"},
           UNCHANGED <<job, held>>, seen' \in [Worker -> SUBSET Nat]
    PROVE  ProcType' /\ WorkerInv'
<1>1. ProcType'
  BY DEF Move, ProcType
<1>2. w \in Busy /\ pc'[w] # "put" /\ pc'[w] # "load"
      /\ \A v \in Worker \ {w} : pc'[v] = pc[v] 
  BY DEF Move, ProcType, Busy
<1> QED
  BY <1>1, <1>2 DEF WorkerInv, Busy

(* Every step keeps the types. *)
LEMMA TypeStep == TypeInv /\ [Next]_vars => TypeInv'
<1> SUFFICES ASSUME TypeInv, [Next]_vars PROVE TypeInv'
  OBVIOUS
<1> USE PointNames, StatusNames, JobFields DEF TypeInv
<1>1. ASSUME NEW a \in Analysis, CreateAnalysis(a) PROVE TypeInv'
  <2>1. DbType'
    BY <1>1 DEF CreateAnalysis, DbType
  <2>2. OtherType'
    BY <1>1 DEF CreateAnalysis, OtherType
  <2>3. RedisType' /\ ProcType' /\ WorkerInv' /\ BudgetType'
    BY <1>1, Kept DEF CreateAnalysis
  <2> QED
    BY <2>1, <2>2, <2>3
<1>2. ASSUME NEW a \in Analysis, PublishAnalysis(a) PROVE TypeInv'
  <2>1. RedisType'
    BY <1>2, PublishMembers, ShardCountCovers DEF PublishAnalysis, Publish, RedisType
  <2>2. OtherType'
    BY <1>2 DEF PublishAnalysis, Publish, OtherType
  <2>3. DbType' /\ ProcType' /\ WorkerInv' /\ BudgetType'
    BY <1>2, Kept DEF PublishAnalysis, Publish
  <2> QED
    BY <2>1, <2>2, <2>3
<1>3. ASSUME NEW a \in Analysis, PublishFails(a) PROVE TypeInv'
  <2>1. OtherType'
    BY <1>3 DEF PublishFails, OtherType
  <2>2. BudgetType'
    BY <1>3, ConstantsAssumption DEF PublishFails, BudgetType
  <2>3. DbType' /\ RedisType' /\ ProcType' /\ WorkerInv'
    BY <1>3, Kept DEF PublishFails
  <2> QED
    BY <2>1, <2>2, <2>3
<1>4. ASSUME NEW a \in Analysis, FailAnalysis(a) PROVE TypeInv'
  <2>1. DbType'
    BY <1>4 DEF FailAnalysis, DbType
  <2>2. OtherType'
    BY <1>4 DEF FailAnalysis, OtherType
  <2>3. RedisType' /\ ProcType' /\ WorkerInv' /\ BudgetType'
    BY <1>4, Kept DEF FailAnalysis
  <2> QED
    BY <2>1, <2>2, <2>3
<1>5. ASSUME NEW a \in Analysis, FailAnalysisFails(a) PROVE TypeInv'
  <2>1. OtherType'
    BY <1>5 DEF FailAnalysisFails, OtherType
  <2>2. DbType' /\ RedisType' /\ ProcType' /\ WorkerInv' /\ BudgetType'
    BY <1>5, Kept DEF FailAnalysisFails
  <2> QED
    BY <2>1, <2>2
<1>6. ASSUME NEW a \in Analysis, GatewayDies(a) PROVE TypeInv'
  <2>1. OtherType'
    BY <1>6 DEF GatewayDies, OtherType
  <2>2. BudgetType'
    BY <1>6, ConstantsAssumption DEF GatewayDies, BudgetType
  <2>3. DbType' /\ RedisType' /\ ProcType' /\ WorkerInv'
    BY <1>6, Kept DEF GatewayDies
  <2> QED
    BY <2>1, <2>2, <2>3
<1>7. ASSUME NEW u \in Upload, DeleteUpload(u) PROVE TypeInv'
  <2>1. DbType'
    BY <1>7 DEF DeleteUpload, DbType
  <2>2. RedisType' /\ ProcType' /\ WorkerInv' /\ OtherType' /\ BudgetType'
    BY <1>7, Kept DEF DeleteUpload
  <2> QED
    BY <2>1, <2>2
<1>8. ASSUME NEW a \in Analysis, HeartbeatAges(a) PROVE TypeInv'
  <2>1. DbType'
    BY <1>8 DEF HeartbeatAges, DbType
  <2>2. RedisType' /\ ProcType' /\ WorkerInv' /\ OtherType' /\ BudgetType'
    BY <1>8, Kept DEF HeartbeatAges
  <2> QED
    BY <2>1, <2>2
<1>9. ASSUME NEW a \in Analysis, ExpirePending(a) PROVE TypeInv'
  <2>1. RedisType'
    BY <1>9 DEF ExpirePending, RedisType
  <2>2. BudgetType'
    BY <1>9, ConstantsAssumption DEF ExpirePending, BudgetType
  <2>3. DbType' /\ ProcType' /\ WorkerInv' /\ OtherType'
    BY <1>9, Kept DEF ExpirePending
  <2> QED
    BY <2>1, <2>2, <2>3
<1>10. ASSUME NEW a \in Analysis, NEW s \in ShardIds(a), ExpirePartial(a, s) PROVE TypeInv'
  <2>1. RedisType'
    BY <1>10 DEF ExpirePartial, RedisType
  <2>2. BudgetType'
    BY <1>10, ConstantsAssumption DEF ExpirePartial, BudgetType
  <2>3. DbType' /\ ProcType' /\ WorkerInv' /\ OtherType'
    BY <1>10, Kept DEF ExpirePartial
  <2> QED
    BY <2>1, <2>2, <2>3
<1>11. ASSUME NEW w \in Worker, RequeueStale(w) PROVE TypeInv'
  <2>1. DbType'
    BY <1>11 DEF RequeueStale, RequeueReturning, DbType, Stale
  <2>2. OtherType'
    BY <1>11 DEF RequeueStale, RequeueReturning, OtherType, Stale
  <2>3. BudgetType'
    BY <1>11, ConstantsAssumption DEF RequeueStale, RequeueReturning, BudgetType, Stale
  <2>4. RedisType' /\ ProcType' /\ WorkerInv'
    BY <1>11, Kept DEF RequeueStale, RequeueReturning
  <2> QED
    BY <2>1, <2>2, <2>3, <2>4
<1>12. ASSUME NEW w \in Worker, NEW a \in Analysis, EnqueueRequeued(w, a) PROVE TypeInv'
  <2>1. RedisType'
    BY <1>12, PushMembers, RequeueTyped DEF EnqueueRequeued, RedisType
  <2>2. OtherType'
    BY <1>12 DEF EnqueueRequeued, OtherType
  <2>3. DbType' /\ ProcType' /\ WorkerInv' /\ BudgetType'
    BY <1>12, Kept DEF EnqueueRequeued
  <2> QED
    BY <2>1, <2>2, <2>3
<1>13. ASSUME NEW w \in Worker, ReaperFails(w) PROVE TypeInv'
  <2>1. OtherType'
    BY <1>13 DEF ReaperFails, OtherType
  <2>2. BudgetType'
    BY <1>13, ConstantsAssumption DEF ReaperFails, BudgetType
  <2>3. DbType' /\ RedisType' /\ ProcType' /\ WorkerInv'
    BY <1>13, Kept DEF ReaperFails
  <2> QED
    BY <2>1, <2>2, <2>3
<1>14. ASSUME NEW w \in Worker, Reserve(w) PROVE TypeInv'
  <2>1. RedisType'
    BY <1>14, PopMembers DEF Reserve, RedisType
  <2>2. ProcType' /\ WorkerInv'
    BY <1>14, PopMembers DEF Reserve, ProcType, Move, RedisType, Busy, WorkerInv
  <2>3. DbType' /\ OtherType' /\ BudgetType'
    BY <1>14, Kept DEF Reserve
  <2> QED
    BY <2>1, <2>2, <2>3
<1>15. ASSUME NEW w \in Worker, Claim(w) PROVE TypeInv'
  <2>1. DbType'
    BY <1>15 DEF Claim, ClaimFrom, DbType
  <2>2. ProcType' /\ WorkerInv'
    BY <1>15 DEF Claim, ClaimFrom, ProcType, Busy, WorkerInv
  <2>3. RedisType' /\ OtherType' /\ BudgetType'
    BY <1>15, Kept DEF Claim, ClaimFrom
  <2> QED
    BY <2>1, <2>2, <2>3
<1>16. ASSUME NEW w \in Worker, Skip(w) PROVE TypeInv'
  <2>1. ProcType' /\ WorkerInv'
    BY <1>16, ReleaseTyped DEF Skip
  <2>2. DbType' /\ RedisType' /\ OtherType' /\ BudgetType'
    BY <1>16, Kept DEF Skip
  <2> QED
    BY <2>1, <2>2
<1>17. ASSUME NEW w \in Worker, LoadShard(w) PROVE TypeInv'
  <2>1. ProcType' /\ WorkerInv'
    <3> DEFINE a == job[w].analysis
               rows == IF UploadOf[a] \in uploads
                       THEN Slice(a, job[w].offset, job[w].limit) ELSE {}
    <3>1. pc[w] = "load" /\ job[w] \in Job /\ a \in Analysis /\ w \in Busy
      BY <1>17, BusyJob DEF LoadShard, Move, Busy
    <3>2. rows \in SUBSET Rows(a) /\ rows \in SUBSET Nat
      BY <3>1, RowSets
    <3>3. /\ << rows >> \in Seq(SUBSET Rows(a)) /\ Len(<< rows >>) = 1
          /\ << rows >> \in Seq(SUBSET Nat)
      BY <3>2, SingleHeld
    <3>4. /\ pc' = [pc EXCEPT ![w] = "put"] /\ job' = job /\ seen' = seen
          /\ held' = [held EXCEPT ![w] = << rows >>]
      BY <1>17 DEF LoadShard, Move
    <3> HIDE DEF rows
    <3>5. ProcType'
      BY <3>3, <3>4 DEF ProcType
    <3>6. /\ held'[w] = << rows >>
          /\ \A v \in Worker \ {w} : pc'[v] = pc[v] /\ held'[v] = held[v]
      BY <3>4 DEF ProcType
    <3> QED
      BY <3>1, <3>3, <3>4, <3>5, <3>6 DEF WorkerInv, Busy
  <2>2. DbType' /\ RedisType' /\ OtherType' /\ BudgetType'
    BY <1>17, Kept DEF LoadShard
  <2> QED
    BY <2>1, <2>2
<1>18. ASSUME NEW w \in Worker, PutPartial(w) PROVE TypeInv'
  <2>1. RedisType'
    <3>1. pc[w] = "put" /\ job[w] \in Job /\ job[w].analysis \in Analysis
      BY <1>18, BusyJob DEF PutPartial, Move
    <3>2. held[w] \in Seq(SUBSET Rows(job[w].analysis)) /\ Len(held[w]) = 1
      BY <3>1 DEF WorkerInv
    <3>3. held[w][1] \in SUBSET Rows(job[w].analysis)
      BY <3>2, OnlyElement
    <3> QED
      BY <1>18, <3>1, <3>3 DEF PutPartial, RedisType
  <2>2. ProcType' /\ WorkerInv'
    BY <1>18, MoveTyped DEF PutPartial, ProcType
  <2>3. DbType' /\ OtherType' /\ BudgetType'
    BY <1>18, Kept DEF PutPartial
  <2> QED
    BY <2>1, <2>2, <2>3
<1>19. ASSUME NEW w \in Worker, RecordMapTiming(w) PROVE TypeInv'
  <2>1. ProcType' /\ WorkerInv'
    BY <1>19, MoveTyped DEF RecordMapTiming, RecordTiming, ProcType
  <2>2. DbType' /\ RedisType' /\ OtherType' /\ BudgetType'
    BY <1>19, Kept DEF RecordMapTiming, RecordTiming
  <2> QED
    BY <2>1, <2>2
<1>20. ASSUME NEW w \in Worker, CompleteShard(w) PROVE TypeInv'
  <2>1. RedisType'
    <3>1. job[w].analysis \in Analysis
      BY <1>20, BusyJob DEF CompleteShard, CompleteShardAt
    <3>2. Decr(pending[job[w].analysis]) \in Int
      BY <3>1, NilAssumption DEF Decr, RedisType
    <3> QED
      BY <1>20, <3>1, <3>2 DEF CompleteShard, CompleteShardAt, RedisType
  <2>2. ProcType' /\ WorkerInv'
    BY <1>20, ReleaseTyped, MoveTyped DEF CompleteShard, CompleteShardAt, ProcType, Move
  <2>3. DbType' /\ OtherType' /\ BudgetType'
    BY <1>20, Kept DEF CompleteShard, CompleteShardAt
  <2> QED
    BY <2>1, <2>2, <2>3
<1>21. ASSUME NEW w \in Worker, EnqueueReduce(w) PROVE TypeInv'
  <2>1. RedisType'
    <3>1. job[w] \in Job
      BY <1>21, BusyJob DEF EnqueueReduce
    <3>2. ReduceJob(job[w]) \in Job
      BY <3>1, ReduceTyped
    <3> QED
      BY <1>21, <3>2, PushMembers DEF EnqueueReduce, RedisType
  <2>2. ProcType' /\ WorkerInv'
    BY <1>21, ReleaseTyped DEF EnqueueReduce
  <2>3. OtherType'
    <3>1. job[w].analysis \in Analysis
      BY <1>21, BusyJob DEF EnqueueReduce
    <3> QED
      BY <1>21, <3>1 DEF EnqueueReduce, OtherType
  <2>4. DbType' /\ BudgetType'
    BY <1>21, Kept DEF EnqueueReduce
  <2> QED
    BY <2>1, <2>2, <2>3, <2>4
<1>22. ASSUME NEW w \in Worker, GetPartials(w) PROVE TypeInv'
  <2>1. ProcType' /\ WorkerInv'
    <3>1. pc[w] = "merge" /\ job[w] \in Job
      BY <1>22, BusyJob DEF GetPartials, Merge, Move
    <3>2. Found(job[w]) \in Seq(SUBSET Nat)
      BY <3>1, FoundTyped
    <3>3. ProcType' /\ pc'[w] # "put" /\ pc'[w] # "load" /\ pc'[w] # "idle"
      BY <1>22, <3>2 DEF GetPartials, Merge, Move, ProcType
    <3>4. \A v \in Worker \ {w} : pc'[v] = pc[v] /\ held'[v] = held[v]
      BY <1>22 DEF GetPartials, Merge, Move, ProcType
    <3>5. job' = job
      BY <1>22 DEF GetPartials, Merge
    <3> QED
      BY <3>1, <3>3, <3>4, <3>5 DEF WorkerInv, Busy
  <2>2. DbType' /\ RedisType' /\ OtherType' /\ BudgetType'
    BY <1>22, Kept DEF GetPartials, Merge
  <2> QED
    BY <2>1, <2>2
<1>23. ASSUME NEW w \in Worker, Score(w) PROVE TypeInv'
  <2>1. ProcType' /\ WorkerInv'
    BY <1>23, MoveTyped DEF Score, RecordTiming, ProcType
  <2>2. DbType' /\ RedisType' /\ OtherType' /\ BudgetType'
    BY <1>23, Kept DEF Score, RecordTiming
  <2> QED
    BY <2>1, <2>2
<1>24. ASSUME NEW w \in Worker, SaveAnomalies(w) PROVE TypeInv'
  <2>1. ProcType' /\ WorkerInv'
    <3>1. job[w].analysis \in Analysis
      BY <1>24, BusyJob DEF SaveAnomalies, Move
    <3>2. seen' \in [Worker -> SUBSET Nat]
      BY <1>24, <3>1, FindingIds DEF SaveAnomalies, ProcType
    <3> QED
      BY <1>24, <3>2, MoveTyped DEF SaveAnomalies
  <2>2. DbType' /\ RedisType' /\ OtherType' /\ BudgetType'
    BY <1>24, Kept DEF SaveAnomalies
  <2> QED
    BY <2>1, <2>2
<1>25. ASSUME NEW w \in Worker, CommitAnomalies(w) PROVE TypeInv'
  <2>1. DbType'
    <3> DEFINE a == job[w].analysis
               mine == [id |-> saves[a] + 1, parts |-> held[w]]
               kept == {f \in findings[a] : f.id \notin seen[w]}
    <3>1. a \in Analysis
      BY <1>25, BusyJob DEF CommitAnomalies, CommitReplacing, Move
    <3>2. mine \in [id : Nat, parts : Seq(SUBSET Nat)] /\ saves[a] + 1 \in Nat
      BY <3>1 DEF DbType, ProcType
    <3>3. kept \cup {mine} \in SUBSET [id : Nat, parts : Seq(SUBSET Nat)]
      BY <3>1, <3>2 DEF DbType
    <3>4. /\ UNCHANGED <<uploads, status, beat>>
          /\ findings' = IF Exists(a) THEN [findings EXCEPT ![a] = kept \cup {mine}]
                                      ELSE findings
          /\ saves' = IF Exists(a) THEN [saves EXCEPT ![a] = @ + 1] ELSE saves
      BY <1>25 DEF CommitAnomalies, CommitReplacing
    <3> HIDE DEF mine, kept, a
    <3> QED
      BY <3>1, <3>2, <3>3, <3>4 DEF DbType
  <2>2. ProcType' /\ WorkerInv'
    BY <1>25, MoveTyped DEF CommitAnomalies, CommitReplacing, ProcType
  <2>3. RedisType' /\ OtherType' /\ BudgetType'
    BY <1>25, Kept DEF CommitAnomalies, CommitReplacing
  <2> QED
    BY <2>1, <2>2, <2>3
<1>26. ASSUME NEW w \in Worker, CommitNothing(w) PROVE TypeInv'
  <2>1. ProcType' /\ WorkerInv'
    BY <1>26, MoveTyped DEF CommitNothing, ProcType
  <2>2. DbType' /\ RedisType' /\ OtherType' /\ BudgetType'
    BY <1>26, Kept DEF CommitNothing
  <2> QED
    BY <2>1, <2>2
<1>27. ASSUME NEW w \in Worker, Finish(w) PROVE TypeInv'
  <2>1. DbType'
    BY <1>27 DEF Finish, DbType
  <2>2. ProcType' /\ WorkerInv'
    BY <1>27, MoveTyped DEF Finish, ProcType
  <2>3. RedisType' /\ OtherType' /\ BudgetType'
    BY <1>27, Kept DEF Finish
  <2> QED
    BY <2>1, <2>2, <2>3
<1>28. ASSUME NEW w \in Worker, RecordPersistTiming(w) PROVE TypeInv'
  <2>1. ProcType' /\ WorkerInv'
    BY <1>28, MoveTyped DEF RecordPersistTiming, RecordTiming, ProcType
  <2>2. DbType' /\ RedisType' /\ OtherType' /\ BudgetType'
    BY <1>28, Kept DEF RecordPersistTiming, RecordTiming
  <2> QED
    BY <2>1, <2>2
<1>29. ASSUME NEW w \in Worker, SkipEmbedding(w) PROVE TypeInv'
  <2>1. ProcType' /\ WorkerInv'
    BY <1>29, MoveTyped DEF SkipEmbedding, ProcType
  <2>2. DbType' /\ RedisType' /\ OtherType' /\ BudgetType'
    BY <1>29, Kept DEF SkipEmbedding
  <2> QED
    BY <2>1, <2>2
<1>30. ASSUME NEW w \in Worker, EmbedFindings(w) PROVE TypeInv'
  <2>1. ProcType' /\ WorkerInv'
    <3>1. job[w].analysis \in Analysis
      BY <1>30, BusyJob DEF EmbedFindings, Move
    <3>2. seen' \in [Worker -> SUBSET Nat]
      BY <1>30, <3>1, FindingIds DEF EmbedFindings, ProcType
    <3> QED
      BY <1>30, <3>2, MoveTyped DEF EmbedFindings
  <2>2. DbType' /\ RedisType' /\ OtherType' /\ BudgetType'
    BY <1>30, Kept DEF EmbedFindings
  <2> QED
    BY <2>1, <2>2
<1>31. ASSUME NEW w \in Worker, SaveEmbeddings(w) PROVE TypeInv'
  <2>1. ProcType' /\ WorkerInv'
    BY <1>31, MoveTyped DEF SaveEmbeddings, ProcType
  <2>2. DbType' /\ RedisType' /\ OtherType' /\ BudgetType'
    BY <1>31, Kept DEF SaveEmbeddings
  <2> QED
    BY <2>1, <2>2
<1>32. ASSUME NEW w \in Worker, RecordEmbedTiming(w) PROVE TypeInv'
  <2>1. ProcType' /\ WorkerInv'
    BY <1>32, MoveTyped DEF RecordEmbedTiming, RecordTiming, ProcType
  <2>2. DbType' /\ RedisType' /\ OtherType' /\ BudgetType'
    BY <1>32, Kept DEF RecordEmbedTiming, RecordTiming
  <2> QED
    BY <2>1, <2>2
<1>33. ASSUME NEW w \in Worker, DropPartials(w) PROVE TypeInv'
  <2>1. RedisType'
    BY ZenonT(30), <1>33 DEF DropPartials, RedisType
  <2>2. ProcType' /\ WorkerInv'
    BY <1>33, MoveTyped DEF DropPartials, ProcType
  <2>3. DbType' /\ OtherType' /\ BudgetType'
    BY <1>33, Kept DEF DropPartials
  <2> QED
    BY <2>1, <2>2, <2>3
<1>34. ASSUME NEW w \in Worker, RecordTotalTiming(w) PROVE TypeInv'
  <2>1. ProcType' /\ WorkerInv'
    BY <1>34, ReleaseTyped, MoveTyped DEF RecordTotalTiming, ProcType, Move
  <2>2. DbType' /\ RedisType' /\ OtherType' /\ BudgetType'
    BY <1>34, Kept DEF RecordTotalTiming
  <2> QED
    BY <2>1, <2>2
<1>35. ASSUME NEW w \in Worker, Fail(w) PROVE TypeInv'
  <2>1. DbType'
    BY <1>35 DEF Fail, DbType
  <2>2. ProcType' /\ WorkerInv'
    BY <1>35, ReleaseTyped DEF Fail
  <2>3. RedisType' /\ OtherType' /\ BudgetType'
    BY <1>35, Kept DEF Fail
  <2> QED
    BY <2>1, <2>2, <2>3
<1>36. ASSUME NEW w \in Worker, Raise(w) PROVE TypeInv'
  <2>1. ProcType' /\ WorkerInv'
    <3>1. Move(w, pc[w], "failing") /\ pc[w] # "idle"
      BY <1>36, ConstantsAssumption
         DEF Raise, Move, InTry, MapPoints, ReducePoints, AfterFinish
    <3> QED
      BY <1>36, <3>1, MoveTyped DEF Raise, ProcType
  <2>2. BudgetType'
    BY <1>36, ConstantsAssumption DEF Raise, BudgetType
  <2>3. DbType' /\ RedisType' /\ OtherType'
    BY <1>36, Kept DEF Raise
  <2> QED
    BY <2>1, <2>2, <2>3
<1>37. ASSUME NEW w \in Worker, Crash(w) PROVE TypeInv'
  <2>1. ProcType' /\ WorkerInv'
    BY <1>37, ReleaseTyped DEF Crash
  <2>2. OtherType'
    BY <1>37 DEF Crash, OtherType
  <2>3. BudgetType'
    BY <1>37, ConstantsAssumption DEF Crash, BudgetType
  <2>4. DbType' /\ RedisType'
    BY <1>37, Kept DEF Crash
  <2> QED
    BY <2>1, <2>2, <2>3, <2>4
<1>38. CASE UNCHANGED vars
  BY <1>38, Kept DEF vars, db, redis, worker, budget
<1> QED
    BY <1>1, <1>2, <1>3, <1>4, <1>5, <1>6, <1>7, <1>8, <1>9, <1>10, <1>11, <1>12,
     <1>13, <1>14, <1>15, <1>16, <1>17, <1>18, <1>19, <1>20, <1>21, <1>22, <1>23,
     <1>24, <1>25, <1>26, <1>27, <1>28, <1>29, <1>30, <1>31, <1>32, <1>33, <1>34,
     <1>35, <1>36, <1>37, <1>38
     DEF Next, WorkerStep, MapStep, ReduceStep, ReaperStep, LaunchStep, Environment

(* The initial state is typed. *)
LEMMA TypeInit == Init => TypeInv
<1> SUFFICES ASSUME Init PROVE TypeInv
  OBVIOUS
<1> USE PointNames, StatusNames DEF Init
<1>1. DbType /\ ProcType /\ OtherType
  BY EmptyHeld DEF DbType, ProcType, OtherType
<1>2. RedisType
  BY DEF RedisType
<1>3. WorkerInv
  BY DEF WorkerInv, Busy
<1>4. BudgetType
  BY ConstantsAssumption DEF BudgetType
<1> QED
  BY <1>1, <1>2, <1>3, <1>4 DEF TypeInv

(* Every reachable state is typed, and a busy worker has a job. *)
LEMMA TypeAlways == Spec => []TypeInv
  BY TypeInit, TypeStep, PTL DEF Spec

(* The rows, keys, jobs and program points of every reachable state are of  *)
(* their types: no job addresses a shard its analysis does not have, and    *)
(* put_partial never writes outside the partials of its analysis.           *)
THEOREM TypeCorrect == Spec => []TypeOK
<1>1. TypeInv => TypeOK
  BY TypeParts
<1> QED
  BY <1>1, TypeAlways, PTL

(* The actions that write analyses.status. *)
LEMMA StatusWriters ==
    ASSUME [Next]_vars
    PROVE  \/ UNCHANGED status
           \/ \E a \in Analysis : CreateAnalysis(a) \/ FailAnalysis(a)
           \/ \E u \in Upload : DeleteUpload(u)
           \/ \E w \in Worker : Claim(w) \/ Finish(w) \/ Fail(w) \/ RequeueStale(w)
  BY DEF Next, WorkerStep, MapStep, ReduceStep, ReaperStep, LaunchStep, Environment,
     vars, db, PublishAnalysis, Publish, PublishFails, FailAnalysisFails,
     GatewayDies, HeartbeatAges, ExpirePending, ExpirePartial, EnqueueRequeued,
     ReaperFails, Reserve, Skip, LoadShard, PutPartial, RecordMapTiming, RecordTiming,
     CompleteShard, CompleteShardAt, EnqueueReduce, GetPartials, Merge, Score,
     SaveAnomalies, CommitAnomalies, CommitReplacing, CommitNothing,
     RecordPersistTiming, SkipEmbedding, EmbedFindings, SaveEmbeddings,
     RecordEmbedTiming, DropPartials, RecordTotalTiming, Raise, Crash

(* done and failed are final: from any state at all whose status is a       *)
(* function on the analyses, claim, the reaper, the deletion and the error  *)
(* paths leave a terminal analysis terminal, or delete it.                  *)
LEMMA TerminalStep ==
    ASSUME DbType, [Next]_vars, NEW a \in Analysis, status[a] \in Terminal
    PROVE  status'[a] \in Terminal \cup {"deleted"}
<1>1. CASE UNCHANGED status
  BY <1>1
<1> USE DEF DbType, Terminal
<1>2. ASSUME NEW b \in Analysis, CreateAnalysis(b) \/ FailAnalysis(b)
      PROVE  status'[a] \in Terminal
  BY <1>2 DEF CreateAnalysis, FailAnalysis
<1>3. ASSUME NEW u \in Upload, DeleteUpload(u)
      PROVE  status'[a] \in Terminal \cup {"deleted"}
  BY <1>3 DEF DeleteUpload
<1>4. ASSUME NEW w \in Worker, Claim(w) \/ Finish(w) \/ Fail(w)
      PROVE  status'[a] \in Terminal
  BY <1>4 DEF Claim, ClaimFrom, Finish, Fail
<1>5. ASSUME NEW w \in Worker, RequeueStale(w)
      PROVE  status'[a] \in Terminal
  BY <1>5 DEF RequeueStale, RequeueReturning, Stale
<1> QED
  BY <1>1, <1>2, <1>3, <1>4, <1>5, StatusWriters

(* Neither a late or duplicate job, nor the reaper, nor a restarted process *)
(* puts a done or failed analysis back to work.                             *)
THEOREM TerminalFinal == Spec => TerminalIsFinal
<1>1. TypeInv /\ [Next]_vars =>
          [\A a \in Analysis : status[a] \in Terminal
              => status'[a] \in Terminal \cup {"deleted"}]_vars
  BY TerminalStep DEF TypeInv
<1> QED
  BY <1>1, TypeAlways, PTL DEF Spec, TerminalIsFinal

----------------------------------------------------------------------------
(* Who writes what. *)

(* The queue grows by the fan-out, the fan-in and the reaper only. *)
LEMMA QueueWriters ==
    ASSUME [Next]_vars
    PROVE  \/ UNCHANGED queue
           \/ \E a \in Analysis : PublishAnalysis(a)
           \/ \E w \in Worker : \/ Reserve(w) \/ EnqueueReduce(w)
                                \/ \E a \in Analysis : EnqueueRequeued(w, a)
  BY DEF Next, WorkerStep, MapStep, ReduceStep, ReaperStep, LaunchStep, Environment,
     vars, redis, CreateAnalysis, PublishFails, FailAnalysis, FailAnalysisFails,
     GatewayDies, DeleteUpload, HeartbeatAges, ExpirePending, ExpirePartial,
     RequeueStale, RequeueReturning, ReaperFails, Claim, ClaimFrom, Skip, LoadShard,
     PutPartial, RecordMapTiming, RecordTiming, CompleteShard, CompleteShardAt,
     GetPartials, Merge, Score, SaveAnomalies, CommitAnomalies, CommitReplacing,
     CommitNothing, Finish, RecordPersistTiming, SkipEmbedding, EmbedFindings,
     SaveEmbeddings, RecordEmbedTiming, DropPartials, RecordTotalTiming, Fail, Raise,
     Crash

(* The actions that write partials. *)
LEMMA PartialWriters ==
    ASSUME [Next]_vars
    PROVE  \/ UNCHANGED partials
           \/ \E a \in Analysis : \E s \in ShardIds(a) : ExpirePartial(a, s)
           \/ \E w \in Worker : PutPartial(w) \/ DropPartials(w)
  BY DEF Next, WorkerStep, MapStep, ReduceStep, ReaperStep, LaunchStep, Environment,
     vars, redis, CreateAnalysis, PublishAnalysis, Publish, PublishFails, FailAnalysis,
     FailAnalysisFails, GatewayDies, DeleteUpload, HeartbeatAges, ExpirePending,
     RequeueStale, RequeueReturning, EnqueueRequeued, ReaperFails, Reserve, Claim,
     ClaimFrom, Skip, LoadShard, RecordMapTiming, RecordTiming, CompleteShard,
     CompleteShardAt, EnqueueReduce, GetPartials, Merge, Score, SaveAnomalies,
     CommitAnomalies, CommitReplacing, CommitNothing, Finish, RecordPersistTiming,
     SkipEmbedding, EmbedFindings, SaveEmbeddings, RecordEmbedTiming,
     RecordTotalTiming, Fail, Raise, Crash

(* Findings are written by save_anomalies and by the cascade of a deletion. *)
LEMMA FindingWriters ==
    ASSUME [Next]_vars
    PROVE  \/ UNCHANGED findings
           \/ \E u \in Upload : DeleteUpload(u)
           \/ \E w \in Worker : CommitAnomalies(w)
  BY DEF Next, WorkerStep, MapStep, ReduceStep, ReaperStep, LaunchStep, Environment,
     vars, db, CreateAnalysis, PublishAnalysis, Publish, PublishFails, FailAnalysis,
     FailAnalysisFails, GatewayDies, HeartbeatAges, ExpirePending, ExpirePartial,
     RequeueStale, RequeueReturning, EnqueueRequeued, ReaperFails, Reserve, Claim,
     ClaimFrom, Skip, LoadShard, PutPartial, RecordMapTiming, RecordTiming,
     CompleteShard, CompleteShardAt, EnqueueReduce, GetPartials, Merge, Score,
     SaveAnomalies, CommitNothing, Finish, RecordPersistTiming, SkipEmbedding,
     EmbedFindings, SaveEmbeddings, RecordEmbedTiming, DropPartials,
     RecordTotalTiming, Fail, Raise, Crash

(* Only a deletion removes uploads, *)
LEMMA UploadWriters ==
    ASSUME [Next]_vars
    PROVE  UNCHANGED uploads \/ \E u \in Upload : DeleteUpload(u)
    BY ZenonT(30) DEF Next, WorkerStep, MapStep, ReduceStep, ReaperStep, LaunchStep,
     Environment, vars, db, CreateAnalysis, PublishAnalysis, Publish,
     PublishFails, FailAnalysis, FailAnalysisFails, GatewayDies,
     HeartbeatAges, ExpirePending, ExpirePartial, RequeueStale,
     RequeueReturning, EnqueueRequeued, ReaperFails, Reserve, Claim,
     ClaimFrom, Skip, LoadShard, PutPartial, RecordMapTiming, RecordTiming,
     CompleteShard, CompleteShardAt, EnqueueReduce, GetPartials, Merge, Score,
     SaveAnomalies, CommitAnomalies, CommitReplacing, CommitNothing, Finish,
     RecordPersistTiming, SkipEmbedding, EmbedFindings, SaveEmbeddings,
     RecordEmbedTiming, DropPartials, RecordTotalTiming, Fail, Raise, Crash

(* ... and only requeue_stale counts as a requeue. *)
LEMMA ReapWriters ==
    ASSUME [Next]_vars
    PROVE  UNCHANGED reaps \/ \E w \in Worker : RequeueStale(w)
    BY ZenonT(30) DEF Next, WorkerStep, MapStep, ReduceStep, ReaperStep, LaunchStep,
     Environment, vars, budget, CreateAnalysis, PublishAnalysis, Publish,
     PublishFails, DeleteUpload, FailAnalysis, FailAnalysisFails, GatewayDies,
     HeartbeatAges, ExpirePending, ExpirePartial, EnqueueRequeued,
     ReaperFails, Reserve, Claim, ClaimFrom, Skip, LoadShard, PutPartial,
     RecordMapTiming, RecordTiming, CompleteShard, CompleteShardAt,
     EnqueueReduce, GetPartials, Merge, Score, SaveAnomalies, CommitAnomalies,
     CommitReplacing, CommitNothing, Finish, RecordPersistTiming,
     SkipEmbedding, EmbedFindings, SaveEmbeddings, RecordEmbedTiming,
     DropPartials, RecordTotalTiming, Fail, Raise, Crash

(* A launch begins with the row. *)
LEMMA LaunchWriters ==
    ASSUME [Next]_vars
    PROVE  \/ UNCHANGED gw
           \/ \E a \in Analysis : \/ CreateAnalysis(a) \/ PublishAnalysis(a)
                                  \/ PublishFails(a) \/ FailAnalysis(a)
                                  \/ FailAnalysisFails(a) \/ GatewayDies(a)
    BY DEF Next, WorkerStep, MapStep, ReduceStep, ReaperStep, LaunchStep,
     Environment, vars, DeleteUpload, HeartbeatAges, ExpirePending,
     ExpirePartial, RequeueStale, RequeueReturning, EnqueueRequeued,
     ReaperFails, Reserve, Claim, ClaimFrom, Skip, LoadShard, PutPartial,
     RecordMapTiming, RecordTiming, CompleteShard, CompleteShardAt,
     EnqueueReduce, GetPartials, Merge, Score, SaveAnomalies, CommitAnomalies,
     CommitReplacing, CommitNothing, Finish, RecordPersistTiming,
     SkipEmbedding, EmbedFindings, SaveEmbeddings, RecordEmbedTiming,
     DropPartials, RecordTotalTiming, Fail, Raise, Crash

(* A reaper's list is what requeue_stale returned, until it is enqueued or  *)
(* lost.                                                                    *)
LEMMA ReaperWriters ==
    ASSUME [Next]_vars
    PROVE  \/ UNCHANGED requeued
           \/ \E w \in Worker : \/ RequeueStale(w) \/ ReaperFails(w) \/ Crash(w)
                                \/ \E a \in Analysis : EnqueueRequeued(w, a)
    BY DEF Next, WorkerStep, MapStep, ReduceStep, ReaperStep, LaunchStep,
     Environment, vars, CreateAnalysis, PublishAnalysis, Publish,
     PublishFails, DeleteUpload, FailAnalysis, FailAnalysisFails, GatewayDies,
     HeartbeatAges, ExpirePending, ExpirePartial, Reserve, Claim, ClaimFrom,
     Skip, LoadShard, PutPartial, RecordMapTiming, RecordTiming,
     CompleteShard, CompleteShardAt, EnqueueReduce, GetPartials, Merge, Score,
     SaveAnomalies, CommitAnomalies, CommitReplacing, CommitNothing, Finish,
     RecordPersistTiming, SkipEmbedding, EmbedFindings, SaveEmbeddings,
     RecordEmbedTiming, DropPartials, RecordTotalTiming, Fail, Raise

----------------------------------------------------------------------------
(* What a worker's step does to its own state, and to the others'.          *)

OwnSteps(w) == WorkerStep(w) \/ Raise(w) \/ Crash(w)

(* The gateway, time and the reapers leave the workers' loops alone.        *)
LEMMA WorkersAlone ==
    ASSUME [Next]_vars
    PROVE  UNCHANGED worker \/ \E w \in Worker : OwnSteps(w)
  BY DEF OwnSteps, Next, ReaperStep, LaunchStep, Environment, vars, worker,
     CreateAnalysis, PublishAnalysis, Publish, PublishFails, DeleteUpload,
     FailAnalysis, FailAnalysisFails, GatewayDies, HeartbeatAges, ExpirePending,
     ExpirePartial, RequeueStale, RequeueReturning, EnqueueRequeued, ReaperFails

(* A worker's step moves, or ends, its own job.                             *)
LEMMA OwnStep ==
    ASSUME ProcType, NEW w \in Worker, OwnSteps(w)
    PROVE  /\ \A v \in Worker \ {w} : /\ pc'[v] = pc[v] /\ job'[v] = job[v]
                                      /\ held'[v] = held[v]
           /\ pc'[w] # "idle" =>
                 Reserve(w) \/ (pc[w] # "idle" /\ job'[w] = job[w])
           /\ pc'[w] = "put" => LoadShard(w)
           /\ pc'[w] = "score" => GetPartials(w)
           /\ pc'[w] \in {"save", "commit"} =>
                 pc[w] \in {"score", "save"} /\ held'[w] = held[w]
           /\ pc'[w] = "finish" => CommitAnomalies(w) \/ CommitNothing(w)
<1> USE DEF ProcType
<1>1. CASE Reserve(w)
  BY <1>1 DEF Reserve, Move
<1>2. CASE Claim(w)
  BY <1>2 DEF Claim, ClaimFrom
<1>3. CASE Skip(w) \/ Fail(w) \/ Crash(w) \/ EnqueueReduce(w)
  BY <1>3 DEF Skip, Fail, Crash, EnqueueReduce, Release
<1>4. CASE LoadShard(w)
  BY <1>4 DEF LoadShard, Move
<1>5. CASE PutPartial(w) \/ RecordMapTiming(w)
  BY <1>5 DEF PutPartial, RecordMapTiming, RecordTiming, Move
<1>6. CASE CompleteShard(w)
  BY <1>6 DEF CompleteShard, CompleteShardAt, Release
<1>7. CASE GetPartials(w)
  BY <1>7 DEF GetPartials, Merge, Move
<1>8. CASE Score(w) \/ SaveAnomalies(w)
  BY <1>8 DEF Score, SaveAnomalies, RecordTiming, Move
<1>9. CASE CommitAnomalies(w)
  BY <1>9 DEF CommitAnomalies, CommitReplacing, Move
<1>10. CASE CommitNothing(w)
  BY <1>10 DEF CommitNothing, Move
<1>11. CASE Finish(w) \/ RecordPersistTiming(w) \/ SkipEmbedding(w)
  BY <1>11 DEF Finish, RecordPersistTiming, SkipEmbedding, RecordTiming, Move
<1>12. CASE EmbedFindings(w) \/ SaveEmbeddings(w) \/ RecordEmbedTiming(w)
  BY <1>12 DEF EmbedFindings, SaveEmbeddings, RecordEmbedTiming, RecordTiming, Move
<1>13. CASE DropPartials(w)
  BY <1>13 DEF DropPartials, Move
<1>14. CASE RecordTotalTiming(w)
  BY <1>14 DEF RecordTotalTiming, Release
<1>15. CASE Raise(w)
  BY <1>15, ConstantsAssumption DEF Raise, InTry, MapPoints, ReducePoints, AfterFinish
<1> QED
  BY <1>1, <1>2, <1>3, <1>4, <1>5, <1>6, <1>7, <1>8, <1>9, <1>10, <1>11, <1>12,
     <1>13, <1>14, <1>15 DEF OwnSteps, WorkerStep, MapStep, ReduceStep

(* A busy worker keeps its job or has just popped it. *)
LEMMA JobSources ==
    ASSUME TypeInv, [Next]_vars, NEW w \in Worker, w \in Busy'
    PROVE  (w \in Busy /\ job'[w] = job[w]) \/ job'[w] \in Queued
<1>1. CASE UNCHANGED worker
  BY <1>1 DEF worker, Busy
<1>2. CASE \E v \in Worker : OwnSteps(v)
  <2>1. \/ w \in Busy /\ job'[w] = job[w]
        \/ Reserve(w)
    BY <1>2, OwnStep DEF TypeInv, Busy
  <2>2. ASSUME Reserve(w) PROVE job'[w] \in Queued
    <3>1. queue # << >> /\ queue \in Seq(Job) /\ job'[w] = Head(queue)
      BY <2>2 DEF Reserve, TypeInv, RedisType, ProcType
    <3> QED
      BY <3>1, PopMembers DEF Queued
  <2> QED
    BY <2>1, <2>2
<1> QED
  BY <1>1, <1>2, WorkersAlone

(* A queued job was queued before, or was published, is the reduce of a     *)
(* worker's job, or was requeued.                                           *)
LEMMA QueueSources ==
    ASSUME TypeInv, [Next]_vars, NEW j \in Queued'
    PROVE  \/ j \in Queued
           \/ \E a \in Analysis : gw[a] = "created" /\ j.analysis = a /\ Original(j)
           \/ \E w \in Busy : EnqueueReduce(w) /\ j = ReduceJob(job[w])
           \/ \E w \in Worker : \E a \in requeued[w] : j = RequeueJob(a)
<1> queue \in Seq(Job)
  BY DEF TypeInv, RedisType
<1>1. CASE UNCHANGED queue
  BY <1>1 DEF Queued, Members
<1>2. ASSUME NEW a \in Analysis, PublishAnalysis(a)
      PROVE  j \in Queued \/ (gw[a] = "created" /\ j.analysis = a /\ Original(j))
  BY <1>2, PublishMembers DEF PublishAnalysis, Publish, Queued
<1>3. ASSUME NEW w \in Worker, Reserve(w) PROVE j \in Queued
  BY <1>3, PopMembers DEF Reserve, Queued
<1>4. ASSUME NEW w \in Worker, EnqueueReduce(w)
      PROVE  j \in Queued \/ (w \in Busy /\ j = ReduceJob(job[w]))
  <2>1. w \in Busy /\ job[w] \in Job /\ queue' = Append(queue, ReduceJob(job[w]))
    BY <1>4, BusyJob DEF EnqueueReduce, Busy, TypeInv
  <2> QED
    BY <2>1, ReduceTyped, PushMembers DEF Queued
<1>5. ASSUME NEW w \in Worker, NEW a \in Analysis, EnqueueRequeued(w, a)
      PROVE  j \in Queued \/ (a \in requeued[w] /\ j = RequeueJob(a))
  BY <1>5, RequeueTyped, PushMembers DEF EnqueueRequeued, Queued
<1> QED
  BY <1>1, <1>2, <1>3, <1>4, <1>5, QueueWriters

(* A reaper's list holds what it had, or what it requeued just now.         *)
LEMMA RequeuedSources ==
    ASSUME TypeInv, [Next]_vars, NEW w \in Worker, NEW a \in requeued'[w]
    PROVE  a \in requeued[w] \/ (status[a] = "running" /\ status'[a] = "queued"
                               /\ reaps'[a] # 0)
<1> USE DEF TypeInv, OtherType, BudgetType
<1>1. CASE UNCHANGED requeued
  BY <1>1
<1>2. ASSUME NEW v \in Worker, RequeueStale(v)
      PROVE  a \in requeued[w] \/ (status[a] = "running" /\ status'[a] = "queued"
                                 /\ reaps'[a] # 0)
  BY <1>2, ConstantsAssumption DEF RequeueStale, RequeueReturning, Stale
<1>3. ASSUME NEW v \in Worker, ReaperFails(v) \/ Crash(v) PROVE a \in requeued[w]
  BY <1>3 DEF ReaperFails, Crash
<1>4. ASSUME NEW v \in Worker, NEW b \in Analysis, EnqueueRequeued(v, b)
      PROVE  a \in requeued[w]
  BY <1>4 DEF EnqueueRequeued
<1> QED
  BY <1>1, <1>2, <1>3, <1>4, ReaperWriters

(* No requeue is forgotten. *)
LEMMA ReapsGrow ==
    ASSUME TypeInv, [Next]_vars, NEW a \in Analysis, reaps'[a] = 0
    PROVE  reaps[a] = 0
<1>1. ASSUME NEW w \in Worker, RequeueStale(w) PROVE reaps[a] = 0
  BY <1>1, ConstantsAssumption
     DEF RequeueStale, RequeueReturning, Stale, TypeInv, BudgetType
<1> QED
  BY <1>1, ReapWriters

(* A row exists only because it did, or because it was inserted just now,   *)
(* and no row becomes absent again.                                         *)
LEMMA RowSources ==
    ASSUME TypeInv, [Next]_vars, NEW a \in Analysis
    PROVE  /\ Exists(a)' => Exists(a) \/ CreateAnalysis(a)
           /\ status'[a] = "absent" => status[a] = "absent"
<1> USE DEF TypeInv, DbType, Exists, Present
<1>1. CASE UNCHANGED status
  BY <1>1
<1>2. ASSUME NEW b \in Analysis, CreateAnalysis(b)
      PROVE  /\ Exists(a)' => Exists(a) \/ CreateAnalysis(a)
             /\ status'[a] = "absent" => status[a] = "absent"
  <2>1. status' = [status EXCEPT ![b] = "queued"]
    BY <1>2 DEF CreateAnalysis
  <2> QED
    BY <1>2, <2>1
<1>3. ASSUME NEW b \in Analysis, FailAnalysis(b)
      PROVE  (Exists(a)' => Exists(a)) /\ (status'[a] = "absent" => status[a] = "absent")
  BY <1>3 DEF FailAnalysis
<1>4. ASSUME NEW u \in Upload, DeleteUpload(u)
      PROVE  (Exists(a)' => Exists(a)) /\ (status'[a] = "absent" => status[a] = "absent")
  BY <1>4 DEF DeleteUpload
<1>5. ASSUME NEW w \in Worker, Claim(w) \/ Finish(w) \/ Fail(w)
      PROVE  (Exists(a)' => Exists(a)) /\ (status'[a] = "absent" => status[a] = "absent")
  BY <1>5 DEF Claim, ClaimFrom, Finish, Fail
<1>6. ASSUME NEW w \in Worker, RequeueStale(w)
      PROVE  (Exists(a)' => Exists(a)) /\ (status'[a] = "absent" => status[a] = "absent")
  BY <1>6 DEF RequeueStale, RequeueReturning, Stale
<1> QED
  BY <1>1, <1>2, <1>3, <1>4, <1>5, <1>6, StatusWriters

----------------------------------------------------------------------------
(* The invariant, part by part. *)

(* Nothing works on an analysis that was never created, and rows need their *)
(* upload.                                                                  *)
LEMMA RowStep == TypeInv /\ RowInv /\ [Next]_vars => RowInv'
<1> SUFFICES ASSUME TypeInv, RowInv, [Next]_vars, NEW a \in Analysis
             PROVE  /\ Exists(a)' => UploadOf[a] \in uploads'
                    /\ status'[a] = "absent" =>
                          /\ gw'[a] = "none"
                          /\ \A j \in Queued' : j.analysis # a
                          /\ \A w \in Busy' : job'[w].analysis # a
                          /\ \A w \in Worker : a \notin requeued'[w]
  BY DEF RowInv
<1>1. Exists(a)' => UploadOf[a] \in uploads'
  <2>1. CASE UNCHANGED uploads
    BY <2>1, RowSources DEF RowInv, CreateAnalysis
  <2>2. ASSUME NEW u \in Upload, DeleteUpload(u)
        PROVE  Exists(a)' => UploadOf[a] \in uploads'
    BY <2>2 DEF DeleteUpload, RowInv, Exists, Present
  <2> QED
    BY <2>1, <2>2, UploadWriters
<1>2. ASSUME status'[a] = "absent"
      PROVE  /\ gw'[a] = "none"
             /\ \A j \in Queued' : j.analysis # a
             /\ \A w \in Busy' : job'[w].analysis # a
             /\ \A w \in Worker : a \notin requeued'[w]
  <2>1. /\ status[a] = "absent" /\ gw[a] = "none"
        /\ \A j \in Queued : j.analysis # a
        /\ \A w \in Busy : job[w].analysis # a
        /\ \A w \in Worker : a \notin requeued[w]
    BY <1>2, RowSources DEF RowInv
  <2>2. gw'[a] = "none"
    <3> USE DEF TypeInv, OtherType, DbType
    <3>1. ASSUME NEW b \in Analysis, CreateAnalysis(b) PROVE b # a
      BY <1>2, <3>1 DEF CreateAnalysis
    <3>2. ASSUME NEW b \in Analysis, CreateAnalysis(b) PROVE gw'[a] = "none"
      BY <2>1, <3>1, <3>2 DEF CreateAnalysis
    <3>3. ASSUME NEW b \in Analysis,
                 \/ PublishAnalysis(b) \/ PublishFails(b) \/ FailAnalysis(b)
                 \/ FailAnalysisFails(b) \/ GatewayDies(b)
          PROVE  gw'[a] = "none"
      BY <2>1, <3>3 DEF PublishAnalysis, Publish, PublishFails, FailAnalysis,
                        FailAnalysisFails, GatewayDies
    <3> QED
      BY <2>1, <3>2, <3>3, LaunchWriters
  <2>3. \A j \in Queued' : j.analysis # a
    BY <2>1, QueueSources DEF ReduceJob, RequeueJob
  <2>4. \A w \in Busy' : job'[w].analysis # a
    BY <2>1, JobSources DEF Busy
  <2>5. \A w \in Worker : a \notin requeued'[w]
    BY <2>1, RequeuedSources
  <2> QED
    BY <2>2, <2>3, <2>4, <2>5
<1> QED
  BY <1>1, <1>2

(* Until the first requeue, the jobs of an analysis are those published.    *)
LEMMA OriginalStep ==
    TypeInv /\ OriginalInv /\ [Next]_vars => OriginalInv'
<1> SUFFICES ASSUME TypeInv, OriginalInv, [Next]_vars,
                    NEW a \in Analysis, reaps'[a] = 0
             PROVE  /\ \A j \in Queued' : j.analysis = a => Original(j)
                    /\ \A w \in Busy' : job'[w].analysis = a => Original(job'[w])
                    /\ \A w \in Worker : a \notin requeued'[w]
  BY DEF OriginalInv, Original
<1>1. /\ \A j \in Queued : j.analysis = a => Original(j)
      /\ \A w \in Busy : job[w].analysis = a => Original(job[w])
      /\ \A w \in Worker : a \notin requeued[w]
  BY ReapsGrow DEF OriginalInv
<1>2. ASSUME NEW j \in Queued', j.analysis = a PROVE Original(j)
  <2>1. ASSUME NEW w \in Busy, j = ReduceJob(job[w]) PROVE Original(j)
    <3>1. job[w] \in Job
      BY DEF TypeInv, WorkerInv, Busy
    <3>2. job[w].analysis = a
      BY <1>2, <2>1 DEF ReduceJob
    <3> QED
      BY <1>1, <2>1, <3>1, <3>2, ReduceTyped
  <2>2. ASSUME NEW w \in Worker, NEW b \in requeued[w], j = RequeueJob(b)
        PROVE  FALSE
    BY <1>1, <1>2, <2>2 DEF RequeueJob
  <2> QED
    BY <1>1, <1>2, <2>1, <2>2, QueueSources
<1>3. ASSUME NEW w \in Busy', job'[w].analysis = a PROVE Original(job'[w])
  BY <1>1, <1>3, JobSources DEF Busy
<1>4. \A w \in Worker : a \notin requeued'[w]
  BY <1>1, RequeuedSources
<1> QED
  BY <1>2, <1>3, <1>4

(* Findings are committed before finish, by whoever finishes.               *)
LEMMA FindingsKept ==
    ASSUME TypeInv, [Next]_vars, NEW a \in Analysis, Exists(a)', findings[a] # {}
    PROVE  findings'[a] # {}
<1> USE DEF TypeInv, DbType
<1>1. ASSUME NEW u \in Upload, DeleteUpload(u) PROVE findings'[a] = findings[a]
  BY <1>1 DEF DeleteUpload, Exists, Present
<1>2. ASSUME NEW w \in Worker, CommitAnomalies(w) PROVE findings'[a] # {}
  BY <1>2 DEF CommitAnomalies, CommitReplacing
<1> QED
  BY <1>1, <1>2, FindingWriters

(* ... so that done implies findings. *)
LEMMA FindingsStep ==
    TypeInv /\ RowInv /\ FindingsInv /\ [Next]_vars => FindingsInv'
<1> SUFFICES ASSUME TypeInv, RowInv, FindingsInv, [Next]_vars PROVE FindingsInv'
  OBVIOUS
<1>1. ASSUME NEW w \in Worker, NEW a \in Analysis,
             pc'[w] = "finish", job'[w].analysis = a, Exists(a)'
      PROVE  findings'[a] # {}
  <2>2. CASE pc[w] = "finish" /\ job'[w] = job[w]
    <3>1. status[a] # "absent"
      BY <1>1, <2>2 DEF RowInv, Busy
    <3>2. Exists(a)
      BY <1>1, <3>1, RowSources DEF CreateAnalysis
    <3>3. findings[a] # {}
      BY <1>1, <2>2, <3>2 DEF FindingsInv
    <3> QED
      BY <1>1, <3>3, FindingsKept
  <2>3. CASE CommitAnomalies(w)
    <3>1. job' = job /\ status' = status
      BY <2>3 DEF CommitAnomalies, CommitReplacing
    <3>2. Exists(a) /\ job[w].analysis = a
      BY <1>1, <3>1 DEF Exists
    <3> QED
      BY <2>3, <3>2 DEF CommitAnomalies, CommitReplacing, TypeInv, DbType
  <2>4. CASE CommitNothing(w)
    <3>1. job' = job /\ status' = status /\ ~ Exists(job[w].analysis)
      BY <2>4 DEF CommitNothing, db
    <3> QED
      BY <1>1, <3>1 DEF Exists
  <2>5. CASE UNCHANGED worker
    BY <1>1, <2>2, <2>5 DEF worker
  <2>6. ASSUME NEW v \in Worker, OwnSteps(v)
        PROVE  \/ pc[w] = "finish" /\ job'[w] = job[w]
               \/ CommitAnomalies(w) \/ CommitNothing(w)
    BY <1>1, <2>6, OwnStep DEF TypeInv
  <2> QED
    BY <2>2, <2>3, <2>4, <2>5, <2>6, WorkersAlone
<1>2. ASSUME NEW a \in Analysis, status'[a] = "done" PROVE findings'[a] # {}
  <2>1. status[a] = "done" \/ \E w \in Worker : Finish(w) /\ job[w].analysis = a
    <3> USE DEF TypeInv, DbType
    <3>1. ASSUME NEW b \in Analysis, CreateAnalysis(b) \/ FailAnalysis(b)
          PROVE  status[a] = "done"
      BY <1>2, <3>1 DEF CreateAnalysis, FailAnalysis
    <3>2. ASSUME NEW u \in Upload, DeleteUpload(u) PROVE status[a] = "done"
      BY <1>2, <3>2 DEF DeleteUpload
    <3>3. ASSUME NEW w \in Worker, Claim(w) \/ Fail(w) \/ RequeueStale(w)
          PROVE  status[a] = "done"
      BY <1>2, <3>3 DEF Claim, ClaimFrom, Fail, RequeueStale, RequeueReturning
    <3>4. ASSUME NEW w \in Worker, Finish(w)
          PROVE  status[a] = "done" \/ job[w].analysis = a
      BY <1>2, <3>4 DEF Finish
    <3> QED
      BY <1>2, <3>1, <3>2, <3>3, <3>4, StatusWriters
  <2>2. CASE status[a] = "done"
    BY <1>2, <2>2, FindingsKept DEF FindingsInv, Exists, Present
  <2>3. ASSUME NEW w \in Worker, Finish(w), job[w].analysis = a
        PROVE  findings'[a] # {}
    <3>1. pc[w] = "finish" /\ findings' = findings /\ (Exists(a) \/ status' = status)
      BY <2>3 DEF Finish, Move
    <3>2. Exists(a)
      BY <1>2, <3>1 DEF Exists, Present
    <3> QED
      BY <2>3, <3>1, <3>2 DEF FindingsInv
  <2> QED
    BY <2>1, <2>2, <2>3
<1>3. ASSUME NEW w \in Worker, pc'[w] = "finish"
      PROVE  job'[w].analysis \in Analysis
  BY <1>3, TypeStep, JobFields DEF TypeInv, WorkerInv, Busy
<1> QED
  BY <1>1, <1>2, <1>3 DEF FindingsInv

(* What the get_partials of a published reduce returns, once no partial is  *)
(* missing: the slices of all shards, in order.                             *)
LEMMA FoundAll ==
    ASSUME NEW j \in Job, Original(j), ~ Short(j),
           \A s \in ShardIds(j.analysis) :
               partials[j.analysis][s] \in {Nil, ShardRows(j.analysis, s)}
    PROVE  Found(j) = FullParts(j.analysis)
<1>1. j.count = ShardCount(j.analysis) /\ j.analysis \in Analysis
  BY JobFields DEF Original
<1>2. \A i \in 1 .. j.count : i - 1 \in ShardIds(j.analysis) /\ i - 1 \in 0 .. j.count - 1
  BY <1>1, ShardCountCovers DEF ShardIds
<1>3. \A i \in 1 .. j.count :
         /\ partials[j.analysis][i - 1] # Nil
         /\ partials[j.analysis][i - 1] = ShardRows(j.analysis, i - 1)
  BY <1>2 DEF Short
<1> QED
  BY <1>1, <1>3 DEF Found, FullParts

(* Every partial stored for an untouched analysis is the slice of its       *)
(* shard, and every aggregate in hand is the one the fan-out determines.    *)
LEMMA SliceStep ==
    TypeInv /\ OriginalInv /\ SliceInv /\ [Next]_vars => SliceInv'
<1> SUFFICES ASSUME TypeInv, OriginalInv, SliceInv, [Next]_vars,
                    NEW a \in Analysis, reaps'[a] = 0, UploadOf[a] \in uploads'
             PROVE  /\ \A s \in ShardIds(a) : partials'[a][s] \in {Nil, ShardRows(a, s)}
                    /\ \A w \in Worker : pc'[w] = "put" /\ job'[w].analysis = a
                          => held'[w][1] = ShardRows(a, job'[w].shard)
                    /\ \A w \in Worker :
                          pc'[w] \in {"score", "save", "commit"} /\ job'[w].analysis = a
                          => held'[w] = FullParts(a)
  BY DEF SliceInv, ShardRows, FullParts, ShardCount, ShardIds, Slice, Rows
<1>1. reaps[a] = 0 /\ UploadOf[a] \in uploads
  <2>1. ASSUME NEW u \in Upload, DeleteUpload(u) PROVE UploadOf[a] \in uploads
    BY <2>1 DEF DeleteUpload
  <2> QED
    BY <2>1, ReapsGrow, UploadWriters
<1>2. /\ \A s \in ShardIds(a) : partials[a][s] \in {Nil, ShardRows(a, s)}
      /\ \A w \in Worker : pc[w] = "put" /\ job[w].analysis = a
            => held[w][1] = ShardRows(a, job[w].shard)
      /\ \A w \in Worker : pc[w] \in {"score", "save", "commit"} /\ job[w].analysis = a
            => held[w] = FullParts(a)
  BY <1>1 DEF SliceInv
<1>3. ASSUME NEW w \in Worker, pc[w] # "idle", job[w].analysis = a
      PROVE  job[w] \in Job /\ Original(job[w])
  BY <1>1, <1>3 DEF OriginalInv, Busy, TypeInv, WorkerInv
<1>4. ASSUME NEW s \in ShardIds(a)
      PROVE  partials'[a][s] \in {Nil, ShardRows(a, s)}
  <2> USE DEF TypeInv, RedisType
  <2>1. ASSUME NEW b \in Analysis, NEW t \in ShardIds(b), ExpirePartial(b, t)
        PROVE  partials'[a][s] \in {Nil, ShardRows(a, s)}
    BY <1>2, <2>1 DEF ExpirePartial
  <2>2. ASSUME NEW w \in Worker, PutPartial(w)
        PROVE  partials'[a][s] \in {Nil, ShardRows(a, s)}
    <3>1. /\ pc[w] = "put" /\ job[w] \in Job
          /\ partials' = [partials EXCEPT ![job[w].analysis][job[w].shard] = held[w][1]]
      BY <2>2, BusyJob DEF PutPartial, Move
    <3>2. CASE job[w].analysis = a
      BY <1>2, <3>1, <3>2, JobFields
    <3>3. CASE job[w].analysis # a
      BY <1>2, <3>1, <3>3, JobFields
    <3> QED
      BY <3>2, <3>3
  <2>3. ASSUME NEW w \in Worker, DropPartials(w)
        PROVE  partials'[a][s] \in {Nil, ShardRows(a, s)}
    BY <1>2, <2>3 DEF DropPartials
  <2> QED
    BY <1>2, <2>1, <2>2, <2>3, PartialWriters
<1>5. ASSUME NEW w \in Worker, pc'[w] = "put", job'[w].analysis = a
      PROVE  held'[w][1] = ShardRows(a, job'[w].shard)
  <2>1. CASE LoadShard(w)
    <3>1. pc[w] = "load" /\ job' = job
      BY <2>1 DEF LoadShard, Move
    <3>2. job[w] \in Job /\ Original(job[w]) /\ job[w].kind = "map"
      BY <1>3, <1>5, <3>1 DEF TypeInv, WorkerInv
    <3>3. job[w].offset = job[w].shard * ShardSize /\ job[w].limit = ShardSize
      BY <3>2 DEF Original
    <3>4. held' = [held EXCEPT ![w] = << Slice(a, job[w].offset, job[w].limit) >>]
      BY <1>1, <1>5, <2>1, <3>1 DEF LoadShard
    <3> QED
      BY <3>1, <3>3, <3>4 DEF ShardRows, TypeInv, ProcType
  <2>2. CASE pc[w] = "put" /\ job'[w] = job[w] /\ held'[w] = held[w]
    BY <1>2, <1>5, <2>2
  <2>3. ASSUME NEW v \in Worker, OwnSteps(v)
        PROVE  \/ LoadShard(w)
               \/ pc[w] = "put" /\ job'[w] = job[w] /\ held'[w] = held[w]
    BY <1>5, <2>3, OwnStep DEF TypeInv
  <2> QED
    BY <1>5, <2>1, <2>2, <2>3, WorkersAlone DEF worker
<1>6. ASSUME NEW w \in Worker, pc'[w] \in {"score", "save", "commit"},
             job'[w].analysis = a
      PROVE  held'[w] = FullParts(a)
  <2>1. CASE GetPartials(w) /\ pc'[w] = "score"
    <3>1. pc[w] = "merge" /\ job' = job
      BY <2>1 DEF GetPartials, Merge, Move
    <3>2. ~ Short(job[w]) /\ held' = [held EXCEPT ![w] = Found(job[w])]
      BY <2>1 DEF GetPartials, Merge, Move, TypeInv, ProcType
    <3>3. job[w] \in Job /\ Original(job[w]) /\ job[w].analysis = a
      BY <1>3, <1>6, <3>1
    <3>4. Found(job[w]) = FullParts(a)
      BY <1>2, <3>2, <3>3, FoundAll
    <3> QED
      BY <3>2, <3>4 DEF TypeInv, ProcType
  <2>2. CASE /\ pc[w] \in {"score", "save", "commit"}
             /\ job'[w] = job[w] /\ held'[w] = held[w]
    BY <1>2, <1>6, <2>2
  <2>3. ASSUME NEW v \in Worker, OwnSteps(v)
        PROVE  \/ GetPartials(w) /\ pc'[w] = "score"
               \/ /\ pc[w] \in {"score", "save", "commit"}
                  /\ job'[w] = job[w] /\ held'[w] = held[w]
    BY <1>6, <2>3, OwnStep DEF TypeInv, Reserve, Move, ProcType
  <2> QED
    BY <1>6, <2>1, <2>2, <2>3, WorkersAlone DEF worker
<1> QED
  BY <1>4, <1>5, <1>6

(* The findings of an untouched analysis are scored on every shard.         *)
LEMMA ExactStep ==
    TypeInv /\ RowInv /\ SliceInv /\ ExactInv /\ [Next]_vars => ExactInv'
<1> SUFFICES ASSUME TypeInv, RowInv, SliceInv, ExactInv, [Next]_vars,
                    NEW a \in Analysis, reaps'[a] = 0, NEW f \in findings'[a]
             PROVE  f.parts = FullParts(a)
  BY DEF ExactInv, ShardRows, FullParts, ShardCount, ShardIds, Slice, Rows
<1>1. reaps[a] = 0 /\ \A g \in findings[a] : g.parts = FullParts(a)
  BY ReapsGrow DEF ExactInv
<1> USE DEF TypeInv, DbType
<1>2. ASSUME NEW u \in Upload, DeleteUpload(u) PROVE f \in findings[a]
  BY <1>2 DEF DeleteUpload
<1>3. ASSUME NEW w \in Worker, CommitAnomalies(w) PROVE f.parts = FullParts(a)
  <2> DEFINE b == job[w].analysis
             mine == [id |-> saves[b] + 1, parts |-> held[w]]
  <2>1. pc[w] = "commit" /\ b \in Analysis
    BY <1>3, BusyJob DEF CommitAnomalies, CommitReplacing, Move
  <2>2. CASE f \in findings[a]
    BY <1>1, <2>2
  <2>3. CASE f \notin findings[a]
    <3>1. Exists(b) /\ b = a /\ f = mine
      BY <1>3, <2>1, <2>3 DEF CommitAnomalies, CommitReplacing
    <3>2. UploadOf[a] \in uploads
      BY <3>1 DEF RowInv
    <3>3. held[w] = FullParts(a)
      BY <1>1, <2>1, <3>1, <3>2 DEF SliceInv
    <3> QED
      BY <3>1, <3>3
  <2> QED
    BY <2>2, <2>3
<1> QED
  BY <1>1, <1>2, <1>3, FindingWriters

----------------------------------------------------------------------------
(* Together. *)

(* Nothing has happened yet. *)
LEMMA PipelineInit == Init => PipelineInv
<1> SUFFICES ASSUME Init PROVE PipelineInv
  OBVIOUS
<1>1. TypeOK /\ WorkerInv
  BY TypeInit, TypeParts
<1>2. Queued = {} /\ Busy = {}
  BY DEF Init, Queued, Members, Busy
<1>3. RowInv /\ FindingsInv /\ OriginalInv /\ ExactInv
  BY <1>2 DEF Init, RowInv, FindingsInv, OriginalInv, ExactInv, Exists, Present
<1>4. SliceInv
  BY DEF Init, SliceInv
<1> QED
  BY <1>1, <1>3, <1>4 DEF PipelineInv

(* Every step keeps every part of the invariant. *)
LEMMA PipelineStep == PipelineInv /\ [Next]_vars => PipelineInv'
<1> SUFFICES ASSUME PipelineInv, [Next]_vars PROVE PipelineInv'
  OBVIOUS
<1>1. TypeInv
  BY TypeParts DEF PipelineInv
<1>2. TypeInv'
  BY <1>1, TypeStep
<1>3. TypeOK' /\ WorkerInv'
  BY <1>2 DEF TypeInv, TypeOK, DbType, RedisType, ProcType, OtherType, BudgetType
<1> QED
  BY <1>1, <1>3, RowStep, FindingsStep, OriginalStep, SliceStep, ExactStep
     DEF PipelineInv

(* In every reachable state the jobs, partials, aggregates and findings of  *)
(* an analysis no reaper has requeued are those its fan-out determines.     *)
THEOREM PipelineInvariant == Spec => []PipelineInv
  BY PipelineInit, PipelineStep, PTL DEF Spec

(* However many workers race, whatever dies, raises, expires or is deleted: *)
(* an analysis that is done and was never requeued has findings, and they   *)
(* were scored on an aggregate that counts every log row exactly once.      *)
THEOREM UnreapedExact == Spec => []UnreapedDoneIsExact
<1>1. PipelineInv => UnreapedDoneIsExact
  <2> SUFFICES ASSUME PipelineInv, NEW a \in Analysis, reaps[a] = 0,
                      status[a] = "done"
               PROVE  /\ findings[a] # {}
                      /\ \A f \in findings[a] : ExactlyOnce(a, f.parts)
    BY DEF UnreapedDoneIsExact, DoneExact
  <2>1. findings[a] # {}
    BY DEF PipelineInv, FindingsInv
  <2>2. \A f \in findings[a] : f.parts = FullParts(a)
    BY DEF PipelineInv, ExactInv
  <2> QED
    BY <2>1, <2>2, ShardsPartition
<1> QED
  BY <1>1, PipelineInvariant, PTL

----------------------------------------------------------------------------
(* The pipeline implements the lifecycle: every step is a step of           *)
(* AnalysisLifecycle, or changes nothing a polling client can see.          *)

(* What the client sees. *)
outcome == [a \in Analysis |-> Outcome(a)]
touched == [a \in Analysis |-> reaps[a] > 0]

(* Findings scored on every shard are exact. *)
LEMMA FullOutcome ==
    ASSUME NEW a \in Analysis, \A f \in findings[a] : f.parts = FullParts(a)
    PROVE  Outcome(a) = IF findings[a] = {} THEN "none" ELSE "exact"
  BY ShardsPartition DEF Outcome

(* The actions a client may notice, and nothing else they could change.     *)
LEMMA Unseen ==
    ASSUME [Next]_vars
    PROVE  \/ UNCHANGED <<status, findings, reaps>>
           \/ \E a \in Analysis : CreateAnalysis(a) \/ FailAnalysis(a)
           \/ \E u \in Upload : DeleteUpload(u)
           \/ \E w \in Worker : \/ Claim(w) \/ CommitAnomalies(w) \/ Finish(w)
                                \/ Fail(w) \/ RequeueStale(w)
  BY ZenonT(30) DEF Next, WorkerStep, MapStep, ReduceStep, ReaperStep, LaunchStep,
     Environment,
     vars, db, budget, PublishAnalysis, Publish, PublishFails, FailAnalysisFails,
     GatewayDies, HeartbeatAges, ExpirePending, ExpirePartial, EnqueueRequeued,
     ReaperFails, Reserve, Skip, LoadShard, PutPartial, RecordMapTiming, RecordTiming,
     CompleteShard, CompleteShardAt, EnqueueReduce, GetPartials, Merge, Score,
     SaveAnomalies, CommitNothing, RecordPersistTiming, SkipEmbedding, EmbedFindings,
     SaveEmbeddings, RecordEmbedTiming, DropPartials, RecordTotalTiming, Raise, Crash

(* Steps that leave findings and requeues alone leave what is seen of them. *)
LEMMA SameOutcome ==
    ASSUME UNCHANGED <<findings, reaps>>
    PROVE  UNCHANGED <<outcome, touched>>
  BY DEF outcome, touched, Outcome, ExactlyOnce, Rows

(* The initial states correspond. *)
LEMMA LifecycleInit == Init => Lifecycle!Init
<1> SUFFICES ASSUME Init PROVE Lifecycle!Init
  OBVIOUS
<1>1. \A a \in Analysis : Outcome(a) = "none" /\ (reaps[a] > 0) = FALSE
  BY DEF Init, Outcome
<1>2. [a \in Analysis |-> reaps[a] > 0] = [a \in Analysis |-> FALSE]
  BY <1>1, Zenon
<1>3. [a \in Analysis |-> Outcome(a)] = [a \in Analysis |-> "none"]
  BY <1>1
<1> QED
  BY <1>2, <1>3 DEF Init, Lifecycle!Init

(* A status change alone is a Become of the lifecycle, if from and to are.  *)
LEMMA LifecycleBecome ==
    ASSUME DbType, NEW a \in Analysis, NEW from, NEW to,
           status[a] \in from, status' = [status EXCEPT ![a] = to],
           UNCHANGED <<findings, reaps>>
    PROVE  Lifecycle!Become(a, from, to)
  BY SameOutcome DEF Lifecycle!Become, outcome, touched

(* Every step of the pipeline is one of the lifecycle, or unseen. *)
LEMMA LifecycleStep ==
    PipelineInv /\ PipelineInv' /\ [Next]_vars
        => [Lifecycle!Next]_(Lifecycle!life)
<1> SUFFICES ASSUME PipelineInv, PipelineInv', [Next]_vars
             PROVE  Lifecycle!Next \/ UNCHANGED <<status, outcome, touched>>
  BY DEF Lifecycle!life, outcome, touched
<1> TypeInv /\ DbType /\ BudgetType
  BY TypeParts DEF PipelineInv, TypeInv
<1>1. CASE UNCHANGED <<status, findings, reaps>>
  BY <1>1, SameOutcome
<1>2. ASSUME NEW a \in Analysis, CreateAnalysis(a) PROVE Lifecycle!Next
  <2>1. /\ status[a] \in {"absent"} /\ status' = [status EXCEPT ![a] = "queued"]
        /\ UNCHANGED <<findings, reaps>>
    BY <1>2 DEF CreateAnalysis, budget
  <2>2. Lifecycle!Become(a, {"absent"}, "queued")
    BY <2>1, SameOutcome DEF Lifecycle!Become, outcome, touched, DbType
  <2>3. Lifecycle!Create(a)
    BY <2>2 DEF Lifecycle!Create
  <2> QED
    BY <2>3 DEF Lifecycle!Next
<1>3. ASSUME NEW a \in Analysis, FailAnalysis(a)
      PROVE  Lifecycle!Next \/ UNCHANGED <<status, outcome, touched>>
  <2>1. UNCHANGED <<findings, reaps>>
    BY <1>3 DEF FailAnalysis, budget
  <2>2. CASE Exists(a)
    <3>1. status[a] \in Lifecycle!Alive /\ status' = [status EXCEPT ![a] = "failed"]
      BY <1>3, <2>2 DEF FailAnalysis, Exists, Present, Lifecycle!Alive
    <3>2. Lifecycle!GiveUp(a)
      BY <2>1, <3>1, LifecycleBecome DEF Lifecycle!GiveUp
    <3> QED
      BY <3>2 DEF Lifecycle!Next
  <2>3. CASE ~ Exists(a)
    BY <1>3, <2>1, <2>3, SameOutcome DEF FailAnalysis
  <2> QED
    BY <2>2, <2>3
<1>4. ASSUME NEW w \in Worker, Claim(w) PROVE Lifecycle!Next
  <2> DEFINE a == job[w].analysis
  <2>1. a \in Analysis
    BY <1>4, BusyJob DEF Claim, ClaimFrom, TypeInv
  <2>2. /\ status[a] \in {"queued", "running"}
        /\ status' = [status EXCEPT ![a] = "running"]
        /\ UNCHANGED <<findings, reaps>>
    BY <1>4 DEF Claim, ClaimFrom, budget
  <2>3. Lifecycle!Start(a)
    BY <2>1, <2>2, LifecycleBecome DEF Lifecycle!Start
  <2> QED
    BY <2>1, <2>3 DEF Lifecycle!Next
<1>5. ASSUME NEW w \in Worker, Finish(w)
      PROVE  Lifecycle!Next \/ UNCHANGED <<status, outcome, touched>>
  <2> DEFINE a == job[w].analysis
  <2>1. a \in Analysis /\ pc[w] = "finish"
    BY <1>5, BusyJob DEF Finish, Move, TypeInv
  <2>2. UNCHANGED <<findings, reaps>>
    BY <1>5 DEF Finish, budget
  <2>3. CASE Exists(a)
    <3>1. status[a] \in Lifecycle!Alive /\ status' = [status EXCEPT ![a] = "done"]
      BY <1>5, <2>3 DEF Finish, Exists, Present, Lifecycle!Alive
    <3>2. Outcome(a) # "none"
      BY <2>1, <2>3 DEF PipelineInv, FindingsInv, Outcome
    <3>3. Lifecycle!Complete(a)
      BY <2>1, <2>2, <3>1, <3>2, LifecycleBecome DEF Lifecycle!Complete
    <3> QED
      BY <2>1, <3>3 DEF Lifecycle!Next
  <2>4. CASE ~ Exists(a)
    BY <1>5, <2>2, <2>4, SameOutcome DEF Finish
  <2> QED
    BY <2>3, <2>4
<1>6. ASSUME NEW w \in Worker, Fail(w)
      PROVE  Lifecycle!Next \/ UNCHANGED <<status, outcome, touched>>
  <2> DEFINE a == job[w].analysis
  <2>1. a \in Analysis
    BY <1>6, BusyJob DEF Fail, TypeInv
  <2>2. UNCHANGED <<findings, reaps>>
    BY <1>6 DEF Fail, budget
  <2>3. CASE Exists(a)
    <3>1. status[a] \in Lifecycle!Alive /\ status' = [status EXCEPT ![a] = "failed"]
      BY <1>6, <2>3 DEF Fail, Exists, Present, Lifecycle!Alive
    <3>2. Lifecycle!GiveUp(a)
      BY <2>1, <2>2, <3>1, LifecycleBecome DEF Lifecycle!GiveUp
    <3> QED
      BY <2>1, <3>2 DEF Lifecycle!Next
  <2>4. CASE ~ Exists(a)
    BY <1>6, <2>2, <2>4, SameOutcome DEF Fail
  <2> QED
    BY <2>3, <2>4
<1>7. ASSUME NEW w \in Worker, RequeueStale(w) PROVE Lifecycle!Next
  <2> SUFFICES ASSUME NEW batch \in SUBSET Analysis, batch = Stale
               PROVE  Lifecycle!Next
    BY DEF Stale
  <2>1. /\ status' = [a \in Analysis |-> IF a \in batch THEN "queued" ELSE status[a]]
        /\ reaps' = [a \in Analysis |-> IF a \in batch THEN reaps[a] + 1 ELSE reaps[a]]
        /\ findings' = findings
    BY <1>7 DEF RequeueStale, RequeueReturning
  <2>2. \A a \in batch : status[a] = "running"
    BY DEF Stale
  <2>3. \A a \in Analysis : (reaps'[a] > 0) <=> (a \in batch \/ reaps[a] > 0)
    BY <2>1, ConstantsAssumption DEF BudgetType
  <2>4. [a \in Analysis |-> reaps'[a] > 0]
            = [a \in Analysis |-> a \in batch \/ [b \in Analysis |-> reaps[b] > 0][a]]
    <3>1. \A a \in Analysis : [b \in Analysis |-> reaps[b] > 0][a] = (reaps[a] > 0)
      BY Zenon
    <3>2. ASSUME NEW a \in Analysis
          PROVE  (reaps'[a] > 0) = (a \in batch \/ [b \in Analysis |-> reaps[b] > 0][a])
      <4>1. [b \in Analysis |-> reaps[b] > 0][a] <=> reaps[a] > 0
        BY <3>1, Zenon
      <4>2. (reaps'[a] > 0) <=> (a \in batch \/ [b \in Analysis |-> reaps[b] > 0][a])
        BY <2>3, <4>1, Zenon
      <4> QED
        BY <4>2
    <3> QED
      BY <3>2, Zenon
  <2>5. outcome' = outcome
    BY <2>1 DEF outcome, Outcome, ExactlyOnce, Rows
  <2>6. Lifecycle!Requeue(batch)
    BY <2>1, <2>2, <2>4, <2>5 DEF Lifecycle!Requeue, outcome
  <2> QED
    BY <2>6 DEF Lifecycle!Next
<1>8. ASSUME NEW u \in Upload, DeleteUpload(u) PROVE Lifecycle!Next
  <2> DEFINE gone == {a \in Analysis : UploadOf[a] = u /\ status[a] \in Lifecycle!Alive}
  <2>1. /\ status' = [a \in Analysis |-> IF a \in gone THEN "deleted" ELSE status[a]]
        /\ findings' = [a \in Analysis |-> IF a \in gone THEN {} ELSE findings[a]]
        /\ reaps' = reaps
    BY <1>8 DEF DeleteUpload, Exists, Present, Lifecycle!Alive, budget
  <2>2. \A a \in Analysis : Outcome(a)' = IF a \in gone THEN "none" ELSE Outcome(a)
    <3> SUFFICES ASSUME NEW a \in Analysis
                 PROVE  Outcome(a)' = IF a \in gone THEN "none" ELSE Outcome(a)
      OBVIOUS
    <3>1. findings'[a] = IF a \in gone THEN {} ELSE findings[a]
      BY <2>1
    <3> HIDE DEF gone
    <3> QED
      BY <3>1 DEF Outcome, ExactlyOnce, Rows
  <2>3. outcome' = [a \in Analysis |-> IF a \in gone THEN "none" ELSE outcome[a]]
    BY <2>2 DEF outcome
  <2>4. touched' = touched
    BY <2>1 DEF touched
  <2>5. Lifecycle!Delete(u)
    BY <2>1, <2>3, <2>4 DEF Lifecycle!Delete, outcome, touched
  <2> QED
    BY <2>5 DEF Lifecycle!Next
<1>9. ASSUME NEW w \in Worker, CommitAnomalies(w)
      PROVE  Lifecycle!Next \/ UNCHANGED <<status, outcome, touched>>
  <2> SUFFICES ASSUME NEW a \in Analysis, a = job[w].analysis
               PROVE  Lifecycle!Next \/ UNCHANGED <<status, outcome, touched>>
    BY <1>9, BusyJob DEF CommitAnomalies, CommitReplacing, Move, TypeInv
  <2>1. UNCHANGED <<status, reaps>>
    BY <1>9 DEF CommitAnomalies, CommitReplacing, budget
  <2>2. CASE Exists(a)
    <3>1. /\ findings'[a] # {}
          /\ \A b \in Analysis \ {a} : findings'[b] = findings[b]
      BY <1>9, <2>2 DEF CommitAnomalies, CommitReplacing, DbType
    <3>2. \A b \in Analysis \ {a} : Outcome(b)' = Outcome(b)
      BY <3>1 DEF Outcome, ExactlyOnce, Rows
    <3>3. Outcome(a)' \in {"exact", "inexact"}
      BY <3>1 DEF Outcome
    <3>4. ASSUME reaps[a] = 0 PROVE Outcome(a)' = "exact"
      <4>1. \A f \in findings'[a] : f.parts = FullParts(a)
        BY <2>1, <3>4
           DEF PipelineInv, ExactInv, FullParts, ShardRows, ShardCount, Slice, Rows
      <4>2. \A f \in findings'[a] : ExactlyOnce(a, f.parts)
        BY <4>1, ShardsPartition
      <4> QED
        BY <3>1, <4>2 DEF Outcome, ExactlyOnce, Rows
    <3>5. outcome' = [outcome EXCEPT ![a] = Outcome(a)']
      BY <3>2 DEF outcome
    <3>6. Outcome(a)' \in IF touched[a] THEN {"exact", "inexact"} ELSE {"exact"}
      <4>1. touched[a] <=> reaps[a] > 0
        BY Zenon DEF touched
      <4>2. touched[a] \/ reaps[a] = 0
        BY <4>1, ConstantsAssumption DEF BudgetType
      <4> QED
        BY <3>3, <3>4, <4>2
    <3>7. status[a] \in Lifecycle!Alive /\ touched' = touched
      BY <2>1, <2>2 DEF Exists, Present, Lifecycle!Alive, touched
    <3>8. Lifecycle!Record(a)
      BY <2>1, <3>5, <3>6, <3>7 DEF Lifecycle!Record, outcome, touched
    <3> QED
      BY <3>8 DEF Lifecycle!Next
  <2>3. CASE ~ Exists(a)
    BY <1>9, <2>1, <2>3, SameOutcome DEF CommitAnomalies, CommitReplacing
  <2> QED
    BY <2>2, <2>3
<1> QED
  BY <1>1, <1>2, <1>3, <1>4, <1>5, <1>6, <1>7, <1>8, <1>9, Unseen

(* A client that polls the analysis sees the lifecycle and nothing else,    *)
(* however many workers race and whatever fails: findings come before done, *)
(* are exact until the reaper interferes, and no terminal analysis restarts *)
THEOREM LifecycleImplemented == Spec => ImplementsLifecycle
  BY LifecycleInit, LifecycleStep, PipelineInvariant, PTL
     DEF Spec, ImplementsLifecycle, Lifecycle!Spec

----------------------------------------------------------------------------
(* Counting shards.                                                         *)

LEMMA ShardSets ==
    ASSUME NEW a \in Analysis
    PROVE  IsFiniteSet(ShardIds(a)) /\ Cardinality(ShardIds(a)) = ShardCount(a)
  BY ShardCountCovers, FS_Interval DEF ShardIds

LEMMA WithinAll ==
    ASSUME NEW a \in Analysis, NEW S \in SUBSET ShardIds(a)
    PROVE  Within(S, ShardCount(a))
  BY ShardSets, ShardCountCovers, FS_Subset DEF Within

LEMMA WithinPart ==
    ASSUME NEW a \in Analysis, NEW S \in SUBSET ShardIds(a), NEW T \in SUBSET S, NEW n,
           Within(S, n)
    PROVE  Within(T, n)
<1>1. IsFiniteSet(S)
  BY ShardSets, FS_Subset
<1>2. Cardinality(T) <= Cardinality(S) /\ IsFiniteSet(T)
  BY <1>1, FS_Subset
<1>3. Cardinality(S) \in Nat /\ Cardinality(T) \in Nat
  BY <1>1, <1>2, FS_CardinalityType
<1> QED
  BY <1>2, <1>3 DEF Within

(* A shard is counted down; at zero there is none left.                     *)
LEMMA WithinLess ==
    ASSUME NEW a \in Analysis, NEW S \in SUBSET ShardIds(a), NEW s \in S,
           NEW T \in SUBSET (S \ {s}), NEW n, Within(S, n)
    PROVE  Within(T, n - 1) /\ (n - 1 <= 0 => T = {})
<1>1. IsFiniteSet(S) /\ IsFiniteSet(S \ {s})
  BY ShardSets, FS_Subset, FS_RemoveElement
<1>2. Cardinality(S \ {s}) = Cardinality(S) - 1 /\ Cardinality(S) \in Nat
  BY <1>1, FS_RemoveElement, FS_CardinalityType
<1>3. Cardinality(T) <= Cardinality(S \ {s}) /\ IsFiniteSet(T)
  BY <1>1, FS_Subset
<1>4. Cardinality(T) \in Nat /\ (Cardinality(T) = 0 => T = {})
  BY <1>3, FS_CardinalityType, FS_EmptySet
<1> QED
  BY <1>2, <1>3, <1>4 DEF Within

----------------------------------------------------------------------------
(* Steps that leave the fan-in of analysis a alone.                         *)

(* No job of a is added or moved in the queue.                              *)
SameJobs(a) ==
    \A i \in DOMAIN queue' :
       queue'[i].analysis = a => i \in DOMAIN queue /\ queue[i] = queue'[i]

Undropped(a) == \A s \in ShardIds(a) : partials'[a][s] = Nil => partials[a][s] = Nil

(* A worker with a job of a keeps it and stays on its side of the counter,  *)
(* or gives it up.                                                          *)
Stays(v, a) ==
    pc'[v] # "idle" /\ job'[v].analysis = a =>
       /\ pc[v] # "idle" /\ job'[v] = job[v]
       /\ pc'[v] # "failing" => /\ pc[v] # "failing"
                                /\ pc[v] = "fanin" <=> pc'[v] = "fanin"
       /\ pc'[v] \in {"reserved", "merge"} => pc[v] \in {"reserved", "merge"}
       /\ pc'[v] \in {"mapTiming", "complete"} =>
             \/ pc[v] \in {"mapTiming", "complete"}
             \/ partials'[a][job[v].shard] # Nil

LEMMA StillFan ==
    ASSUME WorkerInv, NEW a \in Analysis, OnceInv(a), CountInv(a),
           SameJobs(a), \A v \in Worker : Stays(v, a), Undropped(a),
           pending'[a] = pending[a], reduces'[a] = reduces[a],
           gw'[a] # "ended" => gw[a] # "ended"
    PROVE  OnceInv(a)' /\ CountInv(a)'
<1>1. \A j \in Queued' : j.analysis = a => j \in Queued
  BY DEF Queued, Members, SameJobs
<1>2. ASSUME NEW v \in Busy', job'[v].analysis = a
      PROVE  /\ v \in Busy /\ job'[v] = job[v] /\ job[v] \in Job
             /\ Live(v)' => Live(v)
             /\ pc'[v] \in {"reserved", "merge"} => pc[v] \in {"reserved", "merge"}
             /\ pc'[v] \in {"mapTiming", "complete"} =>
                   \/ pc[v] \in {"mapTiming", "complete"}
                   \/ partials'[a][job[v].shard] # Nil
  BY <1>2 DEF Live, Stays, WorkerInv, Busy
<1>3. /\ \A s : MapJob(a, s).analysis = a
      /\ \A v \in Worker : Live(v)' => v \in Busy'
  BY DEF MapJob, Live, Busy
<1>4. MapsOut(a)' \subseteq MapsOut(a) /\ Missing(a)' \subseteq Missing(a)
  BY <1>1, <1>2, <1>3 DEF MapsOut, Missing, Undropped
<1>5. Closing(a)' \subseteq Closing(a)
  BY DEF Closing, Stays
<1>6. OnceInv(a)'
  <2>1. ASSUME gw'[a] # "ended"
        PROVE  /\ reduces'[a] = 0 /\ \A j \in Queued' : j.analysis # a
               /\ \A w \in Busy' : job'[w].analysis # a
    BY <1>1, <2>1 DEF OnceInv, Stays, Busy
  <2>0. \A i, j : SameTask(i, j) => SameTask(j, i) /\ i.analysis = j.analysis
    BY DEF SameTask
  <2>2. \A i, k \in DOMAIN queue' :
           queue'[i].analysis = a /\ SameTask(queue'[i], queue'[k]) => i = k
    BY <2>0 DEF OnceInv, SameJobs
  <2>3. ASSUME NEW w \in Busy', job'[w].analysis = a
        PROVE  /\ \A j \in Queued' : ~SameTask(j, job'[w])
               /\ \A v \in Busy' : SameTask(job'[v], job'[w]) => v = w
    BY <1>1, <1>2, <2>0, <2>3 DEF OnceInv
  <2> QED
    BY <2>1, <2>2, <2>3 DEF OnceInv
<1>7. ASSUME NEW s \in Failed(a)'
      PROVE  \/ s \in Failed(a) \/ s \in MapsOut(a)
             \/ Closing(a) # {} /\ Closing(a)' = {}
  <2>1. PICK v \in Worker : pc'[v] = "failing" /\ job'[v] = MapJob(a, s)
    BY DEF Failed
  <2>2. v \in Busy /\ job[v] = MapJob(a, s) /\ job[v].analysis = a
    BY <1>2, <1>3, <2>1 DEF Busy
  <2>3. CASE Live(v) \/ pc[v] = "failing"
    BY <2>2, <2>3 DEF MapsOut, Failed
  <2>4. CASE pc[v] = "fanin"
    <3>1. v \in Closing(a) /\ v \notin Closing(a)'
      BY <2>1, <2>2, <2>4 DEF Closing
    <3> QED
      BY <1>5, <3>1 DEF CountInv
  <2> QED
    BY <2>2, <2>3, <2>4 DEF Live, Busy
<1>8. CountInv(a)'
  <2>1. ASSUME MapsOut(a)' # {}
        PROVE  /\ reduces'[a] = 0 /\ Closing(a)' = {}
               /\ Within(MapsOut(a)' \cup Missing(a)' \cup Failed(a)', pending'[a])
    <3> DEFINE S == MapsOut(a) \cup Missing(a) \cup Failed(a)
               T == MapsOut(a)' \cup Missing(a)' \cup Failed(a)'
    <3>1. MapsOut(a) # {} /\ Closing(a) = {}
      BY <1>4, <2>1 DEF CountInv
    <3>2. S \in SUBSET ShardIds(a)
      BY DEF MapsOut, Missing, Failed
    <3>3. T \in SUBSET S
      BY <1>4, <1>7, <3>1
    <3>4. Within(S, pending[a])
      BY <3>1 DEF CountInv
    <3> HIDE DEF S, T
    <3>5. Within(T, pending[a])
      BY <3>2, <3>3, <3>4, WithinPart
    <3> QED
      BY <1>5, <3>1, <3>5 DEF CountInv, T
  <2>2. \A w \in Closing(a)' : /\ reduces'[a] = 0 /\ Missing(a)' = {}
                               /\ \A v \in Closing(a)' : v = w
    BY <1>4, <1>5 DEF CountInv
  <2>3. \A j \in Queued' : j.kind = "reduce" /\ j.analysis = a
           => reduces'[a] = 1 /\ Missing(a)' = {}
    BY <1>1, <1>4 DEF CountInv
  <2>4. ASSUME NEW w \in Busy', job'[w].analysis = a
        PROVE  /\ job'[w].kind = "reduce" => reduces'[a] = 1
               /\ job'[w].kind = "reduce" /\ pc'[w] \in {"reserved", "merge"}
                     => Missing(a)' = {}
               /\ pc'[w] \in {"mapTiming", "complete"}
                     => partials'[a][job'[w].shard] # Nil
    <3>1. job[w].shard \in ShardIds(a)
      BY <1>2, <2>4, JobFields
    <3> QED
      BY <1>2, <1>4, <2>4, <3>1 DEF CountInv, Undropped
  <2>5. Failed(a)' # {} => reduces'[a] = 0 /\ Closing(a)' = {}
    BY <1>5, <1>7 DEF CountInv
  <2> QED
    BY <2>1, <2>2, <2>3, <2>4, <2>5 DEF CountInv
<1> QED
  BY <1>6, <1>8

----------------------------------------------------------------------------
(* Steps that make it.                                                      *)

(* The counter and the map jobs, in one MULTI.                              *)
LEMMA PublishFan ==
    ASSUME TypeInv, NEW a \in Analysis, OnceInv(a), CountInv(a), PublishAnalysis(a)
    PROVE  OnceInv(a)' /\ CountInv(a)'
<1> DEFINE n == Len(queue)
           fan == [i \in 1 .. ShardCount(a) |-> MapJob(a, i - 1)]
<1>1. /\ reduces[a] = 0 /\ \A j \in Queued : j.analysis # a
      /\ \A w \in Busy : job[w].analysis # a
  BY DEF PublishAnalysis, Publish, OnceInv
<1>2. /\ gw'[a] = "ended" /\ pending'[a] = ShardCount(a) /\ reduces' = reduces
      /\ pc' = pc /\ job' = job /\ queue' = queue \o fan
  BY DEF PublishAnalysis, Publish, worker, TypeInv, OtherType, RedisType
<1>3. ShardCount(a) \in Nat \ {0} /\ queue \in Seq(Job) /\ n \in Nat
  BY ShardCountCovers DEF TypeInv, RedisType
<1>4. fan \in Seq(Job) /\ Len(fan) = ShardCount(a)
  BY FanTyped
<1>5. ASSUME NEW i \in DOMAIN queue', queue'[i].analysis = a
      PROVE  i - n \in 1 .. ShardCount(a) /\ queue'[i] = MapJob(a, (i - n) - 1)
  <2>1. i \in 1 .. n + ShardCount(a)
    BY <1>2, <1>3, <1>4
  <2>2. CASE i <= n
    <3>1. queue'[i] = queue[i] /\ i \in DOMAIN queue
      BY <1>2, <1>3, <1>4, <2>1, <2>2
    <3> QED
      BY <1>1, <1>5, <3>1 DEF Queued, Members
  <2>3. CASE ~(i <= n)
    <3>1. i - n \in 1 .. ShardCount(a)
      BY <1>3, <2>1, <2>3
    <3>2. queue'[i] = fan[i - n]
      BY <1>2, <1>3, <1>4, <2>1, <2>3
    <3> QED
      BY <3>1, <3>2
  <2> QED
    BY <2>2, <2>3
<1> HIDE DEF n, fan
<1>6. \A w \in Worker : job'[w].analysis = a => pc'[w] = "idle"
  BY <1>1, <1>2 DEF Busy
<1>7. OnceInv(a)'
  <2>1. ASSUME NEW i \in DOMAIN queue', NEW k \in DOMAIN queue',
               queue'[i].analysis = a, SameTask(queue'[i], queue'[k])
        PROVE  i = k
    <3>1. /\ queue'[i] = MapJob(a, (i - n) - 1) /\ queue'[k].analysis = a
          /\ queue'[k] = MapJob(a, (k - n) - 1)
      BY <1>5, <2>1 DEF SameTask
    <3>2. (i - n) - 1 = (k - n) - 1
      BY <2>1, <3>1 DEF MapJob, SameTask
    <3>3. i - n \in Int /\ k - n \in Int /\ i \in Int /\ k \in Int
      <4>1. DOMAIN queue' = 1 .. Len(queue')  /\ Len(queue') \in Nat
        BY <1>2, <1>3, <1>4
      <4> QED
        BY <1>3, <4>1
    <3> QED
      BY <1>3, <3>2, <3>3
  <2> QED
    BY <1>2, <1>6, <2>1 DEF OnceInv, Busy
<1>8. CountInv(a)'
  <2>1. Closing(a)' = {} /\ Failed(a)' = {}
    BY <1>6 DEF Closing, Failed, MapJob
  <2>2. MapsOut(a)' \cup Missing(a)' \cup Failed(a)' \in SUBSET ShardIds(a)
    BY DEF MapsOut, Missing, Failed
  <2>3. Within(MapsOut(a)' \cup Missing(a)' \cup Failed(a)', ShardCount(a))
    BY <2>2, WithinAll
  <2>4. \A j \in Queued' : j.analysis = a => j.kind = "map"
    BY <1>5 DEF Queued, Members, MapJob
  <2> QED
    BY <1>1, <1>2, <1>6, <2>1, <2>3, <2>4 DEF CountInv, Busy
<1> QED
  BY <1>7, <1>8

(* BRPOP: the job moves to the worker.                                      *)
LEMMA ReserveFan ==
    ASSUME TypeInv, NEW a \in Analysis, OnceInv(a), CountInv(a),
           NEW w \in Worker, Reserve(w)
    PROVE  OnceInv(a)' /\ CountInv(a)'
<1>1. queue \in Seq(Job) /\ queue # << >>
  BY DEF TypeInv, RedisType, Reserve
<1>2. /\ Head(queue) \in Job /\ Head(queue) \in Queued
      /\ Queued' \subseteq Queued
  BY <1>1, PopMembers DEF Reserve, Queued
<1>3. /\ pc[w] = "idle" /\ pc'[w] = "reserved" /\ job'[w] = Head(queue)
      /\ \A v \in Worker : v # w => pc'[v] = pc[v] /\ job'[v] = job[v]
      /\ pending' = pending /\ partials' = partials /\ gw' = gw /\ reduces' = reduces
  BY DEF Reserve, Move, TypeInv, ProcType
<1>4. \A i \in DOMAIN queue' : /\ i + 1 \in DOMAIN queue /\ i + 1 # 1 /\ i \in Int
                               /\ queue'[i] = queue[i + 1]
  BY <1>1 DEF Reserve
<1>5. 1 \in DOMAIN queue /\ queue[1] = Head(queue)
  BY <1>1
<1>6. Head(queue).analysis = a => \A j \in Queued' : ~SameTask(j, Head(queue))
  <2> SUFFICES ASSUME Head(queue).analysis = a, NEW i \in DOMAIN queue',
                      SameTask(queue'[i], Head(queue))
               PROVE  FALSE
    BY DEF Queued, Members
  <2>1. queue[i + 1].analysis = a
    BY <1>4 DEF SameTask
  <2> QED
    BY <1>4, <1>5, <2>1 DEF OnceInv
<1>7. /\ \A v \in Worker : Live(v)' => v = w \/ (Live(v) /\ job'[v] = job[v])
      /\ \A v \in Busy' : v = w \/ (v \in Busy /\ job'[v] = job[v])
      /\ Busy' \subseteq Worker
  BY <1>3 DEF Live, Busy
<1>8. OnceInv(a)'
  <2>1. \A i, k \in DOMAIN queue' :
           queue'[i].analysis = a /\ SameTask(queue'[i], queue'[k]) => i = k
    <3> SUFFICES ASSUME NEW i \in DOMAIN queue', NEW k \in DOMAIN queue',
                        queue'[i].analysis = a, SameTask(queue'[i], queue'[k])
                 PROVE  i = k
      OBVIOUS
    <3>1. i + 1 = k + 1
      BY <1>4 DEF OnceInv
    <3> QED
      BY <1>4, <3>1
  <2>2. ASSUME NEW v \in Busy', job'[v].analysis = a
        PROVE  /\ \A j \in Queued' : ~SameTask(j, job'[v])
               /\ \A u \in Busy' : SameTask(job'[u], job'[v]) => u = v
    <3>1. \A i, j : SameTask(i, j) => SameTask(j, i) /\ i.analysis = j.analysis
      BY DEF SameTask
    <3> QED
      BY <1>2, <1>3, <1>6, <1>7, <2>2, <3>1 DEF OnceInv
  <2>3. ASSUME gw'[a] # "ended"
        PROVE  /\ reduces'[a] = 0 /\ \A j \in Queued' : j.analysis # a
               /\ \A v \in Busy' : job'[v].analysis # a
    BY <1>2, <1>3, <2>3 DEF OnceInv, Busy
  <2> QED
    BY <2>1, <2>2, <2>3 DEF OnceInv
<1>9. CountInv(a)'
  <2>1. MapsOut(a)' \subseteq MapsOut(a)
    BY <1>2, <1>3, <1>7 DEF MapsOut
  <2>2. /\ Missing(a)' = Missing(a) /\ Closing(a)' = Closing(a)
        /\ Failed(a)' = Failed(a)
    BY <1>3 DEF Missing, Closing, Failed
  <2>3. ASSUME MapsOut(a)' # {}
        PROVE  /\ reduces'[a] = 0 /\ Closing(a)' = {}
               /\ Within(MapsOut(a)' \cup Missing(a)' \cup Failed(a)', pending'[a])
    <3>1. MapsOut(a) \cup Missing(a) \cup Failed(a) \in SUBSET ShardIds(a)
      BY DEF MapsOut, Missing, Failed
    <3>2. MapsOut(a)' \cup Missing(a) \cup Failed(a)
             \in SUBSET (MapsOut(a) \cup Missing(a) \cup Failed(a))
      BY <2>1
    <3>3. Within(MapsOut(a)' \cup Missing(a) \cup Failed(a), pending[a])
      BY <2>1, <2>3, <3>1, <3>2, WithinPart DEF CountInv
    <3> QED
      BY <1>3, <2>1, <2>2, <2>3, <3>3 DEF CountInv
  <2>4. \A v \in Closing(a)' : /\ reduces'[a] = 0 /\ Missing(a)' = {}
                               /\ \A u \in Closing(a)' : u = v
    BY <1>3, <2>2 DEF CountInv
  <2>5. \A j \in Queued' : j.kind = "reduce" /\ j.analysis = a
           => reduces'[a] = 1 /\ Missing(a)' = {}
    BY <1>2, <1>3, <2>2 DEF CountInv
  <2>6. ASSUME NEW v \in Busy', job'[v].analysis = a
        PROVE  /\ job'[v].kind = "reduce" => reduces'[a] = 1
               /\ job'[v].kind = "reduce" /\ pc'[v] \in {"reserved", "merge"}
                     => Missing(a)' = {}
               /\ pc'[v] \in {"mapTiming", "complete"}
                     => partials'[a][job'[v].shard] # Nil
    BY <1>2, <1>3, <1>7, <2>2, <2>6 DEF CountInv
  <2>7. reduces'[a] <= 1
    BY <1>3 DEF CountInv
  <2> QED
    BY <1>3, <2>2, <2>3, <2>4, <2>5, <2>6, <2>7 DEF CountInv
<1> QED
  BY <1>8, <1>9

(* A job of the fan-out is the map job of its shard.                        *)
LEMMA OriginalMap ==
    ASSUME NEW j \in Job, Original(j), j.kind = "map"
    PROVE  j = MapJob(j.analysis, j.shard) /\ j.shard \in ShardIds(j.analysis)
<1>1. j \in JobRecord /\ j.shard \in ShardIds(j.analysis)
  BY DEF Job
<1>2. j = [kind |-> j.kind, analysis |-> j.analysis, shard |-> j.shard,
           count |-> j.count, offset |-> j.offset, limit |-> j.limit]
  BY <1>1 DEF JobRecord
<1> QED
  BY <1>1, <1>2 DEF Original, MapJob

(* complete_shard: a shard is counted down, or the counter is closed.       *)
LEMMA CompleteFan ==
    ASSUME TypeInv, OriginalInv, KindInv, NEW w \in Worker, CompleteShard(w),
           NEW a \in Analysis, job[w].analysis = a, reaps[a] = 0,
           OnceInv(a), CountInv(a)
    PROVE  OnceInv(a)' /\ CountInv(a)'
<1>0. a = job[w].analysis
  OBVIOUS
<1>1. /\ pc[w] = "complete" /\ pc'[w] \in {"fanin", "idle"}
      /\ \A v \in Worker : v # w => pc'[v] = pc[v] /\ job'[v] = job[v]
      /\ pc'[w] = "fanin" => job'[w] = job[w]
      /\ UNCHANGED <<queue, partials, gw, reduces>>
  BY DEF CompleteShard, CompleteShardAt, Release, TypeInv, ProcType
<1>2. Live(w) /\ w \in Busy /\ job[w] \in Job /\ job[w].kind = "map"
  BY <1>1 DEF Live, Busy, TypeInv, WorkerInv, KindInv, MapPoints
<1>3. PICK s \in ShardIds(a) : job[w] = MapJob(a, s) /\ job[w].shard = s
  BY <1>0, <1>2, OriginalMap DEF OriginalInv
<1>4. s \in MapsOut(a) /\ partials[a][s] # Nil
  BY <1>0, <1>1, <1>2, <1>3 DEF MapsOut, CountInv
<1>5. /\ reduces[a] = 0 /\ Closing(a) = {}
      /\ Within(MapsOut(a) \cup Missing(a) \cup Failed(a), pending[a])
  BY <1>0, <1>4 DEF CountInv
<1>6. /\ \A v \in Worker : Live(v)' => v # w /\ Live(v) /\ job'[v] = job[v]
      /\ \A v \in Busy' : v \in Busy /\ job'[v] = job[v]
      /\ \A v \in Worker : Live(v) => v \in Busy
  BY <1>1 DEF Live, Busy
<1>7. Queued' = Queued
  BY <1>1 DEF Queued, Members
<1>8. s \notin MapsOut(a)' /\ MapsOut(a)' \subseteq MapsOut(a)
  <2>1. \A t : MapJob(a, t).analysis = a
    BY DEF MapJob
  <2> QED
    BY <1>0, <1>2, <1>3, <1>6, <1>7, <2>1 DEF MapsOut, OnceInv, SameTask
<1>9. /\ Missing(a)' = Missing(a) /\ s \notin Missing(a)
      /\ Failed(a)' = Failed(a) /\ s \notin Failed(a)
  <2>1. Missing(a)' = Missing(a) /\ s \notin Missing(a) /\ Failed(a)' = Failed(a)
    BY <1>1, <1>4 DEF Missing, Failed
  <2>2. ASSUME NEW v \in Worker, pc[v] = "failing", job[v] = MapJob(a, s) PROVE FALSE
    <3>1. v \in Busy /\ SameTask(job[v], job[w])
      BY <1>3, <2>2 DEF Busy, SameTask
    <3> QED
      BY <1>0, <1>1, <1>2, <2>2, <3>1 DEF OnceInv
  <2> QED
    BY <2>1, <2>2 DEF Failed
<1>10. /\ Within(MapsOut(a)' \cup Missing(a)' \cup Failed(a)', pending[a] - 1)
       /\ pending[a] - 1 <= 0 => MapsOut(a)' \cup Missing(a)' \cup Failed(a)' = {}
  <2> DEFINE S1 == MapsOut(a) \cup Missing(a) \cup Failed(a)
             T1 == MapsOut(a)' \cup Missing(a)' \cup Failed(a)'
  <2>1. S1 \in SUBSET ShardIds(a)
    BY DEF MapsOut, Missing, Failed
  <2>2. s \in S1
    BY <1>4
  <2>3. T1 \in SUBSET (S1 \ {s})
    BY <1>8, <1>9
  <2>5. Within(S1, pending[a])
    BY <1>5
  <2> HIDE DEF S1, T1
  <2>4. \A S \in SUBSET ShardIds(a) : \A T \in SUBSET (S \ {s}) : \A n :
           s \in S /\ Within(S, n)
              => Within(T, n - 1) /\ (n - 1 <= 0 => T = {})
    BY WithinLess
  <2>6. Within(T1, pending[a] - 1) /\ (pending[a] - 1 <= 0 => T1 = {})
    BY <2>1, <2>2, <2>3, <2>4, <2>5
  <2> QED
    BY <2>6 DEF T1
<1>11. pending'[a] = pending[a] - 1
  <2>1. pending[a] \in Int /\ pending[a] # Nil
    BY <1>5, NilAssumption DEF Within
  <2> QED
    BY <1>0, <2>1 DEF CompleteShard, CompleteShardAt, Decr, TypeInv, RedisType
<1>12. pc'[w] = "fanin" => MapsOut(a)' = {} /\ Missing(a)' = {} /\ Failed(a)' = {}
  <2>1. pc'[w] = "fanin" => pending[a] - 1 <= 0
    BY <1>0, <1>1, <1>5, <1>11, NilAssumption
       DEF CompleteShard, CompleteShardAt, Decr, Release, Within, TypeInv, ProcType
  <2> QED
    BY <1>10, <2>1
<1>13. \A v \in Closing(a)' : v = w /\ pc'[w] = "fanin"
  BY <1>1, <1>5 DEF Closing
<1>14. OnceInv(a)'
  <2>1. gw'[a] # "ended" => FALSE
    BY <1>0, <1>1, <1>2 DEF OnceInv
  <2>2. ASSUME NEW v \in Busy', job'[v].analysis = a
        PROVE  /\ \A j \in Queued' : ~SameTask(j, job'[v])
               /\ \A u \in Busy' : SameTask(job'[u], job'[v]) => u = v
    BY <1>0, <1>6, <1>7, <2>2 DEF OnceInv
  <2> QED
    BY <1>0, <1>1, <2>1, <2>2 DEF OnceInv
<1>15. CountInv(a)'
  <2>1. MapsOut(a)' # {} \/ Failed(a)' # {} => Closing(a)' = {}
    BY <1>12, <1>13
  <2>2. \A v \in Closing(a)' : /\ reduces'[a] = 0 /\ Missing(a)' = {}
                               /\ \A u \in Closing(a)' : u = v
    BY <1>1, <1>5, <1>12, <1>13
  <2>3. \A j \in Queued' : j.kind = "reduce" /\ j.analysis = a
           => reduces'[a] = 1 /\ Missing(a)' = {}
    BY <1>0, <1>1, <1>7, <1>9 DEF CountInv
  <2>4. ASSUME NEW v \in Busy', job'[v].analysis = a
        PROVE  /\ job'[v].kind = "reduce" => reduces'[a] = 1
               /\ job'[v].kind = "reduce" /\ pc'[v] \in {"reserved", "merge"}
                     => Missing(a)' = {}
               /\ pc'[v] \in {"mapTiming", "complete"}
                     => partials'[a][job'[v].shard] # Nil
    <3>1. CASE v = w
      BY <1>0, <1>1, <1>2, <1>6, <2>4, <3>1
    <3>2. CASE v # w
      BY <1>0, <1>1, <1>6, <1>9, <2>4, <3>2 DEF CountInv, Busy
    <3> QED
      BY <3>1, <3>2
  <2> QED
    BY <1>0, <1>1, <1>5, <1>10, <1>11, <2>1, <2>2, <2>3, <2>4 DEF CountInv
<1> QED
  BY <1>0, <1>14, <1>15

(* The one worker that closed the counter enqueues the one reduce.          *)
LEMMA EnqueueFan ==
    ASSUME TypeInv, NEW w \in Worker, EnqueueReduce(w),
           NEW a \in Analysis, job[w].analysis = a,
           OnceInv(a), CountInv(a)
    PROVE  OnceInv(a)' /\ CountInv(a)'
<1>0. a = job[w].analysis
  OBVIOUS
<1> DEFINE r == ReduceJob(job[w])
<1>1. /\ pc[w] = "fanin" /\ pc'[w] = "idle"
      /\ \A v \in Worker : v # w => pc'[v] = pc[v] /\ job'[v] = job[v]
      /\ UNCHANGED <<pending, partials, gw>> /\ reduces'[a] = reduces[a] + 1
      /\ queue' = Append(queue, r)
  BY <1>0 DEF EnqueueReduce, Release, TypeInv, ProcType, OtherType
<1>2. w \in Busy /\ job[w] \in Job /\ w \in Closing(a)
  BY <1>0, <1>1 DEF Busy, TypeInv, WorkerInv, Closing
<1>3. r \in Job /\ r.analysis = a /\ r.kind = "reduce"
  BY <1>0, <1>2, ReduceTyped DEF ReduceJob
<1>4. reduces[a] = 0 /\ Missing(a) = {} /\ \A v \in Closing(a) : v = w
  BY <1>0, <1>2 DEF CountInv
<1>5. MapsOut(a) = {} /\ Failed(a) = {}
  BY <1>0, <1>2 DEF CountInv
<1>6. queue \in Seq(Job) /\ Queued' = Queued \cup {r}
  BY <1>1, <1>3, PushMembers DEF TypeInv, RedisType, Queued
<1>7. /\ \A v \in Worker : Live(v)' => v # w /\ Live(v) /\ job'[v] = job[v]
      /\ \A v \in Busy' : v # w /\ v \in Busy /\ job'[v] = job[v] /\ pc'[v] = pc[v]
      /\ Busy \subseteq Worker
  BY <1>1 DEF Live, Busy
<1>8. /\ \A j \in Queued : j.kind = "reduce" => j.analysis # a
      /\ \A v \in Busy : job[v].analysis = a => job[v].kind # "reduce"
  BY <1>0, <1>3, <1>4 DEF CountInv
<1>9. Missing(a)' = {}
  BY <1>1, <1>4 DEF Missing
<1>10. MapsOut(a)' = {}
  <2>1. \A s : MapJob(a, s) # r
    BY <1>3 DEF MapJob
  <2> QED
    BY <1>5, <1>6, <1>7, <2>1 DEF MapsOut
<1>11. Closing(a)' = {} /\ Failed(a)' = {}
  BY <1>1, <1>4, <1>5 DEF Closing, Failed
<1>12. OnceInv(a)'
  <2>1. gw'[a] # "ended" => FALSE
    BY <1>0, <1>1, <1>2 DEF OnceInv
  <2>2. ASSUME NEW v \in Busy', job'[v].analysis = a
        PROVE  /\ \A j \in Queued' : ~SameTask(j, job'[v])
               /\ \A u \in Busy' : SameTask(job'[u], job'[v]) => u = v
    <3>1. ~SameTask(r, job'[v])
      BY <1>3, <1>7, <1>8, <2>2 DEF SameTask
    <3> QED
      BY <1>0, <1>6, <1>7, <2>2, <3>1 DEF OnceInv
  <2>3. ASSUME NEW i \in DOMAIN queue', NEW k \in DOMAIN queue',
               queue'[i].analysis = a, SameTask(queue'[i], queue'[k])
        PROVE  i = k
    <3>1. \A n \in DOMAIN queue' : \/ n = Len(queue) + 1 /\ queue'[n] = r
                                   \/ n \in DOMAIN queue /\ queue'[n] = queue[n]
      BY <1>1, <1>3, <1>6
    <3>2. \A n \in DOMAIN queue : ~SameTask(queue[n], r) /\ ~SameTask(r, queue[n])
      BY <1>3, <1>8 DEF Queued, Members, SameTask
    <3> QED
      BY <1>0, <2>3, <3>1, <3>2 DEF OnceInv
  <2> QED
    BY <2>1, <2>2, <2>3 DEF OnceInv
<1>13. CountInv(a)'
  <2>1. reduces'[a] = 1
    BY <1>1, <1>4
  <2>2. ASSUME NEW v \in Busy', job'[v].analysis = a
        PROVE  /\ job'[v].kind = "reduce" => reduces'[a] = 1
               /\ job'[v].kind = "reduce" /\ pc'[v] \in {"reserved", "merge"}
                     => Missing(a)' = {}
               /\ pc'[v] \in {"mapTiming", "complete"}
                     => partials'[a][job'[v].shard] # Nil
    BY <1>0, <1>1, <1>7, <1>9, <2>1, <2>2 DEF CountInv
  <2> QED
    BY <1>9, <1>10, <1>11, <2>1, <2>2 DEF CountInv
<1> QED
  BY <1>0, <1>12, <1>13

(* drop_partials: the reduce has read them, and nothing is left to map.     *)
LEMMA DropFan ==
    ASSUME TypeInv, OriginalInv, KindInv, NEW w \in Worker, DropPartials(w),
           NEW a \in Analysis, job[w].analysis = a, reaps[a] = 0,
           OnceInv(a), CountInv(a)
    PROVE  OnceInv(a)' /\ CountInv(a)'
<1>0. a = job[w].analysis
  OBVIOUS
<1>1. /\ pc[w] = "drop" /\ pc'[w] = "totalTiming"
      /\ \A v \in Worker : v # w => pc'[v] = pc[v]
      /\ UNCHANGED <<queue, job, gw, reduces>>
  BY DEF DropPartials, Move, TypeInv, ProcType
<1>2. job[w].kind = "reduce" /\ w \in Busy
  BY <1>1 DEF KindInv, AfterFinish, Busy
<1>3. reduces[a] = 1
  BY <1>0, <1>2 DEF CountInv
<1>4. MapsOut(a) = {} /\ Closing(a) = {} /\ Failed(a) = {}
  BY <1>0, <1>3 DEF CountInv
<1>5. Queued' = Queued
  BY <1>1 DEF Queued, Members
<1>6. /\ \A v \in Worker : (Live(v)' <=> Live(v)) /\ job'[v] = job[v]
      /\ Busy' = Busy /\ Busy \subseteq Worker
  BY <1>1 DEF Live, Busy
<1>7. MapsOut(a)' = {} /\ Closing(a)' = {} /\ Failed(a)' = {}
  BY <1>1, <1>4, <1>5, <1>6 DEF MapsOut, Closing, Failed
<1>8. OnceInv(a)'
  <2>1. gw'[a] # "ended" => FALSE
    BY <1>0, <1>1, <1>2 DEF OnceInv
  <2> QED
    BY <1>0, <1>1, <1>5, <1>6, <2>1 DEF OnceInv
<1>9. ASSUME NEW v \in Busy, job[v].analysis = a, v # w
      PROVE  job[v].kind # "reduce" /\ pc[v] \notin {"mapTiming", "complete"}
  <2>1. ~SameTask(job[v], job[w])
    BY <1>0, <1>2, <1>9 DEF OnceInv
  <2>2. job[v].kind # "reduce"
    BY <1>0, <1>2, <1>9, <2>1 DEF SameTask
  <2>3. pc[v] \notin {"mapTiming", "complete"}
    <3> SUFFICES ASSUME pc[v] \in {"mapTiming", "complete"} PROVE FALSE
      OBVIOUS
    <3>1. Live(v) /\ v \in Worker /\ job[v] \in Job /\ job[v].kind = "map"
      BY DEF Live, Busy, TypeInv, WorkerInv, KindInv, MapPoints
    <3>2. job[v] = MapJob(a, job[v].shard) /\ job[v].shard \in ShardIds(a)
      BY <1>0, <1>9, <3>1, OriginalMap DEF OriginalInv
    <3> QED
      BY <1>4, <3>1, <3>2 DEF MapsOut
  <2> QED
    BY <2>2, <2>3
<1>10. \A j \in Queued : j.analysis = a => j.kind # "reduce"
  BY <1>0, <1>2 DEF OnceInv, SameTask
<1>11. CountInv(a)'
  <2>1. ASSUME NEW v \in Busy', job'[v].analysis = a
        PROVE  /\ job'[v].kind = "reduce" => reduces'[a] = 1
               /\ job'[v].kind = "reduce" /\ pc'[v] \in {"reserved", "merge"}
                     => Missing(a)' = {}
               /\ pc'[v] \in {"mapTiming", "complete"}
                     => partials'[a][job'[v].shard] # Nil
    BY <1>1, <1>3, <1>6, <1>9, <2>1
  <2> QED
    BY <1>1, <1>3, <1>5, <1>7, <1>10, <2>1 DEF CountInv
<1> QED
  BY <1>0, <1>8, <1>11

----------------------------------------------------------------------------
(* Steps that leave the fan-in of analysis a alone: which they are.         *)

(* Where a worker's step leads that does not end its job.                   *)
LEMMA PointFlow ==
    ASSUME ProcType, NEW w \in Worker, OwnSteps(w), pc'[w] # "idle"
    PROVE  /\ pc'[w] \in MapPoints => pc[w] \in MapPoints \/ Claim(w)
           /\ pc'[w] \in ReducePoints \cup AfterFinish
                 => pc[w] \in ReducePoints \cup AfterFinish \/ Claim(w)
           /\ pc'[w] # "failing" => /\ pc[w] # "failing" /\ pc[w] # "fanin"
                                    /\ pc'[w] = "fanin" => CompleteShard(w)
           /\ pc'[w] \in {"reserved", "merge"} => Reserve(w) \/ pc[w] = "reserved"
           /\ pc'[w] \in {"mapTiming", "complete"}
                 => pc[w] = "mapTiming" \/ PutPartial(w)
<1> USE DEF ProcType, MapPoints, ReducePoints, AfterFinish
<1>1. CASE Reserve(w)
  BY <1>1 DEF Reserve, Move
<1>2. CASE Claim(w)
  BY <1>2 DEF Claim, ClaimFrom
<1>3. CASE Skip(w) \/ Fail(w) \/ Crash(w) \/ EnqueueReduce(w)
  BY <1>3 DEF Skip, Fail, Crash, EnqueueReduce, Release
<1>4. CASE LoadShard(w)
  BY <1>4 DEF LoadShard, Move
<1>5. CASE PutPartial(w)
  BY <1>5 DEF PutPartial, Move
<1>6. CASE CompleteShard(w)
  BY <1>6 DEF CompleteShard, CompleteShardAt, Release
<1>7. CASE GetPartials(w)
  BY <1>7 DEF GetPartials, Merge, Move
<1>8. CASE RecordMapTiming(w) \/ Score(w) \/ SaveAnomalies(w)
  BY <1>8 DEF RecordMapTiming, Score, SaveAnomalies, RecordTiming, Move
<1>9. CASE CommitAnomalies(w) \/ CommitNothing(w)
  BY <1>9 DEF CommitAnomalies, CommitReplacing, CommitNothing, Move
<1>10. CASE Finish(w) \/ RecordPersistTiming(w) \/ SkipEmbedding(w)
  BY <1>10 DEF Finish, RecordPersistTiming, SkipEmbedding, RecordTiming, Move
<1>11. CASE EmbedFindings(w) \/ SaveEmbeddings(w) \/ RecordEmbedTiming(w)
  BY <1>11 DEF EmbedFindings, SaveEmbeddings, RecordEmbedTiming, RecordTiming, Move
<1>12. CASE DropPartials(w)
  BY <1>12 DEF DropPartials, Move
<1>13. CASE RecordTotalTiming(w)
  BY <1>13 DEF RecordTotalTiming, Release
<1>14. CASE Raise(w)
  BY <1>14 DEF Raise
<1> QED
  BY <1>1, <1>2, <1>3, <1>4, <1>5, <1>6, <1>7, <1>8, <1>9, <1>10, <1>11, <1>12,
     <1>13, <1>14 DEF OwnSteps, WorkerStep, MapStep, ReduceStep

(* The kind of a job decides its side. *)
LEMMA KindStep ==
    TypeInv /\ KindInv /\ [Next]_vars => KindInv'
<1> SUFFICES ASSUME TypeInv, KindInv, [Next]_vars, NEW v \in Worker
             PROVE  /\ pc'[v] \in MapPoints => job'[v].kind = "map"
                    /\ pc'[v] \in ReducePoints \cup AfterFinish
                          => job'[v].kind = "reduce"
  BY DEF KindInv
<1>1. CASE pc'[v] = pc[v] /\ job'[v] = job[v]
  BY <1>1 DEF KindInv
<1>2. CASE OwnSteps(v)
  <2>1. CASE Claim(v)
    <3>1. pc[v] = "reserved" /\ job' = job
          /\ pc'[v] = IF job[v].kind = "map" THEN "load" ELSE "merge"
      BY <2>1 DEF Claim, ClaimFrom, TypeInv, ProcType
    <3>2. job[v].kind \in {"map", "reduce"}
      BY <3>1, BusyJob, JobFields DEF TypeInv
    <3> QED
      BY <3>1, <3>2 DEF MapPoints, ReducePoints, AfterFinish
  <2>2. CASE Reserve(v)
    BY <2>2 DEF Reserve, Move, TypeInv, ProcType, MapPoints, ReducePoints, AfterFinish
  <2>3. CASE ~Claim(v) /\ ~Reserve(v) /\ pc'[v] # "idle"
    BY <1>2, <2>3, OwnStep, PointFlow DEF TypeInv, KindInv
  <2>4. CASE pc'[v] = "idle"
    BY <2>4 DEF MapPoints, ReducePoints, AfterFinish
  <2> QED
    BY <2>1, <2>2, <2>3, <2>4
<1>3. ASSUME NEW w \in Worker, OwnSteps(w), v # w
      PROVE  pc'[v] = pc[v] /\ job'[v] = job[v]
  BY <1>3, OwnStep DEF TypeInv
<1> QED
  BY <1>1, <1>2, <1>3, WorkersAlone DEF worker

(* The steps of the fan-in of a. *)
FanSteps(a) ==
    \/ PublishAnalysis(a)
    \/ \E w \in Worker : \/ Reserve(w)
                         \/ /\ job[w].analysis = a
                            /\ CompleteShard(w) \/ EnqueueReduce(w) \/ DropPartials(w)

(* What a map worker stores is a set of rows, not an absent key.            *)
LEMMA PutSome ==
    ASSUME TypeInv, NEW w \in Worker, PutPartial(w)
    PROVE  /\ job[w] \in Job /\ held[w][1] # Nil
           /\ partials'[job[w].analysis][job[w].shard] = held[w][1]
           /\ partials' = [partials EXCEPT ![job[w].analysis][job[w].shard] = held[w][1]]
<1>1. /\ pc[w] = "put" /\ job[w] \in Job
      /\ partials' = [partials EXCEPT ![job[w].analysis][job[w].shard] = held[w][1]]
  BY BusyJob DEF PutPartial, Move, TypeInv
<1>2. held[w] \in Seq(SUBSET Rows(job[w].analysis)) /\ Len(held[w]) = 1
  BY <1>1 DEF TypeInv, WorkerInv
<1>3. held[w][1] \in SUBSET Rows(job[w].analysis)
  <2>1. \A S : \A q \in Seq(S) : Len(q) = 1 => q[1] \in S
    OBVIOUS
  <2> QED
    BY <1>2, <2>1
<1> QED
  BY <1>1, <1>3, JobFields, NilAssumption DEF TypeInv, RedisType

(* Any other step leaves its workers where they are. *)
LEMMA OthersStay ==
    ASSUME TypeInv, [Next]_vars, NEW a \in Analysis, ~FanSteps(a), NEW v \in Worker
    PROVE  Stays(v, a)
<1>1. CASE pc'[v] = pc[v] /\ job'[v] = job[v]
  BY <1>1 DEF Stays
<1>2. CASE OwnSteps(v)
  <2> SUFFICES ASSUME pc'[v] # "idle", job'[v].analysis = a
               PROVE  Stays(v, a)
    BY DEF Stays
  <2>1. ~Reserve(v)
    BY DEF FanSteps
  <2>2. pc[v] # "idle" /\ job'[v] = job[v]
    BY <1>2, <2>1, OwnStep DEF TypeInv
  <2>3. ~CompleteShard(v)
    BY <2>2 DEF FanSteps
  <2>4. PutPartial(v) => partials'[a][job[v].shard] # Nil
    BY <2>2, PutSome
  <2> QED
    BY <1>2, <2>1, <2>2, <2>3, <2>4, PointFlow DEF Stays, TypeInv
<1>3. ASSUME NEW w \in Worker, OwnSteps(w), v # w
      PROVE  pc'[v] = pc[v] /\ job'[v] = job[v]
  BY <1>3, OwnStep DEF TypeInv
<1> QED
  BY <1>1, <1>2, <1>3, WorkersAlone DEF worker

(* The counter is set, decremented, dropped and expires. *)
LEMMA PendingWriters ==
    ASSUME [Next]_vars
    PROVE  \/ UNCHANGED pending
           \/ \E a \in Analysis : PublishAnalysis(a) \/ ExpirePending(a)
           \/ \E w \in Worker : CompleteShard(w) \/ DropPartials(w)
  BY DEF Next, WorkerStep, MapStep, ReduceStep, ReaperStep, LaunchStep, Environment,
     vars, redis, CreateAnalysis, PublishFails, DeleteUpload, FailAnalysis,
     FailAnalysisFails, GatewayDies, HeartbeatAges, ExpirePartial, RequeueStale,
     RequeueReturning, EnqueueRequeued, ReaperFails, Reserve, Claim, ClaimFrom, Skip,
     LoadShard, PutPartial, RecordMapTiming, RecordTiming, EnqueueReduce, GetPartials,
     Merge, Score, SaveAnomalies, CommitAnomalies, CommitReplacing, CommitNothing,
     Finish, RecordPersistTiming, SkipEmbedding, EmbedFindings, SaveEmbeddings,
     RecordEmbedTiming, RecordTotalTiming, Fail, Raise, Crash

(* Only the fan-in counts as a reduce, *)
LEMMA ReduceWriters ==
    ASSUME [Next]_vars
    PROVE  UNCHANGED reduces \/ \E w \in Worker : EnqueueReduce(w)
  BY DEF Next, WorkerStep, MapStep, ReduceStep, ReaperStep, LaunchStep, Environment,
     vars, CreateAnalysis, PublishAnalysis, Publish, PublishFails, DeleteUpload,
     FailAnalysis, FailAnalysisFails, GatewayDies, HeartbeatAges, ExpirePending,
     ExpirePartial, RequeueStale, RequeueReturning, EnqueueRequeued, ReaperFails,
     Reserve, Claim, ClaimFrom, Skip, LoadShard, PutPartial, RecordMapTiming,
     RecordTiming, CompleteShard, CompleteShardAt, GetPartials, Merge, Score,
     SaveAnomalies, CommitAnomalies, CommitReplacing, CommitNothing, Finish,
     RecordPersistTiming, SkipEmbedding, EmbedFindings, SaveEmbeddings,
     RecordEmbedTiming, DropPartials, RecordTotalTiming, Fail, Raise, Crash

(* ... and only an expiry as an expiry. *)
LEMMA ExpiryWriters ==
    ASSUME [Next]_vars
    PROVE  \/ UNCHANGED expired
           \/ \E a \in Analysis : \/ ExpirePending(a)
                                  \/ \E s \in ShardIds(a) : ExpirePartial(a, s)
  BY ZenonT(30) DEF Next, WorkerStep, MapStep, ReduceStep, ReaperStep, LaunchStep,
     Environment,
     vars, budget, CreateAnalysis, PublishAnalysis, Publish, PublishFails,
     DeleteUpload, FailAnalysis, FailAnalysisFails, GatewayDies, HeartbeatAges,
     RequeueStale, RequeueReturning, EnqueueRequeued, ReaperFails, Reserve, Claim,
     ClaimFrom, Skip, LoadShard, PutPartial, RecordMapTiming, RecordTiming,
     CompleteShard, CompleteShardAt, EnqueueReduce, GetPartials, Merge, Score,
     SaveAnomalies, CommitAnomalies, CommitReplacing, CommitNothing, Finish,
     RecordPersistTiming, SkipEmbedding, EmbedFindings, SaveEmbeddings,
     RecordEmbedTiming, DropPartials, RecordTotalTiming, Fail, Raise, Crash

(* An analysis none of whose keys has expired had none before. *)
LEMMA ExpiredGrows ==
    ASSUME TypeInv, [Next]_vars, NEW a \in Analysis, expired'[a] = 0
    PROVE  /\ expired[a] = 0 /\ ~ExpirePending(a)
           /\ \A s \in ShardIds(a) : ~ExpirePartial(a, s)
<1>1. ASSUME NEW b \in Analysis,
             ExpirePending(b) \/ \E s \in ShardIds(b) : ExpirePartial(b, s)
      PROVE  a # b /\ expired[a] = 0
  BY <1>1, ConstantsAssumption DEF ExpirePending, ExpirePartial, TypeInv, BudgetType
<1> QED
  BY <1>1, ExpiryWriters

(* The steps that add or move a job of a in the queue; *)
QueueSteps(a) ==
    \/ PublishAnalysis(a)
    \/ \E w \in Worker : \/ Reserve(w) \/ EnqueueRequeued(w, a)
                         \/ job[w].analysis = a /\ EnqueueReduce(w)

(* ... any other leaves them where they are. *)
LEMMA OthersQueue ==
    ASSUME TypeInv, [Next]_vars, NEW a \in Analysis, ~QueueSteps(a)
    PROVE  SameJobs(a)
<1>1. queue \in Seq(Job) /\ DOMAIN queue = 1 .. Len(queue) /\ Len(queue) \in Nat
  BY DEF TypeInv, RedisType
<1>2. ASSUME NEW b \in Analysis, PublishAnalysis(b) PROVE SameJobs(a)
  <2> DEFINE fan == [i \in 1 .. ShardCount(b) |-> MapJob(b, i - 1)]
  <2>1. b # a /\ queue' = queue \o fan
    BY <1>2 DEF QueueSteps, PublishAnalysis, Publish
  <2>2. fan \in Seq(Job) /\ Len(fan) \in Nat /\ DOMAIN fan = 1 .. Len(fan)
    BY FanTyped, ShardCountCovers
  <2>3. \A i \in DOMAIN fan : fan[i].analysis = b
    BY DEF MapJob
  <2> HIDE DEF fan
  <2>4. ASSUME NEW i \in DOMAIN queue'
        PROVE  \/ i \in DOMAIN queue /\ queue'[i] = queue[i]
               \/ queue'[i].analysis = b
    <3>1. i \in 1 .. Len(queue) + Len(fan)
      BY <1>1, <2>1, <2>2
    <3>2. CASE i <= Len(queue)
      BY <1>1, <2>1, <2>2, <3>1, <3>2
    <3>3. CASE ~(i <= Len(queue))
      <4>1. i - Len(queue) \in DOMAIN fan /\ queue'[i] = fan[i - Len(queue)]
        BY <1>1, <2>1, <2>2, <3>1, <3>3
      <4> QED
        BY <2>3, <4>1
    <3> QED
      BY <3>2, <3>3
  <2> QED
    BY <2>1, <2>4 DEF SameJobs
<1>3. ASSUME NEW j \in Job, queue' = Append(queue, j), j.analysis # a
      PROVE  SameJobs(a)
  BY <1>1, <1>3 DEF SameJobs
<1>4. ASSUME NEW w \in Worker, EnqueueReduce(w) PROVE SameJobs(a)
  <2>1. job[w] \in Job /\ job[w].analysis # a
    BY <1>4, BusyJob DEF EnqueueReduce, TypeInv, QueueSteps
  <2>2. ReduceJob(job[w]) \in Job /\ ReduceJob(job[w]).analysis # a
    BY <2>1, ReduceTyped DEF ReduceJob
  <2> QED
    BY <1>3, <1>4, <2>2 DEF EnqueueReduce
<1>5. ASSUME NEW w \in Worker, NEW b \in Analysis, EnqueueRequeued(w, b)
      PROVE  SameJobs(a)
  <2>1. b # a
    BY <1>5 DEF QueueSteps
  <2>2. RequeueJob(b) \in Job /\ RequeueJob(b).analysis # a
    BY <2>1, RequeueTyped DEF RequeueJob
  <2> QED
    BY <1>3, <1>5, <2>2 DEF EnqueueRequeued
<1>6. CASE UNCHANGED queue
  BY <1>6 DEF SameJobs
<1> QED
  BY <1>2, <1>4, <1>5, <1>6, QueueWriters DEF QueueSteps

(* A launch that has ended does not begin again. *)
LEMMA LaunchEnds ==
    ASSUME TypeInv, RowInv, [Next]_vars, NEW a \in Analysis, gw'[a] # "ended"
    PROVE  gw[a] # "ended" /\ ~PublishAnalysis(a)
<1> USE DEF TypeInv, OtherType
<1>1. ~PublishAnalysis(a)
  BY DEF PublishAnalysis, Publish
<1>2. CASE CreateAnalysis(a)
  BY <1>1, <1>2 DEF CreateAnalysis, RowInv
<1>3. ASSUME NEW b \in Analysis, CreateAnalysis(b), b # a PROVE gw'[a] = gw[a]
  BY <1>3 DEF CreateAnalysis
<1>4. ASSUME NEW b \in Analysis,
             \/ PublishAnalysis(b) \/ PublishFails(b) \/ FailAnalysis(b)
             \/ FailAnalysisFails(b) \/ GatewayDies(b)
      PROVE  gw[a] # "ended" \/ gw'[a] = gw[a]
  BY <1>4 DEF PublishAnalysis, Publish, PublishFails, FailAnalysis,
              FailAnalysisFails, GatewayDies
<1> QED
  BY <1>1, <1>2, <1>3, <1>4, LaunchWriters

(* A step outside the fan-in of a drops no partial of it, leaves its        *)
(* counters alone, and does not take its launch back.                       *)
LEMMA OthersKeys ==
    ASSUME TypeInv, RowInv, [Next]_vars, NEW a \in Analysis, ~FanSteps(a),
           expired'[a] = 0
    PROVE  /\ Undropped(a) /\ pending'[a] = pending[a] /\ reduces'[a] = reduces[a]
           /\ gw'[a] # "ended" => gw[a] # "ended"
<1>1. Undropped(a)
  <2> USE DEF TypeInv, RedisType
  <2>1. ASSUME NEW b \in Analysis, NEW s \in ShardIds(b), ExpirePartial(b, s)
        PROVE  partials'[a] = partials[a]
    BY <2>1, ExpiredGrows DEF ExpirePartial
  <2>2. ASSUME NEW w \in Worker, PutPartial(w), NEW s \in ShardIds(a)
        PROVE  partials'[a][s] # Nil \/ partials'[a][s] = partials[a][s]
    <3> DEFINE b == job[w].analysis
               k == job[w].shard
    <3>1. /\ held[w][1] # Nil /\ b \in Analysis /\ k \in ShardIds(b)
          /\ partials' = [partials EXCEPT ![b][k] = held[w][1]]
      BY <2>2, PutSome, JobFields
    <3> HIDE DEF b, k
    <3>2. CASE a = b
      BY <3>1, <3>2
    <3>3. CASE a # b
      BY <3>1, <3>3
    <3> QED
      BY <3>2, <3>3
  <2>3. ASSUME NEW w \in Worker, DropPartials(w) PROVE partials'[a] = partials[a]
    BY <2>3 DEF DropPartials, FanSteps
  <2> QED
    BY <2>1, <2>2, <2>3, PartialWriters DEF Undropped
<1>2. pending'[a] = pending[a]
  <2> USE DEF TypeInv, RedisType
  <2>1. ASSUME NEW b \in Analysis, PublishAnalysis(b) \/ ExpirePending(b)
        PROVE  pending'[a] = pending[a]
    BY <2>1, ExpiredGrows DEF PublishAnalysis, Publish, ExpirePending, FanSteps
  <2>2. ASSUME NEW w \in Worker, CompleteShard(w) \/ DropPartials(w)
        PROVE  pending'[a] = pending[a]
    BY <2>2 DEF CompleteShard, CompleteShardAt, DropPartials, FanSteps
  <2> QED
    BY <2>1, <2>2, PendingWriters
<1>3. reduces'[a] = reduces[a]
  BY ReduceWriters DEF EnqueueReduce, FanSteps, TypeInv, OtherType
<1>4. gw'[a] # "ended" => gw[a] # "ended"
  BY LaunchEnds
<1> QED
  BY <1>1, <1>2, <1>3, <1>4

----------------------------------------------------------------------------
(* Together. *)

(* Nothing is published yet, and every partial is missing. *)
LEMMA FanInInit == Init => FanInInv
<1> SUFFICES ASSUME Init PROVE FanInInv
  OBVIOUS
<1>1. Queued = {} /\ Busy = {} /\ queue = << >> /\ \A w \in Worker : pc[w] = "idle"
  BY DEF Init, Queued, Members, Busy
<1>2. KindInv
  BY <1>1 DEF KindInv, MapPoints, ReducePoints, AfterFinish
<1>3. ASSUME NEW a \in Analysis PROVE OnceInv(a)
  BY <1>1 DEF OnceInv, Init
<1>4. ASSUME NEW a \in Analysis PROVE CountInv(a)
  <2>1. MapsOut(a) = {} /\ Closing(a) = {} /\ Failed(a) = {}
    BY <1>1 DEF MapsOut, Closing, Failed, Live
  <2> QED
    BY <1>1, <2>1 DEF CountInv, Init
<1> QED
  BY <1>2, <1>3, <1>4 DEF FanInInv

(* Every step keeps it, of an analysis that stays undisturbed. *)
LEMMA FanInStep ==
    PipelineInv /\ FanInInv /\ [Next]_vars => FanInInv'
<1> SUFFICES ASSUME PipelineInv, FanInInv, [Next]_vars PROVE FanInInv'
  OBVIOUS
<1>1. TypeInv /\ WorkerInv /\ RowInv /\ OriginalInv /\ KindInv
  BY TypeParts DEF PipelineInv, FanInInv
<1>2. ASSUME NEW a \in Analysis, Undisturbed(a)'
      PROVE  OnceInv(a)' /\ CountInv(a)'
  <2>1. reaps[a] = 0 /\ expired[a] = 0 /\ expired'[a] = 0
    BY <1>1, <1>2, ReapsGrow, ExpiredGrows DEF Undisturbed
  <2>2. OnceInv(a) /\ CountInv(a)
    BY <2>1 DEF FanInInv, Undisturbed
  <2>3. CASE PublishAnalysis(a)
    BY <1>1, <2>2, <2>3, PublishFan
  <2>4. ASSUME NEW w \in Worker, Reserve(w) PROVE OnceInv(a)' /\ CountInv(a)'
    BY <1>1, <2>2, <2>4, ReserveFan
  <2>5. ASSUME NEW w \in Worker, job[w].analysis = a, CompleteShard(w)
        PROVE  OnceInv(a)' /\ CountInv(a)'
    BY <1>1, <2>1, <2>2, <2>5, CompleteFan
  <2>6. ASSUME NEW w \in Worker, job[w].analysis = a, EnqueueReduce(w)
        PROVE  OnceInv(a)' /\ CountInv(a)'
    BY <1>1, <2>2, <2>6, EnqueueFan
  <2>7. ASSUME NEW w \in Worker, job[w].analysis = a, DropPartials(w)
        PROVE  OnceInv(a)' /\ CountInv(a)'
    BY <1>1, <2>1, <2>2, <2>7, DropFan
  <2>8. CASE ~FanSteps(a)
    <3>1. SameJobs(a) /\ \A v \in Worker : Stays(v, a)
      <4>1. ~QueueSteps(a)
        BY <1>1, <2>1, <2>8 DEF QueueSteps, FanSteps, OriginalInv, EnqueueRequeued
      <4> QED
        BY <1>1, <2>8, <4>1, OthersQueue, OthersStay
    <3>2. /\ Undropped(a) /\ pending'[a] = pending[a] /\ reduces'[a] = reduces[a]
          /\ gw'[a] # "ended" => gw[a] # "ended"
      BY <1>1, <2>1, <2>8, OthersKeys
    <3> QED
      BY <1>1, <2>2, <3>1, <3>2, StillFan
  <2> QED
    BY <2>3, <2>4, <2>5, <2>6, <2>7, <2>8 DEF FanSteps
<1>3. KindInv'
  BY <1>1, KindStep
<1> QED
  BY <1>2, <1>3 DEF FanInInv

(* In every reachable state the jobs, partials and findings of an analysis  *)
(* no reaper requeued are those of its fan-out; each job of an undisturbed  *)
(* one is in one place, and its counter covers the shards not yet done.     *)
THEOREM FanOutInvariant == Spec => []FanOutInv
<1>1. Init => FanOutInv
  BY PipelineInit, FanInInit DEF FanOutInv
<1>2. FanOutInv /\ [Next]_vars => FanOutInv'
  BY PipelineStep, FanInStep DEF FanOutInv
<1> QED
  BY <1>1, <1>2, PTL DEF Spec

(* complete_shard: however many workers count shards down at once, crash,   *)
(* raise or give up, one of them at most owns the reduce of an analysis     *)
(* that was not requeued and whose keys did not expire.                     *)
THEOREM FansInOnce == Spec => []OneFanIn
<1>1. FanOutInv => OneFanIn
  BY DEF FanOutInv, FanInInv, CountInv, OneFanIn
<1> QED
  BY <1>1, FanOutInvariant, PTL

(* put_partial before complete_shard, and the enqueue after it: from the    *)
(* reduce's LPUSH to its MGET every partial of the analysis is in Redis, so *)
(* that get_partials never finds one missing.                               *)
THEOREM ReduceFindsAll == Spec => []ReduceFindsEveryPartial
<1>1. FanOutInv => ReduceFindsEveryPartial
  <2> SUFFICES ASSUME FanOutInv, NEW a \in Analysis, Undisturbed(a),
                      \/ \E i \in DOMAIN queue : /\ queue[i].kind = "reduce"
                                                 /\ queue[i].analysis = a
                      \/ \E w \in Worker : InReduce(a, w)
               PROVE  \A s \in ShardIds(a) : partials[a][s] # Nil
    BY DEF ReduceFindsEveryPartial
  <2>1. CountInv(a)
    BY DEF FanOutInv, FanInInv
  <2>2. ASSUME NEW i \in DOMAIN queue, queue[i].kind = "reduce", queue[i].analysis = a
        PROVE  Missing(a) = {}
    BY <2>1, <2>2 DEF CountInv, Queued, Members
  <2>3. ASSUME NEW w \in Worker, InReduce(a, w) PROVE Missing(a) = {}
    BY <2>1, <2>3 DEF CountInv, InReduce, Busy
  <2>4. Missing(a) = {}
    BY <2>2, <2>3
  <2> QED
    BY <2>4 DEF Missing
<1> QED
  BY <1>1, FanOutInvariant, PTL
=============================================================================
