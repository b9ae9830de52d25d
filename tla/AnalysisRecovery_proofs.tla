----------------------- MODULE AnalysisRecovery_proofs -----------------------
(***************************************************************************)
(* What the reaper may do to an analysis: when jobs are prompt, a requeued *)
(* analysis is worked on by one job at a time, and is exact like any       *)
(* other; and nothing queued is forgotten where no failure loses it.       *)
(***************************************************************************)
EXTENDS AnalysisPipeline_proofs

----------------------------------------------------------------------------
(* Where work comes from. *)

(* A job of an analysis without any is published, or requeued. *)
LEMMA WorkSources ==
    ASSUME TypeInv, [Next]_vars, NEW a \in Analysis, NoWork(a),
           ~PublishAnalysis(a), \A w \in Worker : ~EnqueueRequeued(w, a)
    PROVE  NoWork(a)'
<1> queue \in Seq(Job)
  BY DEF TypeInv, RedisType
<1>1. \A j \in Queued' : j.analysis # a
  <2>1. ASSUME NEW b \in Analysis, PublishAnalysis(b), NEW j \in Queued'
        PROVE  j.analysis # a
    <3>1. queue' = queue \o [i \in 1 .. ShardCount(b) |-> MapJob(b, i - 1)] /\ b # a
      BY <2>1 DEF PublishAnalysis, Publish
    <3>2. j \in Queued \/ j.analysis = b
      BY <3>1, PublishMembers DEF Queued
    <3> QED
      BY <3>1, <3>2 DEF NoWork
  <2>2. ASSUME NEW w \in Worker, Reserve(w), NEW j \in Queued'
        PROVE  j.analysis # a
    <3>1. queue # << >> /\ queue' = Tail(queue)
      BY <2>2 DEF Reserve
    <3>2. Queued' \subseteq Queued
      BY <3>1, PopMembers DEF Queued
    <3> QED
      BY <3>2 DEF NoWork
  <2>3. ASSUME NEW w \in Worker, EnqueueReduce(w), NEW j \in Queued'
        PROVE  j.analysis # a
    <3>1. w \in Busy /\ job[w] \in Job /\ queue' = Append(queue, ReduceJob(job[w]))
      BY <2>3, BusyJob DEF EnqueueReduce, Busy, TypeInv
    <3>2. ReduceJob(job[w]) \in Job /\ ReduceJob(job[w]).analysis # a
      BY <3>1, ReduceTyped DEF ReduceJob, NoWork
    <3> QED
      BY <3>1, <3>2, PushMembers DEF Queued, NoWork
  <2>4. ASSUME NEW w \in Worker, NEW b \in Analysis, EnqueueRequeued(w, b),
               NEW j \in Queued'
        PROVE  j.analysis # a
    <3>1. RequeueJob(b) \in Job /\ RequeueJob(b).analysis # a
      BY <2>4, RequeueTyped DEF RequeueJob
    <3> QED
      BY <2>4, <3>1, PushMembers DEF EnqueueRequeued, Queued, NoWork
  <2>5. CASE UNCHANGED queue
    BY <2>5 DEF Queued, Members, NoWork
  <2> QED
    BY <2>1, <2>2, <2>3, <2>4, <2>5, QueueWriters
<1>2. \A w \in Busy' : job'[w].analysis # a
  BY JobSources DEF NoWork, Busy
<1> QED
  BY <1>1, <1>2 DEF NoWork

(* A reaper's list grows by the stale rows only. *)
LEMMA ListSources ==
    ASSUME TypeInv, [Next]_vars, NEW w \in Worker, NEW a \in requeued'[w]
    PROVE  \/ a \in requeued[w] /\ ~EnqueueRequeued(w, a)
           \/ RequeueStale(w) /\ a \in Stale
<1> USE DEF TypeInv, OtherType
<1>1. ~EnqueueRequeued(w, a)
  BY DEF EnqueueRequeued
<1>2. ASSUME NEW v \in Worker, RequeueStale(v)
      PROVE  a \in requeued[w] \/ (RequeueStale(w) /\ a \in Stale)
  BY <1>2 DEF RequeueStale, RequeueReturning
<1>3. ASSUME NEW v \in Worker, ReaperFails(v) \/ Crash(v) PROVE a \in requeued[w]
  BY <1>3 DEF ReaperFails, Crash
<1>4. ASSUME NEW v \in Worker, NEW b \in Analysis, EnqueueRequeued(v, b)
      PROVE  a \in requeued[w]
  BY <1>4 DEF EnqueueRequeued
<1> QED
  BY <1>1, <1>2, <1>3, <1>4, ReaperWriters

(* Every requeue is of a stale row. *)
LEMMA ReapSources ==
    ASSUME TypeInv, [Next]_vars, NEW a \in Analysis
    PROVE  /\ reaps[a] # 0 => reaps'[a] # 0
           /\ reaps'[a] # 0 => \/ reaps[a] # 0
                               \/ \E w \in Worker : RequeueStale(w) /\ a \in Stale
<1>1. reaps[a] # 0 => reaps'[a] # 0
  BY ReapsGrow
<1>2. ASSUME NEW w \in Worker, RequeueStale(w), a \notin Stale
      PROVE  reaps'[a] = reaps[a]
  BY <1>2 DEF RequeueStale, RequeueReturning
<1> QED
  BY <1>1, <1>2, ReapWriters

(* Who writes heartbeat_at: nothing refreshes it after the claim. *)
LEMMA BeatWriters ==
    ASSUME [Next]_vars
    PROVE  \/ UNCHANGED beat
           \/ \E a \in Analysis : HeartbeatAges(a)
           \/ \E u \in Upload : DeleteUpload(u)
           \/ \E w \in Worker : Claim(w) \/ RequeueStale(w)
  BY DEF Next, WorkerStep, MapStep, ReduceStep, ReaperStep, LaunchStep, Environment,
     vars, db, CreateAnalysis, PublishAnalysis, Publish, PublishFails, FailAnalysis,
     FailAnalysisFails, GatewayDies, ExpirePending, ExpirePartial, EnqueueRequeued,
     ReaperFails, Reserve, Skip, LoadShard, PutPartial, RecordMapTiming, RecordTiming,
     CompleteShard, CompleteShardAt, EnqueueReduce, GetPartials, Merge, Score,
     SaveAnomalies, CommitAnomalies, CommitReplacing, CommitNothing, Finish,
     RecordPersistTiming, SkipEmbedding, EmbedFindings, SaveEmbeddings,
     RecordEmbedTiming, DropPartials, RecordTotalTiming, Fail, Raise, Crash

(* A row is running because a worker claimed it; it becomes stale by age    *)
(* alone.                                                                   *)
LEMMA RunningSources ==
    ASSUME TypeInv, [Next]_vars, NEW a \in Analysis, status'[a] = "running"
    PROVE  \/ status[a] = "running" /\ (beat'[a] = beat[a] \/ HeartbeatAges(a))
           \/ \E w \in Worker : /\ Claim(w) /\ job[w].analysis = a
                                /\ beat'[a] = "fresh"
<1> USE DEF TypeInv, DbType
<1>1. ASSUME NEW b \in Analysis, CreateAnalysis(b) \/ FailAnalysis(b)
      PROVE  status[a] = "running" /\ beat'[a] = beat[a]
  BY <1>1 DEF CreateAnalysis, FailAnalysis
<1>2. ASSUME NEW u \in Upload, DeleteUpload(u)
      PROVE  status[a] = "running" /\ beat'[a] = beat[a]
  BY <1>2 DEF DeleteUpload
<1>3. ASSUME NEW w \in Worker, Claim(w)
      PROVE  \/ status[a] = "running" /\ beat'[a] = beat[a]
             \/ job[w].analysis = a /\ beat'[a] = "fresh"
  BY <1>3 DEF Claim, ClaimFrom
<1>4. ASSUME NEW w \in Worker, Finish(w) \/ Fail(w)
      PROVE  status[a] = "running" /\ beat'[a] = beat[a]
  BY <1>4 DEF Finish, Fail
<1>5. ASSUME NEW w \in Worker, RequeueStale(w)
      PROVE  status[a] = "running" /\ beat'[a] = beat[a]
  BY <1>5 DEF RequeueStale, RequeueReturning, Stale
<1>6. CASE UNCHANGED status
  <2>1. ASSUME NEW b \in Analysis, HeartbeatAges(b)
        PROVE  beat'[a] = beat[a] \/ HeartbeatAges(a)
    BY <2>1 DEF HeartbeatAges
  <2> QED
    BY <1>1, <1>2, <1>3, <1>4, <1>5, <1>6, <2>1, BeatWriters
<1> QED
  BY <1>1, <1>2, <1>3, <1>4, <1>5, <1>6, StatusWriters

----------------------------------------------------------------------------
(* One job at a time. *)

LEMMA NoneIsSole ==
    ASSUME NEW a \in Analysis, NoWork(a)
    PROVE  SoleJob(a)
  BY DEF NoWork, SoleJob, Queued, Members

LEMMA InFlightIsWork ==
    ASSUME NEW a \in Analysis
    PROVE  InFlight(a) <=> ~NoWork(a)
  BY DEF InFlight, NoWork, Queued, Members, Busy

(* A job is added where none was. *)
LEMMA SoleAppend ==
    ASSUME NEW a \in Analysis, NEW j \in Job, queue \in Seq(Job),
           queue' = Append(queue, j), \A i \in Queued : i.analysis # a,
           \A w \in Busy' : job'[w].analysis # a
    PROVE  SoleJob(a)'
<1>1. \A n \in DOMAIN queue' : n = Len(queue) + 1 \/ queue'[n].analysis # a
  BY DEF Queued, Members
<1> QED
  BY <1>1 DEF SoleJob

(* A job is moved, ended or replaced, and stays the only one. *)
LEMMA SoleStep ==
    ASSUME TypeInv, [Next]_vars, NEW a \in Analysis, SoleJob(a), ~PublishAnalysis(a),
           \A w \in Worker : EnqueueRequeued(w, a) => NoWork(a)
    PROVE  SoleJob(a)'
<1>1. queue \in Seq(Job)
  BY DEF TypeInv, RedisType
<1>2. ASSUME NEW w \in Worker, EnqueueRequeued(w, a) PROVE SoleJob(a)'
  <2>1. /\ queue' = Append(queue, RequeueJob(a)) /\ RequeueJob(a) \in Job
        /\ pc' = pc /\ job' = job
    BY <1>2, RequeueTyped DEF EnqueueRequeued, worker
  <2> QED
    BY <1>1, <1>2, <2>1, SoleAppend DEF NoWork, Busy
<1>3. ASSUME NEW w \in Worker, EnqueueReduce(w), job[w].analysis = a
      PROVE  SoleJob(a)'
  <2>1. /\ w \in Busy /\ job[w] \in Job /\ queue' = Append(queue, ReduceJob(job[w]))
        /\ pc'[w] = "idle"
        /\ \A v \in Worker : v # w => pc'[v] = pc[v] /\ job'[v] = job[v]
    BY <1>3, BusyJob DEF EnqueueReduce, Release, Busy, TypeInv, ProcType
  <2>2. /\ \A i \in Queued : i.analysis # a
        /\ \A v \in Busy' : job'[v].analysis # a
    BY <1>3, <2>1 DEF SoleJob, Busy
  <2> QED
    BY <1>1, <2>1, <2>2, ReduceTyped, SoleAppend
<1>4. ASSUME NEW w \in Worker, Reserve(w) PROVE SoleJob(a)'
  <2>1. /\ queue # << >> /\ queue' = Tail(queue)
        /\ pc[w] = "idle" /\ job'[w] = Head(queue)
        /\ \A v \in Worker : v # w => pc'[v] = pc[v] /\ job'[v] = job[v]
    BY <1>4 DEF Reserve, Move, TypeInv, ProcType
  <2>2. \A n \in DOMAIN queue' : /\ n + 1 \in DOMAIN queue /\ n + 1 # 1 /\ n \in Int
                                 /\ queue'[n] = queue[n + 1]
    BY <1>1, <2>1
  <2>3. 1 \in DOMAIN queue /\ queue[1] = Head(queue) /\ Head(queue) \in Queued
    BY <1>1, <2>1, PopMembers DEF Queued
  <2>4. \A i, k \in DOMAIN queue' :
           queue'[i].analysis = a /\ queue'[k].analysis = a => i = k
    <3> SUFFICES ASSUME NEW i \in DOMAIN queue', NEW k \in DOMAIN queue',
                        queue'[i].analysis = a, queue'[k].analysis = a
                 PROVE  i = k
      OBVIOUS
    <3>1. i + 1 = k + 1
      BY <2>2 DEF SoleJob
    <3> QED
      BY <2>2, <3>1
  <2>5. \A v \in Busy' : v = w \/ (v \in Busy /\ job'[v] = job[v])
    BY <2>1 DEF Busy
  <2>6. job'[w].analysis = a => /\ \A j \in Queued' : j.analysis # a
                                /\ \A v \in Busy : job[v].analysis # a
    <3>1. ASSUME Head(queue).analysis = a, NEW n \in DOMAIN queue'
          PROVE  queue'[n].analysis # a
      BY <2>2, <2>3, <3>1 DEF SoleJob
    <3> QED
      BY <2>1, <2>3, <3>1 DEF SoleJob, Queued, Members
  <2>7. Queued' \subseteq Queued
    BY <1>1, <2>1, PopMembers DEF Queued
  <2> QED
    BY <2>4, <2>5, <2>6, <2>7 DEF SoleJob, Busy
<1>5. CASE ~QueueSteps(a)
  <2>1. SameJobs(a)
    BY <1>5, OthersQueue
  <2>2. \A j \in Queued' : j.analysis = a => j \in Queued
    BY <2>1 DEF SameJobs, Queued, Members
  <2>3. ASSUME NEW v \in Busy' PROVE v \in Busy /\ job'[v] = job[v]
    <3>1. ASSUME NEW w \in Worker, OwnSteps(w) PROVE v \in Busy /\ job'[v] = job[v]
      BY <1>5, <2>3, <3>1, OwnStep DEF QueueSteps, Busy, TypeInv
    <3> QED
      BY <2>3, <3>1, WorkersAlone DEF worker, Busy
  <2> QED
    BY <2>1, <2>2, <2>3 DEF SoleJob, SameJobs
<1> QED
  BY <1>2, <1>3, <1>4, <1>5 DEF QueueSteps

(* The reaper takes over what no job is left of. *)
LEMMA HandOverStep ==
    ASSUME TypeInv, RowInv, [Next]_vars, Prompt, NEW a \in Analysis, HandOverInv(a)
    PROVE  HandOverInv(a)'
<1>1. ASSUME NEW w \in Worker, RequeueStale(w), a \in Stale
      PROVE  /\ NoWork(a) /\ NoWork(a)' /\ status[a] = "running"
             /\ status'[a] = "queued" /\ gw[a] = "ended" /\ gw' = gw
  BY <1>1 DEF RequeueStale, RequeueReturning, Stale, HandOverInv, NoWork, Queued,
     Members, Busy, redis, worker
<1>2. NoWork(a) =>
          NoWork(a)' \/ PublishAnalysis(a) \/ \E w \in Worker : EnqueueRequeued(w, a)
  BY WorkSources
<1>3. \A w \in Worker : EnqueueRequeued(w, a) => a \in requeued[w]
  BY DEF EnqueueRequeued
<1>4. PublishAnalysis(a) => gw[a] # "ended"
  BY DEF PublishAnalysis, Publish
<1>5. ASSUME NEW w \in Worker, Claim(w), job[w].analysis = a PROVE ~NoWork(a)
  BY <1>5 DEF Claim, ClaimFrom, NoWork, Busy
<1>6. ASSUME status'[a] = "running"
      PROVE  \/ ~NoWork(a)
             \/ status[a] = "running" /\ (beat'[a] = beat[a] \/ HeartbeatAges(a))
  BY <1>5, <1>6, RunningSources
<1>7. ASSUME gw'[a] # "ended"
      PROVE  NoWork(a)' /\ status'[a] # "running" /\ reaps'[a] = 0
  <2>1. /\ gw[a] # "ended" /\ ~PublishAnalysis(a)
        /\ NoWork(a) /\ status[a] # "running" /\ reaps[a] = 0
    BY <1>7, LaunchEnds DEF HandOverInv
  <2>2. \A w \in Worker : a \notin requeued[w]
    BY <2>1 DEF HandOverInv
  <2>3. NoWork(a)'
    BY <1>2, <1>3, <2>1, <2>2
  <2>4. status'[a] # "running"
    BY <1>6, <2>1
  <2>5. reaps'[a] = 0
    BY <2>1, ReapSources DEF Stale
  <2> QED
    BY <2>3, <2>4, <2>5
<1>8. ASSUME NEW w \in Worker, a \in requeued'[w]
      PROVE  /\ NoWork(a)' /\ status'[a] # "running" /\ reaps'[a] # 0
             /\ \A v \in Worker : a \in requeued'[v] => v = w
  <2>1. CASE a \in requeued[w] /\ ~EnqueueRequeued(w, a)
    <3>1. /\ NoWork(a) /\ status[a] # "running" /\ reaps[a] # 0
          /\ \A v \in Worker : a \in requeued[v] => v = w
      BY <2>1 DEF HandOverInv
    <3>2. ~PublishAnalysis(a) /\ \A v \in Worker : ~EnqueueRequeued(v, a)
      BY <1>3, <1>4, <2>1, <3>1 DEF HandOverInv
    <3>3. NoWork(a)' /\ status'[a] # "running"
      BY <1>2, <1>6, <3>1, <3>2
    <3>4. \A v \in Worker : a \in requeued'[v] => v = w
      BY <3>1, ListSources DEF Stale
    <3> QED
      BY <3>1, <3>3, <3>4, ReapSources
  <2>2. CASE RequeueStale(w) /\ a \in Stale
    <3>1. \A v \in Worker : v # w => requeued'[v] = requeued[v]
      BY <2>2 DEF RequeueStale, RequeueReturning, TypeInv, OtherType
    <3>2. \A v \in Worker : a \notin requeued[v]
      BY <1>1, <2>2 DEF HandOverInv
    <3>3. reaps'[a] # 0
      BY <2>2, ConstantsAssumption
         DEF RequeueStale, RequeueReturning, TypeInv, BudgetType
    <3> QED
      BY <1>1, <2>2, <3>1, <3>2, <3>3
  <2> QED
    BY <1>8, <2>1, <2>2, ListSources
<1>9. ASSUME status'[a] = "running", beat'[a] = "stale" PROVE NoWork(a)'
  <2>1. ASSUME HeartbeatAges(a) PROVE NoWork(a) /\ NoWork(a)'
    <3>1. NoWork(a) /\ UNCHANGED <<queue, pc, job>>
      BY <2>1, InFlightIsWork DEF HeartbeatAges, redis, worker
    <3> QED
      BY <3>1 DEF NoWork, Queued, Members, Busy
  <2>2. CASE status[a] = "running" /\ beat'[a] = beat[a]
    <3>1. NoWork(a) /\ gw[a] = "ended" /\ \A w \in Worker : a \notin requeued[w]
      BY <1>9, <2>2 DEF HandOverInv
    <3> QED
      BY <1>2, <1>3, <1>4, <3>1
  <2>3. ASSUME NEW w \in Worker, Claim(w), beat'[a] = "fresh" PROVE FALSE
    BY <1>9, <2>3
  <2> QED
    BY <1>9, <2>1, <2>2, <2>3, RunningSources
<1>10. ASSUME reaps'[a] # 0 PROVE SoleJob(a)'
  <2>1. ASSUME NEW w \in Worker, RequeueStale(w), a \in Stale PROVE SoleJob(a)'
    <3>1. NoWork(a)'
      BY <1>1, <2>1
    <3> QED
      BY <3>1 DEF NoWork, SoleJob, Queued, Members
  <2>2. CASE reaps[a] # 0
    <3>1. SoleJob(a) /\ gw[a] = "ended"
      BY <2>2 DEF HandOverInv
    <3>2. \A w \in Worker : EnqueueRequeued(w, a) => NoWork(a)
      BY <1>3 DEF HandOverInv
    <3> QED
      BY <1>4, <3>1, <3>2, SoleStep
  <2> QED
    BY <1>10, <2>1, <2>2, ReapSources
<1> QED
  BY <1>7, <1>8, <1>9, <1>10 DEF HandOverInv

----------------------------------------------------------------------------
(* The whole upload in one job. *)

(* What the reaper's job loads, and what its reduce reads. *)
LEMMA WholeJobs ==
    ASSUME NEW a \in Analysis
    PROVE  /\ RequeueJob(a).kind = "map" /\ RequeueJob(a).analysis = a
           /\ RequeueJob(a).shard = 0 /\ 0 \in ShardIds(a)
           /\ Slice(a, RequeueJob(a).offset, RequeueJob(a).limit) = Rows(a)
           /\ LET r == ReduceJob(RequeueJob(a))
              IN  /\ r.kind = "reduce" /\ r.analysis = a /\ r.count = 1
                  /\ ReduceJob(r) = r
<1>1. EntryCount[UploadOf[a]] \in Nat /\ EntryCount[UploadOf[a]] <= WholeFile
  BY ConstantsAssumption
<1>2. Slice(a, 0, WholeFile) = Rows(a)
  BY <1>1, ConstantsAssumption DEF Slice, Rows
<1>3. 0 \in ShardIds(a)
  BY ShardCountCovers DEF ShardIds
<1> QED
  BY <1>2, <1>3 DEF RequeueJob, ReduceJob

(* get_partials of the one shard. *)
LEMMA FoundWhole ==
    ASSUME NEW a \in Analysis, NEW j, j.count = 1, j.analysis = a, ~Short(j),
           partials[a][0] \in {Nil, Rows(a)}
    PROVE  Found(j) = << Rows(a) >>
<1>1. partials[a][0] # Nil
  BY DEF Short
<1> QED
  BY <1>1 DEF Found

(* The job of a requeued analysis is the reaper's, or its reduce. *)
LEMMA WholeJobStep ==
    ASSUME TypeInv, [Next]_vars, NEW a \in Analysis, HandOverInv(a), WholeInv(a),
           reaps[a] # 0
    PROVE  /\ \A j \in Queued' : j.analysis = a
                  => j \in {RequeueJob(a), ReduceJob(RequeueJob(a))}
           /\ \A w \in Busy' : job'[w].analysis = a
                  => job'[w] \in {RequeueJob(a), ReduceJob(RequeueJob(a))}
<1>1. /\ \A j \in Queued : j.analysis = a
             => j \in {RequeueJob(a), ReduceJob(RequeueJob(a))}
      /\ \A w \in Busy : job[w].analysis = a
             => job[w] \in {RequeueJob(a), ReduceJob(RequeueJob(a))}
      /\ gw[a] = "ended"
  BY DEF WholeInv, HandOverInv
<1>2. ASSUME NEW j \in Queued', j.analysis = a
      PROVE  j \in {RequeueJob(a), ReduceJob(RequeueJob(a))}
  <2>1. ASSUME NEW w \in Busy, j = ReduceJob(job[w])
        PROVE  j \in {RequeueJob(a), ReduceJob(RequeueJob(a))}
    <3>1. job[w].analysis = a
      BY <1>2, <2>1 DEF ReduceJob
    <3> QED
      BY <1>1, <2>1, <3>1, WholeJobs
  <2>2. ASSUME NEW w \in Worker, NEW b \in requeued[w], j = RequeueJob(b)
        PROVE  j = RequeueJob(a)
    BY <1>2, <2>2 DEF RequeueJob
  <2> QED
    BY <1>1, <1>2, <2>1, <2>2, QueueSources
<1>3. ASSUME NEW w \in Busy', job'[w].analysis = a
      PROVE  job'[w] \in {RequeueJob(a), ReduceJob(RequeueJob(a))}
  BY <1>1, <1>3, JobSources DEF Busy
<1> QED
  BY <1>2, <1>3

(* The upload is mapped once its one partial was stored. *)
LEMMA MappedSources ==
    ASSUME TypeInv, [Next]_vars, NEW a \in Analysis, reaps[a] # 0, HandOverInv(a),
           Mapped(a)'
    PROVE  Mapped(a) \/ \E w \in Worker : PutPartial(w) /\ job[w].analysis = a
<1>1. ASSUME NEW j \in Queued', j.analysis = a, j.kind = "reduce" PROVE Mapped(a)
  <2>1. CASE j \in Queued
    BY <1>1, <2>1 DEF Mapped
  <2>2. ASSUME NEW b \in Analysis, gw[b] = "created", j.analysis = b PROVE FALSE
    BY <1>1, <2>2 DEF HandOverInv
  <2>3. ASSUME NEW w \in Busy, EnqueueReduce(w), j = ReduceJob(job[w]) PROVE Mapped(a)
    BY <1>1, <2>3 DEF EnqueueReduce, ReduceJob, Mapped, Busy
  <2>4. ASSUME NEW w \in Worker, NEW b \in requeued[w], j = RequeueJob(b) PROVE FALSE
    BY <1>1, <2>4 DEF RequeueJob
  <2> QED
    BY <1>1, <2>1, <2>2, <2>3, <2>4, QueueSources
<1>2. ASSUME NEW w \in Worker, job'[w].analysis = a, OwnSteps(w),
             \/ pc'[w] \in {"mapTiming", "complete", "fanin"}
             \/ pc'[w] \in {"reserved", "merge"} /\ job'[w].kind = "reduce"
      PROVE  Mapped(a) \/ (PutPartial(w) /\ job[w].analysis = a)
  <2>1. CASE Reserve(w)
    <3>1. /\ queue # << >> /\ queue \in Seq(Job) /\ pc'[w] = "reserved"
          /\ job'[w] = Head(queue)
      BY <2>1 DEF Reserve, Move, TypeInv, ProcType, RedisType
    <3>2. job'[w] \in Queued
      BY <3>1, PopMembers DEF Queued
    <3> QED
      BY <1>2, <3>1, <3>2 DEF Mapped
  <2>2. CASE ~Reserve(w)
    <3>1. job'[w] = job[w]
      BY <1>2, <2>2, OwnStep DEF TypeInv
    <3>2. CompleteShard(w) => pc[w] = "complete"
      BY DEF CompleteShard, CompleteShardAt
    <3>3. \/ pc[w] \in {"mapTiming", "complete"} \/ PutPartial(w)
          \/ pc[w] = "reserved" /\ job[w].kind = "reduce"
      BY <1>2, <2>2, <3>1, <3>2, PointFlow DEF TypeInv
    <3> QED
      BY <1>2, <3>1, <3>3 DEF Mapped
  <2> QED
    BY <2>1, <2>2
<1>3. ASSUME NEW w \in Worker, job[w].analysis = a,
             \/ pc[w] \in {"mapTiming", "complete", "fanin"}
             \/ pc[w] \in {"reserved", "merge"} /\ job[w].kind = "reduce"
      PROVE  Mapped(a)
  BY <1>3 DEF Mapped
<1>4. ASSUME NEW w \in Worker, job'[w].analysis = a,
             \/ pc'[w] \in {"mapTiming", "complete", "fanin"}
             \/ pc'[w] \in {"reserved", "merge"} /\ job'[w].kind = "reduce"
      PROVE  Mapped(a) \/ \E v \in Worker : PutPartial(v) /\ job[v].analysis = a
  <2>1. CASE pc'[w] = pc[w] /\ job'[w] = job[w]
    BY <1>3, <1>4, <2>1
  <2>2. ASSUME NEW v \in Worker, OwnSteps(v), v # w
        PROVE  pc'[w] = pc[w] /\ job'[w] = job[w]
    BY <2>2, OwnStep DEF TypeInv
  <2>3. UNCHANGED worker => pc'[w] = pc[w] /\ job'[w] = job[w]
    BY DEF worker
  <2> QED
    BY <1>2, <1>4, <2>1, <2>2, <2>3, WorkersAlone
<1> QED
  BY <1>1, <1>4 DEF Mapped

(* Rows that are there after a step were there before. *)
LEMMA UploadKept ==
    ASSUME [Next]_vars, NEW u \in uploads'
    PROVE  u \in uploads
<1>1. ASSUME NEW x \in Upload, DeleteUpload(x) PROVE u \in uploads
  BY <1>1 DEF DeleteUpload
<1> QED
  BY <1>1, UploadWriters

(* One job at a time maps, stores and scores the whole upload. *)
LEMMA WholeStep ==
    ASSUME TypeInv, RowInv, KindInv, [Next]_vars, Prompt, NEW a \in Analysis,
           HandOverInv(a), WholeInv(a)
    PROVE  WholeInv(a)'
<1>1. ASSUME NoWork(a)' PROVE WholeInv(a)'
  BY <1>1 DEF NoWork, WholeInv, Mapped, Busy
<1>2. ASSUME NEW w \in Worker, RequeueStale(w), a \in Stale PROVE NoWork(a)'
  BY <1>2 DEF RequeueStale, RequeueReturning, Stale, HandOverInv, NoWork, Queued,
     Members, Busy, redis, worker
<1>3. CASE reaps[a] # 0
  <2>1. /\ \A j \in Queued' : j.analysis = a
               => j \in {RequeueJob(a), ReduceJob(RequeueJob(a))}
        /\ \A w \in Busy' : job'[w].analysis = a
               => job'[w] \in {RequeueJob(a), ReduceJob(RequeueJob(a))}
    BY <1>3, WholeJobStep
  <2>2. \A w \in Busy : job[w].analysis = a
               => job[w] \in {RequeueJob(a), ReduceJob(RequeueJob(a))}
    BY <1>3 DEF WholeInv
  <2>3. ASSUME UploadOf[a] \in uploads'
        PROVE  /\ \A w \in Worker : pc'[w] = "put" /\ job'[w].analysis = a
                      => held'[w][1] = Rows(a)
               /\ \A w \in Worker :
                      pc'[w] \in {"score", "save", "commit"} /\ job'[w].analysis = a
                      => held'[w] = << Rows(a) >>
               /\ Mapped(a)' => partials'[a][0] \in {Nil, Rows(a)}
    <3>1. UploadOf[a] \in uploads
      BY <2>3, UploadKept
    <3>2. /\ \A w \in Worker : pc[w] = "put" /\ job[w].analysis = a
                => held[w][1] = Rows(a)
          /\ \A w \in Worker :
                pc[w] \in {"score", "save", "commit"} /\ job[w].analysis = a
                => held[w] = << Rows(a) >>
          /\ Mapped(a) => partials[a][0] \in {Nil, Rows(a)}
      BY <1>3, <3>1 DEF WholeInv
    <3>3. ASSUME NEW w \in Worker, pc'[w] = "put", job'[w].analysis = a
          PROVE  held'[w][1] = Rows(a)
      <4>1. CASE LoadShard(w)
        <5>1. pc[w] = "load" /\ job' = job /\ w \in Busy
          BY <4>1 DEF LoadShard, Move, Busy
        <5>2. job[w] = RequeueJob(a)
          BY <2>2, <3>3, <5>1, WholeJobs DEF TypeInv, WorkerInv
        <5>3. held' = [held EXCEPT ![w] = << Rows(a) >>]
          <6>1. /\ job[w].analysis = a
                /\ Slice(job[w].analysis, job[w].offset, job[w].limit) = Rows(a)
            BY <5>2, WholeJobs
          <6> QED
            BY <3>1, <4>1, <6>1 DEF LoadShard
        <5> QED
          BY <5>3 DEF TypeInv, ProcType
      <4>2. CASE pc[w] = "put" /\ job'[w] = job[w] /\ held'[w] = held[w]
        BY <3>2, <3>3, <4>2
      <4>3. ASSUME NEW v \in Worker, OwnSteps(v)
            PROVE  \/ LoadShard(w)
                   \/ pc[w] = "put" /\ job'[w] = job[w] /\ held'[w] = held[w]
        BY <3>3, <4>3, OwnStep DEF TypeInv
      <4> QED
        BY <3>3, <4>1, <4>2, <4>3, WorkersAlone DEF worker
    <3>4. ASSUME NEW w \in Worker, pc'[w] \in {"score", "save", "commit"},
                 job'[w].analysis = a
          PROVE  held'[w] = << Rows(a) >>
      <4>1. CASE GetPartials(w) /\ pc'[w] = "score"
        <5>1. pc[w] = "merge" /\ job' = job /\ w \in Busy
          BY <4>1 DEF GetPartials, Merge, Move, Busy
        <5>2. ~ Short(job[w]) /\ held' = [held EXCEPT ![w] = Found(job[w])]
          BY <4>1 DEF GetPartials, Merge, Move, TypeInv, ProcType
        <5>3. job[w].kind = "reduce"
          BY <5>1 DEF KindInv, ReducePoints
        <5>4. job[w] = ReduceJob(RequeueJob(a)) /\ job[w].analysis = a
          BY <2>2, <3>4, <5>1, <5>3, WholeJobs
        <5>5. Mapped(a)
          BY <5>1, <5>3, <5>4 DEF Mapped
        <5>6. Found(job[w]) = << Rows(a) >>
          BY <3>2, <5>2, <5>4, <5>5, WholeJobs, FoundWhole
        <5> QED
          BY <5>2, <5>6 DEF TypeInv, ProcType
      <4>2. CASE /\ pc[w] \in {"score", "save", "commit"}
                 /\ job'[w] = job[w] /\ held'[w] = held[w]
        BY <3>2, <3>4, <4>2
      <4>3. ASSUME NEW v \in Worker, OwnSteps(v)
            PROVE  \/ GetPartials(w) /\ pc'[w] = "score"
                   \/ /\ pc[w] \in {"score", "save", "commit"}
                      /\ job'[w] = job[w] /\ held'[w] = held[w]
        BY <3>4, <4>3, OwnStep DEF TypeInv, Reserve, Move, ProcType
      <4> QED
        BY <3>4, <4>1, <4>2, <4>3, WorkersAlone DEF worker
    <3>5. ASSUME Mapped(a)' PROVE partials'[a][0] \in {Nil, Rows(a)}
      <4> USE DEF TypeInv, RedisType
      <4>0. 0 \in ShardIds(a)
        BY WholeJobs
      <4>1. ASSUME NEW w \in Worker, PutPartial(w), job[w].analysis = a
            PROVE  partials'[a][0] = Rows(a)
        <5>1. pc[w] = "put" /\ w \in Busy
          BY <4>1 DEF PutPartial, Move, Busy
        <5>2. job[w] = RequeueJob(a)
          <6>1. job[w].kind = "map"
            BY <5>1 DEF KindInv, MapPoints
          <6> QED
            BY <2>2, <4>1, <5>1, <6>1, WholeJobs
        <5>3. partials'[a][0] = held[w][1]
          <6>1. job[w].shard = 0
            BY <5>2, WholeJobs
          <6>2. partials'[job[w].analysis][job[w].shard] = held[w][1]
            BY <4>1, PutSome
          <6> QED
            BY <4>1, <6>1, <6>2
        <5> QED
          BY <3>2, <4>1, <5>1, <5>3
      <4>2. CASE Mapped(a) /\ \A w \in Worker : PutPartial(w) => job[w].analysis # a
        <5>1. partials[a][0] \in {Nil, Rows(a)}
          BY <3>2, <4>2
        <5>2. ASSUME NEW b \in Analysis, NEW s \in ShardIds(b), ExpirePartial(b, s)
              PROVE  partials'[a][0] \in {Nil, Rows(a)}
          BY <4>0, <5>1, <5>2 DEF ExpirePartial
        <5>3. ASSUME NEW w \in Worker, PutPartial(w) PROVE partials'[a] = partials[a]
          BY <4>2, <5>3, PutSome, JobFields
        <5>4. ASSUME NEW w \in Worker, DropPartials(w)
              PROVE  partials'[a][0] \in {Nil, Rows(a)}
          BY <4>0, <5>1, <5>4 DEF DropPartials
        <5> QED
          BY <5>1, <5>2, <5>3, <5>4, PartialWriters
      <4> QED
        BY <1>3, <3>5, <4>1, <4>2, MappedSources
    <3> QED
      BY <3>3, <3>4, <3>5
  <2> QED
    BY <2>1, <2>3 DEF WholeInv
<1>4. CASE reaps'[a] = 0
  BY <1>4 DEF WholeInv
<1> QED
  BY <1>1, <1>2, <1>3, <1>4, ReapSources

----------------------------------------------------------------------------
(* What is scored, and how often it is stored. *)

(* Findings are scored on an aggregate the worker holds. *)
LEMMA ScoredStep ==
    ASSUME TypeInv, RowInv, SliceInv, [Next]_vars, ScoredInv,
           \A a \in Analysis : WholeInv(a)
    PROVE  ScoredInv'
<1> SUFFICES ASSUME NEW a \in Analysis, NEW f \in findings'[a]
             PROVE  f.parts \in {FullParts(a), << Rows(a) >>}
  BY DEF ScoredInv, ShardRows, FullParts, ShardCount, ShardIds, Slice, Rows
<1>1. \A g \in findings[a] : g.parts \in {FullParts(a), << Rows(a) >>}
  BY DEF ScoredInv
<1> USE DEF TypeInv, DbType
<1>2. ASSUME NEW u \in Upload, DeleteUpload(u) PROVE f \in findings[a]
  BY <1>2 DEF DeleteUpload
<1>3. ASSUME NEW w \in Worker, CommitAnomalies(w)
      PROVE  f.parts \in {FullParts(a), << Rows(a) >>}
  <2> DEFINE b == job[w].analysis
             mine == [id |-> saves[b] + 1, parts |-> held[w]]
  <2>1. pc[w] = "commit" /\ b \in Analysis
    BY <1>3, BusyJob DEF CommitAnomalies, CommitReplacing, Move
  <2>2. CASE f \in findings[a]
    BY <1>1, <2>2
  <2>3. CASE f \notin findings[a]
    <3>1. Exists(b) /\ b = a /\ f = mine
      BY <1>3, <2>1, <2>3 DEF CommitAnomalies, CommitReplacing
    <3>2. UploadOf[a] \in uploads
      BY <3>1 DEF RowInv
    <3>3. reaps[a] = 0 => held[w] = FullParts(a)
      BY <2>1, <3>1, <3>2 DEF SliceInv
    <3>4. reaps[a] # 0 => held[w] = << Rows(a) >>
      BY <2>1, <3>1, <3>2 DEF WholeInv
    <3> QED
      BY <3>1, <3>3, <3>4
  <2> QED
    BY <2>2, <2>3
<1> QED
  BY <1>1, <1>2, <1>3, FindingWriters

(* One save at a time: the one reduce's, or the one job's. *)
LEMMA OneSaver ==
    ASSUME TypeInv, FanInInv, NEW a \in Analysis, HandOverInv(a), expired[a] = 0,
           NEW v \in Worker, pc[v] \in {"save", "commit"}, job[v].analysis = a,
           NEW w \in Worker, pc[w] \in {"save", "commit"}, job[w].analysis = a
    PROVE  v = w
<1>1. CASE reaps[a] = 0
  <2>1. v \in Busy /\ w \in Busy /\ SameTask(job[v], job[w])
    BY DEF Busy, SameTask, FanInInv, KindInv, ReducePoints
  <2> QED
    BY <1>1, <2>1 DEF FanInInv, Undisturbed, OnceInv
<1>2. CASE reaps[a] # 0
  BY <1>2 DEF HandOverInv, SoleJob, Busy
<1> QED
  BY <1>1, <1>2

(* save_anomalies holds what its transaction has read until it commits. *)
LEMMA SeenFlow ==
    ASSUME ProcType, NEW w \in Worker, OwnSteps(w)
    PROVE  /\ \A v \in Worker \ {w} : seen'[v] = seen[v]
           /\ pc'[w] = "commit" => SaveAnomalies(w)
           /\ pc[w] = "commit" => pc'[w] # "commit"
<1> USE DEF ProcType
<1>1. CASE Reserve(w)
  BY <1>1 DEF Reserve, Move
<1>2. CASE Claim(w)
  BY <1>2 DEF Claim, ClaimFrom
<1>3. CASE Skip(w) \/ Fail(w) \/ Crash(w) \/ EnqueueReduce(w)
  BY <1>3 DEF Skip, Fail, Crash, EnqueueReduce, Release
<1>4. CASE LoadShard(w) \/ PutPartial(w)
  BY <1>4 DEF LoadShard, PutPartial, Move
<1>5. CASE RecordMapTiming(w) \/ Score(w)
  BY <1>5 DEF RecordMapTiming, Score, RecordTiming, Move
<1>6. CASE CompleteShard(w)
  BY <1>6 DEF CompleteShard, CompleteShardAt, Release
<1>7. CASE GetPartials(w)
  BY <1>7 DEF GetPartials, Merge, Move
<1>8. CASE SaveAnomalies(w)
  BY <1>8 DEF SaveAnomalies, Move
<1>9. CASE CommitAnomalies(w) \/ CommitNothing(w)
  BY <1>9 DEF CommitAnomalies, CommitReplacing, CommitNothing, Move
<1>10. CASE Finish(w) \/ RecordPersistTiming(w) \/ SkipEmbedding(w)
  BY <1>10 DEF Finish, RecordPersistTiming, SkipEmbedding, RecordTiming, Move
<1>11. CASE EmbedFindings(w) \/ SaveEmbeddings(w) \/ RecordEmbedTiming(w)
  BY <1>11 DEF EmbedFindings, SaveEmbeddings, RecordEmbedTiming, RecordTiming, Move
<1>12. CASE DropPartials(w)
  BY <1>12 DEF DropPartials, Move
<1>13. CASE RecordTotalTiming(w)
  BY <1>13 DEF RecordTotalTiming, Release
<1>14. CASE Raise(w)
  BY <1>14 DEF Raise
<1> QED
  BY <1>1, <1>2, <1>3, <1>4, <1>5, <1>6, <1>7, <1>8, <1>9, <1>10, <1>11, <1>12,
     <1>13, <1>14 DEF OwnSteps, WorkerStep, MapStep, ReduceStep

(* The findings a save has read are all there are, and it replaces them.    *)
LEMMA ReplacingStep ==
    ASSUME TypeInv, FanInInv, [Next]_vars, ReplacingInv,
           \A a \in Analysis : HandOverInv(a) /\ expired[a] = 0
    PROVE  ReplacingInv'
<1> USE DEF TypeInv, DbType
<1>1. ASSUME NEW w \in Worker, pc'[w] = "commit", NEW f \in findings'[job'[w].analysis]
      PROVE  f.id \in seen'[w]
  <2>1. CASE SaveAnomalies(w)
    <3>1. /\ findings' = findings /\ job' = job
          /\ seen' = [seen EXCEPT ![w] = {g.id : g \in findings[job[w].analysis]}]
      BY <2>1 DEF SaveAnomalies, db
    <3> QED
      BY <1>1, <3>1 DEF ProcType
  <2>2. CASE pc[w] = "commit" /\ job'[w] = job[w] /\ seen'[w] = seen[w]
    <3> DEFINE a == job[w].analysis
    <3>1. a \in Analysis
      BY <2>2, BusyJob
    <3>2. \A g \in findings[a] : g.id \in seen[w]
      BY <2>2 DEF ReplacingInv
    <3>3. ASSUME NEW v \in Worker, CommitAnomalies(v) PROVE f \in findings[a]
      <4>1. pc[v] = "commit" /\ pc'[v] # "commit" /\ job[v].analysis \in Analysis
        BY <3>3, BusyJob DEF CommitAnomalies, CommitReplacing, Move, ProcType
      <4>2. job[v].analysis # a
        BY <1>1, <2>2, <3>1, <4>1, OneSaver
      <4> QED
        BY <1>1, <2>2, <3>1, <3>3, <4>1, <4>2 DEF CommitAnomalies, CommitReplacing
    <3>4. ASSUME NEW u \in Upload, DeleteUpload(u) PROVE f \in findings[a]
      BY <1>1, <2>2, <3>1, <3>4 DEF DeleteUpload
    <3> QED
      BY <1>1, <2>2, <3>2, <3>3, <3>4, FindingWriters
  <2>3. ASSUME NEW v \in Worker, OwnSteps(v)
        PROVE  \/ SaveAnomalies(w)
               \/ pc[w] = "commit" /\ job'[w] = job[w] /\ seen'[w] = seen[w]
    BY <1>1, <2>3, SeenFlow, OwnStep
  <2> QED
    BY <1>1, <2>1, <2>2, <2>3, WorkersAlone DEF worker
<1>2. ASSUME NEW a \in Analysis, NEW f \in findings'[a], NEW g \in findings'[a]
      PROVE  f = g
  <2>1. \A x, y \in findings[a] : x = y
    BY DEF ReplacingInv
  <2>2. ASSUME NEW u \in Upload, DeleteUpload(u) PROVE findings'[a] \subseteq findings[a]
    BY <2>2 DEF DeleteUpload
  <2>3. ASSUME NEW w \in Worker, CommitAnomalies(w) PROVE f = g
    <3>1. pc[w] = "commit" /\ job[w].analysis \in Analysis
      BY <2>3, BusyJob DEF CommitAnomalies, CommitReplacing, Move
    <3>2. {x \in findings[job[w].analysis] : x.id \notin seen[w]} = {}
      BY <3>1 DEF ReplacingInv
    <3> QED
      BY <1>2, <2>1, <2>3, <3>1, <3>2 DEF CommitAnomalies, CommitReplacing
  <2> QED
    BY <1>2, <2>1, <2>2, <2>3, FindingWriters
<1> QED
  BY <1>1, <1>2 DEF ReplacingInv

----------------------------------------------------------------------------
(* What a queued row waits for. *)

(* BRPOP takes the head, and LPUSH and the MULTI lose nothing. *)
LEMMA KeptMembers ==
    ASSUME NEW q \in Seq(Job), NEW j \in Members(q)
    PROVE  /\ j = Head(q) \/ j \in Members(Tail(q))
           /\ \A n \in Seq(Job) : j \in Members(q \o n)
<1>1. PICK i \in 1 .. Len(q) : j = q[i]
  BY DEF Members
<1>2. j = Head(q) \/ j \in Members(Tail(q))
  <2>1. CASE i = 1
    BY <1>1, <2>1
  <2>2. CASE i # 1
    <3>1. i - 1 \in DOMAIN Tail(q) /\ Tail(q)[i - 1] = q[i]
      BY <1>1, <2>2
    <3> QED
      BY <1>1, <3>1 DEF Members
  <2> QED
    BY <2>1, <2>2
<1>3. ASSUME NEW n \in Seq(Job) PROVE j \in Members(q \o n)
  <2>1. i \in DOMAIN (q \o n) /\ (q \o n)[i] = q[i]
    BY <1>1
  <2> QED
    BY <1>1, <2>1 DEF Members
<1> QED
  BY <1>2, <1>3

(* A queued job stays, or a worker has just reserved it. *)
LEMMA QueuedStays ==
    ASSUME TypeInv, [Next]_vars, NEW j \in Queued
    PROVE  \/ j \in Queued'
           \/ \E w \in Worker : pc'[w] = "reserved" /\ job'[w] = j
<1> queue \in Seq(Job)
  BY DEF TypeInv, RedisType
<1>1. ASSUME NEW a \in Analysis, PublishAnalysis(a) PROVE j \in Queued'
  <2> DEFINE fan == [i \in 1 .. ShardCount(a) |-> MapJob(a, i - 1)]
  <2>1. fan \in Seq(Job)
    BY FanTyped
  <2>2. queue' = queue \o fan
    BY <1>1 DEF PublishAnalysis, Publish
  <2> HIDE DEF fan
  <2> QED
    BY <2>1, <2>2, KeptMembers DEF Queued
<1>2. ASSUME NEW w \in Worker, Reserve(w)
      PROVE  j \in Queued' \/ (pc'[w] = "reserved" /\ job'[w] = j)
  BY <1>2, KeptMembers DEF Reserve, Move, Queued, TypeInv, ProcType
<1>3. ASSUME NEW w \in Worker, EnqueueReduce(w) PROVE j \in Queued'
  <2>1. job[w] \in Job /\ queue' = Append(queue, ReduceJob(job[w]))
    BY <1>3, BusyJob DEF EnqueueReduce, TypeInv
  <2> QED
    BY <2>1, ReduceTyped, PushMembers DEF Queued
<1>4. ASSUME NEW w \in Worker, NEW a \in Analysis, EnqueueRequeued(w, a)
      PROVE  j \in Queued'
  BY <1>4, RequeueTyped, PushMembers DEF EnqueueRequeued, Queued
<1>5. CASE UNCHANGED queue
  BY <1>5 DEF Queued, Members
<1> QED
  BY <1>1, <1>2, <1>3, <1>4, <1>5, QueueWriters

(* A reserved job is claimed or skipped, unless the worker dies with it. *)
LEMMA ReservedStays ==
    ASSUME TypeInv, [Next]_vars, Losses = {}, NEW w \in Worker, pc[w] = "reserved",
           status[job[w].analysis] = "queued"
    PROVE  \/ pc'[w] = "reserved" /\ job'[w] = job[w]
           \/ status'[job[w].analysis] = "running"
<1>0. job[w] \in Job /\ job[w].analysis \in Analysis
  BY BusyJob DEF TypeInv
<1>1. ASSUME OwnSteps(w) PROVE status'[job[w].analysis] = "running"
  <2>1. Claim(w)
    <3>1. ~Skip(w) /\ ~Crash(w) /\ ~Reserve(w) /\ ~Fail(w)
      BY DEF Skip, Crash, Reserve, Move, Fail
    <3>2. ~Raise(w)
      BY ConstantsAssumption DEF Raise, InTry, MapPoints, ReducePoints, AfterFinish
    <3>3. ~MapStep(w)
      BY DEF MapStep, LoadShard, PutPartial, RecordMapTiming, RecordTiming, Move,
         CompleteShard, CompleteShardAt, EnqueueReduce
    <3>4. ~ReduceStep(w)
      BY DEF ReduceStep, GetPartials, Merge, Score, SaveAnomalies, CommitAnomalies,
         CommitReplacing, CommitNothing, Finish, RecordPersistTiming, SkipEmbedding,
         EmbedFindings, SaveEmbeddings, RecordEmbedTiming, RecordTiming, Move,
         DropPartials, RecordTotalTiming
    <3> QED
      BY <1>1, <3>1, <3>2, <3>3, <3>4 DEF OwnSteps, WorkerStep
  <2> QED
    BY <1>0, <2>1 DEF Claim, ClaimFrom, TypeInv, DbType
<1>2. ASSUME NEW v \in Worker, OwnSteps(v), v # w
      PROVE  pc'[w] = pc[w] /\ job'[w] = job[w]
  BY <1>2, OwnStep DEF TypeInv
<1> QED
  BY <1>1, <1>2, WorkersAlone DEF worker

(* A row on a reaper's list is enqueued, unless the reaper dies with it. *)
LEMMA ListedStays ==
    ASSUME TypeInv, [Next]_vars, Losses = {}, NEW w \in Worker, NEW a \in requeued[w]
    PROVE  a \in requeued'[w] \/ RequeueJob(a) \in Queued'
<1> USE DEF TypeInv, OtherType
<1>1. ASSUME NEW v \in Worker, RequeueStale(v) PROVE a \in requeued'[w]
  BY <1>1 DEF RequeueStale, RequeueReturning
<1>2. ASSUME NEW v \in Worker, ReaperFails(v) \/ Crash(v) PROVE a \in requeued'[w]
  BY <1>2 DEF ReaperFails, Crash
<1>3. ASSUME NEW v \in Worker, NEW b \in Analysis, EnqueueRequeued(v, b)
      PROVE  a \in requeued'[w] \/ RequeueJob(a) \in Queued'
  <2>1. queue \in Seq(Job)
    BY DEF RedisType
  <2>2. RequeueJob(b) \in Queued'
    BY <1>3, <2>1, RequeueTyped, PushMembers DEF EnqueueRequeued, Queued
  <2> QED
    BY <1>3, <2>2 DEF EnqueueRequeued
<1> QED
  BY <1>1, <1>2, <1>3, ReaperWriters

(* A row becomes queued with its launch under way, or on a reaper's list;   *)
(* and the launch ends with its jobs published, or the row failed.          *)
LEMMA AwaitedStep ==
    ASSUME TypeInv, [Next]_vars, Losses = {}, AwaitedInv
    PROVE  AwaitedInv'
<1> SUFFICES ASSUME NEW a \in Analysis, status'[a] = "queued", gw'[a] = "ended"
             PROVE  Awaited(a)'
  BY DEF AwaitedInv
<1>1. CASE status[a] # "queued"
  <2> USE DEF TypeInv, DbType, OtherType
  <2>1. ASSUME NEW b \in Analysis, CreateAnalysis(b) \/ FailAnalysis(b) PROVE FALSE
    BY <1>1, <2>1 DEF CreateAnalysis, FailAnalysis
  <2>2. ASSUME NEW u \in Upload, DeleteUpload(u) PROVE FALSE
    BY <1>1, <2>2 DEF DeleteUpload
  <2>3. ASSUME NEW w \in Worker, Claim(w) \/ Finish(w) \/ Fail(w) PROVE FALSE
    BY <1>1, <2>3 DEF Claim, ClaimFrom, Finish, Fail
  <2>4. ASSUME NEW w \in Worker, RequeueStale(w) PROVE Awaited(a)'
    <3>1. a \in requeued'[w]
      BY <1>1, <2>4 DEF RequeueStale, RequeueReturning
    <3> QED
      BY <3>1 DEF Awaited
  <2> QED
    BY <1>1, <2>1, <2>2, <2>3, <2>4, StatusWriters
<1>2. CASE status[a] = "queued" /\ gw[a] # "ended"
  <2> USE DEF TypeInv, OtherType
  <2>1. CASE PublishAnalysis(a)
    <3> DEFINE fan == [i \in 1 .. ShardCount(a) |-> MapJob(a, i - 1)]
    <3>1. ShardCount(a) \in Nat \ {0} /\ queue \in Seq(Job) /\ queue' = queue \o fan
      BY <2>1, ShardCountCovers DEF PublishAnalysis, Publish, RedisType
    <3>2. /\ Len(queue) + 1 \in DOMAIN (queue \o fan)
          /\ (queue \o fan)[Len(queue) + 1] = fan[1]
      <4>1. fan \in Seq(Job) /\ Len(fan) = ShardCount(a)
        BY FanTyped
      <4> HIDE DEF fan
      <4>2. Len(queue) \in Nat /\ Len(fan) \in Nat \ {0}
        BY <3>1, <4>1
      <4> QED
        BY <3>1, <4>1, <4>2
    <3>3. fan[1] \in Queued' /\ fan[1].analysis = a
      <4>1. fan[1].analysis = a
        BY <3>1 DEF MapJob
      <4> HIDE DEF fan
      <4>2. Len(queue) + 1 \in DOMAIN queue' /\ queue'[Len(queue) + 1] = fan[1]
        BY <3>1, <3>2
      <4> QED
        BY <4>1, <4>2 DEF Queued, Members
    <3> QED
      BY <3>3 DEF Awaited
  <2>2. CASE FailAnalysis(a)
    BY <1>2, <2>2 DEF FailAnalysis, Exists, Present, DbType
  <2>3. ASSUME NEW b \in Analysis, PublishAnalysis(b) \/ FailAnalysis(b), b # a
        PROVE  FALSE
    BY <1>2, <2>3 DEF PublishAnalysis, Publish, FailAnalysis
  <2>4. ASSUME NEW b \in Analysis,
               \/ CreateAnalysis(b) \/ PublishFails(b)
               \/ FailAnalysisFails(b) \/ GatewayDies(b)
        PROVE  FALSE
    BY <1>2, <2>4 DEF CreateAnalysis, PublishFails, FailAnalysisFails, GatewayDies
  <2> QED
    BY <1>2, <2>1, <2>2, <2>3, <2>4, LaunchWriters
<1>3. CASE status[a] = "queued" /\ gw[a] = "ended"
  <2>1. ASSUME NEW j \in Queued, j.analysis = a PROVE Awaited(a)'
    BY <2>1, QueuedStays DEF Awaited
  <2>2. ASSUME NEW w \in Worker, pc[w] = "reserved", job[w].analysis = a
        PROVE  Awaited(a)'
    BY <1>3, <2>2, ReservedStays DEF Awaited
  <2>3. ASSUME NEW w \in Worker, a \in requeued[w] PROVE Awaited(a)'
    <3>1. RequeueJob(a).analysis = a
      BY DEF RequeueJob
    <3> QED
      BY <2>3, <3>1, ListedStays DEF Awaited
  <2> QED
    BY <1>3, <2>1, <2>2, <2>3 DEF AwaitedInv, Awaited
<1> QED
  BY <1>1, <1>2, <1>3

----------------------------------------------------------------------------
(* What is done stays done. *)

LEMMA DoneSources ==
    ASSUME TypeInv, [Next]_vars, NEW a \in Analysis, status'[a] = "done",
           status[a] # "done"
    PROVE  \E w \in Worker : Finish(w) /\ job[w].analysis = a
<1> USE DEF TypeInv, DbType
<1>1. ASSUME NEW b \in Analysis, CreateAnalysis(b) \/ FailAnalysis(b) PROVE FALSE
  BY <1>1 DEF CreateAnalysis, FailAnalysis
<1>2. ASSUME NEW u \in Upload, DeleteUpload(u) PROVE FALSE
  BY <1>2 DEF DeleteUpload
<1>3. ASSUME NEW w \in Worker, Claim(w) \/ Fail(w) \/ RequeueStale(w) PROVE FALSE
  BY <1>3 DEF Claim, ClaimFrom, Fail, RequeueStale, RequeueReturning
<1>4. ASSUME NEW w \in Worker, Finish(w) PROVE job[w].analysis = a
  BY <1>4 DEF Finish
<1> QED
  BY <1>1, <1>2, <1>3, <1>4, StatusWriters

(* Whoever finishes is the last: the shards are all counted down, none      *)
(* failed, and there is one reduce; or there is one job.                    *)
LEMMA LastAtFinish ==
    ASSUME TypeInv, WorkerInv, OriginalInv, FanInInv,
           NEW a \in Analysis, HandOverInv(a), expired[a] = 0,
           NEW w \in Worker, pc[w] = "finish", job[w].analysis = a
    PROVE  /\ gw[a] = "ended" /\ \A v \in Worker : a \notin requeued[v]
           /\ \A j \in Queued : j.analysis # a
           /\ \A v \in Busy : job[v].analysis = a => v = w
<1>1. w \in Busy /\ job[w] \in Job /\ job[w].kind = "reduce"
  BY DEF Busy, WorkerInv, FanInInv, KindInv, ReducePoints
<1>2. gw[a] = "ended" /\ \A v \in Worker : a \notin requeued[v]
  BY <1>1 DEF HandOverInv, NoWork
<1>3. CASE reaps[a] # 0
  BY <1>1, <1>2, <1>3 DEF HandOverInv, SoleJob
<1>4. CASE reaps[a] = 0
  <2>1. OnceInv(a) /\ CountInv(a)
    BY <1>4 DEF FanInInv, Undisturbed
  <2>2. reduces[a] = 1
    BY <1>1, <2>1 DEF CountInv
  <2>3. MapsOut(a) = {} /\ Closing(a) = {} /\ Failed(a) = {}
    BY <2>1, <2>2 DEF CountInv
  <2>4. ASSUME NEW j \in Queued, j.analysis = a PROVE FALSE
    <3>1. j \in Job /\ Original(j) /\ j.kind \in {"map", "reduce"}
      <4>1. j \in Job
        BY DEF TypeInv, RedisType, Queued, Members
      <4> QED
        BY <1>4, <2>4, <4>1, JobFields DEF OriginalInv
    <3>2. CASE j.kind = "map"
      BY <2>3, <2>4, <3>1, <3>2, OriginalMap DEF MapsOut
    <3>3. CASE j.kind = "reduce"
      BY <1>1, <2>1, <2>4, <3>3 DEF OnceInv, SameTask
    <3> QED
      BY <3>1, <3>2, <3>3
  <2>5. ASSUME NEW v \in Busy, job[v].analysis = a PROVE v = w
    <3>1. v \in Worker /\ job[v] \in Job /\ Original(job[v])
          /\ job[v].kind \in {"map", "reduce"}
      BY <1>4, <2>5, JobFields DEF OriginalInv, WorkerInv, Busy
    <3>2. CASE job[v].kind = "map"
      <4>1. job[v] = MapJob(a, job[v].shard) /\ job[v].shard \in ShardIds(a)
        BY <2>5, <3>1, <3>2, OriginalMap
      <4>2. ~Live(v) /\ pc[v] # "failing" /\ pc[v] # "fanin"
        BY <2>3, <2>5, <3>1, <4>1 DEF MapsOut, Failed, Closing
      <4> QED
        BY <4>2 DEF Live, Busy
    <3>3. CASE job[v].kind = "reduce"
      BY <1>1, <2>1, <2>5, <3>3 DEF OnceInv, SameTask
    <3> QED
      BY <3>1, <3>2, <3>3
  <2> QED
    BY <1>2, <2>4, <2>5
<1> QED
  BY <1>3, <1>4

(* The steps after finish end the job, unless the row or a finding goes.    *)
LEMMA FinishedFlow ==
    ASSUME ProcType, NEW w \in Worker, OwnSteps(w), pc[w] \in AfterFinish,
           Exists(job[w].analysis), FaultPoints \cap AfterFinish = {},
           pc[w] = "saveVectors" =>
              seen[w] \subseteq {f.id : f \in findings[job[w].analysis]}
    PROVE  /\ pc'[w] \in AfterFinish \cup {"idle"}
           /\ pc'[w] = "saveVectors" =>
                 seen'[w] = {f.id : f \in findings[job[w].analysis]}
<1> USE DEF ProcType, AfterFinish
<1>1. CASE Reserve(w) \/ Claim(w) \/ Skip(w) \/ Fail(w)
  BY <1>1 DEF Reserve, Move, Claim, ClaimFrom, Skip, Fail
<1>2. CASE Crash(w)
  BY <1>2 DEF Crash, Release
<1>3. CASE MapStep(w)
  BY <1>3 DEF MapStep, LoadShard, PutPartial, RecordMapTiming, RecordTiming,
     CompleteShard, CompleteShardAt, EnqueueReduce, Move
<1>4. CASE GetPartials(w) \/ Score(w) \/ SaveAnomalies(w)
  BY <1>4 DEF GetPartials, Merge, Score, RecordTiming, SaveAnomalies, Move
<1>5. CASE CommitAnomalies(w) \/ CommitNothing(w) \/ Finish(w)
  BY <1>5 DEF CommitAnomalies, CommitReplacing, CommitNothing, Finish, Move
<1>6. CASE RecordPersistTiming(w) \/ SkipEmbedding(w)
  BY <1>6 DEF RecordPersistTiming, RecordTiming, SkipEmbedding, Move
<1>7. CASE EmbedFindings(w)
  BY <1>7 DEF EmbedFindings, Move
<1>8. CASE SaveEmbeddings(w)
  BY <1>8 DEF SaveEmbeddings, Move
<1>9. CASE RecordEmbedTiming(w) \/ DropPartials(w)
  BY <1>9 DEF RecordEmbedTiming, RecordTiming, DropPartials, Move
<1>10. CASE RecordTotalTiming(w)
  BY <1>10 DEF RecordTotalTiming, Release
<1>11. CASE Raise(w)
  BY <1>11 DEF Raise
<1> QED
  BY <1>1, <1>2, <1>3, <1>4, <1>5, <1>6, <1>7, <1>8, <1>9, <1>10, <1>11
     DEF OwnSteps, WorkerStep, ReduceStep

(* Nothing but a deletion takes a done row or its findings away.            *)
LEMMA DoneKept ==
    ASSUME TypeInv, [Next]_vars, DoneInv, NEW a \in Analysis, status[a] = "done"
    PROVE  \/ status'[a] = "done" /\ findings'[a] = findings[a]
           \/ status'[a] = "deleted"
<1> USE DEF TypeInv, DbType
<1>1. \A w \in Worker : job[w].analysis = a =>
         pc[w] \notin {"reserved", "failing", "commit"}
  BY DEF DoneInv, Busy, AfterFinish
<1>2. ASSUME NEW u \in Upload, DeleteUpload(u)
      PROVE  \/ status'[a] = "done" /\ findings'[a] = findings[a]
             \/ status'[a] = "deleted"
  BY <1>2 DEF DeleteUpload, Exists, Present
<1>3. ASSUME \A u \in Upload : ~DeleteUpload(u) PROVE status'[a] = "done"
  <2>1. ASSUME NEW b \in Analysis, CreateAnalysis(b) \/ FailAnalysis(b)
        PROVE  status'[a] = "done"
    BY <2>1 DEF CreateAnalysis, FailAnalysis, DoneInv
  <2>2. ASSUME NEW w \in Worker, Claim(w) \/ Finish(w) \/ Fail(w) \/ RequeueStale(w)
        PROVE  status'[a] = "done"
    BY <1>1, <2>2 DEF Claim, ClaimFrom, Finish, Fail, RequeueStale, RequeueReturning,
       Stale
  <2> QED
    BY <1>3, <2>1, <2>2, StatusWriters
<1>4. ASSUME \A u \in Upload : ~DeleteUpload(u) PROVE findings'[a] = findings[a]
  <2>1. ASSUME NEW w \in Worker, CommitAnomalies(w) PROVE findings'[a] = findings[a]
    BY <1>1, <2>1 DEF CommitAnomalies, CommitReplacing, Move
  <2> QED
    BY <1>4, <2>1, FindingWriters
<1> QED
  BY <1>2, <1>3, <1>4

(* Nobody else gets to work on it. *)
LEMMA DoneStep ==
    ASSUME TypeInv, WorkerInv, RowInv, OriginalInv, FanInInv, [Next]_vars, DoneInv,
           FaultPoints \cap AfterFinish = {},
           \A a \in Analysis : HandOverInv(a) /\ expired[a] = 0
    PROVE  DoneInv'
<1> SUFFICES ASSUME NEW a \in Analysis, status'[a] = "done"
             PROVE  /\ gw'[a] = "ended"
                    /\ \A w \in Worker : a \notin requeued'[w]
                    /\ \A j \in Queued' : j.analysis # a
                    /\ \A w \in Busy' : job'[w].analysis = a =>
                          /\ pc'[w] \in AfterFinish
                          /\ pc'[w] = "saveVectors" =>
                                seen'[w] \subseteq {f.id : f \in findings'[a]}
  BY DEF DoneInv
<1>1. CASE status[a] # "done"
  <2>1. PICK w \in Worker : Finish(w) /\ job[w].analysis = a
    BY <1>1, DoneSources
  <2>2. pc[w] = "finish" /\ pc'[w] = "persistTiming"
    BY <2>1 DEF Finish, Move, TypeInv, ProcType
  <2>3. /\ UNCHANGED <<gw, requeued, queue, job>>
        /\ \A v \in Worker : v # w => pc'[v] = pc[v]
    BY <2>1 DEF Finish, Move, TypeInv, ProcType, redis
  <2>4. /\ gw[a] = "ended" /\ \A v \in Worker : a \notin requeued[v]
        /\ \A j \in Queued : j.analysis # a
        /\ \A v \in Busy : job[v].analysis = a => v = w
    BY <2>1, <2>2, LastAtFinish
  <2>5. Queued' = Queued /\ Busy' = Busy
    BY <2>2, <2>3 DEF Queued, Members, Busy
  <2> QED
    BY <2>2, <2>3, <2>4, <2>5 DEF AfterFinish
<1>2. CASE status[a] = "done"
  <2>1. /\ gw[a] = "ended" /\ \A w \in Worker : a \notin requeued[w]
        /\ \A j \in Queued : j.analysis # a
        /\ \A w \in Busy : job[w].analysis = a =>
              /\ pc[w] \in AfterFinish
              /\ pc[w] = "saveVectors" => seen[w] \subseteq {f.id : f \in findings[a]}
    BY <1>2 DEF DoneInv
  <2>2. gw'[a] = "ended"
    BY <2>1, LaunchEnds
  <2>3. \A w \in Worker : a \notin requeued'[w]
    BY <1>2, <2>1, ListSources DEF Stale
  <2>4. \A j \in Queued' : j.analysis # a
    <3>1. ASSUME NEW w \in Worker, Reserve(w) PROVE Queued' \subseteq Queued
      BY <3>1, PopMembers DEF Reserve, Queued, TypeInv, RedisType
    <3>2. ~PublishAnalysis(a) /\ \A w \in Worker : ~EnqueueRequeued(w, a)
      BY <2>1 DEF PublishAnalysis, Publish, EnqueueRequeued
    <3>3. \A w \in Worker : ~(EnqueueReduce(w) /\ job[w].analysis = a)
      BY <2>1 DEF EnqueueReduce, Busy, AfterFinish
    <3>4. (\A w \in Worker : ~Reserve(w)) => SameJobs(a)
      BY <3>2, <3>3, OthersQueue DEF QueueSteps
    <3>5. SameJobs(a) => \A j \in Queued' : j.analysis # a
      BY <2>1 DEF SameJobs, Queued, Members
    <3> QED
      BY <2>1, <3>1, <3>4, <3>5
  <2>5. ASSUME NEW v \in Busy', job'[v].analysis = a
        PROVE  /\ pc'[v] \in AfterFinish
               /\ pc'[v] = "saveVectors" => seen'[v] \subseteq {f.id : f \in findings'[a]}
    <3>1. v \in Worker /\ v \in Busy /\ job[v].analysis = a /\ pc'[v] # "idle"
      BY <2>1, <2>5, JobSources DEF Busy
    <3>2. findings'[a] = findings[a]
      BY <1>2, DoneKept
    <3>3. CASE pc'[v] = pc[v] /\ seen'[v] = seen[v]
      BY <2>1, <3>1, <3>2, <3>3
    <3>4. CASE OwnSteps(v)
      <4>1. Exists(job[v].analysis)
        BY <1>2, <3>1 DEF Exists, Present
      <4> QED
        BY <2>1, <3>1, <3>2, <3>4, <4>1, FinishedFlow DEF TypeInv
    <3>5. ASSUME NEW w \in Worker, OwnSteps(w), v # w
          PROVE  pc'[v] = pc[v] /\ seen'[v] = seen[v]
      BY <3>1, <3>5, OwnStep, SeenFlow DEF TypeInv
    <3> QED
      BY <3>1, <3>3, <3>4, <3>5, WorkersAlone DEF worker
  <2> QED
    BY <2>2, <2>3, <2>4, <2>5
<1> QED
  BY <1>1, <1>2

----------------------------------------------------------------------------
(* Together. *)

(* Nothing is requeued, scored or queued yet. *)
LEMMA RecoveryInit ==
    Init => PromptInv /\ ScoredInv /\ ReplacingInv /\ AwaitedInv
<1> SUFFICES ASSUME Init
             PROVE  PromptInv /\ ScoredInv /\ ReplacingInv /\ AwaitedInv
  OBVIOUS
<1>1. Queued = {} /\ Busy = {}
  BY DEF Init, Queued, Members, Busy
<1>2. PromptInv
  BY <1>1 DEF Init, PromptInv, HandOverInv, WholeInv, NoWork
<1>3. ScoredInv /\ ReplacingInv /\ AwaitedInv
  BY DEF Init, ScoredInv, ReplacingInv, AwaitedInv
<1> QED
  BY <1>2, <1>3

(* What holds of every reachable state when jobs are prompt. *)
RecoveryInv == FanOutInv /\ PromptInv /\ ScoredInv

LEMMA RecoveryStep == Prompt /\ RecoveryInv /\ [Next]_vars => RecoveryInv'
<1> SUFFICES ASSUME Prompt, RecoveryInv, [Next]_vars PROVE RecoveryInv'
  OBVIOUS
<1>1. TypeInv /\ RowInv /\ SliceInv /\ KindInv
  BY TypeParts DEF RecoveryInv, FanOutInv, PipelineInv, FanInInv
<1>2. \A a \in Analysis : HandOverInv(a) /\ WholeInv(a)
  BY DEF RecoveryInv, PromptInv
<1>3. FanOutInv'
  BY PipelineStep, FanInStep DEF RecoveryInv, FanOutInv
<1>4. PromptInv'
  BY <1>1, <1>2, HandOverStep, WholeStep DEF PromptInv
<1>5. ScoredInv'
  BY <1>1, <1>2, ScoredStep DEF RecoveryInv
<1> QED
  BY <1>3, <1>4, <1>5 DEF RecoveryInv

(* If jobs end within stale_after_seconds, a requeued analysis is worked on *)
(* by one job at a time, over the whole upload, however many workers and    *)
(* reapers there are and whatever they lose.                                *)
THEOREM RecoveryInvariant ==
    ASSUME Prompt
    PROVE  Spec => []RecoveryInv
<1>1. Init => RecoveryInv
  BY PipelineInit, FanInInit, RecoveryInit DEF RecoveryInv, FanOutInv
<1>2. RecoveryInv /\ [Next]_vars => RecoveryInv'
  BY RecoveryStep
<1> QED
  BY <1>1, <1>2, PTL DEF Spec

(* If jobs end within stale_after_seconds, every done analysis has findings *)
(* and they were scored on an aggregate that counts every log row exactly   *)
(* once: the reaper's one job over the whole upload, run_map's shards and   *)
(* an old counter never mix into one report.                                *)
THEOREM PromptDoneExact ==
    ASSUME Prompt
    PROVE  Spec => []DoneIsExact
<1>1. RecoveryInv => DoneIsExact
  <2> SUFFICES ASSUME RecoveryInv, NEW a \in Analysis, status[a] = "done"
               PROVE  /\ findings[a] # {}
                      /\ \A f \in findings[a] : ExactlyOnce(a, f.parts)
    BY DEF DoneIsExact, DoneExact
  <2>1. findings[a] # {}
    BY DEF RecoveryInv, FanOutInv, PipelineInv, FindingsInv
  <2>2. \A f \in findings[a] : f.parts \in {FullParts(a), << Rows(a) >>}
    BY DEF RecoveryInv, ScoredInv
  <2>3. ExactlyOnce(a, << Rows(a) >>)
    BY DEF ExactlyOnce
  <2> QED
    BY <2>1, <2>2, <2>3, ShardsPartition
<1> QED
  BY <1>1, RecoveryInvariant, PTL

(* ... and if no key expires either, save_anomalies never stores a second   *)
(* report beside the first: no two saves of an analysis are open at a time. *)
THEOREM PromptReplaces ==
    ASSUME Prompt, MaxExpiries = 0
    PROVE  Spec => []FindingsReplaced
<1>1. RecoveryInv /\ ReplacingInv /\ [Next]_vars => ReplacingInv'
  <2> SUFFICES ASSUME RecoveryInv, ReplacingInv, [Next]_vars PROVE ReplacingInv'
    OBVIOUS
  <2>1. TypeInv /\ FanInInv
    BY TypeParts DEF RecoveryInv, FanOutInv, PipelineInv
  <2>2. \A a \in Analysis : HandOverInv(a) /\ expired[a] = 0
    BY <2>1 DEF RecoveryInv, PromptInv, TypeInv, BudgetType
  <2> QED
    BY <2>1, <2>2, ReplacingStep
<1>2. ReplacingInv => FindingsReplaced
  <2> SUFFICES ASSUME ReplacingInv, NEW a \in Analysis
               PROVE  Cardinality(findings[a]) <= 1
    BY DEF FindingsReplaced
  <2>1. CASE findings[a] = {}
    BY <2>1, FS_EmptySet
  <2>2. ASSUME NEW f \in findings[a] PROVE Cardinality(findings[a]) <= 1
    <3>1. findings[a] = {f}
      BY <2>2 DEF ReplacingInv
    <3>2. Cardinality({f}) = 1
      BY FS_Singleton
    <3> QED
      BY <3>1, <3>2
  <2> QED
    BY <2>1, <2>2
<1>3. Init => ReplacingInv
  BY RecoveryInit
<1> QED
  BY <1>1, <1>2, <1>3, RecoveryInvariant, PTL DEF Spec

(* ... and if no call raises once the row is done, the status and the       *)
(* findings a reader has seen stay until the upload is deleted: whoever     *)
(* finishes is the last to work on the analysis, and a shard that failed    *)
(* keeps the counter from closing.                                          *)
THEOREM PromptStable ==
    ASSUME Prompt, MaxExpiries = 0, FaultPoints \cap AfterFinish = {}
    PROVE  Spec => DoneIsStable
<1>1. RecoveryInv /\ DoneInv /\ [Next]_vars => DoneInv'
  <2> SUFFICES ASSUME RecoveryInv, DoneInv, [Next]_vars PROVE DoneInv'
    OBVIOUS
  <2>1. TypeInv /\ WorkerInv /\ RowInv /\ OriginalInv /\ FanInInv
    BY TypeParts DEF RecoveryInv, FanOutInv, PipelineInv
  <2>2. \A a \in Analysis : HandOverInv(a) /\ expired[a] = 0
    BY <2>1 DEF RecoveryInv, PromptInv, TypeInv, BudgetType
  <2> QED
    BY <2>1, <2>2, DoneStep
<1>2. RecoveryInv /\ DoneInv /\ [Next]_vars =>
         [\A a \in Analysis : status[a] = "done" =>
             \/ status'[a] = "done" /\ findings'[a] = findings[a]
             \/ status'[a] = "deleted"]_vars
  BY DoneKept, TypeParts DEF RecoveryInv, FanOutInv, PipelineInv
<1>3. Init => DoneInv
  BY DEF Init, DoneInv
<1> QED
  BY <1>1, <1>2, <1>3, RecoveryInvariant, PTL DEF Spec, DoneIsStable

(* Where no failure strikes between the insert of the row and its publish,  *)
(* between BRPOP and claim, or between requeue_stale and enqueue, a queued  *)
(* row has a job on the queue, with a worker or on a reaper's list: these   *)
(* three windows are the only ones in which an analysis is forgotten.       *)
THEOREM QueuedKeepsJob ==
    ASSUME Losses = {}
    PROVE  Spec => []QueuedHasJob
<1>1. PipelineInv /\ AwaitedInv /\ [Next]_vars => AwaitedInv'
  BY AwaitedStep, TypeParts DEF PipelineInv
<1>2. AwaitedInv => QueuedHasJob
  BY DEF AwaitedInv, QueuedHasJob, Awaited, InFlight, Queued, Members
<1>3. Init => AwaitedInv
  BY RecoveryInit
<1> QED
  BY <1>1, <1>2, <1>3, PipelineInvariant, PTL DEF Spec
=============================================================================
