-------------------------- MODULE AnalysisPipeline --------------------------
(***************************************************************************)
(* The life of an analysis between the gateway, Redis, Postgres and the    *)
(* workers.                                                                *)
(*                                                                         *)
(* The gateway inserts the row and publishes one map job per shard; the    *)
(* workers reserve jobs, aggregate their shards into partials, count a     *)
(* pending counter down, and whoever closes it enqueues the reduce; the    *)
(* reduce merges the partials, saves the findings and finishes the row.    *)
(* Every worker process also runs a reaper, which puts a row whose         *)
(* heartbeat is stale back on the queue as ONE job over the whole upload.  *)
(*                                                                         *)
(* Data is abstracted to what the counting depends on: a partial is the    *)
(* set of log rows it aggregates, and a merged aggregate is the sequence   *)
(* of the partials it adds up, so a row that is counted twice or not at    *)
(* all is visible.                                                         *)
(***************************************************************************)
EXTENDS Integers, Sequences, FiniteSets

CONSTANTS
    Worker,        \* worker processes
    Upload,        \* uploads that were ingested
    Analysis,      \* analysis ids the gateway may create
    UploadOf,      \* the upload each analysis is about
    EntryCount,    \* log rows of each upload
    ShardSize,     \* config ShardSize: rows per map job
    WholeFile,     \* the limit of a requeued job (10_000_000)
    Nil,           \* an absent Redis key
    NoJob,         \* a worker with nothing reserved
    (* What the environment may do, and how often. *)
    MaxCrashes,    \* worker or gateway processes that die
    MaxFaults,     \* calls to Postgres or Redis that raise
    MaxReaps,      \* times each analysis is requeued
    MaxExpiries,   \* Redis keys per analysis that outlive PARTIAL_TTL_SECONDS
    FaultPoints,   \* worker steps whose call may raise
    Losses,        \* windows in which a failure may lose a queued row's job
    Prompt         \* does every job end within stale_after_seconds?

(* The steps of a worker that run inside handle()'s try block. *)
MapPoints == {"load", "put", "mapTiming", "complete", "fanin"}
ReducePoints == {"merge", "score", "save", "commit", "finish"}
AfterFinish == {"persistTiming", "embed", "saveVectors", "embedTiming", "drop",
                "totalTiming"}
InTry == MapPoints \cup ReducePoints \cup AfterFinish
Points == {"idle", "reserved", "failing"} \cup InTry

ASSUME ConstantsAssumption ==
    /\ UploadOf \in [Analysis -> Upload]
    /\ EntryCount \in [Upload -> Nat]
    /\ ShardSize \in Nat \ {0}
    /\ WholeFile \in Nat
    /\ \A u \in Upload : EntryCount[u] <= WholeFile
    /\ MaxCrashes \in Nat /\ MaxFaults \in Nat
    /\ MaxReaps \in Nat /\ MaxExpiries \in Nat
    /\ FaultPoints \subseteq InTry
    /\ Losses \subseteq {"launch", "reserved", "requeue"}
    /\ Prompt \in BOOLEAN

----------------------------------------------------------------------------
(* Shards and jobs. *)

Rows(a) == 0 .. EntryCount[UploadOf[a]] - 1

(* queue.PublishAnalysis: ceil(entries / size), and one job for no rows.    *)
ShardCount(a) ==
    LET shards == (EntryCount[UploadOf[a]] + ShardSize - 1) \div ShardSize
    IN  IF shards < 1 THEN 1 ELSE shards

ShardIds(a) == 0 .. ShardCount(a) - 1

(* The jobs of the queue: kind, analysis, and the part of it they cover.    *)
JobRecord == [kind : {"map", "reduce"}, analysis : Analysis, shard : Nat,
              count : Nat, offset : Nat, limit : Nat]
Job == {j \in JobRecord : /\ j.shard \in ShardIds(j.analysis)
                          /\ j.count \in 1 .. ShardCount(j.analysis)}

ASSUME NilAssumption ==
    /\ NoJob \notin JobRecord
    /\ Nil \notin Int
    /\ \A a \in Analysis : \A rows \in SUBSET Rows(a) : rows # Nil

(* Mutant: shards numbered from one. *)
MutMapJobFromOne(a, s) ==
    [kind |-> "map", analysis |-> a, shard |-> s + 1, count |-> ShardCount(a),
     offset |-> s * ShardSize, limit |-> ShardSize]

MapJob(a, s) ==
    [kind |-> "map", analysis |-> a, shard |-> s, count |-> ShardCount(a),
     offset |-> s * ShardSize, limit |-> ShardSize]

ReduceJob(j) ==
    [kind |-> "reduce", analysis |-> j.analysis, shard |-> 0,
     count |-> j.count, offset |-> 0, limit |-> 0]

(* Mutant: the requeued job covers one shard's rows only. *)
MutRequeueOneShard(a) ==
    [kind |-> "map", analysis |-> a, shard |-> 0, count |-> 1,
     offset |-> 0, limit |-> ShardSize]

RequeueJob(a) ==
    [kind |-> "map", analysis |-> a, shard |-> 0, count |-> 1,
     offset |-> 0, limit |-> WholeFile]

(* The rows LIMIT/OFFSET select in line order. *)
Slice(a, offset, limit) ==
    {r \in Rows(a) : offset <= r /\ r < offset + limit}

----------------------------------------------------------------------------
VARIABLES
    (* Postgres *)
    uploads,    \* uploads (and their log_entries) that exist
    status,     \* analyses.status; "absent" before the row, "deleted" after
    beat,       \* analyses.heartbeat_at: "null", "fresh" or "stale"
    findings,   \* the saves whose anomalies rows are stored (even if none)
    saves,      \* saves committed so far: the next save's id
    (* Redis *)
    queue,      \* logmonitor:jobs, first to be popped first
    pending,    \* logmonitor:pending:<id>
    partials,   \* logmonitor:partial:<id>:<shard>
    (* processes *)
    gw,         \* launchAnalysis, per analysis
    pc,         \* what each worker does next
    job,        \* the job it reserved
    held,       \* the aggregate(s) it computed
    seen,       \* the finding ids its transaction read
    requeued,   \* rows its reaper requeued and has not enqueued yet
    (* history and bounds *)
    reduces,    \* reduce jobs enqueued for each analysis
    reaps, expired, crashes, faults

db == <<uploads, status, beat, findings, saves>>
redis == <<queue, pending, partials>>
worker == <<pc, job, held, seen>>
budget == <<reaps, expired, crashes, faults>>
vars == <<uploads, status, beat, findings, saves, queue, pending, partials,
          gw, pc, job, held, seen, requeued, reduces, reaps, expired, crashes,
          faults>>

Status == {"absent", "queued", "running", "done", "failed", "deleted"}
Present == {"queued", "running", "done", "failed"}
Terminal == {"done", "failed"}

Exists(a) == status[a] \in Present

TypeOK ==
    /\ uploads \subseteq Upload
    /\ status \in [Analysis -> Status]
    /\ beat \in [Analysis -> {"null", "fresh", "stale"}]
    /\ findings \in [Analysis -> SUBSET [id : Nat, parts : Seq(SUBSET Nat)]]
    /\ saves \in [Analysis -> Nat]
    /\ queue \in Seq(Job)
    /\ pending \in [Analysis -> {Nil} \cup Int]
    /\ DOMAIN partials = Analysis
    /\ \A a \in Analysis :
           partials[a] \in [ShardIds(a) -> {Nil} \cup SUBSET Rows(a)]
    /\ gw \in [Analysis -> {"none", "created", "unpublished", "ended"}]
    /\ pc \in [Worker -> Points]
    /\ job \in [Worker -> {NoJob} \cup Job]
    /\ held \in [Worker -> Seq(SUBSET Nat)]
    /\ seen \in [Worker -> SUBSET Nat]
    /\ requeued \in [Worker -> SUBSET Analysis]
    /\ reduces \in [Analysis -> Nat]
    /\ reaps \in [Analysis -> 0 .. MaxReaps]
    /\ expired \in [Analysis -> 0 .. MaxExpiries]
    /\ crashes \in 0 .. MaxCrashes
    /\ faults \in 0 .. MaxFaults

Init ==
    /\ uploads = Upload
    /\ status = [a \in Analysis |-> "absent"]
    /\ beat = [a \in Analysis |-> "null"]
    /\ findings = [a \in Analysis |-> {}]
    /\ saves = [a \in Analysis |-> 0]
    /\ queue = << >>
    /\ pending = [a \in Analysis |-> Nil]
    /\ partials = [a \in Analysis |-> [s \in ShardIds(a) |-> Nil]]
    /\ gw = [a \in Analysis |-> "none"]
    /\ pc = [w \in Worker |-> "idle"]
    /\ job = [w \in Worker |-> NoJob]
    /\ held = [w \in Worker |-> << >>]
    /\ seen = [w \in Worker |-> {}]
    /\ requeued = [w \in Worker |-> {}]
    /\ reduces = [a \in Analysis |-> 0]
    /\ reaps = [a \in Analysis |-> 0]
    /\ expired = [a \in Analysis |-> 0]
    /\ crashes = 0
    /\ faults = 0

----------------------------------------------------------------------------
(* The gateway. *)

(* launchAnalysis, first half: CreateAnalysis inserts the row as 'queued'.  *)
(* The foreign key refuses the insert when the upload is gone.              *)
CreateAnalysis(a) ==
    /\ status[a] = "absent"
    /\ UploadOf[a] \in uploads
    /\ status' = [status EXCEPT ![a] = "queued"]
    /\ gw' = [gw EXCEPT ![a] = "created"]
    /\ UNCHANGED <<uploads, beat, findings, saves, redis, worker, requeued,
                   reduces, budget>>

(* PublishAnalysis: the counter and every map job in one MULTI.             *)
Publish(a, count) ==
    /\ gw[a] = "created"
    /\ pending' = [pending EXCEPT ![a] = count]
    /\ queue' = queue \o [i \in 1 .. ShardCount(a) |-> MapJob(a, i - 1)]
    /\ gw' = [gw EXCEPT ![a] = "ended"]
    /\ UNCHANGED <<db, partials, worker, requeued, reduces, budget>>

(* Mutant: the counter starts one short of the jobs published.              *)
MutPublishShortCounter(a) == Publish(a, ShardCount(a) - 1)

PublishAnalysis(a) == Publish(a, ShardCount(a))

(* The MULTI was refused: nothing is on the queue, the row still is.        *)
PublishFails(a) ==
    /\ gw[a] = "created"
    /\ faults < MaxFaults
    /\ faults' = faults + 1
    /\ gw' = [gw EXCEPT ![a] = "unpublished"]
    /\ UNCHANGED <<db, redis, worker, requeued, reduces, reaps, expired,
                   crashes>>

(* launchAnalysis, error path: FailAnalysis on the row, if it still exists. *)
FailAnalysis(a) ==
    /\ gw[a] = "unpublished"
    /\ status' = IF Exists(a) THEN [status EXCEPT ![a] = "failed"] ELSE status
    /\ gw' = [gw EXCEPT ![a] = "ended"]
    /\ UNCHANGED <<uploads, beat, findings, saves, redis, worker, requeued,
                   reduces, budget>>

(* FailAnalysis runs on the request's context, the one the publish failed   *)
(* on: cancelled, it fails too, and its error is discarded.                 *)
FailAnalysisFails(a) ==
    /\ gw[a] = "unpublished"
    /\ "launch" \in Losses
    /\ gw' = [gw EXCEPT ![a] = "ended"]
    /\ UNCHANGED <<db, redis, worker, requeued, reduces, budget>>

(* The gateway process dies in the middle of launchAnalysis.                *)
GatewayDies(a) ==
    /\ gw[a] \in {"created", "unpublished"}
    /\ "launch" \in Losses
    /\ crashes < MaxCrashes
    /\ crashes' = crashes + 1
    /\ gw' = [gw EXCEPT ![a] = "ended"]
    /\ UNCHANGED <<db, redis, worker, requeued, reduces, reaps, expired,
                   faults>>

(* deleteUpload: entries and upload in one transaction, and the cascade     *)
(* takes the analyses, their findings and their timings. Redis keeps its    *)
(* jobs and partials.                                                       *)
DeleteUpload(u) ==
    LET ofUpload == {a \in Analysis : UploadOf[a] = u /\ Exists(a)}
    IN  /\ u \in uploads
        /\ uploads' = uploads \ {u}
        /\ status' = [a \in Analysis |->
                         IF a \in ofUpload THEN "deleted" ELSE status[a]]
        /\ beat' = [a \in Analysis |->
                       IF a \in ofUpload THEN "null" ELSE beat[a]]
        /\ findings' = [a \in Analysis |->
                           IF a \in ofUpload THEN {} ELSE findings[a]]
        /\ UNCHANGED <<saves, redis, gw, worker, requeued, reduces, budget>>

----------------------------------------------------------------------------
(* The worker: reserve, claim, and the map side. *)

Move(w, from, to) ==
    /\ pc[w] = from
    /\ pc' = [pc EXCEPT ![w] = to]

(* handle() is over and the loop reserves again. *)
Release(w) ==
    /\ pc' = [pc EXCEPT ![w] = "idle"]
    /\ job' = [job EXCEPT ![w] = NoJob]
    /\ held' = [held EXCEPT ![w] = << >>]
    /\ seen' = [seen EXCEPT ![w] = {}]

(* BRPOP: from here the job exists in this process only. *)
Reserve(w) ==
    /\ queue # << >>
    /\ Move(w, "idle", "reserved")
    /\ job' = [job EXCEPT ![w] = Head(queue)]
    /\ queue' = Tail(queue)
    /\ UNCHANGED <<db, pending, partials, gw, held, seen, requeued, reduces,
                   budget>>

(* db.claim: a row whose status is claimable becomes running.               *)
ClaimFrom(w, claimable) ==
    LET a == job[w].analysis
    IN  /\ pc[w] = "reserved"
        /\ status[a] \in claimable
        /\ status' = [status EXCEPT ![a] = "running"]
        /\ beat' = [beat EXCEPT ![a] = "fresh"]
        /\ pc' = [pc EXCEPT ![w] =
                     IF job[w].kind = "map" THEN "load" ELSE "merge"]
        /\ UNCHANGED <<uploads, findings, saves, redis, gw, job, held, seen,
                       requeued, reduces, budget>>

(* Mutant: claim does not look at the status. *)
MutClaimAnything(w) == ClaimFrom(w, Present)

Claim(w) == ClaimFrom(w, {"queued", "running"})

(* The row is terminal or gone: the job is dropped as job.skipped.          *)
Skip(w) ==
    /\ pc[w] = "reserved"
    /\ status[job[w].analysis] \notin {"queued", "running"}
    /\ Release(w)
    /\ UNCHANGED <<db, redis, gw, requeued, reduces, budget>>

(* load_shard and map_shard; the entries of a deleted upload are gone.      *)
LoadShard(w) ==
    LET j == job[w]
        rows == IF UploadOf[j.analysis] \in uploads
                THEN Slice(j.analysis, j.offset, j.limit) ELSE {}
    IN  /\ Move(w, "load", "put")
        /\ held' = [held EXCEPT ![w] = << rows >>]
        /\ UNCHANGED <<db, redis, gw, job, seen, requeued, reduces, budget>>

PutPartial(w) ==
    LET j == job[w]
    IN  /\ Move(w, "put", "mapTiming")
        /\ partials' = [partials EXCEPT ![j.analysis][j.shard] = held[w][1]]
        /\ UNCHANGED <<db, queue, pending, gw, job, held, seen, requeued,
                       reduces, budget>>

(* record_timing: the foreign key refuses a timing of a deleted analysis.   *)
RecordTiming(w, from, to) ==
    /\ Move(w, from, IF Exists(job[w].analysis) THEN to ELSE "failing")
    /\ UNCHANGED <<db, redis, gw, job, held, seen, requeued, reduces, budget>>

RecordMapTiming(w) == RecordTiming(w, "mapTiming", "complete")

(* DECR of an absent key starts from zero. *)
Decr(count) == IF count = Nil THEN -1 ELSE count - 1

(* complete_shard: at or below zero this worker owns the reduce.            *)
CompleteShardAt(w, zero) ==
    LET a == job[w].analysis
        remaining == Decr(pending[a])
    IN  /\ pc[w] = "complete"
        /\ pending' = [pending EXCEPT ![a] = remaining]
        /\ IF remaining <= zero
           THEN pc' = [pc EXCEPT ![w] = "fanin"] /\ UNCHANGED <<job, held, seen>>
           ELSE Release(w)
        /\ UNCHANGED <<db, queue, partials, gw, requeued, reduces, budget>>

(* Mutant: the last but one shard already counts as the last. *)
MutCompleteShardEarly(w) == CompleteShardAt(w, 1)

CompleteShard(w) == CompleteShardAt(w, 0)

EnqueueReduce(w) ==
    LET j == job[w]
    IN  /\ pc[w] = "fanin"
        /\ queue' = Append(queue, ReduceJob(j))
        /\ reduces' = [reduces EXCEPT ![j.analysis] = @ + 1]
        /\ Release(w)
        /\ UNCHANGED <<db, pending, partials, gw, requeued, budget>>

----------------------------------------------------------------------------
(* The worker: the reduce side. *)

(* get_partials: MGET of shards 0 .. shard_count - 1 of the job at hand, in *)
(* one read; fewer values than shards raises.                               *)
Found(j) ==
    LET found == partials[j.analysis]
    IN  [i \in 1 .. j.count |-> IF found[i - 1] = Nil THEN {} ELSE found[i - 1]]

Short(j) == \E s \in 0 .. j.count - 1 : partials[j.analysis][s] = Nil

Merge(w, short) ==
    /\ Move(w, "merge", IF short THEN "failing" ELSE "score")
    /\ held' = IF short THEN held ELSE [held EXCEPT ![w] = Found(job[w])]
    /\ UNCHANGED <<db, redis, gw, job, seen, requeued, reduces, budget>>

(* Mutant: scores whatever partials are there. *)
MutGetPartialsUnchecked(w) == Merge(w, FALSE)

GetPartials(w) == Merge(w, Short(job[w]))

(* Mutant: finishes before the findings are saved. *)
MutScoreThenFinish(w) == RecordTiming(w, "score", "finish")

(* Merge, score, baseline, evidence and the model: reads only, apart from   *)
(* the reduce, evidence and llm timings.                                    *)
Score(w) == RecordTiming(w, "score", "save")

(* save_anomalies opens its transaction: the DELETE sees the findings that  *)
(* are committed now, and not those another save is still inserting.        *)
SaveAnomalies(w) ==
    LET a == job[w].analysis
    IN  /\ Move(w, "save", "commit")
        /\ seen' = [seen EXCEPT ![w] = {f.id : f \in findings[a]}]
        /\ UNCHANGED <<db, redis, gw, job, held, requeued, reduces, budget>>

(* ... inserts its rows and commits. Without the analysis the foreign key   *)
(* refuses the rows.                                                        *)
CommitReplacing(w, replaced) ==
    LET a == job[w].analysis
        mine == [id |-> saves[a] + 1, parts |-> held[w]]
        kept == {f \in findings[a] : f.id \notin replaced}
    IN  /\ Move(w, "commit", IF Exists(a) THEN "finish" ELSE "failing")
        /\ findings' = IF Exists(a)
                       THEN [findings EXCEPT ![a] = kept \cup {mine}]
                       ELSE findings
        /\ saves' = IF Exists(a) THEN [saves EXCEPT ![a] = @ + 1] ELSE saves
        /\ seen' = [seen EXCEPT ![w] = {}]
        /\ UNCHANGED <<uploads, status, beat, redis, gw, job, held, requeued,
                       reduces, budget>>

(* Mutant: a re-run adds its findings to the old ones. *)
MutCommitWithoutDelete(w) == CommitReplacing(w, {})

CommitAnomalies(w) == CommitReplacing(w, seen[w])

(* ... or has no rows to insert, so that nothing is refused.                *)
CommitNothing(w) ==
    /\ Move(w, "commit", "finish")
    /\ ~ Exists(job[w].analysis)
    /\ seen' = [seen EXCEPT ![w] = {}]
    /\ UNCHANGED <<db, redis, gw, job, held, requeued, reduces, budget>>

(* db.finish: WHERE id, whatever the status; no row, no effect.             *)
Finish(w) ==
    LET a == job[w].analysis
    IN  /\ Move(w, "finish", "persistTiming")
        /\ status' = IF Exists(a) THEN [status EXCEPT ![a] = "done"] ELSE status
        /\ UNCHANGED <<uploads, beat, findings, saves, redis, gw, job, held,
                       seen, requeued, reduces, budget>>

RecordPersistTiming(w) == RecordTiming(w, "persistTiming", "embed")

(* Mutant: a provider outage raises out of _embed_findings. *)
MutEmbeddingRaises(w) ==
    /\ Move(w, "embed", "failing")
    /\ UNCHANGED <<db, redis, gw, job, held, seen, requeued, reduces, budget>>

(* _embed_findings: no embedder, no findings, or the provider failed.       *)
SkipEmbedding(w) ==
    /\ Move(w, "embed", "drop")
    /\ UNCHANGED <<db, redis, gw, job, held, seen, requeued, reduces, budget>>

(* anomaly_ids: the findings the vectors will reference.                    *)
EmbedFindings(w) ==
    LET a == job[w].analysis
    IN  /\ Move(w, "embed", "saveVectors")
        /\ findings[a] # {}
        /\ seen' = [seen EXCEPT ![w] = {f.id : f \in findings[a]}]
        /\ UNCHANGED <<db, redis, gw, job, held, requeued, reduces, budget>>

(* save_embeddings: a vector of a finding that was replaced meanwhile       *)
(* violates the foreign key.                                                *)
SaveEmbeddings(w) ==
    LET live == {f.id : f \in findings[job[w].analysis]}
    IN  /\ Move(w, "saveVectors", IF seen[w] \subseteq live THEN "embedTiming"
                                                            ELSE "failing")
        /\ seen' = [seen EXCEPT ![w] = {}]
        /\ UNCHANGED <<db, redis, gw, job, held, requeued, reduces, budget>>

RecordEmbedTiming(w) == RecordTiming(w, "embedTiming", "drop")

(* drop_partials: the partials of this job's shard_count, and the counter.  *)
DropPartials(w) ==
    LET j == job[w]
    IN  /\ Move(w, "drop", "totalTiming")
        /\ partials' = [partials EXCEPT ![j.analysis] =
                           [s \in DOMAIN @ |-> IF s < j.count THEN Nil ELSE @[s]]]
        /\ pending' = [pending EXCEPT ![j.analysis] = Nil]
        /\ UNCHANGED <<db, queue, gw, job, held, seen, requeued, reduces,
                       budget>>

(* The last timing; then run_reduce returns. *)
RecordTotalTiming(w) ==
    /\ pc[w] = "totalTiming"
    /\ IF Exists(job[w].analysis)
       THEN Release(w)
       ELSE pc' = [pc EXCEPT ![w] = "failing"] /\ UNCHANGED <<job, held, seen>>
    /\ UNCHANGED <<db, redis, gw, requeued, reduces, budget>>

(* handle()'s except block: db.fail, WHERE id, whatever the status.         *)
Fail(w) ==
    LET a == job[w].analysis
    IN  /\ pc[w] = "failing"
        /\ status' = IF Exists(a) THEN [status EXCEPT ![a] = "failed"]
                                  ELSE status
        /\ Release(w)
        /\ UNCHANGED <<uploads, beat, findings, saves, redis, gw, requeued,
                       reduces, budget>>

(* A call inside the try block raises instead of happening. *)
Raise(w) ==
    /\ pc[w] \in FaultPoints
    /\ faults < MaxFaults
    /\ faults' = faults + 1
    /\ pc' = [pc EXCEPT ![w] = "failing"]
    /\ UNCHANGED <<db, redis, gw, job, held, seen, requeued, reduces, reaps,
                   expired, crashes>>

(* The process dies and is restarted: the reserved job and the reaper's     *)
(* list are gone. An exception outside the try block (claim, fail) ends it  *)
(* too.                                                                     *)
Crash(w) ==
    /\ pc[w] # "idle" \/ requeued[w] # {}
    /\ requeued[w] # {} => "requeue" \in Losses
    /\ pc[w] # "idle" /\ status[job[w].analysis] = "queued"
           => "reserved" \in Losses
    /\ crashes < MaxCrashes
    /\ crashes' = crashes + 1
    /\ Release(w)
    /\ requeued' = [requeued EXCEPT ![w] = {}]
    /\ UNCHANGED <<db, redis, gw, reduces, reaps, expired, faults>>

----------------------------------------------------------------------------
(* Time, and the reaper. *)

InFlight(a) ==
    \/ \E i \in DOMAIN queue : queue[i].analysis = a
    \/ \E w \in Worker : pc[w] # "idle" /\ job[w].analysis = a

(* stale_after_seconds pass since the last claim. Nothing calls             *)
(* db.heartbeat, so a long job ages like a dead one unless jobs are prompt. *)
HeartbeatAges(a) ==
    /\ status[a] = "running"
    /\ beat[a] = "fresh"
    /\ Prompt => ~ InFlight(a)
    /\ beat' = [beat EXCEPT ![a] = "stale"]
    /\ UNCHANGED <<uploads, status, findings, saves, redis, gw, worker,
                   requeued, reduces, budget>>

(* A key set PARTIAL_TTL_SECONDS ago disappears. *)
ExpirePending(a) ==
    /\ pending[a] # Nil
    /\ expired[a] < MaxExpiries
    /\ expired' = [expired EXCEPT ![a] = @ + 1]
    /\ pending' = [pending EXCEPT ![a] = Nil]
    /\ UNCHANGED <<db, queue, partials, gw, worker, requeued, reduces, reaps,
                   crashes, faults>>

ExpirePartial(a, s) ==
    /\ partials[a][s] # Nil
    /\ expired[a] < MaxExpiries
    /\ expired' = [expired EXCEPT ![a] = @ + 1]
    /\ partials' = [partials EXCEPT ![a][s] = Nil]
    /\ UNCHANGED <<db, queue, pending, gw, worker, requeued, reduces, reaps,
                   crashes, faults>>

(* Mutant: looks for stale rows among the queued ones. *)
MutStaleQueued ==
    {a \in Analysis : status[a] = "queued" /\ beat[a] = "stale"}

(* The rows requeue_stale matches; a running row always has its upload.     *)
Stale == {a \in Analysis : status[a] = "running" /\ beat[a] = "stale"}

(* requeue_stale: one UPDATE over every stale row, committed before any     *)
(* job is enqueued.                                                         *)
RequeueReturning(w, rows) ==
    /\ requeued[w] = {}
    /\ Stale # {}
    /\ \A a \in Stale : reaps[a] < MaxReaps
    /\ status' = [a \in Analysis |-> IF a \in Stale THEN "queued" ELSE status[a]]
    /\ beat' = [a \in Analysis |-> IF a \in Stale THEN "null" ELSE beat[a]]
    /\ reaps' = [a \in Analysis |-> IF a \in Stale THEN reaps[a] + 1 ELSE reaps[a]]
    /\ requeued' = [requeued EXCEPT ![w] = rows]
    /\ UNCHANGED <<uploads, findings, saves, redis, gw, worker, reduces,
                   expired, crashes, faults>>

(* Mutant: the UPDATE returns no rows to enqueue. *)
MutRequeueReturnsNothing(w) == RequeueReturning(w, {})

RequeueStale(w) == RequeueReturning(w, Stale)

(* reaper: one whole-upload map job per row; the counter is left alone.     *)
EnqueueRequeued(w, a) ==
    /\ a \in requeued[w]
    /\ queue' = Append(queue, RequeueJob(a))
    /\ requeued' = [requeued EXCEPT ![w] = @ \ {a}]
    /\ UNCHANGED <<db, pending, partials, gw, worker, reduces, budget>>

(* The enqueue raises: the pass is logged and abandoned with its rows.      *)
ReaperFails(w) ==
    /\ requeued[w] # {}
    /\ "requeue" \in Losses
    /\ faults < MaxFaults
    /\ faults' = faults + 1
    /\ requeued' = [requeued EXCEPT ![w] = {}]
    /\ UNCHANGED <<db, redis, gw, worker, reduces, reaps, expired, crashes>>

----------------------------------------------------------------------------
MapStep(w) ==
    \/ LoadShard(w) \/ PutPartial(w) \/ RecordMapTiming(w)
    \/ CompleteShard(w) \/ EnqueueReduce(w)

ReduceStep(w) ==
    \/ GetPartials(w) \/ Score(w) \/ SaveAnomalies(w) \/ CommitAnomalies(w)
    \/ CommitNothing(w) \/ Finish(w) \/ RecordPersistTiming(w)
    \/ SkipEmbedding(w) \/ EmbedFindings(w) \/ SaveEmbeddings(w)
    \/ RecordEmbedTiming(w) \/ DropPartials(w) \/ RecordTotalTiming(w)

WorkerStep(w) ==
    Reserve(w) \/ Claim(w) \/ Skip(w) \/ MapStep(w) \/ ReduceStep(w) \/ Fail(w)

ReaperStep(w) ==
    RequeueStale(w) \/ \E a \in Analysis : EnqueueRequeued(w, a)

LaunchStep(a) == PublishAnalysis(a) \/ FailAnalysis(a)

(* What may happen and need not: requests, failures, expiry. *)
Environment ==
    \/ \E a \in Analysis : \/ CreateAnalysis(a) \/ PublishFails(a)
                           \/ FailAnalysisFails(a) \/ GatewayDies(a)
                           \/ ExpirePending(a)
                           \/ \E s \in ShardIds(a) : ExpirePartial(a, s)
    \/ \E u \in Upload : DeleteUpload(u)
    \/ \E w \in Worker : Raise(w) \/ Crash(w) \/ ReaperFails(w)

Next ==
    \/ \E w \in Worker : WorkerStep(w) \/ ReaperStep(w)
    \/ \E a \in Analysis : LaunchStep(a) \/ HeartbeatAges(a)
    \/ Environment

Spec == Init /\ [][Next]_vars

(* A worker's loop, its reaper and an accepted request keep running, and    *)
(* time passes.                                                             *)
Fairness ==
    /\ \A w \in Worker : WF_vars(WorkerStep(w)) /\ WF_vars(ReaperStep(w))
    /\ \A a \in Analysis : WF_vars(LaunchStep(a)) /\ WF_vars(HeartbeatAges(a))

FairSpec == Spec /\ Fairness

----------------------------------------------------------------------------
(* Properties. *)

(* The merged aggregate counts every row of the upload, and none twice.     *)
ExactlyOnce(a, parts) ==
    \A r \in Rows(a) : \E i \in DOMAIN parts :
        /\ r \in parts[i]
        /\ \A k \in DOMAIN parts \ {i} : r \notin parts[k]

(* A finished analysis has findings, and they were scored on an aggregate   *)
(* that counts every log row exactly once: what run_reduce's check of the   *)
(* number of partials is for.                                               *)
DoneExact(a) ==
    status[a] = "done" =>
        /\ findings[a] # {}
        /\ \A f \in findings[a] : ExactlyOnce(a, f.parts)

DoneIsExact == \A a \in Analysis : DoneExact(a)

(* The same, of an analysis the reaper has not touched: crashes, raised     *)
(* calls, expired keys and deletions do not disturb it.                     *)
UnreapedDoneIsExact == \A a \in Analysis : reaps[a] = 0 => DoneExact(a)

(* No requeue and no expired key: the counter and the jobs are as published *)
Undisturbed(a) == reaps[a] = 0 /\ expired[a] = 0

(* Whoever takes the counter to zero owns the reduce, and only one worker   *)
(* does: complete_shard's promise.                                          *)
OneFanIn == \A a \in Analysis : Undisturbed(a) => reduces[a] <= 1

InReduce(a, w) ==
    /\ pc[w] \in {"reserved", "merge"}
    /\ job[w].analysis = a /\ job[w].kind = "reduce"

(* The counter closes only after the last partial is stored, so the reduce  *)
(* it starts never finds a shard missing.                                   *)
ReduceFindsEveryPartial ==
    \A a \in Analysis :
        /\ Undisturbed(a)
        /\ \/ \E i \in DOMAIN queue : /\ queue[i].kind = "reduce"
                                       /\ queue[i].analysis = a
           \/ \E w \in Worker : InReduce(a, w)
        => \A s \in ShardIds(a) : partials[a][s] # Nil

(* save_anomalies replaces: however often an analysis is re-run, one save's *)
(* findings are stored.                                                     *)
FindingsReplaced == \A a \in Analysis : Cardinality(findings[a]) <= 1

(* launchAnalysis and the reaper leave nothing queued with no job behind it *)
QueuedHasJob ==
    \A a \in Analysis :
        status[a] = "queued" /\ gw[a] = "ended"
            => InFlight(a) \/ \E w \in Worker : a \in requeued[w]

(* done and failed are terminal: neither a late or duplicate job nor the    *)
(* reaper puts a finished analysis back to work.                            *)
TerminalIsFinal ==
    [][\A a \in Analysis : status[a] \in Terminal
          => status'[a] \in Terminal \cup {"deleted"}]_vars

(* Once done, the status and the findings a reader has seen stay until the  *)
(* upload is deleted.                                                       *)
DoneIsStable ==
    [][\A a \in Analysis : status[a] = "done" =>
          \/ status'[a] = "done" /\ findings'[a] = findings[a]
          \/ status'[a] = "deleted"]_vars

(* An analysis never spins for ever: one that is queued or running ends     *)
(* done, failed or deleted.                                                 *)
Settles ==
    \A a \in Analysis :
        status[a] \in {"queued", "running"}
            ~> status[a] \in Terminal \cup {"deleted"}

(* What a client polling the analysis sees of the state. *)
Outcome(a) ==
    IF findings[a] = {} THEN "none"
    ELSE IF \A f \in findings[a] : ExactlyOnce(a, f.parts) THEN "exact"
    ELSE "inexact"

Lifecycle == INSTANCE AnalysisLifecycle
    WITH state <- status,
         outcome <- [a \in Analysis |-> Outcome(a)],
         touched <- [a \in Analysis |-> reaps[a] > 0]

(* The pipeline implements the lifecycle, whatever fails: findings come     *)
(* before "done", are exact until the reaper interferes, and no terminal    *)
(* analysis restarts.                                                       *)
ImplementsLifecycle == Lifecycle!Spec
============================================================================
