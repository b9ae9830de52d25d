# LogMonitor: a verification development

LogMonitor is a log analyser for a security team: a user uploads a proxy log,
the gateway stores its rows and starts an analysis, worker processes aggregate
and score them, and the browser polls the result. Other people of the
organization see it by role, by grant or by break-glass, and dashboards add it up.
This directory models it in TLA+, checks it with TLC and proves its central
results with TLAPS. Paths below are relative to `src/backend/`.

## 1. The system

```
browser - web (Next.js proxy) - gateway (Go) -+- Postgres       rows, findings, grants, audit
                                              +- object store   archived originals
                                              +- Redis -------- jobs, counters, partials, rate limits
                                                    |
                                   worker x N (Python): map, reduce, reaper
```

| part | state | operations | who it talks to |
|---|---|---|---|
| analysis launch (`gateway/internal/handlers/analyses.go`, `queue/queue.go`) | an `analyses` row, a pending counter, jobs | `launchAnalysis`: CreateAnalysis, PublishAnalysis, FailAnalysis | Postgres, Redis |
| job protocol (`worker/worker/queue.py`) | job list, counter, partials, each key with an hour to live | enqueue, reserve, put/get/drop partials, complete_shard | both sides |
| worker loop (`worker/worker/main.py`, `pipeline.py`, `db.py`) | the job it reserved and the aggregates it computed | claim, run_map, run_reduce, fail | Redis, Postgres |
| reaper (one in every worker process) | the rows it has requeued and not enqueued | requeue_stale, enqueue | Postgres, Redis |
| deletion (`handlers/uploads.go`, `store/uploads.go`) | uploads, entries, everything that cascades | deleteUpload | Postgres, object store |
| streaming ingest (`handlers/uploads.go`, `store/ingest.go`, `parser/`) | one transaction, an archive being written | parse, COPY, rollups, commit | Postgres, object store |
| authorization and audit (`authz/`, `store/grants.go`) | grants with expiry, audit log | Resolve, Require, listing, grant, revoke | Postgres |
| login (`handlers/auth.go`, `mfa.go`, `auth/`, `ratelimit/`) | sessions, MFA secrets and recovery codes, failure counters, used codes | login, verify, enrol, disable | Postgres, Redis |
| partials and detectors (`worker/worker/detection/`) | none (pure) | map_shard, merge_all, score | - |
| evidence and model (`worker/worker/ai/`) | none | build_evidence_packet, analyze_candidates | the model provider |
| alerts and metrics (`worker/worker/observability/`) | firing conditions, bounded histograms | check_all, observe | - |
| dashboards, search, rollups; blob clients; HTTP helpers; migrations; web; deploy | - | reads, formatting, start-up | - |

What is hard, part by part (`PROJECT.json` lists every such hazard at its line):

* Pipeline: the gateway, N workers and N reapers share one row, one counter and
  one list of jobs with no lock over them. Jobs are popped before they are
  acknowledged; Redis keys expire; the reaper cannot tell a slow worker from a
  dead one; a re-run meets what the first run left in Redis; findings of two
  reduces can interleave; an upload can be deleted under all of it.
* Ingest: one request streams into a parser, a transaction and an archive at
  once, the two sides of a pipe wait for each other, and either can fail, be
  cancelled or vanish at any point. Rows and object are two stores without a
  common transaction, on the way in and on the way out.
* Login: counters, locks and used codes live in Redis, factor and recovery codes
  in Postgres; every handler is check-then-act over both.
* Access: a decision is several reads, and users, uploads and grants change
  between them; the rule is written twice, in Go and in SQL.
* Reports: figures are derived three times (rows, rollups by minute and hour,
  status rollups) and have to agree.
* Detection: baselines are those of the whole file, but the file is read in shards;
  findings come back from a language model by id.

## 2. The modules

| module | what it is |
|---|---|
| `AnalysisPipeline` | gateway launch, job protocol, worker loop, reaper, deletion; its properties |
| `AnalysisLifecycle` | the abstract specification: what a client that polls an analysis is promised |
| `AnalysisPipelineInv` | the inductive invariants, as named parts |
| `AnalysisPipeline_proofs` | types and terminal states; who writes what, exactness, every step is one of the lifecycle or unseen; the fan-in: one reduce, which finds every partial |
| `AnalysisRecovery_proofs` | what the reaper may do: one job at a time, exact, one report, which stays; nothing queued is forgotten |
| `Ingest` | an upload request with its archive goroutine and transaction; deletion |
| `Ingest_proofs` | its invariant and its six theorems |
| `LogParser` | the Zscaler parser, and the csv reader under it, as a function of a file |
| `Login` | login, second factor, enrolment, recovery codes, rate limiter, one account |
| `Login_proofs` | who may be where with what; the codes; the arithmetic of the limiter |
| `Access` | organizations, users, grants, the resolver, break-glass, both statements of the rule |
| `Access_proofs` | types, the authority of grants, list and resolver agree; what a read may disclose, and to whom |
| `Reports` | Access composed with the rows, rollups and panels of the uploads |
| `Reports_proofs` | it implements Access; records are kept; the panels agree |
| `SetLemmas` | induction over finite sets, largest and smallest elements, sums |
| `Detection` | aggregates of shards, merging, the six detectors, findings |
| `Detection_proofs` | its invariant; sharding does not show; what candidates are and what findings cite |
| `MC...` | values for TLC; `<model>_<run>.cfg` are the instances |

The parts meet at narrow places. `Ingest` ends where an analysis is launched with
the number of rows (`SizedByRows`), which is where `AnalysisPipeline` begins; there
a partial is a set of rows, and `Detection` shows that for detection that is all a
partial needs to be (`ShardingInvisible`). `Reports` extends `Access`: the same
people, uploads and deletions decide who reads and what the figures are of.

### AnalysisPipeline: state

* `uploads`, `status`, `beat`, `findings`, `saves`: the rows of `uploads` (with
  their entries), `analyses.status`, `analyses.heartbeat_at` (null, younger or
  older than `stale_after_seconds`), and the rows of `anomalies`. A member of
  `findings[a]` is one `save_anomalies`: its id and the aggregate it was scored
  on. A save may have no rows; it still counts as the analysis's report.
* `queue`, `pending`, `partials`: the Redis keys. `Nil` is an absent key.
* `gw`: how far `launchAnalysis` got. `pc`, `job`, `held`, `seen`: a worker's
  place in `handle`, its job, its aggregates, the finding ids its transaction
  has read. `requeued`: the list `requeue_stale` returned to a reaper, which
  runs concurrently with the loop of the same process.

A log row is its index in `line_no` order. A partial is the **set of rows** it
aggregates and a merged aggregate the **sequence of partials** it adds up:
enough to see a row counted twice or not at all, and nothing else of the
statistics.

### AnalysisPipeline: actions

Each statement that touches Postgres or Redis is an action of its own, in the
order of the code, so that other processes run between any two.

* Launch: `CreateAnalysis`, then `PublishAnalysis` (one MULTI: counter and all
  map jobs) or `PublishFails` and `FailAnalysis`.
* Map: `Reserve`, `Claim` or `Skip`, `LoadShard`, `PutPartial`,
  `RecordMapTiming`, `CompleteShard`, `EnqueueReduce`.
* Reduce: `GetPartials` (fails when one is missing), `Score`, `SaveAnomalies`
  (the DELETE) and `CommitAnomalies` (the INSERTs and the commit), `Finish`, the
  embedding steps, `DropPartials`, the timings in between.
* `Fail` is the `except` block of `handle`; every step after `Claim` can reach it,
  by its own condition (a missing partial, a foreign key of a deleted row) or by
  `Raise`.
* `RequeueStale` and `EnqueueRequeued` are the reaper; `HeartbeatAges` is the
  passage of `stale_after_seconds`; `ExpirePending` and `ExpirePartial` are
  Redis's clock; `Crash`, `GatewayDies`, `PublishFails`, `ReaperFails`,
  `FailAnalysisFails` are failures; `DeleteUpload` is the user.

Abstractions worth knowing:

* `save_anomalies` runs at READ COMMITTED: its DELETE removes what was committed
  when it started, which is what `seen` remembers. All else in one `connect()`
  block is one action.
* `Score` stands for merging, scoring, the baseline, the evidence and the model call
  with their three timings. `Detection` says what they compute. They read only, and the
  timings differ from each other in nothing but the stage's name.
* Vectors are not state. What matters of them is that `save_embeddings` fails when
  a finding it refers to was replaced.
* A call that raises has had no effect; an ambiguous reply (executed, then the
  connection breaks) is not modelled.
* A claim or a `fail` that raises leaves `handle` and ends the process: that is
  `Crash`. So is SIGTERM, which stops the loop between jobs and leaves no trace.
* An upload never has more rows than the reaper's `limit=10_000_000`
  (`ConstantsAssumption`).
* Analyses are created for uploads that are fully ingested.

### AnalysisPipeline: the environment's constants

`MaxCrashes`, `MaxFaults`, `MaxReaps` (per analysis) and `MaxExpiries` (keys per
analysis) bound how often something goes wrong; `FaultPoints` says which worker
steps may raise. Two constants describe assumptions the code makes and does not
enforce, so that runs can be made with and without them:

* `Prompt`: an analysis's heartbeat goes stale only when no job of it is queued
  or running. This is what a heartbeat would give; without `Prompt` a long job
  looks dead.
* `Losses`: windows in which a failure loses a queued row's job for good:
  `"launch"` (publish and FailAnalysis both fail, or the gateway dies),
  `"reserved"` (a worker dies between BRPOP and claim), `"requeue"` (a reaper dies
  between `requeue_stale` and the enqueue).

### Ingest

State: `form[r]` is the body of an upload request, a sequence of parts; a file is
a head (the 64 KB its format is recognised from), a number of one-row chunks, and
what the reads after them return: `io.EOF`, or an error for ever (cap passed, body
cut off). `req` is the handler, `slot` and `closed` the pipe, `arch` the goroutine
at its other end, `tx` what the open transaction has written. `uploads`, `entries`
(rows per upload), `rollups`, `analyses`, `trail` (audit) are Postgres, `objects`
the object store (an interrupted `Put` leaves nothing on S3 and a part on GCS),
`reported` the logged orphans, `del` the delete requests.

Actions: `Arrive`, the parts of the form (`RefusePart`, `OpenFile`, `EndForm`), the
head and an unknown format (`ReadHead`, `Drain`), `Begin`, the parse loop
(`ParseLine`, `ParseEnd`, `Flush`, `LastFlush`), `AwaitArchive` or `FailIngest`,
`CreateUpload`, `BuildRollups`, `Commit`, `Launch`; on the archive's side `Compress`,
`PutEnds`, `PutFails`; a deletion is `LookUp`, `DeleteRows`, `DeleteObject`,
`AuditDelete`. A step that writes to the pipe waits until it has been taken or its
reader is gone. `ClientGoes` cancels the request's context: every statement then
fails and the body yields no more. `Crash` ends every handler and rolls back.

Abstractions: Postgres and the object store fail, or not, as whole calls; a commit
that reports an error may have been applied. The zstd goroutine is one with the
archiver, the partition a row lands in, the count of the head's bytes and the
archiver's recovery from panics are left out. A form that is malformed after its
file is answered 400 although the upload was committed: `CreatedMeansStored` is
only about 201.

### Login

State: `mfa` (switch and secret), `recovery`, `orgRequire` are the account's rows;
`ipCount`, `acctCount`, `locked`, `used` the Redis keys; `session` and `pending` the
browsers' cookies; `req[c]` the handler working for browser c with what it has
read. Time is counted in TOTP steps; counters and locks may run out at any moment.
`ipTries`, `acctTries`, `accepted`, `spent` and `seen` are history.

Actions: a request arrives (`Arrive`) and runs through `login`, `verifyMFA`,
`enrollMFA`, `activateMFA` or `disableMFA`, one call to Redis or Postgres at a
time; beside them an admin's reset, the policy switch, logout, the clock and the
ends of the windows. The limiter's `Check` reads the counter (`Check`) and the lock
(`CheckLock`) in two calls. `GiveUp` ends any request early.

`FailureBudgets` is about passwords only: `verifyMFA` records a wrong second factor as a
failure, but does not ask `Check` before it looks at one.

Abstractions: `Validate` and `Consume` are one step (nothing happens in between but
arithmetic). `disableMFA` validates without `Consume`, so a code it has seen is
still good for a login; `CodesOnce` counts logins and activations only.
`ActivateMFA` on an account whose secret was reset meanwhile switches nothing on but
still inserts recovery codes: `recovery` shows them. Password hashing, the
encryption of secrets and cookie signatures are left out.

### Access and Reports

State: `users`, `uploads` with `owner` (kept after deletion: ids are not reused),
`grants` (with `live` for expiry), `trail` the break-glass records, `req[r]` a
handler and its locals. `held[r]` is history: the highest level the caller had at
any moment of request r. `Reports` adds `entries`, `rollups`, `statusRollups` and
`counts`, rows as `LogParser` makes them of `Content`.

Actions: `Open` (the read of the upload), `ReadGrants`, `BreakGlass`, `Load` are a
read or the start of an analysis; `CheckGrant`, `Upsert` and `CheckRevoke`,
`DeleteGrant` the sharing; `GiveUp` any early end. Meanwhile people register and are
invited, uploads come and go, grants expire. `Visible` is the SQL of lists,
search and action plan, `Resolve` the Go of a single upload.

Abstractions: only the rule of those queries is modelled; text and vector matching,
ordering and paging are not. `Resolve`'s reads are separate steps, so a level may rest
on an upload that was deleted a moment ago; `held` counts it. `createGrant` answers 403,
not 404, for an upload of the same organization that the caller cannot see; the model
has it refused without a status, and `ExistenceHidden` is about the status codes of
reads and starts whose queries succeed: a failing `BestGrantFor` answers 500, and the
wording of the 404s differs. Audit records of grants, revocations and invitations are
best effort and decide nothing: left out. Byte sums behave like request counts, one
percentile stands for three. `StatusCodes` takes the largest of the hours' percentiles;
no property is about that figure.

`LogParser` has a row for each *record* of
`encoding/csv`, which with `LazyQuotes` and any number of fields is not a line: an empty
line is none, and a cell that begins with a quote takes in the lines below it, up to a
quote that ends a cell or to the end of the file. What a cell says is a number or one of
three kinds of text, so text that was run together is `Junk`, whatever it is; the header
is taken to be one line, and cells that are a single quote are left out. The reader
makes no error of a line's content; its read errors are `Ingest`'s. `Sniff` counts
recognised cells of the header, as the code does, so one field named twice is enough.

### Detection

A run is one file going through `MapShards`, `Reduce`, `AnalyzeCandidates`,
`SaveAnomalies`. `shards` are the partials, `ranked` the candidates c0, c1, ...,
`report` what the model or the fallback answers, `findings` what is stored.

Lists of row ids are sets, lists of numbers bags. `serialize.py` joins the names of a
key with `\x1f` and takes them apart again: names that contain it are the constant
`Separated`, and a partial with one in a two-part key does not load (`LoadFails`).
The scores' formulas are the constant `Score`, applied to exactly the figures the code
computes them from; the fallback's `round(score, 3)` is `Rounded`, to a multiple of
`Digit`. The hosts of an actor's hour are there with both of their caps, as the sets
that can come of them (`Capped`, `HostsListed`), since they depend on the order in which
a set of strings iterates; beyond the cap they are the one piece of evidence that depends on
the cut. The merge is in shard order or backwards; other orders are not looked at.

The packet numbers the candidates and sheds the last of them until it fits, which may
be at any number (`Replies(shown)`): the budget itself, the prompt and the severities
are left out. The model describes a candidate by the number it saw; `about` is the
candidate a finding's text is of, 0 if nobody's. The filter on the answer accepts ids of
shed candidates and the same id twice, and so does `Answer`. Wording is left out
otherwise, and with it that `_embed_findings` looks a candidate up by kind
(pipeline.py:183), so that of two findings of one kind one is embedded with the other's
evidence. The stored confidence is the model's, although analyze.py:13 says the model
does not compute it; `FindingsCiteTheLog` asks for the detector's score only without the
model.

## 3. What is checked

Twelve runs, six of which pass; `CHECK_DEADLOCK FALSE` is set throughout: when the
bounds are used up and every request is answered, nothing is left to do, which is
what the program does too. Symmetry of workers, browsers and requests is used in
safety runs only. Every property of a passing run has a mutant (`Mut...` beside the
definition it changes), a plausible bug in one step under which TLC finds that
property violated in the same run.

### The pipeline

Two workers and one upload; an action of any two processes can interleave with
any other.

**`fan_in`** (1 190 000 states): five rows in three shards, the last one short, in
jobs of any length; one crash, two raised calls at any step, one expired key, one
requeue, every loss, deletion. Three shards and two workers are enough for a worker
to overtake, for the last two decrements to race and for a shard to be missing in
the middle; one requeue is enough for a re-run to meet the run it repeats.
* `UnreapedDoneIsExact`: done, if no reaper touched it, means that findings are stored
  and were scored on an aggregate with every row exactly once.
* `OneFanIn`: with the counter undisturbed, one worker enqueues one reduce, though
  the code closes the group at `<= 0`.
* `ReduceFindsEveryPartial`: and that reduce never finds a shard missing.
* `TerminalIsFinal`: no late, duplicate or skipped job restarts a done or failed row.
* `ImplementsLifecycle`: the pipeline refines `AnalysisLifecycle` under
  `state <- status`, `outcome <-` whether the stored findings are exact,
  `touched <-` whether the reaper requeued the row.
* `FanOutInv`: the two inductive invariants of the proofs, `PipelineInv` and
  `FanInInv`. `TypeOK`.

**`recovery`** (384 000 states): two analyses of one upload, three rows in two shards, one
crash, one raised call before the analysis is done, reaper on, `Prompt`, no losses.
* `Settles` (liveness): a queued or running analysis ends. The requeued job meets
  the old counter, and may count it down without closing it; then the row goes
  stale again. `MaxReaps = 4` leaves the reaper the rounds that takes.
* `DoneIsExact`: though the whole-file run replaces shard 0's partial and meets the
  counter and the partials of the run before it, done is exact all the same.
* `FindingsReplaced`, `DoneIsStable`, `QueuedHasJob`: one report is stored however
  often the analysis is re-run, it stays once seen, and no row is queued with
  nothing on the way to it.

  `DoneIsStable` is stated for faults before the analysis is done
  (`FaultPoints <- MappingAndMerging`). A call that raises later, a timing for
  instance, does turn done into failed; the findings stay stored. Nor are there two
  reduces of one analysis at a time under `Prompt`. So this run says nothing of a `fail`
  that overwrites a done row, nor of a reduce that finishes beside another.
* `FindingsReplaced` and `QueuedHasJob` hold here for want of what breaks them: two
  saves at once are `slow_findings`, lost jobs are `lost_launch` and `lost_job`.

Fairness (`FairSpec` of `AnalysisPipeline`): weak fairness of each worker's loop, each
reaper, an accepted launch, and the passage of time. The loop of `main` and of `reaper`
run until the process is stopped, and a crashed one is restarted; nothing is assumed of
requests, failures or expiry. Weak fairness of a whole loop is enough because at each
point a worker has an enabled step or waits for the queue.

### Ingest

**`upload`** (177 000 states): one upload request with any of nine forms (one file,
two files, a file before a malformed rest, no file, a suffix that is refused, a
format nobody knows, a header without rows, one too large or cut off within its head), three
rows in batches of two, so that one flush is in the loop and one after it; two
deletions; S3 or GCS; two failing calls, one client that leaves, one restart. Two
requests share nothing but the tables, and their ids differ; two deletions can
meet over one upload, so there are two.
* `UploadIsWhole`: what is listed has a row for every record, its rollups and its
  original, whoever fails when. `NoRowsWithoutUpload`: and no rows, rollups or
  analyses are without their upload.
* `DeletedOnceOrReported`: of two deletions one is told 204 and audited, and if it
  left an object, the log names it. That is all that is promised of orphans: a commit
  that fails, or a restart, may leave an object that nothing names.
* `CreatedMeansStored`, `SizedByRows`: a 201 is only given for what was committed,
  and its analysis is sized by the rows there are, not by the line count.
* `Answered` (liveness): no storage failure and no client that leaves can wedge the
  handler and the archive on the two ends of their pipe.

Fairness: weak, of each request's handler and archive goroutine. Both are ordinary
goroutines, scheduled when they can run; nothing is assumed of clients and failures,
and `Answered` is only about files that can be read to their end, or clients that
have left.

### Login

**`signin`** (6 287 000 states): two browsers behind one address, five requests, one
account with its factor on or off; one Redis failure, `ipLimit` 2, `acctLimit` 1,
codes of three steps accepted in either neighbour, two secrets, two sets of recovery
codes. Two requests at a time are enough for every check-then-act pair to race;
limits of one and two are reached within the five requests, with the window ending
in between.
* `FailureBudgets`: wrong passwords of an address and of an account stay within their
  limits, but for the requests in flight and failures that Redis did not record; the
  counters outlive the lock.
* `CodesOnce`: a one-time code is accepted once over all the time it is valid, but for
  a Redis failure; a recovery code once, and none of a replaced set.
* `EnabledHasSecret`: an activation racing a reset or a disable leaves no factor
  without a secret to check against.
* `SessionRestsOnFactor`: a session rests on what the account asked for at some moment
  of the request that opened it.

### Access and Reports

**`visibility`** (194 000 states): an owner and a member of one organization and one
more person who registers or is invited, two organizations, two uploads with
different files, two requests at a time and four in all, two grants, one failing
audit write. The owner, a colleague and a stranger are the three relations a caller
can have to an upload; two grants are needed for a direct one beside an
organization-wide one; four requests for issuing, reading, revoking and reading again.
* `DisclosureJustified`, `ExistenceHidden`: what a read or a start discloses, and whom
  it tells that an upload exists, whatever changes between its statements.
* `ListingAgrees`: the SQL and the Go statement of the rule accept the same uploads.
* `GrantAuthority`: grants in force come from someone entitled, one per subject and
  upload, on an upload that exists.
* `RecordsKept`: the rows of an upload are numbered without a gap and counted as they
  are stored; wherever no quote is open, the lines above and below have the rows they
  would have in files of their own, so that a stray quote costs what it takes in and
  nothing else; and what a full line says does not depend on the order of the columns,
  if no name is there twice. The two files have quotes that close, that do not, an empty
  line, short lines and text that is no value.
* `FiguresAgree`: panels of every scope agree with the rows and with each other,
  whatever was stored and deleted. It is stated for windows of whole hours: the headline
  counts come from hourly rollups (dashboard.go:82), which cannot agree with the minutes
  of a chart on a window that cuts an hour. The last two are looked at while no request
  is running: requests do not touch that data.

### Detection

**`sharding`** (81 000 states): every part of a pool of ten rows as a file (1024 files),
cut at every shard size. The pool has bursts, a beacon, rare hosts, threats, uploads
above the others, quiet hours, and rows without time, user, host or address, and a name
with the separator in it; thresholds are scaled down so that each of the six detectors
fires, and just not, on some of the files, and a detector's list is cut at two. An
answer has up to two findings with any ids, also unknown and repeated.
* `ShardingInvisible`: candidates, their order, rows, scores and figures are those of
  one pass over the file, also if the partials are merged backwards; and so are the hosts
  listed with an off-hours finding, if no shard had to leave one out.
* `FindingsCiteTheLog`: the rows of a stored finding, described from the file alone,
  are all of one behaviour and of nothing else, and its text, if it has any, is about
  the candidate of these rows, however much of the packet was shed; without the model
  every candidate is stored with its score, rounded.

### Where the code and its words disagree

Six runs end in a counterexample.

* **`slow_merge`** (`DoneIsExact`): nothing calls `heartbeat`, so a live job that
  outlasts `stale_after_seconds` (300 s) is requeued. The whole-file partial
  overwrites shard 0's, the old counter closes the shards' group, and the
  reduce counts the rows of the other shards twice. Its check is of the number of
  partials only.
* **`slow_findings`** (`FindingsReplaced`): two reduces both delete before either
  commits, and both reports remain, in spite of delete-then-insert.
* **`lost_launch`** (`QueuedHasJob`): `FailAnalysis` uses the context the publish
  failed on; when that is cancelled, the row stays queued with no job.
* **`lost_job`** (`Settles`): BRPOP takes a job before `claim` marks its row. A worker
  that dies in between leaves a row that `requeue_stale`, which wants
  `running`, never selects.
* **`oversize`** (`RefusedWhenTooLarge`): `Parse` takes every error but `io.EOF`, read
  errors included, for a malformed line (zscaler.go:134) and goes on. Past its head a
  file over the cap is never answered 413: the loop writes empty rows as long as the
  client waits.
* **`enroll`** (`OnUntilProof`): `StagePendingSecret` writes the new secret together
  with `totp_enabled = false`. Starting an enrolment on an account whose factor is on
  switches it off before any code was seen, also if it is abandoned.

Three more disagreements are in the models without a run of their own, as the passing
runs are stated around them.

* A cell that begins with a quote nothing closes, one cut off for instance, takes the
  lines below it into its own record, without an error or a count (zscaler.go:119). The
  repository's README keeps every line, "not dropped", as a row. `RecordsKept` says
  what a quote may take in.
* serialize.py:16 says of its separator that it "cannot occur in a hostname, IP or
  username", but nothing in the parser keeps it out: the aggregates of such a file are
  written and cannot be read back, and every reduce of the analysis fails (`LoadFails`).
* partial.py:19-20 says that sharded and unsharded results are identical. With more
  hosts in one quiet hour than a shard lists, which of them an off-hours finding shows
  depends on the cut; `ShardingInvisible` asks for the list only up to the cap (`FewHosts`).

## 4. What is proved

### AnalysisPipeline

For every number of workers, uploads, analyses, rows and failures, every shard
size, jobs of any length, from `ConstantsAssumption` and `NilAssumption` only:

* `ShardsPartition`: the slices `PublishAnalysis` computes count each row exactly
  once. The quotient of a row's index by the shard size names its shard;
  `ShardCountCovers` shows that the shard exists.
* `TypeCorrect`: `Spec => []TypeOK`. `TypeOK` alone is not inductive: that a job's
  shard is one of its analysis needs every busy worker to have a job, and that a
  stored partial is a set of rows of its upload needs the worker about to store
  it to hold one. `WorkerInv` says both.
* `TerminalFinal`: `Spec => TerminalIsFinal`, from the guards of the seven actions
  that write `status`.
* `PipelineInvariant` and `UnreapedExact`: `Spec => []UnreapedDoneIsExact`. The
  argument goes backwards from done: findings are committed before finish
  (`FindingsInv`); they carry the aggregate the worker merged (`ExactInv`); that is
  the slices of all shards, because no partial was missing and each partial is
  the slice of its shard (`SliceInv`); this is so because until the first requeue
  every job is one of the fan-out or the reduce that closes it (`OriginalInv`). A
  committed report belongs to an existing row, whose entries existed when it was
  mapped (`RowInv`). Whether the counter is right plays no part: a reduce that
  runs early or twice fails or repeats, and that is all it does. Expired keys and
  crashes are therefore harmless to exactness, at any number.
* `FansInOnce` and `ReduceFindsAll`: `Spec => []OneFanIn` and
  `Spec => []ReduceFindsEveryPartial`, for an analysis that was not requeued and whose
  keys did not expire, through `FanOutInvariant`: `Spec => []FanOutInv`. Neither property
  is inductive, and no equation between counter and jobs holds: a crash or a raised
  call loses a job that was never counted down. What holds is an inequality.
  `CountInv`: while some map job is still to be counted down, the shards whose job is
  outstanding, whose job has failed or whose partial is missing, together, are no more
  than the counter. A decrement takes away exactly one shard of that set, which has a
  partial because `put_partial` comes first; so when the counter reaches zero the set
  is empty (`WithinLess`): no map job is left to close it again, no partial is missing,
  and no worker is about to fail the analysis for a shard.
  That it is exactly one shard needs `OnceInv`: of each shard, and of the reduce, there
  is one job at most, on the queue or with one worker, and none before the launch
  published them. The reduce job then carries "no partial missing" from `fanin` to
  the queue, to `reserved` and to `merge`; `drop_partials` is past that. `KindInv` keeps
  map jobs off the reduce side. Five kinds of step move a fan-in (`PublishFan`,
  `ReserveFan`, `CompleteFan`, `EnqueueFan`, `DropFan`); all others leave it alone
  (`StillFan`). The `<= 0` of `complete_shard` could be `= 0` where these hypotheses
  hold; it matters only after an expiry or a requeue.
* `LifecycleImplemented`: `Spec => ImplementsLifecycle`, action by action from
  `PipelineInv`. Eight actions change what a client sees; each maps to one lifecycle
  step (`Claim` to `Start`, `CommitAnomalies` to `Record`, ...) and the others to a
  stutter. `Record`'s "exact unless touched" needs `ExactInv`, `Complete`'s "with
  findings" needs `FindingsInv`.

Four results are about recovery. Their hypotheses are the model's names for what the
code assumes and does not enforce; the runs `slow_merge`, `slow_findings` and
`lost_launch` show properties fail without them.

* `PromptDoneExact`: if `Prompt`, `Spec => []DoneIsExact`, with any number of requeues,
  crashes, raised calls and expired keys. The argument is one of handing over.
  `HandOverInv`: a running row ages, and so is on a reaper's list, only when no job of
  it is left anywhere (`NoWork`); one reaper at most has it on its list, because
  `requeue_stale` writes `queued` in the same statement that reads `running`. What the
  reaper enqueues is therefore the only job (`SoleJob`), and stays so: a job that counts
  down to zero is replaced by its reduce, and one that does not leaves none.
  `WholeInv`: that job reads the whole upload, or is the reduce that reads partial 0
  only; and partial 0, which the fan-out may have left behind as one shard's, is the
  whole upload's, or has expired, from the moment the job has stored it. So each
  report was scored on all shards or on the whole upload (`ScoredInv`), and by
  `ShardsPartition` either counts each row once.
* `PromptReplaces`: if moreover `MaxExpiries = 0`, `Spec => []FindingsReplaced`.
  `ReplacingInv`: a transaction about to commit has read every finding there is, since
  no other save is open: before the first requeue there is one reduce (`OneSaver`, from
  the fan-in), after it one job. TLC shows that the second hypothesis is needed: with
  one expired key, a counter that has gone lets two reduces save at once.
* `PromptStable`: if moreover no step after `finish` raises
  (`FaultPoints \cap AfterFinish = {}`), `Spec => DoneIsStable`. `DoneInv`: of a done
  analysis there is no job but the one that finished it, which is past `finish`, has
  nothing missing to fail on and embeds findings that are stored. A worker that
  finishes is the last (`LastAtFinish`): its reduce was enqueued, so no shard is
  outstanding or failed; or it has the only job there is. This hypothesis is needed
  too, and so is `MaxExpiries = 0`: TLC finds done turned into failed by a late timing
  that raises, and, when an expired counter has closed early, by a map job that fails
  while the reduce already finishes.
* `QueuedKeepsJob`: if `Losses = {}`, `Spec => []QueuedHasJob`, with jobs of any length.
  A row becomes queued with its publish still to come or on a reaper's list, and
  leaves each of these places only for the next: queue, worker, claimed. So the three
  windows of `Losses` are the only ones in which an analysis is forgotten.

The invariants were checked by TLC on the recovery instance before they were proved,
and those that do not need the further hypotheses on one with expired keys, losses and
calls that raise at any step.

The proofs first establish who writes each variable (`StatusWriters`,
`QueueWriters`, ...), so that each invariant is argued over the few actions that
can disturb it.

### Access

For any people, organizations, uploads, grants and requests at a time, from
`AccessAssumption` only:

* `AccessTypes`, `GrantsAreAuthorized`: `Spec => []TypeOK`, `Spec => []GrantAuthority`.
  Neither is inductive alone: a grant is issued two statements after its issuer was
  checked. `IInv` adds what each handler has established by the place it is at
  (`Sound`), that every grant was issued by someone entitled (`Issued`), and that
  there is one per key (`OneEach`). What was checked stays true because it is about
  what never changes: people are only added, an upload keeps its owner
  (`PeopleGrow`); the one thing that does change, that the upload exists, is checked
  by the upsert itself.
* `ListingsAgree`: `Spec => []ListingAgrees`, from `IInv` in every state:
  a maximum of levels is above none exactly if one of them is, and an admin's floor and
  the live grants are the levels of one statement and the disjuncts of the other.
* `DisclosuresJustified`, `ExistenceStaysHidden`: `Spec => []DisclosureJustified`,
  `Spec => []ExistenceHidden`. `DInv` says of a read at every place that its caller
  is related to the upload (`Related`), that the level it has now is at most the
  highest it ever had (`HeldOf`, against the history `held`), and that what it is
  about to disclose is within that, or recorded (`Justified`). Only a grant that is
  issued can raise a level, and that step raises `held` with it (`HeldGrows`);
  expiry, revocation and deletion lower it, and the audit log only grows.

### Ingest

For any number of requests, deletions, files, batch sizes and failures, from the
module's assumptions only: `Spec => []X` for `TypeOK` (`IngestTypes`), `UploadIsWhole`
(`ListedUploadIsWhole`), `NoRowsWithoutUpload` (`NoOrphanRows`), `SizedByRows`
(`LaunchedBySize`), `CreatedMeansStored` (`CreatedWasStored`) and
`DeletedOnceOrReported` (`DeletedOnce`).

What is listed is whole because of what a transaction held when it committed, and
that depends on how far the parser, the COPY and the archive goroutine had come. So
`IInv` says of each request what it has established by its place (`PlaceInv`): how
many rows COPY has accepted and how many wait in the batch (`RowsInv`), that what its
transaction holds is its own upload's and nothing of it is visible yet (`TxInv`),
that an archive goroutine which reported success has put the object of that very
part (`ArchiveInv`), and what an answer stands for (`ResultInv`). `Past` says that a
part is over: its id is used up, and no later step of the request may touch its rows
or its object. For deletions it is enough that the row goes in one statement: a
request that got it (`Took`) excludes any other (`DeleteInv`), and each audit entry
has such a request behind it (`TrailInv`).

### Login

For any number of browsers and requests, any limits, any number of lost Redis calls,
from `LoginAssumption`:

* `LoginTypes`, `FactorHasSecret`, `SessionsRest`: `Spec => []TypeOK`,
  `Spec => []EnabledHasSecret`, `Spec => SessionRestsOnFactor`. `FactorInv` says what a
  handler has established by its place (`Sound`): a running handler has seen every
  state of the factor since it arrived; one that waits for a code read a factor that
  was on; one that completes is `Justified`. A write by one request changes what all
  the others have seen, which is the case of `WritesFactor`.
* `CodesAcceptedOnce`: `Spec => []CodesOnce`, if `2 * Skew + 1 <= ConsumeTTL`. `ConsumeTTL`
  is three steps (90 seconds) and the code's `skewSteps` is 1, so the hypothesis holds
  with nothing to spare: with a skew of two it would be false, and so would the property.
  `CodeInv`: a code that was accepted more often than Redis failed is still
  remembered beyond its last valid step (`Kept`), or that step is over (`Outlived`). A
  recovery code that is unused was never accepted and is of the current set; codes of
  sets to come were never accepted.
* `BoundedFailures`: `Spec => []FailureBudgets`. The inequality by itself is not
  inductive: a check that passes knows the counter, not the tries. `BudgetInv` counts
  the handlers by their place. Below the limit, the tries are at most the counter plus
  the failures that a handler still owes the limiter (`Rec`, `Lock`) plus the lost calls;
  in any state, the tries and the passwords about to be tried are within the bound:
  for an address those past its half of the check (`Aim`), for an account those past
  both (`Pw`). When a half of the check passes, the handlers at these places are
  different browsers (`CountApart`), which turns the first into the second
  (`CheckBudget`, `CheckLockBudget`). `RecordFailure` that
  does not lock leaves the count below the limit, which is the case the `>=` of the
  code is needed for. `Paid` says that counters are paid for by requests; it gives
  their type.

The lemmas on numbers (`IpPasses`, `AcctRecords`, ...) are about values; each action
then only says which handler moved where (`Counts`).

### Reports

For any people, uploads, files with empty and short lines, quotes left open and text
that is no value, hours of any length and percentiles, from `AccessAssumption` and
`ReportsAssumption` (a header is names that `Sniff` takes, a cell is a value, `''` is no
host):

* `ReportsImplementAccess`: `ReportsSpec => Spec`. A store is an upload, a deletion a
  deletion, and the rest are the steps of Access; so its theorems hold here too
  (`AccessAsReported`).
* `DataInvariance`: each of the four tables is exactly the union of what the uploads
  there are contribute (`DataInv`). It needs the types of Access: an upload keeps its
  owner and the owner the organization, so a batch keeps its tenant (`BatchStays`).
* `RecordsAreKept`: `ReportsSpec => []RecordsKept`. What is a fact about `ParseFile` becomes
  one about the table by `DataInv`. A record's number is one more than the records
  that start no later (`LineNumbers`), and numbers without a gap count them
  (`EveryRecordARow`). Where no quote is open the records of the lines above end, and
  those below see nothing of them: starts, numbers and cells are those of the two parts
  (`StartsOfFirst` ... `RecordsOfOther`, joined in `PartsSay`). Exchanging two columns
  moves each field's column with them, if no name is there twice (`ColumnsMove`,
  `ColumnMoves`): of two columns of one name the first is taken, and the order does
  matter.
* `FiguresAgreeAlways`: `ReportsSpec => []FiguresAgree`. There is one rollup for each
  group of the rows of an upload with one host and bucket, and a rollup is found from
  any row of its group (`RollupsAre`, `SameRollup`). On whole hours a bucket is in scope
  exactly if its rows are (`WholeHours`, `InScope`), so the rollups in scope group the
  rows in scope, and a sum over them counts the rows (`TotalOfGroups`). The chart groups
  the same rollups once more by bucket (`ChartAdds`), the status codes group the rows
  that have one (`CodesAdd`). Finally a scope takes in the rows of the uploads of its
  tenant, and no others (`ScopeIsTenancy`).

The sums are the folds of the community modules, whose value is chosen among the
functions that satisfy a recursion. `SetLemmas` shows that there is one and that all
agree on the subsets of a finite set, by induction on their size. The library's
induction theorems take a predicate and cannot be used; induction is stated for the
*set* of what has the property (`NumberInduction`, `SubsetInduction`) and rests on the
least number, from the well-foundedness of `<`.

### Detection

For every file, every cut into shards, all thresholds, caps and scoring formulas, from
`DetectionAssumption` (rows have distinct, rising ids; `RareHits <= MaxUrls`, which is 3
and 8 in the code) and `ScoreAssumption` (scores are numbers; a threat the proxy named,
0.95, clears `MIN_SCORE`, 0.3). One inductive invariant, `Detected` (theorem
`Detection`), says what shards, candidates, report and findings are at every stage, `failed`
included; it
says it in terms of the file, so the work is in the lemmas on what the stages compute.

* `Sharding`: `Spec => []ShardingInvisible`. A map grouped by key over two disjoint sets
  of rows, merged key by key, is the map grouped over both (`GroupedMerge`); the
  instances differ in how the group of a common key adds up, and only the urls of a host
  do not: each shard lists the first eight and the merge caps once more. So the merged
  partial is not that of one pass but *alike* to it (`Alike`): equal but for the urls of
  hosts with more rows than `RareHits`, and for the hosts of an actor's hour. A host
  with no more rows than the cap has no more urls than the cap, in any shard, so its
  urls are all there (`FewUrls`, `CapTakesAll`), and `RareHits <= MaxUrls` is just what
  this needs. No detector reads the urls of another host (`RankedSame`). An actor's
  hosts in an hour add up as long as they are no more than the cap (`AlikeActors`,
  `ActorHostsMerge`), and then those listed are the same (`HostsSame`). `merge_all`
  takes the shards one after another (`MergesExists`, `MergeAllAlike`), and the slices
  are a partition of the file (`SlicesPartition`), read forwards or backwards.
* `TypeCorrect`: `Spec => []TypeOK`. That a list has at most `MAX_PER_DETECTOR` members,
  and exactly so many if anything was cut off, needs score and title to be a strict total
  order, which they are because no two candidates of a detector have one key
  (`CandidatesOf`, and per detector `ThreatsShape`, `ExfilShape`, ...). The same for
  the ranking of all six, where the kind comes second (`BeforeOrders`, `PrecedesOrders`).
  In such an order the ranks are exactly 0 to n-1 (`RanksDiffer`, `RanksCover`), so the
  ranking names each candidate once (`RankedIs`).
* `Citations`: `Spec => [](Named(Rows) => FindingsCiteTheLog)`. Ids tell rows apart, so
  a candidate's ids stand for a set of rows (`RowsNamed`), and per detector this is the
  set the property describes (`ThreatsCite` ... `OffHoursCite`). A reply can only repeat
  or leave out candidates, and its text is about the one whose id it has
  (`KnownEntries`); rounding moves a score by half a digit at most (`RoundedIs`).
  `Named` says that no row of the file calls a user or a host "unknown", and is needed:
  the aggregates put rows without a name under that key (stats.py:142, 152), so a user
  whose name it is shares findings with rows that have none.

### Model-checked only

The two liveness properties, `Settles` and `Answered`, since the prover does neither
fairness nor ENABLED. Every other property of a passing run is a theorem.

## 5. What is not modelled, and the plan

Partly modelled, with what is left out:
* analysis rows: the API's reads of them, and the choice of scope and time window in
  `startAnalysis`;
* the evidence packet: shedding is modelled, at any number of candidates; the budget it
  is for, the prompt and the severities are not;
* dashboards: the panels that read rows with the same filter as those modelled; text
  and vector search beyond its visibility rule;
* organizations and users: two registrations of one name at a time, which a unique
  index decides;
* object store clients: construction and configuration;
* numbers at the edge of their column's type, in the parser.

Left out for good: alerts (`check_all` has no caller) and process-local metrics, the
web frontend, HTTP helpers, configuration, logging, the migrations runner,
deployment, scripts and samples. They keep no state that several steps of several
actors could break. `fallback_rows` and the worker's `enqueue_map_jobs` have no caller.
