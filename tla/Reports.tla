------------------------------ MODULE Reports -------------------------------
(***************************************************************************)
(* What uploads contribute to the dashboards: the parsed rows, the rollups *)
(* derived from them in the same transaction, and the panels, each reading *)
(* rows or rollups through one tenancy filter.  Composed with Access, which *)
(* decides who uploads, deletes and looks.                                 *)
(*                                                                         *)
(* Time is in minutes.  Byte counts are summed like requests and left out; *)
(* one percentile stands for the three.                                    *)
(***************************************************************************)
EXTENDS Access, LogParser

CONSTANTS
    Content,     \* Content[u]: the file uploaded as u
    Hour,        \* minutes of an hour, few in a model
    Percentile,  \* 50, 95 or 99
    NoHost       \* '': the rollups' host of rows without one

ASSUME ReportsAssumption ==
    /\ Hour \in Nat \ {0} /\ Percentile \in 1 .. 100
    /\ NoHost \notin Value
    /\ \A u \in Upload : /\ Content[u].header \in Seq(STRING) /\ Sniff(Content[u].header)
                        /\ Content[u].lines \in Seq(Line)

VARIABLES
    entries,        \* log_entries
    rollups,        \* entry_rollups, of both grains
    statusRollups,  \* status_rollups
    counts          \* line_count and parsed_count of uploads

data == <<entries, rollups, statusRollups, counts>>
reportVars == <<people, sharing, trail, req, held, requests, faults, data>>

ReportsInit == Init /\ entries = {} /\ rollups = {} /\ statusRollups = {} /\ counts = {}

----------------------------------------------------------------------------
(* Ingest and deletion.                                                     *)

Grain == {"minute", "hour"}
Trunc(grain, ts) == IF grain = "hour" THEN ts - (ts % Hour) ELSE ts

(* IngestBatch, and CopyEntries: every row carries its upload, uploader and *)
(* organization.                                                            *)
Batch(c, u) == [upload |-> u, user |-> c, org |-> OrgOf(c)]
RowsOf(b, parsed) == {[upload |-> b.upload, user |-> b.user, org |-> b.org, e |-> e] : e \in parsed}

IsError(x) == x.e.resp_code # None /\ x.e.resp_code >= 400
IsHit(x) == x.e.cache_status = 1
HasCache(x) == x.e.cache_status # None
HasLatency(x) == x.e.latency_ms # None
Timed(R) == {x \in R : x.e.ts # None}

(* percentile_disc over the rows that have a latency; NULL without any.     *)
PercentileDisc(R) ==
    LET S == {x \in R : HasLatency(x)}
        upto(v) == Quantify(S, LAMBDA x : x.e.latency_ms <= v) IN
    IF S = {} THEN None
    ELSE Min({v \in {x.e.latency_ms : x \in S} : upto(v) * 100 >= Percentile * Cardinality(S)})

(* BuildRollups: a row for each grain, bucket and COALESCE(host, '') of the *)
(* upload's rows that have a time.                                          *)
MutKept(R) == {x \in Timed(R) : x.e.host # None}   \* Mutant: rows without a host are lost.
Kept(R) == Timed(R)
HostKey(x) == IF x.e.host = None THEN NoHost ELSE x.e.host

RollupKey(g, x) == <<g, Trunc(g, x.e.ts), HostKey(x)>>
Bucket(R, k) == {x \in Kept(R) : Trunc(k[1], x.e.ts) = k[2] /\ HostKey(x) = k[3]}
Rollup(b, k, G) ==
    [upload |-> b.upload, user |-> b.user, org |-> b.org, grain |-> k[1], bucket |-> k[2],
     host |-> k[3], requests |-> Cardinality(G), errors |-> Quantify(G, IsError),
     hits |-> Quantify(G, IsHit), cached |-> Quantify(G, HasCache)]
EntryRollups(b, R) ==
    {Rollup(b, k, Bucket(R, k))
     : k \in UNION {{RollupKey(g, x) : x \in Kept(R)} : g \in Grain}}

(* buildStatusRollups: by hour and response code.                           *)
Coded(R) == {x \in Timed(R) : x.e.resp_code # None}
CodeKey(x) == <<Trunc("hour", x.e.ts), x.e.resp_code>>
CodeBucket(R, k) == {x \in Coded(R) : Trunc("hour", x.e.ts) = k[1] /\ x.e.resp_code = k[2]}
StatusRollup(b, k, G) ==
    [upload |-> b.upload, user |-> b.user, org |-> b.org, bucket |-> k[1], code |-> k[2],
     requests |-> Cardinality(G), slow |-> PercentileDisc(G)]
StatusRollups(b, R) ==
    {StatusRollup(b, k, CodeBucket(R, k)) : k \in {CodeKey(x) : x \in Coded(R)}}

StoreWith(c, u, parsed) ==
    LET b == Batch(c, u)
        R == RowsOf(b, parsed.entries) IN
    /\ Store(c, u)
    /\ entries' = entries \cup R
    /\ rollups' = rollups \cup EntryRollups(b, R)
    /\ statusRollups' = statusRollups \cup StatusRollups(b, R)
    /\ counts' = counts \cup {[upload |-> u, lines |-> parsed.lines, parsed |-> parsed.parsed]}

(* The rows go by a statement, the rest by the upload's foreign keys.       *)
Without(table, u) == {x \in table : x.upload # u}
DeleteWith(c, u) ==
    /\ DeleteUpload(c, u)
    /\ entries' = Without(entries, u) /\ rollups' = Without(rollups, u)
    /\ statusRollups' = Without(statusRollups, u) /\ counts' = Without(counts, u)

ReportsNext ==
    \/ \E c \in DOMAIN users, u \in Upload :
          StoreWith(c, u, ParseFile(Content[u])) \/ DeleteWith(c, u)
    \/ (RequestStep \/ UserStep \/ ExpiryStep) /\ UNCHANGED data

ReportsSpec == ReportsInit /\ [][ReportsNext]_reportVars

----------------------------------------------------------------------------
(* The panels.                                                              *)

(* scopeFrom: one's own data, or the organization for an admin.             *)
Scopes(c, from, to) ==
    {[org |-> OrgOf(c), user |-> x, from |-> from, to |-> to]
        : x \in {c} \cup {y \in {NoUser} : IsAdmin(c)}}

(* Scope.where, on rows by their time and on rollups by their bucket.       *)
Where(sc, x, t) ==
    /\ x.org = sc.org /\ sc.from <= t /\ t < sc.to
    /\ sc.user # NoUser => x.user = sc.user
RowsIn(sc) == {x \in Timed(entries) : Where(sc, x, x.e.ts)}
BucketsIn(sc, grain) == {b \in rollups : b.grain = grain /\ Where(sc, b, b.bucket)}

SumOf(F) == MapThenSumSet(LAMBDA x : F[x], DOMAIN F)
Total(B, f) == SumOf([b \in B |-> b[f]])
Sums(B) == [f \in {"requests", "errors", "hits", "cached"} |-> Total(B, f)]

DashboardSummary(sc) ==
    [sums |-> Sums(BucketsIn(sc, "hour")),
     hosts |-> {b.host : b \in BucketsIn(sc, "hour")},
     latency |-> PercentileDisc(RowsIn(sc))]

(* The chart's points: counts of a bucket's rollups, latency of its rows.   *)
DashboardSeries(sc, grain) ==
    [t \in {b.bucket : b \in BucketsIn(sc, grain)} |->
       [sums |-> Sums({b \in BucketsIn(sc, grain) : b.bucket = t}),
        latency |-> PercentileDisc({x \in RowsIn(sc) : Trunc(grain, x.e.ts) = t})]]

(* The hosts, the longest list first cut at a limit that is not reached.    *)
DashboardTop(sc) ==
    [h \in {x.e.host : x \in RowsIn(sc)} \ {None} |->
       LET G == {x \in RowsIn(sc) : x.e.host = h} IN
       [requests |-> Cardinality(G), errors |-> Quantify(G, IsError)]]

(* The breakdown by response code, with the slowest bucket's percentile.    *)
StatusCodes(sc) ==
    LET found == {b \in statusRollups : Where(sc, b, b.bucket)}
        slow(k) == {b.slow : b \in {x \in found : x.code = k}} \ {None} IN
    [k \in {b.code : b \in found} |->
       [requests |-> Total({b \in found : b.code = k}, "requests"),
        slow |-> IF slow(k) = {} THEN None ELSE Max(slow(k))]]

----------------------------------------------------------------------------
(* Properties.                                                              *)

(* The requests of Access do not touch the data: it is looked at while none *)
(* is running, which leaves out no state of the data.                       *)
Quiet == \A r \in Request : At(r, "idle")

(* What the panels show somebody in a scope, against the rows in it.        *)
PanelsAgree(c, w, sc) ==
    LET R == {x \in Timed(entries) :
                 /\ sc.from <= x.e.ts /\ x.e.ts < sc.to
                 /\ x.upload \in uploads /\ UploadOrg(x.upload) = OrgOf(c)
                 /\ sc.user = NoUser \/ owner[x.upload] = c}
        summary == DashboardSummary(sc)
        top == DashboardTop(sc)
        codes == StatusCodes(sc) IN
    /\ summary.sums.requests = Cardinality(R)
    /\ summary.sums.errors = Quantify(R, IsError)
    /\ summary.latency = PercentileDisc(R)
    /\ summary.hosts = DOMAIN top \cup {HostKey(x) : x \in R}
    /\ \A g \in Grain :
          LET chart == DashboardSeries(sc, g) IN
          \A f \in DOMAIN summary.sums :
             SumOf([t \in DOMAIN chart |-> chart[t].sums[f]]) = summary.sums[f]
    /\ w[1] = w[2] => \A t \in DOMAIN DashboardSeries(sc, "hour") :
                         DashboardSeries(sc, "hour")[t].latency = summary.latency
    /\ \A h \in DOMAIN top :
          top[h].requests = Total({b \in BucketsIn(sc, "minute") : b.host = h}, "requests")
    /\ SumOf([k \in {k \in DOMAIN codes : k >= 400} |-> codes[k].requests]) = summary.sums.errors

(* On windows of whole hours the panels agree with the rows and with one    *)
(* another, whatever was uploaded and deleted: headline figures, chart of   *)
(* either grain, top hosts and status codes, in every scope somebody may    *)
(* ask for; and no scope takes in anybody else's rows (Scope.where).        *)
FiguresAgree ==
    LET ends == {Trunc("hour", x.e.ts) : x \in Timed(entries)}
        windows == {w \in ends \X ends : w[1] <= w[2]} IN
    Quiet => \A c \in DOMAIN users : \A w \in windows :
                \A sc \in Scopes(c, w[1], w[2] + Hour) : PanelsAgree(c, w, sc)

(* The full lines of a file, that are records of their own, and the rows of *)
(* them with two of the file's columns exchanged.                           *)
FullLines(file) ==
    {n \in Starts(file.lines) : /\ ~file.lines[n].opens
                                /\ Len(file.lines[n].cells) = Len(file.header)}
Exchange(s, j) == <<s[j]>> \o SubSeq(s, 2, j - 1) \o <<s[1]>> \o SubSeq(s, j + 1, Len(s))
Reordered(file, j) ==
    LET lines == [n \in DOMAIN file.lines |->
                    IF n \in FullLines(file)
                    THEN [file.lines[n] EXCEPT !.cells = Exchange(@, j)] ELSE file.lines[n]] IN
    {e \in ParseFile([header |-> Exchange(file.header, j), lines |-> lines]).entries :
        \E n \in FullLines(file) : e.line = LineNo(file.lines, n)}

(* The rows of a file's first m lines, and those of the others numbered on. *)
Part(file, i, j) == [header |-> file.header, lines |-> SubSeq(file.lines, i, j)]
CutAfter(file, m) ==
    LET first == ParseFile(Part(file, 1, m)).entries
        rest == ParseFile(Part(file, m + 1, Len(file.lines))).entries IN
    first \cup {[e EXCEPT !.line = @ + Cardinality(first)] : e \in rest}

(* The rows of an upload are numbered from 2 without a gap and counted as   *)
(* they are stored, and a deleted upload has none.  Lines before and after  *)
(* a place where no quote is open have the rows they would have in files of *)
(* their own: a stray quote, an empty or a short line costs nothing but     *)
(* what the quote takes in (zscaler.Parse).  What a full line says does not *)
(* depend on the order of the columns if no name is there twice (Column).   *)
RecordsKept ==
    Quiet =>
    /\ \A x \in entries : x.upload \in uploads
    /\ \A u \in uploads :
          LET R == {x.e : x \in {y \in entries : y.upload = u}}
              file == Content[u] IN
          /\ {e.line : e \in R} = 2 .. Cardinality(R) + 1
          /\ [upload |-> u, lines |-> Cardinality(R) + 1, parsed |-> Quantify(R, Parsed)]
               \in counts
          /\ \A m \in 0 .. Len(file.lines) :
                ~InQuote(file.lines, m + 1) => CutAfter(file, m) = R
          /\ IsInjective(file.header) =>
                \A j \in 2 .. Len(file.header) : Reordered(file, j) \subseteq R
=============================================================================
