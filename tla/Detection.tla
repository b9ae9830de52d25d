----------------------------- MODULE Detection ------------------------------
(***************************************************************************)
(* What the worker computes inside its steps: the aggregates of a shard,   *)
(* their merge, the six detectors over the merged aggregates, and the      *)
(* findings stored of them, narrated by the model or not.                  *)
(*                                                                         *)
(* A file is a sequence of rows, cut into shards of consecutive rows.  The *)
(* lists of a partial are the sets of the row ids in them where rows are   *)
(* listed, and bags where values are.  JSON keeps sets and numbers; two    *)
(* names that make a key are joined by a separator, which must not be in   *)
(* either.  The formulas of the scores are a parameter; what they are      *)
(* computed from is modelled.  The actions of a threat are wording and     *)
(* left out; of the hosts of an off-hours candidate it is said which may   *)
(* be listed, apart from its figures.                                      *)
(***************************************************************************)
EXTENDS Integers, Sequences, SequencesExt

CONSTANTS
    Files,           \* the rows of an upload, in line_no order
    None,            \* NULL
    Minute, Hour, Day,   \* in units of ts
    MinBuckets, MinBurst, MinLogs, MinBeaconHits, MinHosts, RareHits, MinHours,
    MinOffHours,
    QuietPercent,    \* QUIET_HOUR_RATIO
    MaxUrls,         \* MAX_EVIDENCE_VALUES
    MaxHostsShown,   \* 5, the hosts of an off-hours finding
    MinScore, MaxPerDetector,
    Score(_, _),     \* the score a detector gives the figures it has
    Digit,           \* what round(score, 3) rounds to, in units of scores
    Separated,       \* the names with the separator of keys in them
    Confidence,      \* confidences the model answers with
    MaxReply         \* findings of an answer (bound of the model)

Unknown == 0
Name == Nat \cup {None}   \* Names are numbers that keep their order.
LogEntry == [id : Nat, ts : Int \cup {None}, client_ip : Name, username : Name,
             host : Name, url : Name, threat_name : Name, req_bytes : Int \cup {None}]

ASSUME DetectionAssumption ==
    /\ {Minute, Hour, Day, MinBurst, MinBeaconHits, MinHours, MinScore, Digit}
          \subseteq Nat \ {0}
    /\ {MinBuckets, MinLogs, MinHosts, MinOffHours, QuietPercent, MaxUrls, MaxHostsShown,
        MaxPerDetector, MaxReply} \subseteq Nat
    /\ Separated \subseteq Nat \ {Unknown}
    /\ RareHits \in 0 .. MaxUrls   \* 3 and 8
    /\ Confidence \subseteq Nat
    /\ Files \subseteq Seq(LogEntry)
    /\ \A f \in Files : \A i, j \in DOMAIN f : i < j => f[i].id < f[j].id

VARIABLES
    file,       \* the upload's rows
    shards,     \* the partials of the shards, until they have been merged
    ranked,     \* the candidates c0, c1, ... as reduce computed them
    report,     \* the anomalies of the report; about: whose text it is (0: nobody's)
    model,      \* did the model write the report?
    findings,   \* the rows of anomalies
    stage

vars == <<file, shards, ranked, report, model, findings, stage>>

----------------------------------------------------------------------------
(* Aggregating a shard.                                                     *)

OrUnknown(v) == IF v = None THEN Unknown ELSE v
Actor(x) == IF x.username # None THEN x.username ELSE OrUnknown(x.client_ip)

MinuteOf(x) == x.ts \div Minute
HourOf(x) == (x.ts % Day) \div Hour

Ids(R) == {x.id : x \in R}
Present(R, f) == {x[f] : x \in R} \ {None}
ValuesOf(R, f) == [v \in {x[f] : x \in R} |-> Quantify(R, LAMBDA x : x[f] = v)]

(* The distinct values that come first, up to the cap.                      *)
FirstValues(R, f) ==
    LET since(v) == Min({x.id : x \in {y \in R : y[f] = v}})
        V == Present(R, f) IN
    {v \in V : Quantify(V, LAMBDA w : since(w) < since(v)) < MaxUrls}

Timed(R) == {x \in R : x.ts # None}
Sized(R) == {x \in R : x.req_bytes # None /\ x.req_bytes > 0}

ByteGroup(R) ==
    LET bytes == [x \in R |-> x.req_bytes] IN
    [ids |-> Ids(R), total |-> MapThenSumSet(LAMBDA x : bytes[x], R),
     logs |-> ValuesOf(R, "req_bytes")]
ThreatGroup(R) == [ids |-> Ids(R), users |-> Present(R, "username")]
HostGroup(R) == [ids |-> Ids(R), users |-> Present(R, "username"),
                 urls |-> FirstValues(R, "url")]

MapShard(R) ==
    LET GroupBy(S, Key(_), Aggregate(_)) ==
            [k \in {Key(x) : x \in S} |-> Aggregate({x \in S : Key(x) = k})]
        located == {x \in Timed(R) : x.client_ip # None} IN
    [ip_minute |-> GroupBy(located, LAMBDA x : <<x.client_ip, MinuteOf(x)>>, Ids),
     user_host |-> GroupBy(Sized(R),
                           LAMBDA x : <<OrUnknown(x.username), OrUnknown(x.host)>>,
                           ByteGroup),
     req_byte_logs |-> ValuesOf(Sized(R), "req_bytes"),
     ip_host_times |-> GroupBy({x \in located : x.host # None},
                               LAMBDA x : <<x.client_ip, x.host>>,
                               LAMBDA G : {<<x.ts, x.id>> : x \in G}),
     threats |-> GroupBy({x \in R : x.threat_name # None},
                         LAMBDA x : <<x.threat_name, OrUnknown(x.host)>>, ThreatGroup),
     hosts |-> GroupBy({x \in R : x.host # None}, LAMBDA x : x.host, HostGroup),
     hour_counts |-> GroupBy(Timed(R), HourOf, Cardinality),
     hour_actors |-> GroupBy(Timed(R), LAMBDA x : <<HourOf(x), Actor(x)>>, Ids),
     actor_hosts |-> GroupBy(Timed(R), LAMBDA x : <<HourOf(x), Actor(x)>>,
                             LAMBDA G : FirstValues(G, "host")),
     entries_seen |-> Cardinality(R)]

(* Merging.                                                                 *)

Union(a, b) == a \cup b
Plus(m, n) == m + n

MergeBytes(a, b) == [ids |-> a.ids \cup b.ids, total |-> a.total + b.total,
                     logs |-> a.logs (+) b.logs]
MergeThreats(a, b) == [ids |-> a.ids \cup b.ids, users |-> a.users \cup b.users]

(* The other's urls and hosts are capped once more, to those that a set of  *)
(* strings gives first; a shard has no more than the cap.                   *)
Capped(S) == {U \in SUBSET S : Cardinality(U) = Min({MaxUrls, Cardinality(S)})}
AddValues(S, T) == S \cup (CHOOSE U \in Capped(T) : TRUE)
MergeHosts(a, b) ==
    [ids |-> a.ids \cup b.ids, users |-> a.users \cup b.users,
     urls |-> AddValues(a.urls, b.urls)]

(* _merge_maps: values of a key in both are merged, others are kept.        *)
MergeMaps(f, g, Combine(_, _)) ==
    [k \in DOMAIN f \cup DOMAIN g |->
       IF k \notin DOMAIN g THEN f[k]
       ELSE IF k \notin DOMAIN f THEN g[k] ELSE Combine(f[k], g[k])]

Merge(p, q) ==
    [ip_minute |-> MergeMaps(p.ip_minute, q.ip_minute, Union),
     user_host |-> MergeMaps(p.user_host, q.user_host, MergeBytes),
     req_byte_logs |-> p.req_byte_logs (+) q.req_byte_logs,
     ip_host_times |-> MergeMaps(p.ip_host_times, q.ip_host_times, Union),
     threats |-> MergeMaps(p.threats, q.threats, MergeThreats),
     hosts |-> MergeMaps(p.hosts, q.hosts, MergeHosts),
     hour_counts |-> MergeMaps(p.hour_counts, q.hour_counts, Plus),
     hour_actors |-> MergeMaps(p.hour_actors, q.hour_actors, Union),
     actor_hosts |-> MergeMaps(p.actor_hosts, q.actor_hosts, AddValues),
     entries_seen |-> p.entries_seen + q.entries_seen]

MutMergeAll(partials) ==   \* Mutant: an hour counted by two shards keeps one count.
    LET into(p, q) == [Merge(p, q) EXCEPT !.hour_counts = q.hour_counts @@ p.hour_counts] IN
    FoldLeft(into, MapShard({}), partials)
MergeAll(partials) == FoldLeft(Merge, MapShard({}), partials)

----------------------------------------------------------------------------
(* Scoring.  A candidate's key names it in its title.                       *)

Candidate(kind, key, score, ids, evidence) ==
    [kind |-> kind, key |-> key, score |-> score, ids |-> ids, evidence |-> evidence]

KeyBefore(s, t) ==
    \E i \in DOMAIN s : s[i] < t[i] /\ \A j \in 1 .. i - 1 : s[j] = t[j]

(* _top: the first by falling score, then title.                            *)
Before(c, d) == c.score > d.score \/ (c.score = d.score /\ KeyBefore(c.key, d.key))
Kept(C) == {c \in C : c.score >= MinScore}

MutTop(C) ==   \* Mutant: one too many.
    {c \in Kept(C) : Quantify(Kept(C), LAMBDA d : Before(d, c)) <= MaxPerDetector}
Top(C) == {c \in Kept(C) : Quantify(Kept(C), LAMBDA d : Before(d, c)) < MaxPerDetector}

(* A burst is scored by its minute against all minutes, the sender by its   *)
(* worst burst.                                                             *)
VolumeSpikes(p) ==
    LET counts == [k \in DOMAIN p.ip_minute |-> Cardinality(p.ip_minute[k])]
        score(k) == Score("volume_spike", <<counts[k], counts>>)
        bursts == {k \in DOMAIN counts : counts[k] >= MinBurst /\ score(k) > 0} IN
    {LET W == {k \in bursts : k[1] = ip} IN
       Candidate("volume_spike", <<ip>>, Max({score(k) : k \in W}),
                 UNION {p.ip_minute[k] : k \in W}, [k \in W |-> counts[k]])
     : ip \in {k[1] : k \in {b \in bursts : Cardinality(DOMAIN counts) >= MinBuckets}}}

DataExfil(p) ==
    {LET G == p.user_host[k] IN
       Candidate("data_exfil", k,
                 Score("data_exfil", <<Max(DOMAIN G.logs), p.req_byte_logs>>),
                 G.ids, <<G.total, Max(DOMAIN G.logs), p.req_byte_logs>>)
     : k \in {x \in DOMAIN p.user_host : BagCardinality(p.req_byte_logs) >= MinLogs}}

(* The gaps between the distinct times of a pair, by the earlier one.       *)
Gaps(hits) ==
    LET T == {h[1] : h \in hits} IN
    [t \in T \ {Max(T)} |-> Min({u \in T : u > t}) - t]

Beacons(p) ==
    {LET H == p.ip_host_times[k] IN
       Candidate("beaconing", k, Score("beaconing", Gaps(H)), {h[2] : h \in H}, Gaps(H))
     : k \in {x \in DOMAIN p.ip_host_times :
                 /\ Cardinality(p.ip_host_times[x]) >= MinBeaconHits
                 /\ Cardinality(DOMAIN Gaps(p.ip_host_times[x])) >= MinBeaconHits - 1}}

BlockedThreats(p) ==
    {Candidate("blocked_threat", k, Score("blocked_threat", <<>>), p.threats[k].ids,
               p.threats[k].users)
     : k \in DOMAIN p.threats}

RareDestinations(p) ==
    LET hits(h) == Cardinality(p.hosts[h].ids)
        busiest == Max({hits(h) : h \in DOMAIN p.hosts}) IN
    {Candidate("rare_destination", <<h>>, Score("rare_destination", <<busiest, hits(h)>>),
               p.hosts[h].ids, <<p.hosts[h].users, busiest, p.hosts[h].urls>>)
     : h \in {x \in DOMAIN p.hosts : /\ Cardinality(DOMAIN p.hosts) >= MinHosts
                                     /\ Cardinality(p.hosts[x].users) = 1
                                     /\ hits(x) <= RareHits}}

(* Twice the median of the numbers f[x].                                    *)
TwiceMedian(f) ==
    LET n == Cardinality(DOMAIN f)
        kth(k) == CHOOSE v \in {f[x] : x \in DOMAIN f} :
                     /\ Quantify(DOMAIN f, LAMBDA x : f[x] < v) < k
                     /\ Quantify(DOMAIN f, LAMBDA x : f[x] <= v) >= k IN
    kth((n + 1) \div 2) + kth(n \div 2 + 1)

QuietHours(counts) ==
    IF Cardinality(DOMAIN counts) < MinHours THEN {}
    ELSE {h \in DOMAIN counts : counts[h] * 200 < QuietPercent * TwiceMedian(counts)}

QuietActivity(p) == {k \in DOMAIN p.hour_actors : k[1] \in QuietHours(p.hour_counts)}

OffHours(p) ==
    LET quiet == QuietActivity(p)
        hours(a) == {k[1] : k \in {x \in quiet : x[2] = a}}
        ids(a) == UNION {p.hour_actors[k] : k \in {x \in quiet : x[2] = a}}
        figures(a) == <<[h \in hours(a) |-> p.hour_counts[h]], TwiceMedian(p.hour_counts),
                        Cardinality(ids(a))>> IN
    {Candidate("off_hours", <<a>>, Score("off_hours", figures(a)), ids(a), figures(a))
     : a \in {x \in {k[2] : k \in quiet} : Cardinality(ids(x)) >= MinOffHours}}

(* The hosts that may be listed with it: its hours are merged, in some      *)
(* order each, and the first by name are shown.                             *)
HostsListed(p, a) ==
    LET active == {k \in QuietActivity(p) : k[2] = a}
        merged == {UNION {part[k] : k \in active}
                   : part \in {f \in [active -> UNION {Capped(p.actor_hosts[k]) : k \in active}] :
                                 \A k \in active : f[k] \in Capped(p.actor_hosts[k])}} IN
    {{h \in H : Quantify(H, LAMBDA g : g < h) < MaxHostsShown} : H \in merged}

(* score: the candidates of every detector, by falling score, kind, title.  *)
Kinds == <<"beaconing", "blocked_threat", "data_exfil", "off_hours", "rare_destination",
           "volume_spike">>
KindRank(c) == CHOOSE i \in DOMAIN Kinds : Kinds[i] = c.kind

Precedes(c, d) ==
    \/ c.score > d.score
    \/ /\ c.score = d.score
       /\ \/ KindRank(c) < KindRank(d)
          \/ KindRank(c) = KindRank(d) /\ KeyBefore(c.key, d.key)

Scorers(p) == {VolumeSpikes(p), DataExfil(p), Beacons(p), BlockedThreats(p),
               RareDestinations(p), OffHours(p)}
Found(p) == UNION {Top(C) : C \in Scorers(p)}
Ranked(p) ==
    LET C == Found(p) IN
    [n \in 1 .. Cardinality(C) |->
       CHOOSE c \in C : Quantify(C, LAMBDA d : Precedes(d, c)) = n - 1]

(* Scores have an order, and a threat the proxy named is worth reporting.   *)
ASSUME ScoreAssumption ==
    /\ Score("blocked_threat", <<>>) >= MinScore   \* 0.95 and 0.3
    /\ \A f \in Files : \A C \in Scorers(MapShard(ToSet(f))) : \A c \in C : c.score \in Nat

----------------------------------------------------------------------------
(* The steps.                                                               *)

Init ==
    /\ file \in Files
    /\ shards = <<>> /\ ranked = <<>> /\ report = <<>> /\ findings = <<>>
    /\ model = FALSE /\ stage = "queued"

Slice(size, s) ==
    {file[i] : i \in (s - 1) * size + 1 .. Min({s * size, Len(file)})}

(* run_map of every shard; an empty upload has one, without rows.           *)
MapShards ==
    /\ stage = "queued" /\ stage' = "mapped"
    /\ \E size \in 1 .. Max({1, Len(file)}) :
          shards' = [s \in 1 .. Max({1, (Len(file) + size - 1) \div size}) |->
                       MapShard(Slice(size, s))]
    /\ UNCHANGED <<file, ranked, report, model, findings>>

(* loads: a key must split into the two parts it was joined of; addresses   *)
(* and numbers do, names need not.                                          *)
NamesJoined(p) ==
    UNION {{k[1], k[2]} : k \in DOMAIN p.user_host \cup DOMAIN p.threats}
      \cup {k[2] : k \in DOMAIN p.ip_host_times \cup DOMAIN p.hour_actors}
Loadable(p) == NamesJoined(p) \cap Separated = {}

LoadFails ==
    /\ stage = "mapped" /\ stage' = "failed"
    /\ \E s \in DOMAIN shards : ~Loadable(shards[s])
    /\ UNCHANGED <<file, shards, ranked, report, model, findings>>

Reduce ==
    /\ stage = "mapped" /\ stage' = "scored"
    /\ \A s \in DOMAIN shards : Loadable(shards[s])
    /\ ranked' = Ranked(MergeAll(shards))
    /\ UNCHANGED <<file, shards, report, model, findings>>

(* fallback_report: without a key, after an error, a refusal or an answer   *)
(* that does not parse.                                                     *)
Rounded(score) == Digit * ((2 * score + Digit) \div (2 * Digit))
Fallback ==
    /\ model' = FALSE
    /\ report' = [n \in DOMAIN ranked |->
                    [id |-> n, confidence |-> Rounded(ranked[n].score), about |-> n]]

(* What is known of an answer: the entries that name a candidate, in order. *)
Known(reply) ==
    LET known == {i \in DOMAIN reply : reply[i].id \in DOMAIN ranked} IN
    [n \in 1 .. Cardinality(known) |->
       reply[CHOOSE i \in known : Quantify(known, LAMBDA j : j < i) = n - 1]]

(* build_evidence_packet numbers the candidates, then sheds the last ones   *)
(* until the packet fits; the model describes those it was shown, by the    *)
(* number they have there.                                                  *)
Replies(shown) ==
    {a \in [id : 1 .. Len(ranked) + 1, confidence : Confidence, about : 0 .. shown] :
        a.about = IF a.id <= shown THEN a.id ELSE 0}

(* Any ids, also those of candidates shed from the packet, any number of    *)
(* times; the ids there are not are dropped.                                *)
Answer ==
    /\ model' = TRUE
    /\ \E shown \in 0 .. Len(ranked) : \E reply \in BoundedSeq(Replies(shown), MaxReply) :
          report' = Known(reply)

(* The partials have been merged and are not read any more.                 *)
AnalyzeCandidates ==
    /\ stage = "scored" /\ stage' = "narrated"
    /\ Fallback \/ Answer
    /\ shards' = <<>>
    /\ UNCHANGED <<file, ranked, findings>>

(* _to_rows: the candidate decides kind and rows, the report the rest.      *)
MutToRow(a) ==   \* Mutant: the candidates are numbered from the other end.
    LET c == ranked[Len(ranked) + 1 - a.id] IN
    [kind |-> c.kind, ids |-> c.ids, confidence |-> a.confidence, about |-> a.about]
ToRow(a) ==
    LET c == ranked[a.id] IN
    [kind |-> c.kind, ids |-> c.ids, confidence |-> a.confidence, about |-> a.about]

SaveAnomalies ==
    /\ stage = "narrated" /\ stage' = "saved"
    /\ findings' = [n \in DOMAIN report |-> ToRow(report[n])]
    /\ UNCHANGED <<file, shards, ranked, report, model>>

Next == MapShards \/ LoadFails \/ Reduce \/ AnalyzeCandidates \/ SaveAnomalies

Spec == Init /\ [][Next]_vars

----------------------------------------------------------------------------
(* Properties.                                                              *)

Rows == ToSet(file)

(* A candidate has rows of the upload and clears the score it must; each    *)
(* detector gives at most MAX_PER_DETECTOR of them; findings are made of    *)
(* candidates.                                                              *)
TypeOK ==
    /\ file \in Files /\ model \in BOOLEAN
    /\ stage \in {"queued", "mapped", "failed", "scored", "narrated", "saved"}
    /\ \A n \in DOMAIN ranked : /\ ranked[n].ids \in (SUBSET Ids(Rows)) \ {{}}
                                 /\ ranked[n].score >= MinScore
    /\ \A i \in DOMAIN Kinds :
          Quantify(DOMAIN ranked, LAMBDA n : ranked[n].kind = Kinds[i]) <= MaxPerDetector
    /\ report \in Seq([id : DOMAIN ranked, confidence : Nat, about : Nat])
    /\ Len(findings) <= Len(report)

(* Detection gives the same candidates in the same order, with the same     *)
(* rows, scores and figures, however the file is cut into shards, merged    *)
(* forwards or backwards, as in one pass over the file (merge_all's "order  *)
(* independent", test_sharding's fingerprint).  The hosts listed with an    *)
(* off-hours finding are, too, if the actor saw no more in an hour than a   *)
(* shard lists.                                                             *)
FewHosts(a) ==
    \A h \in {HourOf(x) : x \in Timed(Rows)} :
       Cardinality(Present({x \in Timed(Rows) : HourOf(x) = h /\ Actor(x) = a}, "host"))
         <= MaxUrls

ShardingInvisible ==
    stage = "scored" =>
       /\ ranked = Ranked(MapShard(Rows))
       /\ ranked = Ranked(MergeAll(Reverse(shards)))
       /\ \A n \in DOMAIN ranked :
             LET a == ranked[n].key[1] IN
             ranked[n].kind = "off_hours" /\ FewHosts(a) =>
                HostsListed(MergeAll(shards), a) = HostsListed(MapShard(Rows), a)

(* The rows a finding of each kind cites, said of the file itself: all of   *)
(* one behaviour and of nothing else.                                       *)
InMinute(x) == {y \in Timed(Rows) : y.client_ip = x.client_ip /\ MinuteOf(y) = MinuteOf(x)}
InHour(h) == {y \in Timed(Rows) : HourOf(y) = h}

OneBehaviour(kind, R) ==
    \E r \in R :
       CASE kind = "volume_spike" ->
              \A x \in R : /\ x.client_ip = r.client_ip /\ InMinute(x) \subseteq R
                           /\ Cardinality(InMinute(x)) >= MinBurst
         [] kind = "data_exfil" ->
              R = {x \in Sized(Rows) : x.username = r.username /\ x.host = r.host}
         [] kind = "beaconing" ->
              /\ R = {x \in Timed(Rows) : x.client_ip = r.client_ip /\ x.host = r.host}
              /\ Cardinality({x.ts : x \in R}) >= MinBeaconHits
         [] kind = "blocked_threat" ->
              R = {x \in Rows : x.threat_name = r.threat_name /\ x.host = r.host}
         [] kind = "rare_destination" ->
              /\ R = {x \in Rows : x.host = r.host}
              /\ \A x, y \in R : None \in {x.username, y.username} \/ x.username = y.username
              /\ Cardinality(R) <= RareHits
         [] kind = "off_hours" ->
              LET hours == {HourOf(x) : x \in Timed(Rows)}
                  counts == [h \in hours |-> Cardinality(InHour(h))] IN
              /\ R = {x \in Timed(Rows) : Actor(x) = Actor(r) /\ HourOf(x) \in QuietHours(counts)}
              /\ Cardinality(hours) >= MinHours

(* Whatever the model answers, a stored finding cites exactly the rows of   *)
(* one behaviour of its kind, and its text is about the candidate of these  *)
(* rows, if it was in the packet; without the model there is one for every  *)
(* candidate with the detector's score but for its rounding, and a threat   *)
(* the proxy named is only missing if the detector's list is full (_to_rows, *)
(* fallback_report, build_evidence_packet).                                 *)
FindingsCiteTheLog ==
    stage = "saved" =>
       /\ \A n \in DOMAIN findings :
             LET f == findings[n] IN
             /\ OneBehaviour(f.kind, {x \in Rows : x.id \in f.ids})
             /\ f.about # 0 => ranked[f.about].kind = f.kind /\ ranked[f.about].ids = f.ids
       /\ ~model =>
             /\ Len(findings) = Len(ranked)
             /\ \A n \in DOMAIN findings :
                   LET d == 2 * (findings[n].confidence - ranked[n].score) IN
                   -Digit <= d /\ d <= Digit
             /\ \A x \in Rows :
                   LET blocked == {n \in DOMAIN findings : findings[n].kind = "blocked_threat"} IN
                   x.threat_name # None =>
                      \/ \E n \in blocked : x.id \in findings[n].ids
                      \/ Cardinality(blocked) = MaxPerDetector
=============================================================================
