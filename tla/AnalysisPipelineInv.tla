------------------------ MODULE AnalysisPipelineInv ------------------------
(***************************************************************************)
(* The inductive invariants behind "an analysis the reaper has not touched *)
(* is exact" (every job, partial, aggregate and finding of it is the one   *)
(* the gateway's fan-out determines), behind "one worker closes the        *)
(* counter" (it covers the shards that are still to be counted down) and   *)
(* behind recovery (what one requeued job, alone, leaves behind).          *)
(***************************************************************************)
EXTENDS AnalysisPipeline

(* Jobs on the queue, and jobs some worker has reserved. *)
Members(q) == {q[i] : i \in DOMAIN q}
Queued == Members(queue)
Busy == {w \in Worker : pc[w] # "idle"}

(* The slice of shard s, and the sequence of all of them. *)
ShardRows(a, s) == Slice(a, s * ShardSize, ShardSize)
FullParts(a) == [i \in 1 .. ShardCount(a) |-> ShardRows(a, i - 1)]

(* A job of the gateway's fan-out, or the reduce that closes it. *)
Original(j) ==
    /\ j.count = ShardCount(j.analysis)
    /\ j.kind = "map" => /\ j.offset = j.shard * ShardSize
                         /\ j.limit = ShardSize

(* A worker past reserve has a job, a map job if it is about to load a      *)
(* shard; one about to store a partial holds one set of rows of its upload. *)
WorkerInv ==
    \A w \in Worker :
        /\ w \in Busy => job[w] \in Job
        /\ pc[w] = "load" => job[w].kind = "map"
        /\ pc[w] = "put" => /\ held[w] \in Seq(SUBSET Rows(job[w].analysis))
                            /\ Len(held[w]) = 1

(* Rows exist only while their upload does, and nothing works on an         *)
(* analysis that was never created.                                         *)
RowInv ==
    \A a \in Analysis :
        /\ Exists(a) => UploadOf[a] \in uploads
        /\ status[a] = "absent" =>
               /\ gw[a] = "none"
               /\ \A j \in Queued : j.analysis # a
               /\ \A w \in Busy : job[w].analysis # a
               /\ \A w \in Worker : a \notin requeued[w]

(* Findings are stored before finish, and stay until the row goes.          *)
FindingsInv ==
    /\ \A w \in Worker : pc[w] = "finish" /\ Exists(job[w].analysis)
                             => findings[job[w].analysis] # {}
    /\ \A a \in Analysis : status[a] = "done" => findings[a] # {}

(* Before any requeue, the jobs are the published ones. *)
OriginalInv ==
    \A a \in Analysis : reaps[a] = 0 =>
        /\ \A j \in Queued : j.analysis = a => Original(j)
        /\ \A w \in Busy : job[w].analysis = a => Original(job[w])
        /\ \A w \in Worker : a \notin requeued[w]

(* ... and what they computed is what the fan-out determines, while the     *)
(* upload's rows exist.                                                     *)
SliceInv ==
    \A a \in Analysis : reaps[a] = 0 /\ UploadOf[a] \in uploads =>
        /\ \A s \in ShardIds(a) : partials[a][s] \in {Nil, ShardRows(a, s)}
        /\ \A w \in Worker : pc[w] = "put" /\ job[w].analysis = a
               => held[w][1] = ShardRows(a, job[w].shard)
        /\ \A w \in Worker :
               pc[w] \in {"score", "save", "commit"} /\ job[w].analysis = a
               => held[w] = FullParts(a)

ExactInv ==
    \A a \in Analysis : reaps[a] = 0 =>
        \A f \in findings[a] : f.parts = FullParts(a)

(* The inductive invariant of the pipeline: jobs, partials and findings of  *)
(* an analysis the reaper has not touched are those of its fan-out.         *)
PipelineInv ==
    /\ TypeOK /\ WorkerInv /\ RowInv /\ FindingsInv
    /\ OriginalInv /\ SliceInv /\ ExactInv

----------------------------------------------------------------------------
(* The fan-in, of an analysis whose counter and jobs are as published.      *)

(* A worker that still has its job to do: it has not failed, nor counted it *)
(* down.                                                                    *)
Live(w) == pc[w] \notin {"idle", "failing", "fanin"}

(* The shards whose map job is still to be counted down, and those without  *)
(* a partial; those whose job failed, and will not be; the workers that     *)
(* have closed the counter.                                                 *)
MapsOut(a) ==
    {s \in ShardIds(a) : \/ MapJob(a, s) \in Queued
                         \/ \E w \in Worker : Live(w) /\ job[w] = MapJob(a, s)}
Missing(a) == {s \in ShardIds(a) : partials[a][s] = Nil}
Failed(a) ==
    {s \in ShardIds(a) :
        \E w \in Worker : pc[w] = "failing" /\ job[w] = MapJob(a, s)}
Closing(a) == {w \in Worker : pc[w] = "fanin" /\ job[w].analysis = a}

Within(S, n) == n \in Int /\ Cardinality(S) <= n

(* Two jobs over the same shard, or two reduces.                            *)
SameTask(i, j) ==
    /\ i.analysis = j.analysis /\ i.kind = j.kind
    /\ i.kind = "map" => i.shard = j.shard

(* Every job is published after the row and is in one place at most.        *)
OnceInv(a) ==
    /\ gw[a] # "ended" => /\ reduces[a] = 0
                          /\ \A j \in Queued : j.analysis # a
                          /\ \A w \in Busy : job[w].analysis # a
    /\ \A i, k \in DOMAIN queue :
          queue[i].analysis = a /\ SameTask(queue[i], queue[k]) => i = k
    /\ \A w \in Busy : job[w].analysis = a =>
          /\ \A j \in Queued : ~SameTask(j, job[w])
          /\ \A v \in Busy : SameTask(job[v], job[w]) => v = w

(* The counter covers what is still to be mapped, and what failed instead;  *)
(* once it is closed there is one reduce, and every partial is there until  *)
(* it has read them.                                                        *)
CountInv(a) ==
    /\ reduces[a] <= 1
    /\ MapsOut(a) # {} => /\ reduces[a] = 0 /\ Closing(a) = {}
                          /\ Within(MapsOut(a) \cup Missing(a) \cup Failed(a),
                                    pending[a])
    /\ Failed(a) # {} => reduces[a] = 0 /\ Closing(a) = {}
    /\ \A w \in Closing(a) : /\ reduces[a] = 0 /\ Missing(a) = {}
                              /\ \A v \in Closing(a) : v = w
    /\ \A j \in Queued : j.kind = "reduce" /\ j.analysis = a
          => reduces[a] = 1 /\ Missing(a) = {}
    /\ \A w \in Busy : job[w].analysis = a =>
          /\ job[w].kind = "reduce" => reduces[a] = 1
          /\ job[w].kind = "reduce" /\ pc[w] \in {"reserved", "merge"}
                => Missing(a) = {}
          /\ pc[w] \in {"mapTiming", "complete"} => partials[a][job[w].shard] # Nil

(* A map job is on the map side, a reduce job on the reduce side.           *)
KindInv ==
    \A w \in Worker : /\ pc[w] \in MapPoints => job[w].kind = "map"
                      /\ pc[w] \in ReducePoints \cup AfterFinish => job[w].kind = "reduce"

(* The inductive invariant of the fan-in. *)
FanInInv ==
    KindInv /\ \A a \in Analysis : Undisturbed(a) => OnceInv(a) /\ CountInv(a)

(* What the fan-out determines, and how it fans in: nothing complete_shard, *)
(* get_partials or save_anomalies does to an analysis that was not requeued *)
(* departs from what launchAnalysis published.                              *)
FanOutInv == PipelineInv /\ FanInInv

----------------------------------------------------------------------------
(* Recovery, when jobs are prompt.                                          *)

NoWork(a) ==
    (\A j \in Queued : j.analysis # a) /\ \A w \in Busy : job[w].analysis # a

(* At most one job of a, on the queue or with a worker. *)
SoleJob(a) ==
    /\ \A i, k \in DOMAIN queue :
          queue[i].analysis = a /\ queue[k].analysis = a => i = k
    /\ \A v, w \in Busy : job[v].analysis = a /\ job[w].analysis = a => v = w
    /\ \A j \in Queued : j.analysis = a => \A w \in Busy : job[w].analysis # a

(* An analysis is on a reaper's list, or has aged, only when no job of it   *)
(* is left; so once it was requeued it has one job at a time.               *)
HandOverInv(a) ==
    /\ gw[a] # "ended" => NoWork(a) /\ status[a] # "running" /\ reaps[a] = 0
    /\ \A w \in Worker : a \in requeued[w] =>
          /\ NoWork(a) /\ status[a] # "running" /\ reaps[a] # 0
          /\ \A v \in Worker : a \in requeued[v] => v = w
    /\ status[a] = "running" /\ beat[a] = "stale" => NoWork(a)
    /\ reaps[a] # 0 => SoleJob(a)

(* The whole upload is in shard 0, or about to be merged from it. *)
Mapped(a) ==
    \/ \E j \in Queued : j.analysis = a /\ j.kind = "reduce"
    \/ \E w \in Worker :
          /\ \/ pc[w] \in {"mapTiming", "complete", "fanin"}
             \/ pc[w] \in {"reserved", "merge"} /\ job[w].kind = "reduce"
          /\ job[w].analysis = a

(* The job of a requeued analysis is over the whole upload, and so is what  *)
(* it stores, and its reduce finds.                                         *)
WholeInv(a) ==
    reaps[a] # 0 =>
        /\ \A j \in Queued : j.analysis = a
               => j \in {RequeueJob(a), ReduceJob(RequeueJob(a))}
        /\ \A w \in Busy : job[w].analysis = a
               => job[w] \in {RequeueJob(a), ReduceJob(RequeueJob(a))}
        /\ UploadOf[a] \in uploads =>
              /\ \A w \in Worker : pc[w] = "put" /\ job[w].analysis = a
                     => held[w][1] = Rows(a)
              /\ \A w \in Worker :
                     pc[w] \in {"score", "save", "commit"} /\ job[w].analysis = a
                     => held[w] = << Rows(a) >>
              /\ Mapped(a) => partials[a][0] \in {Nil, Rows(a)}

(* Findings are scored on every shard, or on the whole upload at once. *)
ScoredInv ==
    \A a \in Analysis : \A f \in findings[a] : f.parts \in {FullParts(a), << Rows(a) >>}

(* A save knows the findings it replaces, of which there is one set. *)
ReplacingInv ==
    /\ \A w \in Worker : pc[w] = "commit" =>
          \A f \in findings[job[w].analysis] : f.id \in seen[w]
    /\ \A a \in Analysis : \A f, g \in findings[a] : f = g

(* What a queued row waits for. *)
Awaited(a) ==
    \/ \E j \in Queued : j.analysis = a
    \/ \E w \in Worker : \/ pc[w] = "reserved" /\ job[w].analysis = a
                         \/ a \in requeued[w]
AwaitedInv ==
    \A a \in Analysis : status[a] = "queued" /\ gw[a] = "ended" => Awaited(a)

(* Nobody works on what is done but the worker that finished it, and that   *)
(* one has nothing to fail on.                                              *)
DoneInv ==
    \A a \in Analysis : status[a] = "done" =>
        /\ gw[a] = "ended"
        /\ \A w \in Worker : a \notin requeued[w]
        /\ \A j \in Queued : j.analysis # a
        /\ \A w \in Busy : job[w].analysis = a =>
              /\ pc[w] \in AfterFinish
              /\ pc[w] = "saveVectors" => seen[w] \subseteq {f.id : f \in findings[a]}

PromptInv == \A a \in Analysis : HandOverInv(a) /\ WholeInv(a)
=============================================================================
