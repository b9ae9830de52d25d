-------------------------- MODULE AnalysisLifecycle --------------------------
(***************************************************************************)
(* What the pipeline promises a client that polls an analysis, with no     *)
(* queue, no shards and no workers: the row's status, and whether the      *)
(* findings behind it count every log row exactly once.                    *)
(*                                                                         *)
(* Until the reaper touches an analysis its findings are exact. "done" is  *)
(* only ever reported with findings behind it, and a terminal analysis     *)
(* never goes back to work.                                                *)
(***************************************************************************)
CONSTANTS Analysis, Upload, UploadOf

VARIABLES state,    \* analyses.status
          outcome,  \* "none", "exact" or "inexact" findings
          touched   \* has the reaper requeued it?

life == <<state, outcome, touched>>

Alive == {"queued", "running", "done", "failed"}

Init ==
    /\ state = [a \in Analysis |-> "absent"]
    /\ outcome = [a \in Analysis |-> "none"]
    /\ touched = [a \in Analysis |-> FALSE]

Become(a, from, to) ==
    /\ state[a] \in from
    /\ state' = [state EXCEPT ![a] = to]
    /\ UNCHANGED <<outcome, touched>>

Create(a) == Become(a, {"absent"}, "queued")
Start(a) == Become(a, {"queued", "running"}, "running")
Complete(a) == outcome[a] # "none" /\ Become(a, Alive, "done")
GiveUp(a) == Become(a, Alive, "failed")

(* Findings are stored before the analysis is reported done. *)
Record(a) ==
    /\ state[a] \in Alive
    /\ \E o \in IF touched[a] THEN {"exact", "inexact"} ELSE {"exact"} :
           outcome' = [outcome EXCEPT ![a] = o]
    /\ UNCHANGED <<state, touched>>

(* A reaper pass takes any number of running analyses back to the queue.    *)
Requeue(batch) ==
    /\ \A a \in batch : state[a] = "running"
    /\ state' = [a \in Analysis |-> IF a \in batch THEN "queued" ELSE state[a]]
    /\ touched' = [a \in Analysis |-> a \in batch \/ touched[a]]
    /\ UNCHANGED outcome

(* Deleting an upload deletes its analyses and their findings with it.      *)
Delete(u) ==
    LET gone == {a \in Analysis : UploadOf[a] = u /\ state[a] \in Alive}
    IN  /\ state' = [a \in Analysis |->
                       IF a \in gone THEN "deleted" ELSE state[a]]
        /\ outcome' = [a \in Analysis |->
                         IF a \in gone THEN "none" ELSE outcome[a]]
        /\ UNCHANGED touched

Next ==
    \/ \E a \in Analysis : \/ Create(a) \/ Start(a) \/ Complete(a) \/ GiveUp(a)
                           \/ Record(a)
    \/ \E batch \in SUBSET Analysis : Requeue(batch)
    \/ \E u \in Upload : Delete(u)

Spec == Init /\ [][Next]_life
============================================================================
