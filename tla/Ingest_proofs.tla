---------------------------- MODULE Ingest_proofs ---------------------------
(***************************************************************************)
(* Theorems of Ingest, for any number of requests and deletions, any       *)
(* forms, any batch size, and any number of failures and crashes.          *)
(***************************************************************************)
EXTENDS Ingest, TLAPS

(* A handler inside a file part: while its archive may be running, and      *)
(* after it has waited for it.                                              *)
Loop == {"begin", "parse", "flush"}
Ending == {"last", "archive"}
Storing == {"create", "rollups", "commit"}
Reading == {"head", "drain", "await"} \cup Loop \cup Ending
InFile == Reading \cup Storing
Over == {"parts", "launch", "done", "dead"}

(* The part of request u[1] that u names is over.  Everything the handler   *)
(* or the archive writes is about a part that is not.                       *)
Past(u) ==
    \/ req[u[1]].part > u[2]
    \/ req[u[1]].part = u[2] /\ req[u[1]].pc \in Over

(* The invariant of a request is a predicate on its variables: f is its     *)
(* form, q its handler, s the pipe, a the archive and t the transaction; g   *)
(* are the clients that have left, and o the objects.                       *)

(* Where the handler is in its form.                                        *)
PlaceInv(f, q, a) ==
    /\ q.pc = "idle" => q = NewRequest /\ a = "off"
    /\ q.pc # "idle" => f \in Forms /\ q.part <= Len(f)
    /\ q.pc \in InFile => q.part >= 1
    /\ q.pc = "await" => q.status # 201
    /\ q.pc = "launch" \/ q.status = 201 => q.result # NoUpload

(* The rows copied, the rows pending and the place in the file agree, as    *)
(* long as the file can be read to io.EOF.                                  *)
RowsInv(r, g, f, q, t) ==
    LET file == f[q.part] IN
    /\ q.pc \in Loop \cup Ending \cup Storing => file.head = "known"
    /\ q.pc = "begin" => q.next = 1
    /\ q.pc \in {"head", "begin"} => q.pending = 0
    /\ q.pc = "parse" => q.pending < Batch
    /\ q.pc \in {"parse", "flush"} =>
          \/ r \in g
          \/ file.end # "eof"
          \/ t.rows + q.pending = q.next - 1 /\ q.next <= file.rows + 1
    /\ q.pc \in Ending \cup Storing =>
          /\ file.end = "eof"
          /\ q.next = file.rows + 1
          /\ t.rows + q.pending = file.rows
    /\ q.pc \in {"archive"} \cup Storing => q.pending = 0

(* What the open transaction holds, by the handler's place.                 *)
TxInv(q, t) ==
    /\ q.pc \notin {"parse", "flush", "await"} \cup Ending \cup Storing => t = NoTx
    /\ q.pc \in {"rollups", "commit"} => t.upload
    /\ q.pc = "commit" => t.rolled

(* The archive runs within a file part only, and what it has stored when    *)
(* the handler finds it done is the whole file.                             *)
ArchiveInv(r, q, s, a, o) ==
    /\ q.pc \in {"head", "drain"} \cup Loop => s \in {"empty", "data"} /\ a # "stored"
    /\ a = "open" => q.pc \in Reading
    /\ q.pc \in Storing => a = "stored"
    /\ a = "stored" /\ q.pc \in Ending \cup Storing => o[<<r, q.part>>] = "whole"

(* What the handler has committed last.                                     *)
ResultInv(r) ==
    req[r].result # NoUpload =>
       /\ req[r].result[1] = r
       /\ Past(req[r].result)
       /\ req[r].copied = FileOf(req[r].result).rows
       /\ \/ req[r].result \in uploads
          \/ \E d \in Deleter : del[d].id = req[r].result

RequestInv(r) ==
    /\ PlaceInv(form[r], req[r], arch[r])
    /\ RowsInv(r, gone, form[r], req[r], tx[r])
    /\ TxInv(req[r], tx[r])
    /\ ArchiveInv(r, req[r], slot[r], arch[r], objects)
    /\ ResultInv(r)

(* A deletion works on a part that is over; one that has removed the rows   *)
(* is the only one of its upload.                                           *)
Took(d) == del[d].pc \in {"object", "audit"} \/ del[d].status = 204

DeleteInv(d) ==
    /\ DelAt(d, "idle") => del[d] = NewDelete
    /\ del[d].status # 0 => DelAt(d, "done")
    /\ del[d].pc \in {"rows", "object", "audit"} \/ del[d].status = 204
          => del[d].id # NoUpload
    /\ del[d].id # NoUpload => Past(del[d].id)
    /\ Took(d) =>
          /\ del[d].id \notin uploads /\ entries[del[d].id] = 0
          /\ \A e \in Deleter : Took(e) /\ del[e].id = del[d].id => e = d
    /\ DelAt(d, "audit") \/ del[d].status = 204 =>
          objects[del[d].id] = "none" \/ del[d].id \in reported

(* Every entry of the audit log is that of a deletion answered 204.         *)
TrailInv ==
    \A s \in trail :
       /\ del[s.by].status = 204
       /\ s.upload = del[s.by].id /\ s.archiveDeleted = del[s.by].archived

UploadInv ==
    /\ \A u \in uploads : Past(u)
    /\ UploadIsWhole
    /\ NoRowsWithoutUpload
    /\ SizedByRows

(* The inductive invariant. *)
IInv ==
    /\ TypeOK
    /\ \A r \in Request : RequestInv(r)
    /\ \A d \in Deleter : DeleteInv(d)
    /\ TrailInv
    /\ UploadInv

----------------------------------------------------------------------------
(* The file a handler is in is a part of its form.                          *)
LEMMA FileType ==
    ASSUME TypeOK, NEW r \in Request, RequestInv(r), req[r].pc \in InFile
    PROVE  /\ Id(r) \in UploadId
           /\ File(r) \in Parts /\ File(r).rows \in 0 .. RowCap
           /\ ~Past(Id(r))
           /\ req[r].part \in 1 .. Len(form[r])
<1>1. req[r].pc # "idle" /\ req[r].pc \notin Over
  BY DEF InFile, Reading, Storing, Loop, Ending, Over
<1>2. form[r] \in Forms /\ req[r].part \in 1 .. Len(form[r])
         /\ req[r].part \in 1 .. MaxParts
  BY <1>1 DEF TypeOK, RequestInv, PlaceInv, At
<1>3. form[r] \in Seq(Parts)
  BY <1>2, IngestAssumption
<1>4. req[r].part \in DOMAIN form[r]
  BY <1>2, <1>3
<1>5. File(r) \in Parts
  BY <1>3, <1>4 DEF File
<1>6. File(r).rows \in Nat
  BY <1>5 DEF Parts
<1>7. File(r).rows <= RowCap
  BY <1>2, <1>4, IngestAssumption DEF File
<1>8. Id(r) \in UploadId
  BY <1>2 DEF Id, UploadId
<1>9. ~Past(Id(r))
  BY <1>1, <1>2 DEF Past, Id
<1> QED
  BY <1>2, <1>5, <1>6, <1>7, <1>8, <1>9, IngestAssumption

(* An upload's part is a part of a request that has arrived.                *)
LEMMA PastArrived ==
    ASSUME TypeOK, \A r \in Request : RequestInv(r), NEW u \in UploadId, Past(u)
    PROVE  u[1] \in Request /\ u[2] \in 1 .. MaxParts /\ ~At(u[1], "idle")
<1>1. u[1] \in Request /\ u[2] \in 1 .. MaxParts
  BY DEF UploadId
<1>2. At(u[1], "idle") => req[u[1]].part = 0 /\ req[u[1]].pc \notin Over
  BY <1>1 DEF RequestInv, PlaceInv, NewRequest, At, Over
<1> QED
  BY <1>1, <1>2, IngestAssumption DEF Past

----------------------------------------------------------------------------
(* Steps of one request that store nothing.                                 *)

OnlyRequest(r) ==
    \A s \in Request : s # r =>
       /\ form'[s] = form[s] /\ req'[s] = req[s] /\ slot'[s] = slot[s]
       /\ arch'[s] = arch[s] /\ tx'[s] = tx[s]

(* The handler goes on to the next part, or stays with this one.            *)
Onward(r) ==
    \/ req'[r].part = req[r].part /\ (req[r].pc \in Over => req'[r].pc \in Over)
    \/ req'[r].part = req[r].part + 1

LEMMA PastStays ==
    ASSUME TypeOK, NEW r \in Request, OnlyRequest(r), Onward(r), NEW u \in UploadId,
              Past(u)
    PROVE  Past(u)'
<1>1. u[1] \in Request /\ u[2] \in 1 .. MaxParts
  BY DEF UploadId
<1>2. req[u[1]].part \in Nat
  BY <1>1 DEF TypeOK
<1>3. CASE u[1] = r
  BY <1>1, <1>2, <1>3 DEF Past, Onward
<1>4. CASE u[1] # r
  BY <1>1, <1>4 DEF Past, OnlyRequest
<1> QED
  BY <1>3, <1>4

(* The other requests, whatever r stores under its own name.                *)
LEMMA OthersKeep ==
    ASSUME IInv, NEW r \in Request, OnlyRequest(r), gone \subseteq gone', del' = del,
           \A u \in UploadId : u[1] # r => (objects'[u] = objects[u]),
           uploads \subseteq uploads',
           NEW s \in Request, s # r
    PROVE  RequestInv(s)'
<1>0. /\ TypeOK /\ RequestInv(s)
      /\ form'[s] = form[s] /\ req'[s] = req[s] /\ slot'[s] = slot[s]
      /\ arch'[s] = arch[s] /\ tx'[s] = tx[s]
  BY DEF IInv, OnlyRequest
<1>1. PlaceInv(form[s], req[s], arch[s])'
  BY <1>0 DEF RequestInv, PlaceInv
<1>2. RowsInv(s, gone, form[s], req[s], tx[s])'
  BY <1>0 DEF RequestInv, RowsInv
<1>3. TxInv(req[s], tx[s])'
  BY <1>0 DEF RequestInv, TxInv
<1>4. ArchiveInv(s, req[s], slot[s], arch[s], objects)'
  <2>1. req[s].pc \in Ending \cup Storing => objects'[Id(s)] = objects[Id(s)]
    BY <1>0, FileType DEF Id, InFile, Reading
  <2> QED
    BY <1>0, <2>1 DEF RequestInv, ArchiveInv, Id
<1>5. ResultInv(s)'
  <2> SUFFICES ASSUME req[s].result # NoUpload
               PROVE  ResultInv(s)'
    BY <1>0 DEF ResultInv
  <2> DEFINE u == req[s].result
  <2>1. u[1] = s /\ Past(u) /\ u \in UploadId
    BY <1>0 DEF TypeOK, RequestInv, ResultInv
  <2>2. Past(u)'
    BY <1>0, <2>1 DEF Past
  <2> QED
    BY <1>0, <2>1, <2>2 DEF RequestInv, ResultInv, FileOf
<1> QED
  BY <1>1, <1>2, <1>3, <1>4, <1>5 DEF RequestInv

(* The deletions, the audit log and the uploads, under such a step.         *)
SameForm(r) == form'[r] = form[r] \/ At(r, "idle")

LEMMA DeletesKeep ==
    ASSUME IInv, NEW r \in Request, OnlyRequest(r), Onward(r),
           del' = del, trail' = trail, reported' = reported,
           \A u \in UploadId : Past(u) => objects'[u] = objects[u],
           \A u \in UploadId : Past(u) => (u \in uploads' <=> u \in uploads),
           \A u \in UploadId : Past(u) => entries'[u] = entries[u]
    PROVE  (\A d \in Deleter : DeleteInv(d)') /\ TrailInv'
<1>1. SUFFICES ASSUME NEW d \in Deleter
               PROVE  DeleteInv(d)'
  BY DEF IInv, TrailInv
<1>2. TypeOK /\ DeleteInv(d)
  BY DEF IInv
<1>3. CASE del[d].id = NoUpload
  BY <1>2, <1>3 DEF DeleteInv, DelAt, Took
<1>4. CASE del[d].id # NoUpload
  <2>1. del[d].id \in UploadId /\ Past(del[d].id)
    BY <1>2, <1>4 DEF TypeOK, DeleteInv
  <2>2. Past(del[d].id)'
    BY <1>2, <2>1, PastStays
  <2> QED
    BY <1>2, <2>1, <2>2 DEF DeleteInv, DelAt, Took
<1> QED
  BY <1>3, <1>4

LEMMA UploadsKeep ==
    ASSUME IInv, NEW r \in Request, OnlyRequest(r), Onward(r), SameForm(r),
           uploads' = uploads, rollups' = rollups, entries' = entries,
           analyses' = analyses,
           \A u \in UploadId : Past(u) => objects'[u] = objects[u]
    PROVE  UploadInv'
<1>1. TypeOK /\ UploadInv
  BY DEF IInv
<1>2. ASSUME NEW u \in uploads
      PROVE  u \in UploadId /\ Past(u) /\ Past(u)' /\ FileOf(u)' = FileOf(u)
  <2>1. u \in UploadId /\ Past(u)
    BY <1>1 DEF TypeOK, UploadInv
  <2>2. u[1] \in Request /\ ~At(u[1], "idle")
    BY <2>1, PastArrived DEF IInv
  <2>3. form'[u[1]] = form[u[1]]
    BY <2>2 DEF OnlyRequest, SameForm
  <2> QED
    BY <1>1, <2>1, <2>3, PastStays DEF FileOf
<1>3. UploadIsWhole'
  BY <1>1, <1>2 DEF UploadInv, UploadIsWhole
<1>4. NoRowsWithoutUpload'
  BY <1>1 DEF UploadInv, NoRowsWithoutUpload
<1>5. SizedByRows'
  BY <1>1 DEF UploadInv, SizedByRows
<1> QED
  BY <1>2, <1>3, <1>4, <1>5 DEF UploadInv

(* What the variables of a request may hold together.                       *)
PartNo == 0 .. MaxParts
Pendings == 0 .. Batch
RowCount == 0 .. RowCap
Result == UploadId \cup {NoUpload}
Status == {0, 201, 400, 413, 500}
RequestRecord == [pc : Steps, part : PartNo, next : Nat, pending : Pendings,
                  lines : RowCount, result : Result, copied : RowCount, status : Status]
TxRecord == [rows : RowCount, upload : BOOLEAN, rolled : BOOLEAN]

PipeState == {"empty", "data", "eof", "err"}
ArchiveState == {"off", "open", "stored", "failed"}

Good(r, g, f, q, s, a, t) ==
    /\ f \in Forms \cup {<<>>} /\ q \in RequestRecord /\ t \in TxRecord
    /\ s \in PipeState /\ a \in ArchiveState
    /\ PlaceInv(f, q, a) /\ RowsInv(r, g, f, q, t) /\ TxInv(q, t)
          /\ ArchiveInv(r, q, s, a, objects)

LEMMA InvGood ==
    ASSUME IInv, NEW r \in Request
    PROVE  Good(r, gone, form[r], req[r], slot[r], arch[r], tx[r])
<1>1. TypeOK /\ RequestInv(r)
  BY DEF IInv
<1>2. req[r] \in RequestRecord /\ tx[r] \in TxRecord
  BY <1>1
     DEF TypeOK, RequestRecord, PartNo, Pendings, RowCount, Result, Status, TxRecord
<1> QED
  BY <1>1, <1>2 DEF TypeOK, RequestInv, Good, PipeState, ArchiveState

(* From p to q a handler commits nothing, and stays with its part or goes   *)
(* on to the next.                                                          *)
Follows(p, q) ==
    /\ q.result = p.result /\ q.copied = p.copied
    /\ \/ q.part = p.part /\ (p.pc \in Over => q.pc \in Over)
       \/ q.part = p.part + 1

(* A step of request r that writes its own variables only, and leaves them  *)
(* as f, q, s, a and t.                                                     *)
Becomes(r, f, q, s, a, t) ==
    /\ form' = [form EXCEPT ![r] = f] /\ req' = [req EXCEPT ![r] = q]
    /\ slot' = [slot EXCEPT ![r] = s] /\ arch' = [arch EXCEPT ![r] = a]
    /\ tx' = [tx EXCEPT ![r] = t]

(* A variable that keeps its value.                                         *)
LEMMA Itself ==
    ASSUME TypeOK, NEW r \in Request
    PROVE  /\ form = [form EXCEPT ![r] = form[r]] /\ req = [req EXCEPT ![r] = req[r]]
           /\ slot = [slot EXCEPT ![r] = slot[r]] /\ arch = [arch EXCEPT ![r] = arch[r]]
           /\ tx = [tx EXCEPT ![r] = tx[r]]
  BY DEF TypeOK

RequestTypes ==
    /\ form \in [Request -> Forms \cup {<<>>}] /\ req \in [Request -> RequestRecord]
    /\ slot \in [Request -> PipeState] /\ arch \in [Request -> ArchiveState]
    /\ tx \in [Request -> TxRecord]

LEMMA RequestTyped ==
    ASSUME TypeOK
    PROVE  RequestTypes
  BY DEF TypeOK, RequestTypes, RequestRecord, PartNo, Pendings, RowCount, Result,
         Status, TxRecord, PipeState, ArchiveState

(* Every request but for what r has committed.                              *)
LEMMA RequestStep ==
    ASSUME IInv, NEW r \in Request, NEW f, NEW q, NEW s, NEW a, NEW t,
           Becomes(r, f, q, s, a, t),
           gone \subseteq gone', del' = del, uploads \subseteq uploads',
           \A u \in UploadId : u[1] # r => (objects'[u] = objects[u]),
           f \in Forms \cup {<<>>}, q \in RequestRecord, t \in TxRecord,
           s \in PipeState, a \in ArchiveState,
           PlaceInv(f, q, a), RowsInv(r, gone, f, q, t), TxInv(q, t),
           ArchiveInv(r, q, s, a, objects')
    PROVE  /\ OnlyRequest(r) /\ RequestTypes'
           /\ form'[r] = f /\ req'[r] = q /\ slot'[r] = s /\ arch'[r] = a /\ tx'[r] = t
           /\ ResultInv(r)' => \A x \in Request : RequestInv(x)'
<1>1. TypeOK /\ RequestTypes
  BY RequestTyped DEF IInv
<1>2. RequestTypes'
  BY <1>1 DEF RequestTypes, Becomes
<1>3. /\ form'[r] = f /\ req'[r] = q /\ slot'[r] = s /\ arch'[r] = a /\ tx'[r] = t
      /\ OnlyRequest(r)
  BY <1>1 DEF RequestTypes, Becomes, OnlyRequest
<1>4. ASSUME ResultInv(r)', NEW x \in Request
      PROVE  RequestInv(x)'
  <2>1. CASE x = r
    <3>1. PlaceInv(form[r], req[r], arch[r])' /\ TxInv(req[r], tx[r])'
      BY <1>3 DEF PlaceInv, TxInv
    <3>2. RowsInv(r, gone, form[r], req[r], tx[r])'
      BY <1>3 DEF RowsInv
    <3>3. ArchiveInv(r, req[r], slot[r], arch[r], objects)'
      BY <1>3 DEF ArchiveInv
    <3> QED
      BY <1>4, <2>1, <3>1, <3>2, <3>3 DEF RequestInv
  <2>2. CASE x # r
    BY <1>3, <2>2, OthersKeep
  <2> QED
    BY <2>1, <2>2
<1> QED
  BY <1>2, <1>3, <1>4

(* What it has committed stays, or a deletion took it.                      *)
LEMMA ResultKeeps ==
    ASSUME IInv, NEW r \in Request, OnlyRequest(r), SameForm(r),
           Follows(req[r], req'[r]), uploads \subseteq uploads', del' = del
    PROVE  Onward(r) /\ ResultInv(r)'
<1>1. TypeOK /\ RequestInv(r) /\ Onward(r)
  BY DEF IInv, Follows, Onward
<1> SUFFICES ASSUME req[r].result # NoUpload
             PROVE  ResultInv(r)'
  BY <1>1 DEF ResultInv, Follows
<1> DEFINE u == req[r].result
<1>2. u[1] = r /\ Past(u) /\ u \in UploadId
  BY <1>1 DEF TypeOK, RequestInv, ResultInv
<1>3. Past(u)'
  BY <1>1, <1>2, PastStays DEF Follows
<1>4. form'[r] = form[r]
  BY <1>2, PastArrived DEF IInv, SameForm
<1> QED
  BY <1>1, <1>2, <1>3, <1>4 DEF RequestInv, ResultInv, FileOf, Follows

OwnOnly ==
    /\ closed' \in [Request -> BOOLEAN]
    /\ gone \subseteq gone' /\ gone' \subseteq Request
    /\ faults' \in 0 .. MaxFaults
    /\ UNCHANGED <<stored, objects, del, trail, reported, env>>

LEMMA LocalStep ==
    ASSUME IInv, NEW r \in Request, NEW f, NEW q, NEW s, NEW a, NEW t,
           Becomes(r, f, q, s, a, t), OwnOnly,
           Good(r, gone, f, q, s, a, t), Follows(req[r], q),
           f = form[r] \/ At(r, "idle")
    PROVE  IInv'
<1>1. /\ OnlyRequest(r) /\ RequestTypes' /\ form'[r] = f /\ req'[r] = q
      /\ ResultInv(r)' => \A x \in Request : RequestInv(x)'
  BY RequestStep DEF Good, OwnOnly, stored
<1>2. Onward(r) /\ SameForm(r) /\ ResultInv(r)'
  BY <1>1, ResultKeeps DEF SameForm, OwnOnly, stored
<1>3. TypeOK'
  BY <1>1 DEF IInv, TypeOK, OwnOnly, stored, env, RequestTypes, RequestRecord, PartNo,
              Pendings, RowCount, Result, Status, TxRecord, PipeState, ArchiveState
<1>4. (\A d \in Deleter : DeleteInv(d)') /\ TrailInv'
  BY <1>1, <1>2, DeletesKeep DEF OwnOnly, stored
<1>5. UploadInv'
  BY <1>1, <1>2, UploadsKeep DEF OwnOnly, stored
<1> QED
  BY <1>1, <1>2, <1>3, <1>4, <1>5 DEF IInv

----------------------------------------------------------------------------
(* What a handler does to its own variables.                                *)

LEMMA GoodFile ==
    ASSUME NEW r, NEW g, NEW f, NEW q, NEW s, NEW a, NEW t,
           Good(r, g, f, q, s, a, t), q.pc \in InFile
    PROVE  /\ f[q.part] \in Parts /\ f[q.part].rows \in 0 .. RowCap
           /\ q.part \in 1 .. Len(f) /\ f \in Forms
<1>1. f \in Forms /\ q.part \in 1 .. Len(f)
  BY DEF Good, PlaceInv, RequestRecord, PartNo, InFile, Reading, Storing, Loop, Ending
<1>2. f \in Seq(Parts) /\ \A k \in DOMAIN f : f[k].rows <= RowCap
  BY <1>1, IngestAssumption
<1>3. q.part \in DOMAIN f /\ f[q.part] \in Parts
  BY <1>1, <1>2
<1> QED
  BY <1>1, <1>2, <1>3, IngestAssumption DEF Parts

Moved(q, step) == [q EXCEPT !.pc = step]
Replied(q, n) == [q EXCEPT !.pc = "done", !.status = n]
Awaiting(q, n) == [q EXCEPT !.pc = "await", !.status = n]
Opened(q) == [q EXCEPT !.pc = "head", !.part = @ + 1, !.next = 0, !.pending = 0,
   !.lines = 0]
Headed(q, step) == [q EXCEPT !.next = 1, !.pc = step]
Drained(q) == [q EXCEPT !.next = @ + 1]
Begun(q) == [q EXCEPT !.pc = "parse", !.lines = 1]
Filled(q, t) == [t EXCEPT !.rows = Capped(@ + q.pending)]
Flushed(q, step) == [q EXCEPT !.pending = 0, !.pc = step]

(* Answering, whatever came before: nothing is left open.                 *)
LEMMA GoodAnswer ==
    ASSUME NEW r, NEW g, NEW f, NEW q, NEW s, NEW a, NEW t,
           NEW n \in Status \ {201},
           Good(r, g, f, q, s, a, t), q.pc # "idle", a # "open"
    PROVE  /\ Good(r, g, f, Replied(q, n), s, a, NoTx)
           /\ Follows(q, Replied(q, n))
<1> DEFINE p == Replied(q, n)
<1>1. q \in RequestRecord /\ NoTx \in TxRecord /\ "done" \in Steps
  BY IngestAssumption DEF Good, TxRecord, RowCount, NoTx, Steps
<1>2. /\ p \in RequestRecord
      /\ p.pc = "done" /\ p.part = q.part /\ p.next = q.next /\ p.pending = q.pending
      /\ p.result = q.result /\ p.copied = q.copied /\ p.status = n
  BY <1>1 DEF RequestRecord, Replied
<1> HIDE DEF p
<1>3. Follows(q, p)
  BY <1>2 DEF Follows, Over, Reading, Loop, Ending
<1>4. PlaceInv(f, p, a) /\ TxInv(p, NoTx) /\ ArchiveInv(r, p, s, a, objects)
  BY <1>1, <1>2
     DEF Good, PlaceInv, TxInv, ArchiveInv, NewRequest, InFile, Reading, Storing, Loop,
         Ending
<1>5. RowsInv(r, g, f, p, NoTx)
  BY <1>1, <1>2, IngestAssumption
     DEF Good, RowsInv, TxInv, PlaceInv, Parts, RequestRecord, Pendings, TxRecord,
         RowCount, NoTx, Storing, Loop, Ending
<1> QED
  BY <1>1, <1>2, <1>3, <1>4, <1>5 DEF Good, PipeState, ArchiveState, p

(* Waiting for the archive on the way out.                                *)
LEMMA GoodAwait ==
    ASSUME NEW r, NEW g, NEW f, NEW q, NEW s, NEW a, NEW t,
           NEW n \in Status \ {201}, NEW z \in PipeState,
           Good(r, g, f, q, s, a, t), q.pc \in Reading
    PROVE  /\ Good(r, g, f, Awaiting(q, n), z, a, t)
           /\ Follows(q, Awaiting(q, n))
<1> DEFINE p == Awaiting(q, n)
<1>1. q \in RequestRecord /\ t \in TxRecord /\ "await" \in Steps
  BY IngestAssumption DEF Good, TxRecord, RowCount, NoTx, Steps
<1>2. /\ p \in RequestRecord
      /\ p.pc = "await" /\ p.part = q.part /\ p.next = q.next /\ p.pending = q.pending
      /\ p.result = q.result /\ p.copied = q.copied /\ p.status = n
  BY <1>1 DEF RequestRecord, Awaiting
<1> HIDE DEF p
<1>3. Follows(q, p)
  BY <1>2 DEF Follows, Over, Reading, Loop, Ending
<1>4. PlaceInv(f, p, a) /\ TxInv(p, t) /\ ArchiveInv(r, p, z, a, objects)
  BY <1>1, <1>2
     DEF Good, PlaceInv, TxInv, ArchiveInv, NewRequest, InFile, Reading, Storing, Loop,
         Ending
<1>5. RowsInv(r, g, f, p, t)
  BY <1>1, <1>2, IngestAssumption
     DEF Good, RowsInv, TxInv, PlaceInv, Parts, RequestRecord, Pendings, TxRecord,
         RowCount, NoTx, Storing, Loop, Ending
<1> QED
  BY <1>1, <1>2, <1>3, <1>4, <1>5 DEF Good, PipeState, ArchiveState, p

(* A request arrives with some form.                                      *)
LEMMA GoodArrival ==
    ASSUME NEW r, NEW g, NEW f, NEW q, NEW s, NEW a, NEW t,
           NEW h \in Forms,
           Good(r, g, f, q, s, a, t), q.pc = "idle"
    PROVE  /\ Good(r, g, h, Moved(q, "parts"), s, a, t)
           /\ Follows(q, Moved(q, "parts"))
<1> DEFINE p == Moved(q, "parts")
<1>1. q \in RequestRecord /\ t \in TxRecord /\ "parts" \in Steps
  BY IngestAssumption DEF Good, TxRecord, RowCount, NoTx, Steps
<1>2. /\ p \in RequestRecord
      /\ p.pc = "parts" /\ p.part = q.part /\ p.next = q.next /\ p.pending = q.pending
      /\ p.result = q.result /\ p.copied = q.copied /\ p.status = q.status
  BY <1>1 DEF RequestRecord, Moved
<1> HIDE DEF p
<1>3. Follows(q, p)
  BY <1>2 DEF Follows, Over, Reading, Loop, Ending
<1>4. PlaceInv(h, p, a) /\ TxInv(p, t) /\ ArchiveInv(r, p, s, a, objects)
  BY <1>1, <1>2
     DEF Good, PlaceInv, TxInv, ArchiveInv, NewRequest, InFile, Reading, Storing, Loop,
         Ending
<1>5. RowsInv(r, g, h, p, t)
  BY <1>1, <1>2, IngestAssumption
     DEF Good, RowsInv, TxInv, PlaceInv, Parts, RequestRecord, Pendings, TxRecord,
         RowCount, NoTx, Storing, Loop, Ending
<1> QED
  BY <1>1, <1>2, <1>3, <1>4, <1>5 DEF Good, PipeState, ArchiveState, p

(* A file part begins.                                                    *)
LEMMA GoodOpen ==
    ASSUME NEW r, NEW g, NEW f, NEW q, NEW s, NEW a, NEW t,
           Good(r, g, f, q, s, a, t), q.pc = "parts", q.part < Len(f)
    PROVE  /\ Good(r, g, f, Opened(q), "empty", "open", t)
           /\ Follows(q, Opened(q))
<1> DEFINE p == Opened(q)
<1>1. q \in RequestRecord /\ t \in TxRecord /\ "head" \in Steps
      /\ q.part + 1 \in PartNo /\ 0 \in Pendings /\ 0 \in RowCount
  BY IngestAssumption
     DEF Good, TxRecord, RowCount, NoTx, Steps, PlaceInv, RequestRecord, PartNo,
         Pendings
<1>2. /\ p \in RequestRecord
      /\ p.pc = "head" /\ p.part = q.part + 1 /\ p.next = 0 /\ p.pending = 0
      /\ p.result = q.result /\ p.copied = q.copied /\ p.status = q.status
  BY <1>1 DEF RequestRecord, Opened
<1> HIDE DEF p
<1>3. Follows(q, p)
  BY <1>2 DEF Follows, Over, Reading, Loop, Ending
<1>a. q.part \in Nat /\ f \in Forms /\ Len(f) \in Nat
  BY <1>1, IngestAssumption DEF Good, PlaceInv, RequestRecord, PartNo
<1>4. PlaceInv(f, p, "open") /\ TxInv(p, t) /\ ArchiveInv(r, p, "empty", "open",
         objects)
  BY <1>a, <1>1, <1>2
     DEF Good, PlaceInv, TxInv, ArchiveInv, NewRequest, InFile, Reading, Storing, Loop,
         Ending
<1>5. RowsInv(r, g, f, p, t)
  BY <1>1, <1>2, IngestAssumption
     DEF Good, RowsInv, TxInv, PlaceInv, Parts, RequestRecord, Pendings, TxRecord,
         RowCount, NoTx, Storing, Loop, Ending
<1> QED
  BY <1>1, <1>2, <1>3, <1>4, <1>5 DEF Good, PipeState, ArchiveState, p

(* The form ends.                                                         *)
LEMMA GoodLaunching ==
    ASSUME NEW r, NEW g, NEW f, NEW q, NEW s, NEW a, NEW t,
           Good(r, g, f, q, s, a, t), q.pc = "parts", q.result # NoUpload
    PROVE  /\ Good(r, g, f, Moved(q, "launch"), s, a, t)
           /\ Follows(q, Moved(q, "launch"))
<1> DEFINE p == Moved(q, "launch")
<1>1. q \in RequestRecord /\ t \in TxRecord /\ "launch" \in Steps
  BY IngestAssumption DEF Good, TxRecord, RowCount, NoTx, Steps
<1>2. /\ p \in RequestRecord
      /\ p.pc = "launch" /\ p.part = q.part /\ p.next = q.next /\ p.pending = q.pending
      /\ p.result = q.result /\ p.copied = q.copied /\ p.status = q.status
  BY <1>1 DEF RequestRecord, Moved
<1> HIDE DEF p
<1>3. Follows(q, p)
  BY <1>2 DEF Follows, Over, Reading, Loop, Ending
<1>4. PlaceInv(f, p, a) /\ TxInv(p, t) /\ ArchiveInv(r, p, s, a, objects)
  BY <1>1, <1>2
     DEF Good, PlaceInv, TxInv, ArchiveInv, NewRequest, InFile, Reading, Storing, Loop,
         Ending
<1>5. RowsInv(r, g, f, p, t)
  BY <1>1, <1>2, IngestAssumption
     DEF Good, RowsInv, TxInv, PlaceInv, Parts, RequestRecord, Pendings, TxRecord,
         RowCount, NoTx, Storing, Loop, Ending
<1> QED
  BY <1>1, <1>2, <1>3, <1>4, <1>5 DEF Good, PipeState, ArchiveState, p

(* The head names a format, or none.                                      *)
LEMMA GoodHead ==
    ASSUME NEW r, NEW g, NEW f, NEW q, NEW s, NEW a, NEW t,
           NEW step \in {"begin", "drain"}, step = "begin" => f[q.part].head = "known",
           Good(r, g, f, q, s, a, t), q.pc = "head"
    PROVE  /\ Good(r, g, f, Headed(q, step), "data", a, t)
           /\ Follows(q, Headed(q, step))
<1> DEFINE p == Headed(q, step)
<1>0. f[q.part] \in Parts /\ f[q.part].rows \in 0 .. RowCap
  BY GoodFile DEF InFile, Reading, Storing, Loop, Ending
<1>1. q \in RequestRecord /\ t \in TxRecord /\ step \in Steps
  BY <1>0, IngestAssumption DEF Good, TxRecord, RowCount, NoTx, Steps
<1>2. /\ p \in RequestRecord
      /\ p.pc = step /\ p.part = q.part /\ p.next = 1 /\ p.pending = q.pending
      /\ p.result = q.result /\ p.copied = q.copied /\ p.status = q.status
  BY <1>1 DEF RequestRecord, Headed
<1> HIDE DEF p
<1>3. Follows(q, p)
  BY <1>2 DEF Follows, Over, Reading, Loop, Ending
<1>4. PlaceInv(f, p, a) /\ TxInv(p, t) /\ ArchiveInv(r, p, "data", a, objects)
  BY <1>1, <1>2
     DEF Good, PlaceInv, TxInv, ArchiveInv, NewRequest, InFile, Reading, Storing, Loop,
         Ending
<1>5. RowsInv(r, g, f, p, t)
  BY <1>0, <1>1, <1>2, IngestAssumption
     DEF Good, RowsInv, TxInv, PlaceInv, Parts, RequestRecord, Pendings, TxRecord,
         RowCount, NoTx, Storing, Loop, Ending
<1> QED
  BY <1>1, <1>2, <1>3, <1>4, <1>5 DEF Good, PipeState, ArchiveState, p

(* A chunk that nobody parses.                                            *)
LEMMA GoodDrain ==
    ASSUME NEW r, NEW g, NEW f, NEW q, NEW s, NEW a, NEW t,
           Good(r, g, f, q, s, a, t), q.pc = "drain"
    PROVE  /\ Good(r, g, f, Drained(q), "data", a, t)
           /\ Follows(q, Drained(q))
<1> DEFINE p == Drained(q)
<1>0. f[q.part] \in Parts /\ f[q.part].rows \in 0 .. RowCap
  BY GoodFile DEF InFile, Reading, Storing, Loop, Ending
<1>1. q \in RequestRecord /\ t \in TxRecord
  BY <1>0, IngestAssumption DEF Good, TxRecord, RowCount, NoTx, Steps
<1>2. /\ p \in RequestRecord
      /\ p.pc = q.pc /\ p.part = q.part /\ p.next = q.next + 1 /\ p.pending = q.pending
      /\ p.result = q.result /\ p.copied = q.copied /\ p.status = q.status
  BY <1>1 DEF RequestRecord, Drained
<1> HIDE DEF p
<1>3. Follows(q, p)
  BY <1>2 DEF Follows, Over, Reading, Loop, Ending
<1>4. PlaceInv(f, p, a) /\ TxInv(p, t) /\ ArchiveInv(r, p, "data", a, objects)
  BY <1>1, <1>2
     DEF Good, PlaceInv, TxInv, ArchiveInv, NewRequest, InFile, Reading, Storing, Loop,
         Ending
<1>5. RowsInv(r, g, f, p, t)
  BY <1>0, <1>1, <1>2, IngestAssumption
     DEF Good, RowsInv, TxInv, PlaceInv, Parts, RequestRecord, Pendings, TxRecord,
         RowCount, NoTx, Storing, Loop, Ending
<1> QED
  BY <1>1, <1>2, <1>3, <1>4, <1>5 DEF Good, PipeState, ArchiveState, p

(* The transaction is opened.                                             *)
LEMMA GoodBegin ==
    ASSUME NEW r, NEW g, NEW f, NEW q, NEW s, NEW a, NEW t,
           Good(r, g, f, q, s, a, t), q.pc = "begin"
    PROVE  /\ Good(r, g, f, Begun(q), s, a, t)
           /\ Follows(q, Begun(q))
<1> DEFINE p == Begun(q)
<1>0. f[q.part] \in Parts /\ f[q.part].rows \in 0 .. RowCap
  BY GoodFile DEF InFile, Reading, Storing, Loop, Ending
<1>1. q \in RequestRecord /\ t \in TxRecord /\ "parse" \in Steps /\ 1 \in RowCount
  BY <1>0, IngestAssumption DEF Good, TxRecord, RowCount, NoTx, Steps
<1>2. /\ p \in RequestRecord
      /\ p.pc = "parse" /\ p.part = q.part /\ p.next = q.next /\ p.pending = q.pending
      /\ p.result = q.result /\ p.copied = q.copied /\ p.status = q.status
  BY <1>1 DEF RequestRecord, Begun
<1> HIDE DEF p
<1>3. Follows(q, p)
  BY <1>2 DEF Follows, Over, Reading, Loop, Ending
<1>4. PlaceInv(f, p, a) /\ TxInv(p, t) /\ ArchiveInv(r, p, s, a, objects)
  BY <1>1, <1>2
     DEF Good, PlaceInv, TxInv, ArchiveInv, NewRequest, InFile, Reading, Storing, Loop,
         Ending
<1>5. RowsInv(r, g, f, p, t)
  BY <1>0, <1>1, <1>2, IngestAssumption
     DEF Good, RowsInv, TxInv, PlaceInv, Parts, RequestRecord, Pendings, TxRecord,
         RowCount, NoTx, Storing, Loop, Ending
<1> QED
  BY <1>1, <1>2, <1>3, <1>4, <1>5 DEF Good, PipeState, ArchiveState, p

(* The reader returns io.EOF.                                             *)
LEMMA GoodLast ==
    ASSUME NEW r, NEW g, NEW f, NEW q, NEW s, NEW a, NEW t,
           f[q.part].end = "eof", ~(q.next <= f[q.part].rows),
           Good(r, g, f, q, s, a, t), q.pc = "parse", r \notin g
    PROVE  /\ Good(r, g, f, Moved(q, "last"), "eof", a, t)
           /\ Follows(q, Moved(q, "last"))
<1> DEFINE p == Moved(q, "last")
<1>0. f[q.part] \in Parts /\ f[q.part].rows \in 0 .. RowCap
  BY GoodFile DEF InFile, Reading, Storing, Loop, Ending
<1>1. q \in RequestRecord /\ t \in TxRecord /\ "last" \in Steps
  BY <1>0, IngestAssumption DEF Good, TxRecord, RowCount, NoTx, Steps
<1>2. /\ p \in RequestRecord
      /\ p.pc = "last" /\ p.part = q.part /\ p.next = q.next /\ p.pending = q.pending
      /\ p.result = q.result /\ p.copied = q.copied /\ p.status = q.status
  BY <1>1 DEF RequestRecord, Moved
<1> HIDE DEF p
<1>3. Follows(q, p)
  BY <1>2 DEF Follows, Over, Reading, Loop, Ending
<1>4. PlaceInv(f, p, a) /\ TxInv(p, t) /\ ArchiveInv(r, p, "eof", a, objects)
  BY <1>1, <1>2
     DEF Good, PlaceInv, TxInv, ArchiveInv, NewRequest, InFile, Reading, Storing, Loop,
         Ending
<1>a. /\ q.next \in Nat /\ q.pending \in Nat /\ t.rows \in Nat
      /\ RowCap \in Nat /\ Batch \in Nat \ {0} /\ f[q.part].rows \in Nat
            /\ f[q.part].rows <= RowCap
  BY <1>0, <1>1, IngestAssumption DEF Good, RequestRecord, Pendings, TxRecord, RowCount
<1>b. /\ f[q.part].head = "known"
      /\ t.rows + q.pending = q.next - 1 /\ q.next = f[q.part].rows + 1
  BY <1>a DEF Good, RowsInv, Loop
<1>5. RowsInv(r, g, f, p, t)
  BY <1>a, <1>b, <1>2 DEF RowsInv, Loop, Ending, Storing
<1> QED
  BY <1>1, <1>2, <1>3, <1>4, <1>5 DEF Good, PipeState, ArchiveState, p

(* The pending rows are copied.                                           *)
LEMMA GoodFlush ==
    ASSUME NEW r, NEW g, NEW f, NEW q, NEW s, NEW a, NEW t,
           NEW step \in {"parse", "archive"}, Good(r, g, f, q, s, a, t),
           q.pc = IF step = "parse" THEN "flush" ELSE "last"
    PROVE  /\ Good(r, g, f, Flushed(q, step), s, a, Filled(q, t))
           /\ Follows(q, Flushed(q, step))
<1> DEFINE p == Flushed(q, step)
<1>0. f[q.part] \in Parts /\ f[q.part].rows \in 0 .. RowCap
  BY GoodFile DEF InFile, Reading, Storing, Loop, Ending
<1>1. q \in RequestRecord /\ Filled(q, t) \in TxRecord /\ step \in Steps
         /\ 0 \in Pendings
  <2>1. q \in RequestRecord /\ t \in TxRecord /\ step \in Steps
    BY DEF Good, Steps
  <2>2. q.pending \in Nat /\ t.rows \in Nat /\ 0 \in Pendings
    BY <2>1, IngestAssumption DEF RequestRecord, Pendings, TxRecord, RowCount
  <2>3. Capped(t.rows + q.pending) \in RowCount
    BY <2>2, IngestAssumption DEF Capped, RowCount
  <2> QED
    BY <2>1, <2>2, <2>3 DEF Filled, TxRecord
<1>2. /\ p \in RequestRecord
      /\ p.pc = step /\ p.part = q.part /\ p.next = q.next /\ p.pending = 0
      /\ p.result = q.result /\ p.copied = q.copied /\ p.status = q.status
  BY <1>1 DEF RequestRecord, Flushed
<1> HIDE DEF p
<1>3. Follows(q, p)
  BY <1>2 DEF Follows, Over, Reading, Loop, Ending
<1>4. PlaceInv(f, p, a) /\ TxInv(p, Filled(q, t)) /\ ArchiveInv(r, p, s, a, objects)
  BY <1>1, <1>2
     DEF Good, PlaceInv, TxInv, ArchiveInv, NewRequest, InFile, Reading, Storing, Loop,
         Ending, Capped
<1>a. /\ q.next \in Nat /\ q.pending \in Nat /\ t.rows \in Nat
      /\ RowCap \in Nat /\ Batch \in Nat \ {0} /\ f[q.part].rows \in Nat
            /\ f[q.part].rows <= RowCap
  BY <1>0, <1>1, IngestAssumption DEF Good, RequestRecord, Pendings, TxRecord, RowCount
<1>b. Filled(q, t).rows = IF t.rows + q.pending < RowCap THEN t.rows + q.pending ELSE RowCap
  BY <1>a, <1>1 DEF Filled, Capped, TxRecord, Good
<1>5. RowsInv(r, g, f, p, Filled(q, t))
  BY <1>a, <1>b, <1>2 DEF Good, RowsInv, Loop, Ending, Storing
<1> QED
  BY <1>1, <1>2, <1>3, <1>4, <1>5 DEF Good, PipeState, ArchiveState, p

(* Nothing is pending at the end.                                         *)
LEMMA GoodUnflushed ==
    ASSUME NEW r, NEW g, NEW f, NEW q, NEW s, NEW a, NEW t,
           Good(r, g, f, q, s, a, t), q.pc = "last", q.pending = 0
    PROVE  /\ Good(r, g, f, Moved(q, "archive"), s, a, t)
           /\ Follows(q, Moved(q, "archive"))
<1> DEFINE p == Moved(q, "archive")
<1>0. f[q.part] \in Parts /\ f[q.part].rows \in 0 .. RowCap
  BY GoodFile DEF InFile, Reading, Storing, Loop, Ending
<1>1. q \in RequestRecord /\ t \in TxRecord /\ "archive" \in Steps
  BY <1>0, IngestAssumption DEF Good, TxRecord, RowCount, NoTx, Steps
<1>2. /\ p \in RequestRecord
      /\ p.pc = "archive" /\ p.part = q.part /\ p.next = q.next /\ p.pending = q.pending
      /\ p.result = q.result /\ p.copied = q.copied /\ p.status = q.status
  BY <1>1 DEF RequestRecord, Moved
<1> HIDE DEF p
<1>3. Follows(q, p)
  BY <1>2 DEF Follows, Over, Reading, Loop, Ending
<1>4. PlaceInv(f, p, a) /\ TxInv(p, t) /\ ArchiveInv(r, p, s, a, objects)
  BY <1>1, <1>2
     DEF Good, PlaceInv, TxInv, ArchiveInv, NewRequest, InFile, Reading, Storing, Loop,
         Ending
<1>5. RowsInv(r, g, f, p, t)
  BY <1>0, <1>1, <1>2, IngestAssumption
     DEF Good, RowsInv, TxInv, PlaceInv, Parts, RequestRecord, Pendings, TxRecord,
         RowCount, NoTx, Storing, Loop, Ending
<1> QED
  BY <1>1, <1>2, <1>3, <1>4, <1>5 DEF Good, PipeState, ArchiveState, p

(* The archive is whole.                                                  *)
LEMMA GoodCreate ==
    ASSUME NEW r, NEW g, NEW f, NEW q, NEW s, NEW a, NEW t,
           Good(r, g, f, q, s, a, t), q.pc = "archive", a = "stored"
    PROVE  /\ Good(r, g, f, Moved(q, "create"), s, a, t)
           /\ Follows(q, Moved(q, "create"))
<1> DEFINE p == Moved(q, "create")
<1>0. f[q.part] \in Parts /\ f[q.part].rows \in 0 .. RowCap
  BY GoodFile DEF InFile, Reading, Storing, Loop, Ending
<1>1. q \in RequestRecord /\ t \in TxRecord /\ "create" \in Steps
  BY <1>0, IngestAssumption DEF Good, TxRecord, RowCount, NoTx, Steps
<1>2. /\ p \in RequestRecord
      /\ p.pc = "create" /\ p.part = q.part /\ p.next = q.next /\ p.pending = q.pending
      /\ p.result = q.result /\ p.copied = q.copied /\ p.status = q.status
  BY <1>1 DEF RequestRecord, Moved
<1> HIDE DEF p
<1>3. Follows(q, p)
  BY <1>2 DEF Follows, Over, Reading, Loop, Ending
<1>4. PlaceInv(f, p, a) /\ TxInv(p, t) /\ ArchiveInv(r, p, s, a, objects)
  BY <1>1, <1>2
     DEF Good, PlaceInv, TxInv, ArchiveInv, NewRequest, InFile, Reading, Storing, Loop,
         Ending
<1>5. RowsInv(r, g, f, p, t)
  BY <1>0, <1>1, <1>2, IngestAssumption
     DEF Good, RowsInv, TxInv, PlaceInv, Parts, RequestRecord, Pendings, TxRecord,
         RowCount, NoTx, Storing, Loop, Ending
<1> QED
  BY <1>1, <1>2, <1>3, <1>4, <1>5 DEF Good, PipeState, ArchiveState, p

(* The upload row is written.                                             *)
LEMMA GoodRollups ==
    ASSUME NEW r, NEW g, NEW f, NEW q, NEW s, NEW a, NEW t,
           Good(r, g, f, q, s, a, t), q.pc = "create"
    PROVE  /\ Good(r, g, f, Moved(q, "rollups"), s, a, [t EXCEPT !.upload = TRUE])
           /\ Follows(q, Moved(q, "rollups"))
<1> DEFINE p == Moved(q, "rollups")
<1>0. f[q.part] \in Parts /\ f[q.part].rows \in 0 .. RowCap
  BY GoodFile DEF InFile, Reading, Storing, Loop, Ending
<1>1. q \in RequestRecord /\ [t EXCEPT !.upload = TRUE] \in TxRecord
         /\ "rollups" \in Steps
  BY <1>0, IngestAssumption DEF Good, TxRecord, RowCount, NoTx, Steps
<1>2. /\ p \in RequestRecord
      /\ p.pc = "rollups" /\ p.part = q.part /\ p.next = q.next /\ p.pending = q.pending
      /\ p.result = q.result /\ p.copied = q.copied /\ p.status = q.status
  BY <1>1 DEF RequestRecord, Moved
<1> HIDE DEF p
<1>3. Follows(q, p)
  BY <1>2 DEF Follows, Over, Reading, Loop, Ending
<1>4. PlaceInv(f, p, a) /\ TxInv(p, [t EXCEPT !.upload = TRUE])
         /\ ArchiveInv(r, p, s, a, objects)
  BY <1>1, <1>2
     DEF Good, PlaceInv, TxInv, ArchiveInv, NewRequest, InFile, Reading, Storing, Loop,
         Ending
<1>5. RowsInv(r, g, f, p, [t EXCEPT !.upload = TRUE])
  BY <1>0, <1>1, <1>2, IngestAssumption
     DEF Good, RowsInv, TxInv, PlaceInv, Parts, RequestRecord, Pendings, TxRecord,
         RowCount, NoTx, Storing, Loop, Ending
<1> QED
  BY <1>1, <1>2, <1>3, <1>4, <1>5 DEF Good, PipeState, ArchiveState, p

(* The rollups are written.                                               *)
LEMMA GoodCommit ==
    ASSUME NEW r, NEW g, NEW f, NEW q, NEW s, NEW a, NEW t,
           Good(r, g, f, q, s, a, t), q.pc = "rollups"
    PROVE  /\ Good(r, g, f, Moved(q, "commit"), s, a, [t EXCEPT !.rolled = TRUE])
           /\ Follows(q, Moved(q, "commit"))
<1> DEFINE p == Moved(q, "commit")
<1>0. f[q.part] \in Parts /\ f[q.part].rows \in 0 .. RowCap
  BY GoodFile DEF InFile, Reading, Storing, Loop, Ending
<1>1. q \in RequestRecord /\ [t EXCEPT !.rolled = TRUE] \in TxRecord
         /\ "commit" \in Steps
  BY <1>0, IngestAssumption DEF Good, TxRecord, RowCount, NoTx, Steps
<1>2. /\ p \in RequestRecord
      /\ p.pc = "commit" /\ p.part = q.part /\ p.next = q.next /\ p.pending = q.pending
      /\ p.result = q.result /\ p.copied = q.copied /\ p.status = q.status
  BY <1>1 DEF RequestRecord, Moved
<1> HIDE DEF p
<1>3. Follows(q, p)
  BY <1>2 DEF Follows, Over, Reading, Loop, Ending
<1>4. PlaceInv(f, p, a) /\ TxInv(p, [t EXCEPT !.rolled = TRUE])
         /\ ArchiveInv(r, p, s, a, objects)
  BY <1>1, <1>2
     DEF Good, PlaceInv, TxInv, ArchiveInv, NewRequest, InFile, Reading, Storing, Loop,
         Ending
<1>5. RowsInv(r, g, f, p, [t EXCEPT !.rolled = TRUE])
  BY <1>0, <1>1, <1>2, IngestAssumption
     DEF Good, RowsInv, TxInv, PlaceInv, Parts, RequestRecord, Pendings, TxRecord,
         RowCount, NoTx, Storing, Loop, Ending
<1> QED
  BY <1>1, <1>2, <1>3, <1>4, <1>5 DEF Good, PipeState, ArchiveState, p

(* A line becomes a row; a read that failed becomes an empty one.           *)
Parsed(q, k) == [q EXCEPT !.lines = Capped(@ + 1), !.pending = @ + 1,
                          !.next = IF k THEN @ + 1 ELSE @,
                          !.pc = IF BatchFull(q.pending + 1) THEN "flush" ELSE "parse"]

LEMMA GoodParse ==
    ASSUME NEW r, NEW g, NEW f, NEW q, NEW s, NEW a, NEW t, NEW k \in BOOLEAN,
           Good(r, g, f, q, s, a, t), q.pc = "parse",
           k <=> r \notin g /\ q.next <= f[q.part].rows,
           k \/ r \in g \/ f[q.part].end # "eof",
           NEW z \in {s, "data"}
    PROVE  /\ Good(r, g, f, Parsed(q, k), z, a, t)
           /\ Follows(q, Parsed(q, k))
<1> DEFINE p == Parsed(q, k)
<1>0. f[q.part].rows \in Nat
  BY GoodFile DEF InFile, Reading, Storing, Loop, Ending
<1>1. /\ q \in RequestRecord /\ t \in TxRecord /\ "flush" \in Steps /\ "parse" \in Steps
      /\ q.pending \in Nat /\ q.next \in Nat /\ t.rows \in Nat /\ Batch \in Nat
      /\ q.pending < Batch
  BY IngestAssumption
     DEF Good, RowsInv, RequestRecord, Pendings, TxRecord, RowCount, Steps
<1>2. q.pending + 1 \in Pendings /\ Capped(q.lines + 1) \in RowCount
  BY <1>1, IngestAssumption DEF RequestRecord, Pendings, RowCount, Capped
<1> DEFINE place == IF BatchFull(q.pending + 1) THEN "flush" ELSE "parse"
           next == IF k THEN q.next + 1 ELSE q.next
<1>a. place \in Steps /\ next \in Nat
  BY <1>1
<1> HIDE DEF place, next
<1>3. /\ p \in RequestRecord
      /\ p.pc = place /\ p.part = q.part /\ p.next = next
      /\ p.pending = q.pending + 1
      /\ p.result = q.result /\ p.copied = q.copied /\ p.status = q.status
  <2>1. p = [q EXCEPT !.lines = Capped(@ + 1), !.pending = @ + 1, !.next = next,
           !.pc = place]
    BY DEF Parsed, place, next
  <2> HIDE DEF p
  <2> QED
    BY <1>1, <1>2, <1>a, <2>1 DEF RequestRecord
<1> USE DEF place, next
<1> HIDE DEF p
<1>4. p.pc \in {"flush", "parse"} /\ (p.pc = "parse" => p.pending < Batch)
  BY <1>1, <1>3 DEF BatchFull
<1>5. Follows(q, p)
  BY <1>3, <1>4 DEF Follows, Over
<1>6. PlaceInv(f, p, a) /\ TxInv(p, t) /\ ArchiveInv(r, p, z, a, objects)
  BY <1>3, <1>4
     DEF Good, PlaceInv, TxInv, ArchiveInv, InFile, Reading, Storing, Loop, Ending
<1>7. RowsInv(r, g, f, p, t)
  BY <1>0, <1>1, <1>3, <1>4 DEF Good, RowsInv, Loop, Ending, Storing
<1> QED
  BY <1>3, <1>5, <1>6, <1>7 DEF Good, PipeState, p

----------------------------------------------------------------------------
(* One lemma for every step of that kind.                                   *)

(* A part that is refused, or a form without a file, ends the request.      *)
LEMMA RefusePartKeeps ==
    ASSUME IInv, NEW r \in Request, RefusePart(r)
    PROVE  IInv'
<1>1. TypeOK /\ Good(r, gone, form[r], req[r], slot[r], arch[r], tx[r])
  BY InvGood DEF IInv
<1>2. OwnOnly
  BY <1>1, IngestAssumption DEF TypeOK, OwnOnly, request, stored, env, RefusePart
<1>3. /\ At(r, "parts")
      /\ Becomes(r, form[r], Replied(req[r], 400), slot[r], arch[r], NoTx)
  BY <1>1, Itself DEF RefusePart, Becomes, Answer, GoOn, Replied
<1>4. /\ Good(r, gone, form[r], Replied(req[r], 400), slot[r], arch[r], NoTx)
      /\ Follows(req[r], Replied(req[r], 400))
  <2>1. arch[r] # "open" /\ 400 \in Status \ {201} /\ req[r].pc # "idle"
    BY <1>1, <1>3 DEF Good, ArchiveInv, Reading, Loop, Ending, At, Status
  <2> QED
    BY <1>1, <2>1, GoodAnswer
<1> QED
  BY <1>2, <1>3, <1>4, LocalStep

(* A file part begins.                                                      *)
LEMMA OpenFileKeeps ==
    ASSUME IInv, NEW r \in Request, OpenFile(r)
    PROVE  IInv'
<1>1. TypeOK /\ Good(r, gone, form[r], req[r], slot[r], arch[r], tx[r])
  BY InvGood DEF IInv
<1>2. OwnOnly
  BY <1>1, IngestAssumption DEF TypeOK, OwnOnly, request, stored, env, OpenFile
<1>3. /\ At(r, "parts") /\ req[r].part < Len(form[r])
      /\ Becomes(r, form[r], Opened(req[r]), "empty", "open", tx[r])
  BY <1>1, Itself DEF OpenFile, Becomes, PartsLeft, GoOn, Opened
<1>4. /\ Good(r, gone, form[r], Opened(req[r]), "empty", "open", tx[r])
      /\ Follows(req[r], Opened(req[r]))
  BY <1>1, <1>3, GoodOpen DEF At
<1> QED
  BY <1>2, <1>3, <1>4, LocalStep

(* The form ends with an upload to launch.                                  *)
LEMMA EndFormKeeps ==
    ASSUME IInv, NEW r \in Request, EndForm(r)
    PROVE  IInv'
<1>1. TypeOK /\ Good(r, gone, form[r], req[r], slot[r], arch[r], tx[r])
  BY InvGood DEF IInv
<1>2. OwnOnly
  BY <1>1, IngestAssumption DEF TypeOK, OwnOnly, request, stored, env, EndForm
<1>3. /\ At(r, "parts") /\ req[r].result # NoUpload
      /\ Becomes(r, form[r], Moved(req[r], "launch"), slot[r], arch[r], tx[r])
  BY <1>1, Itself DEF EndForm, Becomes, GoTo, GoOn, Moved
<1>4. /\ Good(r, gone, form[r], Moved(req[r], "launch"), slot[r], arch[r], tx[r])
      /\ Follows(req[r], Moved(req[r], "launch"))
  BY <1>1, <1>3, GoodLaunching DEF At
<1> QED
  BY <1>2, <1>3, <1>4, LocalStep

(* The head names a format, or it fails or belongs to no parser.            *)
LEMMA ReadHeadKeeps ==
    ASSUME IInv, NEW r \in Request, ReadHead(r)
    PROVE  IInv'
<1>1. TypeOK /\ Good(r, gone, form[r], req[r], slot[r], arch[r], tx[r])
  BY InvGood DEF IInv
<1>2. OwnOnly
  BY <1>1, IngestAssumption DEF TypeOK, OwnOnly, request, stored, env, ReadHead
<1>3. req[r].pc = "head" /\ req[r].pc \in Reading
  BY DEF ReadHead, At, Reading
<1>4. ASSUME NEW n \in {413, 500}, FailAfterArchive(r, n),
                slot' = [slot EXCEPT ![r] = "err"]
      PROVE  IInv'
  <2>1. Becomes(r, form[r], Awaiting(req[r], n), "err", arch[r], tx[r])
    BY <1>1, <1>4, Itself DEF ReadHead, Becomes, FailAfterArchive, GoOn, Awaiting
  <2>2. n \in Status \ {201} /\ "err" \in PipeState
    BY DEF Status, PipeState
  <2>3. /\ Good(r, gone, form[r], Awaiting(req[r], n), "err", arch[r], tx[r])
        /\ Follows(req[r], Awaiting(req[r], n))
    BY <1>1, <1>3, <2>2, GoodAwait
  <2> QED
    BY <1>2, <2>1, <2>3, LocalStep
<1>5. ASSUME NEW step \in {"begin", "drain"},
                GoOn(r, [req[r] EXCEPT !.next = 1, !.pc = step]),
             step = "begin" => File(r).head = "known",
             slot' = [slot EXCEPT ![r] = "data"]
      PROVE  IInv'
  <2>1. Becomes(r, form[r], Headed(req[r], step), "data", arch[r], tx[r])
    BY <1>1, <1>5, Itself DEF ReadHead, Becomes, GoOn, Headed
  <2>2. step = "begin" => form[r][req[r].part].head = "known"
    BY <1>5 DEF File
  <2>3. /\ Good(r, gone, form[r], Headed(req[r], step), "data", arch[r], tx[r])
        /\ Follows(req[r], Headed(req[r], step))
    BY <1>1, <1>3, <2>2, GoodHead
  <2> QED
    BY <1>2, <2>1, <2>3, LocalStep
<1>6. \/ FailAfterArchive(r, 413) /\ slot' = [slot EXCEPT ![r] = "err"]
      \/ FailAfterArchive(r, 500) /\ slot' = [slot EXCEPT ![r] = "err"]
      \/ /\ GoOn(r, [req[r] EXCEPT !.next = 1, !.pc = "begin"])
               /\ File(r).head = "known"
         /\ slot' = [slot EXCEPT ![r] = "data"]
      \/ /\ GoOn(r, [req[r] EXCEPT !.next = 1, !.pc = "drain"])
         /\ slot' = [slot EXCEPT ![r] = "data"]
  <2>1. CASE HeadFails(r)
    BY <2>1 DEF ReadHead
  <2>2. CASE ~HeadFails(r) /\ File(r).head = "known"
    BY <2>2 DEF ReadHead
  <2>3. CASE ~HeadFails(r) /\ File(r).head # "known"
    BY <2>3 DEF ReadHead
  <2> QED
    BY <2>1, <2>2, <2>3
<1> QED
  BY <1>4, <1>5, <1>6

(* A file of no format is read to its end.                                  *)
LEMMA DrainKeeps ==
    ASSUME IInv, NEW r \in Request, Drain(r)
    PROVE  IInv'
<1>1. TypeOK /\ Good(r, gone, form[r], req[r], slot[r], arch[r], tx[r])
  BY InvGood DEF IInv
<1>2. OwnOnly
  BY <1>1, IngestAssumption DEF TypeOK, OwnOnly, request, stored, env, Drain
<1>3. \/ /\ At(r, "drain")
         /\ Becomes(r, form[r], Drained(req[r]), "data", arch[r], tx[r])
      \/ /\ At(r, "drain")
         /\ Becomes(r, form[r], Awaiting(req[r], 400), "eof", arch[r], tx[r])
  BY <1>1, Itself DEF Drain, Becomes, FailAfterArchive, GoOn, Awaiting, Drained
<1>4. CASE /\ At(r, "drain")
            /\ Becomes(r, form[r], Drained(req[r]), "data", arch[r], tx[r])
  <2>1. /\ Good(r, gone, form[r], Drained(req[r]), "data", arch[r], tx[r])
        /\ Follows(req[r], Drained(req[r]))
    BY <1>1, <1>4, GoodDrain DEF At
  <2> QED
    BY <1>2, <1>4, <2>1, LocalStep
<1>5. CASE /\ At(r, "drain")
            /\ Becomes(r, form[r], Awaiting(req[r], 400), "eof", arch[r], tx[r])
  <2>1. /\ Good(r, gone, form[r], Awaiting(req[r], 400), "eof", arch[r], tx[r])
        /\ Follows(req[r], Awaiting(req[r], 400))
    BY <1>1, <1>5, GoodAwait DEF At, Status, PipeState, Reading
  <2> QED
    BY <1>2, <1>5, <2>1, LocalStep
<1> QED
  BY <1>3, <1>4, <1>5

(* The transaction is opened.                                               *)
LEMMA BeginKeeps ==
    ASSUME IInv, NEW r \in Request, Begin(r)
    PROVE  IInv'
<1>1. TypeOK /\ Good(r, gone, form[r], req[r], slot[r], arch[r], tx[r])
  BY InvGood DEF IInv
<1>2. OwnOnly
  BY <1>1, IngestAssumption DEF TypeOK, OwnOnly, request, stored, env, Begin,
         Succeeds, Fails, Fault
<1>3. \/ /\ At(r, "begin")
         /\ Becomes(r, form[r], Begun(req[r]), slot[r], arch[r], tx[r])
      \/ /\ At(r, "begin")
         /\ Becomes(r, form[r], Awaiting(req[r], 500), "err", arch[r], tx[r])
  BY <1>1, Itself DEF Begin, Becomes, FailAfterArchive, GoOn, Awaiting, Begun
<1>4. CASE /\ At(r, "begin")
            /\ Becomes(r, form[r], Begun(req[r]), slot[r], arch[r], tx[r])
  <2>1. /\ Good(r, gone, form[r], Begun(req[r]), slot[r], arch[r], tx[r])
        /\ Follows(req[r], Begun(req[r]))
    BY <1>1, <1>4, GoodBegin DEF At
  <2> QED
    BY <1>2, <1>4, <2>1, LocalStep
<1>5. CASE /\ At(r, "begin")
            /\ Becomes(r, form[r], Awaiting(req[r], 500), "err", arch[r], tx[r])
  <2>1. /\ Good(r, gone, form[r], Awaiting(req[r], 500), "err", arch[r], tx[r])
        /\ Follows(req[r], Awaiting(req[r], 500))
    BY <1>1, <1>5, GoodAwait DEF At, Status, PipeState, Reading, Loop
  <2> QED
    BY <1>2, <1>5, <2>1, LocalStep
<1> QED
  BY <1>3, <1>4, <1>5

(* The reader returns io.EOF: every line of the file is a row.              *)
LEMMA ParseEndKeeps ==
    ASSUME IInv, NEW r \in Request, ParseEnd(r)
    PROVE  IInv'
<1>1. TypeOK /\ Good(r, gone, form[r], req[r], slot[r], arch[r], tx[r])
  BY InvGood DEF IInv
<1>2. OwnOnly
  BY <1>1, IngestAssumption DEF TypeOK, OwnOnly, request, stored, env, ParseEnd
<1>3. /\ At(r, "parse") /\ AtEof(r)
      /\ Becomes(r, form[r], Moved(req[r], "last"), "eof", arch[r], tx[r])
  BY <1>1, Itself DEF ParseEnd, Becomes, GoTo, GoOn, Moved
<1>4. /\ Good(r, gone, form[r], Moved(req[r], "last"), "eof", arch[r], tx[r])
      /\ Follows(req[r], Moved(req[r], "last"))
  BY <1>1, <1>3, GoodLast DEF At, AtEof, HasChunk, File
<1> QED
  BY <1>2, <1>3, <1>4, LocalStep

(* The pending rows are copied inside the loop.                             *)
LEMMA FlushKeeps ==
    ASSUME IInv, NEW r \in Request, Flush(r)
    PROVE  IInv'
<1>1. TypeOK /\ Good(r, gone, form[r], req[r], slot[r], arch[r], tx[r])
  BY InvGood DEF IInv
<1>2. OwnOnly
  BY SMTT(30), <1>1, IngestAssumption DEF TypeOK, OwnOnly, request, stored, env,
     Flush,
         Succeeds, Fails, Fault
<1>3. \/ /\ At(r, "flush")
         /\ Becomes(r, form[r], Flushed(req[r], "parse"), slot[r], arch[r],
               Filled(req[r], tx[r]))
      \/ /\ At(r, "flush")
         /\ Becomes(r, form[r], Awaiting(req[r], 500), "err", arch[r], tx[r])
  BY <1>1, Itself DEF Flush, Becomes, FailAfterArchive, GoOn, Awaiting, Flushed,
         Copied, Filled
<1>4. CASE /\ At(r, "flush")
            /\ Becomes(r, form[r], Flushed(req[r], "parse"), slot[r], arch[r],
                  Filled(req[r], tx[r]))
  <2>1. /\ Good(r, gone, form[r], Flushed(req[r], "parse"), slot[r], arch[r],
              Filled(req[r], tx[r]))
        /\ Follows(req[r], Flushed(req[r], "parse"))
    <3>1. req[r].pc = "flush"
      BY <1>4 DEF At
    <3> QED
      BY <1>1, <3>1, GoodFlush
  <2> QED
    BY <1>2, <1>4, <2>1, LocalStep
<1>5. CASE /\ At(r, "flush")
            /\ Becomes(r, form[r], Awaiting(req[r], 500), "err", arch[r], tx[r])
  <2>1. /\ Good(r, gone, form[r], Awaiting(req[r], 500), "err", arch[r], tx[r])
        /\ Follows(req[r], Awaiting(req[r], 500))
    BY <1>1, <1>5, GoodAwait DEF At, Status, PipeState, Reading, Loop
  <2> QED
    BY <1>2, <1>5, <2>1, LocalStep
<1> QED
  BY <1>3, <1>4, <1>5

(* The rows that are left are copied.                                       *)
LEMMA LastFlushKeeps ==
    ASSUME IInv, NEW r \in Request, LastFlush(r)
    PROVE  IInv'
<1>1. TypeOK /\ Good(r, gone, form[r], req[r], slot[r], arch[r], tx[r])
  BY InvGood DEF IInv
<1>2. OwnOnly
  BY <1>1, IngestAssumption DEF TypeOK, OwnOnly, request, stored, env, LastFlush,
         Succeeds, Fails, Fault
<1>3. \/ /\ At(r, "last") /\ req[r].pending = 0
         /\ Becomes(r, form[r], Moved(req[r], "archive"), slot[r], arch[r], tx[r])
      \/ /\ At(r, "last")
         /\ Becomes(r, form[r], Flushed(req[r], "archive"), slot[r], arch[r],
               Filled(req[r], tx[r]))
      \/ /\ At(r, "last")
         /\ Becomes(r, form[r], Awaiting(req[r], 500), slot[r], arch[r], tx[r])
  BY <1>1, Itself DEF LastFlush, Becomes, FailAfterArchive, GoTo, GoOn, Awaiting,
         Flushed, Moved, Copied, Filled
<1>4. CASE /\ At(r, "last") /\ req[r].pending = 0
            /\ Becomes(r, form[r], Moved(req[r], "archive"), slot[r], arch[r], tx[r])
  <2>1. /\ Good(r, gone, form[r], Moved(req[r], "archive"), slot[r], arch[r], tx[r])
        /\ Follows(req[r], Moved(req[r], "archive"))
    BY <1>1, <1>4, GoodUnflushed DEF At
  <2> QED
    BY <1>2, <1>4, <2>1, LocalStep
<1>5. CASE /\ At(r, "last")
            /\ Becomes(r, form[r], Flushed(req[r], "archive"), slot[r], arch[r],
                  Filled(req[r], tx[r]))
  <2>1. /\ Good(r, gone, form[r], Flushed(req[r], "archive"), slot[r], arch[r],
              Filled(req[r], tx[r]))
        /\ Follows(req[r], Flushed(req[r], "archive"))
    BY <1>1, <1>5, GoodFlush DEF At
  <2> QED
    BY <1>2, <1>5, <2>1, LocalStep
<1>6. CASE /\ At(r, "last")
            /\ Becomes(r, form[r], Awaiting(req[r], 500), slot[r], arch[r], tx[r])
  <2>1. /\ Good(r, gone, form[r], Awaiting(req[r], 500), slot[r], arch[r], tx[r])
        /\ Follows(req[r], Awaiting(req[r], 500))
    <3>1. slot[r] \in PipeState /\ req[r].pc \in Reading /\ 500 \in Status \ {201}
      BY <1>1, <1>6 DEF Good, Reading, Ending, At, Status
    <3> QED
      BY <1>1, <3>1, GoodAwait
  <2> QED
    BY <1>2, <1>6, <2>1, LocalStep
<1> QED
  BY <1>3, <1>4, <1>5, <1>6

(* The archive has stored the whole file, or the request fails.             *)
LEMMA AwaitArchiveKeeps ==
    ASSUME IInv, NEW r \in Request, AwaitArchive(r)
    PROVE  IInv'
<1>1. TypeOK /\ Good(r, gone, form[r], req[r], slot[r], arch[r], tx[r])
  BY InvGood DEF IInv
<1>2. OwnOnly
  BY <1>1, IngestAssumption DEF TypeOK, OwnOnly, request, stored, env, AwaitArchive
<1>3. \/ /\ At(r, "archive") /\ arch[r] = "stored"
         /\ Becomes(r, form[r], Moved(req[r], "create"), slot[r], arch[r], tx[r])
      \/ /\ At(r, "archive") /\ arch[r] # "open"
         /\ Becomes(r, form[r], Replied(req[r], 500), slot[r], arch[r], NoTx)
  BY <1>1, Itself DEF AwaitArchive, Becomes, Archived, Answer, GoTo, GoOn, Moved,
         Replied
<1>4. CASE /\ At(r, "archive") /\ arch[r] = "stored"
            /\ Becomes(r, form[r], Moved(req[r], "create"), slot[r], arch[r], tx[r])
  <2>1. /\ Good(r, gone, form[r], Moved(req[r], "create"), slot[r], arch[r], tx[r])
        /\ Follows(req[r], Moved(req[r], "create"))
    BY <1>1, <1>4, GoodCreate DEF At
  <2> QED
    BY <1>2, <1>4, <2>1, LocalStep
<1>5. CASE /\ At(r, "archive") /\ arch[r] # "open"
            /\ Becomes(r, form[r], Replied(req[r], 500), slot[r], arch[r], NoTx)
  <2>1. /\ Good(r, gone, form[r], Replied(req[r], 500), slot[r], arch[r], NoTx)
        /\ Follows(req[r], Replied(req[r], 500))
    BY <1>1, <1>5, GoodAnswer DEF At, Status
  <2> QED
    BY <1>2, <1>5, <2>1, LocalStep
<1> QED
  BY <1>3, <1>4, <1>5

(* A failed ingest is answered once its archive is over.                    *)
LEMMA FailIngestKeeps ==
    ASSUME IInv, NEW r \in Request, FailIngest(r)
    PROVE  IInv'
<1>1. TypeOK /\ Good(r, gone, form[r], req[r], slot[r], arch[r], tx[r])
  BY InvGood DEF IInv
<1>2. OwnOnly
  BY <1>1, IngestAssumption DEF TypeOK, OwnOnly, request, stored, env, FailIngest
<1>3. /\ At(r, "await") /\ arch[r] # "open"
      /\ Becomes(r, form[r], Replied(req[r], req[r].status), slot[r], arch[r], NoTx)
  BY <1>1, Itself DEF FailIngest, Becomes, Answer, GoOn, Replied
<1>4. /\ Good(r, gone, form[r], Replied(req[r], req[r].status), slot[r], arch[r], NoTx)
      /\ Follows(req[r], Replied(req[r], req[r].status))
  <2>1. req[r].status \in Status \ {201}
    BY <1>1, <1>3 DEF Good, PlaceInv, RequestRecord, At
  <2> QED
    BY <1>1, <1>3, <2>1, GoodAnswer DEF At
<1> QED
  BY <1>2, <1>3, <1>4, LocalStep

(* The upload row.                                                          *)
LEMMA CreateUploadKeeps ==
    ASSUME IInv, NEW r \in Request, CreateUpload(r)
    PROVE  IInv'
<1>1. TypeOK /\ Good(r, gone, form[r], req[r], slot[r], arch[r], tx[r])
  BY InvGood DEF IInv
<1>2. OwnOnly
  BY SMTT(30), <1>1, IngestAssumption DEF TypeOK, OwnOnly, request, stored, env,
     CreateUpload,
         Succeeds, Fails, Fault
<1>3. \/ /\ At(r, "create")
         /\ Becomes(r, form[r], Moved(req[r], "rollups"), slot[r], arch[r],
               [tx[r] EXCEPT !.upload = TRUE])
      \/ /\ At(r, "create")
         /\ Becomes(r, form[r], Replied(req[r], 500), slot[r], arch[r], NoTx)
  BY <1>1, Itself DEF CreateUpload, Becomes, Answer, GoTo, GoOn, Moved, Replied
<1>4. CASE /\ At(r, "create")
            /\ Becomes(r, form[r], Moved(req[r], "rollups"), slot[r], arch[r],
                  [tx[r] EXCEPT !.upload = TRUE])
  <2>1. /\ Good(r, gone, form[r], Moved(req[r], "rollups"), slot[r], arch[r],
              [tx[r] EXCEPT !.upload = TRUE])
        /\ Follows(req[r], Moved(req[r], "rollups"))
    BY <1>1, <1>4, GoodRollups DEF At
  <2> QED
    BY <1>2, <1>4, <2>1, LocalStep
<1>5. CASE /\ At(r, "create")
            /\ Becomes(r, form[r], Replied(req[r], 500), slot[r], arch[r], NoTx)
  <2>1. /\ Good(r, gone, form[r], Replied(req[r], 500), slot[r], arch[r], NoTx)
        /\ Follows(req[r], Replied(req[r], 500))
    <3>1. arch[r] # "open" /\ 500 \in Status \ {201} /\ req[r].pc # "idle"
      BY <1>1, <1>5 DEF Good, ArchiveInv, Storing, At, Status
    <3> QED
      BY <1>1, <3>1, GoodAnswer
  <2> QED
    BY <1>2, <1>5, <2>1, LocalStep
<1> QED
  BY <1>3, <1>4, <1>5

(* The rollups.                                                             *)
LEMMA BuildRollupsKeeps ==
    ASSUME IInv, NEW r \in Request, BuildRollups(r)
    PROVE  IInv'
<1>1. TypeOK /\ Good(r, gone, form[r], req[r], slot[r], arch[r], tx[r])
  BY InvGood DEF IInv
<1>2. OwnOnly
  BY SMTT(30), <1>1, IngestAssumption DEF TypeOK, OwnOnly, request, stored, env,
     BuildRollups,
         Succeeds, Fails, Fault
<1>3. \/ /\ At(r, "rollups")
         /\ Becomes(r, form[r], Moved(req[r], "commit"), slot[r], arch[r],
               [tx[r] EXCEPT !.rolled = TRUE])
      \/ /\ At(r, "rollups")
         /\ Becomes(r, form[r], Replied(req[r], 500), slot[r], arch[r], NoTx)
  BY <1>1, Itself DEF BuildRollups, Becomes, Answer, GoTo, GoOn, Moved, Replied
<1>4. CASE /\ At(r, "rollups")
            /\ Becomes(r, form[r], Moved(req[r], "commit"), slot[r], arch[r],
                  [tx[r] EXCEPT !.rolled = TRUE])
  <2>1. /\ Good(r, gone, form[r], Moved(req[r], "commit"), slot[r], arch[r],
              [tx[r] EXCEPT !.rolled = TRUE])
        /\ Follows(req[r], Moved(req[r], "commit"))
    BY <1>1, <1>4, GoodCommit DEF At
  <2> QED
    BY <1>2, <1>4, <2>1, LocalStep
<1>5. CASE /\ At(r, "rollups")
            /\ Becomes(r, form[r], Replied(req[r], 500), slot[r], arch[r], NoTx)
  <2>1. /\ Good(r, gone, form[r], Replied(req[r], 500), slot[r], arch[r], NoTx)
        /\ Follows(req[r], Replied(req[r], 500))
    <3>1. arch[r] # "open" /\ 500 \in Status \ {201} /\ req[r].pc # "idle"
      BY <1>1, <1>5 DEF Good, ArchiveInv, Storing, At, Status
    <3> QED
      BY <1>1, <3>1, GoodAnswer
  <2> QED
    BY <1>2, <1>5, <2>1, LocalStep
<1> QED
  BY <1>3, <1>4, <1>5

(* A request arrives with some form.                                        *)
LEMMA ArriveKeeps ==
    ASSUME IInv, NEW r \in Request, Arrive(r)
    PROVE  IInv'
<1>1. TypeOK /\ Good(r, gone, form[r], req[r], slot[r], arch[r], tx[r])
  BY InvGood DEF IInv
<1>2. OwnOnly
  BY <1>1 DEF TypeOK, OwnOnly, stored, env, Arrive
<1>3. PICK f \in Forms : form' = [form EXCEPT ![r] = f]
  BY DEF Arrive
<1>4. At(r, "idle") /\ Becomes(r, f, Moved(req[r], "parts"), slot[r], arch[r], tx[r])
  BY <1>1, <1>3, Itself DEF Arrive, Becomes, GoTo, GoOn, Moved
<1>5. /\ Good(r, gone, f, Moved(req[r], "parts"), slot[r], arch[r], tx[r])
      /\ Follows(req[r], Moved(req[r], "parts"))
  BY <1>1, <1>4, GoodArrival DEF At
<1> QED
  BY <1>2, <1>4, <1>5, LocalStep

(* One iteration of the parse loop.                                         *)
LEMMA ParseLineKeeps ==
    ASSUME IInv, NEW r \in Request, ParseLine(r)
    PROVE  IInv'
<1>1. TypeOK /\ Good(r, gone, form[r], req[r], slot[r], arch[r], tx[r])
  BY InvGood DEF IInv
<1>2. OwnOnly
  BY <1>1 DEF TypeOK, OwnOnly, stored, env, ParseLine
<1> DEFINE k == HasChunk(r)
           z == IF HasChunk(r) /\ ~closed[r] THEN "data" ELSE slot[r]
<1>3. Becomes(r, form[r], Parsed(req[r], k), z, arch[r], tx[r])
  BY <1>1, Itself DEF ParseLine, Becomes, GoOn, Emit, Parsed
<1>4. /\ k \in BOOLEAN /\ z \in {slot[r], "data"} /\ req[r].pc = "parse"
      /\ k <=> r \notin gone /\ req[r].next <= form[r][req[r].part].rows
      /\ k \/ r \in gone \/ form[r][req[r].part].end # "eof"
  BY DEF ParseLine, At, AtEof, HasChunk, File
<1> HIDE DEF k, z
<1>5. /\ Good(r, gone, form[r], Parsed(req[r], k), z, arch[r], tx[r])
      /\ Follows(req[r], Parsed(req[r], k))
  BY <1>1, <1>4, GoodParse
<1> QED
  BY <1>2, <1>3, <1>5, LocalStep

(* The archive takes what the pipe holds.                                   *)
LEMMA CompressKeeps ==
    ASSUME IInv, NEW r \in Request, Compress(r)
    PROVE  IInv'
<1>1. TypeOK /\ Good(r, gone, form[r], req[r], slot[r], arch[r], tx[r])
  BY InvGood DEF IInv
<1>2. OwnOnly
  BY <1>1 DEF TypeOK, OwnOnly, stored, env, Compress
<1>3. Becomes(r, form[r], req[r], "empty", arch[r], tx[r])
  BY <1>1, Itself DEF Becomes, Compress
<1>4. Good(r, gone, form[r], req[r], "empty", arch[r], tx[r]) /\ Follows(req[r], req[r])
  BY <1>1 DEF Good, ArchiveInv, PipeState, Follows
<1> QED
  BY <1>2, <1>3, <1>4, LocalStep

(* The archive gives up in the middle of the file.                          *)
LEMMA PutFailsKeeps ==
    ASSUME IInv, NEW r \in Request, PutFails(r)
    PROVE  IInv'
<1>1. TypeOK /\ Good(r, gone, form[r], req[r], slot[r], arch[r], tx[r])
  BY InvGood DEF IInv
<1>2. OwnOnly
  BY <1>1, IngestAssumption
     DEF TypeOK, OwnOnly, stored, env, PutFails, CloseRead, Fails, Fault
<1>3. Becomes(r, form[r], req[r], slot[r], "failed", tx[r])
  BY <1>1, Itself DEF Becomes, PutFails
<1>4. arch[r] = "open" /\ req[r].pc \in Reading
  BY <1>1 DEF PutFails, Good, ArchiveInv
<1>5. Good(r, gone, form[r], req[r], slot[r], "failed", tx[r])
         /\ Follows(req[r], req[r])
  BY <1>1, <1>4
     DEF Good, PlaceInv, ArchiveInv, ArchiveState, Follows, Reading, Storing, Loop,
         Ending
<1> QED
  BY <1>2, <1>3, <1>5, LocalStep

(* A client leaves.                                                         *)
LEMMA ClientGoesKeeps ==
    ASSUME IInv, NEW r \in Request, ClientGoes(r)
    PROVE  IInv'
<1>1. TypeOK /\ Good(r, gone, form[r], req[r], slot[r], arch[r], tx[r])
  BY InvGood DEF IInv
<1>2. OwnOnly
  BY <1>1 DEF TypeOK, OwnOnly, request, stored, env, ClientGoes
<1>3. Becomes(r, form[r], req[r], slot[r], arch[r], tx[r])
  BY <1>1, Itself DEF Becomes, ClientGoes, request
<1>4. Follows(req[r], req[r])
  BY DEF Follows
<1> QED
  BY <1>1, <1>2, <1>3, <1>4, LocalStep

----------------------------------------------------------------------------
(* The steps of a request that store something.                             *)

(* An archive that ends at io.EOF has the whole file, if the handler is on  *)
(* its way to the commit; its object is of a part that is not over.         *)
LEMMA PutEndsKeeps ==
    ASSUME IInv, NEW r \in Request, PutEnds(r)
    PROVE  IInv'
<1>1. TypeOK /\ Good(r, gone, form[r], req[r], slot[r], arch[r], tx[r])
  BY InvGood DEF IInv
<1>2. arch[r] = "open" /\ req[r].pc \in Reading /\ req[r].pc \in InFile
  BY <1>1 DEF PutEnds, Good, ArchiveInv, InFile
<1>3. Id(r) \in UploadId /\ ~Past(Id(r)) /\ Id(r)[1] = r
  BY <1>2, FileType DEF IInv, Id
<1>4. PICK a \in {"stored", "failed"} :
         /\ arch' = [arch EXCEPT ![r] = a]
         /\ a = "stored" => /\ slot[r] = "eof"
                            /\ objects' = [objects EXCEPT ![Id(r)] = Content(r)]
  BY DEF PutEnds
<1>5. /\ objects' \in [UploadId -> {"none", "part", "whole"}]
      /\ \A u \in UploadId : u # Id(r) => objects'[u] = objects[u]
  <2>1. objects \in [UploadId -> {"none", "part", "whole"}]
    BY <1>1 DEF TypeOK
  <2>2. Content(r) \in {"part", "whole"}
    BY DEF Content
  <2>3. \/ objects' = objects
        \/ \E c \in {"part", "whole"} : objects' = [objects EXCEPT ![Id(r)] = c]
    BY <2>2 DEF PutEnds
  <2> QED
    BY <2>1, <2>3
<1>6. ArchiveInv(r, req[r], slot[r], a, objects')
  <2>1. CASE a = "failed"
    BY <1>1, <1>2, <2>1 DEF Good, ArchiveInv, Reading, Storing, Loop, Ending
  <2>2. CASE a = "stored"
    <3>1. req[r].pc \in Ending \cup {"await"}
      BY <1>1, <1>2, <1>4, <2>2 DEF Good, ArchiveInv, Reading
    <3>2. req[r].pc \in Ending => objects'[<<r, req[r].part>>] = "whole"
      <4>1. req[r].pc \in Ending => File(r).end = "eof"
               /\ req[r].next = File(r).rows + 1
        BY <1>1 DEF Good, RowsInv, File
      <4>2. File(r).rows \in Nat
        BY <1>2, FileType DEF IInv
      <4>3. req[r].pc \in Ending => Content(r) = "whole"
        BY <4>1, <4>2 DEF Content
      <4> QED
        BY <1>1, <1>3, <1>4, <2>2, <4>3 DEF TypeOK, Id
    <3> QED
      BY <3>1, <3>2 DEF ArchiveInv, Reading, Storing, Loop, Ending
  <2> QED
    BY <2>1, <2>2
<1>7. PlaceInv(form[r], req[r], a)
  BY <1>1, <1>2 DEF Good, PlaceInv, Reading, Loop, Ending
<1>8. Becomes(r, form[r], req[r], slot[r], a, tx[r])
  BY <1>1, <1>4, Itself DEF Becomes, PutEnds
<1>9. /\ OnlyRequest(r) /\ RequestTypes' /\ form'[r] = form[r] /\ req'[r] = req[r]
      /\ ResultInv(r)' => \A x \in Request : RequestInv(x)'
  <2>1. \A u \in UploadId : u[1] # r => objects'[u] = objects[u]
    BY <1>3, <1>5
  <2>2. gone \subseteq gone' /\ del' = del /\ uploads \subseteq uploads'
           /\ a \in ArchiveState
    BY DEF PutEnds, stored, ArchiveState
  <2> QED
    BY <1>1, <1>6, <1>7, <1>8, <2>1, <2>2, RequestStep DEF Good
<1>10. Onward(r) /\ SameForm(r) /\ ResultInv(r)'
  <2>1. Follows(req[r], req'[r]) /\ SameForm(r) /\ uploads \subseteq uploads'
           /\ del' = del
    BY <1>9 DEF Follows, SameForm, PutEnds, stored
  <2> QED
    BY <1>9, <2>1, ResultKeeps
<1>11. \A u \in UploadId : Past(u) => objects'[u] = objects[u]
  BY <1>3, <1>5
<1>12. (\A d \in Deleter : DeleteInv(d)') /\ TrailInv'
  BY <1>9, <1>10, <1>11, DeletesKeep DEF PutEnds, stored
<1>13. UploadInv'
  BY <1>9, <1>10, <1>11, UploadsKeep DEF PutEnds, stored
<1>14. TypeOK'
  <2>1. closed' \in [Request -> BOOLEAN]
    BY <1>1 DEF TypeOK, PutEnds, CloseRead
  <2> QED
    BY <1>1, <1>5, <1>9, <2>1
       DEF TypeOK, PutEnds, stored, env, RequestTypes, RequestRecord, PartNo,
           Pendings, RowCount, Result, Status, TxRecord, PipeState, ArchiveState
<1> QED
  BY <1>9, <1>10, <1>12, <1>13, <1>14 DEF IInv

(* An analysis is launched for the result, sized by what was copied.        *)
LEMMA LaunchKeeps ==
    ASSUME IInv, NEW r \in Request, Launch(r)
    PROVE  IInv'
<1>1. TypeOK /\ Good(r, gone, form[r], req[r], slot[r], arch[r], tx[r]) /\ RequestInv(r)
  BY InvGood DEF IInv
<1>2. /\ req[r].pc = "launch" /\ req[r].result # NoUpload /\ req[r].result \in UploadId
      /\ req[r].copied \in 0 .. RowCap
  BY <1>1 DEF Launch, At, Good, PlaceInv, TypeOK
<1> DEFINE q == Replied(req[r], 201)
<1>3. Becomes(r, form[r], q, slot[r], arch[r], NoTx)
  BY <1>1, Itself DEF Launch, Becomes, Answer, GoOn, Replied
<1>4. /\ q \in RequestRecord /\ NoTx \in TxRecord
      /\ q.pc = "done" /\ q.part = req[r].part /\ q.status = 201
      /\ q.result = req[r].result /\ q.copied = req[r].copied
  <2>1. req[r] \in RequestRecord /\ "done" \in Steps /\ 201 \in Status
    BY <1>1 DEF Good, Steps, Status
  <2>2. NoTx \in TxRecord
    BY IngestAssumption DEF TxRecord, RowCount, NoTx
  <2> QED
    BY <2>1, <2>2 DEF RequestRecord, Replied
<1> HIDE DEF q
<1>5. /\ PlaceInv(form[r], q, arch[r]) /\ RowsInv(r, gone, form[r], q, NoTx)
            /\ TxInv(q, NoTx)
      /\ ArchiveInv(r, q, slot[r], arch[r], objects)
  BY <1>1, <1>2, <1>4
     DEF Good, PlaceInv, RowsInv, TxInv, ArchiveInv, InFile, Reading, Storing, Loop,
         Ending
<1>6. UNCHANGED <<form, slot, closed, arch, gone, del, uploads, entries, rollups, trail,
                  objects, reported, env>>
  BY DEF Launch
<1>7. /\ OnlyRequest(r) /\ RequestTypes' /\ form'[r] = form[r] /\ req'[r] = q
      /\ ResultInv(r)' => \A x \in Request : RequestInv(x)'
  BY <1>1, <1>3, <1>4, <1>5, <1>6, RequestStep DEF Good
<1>8. Onward(r) /\ SameForm(r) /\ ResultInv(r)'
  <2>1. Follows(req[r], req'[r]) /\ SameForm(r)
    BY <1>4, <1>6, <1>7, <1>2 DEF Follows, SameForm, Over
  <2> QED
    BY <1>6, <1>7, <2>1, ResultKeeps
<1>9. (\A d \in Deleter : DeleteInv(d)') /\ TrailInv'
  BY <1>6, <1>7, <1>8, DeletesKeep
<1>10. \A b \in analyses' : \/ b \in analyses
                            \/ /\ b = [upload |-> req[r].result, size |-> req[r].copied]
                               /\ req[r].result \in uploads
  BY DEF Launch, AnalysisSize
<1>11. UploadInv'
  <2>1. UploadIsWhole /\ NoRowsWithoutUpload /\ SizedByRows
           /\ \A u \in uploads : Past(u)
    BY DEF IInv, UploadInv
  <2>2. \A u \in uploads' : Past(u)' /\ FileOf(u)' = FileOf(u)
    BY <1>1, <1>6, <1>7, <1>8, <2>1, PastStays DEF TypeOK, FileOf
  <2>3. UploadIsWhole'
    BY <1>6, <2>1, <2>2 DEF UploadIsWhole
  <2>4. NoRowsWithoutUpload'
    BY <1>6, <1>10, <2>1 DEF NoRowsWithoutUpload
  <2>5. req[r].result \in uploads => req[r].copied = entries[req[r].result]
    BY <1>1, <1>2, <2>1 DEF RequestInv, ResultInv, UploadIsWhole
  <2>6. SizedByRows'
    BY <1>6, <1>10, <2>1, <2>5 DEF SizedByRows
  <2> QED
    BY <2>2, <2>3, <2>4, <2>6 DEF UploadInv
<1>12. TypeOK'
  <2>1. analyses' \subseteq [upload : UploadId, size : 0 .. RowCap]
    BY <1>1, <1>2, <1>10 DEF TypeOK
  <2>2. faults' \in 0 .. MaxFaults
    BY <1>1, IngestAssumption DEF TypeOK, Launch, Succeeds, Fails, Fault
  <2> QED
    BY ZenonT(30), <1>1, <1>6, <1>7, <2>1, <2>2
       DEF TypeOK, env, RequestTypes, RequestRecord, PartNo,
           Pendings, RowCount, Result, Status, TxRecord, PipeState, ArchiveState
<1> QED
  BY <1>7, <1>8, <1>9, <1>11, <1>12 DEF IInv

(* The rows, the upload row and the rollups of the part r is in become       *)
(* visible together, with an object that is whole.                           *)
LEMMA AppliedStep ==
    ASSUME IInv, NEW r \in Request, At(r, "commit"), Applied(r), NEW q,
           Becomes(r, form[r], q, slot[r], arch[r], NoTx),
           Good(r, gone, form[r], q, slot[r], arch[r], NoTx),
           q.part = req[r].part, q.pc \in Over,
           \/ q.result = req[r].result /\ q.copied = req[r].copied
           \/ q.result = Id(r) /\ q.copied = tx[r].rows,
           faults' \in 0 .. MaxFaults,
           UNCHANGED <<closed, gone, del, trail, objects, reported, env>>
    PROVE  IInv'
<1>1. TypeOK /\ Good(r, gone, form[r], req[r], slot[r], arch[r], tx[r])
  BY InvGood DEF IInv
<1>2. req[r].pc = "commit" /\ req[r].pc \in InFile
  BY DEF At, InFile, Storing
<1>3. Id(r) \in UploadId /\ ~Past(Id(r)) /\ Id(r)[1] = r /\ Id(r)[2] = req[r].part
  BY <1>2, FileType DEF IInv, Id
<1>4. /\ tx[r].upload /\ tx[r].rolled /\ tx[r].rows \in 0 .. RowCap
      /\ objects[Id(r)] = "whole"
  BY <1>1, <1>2
     DEF Good, TxInv, ArchiveInv, Storing, TxRecord, RowCount, Id
<1>5. FileOf(Id(r)).head = "known" /\ FileOf(Id(r)).end = "eof"
         /\ tx[r].rows = FileOf(Id(r)).rows
  <2>1. tx[r].rows + req[r].pending = File(r).rows /\ req[r].pending = 0
    BY <1>1, <1>2 DEF Good, RowsInv, Storing, File
  <2> QED
    BY <1>1, <1>2, <1>4, <2>1 DEF Good, RowsInv, Storing, File, FileOf, Id
<1>6. /\ uploads' = uploads \cup {Id(r)} /\ rollups' = rollups \cup {Id(r)}
      /\ analyses' = analyses
      /\ entries' = [entries EXCEPT ![Id(r)] = tx[r].rows]
  BY <1>4 DEF Applied
<1>7. /\ OnlyRequest(r) /\ RequestTypes' /\ form'[r] = form[r] /\ req'[r] = q
      /\ ResultInv(r)' => \A x \in Request : RequestInv(x)'
  BY <1>6, RequestStep DEF Good
<1>8. Onward(r) /\ SameForm(r)
  BY <1>7 DEF Onward, SameForm
<1>9. \A u \in UploadId : u = Id(r) => Past(u)' /\ FileOf(u)' = FileOf(u)
  BY <1>3, <1>7 DEF Past, FileOf
<1>10. ResultInv(r)'
  <2>1. CASE q.result = Id(r) /\ q.copied = tx[r].rows
    <3>1. /\ req'[r].result = Id(r) /\ req'[r].copied = tx[r].rows
      BY <1>7, <2>1
    <3>2. /\ req'[r].result[1] = r
          /\ Past(req[r].result)'
          /\ req'[r].copied = (FileOf(req[r].result).rows)'
          /\ req'[r].result \in uploads'
      BY <1>3, <1>5, <1>6, <1>7, <1>9, <3>1 DEF Past, FileOf
    <3> QED
      BY <3>2 DEF ResultInv
  <2>2. CASE q.result = req[r].result /\ q.copied = req[r].copied
    <3>1. Follows(req[r], req'[r])
      BY <1>7, <2>2 DEF Follows
    <3> QED
      BY <1>6, <1>7, <1>8, <3>1, ResultKeeps
  <2> QED
    BY <2>1, <2>2
<1>11. (\A d \in Deleter : DeleteInv(d)') /\ TrailInv'
  <2>1. \A u \in UploadId : Past(u) => u # Id(r)
    BY <1>3
  <2>2. \A u \in UploadId : Past(u) => entries'[u] = entries[u]
    BY <1>1, <1>6, <2>1 DEF TypeOK
  <2>3. \A u \in UploadId : Past(u) => (u \in uploads' <=> u \in uploads)
    BY <1>6, <2>1
  <2> QED
    BY <1>7, <1>8, <2>2, <2>3, DeletesKeep
<1>12. UploadInv'
  <2>1. UploadIsWhole /\ NoRowsWithoutUpload /\ SizedByRows
           /\ \A u \in uploads : Past(u)
    BY DEF IInv, UploadInv
  <2>2. \A u \in uploads : u \in UploadId /\ u # Id(r) /\ entries'[u] = entries[u]
    BY <1>1, <1>3, <1>6, <2>1 DEF TypeOK
  <2>3. \A u \in uploads : Past(u)' /\ FileOf(u)' = FileOf(u)
    <3> SUFFICES ASSUME NEW u \in uploads
                 PROVE  Past(u)' /\ FileOf(u)' = FileOf(u)
      OBVIOUS
    <3>1. u \in UploadId /\ u[1] \in Request
      BY <2>2 DEF UploadId
    <3>2. form'[u[1]] = form[u[1]]
      BY <1>7, <3>1 DEF OnlyRequest
    <3> QED
      BY <1>1, <1>7, <1>8, <2>1, <3>1, <3>2, PastStays DEF FileOf
  <2>4. entries'[Id(r)] = tx[r].rows
    BY <1>1, <1>3, <1>6 DEF TypeOK
  <2>5. UploadIsWhole'
    <3> SUFFICES ASSUME NEW u \in uploads'
                 PROVE  /\ FileOf(u)'.head = "known" /\ FileOf(u)'.end = "eof"
                        /\ entries'[u] = FileOf(u)'.rows
                        /\ u \in rollups' /\ objects'[u] = "whole"
      BY DEF UploadIsWhole
    <3>1. CASE u = Id(r)
      <4>1. u \in UploadId /\ FileOf(u)' = FileOf(u)
        BY <1>3, <1>9, <3>1
      <4> QED
        BY <1>4, <1>5, <1>6, <2>4, <3>1, <4>1
    <3>2. CASE u \in uploads
      BY <1>6, <2>1, <2>2, <2>3, <3>2 DEF UploadIsWhole
    <3> QED
      BY <1>6, <3>1, <3>2
  <2>6. NoRowsWithoutUpload'
    <3>1. \A u \in UploadId : u # Id(r) => entries'[u] = entries[u]
      BY <1>1, <1>6 DEF TypeOK
    <3> QED
      BY <1>6, <2>1, <3>1 DEF NoRowsWithoutUpload
  <2>7. SizedByRows'
    <3> SUFFICES ASSUME NEW b \in analyses
                 PROVE  b.size = entries'[b.upload]
      BY <1>6 DEF SizedByRows
    <3>1. b.upload \in uploads
      BY <1>1, <2>1 DEF NoRowsWithoutUpload, TypeOK
    <3>2. entries'[b.upload] = entries[b.upload]
      BY <2>2, <3>1
    <3> QED
      BY <2>1, <3>2 DEF SizedByRows
  <2> QED
    BY <1>3, <1>6, <1>9, <2>3, <2>5, <2>6, <2>7 DEF UploadInv
<1>13. TypeOK'
  <2>1. uploads' \subseteq UploadId /\ rollups' \subseteq UploadId
        /\ entries' \in [UploadId -> 0 .. RowCap]
    BY <1>1, <1>3, <1>4, <1>6 DEF TypeOK
  <2> QED
    BY ZenonT(30), <1>1, <1>6, <1>7, <2>1
       DEF TypeOK, env, RequestTypes, RequestRecord, PartNo,
           Pendings, RowCount, Result, Status, TxRecord, PipeState, ArchiveState
<1> QED
  BY <1>7, <1>10, <1>11, <1>12, <1>13 DEF IInv

(* A commit succeeds, or fails and was applied or not.                      *)
LEMMA CommitKeeps ==
    ASSUME IInv, NEW r \in Request, Commit(r)
    PROVE  IInv'
<1>1. TypeOK /\ Good(r, gone, form[r], req[r], slot[r], arch[r], tx[r])
  BY InvGood DEF IInv
<1>2. /\ At(r, "commit") /\ req[r].pc = "commit" /\ arch[r] # "open"
      /\ Id(r) \in UploadId /\ tx[r].rows \in RowCount
  <2>1. At(r, "commit") /\ req[r].pc = "commit" /\ req[r].pc \in InFile
    BY DEF Commit, At, InFile, Storing
  <2>2. Id(r) \in UploadId
    BY <2>1, FileType DEF IInv
  <2> QED
    BY <1>1, <2>1, <2>2 DEF Good, ArchiveInv, Storing, TxRecord
<1>3. UNCHANGED <<form, slot, closed, arch, gone, del, trail, objects, reported, env>>
  BY DEF Commit
<1>4. faults' \in 0 .. MaxFaults
  BY <1>1, IngestAssumption DEF TypeOK, Commit, Succeeds, Fails, Fault
<1>5. CASE Applied(r) /\ Ingested(r)
  <2> DEFINE q == [req[r] EXCEPT !.pc = "parts", !.result = Id(r),
     !.copied = tx[r].rows]
  <2>1. /\ q \in RequestRecord /\ NoTx \in TxRecord
        /\ q.pc = "parts" /\ q.part = req[r].part /\ q.status = req[r].status
        /\ q.result = Id(r) /\ q.copied = tx[r].rows
    <3>1. req[r] \in RequestRecord /\ "parts" \in Steps /\ Id(r) \in Result
      BY <1>1, <1>2 DEF Good, Steps, Result
    <3>2. NoTx \in TxRecord
      BY IngestAssumption DEF TxRecord, RowCount, NoTx
    <3> QED
      BY <1>2, <3>1, <3>2 DEF RequestRecord
  <2>2. Becomes(r, form[r], q, slot[r], arch[r], NoTx)
    BY <1>1, <1>3, <1>5, Itself DEF Becomes, Ingested, GoOn
  <2> HIDE DEF q
  <2>3. Good(r, gone, form[r], q, slot[r], arch[r], NoTx)
    <3>1. Id(r) # NoUpload
      BY <1>2, IngestAssumption
    <3> QED
      BY <1>1, <1>2, <2>1, <3>1
         DEF Good, PlaceInv, RowsInv, TxInv, ArchiveInv, InFile, Reading, Storing,
             Loop, Ending
  <2> QED
    BY <1>2, <1>3, <1>4, <1>5, <2>1, <2>2, <2>3, AppliedStep DEF Over
<1>6. CASE CommitFailed(r) /\ (Applied(r) \/ UNCHANGED stored)
  <2> DEFINE q == Replied(req[r], 500)
  <2>1. Becomes(r, form[r], q, slot[r], arch[r], NoTx)
    BY <1>1, <1>3, <1>6, Itself DEF Becomes, CommitFailed, Answer, GoOn, Replied
  <2>2. 500 \in Status \ {201} /\ req[r].pc # "idle"
    BY <1>2 DEF Status
  <2>3. Good(r, gone, form[r], q, slot[r], arch[r], NoTx) /\ Follows(req[r], q)
    BY <1>1, <1>2, <2>2, GoodAnswer
  <2>4. CASE UNCHANGED stored
    <3>1. OwnOnly
      BY <1>1, <1>3, <1>4, <2>4 DEF OwnOnly, TypeOK
    <3> QED
      BY <2>1, <2>3, <3>1, LocalStep
  <2>5. CASE Applied(r)
    <3>1. q.part = req[r].part /\ q.pc \in Over
      BY <1>1 DEF Replied, Good, RequestRecord, Over
    <3> HIDE DEF q
    <3> QED
      BY <1>2, <1>3, <1>4, <2>1, <2>3, <2>5, <3>1, AppliedStep DEF Follows
  <2> QED
    BY <1>6, <2>4, <2>5
<1> QED
  BY <1>5, <1>6 DEF Commit

----------------------------------------------------------------------------
(* The steps of a deletion.                                                 *)

DeleteSteps == {"idle", "rows", "object", "audit", "done", "dead"}
DeleteStatus == {0, 204, 403, 404, 500}
DeleteRecord == [pc : DeleteSteps, id : Result, status : DeleteStatus,
   archived : BOOLEAN]

(* The requests do not see one, but that it may take what they stored.      *)
LEMMA RequestsKeep ==
    ASSUME IInv, UNCHANGED <<request, gone>>,
           \A u \in UploadId : ~Past(u) => objects'[u] = objects[u],
           \A u \in uploads : u \in uploads' \/ \E d \in Deleter : del[d].id = u,
           \A d \in Deleter : del[d].id # NoUpload => del'[d].id = del[d].id,
           NEW r \in Request
    PROVE  RequestInv(r)'
<1>1. /\ TypeOK /\ RequestInv(r)
      /\ form' = form /\ req' = req /\ slot' = slot /\ arch' = arch /\ tx' = tx
      /\ gone' = gone
  BY DEF IInv, request
<1>2. PlaceInv(form[r], req[r], arch[r])' /\ TxInv(req[r], tx[r])'
  BY <1>1 DEF RequestInv, PlaceInv, TxInv
<1>3. RowsInv(r, gone, form[r], req[r], tx[r])'
  BY <1>1 DEF RequestInv, RowsInv
<1>4. ArchiveInv(r, req[r], slot[r], arch[r], objects)'
  <2>1. req[r].pc \in Ending \cup Storing => objects'[<<r, req[r].part>>] = objects[<<r,
           req[r].part>>]
    BY <1>1, FileType DEF Id, InFile, Reading
  <2> QED
    BY <1>1, <2>1 DEF RequestInv, ArchiveInv
<1>5. ResultInv(r)'
  <2> SUFFICES ASSUME req[r].result # NoUpload
               PROVE  ResultInv(r)'
    BY <1>1 DEF ResultInv
  <2>1. req[r].result \in uploads' \/ \E d \in Deleter : del'[d].id = req[r].result
    BY <1>1 DEF RequestInv, ResultInv
  <2> QED
    BY <1>1, <2>1 DEF RequestInv, ResultInv, Past, FileOf
<1> QED
  BY <1>2, <1>3, <1>4, <1>5 DEF RequestInv

(* A step of deletion d that leaves it as p, and takes the rows of its       *)
(* upload or none, and its object or none.                                  *)
TookAs(p) == p.pc \in {"object", "audit"} \/ p.status = 204

DeleteBecomes(d, p) ==
    /\ DeleteGoOn(d, p)
    /\ UNCHANGED <<request, gone, env>> /\ faults' \in 0 .. MaxFaults
    /\ \/ UNCHANGED stored
       \/ del[d].id \in uploads /\ Removed(del[d].id)
    /\ \/ UNCHANGED objects
       \/ Took(d) /\ objects' = [objects EXCEPT ![del[d].id] = "none"]
    /\ \/ UNCHANGED reported
       \/ Took(d) /\ reported' = reported \cup {del[d].id}
    /\ trail' \subseteq trail \cup
          {s \in [by : {d}, upload : {p.id}, archiveDeleted : {p.archived}] : p.status = 204}

DeleteGood(d, p) ==
    /\ p \in DeleteRecord /\ p.pc # "idle"
    /\ p.status # 0 => p.pc = "done"
    /\ p.pc \in {"rows", "object", "audit"} \/ p.status = 204 => p.id # NoUpload
    /\ p.id # NoUpload => Past(p.id)
    /\ del[d].id # NoUpload => p.id = del[d].id
    /\ TookAs(p) => Took(d) \/ (del[d].id \in uploads /\ Removed(del[d].id))
    /\ TookAs(p) => del[d].id # NoUpload
    /\ p.pc = "audit" \/ p.status = 204 => objects'[p.id] = "none" \/ p.id \in reported'

(* The rows of an upload that is deleted go together with it.               *)
LEMMA RemovedKeeps ==
    ASSUME TypeOK, UploadInv, NEW u \in uploads, Removed(u), UNCHANGED request,
           \A w \in uploads : w # u => objects'[w] = objects[w]
    PROVE  UploadInv'
<1>1. /\ u \in UploadId /\ uploads' = uploads \ {u} /\ rollups' = rollups \ {u}
      /\ analyses' = {a \in analyses : a.upload # u}
      /\ \A w \in UploadId : entries'[w] = IF w = u THEN 0 ELSE entries[w]
  BY DEF TypeOK, Removed, Cascade
<1>2. \A w \in uploads' : w \in uploads /\ w \in UploadId /\ w # u /\ Past(w)'
  BY <1>1 DEF UploadInv, TypeOK, Past, request
<1>3. UploadIsWhole'
  <2> SUFFICES ASSUME NEW w \in uploads'
               PROVE  /\ FileOf(w)'.head = "known" /\ FileOf(w)'.end = "eof"
                      /\ entries'[w] = FileOf(w)'.rows
                      /\ w \in rollups' /\ objects'[w] = "whole"
    BY DEF UploadIsWhole
  <2>1. FileOf(w)' = FileOf(w)
    BY DEF FileOf, request
  <2> QED
    BY <1>1, <1>2, <2>1 DEF UploadInv, UploadIsWhole
<1>4. NoRowsWithoutUpload'
  BY <1>1 DEF UploadInv, NoRowsWithoutUpload
<1>5. SizedByRows'
  <2> SUFFICES ASSUME NEW b \in analyses'
               PROVE  b.size = entries'[b.upload]
    BY DEF SizedByRows
  <2>1. b \in analyses /\ b.upload # u /\ b.upload \in UploadId
    BY <1>1 DEF TypeOK
  <2> QED
    BY <1>1, <2>1 DEF UploadInv, SizedByRows
<1> QED
  BY <1>2, <1>3, <1>4, <1>5 DEF UploadInv

LEMMA DeleteStep ==
    ASSUME IInv, NEW d \in Deleter, NEW p, DeleteBecomes(d, p), DeleteGood(d, p),
           del[d].pc # "done"
    PROVE  IInv'
<1> DEFINE v == del[d].id
<1>1. /\ TypeOK /\ UploadInv /\ TrailInv /\ DeleteInv(d)
      /\ del' = [del EXCEPT ![d] = p] /\ p \in DeleteRecord
      /\ form' = form /\ req' = req /\ slot' = slot /\ closed' = closed
      /\ arch' = arch /\ tx' = tx /\ gone' = gone
      /\ del \in [Deleter -> DeleteRecord]
  BY DEF IInv, DeleteBecomes, DeleteGood, DeleteGoOn, request, TypeOK, DeleteRecord,
         DeleteSteps, DeleteStatus, Result
<1>2. del'[d] = p /\ \A e \in Deleter : e # d => del'[e] = del[e]
  BY <1>1
<1>3. v \in Result /\ p.id \in Result /\ (v # NoUpload => p.id = v)
  BY <1>1 DEF DeleteRecord, DeleteGood
<1>4. Took(d) => v # NoUpload /\ v \in UploadId /\ Past(v) /\ v \notin uploads
         /\ entries[v] = 0
  BY <1>1, <1>3 DEF DeleteInv, Took, Result, DelAt
<1>5. /\ \A u \in UploadId : objects'[u] = objects[u]
            \/ (u = v /\ Took(d) /\ objects'[u] = "none")
      /\ objects' \in [UploadId -> {"none", "part", "whole"}]
  <2>1. objects \in [UploadId -> {"none", "part", "whole"}]
    BY <1>1 DEF TypeOK
  <2>2. \/ objects' = objects
        \/ Took(d) /\ objects' = [objects EXCEPT ![v] = "none"]
    BY DEF DeleteBecomes
  <2> QED
    BY <1>4, <2>1, <2>2
<1>6. reported' = reported \/ (Took(d) /\ reported' = reported \cup {v})
  BY DEF DeleteBecomes
<1>7. \/ UNCHANGED stored
      \/ v \in uploads /\ Removed(v)
  BY DEF DeleteBecomes
<1>8. /\ uploads' \subseteq uploads /\ uploads \ {v} \subseteq uploads'
      /\ \A u \in UploadId : entries'[u] = entries[u] \/ entries'[u] = 0
      /\ \A u \in UploadId : u # v => entries'[u] = entries[u]
  BY <1>1, <1>7 DEF stored, Removed, Cascade, TypeOK
<1>9. \A r \in Request : RequestInv(r)'
  <2>1. \A u \in UploadId : ~Past(u) => objects'[u] = objects[u]
    BY <1>4, <1>5
  <2>2. \A u \in uploads : u \in uploads' \/ \E e \in Deleter : del[e].id = u
    BY <1>8
  <2>3. \A e \in Deleter : del[e].id # NoUpload => del'[e].id = del[e].id
    BY <1>2, <1>3
  <2> QED
    BY <2>1, <2>2, <2>3, RequestsKeep DEF DeleteBecomes
<1>10. UploadInv'
  <2>1. \A u \in uploads : objects'[u] = objects[u]
    BY <1>1, <1>4, <1>5 DEF TypeOK
  <2>2. CASE UNCHANGED stored
    <3>1. uploads' = uploads /\ rollups' = rollups /\ entries' = entries
             /\ analyses' = analyses
      BY <2>2 DEF stored
    <3>2. \A u \in uploads : Past(u)' /\ FileOf(u)' = FileOf(u)
      BY <1>1 DEF UploadInv, Past, FileOf
    <3>3. UploadIsWhole'
      BY <1>1, <2>1, <3>1, <3>2 DEF UploadInv, UploadIsWhole
    <3>4. NoRowsWithoutUpload'
      BY <1>1, <3>1 DEF UploadInv, NoRowsWithoutUpload
    <3>5. SizedByRows'
      BY <1>1, <3>1 DEF UploadInv, SizedByRows
    <3> QED
      BY <3>1, <3>2, <3>3, <3>4, <3>5 DEF UploadInv
  <2>3. CASE v \in uploads /\ Removed(v)
    BY <1>1, <2>1, <2>3, RemovedKeeps DEF DeleteBecomes
  <2> QED
    BY <1>7, <2>2, <2>3
<1>11. \A e \in Deleter : e # d => (Took(e)' <=> Took(e))
  BY <1>2 DEF Took
<1>12. Took(d)' <=> TookAs(p)
  BY <1>2 DEF Took, TookAs
<1>13. TookAs(p) => v # NoUpload /\ p.id = v
          /\ (Took(d) \/ (v \in uploads /\ Removed(v)))
  BY <1>3 DEF DeleteGood
<1>14. ASSUME TookAs(p), NEW e \in Deleter, e # d, Took(e)
       PROVE  del[e].id # v
  <2>1. DeleteInv(e)
    BY DEF IInv
  <2>2. CASE Took(d)
    BY <1>1, <1>14, <2>2 DEF DeleteInv
  <2>3. CASE v \in uploads
    BY <1>14, <2>1, <2>3 DEF DeleteInv
  <2> QED
    BY <1>13, <1>14, <2>2, <2>3
<1>15. DeleteInv(d)'
  <2>1. /\ p.pc # "idle" /\ (p.status # 0 => p.pc = "done")
        /\ p.pc \in {"rows", "object", "audit"} \/ p.status = 204 => p.id # NoUpload
        /\ (p.id # NoUpload => Past(p.id)')
        /\ p.pc = "audit" \/ p.status = 204 => objects'[p.id] = "none"
              \/ p.id \in reported'
    BY <1>1 DEF DeleteGood, Past
  <2>2. TookAs(p) => p.id \notin uploads' /\ entries'[p.id] = 0
    <3> SUFFICES ASSUME TookAs(p)
                 PROVE  p.id \notin uploads' /\ entries'[p.id] = 0
      OBVIOUS
    <3>1. CASE Took(d)
      BY <1>4, <1>8, <1>13, <3>1
    <3>2. CASE v \in uploads /\ Removed(v)
      BY <1>1, <1>13, <3>2 DEF Removed, Cascade, TypeOK
    <3> QED
      BY <1>13, <3>1, <3>2
  <2>3. TookAs(p) => \A e \in Deleter : Took(e)' /\ del'[e].id = p.id => e = d
    BY <1>2, <1>11, <1>13, <1>14
  <2> QED
    BY <1>2, <1>12, <2>1, <2>2, <2>3 DEF DeleteInv, DelAt
<1>16. ASSUME NEW e \in Deleter, e # d
       PROVE  DeleteInv(e)'
  <2>1. DeleteInv(e) /\ del'[e] = del[e] /\ (Took(e)' <=> Took(e))
        /\ del[e].id \in Result
    BY <1>1, <1>2, <1>11, <1>16 DEF IInv, DeleteRecord
  <2>2. Took(e) => del[e].id \in UploadId /\ del[e].id # NoUpload
    BY <2>1 DEF DeleteInv, Took, DelAt, Result
  <2>3. Took(e) => del[e].id \notin uploads' /\ entries'[del[e].id] = 0
    BY <1>8, <2>1, <2>2 DEF DeleteInv
  <2>4. Took(e) => \A x \in Deleter : Took(x)' /\ del'[x].id = del[e].id => x = e
    <3> SUFFICES ASSUME Took(e), NEW x \in Deleter, Took(x)', del'[x].id = del[e].id
                 PROVE  x = e
      OBVIOUS
    <3>1. CASE x = d
      BY <1>2, <1>12, <1>13, <1>14, <1>16, <3>1
    <3>2. CASE x # d
      BY <1>2, <1>11, <2>1, <3>2 DEF DeleteInv
    <3> QED
      BY <3>1, <3>2
  <2>5. DelAt(e, "audit") \/ del[e].status = 204 =>
           objects'[del[e].id] = "none" \/ del[e].id \in reported'
    <3>1. DelAt(e, "audit") \/ del[e].status = 204 => Took(e)
      BY DEF Took, DelAt
    <3> QED
      BY <1>5, <2>1, <2>2, <3>1 DEF DeleteInv, DeleteBecomes
  <2>6. del[e].id # NoUpload => Past(del[e].id)'
    BY <1>1, <2>1 DEF DeleteInv, Past
  <2> QED
    BY <2>1, <2>3, <2>4, <2>5, <2>6 DEF DeleteInv, DelAt
<1>17. TrailInv'
  <2> SUFFICES ASSUME NEW s \in trail'
               PROVE  /\ del'[s.by].status = 204
                      /\ s.upload = del'[s.by].id
                            /\ s.archiveDeleted = del'[s.by].archived
    BY DEF TrailInv
  <2>1. CASE s \in trail
    <3>1. s.by \in Deleter /\ del[s.by].status = 204
      BY <1>1, <2>1 DEF TypeOK, TrailInv
    <3>2. s.by # d
      BY <1>1, <3>1 DEF DeleteInv, DelAt
    <3> QED
      BY <1>1, <1>2, <2>1, <3>1, <3>2 DEF TrailInv
  <2>2. CASE s \notin trail
    BY <1>2, <2>2 DEF DeleteBecomes
  <2> QED
    BY <2>1, <2>2
<1>18. TypeOK'
  <2>1. /\ uploads' \subseteq UploadId /\ rollups' \subseteq UploadId
        /\ entries' \in [UploadId -> 0 .. RowCap]
        /\ analyses' \subseteq [upload : UploadId, size : 0 .. RowCap]
    <3>1. /\ uploads \subseteq UploadId /\ rollups \subseteq UploadId
          /\ entries \in [UploadId -> 0 .. RowCap] /\ 0 \in 0 .. RowCap
          /\ analyses \subseteq [upload : UploadId, size : 0 .. RowCap]
      BY <1>1, IngestAssumption DEF TypeOK
    <3>2. CASE UNCHANGED stored
      BY <3>1, <3>2 DEF stored
    <3>3. CASE Removed(v)
      <4>1. analyses' \subseteq analyses
        BY <3>3 DEF Removed, Cascade
      <4> QED
        BY <3>1, <3>3, <4>1 DEF Removed, Cascade
    <3> QED
      BY <1>7, <3>2, <3>3
  <2>2. reported' \subseteq UploadId
    BY <1>1, <1>4, <1>6 DEF TypeOK
  <2>3. trail' \subseteq [by : Deleter, upload : UploadId, archiveDeleted : BOOLEAN]
    <3>1. p.status = 204 => p.id \in UploadId
      BY <1>3, <1>13 DEF TookAs, Result
    <3>2. p.archived \in BOOLEAN
      BY <1>1 DEF DeleteRecord
    <3> QED
      BY <1>1, <3>1, <3>2 DEF TypeOK, DeleteBecomes
  <2>4. del' \in [Deleter -> DeleteRecord]
    BY <1>1
  <2> QED
    BY SMTT(30), <1>1, <1>5, <2>1, <2>2, <2>3, <2>4
       DEF TypeOK, DeleteBecomes, env, DeleteRecord, DeleteSteps, DeleteStatus, Result
<1> QED
  BY <1>9, <1>10, <1>15, <1>16, <1>17, <1>18 DEF IInv

ClosedAs(p, n) == [p EXCEPT !.pc = "done", !.status = n]

LEMMA AnsweredDelete ==
    ASSUME NEW d \in Deleter, del[d] \in DeleteRecord, NEW n \in {204, 403, 404, 500}
    PROVE  /\ ClosedAs(del[d], n) \in DeleteRecord
           /\ ClosedAs(del[d], n).pc = "done" /\ ClosedAs(del[d], n).status = n
           /\ ClosedAs(del[d], n).id = del[d].id
           /\ ClosedAs(del[d], n).archived = del[d].archived
           /\ AnswerDelete(d, n) <=> DeleteGoOn(d, ClosedAs(del[d], n))
<1>1. "done" \in DeleteSteps /\ n \in DeleteStatus
  BY DEF DeleteSteps, DeleteStatus
<1>2. AnswerDelete(d, n) <=> DeleteGoOn(d, ClosedAs(del[d], n))
  BY DEF AnswerDelete, ClosedAs
<1> QED
  BY <1>1, <1>2 DEF DeleteRecord, ClosedAs

LEMMA LookUpKeeps ==
    ASSUME IInv, NEW d \in Deleter, LookUp(d)
    PROVE  IInv'
<1>1. /\ TypeOK /\ UploadInv /\ del[d] \in DeleteRecord
      /\ del[d].pc = "idle" /\ del[d].id = NoUpload /\ del[d].status = 0
  <2>1. TypeOK /\ DeleteInv(d) /\ UploadInv
    BY DEF IInv
  <2>2. DelAt(d, "idle")
    BY DEF LookUp
  <2>3. del[d] = NewDelete
    BY <2>1, <2>2 DEF DeleteInv
  <2> QED
    BY <2>1, <2>3
       DEF NewDelete, TypeOK, DeleteRecord, DeleteSteps, DeleteStatus, Result
<1>2. UNCHANGED <<request, gone, stored, trail, objects, reported, env>>
  BY DEF LookUp
<1>3. faults' \in 0 .. MaxFaults
  BY <1>1, IngestAssumption DEF TypeOK, LookUp, Fault
<1>4. \E p : DeleteGoOn(d, p) /\ DeleteGood(d, p)
  <2>1. PICK u \in UploadId :
           \/ u \in uploads /\ DeleteGoOn(d, [del[d] EXCEPT !.pc = "rows", !.id = u])
           \/ \E n \in {403, 404} : AnswerDelete(d, n)
    BY ZenonT(30) DEF LookUp
  <2>2. u # NoUpload
    BY IngestAssumption
  <2>3. CASE u \in uploads /\ DeleteGoOn(d, [del[d] EXCEPT !.pc = "rows", !.id = u])
    <3> DEFINE p == [del[d] EXCEPT !.pc = "rows", !.id = u]
    <3>1. p \in DeleteRecord /\ p.pc = "rows" /\ p.id = u /\ p.status = 0
      <4>1. "rows" \in DeleteSteps /\ u \in Result
        BY DEF DeleteSteps, Result
      <4> QED
        BY <1>1, <4>1 DEF DeleteRecord
    <3>2. Past(u)
      BY <1>1, <2>3 DEF UploadInv
    <3> HIDE DEF p
    <3>3. DeleteGood(d, p)
      BY <1>1, <2>2, <3>1, <3>2 DEF DeleteGood, TookAs
    <3> QED
      BY <2>3, <3>3 DEF p
  <2>4. ASSUME NEW n \in {403, 404}, AnswerDelete(d, n)
        PROVE  \E p : DeleteGoOn(d, p) /\ DeleteGood(d, p)
    <3> DEFINE p == ClosedAs(del[d], n)
    <3>1. p \in DeleteRecord /\ p.pc = "done" /\ p.id = NoUpload /\ p.status = n
      BY <1>1, AnsweredDelete
    <3> HIDE DEF p
    <3>2. DeleteGood(d, p)
      BY <1>1, <3>1 DEF DeleteGood, TookAs
    <3> QED
      BY <1>1, <2>4, <3>2, AnsweredDelete DEF p
  <2> QED
    BY <2>1, <2>3, <2>4
<1>5. PICK p : DeleteGoOn(d, p) /\ DeleteGood(d, p)
  BY <1>4
<1>6. DeleteBecomes(d, p)
  BY <1>2, <1>3, <1>5 DEF DeleteBecomes
<1> QED
  BY <1>1, <1>5, <1>6, DeleteStep

LEMMA DeleteRowsKeeps ==
    ASSUME IInv, NEW d \in Deleter, DeleteRows(d)
    PROVE  IInv'
<1> DEFINE v == del[d].id
<1>1. /\ TypeOK /\ DeleteInv(d) /\ del[d].pc = "rows" /\ del[d].status = 0
      /\ v # NoUpload /\ Past(v) /\ del[d] \in DeleteRecord
  BY DEF IInv, DeleteRows, DelAt, DeleteInv, TypeOK, DeleteRecord, DeleteSteps,
         DeleteStatus, Result
<1>2. UNCHANGED <<request, gone, trail, objects, reported, env>>
  BY DEF DeleteRows
<1>3. faults' \in 0 .. MaxFaults
  BY <1>1, IngestAssumption DEF TypeOK, DeleteRows, Fault
<1>4. UNCHANGED stored \/ (v \in uploads /\ Removed(v))
  BY DEF DeleteRows, NothingMatched
<1>5. CASE v \in uploads /\ Removed(v) /\ DeleteGoOn(d, [del[d] EXCEPT !.pc = "object"])
  <2> DEFINE p == [del[d] EXCEPT !.pc = "object"]
  <2>1. /\ p \in DeleteRecord /\ p.pc = "object" /\ p.id = v /\ p.status = 0
    BY <1>1 DEF DeleteRecord, DeleteSteps
  <2> HIDE DEF p
  <2>2. DeleteGood(d, p)
    BY <1>1, <1>5, <2>1 DEF DeleteGood, TookAs
  <2>3. DeleteBecomes(d, p)
    BY <1>2, <1>3, <1>4, <1>5 DEF DeleteBecomes, p
  <2> QED
    BY <1>1, <2>2, <2>3, DeleteStep
<1>6. ASSUME NEW n \in {404, 500}, AnswerDelete(d, n)
      PROVE  IInv'
  <2> DEFINE p == ClosedAs(del[d], n)
  <2>1. p \in DeleteRecord /\ p.pc = "done" /\ p.id = v /\ p.status = n
    BY <1>1, AnsweredDelete
  <2> HIDE DEF p
  <2>2. DeleteGood(d, p)
    BY <1>1, <2>1 DEF DeleteGood, TookAs
  <2>3. DeleteBecomes(d, p)
    <3>1. DeleteGoOn(d, p)
      BY <1>1, <1>6, AnsweredDelete DEF p
    <3> QED
      BY <1>2, <1>3, <1>4, <3>1 DEF DeleteBecomes
  <2> QED
    BY <1>1, <2>2, <2>3, DeleteStep
<1> QED
  BY <1>5, <1>6 DEF DeleteRows, NothingMatched

LEMMA DeleteObjectKeeps ==
    ASSUME IInv, NEW d \in Deleter, DeleteObject(d)
    PROVE  IInv'
<1> DEFINE v == del[d].id
<1>1. /\ TypeOK /\ DeleteInv(d) /\ del[d].pc = "object" /\ del[d].status = 0 /\ Took(d)
      /\ v # NoUpload /\ v \in UploadId /\ Past(v) /\ del[d] \in DeleteRecord
  BY DEF IInv, DeleteObject, DelAt, DeleteInv, TypeOK, DeleteRecord, DeleteSteps,
         DeleteStatus, Result, Took
<1>2. UNCHANGED <<request, gone, stored, trail, env>>
  BY DEF DeleteObject
<1>3. faults' \in 0 .. MaxFaults
  BY <1>1, IngestAssumption DEF TypeOK, DeleteObject, Fault
<1>4. \/ objects' = [objects EXCEPT ![v] = "none"] /\ UNCHANGED reported
      \/ UNCHANGED objects /\ reported' = reported \cup {v}
  BY DEF DeleteObject, ReportOrphan
<1>5. objects'[v] = "none" \/ v \in reported'
  BY <1>1, <1>4 DEF TypeOK
<1>6. \E b \in BOOLEAN : DeleteGoOn(d, [del[d] EXCEPT !.pc = "audit", !.archived = b])
  <2>1. [del[d] EXCEPT !.pc = "audit"] =
           [del[d] EXCEPT !.pc = "audit", !.archived = del[d].archived]
        /\ del[d].archived \in BOOLEAN
    BY <1>1 DEF DeleteRecord
  <2> QED
    BY <2>1 DEF DeleteObject
<1>7. PICK b \in BOOLEAN : DeleteGoOn(d, [del[d] EXCEPT !.pc = "audit", !.archived = b])
  BY <1>6
<1> DEFINE p == [del[d] EXCEPT !.pc = "audit", !.archived = b]
<1>8. p \in DeleteRecord /\ p.pc = "audit" /\ p.id = v /\ p.status = 0
  BY <1>1 DEF DeleteRecord, DeleteSteps
<1> HIDE DEF p
<1>9. DeleteGood(d, p)
  BY <1>1, <1>5, <1>8 DEF DeleteGood, TookAs
<1>10. DeleteBecomes(d, p)
  BY <1>1, <1>2, <1>3, <1>4, <1>7 DEF DeleteBecomes, p
<1> QED
  BY <1>1, <1>9, <1>10, DeleteStep

LEMMA AuditDeleteKeeps ==
    ASSUME IInv, NEW d \in Deleter, AuditDelete(d)
    PROVE  IInv'
<1> DEFINE v == del[d].id
           p == ClosedAs(del[d], 204)
<1>1. /\ TypeOK /\ DeleteInv(d) /\ del[d].pc = "audit" /\ Took(d) /\ v # NoUpload
            /\ Past(v)
      /\ objects[v] = "none" \/ v \in reported
      /\ del[d] \in DeleteRecord
  BY DEF IInv, AuditDelete, DelAt, DeleteInv, TypeOK, DeleteRecord, DeleteSteps,
         DeleteStatus, Result, Took
<1>2. UNCHANGED <<request, gone, stored, objects, reported, env>> /\ DeleteGoOn(d, p)
  BY <1>1, AnsweredDelete DEF AuditDelete
<1>3. faults' \in 0 .. MaxFaults
  BY <1>1, IngestAssumption DEF TypeOK, AuditDelete, Fault
<1>4. trail' \subseteq trail \cup {[by |-> d, upload |-> v, archiveDeleted |-> del[d].archived]}
  BY DEF AuditDelete
<1>5. /\ p \in DeleteRecord /\ p.pc = "done" /\ p.id = v /\ p.status = 204
      /\ p.archived = del[d].archived
  BY <1>1, AnsweredDelete
<1> HIDE DEF p
<1>6. DeleteGood(d, p)
  BY <1>1, <1>2, <1>5 DEF DeleteGood, TookAs
<1>7. DeleteBecomes(d, p)
  BY <1>2, <1>3, <1>4, <1>5 DEF DeleteBecomes
<1> QED
  BY <1>1, <1>6, <1>7, DeleteStep

----------------------------------------------------------------------------
(* The process dies: what is under way ends, and nothing else changes.      *)

Dead(q) == Moved(q, "dead")

LEMMA DeadRequest ==
    ASSUME NEW r, NEW g, NEW f, NEW q, NEW s, NEW a, NEW t,
              NEW b \in ArchiveState \ {"open"},
           Good(r, g, f, q, s, a, t), q.pc # "idle"
    PROVE  Good(r, g, f, Dead(q), s, b, NoTx)
<1>1. q \in RequestRecord /\ NoTx \in TxRecord /\ "dead" \in Steps
  BY IngestAssumption DEF Good, TxRecord, RowCount, NoTx, Steps
<1>2. /\ Dead(q) \in RequestRecord
      /\ Dead(q).pc = "dead" /\ Dead(q).part = q.part /\ Dead(q).status = q.status
      /\ Dead(q).result = q.result
  BY <1>1 DEF RequestRecord, Dead, Moved
<1>3. PlaceInv(f, Dead(q), b) /\ TxInv(Dead(q), NoTx) /\ RowsInv(r, g, f, Dead(q), NoTx)
  BY <1>2 DEF Good, PlaceInv, TxInv, RowsInv, InFile, Reading, Storing, Loop, Ending
<1>4. ArchiveInv(r, Dead(q), s, b, objects)
  BY <1>2 DEF ArchiveInv, Storing, Loop, Ending
<1> QED
  BY <1>1, <1>2, <1>3, <1>4 DEF Good

LEMMA CrashKeeps ==
    ASSUME IInv, Crash
    PROVE  IInv'
<1>1. TypeOK /\ RequestTypes /\ UploadInv /\ TrailInv
  BY RequestTyped DEF IInv
<1>2. /\ form' = form /\ slot' = slot /\ closed' = closed /\ gone' = gone
            /\ trail' = trail
      /\ uploads' = uploads /\ entries' = entries /\ rollups' = rollups
      /\ analyses' = analyses /\ objects' = objects /\ reported' = reported
      /\ backend' = backend /\ faults' = faults /\ crashes' \in 0 .. MaxCrashes
  BY <1>1, IngestAssumption DEF Crash, stored, TypeOK
<1>3. ASSUME NEW r \in Request
      PROVE  /\ req'[r].part = req[r].part /\ req'[r].result = req[r].result
             /\ req'[r].copied = req[r].copied
             /\ req[r].pc \in Over => req'[r].pc \in Over
             /\ Good(r, gone, form[r], req'[r], slot[r], arch'[r], tx'[r])
  <2>1. /\ Good(r, gone, form[r], req[r], slot[r], arch[r], tx[r])
        /\ tx'[r] = NoTx
        /\ arch'[r] = IF arch[r] = "open" THEN "failed" ELSE arch[r]
        /\ req'[r] = IF At(r, "idle") \/ Ended(r) THEN req[r] ELSE Dead(req[r])
    BY InvGood DEF Crash, Dead, Moved
  <2>2. CASE At(r, "idle") \/ Ended(r)
    <3>1. req[r].pc \in {"idle", "done", "dead"} /\ req'[r] = req[r]
      BY <2>1, <2>2 DEF At, Ended
    <3>2. arch[r] # "open" /\ tx[r] = NoTx
      BY <2>1, <3>1 DEF Good, ArchiveInv, TxInv, Reading, Storing, Loop, Ending
    <3> QED
      BY <2>1, <3>1, <3>2
  <2>3. CASE ~(At(r, "idle") \/ Ended(r))
    <3>1. req'[r] = Dead(req[r]) /\ req[r].pc # "idle"
      BY <2>1, <2>3 DEF At
    <3>2. arch'[r] \in ArchiveState \ {"open"}
      BY <2>1 DEF Good, ArchiveState
    <3>3. Good(r, gone, form[r], Dead(req[r]), slot[r], arch'[r], NoTx)
      BY <2>1, <3>1, <3>2, DeadRequest
    <3>4. /\ Dead(req[r]).part = req[r].part /\ Dead(req[r]).result = req[r].result
          /\ Dead(req[r]).copied = req[r].copied /\ Dead(req[r]).pc = "dead"
      BY <2>1 DEF Good, RequestRecord, Dead, Moved
    <3> QED
      BY <2>1, <3>1, <3>3, <3>4 DEF Over
  <2> QED
    BY <2>2, <2>3
<1>4. \A u \in UploadId : (Past(u) => Past(u)') /\ FileOf(u)' = FileOf(u)
  BY <1>2, <1>3 DEF Past, FileOf, UploadId
<1>5. ASSUME NEW d \in Deleter
      PROVE  /\ del'[d] \in DeleteRecord
             /\ del'[d].id = del[d].id /\ del'[d].status = del[d].status
             /\ del'[d].archived = del[d].archived
             /\ del'[d].pc \in {del[d].pc, "dead"}
             /\ del[d].pc \in {"idle", "done"} => del'[d] = del[d]
  <2>1. del[d] \in DeleteRecord /\ "dead" \in DeleteSteps
    BY <1>1 DEF TypeOK, DeleteRecord, DeleteSteps, DeleteStatus, Result
  <2>2. del'[d] = IF del[d].pc \in {"idle", "done"} THEN del[d]
                  ELSE [del[d] EXCEPT !.pc = "dead"]
    BY DEF Crash
  <2> QED
    BY <2>1, <2>2 DEF DeleteRecord
<1>6. \A r \in Request : RequestInv(r)'
  <2> SUFFICES ASSUME NEW r \in Request
               PROVE  RequestInv(r)'
    OBVIOUS
  <2>1. PlaceInv(form[r], req[r], arch[r])' /\ TxInv(req[r], tx[r])'
    BY <1>2, <1>3 DEF Good, PlaceInv, TxInv
  <2>2. RowsInv(r, gone, form[r], req[r], tx[r])'
    BY <1>2, <1>3 DEF Good, RowsInv
  <2>3. ArchiveInv(r, req[r], slot[r], arch[r], objects)'
    BY <1>2, <1>3 DEF Good, ArchiveInv
  <2>4. ResultInv(r)'
    <3>1. req[r].result \in Result /\ ResultInv(r)
      BY <1>1 DEF RequestTypes, RequestRecord, IInv, RequestInv
    <3>2. CASE req[r].result = NoUpload
      BY <1>3, <3>2 DEF ResultInv
    <3>3. CASE req[r].result # NoUpload
      <4>1. req[r].result \in UploadId
        BY <3>1, <3>3 DEF Result
      <4>2. Past(req[r].result)' /\ req'[r].result = req[r].result
            /\ req'[r].copied = req[r].copied
        BY <1>2, <1>3, <1>4, <3>1, <3>3, <4>1 DEF ResultInv, Past
      <4> QED
        BY <1>2, <1>3, <1>5, <3>1, <3>3, <4>1, <4>2 DEF ResultInv, FileOf, Past
    <3> QED
      BY <3>2, <3>3
  <2> QED
    BY <2>1, <2>2, <2>3, <2>4 DEF RequestInv
<1>7. \A d \in Deleter : DeleteInv(d)'
  <2> SUFFICES ASSUME NEW d \in Deleter
               PROVE  DeleteInv(d)'
    OBVIOUS
  <2>1. DeleteInv(d) /\ del[d].id \in Result
    <3>1. DeleteInv(d) /\ TypeOK
      BY DEF IInv
    <3> QED
      BY <3>1 DEF TypeOK, Result
  <2>2. \A e \in Deleter : Took(e)' => Took(e)
    BY <1>5 DEF Took
  <2>3. del[d].id # NoUpload => Past(del[d].id)'
    <3> SUFFICES ASSUME NEW u \in UploadId, u = del[d].id
                 PROVE  u = del'[d].id /\ Past(u)'
      BY <2>1 DEF Result, Past
    <3>1. Past(u)
      BY <2>1, IngestAssumption DEF DeleteInv
    <3> QED
      BY <1>4, <1>5, <3>1
  <2>4. Took(d)' =>
           /\ del'[d].id \notin uploads' /\ entries'[del'[d].id] = 0
           /\ \A e \in Deleter : Took(e)' /\ del'[e].id = del'[d].id => e = d
    BY <1>2, <1>5, <2>1, <2>2 DEF DeleteInv
  <2>5. /\ del'[d].pc = "idle" => del'[d] = NewDelete
        /\ del'[d].status # 0 => del'[d].pc = "done"
        /\ del'[d].pc \in {"rows", "object", "audit"} \/ del'[d].status = 204
              => del'[d].id # NoUpload
        /\ del'[d].pc = "audit" \/ del'[d].status = 204
              => objects'[del'[d].id] = "none" \/ del'[d].id \in reported'
    BY <1>2, <1>5, <2>1 DEF DeleteInv, DelAt
  <2>6. del'[d].id # NoUpload => Past(del[d].id)' /\ del'[d].id = del[d].id
    BY <1>5, <2>3
  <2> QED
    BY <2>4, <2>5, <2>6 DEF DeleteInv, DelAt, Past
<1>8. TrailInv'
  BY <1>1, <1>2, <1>5 DEF TrailInv, TypeOK
<1>9. UploadInv'
  <2>1. \A u \in uploads : u \in UploadId /\ Past(u)' /\ FileOf(u)' = FileOf(u)
    BY <1>1, <1>4 DEF UploadInv, TypeOK
  <2>2. UploadIsWhole'
    BY <1>1, <1>2, <2>1 DEF UploadInv, UploadIsWhole
  <2>3. NoRowsWithoutUpload' /\ SizedByRows'
    BY <1>1, <1>2 DEF UploadInv, NoRowsWithoutUpload, SizedByRows
  <2> QED
    BY <1>2, <2>1, <2>2, <2>3 DEF UploadInv
<1>10. TypeOK'
  <2>1. /\ \A r \in Request : req'[r] \in RequestRecord /\ arch'[r] \in ArchiveState
                              /\ tx'[r] \in TxRecord
    BY <1>3 DEF Good
  <2>2. req' \in [Request -> RequestRecord] /\ arch' \in [Request -> ArchiveState]
        /\ tx' \in [Request -> TxRecord]
    BY <2>1 DEF Crash
  <2>3. del' \in [Deleter -> DeleteRecord]
    BY <1>5 DEF Crash
  <2> QED
    BY <1>1, <1>2, <2>2, <2>3
       DEF TypeOK, RequestRecord, PartNo, Pendings, RowCount, Result, Status, TxRecord,
           ArchiveState, DeleteRecord, DeleteSteps, DeleteStatus
<1> QED
  BY <1>6, <1>7, <1>8, <1>9, <1>10 DEF IInv

----------------------------------------------------------------------------
(* The invariant of the specification.                                      *)

LEMMA InitIInv == Init => IInv
<1> SUFFICES ASSUME Init
             PROVE  IInv
  OBVIOUS
<1>1. TypeOK
  <2>1. /\ NewRequest \in RequestRecord /\ NoTx \in TxRecord
              /\ NewDelete \in DeleteRecord
        /\ <<>> \in Forms \cup {<<>>} /\ 0 \in 0 .. RowCap /\ 0 \in 0 .. MaxFaults
        /\ 0 \in 0 .. MaxCrashes
    BY IngestAssumption
       DEF RequestRecord, NewRequest, Steps, PartNo, Pendings, RowCount, Result, Status,
           TxRecord, NoTx, DeleteRecord, NewDelete, DeleteSteps, DeleteStatus
  <2>2. /\ form \in [Request -> Forms \cup {<<>>}]
        /\ req \in [Request -> RequestRecord] /\ tx \in [Request -> TxRecord]
        /\ del \in [Deleter -> DeleteRecord] /\ entries \in [UploadId -> 0 .. RowCap]
    BY <2>1 DEF Init
  <2> QED
    BY <2>1, <2>2
       DEF Init, TypeOK, RequestRecord, PartNo, Pendings, RowCount, Result, Status,
           TxRecord, DeleteRecord, DeleteSteps, DeleteStatus
<1>2. ASSUME NEW r \in Request
      PROVE  RequestInv(r)
  <2>1. req[r] = NewRequest /\ tx[r] = NoTx /\ slot[r] = "empty" /\ arch[r] = "off"
    BY DEF Init
  <2>2. /\ req[r].pc = "idle" /\ req[r].result = NoUpload /\ req[r].status = 0
    BY <2>1 DEF NewRequest
  <2> QED
    BY <2>1, <2>2
       DEF RequestInv, PlaceInv, RowsInv, TxInv, ArchiveInv, ResultInv, InFile, Reading,
           Storing, Loop, Ending
<1>3. ASSUME NEW d \in Deleter
      PROVE  DeleteInv(d)
  <2>1. /\ del[d] = NewDelete /\ del[d].pc = "idle" /\ del[d].id = NoUpload
        /\ del[d].status = 0
    BY DEF Init, NewDelete
  <2> QED
    BY <2>1 DEF DeleteInv, DelAt, Took
<1>4. TrailInv
  BY DEF Init, TrailInv
<1>5. UploadInv
  BY DEF Init, UploadInv, UploadIsWhole, NoRowsWithoutUpload, SizedByRows
<1> QED
  BY <1>1, <1>2, <1>3, <1>4, <1>5 DEF IInv

LEMMA StutterKeeps ==
    ASSUME IInv, UNCHANGED vars
    PROVE  IInv'
  BY DEF IInv, vars, TypeOK, RequestInv, PlaceInv, RowsInv, TxInv, ArchiveInv,
         ResultInv, DeleteInv, DelAt, Took, TrailInv, UploadInv, UploadIsWhole,
         NoRowsWithoutUpload, SizedByRows, Past, FileOf, NewRequest, NewDelete

LEMMA RequestKeeps ==
    ASSUME IInv, NEW r \in Request, Arrive(r) \/ Handler(r) \/ Archiver(r)
              \/ ClientGoes(r)
    PROVE  IInv'
<1>1. CASE Arrive(r) \/ ClientGoes(r)
  BY <1>1, ArriveKeeps, ClientGoesKeeps
<1>2. CASE Handler(r)
  BY <1>2, RefusePartKeeps, OpenFileKeeps, EndFormKeeps, LaunchKeeps, ReadHeadKeeps,
     DrainKeeps, BeginKeeps, ParseLineKeeps, ParseEndKeeps, FlushKeeps, LastFlushKeeps,
     AwaitArchiveKeeps, FailIngestKeeps, CreateUploadKeeps, BuildRollupsKeeps,
        CommitKeeps
     DEF Handler
<1>3. CASE Archiver(r)
  BY <1>3, CompressKeeps, PutEndsKeeps, PutFailsKeeps DEF Archiver
<1> QED
  BY <1>1, <1>2, <1>3

LEMMA NextKeeps == IInv /\ [Next]_vars => IInv'
<1> SUFFICES ASSUME IInv, [Next]_vars
             PROVE  IInv'
  OBVIOUS
<1>1. ASSUME NEW r \in Request, Arrive(r) \/ Handler(r) \/ Archiver(r) \/ ClientGoes(r)
      PROVE  IInv'
  BY <1>1, RequestKeeps
<1>2. ASSUME NEW d \in Deleter, Delete(d)
      PROVE  IInv'
  BY <1>2, LookUpKeeps, DeleteRowsKeeps, DeleteObjectKeeps, AuditDeleteKeeps DEF Delete
<1>3. CASE Crash
  BY <1>3, CrashKeeps
<1>4. CASE UNCHANGED vars
  BY <1>4, StutterKeeps
<1> QED
  BY <1>1, <1>2, <1>3, <1>4 DEF Next

(* Every state the gateway reaches satisfies the invariant.                 *)
LEMMA Invariance == Spec => []IInv
  BY InitIInv, NextKeeps, PTL DEF Spec

(* The variables keep their types: no pending batch outgrows copyBatch, no  *)
(* handler is in a part its form does not have.                             *)
THEOREM IngestTypes == Spec => []TypeOK
<1>1. IInv => TypeOK
  BY DEF IInv
<1> QED
  BY <1>1, Invariance, PTL

(* An upload that is listed is all there, rows, rollups and object,         *)
(* whichever of the handler's statements, the archive goroutine, a deletion *)
(* or the process fails, and wherever (ingest's one transaction and the     *)
(* wait for archiveErr before it commits, deleteUpload's order).            *)
THEOREM ListedUploadIsWhole == Spec => []UploadIsWhole
<1>1. IInv => UploadIsWhole
  BY DEF IInv, UploadInv
<1> QED
  BY <1>1, Invariance, PTL

(* Rows, rollups and analyses are never left behind by a failed ingest or   *)
(* by DeleteUpload, which deletes log_entries in the upload's transaction.  *)
THEOREM NoOrphanRows == Spec => []NoRowsWithoutUpload
<1>1. IInv => NoRowsWithoutUpload
  BY DEF IInv, UploadInv
<1> QED
  BY <1>1, Invariance, PTL

(* The analysis createUpload launches is sized by the rows COPY counted.    *)
THEOREM LaunchedBySize == Spec => []SizedByRows
<1>1. IInv => SizedByRows
  BY DEF IInv, UploadInv
<1> QED
  BY <1>1, Invariance, PTL

(* createUpload answers 201 for an upload that was committed and that only  *)
(* deleteUpload can have taken since.                                       *)
THEOREM CreatedWasStored == Spec => []CreatedMeansStored
<1>1. IInv => CreatedMeansStored
  <2> SUFFICES ASSUME IInv, NEW r \in Request, req[r].status = 201
               PROVE  \/ req[r].result \in uploads
                      \/ \E d \in Deleter : del[d].id = req[r].result
    BY DEF CreatedMeansStored
  <2>1. RequestInv(r)
    BY DEF IInv
  <2>2. req[r].result # NoUpload
    BY <2>1 DEF RequestInv, PlaceInv
  <2> QED
    BY <2>1, <2>2 DEF RequestInv, ResultInv
<1> QED
  BY <1>1, Invariance, PTL

(* deleteUpload answers 204 to one request for an upload; it left nothing,  *)
(* or the log names the object it left, and the audit log has one entry     *)
(* for it.                                                                  *)
THEOREM DeletedOnce == Spec => []DeletedOnceOrReported
<1>1. IInv => DeletedOnceOrReported
  <2> SUFFICES ASSUME IInv
               PROVE  DeletedOnceOrReported
    OBVIOUS
  <2>1. ASSUME NEW d \in Deleter, del[d].status = 204
        PROVE  /\ del[d].id \notin uploads /\ entries[del[d].id] = 0
               /\ objects[del[d].id] = "none" \/ del[d].id \in reported
               /\ \A e \in Deleter : del[e].status = 204 /\ del[e].id = del[d].id
                     => d = e
    <3>1. DeleteInv(d) /\ Took(d)
      BY <2>1 DEF IInv, Took
    <3> QED
      BY <2>1, <3>1 DEF DeleteInv, Took
  <2>2. ASSUME NEW s \in trail, NEW t \in trail, s.upload = t.upload
        PROVE  s = t
    <3>1. /\ s \in [by : Deleter, upload : UploadId, archiveDeleted : BOOLEAN]
          /\ t \in [by : Deleter, upload : UploadId, archiveDeleted : BOOLEAN]
      BY DEF IInv, TypeOK
    <3>2. /\ del[s.by].status = 204 /\ del[t.by].status = 204
          /\ s.upload = del[s.by].id /\ t.upload = del[t.by].id
          /\ s.archiveDeleted = del[s.by].archived
                /\ t.archiveDeleted = del[t.by].archived
      BY DEF IInv, TrailInv
    <3>3. s.by \in Deleter /\ t.by \in Deleter
      BY <3>1
    <3>4. s.by = t.by
      <4>1. \A e \in Deleter : del[e].status = 204 /\ del[e].id = del[s.by].id
               => s.by = e
        BY <2>1, <3>2, <3>3
      <4>2. del[t.by].id = del[s.by].id
        BY <2>2, <3>2
      <4> QED
        BY <3>2, <3>3, <4>1, <4>2
    <3>5. s.archiveDeleted = t.archiveDeleted
      BY <3>2, <3>4
    <3> QED
      BY <2>2, <3>1, <3>4, <3>5
  <2> QED
    BY <2>1, <2>2 DEF DeletedOnceOrReported
<1> QED
  BY <1>1, Invariance, PTL
=============================================================================
