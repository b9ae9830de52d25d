------------------------------- MODULE Ingest -------------------------------
(***************************************************************************)
(* Streaming an upload into Postgres and the object store, and deleting    *)
(* it again.                                                               *)
(*                                                                         *)
(* One upload request is a handler and, for every file part of its form,   *)
(* an archive goroutine on the other end of a pipe: what the parser reads  *)
(* is teed to the archive, and the handler's writes block until it has     *)
(* been taken.  Rows, upload row and rollups are written in one            *)
(* transaction; the object is not part of it.                              *)
(*                                                                         *)
(* A file is a head (the 64 KB the format is recognised from, with the     *)
(* header row) and a number of chunks of one row each; `end` says what     *)
(* the reads after the last chunk return: io.EOF, or an error again and    *)
(* again, because the size cap was passed or the body is cut off.          *)
(* `gone` is the moment the server notices that the client has left: the   *)
(* request's context is cancelled and the body no longer yields data.      *)
(***************************************************************************)
EXTENDS Integers, Sequences, FiniteSets

CONSTANTS
    Request,       \* upload requests
    Deleter,       \* delete requests
    Forms,         \* the multipart bodies clients send: sequences of parts
    MaxParts,      \* parts of a form
    Batch,         \* copyBatch: rows held before a COPY
    RowCap,        \* rows are counted up to here (bound of the model)
    Backends,      \* object stores the gateway may run on
    NoUpload,      \* no result yet
    MaxFaults,     \* calls to Postgres or the object store that fail
    MaxGone,       \* clients that leave
    MaxCrashes     \* gateway restarts

Parts == [head : {"malformed", "refused", "unknown", "known"},
          rows : Nat, end : {"eof", "large", "cut"}]
UploadId == Request \X (1 .. MaxParts)

ASSUME IngestAssumption ==
    /\ MaxParts \in Nat /\ Batch \in Nat \ {0} /\ RowCap \in Nat \ {0}
    /\ MaxFaults \in Nat /\ MaxGone \in Nat /\ MaxCrashes \in Nat
    /\ Backends \subseteq {"s3", "gcs"}
    /\ \A f \in Forms :
          /\ f \in Seq(Parts) /\ Len(f) <= MaxParts
          /\ \A k \in DOMAIN f : f[k].rows <= RowCap
    /\ NoUpload \notin UploadId

VARIABLES
    (* Upload requests. *)
    form,      \* form[r]: the body of request r
    req,       \* req[r]: the handler's place and locals
    slot,      \* slot[r]: what the pipe to the archive holds
    closed,    \* closed[r]: is the pipe's read side closed?
    arch,      \* arch[r]: the archive goroutine of the current file part
    tx,        \* tx[r]: what the open transaction has written
    gone,      \* clients that have left
    (* Delete requests. *)
    del,
    (* Postgres, the object store, the log. *)
    uploads, entries, rollups, analyses, trail, objects, reported,
    (* Environment. *)
    backend, faults, crashes

request == <<form, req, slot, closed, arch, tx>>
stored == <<uploads, entries, rollups, analyses>>
env == <<backend, crashes>>
vars == <<form, req, slot, closed, arch, tx, gone, del, uploads, entries, rollups,
          analyses, trail, objects, reported, backend, faults, crashes>>

Steps == {"idle", "parts", "head", "drain", "begin", "parse", "flush", "last",
          "archive", "create", "rollups", "commit", "launch", "await", "done", "dead"}
Ended(r) == req[r].pc \in {"done", "dead"}

NoTx == [rows |-> 0, upload |-> FALSE, rolled |-> FALSE]
NewRequest == [pc |-> "idle", part |-> 0, next |-> 0, pending |-> 0, lines |-> 0,
               result |-> NoUpload, copied |-> 0, status |-> 0]
NewDelete == [pc |-> "idle", id |-> NoUpload, status |-> 0, archived |-> TRUE]

Init ==
    /\ form = [r \in Request |-> <<>>]
    /\ req = [r \in Request |-> NewRequest]
    /\ slot = [r \in Request |-> "empty"]
    /\ closed = [r \in Request |-> FALSE]
    /\ arch = [r \in Request |-> "off"]
    /\ tx = [r \in Request |-> NoTx]
    /\ gone = {}
    /\ del = [d \in Deleter |-> NewDelete]
    /\ uploads = {} /\ rollups = {} /\ analyses = {} /\ trail = {} /\ reported = {}
    /\ entries = [u \in UploadId |-> 0]
    /\ objects = [u \in UploadId |-> "none"]
    /\ backend \in Backends
    /\ faults = 0 /\ crashes = 0

----------------------------------------------------------------------------
(* Reading the current file part.                                           *)

Id(r) == <<r, req[r].part>>
File(r) == form[r][req[r].part]
FileOf(u) == form[u[1]][u[2]]
Capped(n) == IF n < RowCap THEN n ELSE RowCap

HasChunk(r) == r \notin gone /\ req[r].next <= File(r).rows
AtEof(r) == r \notin gone /\ ~HasChunk(r) /\ File(r).end = "eof"
ReadFails(r) == ~HasChunk(r) /\ ~AtEof(r)

(* The tee's write to the pipe has returned: the archive took the chunk, or *)
(* has closed its side.                                                     *)
Written(r) == slot[r] = "empty" \/ closed[r]

(* A statement or an object store call of request r succeeds, or fails      *)
(* because its context was cancelled or by a fault.                         *)
Succeeds(r) == r \notin gone /\ UNCHANGED faults
Fault == faults < MaxFaults /\ faults' = faults + 1
Fails(r) == (r \in gone /\ UNCHANGED faults) \/ Fault

At(r, step) == req[r].pc = step
GoOn(r, q) == req' = [req EXCEPT ![r] = q]
GoTo(r, step) == GoOn(r, [req[r] EXCEPT !.pc = step])

(* Answering ends the request; the deferred Rollback drops what is open.    *)
Answer(r, status) ==
    /\ GoOn(r, [req[r] EXCEPT !.pc = "done", !.status = status])
    /\ tx' = [tx EXCEPT ![r] = NoTx]

(* `<-archiveErr` on a failure path, `status` being what failIngest answers. *)
FailAfterArchive(r, status) ==
    GoOn(r, [req[r] EXCEPT !.pc = "await", !.status = status])

(***************************************************************************)
(* createUpload: the parts of the form.                                    *)
(***************************************************************************)
Arrive(r) ==
    /\ At(r, "idle")
    /\ \E f \in Forms : form' = [form EXCEPT ![r] = f]
    /\ GoTo(r, "parts")
    /\ UNCHANGED <<slot, closed, arch, tx, gone, del, stored, trail, objects, reported,
                   env, faults>>

PartsLeft(r) == req[r].part < Len(form[r])
NextHead(r) == form[r][req[r].part + 1].head

(* A malformed body or a cancelled one, a suffix that is not allowed, and a *)
(* form without a file are answered here, whatever was ingested before.     *)
RefusePart(r) ==
    /\ At(r, "parts")
    /\ \/ r \in gone
       \/ PartsLeft(r) /\ NextHead(r) \in {"malformed", "refused"}
       \/ ~PartsLeft(r) /\ req[r].result = NoUpload
    /\ Answer(r, 400)
    /\ UNCHANGED <<form, slot, closed, arch, gone, del, stored, trail, objects,
                   reported, env, faults>>

(* A file part: ingest opens the pipe and starts the archive.               *)
OpenFile(r) ==
    /\ At(r, "parts") /\ r \notin gone
    /\ PartsLeft(r) /\ NextHead(r) \in {"known", "unknown"}
    /\ GoOn(r, [req[r] EXCEPT !.pc = "head", !.part = @ + 1, !.next = 0,
                              !.pending = 0, !.lines = 0])
    /\ slot' = [slot EXCEPT ![r] = "empty"]
    /\ closed' = [closed EXCEPT ![r] = FALSE]
    /\ arch' = [arch EXCEPT ![r] = "open"]
    /\ UNCHANGED <<form, tx, gone, del, stored, trail, objects, reported, env, faults>>

EndForm(r) ==
    /\ At(r, "parts")
    /\ ~PartsLeft(r) /\ req[r].result # NoUpload
    /\ GoTo(r, "launch")
    /\ UNCHANGED <<form, slot, closed, arch, tx, gone, del, stored, trail, objects,
                   reported, env, faults>>

(* launchAnalysis sizes the shards from what COPY counted; the row needs    *)
(* its upload.  A failure is reported beside the upload, not instead of it. *)
MutAnalysisSize(r) == req[r].lines   \* Mutant: sized by the file's line count.
AnalysisSize(r) == req[r].copied

Launch(r) ==
    /\ At(r, "launch")
    /\ \/ /\ req[r].result \in uploads /\ Succeeds(r)
          /\ analyses' = analyses \cup {[upload |-> req[r].result, size |-> AnalysisSize(r)]}
       \/ /\ req[r].result \notin uploads /\ UNCHANGED <<analyses, faults>>
       \/ Fails(r) /\ UNCHANGED analyses
    /\ Answer(r, 201)
    /\ UNCHANGED <<form, slot, closed, arch, gone, del, uploads, entries, rollups,
                   trail, objects, reported, env>>

(***************************************************************************)
(* ingest: the head, the format, the parse loop.                           *)
(***************************************************************************)

(* HeadReader hands on any error but io.EOF: a file that passes the limit,  *)
(* or breaks off, inside its head ends here.                                *)
HeadFails(r) == \/ r \in gone \/ closed[r]
                \/ File(r).rows = 0 /\ File(r).end # "eof"

ReadHead(r) ==
    /\ At(r, "head")
    /\ \/ /\ HeadFails(r)
          /\ slot' = [slot EXCEPT ![r] = "err"]
          /\ FailAfterArchive(r, IF r \notin gone /\ ~closed[r] /\ File(r).end = "large"
                                 THEN 413 ELSE 500)
       \/ /\ ~HeadFails(r)
          /\ slot' = [slot EXCEPT ![r] = "data"]
          /\ GoOn(r, [req[r] EXCEPT !.next = 1, !.pc = IF File(r).head = "known"
                                                      THEN "begin" ELSE "drain"])
    /\ UNCHANGED <<form, closed, arch, tx, gone, del, stored, trail, objects, reported,
                   env, faults>>

(* No parser wants the file: the rest is read and thrown away, whatever ends *)
(* it, and the archive is closed as if it were complete.                     *)
Drain(r) ==
    /\ At(r, "drain") /\ Written(r)
    /\ \/ /\ HasChunk(r) /\ ~closed[r]
          /\ GoOn(r, [req[r] EXCEPT !.next = @ + 1])
          /\ slot' = [slot EXCEPT ![r] = "data"]
       \/ /\ ~HasChunk(r) \/ closed[r]
          /\ FailAfterArchive(r, 400)
          /\ slot' = [slot EXCEPT ![r] = "eof"]
    /\ UNCHANGED <<form, closed, arch, tx, gone, del, stored, trail, objects, reported,
                   env, faults>>

(* Parse reads the header before its loop, and counts it as a line.         *)
Begin(r) ==
    /\ At(r, "begin") /\ Written(r)
    /\ \/ /\ Succeeds(r)
          /\ GoOn(r, [req[r] EXCEPT !.pc = "parse", !.lines = 1])
          /\ UNCHANGED slot
       \/ /\ Fails(r)
          /\ FailAfterArchive(r, 500)
          /\ slot' = [slot EXCEPT ![r] = "err"]
    /\ UNCHANGED <<form, closed, arch, tx, gone, del, stored, trail, objects, reported, env>>

MutBatchFull(n) == n > Batch   \* Mutant: one row too late.
BatchFull(n) == n >= Batch

(* One iteration of Parse.  A chunk is teed and becomes a row; an error of  *)
(* the reader, or of the tee when the archive is closed, counts as a        *)
(* malformed line and becomes an empty row; only io.EOF ends the loop.      *)
Emit(r) ==
    [req[r] EXCEPT !.lines = Capped(@ + 1), !.pending = @ + 1,
                   !.next = IF HasChunk(r) THEN @ + 1 ELSE @,
                   !.pc = IF BatchFull(req[r].pending + 1) THEN "flush" ELSE "parse"]

ParseLine(r) ==
    /\ At(r, "parse") /\ Written(r) /\ ~AtEof(r)
    /\ GoOn(r, Emit(r))
    /\ slot' = [slot EXCEPT ![r] = IF HasChunk(r) /\ ~closed[r] THEN "data" ELSE @]
    /\ UNCHANGED <<form, closed, arch, tx, gone, del, stored, trail, objects, reported,
                   env, faults>>

ParseEnd(r) ==
    /\ At(r, "parse") /\ Written(r) /\ AtEof(r)
    /\ slot' = [slot EXCEPT ![r] = "eof"]
    /\ GoTo(r, "last")
    /\ UNCHANGED <<form, closed, arch, tx, gone, del, stored, trail, objects, reported,
                   env, faults>>

(* EnsurePartitions and CopyEntries of the pending rows.                    *)
Copied(r) == [tx[r] EXCEPT !.rows = Capped(@ + req[r].pending)]

Flush(r) ==
    /\ At(r, "flush") /\ Written(r)
    /\ \/ /\ Succeeds(r)
          /\ tx' = [tx EXCEPT ![r] = Copied(r)]
          /\ GoOn(r, [req[r] EXCEPT !.pending = 0, !.pc = "parse"])
          /\ UNCHANGED slot
       \/ /\ Fails(r)
          /\ FailAfterArchive(r, 500)
          /\ slot' = [slot EXCEPT ![r] = "err"]
          /\ UNCHANGED tx
    /\ UNCHANGED <<form, closed, arch, gone, del, stored, trail, objects, reported, env>>

(* The flush after the loop, when the archive has been told io.EOF already. *)
LastFlush(r) ==
    /\ At(r, "last")
    /\ \/ /\ req[r].pending = 0 /\ UNCHANGED <<tx, faults>>
          /\ GoTo(r, "archive")
       \/ /\ req[r].pending > 0 /\ Succeeds(r)
          /\ tx' = [tx EXCEPT ![r] = Copied(r)]
          /\ GoOn(r, [req[r] EXCEPT !.pending = 0, !.pc = "archive"])
       \/ /\ req[r].pending > 0 /\ Fails(r)
          /\ FailAfterArchive(r, 500)
          /\ UNCHANGED tx
    /\ UNCHANGED <<form, slot, closed, arch, gone, del, stored, trail, objects,
                   reported, env>>

(* <-archiveErr on the way to the commit.                                   *)
MutArchived(r) == TRUE   \* Mutant: the archive's error is not looked at.
Archived(r) == arch[r] = "stored"

AwaitArchive(r) ==
    /\ At(r, "archive") /\ arch[r] # "open"
    /\ \/ /\ Archived(r)
          /\ GoTo(r, "create") /\ UNCHANGED tx
       \/ ~Archived(r) /\ Answer(r, 500)
    /\ UNCHANGED <<form, slot, closed, arch, gone, del, stored, trail, objects,
                   reported, env, faults>>

(* <-archiveErr on the way out, and failIngest.                             *)
FailIngest(r) ==
    /\ At(r, "await") /\ arch[r] # "open"
    /\ Answer(r, req[r].status)
    /\ UNCHANGED <<form, slot, closed, arch, gone, del, stored, trail, objects,
                   reported, env, faults>>

CreateUpload(r) ==
    /\ At(r, "create")
    /\ \/ /\ Succeeds(r)
          /\ tx' = [tx EXCEPT ![r] = [@ EXCEPT !.upload = TRUE]]
          /\ GoTo(r, "rollups")
       \/ Fails(r) /\ Answer(r, 500)
    /\ UNCHANGED <<form, slot, closed, arch, gone, del, stored, trail, objects,
                   reported, env>>

BuildRollups(r) ==
    /\ At(r, "rollups")
    /\ \/ /\ Succeeds(r)
          /\ tx' = [tx EXCEPT ![r] = [@ EXCEPT !.rolled = TRUE]]
          /\ GoTo(r, "commit")
       \/ Fails(r) /\ Answer(r, 500)
    /\ UNCHANGED <<form, slot, closed, arch, gone, del, stored, trail, objects,
                   reported, env>>

(* A commit that returns an error may have been applied.                    *)
Applied(r) ==
    /\ entries' = [entries EXCEPT ![Id(r)] = tx[r].rows]
    /\ uploads' = IF tx[r].upload THEN uploads \cup {Id(r)} ELSE uploads
    /\ rollups' = IF tx[r].rolled THEN rollups \cup {Id(r)} ELSE rollups
    /\ UNCHANGED analyses

Ingested(r) ==
    /\ tx' = [tx EXCEPT ![r] = NoTx]
    /\ GoOn(r, [req[r] EXCEPT !.pc = "parts", !.result = Id(r), !.copied = tx[r].rows])

MutCommitFailed(r) == Ingested(r)   \* Mutant: the error of Commit is dropped.
CommitFailed(r) == Answer(r, 500)

Commit(r) ==
    /\ At(r, "commit")
    /\ \/ Succeeds(r) /\ Applied(r) /\ Ingested(r)
       \/ Fails(r) /\ (Applied(r) \/ UNCHANGED stored) /\ CommitFailed(r)
    /\ UNCHANGED <<form, slot, closed, arch, gone, del, trail, objects, reported, env>>

(***************************************************************************)
(* The archive goroutine: Blob.Put reads the compressed pipe to its end.   *)
(***************************************************************************)
Compress(r) ==
    /\ arch[r] = "open" /\ slot[r] = "data"
    /\ slot' = [slot EXCEPT ![r] = "empty"]
    /\ UNCHANGED <<form, req, closed, arch, tx, gone, del, stored, trail, objects,
                   reported, env, faults>>

(* The deferred pr.Close, which unblocks the tee.                           *)
MutCloseRead(r) == UNCHANGED closed   \* Mutant: it is not deferred.
CloseRead(r) == closed' = [closed EXCEPT ![r] = TRUE]

(* Put bails out in the middle of the file.                                 *)
PutFails(r) ==
    /\ arch[r] = "open" /\ Fails(r)
    /\ arch' = [arch EXCEPT ![r] = "failed"]
    /\ CloseRead(r)
    /\ UNCHANGED <<form, req, slot, tx, gone, del, stored, trail, objects, reported, env>>

(* The pipe ends.  On its error S3 aborts the object; the GCS writer is     *)
(* closed and keeps what it was given.                                      *)
Content(r) == IF req[r].next > File(r).rows /\ File(r).end = "eof" THEN "whole" ELSE "part"

PutEnds(r) ==
    /\ arch[r] = "open"
    /\ \/ /\ slot[r] = "eof"
          /\ arch' = [arch EXCEPT ![r] = "stored"]
          /\ objects' = [objects EXCEPT ![Id(r)] = Content(r)]
       \/ /\ slot[r] = "err"
          /\ arch' = [arch EXCEPT ![r] = "failed"]
          /\ objects' = IF backend = "gcs"
                        THEN [objects EXCEPT ![Id(r)] = "part"] ELSE objects
    /\ CloseRead(r)
    /\ UNCHANGED <<form, req, slot, tx, gone, del, stored, trail, reported, env, faults>>

(***************************************************************************)
(* deleteUpload.                                                           *)
(***************************************************************************)
DelAt(d, step) == del[d].pc = step
DeleteGoOn(d, p) == del' = [del EXCEPT ![d] = p]
AnswerDelete(d, status) == DeleteGoOn(d, [del[d] EXCEPT !.pc = "done", !.status = status])

(* UploadByID, the organization and the right to delete: any failure to     *)
(* read, and any upload of another organization, is "not found".            *)
LookUp(d) ==
    /\ DelAt(d, "idle")
    /\ \E u \in UploadId, caller \in {"owner", "admin", "peer", "outsider"} :
          \/ /\ u \in uploads /\ caller \in {"owner", "admin"} /\ UNCHANGED faults
             /\ DeleteGoOn(d, [del[d] EXCEPT !.pc = "rows", !.id = u])
          \/ u \in uploads /\ caller = "peer" /\ AnswerDelete(d, 403) /\ UNCHANGED faults
          \/ (u \notin uploads \/ caller = "outsider") /\ AnswerDelete(d, 404) /\ UNCHANGED faults
          \/ Fault /\ AnswerDelete(d, 404)
    /\ UNCHANGED <<request, gone, stored, trail, objects, reported, env>>

(* store.DeleteUpload: rows, upload and what cascades, in one transaction.  *)
Cascade(u) ==
    /\ uploads' = uploads \ {u}
    /\ rollups' = rollups \ {u}
    /\ analyses' = {a \in analyses : a.upload # u}

(* Mutant: log_entries is left to the cascade, which does not reach it.     *)
MutRemoved(u) == Cascade(u) /\ UNCHANGED entries
Removed(u) == Cascade(u) /\ entries' = [entries EXCEPT ![u] = 0]

NothingMatched(u) == u \notin uploads

DeleteRows(d) ==
    /\ DelAt(d, "rows")
    /\ LET u == del[d].id IN
       \/ /\ ~NothingMatched(u) /\ Removed(u) /\ UNCHANGED faults
          /\ DeleteGoOn(d, [del[d] EXCEPT !.pc = "object"])
       \/ /\ NothingMatched(u) /\ AnswerDelete(d, 404)
          /\ UNCHANGED <<stored, faults>>
       \/ /\ Fault /\ AnswerDelete(d, 500)
          /\ (~NothingMatched(u) /\ Removed(u)) \/ UNCHANGED stored
    /\ UNCHANGED <<request, gone, trail, objects, reported, env>>

MutReportOrphan(u) == UNCHANGED reported   \* Mutant: Delete's error is dropped.
ReportOrphan(u) == reported' = reported \cup {u}

(* Blob.Delete; a failure is logged with the key and noted for the audit.   *)
DeleteObject(d) ==
    /\ DelAt(d, "object")
    /\ LET u == del[d].id IN
       \/ /\ objects' = [objects EXCEPT ![u] = "none"]
          /\ DeleteGoOn(d, [del[d] EXCEPT !.pc = "audit"])
          /\ UNCHANGED <<reported, faults>>
       \/ /\ Fault
          /\ ReportOrphan(u)
          /\ DeleteGoOn(d, [del[d] EXCEPT !.pc = "audit", !.archived = FALSE])
          /\ UNCHANGED objects
    /\ UNCHANGED <<request, gone, stored, trail, env>>

AuditDelete(d) ==
    /\ DelAt(d, "audit")
    /\ \/ /\ trail' = trail \cup {[by |-> d, upload |-> del[d].id,
                                   archiveDeleted |-> del[d].archived]}
          /\ UNCHANGED faults
       \/ Fault /\ UNCHANGED trail
    /\ AnswerDelete(d, 204)
    /\ UNCHANGED <<request, gone, stored, objects, reported, env>>

----------------------------------------------------------------------------
(* The environment.                                                         *)

ClientGoes(r) ==
    /\ Cardinality(gone) < MaxGone
    /\ ~At(r, "idle") /\ ~Ended(r) /\ r \notin gone
    /\ gone' = gone \cup {r}
    /\ UNCHANGED <<request, del, stored, trail, objects, reported, env, faults>>

(* The process dies: every handler and goroutine with it, and every open    *)
(* transaction is rolled back.                                              *)
Crash ==
    /\ crashes < MaxCrashes
    /\ crashes' = crashes + 1
    /\ req' = [r \in Request |-> IF At(r, "idle") \/ Ended(r) THEN req[r]
                                 ELSE [req[r] EXCEPT !.pc = "dead"]]
    /\ arch' = [r \in Request |-> IF arch[r] = "open" THEN "failed" ELSE arch[r]]
    /\ tx' = [r \in Request |-> NoTx]
    /\ del' = [d \in Deleter |-> IF del[d].pc \in {"idle", "done"} THEN del[d]
                                 ELSE [del[d] EXCEPT !.pc = "dead"]]
    /\ UNCHANGED <<form, slot, closed, gone, stored, trail, objects, reported,
                   backend, faults>>

Handler(r) ==
    \/ RefusePart(r) \/ OpenFile(r) \/ EndForm(r) \/ Launch(r)
    \/ ReadHead(r) \/ Drain(r) \/ Begin(r) \/ ParseLine(r) \/ ParseEnd(r) \/ Flush(r)
    \/ LastFlush(r) \/ AwaitArchive(r) \/ FailIngest(r)
    \/ CreateUpload(r) \/ BuildRollups(r) \/ Commit(r)
Archiver(r) == Compress(r) \/ PutEnds(r) \/ PutFails(r)
Delete(d) == LookUp(d) \/ DeleteRows(d) \/ DeleteObject(d) \/ AuditDelete(d)

Next ==
    \/ \E r \in Request : Arrive(r) \/ Handler(r) \/ Archiver(r) \/ ClientGoes(r)
    \/ \E d \in Deleter : Delete(d)
    \/ Crash

Spec == Init /\ [][Next]_vars

(* A goroutine that can run runs; nobody has to send a request, leave or    *)
(* fail.                                                                    *)
FairSpec == /\ Spec
            /\ \A r \in Request : WF_vars(Handler(r)) /\ WF_vars(Archiver(r))

----------------------------------------------------------------------------
(* Properties.                                                              *)

(* Every variable has its type.                                             *)
TypeOK ==
    /\ form \in [Request -> Forms \cup {<<>>}]
    /\ req \in [Request -> [pc : Steps, part : 0 .. MaxParts, next : Nat,
                            pending : 0 .. Batch, lines : 0 .. RowCap,
                            result : UploadId \cup {NoUpload}, copied : 0 .. RowCap,
                            status : {0, 201, 400, 413, 500}]]
    /\ slot \in [Request -> {"empty", "data", "eof", "err"}]
    /\ closed \in [Request -> BOOLEAN]
    /\ arch \in [Request -> {"off", "open", "stored", "failed"}]
    /\ tx \in [Request -> [rows : 0 .. RowCap, upload : BOOLEAN, rolled : BOOLEAN]]
    /\ gone \subseteq Request
    /\ del \in [Deleter -> [pc : {"idle", "rows", "object", "audit", "done", "dead"},
                            id : UploadId \cup {NoUpload},
                            status : {0, 204, 403, 404, 500}, archived : BOOLEAN]]
    /\ uploads \subseteq UploadId /\ rollups \subseteq UploadId
    /\ reported \subseteq UploadId
    /\ entries \in [UploadId -> 0 .. RowCap]
    /\ objects \in [UploadId -> {"none", "part", "whole"}]
    /\ analyses \subseteq [upload : UploadId, size : 0 .. RowCap]
    /\ trail \subseteq [by : Deleter, upload : UploadId, archiveDeleted : BOOLEAN]
    /\ backend \in Backends
    /\ faults \in 0 .. MaxFaults /\ crashes \in 0 .. MaxCrashes

(* An upload that is listed is all there: a row for every line of its file, *)
(* the rollups of those rows, and its original in the object store,         *)
(* whichever of the handler, the archive, a deletion or the process fails   *)
(* at whatever point (ingest's one transaction, the wait for archiveErr,    *)
(* and the order of the two deletions).                                     *)
UploadIsWhole ==
    \A u \in uploads :
       /\ FileOf(u).head = "known" /\ FileOf(u).end = "eof"
       /\ entries[u] = FileOf(u).rows
       /\ u \in rollups
       /\ objects[u] = "whole"

(* Nothing of a log stays in the database without the upload that says      *)
(* whose it is: not after a failed ingest, and not after a deletion         *)
(* (log_entries has no foreign key, DeleteUpload's transaction stands for   *)
(* it).                                                                     *)
NoRowsWithoutUpload ==
    \A u \in UploadId :
       (entries[u] > 0 \/ u \in rollups \/ \E a \in analyses : a.upload = u) => u \in uploads

(* A deletion that was answered 204 left nothing behind, or the log names   *)
(* the object it left (deleteUpload's order and its archive_orphaned        *)
(* report); and of two requests that both found the upload, one is told     *)
(* 204, and the audit log has one entry for it.                             *)
DeletedOnceOrReported ==
    /\ \A d \in Deleter : del[d].status = 204 =>
          LET u == del[d].id IN
          /\ u \notin uploads /\ entries[u] = 0
          /\ objects[u] = "none" \/ u \in reported
          /\ \A e \in Deleter : del[e].status = 204 /\ del[e].id = u => d = e
    /\ \A s, t \in trail : s.upload = t.upload => s = t

(* A 201 is only given for an upload that was committed: it is there, or a  *)
(* deletion has taken it since.                                             *)
CreatedMeansStored ==
    \A r \in Request : req[r].status = 201 =>
       \/ req[r].result \in uploads
       \/ \E d \in Deleter : del[d].id = req[r].result

(* The analysis launched with an upload is sized by the rows the upload     *)
(* has: the shards cut from that size cover them all, and no more.          *)
SizedByRows == \A a \in analyses : a.size = entries[a.upload]

(* A request is answered, or dies with the process, if its files can be     *)
(* read to their end, whatever fails: a storage failure cannot wedge it.    *)
(* So is any request whose client has left.                                 *)
Readable(f) == \A k \in DOMAIN f : f[k].end = "eof"

Answered ==
    \A r \in Request :
       /\ (At(r, "parts") /\ Readable(form[r])) ~> Ended(r)
       /\ (r \in gone) ~> Ended(r)

(* createUpload's promise of the size cap: an upload that passes it is      *)
(* refused while the body is still arriving.                                *)
RefusedWhenTooLarge ==
    \A r \in Request :
       (At(r, "parse") /\ File(r).end = "large") ~> (req[r].status = 413)
=============================================================================
