------------------------------- MODULE Access -------------------------------
(***************************************************************************)
(* Who may see which upload: organizations and their users, grants, the    *)
(* access resolver with its break-glass path, and the two statements of    *)
(* the visibility rule, one in Go for a single upload and one in SQL for   *)
(* lists, search and the action plan.                                      *)
(*                                                                         *)
(* The requests that are judged (an analysis read or started, a grant      *)
(* issued or revoked) run concurrently, one statement of Postgres per      *)
(* step, while uploads come and go and grants expire.  What only narrows   *)
(* what a request sees later is one step with it: users never change their *)
(* organization or role, and an upload's id is never used twice.           *)
(***************************************************************************)
EXTENDS Integers, Sequences, FiniteSetsExt

CONSTANTS
    User, Org, Upload,
    Request,        \* requests in flight at a time
    OrgWide,        \* upload_id NULL: a standing grant for the organization
    NoUser,
    Population,     \* the users at the start: their organization and role
    (* Bounds of the model. *)
    MaxGrants,      \* rows ever inserted into access_grants
    MaxRequests,
    MaxFaults       \* audit records that cannot be written

Role == {"member", "admin", "owner"}

(* The permission lattice, and the levels a grant can carry.                *)
LevelNone == 0
LevelSummary == 1
LevelDashboard == 2
LevelFull == 3
Level == LevelNone .. LevelFull
MutParseLevel == Level   \* Mutant: "none" is a level.
ParseLevel == LevelSummary .. LevelFull

ASSUME AccessAssumption ==
    /\ DOMAIN Population \subseteq User
    /\ \A c \in DOMAIN Population : Population[c] \in [org : Org, role : Role]
    /\ OrgWide \notin Upload /\ NoUser \notin User
    /\ MaxGrants \in Nat /\ MaxRequests \in Nat /\ MaxFaults \in Nat

VARIABLES
    users,      \* users[c]: organization and role, for the users there are
    owner,      \* owner[u]: uploads.user_id, kept when the upload is gone
    uploads,    \* the rows of uploads
    grants,     \* the rows of access_grants
    lastGrant,  \* ids given out to grants
    trail,      \* the breakglass.raw_access records of audit_log
    req,        \* req[r]: the handler of request r, and its locals
    held,       \* history: the highest level its caller held during read r
    requests, faults

people == <<users, owner, uploads>>
sharing == <<grants, lastGrant>>
vars == <<users, owner, uploads, grants, lastGrant, trail, req, held, requests, faults>>

Grant == [id : 1 .. MaxGrants, org : Org, upload : Upload \cup {OrgWide},
          subject : User, level : LevelSummary .. LevelFull, by : User, live : BOOLEAN]

Idle == [pc |-> "idle", kind |-> "get", by |-> NoUser, upload |-> OrgWide,
         subject |-> NoUser, level |-> LevelNone, id |-> 0, record |-> 0, status |-> 0]

Init ==
    /\ users = Population
    /\ owner = [u \in Upload |-> NoUser]
    /\ uploads = {}
    /\ grants = {} /\ lastGrant = 0
    /\ trail = <<>>
    /\ req = [r \in Request |-> Idle]
    /\ held = [r \in Request |-> LevelNone]
    /\ requests = 0 /\ faults = 0

----------------------------------------------------------------------------
(* The rules.                                                               *)

IsAdmin(c) == users[c].role \in {"admin", "owner"}
OrgOf(c) == users[c].org
UploadOrg(u) == OrgOf(owner[u])

(* Resolve, up to its look at the grants: another organization's upload is  *)
(* as good as missing.                                                      *)
Hidden(c, u) == ~(u \in uploads /\ UploadOrg(u) = OrgOf(c))

(* BestGrantFor: an upload's own grants and the standing ones, unexpired.   *)
Covers(g, c, u) == g.subject = c /\ g.org = OrgOf(c) /\ g.upload \in {u, OrgWide}
BestGrantFor(c, u) ==
    Max({LevelNone} \cup {g.level : g \in {x \in grants : Covers(x, c, u) /\ x.live}})

(* The rest of Resolve, for a caller who is not the uploader.               *)
Granted(c, u) ==
    Max({BestGrantFor(c, u), IF IsAdmin(c) THEN LevelDashboard ELSE LevelNone})

Resolve(c, u) ==
    IF Hidden(c, u) THEN LevelNone
    ELSE IF owner[u] = c THEN LevelFull ELSE Granted(c, u)

(* The WHERE clause of ListVisibleUploads, and visibilityClause of search   *)
(* and ActionPlan.                                                          *)
MutShared(c, u) == \E g \in grants : Covers(g, c, u)   \* Mutant: expired ones too.
Shared(c, u) == \E g \in grants : Covers(g, c, u) /\ g.live

Visible(c) ==
    {u \in uploads : UploadOrg(u) = OrgOf(c) /\ (owner[u] = c \/ IsAdmin(c) \/ Shared(c, u))}

(* createGrant and deleteGrant.                                             *)
MutMayShare(c, u) == UploadOrg(u) = OrgOf(c)   \* Mutant: any colleague.
MayShare(c, u) == owner[u] = c \/ IsAdmin(c)
MayRevoke(c, g) == g.by = c \/ IsAdmin(c)

(* The rule as it is meant: what level c holds over u, which is stored or   *)
(* was until a moment ago.                                                  *)
Known(c, u) == c \in DOMAIN users /\ u \in Upload /\ owner[u] \in DOMAIN users
Held(c, u) ==
    IF ~Known(c, u) THEN LevelNone
    ELSE IF UploadOrg(u) # OrgOf(c) THEN LevelNone
    ELSE IF owner[u] = c THEN LevelFull
    ELSE Max({LevelNone}
             \cup {l \in {LevelDashboard} : IsAdmin(c)}
             \cup {g.level : g \in {x \in grants : /\ x.live /\ x.subject = c
                                                   /\ x.upload = u \/ x.upload = OrgWide}})

----------------------------------------------------------------------------
(* Requests.                                                                *)

At(r, place) == req[r].pc = place
Free(r) == At(r, "idle") \/ At(r, "done")
GoTo(r, place) == req' = [req EXCEPT ![r].pc = place]
End(r) == req' = [req EXCEPT ![r] = Idle]
Answer(r, status) == req' = [req EXCEPT ![r].pc = "done", ![r].status = status]

NewRequest == requests < MaxRequests /\ requests' = requests + 1

(* What the callers of running reads hold after a step that can add to it.  *)
Reading(r) == req[r].pc \in {"grants", "breakglass", "load"}
HeldGrows ==
    held' = [r \in Request |-> IF Reading(r)
                               THEN Max({held[r], Held(req[r].by, req[r].upload)'})
                               ELSE held[r]]

(* Request r begins with its first read; it goes on at fields.pc, is done   *)
(* with an answer, or over.                                                 *)
Begin(r, fields) ==
    /\ Free(r) /\ NewRequest
    /\ req' = [req EXCEPT ![r] = fields]
    /\ held' = [held EXCEPT ![r] = IF fields.kind \in {"get", "start"} /\ fields.upload \in uploads
                                   THEN Held(fields.by, fields.upload) ELSE LevelNone]
    /\ UNCHANGED <<people, sharing, trail, faults>>

MutNotFound == 403   \* Mutant: an upload without access is forbidden.
NotFound == 404
Need(kind) == IF kind = "start" THEN LevelFull ELSE LevelSummary

(* getAnalysis and startAnalysis: Resolve's UploadByID (getAnalysis finds   *)
(* the upload by its analysis, which goes with it).                         *)
Open(r) ==
    \E kind \in {"get", "start"}, c \in DOMAIN users, u \in Upload :
       LET fields == [Idle EXCEPT !.kind = kind, !.by = c, !.upload = u] IN
       \/ /\ Hidden(c, u)
          /\ Begin(r, [fields EXCEPT !.pc = "done", !.status = NotFound])
       \/ /\ ~Hidden(c, u) /\ owner[u] = c
          /\ Begin(r, [fields EXCEPT !.pc = "load", !.level = LevelFull])
       \/ /\ ~Hidden(c, u) /\ owner[u] # c
          /\ Begin(r, [fields EXCEPT !.pc = "grants"])

(* Resolve's BestGrantFor, and Require's verdict.                           *)
ReadGrants(r) ==
    /\ At(r, "grants")
    /\ LET level == Granted(req[r].by, req[r].upload)
           enough == level >= Need(req[r].kind) IN
       \/ level = LevelNone /\ Answer(r, NotFound)
       \/ level # LevelNone /\ enough
          /\ req' = [req EXCEPT ![r].pc = "load", ![r].level = level]
       \/ level # LevelNone /\ ~enough
          /\ IF IsAdmin(req[r].by) THEN GoTo(r, "breakglass") ELSE Answer(r, 403)
    /\ UNCHANGED <<people, sharing, trail, held, requests, faults>>

(* Break-glass: the record first; without it there is no access.            *)
MutUnrecorded(r) ==   \* Mutant: the failed write is only logged.
    req' = [req EXCEPT ![r].pc = "load", ![r].level = Need(req[r].kind)]
Unrecorded(r) == Answer(r, 403)

BreakGlass(r) ==
    /\ At(r, "breakglass")
    /\ \/ /\ trail' = Append(trail, [by |-> req[r].by, on |-> req[r].upload])
          /\ req' = [req EXCEPT ![r].pc = "load", ![r].level = Need(req[r].kind),
                                ![r].record = Len(trail) + 1]
          /\ UNCHANGED faults
       \/ /\ faults < MaxFaults /\ faults' = faults + 1
          /\ Unrecorded(r) /\ UNCHANGED trail
    /\ UNCHANGED <<people, sharing, held, requests>>

(* The findings, with the rows they cite for level full; or a new analysis, *)
(* whose insert fails when the upload has gone.                             *)
Load(r) ==
    /\ At(r, "load")
    /\ Answer(r, IF req[r].kind = "start" /\ req[r].upload \notin uploads THEN 500 ELSE 200)
    /\ UNCHANGED <<people, sharing, trail, held, requests, faults>>

(* createGrant's checks; a refused request is over.  The subject is a user  *)
(* of the caller's organization, and one's own data need no grant.          *)
MayGrant(c, s, u) ==
    /\ OrgOf(s) = OrgOf(c) /\ s # c
    /\ IF u = OrgWide THEN IsAdmin(c)
       ELSE ~Hidden(c, u) /\ MayShare(c, u) /\ owner[u] # s

CheckGrant(r) ==
    \E c, s \in DOMAIN users, u \in Upload \cup {OrgWide} :
       \/ \E l \in ParseLevel :
             /\ MayGrant(c, s, u)
             /\ Begin(r, [Idle EXCEPT !.pc = "upsert", !.kind = "grant", !.by = c,
                                      !.upload = u, !.subject = s, !.level = l])
       \/ ~MayGrant(c, s, u) /\ Begin(r, Idle)

(* UpsertGrant: one row for a subject and upload, one for a subject and the *)
(* organization; the upload is a foreign key.                               *)
SameKey(g, s, u, o) == g.subject = s /\ g.upload = u /\ (u = OrgWide => g.org = o)

Upsert(r) ==
    /\ At(r, "upsert")
    /\ LET q == req[r]
           old == {g \in grants : SameKey(g, q.subject, q.upload, OrgOf(q.by))}
           row(id) == [id |-> id, org |-> OrgOf(q.by), upload |-> q.upload,
                       subject |-> q.subject, level |-> q.level, by |-> q.by, live |-> TRUE] IN
       \/ /\ q.upload \notin uploads \cup {OrgWide}
          /\ UNCHANGED sharing
       \/ /\ q.upload \in uploads \cup {OrgWide}
          /\ \/ /\ old = {} /\ lastGrant < MaxGrants
                /\ lastGrant' = lastGrant + 1
                /\ grants' = grants \cup {row(lastGrant + 1)}
             \/ /\ old # {} /\ UNCHANGED lastGrant
                /\ grants' = (grants \ old) \cup {row(g.id) : g \in old}
    /\ End(r)
    /\ UNCHANGED <<people, trail, requests, faults>>
    /\ HeldGrows

(* deleteGrant: GrantByID and the check, then DeleteGrant by id.            *)
CheckRevoke(r) ==
    \E c \in DOMAIN users, id \in 1 .. lastGrant :
       LET allowed == \E g \in grants : g.id = id /\ g.org = OrgOf(c) /\ MayRevoke(c, g) IN
       \/ allowed /\ Begin(r, [Idle EXCEPT !.pc = "delete", !.kind = "revoke", !.by = c,
                                           !.id = id])
       \/ ~allowed /\ Begin(r, Idle)

DeleteGrant(r) ==
    /\ At(r, "delete")
    /\ grants' = {g \in grants : g.id # req[r].id}
    /\ End(r)
    /\ UNCHANGED <<people, lastGrant, trail, held, requests, faults>>

(* A database error, or a client that leaves.                               *)
GiveUp(r) ==
    /\ ~Free(r) /\ End(r)
    /\ held' = [held EXCEPT ![r] = LevelNone]
    /\ UNCHANGED <<people, sharing, trail, requests, faults>>

----------------------------------------------------------------------------
(* People, uploads and time.                                                *)

AddUser(c, o, role) ==
    users' = [x \in DOMAIN users \cup {c} |->
                IF x = c THEN [org |-> o, role |-> role] ELSE users[x]]

(* CreateOrgWithOwner: the organization's name is not taken.                *)
Register(c, o) ==
    /\ c \notin DOMAIN users /\ \A x \in DOMAIN users : OrgOf(x) # o
    /\ AddUser(c, o, "owner") /\ NewRequest
    /\ UNCHANGED <<owner, uploads, sharing, trail, req, held, faults>>

(* inviteMember: by an admin, and a new owner only by an owner.             *)
Invite(a, c, role) ==
    /\ c \notin DOMAIN users /\ IsAdmin(a)
    /\ role = "owner" => users[a].role = "owner"
    /\ AddUser(c, OrgOf(a), role) /\ NewRequest
    /\ UNCHANGED <<owner, uploads, sharing, trail, req, held, faults>>

(* An upload is stored (see Ingest).                                        *)
Store(c, u) ==
    /\ owner[u] = NoUser
    /\ owner' = [owner EXCEPT ![u] = c]
    /\ uploads' = uploads \cup {u} /\ NewRequest
    /\ UNCHANGED <<users, sharing, trail, req, faults>>
    /\ HeldGrows

(* deleteUpload: the owner or an admin; the grants go with the upload.      *)
DeleteUpload(c, u) ==
    /\ ~Hidden(c, u) /\ MayShare(c, u)
    /\ uploads' = uploads \ {u}
    /\ grants' = {g \in grants : g.upload # u} /\ NewRequest
    /\ UNCHANGED <<users, owner, lastGrant, trail, req, held, faults>>

(* expires_at passes.                                                       *)
Expire(g) ==
    /\ g.live
    /\ grants' = (grants \ {g}) \cup {[g EXCEPT !.live = FALSE]}
    /\ UNCHANGED <<people, lastGrant, trail, req, held, requests, faults>>

RequestStep ==
    \E r \in Request :
       \/ Open(r) \/ ReadGrants(r) \/ BreakGlass(r) \/ Load(r)
       \/ CheckGrant(r) \/ Upsert(r) \/ CheckRevoke(r) \/ DeleteGrant(r)
       \/ GiveUp(r)
UserStep ==
    \/ \E c \in User, o \in Org : Register(c, o)
    \/ \E a \in DOMAIN users, c \in User, role \in Role : Invite(a, c, role)
ExpiryStep == \E g \in grants : Expire(g)
StoreStep == \E c \in DOMAIN users, u \in Upload : Store(c, u)
DeleteStep == \E c \in DOMAIN users, u \in Upload : DeleteUpload(c, u)

Next == RequestStep \/ UserStep \/ ExpiryStep \/ StoreStep \/ DeleteStep
Spec == Init /\ [][Next]_vars

----------------------------------------------------------------------------
(* Properties.                                                              *)

(* Every variable has its type.                                             *)
TypeOK ==
    /\ DOMAIN users \subseteq User
    /\ \A c \in DOMAIN users : users[c] \in [org : Org, role : Role]
    /\ owner \in [Upload -> DOMAIN users \cup {NoUser}]
    /\ uploads \subseteq {u \in Upload : owner[u] # NoUser}
    /\ grants \subseteq Grant /\ lastGrant \in 0 .. MaxGrants
    /\ req \in [Request ->
          [pc : {"idle", "grants", "breakglass", "load", "upsert", "delete", "done"},
           kind : {"get", "start", "grant", "revoke"}, by : DOMAIN users \cup {NoUser},
           upload : Upload \cup {OrgWide}, subject : DOMAIN users \cup {NoUser},
           level : Level, id : 0 .. MaxGrants, record : Nat,
           status : {0, 200, 403, 404, 500}]]
    /\ held \in [Request -> Level]
    /\ trail \in Seq([by : User, on : Upload])
    /\ requests \in 0 .. MaxRequests /\ faults \in 0 .. MaxFaults

(* Nothing is disclosed, and no analysis started, above a level the caller  *)
(* held at some moment of the request, except to an administrator whose     *)
(* break-glass record for this very request is in the audit log (Require),  *)
(* whatever is granted, revoked, deleted or expires meanwhile.              *)
DisclosureJustified ==
    \A r \in Request :
       (At(r, "done") /\ req[r].kind \in {"get", "start"} /\ req[r].status = 200) =>
          \/ req[r].level <= held[r]
          \/ /\ IsAdmin(req[r].by) /\ held[r] # LevelNone
             /\ req[r].record \in DOMAIN trail
             /\ trail[req[r].record] = [by |-> req[r].by, on |-> req[r].upload]

(* A caller who at no moment of a read could see the upload is told nothing *)
(* but that it is not found (ErrNotFound's comment): not 403, not 200.      *)
ExistenceHidden ==
    \A r \in Request :
       (At(r, "done") /\ req[r].kind \in {"get", "start"} /\ held[r] = LevelNone) =>
          req[r].status = 404

(* The list, search and the action plan show exactly the uploads that the   *)
(* resolver gives the caller a level for: the two statements of the rule do *)
(* not drift apart.                                                         *)
ListingAgrees ==
    \A c \in DOMAIN users : Visible(c) = {u \in uploads : Resolve(c, u) # LevelNone}

(* A grant in force was issued by someone entitled to, within one           *)
(* organization, and is the only one for its subject and upload; it refers  *)
(* to an upload that exists, whatever was deleted while it was issued.      *)
GrantAuthority ==
    \A g \in grants :
       /\ g.id <= lastGrant /\ OrgOf(g.by) = g.org /\ OrgOf(g.subject) = g.org
       /\ g.subject # g.by
       /\ IF g.upload = OrgWide THEN IsAdmin(g.by)
          ELSE /\ g.upload \in uploads /\ UploadOrg(g.upload) = g.org
               /\ owner[g.upload] # g.subject
               /\ owner[g.upload] = g.by \/ IsAdmin(g.by)
       /\ \A h \in grants : (h.subject = g.subject /\ h.upload = g.upload) => h = g
=============================================================================
