---------------------------- MODULE Access_proofs ---------------------------
(***************************************************************************)
(* Theorems of Access, for any users, organizations, uploads and number of *)
(* requests at a time.                                                     *)
(***************************************************************************)
EXTENDS Access, TLAPS

AdminRoles == {"admin", "owner"}

Statuses == {0, 200, 403, 404, 500}

(* The records a request can be, when the users are us. *)
Requests(us) ==
    [pc : {"idle", "grants", "breakglass", "load", "upsert", "delete", "done"},
     kind : {"get", "start", "grant", "revoke"}, by : DOMAIN us \cup {NoUser},
     upload : Upload \cup {OrgWide}, subject : DOMAIN us \cup {NoUser},
     level : Level, id : 0 .. MaxGrants, record : Nat,
     status : Statuses]

(* c may share u (or everything) with s, by what never changes. *)
Entitled(us, ow, c, s, u) ==
    /\ c \in DOMAIN us /\ s \in DOMAIN us /\ us[s].org = us[c].org /\ s # c
    /\ IF u = OrgWide THEN us[c].role \in AdminRoles
       ELSE /\ u \in Upload /\ ow[u] \in DOMAIN us /\ us[ow[u]].org = us[c].org
            /\ ow[u] # s
            /\ ow[u] = c \/ us[c].role \in AdminRoles

(* u is, or was, an upload of a colleague of c. *)
Colleague(us, ow, c, u) ==
    /\ c \in DOMAIN us /\ u \in Upload /\ ow[u] \in DOMAIN us
    /\ us[ow[u]].org = us[c].org /\ ow[u] # c

(* What a handler has established by the place it is at. *)
Sound(us, ow, q) ==
    /\ q.pc \in {"grants", "breakglass", "load"} =>
          /\ q.by \in DOMAIN us /\ q.upload \in Upload
          /\ q.kind \in {"get", "start"}
    /\ q.pc \in {"grants", "breakglass"} => Colleague(us, ow, q.by, q.upload)
    /\ q.pc = "breakglass" => us[q.by].role \in AdminRoles
    /\ q.pc = "upsert" => /\ Entitled(us, ow, q.by, q.subject, q.upload)
                          /\ q.level \in ParseLevel

(* A grant that was issued by someone entitled to, on an upload there is.   *)
Issued(us, ow, stored, last, g) ==
    /\ Entitled(us, ow, g.by, g.subject, g.upload)
    /\ g.org = us[g.by].org /\ g.id <= last
    /\ g.upload # OrgWide => g.upload \in stored

OneEach(gs) ==
    \A g, h \in gs : (h.subject = g.subject /\ h.upload = g.upload) => h = g

(* The inductive invariant. *)
IInv ==
    /\ TypeOK
    /\ \A r \in Request : Sound(users, owner, req[r])
    /\ \A g \in grants : Issued(users, owner, uploads, lastGrant, g)
    /\ OneEach(grants)

----------------------------------------------------------------------------
(* People are only added, and an upload keeps its owner. *)
PeopleGrow ==
    /\ DOMAIN users \subseteq DOMAIN users'
    /\ \A c \in DOMAIN users : users'[c] = users[c]
    /\ \A u \in Upload : owner[u] \in DOMAIN users => owner'[u] = owner[u]

LEMMA EntitledStays ==
    ASSUME TypeOK, PeopleGrow, NEW c, NEW s, NEW u, Entitled(users, owner, c, s, u)
    PROVE  Entitled(users', owner', c, s, u)
  BY DEF TypeOK, PeopleGrow, Entitled

LEMMA SoundStays ==
    ASSUME TypeOK, PeopleGrow, NEW q, Sound(users, owner, q)
    PROVE  Sound(users', owner', q)
<1>1. Colleague(users, owner, q.by, q.upload) => Colleague(users', owner', q.by, q.upload)
  BY DEF TypeOK, PeopleGrow, Colleague
<1>2. Entitled(users, owner, q.by, q.subject, q.upload)
        => Entitled(users', owner', q.by, q.subject, q.upload)
  BY EntitledStays
<1> QED
  BY <1>1, <1>2 DEF Sound, PeopleGrow, Colleague

LEMMA RequestsGrow ==
    ASSUME PeopleGrow, NEW q \in Requests(users)
    PROVE  q \in Requests(users')
  BY DEF PeopleGrow, Requests

(* Adding a user. *)
LEMMA AddUserGrows ==
    ASSUME TypeOK, NEW c \in User, NEW o \in Org, NEW role \in Role,
           c \notin DOMAIN users, AddUser(c, o, role), UNCHANGED <<owner, uploads>>
    PROVE  /\ PeopleGrow
           /\ DOMAIN users' \subseteq User
           /\ \A x \in DOMAIN users' : users'[x] \in [org : Org, role : Role]
<1>1. DOMAIN users' = DOMAIN users \cup {c}
  BY DEF AddUser
<1>2. \A x \in DOMAIN users : users'[x] = users[x]
  BY DEF AddUser
<1>3. users'[c] = [org |-> o, role |-> role]
  BY DEF AddUser
<1> QED
  BY <1>1, <1>2, <1>3 DEF TypeOK, PeopleGrow

LEMMA StoreGrows ==
    ASSUME TypeOK, NEW c \in DOMAIN users, NEW u \in Upload, Store(c, u)
    PROVE  /\ PeopleGrow
           /\ owner' \in [Upload -> DOMAIN users' \cup {NoUser}]
           /\ uploads' \subseteq {x \in Upload : owner'[x] # NoUser}
  BY AccessAssumption DEF TypeOK, PeopleGrow, Store

LEMMA OthersKeepPeople ==
    ASSUME UNCHANGED people
    PROVE  PeopleGrow
  BY DEF people, PeopleGrow

----------------------------------------------------------------------------
(* Levels.                                                                  *)
LEMMA MaxLevel ==
    ASSUME NEW S, S \subseteq Level, S # {}
    PROVE  Max(S) \in S /\ \A x \in S : Max(S) >= x
<1>1. \E x \in S : \A y \in S : x >= y
  <2>1. CASE 3 \in S
    BY <2>1 DEF Level, LevelNone, LevelFull
  <2>2. CASE 3 \notin S /\ 2 \in S
    BY <2>2 DEF Level, LevelNone, LevelFull
  <2>3. CASE 3 \notin S /\ 2 \notin S /\ 1 \in S
    BY <2>3 DEF Level, LevelNone, LevelFull
  <2>4. CASE 3 \notin S /\ 2 \notin S /\ 1 \notin S
    <3>1. \A y \in S : y = 0
      BY <2>4 DEF Level, LevelNone, LevelFull
    <3>2. PICK z \in S : TRUE
      OBVIOUS
    <3> QED
      BY <3>1, <3>2
  <2> QED
    BY <2>1, <2>2, <2>3, <2>4
<1> QED
  BY <1>1 DEF Max

LEMMA HeldIsLevel ==
    ASSUME grants \subseteq Grant, NEW c, NEW u
    PROVE  Held(c, u) \in Level
<1> DEFINE admin == {l \in {LevelDashboard} : IsAdmin(c)}
           given == {g.level : g \in {x \in grants : /\ x.live /\ x.subject = c
                                                     /\ x.upload = u \/ x.upload = OrgWide}}
<1>1. {LevelNone} \cup admin \cup given \subseteq Level
  BY DEF Grant, Level, LevelNone, LevelSummary, LevelDashboard, LevelFull
<1>2. Max({LevelNone} \cup admin \cup given) \in Level
  BY <1>1, MaxLevel, Zenon
<1>3. LevelNone \in Level /\ LevelFull \in Level
  BY DEF Level, LevelNone, LevelFull
<1> QED
  BY <1>2, <1>3, Zenon DEF Held

LEMMA HeldIsLevelNext ==
    ASSUME grants' \subseteq Grant, NEW c, NEW u
    PROVE  Held(c, u)' \in Level
<1> DEFINE admin == {l \in {LevelDashboard} : IsAdmin(c)'}
           given == {g.level : g \in {x \in grants' : /\ x.live /\ x.subject = c
                                                      /\ x.upload = u \/ x.upload = OrgWide}}
<1>1. {LevelNone} \cup admin \cup given \subseteq Level
  BY DEF Grant, Level, LevelNone, LevelSummary, LevelDashboard, LevelFull
<1>2. Max({LevelNone} \cup admin \cup given) \in Level
  BY <1>1, MaxLevel, Zenon
<1>3. LevelNone \in Level /\ LevelFull \in Level
  BY DEF Level, LevelNone, LevelFull
<1> QED
  BY <1>2, <1>3, Zenon DEF Held

----------------------------------------------------------------------------
(* The invariant, by what a step touches.                                   *)
LEMMA TypeOfRequests == TypeOK <=>
    /\ DOMAIN users \subseteq User
    /\ \A c \in DOMAIN users : users[c] \in [org : Org, role : Role]
    /\ owner \in [Upload -> DOMAIN users \cup {NoUser}]
    /\ uploads \subseteq {u \in Upload : owner[u] # NoUser}
    /\ grants \subseteq Grant /\ lastGrant \in 0 .. MaxGrants
    /\ req \in [Request -> Requests(users)]
    /\ held \in [Request -> Level]
    /\ trail \in Seq([by : User, on : Upload])
    /\ requests \in 0 .. MaxRequests /\ faults \in 0 .. MaxFaults
  BY DEF TypeOK, Requests, Statuses

LEMMA IdleIsSound == Idle \in Requests(users) /\ Sound(users, owner, Idle)
  BY AccessAssumption DEF Idle, Requests, Statuses, Sound, Level, LevelNone, LevelFull

(* A step of one request that leaves people and grants alone. *)
LEMMA RequestKeeps ==
    ASSUME IInv, NEW r \in Request, NEW q \in Requests(users), Sound(users, owner, q),
           req' = [req EXCEPT ![r] = q], held' \in [Request -> Level],
           requests' \in 0 .. MaxRequests, faults' \in 0 .. MaxFaults,
           trail' \in Seq([by : User, on : Upload]),
           UNCHANGED <<people, sharing>>
    PROVE  IInv'
<1> USE DEF people, sharing
<1>1. req' \in [Request -> Requests(users')]
  BY TypeOfRequests DEF IInv, TypeOK, Requests, Statuses
<1>2. TypeOK'
  BY <1>1 DEF IInv, TypeOK, Requests, Statuses
<1>3. \A x \in Request : Sound(users', owner', req'[x])
  <2> TAKE x \in Request
  <2>1. req'[x] = IF x = r THEN q ELSE req[x]
    BY DEF IInv, TypeOK
  <2> QED
    BY <2>1 DEF IInv
<1>4. (\A g \in grants' : Issued(users', owner', uploads', lastGrant', g)) /\ OneEach(grants')
  BY DEF IInv, Issued, OneEach
<1> QED
  BY <1>2, <1>3, <1>4 DEF IInv

(* A step of the world: people, uploads or grants change, no request does.  *)
LEMMA WorldKeeps ==
    ASSUME IInv, PeopleGrow, req' = req, held' \in [Request -> Level],
           DOMAIN users' \subseteq User,
           \A c \in DOMAIN users' : users'[c] \in [org : Org, role : Role],
           owner' \in [Upload -> DOMAIN users' \cup {NoUser}],
           uploads' \subseteq {u \in Upload : owner'[u] # NoUser},
           grants' \subseteq Grant, lastGrant' = lastGrant, trail' = trail,
           requests' \in 0 .. MaxRequests, faults' = faults,
           \A g \in grants' : \E h \in grants :
              g = h \/ g = [h EXCEPT !.live = FALSE],
           \A g \in grants' : g.upload # OrgWide => g.upload \in uploads',
           OneEach(grants')
    PROVE  IInv'
<1>1. TypeOK'
  <2>1. req' \in [Request -> Requests(users')]
    BY RequestsGrow, TypeOfRequests DEF IInv
  <2> QED
    BY <2>1 DEF IInv, TypeOK, Requests, Statuses
<1>2. \A r \in Request : Sound(users', owner', req'[r])
  BY SoundStays DEF IInv
<1>3. \A g \in grants' : Issued(users', owner', uploads', lastGrant', g)
  <2> SUFFICES ASSUME NEW g \in grants' PROVE Issued(users', owner', uploads', lastGrant', g)
    OBVIOUS
  <2>1. PICK h \in grants : g = h \/ g = [h EXCEPT !.live = FALSE]
    OBVIOUS
  <2>2. Issued(users, owner, uploads, lastGrant, h) /\ h \in Grant
    BY DEF IInv, TypeOK
  <2>3. /\ g.by = h.by /\ g.subject = h.subject /\ g.upload = h.upload
        /\ g.org = h.org /\ g.id = h.id
    BY <2>1, <2>2 DEF Grant
  <2>4. Entitled(users', owner', g.by, g.subject, g.upload)
    BY <2>2, <2>3, EntitledStays DEF Issued, IInv
  <2>5. g.org = users'[g.by].org
    BY <2>2, <2>3 DEF Issued, Entitled, PeopleGrow
  <2> QED
    BY <2>2, <2>3, <2>4, <2>5 DEF Issued
<1> QED
  BY <1>1, <1>2, <1>3 DEF IInv

LEMMA StartType ==
    ASSUME NEW r \in Request, NEW fields, IInv, Begin(r, fields)
    PROVE  /\ held' \in [Request -> Level]
           /\ requests' \in 0 .. MaxRequests /\ faults' \in 0 .. MaxFaults
           /\ trail' \in Seq([by : User, on : Upload])
           /\ req' = [req EXCEPT ![r] = fields]
           /\ UNCHANGED <<people, sharing>>
<1>1. Held(fields.by, fields.upload) \in Level /\ LevelNone \in Level
  BY HeldIsLevel DEF IInv, TypeOK, Level, LevelNone, LevelFull
<1>2. held' \in [Request -> Level]
  BY <1>1 DEF Begin, IInv, TypeOK
<1>3. requests' \in 0 .. MaxRequests
  BY AccessAssumption DEF Begin, NewRequest, IInv, TypeOK
<1> QED
  BY <1>2, <1>3 DEF Begin, IInv, TypeOK

LEMMA BeginKeeps ==
    ASSUME IInv, NEW r \in Request, NEW q \in Requests(users), Sound(users, owner, q),
           Begin(r, q)
    PROVE  IInv'
  BY StartType, RequestKeeps

(* Setting one field keeps a request a request. *)
LEMMA FieldType ==
    ASSUME NEW q \in Requests(users), NEW x
    PROVE  /\ x \in {"idle", "grants", "breakglass", "load", "upsert", "delete", "done"}
                => [q EXCEPT !.pc = x] \in Requests(users)
           /\ x \in {"get", "start", "grant", "revoke"}
                => [q EXCEPT !.kind = x] \in Requests(users)
           /\ x \in DOMAIN users => [q EXCEPT !.by = x] \in Requests(users)
           /\ x \in Upload \cup {OrgWide} => [q EXCEPT !.upload = x] \in Requests(users)
           /\ x \in DOMAIN users => [q EXCEPT !.subject = x] \in Requests(users)
           /\ x \in Level => [q EXCEPT !.level = x] \in Requests(users)
           /\ x \in 0 .. MaxGrants => [q EXCEPT !.id = x] \in Requests(users)
           /\ x \in Nat => [q EXCEPT !.record = x] \in Requests(users)
           /\ x \in Statuses => [q EXCEPT !.status = x] \in Requests(users)
  BY DEF Requests

LEMMA LevelsAreLevels ==
    /\ LevelNone \in Level /\ LevelFull \in Level /\ LevelSummary \in Level
    /\ LevelDashboard \in Level /\ ParseLevel \subseteq Level
  BY DEF Level, ParseLevel, LevelNone, LevelSummary, LevelDashboard, LevelFull

LEMMA StatusesAreStatuses ==
    {NotFound, 200, 403, 500} \subseteq Statuses
  BY DEF NotFound, Statuses

LEMMA OpenKeeps == ASSUME IInv, NEW r \in Request, Open(r) PROVE IInv'
<1> DEFINE first(kind, c, u) == [Idle EXCEPT !.kind = kind, !.by = c, !.upload = u]
<1>1. PICK kind \in {"get", "start"}, c \in DOMAIN users, u \in Upload :
         \/ Begin(r, [first(kind, c, u) EXCEPT !.pc = "done", !.status = NotFound])
         \/ Begin(r, [first(kind, c, u) EXCEPT !.pc = "load", !.level = LevelFull])
         \/ /\ ~Hidden(c, u) /\ owner[u] # c
            /\ Begin(r, [first(kind, c, u) EXCEPT !.pc = "grants"])
  BY DEF Open
<1> DEFINE q == first(kind, c, u)
<1>2. /\ q \in Requests(users)
      /\ q.kind \in {"get", "start"} /\ q.by = c /\ q.upload = u
  BY IdleIsSound, FieldType DEF Idle
<1>3. \/ Begin(r, [[q EXCEPT !.pc = "done"] EXCEPT !.status = NotFound])
      \/ Begin(r, [[q EXCEPT !.pc = "load"] EXCEPT !.level = LevelFull])
      \/ ~Hidden(c, u) /\ owner[u] # c /\ Begin(r, [q EXCEPT !.pc = "grants"])
  BY <1>1
<1> HIDE DEF q
<1>4. CASE Begin(r, [[q EXCEPT !.pc = "done"] EXCEPT !.status = NotFound])
  <2> DEFINE p == [[q EXCEPT !.pc = "done"] EXCEPT !.status = NotFound]
  <2>1. p \in Requests(users)
    BY ZenonT(30), <1>2, FieldType, StatusesAreStatuses
  <2>2. Sound(users, owner, p)
    BY <1>2 DEF Sound, Requests
  <2> HIDE DEF p
  <2> QED
    BY <1>4, <2>1, <2>2, BeginKeeps DEF p
<1>5. CASE Begin(r, [[q EXCEPT !.pc = "load"] EXCEPT !.level = LevelFull])
  <2> DEFINE p == [[q EXCEPT !.pc = "load"] EXCEPT !.level = LevelFull]
  <2>1. p \in Requests(users)
    BY <1>2, FieldType, LevelsAreLevels
  <2>2. Sound(users, owner, p)
    BY <1>2 DEF Sound, Requests
  <2> HIDE DEF p
  <2> QED
    BY <1>5, <2>1, <2>2, BeginKeeps DEF p
<1>6. CASE ~Hidden(c, u) /\ owner[u] # c /\ Begin(r, [q EXCEPT !.pc = "grants"])
  <2> DEFINE p == [q EXCEPT !.pc = "grants"]
  <2>1. Colleague(users, owner, c, u)
    BY <1>6 DEF Colleague, Hidden, UploadOrg, OrgOf, IInv, TypeOK
  <2>2. p \in Requests(users)
    BY <1>2, FieldType
  <2>3. Sound(users, owner, p)
    BY <1>2, <2>1 DEF Sound, Requests
  <2> HIDE DEF p
  <2> QED
    BY <1>6, <2>2, <2>3, BeginKeeps DEF p
<1> QED
  BY <1>3, <1>4, <1>5, <1>6

(* A handler of a read goes on, or answers. *)
LEMMA GoOnKeeps ==
    ASSUME IInv, NEW r \in Request, Reading(r), NEW p \in Requests(users),
           req' = [req EXCEPT ![r] = p],
           p.by = req[r].by, p.upload = req[r].upload, p.kind = req[r].kind,
           p.pc \in {"load", "breakglass", "done"},
           p.pc = "breakglass" => At(r, "grants") /\ IsAdmin(p.by),
           trail' \in Seq([by : User, on : Upload]), faults' \in 0 .. MaxFaults,
           UNCHANGED <<people, sharing, held, requests>>
    PROVE  IInv'
<1>1. Sound(users, owner, req[r])
  BY DEF IInv
<1>2. Sound(users, owner, p)
  BY <1>1 DEF Sound, Reading, At, IsAdmin, AdminRoles
<1>3. held' \in [Request -> Level] /\ requests' \in 0 .. MaxRequests
  BY DEF IInv, TypeOK
<1> QED
  BY <1>2, <1>3, RequestKeeps

LEMMA AnswerKeeps ==
    ASSUME IInv, NEW r \in Request, Reading(r), NEW status \in Statuses,
           Answer(r, status), trail' = trail, faults' \in 0 .. MaxFaults,
           UNCHANGED <<people, sharing, held, requests>>
    PROVE  IInv'
<1> DEFINE p == [[req[r] EXCEPT !.pc = "done"] EXCEPT !.status = status]
<1>1. req[r] \in Requests(users) /\ trail' \in Seq([by : User, on : Upload])
  BY TypeOfRequests DEF IInv
<1>2. p \in Requests(users)
  <2>1. [req[r] EXCEPT !.pc = "done"] \in Requests(users)
    BY <1>1, FieldType
  <2> QED
    BY <2>1, FieldType
<1>3. req' = [req EXCEPT ![r] = p]
  BY DEF Answer
<1>4. p.by = req[r].by /\ p.upload = req[r].upload /\ p.kind = req[r].kind /\ p.pc = "done"
  BY <1>1 DEF Requests
<1> HIDE DEF p
<1> QED
  BY <1>1, <1>2, <1>3, <1>4, GoOnKeeps

LEMMA EscalateKeeps ==
    ASSUME IInv, NEW r \in Request, At(r, "grants"), GoTo(r, "breakglass"),
           IsAdmin(req[r].by), UNCHANGED <<people, sharing, trail, held, requests, faults>>
    PROVE  IInv'
<1> DEFINE p == [req[r] EXCEPT !.pc = "breakglass"]
<1>1. req[r] \in Requests(users) /\ Reading(r)
      /\ trail' \in Seq([by : User, on : Upload]) /\ faults' \in 0 .. MaxFaults
  BY TypeOfRequests DEF IInv, At, Reading
<1>2. p \in Requests(users)
  BY <1>1, FieldType
<1>3. req' = [req EXCEPT ![r] = p]
  BY DEF GoTo
<1>4. /\ p.by = req[r].by /\ p.upload = req[r].upload /\ p.kind = req[r].kind
      /\ p.pc = "breakglass"
  BY <1>1 DEF Requests
<1> HIDE DEF p
<1> QED
  BY <1>1, <1>2, <1>3, <1>4, GoOnKeeps

(* Every grant has a level, and so has the best of them. *)
LEMMA GrantedIsLevel ==
    ASSUME TypeOK, NEW c, NEW u
    PROVE  Granted(c, u) \in Level /\ BestGrantFor(c, u) \in Level
<1> DEFINE given == {g.level : g \in {x \in grants : Covers(x, c, u) /\ x.live}}
           both == {BestGrantFor(c, u), IF IsAdmin(c) THEN LevelDashboard ELSE LevelNone}
<1>1. {LevelNone} \cup given \subseteq Level
  BY DEF TypeOK, Grant, Level, LevelNone, LevelSummary, LevelFull
<1>2. BestGrantFor(c, u) \in Level
  BY <1>1, MaxLevel, Zenon DEF BestGrantFor
<1>3. both \subseteq Level /\ both # {}
  BY <1>2, LevelsAreLevels
<1>4. Max(both) \in Level
  BY <1>3, MaxLevel, Zenon
<1> QED
  BY <1>2, <1>4, Zenon DEF Granted

LEMMA ReadGrantsKeeps == ASSUME IInv, NEW r \in Request, ReadGrants(r) PROVE IInv'
<1> DEFINE level == Granted(req[r].by, req[r].upload)
           p == [[req[r] EXCEPT !.pc = "load"] EXCEPT !.level = level]
<1>1. level \in Level
  BY GrantedIsLevel DEF IInv
<1>2. \/ Answer(r, NotFound)
      \/ req' = [req EXCEPT ![r] = p]
      \/ IsAdmin(req[r].by) /\ GoTo(r, "breakglass")
      \/ Answer(r, 403)
  BY DEF ReadGrants
<1>3. /\ At(r, "grants") /\ Reading(r)
      /\ UNCHANGED <<people, sharing, trail, held, requests, faults>>
  BY DEF ReadGrants, At, Reading
<1> HIDE DEF level
<1>4. /\ req[r] \in Requests(users)
      /\ trail' \in Seq([by : User, on : Upload]) /\ faults' \in 0 .. MaxFaults
  BY <1>3, TypeOfRequests DEF IInv
<1>5. CASE req' = [req EXCEPT ![r] = p]
  <2>1. p \in Requests(users)
    BY <1>1, <1>4, FieldType
  <2>2. p.by = req[r].by /\ p.upload = req[r].upload /\ p.kind = req[r].kind /\ p.pc = "load"
    BY <1>4 DEF Requests
  <2> HIDE DEF p
  <2> QED
    BY <1>3, <1>4, <1>5, <2>1, <2>2, GoOnKeeps
<1> QED
  BY <1>2, <1>3, <1>4, <1>5, AnswerKeeps, EscalateKeeps, StatusesAreStatuses

LEMMA BreakGlassKeeps == ASSUME IInv, NEW r \in Request, BreakGlass(r) PROVE IInv'
<1>1. /\ At(r, "breakglass") /\ Reading(r) /\ req[r] \in Requests(users)
      /\ Sound(users, owner, req[r])
      /\ UNCHANGED <<people, sharing, held, requests>>
  BY TypeOfRequests DEF BreakGlass, At, Reading, IInv
<1>2. req[r].by \in User /\ req[r].upload \in Upload
  BY <1>1, TypeOfRequests DEF Sound, At, IInv
<1>3. CASE /\ trail' = Append(trail, [by |-> req[r].by, on |-> req[r].upload])
           /\ req' = [req EXCEPT ![r].pc = "load", ![r].level = Need(req[r].kind),
                                 ![r].record = Len(trail) + 1]
           /\ UNCHANGED faults
  <2>1. /\ trail' \in Seq([by : User, on : Upload]) /\ Len(trail) + 1 \in Nat
        /\ faults' \in 0 .. MaxFaults
    BY <1>2, <1>3 DEF IInv, TypeOK
  <2>2. Need(req[r].kind) \in Level
    BY LevelsAreLevels DEF Need
  <2> DEFINE n == Len(trail) + 1
             level == Need(req[r].kind)
             p == [[[req[r] EXCEPT !.pc = "load"] EXCEPT !.level = level] EXCEPT !.record = n]
  <2>3. req' = [req EXCEPT ![r] = p]
    BY <1>3
  <2> HIDE DEF n, level
  <2>4. p \in Requests(users)
    BY <1>1, <2>1, <2>2, FieldType DEF n, level
  <2>5. p.by = req[r].by /\ p.upload = req[r].upload /\ p.kind = req[r].kind /\ p.pc = "load"
    BY <1>1 DEF Requests
  <2> HIDE DEF p
  <2> QED
    BY <1>1, <2>1, <2>3, <2>4, <2>5, GoOnKeeps
<1>4. CASE /\ faults < MaxFaults /\ faults' = faults + 1
           /\ Unrecorded(r) /\ UNCHANGED trail
  <2>1. Answer(r, 403) /\ faults' \in 0 .. MaxFaults
    BY <1>4, AccessAssumption DEF Unrecorded, IInv, TypeOK
  <2> QED
    BY <1>1, <1>4, <2>1, AnswerKeeps, StatusesAreStatuses
<1> QED
  BY <1>3, <1>4 DEF BreakGlass

LEMMA LoadKeeps == ASSUME IInv, NEW r \in Request, Load(r) PROVE IInv'
<1>1. /\ Reading(r) /\ \E status \in Statuses : Answer(r, status)
      /\ UNCHANGED <<people, sharing, trail, held, requests, faults>>
  BY DEF Load, At, Reading, Statuses
<1>2. faults' \in 0 .. MaxFaults
  BY <1>1 DEF IInv, TypeOK
<1> QED
  BY <1>1, <1>2, AnswerKeeps

LEMMA GiveUpKeeps == ASSUME IInv, NEW r \in Request, GiveUp(r) PROVE IInv'
<1>1. /\ req' = [req EXCEPT ![r] = Idle]
      /\ UNCHANGED <<people, sharing, trail, requests, faults>>
  BY DEF GiveUp, End
<1>2. held' \in [Request -> Level]
  BY LevelsAreLevels DEF GiveUp, IInv, TypeOK
<1>3. /\ requests' \in 0 .. MaxRequests /\ faults' \in 0 .. MaxFaults
      /\ trail' \in Seq([by : User, on : Upload])
  BY <1>1 DEF IInv, TypeOK
<1> QED
  BY <1>1, <1>2, <1>3, IdleIsSound, RequestKeeps

LEMMA CheckGrantKeeps == ASSUME IInv, NEW r \in Request, CheckGrant(r) PROVE IInv'
<1>1. \/ \E c, s \in DOMAIN users, u \in Upload \cup {OrgWide}, l \in ParseLevel :
            /\ MayGrant(c, s, u)
            /\ Begin(r, [Idle EXCEPT !.pc = "upsert", !.kind = "grant", !.by = c,
                                     !.upload = u, !.subject = s, !.level = l])
      \/ Begin(r, Idle)
  BY DEF CheckGrant
<1>2. CASE Begin(r, Idle)
  BY <1>2, IdleIsSound, BeginKeeps
<1>3. ASSUME NEW c \in DOMAIN users, NEW s \in DOMAIN users,
             NEW u \in Upload \cup {OrgWide}, NEW l \in ParseLevel, MayGrant(c, s, u),
             Begin(r, [Idle EXCEPT !.pc = "upsert", !.kind = "grant", !.by = c,
                                   !.upload = u, !.subject = s, !.level = l])
      PROVE  IInv'
  <2> DEFINE q == [[[Idle EXCEPT !.pc = "upsert"] EXCEPT !.kind = "grant"] EXCEPT !.by = c]
             p == [[[q EXCEPT !.upload = u] EXCEPT !.subject = s] EXCEPT !.level = l]
  <2>1. Begin(r, p)
    BY <1>3
  <2>2. q \in Requests(users) /\ q.pc = "upsert" /\ q.by = c
    BY IdleIsSound, FieldType DEF Idle
  <2> HIDE DEF q
  <2>3. p \in Requests(users)
    BY <2>2, FieldType, LevelsAreLevels
  <2>4. p.pc = "upsert" /\ p.by = c /\ p.subject = s /\ p.upload = u /\ p.level = l
    BY <2>2 DEF Requests
  <2>5. Entitled(users, owner, c, s, u)
    BY <1>3, AccessAssumption
       DEF MayGrant, MayShare, Entitled, Hidden, UploadOrg, OrgOf, IsAdmin, AdminRoles,
           IInv, TypeOK
  <2> HIDE DEF p
  <2>6. Sound(users, owner, p)
    BY <2>4, <2>5 DEF Sound
  <2> QED
    BY <2>1, <2>3, <2>6, BeginKeeps
<1> QED
  BY <1>1, <1>2, <1>3

LEMMA CheckRevokeKeeps == ASSUME IInv, NEW r \in Request, CheckRevoke(r) PROVE IInv'
<1>1. \/ \E c \in DOMAIN users, id \in 1 .. lastGrant :
            Begin(r, [Idle EXCEPT !.pc = "delete", !.kind = "revoke", !.by = c, !.id = id])
      \/ Begin(r, Idle)
  BY DEF CheckRevoke
<1>2. CASE Begin(r, Idle)
  BY <1>2, IdleIsSound, BeginKeeps
<1>3. ASSUME NEW c \in DOMAIN users, NEW id \in 1 .. lastGrant,
             Begin(r, [Idle EXCEPT !.pc = "delete", !.kind = "revoke", !.by = c, !.id = id])
      PROVE  IInv'
  <2> DEFINE q == [[Idle EXCEPT !.pc = "delete"] EXCEPT !.kind = "revoke"]
             p == [[q EXCEPT !.by = c] EXCEPT !.id = id]
  <2>1. Begin(r, p)
    BY <1>3
  <2>2. q \in Requests(users) /\ q.pc = "delete"
    BY IdleIsSound, FieldType DEF Idle
  <2>3. id \in 0 .. MaxGrants
    BY AccessAssumption DEF IInv, TypeOK
  <2> HIDE DEF q
  <2>4. p \in Requests(users)
    BY <2>2, <2>3, FieldType
  <2>5. p.pc = "delete"
    BY <2>2 DEF Requests
  <2> HIDE DEF p
  <2>6. Sound(users, owner, p)
    BY <2>5 DEF Sound
  <2> QED
    BY <2>1, <2>4, <2>6, BeginKeeps
<1> QED
  BY <1>1, <1>2, <1>3

LEMMA HeldGrowsType ==
    ASSUME TypeOK, grants' \subseteq Grant, HeldGrows
    PROVE  held' \in [Request -> Level]
<1>1. \A r \in Request : Max({held[r], Held(req[r].by, req[r].upload)'}) \in Level
  <2> TAKE r \in Request
  <2> DEFINE both == {held[r], Held(req[r].by, req[r].upload)'}
  <2>1. Held(req[r].by, req[r].upload)' \in Level
    BY HeldIsLevelNext
  <2>2. both \subseteq Level /\ both # {}
    BY <2>1 DEF TypeOK
  <2> QED
    BY <2>2, MaxLevel, Zenon
<1> QED
  BY <1>1, Zenon DEF HeldGrows, TypeOK

(* A request that ends having changed grants, every one of which is sound.  *)
LEMMA EndKeeps ==
    ASSUME IInv, NEW r \in Request, End(r), held' \in [Request -> Level],
           UNCHANGED <<people, trail, requests, faults>>,
           grants' \subseteq Grant, lastGrant' \in 0 .. MaxGrants,
           \A g \in grants' : Issued(users', owner', uploads', lastGrant', g), OneEach(grants')
    PROVE  IInv'
<1> USE DEF people
<1>1. req' \in [Request -> Requests(users')]
  BY TypeOfRequests, IdleIsSound DEF IInv, End
<1>2. TypeOK'
  BY <1>1 DEF IInv, TypeOK, Requests, Statuses
<1>3. \A x \in Request : Sound(users', owner', req'[x])
  <2> TAKE x \in Request
  <2>1. req'[x] = IF x = r THEN Idle ELSE req[x]
    BY DEF IInv, TypeOK, End
  <2> QED
    BY <2>1, IdleIsSound DEF IInv
<1> QED
  BY <1>2, <1>3 DEF IInv

LEMMA DeleteGrantKeeps == ASSUME IInv, NEW r \in Request, DeleteGrant(r) PROVE IInv'
<1>1. /\ grants' \subseteq grants /\ End(r)
      /\ UNCHANGED <<people, lastGrant, trail, held, requests, faults>>
  BY DEF DeleteGrant
<1>2. /\ grants' \subseteq Grant /\ lastGrant' \in 0 .. MaxGrants
      /\ held' \in [Request -> Level]
  BY <1>1 DEF IInv, TypeOK
<1>3. (\A g \in grants' : Issued(users', owner', uploads', lastGrant', g)) /\ OneEach(grants')
  BY <1>1 DEF IInv, Issued, OneEach, people
<1> QED
  BY <1>1, <1>2, <1>3, EndKeeps

LEMMA UpsertKeeps == ASSUME IInv, NEW r \in Request, Upsert(r) PROVE IInv'
<1> DEFINE q == req[r]
           old == {g \in grants : SameKey(g, q.subject, q.upload, OrgOf(q.by))}
           row(id) == [id |-> id, org |-> OrgOf(q.by), upload |-> q.upload,
                       subject |-> q.subject, level |-> q.level, by |-> q.by, live |-> TRUE]
<1>1. /\ Entitled(users, owner, q.by, q.subject, q.upload) /\ q.level \in ParseLevel
      /\ OrgOf(q.by) = users[q.by].org
  BY DEF Upsert, At, IInv, Sound, OrgOf
<1>2. \/ UNCHANGED sharing
      \/ /\ q.upload \in uploads \cup {OrgWide} /\ old = {} /\ lastGrant < MaxGrants
         /\ lastGrant' = lastGrant + 1 /\ grants' = grants \cup {row(lastGrant + 1)}
      \/ /\ q.upload \in uploads \cup {OrgWide} /\ old # {} /\ UNCHANGED lastGrant
         /\ grants' = (grants \ old) \cup {row(g.id) : g \in old}
  BY DEF Upsert
<1>3. End(r) /\ HeldGrows /\ UNCHANGED <<people, trail, requests, faults>>
  BY DEF Upsert
(* The key is the grants' own: subject and upload. *)
<1>4. \A g \in grants : (g.subject = q.subject /\ g.upload = q.upload) <=> g \in old
  <2> SUFFICES ASSUME NEW g \in grants, g.subject = q.subject, g.upload = q.upload
               PROVE  g.org = users[q.by].org
    BY <1>1 DEF SameKey
  <2>1. Issued(users, owner, uploads, lastGrant, g)
    BY DEF IInv
  <2> QED
    BY <1>1, <2>1 DEF Issued, Entitled
<1>5. \A id \in 1 .. MaxGrants : row(id) \in Grant
  BY <1>1, AccessAssumption DEF Grant, Entitled, ParseLevel, IInv, TypeOK
<1>6. \A id : id <= lastGrant' /\ q.upload \in uploads \cup {OrgWide}
               => Issued(users', owner', uploads', lastGrant', row(id))
  BY <1>1, <1>3 DEF Issued, people
<1>7. \A g \in grants : lastGrant <= lastGrant' => Issued(users', owner', uploads', lastGrant', g)
  <2> TAKE g \in grants
  <2>1. /\ Issued(users, owner, uploads, lastGrant, g) /\ g.id \in Int
        /\ lastGrant \in Int
    BY AccessAssumption DEF IInv, TypeOK, Grant
  <2>2. lastGrant' \in Int
    BY <1>2, <2>1 DEF sharing
  <2>3. g.id <= lastGrant /\ lastGrant <= lastGrant' => g.id <= lastGrant'
    BY <2>1, <2>2
  <2> QED
    BY <1>3, <2>1, <2>3 DEF Issued, people
<1>8. CASE UNCHANGED sharing
  <2>1. held' \in [Request -> Level]
    BY <1>3, <1>8, HeldGrowsType DEF IInv, TypeOK, sharing
  <2>2. (\A g \in grants' : Issued(users', owner', uploads', lastGrant', g)) /\ OneEach(grants')
    BY <1>3, <1>8 DEF IInv, Issued, OneEach, people, sharing
  <2> QED
    BY <1>3, <1>8, <2>1, <2>2, EndKeeps DEF IInv, TypeOK, sharing
<1>9. CASE /\ q.upload \in uploads \cup {OrgWide} /\ old = {} /\ lastGrant < MaxGrants
           /\ lastGrant' = lastGrant + 1 /\ grants' = grants \cup {row(lastGrant + 1)}
  <2>1. lastGrant' \in 0 .. MaxGrants /\ lastGrant + 1 \in 1 .. MaxGrants
        /\ lastGrant <= lastGrant' /\ lastGrant + 1 <= lastGrant'
    BY <1>9, AccessAssumption DEF IInv, TypeOK
  <2>2. grants' \subseteq Grant
    BY <1>5, <1>9, <2>1 DEF IInv, TypeOK
  <2>3. \A g \in grants' : Issued(users', owner', uploads', lastGrant', g)
    BY <1>6, <1>7, <1>9, <2>1
  <2>4. \A g \in grants : g.subject # q.subject \/ g.upload # q.upload
    BY <1>4, <1>9
  <2>5. OneEach(grants')
    <3> DEFINE new == row(lastGrant + 1)
    <3>1. new.subject = q.subject /\ new.upload = q.upload
      OBVIOUS
    <3>2. grants' = grants \cup {new}
      BY <1>9
    <3> HIDE DEF new
    <3> QED
      BY <2>4, <3>1, <3>2 DEF OneEach, IInv
  <2>6. held' \in [Request -> Level]
    BY <1>3, <2>2, HeldGrowsType DEF IInv
  <2> QED
    BY <1>3, <2>1, <2>2, <2>3, <2>5, <2>6, EndKeeps
<1>10. CASE /\ q.upload \in uploads \cup {OrgWide} /\ old # {} /\ UNCHANGED lastGrant
            /\ grants' = (grants \ old) \cup {row(g.id) : g \in old}
  <2>1. PICK o \in old : TRUE
    BY <1>10
  <2>2. old = {o}
    BY <1>4, <2>1 DEF IInv, OneEach
  <2>3. grants' = (grants \ old) \cup {row(o.id)}
    BY <1>10, <2>2
  <2>4. /\ o.id \in 1 .. MaxGrants /\ o.id <= lastGrant'
        /\ lastGrant' \in 0 .. MaxGrants /\ lastGrant <= lastGrant'
    BY <1>10, <2>1, AccessAssumption DEF IInv, TypeOK, Grant, Issued
  <2>5. grants' \subseteq Grant
    BY <1>5, <2>3, <2>4 DEF IInv, TypeOK
  <2>6. \A g \in grants' : Issued(users', owner', uploads', lastGrant', g)
    BY <1>6, <1>7, <1>10, <2>3, <2>4
  <2>7. \A g \in grants \ old : g.subject # q.subject \/ g.upload # q.upload
    BY <1>4
  <2>8. OneEach(grants')
    <3> DEFINE new == row(o.id)
    <3>1. new.subject = q.subject /\ new.upload = q.upload
      OBVIOUS
    <3>2. grants' = (grants \ old) \cup {new}
      BY <2>3
    <3> HIDE DEF new
    <3> QED
      BY <2>7, <3>1, <3>2 DEF OneEach, IInv
  <2>9. held' \in [Request -> Level]
    BY <1>3, <2>5, HeldGrowsType DEF IInv
  <2> QED
    BY <1>3, <2>4, <2>5, <2>6, <2>8, <2>9, EndKeeps
<1> QED
  BY <1>2, <1>8, <1>9, <1>10

(* The steps of the world. *)
LEMMA UserKeeps ==
    ASSUME IInv, NEW c \in User, NEW o \in Org, NEW role \in Role,
           c \notin DOMAIN users, AddUser(c, o, role), NewRequest,
           UNCHANGED <<owner, uploads, sharing, trail, req, held, faults>>
    PROVE  IInv'
<1>1. /\ PeopleGrow /\ DOMAIN users' \subseteq User
      /\ \A x \in DOMAIN users' : users'[x] \in [org : Org, role : Role]
  BY AddUserGrows DEF IInv
<1>2. /\ owner' \in [Upload -> DOMAIN users' \cup {NoUser}]
      /\ uploads' \subseteq {u \in Upload : owner'[u] # NoUser}
  BY <1>1 DEF IInv, TypeOK, PeopleGrow
<1>3. requests' \in 0 .. MaxRequests
  BY AccessAssumption DEF NewRequest, IInv, TypeOK
<1>4. grants' = grants /\ lastGrant' = lastGrant
  BY DEF sharing
<1>5. /\ held' \in [Request -> Level] /\ grants' \subseteq Grant /\ OneEach(grants')
      /\ \A g \in grants' : g.upload # OrgWide => g.upload \in uploads'
  BY <1>4 DEF IInv, TypeOK, Issued
<1>6. \A g \in grants' : \E h \in grants : g = h \/ g = [h EXCEPT !.live = FALSE]
  BY <1>4
<1> QED
  BY <1>1, <1>2, <1>3, <1>4, <1>5, <1>6, WorldKeeps

LEMMA RegisterKeeps ==
    ASSUME IInv, NEW c \in User, NEW o \in Org, Register(c, o)
    PROVE  IInv'
  BY UserKeeps DEF Register, Role

LEMMA InviteKeeps ==
    ASSUME IInv, NEW a \in DOMAIN users, NEW c \in User, NEW role \in Role, Invite(a, c, role)
    PROVE  IInv'
<1>1. OrgOf(a) \in Org
  BY DEF IInv, TypeOK, OrgOf
<1> QED
  BY <1>1, UserKeeps DEF Invite

LEMMA StoreKeeps ==
    ASSUME IInv, NEW c \in DOMAIN users, NEW u \in Upload, Store(c, u)
    PROVE  IInv'
<1>1. /\ PeopleGrow /\ owner' \in [Upload -> DOMAIN users' \cup {NoUser}]
      /\ uploads' \subseteq {x \in Upload : owner'[x] # NoUser}
  BY StoreGrows DEF IInv
<1>2. /\ grants' = grants /\ lastGrant' = lastGrant /\ users' = users
      /\ uploads \subseteq uploads'
      /\ UNCHANGED <<trail, req, faults>>
  BY DEF Store, sharing
<1>3. requests' \in 0 .. MaxRequests
  BY AccessAssumption DEF Store, NewRequest, IInv, TypeOK
<1>4. held' \in [Request -> Level]
  BY <1>2, HeldGrowsType DEF Store, IInv, TypeOK
<1>5. /\ grants' \subseteq Grant /\ OneEach(grants') /\ DOMAIN users' \subseteq User
      /\ \A g \in grants' : g.upload # OrgWide => g.upload \in uploads'
      /\ \A x \in DOMAIN users' : users'[x] \in [org : Org, role : Role]
  BY <1>2 DEF IInv, TypeOK, Issued
<1>6. \A g \in grants' : \E h \in grants : g = h \/ g = [h EXCEPT !.live = FALSE]
  BY <1>2
<1> QED
  BY <1>1, <1>2, <1>3, <1>4, <1>5, <1>6, WorldKeeps

LEMMA DeleteUploadKeeps ==
    ASSUME IInv, NEW c \in DOMAIN users, NEW u \in Upload, DeleteUpload(c, u)
    PROVE  IInv'
<1>1. /\ UNCHANGED <<users, owner, lastGrant, trail, req, held, faults>>
      /\ uploads' = uploads \ {u} /\ grants' = {g \in grants : g.upload # u}
  BY DEF DeleteUpload
<1>2. /\ PeopleGrow /\ owner' \in [Upload -> DOMAIN users' \cup {NoUser}]
      /\ uploads' \subseteq {x \in Upload : owner'[x] # NoUser}
      /\ DOMAIN users' \subseteq User /\ held' \in [Request -> Level]
      /\ \A x \in DOMAIN users' : users'[x] \in [org : Org, role : Role]
  BY <1>1 DEF IInv, TypeOK, PeopleGrow
<1>3. requests' \in 0 .. MaxRequests
  BY AccessAssumption DEF DeleteUpload, NewRequest, IInv, TypeOK
<1>4. /\ grants' \subseteq grants /\ grants' \subseteq Grant /\ OneEach(grants')
      /\ \A g \in grants' : g.upload # OrgWide => g.upload \in uploads'
  BY <1>1 DEF IInv, TypeOK, Issued, OneEach
<1>5. \A g \in grants' : \E h \in grants : g = h \/ g = [h EXCEPT !.live = FALSE]
  BY <1>4
<1> QED
  BY <1>1, <1>2, <1>3, <1>4, <1>5, WorldKeeps

LEMMA ExpireKeeps == ASSUME IInv, NEW x \in grants, Expire(x) PROVE IInv'
<1> DEFINE dead == [x EXCEPT !.live = FALSE]
<1>1. /\ UNCHANGED <<users, owner, uploads, lastGrant, trail, req, held, requests, faults>>
      /\ grants' = (grants \ {x}) \cup {dead}
  BY DEF Expire, people
<1>2. /\ PeopleGrow /\ owner' \in [Upload -> DOMAIN users' \cup {NoUser}]
      /\ uploads' \subseteq {u \in Upload : owner'[u] # NoUser}
      /\ DOMAIN users' \subseteq User /\ held' \in [Request -> Level]
      /\ \A c \in DOMAIN users' : users'[c] \in [org : Org, role : Role]
      /\ requests' \in 0 .. MaxRequests
  BY <1>1 DEF IInv, TypeOK, PeopleGrow
<1>3. /\ dead \in Grant /\ dead.subject = x.subject /\ dead.upload = x.upload
  <2>1. x \in Grant
    BY DEF IInv, TypeOK
  <2>2. dead \in Grant
    BY <2>1 DEF Grant
  <2> QED
    BY <2>1, <2>2 DEF Grant
<1>4. \A g \in grants' : \E h \in grants : g = h \/ g = [h EXCEPT !.live = FALSE]
  BY <1>1
<1> HIDE DEF dead
<1>5. /\ grants' \subseteq Grant /\ OneEach(grants')
      /\ \A g \in grants' : g.upload # OrgWide => g.upload \in uploads'
  BY <1>1, <1>3 DEF IInv, TypeOK, Issued, OneEach
<1> QED
  BY <1>1, <1>2, <1>4, <1>5, WorldKeeps

----------------------------------------------------------------------------
LEMMA InitIInv == Init => IInv
<1> SUFFICES ASSUME Init PROVE IInv
  OBVIOUS
<1>1. TypeOK
  <2>1. req \in [Request -> Requests(users)]
    BY IdleIsSound DEF Init
  <2>2. held \in [Request -> Level]
    BY LevelsAreLevels DEF Init
  <2>3. trail \in Seq([by : User, on : Upload])
    BY DEF Init
  <2> QED
    BY <2>1, <2>2, <2>3, AccessAssumption, TypeOfRequests DEF Init
<1> QED
  BY <1>1, IdleIsSound DEF Init, IInv, OneEach

LEMMA StutterKeeps == ASSUME IInv, UNCHANGED vars PROVE IInv'
<1> QED
  BY DEF IInv, TypeOK, vars

LEMMA NextIInv == IInv /\ [Next]_vars => IInv'
<1> SUFFICES ASSUME IInv, [Next]_vars PROVE IInv'
  OBVIOUS
<1>1. CASE UNCHANGED vars
  BY <1>1, StutterKeeps
<1>2. CASE RequestStep
  BY <1>2, OpenKeeps, ReadGrantsKeeps, BreakGlassKeeps, LoadKeeps, CheckGrantKeeps,
     UpsertKeeps, CheckRevokeKeeps, DeleteGrantKeeps, GiveUpKeeps DEF RequestStep
<1>3. CASE UserStep
  BY <1>3, RegisterKeeps, InviteKeeps DEF UserStep
<1>4. CASE ExpiryStep
  BY <1>4, ExpireKeeps DEF ExpiryStep
<1>5. CASE StoreStep
  BY <1>5, StoreKeeps DEF StoreStep
<1>6. CASE DeleteStep
  BY <1>6, DeleteUploadKeeps DEF DeleteStep
<1> QED
  BY <1>1, <1>2, <1>3, <1>4, <1>5, <1>6 DEF Next

(* IInv is an invariant. *)
LEMMA Invariance == Spec => []IInv
  BY InitIInv, NextIInv, PTL DEF Spec

(* Every variable has its type (TypeOK), whoever asks for what when. *)
THEOREM AccessTypes == Spec => []TypeOK
<1>1. IInv => TypeOK
  BY DEF IInv
<1> QED
  BY <1>1, Invariance, PTL

(* A grant in force was issued by someone entitled to, within one           *)
(* organization, is the only one for its subject and upload, and refers to  *)
(* an upload that exists: createGrant's checks and UpsertGrant are separate *)
(* statements, with deletions, expiries and other grants in between.        *)
THEOREM GrantsAreAuthorized == Spec => []GrantAuthority
<1>1. IInv => GrantAuthority
  <2> SUFFICES ASSUME IInv, NEW g \in grants
               PROVE  /\ g.id <= lastGrant /\ OrgOf(g.by) = g.org /\ OrgOf(g.subject) = g.org
                      /\ g.subject # g.by
                      /\ IF g.upload = OrgWide THEN IsAdmin(g.by)
                         ELSE /\ g.upload \in uploads /\ UploadOrg(g.upload) = g.org
                              /\ owner[g.upload] # g.subject
                              /\ owner[g.upload] = g.by \/ IsAdmin(g.by)
                      /\ \A h \in grants :
                            (h.subject = g.subject /\ h.upload = g.upload) => h = g
    BY DEF GrantAuthority
  <2>1. Issued(users, owner, uploads, lastGrant, g)
    BY DEF IInv
  <2> QED
    BY <2>1 DEF Issued, Entitled, IInv, OneEach, OrgOf, UploadOrg, IsAdmin, AdminRoles
<1> QED
  BY <1>1, Invariance, PTL

(* The two statements of the visibility rule agree (ListVisibleUploads and  *)
(* visibilityClause against Resolver.Resolve): a list shows the uploads the *)
(* resolver gives a level for.                                              *)
THEOREM ListingsAgree == Spec => []ListingAgrees
<1>1. IInv => ListingAgrees
  <2> SUFFICES ASSUME IInv, NEW c \in DOMAIN users, NEW u \in uploads
               PROVE  u \in Visible(c) <=> Resolve(c, u) # LevelNone
    BY DEF ListingAgrees, Visible
  <2> DEFINE given == {g.level : g \in {x \in grants : Covers(x, c, u) /\ x.live}}
  <2>1. {LevelNone} \cup given \subseteq Level /\ LevelNone \notin given
    BY SMTT(30) DEF IInv, TypeOK, Grant, Level, LevelNone, LevelSummary, LevelFull
  <2>2. /\ BestGrantFor(c, u) \in {LevelNone} \cup given
        /\ \A l \in given : BestGrantFor(c, u) >= l
    BY <2>1, MaxLevel, Zenon DEF BestGrantFor
  <2>3. given # {} <=> Shared(c, u)
    BY DEF Shared
  <2>4. BestGrantFor(c, u) # LevelNone <=> Shared(c, u)
    BY <2>1, <2>2, <2>3 DEF Level, LevelNone, LevelFull
  <2>5. Granted(c, u) # LevelNone <=> (IsAdmin(c) \/ Shared(c, u))
    <3> DEFINE both == {BestGrantFor(c, u), IF IsAdmin(c) THEN LevelDashboard ELSE LevelNone}
    <3>1. both \subseteq Level /\ both # {}
      BY GrantedIsLevel, LevelsAreLevels DEF IInv
    <3>2. Max(both) \in both /\ \A l \in both : Max(both) >= l
      BY <3>1, MaxLevel, Zenon
    <3>3. Granted(c, u) = Max(both)
      BY Zenon DEF Granted
    <3> QED
      BY <2>4, <3>1, <3>2, <3>3 DEF Level, LevelNone, LevelDashboard, LevelFull
  <2> QED
    BY <2>5 DEF Visible, Resolve, Hidden, LevelNone, LevelFull
<1> QED
  BY <1>1, Invariance, PTL

----------------------------------------------------------------------------
(* What a read may disclose, and whom it tells that an upload exists.       *)


Reads == {"grants", "breakglass", "load"}

(* u is, or was, an upload of c or a colleague of c. *)
Related(us, ow, c, u) ==
    /\ c \in DOMAIN us /\ u \in Upload /\ ow[u] \in DOMAIN us
    /\ us[ow[u]].org = us[c].org

(* The levels c has over the upload of a colleague, and the highest. *)
Levels(us, gs, c, u) ==
    {LevelNone} \cup {l \in {LevelDashboard} : us[c].role \in AdminRoles}
      \cup {g.level : g \in {x \in gs : /\ x.live /\ x.subject = c
                                        /\ x.upload = u \/ x.upload = OrgWide}}
HeldOf(us, ow, gs, c, u) ==
    IF ow[u] = c THEN LevelFull ELSE Max(Levels(us, gs, c, u))

(* A level held while the request was running, or the record of break-glass. *)
Justified(us, tr, q, h) ==
    /\ q.by \in DOMAIN us
    /\ \/ q.level <= h
       \/ /\ us[q.by].role \in AdminRoles /\ h # LevelNone /\ q.record \in DOMAIN tr
          /\ tr[q.record] = [by |-> q.by, on |-> q.upload]

(* What is so of a read at every place, h being the most its caller held.   *)
Followed(us, ow, gs, tr, q, h) ==
    /\ q.pc \in Reads => /\ Related(us, ow, q.by, q.upload)
                         /\ HeldOf(us, ow, gs, q.by, q.upload) <= h
    /\ q.pc \in {"breakglass", "load"} => h # LevelNone
    /\ (q.pc = "load" \/ (q.pc = "done" /\ q.status = 200)) => Justified(us, tr, q, h)
    /\ (q.pc = "done" /\ h = LevelNone) => q.status = 404

DInv == \A r \in Request : Followed(users, owner, grants, trail, req[r], held[r])

----------------------------------------------------------------------------
LEMMA LevelsType ==
    ASSUME NEW gs \in SUBSET Grant, NEW us, NEW c, NEW u
    PROVE  /\ Levels(us, gs, c, u) \subseteq Level /\ Levels(us, gs, c, u) # {}
           /\ Max(Levels(us, gs, c, u)) \in Levels(us, gs, c, u)
           /\ \A l \in Levels(us, gs, c, u) : Max(Levels(us, gs, c, u)) >= l
<1>1. Levels(us, gs, c, u) \subseteq Level /\ Levels(us, gs, c, u) # {}
  BY DEF Levels, Grant, Level, LevelNone, LevelSummary, LevelDashboard, LevelFull
<1> QED
  BY <1>1, MaxLevel, Zenon

LEMMA HeldOfType ==
    ASSUME NEW gs \in SUBSET Grant, NEW us, NEW ow, NEW c, NEW u
    PROVE  HeldOf(us, ow, gs, c, u) \in Level
  BY LevelsType, LevelsAreLevels DEF HeldOf

LEMMA HeldIsHeldOf ==
    ASSUME NEW c, NEW u, Related(users, owner, c, u)
    PROVE  Held(c, u) = HeldOf(users, owner, grants, c, u)
<1>1. Known(c, u) /\ UploadOrg(u) = OrgOf(c)
  BY DEF Related, Known, UploadOrg, OrgOf
<1> QED
  BY <1>1, Zenon DEF Held, HeldOf, Levels, IsAdmin, AdminRoles

LEMMA HeldIsHeldOfNext ==
    \A c, u : Related(users', owner', c, u)
                 => Held(c, u)' = HeldOf(users', owner', grants', c, u)
<1> SUFFICES ASSUME NEW c, NEW u, Related(users', owner', c, u)
             PROVE  Held(c, u)' = HeldOf(users', owner', grants', c, u)
  OBVIOUS
<1>1. (Known(c, u) /\ UploadOrg(u) = OrgOf(c))'
  BY DEF Related, Known, UploadOrg, OrgOf
<1> QED
  BY <1>1, Zenon DEF Held, HeldOf, Levels, IsAdmin, AdminRoles

(* The resolver gives a colleague no more than they hold. *)
LEMMA GrantedIsHeld ==
    ASSUME TypeOK, NEW c, NEW u, Colleague(users, owner, c, u)
    PROVE  Granted(c, u) <= HeldOf(users, owner, grants, c, u)
<1> DEFINE given == {g.level : g \in {x \in grants : Covers(x, c, u) /\ x.live}}
           S == Levels(users, grants, c, u)
<1>1. /\ S \subseteq Level /\ Max(S) \in Level /\ \A l \in S : Max(S) >= l
  BY ZenonT(30), LevelsType DEF TypeOK
<1>2. {LevelNone} \cup given \subseteq S
  BY DEF Covers, Levels
<1>3. {LevelNone} \cup given \subseteq Level
  BY <1>1, <1>2
<1>4. BestGrantFor(c, u) \in S
  BY <1>2, <1>3, MaxLevel, Zenon DEF BestGrantFor
<1> DEFINE both == {BestGrantFor(c, u), IF IsAdmin(c) THEN LevelDashboard ELSE LevelNone}
<1>5. both \subseteq S /\ both # {}
  BY <1>4 DEF Levels, IsAdmin, AdminRoles
<1>6. Max(both) \in both
  BY <1>1, <1>5, MaxLevel
<1>7. Granted(c, u) \in S
  BY <1>5, <1>6, Zenon DEF Granted
<1>8. HeldOf(users, owner, grants, c, u) = Max(S)
  BY DEF HeldOf, Colleague
<1> QED
  BY <1>1, <1>7, <1>8

(* Without new grants nobody holds more. *)
LEMMA HeldShrinks ==
    ASSUME TypeOK, PeopleGrow, grants' \subseteq Grant,
           \A g \in grants' : g.live => g \in grants,
           NEW c, NEW u, Related(users, owner, c, u)
    PROVE  HeldOf(users', owner', grants', c, u) <= HeldOf(users, owner, grants, c, u)
<1> DEFINE S == Levels(users, grants, c, u)
           T == Levels(users', grants', c, u)
<1>1. users'[c] = users[c] /\ owner'[u] = owner[u]
  BY DEF Related, PeopleGrow
<1>2. T \subseteq S
  BY <1>1 DEF Levels
<1>3. S \subseteq Level /\ \A l \in S : Max(S) >= l
  BY LevelsType DEF TypeOK
<1>4. Max(T) \in T
  BY LevelsType
<1> HIDE DEF S, T
<1>5. Max(T) \in S /\ Max(S) >= Max(T)
  BY <1>2, <1>3, <1>4
<1>6. Max(S) \in Level /\ Max(T) \in Level
  BY <1>3, <1>5, LevelsType DEF TypeOK, S
<1> QED
  BY <1>1, <1>5, <1>6 DEF HeldOf, S, T, Level, LevelNone, LevelFull

----------------------------------------------------------------------------
(* The requests a step leaves as they are.                                  *)
TrailGrows == \A i \in DOMAIN trail : i \in DOMAIN trail' /\ trail'[i] = trail[i]

LEMMA FollowedStays ==
    ASSUME TypeOK, PeopleGrow, TrailGrows, NEW x \in Request, NEW h \in Level,
           h >= held[x], Followed(users, owner, grants, trail, req[x], held[x]),
           req[x].pc \in Reads => HeldOf(users', owner', grants', req[x].by, req[x].upload) <= h
    PROVE  Followed(users', owner', grants', trail', req[x], h)
<1> DEFINE q == req[x]
           k == held[x]
<1>1. k \in Level /\ q \in Requests(users)
  BY TypeOfRequests
<1> HIDE DEF q, k
<1>2. Related(users, owner, q.by, q.upload) => Related(users', owner', q.by, q.upload)
  BY DEF Related, PeopleGrow
<1>3. k # LevelNone => h # LevelNone
  BY <1>1 DEF Level, LevelNone, LevelFull, k
<1>4. Justified(users, trail, q, k) => Justified(users', trail', q, h)
  <2> SUFFICES ASSUME Justified(users, trail, q, k) PROVE Justified(users', trail', q, h)
    OBVIOUS
  <2>1. q.by \in DOMAIN users' /\ users'[q.by] = users[q.by] /\ q.level \in Level
    BY <1>1 DEF Justified, PeopleGrow, Requests
  <2>2. CASE q.level <= k
    BY <1>1, <2>1, <2>2 DEF Justified, Level, LevelNone, LevelFull, k
  <2>3. CASE ~(q.level <= k)
    BY <1>3, <2>1, <2>3 DEF Justified, TrailGrows
  <2> QED
    BY <2>2, <2>3
<1> QED
  BY <1>2, <1>3, <1>4 DEF Followed, q, k

(* Nobody can hold more by a step that issues no grant and stores nothing.  *)
LEMMA KeptNarrow ==
    ASSUME TypeOK, DInv, PeopleGrow, TrailGrows, grants' \subseteq Grant,
           \A g \in grants' : g.live => g \in grants,
           NEW x \in Request, req'[x] = req[x], held'[x] = held[x]
    PROVE  Followed(users', owner', grants', trail', req'[x], held'[x])
<1> DEFINE q == req[x]
<1>1. Followed(users, owner, grants, trail, req[x], held[x]) /\ held[x] \in Level
  BY DEF DInv, TypeOK
<1>2. q.pc \in Reads => HeldOf(users', owner', grants', q.by, q.upload) <= held[x]
  <2> SUFFICES ASSUME q.pc \in Reads
               PROVE  HeldOf(users', owner', grants', q.by, q.upload) <= held[x]
    OBVIOUS
  <2>1. /\ Related(users, owner, q.by, q.upload)
        /\ HeldOf(users, owner, grants, q.by, q.upload) <= held[x]
    BY <1>1 DEF Followed
  <2>2. HeldOf(users', owner', grants', q.by, q.upload)
          <= HeldOf(users, owner, grants, q.by, q.upload)
    BY <2>1, HeldShrinks
  <2>3. /\ HeldOf(users', owner', grants', q.by, q.upload) \in Level
        /\ HeldOf(users, owner, grants, q.by, q.upload) \in Level
    BY HeldOfType DEF TypeOK
  <2> QED
    BY <1>1, <2>1, <2>2, <2>3 DEF Level, LevelNone, LevelFull
<1>3. held[x] >= held[x]
  BY <1>1 DEF Level, LevelNone, LevelFull
<1> QED
  BY <1>1, <1>2, <1>3, FollowedStays

(* A step that can add to what somebody holds adds it to their reads. *)
LEMMA KeptWide ==
    ASSUME TypeOK, DInv, PeopleGrow, TrailGrows, grants' \subseteq Grant, HeldGrows,
           NEW x \in Request, req'[x] = req[x]
    PROVE  Followed(users', owner', grants', trail', req'[x], held'[x])
<1> DEFINE q == req[x]
           more == Held(req[x].by, req[x].upload)'
           both == {held[x], more}
<1>1. Followed(users, owner, grants, trail, req[x], held[x]) /\ held[x] \in Level
  BY DEF DInv, TypeOK
<1>2. CASE ~Reading(x)
  <2>1. held'[x] = held[x] /\ held[x] >= held[x]
    BY <1>1, <1>2 DEF HeldGrows, Level, LevelNone, LevelFull
  <2>2. q.pc \notin Reads
    BY <1>2 DEF Reading, Reads
  <2> QED
    BY <1>1, <2>1, <2>2, FollowedStays
<1>3. CASE Reading(x)
  <2>1. held'[x] = Max(both)
    BY <1>3, Zenon DEF HeldGrows
  <2>2. q.pc \in Reads
    BY <1>3 DEF Reading, Reads
  <2>3. Related(users', owner', q.by, q.upload)
    BY <1>1, <2>2 DEF Followed, Related, PeopleGrow
  <2>4. more \in Level
    BY HeldIsLevelNext
  <2> DEFINE next == HeldOf(users', owner', grants', q.by, q.upload)
  <2>5. next = more
    BY <2>3, HeldIsHeldOfNext, Zenon
  <2> HIDE DEF more, next
  <2>6. /\ Max(both) \in Level
        /\ Max(both) >= held[x] /\ Max(both) >= more
    BY <1>1, <2>4, MaxLevel
  <2>7. next <= held'[x] /\ held'[x] >= held[x] /\ held'[x] \in Level
    BY <2>1, <2>4, <2>5, <2>6 DEF Level, LevelNone, LevelFull
  <2> HIDE DEF both
  <2>8. HeldOf(users', owner', grants', req[x].by, req[x].upload) <= held'[x]
    BY <2>7 DEF next
  <2> QED
    BY <1>1, <2>7, <2>8, FollowedStays
<1> QED
  BY <1>2, <1>3

----------------------------------------------------------------------------
(* The steps of one request.                                                *)
LEMMA OwnStep ==
    ASSUME IInv, DInv, UNCHANGED <<people, sharing>>, TrailGrows,
           NEW r \in Request, NEW q, NEW h,
           req' = [req EXCEPT ![r] = q], held' = [held EXCEPT ![r] = h],
           Followed(users, owner, grants, trail', q, h)
    PROVE  DInv'
<1>1. PeopleGrow /\ users' = users /\ owner' = owner /\ grants' = grants
  BY OthersKeepPeople DEF people, sharing
<1>2. req'[r] = q /\ held'[r] = h
  BY DEF IInv, TypeOK
<1>3. ASSUME NEW x \in Request, x # r
      PROVE  Followed(users', owner', grants', trail', req'[x], held'[x])
  <2>1. req'[x] = req[x] /\ held'[x] = held[x]
    BY <1>3 DEF IInv, TypeOK
  <2>2. TypeOK /\ grants' \subseteq Grant /\ \A g \in grants' : g.live => g \in grants
    BY <1>1 DEF IInv, TypeOK
  <2> QED
    BY <1>1, <2>1, <2>2, KeptNarrow
<1> QED
  BY <1>1, <1>2, <1>3 DEF DInv

(* A request that is not a read, and an answer without data. *)
LEMMA Elsewhere ==
    ASSUME NEW us, NEW ow, NEW gs, NEW tr, NEW q, NEW h, q.pc \in {"idle", "upsert", "delete"}
    PROVE  Followed(us, ow, gs, tr, q, h)
  BY DEF Followed, Reads

LEMMA Refused ==
    ASSUME NEW us, NEW ow, NEW gs, NEW tr, NEW q, NEW h, q.pc = "done",
           q.status = 404 \/ (q.status # 200 /\ h # LevelNone)
    PROVE  Followed(us, ow, gs, tr, q, h)
  BY DEF Followed, Reads

LEMMA BeginFollows ==
    ASSUME IInv, DInv, NEW r \in Request, NEW q, Begin(r, q),
           \A h : (h = IF q.kind \in {"get", "start"} /\ q.upload \in uploads
                       THEN Held(q.by, q.upload) ELSE LevelNone)
                     => Followed(users, owner, grants, trail, q, h)
    PROVE  DInv'
<1> DEFINE h == IF q.kind \in {"get", "start"} /\ q.upload \in uploads
                THEN Held(q.by, q.upload) ELSE LevelNone
<1>1. /\ UNCHANGED <<people, sharing, trail>> /\ req' = [req EXCEPT ![r] = q]
      /\ held' = [held EXCEPT ![r] = h]
  BY DEF Begin
<1>2. Followed(users, owner, grants, trail', q, h)
  BY <1>1
<1>3. TrailGrows
  BY <1>1 DEF TrailGrows
<1> HIDE DEF h
<1> QED
  BY <1>1, <1>2, <1>3, OwnStep

LEMMA OpenFollows == ASSUME IInv, DInv, NEW r \in Request, Open(r) PROVE DInv'
<1> DEFINE first(kind, c, u) == [Idle EXCEPT !.kind = kind, !.by = c, !.upload = u]
<1>1. PICK kind \in {"get", "start"}, c \in DOMAIN users, u \in Upload :
         \/ Begin(r, [first(kind, c, u) EXCEPT !.pc = "done", !.status = NotFound])
         \/ /\ ~Hidden(c, u) /\ owner[u] = c
            /\ Begin(r, [first(kind, c, u) EXCEPT !.pc = "load", !.level = LevelFull])
         \/ /\ ~Hidden(c, u) /\ owner[u] # c
            /\ Begin(r, [first(kind, c, u) EXCEPT !.pc = "grants"])
  BY DEF Open
<1>2. CASE Begin(r, [first(kind, c, u) EXCEPT !.pc = "done", !.status = NotFound])
  <2> DEFINE q == [first(kind, c, u) EXCEPT !.pc = "done", !.status = NotFound]
  <2>1. q.pc = "done" /\ q.status = 404
    BY DEF Idle, NotFound
  <2> HIDE DEF q
  <2>2. \A h : Followed(users, owner, grants, trail, q, h)
    BY <2>1, Refused
  <2>3. Begin(r, q)
    BY <1>2 DEF q
  <2> QED
    BY <2>2, <2>3, BeginFollows
<1>3. ASSUME ~Hidden(c, u)
      PROVE  /\ u \in uploads /\ Related(users, owner, c, u)
             /\ Held(c, u) = HeldOf(users, owner, grants, c, u)
             /\ HeldOf(users, owner, grants, c, u) \in Level
  <2>1. u \in uploads /\ Related(users, owner, c, u)
    BY <1>3, AccessAssumption DEF Hidden, UploadOrg, OrgOf, Related, IInv, TypeOK
  <2> QED
    BY <2>1, HeldIsHeldOf, HeldOfType DEF IInv, TypeOK
<1>4. CASE /\ ~Hidden(c, u) /\ owner[u] = c
           /\ Begin(r, [first(kind, c, u) EXCEPT !.pc = "load", !.level = LevelFull])
  <2> DEFINE q == [first(kind, c, u) EXCEPT !.pc = "load", !.level = LevelFull]
             h == HeldOf(users, owner, grants, c, u)
  <2>1. /\ q.pc = "load" /\ q.by = c /\ q.upload = u /\ q.kind = kind
        /\ q.level = LevelFull
    BY DEF Idle
  <2>2. h = LevelFull
    BY <1>4 DEF HeldOf
  <2> HIDE DEF q, h
  <2>3. Followed(users, owner, grants, trail, q, h)
    BY <1>3, <1>4, <2>1, <2>2 DEF Followed, Justified, h, LevelFull, LevelNone
  <2>4. Begin(r, q)
    BY <1>4 DEF q
  <2>5. \A k : (k = IF q.kind \in {"get", "start"} /\ q.upload \in uploads
                    THEN Held(q.by, q.upload) ELSE LevelNone) => k = h
    BY <1>3, <1>4, <2>1 DEF h
  <2> QED
    BY <2>3, <2>4, <2>5, BeginFollows
<1>5. CASE /\ ~Hidden(c, u) /\ owner[u] # c
           /\ Begin(r, [first(kind, c, u) EXCEPT !.pc = "grants"])
  <2> DEFINE q == [first(kind, c, u) EXCEPT !.pc = "grants"]
             h == HeldOf(users, owner, grants, c, u)
  <2>1. q.pc = "grants" /\ q.by = c /\ q.upload = u /\ q.kind = kind
    BY DEF Idle
  <2>2. h <= h
    BY <1>3, <1>5 DEF Level, LevelNone, LevelFull
  <2> HIDE DEF q, h
  <2>3. Followed(users, owner, grants, trail, q, h)
    BY <1>3, <1>5, <2>1, <2>2 DEF Followed, h
  <2>4. Begin(r, q)
    BY <1>5 DEF q
  <2>5. \A k : (k = IF q.kind \in {"get", "start"} /\ q.upload \in uploads
                    THEN Held(q.by, q.upload) ELSE LevelNone) => k = h
    BY <1>3, <1>5, <2>1 DEF h
  <2> QED
    BY <2>3, <2>4, <2>5, BeginFollows
<1> QED
  BY <1>1, <1>2, <1>4, <1>5

LEMMA ChecksFollow ==
    ASSUME IInv, DInv, NEW r \in Request, CheckGrant(r) \/ CheckRevoke(r) PROVE DInv'
<1>1. \E q : Begin(r, q) /\ q.pc \in {"idle", "upsert", "delete"}
  <2>1. Idle.pc = "idle"
    BY DEF Idle
  <2>2. ASSUME NEW c, NEW u, NEW s, NEW l
        PROVE  [Idle EXCEPT !.pc = "upsert", !.kind = "grant", !.by = c,
                            !.upload = u, !.subject = s, !.level = l].pc = "upsert"
    BY DEF Idle
  <2>3. ASSUME NEW c, NEW id
        PROVE  [Idle EXCEPT !.pc = "delete", !.kind = "revoke", !.by = c, !.id = id].pc = "delete"
    BY DEF Idle
  <2>4. CASE CheckGrant(r)
    <3> DEFINE ask(c, s, u, l) == [Idle EXCEPT !.pc = "upsert", !.kind = "grant", !.by = c,
                                                !.upload = u, !.subject = s, !.level = l]
    <3>1. \/ \E c, s, u, l : Begin(r, ask(c, s, u, l))
          \/ Begin(r, Idle)
      BY <2>4, Zenon DEF CheckGrant
    <3>2. \A c, s, u, l : ask(c, s, u, l).pc = "upsert"
      BY <2>2
    <3> HIDE DEF ask
    <3> QED
      BY <2>1, <3>1, <3>2
  <2>5. CASE CheckRevoke(r)
    BY <2>1, <2>3, <2>5, Zenon DEF CheckRevoke
  <2> QED
    BY <2>4, <2>5
<1>2. PICK q : Begin(r, q) /\ q.pc \in {"idle", "upsert", "delete"}
  BY <1>1
<1>3. \A h : Followed(users, owner, grants, trail, q, h)
  BY <1>2, Elsewhere
<1> QED
  BY <1>2, <1>3, BeginFollows

(* A step of a running read that goes on, or answers, with no change to     *)
(* what its caller held.                                                    *)
LEMMA ReadGoesOn ==
    ASSUME IInv, DInv, NEW r \in Request, NEW q, req' = [req EXCEPT ![r] = q],
           UNCHANGED <<people, sharing, held>>, TrailGrows,
           Followed(users, owner, grants, trail', q, held[r])
    PROVE  DInv'
<1>1. held' = [held EXCEPT ![r] = held[r]]
  BY DEF IInv, TypeOK
<1> QED
  BY <1>1, OwnStep

LEMMA AnswerWithout ==
    ASSUME IInv, DInv, NEW r \in Request, NEW status, Answer(r, status),
           UNCHANGED <<people, sharing, trail, held>>,
           status = 404 \/ (status # 200 /\ held[r] # LevelNone)
    PROVE  DInv'
<1> DEFINE q == [req[r] EXCEPT !.pc = "done", !.status = status]
<1>1. req' = [req EXCEPT ![r] = q]
  BY DEF Answer
<1>2. q.pc = "done" /\ q.status = status
  BY TypeOfRequests DEF IInv, Requests
<1> HIDE DEF q
<1>3. Followed(users, owner, grants, trail', q, held[r]) /\ TrailGrows
  BY <1>2, Refused DEF TrailGrows
<1> QED
  BY <1>1, <1>3, ReadGoesOn

LEMMA ReadGrantsFollows == ASSUME IInv, DInv, NEW r \in Request, ReadGrants(r) PROVE DInv'
<1> DEFINE c == req[r].by
           u == req[r].upload
           level == Granted(c, u)
           h == held[r]
           most == HeldOf(users, owner, grants, c, u)
<1>1. /\ req[r].pc = "grants" /\ req[r] \in Requests(users)
      /\ UNCHANGED <<people, sharing, trail, held, requests, faults>>
  BY TypeOfRequests DEF ReadGrants, At, IInv
<1>2. /\ Related(users, owner, c, u) /\ most <= h /\ h \in Level
      /\ Colleague(users, owner, c, u)
  BY <1>1 DEF DInv, Followed, Reads, IInv, TypeOK, Sound
<1>3. level \in Level /\ level <= most /\ most \in Level
  BY <1>2, GrantedIsLevel, GrantedIsHeld, HeldOfType DEF IInv, TypeOK
<1>4. level <= h /\ (level # LevelNone => h # LevelNone)
  <2> HIDE DEF level, most, h
  <2> QED
    BY <1>2, <1>3 DEF Level, LevelNone, LevelFull
<1>5. TrailGrows
  BY <1>1 DEF TrailGrows
<1>6. CASE level = LevelNone /\ Answer(r, NotFound)
  BY <1>1, <1>6, AnswerWithout DEF NotFound
<1>7. CASE level # LevelNone /\ Answer(r, 403)
  BY <1>1, <1>4, <1>7, AnswerWithout
<1>8. CASE /\ level # LevelNone
           /\ req' = [req EXCEPT ![r].pc = "load", ![r].level = level]
  <2> DEFINE q == [[req[r] EXCEPT !.pc = "load"] EXCEPT !.level = level]
  <2>1. req' = [req EXCEPT ![r] = q]
    BY <1>8
  <2>2. q.pc = "load" /\ q.by = c /\ q.upload = u /\ q.level = level
    BY <1>1 DEF Requests
  <2> HIDE DEF q, level, most
  <2>3. Followed(users, owner, grants, trail', q, h)
    BY <1>2, <1>4, <1>8, <2>2 DEF Followed, Justified, Related, most
  <2> QED
    BY <1>1, <1>5, <2>1, <2>3, ReadGoesOn
<1>9. CASE level # LevelNone /\ GoTo(r, "breakglass")
  <2> DEFINE q == [req[r] EXCEPT !.pc = "breakglass"]
  <2>1. req' = [req EXCEPT ![r] = q]
    BY <1>9 DEF GoTo
  <2>2. q.pc = "breakglass" /\ q.by = c /\ q.upload = u
    BY <1>1 DEF Requests
  <2> HIDE DEF q, level, most
  <2>3. Followed(users, owner, grants, trail', q, h)
    BY <1>2, <1>4, <1>9, <2>2 DEF Followed, most
  <2> QED
    BY <1>1, <1>5, <2>1, <2>3, ReadGoesOn
<1> QED
  BY <1>6, <1>7, <1>8, <1>9 DEF ReadGrants

LEMMA BreakGlassFollows == ASSUME IInv, DInv, NEW r \in Request, BreakGlass(r) PROVE DInv'
<1> DEFINE c == req[r].by
           u == req[r].upload
           h == held[r]
           most == HeldOf(users, owner, grants, c, u)
<1>1. /\ req[r].pc = "breakglass" /\ req[r] \in Requests(users)
      /\ UNCHANGED <<people, sharing, held, requests>>
  BY TypeOfRequests DEF BreakGlass, At, IInv
<1>2. /\ Related(users, owner, c, u) /\ most <= h /\ h # LevelNone
      /\ users[c].role \in AdminRoles
  BY <1>1 DEF DInv, Followed, Reads, IInv, Sound
<1>3. CASE Unrecorded(r) /\ UNCHANGED trail
  BY <1>1, <1>2, <1>3, AnswerWithout DEF Unrecorded
<1>4. CASE /\ trail' = Append(trail, [by |-> c, on |-> u])
           /\ req' = [req EXCEPT ![r].pc = "load", ![r].level = Need(req[r].kind),
                                 ![r].record = Len(trail) + 1]
  <2> DEFINE n == Len(trail) + 1
             level == Need(req[r].kind)
             q == [[[req[r] EXCEPT !.pc = "load"] EXCEPT !.level = level] EXCEPT !.record = n]
  <2>1. req' = [req EXCEPT ![r] = q]
    BY <1>4
  <2>2. /\ TrailGrows /\ n \in DOMAIN trail' /\ trail'[n] = [by |-> c, on |-> u]
    <3>1. trail \in Seq([by : User, on : Upload]) /\ c \in User /\ u \in Upload
      BY <1>2 DEF IInv, TypeOK, Related
    <3> HIDE DEF c, u
    <3> QED
      BY <1>4, <3>1 DEF TrailGrows
  <2> HIDE DEF n, level
  <2>3. q.pc = "load" /\ q.by = c /\ q.upload = u /\ q.record = n
    BY <1>1 DEF Requests
  <2> HIDE DEF q, most
  <2>4. Justified(users, trail', q, h)
    BY <1>2, <2>2, <2>3 DEF Justified, Related
  <2>5. Followed(users, owner, grants, trail', q, h)
    BY <1>2, <2>3, <2>4 DEF Followed, most
  <2> QED
    BY <1>1, <2>1, <2>2, <2>5, ReadGoesOn
<1> QED
  BY <1>3, <1>4 DEF BreakGlass

LEMMA LoadFollows == ASSUME IInv, DInv, NEW r \in Request, Load(r) PROVE DInv'
<1>1. /\ req[r].pc = "load" /\ req[r] \in Requests(users)
      /\ UNCHANGED <<people, sharing, trail, held, requests, faults>>
      /\ Answer(r, 500) \/ Answer(r, 200)
  BY TypeOfRequests DEF Load, At, IInv
<1>2. held[r] # LevelNone /\ Justified(users, trail, req[r], held[r])
  BY <1>1 DEF DInv, Followed
<1>3. CASE Answer(r, 500)
  BY <1>1, <1>2, <1>3, AnswerWithout
<1>4. CASE Answer(r, 200)
  <2> DEFINE q == [req[r] EXCEPT !.pc = "done", !.status = 200]
  <2>1. req' = [req EXCEPT ![r] = q]
    BY <1>4 DEF Answer
  <2>2. /\ q.pc = "done" /\ q.by = req[r].by /\ q.upload = req[r].upload
        /\ q.level = req[r].level /\ q.record = req[r].record
    BY <1>1 DEF Requests
  <2> HIDE DEF q
  <2>3. Justified(users, trail', q, held[r])
    BY <1>1, <1>2, <2>2 DEF Justified
  <2>4. Followed(users, owner, grants, trail', q, held[r]) /\ TrailGrows
    BY <1>1, <1>2, <2>2, <2>3 DEF Followed, Reads, TrailGrows
  <2> QED
    BY <1>1, <2>1, <2>4, ReadGoesOn
<1> QED
  BY <1>1, <1>3, <1>4

LEMMA GiveUpFollows == ASSUME IInv, DInv, NEW r \in Request, GiveUp(r) PROVE DInv'
<1>1. /\ req' = [req EXCEPT ![r] = Idle] /\ held' = [held EXCEPT ![r] = LevelNone]
      /\ UNCHANGED <<people, sharing, trail>>
  BY DEF GiveUp, End
<1>2. Followed(users, owner, grants, trail', Idle, LevelNone) /\ TrailGrows
  BY <1>1, Elsewhere DEF Idle, TrailGrows
<1> QED
  BY <1>1, <1>2, OwnStep

----------------------------------------------------------------------------
(* The steps that change grants, people or uploads.                         *)
LEMMA EndFollows ==
    ASSUME IInv, DInv, grants' \subseteq Grant, NEW r \in Request, End(r),
           UNCHANGED <<people, trail>>,
           HeldGrows \/ (held' = held /\ grants' \subseteq grants)
    PROVE  DInv'
<1>1. PeopleGrow /\ TrailGrows /\ TypeOK
  BY OthersKeepPeople DEF TrailGrows, IInv
<1>2. req'[r] = Idle /\ \A x \in Request : x # r => req'[x] = req[x]
  BY DEF IInv, TypeOK, End
<1>3. Followed(users', owner', grants', trail', req'[r], held'[r])
  BY <1>2, Elsewhere DEF Idle
<1>4. ASSUME NEW x \in Request, x # r
      PROVE  Followed(users', owner', grants', trail', req'[x], held'[x])
  <2>1. CASE HeldGrows
    BY <1>1, <1>2, <1>4, <2>1, KeptWide
  <2>2. CASE held' = held /\ grants' \subseteq grants
    BY <1>1, <1>2, <1>4, <2>2, KeptNarrow
  <2> QED
    BY <2>1, <2>2
<1> QED
  BY <1>3, <1>4 DEF DInv

LEMMA WorldFollows ==
    ASSUME IInv, DInv, grants' \subseteq Grant, PeopleGrow, UNCHANGED <<trail, req>>,
           HeldGrows \/ (held' = held /\ \A g \in grants' : g.live => g \in grants)
    PROVE  DInv'
<1>1. TrailGrows /\ TypeOK
  BY DEF TrailGrows, IInv
<1> QED
  BY <1>1, KeptWide, KeptNarrow DEF DInv

LEMMA InitDInv == Init => DInv
  BY Elsewhere DEF Init, DInv, Idle

LEMMA NextDInv == IInv /\ DInv /\ [Next]_vars => DInv'
<1> SUFFICES ASSUME IInv, DInv, [Next]_vars PROVE DInv'
  OBVIOUS
<1>1. IInv' /\ grants' \subseteq Grant
  BY NextIInv DEF IInv, TypeOK
<1>2. CASE UNCHANGED vars
  BY <1>2 DEF DInv, vars, people, sharing
<1>3. CASE RequestStep
  <2>1. PICK r \in Request : \/ Open(r) \/ ReadGrants(r) \/ BreakGlass(r) \/ Load(r)
                             \/ CheckGrant(r) \/ Upsert(r) \/ CheckRevoke(r) \/ DeleteGrant(r)
                             \/ GiveUp(r)
    BY <1>3 DEF RequestStep
  <2>2. CASE Upsert(r)
    BY <1>1, <2>2, EndFollows DEF Upsert
  <2>3. CASE DeleteGrant(r)
    BY <1>1, <2>3, EndFollows DEF DeleteGrant
  <2> QED
    BY <2>1, <2>2, <2>3, OpenFollows, ReadGrantsFollows, BreakGlassFollows, LoadFollows,
       ChecksFollow, GiveUpFollows
<1>4. CASE UserStep
  <2>1. /\ UNCHANGED <<sharing, trail, req, held>>
        /\ PeopleGrow
    <3>1. CASE \E c \in User, o \in Org : Register(c, o)
      BY <3>1, AddUserGrows DEF IInv, Register, Role
    <3>2. CASE \E a \in DOMAIN users, c \in User, role \in Role : Invite(a, c, role)
      <4>1. \A a \in DOMAIN users : OrgOf(a) \in Org
        BY DEF IInv, TypeOK, OrgOf
      <4> QED
        BY <3>2, <4>1, AddUserGrows DEF IInv, Invite
    <3> QED
      BY <1>4, <3>1, <3>2 DEF UserStep
  <2> QED
    BY <1>1, <2>1, WorldFollows DEF sharing
<1>5. CASE ExpiryStep
  <2>1. PICK g \in grants : Expire(g)
    BY <1>5 DEF ExpiryStep
  <2>2. \A x \in grants' : x.live => x \in grants
    <3>1. g \in Grant /\ grants' = (grants \ {g}) \cup {[g EXCEPT !.live = FALSE]}
      BY <2>1 DEF Expire, IInv, TypeOK
    <3>2. ~[g EXCEPT !.live = FALSE].live
      BY <3>1 DEF Grant
    <3> QED
      BY <3>1, <3>2
  <2>3. PeopleGrow /\ UNCHANGED <<trail, req, held>>
    BY <2>1, OthersKeepPeople DEF Expire
  <2> QED
    BY <1>1, <2>2, <2>3, WorldFollows
<1>6. CASE StoreStep
  <2>1. PICK c \in DOMAIN users, u \in Upload : Store(c, u)
    BY <1>6 DEF StoreStep
  <2>2. PeopleGrow /\ UNCHANGED <<trail, req>> /\ HeldGrows
    BY <2>1, StoreGrows DEF Store, IInv
  <2> QED
    BY <1>1, <2>2, WorldFollows
<1>7. CASE DeleteStep
  <2>1. PICK c \in DOMAIN users, u \in Upload : DeleteUpload(c, u)
    BY <1>7 DEF DeleteStep
  <2>2. PeopleGrow /\ UNCHANGED <<trail, req, held>> /\ grants' \subseteq grants
    BY <2>1 DEF DeleteUpload, PeopleGrow
  <2> QED
    BY <1>1, <2>2, WorldFollows
<1> QED
  BY <1>2, <1>3, <1>4, <1>5, <1>6, <1>7 DEF Next

LEMMA DisclosureInvariance == Spec => []DInv
<1>1. IInv /\ DInv /\ [Next]_vars => DInv'
  BY NextDInv
<1> QED
  BY <1>1, InitDInv, Invariance, PTL DEF Spec

(* What a read discloses, it discloses at a level its caller held while it  *)
(* ran, or to an administrator whose break-glass record is in the audit     *)
(* log: Require's verdict and its record come before the load, and grants,  *)
(* uploads and people change in between.                                    *)
THEOREM DisclosuresJustified == Spec => []DisclosureJustified
<1>1. DInv => DisclosureJustified
  BY DEF DInv, Followed, Justified, DisclosureJustified, At, IsAdmin, AdminRoles
<1> QED
  BY <1>1, DisclosureInvariance, PTL

(* A caller who could never see the upload is told that it is not found and *)
(* nothing else (Resolve's two reads, failAuthz).                           *)
THEOREM ExistenceStaysHidden == Spec => []ExistenceHidden
<1>1. DInv => ExistenceHidden
  BY DEF DInv, Followed, ExistenceHidden, At
<1> QED
  BY <1>1, DisclosureInvariance, PTL
=============================================================================
