---------------------------- MODULE Reports_proofs ---------------------------
(***************************************************************************)
(* Theorems of Reports: it implements Access, the derived tables are those *)
(* of the uploads there are, and what the panels show follows from that.   *)
(***************************************************************************)
EXTENDS Reports, Access_proofs, SetLemmas, SequenceTheorems

----------------------------------------------------------------------------
(* Reports implements Access.                                               *)

LEMMA StepIsAccess == [ReportsNext]_reportVars => [Next]_vars
<1>. SUFFICES ASSUME [ReportsNext]_reportVars PROVE [Next]_vars
  OBVIOUS
<1>1. CASE UNCHANGED reportVars
  BY <1>1 DEF reportVars, vars, people, sharing
<1>2. ASSUME NEW c \in DOMAIN users, NEW u \in Upload,
             StoreWith(c, u, ParseFile(Content[u]))
      PROVE  Next
  BY <1>2 DEF StoreWith, Next, StoreStep
<1>3. ASSUME NEW c \in DOMAIN users, NEW u \in Upload, DeleteWith(c, u)
      PROVE  Next
  BY <1>3 DEF DeleteWith, Next, DeleteStep
<1>4. CASE (RequestStep \/ UserStep \/ ExpiryStep) /\ UNCHANGED data
  BY <1>4 DEF Next
<1>. QED  BY <1>1, <1>2, <1>3, <1>4 DEF ReportsNext

(* Every behaviour of Reports is one of Access: storing and deleting rows   *)
(* and rollups with an upload adds nothing to who may do what.              *)
THEOREM ReportsImplementAccess == ReportsSpec => Spec
<1>1. ReportsInit => Init
  BY DEF ReportsInit
<1>. QED  BY <1>1, StepIsAccess, PTL DEF ReportsSpec, Spec

(* What is proved of Access holds where uploads carry data.                 *)
THEOREM AccessAsReported ==
    ReportsSpec => [](TypeOK /\ GrantAuthority /\ ListingAgrees
                        /\ DisclosureJustified /\ ExistenceHidden)
  BY ReportsImplementAccess, AccessTypes, GrantsAreAuthorized, ListingsAgree,
     DisclosuresJustified, ExistenceStaysHidden, PTL

----------------------------------------------------------------------------
(* What is stored is what the uploads there are contribute.                 *)

BatchIn(us, ow, u) == [upload |-> u, user |-> ow[u], org |-> us[ow[u]].org]
FileRows(b) == RowsOf(b, ParseFile(Content[b.upload]).entries)
FileRollups(b) == EntryRollups(b, FileRows(b))
FileStatus(b) == StatusRollups(b, FileRows(b))
CountsOf(u) == [upload |-> u, lines |-> ParseFile(Content[u]).lines,
                parsed |-> ParseFile(Content[u]).parsed]

(* The tables of the uploads us with owners ow, of users us.                *)
Filled(us, ow, stored, rows, byMinute, byCode, sizes) ==
    /\ rows = UNION {FileRows(BatchIn(us, ow, u)) : u \in stored}
    /\ byMinute = UNION {FileRollups(BatchIn(us, ow, u)) : u \in stored}
    /\ byCode = UNION {FileStatus(BatchIn(us, ow, u)) : u \in stored}
    /\ sizes = {CountsOf(u) : u \in stored}

DataInv == Filled(users, owner, uploads, entries, rollups, statusRollups, counts)

(* What a batch fills is of its upload.                                     *)
LEMMA FilledByUpload ==
    ASSUME NEW b
    PROVE  /\ \A x \in FileRows(b) : x.upload = b.upload
           /\ \A x \in FileRollups(b) : x.upload = b.upload
           /\ \A x \in FileStatus(b) : x.upload = b.upload
<1>1. \A x \in FileRows(b) : x.upload = b.upload
  BY DEF FileRows, RowsOf
<1>2. \A R : \A x \in EntryRollups(b, R) : x.upload = b.upload
  BY DEF EntryRollups, Rollup
<1>3. \A R : \A x \in StatusRollups(b, R) : x.upload = b.upload
  BY DEF StatusRollups, StatusRollup
<1>. QED  BY <1>1, <1>2, <1>3 DEF FileRollups, FileStatus

(* A batch is what it was as long as its upload has its owner and the owner *)
(* the organization.                                                        *)
LEMMA BatchStays ==
    ASSUME TypeOK, PeopleGrow, NEW u \in uploads
    PROVE  BatchIn(users', owner', u) = BatchIn(users, owner, u)
  BY DEF TypeOK, PeopleGrow, BatchIn

LEMMA OthersKeepData ==
    ASSUME TypeOK, DataInv, PeopleGrow, UNCHANGED <<uploads, data>>
    PROVE  DataInv'
<1>1. \A u \in uploads : BatchIn(users', owner', u) = BatchIn(users, owner, u)
  BY BatchStays
<1>. QED  BY <1>1 DEF DataInv, Filled, data

LEMMA StoreKeepsData ==
    ASSUME TypeOK, DataInv, NEW c \in DOMAIN users, NEW u \in Upload,
           StoreWith(c, u, ParseFile(Content[u]))
    PROVE  DataInv'
<1> DEFINE b == Batch(c, u)
<1>1. Store(c, u) /\ PeopleGrow
  BY StoreGrows DEF StoreWith
<1>2. uploads' = uploads \cup {u} /\ users' = users /\ owner'[u] = c
  BY <1>1 DEF Store, TypeOK
<1>3. \A v \in uploads : BatchIn(users', owner', v) = BatchIn(users, owner, v)
  BY <1>1, BatchStays
<1>4. BatchIn(users', owner', u) = b /\ b.upload = u
  BY <1>2 DEF BatchIn, Batch, OrgOf
<1>5. /\ entries' = entries \cup FileRows(b)
      /\ rollups' = rollups \cup FileRollups(b)
      /\ statusRollups' = statusRollups \cup FileStatus(b)
      /\ counts' = counts \cup {CountsOf(u)}
  BY <1>4 DEF StoreWith, FileRows, FileRollups, FileStatus, CountsOf
<1>. HIDE DEF b
<1>6. entries' = UNION {FileRows(BatchIn(users', owner', v)) : v \in uploads'}
  BY <1>2, <1>3, <1>4, <1>5 DEF DataInv, Filled
<1>7. rollups' = UNION {FileRollups(BatchIn(users', owner', v)) : v \in uploads'}
  BY <1>2, <1>3, <1>4, <1>5 DEF DataInv, Filled
<1>8. statusRollups' = UNION {FileStatus(BatchIn(users', owner', v)) : v \in uploads'}
  BY <1>2, <1>3, <1>4, <1>5 DEF DataInv, Filled
<1>9. counts' = {CountsOf(v) : v \in uploads'}
  BY <1>2, <1>5 DEF DataInv, Filled
<1>. QED  BY <1>6, <1>7, <1>8, <1>9 DEF DataInv, Filled

LEMMA DeleteKeepsData ==
    ASSUME TypeOK, DataInv, NEW c \in DOMAIN users, NEW u \in Upload, DeleteWith(c, u)
    PROVE  DataInv'
<1>1. uploads' = uploads \ {u} /\ UNCHANGED <<users, owner>>
  BY DEF DeleteWith, DeleteUpload
<1>2. \A v : BatchIn(users, owner, v).upload = v
  BY DEF BatchIn
<1>3. entries' = UNION {FileRows(BatchIn(users', owner', v)) : v \in uploads'}
  BY <1>1, <1>2, FilledByUpload DEF DataInv, Filled, DeleteWith, Without
<1>4. rollups' = UNION {FileRollups(BatchIn(users', owner', v)) : v \in uploads'}
  BY <1>1, <1>2, FilledByUpload DEF DataInv, Filled, DeleteWith, Without
<1>5. statusRollups' = UNION {FileStatus(BatchIn(users', owner', v)) : v \in uploads'}
  BY <1>1, <1>2, FilledByUpload DEF DataInv, Filled, DeleteWith, Without
<1>6. counts' = {CountsOf(v) : v \in uploads'}
  BY <1>1 DEF DataInv, Filled, DeleteWith, Without, CountsOf
<1>. QED  BY <1>3, <1>4, <1>5, <1>6 DEF DataInv, Filled

LEMMA InitDataInv == ReportsInit => DataInv
  BY DEF ReportsInit, Init, DataInv, Filled

LEMMA RequestsKeepPeople == RequestStep => UNCHANGED people
<1>. SUFFICES ASSUME NEW r \in Request,
                     \/ Open(r) \/ ReadGrants(r) \/ BreakGlass(r) \/ Load(r)
                     \/ CheckGrant(r) \/ Upsert(r) \/ CheckRevoke(r) \/ DeleteGrant(r)
                     \/ GiveUp(r)
              PROVE  UNCHANGED people
  BY DEF RequestStep
<1>1. \A fields : Begin(r, fields) => UNCHANGED people
  BY DEF Begin
<1>2. Open(r) => UNCHANGED people
  BY <1>1 DEF Open
<1>3. CheckGrant(r) => UNCHANGED people
  BY <1>1 DEF CheckGrant
<1>4. CheckRevoke(r) => UNCHANGED people
  BY <1>1 DEF CheckRevoke
<1>5. (ReadGrants(r) \/ BreakGlass(r)) => UNCHANGED people
  BY DEF ReadGrants, BreakGlass
<1>6. (Load(r) \/ Upsert(r) \/ DeleteGrant(r) \/ GiveUp(r)) => UNCHANGED people
  BY DEF Load, Upsert, DeleteGrant, GiveUp
<1>. QED  BY <1>2, <1>3, <1>4, <1>5, <1>6

LEMMA NextDataInv == TypeOK /\ DataInv /\ [ReportsNext]_reportVars => DataInv'
<1>. SUFFICES ASSUME TypeOK, DataInv, [ReportsNext]_reportVars PROVE DataInv'
  OBVIOUS
<1>1. CASE UNCHANGED reportVars
  BY <1>1, OthersKeepPeople, OthersKeepData DEF reportVars, people
<1>2. ASSUME NEW c \in DOMAIN users, NEW u \in Upload,
             StoreWith(c, u, ParseFile(Content[u]))
      PROVE  DataInv'
  BY <1>2, StoreKeepsData
<1>3. ASSUME NEW c \in DOMAIN users, NEW u \in Upload, DeleteWith(c, u)
      PROVE  DataInv'
  BY <1>3, DeleteKeepsData
<1>4. CASE RequestStep /\ UNCHANGED data
  BY <1>4, RequestsKeepPeople, OthersKeepPeople, OthersKeepData DEF people
<1>5. CASE UserStep /\ UNCHANGED data
  <2>1. PICK c \in User, o \in Org, role \in Role :
           /\ c \notin DOMAIN users /\ AddUser(c, o, role)
           /\ UNCHANGED <<owner, uploads>>
    BY <1>5 DEF UserStep, Register, Invite, OrgOf, TypeOK, Role
  <2>2. PeopleGrow
    BY <2>1, AddUserGrows
  <2>. QED  BY <1>5, <2>1, <2>2, OthersKeepData
<1>6. CASE ExpiryStep /\ UNCHANGED data
  BY <1>6, OthersKeepPeople, OthersKeepData DEF ExpiryStep, Expire, people
<1>. QED  BY <1>1, <1>2, <1>3, <1>4, <1>5, <1>6 DEF ReportsNext

(* The tables are filled by the uploads there are, with the owner and the   *)
(* organization each has.                                                   *)
THEOREM DataInvariance == ReportsSpec => [](TypeOK /\ DataInv)
<1>1. ReportsSpec => []TypeOK
  BY ReportsImplementAccess, AccessTypes, PTL
<1>. QED  BY <1>1, InitDataInv, NextDataInv, PTL DEF ReportsSpec

----------------------------------------------------------------------------
(* Lines and records.                                                       *)

LEMMA LinesOf ==
    ASSUME NEW lines \in Seq(Line)
    PROVE  /\ Len(lines) \in Nat /\ DOMAIN lines = 1 .. Len(lines)
           /\ \A k \in 1 .. Len(lines) :
                 /\ lines[k] \in Line /\ lines[k].cells \in Seq(Value)
                 /\ lines[k].closes \in Nat /\ lines[k].closes <= Len(lines[k].cells)
<1>1. \A k \in DOMAIN lines : lines[k] \in Line
  OBVIOUS
<1>2. Len(lines) \in Nat /\ DOMAIN lines = 1 .. Len(lines)
  BY LenProperties
<1>3. \A l \in Line : /\ l.cells \in Seq(Value) /\ l.closes \in Nat
                      /\ l.closes <= Len(l.cells)
  BY DEF Line
<1>. QED  BY <1>1, <1>2, <1>3

LEMMA StartsOf ==
    ASSUME NEW lines \in Seq(Line)
    PROVE  /\ Starts(lines) \in SUBSET (1 .. Len(lines)) /\ Starts(lines) \in SUBSET Nat
           /\ IsFiniteSet(Starts(lines)) /\ Cardinality(Starts(lines)) \in Nat
<1>1. Starts(lines) \in SUBSET (1 .. Len(lines))
  BY LinesOf DEF Starts
<1>2. IsFiniteSet(1 .. Len(lines))
  BY LinesOf, FS_Interval
<1>. QED  BY <1>1, <1>2, FS_Subset, FS_CardinalityType, LinesOf

LEMMA LineNumbers ==
    ASSUME NEW lines \in Seq(Line)
    PROVE  /\ {LineNo(lines, k) : k \in Starts(lines)} = 2 .. Cardinality(Starts(lines)) + 1
           /\ \A k, l \in Starts(lines) : LineNo(lines, k) = LineNo(lines, l) => k = l
<1> DEFINE S == Starts(lines)
           n == Cardinality(S)
           rank == [k \in S |-> Cardinality({s \in S : s <= k})]
<1>1. S \in SUBSET Nat /\ IsFiniteSet(S) /\ n \in Nat
  BY StartsOf
<1>2. \A k \in S : LineNo(lines, k) = 1 + rank[k]
  BY DEF LineNo, Quantify
<1>. HIDE DEF S, n, rank
<1>3. /\ \A k, l \in S : k < l => rank[k] < rank[l]
      /\ {rank[k] : k \in S} = 1 .. n
  BY <1>1, RanksCount DEF rank, n
<1>4. \A k \in S : rank[k] \in 1 .. n
  BY <1>3
<1>5. {LineNo(lines, k) : k \in S} = 2 .. n + 1
  <2>1. \A k \in S : LineNo(lines, k) \in 2 .. n + 1
    BY <1>1, <1>2, <1>4
  <2>2. ASSUME NEW i \in 2 .. n + 1 PROVE \E k \in S : LineNo(lines, k) = i
    <3>1. i - 1 \in 1 .. n
      BY <1>1
    <3>2. PICK k \in S : rank[k] = i - 1
      BY <1>3, <3>1
    <3>. QED  BY <1>2, <3>2
  <2>. QED  BY <2>1, <2>2
<1>6. ASSUME NEW k \in S, NEW l \in S, LineNo(lines, k) = LineNo(lines, l)
      PROVE  k = l
  <2>1. rank[k] = rank[l]
    BY <1>1, <1>2, <1>4, <1>6
  <2>2. k \in Int /\ l \in Int /\ rank[k] \in Int
    BY <1>1, <1>4
  <2>. QED  BY <1>3, <2>1, <2>2
<1>. QED  BY <1>5, <1>6 DEF S, n

(* The row of the record that line k begins.                                *)
RowOf(file, k) == BuildEntry(LineNo(file.lines, k), Record(file.lines, k), file.header)

LEMMA RowsParsed ==
    ASSUME NEW file
    PROVE  /\ ParseFile(file).entries = {RowOf(file, k) : k \in Starts(file.lines)}
           /\ ParseFile(file).lines = 1 + Cardinality(Starts(file.lines))
           /\ ParseFile(file).parsed
                = Cardinality({e \in ParseFile(file).entries : Parsed(e)})
           /\ \A k : RowOf(file, k).line = LineNo(file.lines, k)
  BY Zenon DEF ParseFile, RowOf, BuildEntry, Entry

(* Records are rows, numbered from 2 on.                                    *)
LEMMA EveryRecordARow ==
    ASSUME NEW file, file.lines \in Seq(Line)
    PROVE  /\ IsFiniteSet(ParseFile(file).entries)
           /\ Cardinality(ParseFile(file).entries) = Cardinality(Starts(file.lines))
           /\ {e.line : e \in ParseFile(file).entries}
                = 2 .. Cardinality(ParseFile(file).entries) + 1
<1> DEFINE E == ParseFile(file).entries
           S == Starts(file.lines)
           n == Cardinality(S)
<1>1. E = {RowOf(file, k) : k \in S} /\ \A k : RowOf(file, k).line = LineNo(file.lines, k)
  BY RowsParsed, Zenon
<1>2. IsFiniteSet(S)
  BY StartsOf
<1>3. /\ {LineNo(file.lines, k) : k \in S} = 2 .. n + 1
      /\ \A k, l \in S : LineNo(file.lines, k) = LineNo(file.lines, l) => k = l
  BY LineNumbers, Zenon
<1>. HIDE DEF E, S, n
<1> DEFINE f == [k \in S |-> RowOf(file, k)]
<1>4. f \in Surjection(S, E)
  BY <1>1 DEF Surjection
<1>5. f \in Injection(S, E)
  BY <1>1, <1>3 DEF Injection, IsInjective
<1>. HIDE DEF f
<1>6. IsFiniteSet(E) /\ Cardinality(E) = n
  BY <1>2, <1>4, <1>5, FS_Surjection DEF n
<1>7. {e.line : e \in E} = {LineNo(file.lines, k) : k \in S}
  BY <1>1
<1>. QED  BY <1>3, <1>6, <1>7 DEF E, S, n

LEMMA LastLineIs ==
    ASSUME NEW lines \in Seq(Line), NEW k \in 1 .. Len(lines)
    PROVE  /\ LastLine(lines, k) \in k .. Len(lines)
           /\ LastLine(lines, k) = Len(lines) \/ ~InQuote(lines, LastLine(lines, k) + 1)
           /\ \A j \in k .. Len(lines) :
                 j = Len(lines) \/ ~InQuote(lines, j + 1) => LastLine(lines, k) <= j
<1> DEFINE T == {j \in k .. Len(lines) : j = Len(lines) \/ ~InQuote(lines, j + 1)}
<1>1. Len(lines) \in Nat
  BY LinesOf
<1>2. IsFiniteSet(k .. Len(lines))
  BY <1>1, FS_Interval
<1>3. Len(lines) \in T /\ T \subseteq Int /\ T \in SUBSET (k .. Len(lines))
  BY <1>1
<1>4. IsFiniteSet(T)
  BY <1>2, <1>3, FS_Subset
<1>5. LastLine(lines, k) = Min(T)
  BY DEF LastLine
<1>6. Min(T) \in T /\ \A j \in T : Min(T) <= j
  <2>. HIDE DEF T
  <2>. QED  BY <1>3, <1>4, MinOfFinite
<1>. QED  BY <1>5, <1>6


(* A row as the lines q run on, as the library's fold computes it.          *)
RunsOn(g, row, q) ==
    g = [s \in SUBSET DOMAIN q |->
           IF s = {} THEN row ELSE Extend(g[s \ {Max(s)}], q[Max(s)])]

LEMMA FoldUnfolds ==
    ASSUME NEW row, NEW q
    PROVE  FoldLeft(Extend, row, q) = (CHOOSE g : RunsOn(g, row, q))[DOMAIN q]
  BY Zenon DEF FoldLeft, MapThenFoldSet, RunsOn

(* The recursion of the fold has a solution, line by line.                  *)
LEMMA RunsOnExists ==
    ASSUME NEW n \in Nat, NEW row, NEW q, DOMAIN q = 1 .. n
    PROVE  \E g : RunsOn(g, row, q)
<1> DEFINE D(k) == {s \in SUBSET (1 .. n) : Cardinality(s) <= k}
           next(g, k) == [s \in D(k) |-> IF s = {} THEN row
                                         ELSE Extend(g[s \ {Max(s)}], q[Max(s)])]
           solves(g, k) == g = next(g, k)
           P == {k \in Nat : \E g : solves(g, k)}
<1>0. IsFiniteSet(1 .. n)
  BY FS_Interval
<1>1. \A s \in SUBSET (1 .. n) : IsFiniteSet(s) /\ Cardinality(s) \in Nat
  BY <1>0, FS_Subset, FS_CardinalityType
<1>2. \A k \in Nat : \A s \in D(k + 1) : s # {} => s \ {Max(s)} \in D(k)
  <2>. SUFFICES ASSUME NEW k \in Nat, NEW s \in D(k + 1), s # {}
                PROVE  s \ {Max(s)} \in D(k)
    OBVIOUS
  <2>1. Max(s) \in s
    <3>1. s \subseteq Int
      OBVIOUS
    <3>. QED  BY <1>1, <3>1, MaxOfFinite
  <2>2. Cardinality(s \ {Max(s)}) = Cardinality(s) - 1
    BY <1>1, <2>1, FS_RemoveElement
  <2>3. Cardinality(s) \in Nat /\ Cardinality(s) <= k + 1
    BY <1>1
  <2>4. Cardinality(s \ {Max(s)}) <= k
    BY <2>2, <2>3
  <2>. QED  BY <2>4
<1>3. \A k \in Nat : D(k) \subseteq D(k + 1)
  BY <1>1
<1>4. 0 \in P
  <2>1. \A s \in D(0) : s = {}
    BY <1>1, FS_EmptySet
  <2> DEFINE g == [s \in D(0) |-> row]
  <2>2. solves(g, 0)
    BY <2>1
  <2>. HIDE DEF solves, g
  <2>. QED  BY <2>2
<1>5. ASSUME NEW k \in Nat, k \in P
      PROVE  k + 1 \in P
  <2>1. PICK g : solves(g, k)
    BY <1>5
  <2> DEFINE h == next(g, k + 1)
  <2>2. \A s \in D(k) : h[s] = g[s]
    BY <2>1, <1>3
  <2>3. ASSUME NEW s \in D(k + 1), s # {}
        PROVE  h[s \ {Max(s)}] = g[s \ {Max(s)}]
    BY <2>2, <2>3, <1>2
  <2>4. solves(h, k + 1)
    BY <2>3
  <2>. HIDE DEF solves, h
  <2>. QED  BY <2>4
<1>. HIDE DEF P
<1>6. n \in P
  BY <1>4, <1>5, NumberInduction
<1>7. PICK g : solves(g, n)
  BY <1>6 DEF P
<1>8. D(n) = SUBSET (1 .. n)
  <2>1. Cardinality(1 .. n) = n
    BY FS_Interval
  <2>2. \A s \in SUBSET (1 .. n) : Cardinality(s) <= n
    BY <1>0, <2>1, FS_Subset
  <2>. QED  BY <2>2
<1>. QED  BY <1>7, <1>8 DEF RunsOn

LEMMA FoldNothing == ASSUME NEW row PROVE FoldLeft(Extend, row, <<>>) = row
<1> DEFINE g == CHOOSE f : RunsOn(f, row, <<>>)
<1>1. DOMAIN <<>> = 1 .. 0 /\ 1 .. 0 = {}
  OBVIOUS
<1>2. RunsOn(g, row, <<>>)
  BY <1>1, RunsOnExists, Zenon
<1>. HIDE DEF g
<1>3. g[{}] = row
  BY <1>1, <1>2 DEF RunsOn
<1>4. FoldLeft(Extend, row, <<>>) = g[DOMAIN <<>>]
  BY FoldUnfolds, Zenon DEF g
<1>. QED  BY <1>1, <1>3, <1>4

Cells == Seq(Value) \ {<<>>}

LEMMA ExtendType ==
    ASSUME NEW row \in Cells, NEW line \in Line
    PROVE  Extend(row, line) \in Cells
<1> DEFINE n == IF line.closes = 0 THEN Len(line.cells) ELSE line.closes
           c == line.cells
           cell == Join(row[Len(row)], TextOf(SubSeq(c, 1, n)))
           first == [row EXCEPT ![Len(row)] = cell]
           rest == SubSeq(c, n + 1, Len(c))
<1>1. /\ c \in Seq(Value) /\ Len(c) \in Nat /\ n \in Nat /\ n <= Len(c)
      /\ row \in Seq(Value) /\ Len(row) \in Nat /\ Len(row) \in 1 .. Len(row)
  <2>1. c \in Seq(Value) /\ line.closes \in Nat /\ line.closes <= Len(c)
    BY DEF Line
  <2>2. row \in Seq(Value) /\ row # <<>>
    BY DEF Cells
  <2>3. Len(row) \in Nat /\ Len(row) # 0
    BY <2>2, EmptySeq, LenProperties
  <2>. QED  BY <2>1, <2>2, <2>3, LenProperties
<1>2. \A i \in 1 .. Len(c) : c[i] \in Value
  BY <1>1
<1>3. rest \in Seq(Value)
  <2>1. \A i \in n + 1 .. Len(c) : c[i] \in Value
    BY <1>1, <1>2
  <2>. HIDE DEF n, c
  <2>. QED  BY <1>1, <2>1, SubSeqProperties
<1>4. cell \in Value
  <2>1. SubSeq(c, 1, n) \in Seq(Value)
    <3>1. \A i \in 1 .. n : c[i] \in Value
      BY <1>1, <1>2
    <3>. HIDE DEF n, c
    <3>. QED  BY <1>1, <3>1, SubSeqProperties
  <2>2. row[Len(row)] \in Value
    BY <1>1
  <2>3. \A s \in Seq(Value) : TextOf(s) \in Value
    BY DEF TextOf, Value
  <2>. HIDE DEF n, c
  <2>. QED  BY <2>1, <2>2, <2>3 DEF Join, Value
<1>5. first \in Seq(Value) /\ Len(first) = Len(row)
  <2>. HIDE DEF cell
  <2>. QED  BY <1>1, <1>4, ExceptSeq
<1>6. Extend(row, line) = first \o rest
  BY DEF Extend
<1>. HIDE DEF first, rest
<1>7. first \o rest \in Seq(Value) /\ first # <<>>
  BY <1>1, <1>3, <1>5, ConcatProperties, EmptySeq
<1>8. first \o rest # <<>>
  BY <1>3, <1>5, <1>7, ConcatEqualIffEmpty
<1>. QED  BY <1>6, <1>7, <1>8 DEF Cells

LEMMA RecordType ==
    ASSUME NEW lines \in Seq(Line), NEW k \in Starts(lines)
    PROVE  Record(lines, k) \in Seq(Value)
<1> DEFINE q == SubSeq(lines, k + 1, LastLine(lines, k))
           row == lines[k].cells
           g == CHOOSE h : RunsOn(h, row, q)
<1>1. Len(lines) \in Nat /\ k \in 1 .. Len(lines) /\ row \in Cells
  BY LinesOf DEF Starts, Cells
<1>2. LastLine(lines, k) \in k .. Len(lines)
  BY <1>1, LastLineIs
<1>3. q \in Seq(Line)
  <2>1. \A i \in k + 1 .. LastLine(lines, k) : lines[i] \in Line
    BY <1>1, <1>2, LinesOf
  <2>. QED  BY <1>1, <1>2, <2>1, SubSeqProperties
<1>. HIDE DEF q, row
<1>4. PICK n \in Nat : DOMAIN q = 1 .. n
  BY <1>3, LenProperties
<1>5. RunsOn(g, row, q)
  BY <1>4, RunsOnExists, Zenon
<1>6. Record(lines, k) = g[1 .. n]
  BY <1>4, FoldUnfolds, Zenon DEF Record, q, row
<1>. HIDE DEF g
<1>7. \A s \in SUBSET (1 .. n) :
         g[s] = IF s = {} THEN row ELSE Extend(g[s \ {Max(s)}], q[Max(s)])
  BY <1>4, <1>5 DEF RunsOn
<1> DEFINE P == {i \in Nat : i <= n => g[1 .. i] \in Cells}
<1>8. 0 \in P
  <2>1. 1 .. 0 = {} /\ {} \in SUBSET (1 .. n)
    OBVIOUS
  <2>2. g[1 .. 0] = row
    BY <1>7, <2>1
  <2>. QED  BY <1>1, <2>2
<1>9. ASSUME NEW i \in Nat, i \in P
      PROVE  i + 1 \in P
  <2>. SUFFICES ASSUME i + 1 <= n PROVE g[1 .. i + 1] \in Cells
    OBVIOUS
  <2>1. Max(1 .. i + 1) = i + 1
    BY DEF Max
  <2>2. (1 .. i + 1) \ {i + 1} = 1 .. i /\ 1 .. i + 1 # {} /\ 1 .. i + 1 \in SUBSET (1 .. n)
    <3>1. \A j : j \in (1 .. i + 1) \ {i + 1} <=> j \in 1 .. i
      OBVIOUS
    <3>2. (1 .. i + 1) \ {i + 1} = 1 .. i
      BY <3>1
    <3>3. i + 1 \in 1 .. i + 1 /\ \A j \in 1 .. i + 1 : j \in 1 .. n
      OBVIOUS
    <3>. QED  BY <3>2, <3>3
  <2>3. g[1 .. i + 1] = Extend(g[1 .. i], q[i + 1])
    BY <1>7, <2>1, <2>2, Zenon
  <2>4. q[i + 1] \in Line
    <3>1. i + 1 \in DOMAIN q
      BY <1>4
    <3>. QED  BY <1>3, <3>1
  <2>5. g[1 .. i] \in Cells
    BY <1>9
  <2>. QED  BY <2>3, <2>4, <2>5, ExtendType
<1>. HIDE DEF P
<1>10. n \in P
  BY <1>8, <1>9, NumberInduction
<1>. QED  BY <1>6, <1>10 DEF P, Cells

----------------------------------------------------------------------------
(* A file cut where no quote is open.                                       *)

LEMMA FirstPart ==
    ASSUME NEW lines \in Seq(Line), NEW m \in 0 .. Len(lines), NEW A, A = SubSeq(lines, 1, m)
    PROVE  /\ A \in Seq(Line) /\ Len(A) = m
           /\ \A k \in 1 .. m : A[k] = lines[k]
           /\ \A k \in 1 .. m + 1 : InQuote(A, k) = InQuote(lines, k)
<1>1. Len(lines) \in Nat /\ \A k \in 1 .. m : lines[k] \in Line
  BY LinesOf
<1>2. A \in Seq(Line) /\ Len(A) = m /\ \A k \in 1 .. m : A[k] = lines[k]
  <2>1. /\ A \in Seq(Line) /\ Len(A) = IF 1 <= m THEN m - 1 + 1 ELSE 0
        /\ \A k \in 1 .. m - 1 + 1 : A[k] = lines[1 + k - 1]
    BY <1>1, SubSeqProperties
  <2>2. m \in Nat
    BY <1>1
  <2>. QED  BY <2>1, <2>2
<1>3. ASSUME NEW k \in 1 .. m + 1 PROVE InQuote(A, k) = InQuote(lines, k)
  <2>1. \A i \in 1 .. k - 1 : A[i] = lines[i] /\ \A j \in i + 1 .. k - 1 : A[j] = lines[j]
    BY <1>1, <1>2
  <2>. QED  BY <2>1 DEF InQuote
<1>. QED  BY <1>2, <1>3

LEMMA OtherPart ==
    ASSUME NEW lines \in Seq(Line), NEW m \in 0 .. Len(lines), ~InQuote(lines, m + 1),
           NEW B, B = SubSeq(lines, m + 1, Len(lines))
    PROVE  /\ B \in Seq(Line) /\ Len(B) = Len(lines) - m
           /\ \A k \in 1 .. Len(lines) - m : B[k] = lines[m + k]
           /\ \A k \in 1 .. Len(lines) - m + 1 : InQuote(B, k) = InQuote(lines, m + k)
<1> DEFINE n == Len(lines)
<1>1. n \in Nat /\ \A k \in 1 .. n : lines[k] \in Line
  BY LinesOf
<1>2. B \in Seq(Line) /\ Len(B) = n - m /\ \A k \in 1 .. n - m : B[k] = lines[m + k]
  <2>1. \A k \in m + 1 .. n : lines[k] \in Line
    BY <1>1
  <2>2. /\ B \in Seq(Line) /\ Len(B) = IF m + 1 <= n THEN n - (m + 1) + 1 ELSE 0
        /\ \A k \in 1 .. n - (m + 1) + 1 : B[k] = lines[(m + 1) + k - 1]
    BY <1>1, <2>1, SubSeqProperties
  <2>3. m \in Nat /\ m <= n
    BY <1>1
  <2>. HIDE DEF n
  <2>4. n - (m + 1) + 1 = n - m /\ \A k \in 1 .. n - m : (m + 1) + k - 1 = m + k
    BY <1>1, <2>3
  <2>5. Len(B) = n - m
    BY <1>1, <2>2, <2>3
  <2>. QED  BY <2>2, <2>4, <2>5
<1>3. ASSUME NEW k \in 1 .. n - m + 1, InQuote(B, k) PROVE InQuote(lines, m + k)
  <2>1. PICK i \in 1 .. k - 1 : B[i].opens /\ \A j \in i + 1 .. k - 1 : B[j].closes = 0
    BY <1>3 DEF InQuote
  <2>2. m + i \in 1 .. (m + k) - 1 /\ B[i] = lines[m + i]
    BY <1>1, <1>2
  <2>3. ASSUME NEW j \in (m + i) + 1 .. (m + k) - 1 PROVE lines[j].closes = 0
    <3>1. j - m \in i + 1 .. k - 1 /\ j - m \in 1 .. n - m /\ m + (j - m) = j
      BY <1>1
    <3>. QED  BY <1>2, <2>1, <3>1
  <2>. QED  BY <2>1, <2>2, <2>3 DEF InQuote
<1>4. ASSUME NEW k \in 1 .. n - m + 1, InQuote(lines, m + k) PROVE InQuote(B, k)
  <2>1. PICK i \in 1 .. (m + k) - 1 :
           lines[i].opens /\ \A j \in i + 1 .. (m + k) - 1 : lines[j].closes = 0
    BY <1>4 DEF InQuote
  <2>2. i > m
    <3>. SUFFICES ASSUME i <= m PROVE FALSE
      BY <1>1
    <3>1. i \in 1 .. (m + 1) - 1 /\ \A j \in i + 1 .. (m + 1) - 1 : j \in i + 1 .. (m + k) - 1
      BY <1>1
    <3>2. InQuote(lines, m + 1)
      BY <2>1, <3>1 DEF InQuote
    <3>. QED  BY <3>2
  <2>3. i - m \in 1 .. k - 1 /\ i - m \in 1 .. n - m /\ m + (i - m) = i
    BY <1>1, <2>2
  <2>4. B[i - m] = lines[i]
    BY <1>2, <2>3
  <2>5. ASSUME NEW j \in (i - m) + 1 .. k - 1 PROVE B[j].closes = 0
    <3>1. j \in 1 .. n - m /\ m + j \in i + 1 .. (m + k) - 1
      BY <1>1, <2>2
    <3>. QED  BY <1>2, <2>1, <3>1
  <2>. QED  BY <2>1, <2>3, <2>4, <2>5 DEF InQuote
<1>5. \A k \in 1 .. n - m + 1 : InQuote(B, k) \in BOOLEAN /\ InQuote(lines, m + k) \in BOOLEAN
  BY DEF InQuote
<1>. QED  BY <1>2, <1>3, <1>4, <1>5

(* The records of the parts are those of the file.                          *)
LEMMA StartsOfFirst ==
    ASSUME NEW lines \in Seq(Line), NEW m \in 0 .. Len(lines), NEW A, A = SubSeq(lines, 1, m)
    PROVE  Starts(A) = {k \in Starts(lines) : k <= m}
<1> DEFINE n == Len(lines)
<1>1. n \in Nat /\ DOMAIN lines = 1 .. n /\ m \in Nat /\ m <= n
  BY LinesOf
<1>2. A \in Seq(Line) /\ Len(A) = m
  BY FirstPart, Zenon
<1>3. DOMAIN A = 1 .. m
  BY <1>2, LenProperties
<1>4. \A k \in 1 .. m : A[k] = lines[k] /\ InQuote(A, k) = InQuote(lines, k)
  <2>1. \A k \in 1 .. m : k \in 1 .. m + 1
    BY <1>1
  <2>. QED  BY <2>1, FirstPart
<1>. HIDE DEF n
<1>5. \A k \in 1 .. n : k \in 1 .. m <=> k <= m
  BY <1>1
<1>6. 1 .. m \subseteq 1 .. n
  BY <1>1
<1>. QED  BY <1>1, <1>3, <1>4, <1>5, <1>6 DEF Starts

LEMMA StartsOfOther ==
    ASSUME NEW lines \in Seq(Line), NEW m \in 0 .. Len(lines), ~InQuote(lines, m + 1),
           NEW B, B = SubSeq(lines, m + 1, Len(lines))
    PROVE  \A k \in Nat : k \in Starts(B) <=> k > 0 /\ m + k \in Starts(lines)
<1> DEFINE n == Len(lines)
<1>1. n \in Nat /\ DOMAIN lines = 1 .. n /\ m \in Nat /\ m <= n
  BY LinesOf
<1>2. B \in Seq(Line) /\ Len(B) = n - m
  BY OtherPart, Zenon
<1>3. DOMAIN B = 1 .. n - m
  BY <1>2, LenProperties
<1>4. \A k \in 1 .. n - m : B[k] = lines[m + k] /\ InQuote(B, k) = InQuote(lines, m + k)
  <2>1. \A k \in 1 .. n - m : k \in 1 .. n - m + 1
    BY <1>1
  <2>. QED  BY <2>1, OtherPart
<1>. HIDE DEF n
<1>. SUFFICES ASSUME NEW k \in Nat
              PROVE  k \in Starts(B) <=> k > 0 /\ m + k \in Starts(lines)
  OBVIOUS
<1>5. k \in 1 .. n - m <=> k > 0 /\ m + k \in 1 .. n
  BY <1>1
<1>. QED  BY <1>1, <1>3, <1>4, <1>5 DEF Starts

LEMMA NumbersOfFirst ==
    ASSUME NEW lines \in Seq(Line), NEW m \in 0 .. Len(lines), NEW A, A = SubSeq(lines, 1, m),
           NEW k \in Starts(A)
    PROVE  LineNo(A, k) = LineNo(lines, k)
<1>1. m \in Nat
  BY LinesOf
<1>2. Starts(A) = {s \in Starts(lines) : s <= m} /\ Starts(lines) \in SUBSET Nat
  BY StartsOfFirst, StartsOf
<1>3. \A s \in Starts(lines) : s <= k => s <= m
  BY <1>1, <1>2
<1>4. {s \in Starts(A) : s <= k} = {s \in Starts(lines) : s <= k}
  BY <1>2, <1>3
<1>. QED  BY <1>4 DEF LineNo, Quantify

LEMMA NumbersOfOther ==
    ASSUME NEW lines \in Seq(Line), NEW m \in 0 .. Len(lines), ~InQuote(lines, m + 1),
           NEW A, A = SubSeq(lines, 1, m), NEW B, B = SubSeq(lines, m + 1, Len(lines)),
           NEW k \in Starts(B)
    PROVE  LineNo(lines, m + k) = LineNo(B, k) + Cardinality(Starts(A))
<1>1. m \in Nat /\ A \in Seq(Line) /\ B \in Seq(Line)
  BY LinesOf, FirstPart, OtherPart
<1>2. /\ Starts(A) = {s \in Starts(lines) : s <= m}
      /\ \A s \in Nat : s \in Starts(B) <=> s > 0 /\ m + s \in Starts(lines)
  <2>1. Starts(A) = {s \in Starts(lines) : s <= m}
    BY StartsOfFirst, Zenon
  <2>2. \A s \in Nat : s \in Starts(B) <=> s > 0 /\ m + s \in Starts(lines)
    BY StartsOfOther, Zenon
  <2>. QED  BY <2>1, <2>2
<1>3. /\ Starts(lines) \in SUBSET Nat /\ Starts(A) \in SUBSET Nat /\ Starts(B) \in SUBSET Nat
      /\ IsFiniteSet(Starts(lines)) /\ IsFiniteSet(Starts(A)) /\ IsFiniteSet(Starts(B))
  BY <1>1, StartsOf
<1> DEFINE L == {s \in Starts(B) : s <= k}
           U == {m + s : s \in L}
           W == {s \in Starts(lines) : s <= m + k}
<1>4. W = Starts(A) \cup U
  <2>1. \A s : s \in Starts(A) => s \in W
    BY <1>1, <1>2, <1>3
  <2>2. \A s : s \in U => s \in W
    BY <1>1, <1>2, <1>3
  <2>3. ASSUME NEW s \in W, s \notin Starts(A) PROVE s \in U
    <3>1. s \in Nat /\ s > m /\ s \in Starts(lines) /\ s <= m + k /\ k \in Nat
      BY <1>1, <1>2, <1>3, <2>3
    <3>2. s - m \in Nat /\ s - m > 0 /\ m + (s - m) = s /\ s - m <= k
      BY <1>1, <3>1
    <3>3. s - m \in Starts(B)
      BY <1>2, <3>1, <3>2
    <3>. QED  BY <3>2, <3>3
  <2>. HIDE DEF U, W
  <2>. QED  BY <2>1, <2>2, <2>3
<1>5. Starts(A) \cap U = {}
  BY <1>1, <1>2, <1>3
<1>6. L \in SUBSET Nat /\ L \in SUBSET Starts(B)
  BY <1>3
<1>7. IsFiniteSet(L)
  <2>. HIDE DEF L
  <2>. QED  BY <1>3, <1>6, FS_Subset
<1>8. IsFiniteSet(U) /\ Cardinality(U) = Cardinality(L)
  <2>. HIDE DEF L
  <2>. QED  BY <1>1, <1>6, <1>7, ShiftedCount
<1>. HIDE DEF L, U, W
<1>9. Cardinality(W) = Cardinality(Starts(A)) + Cardinality(L)
  <2>1. /\ Cardinality(Starts(A)) \in Nat /\ Cardinality(U) \in Nat
        /\ Cardinality({}) = 0
    BY <1>3, <1>8, FS_CardinalityType, FS_EmptySet
  <2>2. Cardinality(Starts(A) \cup U)
          = Cardinality(Starts(A)) + Cardinality(U) - Cardinality(Starts(A) \cap U)
    BY <1>3, <1>8, FS_Union
  <2>3. Cardinality(W) = Cardinality(Starts(A)) + Cardinality(L) - 0
    BY <1>4, <1>5, <1>8, <2>1, <2>2, Zenon
  <2>. QED  BY <1>8, <2>1, <2>3
<1>10. /\ LineNo(lines, m + k) = 1 + Cardinality(W)
       /\ LineNo(B, k) = 1 + Cardinality(L)
  BY DEF LineNo, Quantify, W, L
<1>11. Cardinality(Starts(A)) \in Nat /\ Cardinality(L) \in Nat
  BY <1>3, <1>7, FS_CardinalityType
<1>. QED  BY <1>9, <1>10, <1>11

LEMMA SameSubSeq ==
    ASSUME NEW X, NEW s \in Seq(X), NEW t \in Seq(X), NEW i \in Nat, NEW j \in Nat,
           NEW n \in Nat, i + n <= Len(s), j + n <= Len(t),
           \A k \in 1 .. n : s[i + k] = t[j + k]
    PROVE  SubSeq(s, i + 1, i + n) = SubSeq(t, j + 1, j + n)
<1>1. /\ \A k \in i + 1 .. i + n : s[k] \in X
      /\ \A k \in j + 1 .. j + n : t[k] \in X
  <2>1. Len(s) \in Nat /\ DOMAIN s = 1 .. Len(s) /\ Len(t) \in Nat /\ DOMAIN t = 1 .. Len(t)
    BY LenProperties
  <2>. QED  BY <2>1, ElementOfSeq
<1> DEFINE p == SubSeq(s, i + 1, i + n)
           q == SubSeq(t, j + 1, j + n)
<1>2. /\ p \in Seq(X) /\ Len(p) = IF i + 1 <= i + n THEN (i + n) - (i + 1) + 1 ELSE 0
      /\ \A k \in 1 .. (i + n) - (i + 1) + 1 : p[k] = s[(i + 1) + k - 1]
  BY <1>1, SubSeqProperties
<1>3. /\ q \in Seq(X) /\ Len(q) = IF j + 1 <= j + n THEN (j + n) - (j + 1) + 1 ELSE 0
      /\ \A k \in 1 .. (j + n) - (j + 1) + 1 : q[k] = t[(j + 1) + k - 1]
  BY <1>1, SubSeqProperties
<1>. HIDE DEF p, q
<1>4. Len(p) = n /\ Len(q) = n
  BY <1>2, <1>3
<1>5. \A k \in 1 .. n : (i + 1) + k - 1 = i + k /\ (j + 1) + k - 1 = j + k
  OBVIOUS
<1>6. \A k \in 1 .. n : p[k] = q[k]
  BY <1>2, <1>3, <1>5
<1>7. p = q
  BY <1>2, <1>3, <1>4, <1>6, SeqEqual
<1>. QED  BY <1>7 DEF p, q

LEMMA RecordsOfFirst ==
    ASSUME NEW lines \in Seq(Line), NEW m \in 0 .. Len(lines), ~InQuote(lines, m + 1),
           NEW A, A = SubSeq(lines, 1, m), NEW k \in 1 .. m
    PROVE  Record(A, k) = Record(lines, k)
<1>1. /\ Len(lines) \in Nat /\ m \in Nat /\ k \in 1 .. Len(lines)
      /\ A \in Seq(Line) /\ Len(A) = m /\ \A i \in 1 .. m : A[i] = lines[i]
      /\ \A i \in 1 .. m + 1 : InQuote(A, i) = InQuote(lines, i)
  <2>1. Len(lines) \in Nat /\ m \in Nat /\ k \in 1 .. Len(lines)
    BY LinesOf
  <2>2. /\ A \in Seq(Line) /\ Len(A) = m /\ \A i \in 1 .. m : A[i] = lines[i]
        /\ \A i \in 1 .. m + 1 : InQuote(A, i) = InQuote(lines, i)
    BY FirstPart, Zenon
  <2>. QED  BY <2>1, <2>2
<1>2. PICK a, l : a = LastLine(A, k) /\ l = LastLine(lines, k)
  OBVIOUS
<1>3. /\ a \in k .. m /\ (a = m \/ ~InQuote(A, a + 1))
      /\ \A j \in k .. m : j = m \/ ~InQuote(A, j + 1) => a <= j
  BY <1>1, <1>2, LastLineIs
<1>4. /\ l \in k .. Len(lines) /\ (l = Len(lines) \/ ~InQuote(lines, l + 1))
      /\ \A j \in k .. Len(lines) : j = Len(lines) \/ ~InQuote(lines, j + 1) => l <= j
  BY <1>1, <1>2, LastLineIs
<1>5. l <= a
  <2>1. a \in k .. Len(lines) /\ a + 1 \in 1 .. m + 1
    BY <1>1, <1>3
  <2>2. a = m \/ ~InQuote(lines, a + 1)
    BY <1>1, <1>3, <2>1
  <2>. QED  BY <1>4, <2>1, <2>2
<1>6. a <= l
  <2>1. l \in k .. m /\ l + 1 \in 1 .. m + 1 /\ (l = Len(lines) => l = m)
    BY <1>1, <1>3, <1>4, <1>5
  <2>2. l = m \/ ~InQuote(A, l + 1)
    BY <1>1, <1>4, <2>1
  <2>. QED  BY <1>3, <2>1, <2>2
<1>7. a = l /\ a - k \in Nat /\ k + (a - k) = a
  BY <1>1, <1>3, <1>4, <1>5, <1>6
<1>8. SubSeq(A, k + 1, k + (a - k)) = SubSeq(lines, k + 1, k + (a - k))
  <2>1. /\ k \in Nat /\ a - k \in Nat /\ k + (a - k) <= Len(A) /\ k + (a - k) <= Len(lines)
        /\ \A i \in 1 .. a - k : A[k + i] = lines[k + i]
    BY <1>1, <1>3, <1>7
  <2>. QED  BY <1>1, <2>1, SameSubSeq
<1>9. SubSeq(A, k + 1, LastLine(A, k)) = SubSeq(lines, k + 1, LastLine(lines, k))
  BY <1>2, <1>7, <1>8
<1>. QED  BY <1>1, <1>9, Zenon DEF Record

LEMMA RecordsOfOther ==
    ASSUME NEW lines \in Seq(Line), NEW m \in 0 .. Len(lines), ~InQuote(lines, m + 1),
           NEW B, B = SubSeq(lines, m + 1, Len(lines)), NEW k \in 1 .. Len(lines) - m
    PROVE  Record(B, k) = Record(lines, m + k)
<1> DEFINE n == Len(lines)
<1>1. /\ n \in Nat /\ m \in Nat /\ m + k \in 1 .. n /\ m <= n
      /\ B \in Seq(Line) /\ Len(B) = n - m /\ \A i \in 1 .. n - m : B[i] = lines[m + i]
      /\ \A i \in 1 .. n - m + 1 : InQuote(B, i) = InQuote(lines, m + i)
  <2>1. n \in Nat /\ m \in Nat /\ m <= n /\ m + k \in 1 .. n
    BY LinesOf
  <2>. QED  BY <2>1, OtherPart
<1>2. PICK b, l : b = LastLine(B, k) /\ l = LastLine(lines, m + k)
  OBVIOUS
<1>3. /\ b \in k .. n - m /\ (b = n - m \/ ~InQuote(B, b + 1))
      /\ \A j \in k .. n - m : j = n - m \/ ~InQuote(B, j + 1) => b <= j
  <2>1. k \in 1 .. Len(B)
    BY <1>1
  <2>. HIDE DEF n
  <2>. QED  BY <1>1, <1>2, <2>1, LastLineIs
<1>4. /\ l \in m + k .. n /\ (l = n \/ ~InQuote(lines, l + 1))
      /\ \A j \in m + k .. n : j = n \/ ~InQuote(lines, j + 1) => l <= j
  BY <1>1, <1>2, LastLineIs
<1>. HIDE DEF n
<1>5. l <= m + b
  <2>1. m + b \in m + k .. n /\ (m + b = n <=> b = n - m)
    BY <1>1, <1>3
  <2>2. b + 1 \in 1 .. n - m + 1 /\ m + (b + 1) = (m + b) + 1
    BY <1>1, <1>3
  <2>3. InQuote(B, b + 1) = InQuote(lines, (m + b) + 1)
    BY <1>1, <2>2
  <2>. QED  BY <1>3, <1>4, <2>1, <2>3
<1>6. m + b <= l
  <2>1. l - m \in k .. n - m /\ (l = n <=> l - m = n - m)
    BY <1>1, <1>4
  <2>2. (l - m) + 1 \in 1 .. n - m + 1 /\ m + ((l - m) + 1) = l + 1
    BY <1>1, <1>4
  <2>3. InQuote(B, (l - m) + 1) = InQuote(lines, l + 1)
    BY <1>1, <2>2
  <2>4. b <= l - m
    BY <1>3, <1>4, <2>1, <2>3
  <2>. QED  BY <1>1, <1>3, <1>4, <2>4
<1>7. l = m + b /\ b - k \in Nat /\ k + (b - k) = b /\ (m + k) + (b - k) = l
  BY <1>1, <1>3, <1>4, <1>5, <1>6
<1>8. SubSeq(B, k + 1, k + (b - k)) = SubSeq(lines, (m + k) + 1, (m + k) + (b - k))
  <2>1. /\ k \in Nat /\ m + k \in Nat /\ b - k \in Nat
        /\ k + (b - k) <= Len(B) /\ (m + k) + (b - k) <= Len(lines)
    BY <1>1, <1>3, <1>4, <1>7 DEF n
  <2>2. \A i \in 1 .. b - k : /\ k + i \in 1 .. n - m
                              /\ m + (k + i) = (m + k) + i
    BY <1>1, <1>3
  <2>3. \A i \in 1 .. b - k : B[k + i] = lines[(m + k) + i]
    BY <1>1, <2>2
  <2>. QED  BY <1>1, <2>1, <2>3, SameSubSeq
<1>9. SubSeq(B, k + 1, LastLine(B, k)) = SubSeq(lines, (m + k) + 1, LastLine(lines, m + k))
  BY <1>2, <1>7, <1>8
<1>10. B[k] = lines[m + k]
  BY <1>1 DEF n
<1>. QED  BY <1>9, <1>10, Zenon DEF Record

(* Cut where no quote is open, a file has the rows of its parts.            *)
LEMMA PartsSay ==
    ASSUME NEW file, NEW h, NEW lines \in Seq(Line),
           file.header = h, file.lines = lines,
           NEW m \in 0 .. Len(lines), ~InQuote(lines, m + 1)
    PROVE  CutAfter(file, m) = ParseFile(file).entries
<1>0. \A f : ParseFile(f).entries = {RowOf(f, k) : k \in Starts(f.lines)}
  BY RowsParsed, Zenon
<1>1. PICK A, B : A = SubSeq(lines, 1, m) /\ B = SubSeq(lines, m + 1, Len(lines))
  OBVIOUS
<1>2. PICK first, rest : /\ first = [header |-> h, lines |-> A]
                         /\ rest = [header |-> h, lines |-> B]
  OBVIOUS
<1>3. /\ file.lines = lines /\ file.header = h
      /\ Part(file, 1, m) = first /\ Part(file, m + 1, Len(file.lines)) = rest
      /\ first.lines = A /\ first.header = h /\ rest.lines = B /\ rest.header = h
  BY <1>1, <1>2 DEF Part
<1> DEFINE E == ParseFile(first).entries
           F == ParseFile(rest).entries
           c == Cardinality(E)
<1>4. A \in Seq(Line) /\ B \in Seq(Line) /\ m \in Nat
  <2>1. A \in Seq(Line)
    BY <1>1, FirstPart, Zenon
  <2>2. B \in Seq(Line)
    BY <1>1, OtherPart, Zenon
  <2>. QED  BY <2>1, <2>2, LinesOf
<1>5. /\ E = {RowOf(first, k) : k \in Starts(A)}
      /\ F = {RowOf(rest, k) : k \in Starts(B)}
      /\ ParseFile(file).entries = {RowOf(file, k) : k \in Starts(lines)}
      /\ CutAfter(file, m) = E \cup {[e EXCEPT !.line = @ + c] : e \in F}
  <2>1. CutAfter(file, m) = E \cup {[e EXCEPT !.line = @ + c] : e \in F}
    BY <1>3 DEF CutAfter
  <2>. HIDE DEF E, F, c
  <2>2. E = {RowOf(first, k) : k \in Starts(A)}
    BY <1>0, <1>3 DEF E
  <2>3. F = {RowOf(rest, k) : k \in Starts(B)}
    BY <1>0, <1>3 DEF F
  <2>4. ParseFile(file).entries = {RowOf(file, k) : k \in Starts(lines)}
    BY <1>0, <1>3
  <2>. QED  BY <2>1, <2>2, <2>3, <2>4
<1>6. c = Cardinality(Starts(A))
  BY <1>3, <1>4, EveryRecordARow
<1>. HIDE DEF E, F, c
<1>7. /\ Starts(A) = {k \in Starts(lines) : k <= m}
      /\ \A k \in Nat : k \in Starts(B) <=> k > 0 /\ m + k \in Starts(lines)
  <2>1. Starts(A) = {k \in Starts(lines) : k <= m}
    BY <1>1, StartsOfFirst, Zenon
  <2>2. \A k \in Nat : k \in Starts(B) <=> k > 0 /\ m + k \in Starts(lines)
    BY <1>1, StartsOfOther, Zenon
  <2>. QED  BY <2>1, <2>2
<1>8. Starts(lines) \in SUBSET (1 .. Len(lines)) /\ Starts(B) \in SUBSET Nat
  BY <1>4, StartsOf
<1>9. ASSUME NEW k \in Starts(A) PROVE RowOf(first, k) = RowOf(file, k)
  <2>1. k \in 1 .. m
    BY <1>4, <1>7, <1>8
  <2>2. Record(A, k) = Record(lines, k)
    BY <1>1, <2>1, RecordsOfFirst, Zenon
  <2>3. LineNo(A, k) = LineNo(lines, k)
    BY <1>1, <1>9, NumbersOfFirst, Zenon
  <2>. QED  BY <1>3, <2>2, <2>3, Zenon DEF RowOf
<1>10. ASSUME NEW k \in Starts(B)
       PROVE  [RowOf(rest, k) EXCEPT !.line = @ + c] = RowOf(file, m + k)
  <2>0. ASSUME NEW i \in Starts(B)
        PROVE  LineNo(lines, m + i) = LineNo(B, i) + Cardinality(Starts(A))
    BY ONLY lines \in Seq(Line), m \in 0 .. Len(lines), ~InQuote(lines, m + 1), <1>1, <2>0,
            NumbersOfOther
  <2>1. k \in 1 .. Len(lines) - m
    <3>1. k \in Nat /\ k > 0 /\ m + k \in 1 .. Len(lines) /\ Len(lines) \in Nat
      BY <1>7, <1>8, <1>10, LinesOf
    <3>. QED  BY <1>4, <3>1
  <2>2. Record(B, k) = Record(lines, m + k)
    BY <1>1, <2>1, RecordsOfOther, Zenon
  <2>3. LineNo(B, k) + c = LineNo(lines, m + k)
    <3>1. LineNo(lines, m + k) = LineNo(B, k) + Cardinality(Starts(A))
      BY <1>10, <2>0
    <3>. QED  BY <1>1, <1>6, <1>10, <3>1
  <2>4. \A l, n, row : [BuildEntry(l, row, h) EXCEPT !.line = @ + n] = BuildEntry(l + n, row, h)
    BY DEF BuildEntry, Entry
  <2>5. [BuildEntry(LineNo(B, k), Record(B, k), h) EXCEPT !.line = @ + c]
          = BuildEntry(LineNo(B, k) + c, Record(B, k), h)
    BY <2>4
  <2>. QED  BY <1>3, <2>2, <2>3, <2>5, Zenon DEF RowOf
<1>11. ASSUME NEW k \in Starts(lines)
       PROVE  RowOf(file, k) \in CutAfter(file, m)
  <2>1. CASE k <= m
    <3>1. k \in Starts(A)
      BY <1>7, <2>1
    <3>. QED  BY <1>5, <1>9, <3>1
  <2>2. CASE ~(k <= m)
    <3>1. k - m \in Nat /\ k - m > 0 /\ m + (k - m) = k
      BY <1>4, <1>8, <2>2, LinesOf
    <3>2. k - m \in Starts(B)
      BY <1>7, <3>1
    <3>3. RowOf(file, k) = [RowOf(rest, k - m) EXCEPT !.line = @ + c]
      BY <1>10, <3>1, <3>2
    <3>. QED  BY <1>5, <3>2, <3>3
  <2>. QED  BY <2>1, <2>2
<1>12. ASSUME NEW e \in CutAfter(file, m) PROVE e \in ParseFile(file).entries
  <2>1. CASE e \in E
    BY <1>5, <1>7, <1>9, <2>1
  <2>2. CASE e \notin E
    <3>1. PICK k \in Starts(B) : e = [RowOf(rest, k) EXCEPT !.line = @ + c]
      BY <1>5, <1>12, <2>2
    <3>2. e = RowOf(file, m + k) /\ m + k \in Starts(lines)
      BY <1>7, <1>8, <1>10, <3>1
    <3>. QED  BY <1>5, <3>2
  <2>. QED  BY <2>1, <2>2
<1>13. ParseFile(file).entries \subseteq CutAfter(file, m)
  BY <1>5, <1>11, Zenon
<1>14. CutAfter(file, m) \subseteq ParseFile(file).entries
  BY <1>12, Zenon
<1>. QED  BY <1>13, <1>14, Zenon

----------------------------------------------------------------------------
(* Columns in another order.                                                *)

(* Exchange, as a reading of the sequence by other indices.                 *)
Swap(j, i) == IF i = 1 THEN j ELSE IF i = j THEN 1 ELSE i

LEMMA Joined ==
    ASSUME NEW X, NEW p \in Seq(X), NEW q \in Seq(X), NEW r, r = p \o q
    PROVE  /\ r \in Seq(X) /\ Len(r) = Len(p) + Len(q)
           /\ \A i \in 1 .. Len(p) : r[i] = p[i]
           /\ \A i \in 1 .. Len(q) : r[Len(p) + i] = q[i]
  BY ConcatProperties

LEMMA ExchangeSwaps ==
    ASSUME NEW X, NEW s \in Seq(X), NEW j \in 2 .. Len(s)
    PROVE  /\ DOMAIN Exchange(s, j) = DOMAIN s /\ Len(Exchange(s, j)) = Len(s)
           /\ \A i \in DOMAIN s : Exchange(s, j)[i] = s[Swap(j, i)]
<1>1. s[j] \in X /\ s[1] \in X /\ Len(s) \in Nat /\ DOMAIN s = 1 .. Len(s) /\ j \in Nat
  OBVIOUS
<1> DEFINE a == <<s[j]>>
           b == SubSeq(s, 2, j - 1)
           c == <<s[1]>>
           d == SubSeq(s, j + 1, Len(s))
<1>2. a \in Seq(X) /\ Len(a) = 1 /\ a[1] = s[j]
  BY <1>1
<1>3. c \in Seq(X) /\ Len(c) = 1 /\ c[1] = s[1]
  BY <1>1
<1>4. /\ b \in Seq(X) /\ Len(b) = j - 2
      /\ \A i \in 1 .. j - 2 : b[i] = s[1 + i]
  <2>1. \A i \in 2 .. j - 1 : s[i] \in X
    BY <1>1
  <2>2. /\ b \in Seq(X) /\ Len(b) = IF 2 <= j - 1 THEN (j - 1) - 2 + 1 ELSE 0
        /\ \A i \in 1 .. (j - 1) - 2 + 1 : b[i] = s[2 + i - 1]
    BY <2>1, SubSeqProperties
  <2>. HIDE DEF b
  <2>3. (j - 1) - 2 + 1 = j - 2 /\ \A i \in 1 .. j - 2 : 2 + i - 1 = 1 + i
    BY <1>1
  <2>4. Len(b) = j - 2
    BY <2>2, <2>3, <1>1
  <2>5. \A i \in 1 .. j - 2 : b[i] = s[1 + i]
    BY <2>2, <2>3
  <2>. QED  BY <2>2, <2>4, <2>5
<1>5. /\ d \in Seq(X) /\ Len(d) = Len(s) - j
      /\ \A i \in 1 .. Len(s) - j : d[i] = s[j + i]
  <2>1. \A i \in j + 1 .. Len(s) : s[i] \in X
    BY <1>1
  <2>2. /\ d \in Seq(X) /\ Len(d) = IF j + 1 <= Len(s) THEN Len(s) - (j + 1) + 1 ELSE 0
        /\ \A i \in 1 .. Len(s) - (j + 1) + 1 : d[i] = s[(j + 1) + i - 1]
    BY <1>1, <2>1, SubSeqProperties
  <2>. HIDE DEF a, b, c, d
  <2>3. /\ Len(s) - (j + 1) + 1 = Len(s) - j
        /\ \A i \in 1 .. Len(s) - j : (j + 1) + i - 1 = j + i
    BY <1>1
  <2>4. Len(d) = Len(s) - j
    <3>1. CASE j + 1 <= Len(s)
      BY <2>2, <2>3, <3>1
    <3>2. CASE ~(j + 1 <= Len(s))
      <4>1. Len(d) = 0
        BY <2>2, <3>2
      <4>2. j <= Len(s) /\ Len(s) \in Int /\ j \in Int
        BY <1>1
      <4>3. Len(s) - j = 0
        BY <3>2, <4>2
      <4>. QED  BY <4>1, <4>3
    <3>. QED  BY <3>1, <3>2
  <2>5. \A i \in 1 .. Len(s) - j : d[i] = s[j + i]
    BY <2>2, <2>3
  <2>. QED  BY <2>2, <2>4, <2>5
<1>6. a \in Seq(X) /\ b \in Seq(X) /\ c \in Seq(X) /\ d \in Seq(X)
  BY <1>2, <1>3, <1>4, <1>5
<1>7. PICK ab, abc, r : ab = a \o b /\ abc = ab \o c /\ r = abc \o d
  OBVIOUS
<1>8. Exchange(s, j) = r
  BY <1>7 DEF Exchange
<1>. HIDE DEF a, b, c, d
<1>9. /\ ab \in Seq(X) /\ Len(ab) = Len(a) + Len(b)
      /\ \A i \in 1 .. Len(a) : ab[i] = a[i]
      /\ \A i \in 1 .. Len(b) : ab[Len(a) + i] = b[i]
  BY <1>6, <1>7, Joined
<1>10. /\ abc \in Seq(X) /\ Len(abc) = Len(ab) + Len(c)
       /\ \A i \in 1 .. Len(ab) : abc[i] = ab[i]
       /\ \A i \in 1 .. Len(c) : abc[Len(ab) + i] = c[i]
  BY <1>6, <1>7, <1>9, Joined
<1>11. /\ r \in Seq(X) /\ Len(r) = Len(abc) + Len(d)
       /\ \A i \in 1 .. Len(abc) : r[i] = abc[i]
       /\ \A i \in 1 .. Len(d) : r[Len(abc) + i] = d[i]
  BY <1>6, <1>7, <1>10, Joined
<1>12. Len(ab) = j - 1 /\ Len(abc) = j /\ Len(r) = Len(s)
  <2>1. Len(a) = 1 /\ Len(b) = j - 2 /\ Len(c) = 1 /\ Len(d) = Len(s) - j
    BY <1>2, <1>3, <1>4, <1>5
  <2>2. /\ Len(ab) = Len(a) + Len(b) /\ Len(abc) = Len(ab) + Len(c)
        /\ Len(r) = Len(abc) + Len(d)
    BY <1>9, <1>10, <1>11
  <2>. QED  BY <1>1, <2>1, <2>2
<1>13. /\ ab[1] = s[j] /\ abc[j] = s[1]
       /\ \A i \in 1 .. j - 2 : ab[1 + i] = s[1 + i]
       /\ \A i \in 1 .. j - 1 : abc[i] = ab[i]
  <2>1. \A i \in 1 .. j - 2 : ab[1 + i] = s[1 + i]
    BY <1>1, <1>2, <1>4, <1>9
  <2>2. ab[1] = s[j]
    BY <1>2, <1>9
  <2>3. abc[(j - 1) + 1] = s[1] /\ (j - 1) + 1 = j
    BY <1>1, <1>3, <1>10, <1>12
  <2>. QED  BY <2>1, <2>2, <2>3, <1>10, <1>12
<1>14. /\ \A i \in 1 .. j : r[i] = abc[i]
       /\ \A i \in 1 .. Len(s) - j : r[j + i] = s[j + i]
  <2>1. \A i \in 1 .. Len(s) - j : r[j + i] = d[i]
    BY <1>5, <1>11, <1>12
  <2>. QED  BY <2>1, <1>5, <1>11, <1>12
<1>15. ASSUME NEW i \in 1 .. Len(s) PROVE r[i] = s[Swap(j, i)]
  <2>1. CASE i = 1
    BY <2>1, <1>1, <1>13, <1>14 DEF Swap
  <2>2. CASE i > 1 /\ i < j
    <3>1. i - 1 \in 1 .. j - 2 /\ 1 + (i - 1) = i /\ i \in 1 .. j - 1 /\ i \in 1 .. j
      BY <2>2, <1>1
    <3>2. r[i] = s[i]
      BY <3>1, <1>13, <1>14
    <3>. QED  BY <3>2, <2>2 DEF Swap
  <2>3. CASE i = j
    BY <2>3, <1>1, <1>13, <1>14 DEF Swap
  <2>4. CASE i > j
    <3>1. i - j \in 1 .. Len(s) - j /\ j + (i - j) = i
      BY <2>4, <1>1
    <3>2. r[i] = s[i]
      BY <3>1, <1>14
    <3>. QED  BY <3>2, <2>4, <1>1 DEF Swap
  <2>5. i = 1 \/ (i > 1 /\ i < j) \/ i = j \/ i > j
    BY <1>1
  <2>. QED  BY <2>1, <2>2, <2>3, <2>4, <2>5
<1>16. DOMAIN r = 1 .. Len(s)
  BY <1>11, <1>12
<1>. QED  BY <1>1, <1>8, <1>12, <1>15, <1>16

LEMMA SwapTwice ==
    ASSUME NEW n \in Nat, NEW j \in 2 .. n, NEW i \in 1 .. n
    PROVE  Swap(j, i) \in 1 .. n /\ Swap(j, Swap(j, i)) = i
  BY DEF Swap

(* Where no name occurs twice, a name has at most one column, and it moves  *)
(* with the exchange.                                                       *)
LEMMA ColumnsMove ==
    ASSUME NEW h \in Seq(STRING), IsInjective(h), NEW j \in 2 .. Len(h), NEW name
    PROVE  \/ Columns(h, name) = {} /\ Columns(Exchange(h, j), name) = {}
           \/ \E i \in DOMAIN h : /\ Columns(h, name) = {i}
                                  /\ Columns(Exchange(h, j), name) = {Swap(j, i)}
<1> DEFINE n == Len(h)
           x == Exchange(h, j)
<1>1. n \in Nat /\ DOMAIN h = 1 .. n /\ DOMAIN x = 1 .. n
  BY LenProperties, ExchangeSwaps
<1>2. \A i \in 1 .. n : x[i] = h[Swap(j, i)]
  BY <1>1, ExchangeSwaps
<1>3. \A i \in 1 .. n : Swap(j, i) \in 1 .. n /\ Swap(j, Swap(j, i)) = i
  BY <1>1, SwapTwice
<1>. HIDE DEF n, x
<1>4. CASE \A i \in 1 .. n : h[i] # name
  BY <1>1, <1>2, <1>3, <1>4 DEF Columns, x
<1>5. CASE \E i \in 1 .. n : h[i] = name
  <2>1. PICK i \in 1 .. n : h[i] = name
    BY <1>5
  <2>2. Columns(h, name) = {i}
    BY <1>1, <2>1 DEF Columns, IsInjective
  <2>3. x[Swap(j, i)] = name
    BY <1>2, <1>3, <2>1
  <2>4. \A k \in 1 .. n : x[k] = name => k = Swap(j, i)
    <3>. SUFFICES ASSUME NEW k \in 1 .. n, x[k] = name PROVE k = Swap(j, i)
      OBVIOUS
    <3>1. Swap(j, k) = i
      BY <1>1, <1>2, <1>3, <2>1 DEF IsInjective
    <3>. QED  BY <3>1, <1>3
  <2>5. Columns(x, name) = {Swap(j, i)}
    BY <1>1, <1>3, <2>3, <2>4 DEF Columns
  <2>. QED  BY <1>1, <2>2, <2>5 DEF x
<1>. QED  BY <1>4, <1>5

LEMMA AliasesType ==
    \A f \in Field : IsFiniteSet(DOMAIN Aliases[f]) /\ DOMAIN Aliases[f] \subseteq Nat
<1>1. \A f \in Field : DOMAIN Aliases[f] = 1 .. 2
  BY DEF Field, Aliases
<1>2. IsFiniteSet(1 .. 2) /\ 1 .. 2 \subseteq Nat
  <2>1. \A n \in Nat : IsFiniteSet(1 .. n)
    BY FS_Interval
  <2>2. 2 \in Nat /\ 1 .. 2 \subseteq Nat
    OBVIOUS
  <2>. QED  BY <2>1, <2>2, Zenon
<1>. QED  BY <1>1, <1>2, Zenon

LEMMA ColumnMoves ==
    ASSUME NEW h \in Seq(STRING), IsInjective(h), NEW j \in 2 .. Len(h), NEW f \in Field
    PROVE  \/ Column(h, f) = 0 /\ Column(Exchange(h, j), f) = 0
           \/ Column(h, f) \in DOMAIN h /\ Column(Exchange(h, j), f) = Swap(j, Column(h, f))
<1> DEFINE x == Exchange(h, j)
           A == Aliases[f]
           named == {k \in DOMAIN A : Columns(h, A[k]) # {}}
<1>1. named = {k \in DOMAIN A : Columns(x, A[k]) # {}}
  <2>1. \A name : Columns(h, name) # {} <=> Columns(x, name) # {}
    <3>. SUFFICES ASSUME NEW name
                  PROVE  Columns(h, name) # {} <=> Columns(x, name) # {}
      OBVIOUS
    <3>1. \A i, k : {i} # {} /\ {Swap(k, i)} # {}
      OBVIOUS
    <3>2. \/ Columns(h, name) = {} /\ Columns(x, name) = {}
          \/ \E i \in DOMAIN h : /\ Columns(h, name) = {i}
                                 /\ Columns(x, name) = {Swap(j, i)}
      BY ColumnsMove
    <3>. HIDE DEF x
    <3>. QED  BY <3>1, <3>2
  <2>. HIDE DEF x
  <2>. QED  BY <2>1
<1>2. CASE named = {}
  BY <1>1, <1>2 DEF Column
<1>3. CASE named # {}
  <2> DEFINE m == Min(named)
  <2>1. m \in named
    <3>1. IsFiniteSet(DOMAIN A) /\ DOMAIN A \subseteq Nat
      BY AliasesType
    <3>. HIDE DEF A
    <3>2. IsFiniteSet(named)
      BY <3>1, FS_Subset
    <3>3. named \subseteq Int
      BY <3>1
    <3>. QED  BY <1>3, <3>2, <3>3, MinOfFinite
  <2>2. Column(h, f) = Min(Columns(h, A[m])) /\ Column(x, f) = Min(Columns(x, A[m]))
    BY <1>1, <1>3 DEF Column
  <2>3. Columns(h, A[m]) # {}
    BY <2>1
  <2>. HIDE DEF m, x
  <2>4. PICK i \in DOMAIN h : Columns(h, A[m]) = {i} /\ Columns(x, A[m]) = {Swap(j, i)}
    BY <2>3, ColumnsMove DEF x
  <2>5. \A z \in Int : Min({z}) = z
    BY DEF Min
  <2>6. i \in Int /\ Swap(j, i) \in Int
    BY LenProperties, SwapTwice
  <2>. QED  BY <2>2, <2>4, <2>5, <2>6 DEF x
<1>. QED  BY <1>2, <1>3

(* Then a full line says the same with two columns exchanged.               *)
LEMMA SameCells ==
    ASSUME NEW h \in Seq(STRING), IsInjective(h), NEW j \in 2 .. Len(h), NEW f \in Field,
           NEW X, NEW row \in Seq(X), Len(row) = Len(h)
    PROVE  Cell(Exchange(h, j), Exchange(row, j), f) = Cell(h, row, f)
<1>1. /\ DOMAIN Exchange(row, j) = DOMAIN row
      /\ \A i \in DOMAIN row : Exchange(row, j)[i] = row[Swap(j, i)]
  BY ExchangeSwaps
<1>2. DOMAIN row = 1 .. Len(h) /\ DOMAIN h = 1 .. Len(h) /\ Len(h) \in Nat
  BY LenProperties
<1>3. CASE Column(h, f) = 0 /\ Column(Exchange(h, j), f) = 0
  BY <1>1, <1>2, <1>3 DEF Cell
<1>4. CASE Column(h, f) \in DOMAIN h /\ Column(Exchange(h, j), f) = Swap(j, Column(h, f))
  <2>1. /\ Swap(j, Column(h, f)) \in DOMAIN row
        /\ Swap(j, Swap(j, Column(h, f))) = Column(h, f)
    BY <1>2, <1>4, SwapTwice
  <2>. QED  BY <1>1, <1>2, <1>4, <2>1 DEF Cell
<1>. QED  BY <1>3, <1>4, ColumnMoves

LEMMA SameQuotes ==
    ASSUME NEW lines, NEW other, NEW n \in Nat,
           \A k \in 1 .. n : /\ other[k].opens = lines[k].opens
                             /\ other[k].closes = lines[k].closes,
           NEW k \in 1 .. n + 1
    PROVE  InQuote(other, k) = InQuote(lines, k)
<1>1. \A i \in 1 .. k - 1 : i \in 1 .. n /\ \A j \in i + 1 .. k - 1 : j \in 1 .. n
  OBVIOUS
<1>. QED  BY <1>1 DEF InQuote

(* A line that neither runs on nor is run into is a record by itself.       *)
LEMMA RecordAlone ==
    ASSUME NEW lines, NEW n \in Nat, Len(lines) = n, NEW k \in 1 .. n,
           ~InQuote(lines, k), lines[k].opens = FALSE
    PROVE  Record(lines, k) = lines[k].cells
<1>1. ~InQuote(lines, k + 1)
  <2>. SUFFICES ASSUME InQuote(lines, k + 1) PROVE FALSE
    OBVIOUS
  <2>1. PICK i \in 1 .. k : lines[i].opens /\ \A j \in i + 1 .. k : lines[j].closes = 0
    <3>1. (k + 1) - 1 = k
      OBVIOUS
    <3>. QED  BY <3>1 DEF InQuote
  <2>2. i # k
    BY <2>1
  <2>3. i \in 1 .. k - 1 /\ \A j \in i + 1 .. k - 1 : j \in i + 1 .. k
    BY <2>2
  <2>. QED  BY <2>1, <2>3 DEF InQuote
<1>2. LastLine(lines, k) = k
  <2> DEFINE T == {j \in k .. n : j = n \/ ~InQuote(lines, j + 1)}
  <2>1. k \in T /\ \A j \in T : k <= j
    BY <1>1
  <2>2. LastLine(lines, k) = Min(T)
    BY DEF LastLine
  <2>3. T \subseteq Int
    OBVIOUS
  <2>. HIDE DEF T
  <2>4. \A x \in T : (\A y \in T : x <= y) => x = k
    BY <2>1, <2>3
  <2>5. Min(T) = CHOOSE x \in T : \A y \in T : x <= y
    BY DEF Min
  <2>6. Min(T) = k
    BY <2>1, <2>4, <2>5
  <2>. QED  BY <2>2, <2>6
<1>3. SubSeq(lines, k + 1, LastLine(lines, k)) = <<>>
  <2>1. k \in Int /\ k + 1 \in Int /\ k < k + 1
    OBVIOUS
  <2>. QED  BY <1>2, <2>1, SubSeqEmpty
<1>. QED  BY <1>3, FoldNothing DEF Record

LEMMA ReorderedSays ==
    ASSUME NEW file, file.header \in Seq(STRING), IsInjective(file.header),
           file.lines \in Seq(Line), NEW j \in 2 .. Len(file.header)
    PROVE  Reordered(file, j) \subseteq ParseFile(file).entries
<1> DEFINE lines == file.lines
           h == file.header
           swapped == [n \in DOMAIN lines |->
                         IF n \in FullLines(file)
                         THEN [lines[n] EXCEPT !.cells = Exchange(@, j)] ELSE lines[n]]
           other == [header |-> Exchange(h, j), lines |-> swapped]
<1>1. /\ Len(lines) \in Nat /\ DOMAIN lines = 1 .. Len(lines) /\ Len(h) \in Nat
      /\ \A k \in 1 .. Len(lines) : lines[k] \in Line /\ lines[k].cells \in Seq(Value)
  BY LinesOf, LenProperties
<1>2. PICK N \in Nat : N = Len(lines)
  BY <1>1
<1>3. ASSUME NEW k \in 1 .. N
      PROVE  /\ swapped[k].opens = lines[k].opens /\ swapped[k].closes = lines[k].closes
             /\ swapped[k].cells = IF k \in FullLines(file) THEN Exchange(lines[k].cells, j)
                                                           ELSE lines[k].cells
             /\ swapped[k].cells = <<>> <=> lines[k].cells = <<>>
  <2>1. lines[k] = [cells |-> lines[k].cells, opens |-> lines[k].opens,
                    closes |-> lines[k].closes]
    BY <1>1, <1>2 DEF Line
  <2>2. swapped[k] = IF k \in FullLines(file)
                     THEN [lines[k] EXCEPT !.cells = Exchange(@, j)] ELSE lines[k]
    BY <1>1, <1>2
  <2>3. CASE k \in FullLines(file)
    <3>1. lines[k].cells \in Seq(Value) /\ Len(lines[k].cells) = Len(h)
      BY <1>1, <1>2, <2>3 DEF FullLines
    <3>2. Len(Exchange(lines[k].cells, j)) = Len(lines[k].cells)
      BY <3>1, ExchangeSwaps
    <3>3. Len(lines[k].cells) # 0 /\ Len(<<>>) = 0
      BY <1>1, <3>1
    <3>. HIDE DEF swapped, lines
    <3>4. swapped[k] = [cells |-> Exchange(lines[k].cells, j), opens |-> lines[k].opens,
                        closes |-> lines[k].closes]
      BY <2>1, <2>2, <2>3
    <3>5. Exchange(lines[k].cells, j) # <<>> /\ lines[k].cells # <<>>
      BY <3>2, <3>3
    <3>. QED  BY <2>3, <3>4, <3>5
  <2>4. CASE k \notin FullLines(file)
    <3>. HIDE DEF swapped, lines
    <3>. QED  BY <2>2, <2>4
  <2>. QED  BY <2>3, <2>4
<1>4. DOMAIN swapped = 1 .. N /\ DOMAIN lines = 1 .. N /\ Len(swapped) = N
  <2>1. DOMAIN swapped = 1 .. N
    BY <1>1, <1>2
  <2>2. PICK value : value = [k \in 1 .. N |-> swapped[k]]
    OBVIOUS
  <2>3. value = swapped
    BY <1>1, <1>2, <2>2
  <2>4. Len(value) = N
    <3>. HIDE DEF swapped
    <3>. QED  BY <2>2
  <2>. QED  BY <1>1, <1>2, <2>1, <2>3, <2>4
<1>5. \A k \in 1 .. N + 1 : InQuote(swapped, k) = InQuote(lines, k)
  <2>. HIDE DEF swapped, lines
  <2>. QED  BY <1>3, SameQuotes
<1>6. Starts(swapped) = Starts(lines)
  <2>1. \A k \in 1 .. N : k \in 1 .. N + 1
    OBVIOUS
  <2>. HIDE DEF swapped, lines
  <2>. QED  BY <1>3, <1>4, <1>5, <2>1 DEF Starts
<1>7. \A k : LineNo(swapped, k) = LineNo(lines, k)
  <2>. HIDE DEF swapped, lines
  <2>. QED  BY <1>6 DEF LineNo
<1>. SUFFICES ASSUME NEW e \in ParseFile(other).entries, NEW n \in FullLines(file),
                     e.line = LineNo(lines, n)
              PROVE  e \in ParseFile(file).entries
  BY DEF Reordered
<1>8. other.lines = swapped /\ other.header = Exchange(h, j)
  OBVIOUS
<1>9. n \in Starts(lines) /\ n \in 1 .. N /\ lines[n].opens \in BOOLEAN
      /\ ~lines[n].opens /\ Len(lines[n].cells) = Len(h) /\ ~InQuote(lines, n)
  <2>1. n \in Starts(lines) /\ ~lines[n].opens /\ Len(lines[n].cells) = Len(h)
    BY DEF FullLines
  <2>2. n \in 1 .. N /\ ~InQuote(lines, n)
    BY <1>4, <2>1 DEF Starts
  <2>3. lines[n] \in Line
    BY <1>1, <1>2, <2>2
  <2>. QED  BY <2>1, <2>2, <2>3 DEF Line
<1>10. PICK k \in Starts(lines) : e = RowOf(other, k) /\ e.line = LineNo(lines, k)
  <2>1. /\ ParseFile(other).entries = {RowOf(other, i) : i \in Starts(other.lines)}
        /\ \A i : RowOf(other, i).line = LineNo(other.lines, i)
    BY RowsParsed, Zenon
  <2>. HIDE DEF other, swapped, lines
  <2>. QED  BY <1>6, <1>7, <1>8, <2>1
<1>11. k = n
  <2>1. \A a, b \in Starts(lines) : LineNo(lines, a) = LineNo(lines, b) => a = b
    BY LineNumbers, Zenon
  <2>. HIDE DEF lines, other
  <2>. QED  BY <1>9, <1>10, <2>1
<1> DEFINE row == lines[n].cells
<1>12. row \in Seq(Value) /\ Len(row) = Len(h)
  BY <1>1, <1>2, <1>9
<1>13. \A f \in Field : Cell(Exchange(h, j), Exchange(row, j), f) = Cell(h, row, f)
  BY <1>12, SameCells
<1>14. Record(lines, n) = row
  <2>1. lines[n].opens = FALSE /\ Len(lines) = N
    BY <1>2, <1>9
  <2>. HIDE DEF lines
  <2>. QED  BY <1>9, <2>1, RecordAlone
<1>15. Record(swapped, n) = Exchange(row, j)
  <2>1. swapped[n].opens = FALSE /\ swapped[n].cells = Exchange(row, j)
    BY <1>3, <1>9
  <2>2. ~InQuote(swapped, n) /\ Len(swapped) = N
    <3>1. n \in 1 .. N + 1
      BY <1>9
    <3>. HIDE DEF swapped, lines
    <3>. QED  BY <1>4, <1>5, <1>9, <3>1
  <2>. HIDE DEF swapped, lines, row
  <2>. QED  BY <1>9, <2>1, <2>2, RecordAlone
<1>. HIDE DEF row, h, swapped, lines, other
<1>16. BuildEntry(LineNo(lines, n), Exchange(row, j), Exchange(h, j))
         = BuildEntry(LineNo(lines, n), row, h)
  BY <1>13 DEF BuildEntry, Field
<1>17. RowOf(other, n) = RowOf(file, n)
  BY <1>7, <1>8, <1>14, <1>15, <1>16 DEF RowOf, h, lines
<1>18. ParseFile(file).entries = {RowOf(file, i) : i \in Starts(lines)}
  BY RowsParsed, Zenon DEF lines
<1>. QED  BY <1>9, <1>10, <1>11, <1>17, <1>18

(* The rows stored for an upload are those of its file.                     *)
LEMMA EntriesOf ==
    ASSUME DataInv
    PROVE  /\ \A x \in entries : x.upload \in uploads
           /\ \A u \in uploads :
                 {x.e : x \in {y \in entries : y.upload = u}} = ParseFile(Content[u]).entries
<1>1. \A v : BatchIn(users, owner, v).upload = v
  BY DEF BatchIn
<1>2. \A x : x \in entries <=> \E v \in uploads : x \in FileRows(BatchIn(users, owner, v))
  BY DEF DataInv, Filled
<1>3. \A x, v : x \in FileRows(BatchIn(users, owner, v)) => x.upload = v
  BY <1>1, FilledByUpload
<1>4. \A x \in entries : x.upload \in uploads
  BY <1>2, <1>3
<1>. SUFFICES ASSUME NEW u \in uploads
              PROVE  {x.e : x \in {y \in entries : y.upload = u}}
                       = ParseFile(Content[u]).entries
  BY <1>4
<1> DEFINE b == BatchIn(users, owner, u)
<1>5. FileRows(b) = RowsOf(b, ParseFile(Content[u]).entries)
  BY <1>1 DEF FileRows
<1>. HIDE DEF b
<1>6. {x.e : x \in FileRows(b)} = ParseFile(Content[u]).entries
  <2> DEFINE row(e) == [upload |-> b.upload, user |-> b.user, org |-> b.org, e |-> e]
  <2>1. FileRows(b) = {row(e) : e \in ParseFile(Content[u]).entries}
    BY <1>5 DEF RowsOf
  <2>2. \A e : row(e).e = e
    OBVIOUS
  <2>. HIDE DEF row
  <2>. QED  BY <2>1, <2>2
<1>7. {y \in entries : y.upload = u} = FileRows(b)
  BY <1>2, <1>3 DEF b
<1>. QED  BY <1>6, <1>7

(* The rows of an upload are the records of its file, numbered and counted; *)
(* cutting the file where no quote is open changes none; and they are read  *)
(* by the names of the columns.                                             *)
THEOREM RecordsAreKept == ReportsSpec => []RecordsKept
<1>1. TypeOK /\ DataInv => RecordsKept
  <2>. SUFFICES ASSUME TypeOK, DataInv PROVE RecordsKept
    OBVIOUS
  <2>1. ASSUME NEW u \in uploads,
               NEW R, R = {x.e : x \in {y \in entries : y.upload = u}}
        PROVE  /\ {e.line : e \in R} = 2 .. Cardinality(R) + 1
               /\ [upload |-> u, lines |-> Cardinality(R) + 1, parsed |-> Quantify(R, Parsed)]
                    \in counts
               /\ \A m \in 0 .. Len(Content[u].lines) :
                     ~InQuote(Content[u].lines, m + 1) => CutAfter(Content[u], m) = R
               /\ IsInjective(Content[u].header) =>
                     \A j \in 2 .. Len(Content[u].header) : Reordered(Content[u], j) \subseteq R
    <3> DEFINE file == Content[u]
    <3>1. R = ParseFile(file).entries
      BY <2>1, EntriesOf
    <3>2. file.header \in Seq(STRING) /\ file.lines \in Seq(Line)
      BY ReportsAssumption DEF TypeOK
    <3>. HIDE DEF file
    <3>3. {e.line : e \in R} = 2 .. Cardinality(R) + 1
      BY <3>1, <3>2, EveryRecordARow
    <3>4. [upload |-> u, lines |-> Cardinality(R) + 1, parsed |-> Quantify(R, Parsed)] \in counts
      <4>1. CountsOf(u) \in counts
        BY DEF DataInv, Filled
      <4>2. ParseFile(file).parsed = Quantify(R, Parsed)
        BY <3>1, RowsParsed, Zenon DEF Quantify
      <4>3. ParseFile(file).lines = Cardinality(R) + 1
        <5>1. ParseFile(file).lines = 1 + Cardinality(Starts(file.lines))
          BY RowsParsed, Zenon
        <5>2. Cardinality(Starts(file.lines)) \in Nat
          BY <3>2, StartsOf
        <5>. QED  BY <3>1, <3>2, <5>1, <5>2, EveryRecordARow
      <4>. QED  BY <4>1, <4>2, <4>3 DEF CountsOf, file
    <3>5. ASSUME NEW m \in 0 .. Len(file.lines), ~InQuote(file.lines, m + 1)
          PROVE  CutAfter(file, m) = R
      BY <3>1, <3>2, <3>5, PartsSay
    <3>6. ASSUME IsInjective(file.header), NEW j \in 2 .. Len(file.header)
          PROVE  Reordered(file, j) \subseteq R
      BY <3>1, <3>2, <3>6, ReorderedSays
    <3>. QED  BY <3>3, <3>4, <3>5, <3>6 DEF file
  <2>2. \A x \in entries : x.upload \in uploads
    BY EntriesOf
  <2>. QED  BY <2>1, <2>2 DEF RecordsKept
<1>. QED  BY <1>1, DataInvariance, PTL

----------------------------------------------------------------------------
(* There are finitely many of everything.                                   *)

LEMMA UploadsAreFinite == ReportsSpec => []IsFiniteSet(uploads)
<1>1. ReportsInit => IsFiniteSet(uploads)
  BY FS_EmptySet DEF ReportsInit, Init
<1>2. ASSUME IsFiniteSet(uploads), [ReportsNext]_reportVars
      PROVE  IsFiniteSet(uploads)'
  <2>1. CASE UNCHANGED reportVars
    BY <1>2, <2>1 DEF reportVars, people
  <2>2. ASSUME NEW c \in DOMAIN users, NEW u \in Upload,
               StoreWith(c, u, ParseFile(Content[u]))
        PROVE  IsFiniteSet(uploads)'
    BY <1>2, <2>2, FS_AddElement DEF StoreWith, Store
  <2>3. ASSUME NEW c \in DOMAIN users, NEW u \in Upload, DeleteWith(c, u)
        PROVE  IsFiniteSet(uploads)'
    BY <1>2, <2>3, FS_RemoveElement DEF DeleteWith, DeleteUpload
  <2>4. CASE (RequestStep \/ UserStep \/ ExpiryStep) /\ UNCHANGED data
    BY <1>2, <2>4, RequestsKeepPeople
       DEF UserStep, Register, Invite, ExpiryStep, Expire, people
  <2>. QED  BY <1>2, <2>1, <2>2, <2>3, <2>4 DEF ReportsNext
<1>. QED  BY <1>1, <1>2, PTL DEF ReportsSpec

LEMMA EntriesAreFinite ==
    ASSUME TypeOK, DataInv, IsFiniteSet(uploads)
    PROVE  IsFiniteSet(entries)
<1> DEFINE F(u) == FileRows(BatchIn(users, owner, u))
           P == {s \in SUBSET uploads : IsFiniteSet(UNION {F(u) : u \in s})}
<1>1. \A s : s \in P <=> s \in SUBSET uploads /\ IsFiniteSet(UNION {F(u) : u \in s})
  OBVIOUS
<1>2. \A u \in uploads : IsFiniteSet(F(u))
  <2>. SUFFICES ASSUME NEW u \in uploads PROVE IsFiniteSet(F(u))
    OBVIOUS
  <2> DEFINE b == BatchIn(users, owner, u)
             E == ParseFile(Content[u]).entries
             row == [e \in E |-> [upload |-> b.upload, user |-> b.user, org |-> b.org, e |-> e]]
  <2>1. Content[u].lines \in Seq(Line)
    BY ReportsAssumption DEF TypeOK
  <2>2. IsFiniteSet(E)
    BY <2>1, EveryRecordARow
  <2>3. F(u) = {row[e] : e \in E}
    BY DEF FileRows, RowsOf, BatchIn
  <2>. HIDE DEF E, F
  <2>4. row \in Surjection(E, F(u))
    BY <2>3 DEF Surjection
  <2>. QED  BY <2>2, <2>4, FS_Surjection
<1>. HIDE DEF P, F
<1>3. {} \in P
  BY <1>1, FS_EmptySet
<1>4. ASSUME NEW s \in SUBSET uploads, NEW u \in uploads \ s, s \in P
      PROVE  s \cup {u} \in P
  <2>1. UNION {F(v) : v \in s \cup {u}} = (UNION {F(v) : v \in s}) \cup F(u)
    OBVIOUS
  <2> DEFINE old == UNION {F(v) : v \in s}
             both == UNION {F(v) : v \in s \cup {u}}
  <2>2. IsFiniteSet(old) /\ IsFiniteSet(F(u)) /\ both = old \cup F(u)
    BY <1>1, <1>2, <1>4, <2>1
  <2>. HIDE DEF old, both
  <2>3. IsFiniteSet(old \cup F(u))
    BY <2>2, FS_Union
  <2>4. IsFiniteSet(both)
    BY <2>2, <2>3, Zenon
  <2>. QED  BY <1>1, <2>4 DEF both
<1>5. uploads \in P
  BY <1>3, <1>4, SubsetInduction
<1>6. entries = UNION {F(u) : u \in uploads}
  BY DEF DataInv, Filled, F
<1>. QED  BY <1>1, <1>5, <1>6

----------------------------------------------------------------------------
(* What the rows are.                                                       *)

LEMMA CellsAreValues ==
    ASSUME NEW h, NEW row \in Seq(Value), NEW f
    PROVE  Cell(h, row, f) \in Value /\ (Cell(h, row, f) = Dash => Dash = Blank)
<1>1. \A i \in DOMAIN row : row[i] \in Value
  OBVIOUS
<1>. QED  BY <1>1 DEF Cell, Clean, Value

EntryTyped(e) ==
    /\ e.ts \in Int \cup {None} /\ e.host \in Value \cup {None}
    /\ e.resp_code \in Int \cup {None} /\ e.latency_ms \in Int \cup {None}

LEMMA RowsAreTyped ==
    ASSUME NEW file, file.lines \in Seq(Line)
    PROVE  \A e \in ParseFile(file).entries : EntryTyped(e)
<1>. SUFFICES ASSUME NEW k \in Starts(file.lines) PROVE EntryTyped(RowOf(file, k))
  <2>1. ParseFile(file).entries = {RowOf(file, i) : i \in Starts(file.lines)}
    BY RowsParsed, Zenon
  <2>. QED  BY <2>1
<1> DEFINE row == Record(file.lines, k)
           cell(f) == Cell(file.header, row, f)
           e == BuildEntry(LineNo(file.lines, k), row, file.header)
<1>1. row \in Seq(Value)
  BY RecordType
<1>2. \A f : cell(f) \in Value /\ (cell(f) = Dash => Dash = Blank)
  <2>. HIDE DEF row
  <2>. QED  BY <1>1, CellsAreValues
<1>3. /\ e.ts = ParseTS(cell("ts"))
      /\ e.host = IF cell("host") = Blank THEN HostFromURL(cell("url")) ELSE cell("host")
      /\ e.resp_code = ParseInt(cell("resp_code"))
      /\ e.latency_ms = ParseInt(cell("latency_ms"))
  BY DEF BuildEntry, Entry
<1>. HIDE DEF cell, e
<1>4. e.ts \in Int \cup {None} /\ e.host \in Value \cup {None}
  BY <1>2, <1>3 DEF ParseTS, HostFromURL, Value
<1>5. \A v : v \in Value /\ (v = Dash => Dash = Blank) => ParseInt(v) \in Int \cup {None}
  BY DEF ParseInt, Value
<1>6. e.resp_code \in Int \cup {None} /\ e.latency_ms \in Int \cup {None}
  BY <1>2, <1>3, <1>5
<1>. QED  BY <1>4, <1>6 DEF RowOf, EntryTyped, e

(* A row says whose it is.                                                  *)
LEMMA RowsAreOwned ==
    ASSUME TypeOK, DataInv
    PROVE  \A x \in entries :
              /\ x.upload \in uploads /\ x.user = owner[x.upload]
              /\ x.org = users[owner[x.upload]].org /\ EntryTyped(x.e)
<1>. SUFFICES ASSUME NEW u \in uploads, NEW x \in FileRows(BatchIn(users, owner, u))
              PROVE  /\ x.upload = u /\ x.user = owner[u]
                     /\ x.org = users[owner[u]].org /\ EntryTyped(x.e)
  BY DEF DataInv, Filled
<1> DEFINE b == BatchIn(users, owner, u)
<1>1. PICK e \in ParseFile(Content[u]).entries :
         x = [upload |-> b.upload, user |-> b.user, org |-> b.org, e |-> e]
  BY DEF FileRows, RowsOf, BatchIn
<1>2. b.upload = u /\ b.user = owner[u] /\ b.org = users[owner[u]].org
  BY DEF BatchIn
<1>3. Content[u].lines \in Seq(Line)
  BY ReportsAssumption DEF TypeOK
<1>4. EntryTyped(e)
  BY <1>3, RowsAreTyped
<1>. QED  BY <1>1, <1>2, <1>4

----------------------------------------------------------------------------
(* What the rollups are: each row has one, which counts its mates.          *)

Counted(f, G) ==
    {x \in G : CASE f = "requests" -> TRUE [] f = "errors" -> IsError(x)
                 [] f = "hits" -> IsHit(x) [] f = "cached" -> HasCache(x)}
Mates(g, x) ==
    {y \in Timed(entries) : /\ y.upload = x.upload /\ HostKey(y) = HostKey(x)
                            /\ Trunc(g, y.e.ts) = Trunc(g, x.e.ts)}
RollupFor(g, x) ==
    Rollup(BatchIn(users, owner, x.upload), RollupKey(g, x), Mates(g, x))

LEMMA RollupCounts ==
    ASSUME NEW b, NEW k, NEW G, NEW f \in {"requests", "errors", "hits", "cached"}
    PROVE  Rollup(b, k, G)[f] = Cardinality(Counted(f, G))
<1>1. /\ Counted("requests", G) = G
      /\ Counted("errors", G) = {x \in G : IsError(x)}
      /\ Counted("hits", G) = {x \in G : IsHit(x)}
      /\ Counted("cached", G) = {x \in G : HasCache(x)}
  BY DEF Counted
<1>2. /\ Rollup(b, k, G).requests = Cardinality(G)
      /\ Rollup(b, k, G).errors = Quantify(G, IsError)
      /\ Rollup(b, k, G).hits = Quantify(G, IsHit)
      /\ Rollup(b, k, G).cached = Quantify(G, HasCache)
  BY Zenon DEF Rollup
<1>3. /\ Quantify(G, IsError) = Cardinality({x \in G : IsError(x)})
      /\ Quantify(G, IsHit) = Cardinality({x \in G : IsHit(x)})
      /\ Quantify(G, HasCache) = Cardinality({x \in G : HasCache(x)})
  BY Zenon DEF Quantify
<1>. QED  BY <1>1, <1>2, <1>3

(* An upload's own rows.                                                    *)
LEMMA RowsOfUpload ==
    ASSUME TypeOK, DataInv, NEW u \in uploads
    PROVE  FileRows(BatchIn(users, owner, u)) = {x \in entries : x.upload = u}
<1>1. \A v : BatchIn(users, owner, v).upload = v
  BY DEF BatchIn
<1>2. \A x, v : x \in FileRows(BatchIn(users, owner, v)) => x.upload = v
  BY <1>1, FilledByUpload
<1>. QED  BY <1>2 DEF DataInv, Filled

LEMMA RollupIn ==
    ASSUME NEW b, NEW R, NEW y
    PROVE  y \in EntryRollups(b, R)
              <=> \E g \in Grain : \E x \in Timed(R) :
                    y = Rollup(b, RollupKey(g, x), Bucket(R, RollupKey(g, x)))
<1> DEFINE roll(k) == Rollup(b, k, Bucket(R, k))
<1>1. EntryRollups(b, R)
        = {roll(k) : k \in UNION {{RollupKey(g, x) : x \in Timed(R)} : g \in Grain}}
  BY Zenon DEF EntryRollups, Kept
<1>. HIDE DEF roll
<1>2. y \in EntryRollups(b, R)
         <=> \E g \in Grain : \E x \in Timed(R) : y = roll(RollupKey(g, x))
  BY <1>1
<1>. QED  BY <1>2, Zenon DEF roll

LEMMA RollupsAre ==
    ASSUME TypeOK, DataInv, NEW b
    PROVE  b \in rollups <=> \E g \in Grain : \E x \in Timed(entries) : b = RollupFor(g, x)
<1> DEFINE R(u) == {x \in entries : x.upload = u}
           bt(u) == BatchIn(users, owner, u)
<1>1. b \in rollups <=> \E u \in uploads : b \in EntryRollups(bt(u), R(u))
  <2>1. b \in rollups <=> \E u \in uploads : b \in FileRollups(bt(u))
    BY DEF DataInv, Filled
  <2>2. \A u \in uploads : FileRollups(bt(u)) = EntryRollups(bt(u), R(u))
    BY RowsOfUpload DEF FileRollups
  <2>. QED  BY <2>1, <2>2
<1>2. \A u : b \in EntryRollups(bt(u), R(u))
               <=> \E g \in Grain : \E x \in Timed(R(u)) :
                     b = Rollup(bt(u), RollupKey(g, x), Bucket(R(u), RollupKey(g, x)))
  <2>. HIDE DEF R, bt
  <2>1. \A c, T : b \in EntryRollups(c, T)
                     <=> \E g \in Grain : \E x \in Timed(T) :
                           b = Rollup(c, RollupKey(g, x), Bucket(T, RollupKey(g, x)))
    BY RollupIn
  <2>. QED  BY <2>1, Zenon
<1>3. \A u, x : x \in Timed(R(u)) <=> x \in Timed(entries) /\ x.upload = u
  BY DEF Timed
<1>4. \A g, x : Bucket(R(x.upload), RollupKey(g, x)) = Mates(g, x)
  BY DEF RollupKey, Bucket, Kept, Timed, Mates
<1>5. \A x \in Timed(entries) : x.upload \in uploads
  BY RowsAreOwned DEF Timed
<1>6. \A g, x : RollupFor(g, x) = Rollup(bt(x.upload), RollupKey(g, x), Mates(g, x))
  BY DEF RollupFor
<1>. HIDE DEF R, bt
<1>. QED  BY <1>1, <1>2, <1>3, <1>4, <1>5, <1>6

LEMMA RollupFields ==
    ASSUME NEW g, NEW x
    PROVE  LET b == RollupFor(g, x) IN
           /\ b.upload = x.upload /\ b.grain = g /\ b.bucket = Trunc(g, x.e.ts)
           /\ b.host = HostKey(x) /\ b.user = owner[x.upload]
           /\ b.org = users[owner[x.upload]].org
  BY DEF RollupFor, Rollup, RollupKey, BatchIn

LEMMA SameRollup ==
    ASSUME NEW g, NEW x, NEW y \in Timed(entries)
    PROVE  RollupFor(g, y) = RollupFor(g, x) <=> y \in Mates(g, x)
<1>1. ASSUME RollupFor(g, y) = RollupFor(g, x) PROVE y \in Mates(g, x)
  BY <1>1, RollupFields DEF Mates
<1>2. ASSUME y \in Mates(g, x) PROVE RollupFor(g, y) = RollupFor(g, x)
  <2>1. /\ y.upload = x.upload /\ HostKey(y) = HostKey(x)
        /\ Trunc(g, y.e.ts) = Trunc(g, x.e.ts)
    BY <1>2 DEF Mates
  <2>2. Mates(g, y) = Mates(g, x)
    BY <2>1 DEF Mates
  <2>3. RollupKey(g, y) = RollupKey(g, x)
    BY <2>1 DEF RollupKey
  <2>. QED  BY <2>1, <2>2, <2>3, Zenon DEF RollupFor
<1>. QED  BY <1>1, <1>2

(* The rollups by response code, likewise.                                  *)
CodeMates(x) ==
    {y \in Coded(entries) : /\ y.upload = x.upload /\ y.e.resp_code = x.e.resp_code
                            /\ Trunc("hour", y.e.ts) = Trunc("hour", x.e.ts)}
StatusFor(x) == StatusRollup(BatchIn(users, owner, x.upload), CodeKey(x), CodeMates(x))

LEMMA StatusIn ==
    ASSUME NEW b, NEW R, NEW y
    PROVE  y \in StatusRollups(b, R)
              <=> \E x \in Coded(R) : y = StatusRollup(b, CodeKey(x), CodeBucket(R, CodeKey(x)))
<1> DEFINE roll(k) == StatusRollup(b, k, CodeBucket(R, k))
<1>1. StatusRollups(b, R) = {roll(k) : k \in {CodeKey(x) : x \in Coded(R)}}
  BY Zenon DEF StatusRollups
<1>. HIDE DEF roll
<1>2. y \in StatusRollups(b, R) <=> \E x \in Coded(R) : y = roll(CodeKey(x))
  BY <1>1
<1>. QED  BY <1>2, Zenon DEF roll

LEMMA StatusAre ==
    ASSUME TypeOK, DataInv, NEW b
    PROVE  b \in statusRollups <=> \E x \in Coded(entries) : b = StatusFor(x)
<1> DEFINE R(u) == {x \in entries : x.upload = u}
           bt(u) == BatchIn(users, owner, u)
<1>1. b \in statusRollups <=> \E u \in uploads : b \in StatusRollups(bt(u), R(u))
  <2>1. b \in statusRollups <=> \E u \in uploads : b \in FileStatus(bt(u))
    BY DEF DataInv, Filled
  <2>2. \A u \in uploads : FileStatus(bt(u)) = StatusRollups(bt(u), R(u))
    BY RowsOfUpload DEF FileStatus
  <2>. QED  BY <2>1, <2>2
<1>2. \A u : b \in StatusRollups(bt(u), R(u))
               <=> \E x \in Coded(R(u)) :
                     b = StatusRollup(bt(u), CodeKey(x), CodeBucket(R(u), CodeKey(x)))
  <2>. HIDE DEF R, bt
  <2>1. \A c, T : b \in StatusRollups(c, T)
                     <=> \E x \in Coded(T) :
                           b = StatusRollup(c, CodeKey(x), CodeBucket(T, CodeKey(x)))
    BY StatusIn
  <2>. QED  BY <2>1, Zenon
<1>3. \A u, x : x \in Coded(R(u)) <=> x \in Coded(entries) /\ x.upload = u
  BY DEF Coded, Timed
<1>4. \A x : CodeBucket(R(x.upload), CodeKey(x)) = CodeMates(x)
  BY DEF CodeKey, CodeBucket, Coded, Timed, CodeMates
<1>5. \A x \in Coded(entries) : x.upload \in uploads
  BY RowsAreOwned DEF Coded, Timed
<1>6. \A x : StatusFor(x) = StatusRollup(bt(x.upload), CodeKey(x), CodeMates(x))
  BY DEF StatusFor
<1>. HIDE DEF R, bt
<1>. QED  BY <1>1, <1>2, <1>3, <1>4, <1>5, <1>6

LEMMA StatusFields ==
    ASSUME NEW x
    PROVE  LET b == StatusFor(x) IN
           /\ b.upload = x.upload /\ b.bucket = Trunc("hour", x.e.ts)
           /\ b.code = x.e.resp_code /\ b.user = owner[x.upload]
           /\ b.org = users[owner[x.upload]].org
           /\ b["requests"] = Cardinality(CodeMates(x))
  BY DEF StatusFor, StatusRollup, CodeKey, BatchIn

LEMMA SameStatus ==
    ASSUME NEW x, NEW y \in Coded(entries)
    PROVE  StatusFor(y) = StatusFor(x) <=> y \in CodeMates(x)
<1>1. ASSUME StatusFor(y) = StatusFor(x) PROVE y \in CodeMates(x)
  <2>1. /\ y.upload = x.upload /\ y.e.resp_code = x.e.resp_code
        /\ Trunc("hour", y.e.ts) = Trunc("hour", x.e.ts)
    BY <1>1, StatusFields
  <2>. QED  BY <2>1 DEF CodeMates
<1>2. ASSUME y \in CodeMates(x) PROVE StatusFor(y) = StatusFor(x)
  <2>1. /\ y.upload = x.upload /\ y.e.resp_code = x.e.resp_code
        /\ Trunc("hour", y.e.ts) = Trunc("hour", x.e.ts)
    BY <1>2 DEF CodeMates
  <2>2. CodeMates(y) = CodeMates(x)
    BY <2>1 DEF CodeMates
  <2>3. CodeKey(y) = CodeKey(x)
    BY <2>1 DEF CodeKey
  <2>. QED  BY <2>1, <2>2, <2>3, Zenon DEF StatusFor
<1>. QED  BY <1>1, <1>2

----------------------------------------------------------------------------
(* Counts over tables.  Each row of P is counted by its key in the table B. *)

LEMMA TotalOfGroups ==
    ASSUME NEW P, IsFiniteSet(P), NEW B, IsFiniteSet(B), NEW key, NEW f,
           \A x \in P : key[x] \in B,
           \A b \in B : b[f] = Cardinality(Group(P, key, b))
    PROVE  Total(B, f) = Cardinality(P)
<1> DEFINE F == [b \in B |-> b[f]]
           G == [b \in B |-> Cardinality(Group(P, key, b))]
<1>1. F = G
  OBVIOUS
<1>2. Sum(G, B) = Cardinality(P)
  BY SumOfGroups
<1>3. Total(B, f) = Sum(F, B)
  <2>1. DOMAIN F = B
    OBVIOUS
  <2>2. Total(B, f) = SumOf(F)
    BY Zenon DEF Total
  <2>. HIDE DEF F
  <2>3. SumOf(F) = Sum(F, DOMAIN F)
    BY Zenon DEF SumOf, Sum
  <2>. QED  BY <2>1, <2>2, <2>3
<1>. HIDE DEF F, G
<1>. QED  BY <1>1, <1>2, <1>3

LEMMA SumByGroups ==
    ASSUME NEW P, IsFiniteSet(P), NEW F, IsFiniteSet(DOMAIN F), NEW key,
           \A x \in P : key[x] \in DOMAIN F,
           \A k \in DOMAIN F : F[k] = Cardinality(Group(P, key, k))
    PROVE  SumOf(F) = Cardinality(P)
<1> DEFINE K == DOMAIN F
           G == [k \in K |-> Cardinality(Group(P, key, k))]
<1>1. \A k \in K : F[k] = G[k]
  OBVIOUS
<1>2. Sum(G, K) = Cardinality(P)
  BY SumOfGroups
<1>3. SumOf(F) = Sum(F, K)
  BY Zenon DEF SumOf, Sum
<1>. HIDE DEF G, K
<1>4. Sum(F, K) = Sum(G, K)
  BY <1>1, SumSame DEF K
<1>. QED  BY <1>2, <1>3, <1>4

----------------------------------------------------------------------------
(* Windows of whole hours.                                                  *)

LEMMA TruncType ==
    ASSUME NEW t \in Int
    PROVE  /\ Trunc("hour", t) \in Int /\ Trunc("hour", t) = t - (t % Hour)
           /\ Trunc("hour", t) <= t /\ t < Trunc("hour", t) + Hour
           /\ Trunc("minute", t) = t
  BY ReportsAssumption DEF Trunc

LEMMA Multiples ==
    ASSUME NEW h \in Nat \ {0}, NEW t \in Int
    PROVE  \E q \in Int : \E r \in 0 .. h - 1 : t - (t % h) = h * q /\ t = h * q + r
<1>1. t % h \in 0 .. h - 1
  OBVIOUS
<1>2. t \div h \in Int /\ t = h * (t \div h) + (t % h)
  OBVIOUS
<1>3. PICK q \in Int : t = h * q + (t % h)
  BY <1>2
<1>4. h * q \in Int /\ t % h \in Int
  BY <1>1
<1>5. t - (t % h) = h * q
  BY <1>3, <1>4
<1>. QED  BY <1>1, <1>3, <1>5

LEMMA WholeHours ==
    ASSUME NEW s \in Int, NEW t \in Int
    PROVE  /\ Trunc("hour", s) <= t <=> Trunc("hour", s) <= Trunc("hour", t)
           /\ t < Trunc("hour", s) + Hour <=> Trunc("hour", t) < Trunc("hour", s) + Hour
           /\ Trunc("hour", s) <= t /\ t < Trunc("hour", s) + Hour
                => Trunc("hour", t) = Trunc("hour", s)
<1>1. Hour \in Nat \ {0}
  BY ReportsAssumption
<1>2. \A n \in Int : \E q \in Int : \E r \in 0 .. Hour - 1 :
          Trunc("hour", n) = Hour * q /\ n = Hour * q + r
  <2>1. \A n \in Int : \E q \in Int : \E r \in 0 .. Hour - 1 :
           n - (n % Hour) = Hour * q /\ n = Hour * q + r
    BY <1>1, Multiples, Zenon
  <2>. TAKE n \in Int
  <2>2. PICK q \in Int, r \in 0 .. Hour - 1 : n - (n % Hour) = Hour * q /\ n = Hour * q + r
    BY <2>1, Zenon
  <2>3. Trunc("hour", n) = Hour * q
    BY <2>2, TruncType
  <2>. QED  BY <2>2, <2>3
<1>3. PICK p \in Int : Trunc("hour", s) = Hour * p
  BY <1>2
<1>4. PICK q \in Int, r \in 0 .. Hour - 1 : Trunc("hour", t) = Hour * q /\ t = Hour * q + r
  BY <1>2
<1>5. ASSUME NEW k \in Int, Hour * k <= Hour * q + r
      PROVE  Hour * k <= Hour * q
  <2>1. k <= q
    BY <1>1, <1>5
  <2>. QED  BY <1>1, <2>1
<1>6. Hour * p + Hour = Hour * (p + 1) /\ Hour * p \in Int /\ Hour * q \in Int
  BY <1>1
<1>7. \A k \in Int : Hour * k <= Hour * q + r <=> Hour * k <= Hour * q
  <2>. SUFFICES ASSUME NEW k \in Int
                PROVE  Hour * k <= Hour * q + r <=> Hour * k <= Hour * q
    OBVIOUS
  <2>1. Hour * k \in Int
    BY <1>1
  <2>2. Hour * k <= Hour * q + r => Hour * k <= Hour * q
    BY <1>5
  <2>. QED  BY <1>1, <1>6, <2>1, <2>2
<1>8. Hour * p <= t <=> Hour * p <= Hour * q
  BY <1>4, <1>7
<1>9. t < Hour * p + Hour <=> Hour * q < Hour * p + Hour
  <2>1. Hour * (p + 1) <= t <=> Hour * (p + 1) <= Hour * q
    BY <1>4, <1>7
  <2>2. Hour * (p + 1) \in Int
    BY <1>1
  <2>. QED  BY <1>1, <1>6, <2>1, <2>2
<1>10. Hour * p <= Hour * q /\ Hour * q < Hour * p + Hour => Hour * q = Hour * p
  <2>. SUFFICES ASSUME Hour * p <= Hour * q, Hour * q < Hour * p + Hour
                PROVE  Hour * q = Hour * p
    OBVIOUS
  <2>1. p <= q
    BY <1>1
  <2>2. q <= p
    BY <1>1
  <2>. QED  BY <2>1, <2>2
<1>. QED  BY <1>3, <1>4, <1>8, <1>9, <1>10

(* A scope somebody may ask for, on whole hours.                            *)
Asked(sc, c, s, t) ==
    /\ s \in Int /\ t \in Int /\ sc \in Scopes(c, Trunc("hour", s), Trunc("hour", t) + Hour)

LEMMA AskedFields ==
    ASSUME NEW sc, NEW c, NEW s, NEW t, Asked(sc, c, s, t)
    PROVE  /\ sc.org = OrgOf(c) /\ sc.user \in {c, NoUser}
           /\ sc.from = Trunc("hour", s) /\ sc.to = Trunc("hour", t) + Hour
  BY DEF Asked, Scopes

LEMMA TimedType ==
    ASSUME TypeOK, DataInv, NEW x \in Timed(entries)
    PROVE  x \in entries /\ x.e.ts \in Int /\ EntryTyped(x.e)
  BY RowsAreOwned DEF Timed, EntryTyped

(* A rollup is in scope if the rows it counts are.                          *)
LEMMA InScope ==
    ASSUME TypeOK, DataInv, NEW sc, NEW c, NEW s, NEW t, Asked(sc, c, s, t),
           NEW x \in Timed(entries), NEW b, b.org = x.org, b.user = x.user,
           NEW g \in Grain, b.bucket = Trunc(g, x.e.ts)
    PROVE  Where(sc, b, b.bucket) <=> x \in RowsIn(sc)
<1>1. x.e.ts \in Int /\ s \in Int /\ t \in Int
  BY TimedType DEF Asked
<1>2. sc.from <= b.bucket <=> sc.from <= x.e.ts
  BY <1>1, AskedFields, WholeHours, TruncType DEF Grain
<1>3. b.bucket < sc.to <=> x.e.ts < sc.to
  BY <1>1, AskedFields, WholeHours, TruncType DEF Grain
<1>. QED  BY <1>2, <1>3 DEF Where, RowsIn

LEMMA BucketsAre ==
    ASSUME TypeOK, DataInv, NEW sc, NEW c, NEW s, NEW t, Asked(sc, c, s, t),
           NEW g \in Grain, NEW b
    PROVE  /\ b \in BucketsIn(sc, g) <=> \E x \in RowsIn(sc) : b = RollupFor(g, x)
           /\ \A x \in Timed(entries) :
                 RollupFor(g, x) \in BucketsIn(sc, g) <=> x \in RowsIn(sc)
<1>1. \A x \in Timed(entries) :
         Where(sc, RollupFor(g, x), RollupFor(g, x).bucket) <=> x \in RowsIn(sc)
  <2>. SUFFICES ASSUME NEW x \in Timed(entries)
                PROVE  Where(sc, RollupFor(g, x), RollupFor(g, x).bucket) <=> x \in RowsIn(sc)
    OBVIOUS
  <2> DEFINE y == RollupFor(g, x)
  <2>1. y.org = x.org /\ y.user = x.user /\ y.bucket = Trunc(g, x.e.ts)
    BY RollupFields, RowsAreOwned, TimedType
  <2>. HIDE DEF y
  <2>2. Where(sc, y, y.bucket) <=> x \in RowsIn(sc)
    BY <2>1, InScope
  <2>. QED  BY <2>2 DEF y
<1>2. \A x \in Timed(entries) : RollupFor(g, x) \in rollups /\ RollupFor(g, x).grain = g
  BY RollupsAre, RollupFields
<1>3. RowsIn(sc) \subseteq Timed(entries)
  BY DEF RowsIn
<1>4. \A x \in Timed(entries) : RollupFor(g, x) \in BucketsIn(sc, g) <=> x \in RowsIn(sc)
  BY <1>1, <1>2 DEF BucketsIn
<1>5. ASSUME b \in BucketsIn(sc, g)
      PROVE  \E x \in RowsIn(sc) : b = RollupFor(g, x)
  <2>1. b \in rollups /\ b.grain = g
    BY <1>5 DEF BucketsIn
  <2>2. PICK h \in Grain, x \in Timed(entries) : b = RollupFor(h, x)
    BY <2>1, RollupsAre
  <2>3. h = g
    BY <2>1, <2>2, RollupFields
  <2>. QED  BY <1>4, <1>5, <2>2, <2>3
<1>. QED  BY <1>3, <1>4, <1>5

LEMMA CodesAre ==
    ASSUME TypeOK, DataInv, NEW sc, NEW c, NEW s, NEW t, Asked(sc, c, s, t), NEW b
    PROVE  LET found == {x \in statusRollups : Where(sc, x, x.bucket)} IN
           /\ b \in found <=> \E x \in RowsIn(sc) : x.e.resp_code # None /\ b = StatusFor(x)
           /\ \A x \in Coded(entries) : StatusFor(x) \in found <=> x \in RowsIn(sc)
<1> DEFINE found == {x \in statusRollups : Where(sc, x, x.bucket)}
<1>1. \A x \in Coded(entries) :
         Where(sc, StatusFor(x), StatusFor(x).bucket) <=> x \in RowsIn(sc)
  <2>. SUFFICES ASSUME NEW x \in Coded(entries)
                PROVE  Where(sc, StatusFor(x), StatusFor(x).bucket) <=> x \in RowsIn(sc)
    OBVIOUS
  <2> DEFINE y == StatusFor(x)
  <2>1. x \in Timed(entries)
    BY DEF Coded
  <2>2. y.org = x.org /\ y.user = x.user /\ y.bucket = Trunc("hour", x.e.ts)
    BY <2>1, StatusFields, RowsAreOwned, TimedType
  <2>. HIDE DEF y
  <2>3. Where(sc, y, y.bucket) <=> x \in RowsIn(sc)
    BY <2>1, <2>2, InScope DEF Grain
  <2>. QED  BY <2>3 DEF y
<1>2. \A x \in Coded(entries) : StatusFor(x) \in statusRollups
  BY StatusAre
<1>3. \A x : x \in Coded(entries) <=> x \in Timed(entries) /\ x.e.resp_code # None
  BY DEF Coded
<1>4. \A x \in Coded(entries) : StatusFor(x) \in found <=> x \in RowsIn(sc)
  BY <1>1, <1>2
<1>5. ASSUME b \in found
      PROVE  \E x \in RowsIn(sc) : x.e.resp_code # None /\ b = StatusFor(x)
  <2>1. PICK x \in Coded(entries) : b = StatusFor(x)
    BY <1>5, StatusAre
  <2>. QED  BY <1>3, <1>4, <1>5, <2>1
<1>6. RowsIn(sc) \subseteq Timed(entries)
  BY DEF RowsIn
<1>. HIDE DEF found
<1>7. b \in found <=> \E x \in RowsIn(sc) : x.e.resp_code # None /\ b = StatusFor(x)
  BY <1>3, <1>4, <1>5, <1>6
<1>. QED  BY <1>4, <1>7 DEF found

(* The figures of rollups in scope are those of the rows they count.        *)
Figure == {"requests", "errors", "hits", "cached"}

LEMMA FiniteTables ==
    ASSUME TypeOK, DataInv, IsFiniteSet(entries),
           NEW sc, NEW c, NEW s, NEW t, Asked(sc, c, s, t)
    PROVE  /\ IsFiniteSet(RowsIn(sc)) /\ \A g \in Grain : IsFiniteSet(BucketsIn(sc, g))
           /\ IsFiniteSet({x \in statusRollups : Where(sc, x, x.bucket)})
<1>1. IsFiniteSet(RowsIn(sc))
  BY FS_Subset DEF RowsIn, Timed
<1>2. ASSUME NEW g \in Grain PROVE IsFiniteSet(BucketsIn(sc, g))
  <2> DEFINE F == [x \in RowsIn(sc) |-> RollupFor(g, x)]
  <2>1. BucketsIn(sc, g) = {F[x] : x \in RowsIn(sc)}
    BY BucketsAre
  <2>2. F \in Surjection(RowsIn(sc), BucketsIn(sc, g))
    BY <2>1 DEF Surjection
  <2>. HIDE DEF F
  <2>. QED  BY <1>1, <2>2, FS_Surjection
<1>3. IsFiniteSet({x \in statusRollups : Where(sc, x, x.bucket)})
  <2> DEFINE found == {x \in statusRollups : Where(sc, x, x.bucket)}
             R == {x \in RowsIn(sc) : x.e.resp_code # None}
             F == [x \in R |-> StatusFor(x)]
  <2>1. IsFiniteSet(R)
    BY <1>1, FS_Subset
  <2>2. \A b : b \in found <=> \E x \in RowsIn(sc) : x.e.resp_code # None /\ b = StatusFor(x)
    BY CodesAre
  <2>. HIDE DEF found
  <2>3. F \in Surjection(R, found)
    BY <2>2 DEF Surjection
  <2>. HIDE DEF F, R
  <2>4. IsFiniteSet(found)
    BY <2>1, <2>3, FS_Surjection
  <2>. QED  BY <2>4 DEF found
<1>. QED  BY <1>1, <1>2, <1>3

LEMMA FiguresOf ==
    ASSUME TypeOK, DataInv, IsFiniteSet(entries),
           NEW sc, NEW c, NEW s, NEW t, Asked(sc, c, s, t),
           NEW g \in Grain, NEW B \in SUBSET BucketsIn(sc, g), NEW f \in Figure
    PROVE  Total(B, f) = Cardinality({x \in Counted(f, RowsIn(sc)) : RollupFor(g, x) \in B})
<1> DEFINE P == {x \in Counted(f, RowsIn(sc)) : RollupFor(g, x) \in B}
           key == [x \in P |-> RollupFor(g, x)]
<1>1. IsFiniteSet(P) /\ IsFiniteSet(B)
  BY FiniteTables, FS_Subset DEF Counted
<1>2. \A x \in P : key[x] \in B
  OBVIOUS
<1>3. ASSUME NEW b \in B PROVE b[f] = Cardinality(Group(P, key, b))
  <2>1. PICK x \in RowsIn(sc) : b = RollupFor(g, x)
    BY BucketsAre
  <2>2. b[f] = Cardinality(Counted(f, Mates(g, x)))
    BY <2>1, RollupCounts DEF RollupFor, Figure
  <2>3. \A y : y \in Mates(g, x) <=> y \in Timed(entries) /\ RollupFor(g, y) = b
    BY <2>1, SameRollup DEF Mates
  <2>4. \A y \in Timed(entries) : RollupFor(g, y) \in B => y \in RowsIn(sc)
    BY BucketsAre
  <2>5. \A y \in RowsIn(sc) : y \in Timed(entries)
    BY DEF RowsIn
  <2>6. \A y : y \in Counted(f, Mates(g, x)) <=> y \in P /\ RollupFor(g, y) = b
    BY <2>3, <2>4, <2>5 DEF Counted
  <2>7. \A y : y \in Group(P, key, b) <=> y \in P /\ RollupFor(g, y) = b
    BY DEF Group
  <2>8. Group(P, key, b) = Counted(f, Mates(g, x))
    BY <2>6, <2>7
  <2>. QED  BY <2>2, <2>8, Zenon
<1>. HIDE DEF P, key
<1>4. Total(B, f) = Cardinality(P)
  BY <1>1, <1>2, <1>3, TotalOfGroups
<1>. QED  BY <1>4 DEF P

LEMMA CodesOf ==
    ASSUME TypeOK, DataInv, IsFiniteSet(entries),
           NEW sc, NEW c, NEW s, NEW t, Asked(sc, c, s, t),
           NEW B \in SUBSET {x \in statusRollups : Where(sc, x, x.bucket)}
    PROVE  Total(B, "requests")
             = Cardinality({x \in RowsIn(sc) : x.e.resp_code # None /\ StatusFor(x) \in B})
<1> DEFINE P == {x \in RowsIn(sc) : x.e.resp_code # None /\ StatusFor(x) \in B}
           key == [x \in P |-> StatusFor(x)]
<1>1. IsFiniteSet(P) /\ IsFiniteSet(B)
  BY FiniteTables, FS_Subset
<1>2. \A x \in P : key[x] \in B
  OBVIOUS
<1>3. ASSUME NEW b \in B PROVE b["requests"] = Cardinality(Group(P, key, b))
  <2>1. PICK x \in RowsIn(sc) : b = StatusFor(x)
    BY CodesAre
  <2>2. b["requests"] = Cardinality(CodeMates(x))
    BY <2>1, StatusFields
  <2>3. \A y : y \in CodeMates(x) <=> y \in Coded(entries) /\ StatusFor(y) = b
    BY <2>1, SameStatus DEF CodeMates
  <2>4. \A y \in Coded(entries) : StatusFor(y) \in B => y \in RowsIn(sc)
    BY CodesAre
  <2>5. \A y \in RowsIn(sc) : y \in Coded(entries) <=> y.e.resp_code # None
    BY DEF RowsIn, Coded
  <2>6. \A y \in Coded(entries) : y.e.resp_code # None
    BY DEF Coded
  <2>7. \A y : y \in Group(P, key, b) <=> y \in P /\ StatusFor(y) = b
    BY DEF Group
  <2>8. Group(P, key, b) = CodeMates(x)
    BY <2>3, <2>4, <2>5, <2>6, <2>7
  <2>. QED  BY <2>2, <2>8, Zenon
<1>. HIDE DEF P, key
<1>4. Total(B, "requests") = Cardinality(P)
  BY <1>1, <1>2, <1>3, TotalOfGroups
<1>. QED  BY <1>4 DEF P

----------------------------------------------------------------------------
(* The panels.                                                              *)

LEMMA Headlines ==
    ASSUME TypeOK, DataInv, IsFiniteSet(entries),
           NEW sc, NEW c, NEW s, NEW t, Asked(sc, c, s, t), NEW g \in Grain, NEW f \in Figure
    PROVE  Total(BucketsIn(sc, g), f) = Cardinality(Counted(f, RowsIn(sc)))
<1> DEFINE B == BucketsIn(sc, g)
           P == {x \in Counted(f, RowsIn(sc)) : RollupFor(g, x) \in B}
<1>1. Total(B, f) = Cardinality(P)
  <2>1. B \in SUBSET BucketsIn(sc, g)
    OBVIOUS
  <2>. HIDE DEF B
  <2>. QED  BY <2>1, FiguresOf
<1>2. \A x \in RowsIn(sc) : RollupFor(g, x) \in B
  BY BucketsAre
<1>3. P = Counted(f, RowsIn(sc))
  BY <1>2 DEF Counted
<1>. HIDE DEF P, B
<1>4. Total(B, f) = Cardinality(Counted(f, RowsIn(sc)))
  BY <1>1, <1>3, Zenon
<1>. QED  BY <1>4 DEF B

LEMMA ChartAdds ==
    ASSUME TypeOK, DataInv, IsFiniteSet(entries),
           NEW sc, NEW c, NEW s, NEW t, Asked(sc, c, s, t), NEW g \in Grain, NEW f \in Figure,
           NEW chart, chart = DashboardSeries(sc, g)
    PROVE  SumOf([k \in DOMAIN chart |-> chart[k].sums[f]]) = Cardinality(Counted(f, RowsIn(sc)))
<1> DEFINE B == BucketsIn(sc, g)
           K == {b.bucket : b \in B}
           part(k) == {b \in B : b.bucket = k}
           P == Counted(f, RowsIn(sc))
           key == [x \in P |-> Trunc(g, x.e.ts)]
           F == [k \in DOMAIN chart |-> chart[k].sums[f]]
<1>1. DOMAIN chart = K /\ \A k \in K : chart[k].sums[f] = Total(part(k), f)
  <2>1. DOMAIN chart = K /\ \A k \in K : chart[k].sums = Sums(part(k))
    BY DEF DashboardSeries
  <2>2. \A T : Sums(T)[f] = Total(T, f)
    BY DEF Sums, Figure
  <2>. HIDE DEF K, part
  <2>. QED  BY <2>1, <2>2
<1>2. \A x \in P : /\ RollupFor(g, x) \in B /\ RollupFor(g, x).bucket = Trunc(g, x.e.ts)
  BY BucketsAre, RollupFields DEF Counted
<1>3. IsFiniteSet(P) /\ IsFiniteSet(K)
  <2>1. IsFiniteSet(RowsIn(sc)) /\ IsFiniteSet(B)
    BY FiniteTables
  <2> DEFINE G == [b \in B |-> b.bucket]
  <2>. HIDE DEF B
  <2>2. G \in Surjection(B, K)
    BY DEF Surjection
  <2>. HIDE DEF G, K
  <2>. QED  BY <2>1, <2>2, FS_Surjection, FS_Subset DEF Counted
<1>4. ASSUME NEW k \in K
      PROVE  F[k] = Cardinality(Group(P, key, k))
  <2> DEFINE Q == {x \in P : RollupFor(g, x) \in part(k)}
  <2>1. F[k] = Total(part(k), f)
    BY <1>1
  <2>2. Total(part(k), f) = Cardinality(Q)
    <3> DEFINE T == part(k)
    <3>1. T \in SUBSET BucketsIn(sc, g)
      OBVIOUS
    <3>. HIDE DEF T
    <3>2. Total(T, f) = Cardinality({x \in Counted(f, RowsIn(sc)) : RollupFor(g, x) \in T})
      BY <3>1, FiguresOf
    <3>. QED  BY <3>2 DEF T
  <2>3. Q = Group(P, key, k)
    BY <1>2 DEF Group
  <2>. HIDE DEF Q, F, part, P, key
  <2>. QED  BY <2>1, <2>2, <2>3, Zenon
<1>5. \A x \in P : key[x] \in K
  BY <1>2
<1>6. DOMAIN F = K
  BY <1>1
<1>. HIDE DEF F, K, P, key
<1>7. SumOf(F) = Cardinality(P)
  BY <1>3, <1>4, <1>5, <1>6, SumByGroups
<1>. QED  BY <1>7 DEF F, P

LEMMA CodesAdd ==
    ASSUME TypeOK, DataInv, IsFiniteSet(entries),
           NEW sc, NEW c, NEW s, NEW t, Asked(sc, c, s, t),
           NEW codes, codes = StatusCodes(sc)
    PROVE  SumOf([k \in {k \in DOMAIN codes : k >= 400} |-> codes[k].requests])
             = Cardinality({x \in RowsIn(sc) : IsError(x)})
<1> DEFINE found == {b \in statusRollups : Where(sc, b, b.bucket)}
           all == {b.code : b \in found}
           K == {k \in DOMAIN codes : k >= 400}
           part(k) == {b \in found : b.code = k}
           P == {x \in RowsIn(sc) : IsError(x)}
           key == [x \in P |-> x.e.resp_code]
           F == [k \in K |-> codes[k].requests]
<1>1. DOMAIN codes = all /\ \A k \in all : codes[k].requests = Total(part(k), "requests")
  BY DEF StatusCodes
<1>2. \A x \in RowsIn(sc) : x.e.resp_code # None =>
         /\ StatusFor(x) \in found /\ StatusFor(x).code = x.e.resp_code
  <2>1. \A x \in RowsIn(sc) : x.e.resp_code # None => x \in Coded(entries)
    BY DEF RowsIn, Coded
  <2>. QED  BY <2>1, CodesAre, StatusFields
<1>3. IsFiniteSet(P) /\ IsFiniteSet(K)
  <2>1. IsFiniteSet(RowsIn(sc)) /\ IsFiniteSet(found)
    BY FiniteTables
  <2> DEFINE G == [b \in found |-> b.code]
  <2>2. G \in Surjection(found, all)
    BY DEF Surjection
  <2>. HIDE DEF G, found, all
  <2>3. IsFiniteSet(all)
    BY <2>1, <2>2, FS_Surjection
  <2>. QED  BY <1>1, <2>1, <2>3, FS_Subset
<1>4. ASSUME NEW k \in K
      PROVE  F[k] = Cardinality(Group(P, key, k))
  <2> DEFINE Q == {x \in RowsIn(sc) : x.e.resp_code # None /\ StatusFor(x) \in part(k)}
  <2>1. F[k] = Total(part(k), "requests")
    BY <1>1
  <2>2. Total(part(k), "requests") = Cardinality(Q)
    <3> DEFINE T == part(k)
    <3>1. T \in SUBSET {x \in statusRollups : Where(sc, x, x.bucket)}
      OBVIOUS
    <3>. HIDE DEF T
    <3>2. Total(T, "requests")
            = Cardinality({x \in RowsIn(sc) : x.e.resp_code # None /\ StatusFor(x) \in T})
      BY <3>1, CodesOf
    <3>. QED  BY <3>2 DEF T
  <2>3. \A x : x \in Q <=> x \in RowsIn(sc) /\ x.e.resp_code # None /\ x.e.resp_code = k
    BY <1>2
  <2>4. \A x : x \in Group(P, key, k) <=> x \in P /\ x.e.resp_code = k
    BY DEF Group
  <2>5. k >= 400
    OBVIOUS
  <2>6. Q = Group(P, key, k)
    <3>. HIDE DEF Q, K, key
    <3>. QED  BY <2>3, <2>4, <2>5 DEF IsError
  <2>. HIDE DEF Q, F, part, P, key
  <2>. QED  BY <2>1, <2>2, <2>6, Zenon
<1>5. \A x \in P : key[x] \in K
  BY <1>1, <1>2 DEF IsError
<1>6. DOMAIN F = K
  OBVIOUS
<1>. HIDE DEF F, K, P, key
<1>7. SumOf(F) = Cardinality(P)
  BY <1>3, <1>4, <1>5, <1>6, SumByGroups
<1>. QED  BY <1>7 DEF F, P, K

LEMMA HostsAgree ==
    ASSUME TypeOK, DataInv, NEW sc, NEW c, NEW s, NEW t, Asked(sc, c, s, t)
    PROVE  {b.host : b \in BucketsIn(sc, "hour")}
             = DOMAIN DashboardTop(sc) \cup {HostKey(x) : x \in RowsIn(sc)}
<1>1. DOMAIN DashboardTop(sc) = {x.e.host : x \in RowsIn(sc)} \ {None}
  BY DEF DashboardTop
<1>2. \A x \in RowsIn(sc) : x.e.host # None => HostKey(x) = x.e.host
  BY DEF HostKey
<1>3. DOMAIN DashboardTop(sc) \subseteq {HostKey(x) : x \in RowsIn(sc)}
  BY <1>1, <1>2
<1>4. \A b : b \in BucketsIn(sc, "hour") <=> \E x \in RowsIn(sc) : b = RollupFor("hour", x)
  BY BucketsAre DEF Grain
<1>5. \A x : RollupFor("hour", x).host = HostKey(x)
  BY RollupFields
<1>6. {b.host : b \in BucketsIn(sc, "hour")} = {HostKey(x) : x \in RowsIn(sc)}
  BY <1>4, <1>5
<1>. QED  BY <1>3, <1>6

LEMMA TopAgrees ==
    ASSUME TypeOK, DataInv, IsFiniteSet(entries),
           NEW sc, NEW c, NEW s, NEW t, Asked(sc, c, s, t), NEW h \in DOMAIN DashboardTop(sc)
    PROVE  DashboardTop(sc)[h].requests
             = Total({b \in BucketsIn(sc, "minute") : b.host = h}, "requests")
<1> DEFINE B == {b \in BucketsIn(sc, "minute") : b.host = h}
           P == {x \in Counted("requests", RowsIn(sc)) : RollupFor("minute", x) \in B}
           G == {x \in RowsIn(sc) : x.e.host = h}
<1>1. PICK z \in RowsIn(sc) : h = z.e.host /\ h # None
  BY DEF DashboardTop
<1>2. DashboardTop(sc)[h].requests = Cardinality(G)
  BY DEF DashboardTop
<1>3. Total(B, "requests") = Cardinality(P)
  <2>1. B \in SUBSET BucketsIn(sc, "minute") /\ "minute" \in Grain /\ "requests" \in Figure
    BY DEF Grain, Figure
  <2>. HIDE DEF B
  <2>. QED  BY <2>1, FiguresOf
<1>4. h \in Value /\ h # NoHost
  BY <1>1, TimedType, ReportsAssumption DEF EntryTyped, RowsIn
<1>5. \A x \in RowsIn(sc) : HostKey(x) = h <=> x.e.host = h
  BY <1>1, <1>4 DEF HostKey
<1>6. \A x \in RowsIn(sc) : /\ RollupFor("minute", x) \in BucketsIn(sc, "minute")
                            /\ RollupFor("minute", x).host = HostKey(x)
  BY BucketsAre, RollupFields DEF Grain
<1>7. P = G
  BY <1>5, <1>6 DEF Counted
<1>. HIDE DEF P, G, B
<1>8. DashboardTop(sc)[h].requests = Total(B, "requests")
  BY <1>2, <1>3, <1>7, Zenon
<1>. QED  BY <1>8 DEF B

(* Of one hour, the chart's latency is the headline's.                      *)
LEMMA OneHour ==
    ASSUME TypeOK, DataInv, NEW sc, NEW c, NEW s, NEW t, Asked(sc, c, s, t),
           Trunc("hour", s) = Trunc("hour", t), NEW k \in DOMAIN DashboardSeries(sc, "hour")
    PROVE  DashboardSeries(sc, "hour")[k].latency = PercentileDisc(RowsIn(sc))
<1> DEFINE B == BucketsIn(sc, "hour")
           G == {x \in RowsIn(sc) : Trunc("hour", x.e.ts) = k}
<1>1. DashboardSeries(sc, "hour")[k].latency = PercentileDisc(G) /\ \E b \in B : b.bucket = k
  BY DEF DashboardSeries
<1>2. \A x \in RowsIn(sc) : Trunc("hour", x.e.ts) = Trunc("hour", s)
  <2>. TAKE x \in RowsIn(sc)
  <2>1. sc.from <= x.e.ts /\ x.e.ts < sc.to /\ x \in Timed(entries)
    BY DEF RowsIn, Where
  <2>. QED  BY <2>1, AskedFields, TimedType, WholeHours DEF Asked
<1>3. PICK x \in RowsIn(sc) : RollupFor("hour", x).bucket = k
  BY <1>1, BucketsAre DEF Grain
<1>4. k = Trunc("hour", s)
  BY <1>2, <1>3, RollupFields
<1>5. G = RowsIn(sc)
  BY <1>2, <1>4
<1>. HIDE DEF G
<1>. QED  BY <1>1, <1>5, Zenon

(* A scope takes in the rows of the caller's organization, or of the caller.*)
LEMMA ScopeIsTenancy ==
    ASSUME TypeOK, DataInv, NEW c \in DOMAIN users, NEW sc, NEW s, NEW t, Asked(sc, c, s, t)
    PROVE  RowsIn(sc) = {x \in Timed(entries) :
                           /\ sc.from <= x.e.ts /\ x.e.ts < sc.to
                           /\ x.upload \in uploads /\ UploadOrg(x.upload) = OrgOf(c)
                           /\ sc.user = NoUser \/ owner[x.upload] = c}
<1>1. \A x \in Timed(entries) : /\ x.upload \in uploads /\ x.user = owner[x.upload]
                                /\ x.org = UploadOrg(x.upload)
  BY RowsAreOwned, TimedType DEF UploadOrg, OrgOf
<1>2. c # NoUser
  BY AccessAssumption DEF TypeOK
<1>3. sc.org = OrgOf(c) /\ sc.user \in {c, NoUser}
  BY AskedFields
<1>. QED  BY <1>1, <1>2, <1>3 DEF RowsIn, Where

LEMMA ScopeAgrees ==
    ASSUME TypeOK, DataInv, IsFiniteSet(entries), NEW c \in DOMAIN users,
           NEW s, NEW t, NEW w, w[1] = Trunc("hour", s), w[2] = Trunc("hour", t),
           NEW sc, Asked(sc, c, s, t)
    PROVE  PanelsAgree(c, w, sc)
<1> DEFINE R == RowsIn(sc)
           summary == DashboardSummary(sc)
           sums == summary.sums
           codes == StatusCodes(sc)
<1>1. DOMAIN sums = Figure /\ \A f \in Figure : sums[f] = Cardinality(Counted(f, R))
  <2>1. sums = Sums(BucketsIn(sc, "hour"))
    BY DEF DashboardSummary
  <2>2. \A B : DOMAIN Sums(B) = Figure /\ \A f \in Figure : Sums(B)[f] = Total(B, f)
    BY DEF Sums, Figure
  <2>. HIDE DEF sums
  <2>3. \A f \in Figure : Total(BucketsIn(sc, "hour"), f) = Cardinality(Counted(f, R))
    BY Headlines DEF Grain
  <2>. QED  BY <2>1, <2>2, <2>3
<1>2. R = {x \in Timed(entries) :
              /\ sc.from <= x.e.ts /\ x.e.ts < sc.to
              /\ x.upload \in uploads /\ UploadOrg(x.upload) = OrgOf(c)
              /\ sc.user = NoUser \/ owner[x.upload] = c}
  BY ScopeIsTenancy
<1>3. Counted("requests", R) = R /\ Counted("errors", R) = {x \in R : IsError(x)}
  BY DEF Counted
<1>4. Quantify(R, IsError) = Cardinality({x \in R : IsError(x)})
  BY Zenon DEF Quantify
<1>5. /\ summary.latency = PercentileDisc(R)
      /\ summary.hosts = {b.host : b \in BucketsIn(sc, "hour")}
  BY DEF DashboardSummary
<1>6. summary.hosts = DOMAIN DashboardTop(sc) \cup {HostKey(x) : x \in R}
  BY <1>5, HostsAgree
<1>7. ASSUME NEW g \in Grain, NEW f \in Figure, NEW chart, chart = DashboardSeries(sc, g)
      PROVE  SumOf([k \in DOMAIN chart |-> chart[k].sums[f]]) = sums[f]
  BY <1>1, <1>7, ChartAdds
<1>8. w[1] = w[2] =>
         \A k \in DOMAIN DashboardSeries(sc, "hour") :
            DashboardSeries(sc, "hour")[k].latency = summary.latency
  BY <1>5, OneHour
<1>9. SumOf([k \in {k \in DOMAIN codes : k >= 400} |-> codes[k].requests])
        = Cardinality({x \in R : IsError(x)})
  BY CodesAdd
<1>10. sums["requests"] = Cardinality(R) /\ sums["errors"] = Cardinality({x \in R : IsError(x)})
  BY <1>1, <1>3 DEF Figure
<1>11. \A h \in DOMAIN DashboardTop(sc) :
          DashboardTop(sc)[h].requests
            = Total({b \in BucketsIn(sc, "minute") : b.host = h}, "requests")
  BY TopAgrees
<1>12. \A g \in Grain :
          LET chart == DashboardSeries(sc, g) IN
          \A f \in DOMAIN sums : SumOf([k \in DOMAIN chart |-> chart[k].sums[f]]) = sums[f]
  BY <1>1, <1>7
<1>13. /\ summary.sums.requests = Cardinality(R)
       /\ summary.sums.errors = Quantify(R, IsError)
       /\ summary.sums.errors = Cardinality({x \in R : IsError(x)})
  BY <1>4, <1>10
<1>. HIDE DEF R, summary, codes
<1>. QED  BY <1>5, <1>6, <1>8, <1>9, <1>11, <1>12, <1>2, <1>13, Zenon
          DEF PanelsAgree, summary, codes

(* The panels agree with the rows and with one another.                     *)
THEOREM FiguresAgreeAlways == ReportsSpec => []FiguresAgree
<1>1. TypeOK /\ DataInv /\ IsFiniteSet(uploads) => FiguresAgree
  <2> DEFINE ends == {Trunc("hour", x.e.ts) : x \in Timed(entries)}
  <2>. SUFFICES ASSUME TypeOK, DataInv, IsFiniteSet(uploads), NEW c \in DOMAIN users,
                       NEW w \in ends \X ends, NEW sc \in Scopes(c, w[1], w[2] + Hour)
                PROVE  PanelsAgree(c, w, sc)
    BY DEF FiguresAgree
  <2>1. PICK x \in Timed(entries), y \in Timed(entries) :
           w[1] = Trunc("hour", x.e.ts) /\ w[2] = Trunc("hour", y.e.ts)
    OBVIOUS
  <2>2. Asked(sc, c, x.e.ts, y.e.ts)
    BY <2>1, TimedType DEF Asked
  <2>. QED  BY <2>1, <2>2, EntriesAreFinite, ScopeAgrees
<1>. QED  BY <1>1, DataInvariance, UploadsAreFinite, PTL
==============================================================================
