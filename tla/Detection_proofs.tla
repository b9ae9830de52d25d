-------------------------- MODULE Detection_proofs --------------------------
(***************************************************************************)
(* Proofs about Detection, for every upload, every cut into shards, every  *)
(* threshold and every scoring formula: sharding does not show in what is  *)
(* detected, the candidates and findings are well formed, and a finding    *)
(* cites exactly the rows of one behaviour.                                *)
(*                                                                         *)
(* 1. Merging the partials of disjoint sets of rows gives what one pass    *)
(*    over all of them gives, up to the capped lists of urls (Alike).      *)
(* 2. No detector sees what Alike leaves open, so neither does the order   *)
(*    of the candidates.                                                   *)
(* 3. The shards of a file are disjoint and cover it.                      *)
(* 4. Every candidate has a key no other of its detector has, so score and *)
(*    title order the candidates, each list is cut where the cap says, and *)
(*    the ranking names every candidate once.                              *)
(* 5. The rows behind a key of an aggregate are those a finding must cite. *)
(***************************************************************************)
EXTENDS Detection, SetLemmas, TLAPS

----------------------------------------------------------------------------
(* 1. Merging.                                                              *)

(* Rows of one upload.                                                      *)
Rowset(U) == /\ U \subseteq LogEntry /\ IsFiniteSet(U)
             /\ \A x, y \in U : x.id = y.id => x = y

Located(R) == {x \in Timed(R) : x.client_ip # None}
Visits(R) == {x \in Located(R) : x.host # None}
Threats(R) == {x \in R : x.threat_name # None}
Hosted(R) == {x \in R : x.host # None}
Times(G) == {<<x.ts, x.id>> : x \in G}

(* What GroupBy computes, with key and aggregate as functions.              *)
Grouped(L, key, agg) == [k \in {key[x] : x \in L} |-> agg[Group(L, key, k)]]

(* e has what either map alone has, and of a key of both what belongs to    *)
(* its group in both.                                                       *)
Joins(e, L, M, key, agg) ==
    LET f == Grouped(L, key, agg)
        g == Grouped(M, key, agg) IN
    /\ e = [k \in DOMAIN f \cup DOMAIN g |-> e[k]]
    /\ \A k \in DOMAIN f \ DOMAIN g : e[k] = f[k]
    /\ \A k \in DOMAIN g \ DOMAIN f : e[k] = g[k]
    /\ \A k \in DOMAIN f \cap DOMAIN g :
          e[k] = agg[Group(L, key, k) \cup Group(M, key, k)]

(* Groups of two sets of rows, joined, are the groups of both sets.         *)
LEMMA GroupedMerge ==
    ASSUME NEW L, NEW M, NEW key, NEW agg, NEW e, Joins(e, L, M, key, agg)
    PROVE  e = Grouped(L \cup M, key, agg)
<1> DEFINE f == Grouped(L, key, agg)
           g == Grouped(M, key, agg)
           h == Grouped(L \cup M, key, agg)
<1>0. /\ e = [k \in DOMAIN f \cup DOMAIN g |-> e[k]]
      /\ \A k \in DOMAIN f \ DOMAIN g : e[k] = f[k]
      /\ \A k \in DOMAIN g \ DOMAIN f : e[k] = g[k]
      /\ \A k \in DOMAIN f \cap DOMAIN g :
            e[k] = agg[Group(L, key, k) \cup Group(M, key, k)]
  BY DEF Joins
<1>1. /\ DOMAIN f = {key[x] : x \in L} /\ \A k \in DOMAIN f : f[k] = agg[Group(L, key, k)]
      /\ DOMAIN g = {key[x] : x \in M} /\ \A k \in DOMAIN g : g[k] = agg[Group(M, key, k)]
      /\ DOMAIN h = {key[x] : x \in L \cup M}
      /\ \A k \in DOMAIN h : h[k] = agg[Group(L \cup M, key, k)]
      /\ h = [k \in DOMAIN h |-> h[k]]
  BY DEF Grouped
<1>. HIDE DEF f, g, h
<1>2. DOMAIN h = DOMAIN f \cup DOMAIN g
  BY <1>1
<1>3. ASSUME NEW k \in DOMAIN h
      PROVE  e[k] = h[k]
  <2>1. Group(L \cup M, key, k) = Group(L, key, k) \cup Group(M, key, k)
    BY DEF Group
  <2>2. k \notin DOMAIN f => Group(L, key, k) = {}
    BY <1>1 DEF Group
  <2>3. k \notin DOMAIN g => Group(M, key, k) = {}
    BY <1>1 DEF Group
  <2>4. h[k] = agg[Group(L, key, k) \cup Group(M, key, k)]
    BY <1>1, <2>1
  <2>. HIDE DEF Group
  <2>5. CASE k \in DOMAIN f \cap DOMAIN g
    BY <1>0, <2>4, <2>5
  <2>6. CASE k \in DOMAIN f \ DOMAIN g
    <3>1. Group(L, key, k) \cup Group(M, key, k) = Group(L, key, k)
      BY <2>3, <2>6
    <3>. QED  BY <1>0, <1>1, <2>4, <2>6, <3>1
  <2>7. CASE k \in DOMAIN g \ DOMAIN f
    <3>1. Group(L, key, k) \cup Group(M, key, k) = Group(M, key, k)
      BY <2>2, <2>7
    <3>. QED  BY <1>0, <1>1, <2>4, <2>7, <3>1
  <2>. QED  BY <1>2, <2>5, <2>6, <2>7
<1>4. e = [k \in DOMAIN h |-> e[k]]
  BY <1>0, <1>2
<1>. QED  BY <1>1, <1>3, <1>4 DEF h

(* Which rows a detector reads is decided row by row.                       *)
LEMMA PartsJoin ==
    ASSUME NEW R, NEW S
    PROVE  /\ Timed(R \cup S) = Timed(R) \cup Timed(S)
           /\ Located(R \cup S) = Located(R) \cup Located(S)
           /\ Visits(R \cup S) = Visits(R) \cup Visits(S)
           /\ Threats(R \cup S) = Threats(R) \cup Threats(S)
           /\ Hosted(R \cup S) = Hosted(R) \cup Hosted(S)
           /\ Sized(R \cup S) = Sized(R) \cup Sized(S)
  BY DEF Timed, Located, Visits, Threats, Hosted, Sized

(* Aggregates of disjoint sets of rows add up.                              *)

(* Disjoint sets of rows: their counts add up ...                           *)
LEMMA CountsAdd ==
    ASSUME NEW R, NEW S, IsFiniteSet(R), IsFiniteSet(S), R \cap S = {},
           NEW A \in SUBSET R, NEW B \in SUBSET S
    PROVE  /\ Cardinality(A \cup B) = Cardinality(A) + Cardinality(B)
           /\ Cardinality(A) \in Nat /\ Cardinality(B) \in Nat
<1>1. IsFiniteSet(A) /\ IsFiniteSet(B)
  BY FS_Subset
<1>2. Cardinality(A) \in Nat /\ Cardinality(B) \in Nat
  BY <1>1, FS_CardinalityType
<1>3. Cardinality(A \cup B) = Cardinality(A) + Cardinality(B) - Cardinality(A \cap B)
  BY <1>1, FS_Union
<1>4. A \cap B = {} /\ Cardinality({}) = 0
  BY FS_EmptySet
<1>5. Cardinality(A \cap B) = 0
  BY <1>4, Zenon
<1>. QED  BY <1>2, <1>3, <1>5

(* ... and so do the bags of their values.                                  *)
LEMMA BagsAdd ==
    ASSUME NEW A, NEW B, IsFiniteSet(A), IsFiniteSet(B), A \cap B = {}, NEW f
    PROVE  ValuesOf(A \cup B, f) = ValuesOf(A, f) (+) ValuesOf(B, f)
<1>0. \A a \in SUBSET A, b \in SUBSET B :
         /\ Cardinality(a \cup b) = Cardinality(a) + Cardinality(b)
         /\ Cardinality(a) \in Nat /\ Cardinality(b) \in Nat
  BY CountsAdd
<1> DEFINE has(T, v) == {x \in T : x[f] = v}
           m(T) == [v \in {x[f] : x \in T} |-> Cardinality(has(T, v))]
<1>1. \A T : ValuesOf(T, f) = m(T)
  BY DEF ValuesOf, Quantify
<1>2. ASSUME NEW v
      PROVE  /\ Cardinality(has(A \cup B, v)) = Cardinality(has(A, v)) + Cardinality(has(B, v))
             /\ Cardinality(has(A, v)) \in Nat /\ Cardinality(has(B, v)) \in Nat
             /\ v \notin {x[f] : x \in A} => Cardinality(has(A, v)) = 0
             /\ v \notin {x[f] : x \in B} => Cardinality(has(B, v)) = 0
  <2>1. has(A \cup B, v) = has(A, v) \cup has(B, v)
    OBVIOUS
  <2>2. has(A, v) \in SUBSET A /\ has(B, v) \in SUBSET B
    OBVIOUS
  <2>3. v \notin {x[f] : x \in A} => has(A, v) = {}
    OBVIOUS
  <2>4. v \notin {x[f] : x \in B} => has(B, v) = {}
    OBVIOUS
  <2>. HIDE DEF has
  <2>5. /\ Cardinality(has(A, v) \cup has(B, v))
             = Cardinality(has(A, v)) + Cardinality(has(B, v))
        /\ Cardinality(has(A, v)) \in Nat /\ Cardinality(has(B, v)) \in Nat
    <3>1. PICK a \in SUBSET A, b \in SUBSET B : a = has(A, v) /\ b = has(B, v)
      BY <2>2
    <3>2. /\ Cardinality(a \cup b) = Cardinality(a) + Cardinality(b)
          /\ Cardinality(a) \in Nat /\ Cardinality(b) \in Nat
      BY <1>0
    <3>. QED  BY <3>1, <3>2
  <2>6. v \notin {x[f] : x \in A} => Cardinality(has(A, v)) = 0
    BY <2>3, FS_EmptySet, Zenon
  <2>7. v \notin {x[f] : x \in B} => Cardinality(has(B, v)) = 0
    BY <2>4, FS_EmptySet, Zenon
  <2>. QED  BY <2>1, <2>5, <2>6, <2>7, Zenon
<1>3. DOMAIN m(A \cup B) = DOMAIN m(A) \cup DOMAIN m(B)
  OBVIOUS
<1>4. \A T : \A v \in DOMAIN m(T) : m(T)[v] = Cardinality(has(T, v))
  OBVIOUS
<1>5. \A T, v : v \in DOMAIN m(T) <=> v \in {x[f] : x \in T}
  OBVIOUS
<1>6. m(A \cup B) = [v \in DOMAIN m(A \cup B) |-> m(A \cup B)[v]]
  OBVIOUS
<1>. HIDE DEF has, m
<1>7. \A v \in DOMAIN m(A \cup B) :
         m(A \cup B)[v] = (IF v \in DOMAIN m(A) THEN m(A)[v] ELSE 0)
                            + (IF v \in DOMAIN m(B) THEN m(B)[v] ELSE 0)
  <2>. SUFFICES ASSUME NEW v \in DOMAIN m(A \cup B)
                PROVE  m(A \cup B)[v] = (IF v \in DOMAIN m(A) THEN m(A)[v] ELSE 0)
                                          + (IF v \in DOMAIN m(B) THEN m(B)[v] ELSE 0)
    OBVIOUS
  <2>1. m(A \cup B)[v] = Cardinality(has(A, v)) + Cardinality(has(B, v))
    BY <1>2, <1>4, Zenon
  <2>2. Cardinality(has(A, v)) = IF v \in DOMAIN m(A) THEN m(A)[v] ELSE 0
    BY <1>2, <1>4, <1>5, Zenon
  <2>3. Cardinality(has(B, v)) = IF v \in DOMAIN m(B) THEN m(B)[v] ELSE 0
    BY <1>2, <1>4, <1>5, Zenon
  <2>. QED  BY <2>1, <2>2, <2>3, Zenon
<1>8. m(A \cup B) = m(A) (+) m(B)
  <2>1. PICK a, b, c : a = m(A) /\ b = m(B) /\ c = m(A \cup B)
    OBVIOUS
  <2>2. DOMAIN c = DOMAIN a \cup DOMAIN b /\ c = [v \in DOMAIN c |-> c[v]]
    BY <1>3, <1>6, <2>1
  <2>3. \A v \in DOMAIN c : c[v] = (IF v \in DOMAIN a THEN a[v] ELSE 0)
                                     + (IF v \in DOMAIN b THEN b[v] ELSE 0)
    BY <1>7, <2>1
  <2>4. c = a (+) b
    BY <2>2, <2>3 DEF (+)
  <2>. QED  BY <2>1, <2>4
<1>. QED  BY <1>1, <1>8

(* _merge_maps of each map of a partial, here the bursts by minute.         *)
LEMMA IpMinuteMerges ==
    ASSUME NEW R, NEW S
    PROVE  Merge(MapShard(R), MapShard(S)).ip_minute = MapShard(R \cup S).ip_minute
<1> DEFINE U == R \cup S
           key == [x \in U |-> <<x.client_ip, MinuteOf(x)>>]
           agg == [A \in SUBSET U |-> Ids(A)]
           f == MapShard(R).ip_minute
           g == MapShard(S).ip_minute
           e == Merge(MapShard(R), MapShard(S)).ip_minute
<1>1. ASSUME NEW T \in SUBSET U
      PROVE  MapShard(T).ip_minute = Grouped(Located(T), key, agg)
  <2>1. Located(T) \in SUBSET U
    BY DEF Timed, Located
  <2>2. MapShard(T).ip_minute =
          [k \in {<<x.client_ip, MinuteOf(x)>> : x \in Located(T)} |->
             Ids({x \in Located(T) : <<x.client_ip, MinuteOf(x)>> = k})]
    BY DEF MapShard, Timed, Located
  <2>3. {<<x.client_ip, MinuteOf(x)>> : x \in Located(T)} = {key[x] : x \in Located(T)}
    BY <2>1
  <2>4. \A k : {x \in Located(T) : <<x.client_ip, MinuteOf(x)>> = k} = Group(Located(T), key, k)
    BY <2>1 DEF Group
  <2>5. \A k : agg[Group(Located(T), key, k)] = Ids(Group(Located(T), key, k))
    BY <2>1 DEF Group
  <2>. HIDE DEF key, agg
  <2>. QED  BY <2>2, <2>3, <2>4, <2>5 DEF Grouped
<1>2. e = [k \in DOMAIN f \cup DOMAIN g |->
             IF k \notin DOMAIN g THEN f[k]
             ELSE IF k \notin DOMAIN f THEN g[k] ELSE Union(f[k], g[k])]
  BY DEF Merge, MergeMaps
<1>3. \A A \in SUBSET R, B \in SUBSET S : agg[A \cup B] = Union(agg[A], agg[B])
  BY DEF Ids, Union
<1>. HIDE DEF key, agg, f, g, e
<1>4. f = Grouped(Located(R), key, agg) /\ g = Grouped(Located(S), key, agg)
  BY <1>1 DEF f, g
<1>5. ASSUME NEW k \in DOMAIN f \cap DOMAIN g
      PROVE  e[k] = agg[Group(Located(R), key, k) \cup Group(Located(S), key, k)]
  <2>1. /\ Group(Located(R), key, k) \in SUBSET R
        /\ Group(Located(S), key, k) \in SUBSET S
    BY DEF Group, Timed, Located
  <2>2. /\ f[k] = agg[Group(Located(R), key, k)] /\ g[k] = agg[Group(Located(S), key, k)]
        /\ e[k] = Union(f[k], g[k])
    BY <1>2, <1>4 DEF Grouped
  <2>. QED  BY <1>3, <2>1, <2>2
<1>6. Joins(e, Located(R), Located(S), key, agg)
  BY <1>2, <1>4, <1>5 DEF Joins
<1>7. e = Grouped(Located(R) \cup Located(S), key, agg)
  BY <1>6, GroupedMerge
<1>. QED  BY <1>1, <1>7, PartsJoin DEF e

(* Activity by hour and actor.                                              *)
LEMMA HourActorsMerge ==
    ASSUME NEW R, NEW S
    PROVE  Merge(MapShard(R), MapShard(S)).hour_actors = MapShard(R \cup S).hour_actors
<1> DEFINE U == R \cup S
           key == [x \in U |-> <<HourOf(x), Actor(x)>>]
           agg == [A \in SUBSET U |-> Ids(A)]
           f == MapShard(R).hour_actors
           g == MapShard(S).hour_actors
           e == Merge(MapShard(R), MapShard(S)).hour_actors
<1>1. ASSUME NEW T \in SUBSET U
      PROVE  MapShard(T).hour_actors = Grouped(Timed(T), key, agg)
  <2>1. Timed(T) \in SUBSET U
    BY DEF Timed
  <2>2. MapShard(T).hour_actors =
          [k \in {<<HourOf(x), Actor(x)>> : x \in Timed(T)} |->
             Ids({x \in Timed(T) : <<HourOf(x), Actor(x)>> = k})]
    BY DEF MapShard, Timed
  <2>3. {<<HourOf(x), Actor(x)>> : x \in Timed(T)} = {key[x] : x \in Timed(T)}
    BY <2>1
  <2>4. \A k : {x \in Timed(T) : <<HourOf(x), Actor(x)>> = k} = Group(Timed(T), key, k)
    BY <2>1 DEF Group
  <2>5. \A k : agg[Group(Timed(T), key, k)] = Ids(Group(Timed(T), key, k))
    BY <2>1 DEF Group
  <2>. HIDE DEF key, agg
  <2>. QED  BY <2>2, <2>3, <2>4, <2>5 DEF Grouped
<1>2. e = [k \in DOMAIN f \cup DOMAIN g |->
             IF k \notin DOMAIN g THEN f[k]
             ELSE IF k \notin DOMAIN f THEN g[k] ELSE Union(f[k], g[k])]
  BY DEF Merge, MergeMaps
<1>3. \A A \in SUBSET R, B \in SUBSET S : agg[A \cup B] = Union(agg[A], agg[B])
  BY DEF Ids, Union
<1>. HIDE DEF key, agg, f, g, e
<1>4. f = Grouped(Timed(R), key, agg) /\ g = Grouped(Timed(S), key, agg)
  BY <1>1 DEF f, g
<1>5. ASSUME NEW k \in DOMAIN f \cap DOMAIN g
      PROVE  e[k] = agg[Group(Timed(R), key, k) \cup Group(Timed(S), key, k)]
  <2>1. /\ Group(Timed(R), key, k) \in SUBSET R
        /\ Group(Timed(S), key, k) \in SUBSET S
    BY DEF Group, Timed
  <2>2. /\ f[k] = agg[Group(Timed(R), key, k)] /\ g[k] = agg[Group(Timed(S), key, k)]
        /\ e[k] = Union(f[k], g[k])
    BY <1>2, <1>4 DEF Grouped
  <2>. QED  BY <1>3, <2>1, <2>2
<1>6. Joins(e, Timed(R), Timed(S), key, agg)
  BY <1>2, <1>4, <1>5 DEF Joins
<1>7. e = Grouped(Timed(R) \cup Timed(S), key, agg)
  BY <1>6, GroupedMerge
<1>. QED  BY <1>1, <1>7, PartsJoin DEF e

(* Times of a client with a host.                                           *)
LEMMA VisitsMerge ==
    ASSUME NEW R, NEW S
    PROVE  Merge(MapShard(R), MapShard(S)).ip_host_times = MapShard(R \cup S).ip_host_times
<1> DEFINE U == R \cup S
           key == [x \in U |-> <<x.client_ip, x.host>>]
           agg == [A \in SUBSET U |-> Times(A)]
           f == MapShard(R).ip_host_times
           g == MapShard(S).ip_host_times
           e == Merge(MapShard(R), MapShard(S)).ip_host_times
<1>1. ASSUME NEW T \in SUBSET U
      PROVE  MapShard(T).ip_host_times = Grouped(Visits(T), key, agg)
  <2>1. Visits(T) \in SUBSET U
    BY DEF Timed, Located, Visits
  <2>2. MapShard(T).ip_host_times =
          [k \in {<<x.client_ip, x.host>> : x \in Visits(T)} |->
             Times({x \in Visits(T) : <<x.client_ip, x.host>> = k})]
    BY DEF MapShard, Timed, Located, Visits, Times
  <2>3. {<<x.client_ip, x.host>> : x \in Visits(T)} = {key[x] : x \in Visits(T)}
    BY <2>1
  <2>4. \A k : {x \in Visits(T) : <<x.client_ip, x.host>> = k} = Group(Visits(T), key, k)
    BY <2>1 DEF Group
  <2>5. \A k : agg[Group(Visits(T), key, k)] = Times(Group(Visits(T), key, k))
    BY <2>1 DEF Group
  <2>. HIDE DEF key, agg
  <2>. QED  BY <2>2, <2>3, <2>4, <2>5 DEF Grouped
<1>2. e = [k \in DOMAIN f \cup DOMAIN g |->
             IF k \notin DOMAIN g THEN f[k]
             ELSE IF k \notin DOMAIN f THEN g[k] ELSE Union(f[k], g[k])]
  BY DEF Merge, MergeMaps
<1>3. \A A \in SUBSET R, B \in SUBSET S : agg[A \cup B] = Union(agg[A], agg[B])
  BY DEF Times, Union
<1>. HIDE DEF key, agg, f, g, e
<1>4. f = Grouped(Visits(R), key, agg) /\ g = Grouped(Visits(S), key, agg)
  BY <1>1 DEF f, g
<1>5. ASSUME NEW k \in DOMAIN f \cap DOMAIN g
      PROVE  e[k] = agg[Group(Visits(R), key, k) \cup Group(Visits(S), key, k)]
  <2>1. /\ Group(Visits(R), key, k) \in SUBSET R
        /\ Group(Visits(S), key, k) \in SUBSET S
    BY DEF Group, Timed, Located, Visits
  <2>2. /\ f[k] = agg[Group(Visits(R), key, k)] /\ g[k] = agg[Group(Visits(S), key, k)]
        /\ e[k] = Union(f[k], g[k])
    BY <1>2, <1>4 DEF Grouped
  <2>. QED  BY <1>3, <2>1, <2>2
<1>6. Joins(e, Visits(R), Visits(S), key, agg)
  BY <1>2, <1>4, <1>5 DEF Joins
<1>7. e = Grouped(Visits(R) \cup Visits(S), key, agg)
  BY <1>6, GroupedMerge
<1>. QED  BY <1>1, <1>7, PartsJoin DEF e

(* Threats.                                                                 *)
LEMMA ThreatsMerge ==
    ASSUME NEW R, NEW S
    PROVE  Merge(MapShard(R), MapShard(S)).threats = MapShard(R \cup S).threats
<1> DEFINE U == R \cup S
           key == [x \in U |-> <<x.threat_name, OrUnknown(x.host)>>]
           agg == [A \in SUBSET U |-> ThreatGroup(A)]
           f == MapShard(R).threats
           g == MapShard(S).threats
           e == Merge(MapShard(R), MapShard(S)).threats
<1>1. ASSUME NEW T \in SUBSET U
      PROVE  MapShard(T).threats = Grouped(Threats(T), key, agg)
  <2>1. Threats(T) \in SUBSET U
    BY DEF Threats
  <2>2. MapShard(T).threats =
          [k \in {<<x.threat_name, OrUnknown(x.host)>> : x \in Threats(T)} |->
             ThreatGroup({x \in Threats(T) : <<x.threat_name, OrUnknown(x.host)>> = k})]
    BY DEF MapShard, Threats
  <2>3. {<<x.threat_name, OrUnknown(x.host)>> : x \in Threats(T)} = {key[x] : x \in Threats(T)}
    BY <2>1
  <2>4. \A k : {x \in Threats(T) : <<x.threat_name, OrUnknown(x.host)>> = k}
                  = Group(Threats(T), key, k)
    BY <2>1 DEF Group
  <2>5. \A k : agg[Group(Threats(T), key, k)] = ThreatGroup(Group(Threats(T), key, k))
    BY <2>1 DEF Group
  <2>. HIDE DEF key, agg
  <2>. QED  BY <2>2, <2>3, <2>4, <2>5 DEF Grouped
<1>2. e = [k \in DOMAIN f \cup DOMAIN g |->
             IF k \notin DOMAIN g THEN f[k]
             ELSE IF k \notin DOMAIN f THEN g[k] ELSE MergeThreats(f[k], g[k])]
  BY DEF Merge, MergeMaps
<1>3. \A A \in SUBSET R, B \in SUBSET S : agg[A \cup B] = MergeThreats(agg[A], agg[B])
  BY DEF ThreatGroup, MergeThreats, Ids, Present
<1>. HIDE DEF key, agg, f, g, e
<1>4. f = Grouped(Threats(R), key, agg) /\ g = Grouped(Threats(S), key, agg)
  BY <1>1 DEF f, g
<1>5. ASSUME NEW k \in DOMAIN f \cap DOMAIN g
      PROVE  e[k] = agg[Group(Threats(R), key, k) \cup Group(Threats(S), key, k)]
  <2>1. /\ Group(Threats(R), key, k) \in SUBSET R
        /\ Group(Threats(S), key, k) \in SUBSET S
    BY DEF Group, Threats
  <2>2. /\ f[k] = agg[Group(Threats(R), key, k)] /\ g[k] = agg[Group(Threats(S), key, k)]
        /\ e[k] = MergeThreats(f[k], g[k])
    BY <1>2, <1>4 DEF Grouped
  <2>. QED  BY <1>3, <2>1, <2>2
<1>6. Joins(e, Threats(R), Threats(S), key, agg)
  BY <1>2, <1>4, <1>5 DEF Joins
<1>7. e = Grouped(Threats(R) \cup Threats(S), key, agg)
  BY <1>6, GroupedMerge
<1>. QED  BY <1>1, <1>7, PartsJoin DEF e

(* Rows by hour.                                                            *)
LEMMA HourCountsMerge ==
    ASSUME NEW R, NEW S, IsFiniteSet(R), IsFiniteSet(S), R \cap S = {}
    PROVE  Merge(MapShard(R), MapShard(S)).hour_counts = MapShard(R \cup S).hour_counts
<1> DEFINE U == R \cup S
           key == [x \in U |-> HourOf(x)]
           agg == [A \in SUBSET U |-> Cardinality(A)]
           f == MapShard(R).hour_counts
           g == MapShard(S).hour_counts
           e == Merge(MapShard(R), MapShard(S)).hour_counts
<1>1. ASSUME NEW T \in SUBSET U
      PROVE  MapShard(T).hour_counts = Grouped(Timed(T), key, agg)
  <2>1. Timed(T) \in SUBSET U
    BY DEF Timed
  <2>2. MapShard(T).hour_counts =
          [k \in {HourOf(x) : x \in Timed(T)} |->
             Cardinality({x \in Timed(T) : HourOf(x) = k})]
    BY DEF MapShard, Timed
  <2>3. {HourOf(x) : x \in Timed(T)} = {key[x] : x \in Timed(T)}
    BY <2>1
  <2>4. \A k : {x \in Timed(T) : HourOf(x) = k} = Group(Timed(T), key, k)
    BY <2>1 DEF Group
  <2>5. \A k : agg[Group(Timed(T), key, k)] = Cardinality(Group(Timed(T), key, k))
    BY <2>1 DEF Group
  <2>. HIDE DEF key, agg
  <2>. QED  BY <2>2, <2>3, <2>4, <2>5 DEF Grouped
<1>2. e = [k \in DOMAIN f \cup DOMAIN g |->
             IF k \notin DOMAIN g THEN f[k]
             ELSE IF k \notin DOMAIN f THEN g[k] ELSE Plus(f[k], g[k])]
  BY DEF Merge, MergeMaps
<1>3. \A A \in SUBSET R, B \in SUBSET S : agg[A \cup B] = Plus(agg[A], agg[B])
  <2>1. ASSUME NEW A \in SUBSET R, NEW B \in SUBSET S
        PROVE  agg[A \cup B] = Plus(agg[A], agg[B])
    <3>1. /\ agg[A] = Cardinality(A) /\ agg[B] = Cardinality(B)
          /\ agg[A \cup B] = Cardinality(A \cup B)
      OBVIOUS
    <3>. QED  BY <3>1, CountsAdd DEF Plus
  <2>. QED  BY <2>1
<1>. HIDE DEF key, agg, f, g, e
<1>4. f = Grouped(Timed(R), key, agg) /\ g = Grouped(Timed(S), key, agg)
  BY <1>1 DEF f, g
<1>5. ASSUME NEW k \in DOMAIN f \cap DOMAIN g
      PROVE  e[k] = agg[Group(Timed(R), key, k) \cup Group(Timed(S), key, k)]
  <2>1. /\ Group(Timed(R), key, k) \in SUBSET R
        /\ Group(Timed(S), key, k) \in SUBSET S
    BY DEF Group, Timed
  <2>2. /\ f[k] = agg[Group(Timed(R), key, k)] /\ g[k] = agg[Group(Timed(S), key, k)]
        /\ e[k] = Plus(f[k], g[k])
    BY <1>2, <1>4 DEF Grouped
  <2>. QED  BY <1>3, <2>1, <2>2
<1>6. Joins(e, Timed(R), Timed(S), key, agg)
  BY <1>2, <1>4, <1>5 DEF Joins
<1>7. e = Grouped(Timed(R) \cup Timed(S), key, agg)
  BY <1>6, GroupedMerge
<1>. QED  BY <1>1, <1>7, PartsJoin DEF e

(* What a user sends to a host; the total is a sum over disjoint rows.      *)
LEMMA BytesAdd ==
    ASSUME NEW A, NEW B, IsFiniteSet(A), IsFiniteSet(B), A \cap B = {},
           \A x \in A \cup B : x.req_bytes \in Int
    PROVE  ByteGroup(A \cup B) = MergeBytes(ByteGroup(A), ByteGroup(B))
<1> DEFINE bytes(T) == [x \in T |-> x.req_bytes]
<1>1. \A T : ByteGroup(T) = [ids |-> Ids(T), total |-> Sum(bytes(T), T),
                             logs |-> ValuesOf(T, "req_bytes")]
  BY Zenon DEF ByteGroup, Sum
<1>2. Ids(A \cup B) = Ids(A) \cup Ids(B)
  BY DEF Ids
<1>3. Sum(bytes(A \cup B), A \cup B) = Sum(bytes(A), A) + Sum(bytes(B), B)
  <2> DEFINE F == bytes(A \cup B)
  <2>1. (\A x \in A : bytes(A)[x] = F[x]) /\ (\A x \in B : bytes(B)[x] = F[x])
    OBVIOUS
  <2>2. \A x \in A \cup B : F[x] \in Int
    OBVIOUS
  <2>. HIDE DEF bytes, F
  <2>3. Sum(bytes(A), A) = Sum(F, A)
    BY <2>1, SumSame
  <2>4. Sum(bytes(B), B) = Sum(F, B)
    BY <2>1, SumSame
  <2>5. Sum(F, A \cup B) = Sum(F, A) + Sum(F, B)
    BY <2>2, SumUnion
  <2>. QED  BY <2>3, <2>4, <2>5 DEF F
<1>4. ValuesOf(A \cup B, "req_bytes") = ValuesOf(A, "req_bytes") (+) ValuesOf(B, "req_bytes")
  BY BagsAdd
<1>. HIDE DEF bytes
<1>. QED  BY <1>1, <1>2, <1>3, <1>4 DEF MergeBytes

(* The map of what users send to hosts.                                     *)
LEMMA UserHostMerges ==
    ASSUME NEW R, NEW S,
           R \cap S = {}, Rowset(R), Rowset(S), IsFiniteSet(R), IsFiniteSet(S)
    PROVE  Merge(MapShard(R), MapShard(S)).user_host = MapShard(R \cup S).user_host
<1> DEFINE U == R \cup S
           key == [x \in U |-> <<OrUnknown(x.username), OrUnknown(x.host)>>]
           agg == [A \in SUBSET U |-> ByteGroup(A)]
           f == MapShard(R).user_host
           g == MapShard(S).user_host
           e == Merge(MapShard(R), MapShard(S)).user_host
<1>1. ASSUME NEW T \in SUBSET U
      PROVE  MapShard(T).user_host = Grouped(Sized(T), key, agg)
  <2>1. Sized(T) \in SUBSET U
    BY DEF Sized
  <2>2. MapShard(T).user_host =
          [k \in {<<OrUnknown(x.username), OrUnknown(x.host)>> : x \in Sized(T)} |->
             ByteGroup({x \in Sized(T) : <<OrUnknown(x.username), OrUnknown(x.host)>> = k})]
    BY DEF MapShard, Sized
  <2>3. {<<OrUnknown(x.username), OrUnknown(x.host)>> : x \in Sized(T)}
           = {key[x] : x \in Sized(T)}
    BY <2>1
  <2>4. \A k : {x \in Sized(T) : <<OrUnknown(x.username), OrUnknown(x.host)>> = k}
                  = Group(Sized(T), key, k)
    BY <2>1 DEF Group
  <2>5. \A k : agg[Group(Sized(T), key, k)] = ByteGroup(Group(Sized(T), key, k))
    BY <2>1 DEF Group
  <2>. HIDE DEF key, agg
  <2>. QED  BY <2>2, <2>3, <2>4, <2>5 DEF Grouped
<1>2. e = [k \in DOMAIN f \cup DOMAIN g |->
             IF k \notin DOMAIN g THEN f[k]
             ELSE IF k \notin DOMAIN f THEN g[k] ELSE MergeBytes(f[k], g[k])]
  BY DEF Merge, MergeMaps
<1>3. \A A \in SUBSET Sized(R), B \in SUBSET Sized(S) :
         agg[A \cup B] = MergeBytes(agg[A], agg[B])
  <2>1. ASSUME NEW A \in SUBSET Sized(R), NEW B \in SUBSET Sized(S)
        PROVE  agg[A \cup B] = MergeBytes(agg[A], agg[B])
    <3>1. /\ agg[A] = ByteGroup(A) /\ agg[B] = ByteGroup(B)
          /\ agg[A \cup B] = ByteGroup(A \cup B)
      BY DEF Sized
    <3>2. A \cap B = {} /\ \A x \in A \cup B : x.req_bytes \in Int
      BY DEF Sized, Rowset, LogEntry
    <3>3. IsFiniteSet(A) /\ IsFiniteSet(B)
      <4>1. A \subseteq R /\ B \subseteq S
        BY DEF Sized
      <4>. QED  BY <4>1, FS_Subset
    <3>. QED  BY <3>1, <3>2, <3>3, BytesAdd
  <2>. QED  BY <2>1
<1>. HIDE DEF key, agg, f, g, e
<1>4. f = Grouped(Sized(R), key, agg) /\ g = Grouped(Sized(S), key, agg)
  BY <1>1 DEF f, g
<1>5. ASSUME NEW k \in DOMAIN f \cap DOMAIN g
      PROVE  e[k] = agg[Group(Sized(R), key, k) \cup Group(Sized(S), key, k)]
  <2>1. /\ Group(Sized(R), key, k) \in SUBSET Sized(R)
        /\ Group(Sized(S), key, k) \in SUBSET Sized(S)
    BY DEF Group
  <2>2. /\ f[k] = agg[Group(Sized(R), key, k)] /\ g[k] = agg[Group(Sized(S), key, k)]
        /\ e[k] = MergeBytes(f[k], g[k])
    BY <1>2, <1>4 DEF Grouped
  <2>. QED  BY <1>3, <2>1, <2>2
<1>6. Joins(e, Sized(R), Sized(S), key, agg)
  BY <1>2, <1>4, <1>5 DEF Joins
<1>7. e = Grouped(Sized(R) \cup Sized(S), key, agg)
  BY <1>6, GroupedMerge
<1>. QED  BY <1>1, <1>7, PartsJoin DEF e

(* The sizes of all uploads, a bag.                                         *)
LEMMA BytesMerge ==
    ASSUME NEW R, NEW S, IsFiniteSet(R), IsFiniteSet(S), R \cap S = {}
    PROVE  Merge(MapShard(R), MapShard(S)).req_byte_logs = MapShard(R \cup S).req_byte_logs
<1>1. Merge(MapShard(R), MapShard(S)).req_byte_logs
        = ValuesOf(Sized(R), "req_bytes") (+) ValuesOf(Sized(S), "req_bytes")
  BY DEF Merge, MapShard
<1>2. MapShard(R \cup S).req_byte_logs = ValuesOf(Sized(R \cup S), "req_bytes")
  BY DEF MapShard
<1>3. IsFiniteSet(Sized(R)) /\ IsFiniteSet(Sized(S)) /\ Sized(R) \cap Sized(S) = {}
  <2>1. Sized(R) \subseteq R /\ Sized(S) \subseteq S
    BY DEF Sized
  <2>. QED  BY <2>1, FS_Subset
<1>4. ValuesOf(Sized(R) \cup Sized(S), "req_bytes")
        = ValuesOf(Sized(R), "req_bytes") (+) ValuesOf(Sized(S), "req_bytes")
  <2>1. PICK A, B : A = Sized(R) /\ B = Sized(S)
    OBVIOUS
  <2>2. IsFiniteSet(A) /\ IsFiniteSet(B) /\ A \cap B = {}
    BY <1>3, <2>1
  <2>3. ValuesOf(A \cup B, "req_bytes") = ValuesOf(A, "req_bytes") (+) ValuesOf(B, "req_bytes")
    BY <2>2, BagsAdd
  <2>. QED  BY <2>1, <2>3
<1>5. Sized(R \cup S) = Sized(R) \cup Sized(S)
  BY PartsJoin
<1>. QED  BY <1>1, <1>2, <1>4, <1>5, Zenon

(* Hosts.  A host with few rows has all its urls.                           *)

(* No more values than the cap are all listed.                              *)
LEMMA FewValues ==
    ASSUME NEW U, Rowset(U), NEW G \in SUBSET U, NEW f,
           IsFiniteSet(Present(G, f)), Cardinality(Present(G, f)) <= MaxUrls
    PROVE  FirstValues(G, f) = Present(G, f)
<1> DEFINE V == Present(G, f)
           I(v) == {x.id : x \in {y \in G : y[f] = v}}
           since(v) == Min(I(v))
<1>1. Cardinality(V) \in Nat /\ MaxUrls \in Nat
  BY FS_CardinalityType, DetectionAssumption
<1>2. ASSUME NEW v \in V
      PROVE  since(v) \in Int
  <2>1. I(v) \subseteq {x.id : x \in U} /\ I(v) # {} /\ I(v) \subseteq Int
    BY DEF Present, Rowset, LogEntry
  <2>2. IsFiniteSet({x.id : x \in U})
    <3>1. PICK g : g = [x \in U |-> x.id]
      OBVIOUS
    <3>2. {x.id : x \in U} = {g[x] : x \in U} /\ IsFiniteSet({g[x] : x \in U})
      BY <3>1, ImageOfFinite DEF Rowset
    <3>. QED  BY <3>2
  <2>3. IsFiniteSet(I(v))
    BY <2>1, <2>2, FS_Subset
  <2>. HIDE DEF I
  <2>4. Min(I(v)) \in I(v)
    BY <2>1, <2>3, MinOfFinite
  <2>. QED  BY <2>1, <2>4
<1>. HIDE DEF since
<1>3. ASSUME NEW v \in V
      PROVE  Cardinality({w \in V : since(w) < since(v)}) < MaxUrls
  <2> DEFINE W == {w \in V : since(w) < since(v)}
  <2>1. W \subseteq V /\ v \notin W
    BY <1>2
  <2>. HIDE DEF W, V
  <2>2. W \subseteq V \ {v} /\ IsFiniteSet(V \ {v}) /\ Cardinality(V \ {v}) = Cardinality(V) - 1
    BY <1>3, <2>1, FS_RemoveElement DEF V
  <2>3. Cardinality(W) <= Cardinality(V) - 1 /\ Cardinality(W) \in Nat
    BY <2>2, FS_Subset, FS_CardinalityType
  <2>4. Cardinality(V) <= MaxUrls
    BY DEF V
  <2>. QED  BY <1>1, <2>3, <2>4 DEF W
<1>4. FirstValues(G, f) = {v \in V : Cardinality({w \in V : since(w) < since(v)}) < MaxUrls}
  BY DEF FirstValues, Quantify, since
<1>. HIDE DEF V
<1>5. FirstValues(G, f) = V
  BY <1>3, <1>4
<1>. QED  BY <1>5 DEF V

(* A host with no more rows than the cap has no more urls than the cap:     *)
LEMMA FewUrls ==
    ASSUME NEW U, Rowset(U), NEW G \in SUBSET U, Cardinality(Ids(G)) <= RareHits
    PROVE  /\ FirstValues(G, "url") = Present(G, "url")
           /\ IsFiniteSet(Present(G, "url"))
           /\ Cardinality(Present(G, "url")) <= MaxUrls
<1> DEFINE V == Present(G, "url")
           row == [i \in Ids(G) |-> CHOOSE x \in G : x.id = i]
           url == [i \in Ids(G) |-> row[i].url]
<1>1. IsFiniteSet(G)
  BY FS_Subset DEF Rowset
<1>2. IsFiniteSet(Ids(G)) /\ Cardinality(Ids(G)) \in Nat
  <2>1. PICK f : f = [x \in G |-> x.id]
    OBVIOUS
  <2>2. Ids(G) = {f[x] : x \in G} /\ IsFiniteSet({f[x] : x \in G})
    BY <1>1, <2>1, ImageOfFinite DEF Ids
  <2>. QED  BY <2>2, FS_CardinalityType
<1>3. \A x \in G : x.id \in Ids(G) /\ row[x.id] = x
  BY DEF Ids, Rowset
<1>4. V \subseteq {url[i] : i \in Ids(G)}
  <2>1. \A v \in V : \E x \in G : v = x.url
    BY DEF Present
  <2>2. \A x \in G : x.id \in Ids(G) /\ url[x.id] = x.url
    BY <1>3
  <2>. HIDE DEF url
  <2>. QED  BY <2>1, <2>2
<1>5. /\ IsFiniteSet({url[i] : i \in Ids(G)})
      /\ Cardinality({url[i] : i \in Ids(G)}) <= Cardinality(Ids(G))
  <2>. HIDE DEF url
  <2>. QED  BY <1>2, ImageOfFinite
<1>6. IsFiniteSet(V) /\ Cardinality(V) <= MaxUrls
  <2>. HIDE DEF url, V
  <2>1. IsFiniteSet(V) /\ Cardinality(V) <= Cardinality({url[i] : i \in Ids(G)})
    BY <1>4, <1>5, FS_Subset
  <2>2. Cardinality(V) \in Nat /\ Cardinality({url[i] : i \in Ids(G)}) \in Nat
    BY <1>5, <2>1, FS_CardinalityType
  <2>3. RareHits \in Int /\ MaxUrls \in Int /\ RareHits <= MaxUrls
    BY DetectionAssumption
  <2>. QED  BY <1>2, <1>5, <2>1, <2>2, <2>3
<1>. QED  BY <1>6, FewValues DEF V

(* Capping them again drops none.                                           *)
LEMMA CapTakesAll ==
    ASSUME NEW B, IsFiniteSet(B), Cardinality(B) <= MaxUrls
    PROVE  \A S : AddValues(S, B) = S \cup B
<1>1. Cardinality(B) \in Nat /\ MaxUrls \in Nat
  BY FS_CardinalityType, DetectionAssumption
<1>2. Min({MaxUrls, Cardinality(B)}) = Cardinality(B)
  <2>1. \A x \in {MaxUrls, Cardinality(B)} :
           (\A y \in {MaxUrls, Cardinality(B)} : x <= y) <=> x = Cardinality(B)
    BY <1>1
  <2>. QED  BY <2>1 DEF Min
<1>3. \A U \in SUBSET B : Cardinality(U) = Cardinality(B) => U = B
  BY FS_Subset
<1>4. Capped(B) = {B}
  BY <1>2, <1>3 DEF Capped
<1>. QED  BY <1>4 DEF AddValues

(* Hosts as detection sees them: the urls of busy ones do not matter.       *)
AlikeHosts(f, g) ==
    /\ DOMAIN f = DOMAIN g
    /\ \A h \in DOMAIN g :
          /\ f[h].ids = g[h].ids /\ f[h].users = g[h].users
          /\ Cardinality(g[h].ids) <= RareHits => f[h].urls = g[h].urls

RowsOfHost(R, h) == {x \in Hosted(R) : x.host = h}

(* The hosts of a partial and their groups.                                 *)
LEMMA HostsAre ==
    ASSUME NEW R
    PROVE  /\ DOMAIN MapShard(R).hosts = {x.host : x \in Hosted(R)}
           /\ \A h \in DOMAIN MapShard(R).hosts :
                 MapShard(R).hosts[h] = HostGroup(RowsOfHost(R, h))
  BY DEF MapShard, Hosted, RowsOfHost

(* Part of the rows of a rare host are few as well.                         *)
LEMMA FewerIds ==
    ASSUME NEW U, Rowset(U), NEW A \in SUBSET U, NEW B \in SUBSET U,
           Cardinality(Ids(A \cup B)) <= RareHits
    PROVE  Cardinality(Ids(A)) <= RareHits
<1>1. Ids(A) \subseteq Ids(A \cup B) /\ Ids(B) \subseteq Ids(A \cup B)
  BY DEF Ids
<1>2. IsFiniteSet(Ids(A \cup B))
  <2>1. PICK f : f = [x \in A \cup B |-> x.id]
    OBVIOUS
  <2>2. IsFiniteSet(A \cup B)
    BY FS_Subset DEF Rowset
  <2>. QED  BY <2>1, <2>2, ImageOfFinite DEF Ids
<1>3. /\ Cardinality(Ids(A)) <= Cardinality(Ids(A \cup B)) /\ IsFiniteSet(Ids(A))
      /\ Cardinality(Ids(B)) <= Cardinality(Ids(A \cup B)) /\ IsFiniteSet(Ids(B))
  BY <1>1, <1>2, FS_Subset
<1>4. /\ Cardinality(Ids(A)) \in Nat /\ Cardinality(Ids(B)) \in Nat
      /\ Cardinality(Ids(A \cup B)) \in Nat /\ RareHits \in Int
  BY <1>2, <1>3, FS_CardinalityType, DetectionAssumption
<1>. QED  BY <1>3, <1>4

(* The urls of a rare host add up.                                          *)
LEMMA UrlsAdd ==
    ASSUME NEW U, Rowset(U), NEW A \in SUBSET U, NEW B \in SUBSET U,
           NEW a, a.urls = HostGroup(A).urls,
           Cardinality(Ids(A \cup B)) <= RareHits
    PROVE  MergeHosts(a, HostGroup(B)).urls = HostGroup(A \cup B).urls
<1>1. /\ FirstValues(A \cup B, "url") = Present(A \cup B, "url")
  BY FewUrls
<1>2. Cardinality(Ids(A)) <= RareHits /\ Cardinality(Ids(B)) <= RareHits
  <2>1. A \cup B = B \cup A
    OBVIOUS
  <2>. QED  BY <2>1, FewerIds
<1>3. FirstValues(A, "url") = Present(A, "url")
  BY <1>2, FewUrls
<1>4. /\ FirstValues(B, "url") = Present(B, "url") /\ IsFiniteSet(Present(B, "url"))
      /\ Cardinality(Present(B, "url")) <= MaxUrls
  BY <1>2, FewUrls
<1>5. PICK V : V = Present(B, "url")
  OBVIOUS
<1>6. MergeHosts(a, HostGroup(B)).urls = AddValues(a.urls, V)
  BY <1>4, <1>5 DEF MergeHosts, HostGroup
<1>7. AddValues(a.urls, V) = a.urls \cup V
  BY <1>4, <1>5, CapTakesAll
<1>8. Present(A \cup B, "url") = Present(A, "url") \cup Present(B, "url")
  BY DEF Present
<1>9. a.urls = Present(A, "url") /\ HostGroup(A \cup B).urls = Present(A \cup B, "url")
  BY <1>1, <1>3 DEF HostGroup
<1>. QED  BY <1>5, <1>6, <1>7, <1>8, <1>9

(* Hosts of disjoint rows merge to hosts alike.                             *)
LEMMA HostsMerge ==
    ASSUME NEW R, NEW S, Rowset(R \cup S), NEW f, AlikeHosts(f, MapShard(R).hosts)
    PROVE  AlikeHosts(MergeMaps(f, MapShard(S).hosts, MergeHosts), MapShard(R \cup S).hosts)
<1> DEFINE m == MapShard(R).hosts
           g == MapShard(S).hosts
           n == MapShard(R \cup S).hosts
           e == MergeMaps(f, g, MergeHosts)
           A(h) == RowsOfHost(R, h)
           B(h) == RowsOfHost(S, h)
<1>1. /\ DOMAIN e = DOMAIN f \cup DOMAIN g
      /\ \A h \in DOMAIN e : e[h] = IF h \notin DOMAIN g THEN f[h]
                                    ELSE IF h \notin DOMAIN f THEN g[h]
                                    ELSE MergeHosts(f[h], g[h])
  BY DEF MergeMaps
<1>2. /\ DOMAIN m = {x.host : x \in Hosted(R)} /\ DOMAIN g = {x.host : x \in Hosted(S)}
      /\ DOMAIN n = {x.host : x \in Hosted(R \cup S)}
      /\ \A h \in DOMAIN m : m[h] = HostGroup(A(h))
      /\ \A h \in DOMAIN g : g[h] = HostGroup(B(h))
      /\ \A h \in DOMAIN n : n[h] = HostGroup(RowsOfHost(R \cup S, h))
  BY HostsAre
<1>3. \A h : RowsOfHost(R \cup S, h) = A(h) \cup B(h)
  BY DEF RowsOfHost, Hosted
<1>4. \A h : /\ A(h) \in SUBSET (R \cup S) /\ B(h) \in SUBSET (R \cup S)
             /\ h \notin DOMAIN m => A(h) = {}
             /\ h \notin DOMAIN g => B(h) = {}
  BY <1>2 DEF RowsOfHost, Hosted
<1>6. /\ DOMAIN f = DOMAIN m
      /\ \A h \in DOMAIN m :
            /\ f[h].ids = m[h].ids /\ f[h].users = m[h].users
            /\ Cardinality(m[h].ids) <= RareHits => f[h].urls = m[h].urls
  BY DEF AlikeHosts
<1>. HIDE DEF m, g, n, e, A, B
<1>5. DOMAIN n = DOMAIN m \cup DOMAIN g
  <2>1. PICK V, W : V = Hosted(R) /\ W = Hosted(S)
    OBVIOUS
  <2>2. Hosted(R \cup S) = V \cup W
    BY <2>1, PartsJoin
  <2>3. {x.host : x \in V \cup W} = {x.host : x \in V} \cup {x.host : x \in W}
    OBVIOUS
  <2>. QED  BY <1>2, <2>1, <2>2, <2>3
<1>7. ASSUME NEW h \in DOMAIN n
      PROVE  /\ e[h].ids = n[h].ids /\ e[h].users = n[h].users
             /\ Cardinality(n[h].ids) <= RareHits => e[h].urls = n[h].urls
  <2>1. PICK a, b : a = A(h) /\ b = B(h)
    OBVIOUS
  <2>2. n[h] = HostGroup(a \cup b)
    BY <1>2, <1>3, <2>1
  <2>3. CASE h \notin DOMAIN g
    <3>1. b = {} /\ h \in DOMAIN m
      BY <1>4, <1>5, <2>1, <2>3
    <3>2. n[h] = m[h]
      <4>1. a \cup b = a
        BY <3>1
      <4>. QED  BY <1>2, <2>1, <2>2, <3>1, <4>1
    <3>3. e[h] = f[h]
      BY <1>1, <1>5, <1>6, <2>3, <3>1
    <3>. QED  BY <1>6, <3>1, <3>2, <3>3
  <2>4. CASE h \in DOMAIN g /\ h \notin DOMAIN m
    <3>1. a \cup b = b
      BY <1>4, <2>1, <2>4
    <3>2. e[h] = g[h] /\ g[h] = HostGroup(b)
      BY <1>1, <1>2, <1>5, <1>6, <2>1, <2>4
    <3>. QED  BY <2>2, <3>1, <3>2
  <2>5. CASE h \in DOMAIN g /\ h \in DOMAIN m
    <3>1. /\ m[h] = HostGroup(a) /\ g[h] = HostGroup(b) /\ e[h] = MergeHosts(f[h], HostGroup(b))
          /\ a \in SUBSET (R \cup S) /\ b \in SUBSET (R \cup S)
      BY <1>1, <1>2, <1>4, <1>6, <2>1, <2>5
    <3>2. PICK c : c = f[h]
      OBVIOUS
    <3>3. /\ c.ids = Ids(a) /\ c.users = Present(a, "username")
          /\ Cardinality(Ids(a)) <= RareHits => c.urls = HostGroup(a).urls
      BY <1>6, <2>5, <3>1, <3>2 DEF HostGroup
    <3>4. /\ MergeHosts(c, HostGroup(b)).ids = HostGroup(a \cup b).ids
          /\ MergeHosts(c, HostGroup(b)).users = HostGroup(a \cup b).users
      BY <3>3 DEF MergeHosts, HostGroup, Ids, Present
    <3>5. HostGroup(a \cup b).ids = Ids(a \cup b)
      BY DEF HostGroup
    <3>6. ASSUME Cardinality(Ids(a \cup b)) <= RareHits
          PROVE  MergeHosts(c, HostGroup(b)).urls = HostGroup(a \cup b).urls
      <4>1. Cardinality(Ids(a)) <= RareHits
        BY <3>1, <3>6, FewerIds
      <4>. QED  BY <3>1, <3>3, <3>6, <4>1, UrlsAdd
    <3>. QED  BY <2>2, <3>1, <3>2, <3>4, <3>5, <3>6
  <2>. QED  BY <2>3, <2>4, <2>5
<1>8. DOMAIN e = DOMAIN n
  BY <1>1, <1>5, <1>6
<1>. QED  BY <1>7, <1>8 DEF AlikeHosts, e, n, g

(* The hosts of an actor's hour, where no shard can have left any out.      *)
ActorRows(R, k) == {x \in Timed(R) : <<HourOf(x), Actor(x)>> = k}
ActorHours(R) == {<<HourOf(x), Actor(x)>> : x \in Timed(R)}
AlikeActors(f, R) ==
    /\ DOMAIN f = ActorHours(R)
    /\ \A k \in DOMAIN f :
          LET V == Present(ActorRows(R, k), "host") IN
          Cardinality(V) <= MaxUrls => f[k] = V

LEMMA PresentFinite ==
    ASSUME NEW U, Rowset(U), NEW G \in SUBSET U, NEW f
    PROVE  IsFiniteSet(Present(G, f))
<1>1. IsFiniteSet(G)
  BY FS_Subset DEF Rowset
<1>2. PICK g : g = [x \in G |-> x[f]]
  OBVIOUS
<1>3. IsFiniteSet({g[x] : x \in G})
  BY <1>1, ImageOfFinite
<1>4. Present(G, f) \subseteq {g[x] : x \in G}
  BY <1>2 DEF Present
<1>. QED  BY <1>3, <1>4, FS_Subset

(* One pass lists them all ...                                              *)
LEMMA ActorHostsAre ==
    ASSUME NEW U, Rowset(U), NEW R \in SUBSET U
    PROVE  AlikeActors(MapShard(R).actor_hosts, R)
<1> DEFINE m == MapShard(R).actor_hosts
<1>1. m = [k \in ActorHours(R) |-> FirstValues(ActorRows(R, k), "host")]
  BY DEF MapShard, ActorHours, ActorRows
<1>. HIDE DEF m
<1>2. ASSUME NEW k \in DOMAIN m, Cardinality(Present(ActorRows(R, k), "host")) <= MaxUrls
      PROVE  m[k] = Present(ActorRows(R, k), "host")
  <2>1. PICK G : G = ActorRows(R, k)
    OBVIOUS
  <2>2. G \in SUBSET U
    BY <2>1 DEF ActorRows, Timed
  <2>3. FirstValues(G, "host") = Present(G, "host")
    BY <1>2, <2>1, <2>2, PresentFinite, FewValues
  <2>. QED  BY <1>1, <2>1, <2>3
<1>. QED  BY <1>1, <1>2 DEF AlikeActors, m

(* ... and so do the shards together.                                       *)
LEMMA ActorHostsMerge ==
    ASSUME NEW R, NEW S, Rowset(R \cup S), NEW f, AlikeActors(f, R)
    PROVE  AlikeActors(MergeMaps(f, MapShard(S).actor_hosts, AddValues), R \cup S)
<1> DEFINE g == MapShard(S).actor_hosts
           e == MergeMaps(f, g, AddValues)
           V(T, k) == Present(ActorRows(T, k), "host")
<1>1. /\ DOMAIN e = DOMAIN f \cup DOMAIN g
      /\ \A k \in DOMAIN e : e[k] = IF k \notin DOMAIN g THEN f[k]
                                    ELSE IF k \notin DOMAIN f THEN g[k]
                                    ELSE AddValues(f[k], g[k])
  BY DEF MergeMaps
<1>2. /\ DOMAIN g = ActorHours(S)
      /\ \A k \in DOMAIN g : Cardinality(V(S, k)) <= MaxUrls => g[k] = V(S, k)
  <2>1. S \in SUBSET (R \cup S)
    OBVIOUS
  <2>. QED  BY <2>1, ActorHostsAre DEF AlikeActors
<1>3. /\ DOMAIN f = ActorHours(R)
      /\ \A k \in DOMAIN f : Cardinality(V(R, k)) <= MaxUrls => f[k] = V(R, k)
  BY DEF AlikeActors
<1>4. ActorHours(R \cup S) = ActorHours(R) \cup ActorHours(S)
  BY DEF ActorHours, Timed
<1>5. \A k : /\ V(R \cup S, k) = V(R, k) \cup V(S, k)
             /\ k \notin ActorHours(R) => V(R, k) = {}
             /\ k \notin ActorHours(S) => V(S, k) = {}
  BY DEF Present, ActorRows, ActorHours, Timed
<1>6. \A k : IsFiniteSet(V(R \cup S, k))
  <2>1. \A k : ActorRows(R \cup S, k) \in SUBSET (R \cup S)
    BY DEF ActorRows, Timed
  <2>. QED  BY <2>1, PresentFinite
<1>. HIDE DEF g, e, V
<1>7. ASSUME NEW k \in DOMAIN e, Cardinality(V(R \cup S, k)) <= MaxUrls
      PROVE  e[k] = V(R \cup S, k)
  <2>1. PICK A, B : A = V(R, k) /\ B = V(S, k)
    OBVIOUS
  <2>2. /\ IsFiniteSet(A) /\ Cardinality(A) <= MaxUrls
        /\ IsFiniteSet(B) /\ Cardinality(B) <= MaxUrls
    <3>1. PICK C : C = V(R \cup S, k)
      OBVIOUS
    <3>2. A \subseteq C /\ B \subseteq C /\ IsFiniteSet(C) /\ Cardinality(C) <= MaxUrls
      BY <1>5, <1>6, <1>7, <2>1, <3>1
    <3>3. /\ IsFiniteSet(A) /\ Cardinality(A) <= Cardinality(C)
          /\ IsFiniteSet(B) /\ Cardinality(B) <= Cardinality(C)
      BY <3>2, FS_Subset
    <3>4. /\ Cardinality(A) \in Nat /\ Cardinality(B) \in Nat /\ Cardinality(C) \in Nat
          /\ MaxUrls \in Nat
      BY <3>2, <3>3, FS_CardinalityType, DetectionAssumption
    <3>. QED  BY <3>2, <3>3, <3>4
  <2>3. \A T : AddValues(T, B) = T \cup B
    BY <2>2, CapTakesAll
  <2>4. CASE k \notin DOMAIN g
    BY <1>1, <1>2, <1>3, <1>5, <1>7, <2>1, <2>2, <2>4
  <2>5. CASE k \in DOMAIN g /\ k \notin DOMAIN f
    BY <1>1, <1>2, <1>3, <1>5, <1>7, <2>1, <2>2, <2>5
  <2>6. CASE k \in DOMAIN g /\ k \in DOMAIN f
    <3>1. e[k] = AddValues(f[k], g[k]) /\ f[k] = A /\ g[k] = B
      BY <1>1, <1>2, <1>3, <1>7, <2>1, <2>2, <2>6
    <3>. QED  BY <1>5, <2>1, <2>3, <3>1
  <2>. QED  BY <2>4, <2>5, <2>6
<1>8. DOMAIN e = ActorHours(R \cup S)
  BY <1>1, <1>2, <1>3, <1>4
<1>. QED  BY <1>7, <1>8 DEF AlikeActors, e, g, V

(* Partials that detection does not tell apart.                             *)
Alike(p, q) ==
    /\ p.ip_minute = q.ip_minute /\ p.user_host = q.user_host
    /\ p.req_byte_logs = q.req_byte_logs /\ p.ip_host_times = q.ip_host_times
    /\ p.threats = q.threats /\ p.hour_counts = q.hour_counts
    /\ p.hour_actors = q.hour_actors
    /\ AlikeHosts(p.hosts, q.hosts)

(* What the partials of the rows R add up to.                               *)
AlikeTo(p, R) == Alike(p, MapShard(R)) /\ AlikeActors(p.actor_hosts, R)

LEMMA AlikeNothing == AlikeTo(MapShard({}), {})
<1>1. \A p : Alike(p, p)
  BY DEF Alike, AlikeHosts
<1>2. Rowset({})
  BY FS_EmptySet DEF Rowset
<1>. QED  BY <1>1, <1>2, ActorHostsAre DEF AlikeTo

LEMMA RowsetParts ==
    ASSUME NEW U, Rowset(U), NEW R \in SUBSET U
    PROVE  Rowset(R) /\ IsFiniteSet(R)
  BY FS_Subset DEF Rowset

(* One step of merge_all.                                                   *)
LEMMA MergeAlike ==
    ASSUME NEW R, NEW S, Rowset(R \cup S), R \cap S = {}, NEW p, AlikeTo(p, R)
    PROVE  AlikeTo(Merge(p, MapShard(S)), R \cup S)
<1>1. Rowset(R) /\ Rowset(S) /\ IsFiniteSet(R) /\ IsFiniteSet(S)
  BY RowsetParts
<1>2. PICK a, b, c : a = MapShard(R) /\ b = MapShard(S) /\ c = MapShard(R \cup S)
  OBVIOUS
<1>3. /\ Merge(a, b).ip_minute = c.ip_minute /\ Merge(a, b).user_host = c.user_host
      /\ Merge(a, b).req_byte_logs = c.req_byte_logs
      /\ Merge(a, b).ip_host_times = c.ip_host_times
      /\ Merge(a, b).threats = c.threats /\ Merge(a, b).hour_counts = c.hour_counts
      /\ Merge(a, b).hour_actors = c.hour_actors
  BY <1>1, <1>2, IpMinuteMerges, UserHostMerges, BytesMerge, VisitsMerge, ThreatsMerge,
     HourCountsMerge, HourActorsMerge
<1>4. AlikeHosts(MergeMaps(p.hosts, b.hosts, MergeHosts), c.hosts)
  BY <1>2, HostsMerge DEF Alike, AlikeTo
<1>5. Merge(p, b).hosts = MergeMaps(p.hosts, b.hosts, MergeHosts)
  BY DEF Merge
<1>6. Alike(p, a)
  BY <1>2 DEF AlikeTo
<1>7. /\ Merge(p, b).ip_minute = Merge(a, b).ip_minute
      /\ Merge(p, b).user_host = Merge(a, b).user_host
      /\ Merge(p, b).req_byte_logs = Merge(a, b).req_byte_logs
      /\ Merge(p, b).ip_host_times = Merge(a, b).ip_host_times
      /\ Merge(p, b).threats = Merge(a, b).threats
      /\ Merge(p, b).hour_counts = Merge(a, b).hour_counts
      /\ Merge(p, b).hour_actors = Merge(a, b).hour_actors
  BY <1>6 DEF Merge, Alike, MergeMaps
<1>8. Alike(Merge(p, b), c)
  BY <1>3, <1>4, <1>5, <1>7 DEF Alike
<1>9. AlikeActors(Merge(p, b).actor_hosts, R \cup S)
  <2>1. Merge(p, b).actor_hosts = MergeMaps(p.actor_hosts, b.actor_hosts, AddValues)
    BY DEF Merge
  <2>. QED  BY <1>2, <2>1, ActorHostsMerge DEF AlikeTo
<1>. QED  BY <1>2, <1>8, <1>9 DEF AlikeTo

(* merge_all, as the library's fold computes it.                            *)
Merges(g, q) ==
    g = [s \in SUBSET DOMAIN q |->
           IF s = {} THEN MapShard({}) ELSE Merge(g[s \ {Max(s)}], q[Max(s)])]

LEMMA MergeAllUnfolds ==
    ASSUME NEW q
    PROVE  MergeAll(q) = (CHOOSE g : Merges(g, q))[DOMAIN q]
  BY Zenon DEF MergeAll, FoldLeft, MapThenFoldSet, Merges

(* The recursion of the fold has a solution, shard by shard.                *)
LEMMA MergesExists ==
    ASSUME NEW n \in Nat, NEW q, DOMAIN q = 1 .. n
    PROVE  \E g : Merges(g, q)
<1> DEFINE D(k) == {s \in SUBSET (1 .. n) : Cardinality(s) <= k}
           next(g, k) == [s \in D(k) |-> IF s = {} THEN MapShard({})
                                         ELSE Merge(g[s \ {Max(s)}], q[Max(s)])]
           solves(g, k) == g = next(g, k)
           P == {k \in Nat : \E g : solves(g, k)}
<1>0. IsFiniteSet(1 .. n)
  BY FS_Interval
<1>1. \A s \in SUBSET (1 .. n) : IsFiniteSet(s) /\ Cardinality(s) \in Nat
  BY <1>0, FS_Subset, FS_CardinalityType
<1>2. \A k \in Nat : \A s \in D(k + 1) : s # {} => s \ {Max(s)} \in D(k)
  <2>. SUFFICES ASSUME NEW k \in Nat, NEW s \in D(k + 1), s # {}
                PROVE  s \ {Max(s)} \in D(k)
    OBVIOUS
  <2>1. Max(s) \in s
    <3>1. s \subseteq Int
      OBVIOUS
    <3>. QED  BY <1>1, <3>1, MaxOfFinite
  <2>2. Cardinality(s \ {Max(s)}) = Cardinality(s) - 1
    BY <1>1, <2>1, FS_RemoveElement
  <2>3. Cardinality(s) \in Nat /\ Cardinality(s) <= k + 1
    BY <1>1
  <2>4. Cardinality(s \ {Max(s)}) <= k
    BY <2>2, <2>3
  <2>. QED  BY <2>4
<1>3. \A k \in Nat : D(k) \subseteq D(k + 1)
  BY <1>1
<1>4. 0 \in P
  <2>1. \A s \in D(0) : s = {}
    BY <1>1, FS_EmptySet
  <2> DEFINE g == [s \in D(0) |-> MapShard({})]
  <2>2. solves(g, 0)
    BY <2>1
  <2>. HIDE DEF solves, g
  <2>. QED  BY <2>2
<1>5. ASSUME NEW k \in Nat, k \in P
      PROVE  k + 1 \in P
  <2>1. PICK g : solves(g, k)
    BY <1>5
  <2> DEFINE h == next(g, k + 1)
  <2>2. \A s \in D(k) : h[s] = g[s]
    BY <2>1, <1>3
  <2>3. ASSUME NEW s \in D(k + 1), s # {}
        PROVE  h[s \ {Max(s)}] = g[s \ {Max(s)}]
    BY <2>2, <2>3, <1>2
  <2>4. solves(h, k + 1)
    BY <2>3
  <2>. HIDE DEF solves, h
  <2>. QED  BY <2>4
<1>. HIDE DEF P
<1>6. n \in P
  BY <1>4, <1>5, NumberInduction
<1>7. PICK g : solves(g, n)
  BY <1>6 DEF P
<1>8. D(n) = SUBSET (1 .. n)
  <2>1. Cardinality(1 .. n) = n
    BY FS_Interval
  <2>2. \A s \in SUBSET (1 .. n) : Cardinality(s) <= n
    BY <1>0, <2>1, FS_Subset
  <2>. QED  BY <2>2
<1>. QED  BY <1>7, <1>8 DEF Merges

(* The partials of disjoint parts merge to the partial of their union.      *)
LEMMA MergeAllAlike ==
    ASSUME NEW U, Rowset(U), NEW n \in Nat, NEW q, DOMAIN q = 1 .. n,
           NEW part, \A i \in 1 .. n : part[i] \in SUBSET U /\ q[i] = MapShard(part[i]),
           \A i, j \in 1 .. n : i # j => part[i] \cap part[j] = {}
    PROVE  AlikeTo(MergeAll(q), UNION {part[i] : i \in 1 .. n})
<1> DEFINE g == CHOOSE h : Merges(h, q)
           W(k) == UNION {part[i] : i \in 1 .. k}
           P == {k \in Nat : k <= n => AlikeTo(g[1 .. k], W(k))}
<1>1. Merges(g, q)
  BY MergesExists, Zenon
<1>. HIDE DEF g
<1>2. \A s \in SUBSET (1 .. n) :
         g[s] = IF s = {} THEN MapShard({}) ELSE Merge(g[s \ {Max(s)}], q[Max(s)])
  BY <1>1 DEF Merges
<1>3. 0 \in P
  <2>1. g[{}] = MapShard({})
    BY <1>2
  <2>2. 1 .. 0 = {} /\ W(0) = {}
    OBVIOUS
  <2>3. AlikeTo(g[1 .. 0], W(0))
    BY <2>1, <2>2, AlikeNothing, Zenon
  <2>. QED  BY <2>3
<1>4. ASSUME NEW k \in Nat, k \in P
      PROVE  k + 1 \in P
  <2>. SUFFICES ASSUME k + 1 <= n
                PROVE  AlikeTo(g[1 .. k + 1], W(k + 1))
    OBVIOUS
  <2>1. Max(1 .. k + 1) = k + 1
    BY DEF Max
  <2>2. (1 .. k + 1) \ {k + 1} = 1 .. k /\ 1 .. k + 1 # {} /\ 1 .. k + 1 \in SUBSET (1 .. n)
    <3>1. \A i : i \in (1 .. k + 1) \ {k + 1} <=> i \in 1 .. k
      OBVIOUS
    <3>2. (1 .. k + 1) \ {k + 1} = 1 .. k
      BY <3>1
    <3>3. k + 1 \in 1 .. k + 1 /\ \A i \in 1 .. k + 1 : i \in 1 .. n
      OBVIOUS
    <3>. QED  BY <3>2, <3>3
  <2>3. g[1 .. k + 1] = Merge(g[1 .. k], q[k + 1])
    BY <1>2, <2>1, <2>2, Zenon
  <2>4. q[k + 1] = MapShard(part[k + 1]) /\ W(k + 1) = W(k) \cup part[k + 1]
    OBVIOUS
  <2>5. W(k) \cap part[k + 1] = {} /\ W(k) \cup part[k + 1] \in SUBSET U
    OBVIOUS
  <2>6. Rowset(W(k) \cup part[k + 1])
    BY <2>5, RowsetParts
  <2>7. AlikeTo(g[1 .. k], W(k))
    BY <1>4
  <2>. HIDE DEF W
  <2>8. PICK p, A, B : p = g[1 .. k] /\ A = W(k) /\ B = part[k + 1]
    OBVIOUS
  <2>9. AlikeTo(Merge(p, MapShard(B)), A \cup B)
    BY <2>5, <2>6, <2>7, <2>8, MergeAlike
  <2>. QED  BY <2>3, <2>4, <2>8, <2>9
<1>. HIDE DEF P
<1>5. n \in P
  BY <1>3, <1>4, NumberInduction
<1>6. AlikeTo(g[1 .. n], W(n))
  BY <1>5 DEF P
<1>. QED  BY <1>6, MergeAllUnfolds DEF g

----------------------------------------------------------------------------
(* 2. Detectors do not see how the aggregates came about.                   *)

(* Each detector reads its own part of a partial.                           *)
LEMMA SpikesSame ==
    ASSUME NEW p, NEW q, p.ip_minute = q.ip_minute
    PROVE  VolumeSpikes(p) = VolumeSpikes(q)
<1>1. /\ VolumeSpikes(p) = VolumeSpikes([ip_minute |-> p.ip_minute])
      /\ VolumeSpikes(q) = VolumeSpikes([ip_minute |-> q.ip_minute])
  BY DEF VolumeSpikes
<1>. QED  BY <1>1

(* Detectors that do not read the hosts, ...                                *)
LEMMA ExfilSame ==
    ASSUME NEW p, NEW q, p.user_host = q.user_host, p.req_byte_logs = q.req_byte_logs
    PROVE  DataExfil(p) = DataExfil(q)
<1>1. /\ DataExfil(p) = DataExfil([user_host |-> p.user_host,
                                   req_byte_logs |-> p.req_byte_logs])
      /\ DataExfil(q) = DataExfil([user_host |-> q.user_host,
                                   req_byte_logs |-> q.req_byte_logs])
  BY DEF DataExfil
<1>. QED  BY <1>1

LEMMA BeaconsSame ==
    ASSUME NEW p, NEW q, p.ip_host_times = q.ip_host_times
    PROVE  Beacons(p) = Beacons(q)
<1>1. /\ Beacons(p) = Beacons([ip_host_times |-> p.ip_host_times])
      /\ Beacons(q) = Beacons([ip_host_times |-> q.ip_host_times])
  BY DEF Beacons
<1>. QED  BY <1>1

LEMMA ThreatsSame ==
    ASSUME NEW p, NEW q, p.threats = q.threats
    PROVE  BlockedThreats(p) = BlockedThreats(q)
<1>1. /\ BlockedThreats(p) = BlockedThreats([threats |-> p.threats])
      /\ BlockedThreats(q) = BlockedThreats([threats |-> q.threats])
  BY DEF BlockedThreats
<1>. QED  BY <1>1

LEMMA OffHoursSame ==
    ASSUME NEW p, NEW q, p.hour_counts = q.hour_counts, p.hour_actors = q.hour_actors
    PROVE  OffHours(p) = OffHours(q)
<1>1. /\ OffHours(p) = OffHours([hour_counts |-> p.hour_counts, hour_actors |-> p.hour_actors])
      /\ OffHours(q) = OffHours([hour_counts |-> q.hour_counts, hour_actors |-> q.hour_actors])
  BY DEF OffHours, QuietActivity
<1>. QED  BY <1>1

(* A host is only reported where its urls are alike, too.                   *)
LEMMA DestinationsSame ==
    ASSUME NEW p, NEW q, AlikeHosts(p.hosts, q.hosts)
    PROVE  RareDestinations(p) = RareDestinations(q)
<1> DEFINE most(f) == Max({Cardinality(f[h].ids) : h \in DOMAIN f})
           rare(f) == {x \in DOMAIN f : /\ Cardinality(DOMAIN f) >= MinHosts
                                        /\ Cardinality(f[x].users) = 1
                                        /\ Cardinality(f[x].ids) <= RareHits}
           found(f, h) == Candidate("rare_destination", <<h>>,
               Score("rare_destination", <<most(f), Cardinality(f[h].ids)>>),
               f[h].ids, <<f[h].users, most(f), f[h].urls>>)
<1>1. PICK f, g : f = p.hosts /\ g = q.hosts
  OBVIOUS
<1>2. /\ RareDestinations(p) = {found(f, h) : h \in rare(f)}
      /\ RareDestinations(q) = {found(g, h) : h \in rare(g)}
  BY <1>1 DEF RareDestinations
<1>3. /\ DOMAIN f = DOMAIN g
      /\ \A h \in DOMAIN g :
            /\ f[h].ids = g[h].ids /\ f[h].users = g[h].users
            /\ Cardinality(g[h].ids) <= RareHits => f[h].urls = g[h].urls
  BY <1>1 DEF AlikeHosts
<1>4. {Cardinality(f[h].ids) : h \in DOMAIN f} = {Cardinality(g[h].ids) : h \in DOMAIN g}
  BY <1>3
<1>5. most(f) = most(g)
  BY <1>4, Zenon
<1>6. rare(f) = rare(g)
  BY <1>3
<1>7. \A h \in rare(g) : f[h].ids = g[h].ids /\ f[h].users = g[h].users /\ f[h].urls = g[h].urls
  BY <1>3
<1>. HIDE DEF most, rare
<1>8. \A h \in rare(g) : found(f, h) = found(g, h)
  BY <1>5, <1>7
<1>. HIDE DEF found
<1>9. {found(f, h) : h \in rare(f)} = {found(g, h) : h \in rare(g)}
  BY <1>6, <1>8
<1>. QED  BY <1>2, <1>9

(* Candidates in order.                                                     *)
Ordered(C) ==
    [n \in 1 .. Cardinality(C) |->
       CHOOSE c \in C : Quantify(C, LAMBDA d : Precedes(d, c)) = n - 1]

(* ... so the candidates and their order are the same.                      *)
LEMMA RankedSame ==
    ASSUME NEW p, NEW q, Alike(p, q)
    PROVE  Ranked(p) = Ranked(q)
<1>1. Scorers(p) = Scorers(q)
  <2>1. /\ VolumeSpikes(p) = VolumeSpikes(q) /\ DataExfil(p) = DataExfil(q)
        /\ Beacons(p) = Beacons(q) /\ BlockedThreats(p) = BlockedThreats(q)
        /\ RareDestinations(p) = RareDestinations(q) /\ OffHours(p) = OffHours(q)
    BY SpikesSame, ExfilSame, BeaconsSame, ThreatsSame, DestinationsSame, OffHoursSame
       DEF Alike
  <2>. QED  BY <2>1 DEF Scorers
<1>2. Found(p) = Found(q)
  BY <1>1, Zenon DEF Found
<1>3. Ranked(p) = Ordered(Found(p)) /\ Ranked(q) = Ordered(Found(q))
  BY DEF Ranked, Ordered
<1>. QED  BY <1>2, <1>3, Zenon

(* The hosts of quiet hours that are few are those of one pass.             *)
Listed(A, f) ==
    LET merged == {UNION {part[k] : k \in A}
                   : part \in {g \in [A -> UNION {Capped(f[k]) : k \in A}] :
                                 \A k \in A : g[k] \in Capped(f[k])}} IN
    {{h \in H : Quantify(H, LAMBDA g : g < h) < MaxHostsShown} : H \in merged}

LEMMA HostsSame ==
    ASSUME Rowset(Rows), NEW p, AlikeTo(p, Rows), NEW a, FewHosts(a)
    PROVE  HostsListed(p, a) = HostsListed(MapShard(Rows), a)
<1>1. PICK q : q = MapShard(Rows)
  OBVIOUS
<1> DEFINE A == {k \in QuietActivity(q) : k[2] = a}
<1>2. QuietActivity(p) = QuietActivity(q)
  BY <1>1 DEF QuietActivity, AlikeTo, Alike
<1>3. DOMAIN q.hour_actors = ActorHours(Rows)
  BY <1>1 DEF MapShard, ActorHours
<1>4. ASSUME NEW k \in A
      PROVE  p.actor_hosts[k] = q.actor_hosts[k]
  <2>1. k \in ActorHours(Rows) /\ k[2] = a
    BY <1>3 DEF QuietActivity
  <2>2. PICK x \in Timed(Rows) : k = <<HourOf(x), Actor(x)>>
    BY <2>1 DEF ActorHours
  <2>3. ActorRows(Rows, k) = {y \in Timed(Rows) : HourOf(y) = HourOf(x) /\ Actor(y) = a}
    BY <2>1, <2>2 DEF ActorRows
  <2>4. Cardinality(Present(ActorRows(Rows, k), "host")) <= MaxUrls
    BY <2>3 DEF FewHosts
  <2>5. AlikeActors(p.actor_hosts, Rows) /\ AlikeActors(q.actor_hosts, Rows)
    <3>1. Rows \in SUBSET Rows
      OBVIOUS
    <3>. QED  BY <1>1, <3>1, ActorHostsAre DEF AlikeTo
  <2>. QED  BY <2>1, <2>4, <2>5 DEF AlikeActors
<1>5. HostsListed(p, a) = Listed(A, p.actor_hosts)
  <2>1. HostsListed(p, a) = Listed({k \in QuietActivity(p) : k[2] = a}, p.actor_hosts)
    BY Zenon DEF HostsListed, Listed
  <2>. QED  BY <1>2, <2>1
<1>6. HostsListed(q, a) = Listed(A, q.actor_hosts)
  BY Zenon DEF HostsListed, Listed
<1>. HIDE DEF A
<1>7. PICK f, g : f = p.actor_hosts /\ g = q.actor_hosts
  OBVIOUS
<1>8. \A k \in A : Capped(f[k]) = Capped(g[k])
  BY <1>4, <1>7
<1>9. Listed(A, f) = Listed(A, g)
  <2>1. UNION {Capped(f[k]) : k \in A} = UNION {Capped(g[k]) : k \in A}
    BY <1>8
  <2>2. {h \in [A -> UNION {Capped(f[k]) : k \in A}] : \A k \in A : h[k] \in Capped(f[k])}
          = {h \in [A -> UNION {Capped(g[k]) : k \in A}] : \A k \in A : h[k] \in Capped(g[k])}
    <3>1. PICK W : W = UNION {Capped(g[k]) : k \in A}
      OBVIOUS
    <3>2. {h \in [A -> W] : \A k \in A : h[k] \in Capped(f[k])}
            = {h \in [A -> W] : \A k \in A : h[k] \in Capped(g[k])}
      BY <1>8
    <3>. QED  BY <2>1, <3>1, <3>2, Zenon
  <2>. QED  BY <2>2, Zenon DEF Listed
<1>. QED  BY <1>1, <1>5, <1>6, <1>7, <1>9, Zenon

----------------------------------------------------------------------------
(* 3. The shards of a file.                                                 *)

(* Arithmetic of the slices.                                                *)
LEMMA DivLaw ==
    ASSUME NEW a \in Nat, NEW b \in Nat \ {0}
    PROVE  /\ a \div b \in Nat
           /\ (a \div b) * b <= a
           /\ a < (a \div b + 1) * b
  OBVIOUS

LEMMA MaxOfTwo ==
    ASSUME NEW x \in Int, NEW y \in Int
    PROVE  Max({x, y}) \in {x, y} /\ Max({x, y}) >= x /\ Max({x, y}) >= y
  BY DEF Max

LEMMA MinOfTwo ==
    ASSUME NEW x \in Int, NEW y \in Int
    PROVE  Min({x, y}) \in {x, y} /\ Min({x, y}) <= x /\ Min({x, y}) <= y
  BY DEF Min

LEMMA ProductGrows ==
    ASSUME NEW a \in Int, NEW b \in Int, NEW c \in Nat, a <= b
    PROVE  a * c <= b * c
  OBVIOUS

(* The rows of a file, each with an id of its own.                          *)
LEMMA RowsAre ==
    ASSUME file \in Files
    PROVE  /\ file \in Seq(LogEntry) /\ Len(file) \in Nat /\ DOMAIN file = 1 .. Len(file)
           /\ \A i, j \in 1 .. Len(file) : i # j => file[i].id # file[j].id
           /\ Rows = {file[i] : i \in 1 .. Len(file)} /\ Rowset(Rows)
<1>1. file \in Seq(LogEntry) /\ Len(file) \in Nat /\ DOMAIN file = 1 .. Len(file)
  BY DetectionAssumption
<1>2. \A i, j \in 1 .. Len(file) : i # j => file[i].id # file[j].id
  <2>1. \A i, j \in 1 .. Len(file) : i < j => file[i].id < file[j].id
    BY <1>1, DetectionAssumption
  <2>2. \A i \in 1 .. Len(file) : file[i].id \in Nat
    <3>1. \A i \in 1 .. Len(file) : file[i] \in LogEntry
      BY <1>1
    <3>2. \A x \in LogEntry : x.id \in Nat
      BY DEF LogEntry
    <3>. QED  BY <3>1, <3>2
  <2>3. \A i, j \in 1 .. Len(file) : i < j \/ i = j \/ j < i
    OBVIOUS
  <2>. QED  BY <2>1, <2>2, <2>3
<1>3. Rows = {file[i] : i \in 1 .. Len(file)}
  BY <1>1 DEF Rows, ToSet
<1>4. Rows \subseteq LogEntry
  BY <1>1, <1>3
<1>5. IsFiniteSet(Rows)
  <2>1. PICK n, f : n = Len(file) /\ f = file
    OBVIOUS
  <2>2. IsFiniteSet(1 .. n)
    BY <1>1, <2>1, FS_Interval
  <2>3. IsFiniteSet({f[x] : x \in 1 .. n})
    BY <2>2, ImageOfFinite
  <2>. QED  BY <1>3, <2>1, <2>3
<1>. QED  BY <1>1, <1>2, <1>3, <1>4, <1>5 DEF Rowset

(* The shards of a file are its rows, each in one of them.                  *)
LEMMA SlicesPartition ==
    ASSUME file \in Files, NEW size \in Nat \ {0}, NEW n \in Nat,
           n = Max({1, (Len(file) + size - 1) \div size})
    PROVE  /\ n >= 1
           /\ \A s \in 1 .. n : Slice(size, s) \in SUBSET Rows
           /\ \A s, t \in 1 .. n : s # t => Slice(size, s) \cap Slice(size, t) = {}
           /\ UNION {Slice(size, s) : s \in 1 .. n} = Rows
<1>0. PICK f, L : f = file /\ L = Len(file)
  OBVIOUS
<1> DEFINE slice(s) == {f[i] : i \in (s - 1) * size + 1 .. Min({s * size, L})}
<1>1. /\ L \in Nat /\ DOMAIN f = 1 .. L /\ Rows = {f[i] : i \in 1 .. L}
      /\ \A i, j \in 1 .. L : f[i] = f[j] => i = j
  BY <1>0, RowsAre
<1>2. /\ (L + size - 1) \div size \in Nat
      /\ L + size - 1 < ((L + size - 1) \div size + 1) * size
  <2>1. PICK a \in Nat : a = L + size - 1
    BY <1>1
  <2>2. a \div size \in Nat /\ a < (a \div size + 1) * size
    BY DivLaw
  <2>. QED  BY <2>1, <2>2
<1>3. n >= 1 /\ n >= (L + size - 1) \div size
  <2>1. PICK d \in Nat : d = (L + size - 1) \div size
    BY <1>2
  <2>2. n = Max({1, d})
    BY <1>0, <2>1
  <2>3. Max({1, d}) >= 1 /\ Max({1, d}) >= d
    <3>1. \A x, y \in Int : Max({x, y}) >= x /\ Max({x, y}) >= y
      BY MaxOfTwo
    <3>2. 1 \in Int /\ d \in Int
      OBVIOUS
    <3>. QED  BY <3>1, <3>2, Zenon
  <2>. QED  BY <2>1, <2>2, <2>3
<1>4. L <= n * size
  <2>1. PICK d \in Nat : d = (L + size - 1) \div size
    BY <1>2
  <2>2. (d + 1) * size = d * size + size /\ d * size \in Nat /\ n * size \in Nat
    OBVIOUS
  <2>3. L <= d * size
    BY <1>1, <1>2, <2>1, <2>2
  <2>4. d * size <= n * size
    BY <1>3, <2>1, ProductGrows
  <2>. QED  BY <1>1, <2>2, <2>3, <2>4
<1>5. ASSUME NEW s \in 1 .. n, NEW i
      PROVE  i \in (s - 1) * size + 1 .. Min({s * size, L})
               <=> i \in 1 .. L /\ (s - 1) * size < i /\ i <= s * size
  <2>1. PICK a \in Nat, b \in Nat : a = s * size /\ b = (s - 1) * size
    OBVIOUS
  <2>2. Min({a, L}) \in {a, L} /\ Min({a, L}) <= a /\ Min({a, L}) <= L
    <3>1. \A x, y \in Int : Min({x, y}) \in {x, y} /\ Min({x, y}) <= x /\ Min({x, y}) <= y
      BY MinOfTwo
    <3>2. a \in Int /\ L \in Int
      BY <1>1
    <3>. QED  BY <3>1, <3>2, Zenon
  <2>3. PICK m \in Nat : m = Min({a, L})
    BY <1>1, <2>2
  <2>4. i \in b + 1 .. m <=> i \in 1 .. L /\ b < i /\ i <= a
    BY <1>1, <2>2, <2>3
  <2>. QED  BY <2>1, <2>3, <2>4
<1>6. \A s \in 1 .. n : \A x :
         x \in slice(s) <=> \E i \in 1 .. L : x = f[i] /\ (s - 1) * size < i /\ i <= s * size
  BY <1>5
<1>7. \A s \in 1 .. n : Slice(size, s) = slice(s)
  BY <1>0 DEF Slice
<1>. HIDE DEF slice
<1>8. ASSUME NEW s \in 1 .. n, NEW t \in 1 .. n, s < t
      PROVE  slice(s) \cap slice(t) = {}
  <2>1. s * size \in Nat /\ (t - 1) * size \in Nat /\ s * size <= (t - 1) * size
    BY <1>8, ProductGrows
  <2>. SUFFICES ASSUME NEW x \in slice(s), x \in slice(t)
                PROVE  FALSE
    OBVIOUS
  <2>2. PICK i \in 1 .. L : x = f[i] /\ i <= s * size
    BY <1>6, Zenon
  <2>3. PICK j \in 1 .. L : x = f[j] /\ (t - 1) * size < j
    BY <1>6, Zenon
  <2>4. i = j
    BY <1>1, <2>2, <2>3
  <2>. QED  BY <1>1, <2>1, <2>2, <2>3, <2>4
<1>9. \A s, t \in 1 .. n : s # t => slice(s) \cap slice(t) = {}
  <2>1. \A s, t \in 1 .. n : s # t => s < t \/ t < s
    OBVIOUS
  <2>. QED  BY <1>8, <2>1
<1>10. \A s \in 1 .. n : \A x \in slice(s) : x \in Rows
  <2>1. \A i \in 1 .. L : f[i] \in Rows
    BY <1>1
  <2>. SUFFICES ASSUME NEW s \in 1 .. n, NEW x \in slice(s)
                PROVE  x \in Rows
    OBVIOUS
  <2>2. \E i \in 1 .. L : x = f[i] /\ (s - 1) * size < i /\ i <= s * size
    BY <1>6, Zenon
  <2>3. PICK i \in 1 .. L : x = f[i]
    BY <2>2, Zenon
  <2>. QED  BY <2>1, <2>3
<1>11. ASSUME NEW i \in 1 .. L
       PROVE  \E s \in 1 .. n : f[i] \in slice(s)
  <2>1. PICK a \in Nat : a = i - 1
    BY <1>1
  <2>2. PICK d \in Nat : d * size <= a /\ a < (d + 1) * size
    BY DivLaw
  <2>3. d + 1 \in 1 .. n
    <3>1. CASE d + 1 <= n
      BY <3>1
    <3>2. CASE n <= d
      <4>1. n * size <= d * size
        BY <3>2, ProductGrows
      <4>2. n * size \in Nat /\ d * size \in Nat
        OBVIOUS
      <4>. QED  BY <1>1, <1>4, <2>1, <2>2, <4>1, <4>2
    <3>. QED  BY <3>1, <3>2
  <2>4. (d + 1 - 1) * size < i /\ i <= (d + 1) * size
    <3>1. d * size \in Nat /\ (d + 1) * size \in Nat /\ d + 1 - 1 = d
      OBVIOUS
    <3>. QED  BY <1>1, <2>1, <2>2, <3>1
  <2>5. PICK s \in 1 .. n : s = d + 1
    BY <2>3
  <2>6. (s - 1) * size < i /\ i <= s * size
    BY <2>4, <2>5
  <2>7. f[i] \in slice(s)
    BY <1>6, <2>6, Zenon
  <2>. QED  BY <2>7
<1>12. \A x \in Rows : \E s \in 1 .. n : x \in slice(s)
  <2>. SUFFICES ASSUME NEW x \in Rows
                PROVE  \E s \in 1 .. n : x \in slice(s)
    OBVIOUS
  <2>1. PICK i \in 1 .. L : x = f[i]
    BY <1>1
  <2>. QED  BY <1>11, <2>1
<1>13. UNION {Slice(size, s) : s \in 1 .. n} = Rows
  BY <1>7, <1>10, <1>12
<1>14. \A s \in 1 .. n : Slice(size, s) \in SUBSET Rows
  BY <1>7, <1>10
<1>15. \A s, t \in 1 .. n : s # t => Slice(size, s) \cap Slice(size, t) = {}
  BY <1>7, <1>9
<1>. QED  BY <1>3, <1>13, <1>14, <1>15

LEMMA LenOfTable ==
    ASSUME NEW n \in Nat, NEW q, q = [i \in 1 .. n |-> q[i]]
    PROVE  Len(q) = n /\ DOMAIN q = 1 .. n
<1>1. q \in Seq({q[i] : i \in 1 .. n}) /\ DOMAIN q = 1 .. n
  OBVIOUS
<1>2. Len(q) \in Nat /\ DOMAIN q = 1 .. Len(q)
  BY <1>1
<1>. QED  BY <1>1, <1>2

(* The partials of the shards of one size.                                  *)
Count(size) == Max({1, (Len(file) + size - 1) \div size})
ShardsOf(size) == [s \in 1 .. Count(size) |-> MapShard(Slice(size, s))]

LEMMA CountIsNat ==
    ASSUME file \in Files, NEW size \in Nat \ {0}
    PROVE  Count(size) \in Nat
<1>0. Len(file) \in Nat
  BY RowsAre, Zenon
<1>1. PICK a \in Nat : a = Len(file) + size - 1
  <2>1. PICK l \in Nat : l = Len(file)
    BY <1>0
  <2>2. l + size - 1 \in Nat
    OBVIOUS
  <2>. QED  BY <2>1, <2>2
<1>2. PICK d \in Nat : d = a \div size
  BY DivLaw
<1>3. Max({1, d}) \in {1, d}
  <2>1. \A x, y \in Int : Max({x, y}) \in {x, y}
    BY MaxOfTwo
  <2>2. 1 \in Int /\ d \in Int
    OBVIOUS
  <2>. QED  BY <2>1, <2>2, Zenon
<1>4. Count(size) = Max({1, d})
  BY <1>1, <1>2 DEF Count
<1>. QED  BY <1>3, <1>4

(* Merged in either order, the shards of a file are alike to all of it.     *)
LEMMA ShardsMerge ==
    ASSUME file \in Files, NEW size \in Nat \ {0}
    PROVE  /\ AlikeTo(MergeAll(ShardsOf(size)), Rows)
           /\ AlikeTo(MergeAll(Reverse(ShardsOf(size))), Rows)
<1>1. PICK n \in Nat : n = Count(size)
  BY CountIsNat
<1>2. PICK part : part = [s \in 1 .. n |-> Slice(size, s)]
  OBVIOUS
<1>3. PICK U : U = Rows
  OBVIOUS
<1>4. /\ \A s \in 1 .. n : Slice(size, s) \in SUBSET Rows
      /\ \A s, t \in 1 .. n : s # t => Slice(size, s) \cap Slice(size, t) = {}
      /\ UNION {Slice(size, s) : s \in 1 .. n} = Rows
  <2>1. n = Max({1, (Len(file) + size - 1) \div size})
    BY <1>1 DEF Count
  <2>. QED  BY <2>1, SlicesPartition
<1>5. /\ \A s \in 1 .. n : part[s] \in SUBSET U
      /\ \A s, t \in 1 .. n : s # t => part[s] \cap part[t] = {}
  BY <1>2, <1>3, <1>4
<1>6. UNION {part[s] : s \in 1 .. n} = U
  <2>1. {part[s] : s \in 1 .. n} = {Slice(size, s) : s \in 1 .. n}
    BY <1>2
  <2>. QED  BY <1>3, <1>4, <2>1
<1>7. Rowset(U)
  BY <1>3, RowsAre
<1>8. PICK q : q = ShardsOf(size)
  OBVIOUS
<1>9. q = [s \in 1 .. n |-> MapShard(part[s])]
  BY <1>1, <1>2, <1>8 DEF ShardsOf
<1>10. Len(q) = n /\ DOMAIN q = 1 .. n /\ \A s \in 1 .. n : q[s] = MapShard(part[s])
  <2>1. q = [s \in 1 .. n |-> q[s]] /\ \A s \in 1 .. n : q[s] = MapShard(part[s])
    BY <1>9
  <2>. QED  BY <2>1, LenOfTable
<1>11. AlikeTo(MergeAll(q), UNION {part[s] : s \in 1 .. n})
  BY <1>5, <1>7, <1>10, MergeAllAlike
<1>12. PICK back : back = [s \in 1 .. n |-> part[(n - s) + 1]]
  OBVIOUS
<1>13. \A s \in 1 .. n : (n - s) + 1 \in 1 .. n /\ n - ((n - s) + 1) + 1 = s
  OBVIOUS
<1>14. /\ DOMAIN Reverse(q) = 1 .. n
       /\ \A s \in 1 .. n : back[s] \in SUBSET U /\ Reverse(q)[s] = MapShard(back[s])
  BY <1>5, <1>10, <1>12, <1>13 DEF Reverse
<1>15. \A s, t \in 1 .. n : s # t => back[s] \cap back[t] = {}
  <2>. SUFFICES ASSUME NEW s \in 1 .. n, NEW t \in 1 .. n, s # t
                PROVE  back[s] \cap back[t] = {}
    OBVIOUS
  <2>1. /\ (n - s) + 1 \in 1 .. n /\ (n - t) + 1 \in 1 .. n /\ (n - s) + 1 # (n - t) + 1
    OBVIOUS
  <2>2. back[s] = part[(n - s) + 1] /\ back[t] = part[(n - t) + 1]
    BY <1>12
  <2>. QED  BY <1>5, <2>1, <2>2
<1>16. {back[s] : s \in 1 .. n} = {part[s] : s \in 1 .. n}
  <2>1. \A s \in 1 .. n : back[s] \in {part[t] : t \in 1 .. n}
    BY <1>12, <1>13
  <2>2. ASSUME NEW s \in 1 .. n
        PROVE  part[s] \in {back[t] : t \in 1 .. n}
    <3>1. PICK t \in 1 .. n : t = (n - s) + 1
      BY <1>13
    <3>2. (n - t) + 1 = s
      BY <3>1
    <3>3. back[t] = part[s]
      BY <1>12, <3>2
    <3>. QED  BY <3>3
  <2>. QED  BY <2>1, <2>2
<1>17. AlikeTo(MergeAll(Reverse(q)), UNION {back[s] : s \in 1 .. n})
  <2>1. PICK r : r = Reverse(q)
    OBVIOUS
  <2>2. DOMAIN r = 1 .. n /\ \A s \in 1 .. n : back[s] \in SUBSET U /\ r[s] = MapShard(back[s])
    BY <1>14, <2>1
  <2>3. AlikeTo(MergeAll(r), UNION {back[s] : s \in 1 .. n})
    BY <1>7, <1>15, <2>2, MergeAllAlike
  <2>. QED  BY <2>1, <2>3
<1>18. /\ AlikeTo(MergeAll(q), U) /\ AlikeTo(MergeAll(Reverse(q)), U)
  BY <1>6, <1>11, <1>16, <1>17, Zenon
<1>. QED  BY <1>3, <1>8, <1>18

----------------------------------------------------------------------------
(* 4. Ranks in an order, and keys that order candidates.                    *)

(* Ranks in a finite strict total order.                                    *)
Orders(lt, C) ==
    /\ \A c \in C : <<c, c>> \notin lt
    /\ \A c, d, e \in C : <<c, d>> \in lt /\ <<d, e>> \in lt => <<c, e>> \in lt
    /\ \A c, d \in C : c # d => <<c, d>> \in lt \/ <<d, c>> \in lt
Rank(lt, C, c) == Cardinality({d \in C : <<d, c>> \in lt})

(* Ranks are numbers below the count, no two the same ...                   *)
LEMMA RanksDiffer ==
    ASSUME NEW C, IsFiniteSet(C), NEW lt, Orders(lt, C)
    PROVE  /\ \A c \in C : Rank(lt, C, c) \in 0 .. Cardinality(C) - 1
           /\ \A c, d \in C : c # d => Rank(lt, C, c) # Rank(lt, C, d)
<1> DEFINE below(c) == {d \in C : <<d, c>> \in lt}
<1>1. \A c \in C : IsFiniteSet(below(c)) /\ Cardinality(below(c)) \in Nat
  <2>1. \A c \in C : below(c) \in SUBSET C
    OBVIOUS
  <2>2. \A s \in SUBSET C : IsFiniteSet(s) /\ Cardinality(s) \in Nat
    BY FS_Subset, FS_CardinalityType
  <2>. QED  BY <2>1, <2>2
<1>2. \A c \in C : c \notin below(c) /\ below(c) \subseteq C
  BY DEF Orders
<1>3. \A c, d \in C : <<c, d>> \in lt => c \in below(d) /\ below(c) \subseteq below(d)
  BY DEF Orders
<1>4. \A c, d \in C : c # d => <<c, d>> \in lt \/ <<d, c>> \in lt
  BY DEF Orders
<1>5. \A c \in C : Rank(lt, C, c) = Cardinality(below(c))
  BY DEF Rank
<1>. HIDE DEF below
<1>6. ASSUME NEW c \in C, NEW D, IsFiniteSet(D), below(c) \subseteq D, c \in D
      PROVE  Cardinality(below(c)) < Cardinality(D)
  <2>1. below(c) \in SUBSET D /\ below(c) # D
    BY <1>2, <1>6
  <2>2. /\ Cardinality(below(c)) <= Cardinality(D)
        /\ Cardinality(D) = Cardinality(below(c)) => D = below(c)
    BY <1>6, <2>1, FS_Subset
  <2>3. Cardinality(D) \in Nat
    BY <1>6, FS_CardinalityType
  <2>. QED  BY <1>1, <2>1, <2>2, <2>3
<1>7. ASSUME NEW c \in C
      PROVE  Rank(lt, C, c) \in 0 .. Cardinality(C) - 1
  <2>1. Cardinality(below(c)) < Cardinality(C)
    BY <1>2, <1>6
  <2>2. Cardinality(C) \in Nat
    BY FS_CardinalityType
  <2>. QED  BY <1>1, <1>5, <2>1, <2>2
<1>8. ASSUME NEW c \in C, NEW d \in C, <<c, d>> \in lt
      PROVE  Rank(lt, C, c) # Rank(lt, C, d)
  <2>1. Cardinality(below(c)) < Cardinality(below(d))
    BY <1>1, <1>3, <1>6, <1>8
  <2>. QED  BY <1>1, <1>5, <2>1
<1>. QED  BY <1>4, <1>7, <1>8

(* ... and every number below the count is one.                             *)
LEMMA RanksCover ==
    ASSUME NEW C, IsFiniteSet(C), NEW lt, Orders(lt, C)
    PROVE  \A n \in 0 .. Cardinality(C) - 1 : \E c \in C : Rank(lt, C, c) = n
<1> DEFINE n == Cardinality(C)
           N == 0 .. n - 1
           f == [c \in C |-> Rank(lt, C, c)]
<1>1. n \in Nat
  BY FS_CardinalityType
<1>2. IsFiniteSet(N) /\ Cardinality(N) = n
  BY <1>1, FS_Interval
<1>3. f \in Injection(C, N)
  BY RanksDiffer DEF Injection, IsInjective
<1>4. f \in Surjection(C, N)
  <2>. HIDE DEF f, N
  <2>. QED  BY <1>2, <1>3, FS_Injection
<1>. QED  BY <1>4 DEF Surjection

(* As many come first as are asked for, or all.                             *)
LEMMA FirstCount ==
    ASSUME NEW C, IsFiniteSet(C), NEW lt, Orders(lt, C), NEW m \in Nat,
           NEW T, T = {c \in C : Rank(lt, C, c) < m}
    PROVE  /\ IsFiniteSet(T) /\ Cardinality(T) <= m
           /\ T # C => Cardinality(T) = m
<1> DEFINE M == 0 .. m - 1
           f == [c \in T |-> Rank(lt, C, c)]
<1>1. IsFiniteSet(M) /\ Cardinality(M) = m
  BY FS_Interval
<1>2. f \in Injection(T, M)
  BY RanksDiffer DEF Injection, IsInjective
<1>3. T # C => f \in Surjection(T, M)
  <2>. SUFFICES ASSUME NEW c \in C, Rank(lt, C, c) >= m, NEW k \in M
                PROVE  \E d \in T : f[d] = k
    BY <1>2, RanksDiffer DEF Surjection, Injection
  <2>1. k \in 0 .. Cardinality(C) - 1
    <3>1. Rank(lt, C, c) \in 0 .. Cardinality(C) - 1 /\ Cardinality(C) \in Nat
      BY RanksDiffer, FS_CardinalityType
    <3>. QED  BY <3>1
  <2>2. PICK d \in C : Rank(lt, C, d) = k
    BY <2>1, RanksCover
  <2>. QED  BY <2>2
<1>. HIDE DEF f, M
<1>. QED  BY <1>1, <1>2, <1>3, FS_Injection

(* Keys of one name or two; KeyBefore orders each sort.                     *)
Single(s) == \E a \in Nat : s = <<a>>
Double(s) == \E a, b \in Nat : s = <<a, b>>
OneSort(K) == (\A s \in K : Single(s)) \/ (\A s \in K : Double(s))

(* KeyBefore orders names ...                                               *)
LEMMA SinglesOrdered ==
    ASSUME NEW a \in Nat, NEW b \in Nat
    PROVE  KeyBefore(<<a>>, <<b>>) <=> a < b
<1>1. PICK s, t : s = <<a>> /\ t = <<b>>
  OBVIOUS
<1>2. DOMAIN s = {1} /\ s[1] = a /\ t[1] = b
  BY <1>1
<1>3. KeyBefore(s, t) <=> s[1] < t[1] /\ \A j \in 1 .. 1 - 1 : s[j] = t[j]
  BY <1>2 DEF KeyBefore
<1>. QED  BY <1>1, <1>2, <1>3

(* ... and pairs of names.                                                  *)
LEMMA DoublesOrdered ==
    ASSUME NEW a \in Nat, NEW b \in Nat, NEW c \in Nat, NEW d \in Nat
    PROVE  KeyBefore(<<a, b>>, <<c, d>>) <=> a < c \/ (a = c /\ b < d)
<1>1. PICK s, t : s = <<a, b>> /\ t = <<c, d>>
  OBVIOUS
<1>2. DOMAIN s = {1, 2} /\ s[1] = a /\ t[1] = c /\ s[2] = b /\ t[2] = d
  BY <1>1
<1>3. KeyBefore(s, t) <=> \/ s[1] < t[1] /\ \A j \in 1 .. 1 - 1 : s[j] = t[j]
                          \/ s[2] < t[2] /\ \A j \in 1 .. 2 - 1 : s[j] = t[j]
  BY <1>2 DEF KeyBefore
<1>. QED  BY <1>1, <1>2, <1>3

LEMMA KeysOrdered ==
    ASSUME NEW K, OneSort(K)
    PROVE  /\ \A s \in K : ~KeyBefore(s, s)
           /\ \A s, t, u \in K : KeyBefore(s, t) /\ KeyBefore(t, u) => KeyBefore(s, u)
           /\ \A s, t \in K : s # t => KeyBefore(s, t) \/ KeyBefore(t, s)
<1>1. CASE \A s \in K : Single(s)
  <2>1. \A s \in K : \E a \in Nat : s = <<a>>
    BY <1>1 DEF Single
  <2>2. \A a, b \in Nat : KeyBefore(<<a>>, <<b>>) <=> a < b
    BY SinglesOrdered
  <2>3. \A s \in K : ~KeyBefore(s, s)
    BY <2>1, <2>2
  <2>4. ASSUME NEW s \in K, NEW t \in K, NEW u \in K, KeyBefore(s, t), KeyBefore(t, u)
        PROVE  KeyBefore(s, u)
    <3>1. PICK a \in Nat : s = <<a>>
      BY <2>1
    <3>2. PICK b \in Nat : t = <<b>>
      BY <2>1
    <3>3. PICK c \in Nat : u = <<c>>
      BY <2>1
    <3>. QED  BY <2>2, <2>4, <3>1, <3>2, <3>3
  <2>5. ASSUME NEW s \in K, NEW t \in K, s # t
        PROVE  KeyBefore(s, t) \/ KeyBefore(t, s)
    <3>1. PICK a \in Nat : s = <<a>>
      BY <2>1
    <3>2. PICK b \in Nat : t = <<b>>
      BY <2>1
    <3>3. a < b \/ b < a
      BY <2>5, <3>1, <3>2
    <3>. QED  BY <2>2, <3>1, <3>2, <3>3
  <2>. QED  BY <2>3, <2>4, <2>5
<1>2. CASE \A s \in K : Double(s)
  <2>1. \A s \in K : \E a, b \in Nat : s = <<a, b>>
    BY <1>2 DEF Double
  <2>2. \A a, b, c, d \in Nat : KeyBefore(<<a, b>>, <<c, d>>) <=> a < c \/ (a = c /\ b < d)
    BY DoublesOrdered
  <2>3. \A s \in K : ~KeyBefore(s, s)
    BY <2>1, <2>2
  <2>4. ASSUME NEW s \in K, NEW t \in K, NEW u \in K, KeyBefore(s, t), KeyBefore(t, u)
        PROVE  KeyBefore(s, u)
    <3>1. PICK a \in Nat, b \in Nat : s = <<a, b>>
      BY <2>1
    <3>2. PICK c \in Nat, d \in Nat : t = <<c, d>>
      BY <2>1
    <3>3. PICK e \in Nat, f \in Nat : u = <<e, f>>
      BY <2>1
    <3>4. (a < c \/ (a = c /\ b < d)) /\ (c < e \/ (c = e /\ d < f))
      BY <2>2, <2>4, <3>1, <3>2, <3>3
    <3>5. a < e \/ (a = e /\ b < f)
      BY <3>4
    <3>. QED  BY <2>2, <3>1, <3>3, <3>5
  <2>5. ASSUME NEW s \in K, NEW t \in K, s # t
        PROVE  KeyBefore(s, t) \/ KeyBefore(t, s)
    <3>1. PICK a \in Nat, b \in Nat : s = <<a, b>>
      BY <2>1
    <3>2. PICK c \in Nat, d \in Nat : t = <<c, d>>
      BY <2>1
    <3>3. a < c \/ (a = c /\ b < d) \/ c < a \/ (c = a /\ d < b)
      BY <2>5, <3>1, <3>2
    <3>. QED  BY <2>2, <3>1, <3>2, <3>3
  <2>. QED  BY <2>3, <2>4, <2>5
<1>. QED  BY <1>1, <1>2 DEF OneSort

(* Candidates a detector can order.                                         *)
Keyed(C) ==
    /\ \A c \in C : c.score \in Nat
    /\ OneSort({c.key : c \in C})
    /\ \A c, d \in C : c.key = d.key => c = d

Worse(C) == {e \in C \X C : Before(e[1], e[2])}
Later(C) == {e \in C \X C : Precedes(e[1], e[2])}

(* _top orders the candidates of a detector: no two have one title.         *)
LEMMA BeforeOrders ==
    ASSUME NEW C, Keyed(C)
    PROVE  Orders(Worse(C), C)
<1>1. \A c, d : <<c, d>> \in Worse(C) <=> c \in C /\ d \in C /\ Before(c, d)
  BY DEF Worse
<1>2. \A c, d : Before(c, d) <=>
         c.score > d.score \/ (c.score = d.score /\ KeyBefore(c.key, d.key))
  BY DEF Before
<1>3. \A c \in C : c.score \in Nat /\ c.key \in {x.key : x \in C}
  BY DEF Keyed
<1>4. PICK K : K = {x.key : x \in C}
  OBVIOUS
<1>5. OneSort(K)
  BY <1>4 DEF Keyed
<1>6. /\ \A s \in K : ~KeyBefore(s, s)
      /\ \A s, t, u \in K : KeyBefore(s, t) /\ KeyBefore(t, u) => KeyBefore(s, u)
      /\ \A s, t \in K : s # t => KeyBefore(s, t) \/ KeyBefore(t, s)
  BY <1>5, KeysOrdered
<1>7. \A c \in C : c.score \in Nat /\ c.key \in K
  BY <1>3, <1>4
<1>8. \A c, d \in C : c.key = d.key => c = d
  BY DEF Keyed
<1>9. \A c \in C : ~Before(c, c)
  BY <1>2, <1>6, <1>7
<1>10. \A c, d, e \in C : Before(c, d) /\ Before(d, e) => Before(c, e)
  BY <1>2, <1>6, <1>7
<1>11. \A c, d \in C : c # d => Before(c, d) \/ Before(d, c)
  <2>. SUFFICES ASSUME NEW c \in C, NEW d \in C, c # d
                PROVE  Before(c, d) \/ Before(d, c)
    OBVIOUS
  <2>1. KeyBefore(c.key, d.key) \/ KeyBefore(d.key, c.key)
    BY <1>6, <1>7, <1>8
  <2>2. c.score > d.score \/ c.score = d.score \/ d.score > c.score
    BY <1>7
  <2>. QED  BY <1>2, <2>1, <2>2
<1>. QED  BY <1>1, <1>9, <1>10, <1>11 DEF Orders

(* score orders the candidates of all detectors.                            *)
LEMMA PrecedesOrders ==
    ASSUME NEW C, \A c \in C : c.kind \in {Kinds[i] : i \in DOMAIN Kinds},
           \A k : Keyed({c \in C : c.kind = k})
    PROVE  Orders(Later(C), C)
<1>1. \A c, d : <<c, d>> \in Later(C) <=> c \in C /\ d \in C /\ Precedes(c, d)
  BY DEF Later
<1>2. \A c, d : Precedes(c, d) <=>
         \/ c.score > d.score
         \/ c.score = d.score /\ KindRank(c) < KindRank(d)
         \/ c.score = d.score /\ KindRank(c) = KindRank(d) /\ KeyBefore(c.key, d.key)
  BY Zenon DEF Precedes
<1>3. \A c \in C : KindRank(c) \in Nat /\ Kinds[KindRank(c)] = c.kind
  <2>. SUFFICES ASSUME NEW c \in C
                PROVE  KindRank(c) \in Nat /\ Kinds[KindRank(c)] = c.kind
    OBVIOUS
  <2>1. \E i \in DOMAIN Kinds : Kinds[i] = c.kind
    OBVIOUS
  <2>2. KindRank(c) \in DOMAIN Kinds /\ Kinds[KindRank(c)] = c.kind
    BY <2>1 DEF KindRank
  <2>3. DOMAIN Kinds \subseteq Nat
    BY DEF Kinds
  <2>. QED  BY <2>2, <2>3
<1>4. \A c \in C : c.score \in Nat
  <2>. SUFFICES ASSUME NEW c \in C
                PROVE  c.score \in Nat
    OBVIOUS
  <2>1. Keyed({x \in C : x.kind = c.kind})
    OBVIOUS
  <2>. QED  BY <2>1 DEF Keyed
<1>5. \A c, d \in C : KindRank(c) = KindRank(d) => c.kind = d.kind
  BY <1>3
<1>6. ASSUME NEW k
      PROVE  LET D == {x \in C : x.kind = k} IN
             /\ \A c \in D : ~KeyBefore(c.key, c.key)
             /\ \A c, d, e \in D : KeyBefore(c.key, d.key) /\ KeyBefore(d.key, e.key)
                                    => KeyBefore(c.key, e.key)
             /\ \A c, d \in D : c # d => KeyBefore(c.key, d.key) \/ KeyBefore(d.key, c.key)
  <2>1. PICK D : D = {x \in C : x.kind = k}
    OBVIOUS
  <2>2. PICK K : K = {x.key : x \in D}
    OBVIOUS
  <2>3. OneSort(K) /\ \A x, y \in D : x.key = y.key => x = y
    <3>1. Keyed(D)
      BY <2>1
    <3>. QED  BY <2>2, <3>1 DEF Keyed
  <2>4. /\ \A s \in K : ~KeyBefore(s, s)
        /\ \A s, t, u \in K : KeyBefore(s, t) /\ KeyBefore(t, u) => KeyBefore(s, u)
        /\ \A s, t \in K : s # t => KeyBefore(s, t) \/ KeyBefore(t, s)
    BY <2>3, KeysOrdered
  <2>5. \A x \in D : x.key \in K
    BY <2>2
  <2>6. /\ \A c \in D : ~KeyBefore(c.key, c.key)
        /\ \A c, d, e \in D : KeyBefore(c.key, d.key) /\ KeyBefore(d.key, e.key)
                               => KeyBefore(c.key, e.key)
    BY <2>4, <2>5
  <2>7. \A c, d \in D : c # d => KeyBefore(c.key, d.key) \/ KeyBefore(d.key, c.key)
    BY <2>3, <2>4, <2>5
  <2>. QED  BY <2>1, <2>6, <2>7
<1>7. \A c \in C : ~Precedes(c, c)
  <2>. SUFFICES ASSUME NEW c \in C
                PROVE  ~Precedes(c, c)
    OBVIOUS
  <2>1. ~KeyBefore(c.key, c.key)
    BY <1>6
  <2>. QED  BY <1>2, <1>3, <1>4, <2>1
<1>8. \A c, d, e \in C : Precedes(c, d) /\ Precedes(d, e) => Precedes(c, e)
  <2>. SUFFICES ASSUME NEW c \in C, NEW d \in C, NEW e \in C, Precedes(c, d), Precedes(d, e)
                PROVE  Precedes(c, e)
    OBVIOUS
  <2>1. /\ c.score \in Nat /\ d.score \in Nat /\ e.score \in Nat
        /\ KindRank(c) \in Nat /\ KindRank(d) \in Nat /\ KindRank(e) \in Nat
    BY <1>3, <1>4
  <2>2. (/\ KindRank(c) = KindRank(d) /\ KindRank(d) = KindRank(e)
         /\ KeyBefore(c.key, d.key) /\ KeyBefore(d.key, e.key))
          => KeyBefore(c.key, e.key)
    <3>1. PICK D : D = {x \in C : x.kind = c.kind}
      OBVIOUS
    <3>2. \A x, y, z \in D : KeyBefore(x.key, y.key) /\ KeyBefore(y.key, z.key)
                             => KeyBefore(x.key, z.key)
      BY <1>6, <3>1
    <3>3. KindRank(c) = KindRank(d) /\ KindRank(d) = KindRank(e) => {c, d, e} \subseteq D
      BY <1>5, <3>1
    <3>. QED  BY <3>2, <3>3
  <2>. QED  BY <1>2, <2>1, <2>2
<1>9. \A c, d \in C : c # d => Precedes(c, d) \/ Precedes(d, c)
  <2>. SUFFICES ASSUME NEW c \in C, NEW d \in C, c # d
                PROVE  Precedes(c, d) \/ Precedes(d, c)
    OBVIOUS
  <2>1. /\ c.score \in Nat /\ d.score \in Nat
        /\ KindRank(c) \in Nat /\ KindRank(d) \in Nat
    BY <1>3, <1>4
  <2>2. KindRank(c) = KindRank(d) => KeyBefore(c.key, d.key) \/ KeyBefore(d.key, c.key)
    <3>1. PICK D : D = {x \in C : x.kind = c.kind}
      OBVIOUS
    <3>2. \A x, y \in D : x # y => KeyBefore(x.key, y.key) \/ KeyBefore(y.key, x.key)
      BY <1>6, <3>1
    <3>3. KindRank(c) = KindRank(d) => {c, d} \subseteq D
      BY <1>5, <3>1
    <3>. QED  BY <3>2, <3>3
  <2>. QED  BY <1>2, <2>1, <2>2
<1>. QED  BY <1>1, <1>7, <1>8, <1>9 DEF Orders

----------------------------------------------------------------------------
(* What the aggregates of a set of rows are.                                *)

(* The keys of the maps of a partial and the rows of a key.                 *)
MinuteKey(x) == <<x.client_ip, MinuteOf(x)>>
PairKey(x) == <<OrUnknown(x.username), OrUnknown(x.host)>>
VisitKey(x) == <<x.client_ip, x.host>>
ThreatKey(x) == <<x.threat_name, OrUnknown(x.host)>>
HostKey(x) == x.host
ActorKey(x) == <<HourOf(x), Actor(x)>>

Burst(U, k) == {x \in Located(U) : MinuteKey(x) = k}
Transfer(U, k) == {x \in Sized(U) : PairKey(x) = k}
Poll(U, k) == {x \in Visits(U) : VisitKey(x) = k}
Threat(U, k) == {x \in Threats(U) : ThreatKey(x) = k}
InHourOf(U, h) == {x \in Timed(U) : HourOf(x) = h}
Activity(U, k) == {x \in Timed(U) : ActorKey(x) = k}

LEMMA PartsOf ==
    ASSUME NEW U
    PROVE  /\ Timed(U) \in SUBSET U /\ Located(U) \in SUBSET U /\ Visits(U) \in SUBSET U
           /\ Threats(U) \in SUBSET U /\ Hosted(U) \in SUBSET U /\ Sized(U) \in SUBSET U
  BY DEF Timed, Located, Visits, Threats, Hosted, Sized

(* Each map of a partial of U has the keys of the rows it is about, with    *)
(* each key what its rows aggregate to.                                     *)
LEMMA MinutesAre ==
    ASSUME NEW U, Rowset(U), NEW m, m = MapShard(U).ip_minute
    PROVE  /\ IsFiniteSet(DOMAIN m)
           /\ \A k : k \in DOMAIN m <=> \E x \in Located(U) : k = MinuteKey(x)
           /\ \A k \in DOMAIN m : m[k] = Ids(Burst(U, k)) /\ Burst(U, k) # {}
           /\ \A k : Burst(U, k) \in SUBSET U
<1>1. m = [k \in {MinuteKey(x) : x \in Located(U)} |-> Ids(Burst(U, k))]
  BY DEF MapShard, Timed, Located, Burst, MinuteKey
<1>2. IsFiniteSet({MinuteKey(x) : x \in Located(U)})
  <2>1. PICK L : L = Located(U)
    OBVIOUS
  <2>2. IsFiniteSet(L)
    BY <2>1, PartsOf, RowsetParts
  <2>3. PICK f : f = [x \in L |-> MinuteKey(x)]
    OBVIOUS
  <2>4. {MinuteKey(x) : x \in L} = {f[x] : x \in L}
    BY <2>3
  <2>5. IsFiniteSet({f[x] : x \in L})
    BY <2>2, ImageOfFinite
  <2>. QED  BY <2>1, <2>4, <2>5
<1>3. \A k : Burst(U, k) \in SUBSET U
  BY PartsOf DEF Burst
<1>4. /\ DOMAIN m = {MinuteKey(x) : x \in Located(U)}
      /\ \A k \in DOMAIN m : m[k] = Ids(Burst(U, k))
  BY <1>1
<1>5. \A k \in DOMAIN m : Burst(U, k) # {}
  BY <1>4 DEF Burst
<1>. QED  BY <1>2, <1>3, <1>4, <1>5

LEMMA PairsAre ==
    ASSUME NEW U, Rowset(U), NEW m, m = MapShard(U).user_host
    PROVE  /\ IsFiniteSet(DOMAIN m)
           /\ \A k : k \in DOMAIN m <=> \E x \in Sized(U) : k = PairKey(x)
           /\ \A k \in DOMAIN m : m[k] = ByteGroup(Transfer(U, k)) /\ Transfer(U, k) # {}
           /\ \A k : Transfer(U, k) \in SUBSET U
<1>1. m = [k \in {PairKey(x) : x \in Sized(U)} |-> ByteGroup(Transfer(U, k))]
  BY DEF MapShard, Sized, Transfer, PairKey
<1>2. IsFiniteSet({PairKey(x) : x \in Sized(U)})
  <2>1. PICK L : L = Sized(U)
    OBVIOUS
  <2>2. IsFiniteSet(L)
    BY <2>1, PartsOf, RowsetParts
  <2>3. PICK f : f = [x \in L |-> PairKey(x)]
    OBVIOUS
  <2>4. {PairKey(x) : x \in L} = {f[x] : x \in L}
    BY <2>3
  <2>5. IsFiniteSet({f[x] : x \in L})
    BY <2>2, ImageOfFinite
  <2>. QED  BY <2>1, <2>4, <2>5
<1>3. \A k : Transfer(U, k) \in SUBSET U
  BY PartsOf DEF Transfer
<1>4. /\ DOMAIN m = {PairKey(x) : x \in Sized(U)}
      /\ \A k \in DOMAIN m : m[k] = ByteGroup(Transfer(U, k))
  BY <1>1
<1>5. \A k \in DOMAIN m : Transfer(U, k) # {}
  BY <1>4 DEF Transfer
<1>. QED  BY <1>2, <1>3, <1>4, <1>5

LEMMA PollsAre ==
    ASSUME NEW U, Rowset(U), NEW m, m = MapShard(U).ip_host_times
    PROVE  /\ IsFiniteSet(DOMAIN m)
           /\ \A k : k \in DOMAIN m <=> \E x \in Visits(U) : k = VisitKey(x)
           /\ \A k \in DOMAIN m : m[k] = Times(Poll(U, k)) /\ Poll(U, k) # {}
           /\ \A k : Poll(U, k) \in SUBSET U
<1>1. m = [k \in {VisitKey(x) : x \in Visits(U)} |-> Times(Poll(U, k))]
  BY DEF MapShard, Timed, Located, Visits, Times, Poll, VisitKey
<1>2. IsFiniteSet({VisitKey(x) : x \in Visits(U)})
  <2>1. PICK L : L = Visits(U)
    OBVIOUS
  <2>2. IsFiniteSet(L)
    BY <2>1, PartsOf, RowsetParts
  <2>3. PICK f : f = [x \in L |-> VisitKey(x)]
    OBVIOUS
  <2>4. {VisitKey(x) : x \in L} = {f[x] : x \in L}
    BY <2>3
  <2>5. IsFiniteSet({f[x] : x \in L})
    BY <2>2, ImageOfFinite
  <2>. QED  BY <2>1, <2>4, <2>5
<1>3. \A k : Poll(U, k) \in SUBSET U
  BY PartsOf DEF Poll
<1>4. /\ DOMAIN m = {VisitKey(x) : x \in Visits(U)}
      /\ \A k \in DOMAIN m : m[k] = Times(Poll(U, k))
  BY <1>1
<1>5. \A k \in DOMAIN m : Poll(U, k) # {}
  BY <1>4 DEF Poll
<1>. QED  BY <1>2, <1>3, <1>4, <1>5

LEMMA BlockedAre ==
    ASSUME NEW U, Rowset(U), NEW m, m = MapShard(U).threats
    PROVE  /\ IsFiniteSet(DOMAIN m)
           /\ \A k : k \in DOMAIN m <=> \E x \in Threats(U) : k = ThreatKey(x)
           /\ \A k \in DOMAIN m : m[k] = ThreatGroup(Threat(U, k)) /\ Threat(U, k) # {}
           /\ \A k : Threat(U, k) \in SUBSET U
<1>1. m = [k \in {ThreatKey(x) : x \in Threats(U)} |-> ThreatGroup(Threat(U, k))]
  BY DEF MapShard, Threats, Threat, ThreatKey
<1>2. IsFiniteSet({ThreatKey(x) : x \in Threats(U)})
  <2>1. PICK L : L = Threats(U)
    OBVIOUS
  <2>2. IsFiniteSet(L)
    BY <2>1, PartsOf, RowsetParts
  <2>3. PICK f : f = [x \in L |-> ThreatKey(x)]
    OBVIOUS
  <2>4. {ThreatKey(x) : x \in L} = {f[x] : x \in L}
    BY <2>3
  <2>5. IsFiniteSet({f[x] : x \in L})
    BY <2>2, ImageOfFinite
  <2>. QED  BY <2>1, <2>4, <2>5
<1>3. \A k : Threat(U, k) \in SUBSET U
  BY PartsOf DEF Threat
<1>4. /\ DOMAIN m = {ThreatKey(x) : x \in Threats(U)}
      /\ \A k \in DOMAIN m : m[k] = ThreatGroup(Threat(U, k))
  BY <1>1
<1>5. \A k \in DOMAIN m : Threat(U, k) # {}
  BY <1>4 DEF Threat
<1>. QED  BY <1>2, <1>3, <1>4, <1>5

LEMMA DestinationsAre ==
    ASSUME NEW U, Rowset(U), NEW m, m = MapShard(U).hosts
    PROVE  /\ IsFiniteSet(DOMAIN m)
           /\ \A k : k \in DOMAIN m <=> \E x \in Hosted(U) : k = HostKey(x)
           /\ \A k \in DOMAIN m : m[k] = HostGroup(RowsOfHost(U, k)) /\ RowsOfHost(U, k) # {}
           /\ \A k : RowsOfHost(U, k) \in SUBSET U
<1>1. m = [k \in {HostKey(x) : x \in Hosted(U)} |-> HostGroup(RowsOfHost(U, k))]
  BY DEF MapShard, Hosted, RowsOfHost, HostKey
<1>2. IsFiniteSet({HostKey(x) : x \in Hosted(U)})
  <2>1. PICK L : L = Hosted(U)
    OBVIOUS
  <2>2. IsFiniteSet(L)
    BY <2>1, PartsOf, RowsetParts
  <2>3. PICK f : f = [x \in L |-> HostKey(x)]
    OBVIOUS
  <2>4. {HostKey(x) : x \in L} = {f[x] : x \in L}
    BY <2>3
  <2>5. IsFiniteSet({f[x] : x \in L})
    BY <2>2, ImageOfFinite
  <2>. QED  BY <2>1, <2>4, <2>5
<1>3. \A k : RowsOfHost(U, k) \in SUBSET U
  BY PartsOf DEF RowsOfHost
<1>4. /\ DOMAIN m = {HostKey(x) : x \in Hosted(U)}
      /\ \A k \in DOMAIN m : m[k] = HostGroup(RowsOfHost(U, k))
  BY <1>1
<1>5. \A k \in DOMAIN m : RowsOfHost(U, k) # {}
  BY <1>4 DEF RowsOfHost, HostKey
<1>. QED  BY <1>2, <1>3, <1>4, <1>5

LEMMA HoursAre ==
    ASSUME NEW U, Rowset(U), NEW m, m = MapShard(U).hour_counts
    PROVE  /\ IsFiniteSet(DOMAIN m)
           /\ \A k : k \in DOMAIN m <=> \E x \in Timed(U) : k = HourOf(x)
           /\ \A k \in DOMAIN m : m[k] = Cardinality(InHourOf(U, k)) /\ InHourOf(U, k) # {}
           /\ \A k : InHourOf(U, k) \in SUBSET U
<1>1. m = [k \in {HourOf(x) : x \in Timed(U)} |-> Cardinality(InHourOf(U, k))]
  BY DEF MapShard, Timed, InHourOf
<1>2. IsFiniteSet({HourOf(x) : x \in Timed(U)})
  <2>1. PICK L : L = Timed(U)
    OBVIOUS
  <2>2. IsFiniteSet(L)
    BY <2>1, PartsOf, RowsetParts
  <2>3. PICK f : f = [x \in L |-> HourOf(x)]
    OBVIOUS
  <2>4. {HourOf(x) : x \in L} = {f[x] : x \in L}
    BY <2>3
  <2>5. IsFiniteSet({f[x] : x \in L})
    BY <2>2, ImageOfFinite
  <2>. QED  BY <2>1, <2>4, <2>5
<1>3. \A k : InHourOf(U, k) \in SUBSET U
  BY PartsOf DEF InHourOf
<1>4. /\ DOMAIN m = {HourOf(x) : x \in Timed(U)}
      /\ \A k \in DOMAIN m : m[k] = Cardinality(InHourOf(U, k))
  BY <1>1
<1>5. \A k \in DOMAIN m : InHourOf(U, k) # {}
  BY <1>4 DEF InHourOf
<1>. QED  BY <1>2, <1>3, <1>4, <1>5

LEMMA ActorsAre ==
    ASSUME NEW U, Rowset(U), NEW m, m = MapShard(U).hour_actors
    PROVE  /\ IsFiniteSet(DOMAIN m)
           /\ \A k : k \in DOMAIN m <=> \E x \in Timed(U) : k = ActorKey(x)
           /\ \A k \in DOMAIN m : m[k] = Ids(Activity(U, k)) /\ Activity(U, k) # {}
           /\ \A k : Activity(U, k) \in SUBSET U
<1>1. m = [k \in {ActorKey(x) : x \in Timed(U)} |-> Ids(Activity(U, k))]
  BY DEF MapShard, Timed, Activity, ActorKey
<1>2. IsFiniteSet({ActorKey(x) : x \in Timed(U)})
  <2>1. PICK L : L = Timed(U)
    OBVIOUS
  <2>2. IsFiniteSet(L)
    BY <2>1, PartsOf, RowsetParts
  <2>3. PICK f : f = [x \in L |-> ActorKey(x)]
    OBVIOUS
  <2>4. {ActorKey(x) : x \in L} = {f[x] : x \in L}
    BY <2>3
  <2>5. IsFiniteSet({f[x] : x \in L})
    BY <2>2, ImageOfFinite
  <2>. QED  BY <2>1, <2>4, <2>5
<1>3. \A k : Activity(U, k) \in SUBSET U
  BY PartsOf DEF Activity
<1>4. /\ DOMAIN m = {ActorKey(x) : x \in Timed(U)}
      /\ \A k \in DOMAIN m : m[k] = Ids(Activity(U, k))
  BY <1>1
<1>5. \A k \in DOMAIN m : Activity(U, k) # {}
  BY <1>4 DEF Activity
<1>. QED  BY <1>2, <1>3, <1>4, <1>5

----------------------------------------------------------------------------
(* What each detector gives.                                                *)

(* What every detector gives: a candidate a key, of some of the rows.       *)
Detector(kind, C, U) ==
    /\ IsFiniteSet(C)
    /\ \A c \in C : c.kind = kind /\ c.ids \in (SUBSET Ids(U)) \ {{}}
    /\ OneSort({c.key : c \in C})
    /\ \A c, d \in C : c.key = d.key => c = d

(* C has a candidate cand[k] of every k of K.                               *)
Makes(cand, K, kind, C, U) ==
    /\ IsFiniteSet(K)
    /\ \A k \in K : cand[k].kind = kind /\ cand[k].ids \in (SUBSET Ids(U)) \ {{}}
    /\ \/ \A k \in K : k \in Nat /\ cand[k].key = <<k>>
       \/ \A k \in K : Double(k) /\ cand[k].key = k
    /\ C = {cand[k] : k \in K}

(* Candidates made one for a key are what a detector may give.              *)
LEMMA CandidatesOf ==
    ASSUME NEW K, NEW cand, NEW kind, NEW U, NEW C, Makes(cand, K, kind, C, U)
    PROVE  Detector(kind, C, U)
<1>0. /\ IsFiniteSet(K)
      /\ \A k \in K : cand[k].kind = kind /\ cand[k].ids \in (SUBSET Ids(U)) \ {{}}
      /\ \/ \A k \in K : k \in Nat /\ cand[k].key = <<k>>
         \/ \A k \in K : Double(k) /\ cand[k].key = k
      /\ C = {cand[k] : k \in K}
  BY DEF Makes
<1>1. IsFiniteSet(C)
  BY <1>0, ImageOfFinite
<1>2. \A c \in C : c.kind = kind /\ c.ids \in (SUBSET Ids(U)) \ {{}}
  BY <1>0
<1>3. CASE \A k \in K : k \in Nat /\ cand[k].key = <<k>>
  <2>1. \A c \in C : Single(c.key)
    BY <1>0, <1>3 DEF Single
  <2>2. \A c, d \in C : c.key = d.key => c = d
    <3>. SUFFICES ASSUME NEW c \in C, NEW d \in C, c.key = d.key
                  PROVE  c = d
      OBVIOUS
    <3>1. PICK j \in K : c = cand[j]
      BY <1>0
    <3>2. PICK k \in K : d = cand[k]
      BY <1>0
    <3>3. <<j>> = <<k>>
      BY <1>3, <3>1, <3>2
    <3>4. j = k
      BY <3>3
    <3>. QED  BY <3>1, <3>2, <3>4
  <2>. QED  BY <1>1, <1>2, <2>1, <2>2 DEF Detector, OneSort
<1>4. CASE \A k \in K : Double(k) /\ cand[k].key = k
  <2>1. \A c \in C : Double(c.key)
    BY <1>0, <1>4
  <2>2. \A c, d \in C : c.key = d.key => c = d
    BY <1>0, <1>4
  <2>. QED  BY <1>1, <1>2, <2>1, <2>2 DEF Detector, OneSort
<1>. QED  BY <1>0, <1>3, <1>4

LEMMA IdsOfSome ==
    ASSUME NEW U, NEW A \in SUBSET U, A # {}
    PROVE  Ids(A) \in (SUBSET Ids(U)) \ {{}}
<1>1. PICK x \in A : TRUE
  OBVIOUS
<1>2. x.id \in Ids(A) /\ Ids(A) \subseteq Ids(U)
  BY DEF Ids
<1>. QED  BY <1>2

LEMMA NamesAreNumbers ==
    ASSUME NEW U, Rowset(U), NEW x \in U
    PROVE  /\ OrUnknown(x.username) \in Nat /\ OrUnknown(x.host) \in Nat /\ Actor(x) \in Nat
           /\ \A f \in {"client_ip", "username", "host", "threat_name"} :
                 x[f] # None => x[f] \in Nat
<1>1. x \in LogEntry
  BY DEF Rowset
<1>2. /\ x.client_ip \in Nat \cup {None} /\ x.username \in Nat \cup {None}
      /\ x.host \in Nat \cup {None} /\ x.threat_name \in Nat \cup {None}
  BY <1>1 DEF LogEntry, Name
<1>. QED  BY <1>2 DEF OrUnknown, Actor, Unknown

(* score_blocked_threats: one candidate for a threat and a host.            *)
LEMMA ThreatsShape ==
    ASSUME NEW U, Rowset(U)
    PROVE  Detector("blocked_threat", BlockedThreats(MapShard(U)), U)
<1>1. PICK p : p = MapShard(U)
  OBVIOUS
<1>2. PICK m : m = p.threats
  OBVIOUS
<1>3. /\ IsFiniteSet(DOMAIN m)
      /\ \A k \in DOMAIN m : \E x \in Threats(U) : k = ThreatKey(x)
      /\ \A k \in DOMAIN m : m[k] = ThreatGroup(Threat(U, k)) /\ Threat(U, k) # {}
      /\ \A k : Threat(U, k) \in SUBSET U
  BY <1>1, <1>2, BlockedAre
<1>4. PICK cand : cand = [k \in DOMAIN m |->
         Candidate("blocked_threat", k, Score("blocked_threat", <<>>), m[k].ids, m[k].users)]
  OBVIOUS
<1>5. BlockedThreats(p) = {cand[k] : k \in DOMAIN m}
  BY <1>2, <1>4 DEF BlockedThreats
<1>6. ASSUME NEW k \in DOMAIN m
      PROVE  /\ cand[k].kind = "blocked_threat" /\ cand[k].ids \in (SUBSET Ids(U)) \ {{}}
             /\ Double(k) /\ cand[k].key = k
  <2>1. cand[k].kind = "blocked_threat" /\ cand[k].key = k /\ cand[k].ids = m[k].ids
    BY <1>4 DEF Candidate
  <2>2. m[k].ids = Ids(Threat(U, k))
    BY <1>3 DEF ThreatGroup
  <2>3. PICK x \in Threats(U) : k = ThreatKey(x)
    BY <1>3
  <2>4. x \in U /\ x.threat_name # None
    BY <2>3 DEF Threats
  <2>5. x.threat_name \in Nat /\ OrUnknown(x.host) \in Nat
    BY <2>4, NamesAreNumbers
  <2>6. Double(k)
    BY <2>3, <2>5 DEF Double, ThreatKey
  <2>. QED  BY <1>3, <2>1, <2>2, <2>6, IdsOfSome
<1>7. Makes(cand, DOMAIN m, "blocked_threat", BlockedThreats(p), U)
  BY <1>3, <1>5, <1>6 DEF Makes
<1>. QED  BY <1>1, <1>7, CandidatesOf

LEMMA ByteGroupIds == ASSUME NEW R PROVE ByteGroup(R).ids = Ids(R)
<1>1. ByteGroup(R) = [ids |-> Ids(R), total |-> Sum([x \in R |-> x.req_bytes], R),
                      logs |-> ValuesOf(R, "req_bytes")]
  BY Zenon DEF ByteGroup, Sum
<1>. QED  BY <1>1

LEMMA TimesIds == ASSUME NEW G PROVE {h[2] : h \in Times(G)} = Ids(G)
<1>1. \A x \in G : <<x.ts, x.id>>[2] = x.id
  OBVIOUS
<1>2. \A h \in Times(G) : \E x \in G : h[2] = x.id
  BY <1>1 DEF Times
<1>3. \A x \in G : \E h \in Times(G) : h[2] = x.id
  BY <1>1 DEF Times
<1>. QED  BY <1>2, <1>3 DEF Ids

(* score_data_exfil: one for a user and a host.                             *)
LEMMA ExfilShape ==
    ASSUME NEW U, Rowset(U)
    PROVE  Detector("data_exfil", DataExfil(MapShard(U)), U)
<1>1. PICK p : p = MapShard(U)
  OBVIOUS
<1>2. PICK m : m = p.user_host
  OBVIOUS
<1>3. /\ IsFiniteSet(DOMAIN m)
      /\ \A k \in DOMAIN m : \E x \in Sized(U) : k = PairKey(x)
      /\ \A k \in DOMAIN m : m[k] = ByteGroup(Transfer(U, k)) /\ Transfer(U, k) # {}
      /\ \A k : Transfer(U, k) \in SUBSET U
  BY <1>1, <1>2, PairsAre
<1>4. PICK K : K = {x \in DOMAIN m : BagCardinality(p.req_byte_logs) >= MinLogs}
  OBVIOUS
<1>5. PICK cand : cand = [k \in K |->
         Candidate("data_exfil", k,
                   Score("data_exfil", <<Max(DOMAIN m[k].logs), p.req_byte_logs>>),
                   m[k].ids, <<m[k].total, Max(DOMAIN m[k].logs), p.req_byte_logs>>)]
  OBVIOUS
<1>6. DataExfil(p) = {cand[k] : k \in K}
  BY <1>2, <1>4, <1>5 DEF DataExfil
<1>7. IsFiniteSet(K)
  BY <1>3, <1>4, FS_Subset
<1>8. ASSUME NEW k \in K
      PROVE  /\ cand[k].kind = "data_exfil" /\ cand[k].ids \in (SUBSET Ids(U)) \ {{}}
             /\ Double(k) /\ cand[k].key = k
  <2>1. cand[k].kind = "data_exfil" /\ cand[k].key = k /\ cand[k].ids = m[k].ids
    BY <1>5 DEF Candidate
  <2>2. k \in DOMAIN m
    BY <1>4
  <2>3. m[k].ids = Ids(Transfer(U, k))
    BY <1>3, <2>2, ByteGroupIds
  <2>4. PICK x \in Sized(U) : k = PairKey(x)
    BY <1>3, <2>2
  <2>5. x \in U
    BY <2>4 DEF Sized
  <2>6. OrUnknown(x.username) \in Nat /\ OrUnknown(x.host) \in Nat
    BY <2>5, NamesAreNumbers
  <2>7. Double(k)
    BY <2>4, <2>6 DEF Double, PairKey
  <2>. QED  BY <1>3, <2>1, <2>2, <2>3, <2>7, IdsOfSome
<1>9. Makes(cand, K, "data_exfil", DataExfil(p), U)
  BY <1>6, <1>7, <1>8 DEF Makes
<1>. QED  BY <1>1, <1>9, CandidatesOf

(* score_beaconing: one for a client and a host.                            *)
LEMMA BeaconsShape ==
    ASSUME NEW U, Rowset(U)
    PROVE  Detector("beaconing", Beacons(MapShard(U)), U)
<1>1. PICK p : p = MapShard(U)
  OBVIOUS
<1>2. PICK m : m = p.ip_host_times
  OBVIOUS
<1>3. /\ IsFiniteSet(DOMAIN m)
      /\ \A k \in DOMAIN m : \E x \in Visits(U) : k = VisitKey(x)
      /\ \A k \in DOMAIN m : m[k] = Times(Poll(U, k)) /\ Poll(U, k) # {}
      /\ \A k : Poll(U, k) \in SUBSET U
  BY <1>1, <1>2, PollsAre
<1>4. PICK K : K = {x \in DOMAIN m : /\ Cardinality(m[x]) >= MinBeaconHits
                                     /\ Cardinality(DOMAIN Gaps(m[x])) >= MinBeaconHits - 1}
  OBVIOUS
<1>5. PICK cand : cand = [k \in K |->
         Candidate("beaconing", k, Score("beaconing", Gaps(m[k])), {h[2] : h \in m[k]},
                   Gaps(m[k]))]
  OBVIOUS
<1>6. Beacons(p) = {cand[k] : k \in K}
  BY <1>2, <1>4, <1>5 DEF Beacons
<1>7. IsFiniteSet(K)
  BY <1>3, <1>4, FS_Subset
<1>8. ASSUME NEW k \in K
      PROVE  /\ cand[k].kind = "beaconing" /\ cand[k].ids \in (SUBSET Ids(U)) \ {{}}
             /\ Double(k) /\ cand[k].key = k
  <2>1. /\ cand[k].kind = "beaconing" /\ cand[k].key = k
        /\ cand[k].ids = {h[2] : h \in m[k]}
    BY <1>5 DEF Candidate
  <2>2. k \in DOMAIN m
    BY <1>4
  <2>3. {h[2] : h \in Times(Poll(U, k))} = Ids(Poll(U, k))
    BY TimesIds
  <2>4. PICK x \in Visits(U) : k = VisitKey(x)
    BY <1>3, <2>2
  <2>5. x \in U /\ x.client_ip # None /\ x.host # None
    BY <2>4 DEF Visits, Located, Timed
  <2>6. x.client_ip \in Nat /\ x.host \in Nat
    BY <2>5, NamesAreNumbers
  <2>7. Double(k)
    BY <2>4, <2>6 DEF Double, VisitKey
  <2>. QED  BY <1>3, <2>1, <2>2, <2>3, <2>7, IdsOfSome
<1>9. Makes(cand, K, "beaconing", Beacons(p), U)
  BY <1>6, <1>7, <1>8 DEF Makes
<1>. QED  BY <1>1, <1>9, CandidatesOf

(* score_rare_destination: one for a host.                                  *)
LEMMA DestinationsShape ==
    ASSUME NEW U, Rowset(U)
    PROVE  Detector("rare_destination", RareDestinations(MapShard(U)), U)
<1>1. PICK p : p = MapShard(U)
  OBVIOUS
<1>2. PICK m : m = p.hosts
  OBVIOUS
<1>3. /\ IsFiniteSet(DOMAIN m)
      /\ \A k \in DOMAIN m : \E x \in Hosted(U) : k = HostKey(x)
      /\ \A k \in DOMAIN m : m[k] = HostGroup(RowsOfHost(U, k)) /\ RowsOfHost(U, k) # {}
      /\ \A k : RowsOfHost(U, k) \in SUBSET U
  BY <1>1, <1>2, DestinationsAre
<1>4. PICK K : K = {x \in DOMAIN m : /\ Cardinality(DOMAIN m) >= MinHosts
                                     /\ Cardinality(m[x].users) = 1
                                     /\ Cardinality(m[x].ids) <= RareHits}
  OBVIOUS
<1> DEFINE busiest == Max({Cardinality(m[h].ids) : h \in DOMAIN m})
           found(h) == Candidate("rare_destination", <<h>>,
               Score("rare_destination", <<busiest, Cardinality(m[h].ids)>>),
               m[h].ids, <<m[h].users, busiest, m[h].urls>>)
<1>5. RareDestinations(p) = {found(h) : h \in K}
  BY <1>2, <1>4 DEF RareDestinations
<1>6. PICK cand : cand = [h \in K |-> found(h)]
  OBVIOUS
<1>7. RareDestinations(p) = {cand[h] : h \in K}
  <2>. HIDE DEF found
  <2>. QED  BY <1>5, <1>6
<1>8. IsFiniteSet(K)
  BY <1>3, <1>4, FS_Subset
<1>9. ASSUME NEW k \in K
      PROVE  /\ cand[k].kind = "rare_destination" /\ cand[k].ids \in (SUBSET Ids(U)) \ {{}}
             /\ k \in Nat /\ cand[k].key = <<k>>
  <2>1. cand[k].kind = "rare_destination" /\ cand[k].key = <<k>> /\ cand[k].ids = m[k].ids
    BY <1>6 DEF Candidate
  <2>2. k \in DOMAIN m
    BY <1>4
  <2>3. m[k].ids = Ids(RowsOfHost(U, k))
    BY <1>3, <2>2 DEF HostGroup
  <2>4. PICK x \in Hosted(U) : k = x.host
    BY <1>3, <2>2 DEF HostKey
  <2>5. x \in U /\ x.host # None
    BY <2>4 DEF Hosted
  <2>6. k \in Nat
    BY <2>4, <2>5, NamesAreNumbers
  <2>. QED  BY <1>3, <2>1, <2>2, <2>3, <2>6, IdsOfSome
<1>10. Makes(cand, K, "rare_destination", RareDestinations(p), U)
  BY <1>7, <1>8, <1>9 DEF Makes
<1>. QED  BY <1>1, <1>10, CandidatesOf

(* The bursts of the detector, each a minute of an address.                 *)
MinuteCounts(m) == [k \in DOMAIN m |-> Cardinality(m[k])]
Bursts(m) ==
    {k \in DOMAIN m : /\ MinuteCounts(m)[k] >= MinBurst
                      /\ Score("volume_spike", <<MinuteCounts(m)[k], MinuteCounts(m)>>) > 0}
BurstsOf(m, ip) == {k \in Bursts(m) : k[1] = ip}
Spike(m, ip) ==
    Candidate("volume_spike", <<ip>>,
              Max({Score("volume_spike", <<MinuteCounts(m)[k], MinuteCounts(m)>>)
                   : k \in BurstsOf(m, ip)}),
              UNION {m[k] : k \in BurstsOf(m, ip)},
              [k \in BurstsOf(m, ip) |-> MinuteCounts(m)[k]])
Senders(m) ==
    {k[1] : k \in {b \in Bursts(m) : Cardinality(DOMAIN MinuteCounts(m)) >= MinBuckets}}

LEMMA SpikesAre ==
    ASSUME NEW p
    PROVE  VolumeSpikes(p) = {Spike(p.ip_minute, ip) : ip \in Senders(p.ip_minute)}
<1>1. PICK m : m = p.ip_minute
  OBVIOUS
<1> DEFINE counts == [k \in DOMAIN m |-> Cardinality(m[k])]
           bursts == {k \in DOMAIN m : /\ counts[k] >= MinBurst
                                       /\ Score("volume_spike", <<counts[k], counts>>) > 0}
           of(ip) == {k \in bursts : k[1] = ip}
           found(ip) == Candidate("volume_spike", <<ip>>,
               Max({Score("volume_spike", <<counts[k], counts>>) : k \in of(ip)}),
               UNION {m[k] : k \in of(ip)}, [k \in of(ip) |-> counts[k]])
<1>2. VolumeSpikes(p) =
         {found(ip) : ip \in
             {k[1] : k \in {b \in bursts : Cardinality(DOMAIN counts) >= MinBuckets}}}
  BY <1>1 DEF VolumeSpikes
<1>3. MinuteCounts(m) = counts /\ Bursts(m) = bursts
  BY DEF MinuteCounts, Bursts
<1>. HIDE DEF counts, bursts
<1>4. Senders(m) = {k[1] : k \in {b \in bursts : Cardinality(DOMAIN counts) >= MinBuckets}}
  BY <1>3 DEF Senders
<1>5. \A ip : Spike(m, ip) = found(ip)
  BY <1>3, Zenon DEF Spike, BurstsOf
<1>. HIDE DEF found
<1>. QED  BY <1>1, <1>2, <1>4, <1>5

(* score_volume_spike: one for a sender, however many its bursts.           *)
LEMMA SpikesShape ==
    ASSUME NEW U, Rowset(U)
    PROVE  Detector("volume_spike", VolumeSpikes(MapShard(U)), U)
<1>1. PICK p : p = MapShard(U)
  OBVIOUS
<1>2. PICK m : m = p.ip_minute
  OBVIOUS
<1>3. /\ IsFiniteSet(DOMAIN m)
      /\ \A k \in DOMAIN m : \E x \in Located(U) : k = MinuteKey(x)
      /\ \A k \in DOMAIN m : m[k] = Ids(Burst(U, k)) /\ Burst(U, k) # {}
      /\ \A k : Burst(U, k) \in SUBSET U
  BY <1>1, <1>2, MinutesAre
<1>4. PICK K : K = Senders(m)
  OBVIOUS
<1>5. PICK cand : cand = [ip \in K |-> Spike(m, ip)]
  OBVIOUS
<1>6. VolumeSpikes(p) = {cand[ip] : ip \in K}
  BY <1>2, <1>4, <1>5, SpikesAre
<1>7. Bursts(m) \subseteq DOMAIN m
  BY DEF Bursts
<1>8. K \subseteq {k[1] : k \in Bursts(m)}
  BY <1>4 DEF Senders
<1>9. IsFiniteSet(K)
  <2>1. PICK B, f : B = Bursts(m) /\ f = [k \in Bursts(m) |-> k[1]]
    OBVIOUS
  <2>2. IsFiniteSet(B)
    BY <1>3, <1>7, <2>1, FS_Subset
  <2>3. IsFiniteSet({f[k] : k \in B})
    BY <2>2, ImageOfFinite
  <2>4. K \subseteq {f[k] : k \in B}
    BY <1>8, <2>1
  <2>. QED  BY <2>3, <2>4, FS_Subset
<1>10. ASSUME NEW ip \in K
       PROVE  /\ cand[ip].kind = "volume_spike" /\ cand[ip].ids \in (SUBSET Ids(U)) \ {{}}
              /\ ip \in Nat /\ cand[ip].key = <<ip>>
  <2>1. /\ cand[ip].kind = "volume_spike" /\ cand[ip].key = <<ip>>
        /\ cand[ip].ids = UNION {m[k] : k \in BurstsOf(m, ip)}
    BY <1>5 DEF Spike, Candidate
  <2>2. PICK b \in Bursts(m) : b[1] = ip
    BY <1>8
  <2>3. b \in BurstsOf(m, ip) /\ b \in DOMAIN m
    BY <1>7, <2>2 DEF BurstsOf
  <2>4. \A k \in BurstsOf(m, ip) : m[k] \in (SUBSET Ids(U)) \ {{}}
    <3>1. \A k \in BurstsOf(m, ip) : k \in DOMAIN m
      BY <1>7 DEF BurstsOf
    <3>2. \A k \in DOMAIN m : m[k] \in (SUBSET Ids(U)) \ {{}}
      BY <1>3, IdsOfSome
    <3>. QED  BY <3>1, <3>2
  <2>5. cand[ip].ids \in (SUBSET Ids(U)) \ {{}}
    BY <2>1, <2>3, <2>4
  <2>6. PICK x \in Located(U) : b = MinuteKey(x)
    BY <1>3, <2>3
  <2>7. ip = x.client_ip
    BY <2>2, <2>6 DEF MinuteKey
  <2>8. x \in U /\ x.client_ip # None
    BY <2>6 DEF Located, Timed
  <2>9. ip \in Nat
    BY <2>7, <2>8, NamesAreNumbers
  <2>. QED  BY <2>1, <2>5, <2>9
<1>11. Makes(cand, K, "volume_spike", VolumeSpikes(p), U)
  BY <1>6, <1>9, <1>10 DEF Makes
<1>. QED  BY <1>1, <1>11, CandidatesOf

(* What an actor does in quiet hours.                                       *)
QuietOf(p, a) == {k \in QuietActivity(p) : k[2] = a}
QuietIds(p, a) == UNION {p.hour_actors[k] : k \in QuietOf(p, a)}
OffFigures(p, a) ==
    <<[h \in {k[1] : k \in QuietOf(p, a)} |-> p.hour_counts[h]], TwiceMedian(p.hour_counts),
      Cardinality(QuietIds(p, a))>>
Off(p, a) == Candidate("off_hours", <<a>>, Score("off_hours", OffFigures(p, a)),
                       QuietIds(p, a), OffFigures(p, a))
NightOwls(p) ==
    {a \in {k[2] : k \in QuietActivity(p)} : Cardinality(QuietIds(p, a)) >= MinOffHours}

LEMMA OffHoursAre ==
    ASSUME NEW p
    PROVE  OffHours(p) = {Off(p, a) : a \in NightOwls(p)}
  BY DEF OffHours, Off, NightOwls, OffFigures, QuietIds, QuietOf

(* score_off_hours: one for an actor, however many its quiet hours.         *)
LEMMA OffHoursShape ==
    ASSUME NEW U, Rowset(U)
    PROVE  Detector("off_hours", OffHours(MapShard(U)), U)
<1>1. PICK p : p = MapShard(U)
  OBVIOUS
<1>2. PICK m : m = p.hour_actors
  OBVIOUS
<1>3. /\ IsFiniteSet(DOMAIN m)
      /\ \A k \in DOMAIN m : \E x \in Timed(U) : k = ActorKey(x)
      /\ \A k \in DOMAIN m : m[k] = Ids(Activity(U, k)) /\ Activity(U, k) # {}
      /\ \A k : Activity(U, k) \in SUBSET U
  BY <1>1, <1>2, ActorsAre
<1>4. PICK K : K = NightOwls(p)
  OBVIOUS
<1>5. PICK cand : cand = [a \in K |-> Off(p, a)]
  OBVIOUS
<1>6. OffHours(p) = {cand[a] : a \in K}
  BY <1>4, <1>5, OffHoursAre
<1>7. QuietActivity(p) \subseteq DOMAIN m
  BY <1>2 DEF QuietActivity
<1>8. K \subseteq {k[2] : k \in QuietActivity(p)}
  BY <1>4 DEF NightOwls
<1>9. IsFiniteSet(K)
  <2>1. PICK B, f : B = QuietActivity(p) /\ f = [k \in QuietActivity(p) |-> k[2]]
    OBVIOUS
  <2>2. IsFiniteSet(B)
    BY <1>3, <1>7, <2>1, FS_Subset
  <2>3. IsFiniteSet({f[k] : k \in B})
    BY <2>2, ImageOfFinite
  <2>4. K \subseteq {f[k] : k \in B}
    BY <1>8, <2>1
  <2>. QED  BY <2>3, <2>4, FS_Subset
<1>10. ASSUME NEW a \in K
       PROVE  /\ cand[a].kind = "off_hours" /\ cand[a].ids \in (SUBSET Ids(U)) \ {{}}
              /\ a \in Nat /\ cand[a].key = <<a>>
  <2>1. cand[a].kind = "off_hours" /\ cand[a].key = <<a>> /\ cand[a].ids = QuietIds(p, a)
    BY <1>5 DEF Off, Candidate
  <2>2. PICK b \in QuietActivity(p) : b[2] = a
    BY <1>8
  <2>3. b \in QuietOf(p, a) /\ b \in DOMAIN m
    BY <1>7, <2>2 DEF QuietOf
  <2>4. \A k \in QuietOf(p, a) : m[k] \in (SUBSET Ids(U)) \ {{}}
    <3>1. \A k \in QuietOf(p, a) : k \in DOMAIN m
      BY <1>7 DEF QuietOf
    <3>2. \A k \in DOMAIN m : m[k] \in (SUBSET Ids(U)) \ {{}}
      BY <1>3, IdsOfSome
    <3>. QED  BY <3>1, <3>2
  <2>5. QuietIds(p, a) = UNION {m[k] : k \in QuietOf(p, a)}
    BY <1>2 DEF QuietIds
  <2>6. cand[a].ids \in (SUBSET Ids(U)) \ {{}}
    BY <2>1, <2>3, <2>4, <2>5
  <2>7. PICK x \in Timed(U) : b = ActorKey(x)
    BY <1>3, <2>3
  <2>8. a = Actor(x) /\ x \in U
    BY <2>2, <2>7 DEF ActorKey, Timed
  <2>9. a \in Nat
    BY <2>8, NamesAreNumbers
  <2>. QED  BY <2>1, <2>6, <2>9
<1>11. Makes(cand, K, "off_hours", OffHours(p), U)
  BY <1>6, <1>9, <1>10 DEF Makes
<1>. QED  BY <1>1, <1>11, CandidatesOf

----------------------------------------------------------------------------
(* The lists of the detectors and the ranking of all they found.            *)

(* The detectors in the order of their kinds.                               *)
ByKind(p) == <<Beacons(p), BlockedThreats(p), DataExfil(p), OffHours(p),
               RareDestinations(p), VolumeSpikes(p)>>
Scored(p) == \A C \in Scorers(p) : \A c \in C : c.score \in Nat

LEMMA KindsAre ==
    /\ DOMAIN Kinds = 1 .. 6
    /\ \A i, j \in 1 .. 6 : Kinds[i] = Kinds[j] => i = j
  BY DEF Kinds

(* All six are detectors, each of its kind.                                 *)
LEMMA DetectorsAre ==
    ASSUME NEW U, Rowset(U), NEW p, p = MapShard(U)
    PROVE  /\ Scorers(p) = {ByKind(p)[i] : i \in 1 .. 6}
           /\ \A i \in 1 .. 6 : Detector(Kinds[i], ByKind(p)[i], U)
<1>1. /\ ByKind(p)[1] = Beacons(p) /\ ByKind(p)[2] = BlockedThreats(p)
      /\ ByKind(p)[3] = DataExfil(p) /\ ByKind(p)[4] = OffHours(p)
      /\ ByKind(p)[5] = RareDestinations(p) /\ ByKind(p)[6] = VolumeSpikes(p)
  BY DEF ByKind
<1>2. /\ Kinds[1] = "beaconing" /\ Kinds[2] = "blocked_threat" /\ Kinds[3] = "data_exfil"
      /\ Kinds[4] = "off_hours" /\ Kinds[5] = "rare_destination" /\ Kinds[6] = "volume_spike"
  BY DEF Kinds
<1>3. \A i \in 1 .. 6 : i = 1 \/ i = 2 \/ i = 3 \/ i = 4 \/ i = 5 \/ i = 6
  OBVIOUS
<1>4. PICK s : s = ByKind(p)
  OBVIOUS
<1>5. Scorers(p) = {s[i] : i \in 1 .. 6}
  <2>1. Scorers(p) = {s[1], s[2], s[3], s[4], s[5], s[6]}
    BY <1>1, <1>4 DEF Scorers
  <2>2. \A i \in 1 .. 6 : s[i] \in {s[1], s[2], s[3], s[4], s[5], s[6]}
    BY <1>3
  <2>3. \A x \in {s[1], s[2], s[3], s[4], s[5], s[6]} : \E i \in 1 .. 6 : x = s[i]
    OBVIOUS
  <2>. QED  BY <2>1, <2>2, <2>3
<1>6. /\ Detector(Kinds[1], s[1], U) /\ Detector(Kinds[2], s[2], U)
      /\ Detector(Kinds[3], s[3], U) /\ Detector(Kinds[4], s[4], U)
      /\ Detector(Kinds[5], s[5], U) /\ Detector(Kinds[6], s[6], U)
  BY <1>1, <1>2, <1>4, BeaconsShape, ThreatsShape, ExfilShape, OffHoursShape,
     DestinationsShape, SpikesShape
<1>. QED  BY <1>3, <1>4, <1>5, <1>6

LEMMA KeyedParts ==
    ASSUME NEW kind, NEW C, NEW U, Detector(kind, C, U), \A c \in C : c.score \in Nat,
           NEW D \in SUBSET C
    PROVE  Keyed(D) /\ IsFiniteSet(D)
<1>1. IsFiniteSet(D)
  BY FS_Subset DEF Detector
<1>2. OneSort({c.key : c \in C}) /\ \A c, d \in C : c.key = d.key => c = d
  BY DEF Detector
<1>3. OneSort({c.key : c \in D})
  <2>1. \A s \in {c.key : c \in D} : s \in {c.key : c \in C}
    OBVIOUS
  <2>. QED  BY <1>2, <2>1 DEF OneSort
<1>. QED  BY <1>1, <1>2, <1>3 DEF Keyed

(* _top: of enough candidates as many as the cap.                           *)
LEMMA TopOf ==
    ASSUME NEW kind, NEW C, NEW U, Detector(kind, C, U), \A c \in C : c.score \in Nat
    PROVE  /\ Top(C) \subseteq C /\ IsFiniteSet(Top(C))
           /\ \A c \in Top(C) : c.score >= MinScore
           /\ Cardinality(Top(C)) <= MaxPerDetector
           /\ Top(C) # Kept(C) => Cardinality(Top(C)) = MaxPerDetector
<1>1. PICK K : K = Kept(C)
  OBVIOUS
<1>2. K \in SUBSET C /\ \A c \in K : c.score >= MinScore
  BY <1>1 DEF Kept
<1>3. Orders(Worse(K), K) /\ IsFiniteSet(K)
  BY <1>2, KeyedParts, BeforeOrders
<1>4. \A c \in K : {d \in K : Before(d, c)} = {d \in K : <<d, c>> \in Worse(K)}
  BY DEF Worse
<1>5. \A c \in K : Quantify(K, LAMBDA d : Before(d, c)) = Rank(Worse(K), K, c)
  BY <1>4 DEF Quantify, Rank
<1>6. Top(C) = {c \in K : Quantify(K, LAMBDA d : Before(d, c)) < MaxPerDetector}
  BY <1>1 DEF Top
<1>7. Top(C) = {c \in K : Rank(Worse(K), K, c) < MaxPerDetector}
  BY <1>5, <1>6
<1>8. MaxPerDetector \in Nat
  BY DetectionAssumption
<1>9. PICK lt, T : lt = Worse(K) /\ T = Top(C)
  OBVIOUS
<1>10. /\ IsFiniteSet(T) /\ Cardinality(T) <= MaxPerDetector
       /\ T # K => Cardinality(T) = MaxPerDetector
  BY <1>3, <1>7, <1>8, <1>9, FirstCount
<1>. QED  BY <1>1, <1>2, <1>7, <1>9, <1>10

(* What all detectors found: of each kind exactly the list of its detector. *)
LEMMA FoundIs ==
    ASSUME NEW U, Rowset(U), NEW p, p = MapShard(U), Scored(p)
    PROVE  /\ IsFiniteSet(Found(p))
           /\ \A c \in Found(p) : c.ids \in (SUBSET Ids(U)) \ {{}} /\ c.score >= MinScore
                                  /\ c.score \in Nat
           /\ \A i \in 1 .. 6 : {c \in Found(p) : c.kind = Kinds[i]} = Top(ByKind(p)[i])
           /\ \A c \in Found(p) : \E i \in 1 .. 6 : c.kind = Kinds[i] /\ c \in Top(ByKind(p)[i])
<1>1. PICK s : s = ByKind(p)
  OBVIOUS
<1>2. \A i \in 1 .. 6 : Detector(Kinds[i], s[i], U) /\ \A c \in s[i] : c.score \in Nat
  BY <1>1, DetectorsAre DEF Scored
<1>3. \A i \in 1 .. 6 : /\ Top(s[i]) \subseteq s[i] /\ IsFiniteSet(Top(s[i]))
                        /\ \A c \in Top(s[i]) : c.score >= MinScore
  BY <1>2, TopOf
<1>4. \A i \in 1 .. 6 : \A c \in s[i] : c.kind = Kinds[i] /\ c.ids \in (SUBSET Ids(U)) \ {{}}
  BY <1>2 DEF Detector
<1>5. Found(p) = UNION {Top(s[i]) : i \in 1 .. 6}
  <2>1. PICK S : S = Scorers(p)
    OBVIOUS
  <2>2. S = {s[i] : i \in 1 .. 6}
    BY <1>1, <2>1, DetectorsAre
  <2>3. Found(p) = UNION {Top(C) : C \in S}
    BY <2>1, Zenon DEF Found
  <2>4. {Top(C) : C \in S} = {Top(s[i]) : i \in 1 .. 6}
    BY <2>2
  <2>. QED  BY <2>3, <2>4
<1>6. PICK t : t = [i \in 1 .. 6 |-> Top(s[i])]
  OBVIOUS
<1>7. PICK F : F = Found(p)
  OBVIOUS
<1>8. \A c : c \in F <=> \E i \in 1 .. 6 : c \in t[i]
  BY <1>5, <1>6, <1>7
<1>9. \A i \in 1 .. 6 : \A c \in t[i] : /\ c.kind = Kinds[i] /\ c.score \in Nat
                                        /\ c.ids \in (SUBSET Ids(U)) \ {{}}
                                        /\ c.score >= MinScore
  BY <1>2, <1>3, <1>4, <1>6
<1>10. IsFiniteSet(F)
  <2>1. \A i \in 1 .. 6 : IsFiniteSet(t[i])
    BY <1>3, <1>6
  <2>2. F = ((((t[1] \cup t[2]) \cup t[3]) \cup t[4]) \cup t[5]) \cup t[6]
    BY <1>8
  <2>3. \A S, T : IsFiniteSet(S) /\ IsFiniteSet(T) => IsFiniteSet(S \cup T)
    BY FS_Union
  <2>4. IsFiniteSet((t[1] \cup t[2]) \cup t[3])
    <3>1. IsFiniteSet(t[1] \cup t[2])
      BY <2>1, <2>3
    <3>. QED  BY <2>1, <2>3, <3>1
  <2>5. IsFiniteSet(((t[1] \cup t[2]) \cup t[3]) \cup t[4])
    BY <2>1, <2>3, <2>4
  <2>6. IsFiniteSet((((t[1] \cup t[2]) \cup t[3]) \cup t[4]) \cup t[5])
    BY <2>1, <2>3, <2>5
  <2>. QED  BY <2>1, <2>2, <2>3, <2>6
<1>11. \A i \in 1 .. 6 : {c \in F : c.kind = Kinds[i]} = t[i]
  BY <1>8, <1>9, KindsAre
<1>. QED  BY <1>1, <1>6, <1>7, <1>8, <1>9, <1>10, <1>11

Nth(C, n) == CHOOSE c \in C : Cardinality({d \in C : Precedes(d, c)}) = n - 1

(* score: every candidate found, once, in order.                            *)
LEMMA RankedIs ==
    ASSUME NEW U, Rowset(U), NEW p, p = MapShard(U), Scored(p)
    PROVE  /\ Cardinality(Found(p)) \in Nat
           /\ Ranked(p) = [n \in 1 .. Cardinality(Found(p)) |-> Ranked(p)[n]]
           /\ DOMAIN Ranked(p) = 1 .. Cardinality(Found(p))
           /\ \A n \in DOMAIN Ranked(p) : Ranked(p)[n] \in Found(p)
           /\ \A m, n \in DOMAIN Ranked(p) : Ranked(p)[m] = Ranked(p)[n] => m = n
           /\ \A c \in Found(p) : \E n \in DOMAIN Ranked(p) : Ranked(p)[n] = c
<1>1. PICK C : C = Found(p)
  OBVIOUS
<1>2. IsFiniteSet(C) /\ Cardinality(C) \in Nat
  BY <1>1, FoundIs, FS_CardinalityType
<1>3. Orders(Later(C), C)
  <2>1. \A c \in C : c.kind \in {Kinds[i] : i \in DOMAIN Kinds}
    BY <1>1, FoundIs, KindsAre
  <2>2. \A k : Keyed({c \in C : c.kind = k})
    <3>. SUFFICES ASSUME NEW k
                  PROVE  Keyed({c \in C : c.kind = k})
      OBVIOUS
    <3>1. PICK D : D = {c \in C : c.kind = k}
      OBVIOUS
    <3>2. CASE \E i \in 1 .. 6 : k = Kinds[i]
      <4>1. PICK i \in 1 .. 6 : k = Kinds[i]
        BY <3>2
      <4>2. D = Top(ByKind(p)[i])
        BY <1>1, <3>1, <4>1, FoundIs
      <4>3. PICK E : E = ByKind(p)[i]
        OBVIOUS
      <4>4. Detector(k, E, U) /\ \A c \in E : c.score \in Nat
        BY <4>1, <4>3, DetectorsAre DEF Scored
      <4>5. D \in SUBSET E
        BY <4>2, <4>3, <4>4, TopOf
      <4>. QED  BY <3>1, <4>4, <4>5, KeyedParts
    <3>3. CASE ~\E i \in 1 .. 6 : k = Kinds[i]
      <4>1. D = {}
        BY <2>1, <3>1, <3>3, KindsAre
      <4>2. Keyed({})
        BY DEF Keyed, OneSort
      <4>. QED  BY <3>1, <4>1, <4>2
    <3>. QED  BY <3>2, <3>3
  <2>. QED  BY <2>1, <2>2, PrecedesOrders
<1>4. PICK lt, r : lt = Later(C) /\ r = Ranked(p)
  OBVIOUS
<1>5. \A c \in C : Cardinality({d \in C : Precedes(d, c)}) = Rank(lt, C, c)
  <2>1. \A c \in C : {d \in C : Precedes(d, c)} = {d \in C : <<d, c>> \in lt}
    BY <1>4 DEF Later
  <2>. QED  BY <2>1 DEF Rank
<1>6. r = [n \in 1 .. Cardinality(C) |-> Nth(C, n)]
  BY <1>1, <1>4 DEF Ranked, Quantify, Nth
<1>7. /\ \A c \in C : Rank(lt, C, c) \in 0 .. Cardinality(C) - 1
      /\ \A c, d \in C : c # d => Rank(lt, C, c) # Rank(lt, C, d)
      /\ \A n \in 0 .. Cardinality(C) - 1 : \E c \in C : Rank(lt, C, c) = n
  BY <1>2, <1>3, <1>4, RanksDiffer, RanksCover
<1>8. \A n \in 1 .. Cardinality(C) : r[n] \in C /\ Rank(lt, C, r[n]) = n - 1
  <2>. SUFFICES ASSUME NEW n \in 1 .. Cardinality(C)
                PROVE  r[n] \in C /\ Rank(lt, C, r[n]) = n - 1
    OBVIOUS
  <2>1. \E c \in C : Cardinality({d \in C : Precedes(d, c)}) = n - 1
    <3>1. n - 1 \in 0 .. Cardinality(C) - 1
      BY <1>2
    <3>. QED  BY <1>5, <1>7, <3>1
  <2>2. r[n] \in C /\ Cardinality({d \in C : Precedes(d, r[n])}) = n - 1
    <3>1. r[n] = CHOOSE c \in C : Cardinality({d \in C : Precedes(d, c)}) = n - 1
      BY <1>6 DEF Nth
    <3>. QED  BY <2>1, <3>1, Zenon
  <2>. QED  BY <1>5, <2>2
<1>9. r = [n \in 1 .. Cardinality(C) |-> r[n]] /\ DOMAIN r = 1 .. Cardinality(C)
  BY <1>6
<1>10. \A m, n \in 1 .. Cardinality(C) : r[m] = r[n] => m = n
  <2>1. \A m, n \in 1 .. Cardinality(C) : m - 1 = n - 1 => m = n
    OBVIOUS
  <2>. QED  BY <1>8, <2>1
<1>11. \A c \in C : \E n \in 1 .. Cardinality(C) : r[n] = c
  <2>. SUFFICES ASSUME NEW c \in C
                PROVE  \E n \in 1 .. Cardinality(C) : r[n] = c
    OBVIOUS
  <2>1. PICK k \in 0 .. Cardinality(C) - 1 : k = Rank(lt, C, c)
    BY <1>7
  <2>2. k + 1 \in 1 .. Cardinality(C) /\ k + 1 - 1 = k
    BY <1>2
  <2>3. r[k + 1] = c
    BY <1>7, <1>8, <2>1, <2>2
  <2>. QED  BY <2>2, <2>3
<1>. QED  BY <1>1, <1>2, <1>4, <1>8, <1>9, <1>10, <1>11

----------------------------------------------------------------------------
(* The inductive invariant.                                                 *)

LEMMA ScoresAreNumbers == file \in Files => Scored(MapShard(Rows))
  BY ScoreAssumption DEF Scored, Rows

(* What is known of an answer.                                              *)
LEMMA KnownEntries ==
    ASSUME NEW S, NEW m \in Nat, NEW reply \in [1 .. m -> S]
    PROVE  Known(reply) \in Seq({a \in S : a.id \in DOMAIN ranked})
<1>1. PICK known : known = {i \in DOMAIN reply : reply[i].id \in DOMAIN ranked}
  OBVIOUS
<1>2. /\ known \in SUBSET (1 .. m)
      /\ \A i \in known : reply[i] \in {a \in S : a.id \in DOMAIN ranked}
  BY <1>1
<1>3. IsFiniteSet(known) /\ Cardinality(known) \in Nat
  <2>1. IsFiniteSet(1 .. m)
    BY FS_Interval
  <2>2. IsFiniteSet(known)
    BY <1>2, <2>1, FS_Subset
  <2>. QED  BY <2>2, FS_CardinalityType
<1>4. PICK lt : lt = {e \in known \X known : e[1] < e[2]}
  OBVIOUS
<1>5. Orders(lt, known)
  <2>1. \A i, j : <<i, j>> \in lt <=> i \in known /\ j \in known /\ i < j
    BY <1>4
  <2>2. \A i \in known : i \in Int
    BY <1>2
  <2>. QED  BY <2>1, <2>2 DEF Orders
<1>6. \A i \in known : Rank(lt, known, i) = Cardinality({j \in known : j < i})
  <2>1. \A i \in known : {j \in known : <<j, i>> \in lt} = {j \in known : j < i}
    BY <1>4
  <2>. QED  BY <2>1 DEF Rank
<1> DEFINE at(n) == CHOOSE i \in known : Cardinality({j \in known : j < i}) = n - 1
<1>7. \A n \in 1 .. Cardinality(known) : at(n) \in known
  <2>. SUFFICES ASSUME NEW n \in 1 .. Cardinality(known)
                PROVE  at(n) \in known
    OBVIOUS
  <2>1. n - 1 \in 0 .. Cardinality(known) - 1
    BY <1>3
  <2>2. \E i \in known : Cardinality({j \in known : j < i}) = n - 1
    BY <1>3, <1>5, <1>6, <2>1, RanksCover
  <2>. QED  BY <2>2, Zenon
<1>8. Known(reply) = [n \in 1 .. Cardinality(known) |-> reply[at(n)]]
  BY <1>1 DEF Known, Quantify
<1>9. PICK T, c : c \in Nat /\ T = {a \in S : a.id \in DOMAIN ranked} /\ c = Cardinality(known)
  BY <1>3
<1>10. \A n \in 1 .. c : reply[at(n)] \in T
  BY <1>2, <1>7, <1>9
<1>. HIDE DEF at
<1>11. Known(reply) \in [1 .. c -> T]
  BY <1>8, <1>9, <1>10
<1>12. Known(reply) \in Seq(T)
  <2>1. PICK s : s = Known(reply)
    OBVIOUS
  <2>2. s \in [1 .. c -> T] /\ c \in Nat
    BY <1>9, <1>11, <2>1
  <2>3. s \in Seq(T)
    BY <2>2
  <2>. QED  BY <2>1, <2>3
<1>. QED  BY <1>9, <1>12

(* What the shards are while they are merged.                               *)
ShardsOfFile ==
    stage \in {"mapped", "scored"} =>
       \E size \in 1 .. Max({1, Len(file)}) : shards = ShardsOf(size)

(* An anomaly of the report names a candidate, and its text is about that   *)
(* one or about nobody.                                                     *)
ReportEntry ==
    {a \in [id : DOMAIN ranked, confidence : Nat, about : Nat] : a.about \in {0, a.id}}

LEMMA RoundedIs ==
    ASSUME NEW s \in Nat
    PROVE  /\ Rounded(s) \in Nat
           /\ -Digit <= 2 * (Rounded(s) - s) /\ 2 * (Rounded(s) - s) <= Digit
<1>1. Digit \in Nat \ {0}
  BY DetectionAssumption
<1>2. PICK d \in Nat \ {0} : d = Digit
  BY <1>1
<1>3. PICK k \in Nat : k = (2 * s + d) \div (2 * d) /\ k * (2 * d) <= 2 * s + d
                        /\ 2 * s + d < (k + 1) * (2 * d)
  <2>1. 2 * s + d \in Nat /\ 2 * d \in Nat \ {0}
    BY <1>2
  <2>. QED  BY <2>1, DivLaw
<1>4. PICK m \in Nat : m = d * k /\ k * (2 * d) = 2 * m /\ (k + 1) * (2 * d) = 2 * m + 2 * d
  BY <1>2, <1>3
<1>5. Rounded(s) = m
  BY <1>2, <1>3, <1>4 DEF Rounded
<1>. QED  BY <1>2, <1>3, <1>4, <1>5

(* Every stage of an analysis.                                              *)
Detected ==
    /\ file \in Files /\ model \in BOOLEAN
    /\ stage \in {"queued", "mapped", "failed", "scored", "narrated", "saved"}
    /\ ShardsOfFile
    /\ stage \in {"queued", "mapped", "failed"} => ranked = <<>>
    /\ stage \in {"scored", "narrated", "saved"} => ranked = Ranked(MapShard(Rows))
    /\ stage \in {"queued", "mapped", "failed", "scored"} => report = <<>>
    /\ report \in Seq(ReportEntry)
    /\ stage \in {"narrated", "saved"} /\ ~model =>
          report = [n \in DOMAIN ranked |->
                      [id |-> n, confidence |-> Rounded(ranked[n].score), about |-> n]]
    /\ stage # "saved" => findings = <<>>
    /\ stage = "saved" => findings = [n \in DOMAIN report |-> ToRow(report[n])]

LEMMA DetectedInit == Init => Detected
<1>1. <<>> \in Seq(ReportEntry)
  OBVIOUS
<1>. QED  BY <1>1 DEF Init, Detected, ShardsOfFile

(* The candidates of a file by their position in the ranking.               *)
LEMMA RanksAre ==
    ASSUME file \in Files, NEW r, r = Ranked(MapShard(Rows))
    PROVE  /\ \E n \in Nat : DOMAIN r = 1 .. n /\ n = Cardinality(Found(MapShard(Rows)))
           /\ r = [n \in DOMAIN r |-> r[n]]
           /\ \A n \in DOMAIN r : r[n] \in Found(MapShard(Rows))
           /\ \A m, n \in DOMAIN r : r[m] = r[n] => m = n
           /\ \A c \in Found(MapShard(Rows)) : \E n \in DOMAIN r : r[n] = c
           /\ \A n \in DOMAIN r : /\ r[n].ids \in (SUBSET Ids(Rows)) \ {{}}
                                  /\ r[n].score >= MinScore /\ r[n].score \in Nat
<1>1. PICK U, p : U = Rows /\ p = MapShard(U)
  OBVIOUS
<1>2. Rowset(U) /\ Scored(p)
  BY <1>1, RowsAre, ScoresAreNumbers
<1>3. r = Ranked(p)
  BY <1>1
<1>4. /\ Cardinality(Found(p)) \in Nat
      /\ r = [n \in 1 .. Cardinality(Found(p)) |-> r[n]]
      /\ DOMAIN r = 1 .. Cardinality(Found(p))
      /\ \A n \in DOMAIN r : r[n] \in Found(p)
      /\ \A m, n \in DOMAIN r : r[m] = r[n] => m = n
      /\ \A c \in Found(p) : \E n \in DOMAIN r : r[n] = c
  BY <1>1, <1>2, <1>3, RankedIs
<1>5. \A c \in Found(p) : /\ c.ids \in (SUBSET Ids(U)) \ {{}} /\ c.score >= MinScore
                          /\ c.score \in Nat
  BY <1>1, <1>2, FoundIs
<1>. QED  BY <1>1, <1>4, <1>5

(* Every step keeps the invariant.                                          *)
LEMMA DetectedNext == Detected /\ [Next]_vars => Detected'
<1>. SUFFICES ASSUME Detected, [Next]_vars
              PROVE  Detected'
  OBVIOUS
<1>1. CASE MapShards
  <2>1. \E size \in 1 .. Max({1, Len(file)}) : shards' = ShardsOf(size)
    BY <1>1 DEF MapShards, ShardsOf, Count
  <2>2. /\ file' = file /\ stage = "queued" /\ stage' = "mapped"
        /\ ranked' = ranked /\ report' = report /\ model' = model /\ findings' = findings
    BY <1>1 DEF MapShards
  <2>3. \A size : ShardsOf(size)' = ShardsOf(size)
    BY <2>2 DEF ShardsOf, Count, Slice
  <2>4. ShardsOfFile'
    BY <2>1, <2>2, <2>3 DEF ShardsOfFile
  <2>. QED  BY <2>2, <2>4 DEF Detected
<1>6. CASE LoadFails
  <2>1. /\ stage = "mapped" /\ stage' = "failed"
        /\ UNCHANGED <<file, shards, ranked, report, model, findings>>
    BY <1>6 DEF LoadFails
  <2>. QED  BY <2>1 DEF Detected, ShardsOfFile, ReportEntry
<1>2. CASE Reduce
  <2>1. /\ file' = file /\ shards' = shards /\ stage = "mapped" /\ stage' = "scored"
        /\ ranked' = Ranked(MergeAll(shards)) /\ report' = report /\ model' = model
        /\ findings' = findings
    BY <1>2 DEF Reduce
  <2>2. PICK size \in 1 .. Max({1, Len(file)}) : shards = ShardsOf(size)
    BY <2>1 DEF Detected, ShardsOfFile
  <2>3. Alike(MergeAll(shards), MapShard(Rows))
    <3>1. file \in Files /\ size \in Nat \ {0}
      BY DEF Detected
    <3>. QED  BY <2>2, <3>1, ShardsMerge DEF AlikeTo
  <2>4. ranked' = Ranked(MapShard(Rows))
    <3>1. PICK p, q : p = MergeAll(shards) /\ q = MapShard(Rows)
      OBVIOUS
    <3>. QED  BY <2>1, <2>3, <3>1, RankedSame
  <2>5. Rows' = Rows
    BY <2>1 DEF Rows
  <2>6. ranked' = Ranked(MapShard(Rows'))
    BY <2>4, <2>5
  <2>7. \A n : ShardsOf(n)' = ShardsOf(n)
    BY <2>1 DEF ShardsOf, Count, Slice
  <2>8. ShardsOfFile'
    BY <2>1, <2>2, <2>7 DEF ShardsOfFile
  <2>. QED  BY <2>1, <2>6, <2>8 DEF Detected
<1>3. CASE AnalyzeCandidates
  <2>1. /\ file' = file /\ ranked' = ranked /\ findings' = findings
        /\ stage = "scored" /\ stage' = "narrated" /\ (Fallback \/ Answer)
    BY <1>3 DEF AnalyzeCandidates
  <2>2. Rows' = Rows
    BY <2>1 DEF Rows
  <2>3. PICK n \in Nat : DOMAIN ranked = 1 .. n
    BY <2>1, RanksAre DEF Detected
  <2>4. \A k \in DOMAIN ranked : ranked[k].score \in Nat
    BY <2>1, RanksAre DEF Detected
  <2>7. ReportEntry' = ReportEntry
    BY <2>1 DEF ReportEntry
  <2>5. CASE Fallback
    <3>1. /\ model' = FALSE
          /\ report' = [k \in DOMAIN ranked |->
                          [id |-> k, confidence |-> Rounded(ranked[k].score), about |-> k]]
      BY <2>5 DEF Fallback
    <3>2. report' \in Seq(ReportEntry)
      <4>1. PICK value : value = report'
        OBVIOUS
      <4>2. \A k \in 1 .. n :
               [id |-> k, confidence |-> Rounded(ranked[k].score), about |-> k] \in ReportEntry
        <5>1. ASSUME NEW k \in 1 .. n
              PROVE  [id |-> k, confidence |-> Rounded(ranked[k].score), about |-> k]
                        \in ReportEntry
          <6>1. PICK c : c = Rounded(ranked[k].score)
            OBVIOUS
          <6>2. ranked[k].score \in Nat
            BY <2>3, <2>4
          <6>3. c \in Nat
            BY <6>1, <6>2, RoundedIs
          <6>4. k \in Nat /\ k \in DOMAIN ranked
            BY <2>3
          <6>5. [id |-> k, confidence |-> c, about |-> k] \in ReportEntry
            BY <6>3, <6>4 DEF ReportEntry
          <6>. QED  BY <6>1, <6>5
        <5>. QED  BY <5>1
      <4>3. \A k \in 1 .. n : value[k] \in ReportEntry
        BY <2>3, <3>1, <4>1, <4>2
      <4>4. value = [k \in 1 .. n |-> value[k]]
        BY <2>3, <3>1, <4>1
      <4>. HIDE DEF ReportEntry
      <4>5. value \in Seq(ReportEntry)
        BY <4>3, <4>4
      <4>. QED  BY <4>1, <4>5
    <3>3. \A k : Rounded(k)' = Rounded(k)
      BY DEF Rounded
    <3>. QED  BY <2>1, <2>2, <2>7, <3>1, <3>2, <3>3 DEF Detected, ShardsOfFile
  <2>6. CASE Answer
    <3>1. PICK shown \in 0 .. Len(ranked) :
             \E reply \in BoundedSeq(Replies(shown), MaxReply) : report' = Known(reply)
      BY <2>6 DEF Answer
    <3>2. PICK S : S = Replies(shown)
      OBVIOUS
    <3>3. PICK reply \in BoundedSeq(S, MaxReply) : report' = Known(reply)
      BY <3>1, <3>2
    <3>4. PICK m \in Nat : reply \in [1 .. m -> S]
      <4>1. reply \in UNION {[1 .. m -> S] : m \in 0 .. MaxReply}
        BY <3>3 DEF BoundedSeq, SeqOf
      <4>. QED  BY <4>1
    <3>5. report' \in Seq({a \in S : a.id \in DOMAIN ranked})
      BY <3>3, <3>4, KnownEntries
    <3>6. {a \in S : a.id \in DOMAIN ranked} \subseteq ReportEntry
      <4>1. shown \in Nat /\ Confidence \subseteq Nat
        <5>1. Len(ranked) = n
          <6>1. ranked = [k \in 1 .. n |-> ranked[k]]
            BY <2>1, <2>3, RanksAre DEF Detected
          <6>. QED  BY <6>1, LenOfTable
        <5>. QED  BY <5>1, DetectionAssumption
      <4>2. ASSUME NEW a \in S, a.id \in DOMAIN ranked
            PROVE  /\ a = [id |-> a.id, confidence |-> a.confidence, about |-> a.about]
                   /\ a.confidence \in Nat /\ a.about \in Nat /\ a.about \in {0, a.id}
        <5>1. PICK top : top = Len(ranked) + 1
          OBVIOUS
        <5>2. a \in {b \in [id : 1 .. top, confidence : Confidence, about : 0 .. shown] :
                       b.about = IF b.id <= shown THEN b.id ELSE 0}
          BY <3>2, <4>2, <5>1 DEF Replies
        <5>3. /\ a \in [id : 1 .. top, confidence : Confidence, about : 0 .. shown]
              /\ a.about = IF a.id <= shown THEN a.id ELSE 0
          BY <5>2
        <5>4. a = [id |-> a.id, confidence |-> a.confidence, about |-> a.about]
          BY <5>3
        <5>5. a.confidence \in Nat /\ a.about \in Nat
          <6>1. a.confidence \in Confidence /\ a.about \in 0 .. shown
            BY <5>3
          <6>2. PICK x, y, C : x = a.confidence /\ y = a.about /\ C = Confidence
            OBVIOUS
          <6>3. x \in Nat
            BY <4>1, <6>1, <6>2, Zenon
          <6>4. y \in 0 .. shown /\ shown \in Nat
            BY <4>1, <6>1, <6>2, Zenon
          <6>5. y \in Nat
            BY <6>4
          <6>. QED  BY <6>2, <6>3, <6>5, Zenon
        <5>6. a.about \in {0, a.id}
          BY <5>3
        <5>. QED  BY <5>4, <5>5, <5>6
      <4>. QED  BY <4>2 DEF ReportEntry
    <3>7. report' \in Seq(ReportEntry)
      <4>1. PICK A, B : A = {a \in S : a.id \in DOMAIN ranked} /\ B = ReportEntry
        OBVIOUS
      <4>2. PICK s : s = report'
        OBVIOUS
      <4>3. s \in Seq(A) /\ A \subseteq B
        BY <3>5, <3>6, <4>1, <4>2
      <4>4. s \in Seq(B)
        BY <4>3
      <4>. QED  BY <4>1, <4>2, <4>4
    <3>8. model' = TRUE
      BY <2>6 DEF Answer
    <3>. QED  BY <2>1, <2>2, <2>7, <3>7, <3>8 DEF Detected, ShardsOfFile
  <2>. QED  BY <2>1, <2>5, <2>6
<1>4. CASE SaveAnomalies
  <2>1. /\ file' = file /\ ranked' = ranked /\ report' = report /\ model' = model
        /\ stage = "narrated" /\ stage' = "saved"
        /\ findings' = [n \in DOMAIN report |-> ToRow(report[n])]
    BY <1>4 DEF SaveAnomalies
  <2>2. Rows' = Rows
    BY <2>1 DEF Rows
  <2>3. \A a : ToRow(a)' = ToRow(a)
    BY <2>1 DEF ToRow
  <2>4. findings' = [n \in DOMAIN report' |-> ToRow(report[n])']
    BY <2>1, <2>3
  <2>5. ReportEntry' = ReportEntry /\ \A k : Rounded(k)' = Rounded(k)
    BY <2>1 DEF ReportEntry, Rounded
  <2>. QED  BY <2>1, <2>2, <2>4, <2>5 DEF Detected, ShardsOfFile
<1>5. CASE UNCHANGED vars
  <2>1. UNCHANGED <<file, shards, ranked, report, model, findings, stage>>
    BY <1>5 DEF vars
  <2>2. Rows' = Rows
    BY <2>1 DEF Rows
  <2>3. \A size : ShardsOf(size)' = ShardsOf(size)
    BY <2>1 DEF ShardsOf, Count, Slice
  <2>4. \A a : ToRow(a)' = ToRow(a)
    BY <2>1 DEF ToRow
  <2>5. ReportEntry' = ReportEntry /\ \A k : Rounded(k)' = Rounded(k)
    BY <2>1 DEF ReportEntry, Rounded
  <2>. QED  BY <2>1, <2>2, <2>3, <2>4, <2>5 DEF Detected, ShardsOfFile
<1>. QED  BY <1>1, <1>2, <1>3, <1>4, <1>5, <1>6 DEF Next

(* A one-to-one image is as large.                                          *)
LEMMA ImageInjective ==
    ASSUME NEW S, IsFiniteSet(S), NEW f, \A x, y \in S : f[x] = f[y] => x = y
    PROVE  Cardinality({f[x] : x \in S}) = Cardinality(S)
<1>1. PICK T, g : T = {f[x] : x \in S} /\ g = [x \in S |-> f[x]]
  OBVIOUS
<1>2. g \in Injection(S, T)
  BY <1>1 DEF Injection, IsInjective
<1>3. g \in Surjection(S, T)
  BY <1>1 DEF Surjection
<1>4. ExistsBijection(S, T)
  BY <1>2, <1>3 DEF ExistsBijection, Bijection
<1>. QED  BY <1>1, <1>4, FS_Bijection

(* As many positions of a kind as candidates of it.                         *)
OfKind(r, kind) == {n \in DOMAIN r : r[n].kind = kind}

LEMMA KindCount ==
    ASSUME file \in Files, NEW r, r = Ranked(MapShard(Rows)), NEW i \in 1 .. 6
    PROVE  /\ IsFiniteSet(OfKind(r, Kinds[i]))
           /\ Cardinality(OfKind(r, Kinds[i])) = Cardinality(Top(ByKind(MapShard(Rows))[i]))
<1>0. PICK N : N = OfKind(r, Kinds[i])
  OBVIOUS
<1>1. N = {n \in DOMAIN r : r[n].kind = Kinds[i]}
  BY <1>0 DEF OfKind
<1>2. PICK U, p : U = Rows /\ p = MapShard(U)
  OBVIOUS
<1>3. PICK T : T = Top(ByKind(p)[i])
  OBVIOUS
<1>4. /\ \E n \in Nat : DOMAIN r = 1 .. n
      /\ \A n \in DOMAIN r : r[n] \in Found(p)
      /\ \A m, n \in DOMAIN r : r[m] = r[n] => m = n
      /\ \A c \in Found(p) : \E n \in DOMAIN r : r[n] = c
  BY <1>2, RanksAre
<1>5. T = {c \in Found(p) : c.kind = Kinds[i]}
  BY <1>2, <1>3, RowsAre, ScoresAreNumbers, FoundIs
<1>6. IsFiniteSet(N)
  <2>1. PICK n \in Nat : DOMAIN r = 1 .. n
    BY <1>4
  <2>2. IsFiniteSet(1 .. n) /\ N \in SUBSET (1 .. n)
    BY <1>1, <2>1, FS_Interval
  <2>. QED  BY <2>2, FS_Subset
<1>7. {r[n] : n \in N} = T
  BY <1>1, <1>4, <1>5
<1>8. \A m, n \in N : r[m] = r[n] => m = n
  BY <1>1, <1>4
<1>9. Cardinality({r[n] : n \in N}) = Cardinality(N)
  BY <1>6, <1>8, ImageInjective
<1>. QED  BY <1>0, <1>2, <1>3, <1>6, <1>7, <1>9

(* A list cut at the cap bounds the candidates of its kind.                 *)
LEMMA DetectedTypeOK == Detected => TypeOK
<1>. SUFFICES ASSUME Detected PROVE TypeOK
  OBVIOUS
<1>1. file \in Files /\ model \in BOOLEAN
  BY DEF Detected
<1>2. stage \in {"queued", "mapped", "failed", "scored", "narrated", "saved"}
  BY DEF Detected
<1>3. ranked = <<>> \/ ranked = Ranked(MapShard(Rows))
  BY DEF Detected
<1>4. \A n \in DOMAIN ranked : /\ ranked[n].ids \in (SUBSET Ids(Rows)) \ {{}}
                               /\ ranked[n].score >= MinScore
  <2>1. CASE ranked = <<>>
    BY <2>1
  <2>2. CASE ranked = Ranked(MapShard(Rows))
    BY <1>1, <2>2, RanksAre
  <2>. QED  BY <1>3, <2>1, <2>2
<1>5. \A i \in DOMAIN Kinds :
         Quantify(DOMAIN ranked, LAMBDA n : ranked[n].kind = Kinds[i]) <= MaxPerDetector
  <2>. SUFFICES ASSUME NEW i \in 1 .. 6
                PROVE  Cardinality({n \in DOMAIN ranked : ranked[n].kind = Kinds[i]})
                          <= MaxPerDetector
    BY KindsAre DEF Quantify
  <2>1. CASE ranked = <<>>
    <3>1. {n \in DOMAIN ranked : ranked[n].kind = Kinds[i]} = {}
      BY <2>1
    <3>2. Cardinality({}) = 0 /\ MaxPerDetector \in Nat
      BY FS_EmptySet, DetectionAssumption
    <3>3. 0 <= MaxPerDetector
      BY <3>2
    <3>. QED  BY <3>1, <3>2, <3>3, Zenon
  <2>2. CASE ranked = Ranked(MapShard(Rows))
    <3>1. Cardinality({n \in DOMAIN ranked : ranked[n].kind = Kinds[i]})
             = Cardinality(Top(ByKind(MapShard(Rows))[i]))
      <4>1. PICK r : r = ranked
        OBVIOUS
      <4>2. r = Ranked(MapShard(Rows))
        BY <2>2, <4>1
      <4>3. Cardinality(OfKind(r, Kinds[i])) = Cardinality(Top(ByKind(MapShard(Rows))[i]))
        BY <1>1, <4>2, KindCount
      <4>. QED  BY <4>1, <4>3 DEF OfKind
    <3>2. PICK U, C : U = Rows /\ C = ByKind(MapShard(U))[i]
      OBVIOUS
    <3>3. Rowset(U) /\ Scored(MapShard(U))
      BY <1>1, <3>2, RowsAre, ScoresAreNumbers
    <3>4. Detector(Kinds[i], C, U) /\ \A c \in C : c.score \in Nat
      BY <3>2, <3>3, DetectorsAre DEF Scored
    <3>5. Cardinality(Top(C)) <= MaxPerDetector
      BY <3>4, TopOf
    <3>. QED  BY <3>1, <3>2, <3>5
  <2>. QED  BY <1>3, <2>1, <2>2
<1>6. report \in Seq([id : DOMAIN ranked, confidence : Nat, about : Nat])
  <2>1. PICK A, B, q : /\ A = ReportEntry /\ q = report
                       /\ B = [id : DOMAIN ranked, confidence : Nat, about : Nat]
    OBVIOUS
  <2>2. q \in Seq(A) /\ A \subseteq B
    BY <2>1 DEF Detected, ReportEntry
  <2>3. q \in Seq(B)
    BY <2>2
  <2>. QED  BY <2>1, <2>3
<1>7. Len(findings) <= Len(report)
  <2>1. PICK S, q : S = [id : DOMAIN ranked, confidence : Nat, about : Nat] /\ q = report
    OBVIOUS
  <2>2. Len(q) \in Nat /\ DOMAIN q = 1 .. Len(q)
    BY <1>6, <2>1
  <2>3. CASE findings = <<>>
    <3>1. Len(findings) = 0
      BY <2>3
    <3>. QED  BY <2>1, <2>2, <3>1
  <2>4. CASE findings = [n \in DOMAIN report |-> ToRow(report[n])]
    <3>1. PICK s : s = findings
      OBVIOUS
    <3>2. s = [n \in 1 .. Len(q) |-> s[n]]
      BY <2>1, <2>2, <2>4, <3>1
    <3>3. Len(s) = Len(q)
      BY <2>2, <3>2, LenOfTable
    <3>. QED  BY <2>1, <2>2, <3>1, <3>3
  <2>. QED  BY <2>3, <2>4 DEF Detected
<1>. QED  BY <1>1, <1>2, <1>4, <1>5, <1>6, <1>7 DEF TypeOK

LEMMA DetectedSharding == Detected => ShardingInvisible
<1>. SUFFICES ASSUME Detected, stage = "scored"
              PROVE  /\ ranked = Ranked(MapShard(Rows))
                     /\ ranked = Ranked(MergeAll(Reverse(shards)))
                     /\ \A a : FewHosts(a) =>
                           HostsListed(MergeAll(shards), a) = HostsListed(MapShard(Rows), a)
  BY DEF ShardingInvisible
<1>1. PICK size \in 1 .. Max({1, Len(file)}) : shards = ShardsOf(size)
  BY DEF Detected, ShardsOfFile
<1>2. AlikeTo(MergeAll(shards), Rows) /\ AlikeTo(MergeAll(Reverse(shards)), Rows)
  <2>1. file \in Files /\ size \in Nat \ {0}
    BY DEF Detected
  <2>. QED  BY <1>1, <2>1, ShardsMerge
<1>3. PICK b, c : b = MergeAll(Reverse(shards)) /\ c = MapShard(Rows)
  OBVIOUS
<1>4. Ranked(b) = Ranked(c)
  BY <1>2, <1>3, RankedSame DEF AlikeTo
<1>5. ASSUME NEW a, FewHosts(a)
      PROVE  HostsListed(MergeAll(shards), a) = HostsListed(MapShard(Rows), a)
  <2>1. Rowset(Rows)
    BY RowsAre DEF Detected
  <2>. QED  BY <1>2, <1>5, <2>1, HostsSame
<1>. QED  BY <1>3, <1>4, <1>5 DEF Detected

----------------------------------------------------------------------------
(* 5. The rows a candidate cites.                                           *)

(* No user or host has the name that stands for a missing one.              *)
Named(U) == \A x \in U : x.username # Unknown /\ x.host # Unknown

(* The rows a set of ids names.                                             *)
RowsWith(U, ids) == {x \in U : x.id \in ids}

(* Ids tell rows apart: the ids of A name A, and are as many.               *)
LEMMA RowsNamed ==
    ASSUME NEW U, Rowset(U), NEW A \in SUBSET U
    PROVE  /\ RowsWith(U, Ids(A)) = A
           /\ IsFiniteSet(A) /\ Cardinality(Ids(A)) = Cardinality(A)
<1>1. \A x, y \in U : x.id = y.id => x = y
  BY DEF Rowset
<1>2. \A x \in U : x.id \in Ids(A) <=> x \in A
  BY <1>1 DEF Ids
<1>3. IsFiniteSet(A)
  BY FS_Subset DEF Rowset
<1>4. PICK f : f = [x \in A |-> x.id]
  OBVIOUS
<1>5. \A x, y \in A : f[x] = f[y] => x = y
  BY <1>1, <1>4
<1>6. Cardinality({f[x] : x \in A}) = Cardinality(A)
  BY <1>3, <1>5, ImageInjective
<1>7. {f[x] : x \in A} = Ids(A)
  BY <1>4 DEF Ids
<1>. QED  BY <1>2, <1>3, <1>6, <1>7 DEF RowsWith

(* OneBehaviour, kind by kind.                                              *)
Bursting(U, R) ==
    \E r \in R : \A x \in R :
       /\ x.client_ip = r.client_ip /\ Burst(U, MinuteKey(x)) \subseteq R
       /\ Cardinality(Burst(U, MinuteKey(x))) >= MinBurst
Exfiltrating(U, R) ==
    \E r \in R : R = {x \in Sized(U) : x.username = r.username /\ x.host = r.host}
Beaconing(U, R) ==
    \E r \in R : /\ R = {x \in Timed(U) : x.client_ip = r.client_ip /\ x.host = r.host}
                 /\ Cardinality({x.ts : x \in R}) >= MinBeaconHits
Blocked(U, R) ==
    \E r \in R : R = {x \in U : x.threat_name = r.threat_name /\ x.host = r.host}
Visiting(U, R) ==
    \E r \in R :
       /\ R = {x \in U : x.host = r.host}
       /\ \A x, y \in R : None \in {x.username, y.username} \/ x.username = y.username
       /\ Cardinality(R) <= RareHits
HourCounts(U) == [h \in {HourOf(x) : x \in Timed(U)} |-> Cardinality(InHourOf(U, h))]
Working(U, R) ==
    \E r \in R :
       /\ R = {x \in Timed(U) : Actor(x) = Actor(r) /\ HourOf(x) \in QuietHours(HourCounts(U))}
       /\ Cardinality({HourOf(x) : x \in Timed(U)}) >= MinHours

LEMMA BehavioursAre ==
    ASSUME NEW R
    PROVE  /\ Exfiltrating(Rows, R) => OneBehaviour("data_exfil", R)
           /\ Beaconing(Rows, R) => OneBehaviour("beaconing", R)
           /\ Blocked(Rows, R) => OneBehaviour("blocked_threat", R)
           /\ Visiting(Rows, R) => OneBehaviour("rare_destination", R)
<1>1. Exfiltrating(Rows, R) => OneBehaviour("data_exfil", R)
  BY DEF Exfiltrating, OneBehaviour
<1>2. Beaconing(Rows, R) => OneBehaviour("beaconing", R)
  BY DEF Beaconing, OneBehaviour
<1>3. Blocked(Rows, R) => OneBehaviour("blocked_threat", R)
  BY DEF Blocked, OneBehaviour
<1>4. Visiting(Rows, R) => OneBehaviour("rare_destination", R)
  BY DEF Visiting, OneBehaviour
<1>. QED  BY <1>1, <1>2, <1>3, <1>4

LEMMA WorkingIs ==
    ASSUME NEW R, Working(Rows, R)
    PROVE  OneBehaviour("off_hours", R)
<1>1. \A h : InHour(h) = InHourOf(Rows, h)
  BY DEF InHour, InHourOf
<1>2. HourCounts(Rows) = [h \in {HourOf(x) : x \in Timed(Rows)} |-> Cardinality(InHour(h))]
  BY <1>1 DEF HourCounts
<1>3. PICK r \in R :
         /\ R = {x \in Timed(Rows) : /\ Actor(x) = Actor(r)
                                     /\ HourOf(x) \in QuietHours(HourCounts(Rows))}
         /\ Cardinality({HourOf(x) : x \in Timed(Rows)}) >= MinHours
  BY DEF Working
<1>. QED  BY <1>2, <1>3 DEF OneBehaviour

LEMMA BurstingIs ==
    ASSUME NEW R, R \subseteq Located(Rows), Bursting(Rows, R)
    PROVE  OneBehaviour("volume_spike", R)
<1>1. \A x \in R : InMinute(x) = Burst(Rows, MinuteKey(x))
  BY DEF InMinute, Burst, MinuteKey, Located
<1>. QED  BY <1>1 DEF Bursting, OneBehaviour

(* The rows behind the key of a candidate, for each detector.               *)
LEMMA ThreatsCite ==
    ASSUME NEW U, Rowset(U), Named(U), NEW c \in BlockedThreats(MapShard(U))
    PROVE  Blocked(U, RowsWith(U, c.ids))
<1>1. PICK m : m = MapShard(U).threats
  OBVIOUS
<1>2. PICK k \in DOMAIN m : c.ids = m[k].ids
  BY <1>1 DEF BlockedThreats, Candidate
<1>3. /\ m[k] = ThreatGroup(Threat(U, k)) /\ Threat(U, k) # {} /\ Threat(U, k) \in SUBSET U
  BY <1>1, BlockedAre
<1>4. PICK A : A = Threat(U, k)
  OBVIOUS
<1>5. RowsWith(U, c.ids) = A
  BY <1>2, <1>3, <1>4, RowsNamed DEF ThreatGroup
<1>6. PICK r \in A : TRUE
  BY <1>3, <1>4
<1>7. \A x \in U : x \in A <=> x.threat_name # None /\ ThreatKey(x) = k
  BY <1>4 DEF Threat, Threats
<1>8. \A x, y \in U : OrUnknown(x.host) = OrUnknown(y.host) <=> x.host = y.host
  BY DEF OrUnknown, Named
<1>9. \A x \in U : ThreatKey(x) = ThreatKey(r)
                      <=> x.threat_name = r.threat_name /\ OrUnknown(x.host) = OrUnknown(r.host)
  BY DEF ThreatKey
<1>10. r \in U
  BY <1>3, <1>4
<1>11. A = {x \in U : x.threat_name = r.threat_name /\ x.host = r.host}
  BY <1>3, <1>4, <1>7, <1>8, <1>9, <1>10
<1>. QED  BY <1>5, <1>6, <1>11 DEF Blocked

LEMMA ExfilCites ==
    ASSUME NEW U, Rowset(U), Named(U), NEW c \in DataExfil(MapShard(U))
    PROVE  Exfiltrating(U, RowsWith(U, c.ids))
<1>1. PICK p, m : p = MapShard(U) /\ m = p.user_host
  OBVIOUS
<1>2. PICK k \in DOMAIN m : c.ids = m[k].ids
  <2>1. PICK k \in DOMAIN m :
           c = Candidate("data_exfil", k,
                         Score("data_exfil", <<Max(DOMAIN m[k].logs), p.req_byte_logs>>),
                         m[k].ids, <<m[k].total, Max(DOMAIN m[k].logs), p.req_byte_logs>>)
    BY <1>1 DEF DataExfil
  <2>. QED  BY <2>1 DEF Candidate
<1>3. /\ m[k] = ByteGroup(Transfer(U, k)) /\ Transfer(U, k) # {} /\ Transfer(U, k) \in SUBSET U
  BY <1>1, PairsAre
<1>4. PICK A : A = Transfer(U, k)
  OBVIOUS
<1>5. RowsWith(U, c.ids) = A
  BY <1>2, <1>3, <1>4, RowsNamed, ByteGroupIds
<1>6. PICK r \in A : TRUE
  BY <1>3, <1>4
<1>7. \A x \in Sized(U) : x \in A <=> PairKey(x) = k
  BY <1>4 DEF Transfer
<1>8. A \subseteq Sized(U) /\ Sized(U) \subseteq U
  BY <1>4 DEF Transfer, Sized
<1>9. \A x, y \in U : /\ OrUnknown(x.host) = OrUnknown(y.host) <=> x.host = y.host
                      /\ OrUnknown(x.username) = OrUnknown(y.username)
                            <=> x.username = y.username
  BY DEF OrUnknown, Named
<1>10. \A x \in U : PairKey(x) = PairKey(r) <=> /\ OrUnknown(x.username) = OrUnknown(r.username)
                                                /\ OrUnknown(x.host) = OrUnknown(r.host)
  BY DEF PairKey
<1>11. A = {x \in Sized(U) : x.username = r.username /\ x.host = r.host}
  BY <1>7, <1>8, <1>9, <1>10
<1>. QED  BY <1>5, <1>6, <1>11 DEF Exfiltrating

LEMMA DestinationsCite ==
    ASSUME NEW U, Rowset(U), NEW c \in RareDestinations(MapShard(U))
    PROVE  Visiting(U, RowsWith(U, c.ids))
<1>1. PICK p, m : p = MapShard(U) /\ m = p.hosts
  OBVIOUS
<1>2. PICK h \in DOMAIN m : /\ c.ids = m[h].ids /\ Cardinality(m[h].users) = 1
                            /\ Cardinality(m[h].ids) <= RareHits
  <2> DEFINE busiest == Max({Cardinality(m[g].ids) : g \in DOMAIN m})
  <2>1. PICK h \in DOMAIN m :
           /\ Cardinality(m[h].users) = 1 /\ Cardinality(m[h].ids) <= RareHits
           /\ c = Candidate("rare_destination", <<h>>,
                            Score("rare_destination", <<busiest, Cardinality(m[h].ids)>>),
                            m[h].ids, <<m[h].users, busiest, m[h].urls>>)
    BY <1>1 DEF RareDestinations
  <2>. HIDE DEF busiest
  <2>. QED  BY <2>1 DEF Candidate
<1>3. /\ m[h] = HostGroup(RowsOfHost(U, h)) /\ RowsOfHost(U, h) # {}
      /\ RowsOfHost(U, h) \in SUBSET U
  BY <1>1, DestinationsAre
<1>4. PICK A : A = RowsOfHost(U, h)
  OBVIOUS
<1>5. m[h].ids = Ids(A) /\ m[h].users = Present(A, "username")
  BY <1>3, <1>4 DEF HostGroup
<1>6. RowsWith(U, c.ids) = A /\ Cardinality(A) <= RareHits
  BY <1>2, <1>3, <1>4, <1>5, RowsNamed
<1>7. PICK r \in A : TRUE
  BY <1>3, <1>4
<1>8. A = {x \in U : x.host = r.host}
  BY <1>4 DEF RowsOfHost, Hosted
<1>9. IsFiniteSet(Present(A, "username"))
  <2>1. PICK f, I : f = [x \in A |-> x.username] /\ I = {f[x] : x \in A}
    OBVIOUS
  <2>2. IsFiniteSet(A)
    BY <1>3, <1>4, RowsNamed
  <2>3. IsFiniteSet(I)
    BY <2>1, <2>2, ImageOfFinite
  <2>4. Present(A, "username") \in SUBSET I
    BY <2>1 DEF Present
  <2>. QED  BY <2>3, <2>4, FS_Subset
<1>10. PICK v : Present(A, "username") = {v}
  <2>1. PICK P : P = Present(A, "username")
    OBVIOUS
  <2>2. IsFiniteSet(P) /\ Cardinality(P) = 1
    BY <1>2, <1>5, <1>9, <2>1
  <2>3. \E v : P = {v}
    BY <2>2, FS_Singleton
  <2>. QED  BY <2>1, <2>3
<1>11. \A x \in A : x.username = None \/ x.username = v
  BY <1>10 DEF Present
<1>12. \A x, y \in A : None \in {x.username, y.username} \/ x.username = y.username
  BY <1>11
<1>. QED  BY <1>6, <1>7, <1>8, <1>12 DEF Visiting

(* Gaps are one fewer than distinct times, so there are enough of these.    *)
LEMMA BeaconsCite ==
    ASSUME NEW U, Rowset(U), NEW c \in Beacons(MapShard(U))
    PROVE  Beaconing(U, RowsWith(U, c.ids))
<1>1. PICK m : m = MapShard(U).ip_host_times
  OBVIOUS
<1>2. PICK k \in DOMAIN m : /\ c.ids = {h[2] : h \in m[k]}
                            /\ Cardinality(DOMAIN Gaps(m[k])) >= MinBeaconHits - 1
  BY <1>1 DEF Beacons, Candidate
<1>3. m[k] = Times(Poll(U, k)) /\ Poll(U, k) # {} /\ Poll(U, k) \in SUBSET U
  BY <1>1, PollsAre
<1>4. PICK A : A = Poll(U, k)
  OBVIOUS
<1>5. c.ids = Ids(A)
  <2>1. {h[2] : h \in Times(A)} = Ids(A)
    BY TimesIds
  <2>. QED  BY <1>2, <1>3, <1>4, <2>1
<1>6. RowsWith(U, c.ids) = A /\ IsFiniteSet(A)
  BY <1>3, <1>4, <1>5, RowsNamed
<1>7. PICK r \in A : TRUE
  BY <1>3, <1>4
<1>8. A = {x \in Timed(U) : x.client_ip = r.client_ip /\ x.host = r.host}
  <2>1. A = {x \in Timed(U) : x.client_ip # None /\ x.host # None /\ VisitKey(x) = k}
    BY <1>4 DEF Poll, Visits, Located
  <2>2. \A x : VisitKey(x) = VisitKey(r) <=> x.client_ip = r.client_ip /\ x.host = r.host
    BY DEF VisitKey
  <2>. QED  BY <2>1, <2>2
<1>9. PICK T : T = {x.ts : x \in A}
  OBVIOUS
<1>10. IsFiniteSet(T) /\ T \subseteq Int /\ T # {}
  <2>1. PICK f : f = [x \in A |-> x.ts]
    OBVIOUS
  <2>2. IsFiniteSet({f[x] : x \in A})
    BY <1>6, ImageOfFinite
  <2>3. T = {f[x] : x \in A}
    BY <1>9, <2>1
  <2>4. \A x \in A : x \in LogEntry /\ x.ts # None
    BY <1>8 DEF Timed, Rowset
  <2>5. \A x \in A : x.ts \in Int
    BY <2>4 DEF LogEntry
  <2>. QED  BY <1>7, <1>9, <2>2, <2>3, <2>5
<1>11. {h[1] : h \in Times(A)} = T
  <2>1. \A x \in A : <<x.ts, x.id>>[1] = x.ts
    OBVIOUS
  <2>2. \A h \in Times(A) : \E x \in A : h[1] = x.ts
    BY <2>1 DEF Times
  <2>3. \A x \in A : \E h \in Times(A) : h[1] = x.ts
    BY <2>1 DEF Times
  <2>. QED  BY <1>9, <2>2, <2>3
<1>12. DOMAIN Gaps(m[k]) = T \ {Max(T)}
  <2>1. DOMAIN Gaps(Times(A)) = T \ {Max(T)}
    BY <1>11 DEF Gaps
  <2>. QED  BY <1>3, <1>4, <2>1
<1>13. Cardinality(T) >= MinBeaconHits
  <2>1. PICK top : top = Max(T)
    OBVIOUS
  <2>2. top \in T
    BY <1>10, <2>1, MaxOfFinite
  <2>3. Cardinality(T \ {top}) = Cardinality(T) - 1 /\ Cardinality(T) \in Nat
    BY <1>10, <2>2, FS_RemoveElement, FS_CardinalityType
  <2>4. Cardinality(T \ {top}) >= MinBeaconHits - 1
    BY <1>2, <1>12, <2>1
  <2>5. MinBeaconHits \in Nat
    BY DetectionAssumption
  <2>. QED  BY <2>3, <2>4, <2>5
<1>. QED  BY <1>6, <1>7, <1>8, <1>9, <1>13 DEF Beaconing

(* The ids of all bursts of a sender bring in the whole of each.            *)
LEMMA SpikesCite ==
    ASSUME NEW U, Rowset(U), NEW c \in VolumeSpikes(MapShard(U))
    PROVE  LET R == RowsWith(U, c.ids) IN R \subseteq Located(U) /\ Bursting(U, R)
<1>1. PICK p, m : p = MapShard(U) /\ m = p.ip_minute
  OBVIOUS
<1>2. PICK ip \in Senders(m) : c.ids = UNION {m[k] : k \in BurstsOf(m, ip)}
  <2>1. VolumeSpikes(p) = {Spike(m, ip) : ip \in Senders(m)}
    BY <1>1, SpikesAre
  <2>2. PICK ip \in Senders(m) : c = Spike(m, ip)
    BY <1>1, <2>1
  <2>3. c.ids = UNION {m[k] : k \in BurstsOf(m, ip)}
    BY <2>2 DEF Spike, Candidate
  <2>. QED  BY <2>3
<1>3. /\ \A k \in DOMAIN m : m[k] = Ids(Burst(U, k)) /\ Burst(U, k) # {}
      /\ \A k : Burst(U, k) \in SUBSET U
  BY <1>1, MinutesAre
<1>4. \A k \in BurstsOf(m, ip) : k \in DOMAIN m /\ k[1] = ip /\ MinuteCounts(m)[k] >= MinBurst
  BY DEF BurstsOf, Bursts
<1>5. BurstsOf(m, ip) # {}
  BY <1>2 DEF Senders, BurstsOf
<1>6. PICK A : A = {x \in Located(U) : MinuteKey(x) \in BurstsOf(m, ip)}
  OBVIOUS
<1>7. A \in SUBSET U /\ A \subseteq Located(U)
  BY <1>6, PartsOf
<1>8. c.ids = Ids(A)
  <2>1. \A k \in BurstsOf(m, ip) : m[k] = Ids(Burst(U, k)) /\ Burst(U, k) \subseteq A
    BY <1>3, <1>4, <1>6 DEF Burst
  <2>2. \A x \in A : x \in Burst(U, MinuteKey(x)) /\ MinuteKey(x) \in BurstsOf(m, ip)
    BY <1>6 DEF Burst
  <2>3. \A i \in c.ids : i \in Ids(A)
    BY <1>2, <2>1 DEF Ids
  <2>4. \A i \in Ids(A) : i \in c.ids
    <3>. SUFFICES ASSUME NEW x \in A PROVE x.id \in c.ids
      BY DEF Ids
    <3>1. x.id \in m[MinuteKey(x)]
      BY <2>1, <2>2 DEF Ids
    <3>. QED  BY <1>2, <2>2, <3>1
  <2>. QED  BY <2>3, <2>4
<1>9. RowsWith(U, c.ids) = A
  BY <1>7, <1>8, RowsNamed
<1>10. PICK r \in A : TRUE
  <2>1. PICK k \in BurstsOf(m, ip) : TRUE
    BY <1>5
  <2>2. PICK x \in Burst(U, k) : TRUE
    BY <1>3, <1>4
  <2>3. x \in A
    BY <1>6, <2>1, <2>2 DEF Burst
  <2>. QED  BY <2>3
<1>11. ASSUME NEW x \in A
       PROVE  /\ x.client_ip = r.client_ip /\ Burst(U, MinuteKey(x)) \subseteq A
              /\ Cardinality(Burst(U, MinuteKey(x))) >= MinBurst
  <2>1. PICK k \in BurstsOf(m, ip) : k = MinuteKey(x)
    BY <1>6
  <2>2. \A y \in A : y.client_ip = ip
    <3>1. \A y \in A : MinuteKey(y)[1] = ip
      BY <1>4, <1>6
    <3>. QED  BY <3>1 DEF MinuteKey
  <2>3. Burst(U, k) \subseteq A
    BY <1>6 DEF Burst
  <2>4. k \in DOMAIN m /\ MinuteCounts(m)[k] >= MinBurst
    BY <1>4
  <2>5. MinuteCounts(m)[k] = Cardinality(Ids(Burst(U, k)))
    BY <1>3, <2>4 DEF MinuteCounts
  <2>6. Cardinality(Ids(Burst(U, k))) = Cardinality(Burst(U, k))
    BY <1>3, RowsNamed
  <2>. QED  BY <1>10, <2>1, <2>2, <2>3, <2>4, <2>5, <2>6
<1>. QED  BY <1>7, <1>9, <1>10, <1>11 DEF Bursting

(* Enough hours have rows, or none of them would be quiet.                  *)
LEMMA OffHoursCite ==
    ASSUME NEW U, Rowset(U), NEW c \in OffHours(MapShard(U))
    PROVE  Working(U, RowsWith(U, c.ids))
<1>1. PICK p, m : p = MapShard(U) /\ m = p.hour_actors
  OBVIOUS
<1>2. PICK a : a \in NightOwls(p) /\ c.ids = QuietIds(p, a)
  BY <1>1, OffHoursAre DEF Off, Candidate
<1>3. /\ \A x \in Timed(U) : ActorKey(x) \in DOMAIN m
      /\ \A k \in DOMAIN m : m[k] = Ids(Activity(U, k)) /\ Activity(U, k) # {}
  BY <1>1, ActorsAre
<1>4. p.hour_counts = HourCounts(U)
  BY <1>1 DEF MapShard, HourCounts, Timed, InHourOf
<1>5. PICK Q : Q = QuietHours(HourCounts(U))
  OBVIOUS
<1>6. QuietOf(p, a) = {k \in DOMAIN m : k[1] \in Q /\ k[2] = a}
  BY <1>1, <1>4, <1>5 DEF QuietOf, QuietActivity
<1>7. QuietOf(p, a) # {}
  BY <1>2 DEF NightOwls, QuietOf
<1>8. PICK A : A = {x \in Timed(U) : Actor(x) = a /\ HourOf(x) \in Q}
  OBVIOUS
<1>9. A \in SUBSET U
  BY <1>8, PartsOf
<1>10. \A x : ActorKey(x)[1] = HourOf(x) /\ ActorKey(x)[2] = Actor(x)
  BY DEF ActorKey
<1>11. \A k \in QuietOf(p, a) : m[k] = Ids(Activity(U, k)) /\ Activity(U, k) \subseteq A
  BY <1>3, <1>6, <1>8, <1>10 DEF Activity
<1>12. \A x \in A : x \in Activity(U, ActorKey(x)) /\ ActorKey(x) \in QuietOf(p, a)
  BY <1>3, <1>6, <1>8, <1>10 DEF Activity
<1>13. c.ids = Ids(A)
  <2>1. c.ids = UNION {m[k] : k \in QuietOf(p, a)}
    BY <1>1, <1>2 DEF QuietIds
  <2>2. \A i \in c.ids : i \in Ids(A)
    BY <1>11, <2>1 DEF Ids
  <2>3. \A i \in Ids(A) : i \in c.ids
    <3>. SUFFICES ASSUME NEW x \in A PROVE x.id \in c.ids
      BY DEF Ids
    <3>1. x.id \in m[ActorKey(x)]
      BY <1>11, <1>12 DEF Ids
    <3>. QED  BY <1>12, <2>1, <3>1
  <2>. QED  BY <2>2, <2>3
<1>14. RowsWith(U, c.ids) = A
  BY <1>9, <1>13, RowsNamed
<1>15. PICK r \in A : TRUE
  <2>1. PICK k \in QuietOf(p, a) : TRUE
    BY <1>7
  <2>2. PICK x \in Activity(U, k) : TRUE
    BY <1>3, <1>6
  <2>. QED  BY <1>11, <2>1, <2>2
<1>16. A = {x \in Timed(U) : Actor(x) = Actor(r) /\ HourOf(x) \in QuietHours(HourCounts(U))}
  BY <1>5, <1>8, <1>15
<1>17. Cardinality({HourOf(x) : x \in Timed(U)}) >= MinHours
  <2>1. DOMAIN HourCounts(U) = {HourOf(x) : x \in Timed(U)}
    BY DEF HourCounts
  <2>2. Q # {}
    BY <1>8, <1>15
  <2>3. ~(Cardinality(DOMAIN HourCounts(U)) < MinHours)
    BY <1>5, <2>2 DEF QuietHours
  <2>4. IsFiniteSet({HourOf(x) : x \in Timed(U)})
    <3>1. PICK L, f : L = Timed(U) /\ f = [x \in L |-> HourOf(x)]
      OBVIOUS
    <3>2. IsFiniteSet(L)
      BY <3>1, PartsOf, RowsNamed
    <3>3. IsFiniteSet({f[x] : x \in L})
      BY <3>2, ImageOfFinite
    <3>4. {f[x] : x \in L} = {HourOf(x) : x \in Timed(U)}
      BY <3>1
    <3>. QED  BY <3>3, <3>4
  <2>5. Cardinality({HourOf(x) : x \in Timed(U)}) \in Nat /\ MinHours \in Nat
    BY <2>4, FS_CardinalityType, DetectionAssumption
  <2>. QED  BY <2>1, <2>3, <2>5
<1>. QED  BY <1>14, <1>15, <1>16, <1>17 DEF Working

(* What every candidate cites, of whatever detector.                        *)
LEMMA CandidatesCite ==
    ASSUME file \in Files, Named(Rows), NEW c \in Found(MapShard(Rows))
    PROVE  OneBehaviour(c.kind, RowsWith(Rows, c.ids))
<1>1. PICK U, p, s : U = Rows /\ p = MapShard(U) /\ s = ByKind(p)
  OBVIOUS
<1>2. Rowset(U) /\ Scored(p) /\ Named(U)
  BY <1>1, RowsAre, ScoresAreNumbers
<1>3. PICK i \in 1 .. 6 : c.kind = Kinds[i] /\ c \in Top(s[i])
  BY <1>1, <1>2, FoundIs
<1>4. Top(s[i]) \subseteq s[i]
  BY DEF Top, Kept
<1>5. c \in s[i]
  BY <1>3, <1>4
<1>6. PICK R : R = RowsWith(U, c.ids)
  OBVIOUS
<1>7. CASE i = 1
  <2>1. c \in Beacons(MapShard(U)) /\ c.kind = "beaconing"
    BY <1>1, <1>3, <1>5, <1>7 DEF ByKind, Kinds
  <2>. QED  BY <1>1, <1>2, <1>6, <2>1, BeaconsCite, BehavioursAre
<1>8. CASE i = 2
  <2>1. c \in BlockedThreats(MapShard(U)) /\ c.kind = "blocked_threat"
    BY <1>1, <1>3, <1>5, <1>8 DEF ByKind, Kinds
  <2>. QED  BY <1>1, <1>2, <1>6, <2>1, ThreatsCite, BehavioursAre
<1>9. CASE i = 3
  <2>1. c \in DataExfil(MapShard(U)) /\ c.kind = "data_exfil"
    BY <1>1, <1>3, <1>5, <1>9 DEF ByKind, Kinds
  <2>. QED  BY <1>1, <1>2, <1>6, <2>1, ExfilCites, BehavioursAre
<1>10. CASE i = 4
  <2>1. c \in OffHours(MapShard(U)) /\ c.kind = "off_hours"
    BY <1>1, <1>3, <1>5, <1>10 DEF ByKind, Kinds
  <2>. QED  BY <1>1, <1>2, <1>6, <2>1, OffHoursCite, WorkingIs
<1>11. CASE i = 5
  <2>1. c \in RareDestinations(MapShard(U)) /\ c.kind = "rare_destination"
    BY <1>1, <1>3, <1>5, <1>11 DEF ByKind, Kinds
  <2>. QED  BY <1>1, <1>2, <1>6, <2>1, DestinationsCite, BehavioursAre
<1>12. CASE i = 6
  <2>1. c \in VolumeSpikes(MapShard(U)) /\ c.kind = "volume_spike"
    BY <1>1, <1>3, <1>5, <1>12 DEF ByKind, Kinds
  <2>. QED  BY <1>1, <1>2, <1>6, <2>1, SpikesCite, BurstingIs
<1>. QED  BY <1>7, <1>8, <1>9, <1>10, <1>11, <1>12

(* A threat the proxy named is found, or its detector's list is full.       *)
LEMMA ThreatsFound ==
    ASSUME file \in Files, NEW x \in Rows, x.threat_name # None
    PROVE  \/ \E c \in Found(MapShard(Rows)) : c.kind = "blocked_threat" /\ x.id \in c.ids
           \/ Cardinality(Top(ByKind(MapShard(Rows))[2])) = MaxPerDetector
<1>1. PICK U, p, C : U = Rows /\ p = MapShard(U) /\ C = ByKind(p)[2]
  OBVIOUS
<1>2. Rowset(U) /\ Scored(p)
  BY <1>1, RowsAre, ScoresAreNumbers
<1>3. C = BlockedThreats(p)
  BY <1>1 DEF ByKind
<1>4. PICK m : m = p.threats
  OBVIOUS
<1>5. x \in Threat(U, ThreatKey(x)) /\ x \in Threats(U)
  BY <1>1 DEF Threat, Threats
<1>6. /\ ThreatKey(x) \in DOMAIN m
      /\ m[ThreatKey(x)] = ThreatGroup(Threat(U, ThreatKey(x)))
  <2>1. ThreatKey(x) \in DOMAIN m
    BY <1>1, <1>2, <1>4, <1>5, BlockedAre
  <2>. QED  BY <1>1, <1>2, <1>4, <2>1, BlockedAre
<1>7. x.id \in m[ThreatKey(x)].ids
  BY <1>5, <1>6 DEF ThreatGroup, Ids
<1>8. PICK c \in C : c.kind = "blocked_threat" /\ x.id \in c.ids /\ c.score >= MinScore
  <2>1. PICK k : k = ThreatKey(x)
    OBVIOUS
  <2>2. PICK c : c = Candidate("blocked_threat", k, Score("blocked_threat", <<>>), m[k].ids,
                               m[k].users)
    OBVIOUS
  <2>3. c \in C
    BY <1>3, <1>4, <1>6, <2>1, <2>2 DEF BlockedThreats
  <2>4. /\ c.kind = "blocked_threat" /\ c.ids = m[k].ids
        /\ c.score = Score("blocked_threat", <<>>)
    BY <2>2 DEF Candidate
  <2>5. c.score >= MinScore
    BY <2>4, ScoreAssumption
  <2>. QED  BY <1>7, <2>1, <2>3, <2>4, <2>5
<1>9. c \in Kept(C)
  BY <1>8 DEF Kept
<1>10. CASE c \in Top(C)
  <2>1. c \in {d \in Found(p) : d.kind = Kinds[2]}
    BY <1>1, <1>2, <1>10, FoundIs
  <2>. QED  BY <1>1, <1>8, <2>1
<1>11. CASE c \notin Top(C)
  <2>1. Detector(Kinds[2], C, U) /\ \A d \in C : d.score \in Nat
    BY <1>1, <1>2, DetectorsAre DEF Scored
  <2>2. Cardinality(Top(C)) = MaxPerDetector
    BY <1>9, <1>11, <2>1, TopOf
  <2>. QED  BY <1>1, <2>2
<1>. QED  BY <1>10, <1>11

LEMMA DetectedCite ==
    ASSUME Detected, Named(Rows)
    PROVE  FindingsCiteTheLog
<1>. SUFFICES ASSUME stage = "saved"
              PROVE  FindingsCiteTheLog
  BY DEF FindingsCiteTheLog
<1>1. /\ file \in Files /\ ranked = Ranked(MapShard(Rows))
      /\ report \in Seq(ReportEntry)
      /\ ~model => report = [n \in DOMAIN ranked |->
                      [id |-> n, confidence |-> Rounded(ranked[n].score), about |-> n]]
      /\ findings = [n \in DOMAIN report |-> ToRow(report[n])]
  BY DEF Detected
<1>2. PICK r, U : r = ranked /\ U = Rows
  OBVIOUS
<1>3. r = Ranked(MapShard(Rows))
  BY <1>1, <1>2
<1>4. /\ \E n \in Nat : DOMAIN r = 1 .. n
      /\ \A n \in DOMAIN r : r[n] \in Found(MapShard(Rows))
      /\ \A c \in Found(MapShard(Rows)) : \E n \in DOMAIN r : r[n] = c
      /\ r = [n \in DOMAIN r |-> r[n]]
  BY <1>1, <1>3, RanksAre
<1>5. PICK f, q : f = findings /\ q = report
  OBVIOUS
<1>6. /\ DOMAIN f = DOMAIN q
      /\ \A n \in DOMAIN q : f[n] = [kind |-> r[q[n].id].kind, ids |-> r[q[n].id].ids,
                                     confidence |-> q[n].confidence, about |-> q[n].about]
  BY <1>1, <1>2, <1>5 DEF ToRow
<1>7. \A n \in DOMAIN q : q[n].id \in DOMAIN r /\ q[n].about \in {0, q[n].id}
  <2>1. PICK S : S = {a \in [id : DOMAIN r, confidence : Nat, about : Nat] : a.about \in {0, a.id}}
    OBVIOUS
  <2>2. q \in Seq(S)
    BY <1>1, <1>2, <1>5, <2>1 DEF ReportEntry
  <2>3. \A n \in DOMAIN q : q[n] \in S
    BY <2>2
  <2>. QED  BY <2>1, <2>3
<1>8. \A n \in DOMAIN f :
         /\ OneBehaviour(f[n].kind, {x \in Rows : x.id \in f[n].ids})
         /\ f[n].about # 0 => r[f[n].about].kind = f[n].kind /\ r[f[n].about].ids = f[n].ids
  <2>. SUFFICES ASSUME NEW n \in DOMAIN f
                PROVE  /\ OneBehaviour(f[n].kind, {x \in Rows : x.id \in f[n].ids})
                       /\ f[n].about # 0 => /\ r[f[n].about].kind = f[n].kind
                                            /\ r[f[n].about].ids = f[n].ids
    OBVIOUS
  <2>1. PICK c : c = r[q[n].id]
    OBVIOUS
  <2>2. c \in Found(MapShard(Rows)) /\ f[n].kind = c.kind /\ f[n].ids = c.ids
    BY <1>4, <1>6, <1>7, <2>1
  <2>3. OneBehaviour(c.kind, RowsWith(Rows, c.ids))
    BY <1>1, <2>2, CandidatesCite
  <2>4. f[n].about # 0 => f[n].about = q[n].id
    BY <1>6, <1>7
  <2>. QED  BY <2>1, <2>2, <2>3, <2>4 DEF RowsWith
<1>9. ASSUME ~model
      PROVE  /\ Len(f) = Len(r)
             /\ \A n \in DOMAIN f : /\ -Digit <= 2 * (f[n].confidence - r[n].score)
                                     /\ 2 * (f[n].confidence - r[n].score) <= Digit
             /\ \A x \in Rows :
                   x.threat_name # None =>
                      \/ \E n \in OfKind(f, "blocked_threat") : x.id \in f[n].ids
                      \/ Cardinality(OfKind(f, "blocked_threat")) = MaxPerDetector
  <2>1. q = [n \in DOMAIN r |-> [id |-> n, confidence |-> Rounded(r[n].score), about |-> n]]
    BY <1>1, <1>2, <1>5, <1>9
  <2>2. DOMAIN f = DOMAIN r /\ \A n \in DOMAIN r : /\ f[n].kind = r[n].kind
                                                   /\ f[n].ids = r[n].ids
                                                   /\ f[n].confidence = Rounded(r[n].score)
    BY <1>6, <2>1
  <2>8. \A n \in DOMAIN f : /\ -Digit <= 2 * (f[n].confidence - r[n].score)
                             /\ 2 * (f[n].confidence - r[n].score) <= Digit
    <3>1. \A n \in DOMAIN r : r[n].score \in Nat
      BY <1>1, <1>3, RanksAre
    <3>. QED  BY <2>2, <3>1, RoundedIs
  <2>3. Len(f) = Len(r)
    <3>1. PICK k \in Nat : DOMAIN r = 1 .. k
      BY <1>4
    <3>2. r = [n \in 1 .. k |-> r[n]]
      BY <1>4, <3>1
    <3>3. f = [n \in 1 .. k |-> f[n]]
      BY <1>1, <1>5, <2>2, <3>1
    <3>4. Len(r) = k
      BY <3>2, LenOfTable
    <3>5. Len(f) = k
      BY <3>3, LenOfTable
    <3>. QED  BY <3>4, <3>5
  <2>4. OfKind(f, "blocked_threat") = OfKind(r, "blocked_threat")
    BY <2>2 DEF OfKind
  <2>5. Kinds[2] = "blocked_threat"
    BY DEF Kinds
  <2>6. Cardinality(OfKind(r, "blocked_threat")) = Cardinality(Top(ByKind(MapShard(Rows))[2]))
    <3>1. Cardinality(OfKind(r, Kinds[2])) = Cardinality(Top(ByKind(MapShard(Rows))[2]))
      BY <1>1, <1>3, KindCount
    <3>. QED  BY <2>5, <3>1
  <2>7. ASSUME NEW x \in Rows, x.threat_name # None
        PROVE  \/ \E n \in OfKind(f, "blocked_threat") : x.id \in f[n].ids
               \/ Cardinality(OfKind(f, "blocked_threat")) = MaxPerDetector
    <3>1. CASE \E c \in Found(MapShard(Rows)) : c.kind = "blocked_threat" /\ x.id \in c.ids
      <4>1. PICK c \in Found(MapShard(Rows)) : c.kind = "blocked_threat" /\ x.id \in c.ids
        BY <3>1
      <4>2. PICK n \in DOMAIN r : r[n] = c
        BY <1>4
      <4>3. n \in OfKind(f, "blocked_threat") /\ x.id \in f[n].ids
        BY <2>2, <4>1, <4>2 DEF OfKind
      <4>. QED  BY <4>3
    <3>2. CASE Cardinality(Top(ByKind(MapShard(Rows))[2])) = MaxPerDetector
      BY <2>4, <2>6, <3>2
    <3>. QED  BY <1>1, <2>7, <3>1, <3>2, ThreatsFound
  <2>. QED  BY <2>3, <2>7, <2>8
<1>. QED  BY <1>2, <1>5, <1>8, <1>9 DEF FindingsCiteTheLog, OfKind

----------------------------------------------------------------------------
(* The theorems.                                                            *)

(* Whatever stage an analysis is in: the partials are those of the shards   *)
(* of its file until they are merged; from then on the candidates are those *)
(* of one pass over the file; a report without the model and the findings   *)
(* are made of them (run_map, run_reduce, run_final).                       *)
THEOREM Detection == Spec => []Detected
<1>. QED  BY DetectedInit, DetectedNext, PTL DEF Spec

(* Candidates have rows of the upload and clear MIN_SCORE, a detector gives *)
(* no more than MAX_PER_DETECTOR of them, findings are made of candidates.  *)
THEOREM TypeCorrect == Spec => []TypeOK
<1>. QED  BY Detection, DetectedTypeOK, PTL

(* However the file is cut into shards, merged forwards or backwards, the   *)
(* candidates, their rows, scores, figures and order are those of one pass  *)
(* over the file (merge_all).                                               *)
THEOREM Sharding == Spec => []ShardingInvisible
<1>. QED  BY Detection, DetectedSharding, PTL

(* If no row names a user or a host "unknown", the placeholder of a missing *)
(* one, a stored finding cites exactly the rows of one behaviour, and those *)
(* its text is about, whatever the model answers; without the model no      *)
(* candidate is missing, and a threat the proxy named only if its           *)
(* detector's list is full.                                                 *)
THEOREM Citations == Spec => [](Named(Rows) => FindingsCiteTheLog)
<1>1. Detected => (Named(Rows) => FindingsCiteTheLog)
  BY DetectedCite
<1>. QED  BY <1>1, Detection, PTL
=============================================================================
