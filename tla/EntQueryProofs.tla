---------------------------- MODULE EntQueryProofs ----------------------------
(* Proofs about ent's query builders, for any ids, tables and workloads.         *)
EXTENDS EntQueryInvariant, NatLemmas, FiniteSetTheorems

(* What a function gives for the elements of a finite set is a finite set.        *)
LEMMA ImageFinite ==
  ASSUME NEW S, IsFiniteSet(S), NEW f, DOMAIN f = S, f = [x \in S |-> f[x]]
  PROVE  IsFiniteSet({f[x] : x \in S})
<1> DEFINE T == {f[x] : x \in S}
<1>1. f \in Surjection(S, T)
  BY DEF Surjection
<1> QED BY <1>1, FS_Surjection

(* Between a set and a larger finite one there are sets of every size between.   *)
LEMMA SizesBetween ==
  ASSUME NEW S, IsFiniteSet(S), NEW T \in SUBSET S, NEW k \in Nat,
         Cardinality(T) <= k, k <= Cardinality(S)
  PROVE  \E U \in SUBSET S : T \subseteq U /\ Cardinality(U) = k
<1> DEFINE P == {j \in Nat : Cardinality(T) + j <= Cardinality(S) =>
                   \E U \in SUBSET S : T \subseteq U /\ Cardinality(U) = Cardinality(T) + j}
<1>1. IsFiniteSet(T) /\ Cardinality(T) \in Nat /\ Cardinality(S) \in Nat
  BY FS_Subset, FS_CardinalityType
<1>2. 0 \in P
  BY <1>1
<1>3. ASSUME NEW j \in P PROVE j + 1 \in P
  <2>1. CASE Cardinality(T) + (j + 1) <= Cardinality(S)
    <3>1. PICK U \in SUBSET S : T \subseteq U /\ Cardinality(U) = Cardinality(T) + j
      BY <1>1, <2>1
    <3>2. U # S
      BY <1>1, <2>1, <3>1
    <3>3. PICK x \in S : x \notin U
      BY <3>2
    <3>4. Cardinality(U \cup {x}) = Cardinality(U) + 1
      BY <3>3, FS_Subset, FS_AddElement
    <3>5. U \cup {x} \in SUBSET S /\ T \subseteq U \cup {x}
      BY <3>1
    <3> QED BY <1>1, <3>1, <3>4, <3>5
  <2>2. CASE ~(Cardinality(T) + (j + 1) <= Cardinality(S))
    BY <2>2
  <2> QED BY <2>1, <2>2
<1>4. P = Nat
  <2> HIDE DEF P
  <2>1. P \in SUBSET Nat
    BY DEF P
  <2> QED BY <1>2, <1>3, <2>1, NatAll
<1>5. k - Cardinality(T) \in P /\ Cardinality(T) + (k - Cardinality(T)) = k
  <2>1. k - Cardinality(T) \in Nat /\ Cardinality(T) + (k - Cardinality(T)) = k
    BY <1>1
  <2> HIDE DEF P
  <2> QED BY <1>4, <2>1
<1> QED BY <1>5

--------------------------------------------------------------------------------
(* The order of rows: by the first component, then by the second.                *)

UpTo(S, x) == {y \in S : y[1] < x[1] \/ (y[1] = x[1] /\ y[2] <= x[2])}
PlaceIn(S, x) == Cardinality(UpTo(S, x))

(* No two rows have one place, and a later place is a later row.                 *)
LEMMA PlacesOrdered ==
  ASSUME NEW S \in SUBSET (Nat \X Nat), IsFiniteSet(S), NEW x \in S, NEW y \in S
  PROVE  /\ PlaceIn(S, x) \in 1 .. Cardinality(S)
         /\ PlaceIn(S, x) = PlaceIn(S, y) => x = y
         /\ PlaceIn(S, x) <= PlaceIn(S, y) => x[1] <= y[1]
<1>1. \A z \in S : /\ z[1] \in Nat /\ z[2] \in Nat /\ z = <<z[1], z[2]>>
  OBVIOUS
<1>2. \A z \in S : /\ IsFiniteSet(UpTo(S, z)) /\ PlaceIn(S, z) \in Nat
                   /\ PlaceIn(S, z) <= Cardinality(S) /\ UpTo(S, z) \subseteq S
  BY FS_Subset, FS_CardinalityType DEF UpTo, PlaceIn
<1>3. \A z \in S : z \in UpTo(S, z)
  BY <1>1 DEF UpTo
<1>4. PlaceIn(S, x) # 0
  BY <1>2, <1>3, FS_EmptySet DEF PlaceIn
<1>5. ASSUME NEW u \in S, NEW v \in S, v \notin UpTo(S, u)
      PROVE  PlaceIn(S, u) < PlaceIn(S, v)
  <2>1. UpTo(S, u) \subseteq UpTo(S, v)
    BY <1>1, <1>5 DEF UpTo
  <2>2. UpTo(S, u) # UpTo(S, v)
    BY <1>3, <1>5
  <2>3. Cardinality(UpTo(S, u)) <= Cardinality(UpTo(S, v)) /\ Cardinality(UpTo(S, u)) # Cardinality(UpTo(S, v))
    BY <1>2, <2>1, <2>2, FS_Subset
  <2> QED BY <1>2, <2>3 DEF PlaceIn
<1>6. ASSUME x # y PROVE PlaceIn(S, x) # PlaceIn(S, y)
  <2>1. x \notin UpTo(S, y) \/ y \notin UpTo(S, x)
    BY <1>1, <1>6 DEF UpTo
  <2> QED BY <1>2, <1>5, <2>1
<1>7. ASSUME ~(x[1] <= y[1]) PROVE ~(PlaceIn(S, x) <= PlaceIn(S, y))
  <2>1. x \notin UpTo(S, y)
    BY <1>1, <1>7 DEF UpTo
  <2> QED BY <1>2, <1>5, <2>1
<1>8. Cardinality(S) \in Nat
  BY FS_CardinalityType
<1> QED BY <1>2, <1>4, <1>6, <1>7, <1>8

(* Every place is taken, so as many rows as places lie between two bounds.       *)
LEMMA PlacesTaken ==
  ASSUME NEW S \in SUBSET (Nat \X Nat), IsFiniteSet(S), NEW m \in Nat, NEW n \in Nat,
         m + n <= Cardinality(S)
  PROVE  Cardinality({x \in S : PlaceIn(S, x) \in m + 1 .. m + n}) = n
<1> DEFINE f == [x \in S |-> PlaceIn(S, x)]
           T == {x \in S : PlaceIn(S, x) \in m + 1 .. m + n}
           g == [x \in T |-> PlaceIn(S, x)]
<1>1. Cardinality(S) \in Nat
  BY FS_CardinalityType
<1>2. f \in Injection(S, 1 .. Cardinality(S))
  <2>1. f \in [S -> 1 .. Cardinality(S)]
    BY PlacesOrdered
  <2>2. ASSUME NEW x \in S, NEW y \in S, f[x] = f[y] PROVE x = y
    <3>1. PlaceIn(S, x) = PlaceIn(S, y)
      BY <2>2
    <3> QED BY <3>1, PlacesOrdered
  <2> HIDE DEF f
  <2> QED BY <2>1, <2>2 DEF Injection, IsInjective
<1>3. IsFiniteSet(1 .. Cardinality(S)) /\ Cardinality(1 .. Cardinality(S)) = Cardinality(S)
  BY <1>1, FS_Interval
<1>4. f \in Surjection(S, 1 .. Cardinality(S))
  <2> HIDE DEF f
  <2> QED BY <1>2, <1>3, FS_Injection
<1>5. \A p \in 1 .. Cardinality(S) : \E x \in S : PlaceIn(S, x) = p
  BY <1>4 DEF Surjection
<1>6. m + 1 .. m + n \subseteq 1 .. Cardinality(S)
  BY <1>1
<1>7. g \in Bijection(T, m + 1 .. m + n)
  <2>1. g \in Injection(T, m + 1 .. m + n)
    <3>1. g \in [T -> m + 1 .. m + n]
      OBVIOUS
    <3>2. ASSUME NEW x \in T, NEW y \in T, g[x] = g[y] PROVE x = y
      <4>1. PlaceIn(S, x) = PlaceIn(S, y)
        BY <3>2
      <4> QED BY <4>1, PlacesOrdered
    <3> HIDE DEF g, T
    <3> QED BY <3>1, <3>2 DEF Injection, IsInjective
  <2>2. g \in Surjection(T, m + 1 .. m + n)
    <3>1. g \in [T -> m + 1 .. m + n]
      OBVIOUS
    <3>2. ASSUME NEW p \in m + 1 .. m + n PROVE \E x \in T : g[x] = p
      BY <1>5, <1>6
    <3> HIDE DEF g, T
    <3> QED BY <3>1, <3>2 DEF Surjection
  <2> QED BY <2>1, <2>2 DEF Bijection
<1>8. IsFiniteSet(T)
  BY FS_Subset
<1>9. Cardinality(m + 1 .. m + n) = Cardinality(T)
  <2> HIDE DEF g, T
  <2> QED BY <1>7, <1>8, FS_Bijection DEF ExistsBijection
<1>10. Cardinality(m + 1 .. m + n) = n
  <2>1. Cardinality(m + 1 .. m + n) = IF m + 1 > m + n THEN 0 ELSE m + n - (m + 1) + 1
    BY FS_Interval
  <2> QED BY <2>1
<1> QED BY <1>9, <1>10

--------------------------------------------------------------------------------
(* What OFFSET and LIMIT leave.                                                  *)

Left(q, S) == IF Cardinality(S) > q.offset THEN Cardinality(S) - q.offset ELSE 0
(* Slices, by the number of rows and the places they have.                       *)
LEMMA SlicesAre ==
  ASSUME NEW q, NEW S
  PROVE  Slices(q, S) =
           LET n == Limited(q.limit, Left(q, S))
           IN  IF q.ordered THEN {{x \in S : PlaceIn(S, x) \in q.offset + 1 .. q.offset + n}}
                            ELSE {T \in SUBSET S : Cardinality(T) = n}
BY Zenon DEF Slices, Limited, Left, PlaceIn, UpTo

(* A slice is what the limit leaves of a slice without one.                      *)
LEMMA SliceOfWhole ==
  ASSUME Nil \notin Nat,
         NEW S \in SUBSET (Nat \X Nat), IsFiniteSet(S), NEW q, NEW w,
         q.offset \in Nat, w.offset = q.offset, w.ordered = q.ordered,
         w.limit = Nil, q.limit \in Nat \cup {Nil}, NEW T \in Slices(q, S)
  PROVE  \E U \in Slices(w, S) : U \subseteq S /\ FirstOf(q.limit, q.ordered, T, U)
<1> DEFINE left == Left(q, S)
           n == Limited(q.limit, left)
<1>1. Cardinality(S) \in Nat
  BY FS_CardinalityType
<1>2. left \in Nat /\ left <= Cardinality(S) /\ left = Left(w, S)
  BY <1>1 DEF Left
<1> HIDE DEF left
<1>3. n \in Nat /\ n <= left /\ Limited(w.limit, left) = left
  BY <1>2 DEF Limited, SmallerOf
<1> HIDE DEF n
<1>4. CASE ~q.ordered
  <2>1. T \in SUBSET S /\ Cardinality(T) = n
    BY <1>4, SlicesAre DEF left, n
  <2>2. PICK U \in SUBSET S : T \subseteq U /\ Cardinality(U) = left
    BY <1>2, <1>3, <2>1, SizesBetween
  <2>3. U \in Slices(w, S)
    BY <1>2, <1>3, <1>4, <2>2, SlicesAre
  <2>4. FirstOf(q.limit, q.ordered, T, U)
    BY <1>4, <2>1, <2>2, FS_Subset DEF FirstOf, n
  <2> QED BY <2>3, <2>4
<1>5. CASE q.ordered
  <2> DEFINE U == {x \in S : PlaceIn(S, x) \in q.offset + 1 .. q.offset + left}
  <2>1. T = {x \in S : PlaceIn(S, x) \in q.offset + 1 .. q.offset + n}
    BY <1>5, SlicesAre DEF left, n
  <2>2. U \in Slices(w, S)
    BY <1>2, <1>3, <1>5, SlicesAre
  <2>3. T \subseteq U
    BY <1>2, <1>3, <2>1
  <2>4. CASE left = 0
    <3>1. \A x \in S : PlaceIn(S, x) \notin q.offset + 1 .. q.offset + left
      BY <1>2, <2>4, PlacesOrdered
    <3>2. U = {} /\ T = {}
      BY <2>3, <3>1
    <3>3. n = 0
      BY <1>3, <2>4
    <3>4. FirstOf(q.limit, q.ordered, T, U)
      <4> HIDE DEF U
      <4> QED BY <2>4, <3>2, <3>3, FS_EmptySet DEF FirstOf, n
    <3> QED BY <2>2, <3>2, <3>4
  <2>5. CASE left # 0
    <3>1. q.offset + left = Cardinality(S)
      BY <1>1, <2>5 DEF left, Left
    <3>2. Cardinality(T) = n /\ Cardinality(U) = left
      BY <1>2, <1>3, <2>1, <3>1, PlacesTaken
    <3>3. ASSUME NEW x \in T, NEW y \in U \ T PROVE x[1] <= y[1]
      <4>1. /\ x \in S /\ y \in S
            /\ PlaceIn(S, x) <= q.offset + n
            /\ ~(PlaceIn(S, y) <= q.offset + n)
        BY <1>2, <1>3, <2>1
      <4>2. PlaceIn(S, x) \in Nat /\ PlaceIn(S, y) \in Nat
        BY <4>1, PlacesOrdered
      <4>3. PlaceIn(S, x) <= PlaceIn(S, y)
        BY <1>3, <4>1, <4>2
      <4> QED BY <4>1, <4>3, PlacesOrdered
    <3>4. FirstOf(q.limit, q.ordered, T, U)
      <4>1. IsFiniteSet(U)
        BY FS_Subset
      <4> HIDE DEF U
      <4> QED BY <2>3, <3>2, <3>3, <4>1 DEF FirstOf, n
    <3> QED BY <2>2, <3>4
  <2> QED BY <2>4, <2>5
<1> QED BY <1>4, <1>5

--------------------------------------------------------------------------------
(* The rows of a table, and those an edge leads to.                              *)

Distinct(M) == {<<x[1], 0>> : x \in M}

(* Ids are numbers, and an owner is a user who is there.                         *)
LEMMA IdsAreNumbers ==
  ASSUME NEW d, IsTable(d)
  PROVE  /\ d.users \subseteq Nat /\ DOMAIN d.owner \subseteq Nat
         /\ \A t \in DOMAIN d.owner : d.owner[t] # Nil => d.owner[t] \in d.users
BY QueryAssumption DEF IsTable

(* A finite set of pairs that name rows of a table, no token twice.              *)
RowSet(S, d, typ) ==
  /\ S \in SUBSET (Nat \X Nat) /\ IsFiniteSet(S) /\ \A x \in S : x[1] \in RowIds(d, typ)
  /\ typ = "Token" => \A x, y \in S : x[1] = y[1] => x = y

(* The rows of a table.                                                          *)
LEMMA RowsTyped ==
  ASSUME NEW d, IsTable(d), NEW typ \in Types
  PROVE  RowSet(Rows(d, typ), d, typ) /\ \A x \in Rows(d, typ) : x[2] = 0
<1> DEFINE f == [r \in RowIds(d, typ) |-> <<r, 0>>]
<1>1. IsFiniteSet(RowIds(d, typ)) /\ RowIds(d, typ) \subseteq Nat
  BY IdsAreNumbers DEF RowIds, IsTable
<1>2. Rows(d, typ) = {f[r] : r \in RowIds(d, typ)}
  BY DEF Rows, RowIds
<1>3. IsFiniteSet(Rows(d, typ))
  <2>1. DOMAIN f = RowIds(d, typ) /\ f = [r \in RowIds(d, typ) |-> f[r]]
    OBVIOUS
  <2> HIDE DEF f
  <2> QED BY <1>1, <1>2, <2>1, ImageFinite
<1>4. \A x \in Rows(d, typ) :
        x = <<x[1], 0>> /\ x \in Nat \X Nat /\ x[1] \in RowIds(d, typ) /\ x[2] = 0
  BY <1>1, <1>2
<1>5. \A x, y \in Rows(d, typ) : x[1] = y[1] => x = y
  BY <1>4
<1> QED BY <1>3, <1>4, <1>5 DEF RowSet

(* The predicates take rows away.                                                *)
LEMMA MatchesTyped ==
  ASSUME NEW d, NEW typ, NEW q, NEW S, RowSet(S, d, typ)
  PROVE  RowSet(Matches(d, q, S), d, typ) /\ Matches(d, q, S) \subseteq S
<1>1. Matches(d, q, S) \subseteq S
  BY DEF Matches
<1> QED BY <1>1, FS_Subset DEF RowSet

(* Distinct rows are rows of the same table.                                     *)
LEMMA DistinctTyped ==
  ASSUME NEW d, NEW typ, NEW S, RowSet(S, d, typ)
  PROVE  RowSet(Distinct(S), d, typ)
<1> DEFINE f == [x \in S |-> <<x[1], 0>>]
<1>1. Distinct(S) = {f[x] : x \in S}
  BY DEF Distinct
<1>2. IsFiniteSet(Distinct(S))
  <2>1. DOMAIN f = S /\ f = [x \in S |-> f[x]] /\ IsFiniteSet(S)
    BY DEF RowSet
  <2> HIDE DEF f
  <2> QED BY <1>1, <2>1, ImageFinite
<1>3. \A x \in Distinct(S) :
        x = <<x[1], 0>> /\ x \in Nat \X Nat /\ x[1] \in RowIds(d, typ)
  BY DEF Distinct, RowSet
<1>4. \A x, y \in Distinct(S) : x[1] = y[1] => x = y
  BY <1>3
<1> QED BY <1>2, <1>3, <1>4 DEF RowSet

(* Rows that were not joined are distinct.                                       *)
LEMMA DistinctRows ==
  ASSUME NEW d, NEW typ, NEW S, RowSet(S, d, typ), \A x \in S : x[2] = 0
  PROVE  Distinct(S) = S
<1>1. \A x \in S : x = <<x[1], 0>>
  BY DEF RowSet
<1> QED BY <1>1 DEF Distinct

(* OFFSET and LIMIT only take rows away.                                         *)
LEMMA SlicesWithin ==
  ASSUME NEW q, NEW S, NEW T \in Slices(q, S)
  PROVE  T \subseteq S
BY SlicesAre

(* The rows an edge leads to.                                                    *)
LEMMA NeighboursTyped ==
  ASSUME NEW d, IsTable(d), NEW typ \in Types, NEW T, RowSet(T, d, typ)
  PROVE  RowSet(Neighbours(d, typ, T), d, Other(typ))
<1>1. CASE typ = "Token"
  <2> DEFINE A == {x \in T : d.owner[x[1]] # Nil}
             f == [t \in A |-> <<d.owner[t[1]], t[1]>>]
  <2>1. Neighbours(d, typ, T) = {f[t] : t \in A}
    BY <1>1 DEF Neighbours
  <2>2. IsFiniteSet(A)
    BY FS_Subset DEF RowSet
  <2>3. \A t \in A : t[1] \in DOMAIN d.owner /\ d.owner[t[1]] \in d.users
    BY <1>1, IdsAreNumbers DEF RowSet, RowIds
  <2>4. \A t \in A : f[t] \in Nat \X Nat /\ f[t][1] \in d.users
    BY <2>3, IdsAreNumbers
  <2>5. IsFiniteSet({f[t] : t \in A})
    <3>1. DOMAIN f = A /\ f = [t \in A |-> f[t]]
      OBVIOUS
    <3> HIDE DEF f, A
    <3> QED BY <2>2, <3>1, ImageFinite
  <2> HIDE DEF f, A
  <2> QED BY <1>1, <2>1, <2>4, <2>5 DEF RowSet, RowIds, Other
<1>2. CASE typ = "User"
  <2> DEFINE A == {x \in DOMAIN d.owner : <<d.owner[x], 0>> \in T}
             f == [t \in A |-> <<t, d.owner[t]>>]
  <2>1. Neighbours(d, typ, T) = {f[t] : t \in A}
    BY <1>2 DEF Neighbours
  <2>2. IsFiniteSet(A)
    BY FS_Subset DEF IsTable
  <2>3. \A t \in A : d.owner[t] \in Nat
    <3> TAKE t \in A
    <3>1. <<d.owner[t], 0>> \in Nat \X Nat
      BY DEF RowSet
    <3> QED BY <3>1
  <2>4. \A t \in A : f[t] \in Nat \X Nat /\ f[t][1] \in DOMAIN d.owner
    BY <2>3, IdsAreNumbers
  <2>6. \A s, t \in A : f[s][1] = f[t][1] => f[s] = f[t]
    OBVIOUS
  <2>5. IsFiniteSet({f[t] : t \in A})
    <3>1. DOMAIN f = A /\ f = [t \in A |-> f[t]]
      OBVIOUS
    <3> HIDE DEF f, A
    <3> QED BY <2>2, <3>1, ImageFinite
  <2> HIDE DEF f, A
  <2> DEFINE S == {f[t] : t \in A}
  <2>7. Other(typ) = "Token" /\ RowIds(d, "Token") = DOMAIN d.owner
    BY <1>2 DEF RowIds, Other
  <2>8. S \subseteq Nat \X Nat /\ \A x \in S : x[1] \in DOMAIN d.owner
    BY <2>4
  <2>9. \A x, y \in S : x[1] = y[1] => x = y
    BY <2>6
  <2> HIDE DEF S
  <2>10. RowSet(S, d, "Token")
    BY <2>5, <2>7, <2>8, <2>9 DEF RowSet, S
  <2> QED BY <2>1, <2>7, <2>10 DEF S
<1> QED BY <1>1, <1>2 DEF Types

(* The keys of tokens are those of owners.                                       *)
LEMMA KeySlicesTyped ==
  ASSUME NEW d, IsTable(d), NEW p, NEW S \in KeySlices(d, p)
  PROVE  RowSet(S, d, "User")
<1> DEFINE M == Matches(d, p, Rows(d, "Token"))
           f == [t \in M |-> <<d.owner[t[1]], 0>>]
           K == {f[t] : t \in M}
<1>1. RowSet(M, d, "Token")
  BY RowsTyped, MatchesTyped DEF Types
<1>2. K = {<<d.owner[t[1]], 0>> : t \in M}
  OBVIOUS
<1>3. PICK S0 \in Slices(p, K) : S = {x \in S0 : x[1] # Nil}
  BY <1>2 DEF KeySlices
<1>4. S \subseteq K /\ \A x \in S : x[1] # Nil
  BY <1>3, SlicesWithin
<1>5. IsFiniteSet(K)
  <2>1. IsFiniteSet(M) /\ DOMAIN f = M /\ f = [t \in M |-> f[t]]
    BY <1>1 DEF RowSet
  <2> HIDE DEF f, M
  <2> QED BY <2>1, ImageFinite
<1>6. ASSUME NEW x \in S PROVE x \in Nat \X Nat /\ x[1] \in d.users
  <2>1. PICK t \in M : x = <<d.owner[t[1]], 0>>
    BY <1>2, <1>4
  <2>2. t[1] \in DOMAIN d.owner /\ d.owner[t[1]] # Nil
    BY <1>1, <1>4, <2>1 DEF RowSet, RowIds
  <2> QED BY <2>1, <2>2, IdsAreNumbers
<1> HIDE DEF K
<1>7. IsFiniteSet(S)
  BY <1>4, <1>5, FS_Subset
<1> QED BY <1>6, <1>7 DEF RowSet, RowIds

(* What a SELECT of a query reads before its predicates: the table, or what the   *)
(* query it came from leads to.                                                  *)
LEMMA FromTyped ==
  ASSUME NEW d, IsTable(d), NEW qs, NEW q, q.typ \in Types,
         q.path # Nil => qs[q.path].typ = Other(q.typ),
         NEW S \in From(d, qs, q)
  PROVE  RowSet(S, d, q.typ) /\ (q.path = Nil => S = Rows(d, q.typ))
<1>1. CASE q.path = Nil
  BY <1>1, RowsTyped DEF From
<1>3. CASE SelectsKeys(qs, q)
  <2>1. q.path # Nil /\ S \in KeySlices(d, qs[q.path])
    BY <1>3 DEF From, SelectsKeys
  <2>2. q.typ = "User"
    BY <1>3 DEF SelectsKeys, Types, Other
  <2> QED BY <2>1, <2>2, KeySlicesTyped
<1>2. CASE q.path # Nil /\ ~SelectsKeys(qs, q)
  <2> DEFINE p == qs[q.path]
  <2>1. p.typ \in Types /\ Other(p.typ) = q.typ
    BY <1>2 DEF Types, Other
  <2>2. PICK T \in Slices(p, Matches(d, p, Rows(d, p.typ))) : S = Neighbours(d, p.typ, T)
    BY <1>2 DEF From
  <2>3. RowSet(Rows(d, p.typ), d, p.typ)
    BY <2>1, RowsTyped
  <2>4. RowSet(Matches(d, p, Rows(d, p.typ)), d, p.typ)
    BY <2>3, MatchesTyped
  <2>5. RowSet(T, d, p.typ)
    BY <2>2, <2>4, SlicesWithin, FS_Subset DEF RowSet
  <2> QED BY <1>2, <2>1, <2>2, <2>5, NeighboursTyped
<1> QED BY <1>1, <1>2, <1>3

(* All rows wanted, by the query without its limit.                              *)
LEMMA WholeIs ==
  ASSUME NEW b, NEW d, NEW w, w = [asked[b] EXCEPT !.limit = Nil], NEW S \in From(d, asked, w),
         NEW U \in Slices(w, IF w.unique = FALSE THEN Matches(d, w, S) ELSE Distinct(Matches(d, w, S)))
  PROVE  U \in Whole(b, d)
BY DEF Whole, WholeOf, Distinct

(* A SELECT of what is left of a builder finds the first of the rows wanted, when *)
(* it reads the edge and joins the rows as the caller meant.                     *)
LEMMA SelectedFound ==
  ASSUME NEW d, IsTable(d), NEW b, asked[b] \in Queries, NEW q \in Queries, NEW qs,
         q.typ = asked[b].typ, q.where = asked[b].where, q.path = asked[b].path,
         q.offset = asked[b].offset, q.ordered = asked[b].ordered,
         q.path # Nil => qs[q.path] = asked[q.path] /\ asked[q.path].typ = Other(q.typ),
         NEW distinct \in BOOLEAN,
         q.path # Nil => (distinct <=> asked[b].unique # FALSE),
         NEW T \in Selected(d, qs, q, distinct)
  PROVE  \E U \in Whole(b, d) : FirstOf(q.limit, q.ordered, T, U)
<1> DEFINE a == asked[b]
           w == [a EXCEPT !.limit = Nil]
<1>1. /\ w.typ = q.typ /\ w.where = q.where /\ w.path = q.path /\ w.offset = q.offset
      /\ w.ordered = q.ordered /\ w.unique = a.unique /\ w.limit = Nil
      /\ q.typ \in Types /\ q.offset \in Nat /\ q.limit \in Nat \cup {Nil}
  BY DEF Queries
<1> HIDE DEF a, w
<1>2. PICK S \in From(d, qs, q) :
        T \in Slices(q, IF distinct THEN Distinct(Matches(d, q, S)) ELSE Matches(d, q, S))
  BY DEF Selected, Distinct
<1>3. RowSet(S, d, q.typ) /\ (q.path = Nil => S = Rows(d, q.typ))
  BY <1>1, <1>2, FromTyped
<1>4. S \in From(d, asked, w)
  BY <1>1, <1>2 DEF From, SelectsKeys
<1> DEFINE M == Matches(d, q, S)
<1>5. Matches(d, w, S) = M
  BY <1>1 DEF Matches
<1>6. RowSet(M, d, q.typ) /\ M \subseteq S
  BY <1>3, MatchesTyped
<1> HIDE DEF M
<1>7. RowSet(Distinct(M), d, q.typ)
  BY <1>6, DistinctTyped
<1> DEFINE X == IF distinct THEN Distinct(M) ELSE M
<1>8. X = IF w.unique = FALSE THEN M ELSE Distinct(M)
  <2>1. CASE q.path # Nil
    BY <1>1, <2>1 DEF a
  <2>2. CASE q.path = Nil
    <3>1. \A x \in M : x[2] = 0
      BY <1>1, <1>3, <1>6, <2>2, RowsTyped
    <3>2. Distinct(M) = M
      BY <1>6, <3>1, DistinctRows
    <3> QED BY <3>2
  <2> QED BY <2>1, <2>2
<1>9. X \in SUBSET (Nat \X Nat) /\ IsFiniteSet(X) /\ T \in Slices(q, X)
  BY <1>2, <1>6, <1>7 DEF RowSet, M
<1> HIDE DEF X
<1>10. PICK U \in Slices(w, X) : U \subseteq X /\ FirstOf(q.limit, q.ordered, T, U)
  BY <1>1, <1>9, SliceOfWhole, QueryAssumption
<1>11. U \in Whole(b, d)
  BY <1>4, <1>5, <1>8, <1>10, WholeIs DEF a, w
<1> QED BY <1>10, <1>11

(* What a SELECT finds are rows of its table.                                    *)
LEMMA SelectedRows ==
  ASSUME NEW d, IsTable(d), NEW q, NEW qs, q.typ \in Types,
         q.path # Nil => qs[q.path].typ = Other(q.typ),
         NEW distinct \in BOOLEAN, NEW T \in Selected(d, qs, q, distinct)
  PROVE  RowSet(T, d, q.typ)
<1>1. PICK S \in From(d, qs, q) :
        T \in Slices(q, IF distinct THEN Distinct(Matches(d, q, S)) ELSE Matches(d, q, S))
  BY DEF Selected, Distinct
<1>2. RowSet(S, d, q.typ)
  BY <1>1, FromTyped
<1>3. RowSet(Matches(d, q, S), d, q.typ) /\ RowSet(Distinct(Matches(d, q, S)), d, q.typ)
  BY <1>2, MatchesTyped, DistinctTyped
<1> QED BY <1>1, <1>3, SlicesWithin, FS_Subset DEF RowSet

--------------------------------------------------------------------------------
(* What a read leaves in its builder.                                            *)

Ops == OfIDs \cup {"All", "First", "Only"}

(* Only the limit, the columns and the distinction of rows are touched.          *)
Leaves(q, op, r) ==
  /\ r \in Queries
  /\ r.typ = q.typ /\ r.where = q.where /\ r.path = q.path /\ r.child = q.child
  /\ r.offset = q.offset /\ r.ordered = q.ordered
  /\ op \in {"First", "FirstID", "Exist"} => r.limit = 1
  /\ op \in {"Only", "OnlyID"} => r.limit = 2
  /\ op \in {"All", "IDs"} => r.limit = q.limit
  /\ op \notin OfIDs => r.fields = q.fields
  /\ op \in OfIDs => r.fields = Append(q.fields, "id")
  /\ q.path # Nil => (IsDistinct(r, op) <=> q.unique # FALSE)

(* So it is by every read.                                                       *)
LEMMA TouchedKeeps ==
  ASSUME NEW q \in Queries, NEW op \in Ops
  PROVE  Leaves(q, op, Touched(q, op))
<1> DEFINE r == Touched(q, op)
           l == [q EXCEPT !.limit = IF op \in {"First", "FirstID", "Exist"} THEN 1
                               ELSE IF op \in {"Only", "OnlyID"} THEN 2 ELSE @]
<1>1. /\ l \in Queries
      /\ l.typ = q.typ /\ l.where = q.where /\ l.path = q.path /\ l.child = q.child
      /\ l.offset = q.offset /\ l.ordered = q.ordered /\ l.unique = q.unique /\ l.fields = q.fields
      /\ op \in {"First", "FirstID", "Exist"} => l.limit = 1
      /\ op \in {"Only", "OnlyID"} => l.limit = 2
      /\ op \in {"All", "IDs"} => l.limit = q.limit
  BY DEF Queries
<1>2. r = IF op \notin OfIDs THEN l
          ELSE [l EXCEPT !.fields = Append(@, "id"),
                         !.unique = IF @ = Nil /\ l.path # Nil THEN TRUE ELSE @]
  BY DEF Touched
<1>3. q.unique \in BOOLEAN \cup {Nil} /\ Nil \notin BOOLEAN
  BY QueryAssumption DEF Queries
<1> SUFFICES Leaves(q, op, r)
  OBVIOUS
<1> HIDE DEF l, r
<1>4. CASE op \notin OfIDs
  BY <1>1, <1>2, <1>3, <1>4 DEF IsDistinct, Leaves
<1>5. CASE op \in OfIDs
  <2>1. /\ r.typ = l.typ /\ r.where = l.where /\ r.path = l.path /\ r.child = l.child
        /\ r.offset = l.offset /\ r.ordered = l.ordered /\ r.limit = l.limit
        /\ r.fields = Append(l.fields, "id")
        /\ r.unique = IF l.unique = Nil /\ l.path # Nil THEN TRUE ELSE l.unique
    BY <1>1, <1>2, <1>5 DEF Queries
  <2>2. r \in Queries
    <3>1. l.fields \in Seq(Columns)
      BY <1>1 DEF Queries
    <3>2. Append(l.fields, "id") \in Seq(Columns)
      <4>1. ASSUME NEW S, NEW s \in Seq(S), NEW e \in S PROVE Append(s, e) \in Seq(S)
        OBVIOUS
      <4>2. "id" \in Columns
        BY DEF Columns
      <4> QED BY <3>1, <4>1, <4>2
    <3> DEFINE u == IF l.unique = Nil /\ l.path # Nil THEN TRUE ELSE l.unique
    <3>3. u \in BOOLEAN \cup {Nil}
      BY <1>1, <1>3
    <3>4. r = [[l EXCEPT !.fields = Append(l.fields, "id")] EXCEPT !.unique = u]
      BY <1>1, <1>2, <1>5 DEF Queries
    <3> HIDE DEF u
    <3>5. \A f \in Seq(Columns) : [l EXCEPT !.fields = f] \in Queries
      BY <1>1 DEF Queries
    <3>6. \A k \in Queries : [k EXCEPT !.unique = u] \in Queries
      BY <3>3 DEF Queries
    <3> QED BY <3>1, <3>2, <3>4, <3>5, <3>6
  <2>3. q.path # Nil => (IsDistinct(r, op) <=> q.unique # FALSE)
    BY <1>1, <1>3, <1>5, <2>1 DEF IsDistinct
  <2> QED BY <1>1, <1>5, <2>1, <2>2, <2>3 DEF Leaves
<1> QED BY <1>4, <1>5

--------------------------------------------------------------------------------
(* The steps, with respect to the invariant.                                     *)

(* The part of the invariant that is about single builders, said of any two lists *)
(* of them and any counts of reads.                                              *)
PathOf(qs, i) ==
  LET p == qs[i].path
  IN  p # Nil => p \in 1 .. i - 1 /\ qs[p].path = Nil /\ qs[p].typ = Other(qs[i].typ)

ChildOf(a) == a.child # Nil => a.child.typ = Other(a.typ) /\ \A p \in a.child.where : p.by = "id"

KeptOf(q, a, n) ==
  /\ q.typ = a.typ /\ q.where = a.where /\ q.path = a.path
  /\ q.offset = a.offset /\ q.ordered = a.ordered
  /\ n = 0 => q = a

(* The invariant in that form.                                                   *)
LEMMA PartsAre ==
  /\ \A i : Path(i) <=> PathOf(asked, i)
  /\ \A i : Child(i) <=> ChildOf(asked[i])
  /\ \A i : Kept(i) <=> KeptOf(builders[i], asked[i], runs[i])
BY DEF Path, Child, Kept, PathOf, ChildOf, KeptOf

(* And after a step.                                                             *)
LEMMA PartsAreNext ==
  /\ \A i : Path(i)' <=> PathOf(asked', i)
  /\ \A i : Child(i)' <=> ChildOf(asked'[i])
  /\ \A i : Kept(i)' <=> KeptOf(builders'[i], asked'[i], runs'[i])
BY DEF Path, Child, Kept, PathOf, ChildOf, KeptOf

(* While a read is between its two SELECTs nothing but the tables moves.         *)
LEMMA ReadingFrame ==
  ASSUME Reading, UNCHANGED <<builders, pending, asked, runs>>
  PROVE  Reading'
BY DEF Reading, Read, Found, Fresh, Used, Whole

(* A setter changes a builder and what its caller asked for alike.               *)
LEMMA SetsKeeps ==
  ASSUME QueryInv, NEW b \in DOMAIN builders, NEW new \in Queries, NEW wanted \in Queries,
         Sets(b, new, wanted), wanted.typ = asked[b].typ, wanted.path = asked[b].path,
         ChildOf(wanted), KeptOf(new, wanted, runs[b])
  PROVE  QueryInv'
<1>1. /\ builders \in Seq(Queries) /\ asked \in Seq(Queries) /\ Len(asked) = Len(builders)
      /\ runs \in Seq(Nat) /\ Len(runs) = Len(builders) /\ b \in 1 .. Len(builders)
  BY DEF QueryInv, Typed
<1>2. /\ builders' = [builders EXCEPT ![b] = new] /\ asked' = [asked EXCEPT ![b] = wanted]
      /\ pending = Nil /\ answer' = Nil
      /\ work' = work /\ db' = db /\ pending' = pending /\ runs' = runs
  BY DEF Sets
<1>3. Typed'
  <2>1. builders' \in Seq(Queries) /\ Len(builders') = Len(builders)
    BY <1>1, <1>2
  <2>2. asked' \in Seq(Queries) /\ Len(asked') = Len(asked)
    BY <1>1, <1>2
  <2> QED BY <1>1, <1>2, <2>1, <2>2 DEF QueryInv, Typed, IsTable
<1>4. Reading' /\ Answered'
  BY <1>2 DEF Reading, Answered
<1>5. ASSUME NEW i \in DOMAIN builders' PROVE Path(i)' /\ Child(i)' /\ Kept(i)'
  <2>1. i \in 1 .. Len(builders)
    BY <1>1, <1>2, <1>5
  <2>2. \A j \in 1 .. Len(builders) : /\ asked'[j] = IF j = b THEN wanted ELSE asked[j]
                                      /\ builders'[j] = IF j = b THEN new ELSE builders[j]
                                      /\ asked'[j].typ = asked[j].typ /\ asked'[j].path = asked[j].path
    BY <1>1, <1>2
  <2>3. PathOf(asked, i) /\ ChildOf(asked[i]) /\ KeptOf(builders[i], asked[i], runs[i])
    BY <1>1, <2>1, PartsAre DEF QueryInv
  <2>4. PathOf(asked', i)
    BY <2>1, <2>2, <2>3 DEF PathOf
  <2>5. ChildOf(asked'[i]) /\ KeptOf(builders'[i], asked'[i], runs'[i])
    BY <1>2, <2>1, <2>2, <2>3
  <2> QED BY <2>4, <2>5, PartsAreNext
<1> QED BY <1>3, <1>4, <1>5 DEF QueryInv

(* The setters of predicates, limits, offsets, order, distinction and columns.   *)
LEMMA SettersKeep ==
  ASSUME QueryInv, NEW b \in DOMAIN builders,
         \/ \E s \in work.filters : Where(b, s)
         \/ \E n \in work.limits : Limit(b, n)
         \/ \E n \in work.offsets : Offset(b, n)
         \/ \E u \in BOOLEAN : Unique(b, u)
         \/ \E f \in work.selects : Select(b, f)
         \/ Order(b)
  PROVE  QueryInv'
<1> DEFINE q == builders[b]
           a == asked[b]
<1>1. q \in Queries /\ a \in Queries /\ work \in Workloads /\ ChildOf(a)
  BY PartsAre DEF QueryInv, Typed
<1>2. KeptOf(q, a, runs[b])
  BY PartsAre DEF QueryInv
<1>3. ASSUME NEW s \in work.filters, Where(b, s) PROVE QueryInv'
  <2> DEFINE F(x) == [x EXCEPT !.where = @ \cup {IDIn(s)}]
  <2>1. Sets(b, F(q), F(a))
    BY <1>3 DEF Where
  <2>2. IDIn(s) \in Preds
    BY <1>1, QueryAssumption DEF IDIn, Preds
  <2>3. ASSUME NEW x \in Queries
        PROVE  /\ F(x) \in Queries /\ F(x).where = x.where \cup {IDIn(s)}
               /\ F(x).typ = x.typ /\ F(x).path = x.path /\ F(x).child = x.child
               /\ F(x).offset = x.offset /\ F(x).ordered = x.ordered
    BY <2>2 DEF Queries
  <2>4. q = a => F(q) = F(a)
    OBVIOUS
  <2>5. ChildOf(F(a)) /\ KeptOf(F(q), F(a), runs[b])
    <3> HIDE DEF F
    <3> QED BY <1>1, <1>2, <2>3, <2>4 DEF ChildOf, KeptOf
  <2> HIDE DEF F
  <2> QED BY <1>1, <2>1, <2>3, <2>5, SetsKeeps
<1>4. ASSUME NEW n \in work.limits, Limit(b, n) PROVE QueryInv'
  <2> DEFINE F(x) == [x EXCEPT !.limit = n]
  <2>1. Sets(b, F(q), F(a))
    BY <1>4 DEF Limit
  <2>2. n \in Nat
    BY <1>1, QueryAssumption
  <2>3. ASSUME NEW x \in Queries
        PROVE  /\ F(x) \in Queries /\ F(x).where = x.where
               /\ F(x).typ = x.typ /\ F(x).path = x.path /\ F(x).child = x.child
               /\ F(x).offset = x.offset /\ F(x).ordered = x.ordered
    BY <2>2 DEF Queries
  <2>4. q = a => F(q) = F(a)
    OBVIOUS
  <2>5. ChildOf(F(a)) /\ KeptOf(F(q), F(a), runs[b])
    <3> HIDE DEF F
    <3> QED BY <1>1, <1>2, <2>3, <2>4 DEF ChildOf, KeptOf
  <2> HIDE DEF F
  <2> QED BY <1>1, <2>1, <2>3, <2>5, SetsKeeps
<1>5. ASSUME NEW n \in work.offsets, Offset(b, n) PROVE QueryInv'
  <2> DEFINE F(x) == [x EXCEPT !.offset = n]
  <2>1. Sets(b, F(q), F(a))
    BY <1>5 DEF Offset
  <2>2. n \in Nat
    BY <1>1, QueryAssumption
  <2>3. ASSUME NEW x \in Queries
        PROVE  /\ F(x) \in Queries /\ F(x).where = x.where
               /\ F(x).typ = x.typ /\ F(x).path = x.path /\ F(x).child = x.child
               /\ F(x).offset = n /\ F(x).ordered = x.ordered
    BY <2>2 DEF Queries
  <2>4. q = a => F(q) = F(a)
    OBVIOUS
  <2>5. ChildOf(F(a)) /\ KeptOf(F(q), F(a), runs[b])
    <3> HIDE DEF F
    <3> QED BY <1>1, <1>2, <2>3, <2>4 DEF ChildOf, KeptOf
  <2> HIDE DEF F
  <2> QED BY <1>1, <2>1, <2>3, <2>5, SetsKeeps
<1>6. ASSUME NEW u \in BOOLEAN, Unique(b, u) PROVE QueryInv'
  <2> DEFINE F(x) == [x EXCEPT !.unique = u]
  <2>1. Sets(b, F(q), F(a))
    BY <1>6 DEF Unique
  <2>2. u \in BOOLEAN \cup {Nil}
    BY <1>6
  <2>3. ASSUME NEW x \in Queries
        PROVE  /\ F(x) \in Queries /\ F(x).where = x.where
               /\ F(x).typ = x.typ /\ F(x).path = x.path /\ F(x).child = x.child
               /\ F(x).offset = x.offset /\ F(x).ordered = x.ordered
    BY <2>2 DEF Queries
  <2>4. q = a => F(q) = F(a)
    OBVIOUS
  <2>5. ChildOf(F(a)) /\ KeptOf(F(q), F(a), runs[b])
    <3> HIDE DEF F
    <3> QED BY <1>1, <1>2, <2>3, <2>4 DEF ChildOf, KeptOf
  <2> HIDE DEF F
  <2> QED BY <1>1, <2>1, <2>3, <2>5, SetsKeeps
<1>7. ASSUME NEW f \in work.selects, Select(b, f) PROVE QueryInv'
  <2> DEFINE F(x) == [x EXCEPT !.fields = Append(@, f)]
  <2>1. Sets(b, F(q), F(a))
    BY <1>7 DEF Select
  <2>2. f \in Columns
    BY <1>1 DEF Columns
  <2>3. ASSUME NEW x \in Queries
        PROVE  /\ F(x) \in Queries /\ F(x).where = x.where
               /\ F(x).typ = x.typ /\ F(x).path = x.path /\ F(x).child = x.child
               /\ F(x).offset = x.offset /\ F(x).ordered = x.ordered
    <3>1. Append(x.fields, f) \in Seq(Columns)
      <4>1. x.fields \in Seq(Columns)
        BY DEF Queries
      <4>2. ASSUME NEW S, NEW s \in Seq(S), NEW e \in S PROVE Append(s, e) \in Seq(S)
        OBVIOUS
      <4> QED BY <2>2, <4>1, <4>2
    <3>2. F(x) = [x EXCEPT !.fields = Append(x.fields, f)]
      BY DEF Queries
    <3> QED BY <3>1, <3>2 DEF Queries
  <2>4. q = a => F(q) = F(a)
    OBVIOUS
  <2>5. ChildOf(F(a)) /\ KeptOf(F(q), F(a), runs[b])
    <3> HIDE DEF F
    <3> QED BY <1>1, <1>2, <2>3, <2>4 DEF ChildOf, KeptOf
  <2> HIDE DEF F
  <2> QED BY <1>1, <2>1, <2>3, <2>5, SetsKeeps
<1>8. ASSUME Order(b) PROVE QueryInv'
  <2> DEFINE F(x) == [x EXCEPT !.ordered = TRUE]
  <2>1. Sets(b, F(q), F(a))
    BY <1>8 DEF Order
  <2>3. ASSUME NEW x \in Queries
        PROVE  /\ F(x) \in Queries /\ F(x).where = x.where
               /\ F(x).typ = x.typ /\ F(x).path = x.path /\ F(x).child = x.child
               /\ F(x).offset = x.offset /\ F(x).ordered = TRUE
    BY DEF Queries
  <2>4. q = a => F(q) = F(a)
    OBVIOUS
  <2>5. ChildOf(F(a)) /\ KeptOf(F(q), F(a), runs[b])
    <3> HIDE DEF F
    <3> QED BY <1>1, <1>2, <2>3, <2>4 DEF ChildOf, KeptOf
  <2> HIDE DEF F
  <2> QED BY <1>1, <2>1, <2>3, <2>5, SetsKeeps
<1> QED BY <1>3, <1>4, <1>5, <1>6, <1>7, <1>8

(* A new query asks for all rows of its table.                                   *)
LEMMA NewQueryIs ==
  ASSUME NEW typ \in Types, NEW q, q = NewQuery(Other(typ))
  PROVE  /\ q \in Loads /\ q \in Queries
         /\ q.typ = Other(typ) /\ q.where = {} /\ q.path = Nil /\ q.child = Nil
<1>1. q = [typ |-> Other(typ), where |-> {}, limit |-> Nil, offset |-> 0,
           ordered |-> FALSE, unique |-> Nil, fields |-> <<>>, child |-> Nil, path |-> Nil]
  BY DEF NewQuery
<1>2. Other(typ) \in Types
  BY DEF Other, Types
<1>3. <<>> \in Seq(Columns)
  OBVIOUS
<1>4. {} \in SUBSET Preds
  OBVIOUS
<1>5. q \in Loads
  BY <1>1, <1>2, <1>4 DEF Loads
<1>6. q \in Queries
  BY <1>1, <1>2, <1>3, <1>4 DEF Queries
<1> QED BY <1>1, <1>5, <1>6

(* A query for the neighbours, by predicates on their ids.                       *)
LEMMA WithEdgeKeeps ==
  ASSUME QueryInv, NEW b \in DOMAIN builders, NEW ss, ss \subseteq work.filters, WithEdge(b, ss)
  PROVE  QueryInv'
<1> DEFINE q == builders[b]
           a == asked[b]
           C(typ) == [NewQuery(Other(typ)) EXCEPT !.where = {IDIn(s) : s \in ss}]
           F(x) == [x EXCEPT !.child = C(x.typ)]
<1>1. q \in Queries /\ a \in Queries /\ work \in Workloads /\ KeptOf(q, a, runs[b])
  BY PartsAre DEF QueryInv, Typed
<1>2. Sets(b, F(q), F(a))
  BY DEF WithEdge
<1>3. /\ {IDIn(s) : s \in ss} \in SUBSET Preds
      /\ \A p \in {IDIn(s) : s \in ss} : p.by = "id"
  BY <1>1, QueryAssumption DEF IDIn, Preds
<1>4. ASSUME NEW typ \in Types
      PROVE  C(typ) \in Loads /\ C(typ).typ = Other(typ) /\ \A p \in C(typ).where : p.by = "id"
  <2>1. NewQuery(Other(typ)) \in Loads /\ NewQuery(Other(typ)).typ = Other(typ)
    BY NewQueryIs
  <2> QED BY <1>3, <2>1 DEF Loads
<1> HIDE DEF C
<1>5. ASSUME NEW x \in Queries
      PROVE  /\ F(x) \in Queries /\ F(x).where = x.where
             /\ F(x).typ = x.typ /\ F(x).path = x.path /\ F(x).child = C(x.typ)
             /\ F(x).offset = x.offset /\ F(x).ordered = x.ordered /\ x.typ \in Types
  <2>1. x.typ \in Types /\ C(x.typ) \in Loads
    BY <1>4 DEF Queries
  <2> QED BY <2>1 DEF Queries
<1>6. q = a => F(q) = F(a)
  OBVIOUS
<1> HIDE DEF F
<1>7. ChildOf(F(a)) /\ KeptOf(F(q), F(a), runs[b])
  BY <1>1, <1>4, <1>5, <1>6 DEF ChildOf, KeptOf
<1> QED BY <1>1, <1>2, <1>5, <1>7, SetsKeeps

(* Another builder, about the same rows as an earlier one or over its edge.      *)
LEMMA NewBuilderKeeps ==
  ASSUME QueryInv, NEW b \in DOMAIN builders, NEW new \in Queries, NEW wanted \in Queries,
         NewBuilder(b, new, wanted), ChildOf(wanted), KeptOf(new, wanted, runs[b]),
         wanted.path # Nil => /\ wanted.path \in 1 .. Len(builders) /\ asked[wanted.path].path = Nil
                              /\ asked[wanted.path].typ = Other(wanted.typ)
  PROVE  QueryInv'
<1>1. /\ builders \in Seq(Queries) /\ asked \in Seq(Queries) /\ Len(asked) = Len(builders)
      /\ runs \in Seq(Nat) /\ Len(runs) = Len(builders) /\ b \in 1 .. Len(builders)
  BY DEF QueryInv, Typed
<1>2. /\ builders' = Append(builders, new) /\ asked' = Append(asked, wanted)
      /\ runs' = Append(runs, runs[b]) /\ pending = Nil /\ answer' = Nil
      /\ work' = work /\ db' = db /\ pending' = pending
  BY DEF NewBuilder
<1>3. /\ builders' \in Seq(Queries) /\ asked' \in Seq(Queries) /\ runs' \in Seq(Nat)
      /\ Len(builders') = Len(builders) + 1 /\ Len(asked') = Len(builders')
      /\ Len(runs') = Len(builders')
  <2>1. runs[b] \in Nat
    BY <1>1
  <2> QED BY <1>1, <1>2, <2>1
<1>4. Typed'
  BY <1>2, <1>3 DEF QueryInv, Typed, IsTable
<1>5. Reading' /\ Answered'
  BY <1>2 DEF Reading, Answered
<1>6. ASSUME NEW i \in DOMAIN builders' PROVE Path(i)' /\ Child(i)' /\ Kept(i)'
  <2> DEFINE n == Len(builders)
  <2>1. i \in 1 .. n + 1 /\ n \in Nat
    BY <1>1, <1>3
  <2>2. /\ \A j \in 1 .. n : asked'[j] = asked[j] /\ builders'[j] = builders[j] /\ runs'[j] = runs[j]
        /\ asked'[n + 1] = wanted /\ builders'[n + 1] = new /\ runs'[n + 1] = runs[b]
    BY <1>1, <1>2
  <2>3. CASE i \in 1 .. n
    <3>1. PathOf(asked, i) /\ ChildOf(asked[i]) /\ KeptOf(builders[i], asked[i], runs[i])
      BY <1>1, <2>3, PartsAre DEF QueryInv
    <3>2. PathOf(asked', i)
      BY <2>1, <2>2, <2>3, <3>1 DEF PathOf
    <3>3. ChildOf(asked'[i]) /\ KeptOf(builders'[i], asked'[i], runs'[i])
      BY <2>2, <2>3, <3>1
    <3> QED BY <3>2, <3>3, PartsAreNext
  <2>4. CASE i = n + 1
    <3>1. PathOf(asked', i)
      BY <2>1, <2>2, <2>4 DEF PathOf
    <3>2. ChildOf(asked'[i]) /\ KeptOf(builders'[i], asked'[i], runs'[i])
      BY <2>2, <2>4
    <3> QED BY <3>1, <3>2, PartsAreNext
  <2> QED BY <2>1, <2>3, <2>4
<1> QED BY <1>4, <1>5, <1>6 DEF QueryInv

(* A clone stands where its original does; a query over an edge reads one that    *)
(* came over none.                                                               *)
LEMMA BuildersKeep ==
  ASSUME QueryInv, NEW b \in DOMAIN builders, Clones(b) \/ QueryEdge(b)
  PROVE  QueryInv'
<1>1. /\ builders[b] \in Queries /\ asked[b] \in Queries /\ b \in 1 .. Len(builders)
      /\ PathOf(asked, b) /\ ChildOf(asked[b]) /\ KeptOf(builders[b], asked[b], runs[b])
  BY PartsAre DEF QueryInv, Typed
<1>2. CASE Clones(b)
  <2>1. asked[b].path # Nil => asked[b].path \in 1 .. Len(builders)
    BY <1>1 DEF PathOf
  <2>2. NewBuilder(b, builders[b], asked[b])
    BY <1>2 DEF Clones, Clone
  <2> QED BY <1>1, <2>1, <2>2, NewBuilderKeeps DEF PathOf
<1>3. CASE QueryEdge(b)
  <2> DEFINE q == [NewQuery(Other(builders[b].typ)) EXCEPT !.path = b]
  <2>1. NewBuilder(b, q, q) /\ builders[b].path = Nil
    BY <1>3 DEF QueryEdge
  <2>2. builders[b].typ \in Types /\ asked[b].typ = builders[b].typ /\ asked[b].path = Nil
    BY <1>1, <2>1 DEF Queries, KeptOf
  <2>3. Other(builders[b].typ) \in Types /\ Other(Other(builders[b].typ)) = builders[b].typ
    BY <2>2 DEF Other, Types
  <2>4. /\ NewQuery(Other(builders[b].typ)) \in Queries
        /\ NewQuery(Other(builders[b].typ)).typ = Other(builders[b].typ)
        /\ NewQuery(Other(builders[b].typ)).child = Nil
    BY <2>2, NewQueryIs
  <2>5. q \in Queries /\ q.path = b /\ q.typ = Other(builders[b].typ) /\ q.child = Nil
    <3>1. b \in Nat
      BY <1>1
    <3>2. ASSUME NEW x \in Queries
          PROVE  /\ [x EXCEPT !.path = b] \in Queries /\ [x EXCEPT !.path = b].path = b
                 /\ [x EXCEPT !.path = b].typ = x.typ /\ [x EXCEPT !.path = b].child = x.child
      BY <3>1 DEF Queries
    <3> QED BY <2>4, <3>2
  <2> HIDE DEF q
  <2>6. q.path = b /\ q.typ = Other(builders[b].typ) /\ ChildOf(q) /\ KeptOf(q, q, runs[b])
    BY <2>5 DEF ChildOf, KeptOf
  <2> QED BY <1>1, <2>1, <2>2, <2>3, <2>5, <2>6, NewBuilderKeeps
<1> QED BY <1>2, <1>3

(* What a read does before its answer.                                           *)
Begins(b, op) ==
  /\ pending = Nil /\ runs' = [runs EXCEPT ![b] = @ + 1]
  /\ builders' = [builders EXCEPT ![b] = Touched(@, op)]
  /\ UNCHANGED <<work, db, asked, calls, changes>>

(* The builder it leaves; a fresh one, and the one it came from, were untouched.  *)
LEMMA BeginsKeeps ==
  ASSUME QueryInv, NEW b \in DOMAIN builders, NEW op \in work.ops, Begins(b, op),
         NEW q, q = Touched(builders[b], op)
  PROVE  /\ Typed' /\ \A i \in DOMAIN builders' : Path(i)' /\ Child(i)' /\ Kept(i)'
         /\ op \in Ops /\ q \in Queries /\ builders'[b] = q /\ Read(b, op)'
         /\ Refuses(builders', q) <=> Refuses(builders, q)
         /\ DatabaseRefuses(builders', q) <=> DatabaseRefuses(builders, q)
         /\ Used(runs', b) = 1 <=> Fresh(b)'
         /\ Fresh(b)' => /\ builders[b] = asked[b]
                         /\ q.path # Nil => builders[q.path] = asked[q.path]
         /\ b \in 1 .. Len(builders) /\ PathOf(asked, b) /\ KeptOf(builders[b], asked[b], runs[b])
<1>1. /\ builders \in Seq(Queries) /\ asked \in Seq(Queries) /\ Len(asked) = Len(builders)
      /\ runs \in Seq(Nat) /\ Len(runs) = Len(builders) /\ b \in 1 .. Len(builders)
      /\ work \in Workloads
  BY DEF QueryInv, Typed
<1>2. builders[b] \in Queries /\ op \in Ops
  BY <1>1, QueryAssumption DEF Ops
<1>3. /\ q \in Queries /\ q.typ = builders[b].typ /\ q.where = builders[b].where
      /\ q.path = builders[b].path /\ q.offset = builders[b].offset
      /\ q.ordered = builders[b].ordered
      /\ op \in {"First", "FirstID", "Exist"} => q.limit = 1
      /\ op \in {"Only", "OnlyID"} => q.limit = 2
  BY <1>2, TouchedKeeps DEF Leaves
<1>4. /\ builders' = [builders EXCEPT ![b] = q] /\ runs' = [runs EXCEPT ![b] = runs[b] + 1]
      /\ work' = work /\ db' = db /\ asked' = asked
  BY DEF Begins
<1>5. /\ builders' \in Seq(Queries) /\ Len(builders') = Len(builders) /\ builders'[b] = q
      /\ runs' \in Seq(Nat) /\ Len(runs') = Len(runs) /\ runs'[b] = runs[b] + 1 /\ runs[b] \in Nat
      /\ \A j \in 1 .. Len(builders) : j # b => builders'[j] = builders[j] /\ runs'[j] = runs[j]
  <2>1. runs[b] \in Nat
    BY <1>1
  <2> QED BY <1>1, <1>3, <1>4, <2>1
<1>6. Typed'
  BY <1>1, <1>4, <1>5 DEF QueryInv, Typed, IsTable
<1>7. \A i \in 1 .. Len(builders) :
        PathOf(asked, i) /\ ChildOf(asked[i]) /\ KeptOf(builders[i], asked[i], runs[i])
  BY <1>1, PartsAre DEF QueryInv
<1>8. ASSUME NEW i \in DOMAIN builders' PROVE Path(i)' /\ Child(i)' /\ Kept(i)'
  <2>1. i \in 1 .. Len(builders)
    BY <1>5, <1>1
  <2>2. PathOf(asked', i) /\ ChildOf(asked'[i])
    BY <1>4, <1>7, <2>1
  <2>3. KeptOf(builders'[i], asked'[i], runs'[i])
    <3>1. CASE i = b
      <4>1. runs'[b] # 0
        BY <1>5
      <4> QED BY <1>1, <1>3, <1>4, <1>5, <1>7, <3>1, <4>1 DEF KeptOf
    <3>2. CASE i # b
      BY <1>4, <1>5, <1>7, <2>1, <3>2
    <3> QED BY <3>1, <3>2
  <2> QED BY <2>2, <2>3, PartsAreNext
<1>9. q.path # Nil => /\ q.path \in 1 .. Len(builders) /\ q.path # b
                      /\ builders'[q.path] = builders[q.path] /\ runs'[q.path] = runs[q.path]
  <2>1. q.path = asked[b].path
    BY <1>1, <1>3, <1>7 DEF KeptOf
  <2>2. PathOf(asked, b)
    BY <1>1, <1>7
  <2>3. SUFFICES ASSUME q.path # Nil
                 PROVE  /\ q.path \in 1 .. Len(builders) /\ q.path # b
                        /\ builders'[q.path] = builders[q.path] /\ runs'[q.path] = runs[q.path]
    OBVIOUS
  <2>4. q.path \in 1 .. b - 1
    BY <2>1, <2>2, <2>3 DEF PathOf
  <2>5. q.path \in 1 .. Len(builders) /\ q.path # b
    BY <1>1, <2>4
  <2> QED BY <1>5, <2>5
<1>10. /\ Refuses(builders', q) <=> Refuses(builders, q)
       /\ DatabaseRefuses(builders', q) <=> DatabaseRefuses(builders, q)
  BY <1>9 DEF Refuses, DatabaseRefuses, SelectsKeys
<1>11. Used(runs', b) = 1 <=> Fresh(b)'
  <2>1. Fresh(b)' <=> runs'[b] + (IF q.path = Nil THEN 0 ELSE runs'[q.path]) = 1
    BY <1>5 DEF Fresh, Used
  <2>2. Used(runs', b) = runs'[b] + (IF q.path = Nil THEN 0 ELSE runs'[q.path])
    BY <1>3 DEF Used
  <2> QED BY <2>1, <2>2
<1>12. ASSUME Fresh(b)'
       PROVE  builders[b] = asked[b] /\ (q.path # Nil => builders[q.path] = asked[q.path])
  <2>1. runs'[b] + (IF q.path = Nil THEN 0 ELSE runs'[q.path]) = 1
    BY <1>5, <1>12 DEF Fresh, Used
  <2>2. q.path # Nil => runs[q.path] \in Nat
    BY <1>1, <1>9
  <2>3. runs[b] = 0 /\ (q.path # Nil => runs[q.path] = 0)
    BY <1>5, <1>9, <2>1, <2>2
  <2> QED BY <1>1, <1>7, <1>9, <2>3 DEF KeptOf
<1>13. Read(b, op)'
  <2>1. b \in DOMAIN builders' /\ runs'[b] > 0
    BY <1>1, <1>5
  <2>2. Fresh(b)' => Bare(builders'[b]) = Bare(Touched(asked'[b], op))
    BY <1>4, <1>5, <1>12
  <2>3. op \in OfIDs \cup {"All", "First", "Only"}
    BY <1>2 DEF Ops
  <2> QED BY <1>3, <1>5, <2>1, <2>2, <2>3 DEF Read
<1> QED BY <1>1, <1>2, <1>3, <1>5, <1>6, <1>7, <1>8, <1>10, <1>11, <1>12, <1>13

(* What its SELECT finds.                                                        *)
LEMMA RunFinds ==
  ASSUME QueryInv, NEW b \in DOMAIN builders, NEW op \in work.ops, Begins(b, op),
         NEW q, q = Touched(builders[b], op), ~Refuses(builders, q),
         op \in OfIDs => Len(q.fields) = 1,
         NEW T \in Selected(db, builders, q, IsDistinct(q, op))
  PROVE  Found(b, op, T, db)'
<1>1. /\ op \in Ops /\ q \in Queries /\ builders'[b] = q /\ ~Refuses(builders', q)
      /\ Fresh(b)' => /\ builders[b] = asked[b]
                      /\ q.path # Nil => builders[q.path] = asked[q.path]
      /\ b \in 1 .. Len(builders) /\ PathOf(asked, b) /\ KeptOf(builders[b], asked[b], runs[b])
  BY BeginsKeeps
<1>2. /\ builders \in Seq(Queries) /\ asked \in Seq(Queries) /\ Len(asked) = Len(builders)
      /\ IsTable(db) /\ runs \in Seq(Nat) /\ Len(runs) = Len(builders)
  BY DEF QueryInv, Typed
<1>3. builders[b] \in Queries /\ asked[b] \in Queries
  BY <1>1, <1>2
<1>4. /\ q.typ = asked[b].typ /\ q.where = asked[b].where /\ q.path = asked[b].path
      /\ q.offset = asked[b].offset /\ q.ordered = asked[b].ordered
      /\ q.path # Nil => (IsDistinct(q, op) <=> builders[b].unique # FALSE)
      /\ q.path = builders[b].path /\ q.typ \in Types
  <2>1. /\ q.typ = builders[b].typ /\ q.where = builders[b].where
        /\ q.path = builders[b].path /\ q.offset = builders[b].offset
        /\ q.ordered = builders[b].ordered
        /\ builders[b].path # Nil => (IsDistinct(q, op) <=> builders[b].unique # FALSE)
    <3>1. Leaves(builders[b], op, q)
      BY <1>1, <1>3, TouchedKeeps
    <3> QED BY <3>1 DEF Leaves
  <2>2. q.typ \in Types
    BY <1>1 DEF Queries
  <2> QED BY <1>1, <2>1, <2>2 DEF KeptOf
<1>5. IsDistinct(q, op) \in BOOLEAN
  BY DEF IsDistinct
<1>6. q.path # Nil => builders[q.path].typ = Other(q.typ) /\ asked[q.path].typ = Other(q.typ)
  <2>1. SUFFICES ASSUME q.path # Nil
                 PROVE  builders[q.path].typ = Other(q.typ) /\ asked[q.path].typ = Other(q.typ)
    OBVIOUS
  <2>2. q.path \in 1 .. Len(builders) /\ asked[q.path].typ = Other(q.typ)
    BY <1>1, <1>2, <1>4, <2>1 DEF PathOf
  <2>3. KeptOf(builders[q.path], asked[q.path], runs[q.path])
    BY <1>2, <2>2, PartsAre DEF QueryInv
  <2> QED BY <2>2, <2>3 DEF KeptOf
<1>7. /\ \A x \in T : x[1] \in RowIds(db, q.typ)
      /\ q.typ = "Token" => \A x, y \in T : x[1] = y[1] => x = y
  <2>1. RowSet(T, db, q.typ)
    BY <1>1, <1>2, <1>4, <1>5, <1>6, SelectedRows
  <2> QED BY <2>1 DEF RowSet
<1>8. ASSUME asked[b].path = Nil \/ Fresh(b)'
      PROVE  \E U \in Whole(b, db) : FirstOf(q.limit, asked[b].ordered, T, U)
  <2>1. q.path # Nil => /\ builders[q.path] = asked[q.path]
                        /\ IsDistinct(q, op) <=> asked[b].unique # FALSE
    BY <1>1, <1>4, <1>8
  <2>2. \E U \in Whole(b, db) : FirstOf(q.limit, q.ordered, T, U)
    BY <1>1, <1>2, <1>3, <1>4, <1>5, <1>6, <2>1, SelectedFound
  <2> QED BY <1>4, <2>2
<1>9. Whole(b, db)' = Whole(b, db) /\ asked' = asked /\ db' = db
  BY DEF Begins, Whole
<1> QED BY <1>1, <1>2, <1>4, <1>7, <1>8, <1>9 DEF Found

(* The answer of a read, with what the builder is left as.                       *)
LEMMA AnswersKeep ==
  ASSUME NEW b, NEW op, NEW T, NEW e, NEW edges, NEW seen, Answers(b, op, T, e, edges, seen),
         Read(b, op)', asked' = asked, Used(runs', b) = 1 <=> Fresh(b)',
         \/ e = "Validation" /\ T = {} /\ Refuses(builders', builders'[b])
         \/ /\ e = "database error" /\ T = {}
            /\ ~Refuses(builders', builders'[b]) /\ DatabaseRefuses(builders', builders'[b])
         \/ /\ e = "columns do not match" /\ T = {} /\ ~Refuses(builders', builders'[b])
            /\ op \in OfIDs /\ Len(builders'[b].fields) # 1
         \/ e = Verdict(op, T) /\ Found(b, op, T, seen)'
  PROVE  Reading' /\ Answered'
<1>1. /\ pending' = Nil /\ answer'.b = b /\ answer'.op = op /\ answer'.rows = T /\ answer'.err = e
      /\ answer'.seen = seen /\ answer'.asked = asked
      /\ answer'.first = (Used(runs', b) = 1)
      /\ answer'.whole = (op \in OfIDs \/ builders'[b].fields = asked[b].fields)
  BY DEF Answers
<1>2. Read(answer.b, answer.op)' /\ (Fresh(answer.b)' <=> Fresh(b)')
  BY <1>1 DEF Read, Fresh, Used
<1>3. Found(b, op, T, seen)' => Found(answer.b, answer.op, answer.rows, answer.seen)'
  <2>1. Whole(answer.b, answer.seen)' = Whole(b, seen)'
    BY <1>1 DEF Whole
  <2>2. SUFFICES ASSUME Found(b, op, T, seen)'
                 PROVE  Found(answer.b, answer.op, answer.rows, answer.seen)'
    OBVIOUS
  <2>3. /\ IsTable(seen) /\ ~Refuses(builders', builders'[b])
        /\ op \in OfIDs => Len(builders'[b].fields) = 1
        /\ \A x \in T : x[1] \in RowIds(seen, asked'[b].typ)
        /\ asked'[b].typ = "Token" => \A x, y \in T : x[1] = y[1] => x = y
    BY <2>2 DEF Found
  <2>4. asked'[b].path = Nil \/ Fresh(b)' =>
          \E U \in Whole(b, seen)' : FirstOf(builders'[b].limit, asked'[b].ordered, T, U)
    BY <2>2 DEF Found
  <2>5. asked'[answer'.b].path = Nil \/ Fresh(answer.b)' =>
          \E U \in Whole(answer.b, answer.seen)' :
            FirstOf(builders'[answer'.b].limit, asked'[answer'.b].ordered, answer'.rows, U)
    BY <1>1, <1>2, <2>1, <2>4
  <2> QED BY <1>1, <2>3, <2>5 DEF Found
<1>4. /\ Read(answer.b, answer.op)' /\ answer'.asked = asked'
      /\ answer'.first <=> Fresh(answer.b)'
      /\ answer'.whole <=> answer'.op \in OfIDs \/ builders'[answer'.b].fields = asked'[answer'.b].fields
  BY <1>1, <1>2
<1>5. \/ answer'.err = "Validation" /\ answer'.rows = {} /\ Refuses(builders', builders'[answer'.b])
      \/ /\ answer'.err = "database error" /\ answer'.rows = {}
         /\ ~Refuses(builders', builders'[answer'.b])
         /\ DatabaseRefuses(builders', builders'[answer'.b])
      \/ /\ answer'.err = "columns do not match" /\ answer'.rows = {}
         /\ ~Refuses(builders', builders'[answer'.b])
         /\ answer'.op \in OfIDs /\ Len(builders'[answer'.b].fields) # 1
      \/ answer'.err = Verdict(answer'.op, answer'.rows)
         /\ Found(answer.b, answer.op, answer.rows, answer.seen)'
  BY <1>1, <1>3
<1>6. Answered'
  BY <1>4, <1>5 DEF Answered
<1> QED BY <1>1, <1>6 DEF Reading

(* How a read can end, or go on.                                                 *)
LEMMA RunCases ==
  ASSUME QueryInv, NEW b \in DOMAIN builders, NEW op, Run(b, op), NEW q, q = Touched(builders[b], op)
  PROVE  /\ Begins(b, op)
         /\ \/ Refuses(builders, q) /\ Answers(b, op, {}, "Validation", {}, db)
            \/ /\ ~Refuses(builders, q) /\ DatabaseRefuses(builders, q)
               /\ Answers(b, op, {}, "database error", {}, db)
            \/ /\ ~Refuses(builders, q) /\ op \in OfIDs /\ Len(q.fields) # 1
               /\ Answers(b, op, {}, "columns do not match", {}, db)
            \/ /\ ~Refuses(builders, q) /\ (op \in OfIDs => Len(q.fields) = 1)
               /\ \E T \in Selected(db, builders, q, IsDistinct(q, op)) :
                    \/ /\ op \in OfIDs \/ q.child = Nil \/ T = {}
                       /\ Answers(b, op, T, Verdict(op, T), {}, db)
                    \/ /\ op \notin OfIDs /\ q.child # Nil /\ T # {} /\ answer' = Nil
                       /\ pending' = [b |-> b, op |-> op, rows |-> T, seen |-> db]
<1>1. builders'[b] = q
  BY DEF QueryInv, Typed, Run
<1> QED BY <1>1 DEF Run, Begins

(* A read of a builder.                                                          *)
LEMMA RunKeeps ==
  ASSUME QueryInv, NEW b \in DOMAIN builders, NEW op \in work.ops, Run(b, op)
  PROVE  QueryInv'
<1> DEFINE q == Touched(builders[b], op)
<1> HIDE DEF q
<1>1. Begins(b, op) /\ asked' = asked /\ db' = db
  BY RunCases DEF Begins, q
<1>2. /\ Typed' /\ \A i \in DOMAIN builders' : Path(i)' /\ Child(i)' /\ Kept(i)'
      /\ op \in Ops /\ q \in Queries /\ builders'[b] = q /\ Read(b, op)'
      /\ Refuses(builders', q) <=> Refuses(builders, q)
      /\ DatabaseRefuses(builders', q) <=> DatabaseRefuses(builders, q)
      /\ Used(runs', b) = 1 <=> Fresh(b)'
      /\ Fresh(b)' => /\ builders[b] = asked[b]
                      /\ q.path # Nil => builders[q.path] = asked[q.path]
  BY <1>1, BeginsKeeps DEF q
<1>3. Reading' /\ Answered'
  <2>1. CASE Refuses(builders, q) /\ Answers(b, op, {}, "Validation", {}, db)
    BY <1>1, <1>2, <2>1, AnswersKeep
  <2>5. CASE /\ ~Refuses(builders, q) /\ DatabaseRefuses(builders, q)
             /\ Answers(b, op, {}, "database error", {}, db)
    BY <1>1, <1>2, <2>5, AnswersKeep
  <2>2. CASE /\ ~Refuses(builders, q) /\ op \in OfIDs /\ Len(q.fields) # 1
             /\ Answers(b, op, {}, "columns do not match", {}, db)
    BY <1>1, <1>2, <2>2, AnswersKeep
  <2>3. ASSUME ~Refuses(builders, q), op \in OfIDs => Len(q.fields) = 1,
               NEW T \in Selected(db, builders, q, IsDistinct(q, op)),
               Answers(b, op, T, Verdict(op, T), {}, db)
        PROVE  Reading' /\ Answered'
    <3>1. Found(b, op, T, db)'
      BY <1>1, <2>3, RunFinds DEF q
    <3> QED BY <1>1, <1>2, <2>3, <3>1, AnswersKeep
  <2>4. ASSUME ~Refuses(builders, q), op \in OfIDs => Len(q.fields) = 1,
               NEW T \in Selected(db, builders, q, IsDistinct(q, op)),
               op \notin OfIDs, q.child # Nil, T # {}, answer' = Nil,
               pending' = [b |-> b, op |-> op, rows |-> T, seen |-> db]
        PROVE  Reading' /\ Answered'
    <3>1. Found(b, op, T, db)'
      BY <1>1, <2>4, RunFinds DEF q
    <3>2. pending'.b = b /\ pending'.op = op /\ pending'.rows = T /\ pending'.seen = db
      BY <2>4
    <3>3. Found(pending.b, pending.op, pending.rows, pending.seen)'
      BY <1>1, <3>1, <3>2 DEF Found, Fresh, Used, Whole
    <3>4. Read(pending.b, pending.op)'
      BY <1>2, <3>2 DEF Read, Fresh, Used
    <3>5. Fresh(b)' => builders'[b].child = asked'[b].child
      <4>1. builders[b] \in Queries /\ q.child = builders[b].child
        <5>1. builders[b] \in Queries
          BY DEF QueryInv, Typed
        <5>2. Leaves(builders[b], op, q)
          BY <1>2, <5>1, TouchedKeeps DEF q
        <5> QED BY <5>1, <5>2 DEF Leaves
      <4> QED BY <1>1, <1>2, <4>1
    <3>6. Fresh(pending.b)' <=> Fresh(b)'
      BY <3>2 DEF Fresh, Used
    <3> QED BY <1>2, <2>4, <3>2, <3>3, <3>4, <3>5, <3>6 DEF Reading, Answered
  <2> QED BY <2>1, <2>2, <2>3, <2>4, <2>5, RunCases DEF q
<1> QED BY <1>2, <1>3 DEF QueryInv

--------------------------------------------------------------------------------
(* The second SELECT.                                                            *)

(* The keys of the neighbours to load are ids.                                   *)
LEMMA KeysAreIds ==
  ASSUME NEW d, IsTable(d), NEW typ \in Types, NEW T, \A x \in T : x[1] \in RowIds(d, typ)
  PROVE  Keys(typ, T, d) \in SUBSET Nat
<1>1. CASE typ = "User"
  BY <1>1, IdsAreNumbers DEF Keys, RowIds
<1>2. CASE typ # "User"
  <2>1. \A x \in T : x[1] \in DOMAIN d.owner
    BY <1>2 DEF RowIds
  <2> QED BY <1>2, <2>1, IdsAreNumbers DEF Keys
<1> QED BY <1>1, <1>2

By(typ) == IF typ = "User" THEN "fk" ELSE "id"

(* The answer of a read of b that has found T in d, with its neighbours; the       *)
(* query for them keeps their keys.                                              *)
Loaded(b, op, T, d, typ, keys) ==
  \/ /\ keys = {} /\ builders' = builders
     /\ Answers(b, op, T, Verdict(op, T), {}, d)
  \/ /\ keys # {}
     /\ builders' = [builders EXCEPT ![b].child.where = @ \cup {[by |-> By(typ), in |-> keys]}]
     /\ \E N \in Selected(db, builders, builders'[b].child, FALSE), L \in Lasts(T) :
          Answers(b, op, T, Verdict(op, T), Assigned(typ, T, L, N, d, db), d)

(* The second SELECT does that.                                                  *)
LEMMA LoadCases ==
  ASSUME LoadEdges
  PROVE  Loaded(pending.b, pending.op, pending.rows, pending.seen, builders[pending.b].typ,
                Keys(builders[pending.b].typ, pending.rows, pending.seen))
BY DEF LoadEdges, By, Loaded

(* The builder a read is under way of.                                           *)
LEMMA LoadKeeps ==
  ASSUME QueryInv, LoadEdges
  PROVE  QueryInv'
<1>0. PICK b, op, T, seen : b = pending.b /\ op = pending.op /\ T = pending.rows /\ seen = pending.seen
  OBVIOUS
<1> DEFINE q == builders[b]
           typ == q.typ
           keys == Keys(typ, T, seen)
<1>1. /\ builders \in Seq(Queries) /\ asked \in Seq(Queries) /\ Len(asked) = Len(builders)
      /\ runs \in Seq(Nat) /\ Len(runs) = Len(builders)
  BY DEF QueryInv, Typed
<1>2. /\ pending # Nil
      /\ work' = work /\ db' = db /\ asked' = asked /\ runs' = runs
  BY DEF LoadEdges
<1>3. /\ Read(b, op) /\ Found(b, op, T, seen) /\ op \notin OfIDs /\ T # {} /\ q.child # Nil
      /\ Fresh(b) => q.child = asked[b].child
  BY <1>0, <1>2 DEF QueryInv, Reading
<1>4. b \in 1 .. Len(builders) /\ runs[b] > 0 /\ q \in Queries
  BY <1>1, <1>3 DEF Read
<1>5. \A i \in 1 .. Len(builders) :
        PathOf(asked, i) /\ ChildOf(asked[i]) /\ KeptOf(builders[i], asked[i], runs[i])
  BY <1>1, PartsAre DEF QueryInv
<1>6. typ = asked[b].typ /\ typ \in Types
  BY <1>4, <1>5 DEF KeptOf, Queries
<1>7. keys \in SUBSET Nat
  BY <1>3, <1>6, KeysAreIds DEF Found
<1>l. Loaded(b, op, T, seen, typ, keys)
  BY <1>0, LoadCases
<1> HIDE DEF keys
<1>8. PICK new : /\ builders' = [builders EXCEPT ![b] = new] /\ new \in Queries
                 /\ Bare(new) = Bare(q) /\ new.typ = q.typ /\ new.where = q.where
                 /\ new.path = q.path /\ new.offset = q.offset /\ new.ordered = q.ordered
                 /\ new.limit = q.limit /\ new.fields = q.fields
  <2>1. CASE builders' = builders
    <3>1. builders' = [builders EXCEPT ![b] = q]
      BY <1>1, <1>4, <2>1
    <3> QED BY <1>4, <3>1
  <2>2. CASE builders' = [builders EXCEPT ![b].child.where = @ \cup {[by |-> By(typ), in |-> keys]}]
    <3> DEFINE c == [q.child EXCEPT !.where = q.child.where \cup {[by |-> By(typ), in |-> keys]}]
               new == [q EXCEPT !.child = c]
    <3>1. q.child \in Loads
      BY <1>3, <1>4 DEF Queries
    <3>2. [by |-> By(typ), in |-> keys] \in Preds
      BY <1>7 DEF Preds, By
    <3>3. c \in Loads
      BY <3>1, <3>2 DEF Loads
    <3>4. builders' = [builders EXCEPT ![b] = new]
      BY <1>1, <1>4, <2>2
    <3> HIDE DEF c
    <3>5. /\ new \in Queries /\ new.typ = q.typ /\ new.where = q.where
          /\ new.path = q.path /\ new.offset = q.offset /\ new.ordered = q.ordered
          /\ new.limit = q.limit /\ new.fields = q.fields
      BY <1>4, <3>3 DEF Queries
    <3>6. Bare(new) = Bare(q)
      BY <1>4, <3>3 DEF Bare, Queries
    <3> HIDE DEF new
    <3> QED BY <3>4, <3>5, <3>6
  <2> QED BY <1>l, <2>1, <2>2 DEF Loaded
<1> HIDE DEF q
<1>9. /\ builders' \in Seq(Queries) /\ Len(builders') = Len(builders) /\ builders'[b] = new
      /\ \A j \in 1 .. Len(builders) : j # b => builders'[j] = builders[j]
  BY <1>1, <1>4, <1>8
<1>10. Typed'
  BY <1>1, <1>2, <1>9 DEF QueryInv, Typed, IsTable
<1>11. ASSUME NEW i \in DOMAIN builders' PROVE Path(i)' /\ Child(i)' /\ Kept(i)'
  <2>1. i \in 1 .. Len(builders)
    BY <1>1, <1>9
  <2>2. PathOf(asked', i) /\ ChildOf(asked'[i])
    BY <1>2, <1>5, <2>1
  <2>3. KeptOf(builders'[i], asked'[i], runs'[i])
    <3>1. CASE i = b
      BY <1>2, <1>4, <1>5, <1>8, <1>9, <3>1 DEF KeptOf, q
    <3>2. CASE i # b
      BY <1>2, <1>5, <1>9, <2>1, <3>2
    <3> QED BY <3>1, <3>2
  <2> QED BY <2>2, <2>3, PartsAreNext
<1>12. q.path # Nil => q.path # b /\ builders'[q.path] = builders[q.path]
  <2>1. q.path # Nil => q.path \in 1 .. b - 1
    <3>1. q.path = asked[b].path
      BY <1>4, <1>5 DEF KeptOf, q
    <3> QED BY <1>4, <1>5, <3>1 DEF PathOf
  <2>2. q.path # Nil => q.path \in 1 .. Len(builders) /\ q.path # b
    BY <1>1, <1>4, <2>1
  <2> QED BY <1>9, <2>2
<1>13. /\ Fresh(b)' <=> Fresh(b)
       /\ Used(runs', b) = 1 <=> Fresh(b)
  BY <1>2, <1>8, <1>9 DEF Fresh, Used, q
<1>14. Refuses(builders', new) <=> Refuses(builders, q)
  <2>1. q.path # Nil => builders'[q.path].fields = builders[q.path].fields
    BY <1>12
  <2> QED BY <1>8, <2>1 DEF Refuses
<1>15. Read(b, op)'
  <2>1. Fresh(b)' => Bare(builders'[b]) = Bare(Touched(asked'[b], op))
    BY <1>2, <1>3, <1>8, <1>9, <1>13 DEF Read, q
  <2>2. b \in DOMAIN builders' /\ runs'[b] > 0
    BY <1>1, <1>2, <1>4, <1>9
  <2> QED BY <1>3, <1>8, <1>9, <2>1, <2>2 DEF Read, q
<1>16. Found(b, op, T, seen)'
  <2>1. Whole(b, seen)' = Whole(b, seen)
    BY <1>2 DEF Whole
  <2> QED BY <1>2, <1>3, <1>8, <1>9, <1>13, <1>14, <2>1 DEF Found, q
<1>17. PICK edges : Answers(b, op, T, Verdict(op, T), edges, seen)
  BY <1>l DEF Loaded
<1>18. Reading' /\ Answered'
  BY <1>2, <1>13, <1>15, <1>16, <1>17, AnswersKeep
<1> QED BY <1>10, <1>11, <1>18 DEF QueryInv

--------------------------------------------------------------------------------
(* Other sessions leave what the foreign key allows.                             *)
LEMMA TablesKept ==
  ASSUME IsTable(db), Outside
  PROVE  IsTable(db)' /\ answer' = Nil /\ UNCHANGED <<work, builders, pending, asked, runs>>
<1>1. /\ db.users \subseteq UserIds /\ IsFiniteSet(db.users)
      /\ DOMAIN db.owner \subseteq TokenIds /\ IsFiniteSet(DOMAIN db.owner)
      /\ \A t \in DOMAIN db.owner : db.owner[t] \in db.users \cup {Nil}
  BY DEF IsTable
<1>2. ASSUME NEW us, NEW owner, Changed(us, owner),
             us \subseteq UserIds, IsFiniteSet(us),
             DOMAIN owner \subseteq TokenIds, IsFiniteSet(DOMAIN owner),
             \A t \in DOMAIN owner : owner[t] \in us \cup {Nil}
      PROVE  IsTable(db)' /\ answer' = Nil /\ UNCHANGED <<work, builders, pending, asked, runs>>
  <2>1. db'.users = us /\ db'.owner = owner
    BY <1>2 DEF Changed
  <2> QED BY <1>2, <2>1 DEF Changed, IsTable
<1>3. ASSUME NEW u \in UserIds, Changed(db.users \cup {u}, db.owner)
      PROVE  IsTable(db)' /\ answer' = Nil /\ UNCHANGED <<work, builders, pending, asked, runs>>
  <2>1. IsFiniteSet(db.users \cup {u})
    BY <1>1, FS_AddElement
  <2> QED BY <1>1, <1>2, <1>3, <2>1
<1>4. ASSUME NEW u \in db.users,
             Changed(db.users \ {u}, [t \in DOMAIN db.owner |-> IF db.owner[t] = u THEN Nil ELSE db.owner[t]])
      PROVE  IsTable(db)' /\ answer' = Nil /\ UNCHANGED <<work, builders, pending, asked, runs>>
  <2> DEFINE owner == [t \in DOMAIN db.owner |-> IF db.owner[t] = u THEN Nil ELSE db.owner[t]]
  <2>1. IsFiniteSet(db.users \ {u})
    BY <1>1, FS_RemoveElement
  <2>2. DOMAIN owner = DOMAIN db.owner /\ \A t \in DOMAIN owner : owner[t] \in (db.users \ {u}) \cup {Nil}
    BY <1>1
  <2> HIDE DEF owner
  <2> QED BY <1>1, <1>2, <1>4, <2>1, <2>2 DEF owner
<1>5. ASSUME NEW t \in TokenIds, NEW o \in db.users \cup {Nil},
             Changed(db.users, [x \in DOMAIN db.owner \cup {t} |-> IF x = t THEN o ELSE db.owner[x]])
      PROVE  IsTable(db)' /\ answer' = Nil /\ UNCHANGED <<work, builders, pending, asked, runs>>
  <2> DEFINE owner == [x \in DOMAIN db.owner \cup {t} |-> IF x = t THEN o ELSE db.owner[x]]
  <2>1. IsFiniteSet(DOMAIN db.owner \cup {t})
    BY <1>1, FS_AddElement
  <2>2. DOMAIN owner = DOMAIN db.owner \cup {t} /\ \A x \in DOMAIN owner : owner[x] \in db.users \cup {Nil}
    BY <1>1
  <2> HIDE DEF owner
  <2> QED BY <1>1, <1>2, <1>5, <2>1, <2>2 DEF owner
<1>6. ASSUME NEW t \in DOMAIN db.owner, Changed(db.users, [x \in DOMAIN db.owner \ {t} |-> db.owner[x]])
      PROVE  IsTable(db)' /\ answer' = Nil /\ UNCHANGED <<work, builders, pending, asked, runs>>
  <2> DEFINE owner == [x \in DOMAIN db.owner \ {t} |-> db.owner[x]]
  <2>1. IsFiniteSet(DOMAIN db.owner \ {t})
    BY <1>1, FS_RemoveElement
  <2>2. DOMAIN owner = DOMAIN db.owner \ {t} /\ \A x \in DOMAIN owner : owner[x] \in db.users \cup {Nil}
    BY <1>1
  <2> HIDE DEF owner
  <2> QED BY <1>1, <1>2, <1>6, <2>1, <2>2 DEF owner
<1> QED BY <1>3, <1>4, <1>5, <1>6 DEF Outside

(* They touch no builder.                                                        *)
LEMMA OutsideKeeps ==
  ASSUME QueryInv, Outside
  PROVE  QueryInv'
<1>1. IsTable(db)' /\ answer' = Nil /\ UNCHANGED <<work, builders, pending, asked, runs>>
  BY TablesKept DEF QueryInv, Typed
<1>2. Typed'
  BY <1>1 DEF QueryInv, Typed
<1>3. Reading' /\ Answered'
  BY <1>1, ReadingFrame DEF QueryInv, Answered
<1>4. \A i \in DOMAIN builders' : Path(i)' /\ Child(i)' /\ Kept(i)'
  BY <1>1, PartsAre, PartsAreNext DEF QueryInv
<1> QED BY <1>2, <1>3, <1>4 DEF QueryInv

(* The invariant holds to begin with.                                            *)
LEMMA QueryInit ==
  ASSUME Init
  PROVE  QueryInv
<1>1. PICK typ \in work.starts : builders = <<NewQuery(typ)>>
  BY DEF Init
<1>2. work \in Workloads /\ IsTable(db) /\ typ \in Types
  BY <1>1, QueryAssumption DEF Init, Types
<1>3. Other(typ) \in Types /\ typ = Other(Other(typ))
  BY <1>2 DEF Types, Other
<1>4. PICK q : q = NewQuery(typ)
  OBVIOUS
<1>5. q \in Queries /\ q.path = Nil /\ q.child = Nil
  BY <1>3, <1>4, NewQueryIs
<1>6. /\ builders = <<q>> /\ asked = <<q>> /\ runs = <<0>> /\ pending = Nil /\ answer = Nil
  BY <1>1, <1>4 DEF Init
<1>7. Typed
  BY <1>2, <1>5, <1>6 DEF Typed
<1>8. \A i \in DOMAIN builders : i = 1 /\ builders[i] = q /\ asked[i] = q /\ runs[i] = 0
  BY <1>6
<1>9. \A i \in DOMAIN builders : Path(i) /\ Child(i) /\ Kept(i)
  <2> TAKE i \in DOMAIN builders
  <2>1. PathOf(asked, i) /\ ChildOf(asked[i]) /\ KeptOf(builders[i], asked[i], runs[i])
    BY <1>5, <1>8 DEF PathOf, ChildOf, KeptOf
  <2> QED BY <2>1, PartsAre
<1> QED BY <1>6, <1>7, <1>9 DEF QueryInv, Reading, Answered

(* Every step keeps the invariant.                                               *)
LEMMA QueryStep ==
  ASSUME QueryInv, [Next]_vars
  PROVE  QueryInv'
<1>1. CASE Outside
  BY <1>1, OutsideKeeps
<1>2. CASE LoadEdges
  BY <1>2, LoadKeeps
<1>3. ASSUME NEW b \in DOMAIN builders,
             \/ \E s \in work.filters : Where(b, s)
             \/ \E n \in work.limits : Limit(b, n)
             \/ \E n \in work.offsets : Offset(b, n)
             \/ \E u \in BOOLEAN : Unique(b, u)
             \/ \E f \in work.selects : Select(b, f)
             \/ Order(b)
      PROVE  QueryInv'
  BY <1>3, SettersKeep
<1>4. ASSUME NEW b \in DOMAIN builders, (\E s \in work.filters : WithEdge(b, {s})) \/ WithEdge(b, {})
      PROVE  QueryInv'
  BY <1>4, WithEdgeKeeps
<1>5. ASSUME NEW b \in DOMAIN builders, Clones(b) \/ QueryEdge(b) PROVE QueryInv'
  BY <1>5, BuildersKeep
<1>6. ASSUME NEW b \in DOMAIN builders, NEW op \in work.ops, Run(b, op) PROVE QueryInv'
  BY <1>6, RunKeeps
<1>7. CASE UNCHANGED vars
  <2>1. UNCHANGED <<work, db, builders, pending, answer, asked, runs>>
    BY <1>7 DEF vars
  <2>2. Typed'
    BY <2>1 DEF QueryInv, Typed
  <2>3. Reading' /\ Answered'
    <3>1. Answered'
      <4>1. SUFFICES ASSUME answer' # Nil PROVE Answered'
        BY DEF Answered
      <4>2. answer # Nil /\ Answered
        BY <2>1, <4>1 DEF QueryInv
      <4>3. Read(answer.b, answer.op)' <=> Read(answer.b, answer.op)
        BY <2>1 DEF Read, Fresh, Used
      <4>4. /\ Found(answer.b, answer.op, answer.rows, answer.seen)'
                 <=> Found(answer.b, answer.op, answer.rows, answer.seen)
            /\ Fresh(answer.b)' <=> Fresh(answer.b)
        BY <2>1 DEF Found, Fresh, Used, Whole
      <4> QED BY <2>1, <4>2, <4>3, <4>4 DEF Answered
    <3> QED BY <2>1, <3>1, ReadingFrame DEF QueryInv
  <2>4. \A i \in DOMAIN builders' : Path(i)' /\ Child(i)' /\ Kept(i)'
    BY <2>1, PartsAre, PartsAreNext DEF QueryInv
  <2> QED BY <2>2, <2>3, <2>4 DEF QueryInv
<1> QED BY <1>1, <1>2, <1>3, <1>4, <1>5, <1>6, <1>7 DEF Next

(* In every run of the query builders the invariant holds.                       *)
THEOREM QueryInvariance == Spec => []QueryInv
<1>1. Init => QueryInv
  BY QueryInit
<1>2. QueryInv /\ [Next]_vars => QueryInv'
  BY QueryStep
<1> QED BY <1>1, <1>2, PTL DEF Spec

--------------------------------------------------------------------------------
(* The properties.                                                               *)

(* A query without limits takes all its rows.                                    *)
LEMMA AllTaken ==
  ASSUME NEW p, p.limit = Nil, p.offset = 0, ~p.ordered, NEW S, IsFiniteSet(S)
  PROVE  Slices(p, S) = {S}
<1>1. Cardinality(S) \in Nat
  BY FS_CardinalityType
<1>2. Limited(p.limit, Left(p, S)) = Cardinality(S)
  BY <1>1 DEF Limited, Left
<1>3. Slices(p, S) = {T \in SUBSET S : Cardinality(T) = Cardinality(S)}
  BY <1>2, SlicesAre
<1>4. \A T \in SUBSET S : Cardinality(T) = Cardinality(S) => T = S
  BY <1>1, FS_Subset
<1> QED BY <1>3, <1>4

Joined(d, typ, T) == UNION {{<<n, x[1]>> : n \in Linked(d, typ, x[1])} : x \in T}

(* sqlgraph's join of rows of a table is what they are linked to.                *)
LEMMA JoinIs ==
  ASSUME NEW d, NEW typ \in Types, NEW T, \A x \in T : x = <<x[1], 0>>
  PROVE  Neighbours(d, typ, T) = Joined(d, typ, T)
<1>1. CASE typ = "Token"
  <2>1. Neighbours(d, typ, T) = {<<d.owner[t[1]], t[1]>> : t \in {x \in T : d.owner[x[1]] # Nil}}
    BY <1>1 DEF Neighbours
  <2>2. \A r : Linked(d, typ, r) = {d.owner[r]} \ {Nil}
    BY <1>1 DEF Linked
  <2>3. ASSUME NEW z \in Neighbours(d, typ, T) PROVE z \in Joined(d, typ, T)
    <3>1. PICK t \in T : d.owner[t[1]] # Nil /\ z = <<d.owner[t[1]], t[1]>>
      BY <2>1
    <3>2. d.owner[t[1]] \in Linked(d, typ, t[1])
      BY <2>2, <3>1
    <3> QED BY <3>1, <3>2 DEF Joined
  <2>4. ASSUME NEW z \in Joined(d, typ, T) PROVE z \in Neighbours(d, typ, T)
    <3>1. PICK x \in T : z \in {<<n, x[1]>> : n \in Linked(d, typ, x[1])}
      BY DEF Joined
    <3>2. PICK n \in Linked(d, typ, x[1]) : z = <<n, x[1]>>
      BY <3>1
    <3> QED BY <2>1, <2>2, <3>2
  <2> QED BY <2>3, <2>4
<1>2. CASE typ = "User"
  <2>1. Neighbours(d, typ, T) = {<<t, d.owner[t]>> : t \in {x \in DOMAIN d.owner : <<d.owner[x], 0>> \in T}}
    BY <1>2 DEF Neighbours
  <2>2. \A r : Linked(d, typ, r) = {t \in DOMAIN d.owner : d.owner[t] = r}
    BY <1>2 DEF Linked
  <2>3. ASSUME NEW z \in Neighbours(d, typ, T) PROVE z \in Joined(d, typ, T)
    <3>1. PICK t \in DOMAIN d.owner : <<d.owner[t], 0>> \in T /\ z = <<t, d.owner[t]>>
      BY <2>1
    <3>2. PICK x \in T : x = <<d.owner[t], 0>> /\ x[1] = d.owner[t]
      BY <3>1
    <3>3. t \in Linked(d, typ, x[1]) /\ z = <<t, x[1]>>
      BY <2>2, <3>1, <3>2
    <3> QED BY <3>3 DEF Joined
  <2>4. ASSUME NEW z \in Joined(d, typ, T) PROVE z \in Neighbours(d, typ, T)
    <3>1. PICK x \in T : z \in {<<n, x[1]>> : n \in Linked(d, typ, x[1])}
      BY DEF Joined
    <3>2. PICK n \in Linked(d, typ, x[1]) : z = <<n, x[1]>>
      BY <3>1
    <3>3. n \in DOMAIN d.owner /\ d.owner[n] = x[1]
      BY <2>2, <3>2
    <3>4. <<d.owner[n], 0>> \in T
      BY <3>3
    <3> QED BY <2>1, <3>2, <3>3, <3>4
  <2> QED BY <2>3, <2>4
<1> QED BY <1>1, <1>2 DEF Types

(* Predicates see ids alone, so that distinct rows of the same ids pass alike.    *)
LEMMA SameIds ==
  ASSUME NEW d, NEW q, NEW S, NEW R, \A x \in S : \E y \in R : y[1] = x[1],
         \A y \in R : \E x \in S : x[1] = y[1]
  PROVE  Distinct(Matches(d, q, S)) = Distinct(Matches(d, q, R))
<1> DEFINE Passes(r) == \A p \in q.where : (IF p.by = "id" THEN r ELSE d.owner[r]) \in p.in
<1>1. \A X : Matches(d, q, X) = {x \in X : Passes(x[1])}
  BY DEF Matches
<1>2. \A X : Distinct(Matches(d, q, X)) = {<<x[1], 0>> : x \in {y \in X : Passes(y[1])}}
  BY <1>1 DEF Distinct
<1> HIDE DEF Passes
<1>3. {<<x[1], 0>> : x \in {y \in S : Passes(y[1])}} = {<<x[1], 0>> : x \in {y \in R : Passes(y[1])}}
  OBVIOUS
<1> QED BY <1>2, <1>3

(* The keys that Unique leaves of tokens, when it limits nothing, are the owners'. *)
LEMMA KeysReached ==
  ASSUME NEW d, IsTable(d), NEW p, p.limit = Nil, p.offset = 0, ~p.ordered, NEW S \in KeySlices(d, p),
         NEW M, M = Matches(d, p, Rows(d, "Token"))
  PROVE  /\ M \in Slices(p, M)
         /\ \A x \in S : \E y \in Joined(d, "Token", M) : y[1] = x[1]
         /\ \A y \in Joined(d, "Token", M) : \E x \in S : x[1] = y[1]
<1> DEFINE f == [t \in M |-> <<d.owner[t[1]], 0>>]
           K == {f[t] : t \in M}
<1>1. IsFiniteSet(M)
  BY RowsTyped, MatchesTyped DEF Types, RowSet
<1>2. M \in Slices(p, M)
  BY <1>1, AllTaken
<1>3. IsFiniteSet(K)
  <2>1. DOMAIN f = M /\ f = [t \in M |-> f[t]]
    OBVIOUS
  <2> HIDE DEF f
  <2> QED BY <1>1, <2>1, ImageFinite
<1>4. S = {x \in K : x[1] # Nil}
  <2>1. K = {<<d.owner[t[1]], 0>> : t \in M}
    OBVIOUS
  <2>2. PICK S0 \in Slices(p, K) : S = {x \in S0 : x[1] # Nil}
    BY <2>1 DEF KeySlices
  <2> HIDE DEF K
  <2>3. S0 = K
    BY <1>3, <2>2, AllTaken
  <2> QED BY <2>2, <2>3
<1>5. \A r : Linked(d, "Token", r) = {d.owner[r]} \ {Nil}
  BY DEF Linked
<1>6. ASSUME NEW x \in S PROVE \E y \in Joined(d, "Token", M) : y[1] = x[1]
  <2>1. PICK t \in M : x[1] = d.owner[t[1]] /\ d.owner[t[1]] # Nil
    BY <1>4
  <2>2. <<d.owner[t[1]], t[1]>> \in Joined(d, "Token", M)
    BY <1>5, <2>1 DEF Joined
  <2> QED BY <2>1, <2>2
<1>7. ASSUME NEW y \in Joined(d, "Token", M) PROVE \E x \in S : x[1] = y[1]
  <2>1. PICK t \in M : y \in {<<n, t[1]>> : n \in Linked(d, "Token", t[1])}
    BY DEF Joined
  <2>2. y[1] = d.owner[t[1]] /\ d.owner[t[1]] # Nil
    BY <1>5, <2>1
  <2>3. <<d.owner[t[1]], 0>> \in S
    BY <1>4, <2>2
  <2> QED BY <2>2, <2>3
<1> QED BY <1>2, <1>6, <1>7

(* What a builder reads is what its caller wants, unless keys were counted.       *)
LEMMA WholeWished ==
  ASSUME NEW b, answer.asked = asked, answer.b = b, IsTable(answer.seen),
         asked[b].path # Nil => asked[asked[b].path].typ \in Types,
         ~CountsOwners(asked, asked[b]), asked[b] \in Queries, NEW U \in Whole(b, answer.seen)
  PROVE  U \in Everything(answer)
<1> DEFINE d == answer.seen
           a == asked[b]
           w == [a EXCEPT !.limit = Nil]
<1>1. Wanted(answer) = a
  BY DEF Wanted
<1>2. w.path = a.path /\ w.typ = a.typ /\ w.unique = a.unique
  BY DEF Queries
<1> HIDE DEF w
<1>3. PICK S \in From(d, asked, w) :
        U \in Slices(w, IF w.unique = FALSE THEN Matches(d, w, S) ELSE Distinct(Matches(d, w, S)))
  BY DEF Whole, WholeOf, Distinct, w
<1>4. \A R \in Reached(d, asked, w) :
        Slices(w, IF w.unique = FALSE THEN Matches(d, w, R) ELSE Distinct(Matches(d, w, R)))
          \subseteq Everything(answer)
  BY <1>1 DEF Everything, Distinct, w
<1> DEFINE p == asked[a.path]
           M == Matches(d, p, Rows(d, p.typ))
<1>5. CASE a.path = Nil
  <2>1. S \in Reached(d, asked, w)
    BY <1>2, <1>3, <1>5 DEF From, Reached
  <2> QED BY <1>3, <1>4, <2>1
<1>6. CASE a.path # Nil /\ ~SelectsKeys(asked, a)
  <2>1. PICK T \in Slices(p, M) : S = Neighbours(d, p.typ, T)
    BY <1>2, <1>3, <1>6 DEF From, SelectsKeys
  <2>2. \A x \in T : x = <<x[1], 0>>
    <3>1. T \subseteq Rows(d, p.typ)
      BY <2>1, SlicesWithin DEF Matches
    <3> QED BY <3>1 DEF Rows
  <2>3. S = Joined(d, p.typ, T)
    BY <1>6, <2>1, <2>2, JoinIs
  <2>4. S \in Reached(d, asked, w)
    BY <1>2, <1>6, <2>1, <2>3 DEF Reached, Joined
  <2> QED BY <1>3, <1>4, <2>4
<1>7. CASE SelectsKeys(asked, a)
  <2>1. /\ a.path # Nil /\ p.typ = "Token" /\ S \in KeySlices(d, p)
    BY <1>2, <1>3, <1>7 DEF From, SelectsKeys
  <2>2. p.limit = Nil /\ p.offset = 0 /\ ~p.ordered /\ w.unique # FALSE
    BY <1>2, <1>7 DEF CountsOwners
  <2>3. M \in Slices(p, M) /\ Distinct(Matches(d, w, S)) = Distinct(Matches(d, w, Joined(d, "Token", M)))
    <3>1. M = Matches(d, p, Rows(d, "Token"))
      BY <2>1
    <3> HIDE DEF M, p
    <3> QED BY <2>1, <2>2, <3>1, KeysReached, SameIds
  <2>4. Joined(d, "Token", M) \in Reached(d, asked, w)
    BY <1>2, <2>1, <2>3 DEF Reached, Joined
  <2>5. U \in Slices(w, Distinct(Matches(d, w, Joined(d, "Token", M))))
    BY <1>3, <2>2, <2>3
  <2> QED BY <1>4, <2>2, <2>4, <2>5
<1> QED BY <1>5, <1>6, <1>7

(* First and Only judge by the limits they set themselves.                       *)
LEMMA LimitsJudge ==
  ASSUME Nil \notin Nat, NEW U, NEW T, NEW ordered, NEW limit, limit \in {1, 2},
         FirstOf(limit, ordered, T, U)
  PROVE  /\ Cardinality(U) \in Nat /\ IsFiniteSet(T)
         /\ Cardinality(T) = SmallerOf(Cardinality(U), limit)
         /\ U = {} <=> T = {}
         /\ T = {} <=> Cardinality(T) = 0
<1>1. IsFiniteSet(U) /\ T \subseteq U /\ Cardinality(T) = SmallerOf(Cardinality(U), limit)
  BY DEF FirstOf, Limited
<1>2. IsFiniteSet(T) /\ Cardinality(U) \in Nat /\ Cardinality(T) \in Nat
  BY <1>1, FS_Subset, FS_CardinalityType
<1>3. (U = {} <=> Cardinality(U) = 0) /\ (T = {} <=> Cardinality(T) = 0)
  BY <1>1, <1>2, FS_EmptySet
<1> QED BY <1>1, <1>2, <1>3 DEF SmallerOf

(* First and Only say what is there, whatever other reads have left in their      *)
(* builder (QueryFirst, QueryOnly).                                              *)
LEMMA VerdictsOfInv ==
  ASSUME QueryInv
  PROVE  VerdictsStand
<1> SUFFICES ASSUME answer # Nil, answer.op \in {"First", "Only"}, answer.err # "Validation",
                    Wanted(answer).path = Nil
             PROVE  \E T \in Everything(answer) :
                      IF T = {} THEN answer.err = "NotFound"
                      ELSE IF answer.op = "Only" /\ Cardinality(T) > 1 THEN answer.err = "NotSingular"
                      ELSE answer.err = "nil" /\ answer.rows # {} /\ answer.rows \subseteq T
  BY DEF VerdictsStand
<1> DEFINE b == answer.b
           op == answer.op
           T == answer.rows
<1>1. answer.asked = asked /\ Read(b, op)
  BY DEF QueryInv, Answered
<1>2. asked[b].path = Nil
  BY <1>1 DEF Wanted
<1>3. answer.err = Verdict(op, T) /\ Found(b, op, T, answer.seen)
  <2>1. builders[b].path = Nil
    <3>1. b \in DOMAIN builders
      BY <1>1 DEF Read
    <3>2. Kept(b)
      BY <3>1 DEF QueryInv
    <3> QED BY <1>2, <3>2 DEF Kept
  <2>2. ~DatabaseRefuses(builders, builders[b])
    BY <2>1 DEF DatabaseRefuses, SelectsKeys
  <2>3. op \notin OfIDs
    BY DEF OfIDs
  <2> QED BY <2>2, <2>3 DEF QueryInv, Answered
<1>4. PICK U \in Whole(b, answer.seen) : FirstOf(builders[b].limit, asked[b].ordered, T, U)
  BY <1>2, <1>3 DEF Found
<1>10. U \in Everything(answer)
  <2>1. asked[b] \in Queries
    BY <1>1 DEF QueryInv, Typed, Read
  <2>2. ~CountsOwners(asked, asked[b])
    BY <1>2 DEF CountsOwners, SelectsKeys
  <2> QED BY <1>1, <1>2, <1>3, <1>4, <2>1, <2>2, WholeWished DEF Found
<1>5. builders[b].limit = IF op = "First" THEN 1 ELSE 2
  BY <1>1 DEF Read
<1>6. /\ Cardinality(U) \in Nat
      /\ Cardinality(T) = SmallerOf(Cardinality(U), builders[b].limit)
      /\ U = {} <=> T = {}
      /\ T = {} <=> Cardinality(T) = 0
  BY <1>4, <1>5, LimitsJudge, QueryAssumption
<1>7. T \subseteq U
  BY <1>4 DEF FirstOf
<1>8. answer.err = IF T = {} THEN "NotFound"
                   ELSE IF op = "Only" /\ Cardinality(T) > 1 THEN "NotSingular" ELSE "nil"
  BY <1>3 DEF Verdict
<1>9. op = "Only" => (Cardinality(T) > 1 <=> Cardinality(U) > 1)
  BY <1>5, <1>6 DEF SmallerOf
<1> HIDE DEF b, op, T
<1> QED BY <1>6, <1>7, <1>8, <1>9, <1>10 DEF b, op, T

(* In every run First and Only say what is there, after other reads of the same   *)
(* builder too (UserQuery.First, UserQuery.Only).                                *)
THEOREM VerdictsStandAlways == Spec => []VerdictsStand
BY QueryInvariance, VerdictsOfInv, PTL

(* The builder of a fresh read: what its caller asked for, touched by this read,  *)
(* and refused only for columns the caller named.                                *)
LEMMA FreshReads ==
  ASSUME QueryInv, NEW b, NEW op, Read(b, op), Fresh(b)
  PROVE  /\ Leaves(asked[b], op, [builders[b] EXCEPT !.child = asked[b].child])
         /\ asked[b] \in Queries /\ builders[b] \in Queries
         /\ Refuses(builders, builders[b]) <=> Refuses(asked, asked[b])
         /\ DatabaseRefuses(builders, builders[b]) <=> DatabaseRefuses(asked, asked[b])
<1> DEFINE q == builders[b]
           a == asked[b]
           r == Touched(a, op)
<1>1. /\ builders \in Seq(Queries) /\ asked \in Seq(Queries) /\ Len(asked) = Len(builders)
      /\ runs \in Seq(Nat) /\ Len(runs) = Len(builders)
  BY DEF QueryInv, Typed
<1>2. b \in 1 .. Len(builders) /\ runs[b] > 0 /\ runs[b] \in Nat /\ op \in Ops
  BY <1>1 DEF Read, Ops
<1>3. q \in Queries /\ a \in Queries
  BY <1>1, <1>2
<1>4. Leaves(a, op, r) /\ Bare(q) = Bare(r)
  BY <1>2, <1>3, TouchedKeeps DEF Read
<1>5. r \in Queries /\ r.child = a.child
  BY <1>4 DEF Leaves
<1> HIDE DEF r
<1>6. [q EXCEPT !.child = a.child] = r
  <2>1. ASSUME NEW x \in Queries, NEW c
        PROVE  [Bare(x) EXCEPT !.child = c] = [x EXCEPT !.child = c]
    BY DEF Bare, Queries
  <2>2. ASSUME NEW x \in Queries PROVE [x EXCEPT !.child = x.child] = x
    BY DEF Queries
  <2>3. PICK c : c = a.child
    OBVIOUS
  <2>4. [q EXCEPT !.child = c] = [Bare(q) EXCEPT !.child = c]
    BY <1>3, <2>1
  <2>5. [r EXCEPT !.child = c] = [Bare(r) EXCEPT !.child = c]
    BY <1>5, <2>1
  <2>6. [q EXCEPT !.child = c] = [r EXCEPT !.child = c]
    BY <1>4, <2>4, <2>5
  <2> QED BY <1>5, <2>2, <2>3, <2>6
<1>7. q.fields = r.fields /\ q.path = a.path
  <2>1. q.fields = r.fields
    BY <1>3, <1>6 DEF Queries
  <2>2. KeptOf(q, a, runs[b])
    BY <1>1, <1>2, PartsAre DEF QueryInv
  <2> QED BY <2>1, <2>2 DEF KeptOf
<1>8. q.path # Nil => builders[q.path] = asked[q.path]
  <2> SUFFICES ASSUME q.path # Nil PROVE builders[q.path] = asked[q.path]
    OBVIOUS
  <2>1. PathOf(asked, b)
    BY <1>1, <1>2, PartsAre DEF QueryInv
  <2>2. q.path \in 1 .. b - 1
    BY <1>7, <2>1 DEF PathOf
  <2>3. q.path \in 1 .. Len(builders)
    BY <1>1, <1>2, <2>2
  <2>4. runs[q.path] \in Nat /\ KeptOf(builders[q.path], asked[q.path], runs[q.path])
    BY <1>1, <2>3, PartsAre DEF QueryInv
  <2>5. runs[b] + runs[q.path] = 1
    BY DEF Fresh, Used
  <2> QED BY <1>2, <2>4, <2>5 DEF KeptOf
<1>9. (\E i \in DOMAIN q.fields : ~ValidColumn(q.fields[i])) <=> (\E i \in DOMAIN a.fields : ~ValidColumn(a.fields[i]))
  <2>1. CASE op \notin OfIDs
    BY <1>4, <1>7, <2>1 DEF Leaves
  <2>2. CASE op \in OfIDs
    <3>1. q.fields = Append(a.fields, "id") /\ a.fields \in Seq(Columns)
      BY <1>3, <1>4, <1>7, <2>2 DEF Leaves, Queries
    <3>2. ValidColumn("id")
      BY DEF ValidColumn
    <3>3. PICK f : f = a.fields
      OBVIOUS
    <3>4. f \in Seq(Columns) /\ q.fields = Append(f, "id")
      BY <3>1, <3>3
    <3>5. /\ DOMAIN q.fields = 1 .. Len(f) + 1 /\ DOMAIN f = 1 .. Len(f) /\ Len(f) \in Nat
          /\ \A i \in 1 .. Len(f) : q.fields[i] = f[i]
          /\ q.fields[Len(f) + 1] = "id"
      BY <3>4
    <3>6. \A i \in 1 .. Len(f) + 1 : i \in 1 .. Len(f) \/ i = Len(f) + 1
      BY <3>5
    <3>7. \A i \in 1 .. Len(f) : i \in 1 .. Len(f) + 1
      BY <3>5
    <3>8. (\E i \in DOMAIN q.fields : ~ValidColumn(q.fields[i])) <=> (\E i \in DOMAIN f : ~ValidColumn(f[i]))
      BY <3>2, <3>5, <3>6, <3>7, Zenon
    <3> QED BY <3>3, <3>8
  <2> QED BY <2>1, <2>2
<1>10. Refuses(builders, q) <=> Refuses(asked, a)
  <2>1. Refuses(builders, q) <=>
          \/ \E i \in DOMAIN q.fields : ~ValidColumn(q.fields[i])
          \/ q.path # Nil /\ \E i \in DOMAIN builders[q.path].fields : ~ValidColumn(builders[q.path].fields[i])
    BY DEF Refuses
  <2>2. Refuses(asked, a) <=>
          \/ \E i \in DOMAIN a.fields : ~ValidColumn(a.fields[i])
          \/ a.path # Nil /\ \E i \in DOMAIN asked[a.path].fields : ~ValidColumn(asked[a.path].fields[i])
    BY DEF Refuses
  <2> QED BY <1>7, <1>8, <1>9, <2>1, <2>2
<1>11. DatabaseRefuses(builders, q) <=> DatabaseRefuses(asked, a)
  BY <1>7, <1>8 DEF DatabaseRefuses, SelectsKeys
<1> QED BY <1>3, <1>4, <1>6, <1>10, <1>11

(* Where keys were counted, those of the builder's tokens.                       *)
LEMMA CountedRows ==
  ASSUME NEW b, NEW d, asked[b] \in Queries, SelectsKeys(asked, asked[b]), NEW U \in Whole(b, d),
         NEW T \in SUBSET U, NEW p, p = asked[asked[b].path], NEW x \in T
  PROVE  /\ \E t \in Matches(d, p, Rows(d, "Token")) : d.owner[t[1]] = x[1]
         /\ x \in Matches(d, asked[b], T)
<1> DEFINE a == asked[b]
           w == [a EXCEPT !.limit = Nil]
           Passes(r) == \A c \in a.where : (IF c.by = "id" THEN r ELSE d.owner[r]) \in c.in
<1>1. w.path = a.path /\ w.where = a.where
  BY DEF Queries
<1> HIDE DEF w
<1>2. PICK S \in From(d, asked, w) :
        U \in Slices(w, IF w.unique = FALSE THEN Matches(d, w, S) ELSE Distinct(Matches(d, w, S)))
  BY DEF Whole, WholeOf, Distinct, w
<1>3. \E y \in Matches(d, w, S) : y[1] = x[1]
  <2>1. x \in IF w.unique = FALSE THEN Matches(d, w, S) ELSE Distinct(Matches(d, w, S))
    BY <1>2, SlicesWithin
  <2>2. x \in Distinct(Matches(d, w, S)) => \E y \in Matches(d, w, S) : x = <<y[1], 0>>
    BY DEF Distinct
  <2> QED BY <2>1, <2>2
<1>4. PICK y \in S : y[1] = x[1] /\ Passes(x[1])
  BY <1>1, <1>3 DEF Matches
<1>5. S \in KeySlices(d, p)
  BY <1>1, <1>2 DEF From, SelectsKeys
<1>6. y \in {<<d.owner[t[1]], 0>> : t \in Matches(d, p, Rows(d, "Token"))}
  <2> DEFINE K == {<<d.owner[t[1]], 0>> : t \in Matches(d, p, Rows(d, "Token"))}
  <2>1. PICK S0 \in Slices(p, K) : S = {z \in S0 : z[1] # Nil}
    BY <1>5 DEF KeySlices
  <2> HIDE DEF K
  <2>2. y \in K
    BY <1>4, <2>1, SlicesWithin
  <2> QED BY <2>2 DEF K
<1>7. x \in Matches(d, a, T)
  BY <1>4 DEF Matches
<1> QED BY <1>4, <1>6, <1>7

(* The first read of a builder answers what it was asked.                        *)
LEMMA AnswersOfInv ==
  ASSUME QueryInv
  PROVE  AnswersAsAsked
<1> SUFFICES ASSUME answer # Nil, answer.first PROVE AnswersAsAsked
  BY DEF AnswersAsAsked
<1>0. PICK b, op, T, e : b = answer.b /\ op = answer.op /\ T = answer.rows /\ e = answer.err
  OBVIOUS
<1> DEFINE a == asked[b]
           q == builders[b]
<1>1. /\ answer.asked = asked /\ Read(b, op) /\ Fresh(b)
      /\ answer.whole <=> op \in OfIDs \/ q.fields = a.fields
  BY <1>0 DEF QueryInv, Answered
<1>2. Wanted(answer) = a
  BY <1>0, <1>1 DEF Wanted
<1>3. /\ Leaves(a, op, [q EXCEPT !.child = a.child]) /\ a \in Queries /\ q \in Queries
      /\ Refuses(builders, q) <=> Refuses(asked, a)
      /\ DatabaseRefuses(builders, q) <=> DatabaseRefuses(asked, a)
  BY <1>1, FreshReads
<1>4. /\ op \in {"First", "FirstID", "Exist"} => q.limit = 1
      /\ op \in {"Only", "OnlyID"} => q.limit = 2
      /\ op \in {"All", "IDs"} => q.limit = a.limit
      /\ op \notin OfIDs => q.fields = a.fields
      /\ op \in OfIDs => q.fields = Append(a.fields, "id")
      /\ op \in Ops
  <2>1. [q EXCEPT !.child = a.child].limit = q.limit /\ [q EXCEPT !.child = a.child].fields = q.fields
    BY <1>3 DEF Queries
  <2> QED BY <1>1, <1>3, <2>1 DEF Leaves, Read, Ops
<1>5. op \in OfIDs => (Len(q.fields) = 1 <=> a.fields = <<>>)
  <2>1. a.fields \in Seq(Columns)
    BY <1>3 DEF Queries
  <2>2. ASSUME NEW f \in Seq(Columns) PROVE Len(Append(f, "id")) = 1 <=> f = <<>>
    BY <2>2
  <2> QED BY <1>4, <2>1, <2>2
<1>6. \/ e = "Validation" /\ T = {} /\ Refuses(builders, q)
      \/ e = "database error" /\ T = {} /\ ~Refuses(builders, q) /\ DatabaseRefuses(builders, q)
      \/ /\ e = "columns do not match" /\ T = {} /\ ~Refuses(builders, q)
         /\ op \in OfIDs /\ Len(q.fields) # 1
      \/ e = Verdict(op, T) /\ Found(b, op, T, answer.seen)
  BY <1>0 DEF QueryInv, Answered
<1>7. Verdict(op, T) \notin {"Validation", "database error", "columns do not match"}
  BY DEF Verdict
<1>9. CASE CountsOwners(asked, a)
  <2> DEFINE p == asked[a.path]
  <2>1. SelectsKeys(asked, a)
    BY <1>9 DEF CountsOwners
  <2>2. e = "database error" => p.ordered
    BY <1>3, <1>6, <1>7 DEF DatabaseRefuses
  <2>3. ASSUME NEW x \in T
        PROVE  /\ \E t \in Matches(answer.seen, p, Rows(answer.seen, "Token")) : answer.seen.owner[t[1]] = x[1]
               /\ x \in Matches(answer.seen, a, T)
    <3>1. Found(b, op, T, answer.seen)
      BY <1>6, <2>3
    <3>2. PICK U \in Whole(b, answer.seen) : T \subseteq U
      BY <1>1, <3>1 DEF Found, FirstOf
    <3> HIDE DEF p
    <3>3. p = asked[asked[b].path]
      BY DEF p
    <3> QED BY <1>3, <2>1, <2>3, <3>2, <3>3, CountedRows
  <2>4. OnlyOwners(answer)
    BY <1>0, <1>1, <1>2, <2>2, <2>3 DEF OnlyOwners
  <2> QED BY <1>1, <1>2, <1>9, <2>4 DEF AnswersAsAsked
<1>10. CASE ~CountsOwners(asked, a) /\ e = "Validation" /\ Refuses(builders, q)
  BY <1>0, <1>1, <1>2, <1>3, <1>10 DEF AnswersAsAsked, AsWished
<1>11. CASE ~CountsOwners(asked, a) /\ DatabaseRefuses(builders, q)
  BY <1>3, <1>11 DEF CountsOwners, DatabaseRefuses
<1>12. CASE /\ ~CountsOwners(asked, a) /\ e = "columns do not match" /\ ~Refuses(builders, q)
            /\ op \in OfIDs /\ Len(q.fields) # 1
  BY <1>0, <1>1, <1>2, <1>3, <1>5, <1>12 DEF AnswersAsAsked, AsWished
<1>8. CASE ~CountsOwners(asked, a) /\ e = Verdict(op, T) /\ Found(b, op, T, answer.seen)
  <2>0. ASSUME NEW U \in Whole(b, answer.seen) PROVE U \in Everything(answer)
    <3>1. a.path # Nil => asked[a.path].typ \in Types
      <4>1. a.path # Nil => a.path \in 1 .. b - 1 /\ b \in 1 .. Len(asked)
        BY <1>1, PartsAre DEF QueryInv, Typed, Read, PathOf
      <4>2. a.path # Nil => a.path \in 1 .. Len(asked)
        BY <4>1
      <4>3. a.path # Nil => asked[a.path] \in Queries
        BY <4>2 DEF QueryInv, Typed
      <4> QED BY <4>3 DEF Queries
    <3> QED BY <1>0, <1>1, <1>3, <1>8, <2>0, <3>1, WholeWished DEF Found
  <2>1. PICK U \in Whole(b, answer.seen) : FirstOf(q.limit, a.ordered, T, U)
    BY <1>1, <1>8 DEF Found
  <2>2. ~Refuses(asked, a) /\ (op \in OfIDs => a.fields = <<>>) /\ answer.whole
    BY <1>1, <1>3, <1>4, <1>5, <1>8 DEF Found
  <2> DEFINE l == a.limit
             m == Cardinality(U)
             n == IF op \notin {"All", "IDs"} THEN SmallerOf(1, m)
                  ELSE IF l = Nil THEN m ELSE SmallerOf(l, m)
  <2>3. /\ T \subseteq U /\ IsFiniteSet(U) /\ m \in Nat
        /\ Cardinality(T) = Limited(q.limit, m)
        /\ a.ordered => \A x \in T, y \in U \ T : x[1] <= y[1]
    BY <2>1, FS_CardinalityType DEF FirstOf
  <2>4. IsFiniteSet(T) /\ (T = {} <=> Cardinality(T) = 0) /\ (U = {} <=> m = 0)
    BY <2>3, FS_Subset, FS_EmptySet
  <2>5. l \in Nat \cup {Nil} /\ Nil \notin Nat
    BY <1>3, QueryAssumption DEF Queries
  <2> HIDE DEF m
  <2>6. /\ e = "NotSingular" <=> op \in {"Only", "OnlyID"} /\ m > 1
        /\ e \notin {"Validation", "columns do not match", "database error"}
        /\ e \in {"nil", "true"} => Cardinality(T) = n
        /\ e \in {"NotFound", "false"} <=> (U = {} /\ op \notin {"All", "IDs"})
    <3>1. CASE op \in {"All", "IDs"}
      <4>1. e = "nil" /\ q.limit = l
        BY <1>4, <1>8, <3>1 DEF Verdict
      <4> QED BY <2>3, <2>5, <3>1, <4>1 DEF Limited, SmallerOf
    <3>2. CASE op \in {"First", "FirstID", "Exist"}
      <4>1. Cardinality(T) = IF m < 1 THEN m ELSE 1
        BY <1>4, <2>3, <2>5, <3>2 DEF Limited, SmallerOf
      <4>2. n = IF 1 < m THEN 1 ELSE m
        BY <3>2 DEF SmallerOf
      <4>3. T = {} <=> U = {}
        BY <2>3, <2>4, <4>1
      <4>4. e = IF op = "Exist" THEN (IF T = {} THEN "false" ELSE "true")
                ELSE IF T = {} THEN "NotFound" ELSE "nil"
        BY <1>8, <3>2 DEF Verdict
      <4> HIDE DEF n
      <4> QED BY <2>3, <2>4, <3>2, <4>1, <4>2, <4>3, <4>4
    <3>3. CASE op \in {"Only", "OnlyID"}
      <4>1. Cardinality(T) = IF m < 2 THEN m ELSE 2
        BY <1>4, <2>3, <2>5, <3>3 DEF Limited, SmallerOf
      <4>2. n = IF 1 < m THEN 1 ELSE m
        BY <3>3 DEF SmallerOf
      <4>3. T = {} <=> U = {}
        BY <2>3, <2>4, <4>1
      <4>4. e = IF T = {} THEN "NotFound" ELSE IF Cardinality(T) > 1 THEN "NotSingular" ELSE "nil"
        BY <1>8, <3>3 DEF Verdict
      <4> HIDE DEF n
      <4> QED BY <2>3, <2>4, <3>3, <4>1, <4>2, <4>3, <4>4
    <3> QED BY <1>4, <3>1, <3>2, <3>3 DEF Ops, OfIDs
  <2>7. AsWished(answer)
    BY <1>0, <1>1, <1>2, <2>0, <2>1, <2>2, <2>3, <2>6 DEF AsWished, m
  <2> QED BY <1>1, <1>2, <1>8, <2>7 DEF AnswersAsAsked
<1> QED BY <1>6, <1>8, <1>9, <1>10, <1>11, <1>12

(* In every run the first read of a builder, a clone or a query over an edge gives *)
(* the rows and columns it was asked for, of one state of the tables; but for an  *)
(* owner's query that came from tokens with Unique(true) and a limit, an offset or *)
(* an order, which finds some owners of such tokens (UserQuery.All, First, Only,  *)
(* IDs, Exist and what they leave in a builder).                                 *)
THEOREM AnswersAsAskedAlways == Spec => []AnswersAsAsked
BY QueryInvariance, AnswersOfInv, PTL

--------------------------------------------------------------------------------
(* Eager loading.                                                                *)

(* The query for the neighbours has no limit: it finds all that match.           *)
LEMMA NeighboursFound ==
  ASSUME NEW e, IsTable(e), NEW qs, NEW c \in Loads, NEW N \in Selected(e, qs, c, FALSE)
  PROVE  N = Matches(e, c, Rows(e, c.typ))
<1> DEFINE M == Matches(e, c, Rows(e, c.typ))
<1>1. c.path = Nil /\ c.limit = Nil /\ c.offset = 0 /\ c.ordered = FALSE /\ c.typ \in Types
  BY DEF Loads
<1>2. N \in Slices(c, M)
  BY <1>1 DEF Selected, From
<1>3. RowSet(M, e, c.typ)
  BY <1>1, RowsTyped, MatchesTyped
<1> HIDE DEF M
<1>4. IsFiniteSet(M) /\ Cardinality(M) \in Nat
  BY <1>3, FS_CardinalityType DEF RowSet
<1>5. Limited(c.limit, Left(c, M)) = Cardinality(M)
  BY <1>1, <1>4 DEF Limited, Left
<1>6. N \in SUBSET M /\ Cardinality(N) = Cardinality(M)
  BY <1>1, <1>2, <1>5, SlicesAre
<1>7. N = M
  BY <1>4, <1>6, FS_Subset
<1> QED BY <1>7 DEF M

(* The ids a row is linked to: by the foreign key as the second SELECT sees it, or *)
(* as the first saw it.                                                          *)
LinkedIds(typ, where, d, e, r) ==
  {n \in UserIds \cup TokenIds :
     /\ \A p \in where : n \in p.in
     /\ IF typ = "User" THEN n \in DOMAIN e.owner /\ e.owner[n] = r
                        ELSE d.owner[r] = n /\ n \in e.users}

(* The pairs of rows in T and neighbours are right.                              *)
Paired(typ, T, where, edges, d, e) ==
  /\ \A z \in edges : z[1] \in T
  /\ \A x \in T : \E y \in T :
       y[1] = x[1] /\ {z \in edges : z[1][1] = x[1]} = {y} \X LinkedIds(typ, where, d, e, x[1])

(* The tokens of the users in T, of whose copies L has one each.                 *)
LEMMA TokensLinked ==
  ASSUME NEW d, IsTable(d), NEW e, IsTable(e), NEW T, \A x \in T : x[1] \in RowIds(d, "User"),
         NEW where, \A p \in where : p.by = "id",
         NEW keys, keys = Keys("User", T, d),
         NEW c, c.where = where \cup {[by |-> "fk", in |-> keys]},
         NEW N, N = Matches(e, c, Rows(e, "Token")), NEW L \in Lasts(T)
  PROVE  Paired("User", T, where, Assigned("User", T, L, N, d, e), d, e)
<1> DEFINE A == Assigned("User", T, L, N, d, e)
<1>1. keys = {x[1] : x \in T}
  BY DEF Keys
<1>2. DOMAIN e.owner \subseteq TokenIds
  BY DEF IsTable
<1>3. \A p \in c.where : p \in where \/ (p.by = "fk" /\ p.in = keys)
  OBVIOUS
<1>4. ASSUME NEW t
      PROVE  <<t, 0>> \in N <=> /\ t \in DOMAIN e.owner /\ e.owner[t] \in keys
                                /\ \A p \in where : t \in p.in
  <2>1. <<t, 0>> \in Rows(e, "Token") <=> t \in DOMAIN e.owner
    BY DEF Rows
  <2>2. <<t, 0>> \in N <=> /\ t \in DOMAIN e.owner
                           /\ \A p \in c.where : (IF p.by = "id" THEN t ELSE e.owner[t]) \in p.in
    BY <2>1 DEF Matches
  <2>3. [by |-> "fk", in |-> keys] \in c.where /\ where \subseteq c.where
    OBVIOUS
  <2>4. (\A p \in c.where : (IF p.by = "id" THEN t ELSE e.owner[t]) \in p.in)
          <=> e.owner[t] \in keys /\ \A p \in where : t \in p.in
    BY <1>3, <2>3
  <2> QED BY <2>2, <2>4
<1>5. \A n \in N : \E t \in DOMAIN e.owner : n = <<t, 0>>
  BY DEF Matches, Rows
<1>6. /\ L \subseteq T /\ {x[1] : x \in L} = {x[1] : x \in T}
      /\ \A x, y \in L : x[1] = y[1] => x = y
  BY DEF Lasts
<1>7. A = UNION {{<<x, n[1]>> : n \in {m \in N : e.owner[m[1]] = x[1]}} : x \in L}
  BY DEF Assigned
<1> HIDE DEF A
<1>8. ASSUME NEW z \in A
      PROVE  \E l \in L, t \in DOMAIN e.owner :
               <<t, 0>> \in N /\ e.owner[t] = l[1] /\ z = <<l, t>>
  <2>1. PICK l \in L : z \in {<<l, n[1]>> : n \in {m \in N : e.owner[m[1]] = l[1]}}
    BY <1>7
  <2>2. PICK n \in N : e.owner[n[1]] = l[1] /\ z = <<l, n[1]>>
    BY <2>1
  <2>3. PICK t \in DOMAIN e.owner : n = <<t, 0>>
    BY <1>5
  <2> QED BY <2>2, <2>3
<1>9. ASSUME NEW z \in A PROVE z[1] \in T
  <2>1. PICK l \in L, t \in DOMAIN e.owner : z = <<l, t>>
    BY <1>8
  <2> QED BY <1>6, <2>1
<1>10. ASSUME NEW x \in T
       PROVE  \E y \in T : /\ y[1] = x[1]
                           /\ {z \in A : z[1][1] = x[1]} = {y} \X LinkedIds("User", where, d, e, x[1])
  <2>1. PICK y \in L : y[1] = x[1]
    <3>1. x[1] \in {l[1] : l \in L}
      BY <1>6
    <3> QED BY <3>1
  <2> DEFINE I == LinkedIds("User", where, d, e, x[1])
  <2>2. \A n : n \in I <=> /\ n \in UserIds \cup TokenIds /\ (\A p \in where : n \in p.in)
                          /\ n \in DOMAIN e.owner /\ e.owner[n] = x[1]
    BY DEF LinkedIds
  <2> HIDE DEF I
  <2>3. ASSUME NEW z \in A, z[1][1] = x[1] PROVE z \in {y} \X I
    <3>1. PICK l \in L, t \in DOMAIN e.owner : <<t, 0>> \in N /\ e.owner[t] = l[1] /\ z = <<l, t>>
      BY <1>8
    <3>2. l[1] = x[1] /\ l = y
      BY <1>6, <2>1, <2>3, <3>1
    <3>3. t \in I
      BY <1>2, <1>4, <2>2, <3>1, <3>2
    <3> QED BY <3>1, <3>2, <3>3
  <2>4. ASSUME NEW z \in {y} \X I PROVE z \in A /\ z[1][1] = x[1]
    <3>1. PICK n \in I : z = <<y, n>>
      OBVIOUS
    <3>2. e.owner[n] = x[1] /\ x[1] \in keys /\ <<n, 0>> \in N
      BY <1>1, <1>4, <2>2
    <3>3. <<n, 0>> \in {m \in N : e.owner[m[1]] = y[1]} /\ <<n, 0>>[1] = n
      BY <2>1, <3>2
    <3>4. <<y, n>> \in {<<y, m[1]>> : m \in {k \in N : e.owner[k[1]] = y[1]}}
      BY <3>3
    <3> QED BY <1>7, <2>1, <3>1, <3>4
  <2>5. {z \in A : z[1][1] = x[1]} = {y} \X I
    BY <2>3, <2>4
  <2> QED BY <1>6, <2>1, <2>5 DEF I
<1> QED BY <1>9, <1>10 DEF Paired, A

(* The owners of the tokens in T.                                                *)
LEMMA OwnersLinked ==
  ASSUME NEW d, IsTable(d), NEW e, IsTable(e), NEW T, \A x \in T : x[1] \in RowIds(d, "Token"),
         \A x, y \in T : x[1] = y[1] => x = y,
         NEW where, \A p \in where : p.by = "id",
         NEW keys, keys = Keys("Token", T, d),
         NEW c, c.where = where \cup {[by |-> "id", in |-> keys]},
         NEW N, N = Matches(e, c, Rows(e, "User")), NEW L
  PROVE  Paired("Token", T, where, Assigned("Token", T, L, N, d, e), d, e)
<1> DEFINE A == Assigned("Token", T, L, N, d, e)
<1>1. keys = {d.owner[x[1]] : x \in T} \ {Nil}
  BY DEF Keys
<1>2. e.users \subseteq UserIds /\ Nil \notin UserIds \cup TokenIds
  BY QueryAssumption DEF IsTable
<1>3. \A p \in c.where : p \in where \/ (p.by = "id" /\ p.in = keys)
  OBVIOUS
<1>4. ASSUME NEW u
      PROVE  <<u, 0>> \in N <=> u \in e.users /\ u \in keys /\ \A p \in where : u \in p.in
  <2>1. <<u, 0>> \in Rows(e, "User") <=> u \in e.users
    BY DEF Rows
  <2>2. <<u, 0>> \in N <=> /\ u \in e.users
                           /\ \A p \in c.where : (IF p.by = "id" THEN u ELSE e.owner[u]) \in p.in
    BY <2>1 DEF Matches
  <2>3. [by |-> "id", in |-> keys] \in c.where /\ where \subseteq c.where
    OBVIOUS
  <2>4. (\A p \in c.where : (IF p.by = "id" THEN u ELSE e.owner[u]) \in p.in)
          <=> u \in keys /\ \A p \in where : u \in p.in
    BY <1>3, <2>3
  <2> QED BY <2>2, <2>4
<1>5. \A n \in N : \E u \in e.users : n = <<u, 0>>
  BY DEF Matches, Rows
<1>6. A = {<<x, d.owner[x[1]]>> : x \in {y \in T : \E n \in N : n[1] = d.owner[y[1]]}}
  BY DEF Assigned
<1> HIDE DEF A
<1>7. \A z \in A : z[1] \in T
  BY <1>6
<1>8. ASSUME NEW x \in T
      PROVE  {z \in A : z[1][1] = x[1]} = {x} \X LinkedIds("Token", where, d, e, x[1])
  <2> DEFINE I == LinkedIds("Token", where, d, e, x[1])
  <2>1. \A n : n \in I <=> /\ n \in UserIds \cup TokenIds /\ (\A p \in where : n \in p.in)
                          /\ d.owner[x[1]] = n /\ n \in e.users
    BY DEF LinkedIds
  <2> HIDE DEF I
  <2>2. ASSUME NEW z \in A, z[1][1] = x[1] PROVE z \in {x} \X I
    <3>1. PICK y \in T : z = <<y, d.owner[y[1]]>> /\ \E n \in N : n[1] = d.owner[y[1]]
      BY <1>6
    <3>2. y = x
      BY <2>2, <3>1
    <3>3. PICK u \in e.users : <<u, 0>> \in N /\ u = d.owner[x[1]]
      BY <1>5, <3>1, <3>2
    <3>4. u \in I
      BY <1>2, <1>4, <2>1, <3>3
    <3> QED BY <3>1, <3>2, <3>3, <3>4
  <2>3. ASSUME NEW z \in {x} \X I PROVE z \in A /\ z[1][1] = x[1]
    <3>1. PICK n \in I : z = <<x, n>>
      OBVIOUS
    <3>2. d.owner[x[1]] = n /\ n \in keys
      BY <1>1, <1>2, <2>1
    <3>3. <<n, 0>> \in N /\ <<n, 0>>[1] = d.owner[x[1]]
      BY <1>4, <2>1, <3>2
    <3> QED BY <1>6, <3>1, <3>2, <3>3
  <2>4. {z \in A : z[1][1] = x[1]} = {x} \X I
    BY <2>2, <2>3
  <2> QED BY <2>4 DEF I
<1> QED BY <1>7, <1>8 DEF Paired, A

(* The pairs an answer may have.                                                 *)
RightEdges(b, T, edges, d, e) ==
  IF asked[b].child = Nil THEN edges = {}
  ELSE Paired(asked[b].typ, T, asked[b].child.where, edges, d, e)

(* The property, of the answer that a step gives.                                *)
LEMMA EdgesOfAnswer ==
  ASSUME NEW b, NEW op, NEW T, NEW e, NEW edges, NEW seen, Answers(b, op, T, e, edges, seen),
         Used(runs', b) = 1 /\ op \notin OfIDs => RightEdges(b, T, edges, seen, db)
  PROVE  EdgesAsLinked'
<1>1. /\ answer'.b = b /\ answer'.op = op /\ answer'.rows = T /\ answer'.edges = edges
      /\ answer'.seen = seen /\ answer'.asked = asked /\ answer'.later = db
      /\ answer'.first = (Used(runs', b) = 1)
  BY DEF Answers
<1>2. EdgesAsLinked' <=>
        (answer' # Nil /\ answer'.first /\ answer'.op \notin OfIDs =>
           IF Wanted(answer)'.child = Nil THEN answer'.edges = {}
           ELSE Paired(Wanted(answer)'.typ, answer'.rows, Wanted(answer)'.child.where,
                       answer'.edges, answer'.seen, answer'.later))
  BY DEF EdgesAsLinked, Deserved, Paired, LinkedIds
<1>3. Wanted(answer)' = asked[b]
  BY <1>1 DEF Wanted
<1> QED BY <1>1, <1>2, <1>3 DEF RightEdges

(* A read without neighbours to load gives none, and there are none.             *)
LEMMA RunEdges ==
  ASSUME QueryInv, NEW b \in DOMAIN builders, NEW op \in work.ops, Run(b, op)
  PROVE  EdgesAsLinked'
<1> DEFINE q == Touched(builders[b], op)
<1> HIDE DEF q
<1>1. Begins(b, op)
  BY RunCases DEF q
<1>2. /\ op \in Ops
      /\ Used(runs', b) = 1 <=> Fresh(b)'
      /\ Fresh(b)' => builders[b] = asked[b]
  BY <1>1, BeginsKeeps DEF q
<1>3. q.child = builders[b].child
  <2>1. builders[b] \in Queries
    BY DEF QueryInv, Typed
  <2>2. Leaves(builders[b], op, q)
    BY <1>2, <2>1, TouchedKeeps DEF q
  <2> QED BY <2>2 DEF Leaves
<1>4. \A d, e : RightEdges(b, {}, {}, d, e)
  BY DEF RightEdges, Paired
<1>5. CASE answer' = Nil
  BY <1>5 DEF EdgesAsLinked
<1>6. ASSUME NEW e, Answers(b, op, {}, e, {}, db) PROVE EdgesAsLinked'
  BY <1>4, <1>6, EdgesOfAnswer
<1>7. ASSUME NEW T, Answers(b, op, T, Verdict(op, T), {}, db), op \in OfIDs \/ q.child = Nil \/ T = {}
      PROVE  EdgesAsLinked'
  <2>1. Used(runs', b) = 1 /\ op \notin OfIDs => RightEdges(b, T, {}, db, db)
    BY <1>2, <1>3, <1>4, <1>7 DEF RightEdges
  <2> QED BY <1>7, <2>1, EdgesOfAnswer
<1> QED BY <1>5, <1>6, <1>7, RunCases DEF q

(* The second SELECT finds the neighbours that are linked.                       *)
LEMMA LoadedEdges ==
  ASSUME QueryInv, LoadEdges
  PROVE  EdgesAsLinked'
<1>0. PICK b, op, T, seen : b = pending.b /\ op = pending.op /\ T = pending.rows /\ seen = pending.seen
  OBVIOUS
<1> DEFINE q == builders[b]
           a == asked[b]
           keys == Keys(q.typ, T, seen)
<1>1. /\ builders \in Seq(Queries) /\ asked \in Seq(Queries) /\ Len(asked) = Len(builders)
      /\ IsTable(db) /\ pending # Nil /\ runs' = runs /\ asked' = asked
  BY DEF QueryInv, Typed, LoadEdges
<1>2. /\ Read(b, op) /\ Found(b, op, T, seen) /\ q.child # Nil
      /\ Fresh(b) => q.child = a.child
  BY <1>0, <1>1 DEF QueryInv, Reading
<1>3. b \in 1 .. Len(builders) /\ q \in Queries /\ q.child \in Loads
  <2>1. b \in 1 .. Len(builders) /\ q \in Queries
    BY <1>1, <1>2 DEF Read
  <2> QED BY <1>2, <2>1 DEF Queries
<1>4. q.typ = a.typ /\ q.typ \in Types /\ ChildOf(a)
  <2>1. KeptOf(q, a, runs[b]) /\ ChildOf(a)
    BY <1>1, <1>3, PartsAre DEF QueryInv
  <2> QED BY <1>3, <2>1 DEF KeptOf, Queries
<1>5. Loaded(b, op, T, seen, q.typ, keys)
  BY <1>0, LoadCases
<1>6. /\ IsTable(seen) /\ \A x \in T : x[1] \in RowIds(seen, q.typ)
      /\ q.typ = "Token" => \A x, y \in T : x[1] = y[1] => x = y
  BY <1>2, <1>4 DEF Found
<1>7. Used(runs', b) = 1 <=> Fresh(b)
  BY <1>1 DEF Fresh, Used
<1>8. keys \in SUBSET Nat
  BY <1>4, <1>6, KeysAreIds
<1> HIDE DEF keys
<1>9. CASE keys = {} /\ Answers(b, op, T, Verdict(op, T), {}, seen)
  <2>1. Paired(q.typ, T, a.child.where, {}, seen, db)
    <3>1. ASSUME NEW x \in T PROVE LinkedIds(q.typ, a.child.where, seen, db, x[1]) = {}
      <4>1. CASE q.typ = "User"
        BY <1>9, <3>1, <4>1 DEF keys, Keys
      <4>2. CASE q.typ = "Token"
        <5>1. seen.owner[x[1]] = Nil
          BY <1>9, <3>1, <4>2 DEF keys, Keys
        <5>2. Nil \notin UserIds \cup TokenIds
          BY QueryAssumption
        <5> QED BY <4>2, <5>1, <5>2 DEF LinkedIds
      <4> QED BY <1>4, <4>1, <4>2 DEF Types
    <3> QED BY <3>1 DEF Paired
  <2>2. RightEdges(b, T, {}, seen, db)
    BY <1>4, <2>1 DEF RightEdges
  <2> QED BY <1>9, <2>2, EdgesOfAnswer
<1>10. ASSUME NEW N \in Selected(db, builders, builders'[b].child, FALSE), NEW L \in Lasts(T),
              builders' = [builders EXCEPT ![b].child.where = @ \cup {[by |-> By(q.typ), in |-> keys]}],
              Answers(b, op, T, Verdict(op, T), Assigned(q.typ, T, L, N, seen, db), seen)
       PROVE  EdgesAsLinked'
  <2> DEFINE c == [q.child EXCEPT !.where = q.child.where \cup {[by |-> By(q.typ), in |-> keys]}]
  <2>0. builders' = [builders EXCEPT ![b] = [q EXCEPT !.child = c]]
    BY <1>1, <1>3, <1>10
  <2>1. builders'[b] = [q EXCEPT !.child = c]
    <3> DEFINE new == [q EXCEPT !.child = c]
    <3>1. b \in DOMAIN builders /\ builders' = [builders EXCEPT ![b] = new]
      BY <1>1, <1>3, <2>0
    <3> HIDE DEF new
    <3>2. builders'[b] = new
      BY <3>1
    <3> QED BY <3>2 DEF new
  <2>2. builders'[b].child = c
    BY <1>3, <2>1 DEF Queries
  <2>3. /\ c \in Loads /\ c.typ = q.child.typ
        /\ c.where = q.child.where \cup {[by |-> By(q.typ), in |-> keys]}
    <3>1. [by |-> By(q.typ), in |-> keys] \in Preds
      BY <1>8 DEF Preds, By
    <3> QED BY <1>3, <3>1 DEF Loads
  <2> HIDE DEF c
  <2>4. N = Matches(db, c, Rows(db, c.typ))
    BY <1>1, <1>10, <2>2, <2>3, NeighboursFound
  <2>5. ASSUME Fresh(b) PROVE RightEdges(b, T, Assigned(q.typ, T, L, N, seen, db), seen, db)
    <3>1. a.child = q.child /\ a.child # Nil
      BY <1>2, <2>5
    <3>2. c.typ = Other(q.typ) /\ \A p \in a.child.where : p.by = "id"
      BY <1>4, <2>3, <3>1 DEF ChildOf
    <3>3. Paired(q.typ, T, a.child.where, Assigned(q.typ, T, L, N, seen, db), seen, db)
      <4> DEFINE where == a.child.where
      <4>1. c.where = where \cup {[by |-> By(q.typ), in |-> keys]} /\ \A p \in where : p.by = "id"
        BY <2>3, <3>1, <3>2
      <4> HIDE DEF where
      <4>2. CASE q.typ = "User"
        <5>1. Other(q.typ) = "Token" /\ By(q.typ) = "fk" /\ keys = Keys("User", T, seen)
          BY <4>2 DEF Other, By, keys
        <5>2. N = Matches(db, c, Rows(db, "Token"))
          BY <2>4, <3>2, <5>1
        <5>3. \A x \in T : x[1] \in RowIds(seen, "User")
          BY <1>6, <4>2
        <5>4. Paired("User", T, where, Assigned("User", T, L, N, seen, db), seen, db)
          BY <1>1, <1>10, <1>6, <4>1, <5>1, <5>2, <5>3, TokensLinked
        <5> QED BY <4>2, <5>4 DEF where
      <4>3. CASE q.typ = "Token"
        <5>1. Other(q.typ) = "User" /\ By(q.typ) = "id" /\ keys = Keys("Token", T, seen)
          BY <4>3 DEF Other, By, keys
        <5>2. N = Matches(db, c, Rows(db, "User"))
          BY <2>4, <3>2, <5>1
        <5>3. /\ \A x \in T : x[1] \in RowIds(seen, "Token")
              /\ \A x, y \in T : x[1] = y[1] => x = y
          BY <1>6, <4>3
        <5>4. Paired("Token", T, where, Assigned("Token", T, L, N, seen, db), seen, db)
          BY <1>1, <1>6, <4>1, <5>1, <5>2, <5>3, OwnersLinked
        <5> QED BY <4>3, <5>4 DEF where
      <4> QED BY <1>4, <4>2, <4>3 DEF Types
    <3> QED BY <1>4, <3>1, <3>3 DEF RightEdges
  <2> QED BY <1>7, <1>10, <2>5, EdgesOfAnswer
<1> QED BY <1>5, <1>9, <1>10 DEF Loaded

(* Every step keeps the property.                                                *)
LEMMA EdgesStep ==
  ASSUME QueryInv, EdgesAsLinked, [Next]_vars
  PROVE  EdgesAsLinked'
<1>1. CASE answer' = Nil
  BY <1>1 DEF EdgesAsLinked
<1>2. CASE LoadEdges
  BY <1>2, LoadedEdges
<1>3. ASSUME NEW b \in DOMAIN builders, NEW op \in work.ops, Run(b, op) PROVE EdgesAsLinked'
  BY <1>3, RunEdges
<1>4. CASE UNCHANGED vars
  BY <1>4 DEF vars, EdgesAsLinked, Wanted
<1>5. Outside => answer' = Nil
  BY DEF Outside, Changed
<1>6. ASSUME NEW b \in DOMAIN builders,
             \/ \E s \in work.filters : Where(b, s) \/ WithEdge(b, {s})
             \/ WithEdge(b, {})
             \/ \E n \in work.limits : Limit(b, n)
             \/ \E n \in work.offsets : Offset(b, n)
             \/ \E u \in BOOLEAN : Unique(b, u)
             \/ \E f \in work.selects : Select(b, f)
             \/ Order(b) \/ Clones(b) \/ QueryEdge(b)
      PROVE  answer' = Nil
  BY <1>6 DEF Where, WithEdge, Limit, Offset, Unique, Select, Order, Clones, QueryEdge, Sets, NewBuilder
<1> QED BY <1>1, <1>2, <1>3, <1>4, <1>5, <1>6 DEF Next

(* In every run an entity comes with all the neighbours that it is linked to and  *)
(* that the caller wants, and no other; of the copies of a user one has them      *)
(* (loadOwner, loadRefreshTokens).                                               *)
THEOREM EdgesAsLinkedAlways == Spec => []EdgesAsLinked
<1>1. Init => EdgesAsLinked
  BY DEF Init, EdgesAsLinked
<1>2. QueryInv /\ EdgesAsLinked /\ [Next]_vars => EdgesAsLinked'
  BY EdgesStep
<1> QED BY <1>1, <1>2, QueryInvariance, PTL DEF Spec
================================================================================
