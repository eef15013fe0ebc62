---------------------------- MODULE EntGraphProofs -----------------------------
(* Proofs about the update and delete builders, for any sets of builders and     *)
(* rows and any workloads: any calls in any order, hooks, reuse and clocks.       *)
EXTENDS EntGraphInvariant, NatLemmas

USE GraphAssumption, MutationAssumption

--------------------------------------------------------------------------------
(* The calls of a builder, and what one more of them changes.                    *)
LEMMA Appended ==
  ASSUME NEW L, IsLog(L), NEW e
  PROVE  /\ IsLog(Append(L, e)) /\ Len(L) \in Nat /\ DOMAIN L = 1..Len(L)
         /\ DOMAIN Append(L, e) = 1..(Len(L) + 1)
         /\ \A i \in 1..Len(L) : Append(L, e)[i] = L[i]
         /\ Append(L, e)[Len(L) + 1] = e
<1>1. PICK S : L \in Seq(S)
  BY DEF IsLog
<1>2. L \in Seq(S \cup {e}) /\ e \in S \cup {e}
  BY <1>1
<1>3. Append(L, e) \in Seq(S \cup {e})
  BY <1>2
<1> QED BY <1>2, <1>3 DEF IsLog

(* One more call makes a log, and no empty one.                                  *)
LEMMA Longer ==
  ASSUME NEW L, IsLog(L), NEW e
  PROVE  IsLog(Append(L, e)) /\ Append(L, e) # << >>
<1>1. Len(L) + 1 \in DOMAIN Append(L, e)
  BY Appended
<1>2. DOMAIN << >> = {}
  OBVIOUS
<1> QED BY <1>1, <1>2, Appended

(* The calls on a field after one more call.                                     *)
LEMMA CallsAppended ==
  ASSUME NEW L, IsLog(L), NEW e, NEW f
  PROVE  /\ CallsOn(L, f) \in SUBSET (1..Len(L))
         /\ CallsOn(Append(L, e), f) =
              CallsOn(L, f) \cup (IF e.on = f THEN {Len(L) + 1} ELSE {})
<1>1. Len(L) \in Nat
  BY Appended
<1> QED BY <1>1, Appended DEF CallsOn

(* The maximum of a set of positions, and with one more position.                 *)
LEMMA MaxAppended ==
  ASSUME NEW n \in Nat, NEW S \in SUBSET (1..n)
  PROVE  Max(S \cup {n + 1}) = n + 1
<1> DEFINE T == S \cup {n + 1}
<1>1. T \in SUBSET (1..(n + 1)) /\ T # {} /\ n + 1 \in Nat
  OBVIOUS
<1>2. Max(T) \in T /\ \A y \in T : y <= Max(T)
  BY <1>1, MaxIn
<1>3. n + 1 <= Max(T) /\ Max(T) \in 1..(n + 1)
  BY <1>1, <1>2
<1> HIDE DEF T
<1>4. Max(T) = n + 1
  BY <1>3
<1> QED BY <1>4 DEF T

(* A call about another field changes nothing about f ...                        *)
LEMMA OtherCall ==
  ASSUME NEW L, IsLog(L), NEW e, NEW f, e.on # f
  PROVE  /\ CallsOn(Append(L, e), f) = CallsOn(L, f)
         /\ AskedFor(Append(L, e), f) <=> AskedFor(L, f)
         /\ CallsOn(L, f) # {} => LastOn(Append(L, e), f) = LastOn(L, f)
<1>1. CallsOn(Append(L, e), f) = CallsOn(L, f) /\ CallsOn(L, f) \in SUBSET (1..Len(L))
  <2>1. CallsOn(Append(L, e), f) = CallsOn(L, f) \cup {}
    BY CallsAppended
  <2> QED BY <2>1, CallsAppended
<1>2. ASSUME CallsOn(L, f) # {} PROVE LastOn(Append(L, e), f) = LastOn(L, f)
  <2>1. Max(CallsOn(L, f)) \in 1..Len(L)
    BY <1>1, <1>2, MaxIn, Appended
  <2> QED BY <1>1, <2>1, Appended DEF LastOn
<1> QED BY <1>1, <1>2 DEF AskedFor

(* ... and one about f is the one that counts.                                   *)
LEMMA NewCall ==
  ASSUME NEW L, IsLog(L), NEW e, NEW f, e.on = f
  PROVE  /\ CallsOn(Append(L, e), f) # {} /\ LastOn(Append(L, e), f) = e
         /\ AskedFor(Append(L, e), f) <=> e.call # "Reset"
<1>1. /\ CallsOn(Append(L, e), f) = CallsOn(L, f) \cup {Len(L) + 1}
      /\ CallsOn(L, f) \in SUBSET (1..Len(L))
  BY CallsAppended
<1>2. Max(CallsOn(Append(L, e), f)) = Len(L) + 1
  BY <1>1, MaxAppended, Appended
<1>3. LastOn(Append(L, e), f) = e
  BY <1>2, Appended DEF LastOn
<1> QED BY <1>1, <1>3 DEF AskedFor

(* Of the edge: what is no ResetEdge adds to the calls that count.                *)
LEMMA EdgeAppended ==
  ASSUME NEW L, IsLog(L), NEW e, e.call # "ResetEdge"
  PROVE  /\ SinceReset(L) \in SUBSET (1..Len(L))
         /\ SinceReset(Append(L, e)) =
              SinceReset(L) \cup (IF e.on = "edge" THEN {Len(L) + 1} ELSE {})
<1> DEFINE n == Len(L)
           R(l) == {j \in DOMAIN l : l[j].call = "ResetEdge"}
<1>1. n \in Nat
  BY Appended
<1>2. R(Append(L, e)) = R(L) /\ R(L) \in SUBSET (1..n)
  BY <1>1, Appended
<1>3. CallsOn(L, "edge") \in SUBSET (1..n)
  BY CallsAppended
<1>4. CallsOn(Append(L, e), "edge") =
        CallsOn(L, "edge") \cup (IF e.on = "edge" THEN {n + 1} ELSE {})
  BY CallsAppended
<1>5. \A l : SinceReset(l) = {i \in CallsOn(l, "edge") : \A j \in R(l) : i > j}
  BY DEF SinceReset
<1> HIDE DEF R
<1>6. \A j \in R(L) : n + 1 > j
  BY <1>1, <1>2
<1> QED BY <1>2, <1>3, <1>4, <1>5, <1>6

(* After a ResetEdge none counts.                                                *)
LEMMA EdgeReset ==
  ASSUME NEW L, IsLog(L), NEW e, e.call = "ResetEdge"
  PROVE  SinceReset(Append(L, e)) = {}
<1> DEFINE n == Len(L)
<1>1. n \in Nat /\ n + 1 \in DOMAIN Append(L, e) /\ Append(L, e)[n + 1].call = "ResetEdge"
  BY Appended
<1>2. CallsOn(Append(L, e), "edge") \in SUBSET (1..(n + 1))
  BY Appended DEF CallsOn
<1> QED BY <1>1, <1>2 DEF SinceReset

(* The last of the calls for which P says so, whether one is added or not.        *)
LEMMA EdgeCallsAppended ==
  ASSUME NEW L, IsLog(L), NEW e, NEW c, e.call # "ResetEdge"
  PROVE  /\ EdgeCalls(L, c) \in SUBSET (1..Len(L))
         /\ EdgeCalls(Append(L, e), c) =
              IF e.on = "edge" /\ e.call = c THEN EdgeCalls(L, c) \cup {Len(L) + 1}
                                             ELSE EdgeCalls(L, c)
<1>1. Len(L) \in Nat
  BY Appended
<1>2. /\ SinceReset(L) \in SUBSET (1..Len(L))
      /\ SinceReset(Append(L, e)) =
           SinceReset(L) \cup (IF e.on = "edge" THEN {Len(L) + 1} ELSE {})
  BY EdgeAppended
<1> QED BY <1>1, <1>2, Appended DEF EdgeCalls

(* The last call about a neighbour after one more call.                          *)
LEMMA LastEdgeAppended ==
  ASSUME NEW L, IsLog(L), NEW e, NEW k, e.call # "ResetEdge"
  PROVE  LastEdge(Append(L, e), k) =
           IF e.on = "edge" /\ e.call \in {"Add", "Remove"} /\ k \in e.arg
             THEN e.call ELSE LastEdge(L, k)
<1> DEFINE n == Len(L)
           is(l) == {i \in SinceReset(l) : l[i].call \in {"Add", "Remove"} /\ k \in l[i].arg}
<1>1. n \in Nat
  BY Appended
<1>2. /\ SinceReset(L) \in SUBSET (1..n)
      /\ SinceReset(Append(L, e)) = SinceReset(L) \cup (IF e.on = "edge" THEN {n + 1} ELSE {})
  BY EdgeAppended
<1>3. \A l : LastEdge(l, k) = IF is(l) = {} THEN "none" ELSE l[Max(is(l))].call
  BY DEF LastEdge
<1>4. CASE e.on = "edge" /\ e.call \in {"Add", "Remove"} /\ k \in e.arg
  <2>1. is(Append(L, e)) = is(L) \cup {n + 1} /\ is(L) \in SUBSET (1..n)
    BY <1>1, <1>2, <1>4, Appended
  <2> HIDE DEF is
  <2>2. Max(is(Append(L, e))) = n + 1
    BY <1>1, <2>1, MaxAppended
  <2>3. Append(L, e)[n + 1] = e
    BY Appended
  <2> QED BY <1>3, <1>4, <2>1, <2>2, <2>3
<1>5. CASE ~(e.on = "edge" /\ e.call \in {"Add", "Remove"} /\ k \in e.arg)
  <2>1. is(Append(L, e)) = is(L) /\ is(L) \in SUBSET (1..n)
    BY <1>1, <1>2, <1>5, Appended
  <2> HIDE DEF is
  <2>2. ASSUME is(L) # {} PROVE Append(L, e)[Max(is(L))] = L[Max(is(L))]
    <3>1. Max(is(L)) \in 1..n
      BY <1>1, <2>1, <2>2, MaxIn
    <3> QED BY <3>1, Appended
  <2> QED BY <1>3, <1>5, <2>1, <2>2
<1> QED BY <1>4, <1>5

--------------------------------------------------------------------------------
(* What each call does to a mutation keeps it in step with the calls: the fields  *)
(* first.  A call about no field ...                                             *)
LEMMA FieldsKept ==
  ASSUME NEW L, IsLog(L), NEW e, NEW m, NEW n, FieldsReflect(m, L),
         e.on \notin Fields,
         n.typ = m.typ, n.cleared = m.cleared,
         n.value = m.value
  PROVE  FieldsReflect(n, Append(L, e))
<1> SUFFICES ASSUME NEW f \in Fields PROVE FieldReflects(n, Append(L, e), f)
  BY DEF FieldsReflect
<1>1. FieldReflects(m, L, f) /\ e.on # f
  BY DEF FieldsReflect
<1>2. /\ AskedFor(Append(L, e), f) <=> AskedFor(L, f)
      /\ CallsOn(L, f) # {} => LastOn(Append(L, e), f) = LastOn(L, f)
  BY <1>1, OtherCall
<1> QED BY <1>1, <1>2 DEF FieldReflects, AskedFor

(* ... a setter ...                                                              *)
LEMMA FieldsSet ==
  ASSUME NEW L, IsLog(L), NEW m, DOMAIN m = MutationFields, FieldsReflect(m, L),
         NEW c, c # "Reset", NEW g \in Fields, NEW v
  PROVE  FieldsReflect(Assign(m, g, v), Append(L, Entry(c, g, v)))
<1> DEFINE n == Assign(m, g, v)
           e == Entry(c, g, v)
<1>1. /\ n.typ = m.typ /\ n.cleared = m.cleared
      /\ DOMAIN n.value = DOMAIN m.value \cup {g} /\ n.value[g] = v
      /\ \A f \in DOMAIN m.value \ {g} : n.value[f] = m.value[f]
  BY DEF Assign, MutationFields, With, Over
<1>2. e.on = g /\ e.call = c /\ e.arg = v
  BY DEF Entry
<1> HIDE DEF n, e
<1> SUFFICES ASSUME NEW f \in Fields PROVE FieldReflects(n, Append(L, e), f)
  BY DEF FieldsReflect, n, e
<1>3. CASE f = g
  <2>1. AskedFor(Append(L, e), f) /\ LastOn(Append(L, e), f) = e
    BY <1>2, <1>3, NewCall
  <2> QED BY <1>1, <1>2, <1>3, <2>1 DEF FieldReflects
<1>4. CASE f # g
  <2>1. /\ AskedFor(Append(L, e), f) <=> AskedFor(L, f)
        /\ CallsOn(L, f) # {} => LastOn(Append(L, e), f) = LastOn(L, f)
    BY <1>2, <1>4, OtherCall
  <2>2. FieldReflects(m, L, f)
    BY DEF FieldsReflect
  <2> QED BY <1>1, <1>4, <2>1, <2>2 DEF FieldReflects, AskedFor
<1> QED BY <1>3, <1>4

(* ... ResetX ...                                                                *)
LEMMA FieldsReset ==
  ASSUME NEW L, IsLog(L), NEW m, DOMAIN m = MutationFields, FieldsReflect(m, L),
         NEW g \in Fields
  PROVE  FieldsReflect(Reset(m, g), Append(L, Entry("Reset", g, Nil)))
<1> DEFINE n == Reset(m, g)
           e == Entry("Reset", g, Nil)
<1>1. /\ n.typ = m.typ /\ n.cleared = m.cleared \ {g}
      /\ DOMAIN n.value = DOMAIN m.value \ {g}
      /\ \A f \in DOMAIN m.value \ {g} : n.value[f] = m.value[f]
  BY DEF Reset, MutationFields, Restrict
<1>2. e.on = g /\ e.call = "Reset"
  BY DEF Entry
<1> HIDE DEF n, e
<1> SUFFICES ASSUME NEW f \in Fields PROVE FieldReflects(n, Append(L, e), f)
  BY DEF FieldsReflect, n, e
<1>3. CASE f = g
  <2>1. ~AskedFor(Append(L, e), f)
    BY <1>2, <1>3, NewCall
  <2> QED BY <1>1, <1>3, <2>1 DEF FieldReflects
<1>4. CASE f # g
  <2>1. /\ AskedFor(Append(L, e), f) <=> AskedFor(L, f)
        /\ CallsOn(L, f) # {} => LastOn(Append(L, e), f) = LastOn(L, f)
    BY <1>2, <1>4, OtherCall
  <2>2. FieldReflects(m, L, f)
    BY DEF FieldsReflect
  <2> QED BY <1>1, <1>4, <2>1, <2>2 DEF FieldReflects, AskedFor
<1> QED BY <1>3, <1>4

(* ... and ClearRevokedAt.                                                       *)
LEMMA FieldsCleared ==
  ASSUME NEW L, IsLog(L), NEW m, DOMAIN m = MutationFields, FieldsReflect(m, L),
         NEW g \in Fields
  PROVE  FieldsReflect(Clear(m, g), Append(L, Entry("Clear", g, Nil)))
<1> DEFINE n == Clear(m, g)
           e == Entry("Clear", g, Nil)
<1>1. /\ n.typ = m.typ /\ n.cleared = m.cleared \cup {g}
      /\ DOMAIN n.value = DOMAIN m.value \ {g}
      /\ \A f \in DOMAIN m.value \ {g} : n.value[f] = m.value[f]
  BY DEF Clear, MutationFields, Restrict
<1>2. e.on = g /\ e.call = "Clear" /\ e.arg = Nil
  BY DEF Entry
<1> HIDE DEF n, e
<1> SUFFICES ASSUME NEW f \in Fields PROVE FieldReflects(n, Append(L, e), f)
  BY DEF FieldsReflect, n, e
<1>3. CASE f = g
  <2>1. AskedFor(Append(L, e), f) /\ LastOn(Append(L, e), f) = e
    BY <1>2, <1>3, NewCall
  <2> QED BY <1>1, <1>2, <1>3, <2>1 DEF FieldReflects
<1>4. CASE f # g
  <2>1. /\ AskedFor(Append(L, e), f) <=> AskedFor(L, f)
        /\ CallsOn(L, f) # {} => LastOn(Append(L, e), f) = LastOn(L, f)
    BY <1>2, <1>4, OtherCall
  <2>2. FieldReflects(m, L, f)
    BY DEF FieldsReflect
  <2> QED BY <1>1, <1>4, <2>1, <2>2 DEF FieldReflects, AskedFor
<1> QED BY <1>3, <1>4

(* The default of updated_at is nobody's wish.                                   *)
LEMMA FieldsDefault ==
  ASSUME NEW L, NEW m, DOMAIN m = MutationFields, FieldsReflect(m, L), m.typ = "User",
         m.cleared \subseteq {"revoked_at"}
  PROVE  FieldsReflect(Defaults(m), L)
<1> DEFINE n == Defaults(m)
<1>1. CASE IsSet(m, "updated_at")
  BY <1>1 DEF Defaults
<1>2. CASE ~IsSet(m, "updated_at")
  <2>1. /\ n.typ = m.typ /\ n.cleared = m.cleared
        /\ DOMAIN n.value = DOMAIN m.value \cup {"updated_at"}
        /\ \A f \in DOMAIN m.value : n.value[f] = m.value[f]
    BY <1>2 DEF Defaults, Assign, MutationFields, With, Over, IsSet
  <2> HIDE DEF n
  <2> SUFFICES ASSUME NEW f \in Fields PROVE FieldReflects(n, L, f)
    BY DEF FieldsReflect, n
  <2>2. FieldReflects(m, L, f)
    BY DEF FieldsReflect
  <2>3. CASE f = "updated_at"
    BY <1>2, <2>1, <2>2, <2>3 DEF FieldReflects, IsSet
  <2>4. CASE f # "updated_at"
    BY <2>1, <2>2, <2>4 DEF FieldReflects
  <2> QED BY <2>3, <2>4
<1> QED BY <1>1, <1>2

--------------------------------------------------------------------------------
(* Then the edges.  A call that is not about the edge ...                        *)
LEMMA EdgesKept ==
  ASSUME NEW L, IsLog(L), NEW e, e.on # "edge", e.call # "ResetEdge",
         NEW m, NEW n, EdgesReflect(m, L), n.typ = m.typ, n.added = m.added,
         n.removed = m.removed, n.edgeCleared = m.edgeCleared
  PROVE  EdgesReflect(n, Append(L, e))
<1>1. /\ EdgeCalls(Append(L, e), "ClearEdge") = EdgeCalls(L, "ClearEdge")
      /\ EdgeCalls(Append(L, e), "SetOwner") = EdgeCalls(L, "SetOwner")
      /\ EdgeCalls(L, "SetOwner") \in SUBSET (1..Len(L))
  BY EdgeCallsAppended
<1>2. \A k : LastEdge(Append(L, e), k) = LastEdge(L, k)
  BY LastEdgeAppended
<1>3. UserEdgesReflect(m, L) => UserEdgesReflect(n, Append(L, e))
  BY <1>2 DEF UserEdgesReflect
<1>4. TokenEdgeReflects(m, L) => TokenEdgeReflects(n, Append(L, e))
  <2> DEFINE sets == EdgeCalls(L, "SetOwner")
  <2>1. EdgeCalls(Append(L, e), "SetOwner") = sets
    BY <1>1
  <2>2. ASSUME sets # {} PROVE Append(L, e)[Max(sets)] = L[Max(sets)]
    <3>1. sets \in SUBSET (1..Len(L)) /\ Len(L) \in Nat
      BY <1>1, Appended
    <3> HIDE DEF sets
    <3>2. Max(sets) \in 1..Len(L)
      BY <2>2, <3>1, MaxIn
    <3> QED BY <3>2, Appended
  <2> QED BY <2>1, <2>2 DEF TokenEdgeReflects
<1> QED BY <1>1, <1>3, <1>4 DEF EdgesReflect

(* ... AddRefreshTokens ...                                                      *)
LEMMA EdgesAdded ==
  ASSUME NEW L, IsLog(L), NEW m, DOMAIN m = MutationFields, EdgesReflect(m, L),
         m.typ = "User", NEW ks
  PROVE  EdgesReflect(AddIDs(m, ks), Append(L, Entry("Add", "edge", ks)))
<1> DEFINE n == AddIDs(m, ks)
           e == Entry("Add", "edge", ks)
<1>1. /\ n.typ = m.typ /\ n.edgeCleared = m.edgeCleared
      /\ n.added = m.added \cup ks /\ n.removed = m.removed
  BY DEF AddIDs, MutationFields
<1>2. e.on = "edge" /\ e.call = "Add" /\ e.arg = ks
  BY DEF Entry
<1> HIDE DEF n, e
<1>3. EdgeCalls(Append(L, e), "ClearEdge") = EdgeCalls(L, "ClearEdge")
  BY <1>2, EdgeCallsAppended
<1>4. \A k : LastEdge(Append(L, e), k) = IF k \in ks THEN "Add" ELSE LastEdge(L, k)
  BY <1>2, LastEdgeAppended
<1>5. UserEdgesReflect(n, Append(L, e))
  BY <1>1, <1>4 DEF UserEdgesReflect, EdgesReflect
<1> QED BY <1>1, <1>3, <1>5 DEF EdgesReflect, n, e

(* ... RemoveRefreshTokens ...                                                   *)
LEMMA EdgesRemoved ==
  ASSUME NEW L, IsLog(L), NEW m, DOMAIN m = MutationFields, EdgesReflect(m, L),
         m.typ = "User", NEW ks
  PROVE  EdgesReflect(RemoveIDs(m, ks), Append(L, Entry("Remove", "edge", ks)))
<1> DEFINE n == RemoveIDs(m, ks)
           e == Entry("Remove", "edge", ks)
<1>1. /\ n.typ = m.typ /\ n.edgeCleared = m.edgeCleared
      /\ n.added = m.added \ ks /\ n.removed = m.removed \cup ks
  BY DEF RemoveIDs, MutationFields
<1>2. e.on = "edge" /\ e.call = "Remove" /\ e.arg = ks
  BY DEF Entry
<1> HIDE DEF n, e
<1>3. EdgeCalls(Append(L, e), "ClearEdge") = EdgeCalls(L, "ClearEdge")
  BY <1>2, EdgeCallsAppended
<1>4. \A k : LastEdge(Append(L, e), k) = IF k \in ks THEN "Remove" ELSE LastEdge(L, k)
  BY <1>2, LastEdgeAppended
<1>5. UserEdgesReflect(n, Append(L, e))
  BY <1>1, <1>4 DEF UserEdgesReflect, EdgesReflect
<1> QED BY <1>1, <1>3, <1>5 DEF EdgesReflect, n, e

(* ... ClearRefreshTokens and ClearOwner ...                                     *)
LEMMA EdgesCleared ==
  ASSUME NEW L, IsLog(L), NEW m, DOMAIN m = MutationFields, EdgesReflect(m, L)
  PROVE  EdgesReflect(ClearEdge(m), Append(L, Entry("ClearEdge", "edge", Nil)))
<1> DEFINE n == ClearEdge(m)
           e == Entry("ClearEdge", "edge", Nil)
<1>1. /\ n.typ = m.typ /\ n.edgeCleared = TRUE
      /\ n.added = m.added /\ n.removed = m.removed
  BY DEF ClearEdge, MutationFields
<1>2. e.on = "edge" /\ e.call = "ClearEdge"
  BY DEF Entry
<1> HIDE DEF n, e
<1>3. /\ EdgeCalls(Append(L, e), "ClearEdge") = EdgeCalls(L, "ClearEdge") \cup {Len(L) + 1}
      /\ EdgeCalls(Append(L, e), "SetOwner") = EdgeCalls(L, "SetOwner")
      /\ EdgeCalls(L, "SetOwner") \in SUBSET (1..Len(L))
  BY <1>2, EdgeCallsAppended
<1>4. \A k : LastEdge(Append(L, e), k) = LastEdge(L, k)
  BY <1>2, LastEdgeAppended
<1>5. UserEdgesReflect(m, L) => UserEdgesReflect(n, Append(L, e))
  BY <1>1, <1>4 DEF UserEdgesReflect
<1>6. TokenEdgeReflects(m, L) => TokenEdgeReflects(n, Append(L, e))
  <2> DEFINE sets == EdgeCalls(L, "SetOwner")
  <2>1. EdgeCalls(Append(L, e), "SetOwner") = sets
    BY <1>3
  <2>2. ASSUME sets # {} PROVE Append(L, e)[Max(sets)] = L[Max(sets)]
    <3>1. sets \in SUBSET (1..Len(L)) /\ Len(L) \in Nat
      BY <1>3, Appended
    <3> HIDE DEF sets
    <3>2. Max(sets) \in 1..Len(L)
      BY <2>2, <3>1, MaxIn
    <3> QED BY <3>2, Appended
  <2> QED BY <1>1, <2>1, <2>2 DEF TokenEdgeReflects
<1>7. EdgeCalls(Append(L, e), "ClearEdge") # {}
  BY <1>3
<1> QED BY <1>1, <1>5, <1>6, <1>7 DEF EdgesReflect, n, e

(* ... SetOwner ...                                                              *)
LEMMA EdgesOwned ==
  ASSUME NEW L, IsLog(L), NEW m, DOMAIN m = MutationFields, EdgesReflect(m, L),
         m.typ = "Token", NEW u
  PROVE  EdgesReflect(SetOwnerID(m, u), Append(L, Entry("SetOwner", "edge", u)))
<1> DEFINE n == SetOwnerID(m, u)
           e == Entry("SetOwner", "edge", u)
<1>1. n.typ = m.typ /\ n.edgeCleared = m.edgeCleared /\ n.added = {u}
  BY DEF SetOwnerID, MutationFields
<1>2. e.on = "edge" /\ e.call = "SetOwner" /\ e.arg = u
  BY DEF Entry
<1> HIDE DEF n, e
<1>3. /\ EdgeCalls(Append(L, e), "ClearEdge") = EdgeCalls(L, "ClearEdge")
      /\ EdgeCalls(Append(L, e), "SetOwner") = EdgeCalls(L, "SetOwner") \cup {Len(L) + 1}
      /\ EdgeCalls(L, "SetOwner") \in SUBSET (1..Len(L)) /\ Len(L) \in Nat
  BY <1>2, EdgeCallsAppended, Appended
<1>4. Max(EdgeCalls(Append(L, e), "SetOwner")) = Len(L) + 1
  BY <1>3, MaxAppended
<1>5. Append(L, e)[Len(L) + 1] = e /\ EdgeCalls(Append(L, e), "SetOwner") # {}
  BY <1>3, Appended
<1>6. TokenEdgeReflects(n, Append(L, e))
  BY <1>1, <1>2, <1>4, <1>5 DEF TokenEdgeReflects
<1> QED BY <1>1, <1>3, <1>6 DEF EdgesReflect, n, e

(* ... ResetRefreshTokens and ResetOwner.                                        *)
LEMMA EdgesReset ==
  ASSUME NEW L, IsLog(L), NEW m, DOMAIN m = MutationFields,
         NEW n \in {ResetEdge(m), ResetOwner(m)},
         m.typ = "User" => n = ResetEdge(m)
  PROVE  EdgesReflect(n, Append(L, Entry("ResetEdge", "edge", Nil)))
<1> DEFINE e == Entry("ResetEdge", "edge", Nil)
<1>1. /\ n.typ = m.typ /\ n.edgeCleared = FALSE
      /\ n.added = {} /\ (m.typ = "User" => n.removed = {})
  BY DEF ResetEdge, ResetOwner, MutationFields
<1>2. e.call = "ResetEdge"
  BY DEF Entry
<1> HIDE DEF e
<1>3. SinceReset(Append(L, e)) = {}
  BY <1>2, EdgeReset
<1>4. \A c : EdgeCalls(Append(L, e), c) = {}
  BY <1>3 DEF EdgeCalls
<1>5. \A k : LastEdge(Append(L, e), k) = "none"
  BY <1>3 DEF LastEdge
<1> QED BY <1>1, <1>4, <1>5 DEF EdgesReflect, UserEdgesReflect, TokenEdgeReflects, e

--------------------------------------------------------------------------------
(* And the predicates: a call that is no Where ...                               *)
LEMMA WhereKept ==
  ASSUME NEW L, IsLog(L), L # << >>, NEW e, e.on # "ids",
         NEW m, NEW n, WhereReflects(m, L), n.typ = m.typ, n.id = m.id,
         n.where = m.where, n.op = "UpdateOne" <=> m.op = "UpdateOne"
  PROVE  WhereReflects(n, Append(L, e))
<1>1. 1 \in 1..Len(L)
  BY DEF IsLog
<1>2. Append(L, e)[1] = L[1]
  BY <1>1, Appended
<1>3. CallsOn(Append(L, e), "ids") = CallsOn(L, "ids") /\ CallsOn(L, "ids") \in SUBSET (1..Len(L))
  BY OtherCall, CallsAppended
<1>4. \A j \in CallsOn(L, "ids") : Append(L, e)[j] = L[j]
  BY <1>3, Appended
<1>5. \A i : Admits(Append(L, e), i) <=> Admits(L, i)
  BY <1>2, <1>3, <1>4 DEF Admits
<1>6. \A i : Admitted(n, i) <=> Admitted(m, i)
  BY DEF Admitted
<1> QED BY <1>2, <1>5, <1>6 DEF WhereReflects

(* ... and one that is.                                                          *)
LEMMA WhereAdded ==
  ASSUME NEW L, IsLog(L), L # << >>, NEW m, DOMAIN m = MutationFields,
         WhereReflects(m, L), NEW is
  PROVE  WhereReflects(Where(m, is), Append(L, Entry("Where", "ids", is)))
<1> DEFINE n == Where(m, is)
           e == Entry("Where", "ids", is)
<1>1. n.typ = m.typ /\ n.id = m.id /\ n.op = m.op /\ n.where = m.where \cap is
  BY DEF Where, MutationFields
<1>2. e.on = "ids" /\ e.arg = is
  BY DEF Entry
<1> HIDE DEF n, e
<1>3. 1 \in 1..Len(L)
  BY DEF IsLog
<1>4. Append(L, e)[1] = L[1] /\ Append(L, e)[Len(L) + 1] = e
  BY <1>3, Appended
<1>5. /\ CallsOn(Append(L, e), "ids") = CallsOn(L, "ids") \cup {Len(L) + 1}
      /\ CallsOn(L, "ids") \in SUBSET (1..Len(L))
  BY <1>2, CallsAppended
<1>6. \A j \in CallsOn(L, "ids") : Append(L, e)[j] = L[j]
  BY <1>5, Appended
<1>7. \A i : Admits(Append(L, e), i) <=> Admits(L, i) /\ i \in is
  BY <1>2, <1>4, <1>5, <1>6 DEF Admits
<1>8. \A i : Admitted(n, i) <=> Admitted(m, i) /\ i \in is
  BY <1>1 DEF Admitted
<1> QED BY <1>1, <1>4, <1>7, <1>8 DEF WhereReflects, n, e

--------------------------------------------------------------------------------
(* Rows: what one consists of, and what is one and hence is not nil.              *)
LEMMA RowElim ==
  ASSUME NEW w, NEW cs, NEW r \in RowsOf(w, cs)
  PROVE  /\ DOMAIN r = cs /\ r = [f \in cs |-> r[f]]
         /\ \A f \in cs : r[f] \in ValuesOf(w, f)
<1>1. PICK flags \in [cs \cap FlagColumns -> BOOLEAN],
           rest \in [cs \ FlagColumns -> OtherValues(w)] : r = Over(flags, rest)
  BY DEF RowsOf
<1>2. DOMAIN flags \cup DOMAIN rest = cs
  OBVIOUS
<1>3. r = [f \in cs |-> IF f \in DOMAIN flags THEN flags[f] ELSE rest[f]]
  BY <1>1, <1>2 DEF Over
<1> QED BY <1>1, <1>3 DEF ValuesOf

(* Values of the right kind in every column are a row.                           *)
LEMMA RowIntro ==
  ASSUME NEW w, NEW cs, NEW r, r = [f \in cs |-> r[f]],
         \A f \in cs : r[f] \in ValuesOf(w, f)
  PROVE  r \in RowsOf(w, cs)
<1> DEFINE flags == [f \in cs \cap FlagColumns |-> r[f]]
           rest  == [f \in cs \ FlagColumns |-> r[f]]
<1>1. flags \in [cs \cap FlagColumns -> BOOLEAN] /\ rest \in [cs \ FlagColumns -> OtherValues(w)]
  BY DEF ValuesOf
<1>2. r = Over(flags, rest)
  <2>1. DOMAIN flags \cup DOMAIN rest = cs
    OBVIOUS
  <2>2. Over(flags, rest) = [f \in cs |-> r[f]]
    BY <2>1 DEF Over
  <2> QED BY <2>2
<1> HIDE DEF flags, rest
<1> QED BY <1>1, <1>2 DEF RowsOf

(* sqlSave makes rows of rows.                                                   *)
LEMMA ChangesRow ==
  ASSUME NEW w, NEW cs, NEW m, MutationOK(w, m), NEW r \in RowsOf(w, cs)
  PROVE  Changes(m, r) \in RowsOf(w, cs)
<1> DEFINE n == Changes(m, r)
           fs == (DOMAIN m.value \cap DOMAIN r) \ {"created_at"}
<1>1. DOMAIN r = cs /\ \A f \in cs : r[f] \in ValuesOf(w, f)
  BY RowElim
<1>2. n = [f \in cs |-> IF f \in fs THEN m.value[f] ELSE r[f]]
  <2>1. DOMAIN m.value \cap fs = fs /\ fs \cup DOMAIN r = cs
    BY <1>1
  <2> QED BY <2>1 DEF Changes, Over, Restrict
<1>3. \A f \in cs : n[f] \in ValuesOf(w, f)
  BY <1>1, <1>2 DEF MutationOK
<1> HIDE DEF n
<1> QED BY <1>2, <1>3, RowIntro DEF n

(* What an update writes of a token is a row.                                    *)
LEMMA TokenRowRow ==
  ASSUME NEW w, NEW cs, "owner" \in cs, NEW m, MutationOK(w, m), m.typ = "Token",
         NEW r \in RowsOf(w, cs), r.owner \in UserIds \cup {Nil}
  PROVE  TokenRow(m, r) \in RowsOf(w, cs)
<1> DEFINE n == TokenRow(m, r)
<1>1. DOMAIN r = cs /\ \A f \in cs : r[f] \in ValuesOf(w, f)
  BY RowElim
<1>2. n = [f \in cs |-> n[f]]
  BY <1>1 DEF TokenRow
<1>3. ASSUME NEW f \in cs PROVE n[f] \in ValuesOf(w, f)
  <2>1. n[f] = IF f = "owner" THEN NewOwner(m, r.owner)
               ELSE IF f \in DOMAIN m.value THEN m.value[f]
               ELSE IF f \in m.cleared THEN Nil ELSE r[f]
    BY <1>1 DEF TokenRow
  <2>2. NewOwner(m, r.owner) \in UserIds \cup {Nil}
    BY DEF NewOwner, MutationOK
  <2>3. CASE f = "owner"
    BY <2>1, <2>2, <2>3 DEF ValuesOf, FlagColumns, OtherValues
  <2>4. CASE f # "owner" /\ f \notin DOMAIN m.value /\ f \in m.cleared
    BY <2>1, <2>4 DEF MutationOK, ValuesOf, FlagColumns, OtherValues
  <2>5. CASE f # "owner" /\ (f \in DOMAIN m.value \/ f \notin m.cleared)
    BY <1>1, <2>1, <2>5 DEF MutationOK
  <2> QED BY <2>3, <2>4, <2>5
<1> HIDE DEF n
<1> QED BY <1>2, <1>3, RowIntro DEF n

(* A token that gets an owner, or none, is a row.                                *)
LEMMA OwnedRow ==
  ASSUME NEW w, NEW cs, "owner" \in cs, NEW r \in RowsOf(w, cs), NEW o \in UserIds \cup {Nil}
  PROVE  [r EXCEPT !.owner = o] \in RowsOf(w, cs) /\ [r EXCEPT !.owner = o].owner = o
<1> DEFINE n == [r EXCEPT !.owner = o]
<1>1. DOMAIN r = cs /\ \A f \in cs : r[f] \in ValuesOf(w, f)
  BY RowElim
<1>2. n = [f \in cs |-> n[f]] /\ n.owner = o /\ \A f \in cs \ {"owner"} : n[f] = r[f]
  BY <1>1
<1>3. o \in ValuesOf(w, "owner")
  BY DEF ValuesOf, FlagColumns, OtherValues
<1> HIDE DEF n
<1>4. \A f \in cs : n[f] \in ValuesOf(w, f)
  BY <1>1, <1>2, <1>3
<1>5. n \in RowsOf(w, cs)
  BY <1>2, <1>4, RowIntro
<1> QED BY <1>2, <1>5 DEF n

(* And none of them is nil.                                                      *)
LEMMA RowThere ==
  ASSUME NEW w \in Workloads, NEW r
  PROVE  /\ r \in RowsOf(w, w.userColumns) => r # Nil
         /\ r \in RowsOf(w, w.tokenColumns \cup {"owner"}) => r # Nil
BY RowAssumption

--------------------------------------------------------------------------------
(* What the calls leave a mutation.                                              *)
LEMMA AssignOK ==
  ASSUME NEW w, NEW m, MutationOK(w, m), NEW f, NEW v \in ValuesOf(w, f)
  PROVE  MutationOK(w, Assign(m, f, v))
<1> DEFINE n == Assign(m, f, v)
<1>1. /\ DOMAIN n = MutationFields
      /\ n.typ = m.typ /\ n.op = m.op /\ n.id = m.id /\ n.cleared = m.cleared
      /\ n.added = m.added /\ n.edgeCleared = m.edgeCleared
      /\ DOMAIN n.value = DOMAIN m.value \cup {f} /\ n.value[f] = v
      /\ \A g \in DOMAIN m.value \ {f} : n.value[g] = m.value[g]
  BY DEF MutationOK, Assign, MutationFields, With, Over
<1> HIDE DEF n
<1>2. \A g \in DOMAIN n.value : n.value[g] \in ValuesOf(w, g)
  BY <1>1 DEF MutationOK
<1>3. MutationOK(w, n)
  BY <1>1, <1>2 DEF MutationOK
<1> QED BY <1>3 DEF n

(* A reset keeps a mutation well-formed.                                         *)
LEMMA ResetOK ==
  ASSUME NEW w, NEW m, MutationOK(w, m), NEW f
  PROVE  MutationOK(w, Reset(m, f))
BY DEF MutationOK, Reset, MutationFields, Restrict

(* So does a cleared column.                                                     *)
LEMMA ClearOK ==
  ASSUME NEW w, NEW m, MutationOK(w, m)
  PROVE  MutationOK(w, Clear(m, "revoked_at"))
BY DEF MutationOK, Clear, MutationFields, Restrict

(* And every method of the edges.                                                *)
LEMMA EdgesOK ==
  ASSUME NEW w, NEW m, MutationOK(w, m)
  PROVE  /\ \A ks : m.typ = "User" /\ ks \subseteq TokenIds => MutationOK(w, AddIDs(m, ks))
         /\ \A ks : MutationOK(w, RemoveIDs(m, ks))
         /\ MutationOK(w, ClearEdge(m)) /\ MutationOK(w, ResetEdge(m))
         /\ \A u \in UserIds : m.typ = "Token" => MutationOK(w, SetOwnerID(m, u))
         /\ MutationOK(w, ResetOwner(m))
         /\ \A is : MutationOK(w, Where(m, is))
<1>1. \A ks : m.typ = "User" /\ ks \subseteq TokenIds => MutationOK(w, AddIDs(m, ks))
  BY DEF MutationOK, AddIDs, MutationFields
<1>2. \A ks : MutationOK(w, RemoveIDs(m, ks))
  BY DEF MutationOK, RemoveIDs, MutationFields
<1>3. MutationOK(w, ClearEdge(m)) /\ MutationOK(w, ResetEdge(m)) /\ MutationOK(w, ResetOwner(m))
  BY DEF MutationOK, ClearEdge, ResetEdge, ResetOwner, MutationFields
<1>4. \A u \in UserIds : m.typ = "Token" => MutationOK(w, SetOwnerID(m, u))
  BY DEF MutationOK, SetOwnerID, MutationFields
<1>5. \A is : MutationOK(w, Where(m, is))
  BY DEF MutationOK, Where, MutationFields
<1> QED BY <1>1, <1>2, <1>3, <1>4, <1>5

--------------------------------------------------------------------------------
(* The invariant holds of the tables as they are found, before anyone comes.      *)
LEMMA GraphInit == Init => GraphInv
<1> SUFFICES ASSUME Init PROVE GraphInv
  OBVIOUS
<1>1. work \in Workloads /\ work.maxTime \in Nat /\ work.users \subseteq UserIds
  BY DEF Init
<1>2. PICK owner \in work.owners :
        tokens = [k \in TokenIds |->
                   IF k \in DOMAIN owner
                     THEN With([f \in TokenColumns |-> Seed(f, k)], "owner", owner[k]) ELSE Nil]
  BY DEF Init
<1>3. \A k \in DOMAIN owner : owner[k] \in work.users \cup {Nil}
  BY <1>1, <1>2 DEF Range
<1>4. ASSUME NEW i \in UserIds \cup TokenIds, NEW f PROVE Seed(f, i) \in ValuesOf(work, f)
  <2>1. {Nil, 0, i} \subseteq OtherValues(work)
    BY <1>1 DEF OtherValues
  <2>2. CASE f \in FlagColumns
    <3>1. Seed(f, i) = FALSE
      BY <2>2 DEF Seed, FlagColumns, TimeColumns
    <3> QED BY <2>2, <3>1 DEF ValuesOf
  <2>3. CASE f \notin FlagColumns
    <3>1. Seed(f, i) \in {Nil, 0, i}
      BY <2>3 DEF Seed
    <3> QED BY <2>1, <2>3, <3>1 DEF ValuesOf
  <2> QED BY <2>2, <2>3
<1>5. \A u \in UserIds : users[u] = IF u \in work.users THEN [f \in UserColumns |-> Seed(f, u)] ELSE Nil
  BY DEF Init
<1>6. ASSUME NEW u \in work.users PROVE users[u] \in RowsOf(work, UserColumns)
  <2> DEFINE r == [f \in UserColumns |-> Seed(f, u)]
  <2>1. r = [f \in UserColumns |-> r[f]] /\ \A f \in UserColumns : r[f] \in ValuesOf(work, f)
    BY <1>1, <1>4
  <2> HIDE DEF r
  <2>2. r \in RowsOf(work, UserColumns)
    BY <2>1, RowIntro
  <2> QED BY <1>1, <1>5, <2>2 DEF r
<1>7. ASSUME NEW k \in DOMAIN owner, k \in TokenIds
      PROVE  tokens[k] \in RowsOf(work, TokenColumns \cup {"owner"}) /\ tokens[k].owner = owner[k]
  <2> DEFINE cs == TokenColumns \cup {"owner"}
             r == With([f \in TokenColumns |-> Seed(f, k)], "owner", owner[k])
  <2>1. r = [f \in cs |-> IF f = "owner" THEN owner[k] ELSE Seed(f, k)]
    BY DEF With, Over
  <2>2. owner[k] \in ValuesOf(work, "owner")
    BY <1>1, <1>3 DEF ValuesOf, OtherValues, FlagColumns
  <2>3. r = [f \in cs |-> r[f]] /\ \A f \in cs : r[f] \in ValuesOf(work, f)
    BY <1>4, <1>7, <2>1, <2>2
  <2>4. r.owner = owner[k] /\ tokens[k] = r
    BY <1>2, <1>7, <2>1
  <2> HIDE DEF r, cs
  <2>5. r \in RowsOf(work, cs)
    BY <2>3, RowIntro
  <2> QED BY <2>4, <2>5 DEF cs
<1>8. TablesOK(work, users, tokens)
  <2>1. DOMAIN users = UserIds /\ DOMAIN tokens = TokenIds
    BY <1>2 DEF Init
  <2>2. \A u \in UserIds : users[u] \in RowsOf(work, UserColumns) \cup {Nil}
    BY <1>5, <1>6
  <2>3. \A u \in work.users : users[u] # Nil
    BY <1>1, <1>6, RowThere DEF UserColumns
  <2>4. \A k \in TokenIds : k \notin DOMAIN owner => tokens[k] = Nil
    BY <1>2
  <2>5. ASSUME NEW k \in TokenIds
        PROVE  /\ tokens[k] \in RowsOf(work, TokenColumns \cup {"owner"}) \cup {Nil}
               /\ tokens[k] # Nil /\ tokens[k].owner # Nil =>
                    tokens[k].owner \in UserIds /\ users[tokens[k].owner] # Nil
    BY <1>1, <1>3, <1>7, <2>3, <2>4
  <2> QED BY <2>1, <2>2, <2>5 DEF TablesOK, UserColumns, TokenColumns
<1>9. Globals
  BY <1>1, <1>8 DEF Init, Globals, Phases
<1>10. \A b \in Builders : BuilderInv(b)
  BY DEF Init, BuilderInv
<1> QED BY <1>9, <1>10 DEF GraphInv

(* What is not touched stays as it is; the clock may go on.                       *)
LEMMA StampedLater ==
  ASSUME NEW m, NEW calls, NEW phase, NEW from, NEW t \in Nat, NEW t2 \in Nat, t <= t2,
         Stamped(m, calls, phase, from, t)
  PROVE  Stamped(m, calls, phase, from, t2)
<1>1. 0..t \subseteq 0..t2
  OBVIOUS
<1>2. from # Nil => \A v \in from..t : v \in from..t2
  <2>1. from # Nil => from \in Int
    BY DEF Stamped
  <2> QED BY <2>1
<1> QED BY <1>1, <1>2 DEF Stamped

(* A builder that is not touched keeps what is true of it as time passes.        *)
LEMMA BuilderKept ==
  ASSUME GraphInv, NEW b \in Builders,
         mut'[b] = mut[b], log'[b] = log[b], pc'[b] = pc[b], since'[b] = since[b],
         past'[b] = past[b], told'[b] = told[b],
         UNCHANGED <<work, users, tokens>>, now' \in Nat, now <= now'
  PROVE  BuilderInv(b)'
<1>1. BuilderInv(b) /\ now \in Nat
  BY DEF GraphInv, Globals
<1>2. CASE pc[b] = "none"
  BY <1>1, <1>2 DEF BuilderInv
<1>3. CASE pc[b] # "none"
  <2>1. Stamped(mut'[b], log'[b], pc'[b], since'[b], now')
    BY <1>1, <1>3, StampedLater DEF BuilderInv
  <2>2. Current(b)'
    BY <1>1, <1>3 DEF BuilderInv, Current, Calls, Row
  <2> QED BY <1>1, <1>3, <2>1, <2>2 DEF BuilderInv
<1> QED BY <1>2, <1>3

(* A call on a builder keeps the invariant if it keeps the mutation in step.      *)
LEMMA EditsKeep ==
  ASSUME GraphInv, NEW b \in Builders, NEW c, NEW on, NEW arg, NEW m,
         Edits(b, c, on, arg, m), MutationOK(work, m),
         m.typ = mut[b].typ, m.op = mut[b].op, m.id = mut[b].id,
         m.done = mut[b].done, m.old = mut[b].old,
         \/ on = "updated_at"
         \/ /\ IsSet(m, "updated_at") <=> IsSet(mut[b], "updated_at")
            /\ IsSet(m, "updated_at") => m.value["updated_at"] = mut[b].value["updated_at"],
         FieldsReflect(m, Append(log[b], Entry(c, on, arg))),
         EdgesReflect(m, Append(log[b], Entry(c, on, arg))),
         WhereReflects(m, Append(log[b], Entry(c, on, arg)))
  PROVE  GraphInv'
<1> DEFINE L == Append(log[b], Entry(c, on, arg))
<1>1. /\ mut' = [mut EXCEPT ![b] = m] /\ log' = [log EXCEPT ![b] = L]
      /\ UNCHANGED <<work, users, tokens, now, cols, pc, res, since, past, told>>
      /\ pc[b] # "none"
  BY DEF Edits, tables, history
<1>2. Globals /\ \A d \in Builders : BuilderInv(d)
  BY DEF GraphInv
<1>3. mut'[b] = m /\ log'[b] = L /\ \A d \in Builders \ {b} : mut'[d] = mut[d] /\ log'[d] = log[d]
  BY <1>1, <1>2 DEF Globals
<1>4. Globals'
  BY <1>1, <1>2 DEF Globals
<1>5. ASSUME NEW d \in Builders \ {b} PROVE BuilderInv(d)'
  <2>1. now' \in Nat /\ now <= now'
    BY <1>1, <1>2 DEF Globals
  <2> QED BY <1>1, <1>3, <2>1, BuilderKept
<1>6. BuilderInv(b)'
  <2>1. IsLog(log[b]) /\ Stamped(mut[b], log[b], pc[b], since[b], now)
    BY <1>1, <1>2 DEF BuilderInv
  <2>2. IsLog(L) /\ L # << >>
    BY <2>1, Longer
  <2>3. Entry(c, on, arg).on = on
    BY DEF Entry
  <2>4. CallsOn(L, "updated_at") = {} => CallsOn(log[b], "updated_at") = {} /\ on # "updated_at"
    BY <2>1, <2>3, CallsAppended, NewCall
  <2> HIDE DEF L
  <2>5. Stamped(m, L, pc[b], since[b], now)
    BY <2>1, <2>4 DEF Stamped
  <2>6. OldKnown(m, past[b], told[b])
    BY <1>1, <1>2 DEF BuilderInv, OldKnown
  <2>7. Current(b)'
    BY <1>1, <1>2, <1>3 DEF BuilderInv, Current, Calls, Row
  <2>8. FieldsReflect(m, L) /\ EdgesReflect(m, L) /\ WhereReflects(m, L)
    BY DEF L
  <2> QED BY <1>1, <1>3, <2>2, <2>5, <2>6, <2>7, <2>8 DEF BuilderInv
<1> QED BY <1>4, <1>5, <1>6 DEF GraphInv

(* What is known of a builder at work.                                           *)
LEMMA AtWork ==
  ASSUME GraphInv, NEW b \in Builders, pc[b] # "none"
  PROVE  /\ work \in Workloads /\ UserColumns \cup TokenColumns \subseteq Fields
         /\ MutationOK(work, mut[b]) /\ DOMAIN mut[b] = MutationFields
         /\ IsLog(log[b]) /\ log[b] # << >>
         /\ FieldsReflect(mut[b], log[b]) /\ EdgesReflect(mut[b], log[b])
         /\ WhereReflects(mut[b], log[b])
         /\ Stamped(mut[b], log[b], pc[b], since[b], now)
         /\ OldKnown(mut[b], past[b], told[b]) /\ Current(b)
<1>1. work \in Workloads
  BY DEF GraphInv, Globals
<1>2. UserColumns \subseteq UserFields /\ TokenColumns \subseteq TokenFields
  BY <1>1 DEF UserColumns, TokenColumns
<1> QED BY <1>1, <1>2 DEF GraphInv, BuilderInv, MutationOK, Fields

(* The values the callers give are values of their fields.                        *)
LEMMA DomainValues ==
  ASSUME work \in Workloads, NEW f PROVE Domain(f) \subseteq ValuesOf(work, f)
<1>1. work.maxTime \in Nat
  OBVIOUS
<1>2. 0..work.maxTime \cup work.texts \subseteq OtherValues(work)
  BY DEF OtherValues
<1> QED BY <1>2 DEF Domain, ValuesOf, TimeColumns, FlagColumns

(* A setter keeps the invariant ...                                              *)
LEMMA SetKeeps ==
  ASSUME GraphInv, NEW b \in Builders, NEW c \in {"Set", "SetNillable"}, NEW f \in Fields,
         NEW v \in ValuesOf(work, f), Edits(b, c, f, v, Assign(mut[b], f, v))
  PROVE  GraphInv'
<1> DEFINE m == Assign(mut[b], f, v)
           e == Entry(c, f, v)
<1>1. pc[b] # "none"
  BY DEF Edits
<1>2. /\ m.typ = mut[b].typ /\ m.op = mut[b].op /\ m.id = mut[b].id
      /\ m.done = mut[b].done /\ m.old = mut[b].old /\ m.where = mut[b].where
      /\ m.added = mut[b].added /\ m.removed = mut[b].removed
      /\ m.edgeCleared = mut[b].edgeCleared
  BY <1>1, AtWork DEF Assign, MutationFields
<1>3. \/ f = "updated_at"
      \/ /\ IsSet(m, "updated_at") <=> IsSet(mut[b], "updated_at")
         /\ IsSet(m, "updated_at") => m.value["updated_at"] = mut[b].value["updated_at"]
  BY <1>1, AtWork DEF Assign, MutationFields, With, Over, IsSet
<1>4. e.on = f /\ e.call = c /\ f \notin {"edge", "ids"} /\ c \notin {"ResetEdge", "Reset"}
  BY DEF Entry, Fields, UserFields, TokenFields
<1>5. MutationOK(work, m)
  BY <1>1, AtWork, AssignOK
<1>6. FieldsReflect(m, Append(log[b], e))
  BY <1>1, <1>4, AtWork, FieldsSet
<1> HIDE DEF m
<1>7. EdgesReflect(m, Append(log[b], e))
  BY <1>1, <1>2, <1>4, AtWork, EdgesKept
<1>8. WhereReflects(m, Append(log[b], e))
  BY <1>1, <1>2, <1>4, AtWork, WhereKept
<1>9. Edits(b, c, f, v, m)
  BY DEF m
<1> QED BY <1>2, <1>3, <1>5, <1>6, <1>7, <1>8, <1>9, EditsKeep

(* ... so do ResetX and ClearRevokedAt ...                                       *)
LEMMA ResetsKeep ==
  ASSUME GraphInv, NEW b \in Builders, NEW f \in Fields, NEW c, NEW m,
         \/ c = "Reset" /\ m = Reset(mut[b], f)
         \/ c = "Clear" /\ f = "revoked_at" /\ m = Clear(mut[b], f),
         Edits(b, c, f, Nil, m)
  PROVE  GraphInv'
<1> DEFINE e == Entry(c, f, Nil)
<1>1. pc[b] # "none"
  BY DEF Edits
<1>2. /\ m.typ = mut[b].typ /\ m.op = mut[b].op /\ m.id = mut[b].id
      /\ m.done = mut[b].done /\ m.old = mut[b].old /\ m.where = mut[b].where
      /\ m.added = mut[b].added /\ m.removed = mut[b].removed
      /\ m.edgeCleared = mut[b].edgeCleared
  BY <1>1, AtWork DEF Reset, Clear, MutationFields
<1>3. \/ f = "updated_at"
      \/ /\ IsSet(m, "updated_at") <=> IsSet(mut[b], "updated_at")
         /\ IsSet(m, "updated_at") => m.value["updated_at"] = mut[b].value["updated_at"]
  <2>1. m.value = Restrict(mut[b].value, DOMAIN mut[b].value \ {f})
    BY <1>1, AtWork DEF Reset, Clear, MutationFields
  <2> QED BY <2>1 DEF Restrict, IsSet
<1>4. e.on = f /\ e.call = c /\ f \notin {"edge", "ids"} /\ c # "ResetEdge"
  BY DEF Entry, Fields, UserFields, TokenFields
<1>5. MutationOK(work, m)
  BY <1>1, AtWork, ResetOK, ClearOK
<1>6. FieldsReflect(m, Append(log[b], e))
  BY <1>1, AtWork, FieldsReset, FieldsCleared
<1>7. EdgesReflect(m, Append(log[b], e))
  BY <1>1, <1>2, <1>4, AtWork, EdgesKept
<1>8. WhereReflects(m, Append(log[b], e))
  BY <1>1, <1>2, <1>4, AtWork, WhereKept
<1> QED BY <1>2, <1>3, <1>5, <1>6, <1>7, <1>8, EditsKeep

(* ... the calls about the edge ...                                              *)
LEMMA EdgeCallsKeep ==
  ASSUME GraphInv, NEW b \in Builders, NEW c, NEW arg, NEW m, Edits(b, c, "edge", arg, m),
         \/ c = "Add" /\ mut[b].typ = "User" /\ arg \subseteq TokenIds /\ m = AddIDs(mut[b], arg)
         \/ c = "Remove" /\ mut[b].typ = "User" /\ m = RemoveIDs(mut[b], arg)
         \/ c = "ClearEdge" /\ arg = Nil /\ m = ClearEdge(mut[b])
         \/ c = "SetOwner" /\ mut[b].typ = "Token" /\ arg \in UserIds /\ m = SetOwnerID(mut[b], arg)
         \/ c = "ResetEdge" /\ arg = Nil /\ mut[b].typ = "User" /\ m = ResetEdge(mut[b])
         \/ c = "ResetEdge" /\ arg = Nil /\ mut[b].typ = "Token" /\ m = ResetOwner(mut[b])
  PROVE  GraphInv'
<1> DEFINE e == Entry(c, "edge", arg)
<1>1. pc[b] # "none"
  BY DEF Edits
<1>2. /\ m.typ = mut[b].typ /\ m.op = mut[b].op /\ m.id = mut[b].id
      /\ m.done = mut[b].done /\ m.old = mut[b].old /\ m.where = mut[b].where
      /\ m.value = mut[b].value /\ m.cleared = mut[b].cleared
  BY <1>1, AtWork DEF AddIDs, RemoveIDs, ClearEdge, SetOwnerID, ResetEdge, ResetOwner, MutationFields
<1>3. e.on = "edge" /\ "edge" \notin Fields
  BY DEF Entry, Fields, UserFields, TokenFields
<1>4. MutationOK(work, m)
  <2>1. MutationOK(work, mut[b])
    BY <1>1, AtWork
  <2> QED BY <2>1, EdgesOK
<1>5. FieldsReflect(m, Append(log[b], e))
  BY <1>1, <1>2, <1>3, AtWork, FieldsKept
<1>6. EdgesReflect(m, Append(log[b], e))
  BY <1>1, AtWork, EdgesAdded, EdgesRemoved, EdgesCleared, EdgesOwned, EdgesReset
<1>7. WhereReflects(m, Append(log[b], e))
  BY <1>1, <1>2, <1>3, AtWork, WhereKept
<1>8. IsSet(m, "updated_at") <=> IsSet(mut[b], "updated_at")
  BY <1>2 DEF IsSet
<1> QED BY <1>2, <1>4, <1>5, <1>6, <1>7, <1>8, EditsKeep

(* ... Where ...                                                                 *)
LEMMA WhereKeeps ==
  ASSUME GraphInv, NEW b \in Builders, NEW is, AddWhere(b, is)
  PROVE  GraphInv'
<1> DEFINE e == Entry("Where", "ids", is)
           m == Where(mut[b], is)
<1>1. pc[b] # "none" /\ Edits(b, "Where", "ids", is, m)
  BY DEF AddWhere
<1>2. /\ m.typ = mut[b].typ /\ m.op = mut[b].op /\ m.id = mut[b].id
      /\ m.done = mut[b].done /\ m.old = mut[b].old
      /\ m.value = mut[b].value /\ m.cleared = mut[b].cleared
      /\ m.added = mut[b].added /\ m.removed = mut[b].removed
      /\ m.edgeCleared = mut[b].edgeCleared
  BY <1>1, AtWork DEF Where, MutationFields
<1>3. e.on = "ids" /\ "ids" \notin Fields /\ e.call # "ResetEdge"
  BY DEF Entry, Fields, UserFields, TokenFields
<1>4. MutationOK(work, m)
  BY <1>1, AtWork, EdgesOK
<1>5. WhereReflects(m, Append(log[b], e))
  BY <1>1, AtWork, WhereAdded
<1> HIDE DEF m
<1>6. FieldsReflect(m, Append(log[b], e))
  BY <1>1, <1>2, <1>3, AtWork, FieldsKept
<1>7. EdgesReflect(m, Append(log[b], e))
  BY <1>1, <1>2, <1>3, AtWork, EdgesKept
<1>8. IsSet(m, "updated_at") <=> IsSet(mut[b], "updated_at")
  BY <1>2 DEF IsSet
<1> QED BY <1>1, <1>2, <1>4, <1>5, <1>6, <1>7, <1>8, EditsKeep

(* ... and a pointer that is nil.                                                *)
LEMMA NothingKeeps ==
  ASSUME GraphInv, NEW b \in Builders, Edits(b, "SetNillable", "nothing", Nil, mut[b])
  PROVE  GraphInv'
<1> DEFINE e == Entry("SetNillable", "nothing", Nil)
<1>1. pc[b] # "none"
  BY DEF Edits
<1>2. e.on \notin Fields /\ e.on \notin {"edge", "ids"} /\ e.call # "ResetEdge"
  BY DEF Entry, Fields, UserFields, TokenFields
<1> HIDE DEF e
<1>3. FieldsReflect(mut[b], Append(log[b], e)) /\ EdgesReflect(mut[b], Append(log[b], e))
  BY <1>1, <1>2, AtWork, FieldsKept, EdgesKept
<1>4. WhereReflects(mut[b], Append(log[b], e)) /\ MutationOK(work, mut[b])
  BY <1>1, <1>2, AtWork, WhereKept
<1> QED BY <1>3, <1>4, EditsKeep DEF e

(* When one builder moves and the tables and the clock do not, it is that builder *)
(* that has to be looked at.                                                     *)
LEMMA OneMoves ==
  ASSUME GraphInv, NEW b \in Builders, UNCHANGED <<work, users, tokens, now>>,
         pc' \in [Builders -> Phases], DOMAIN res' = Builders, DOMAIN cols' = Builders,
         DOMAIN mut' = Builders, DOMAIN log' = Builders, DOMAIN since' = Builders,
         DOMAIN past' = Builders, DOMAIN told' = Builders,
         \A d \in Builders \ {b} :
           /\ mut'[d] = mut[d] /\ log'[d] = log[d] /\ pc'[d] = pc[d]
           /\ since'[d] = since[d] /\ past'[d] = past[d] /\ told'[d] = told[d],
         BuilderInv(b)'
  PROVE  GraphInv'
<1>1. Globals'
  BY DEF GraphInv, Globals
<1>2. ASSUME NEW d \in Builders \ {b} PROVE BuilderInv(d)'
  <2>1. now' \in Nat /\ now <= now'
    BY DEF GraphInv, Globals
  <2> QED BY <2>1, BuilderKept
<1> QED BY <1>1, <1>2 DEF GraphInv

(* A log with one call has nothing to say about fields and edges.                 *)
LEMMA FirstCall ==
  ASSUME NEW e, e.on \notin Fields \cup {"edge", "ids"}
  PROVE  /\ IsLog(<<e>>) /\ <<e>> # << >> /\ <<e>>[1] = e
         /\ \A f \in Fields \cup {"edge", "ids"} : CallsOn(<<e>>, f) = {}
         /\ \A c : EdgeCalls(<<e>>, c) = {}
         /\ \A k : LastEdge(<<e>>, k) = "none"
<1>1. <<e>> \in Seq({e}) /\ DOMAIN <<e>> = {1} /\ <<e>>[1] = e
  OBVIOUS
<1>2. \A f \in Fields \cup {"edge", "ids"} : CallsOn(<<e>>, f) = {}
  BY <1>1 DEF CallsOn
<1>3. SinceReset(<<e>>) = {}
  BY <1>2 DEF SinceReset
<1> QED BY <1>1, <1>2, <1>3 DEF IsLog, EdgeCalls, LastEdge

(* A builder that is opened has a mutation that says nothing yet.                 *)
LEMMA OpenKeeps ==
  ASSUME GraphInv, NEW b \in Builders, NEW typ \in {"User", "Token"},
         NEW how \in {"Update", "UpdateOneID", "UpdateOne", "Delete", "DeleteOneID"},
         NEW op \in Updates \cup Deletes, NEW id \in IdsOf(typ) \cup {Nil}, NEW is, NEW old,
         Open(b, typ, how, op, id, is, old),
         op = "UpdateOne" => id # Nil,
         is = IF op = "DeleteOne" THEN {id} ELSE IdsOf(typ),
         op \in {"Update", "Delete"} <=> id = Nil,
         old = Nil \/ (id \in Stored(typ) /\ old = Row(typ, id))
  PROVE  GraphInv'
<1> DEFINE m == mut'[b]
           e == Entry("Open", how, id)
<1>1. Globals /\ BuilderInv(b) /\ pc[b] = "none"
  BY DEF GraphInv, Open
<1>2. /\ m = [NewMutation(typ, op, id, is) EXCEPT !.old = old] /\ log'[b] = <<e>>
      /\ pc'[b] = "building" /\ pc' \in [Builders -> Phases]
      /\ past'[b] = IF id \in Stored(typ) THEN {Row(typ, id)} ELSE {}
      /\ since'[b] = Nil /\ told'[b] = {}
      /\ UNCHANGED <<work, users, tokens, now, res, cols, since, told>>
      /\ DOMAIN mut' = Builders /\ DOMAIN log' = Builders /\ DOMAIN past' = Builders
  BY <1>1 DEF Open, Globals, BuilderInv, Phases, tables
<1>3. \A d \in Builders \ {b} :
        mut'[d] = mut[d] /\ log'[d] = log[d] /\ pc'[d] = pc[d] /\ past'[d] = past[d]
  BY <1>1 DEF Open, Globals
<1>4. /\ DOMAIN m = MutationFields
      /\ m.typ = typ /\ m.op = op /\ m.id = id /\ m.where = is /\ m.old = old
      /\ m.value = Nothing /\ m.cleared = {} /\ m.added = {} /\ m.removed = {}
      /\ m.edgeCleared = FALSE /\ m.done = FALSE
  BY <1>2 DEF NewMutation, MutationFields
<1>5. DOMAIN m.value = {}
  BY <1>4 DEF Nothing
<1>6. e.on = how /\ e.arg = id /\ e.on \notin Fields \cup {"edge", "ids"}
  BY DEF Entry, Fields, UserFields, TokenFields
<1> HIDE DEF m, e
<1>7. MutationOK(work, m)
  BY <1>4, <1>5 DEF MutationOK
<1>8. FieldsReflect(m, <<e>>)
  BY <1>4, <1>5, <1>6, FirstCall DEF FieldsReflect, FieldReflects, AskedFor
<1>9. EdgesReflect(m, <<e>>)
  BY <1>4, <1>6, FirstCall DEF EdgesReflect, UserEdgesReflect, TokenEdgeReflects
<1>10. WhereReflects(m, <<e>>)
  <2>1. \A i : Admits(<<e>>, i) <=> id \in {Nil, i}
    BY <1>6, FirstCall DEF Admits
  <2>2. \A i \in IdsOf(typ) : i # Nil
    BY DEF IdsOf
  <2>3. \A i \in IdsOf(typ) : Admitted(m, i) <=> id \in {Nil, i}
    BY <1>4, <2>2 DEF Admitted, Updates, Deletes
  <2> QED BY <1>4, <1>6, <2>1, <2>3, FirstCall DEF WhereReflects
<1>11. Stamped(m, <<e>>, "building", Nil, now)
  BY <1>4, <1>5 DEF Stamped, IsSet
<1>12. OldKnown(m, past'[b], {})
  BY <1>2, <1>4 DEF OldKnown
<1>13. Current(b)'
  <2>1. id # Nil => Row(typ, id) \in past'[b] \cup {Nil}
    BY <1>2 DEF Stored
  <2>2. (Row(typ, id))' = Row(typ, id)
    BY <1>2 DEF Row
  <2> QED BY <1>4, <2>1, <2>2 DEF Current, Row, m
<1>14. BuilderInv(b)'
  BY <1>2, <1>6, <1>7, <1>8, <1>9, <1>10, <1>11, <1>12, <1>13, FirstCall DEF BuilderInv, m
<1> QED BY <1>1, <1>2, <1>3, <1>14, OneMoves DEF Globals

(* Select is a call like another.                                                *)
LEMMA SelectKeeps ==
  ASSUME GraphInv, NEW b \in Builders, NEW valid, Select(b, valid)
  PROVE  GraphInv'
<1> DEFINE e == Entry("Select", "cols", valid)
           m == mut[b]
           L == log[b]
<1>1. /\ pc[b] = "building" /\ log' = [log EXCEPT ![b] = Append(L, e)]
      /\ cols' = [cols EXCEPT ![b] = valid]
      /\ UNCHANGED <<work, users, tokens, now, mut, pc, res, since, past, told>>
  BY DEF Select, tables, history
<1>2. Globals
  BY DEF GraphInv
<1>3. e.on \notin Fields \cup {"edge", "ids"} /\ e.call # "ResetEdge"
  BY DEF Entry, Fields, UserFields, TokenFields
<1> HIDE DEF e
<1>4. FieldsReflect(m, Append(L, e)) /\ EdgesReflect(m, Append(L, e))
  BY <1>1, <1>3, AtWork, FieldsKept, EdgesKept
<1>5. WhereReflects(m, Append(L, e)) /\ MutationOK(work, m)
  BY <1>1, <1>3, AtWork, WhereKept
<1>6. IsLog(Append(L, e)) /\ Append(L, e) # << >>
  BY <1>1, AtWork, Longer
<1>7. CallsOn(Append(L, e), "updated_at") = CallsOn(L, "updated_at")
  <2>1. IsLog(L) /\ e.on # "updated_at"
    BY <1>1, <1>3, AtWork DEF Fields, UserFields
  <2> QED BY <2>1, OtherCall
<1>8. Stamped(m, Append(L, e), pc[b], since[b], now)
  BY <1>1, <1>7, AtWork DEF Stamped
<1>9. Current(b)' /\ OldKnown(m, past[b], told[b])
  BY <1>1, AtWork DEF Current, Calls, Row
<1>10. BuilderInv(b)'
  BY <1>1, <1>2, <1>4, <1>5, <1>6, <1>8, <1>9 DEF BuilderInv, Globals
<1> QED BY <1>1, <1>2, <1>10, OneMoves DEF Globals

(* A mutation that differs in nothing but its old node, and whether it is done, is *)
(* as much in step.                                                              *)
LEMMA ReflectsSame ==
  ASSUME NEW w, NEW m, NEW n, NEW L, NEW phase, NEW from, NEW t,
         DOMAIN n = DOMAIN m,
         n.typ = m.typ, n.op = m.op, n.id = m.id, n.where = m.where, n.value = m.value,
         n.cleared = m.cleared, n.added = m.added, n.removed = m.removed,
         n.edgeCleared = m.edgeCleared
  PROVE  /\ MutationOK(w, m) => MutationOK(w, n)
         /\ FieldsReflect(m, L) => FieldsReflect(n, L)
         /\ EdgesReflect(m, L) => EdgesReflect(n, L)
         /\ WhereReflects(m, L) => WhereReflects(n, L)
         /\ Stamped(m, L, phase, from, t) => Stamped(n, L, phase, from, t)
<1>1. MutationOK(w, m) => MutationOK(w, n)
  BY DEF MutationOK
<1>2. \A f : FieldReflects(n, L, f) <=> FieldReflects(m, L, f)
  BY DEF FieldReflects
<1>3. FieldsReflect(m, L) => FieldsReflect(n, L)
  BY <1>2 DEF FieldsReflect
<1>4. UserEdgesReflect(n, L) <=> UserEdgesReflect(m, L)
  BY DEF UserEdgesReflect
<1>5. TokenEdgeReflects(n, L) <=> TokenEdgeReflects(m, L)
  BY DEF TokenEdgeReflects
<1>6. EdgesReflect(m, L) => EdgesReflect(n, L)
  BY <1>4, <1>5 DEF EdgesReflect
<1>7. \A i : Admitted(n, i) <=> Admitted(m, i)
  BY DEF Admitted
<1>8. WhereReflects(m, L) => WhereReflects(n, L)
  BY <1>7 DEF WhereReflects
<1>9. Stamped(m, L, phase, from, t) => Stamped(n, L, phase, from, t)
  BY DEF Stamped, IsSet
<1> QED BY <1>1, <1>3, <1>6, <1>8, <1>9

(* OldX fetches a version that there was.                                        *)
LEMMA OldKeeps ==
  ASSUME GraphInv, NEW b \in Builders, NEW f, Old(b, f)
  PROVE  GraphInv'
<1> DEFINE m == mut[b]
<1>1. Globals /\ pc[b] # "none"
  BY DEF GraphInv, Old
<1>0. PICK row \in {Row(m.typ, m.id), Nil} : mut' = [mut EXCEPT ![b] = FetchOld(m, row)]
  BY <1>1 DEF Old, Globals
<1> DEFINE n == FetchOld(m, row)
           p == <<f, OldValue(n, f)>>
<1>2. /\ mut' = [mut EXCEPT ![b] = n] /\ told' = [told EXCEPT ![b] = @ \cup {p}]
      /\ UNCHANGED <<work, users, tokens, now, cols, pc, res, log, since, past>>
      /\ "Old" \in Calls /\ m.id # Nil
  BY <1>0, <1>1 DEF Old, tables, Globals, OldAllowed
<1>3. /\ DOMAIN n = MutationFields
      /\ n.typ = m.typ /\ n.op = m.op /\ n.id = m.id /\ n.where = m.where
      /\ n.value = m.value /\ n.cleared = m.cleared /\ n.added = m.added
      /\ n.removed = m.removed /\ n.edgeCleared = m.edgeCleared /\ n.done = m.done
      /\ n.old = IF m.old # Nil THEN m.old
                 ELSE IF m.done \/ row = Nil THEN Failed ELSE Row(m.typ, m.id)
  BY <1>0, <1>1, AtWork DEF FetchOld, MutationFields
<1>4. p[1] = f /\ p[2] = IF n.old = Failed THEN Failed ELSE n.old[f]
  BY DEF OldValue
<1> HIDE DEF n, p
<1>5. OldKnown(n, past[b], told[b] \cup {p})
  <2>1. OldKnown(m, past[b], told[b]) /\ Current(b)
    BY <1>1, AtWork
  <2>2. n.old # Nil
    BY <1>3
  <2>3. n.old \notin {Nil, Failed} => n.old \in past[b]
    BY <1>2, <1>3, <2>1 DEF OldKnown, Current
  <2>4. \A q \in told[b] : n.old = m.old /\ (q[2] # Failed => m.old # Failed /\ q[2] = m.old[q[1]])
    BY <1>3, <2>1 DEF OldKnown
  <2> QED BY <1>4, <2>2, <2>3, <2>4 DEF OldKnown
<1>6. DOMAIN m = MutationFields /\ MutationOK(work, m) /\ Stamped(m, log[b], pc[b], since[b], now)
  BY <1>1, AtWork
<1>7. FieldsReflect(m, log[b]) /\ EdgesReflect(m, log[b]) /\ WhereReflects(m, log[b])
  BY <1>1, AtWork
<1>8. /\ MutationOK(work, n) /\ Stamped(n, log[b], pc[b], since[b], now)
      /\ FieldsReflect(n, log[b]) /\ EdgesReflect(n, log[b]) /\ WhereReflects(n, log[b])
  BY <1>3, <1>6, <1>7, ReflectsSame
<1>9. Current(b)'
  BY <1>1, <1>2, <1>3, AtWork DEF Current, Calls, Row, Globals
<1>10. BuilderInv(b)'
  BY <1>1, <1>2, <1>5, <1>8, <1>9, AtWork DEF BuilderInv, Globals
<1> QED BY <1>1, <1>2, <1>10, OneMoves DEF Globals

--------------------------------------------------------------------------------
(* A Save begins: from then on an update has its stamp.                          *)
LEMMA BeginsKeeps ==
  ASSUME GraphInv, NEW b \in Builders, pc[b] = "building", NEW m, Begins(b, m),
         m = IF mut[b].typ = "User" /\ mut[b].op \in Updates THEN Defaults(mut[b]) ELSE mut[b]
  PROVE  GraphInv'
<1> DEFINE e == Entry("Save", "save", Nil)
           L == log[b]
           first == IF since[b] = Nil THEN now ELSE since[b]
<1>1. Globals /\ now \in Nat
  BY DEF GraphInv, Globals
<1>2. /\ mut'[b] = m /\ log'[b] = Append(L, e) /\ pc'[b] = "hooks" /\ since'[b] = first
      /\ UNCHANGED <<work, users, tokens, now, cols, res, past, told>>
      /\ pc' \in [Builders -> Phases]
      /\ DOMAIN mut' = Builders /\ DOMAIN log' = Builders /\ DOMAIN since' = Builders
      /\ \A d \in Builders \ {b} :
           mut'[d] = mut[d] /\ log'[d] = log[d] /\ pc'[d] = pc[d] /\ since'[d] = since[d]
  BY <1>1 DEF Begins, tables, Globals, Phases
<1>3. e.on \notin Fields \cup {"edge", "ids"} /\ e.call # "ResetEdge"
  BY DEF Entry, Fields, UserFields, TokenFields
<1> HIDE DEF e
<1>4. /\ MutationOK(work, mut[b]) /\ DOMAIN mut[b] = MutationFields
      /\ IsLog(L) /\ L # << >> /\ FieldsReflect(mut[b], L) /\ EdgesReflect(mut[b], L)
      /\ WhereReflects(mut[b], L) /\ Stamped(mut[b], L, "building", since[b], now)
      /\ OldKnown(mut[b], past[b], told[b]) /\ Current(b) /\ work \in Workloads
  BY AtWork
<1>5. /\ m.typ = mut[b].typ /\ m.op = mut[b].op /\ m.id = mut[b].id /\ m.where = mut[b].where
      /\ m.added = mut[b].added /\ m.removed = mut[b].removed
      /\ m.edgeCleared = mut[b].edgeCleared /\ m.old = mut[b].old /\ m.done = mut[b].done
  BY <1>4 DEF Defaults, Assign, MutationFields
<1>6. MutationOK(work, m)
  <2>1. now \in ValuesOf(work, "updated_at")
    BY <1>1 DEF Globals, ValuesOf, FlagColumns, OtherValues
  <2> QED BY <1>4, <2>1, AssignOK DEF Defaults
<1>7. FieldsReflect(m, L)
  <2>1. mut[b].cleared \subseteq {"revoked_at"}
    BY <1>4 DEF MutationOK
  <2> QED BY <1>4, <2>1, FieldsDefault
<1>8. /\ FieldsReflect(m, Append(L, e)) /\ EdgesReflect(m, Append(L, e))
      /\ WhereReflects(m, Append(L, e))
  BY <1>3, <1>4, <1>5, <1>7, FieldsKept, EdgesKept, WhereKept
<1>9. IsLog(Append(L, e)) /\ Append(L, e) # << >>
  BY <1>4, Longer
<1>10. Stamped(m, Append(L, e), "hooks", first, now)
  <2>1. CallsOn(Append(L, e), "updated_at") = CallsOn(L, "updated_at")
    <3>1. e.on # "updated_at"
      BY <1>3 DEF Fields, UserFields
    <3> QED BY <1>4, <3>1, OtherCall
  <2>2. first # Nil /\ first \in 0..now
    BY <1>1, <1>4 DEF Stamped
  <2>3. CASE m.typ = "User" /\ m.op \in Updates /\ CallsOn(L, "updated_at") = {}
    <3>1. CASE IsSet(mut[b], "updated_at")
      BY <1>4, <1>5, <2>1, <2>2, <2>3, <3>1 DEF Stamped, Defaults, Updates, Deletes
    <3>2. CASE ~IsSet(mut[b], "updated_at")
      <4>1. since[b] = Nil
        BY <1>4, <1>5, <2>3, <3>2 DEF Stamped
      <4>2. IsSet(m, "updated_at") /\ m.value["updated_at"] = now
        BY <1>4, <1>5, <2>3, <3>2 DEF Defaults, Assign, With, Over, IsSet, MutationFields
      <4> QED BY <2>1, <2>2, <2>3, <4>1, <4>2 DEF Stamped, Updates, Deletes
    <3> QED BY <3>1, <3>2
  <2>4. CASE m.typ = "User" /\ m.op \notin Updates /\ CallsOn(L, "updated_at") = {}
    BY <1>4, <1>5, <2>1, <2>2, <2>4 DEF Stamped
  <2>5. CASE m.typ # "User" \/ CallsOn(L, "updated_at") # {}
    BY <2>1, <2>2, <2>5 DEF Stamped
  <2> QED BY <2>3, <2>4, <2>5
<1>11. OldKnown(m, past[b], told[b])
  BY <1>4, <1>5 DEF OldKnown
<1>12. Current(b)'
  BY <1>2, <1>4, <1>5 DEF Current, Calls, Row
<1>13. BuilderInv(b)'
  BY <1>2, <1>6, <1>8, <1>9, <1>10, <1>11, <1>12 DEF BuilderInv
<1> QED BY <1>1, <1>2, <1>13, OneMoves DEF Globals

(* A hook that refuses gives the builder back, or ends it.                       *)
LEMMA LeavesStamped ==
  ASSUME NEW m, NEW L, NEW phase \in {"hooks", "redirected"}, NEW from, NEW t,
         Stamped(m, L, phase, from, t)
  PROVE  Stamped(m, L, IF phase = "redirected" THEN "spent" ELSE "building", from, t)
BY DEF Stamped

(* A hook that refuses its builder.                                              *)
LEMMA RefusesKeeps ==
  ASSUME GraphInv, NEW b \in Builders, HookRefuses(b)
  PROVE  GraphInv'
<1>1. Globals /\ pc[b] \in {"hooks", "redirected"}
  BY DEF GraphInv, HookRefuses
<1>2. /\ pc'[b] = (IF pc[b] = "redirected" THEN "spent" ELSE "building") /\ pc'[b] # "none"
      /\ UNCHANGED <<work, users, tokens, now, mut, cols, log, since, past, told>>
      /\ pc' \in [Builders -> Phases] /\ DOMAIN res' = Builders
      /\ \A d \in Builders \ {b} : pc'[d] = pc[d]
  BY <1>1 DEF HookRefuses, Leaves, tables, history, Globals, Phases
<1>3. Stamped(mut[b], log[b], pc'[b], since[b], now)
  BY <1>1, <1>2, AtWork, LeavesStamped
<1>4. Current(b)'
  BY <1>1, <1>2, AtWork DEF Current, Calls, Row
<1>5. BuilderInv(b)'
  BY <1>1, <1>2, <1>3, <1>4, AtWork DEF BuilderInv
<1> QED BY <1>1, <1>2, <1>5, OneMoves DEF Globals

(* A hook makes a deletion an update, which is stamped then and there.            *)
LEMMA MutateKeeps ==
  ASSUME GraphInv, NEW b \in Builders, NEW f \in Fields, NEW v \in ValuesOf(work, f), Mutate(b, f, v)
  PROVE  GraphInv'
<1> DEFINE o == mut[b]
           u == [o EXCEPT !.op = "Update"]
           m == Assign(u, f, v)
           n == IF m.typ = "User" THEN Defaults(m) ELSE m
           e == Entry("Set", f, v)
           L == log[b]
<1>1. Globals /\ now \in Nat /\ pc[b] = "hooks" /\ o.op \in Deletes
  BY DEF GraphInv, Globals, Mutate, Deletes
<1>2. /\ mut'[b] = n /\ log'[b] = Append(L, e) /\ pc'[b] = "redirected"
      /\ UNCHANGED <<work, users, tokens, now, cols, res, since, past, told>>
      /\ pc' \in [Builders -> Phases]
      /\ DOMAIN mut' = Builders /\ DOMAIN log' = Builders
      /\ \A d \in Builders \ {b} : mut'[d] = mut[d] /\ log'[d] = log[d] /\ pc'[d] = pc[d]
  BY <1>1 DEF Mutate, tables, history, Globals, Phases
<1>3. e.on = f /\ e.call = "Set" /\ f \notin {"edge", "ids"}
  BY DEF Entry, Fields, UserFields, TokenFields
<1>4. /\ MutationOK(work, o) /\ DOMAIN o = MutationFields
      /\ IsLog(L) /\ L # << >> /\ FieldsReflect(o, L) /\ EdgesReflect(o, L)
      /\ WhereReflects(o, L) /\ Stamped(o, L, "hooks", since[b], now)
      /\ OldKnown(o, past[b], told[b]) /\ Current(b) /\ work \in Workloads
  BY <1>1, AtWork
<1>5. /\ DOMAIN u = MutationFields /\ u.typ = o.typ /\ u.op = "Update" /\ u.id = o.id
      /\ u.where = o.where /\ u.added = o.added /\ u.removed = o.removed /\ u.value = o.value
      /\ u.cleared = o.cleared /\ u.edgeCleared = o.edgeCleared /\ u.old = o.old /\ u.done = o.done
  BY <1>4 DEF MutationFields
<1> HIDE DEF u
<1>6. MutationOK(work, u)
  BY <1>4, <1>5 DEF MutationOK, Updates
<1>7. FieldsReflect(u, L)
  <2>1. \A g : FieldReflects(u, L, g) <=> FieldReflects(o, L, g)
    BY <1>5 DEF FieldReflects
  <2> QED BY <1>4, <2>1 DEF FieldsReflect
<1>8. /\ DOMAIN m = MutationFields /\ m.typ = u.typ /\ m.op = u.op /\ m.id = u.id
      /\ m.where = u.where /\ m.added = u.added /\ m.removed = u.removed
      /\ m.cleared = u.cleared /\ m.edgeCleared = u.edgeCleared /\ m.old = u.old /\ m.done = u.done
      /\ m.value = With(u.value, f, v)
  BY <1>5 DEF MutationFields, Assign
<1>9. MutationOK(work, m) /\ FieldsReflect(m, Append(L, e))
  BY <1>4, <1>5, <1>6, <1>7, AssignOK, FieldsSet
<1> HIDE DEF m, e
<1>10. /\ n.typ = m.typ /\ n.op = m.op /\ n.id = m.id
       /\ n.where = m.where /\ n.added = m.added /\ n.removed = m.removed
       /\ n.edgeCleared = m.edgeCleared /\ n.old = m.old /\ n.done = m.done
       /\ MutationOK(work, n)
  <2>1. now \in ValuesOf(work, "updated_at")
    BY <1>1 DEF Globals, ValuesOf, FlagColumns, OtherValues
  <2>2. MutationOK(work, n)
    BY <1>9, <2>1, AssignOK DEF Defaults
  <2> QED BY <1>8, <2>2 DEF Defaults, Assign, MutationFields
<1>11. FieldsReflect(n, Append(L, e))
  <2>1. m.cleared \subseteq {"revoked_at"}
    BY <1>9 DEF MutationOK
  <2> QED BY <1>8, <1>9, <2>1, FieldsDefault
<1>12. Stamped(n, Append(L, e), "redirected", since[b], now)
  <2>1. since[b] # Nil /\ since[b] \in 0..now
    BY <1>4 DEF Stamped
  <2>2. ASSUME n.typ = "User", CallsOn(Append(L, e), "updated_at") = {}
        PROVE  IsSet(n, "updated_at") /\ n.value["updated_at"] \in since[b]..now
    <3>1. f # "updated_at" /\ CallsOn(L, "updated_at") = {}
      BY <1>3, <1>4, <2>2, NewCall, OtherCall
    <3>2. ~IsSet(o, "updated_at")
      BY <1>1, <1>4, <1>5, <1>8, <1>10, <2>2, <3>1 DEF Stamped
    <3>3. ~IsSet(m, "updated_at")
      BY <1>5, <1>8, <3>1, <3>2 DEF IsSet, With, Over
    <3>4. IsSet(n, "updated_at") /\ n.value["updated_at"] = now
      BY <1>8, <1>10, <2>2, <3>3 DEF Defaults, Assign, With, Over, IsSet, MutationFields
    <3>5. now \in since[b]..now
      BY <1>1, <2>1
    <3> QED BY <3>4, <3>5
  <2> QED BY <2>1, <2>2 DEF Stamped
<1> HIDE DEF n
<1>13. EdgesReflect(n, Append(L, e)) /\ WhereReflects(n, Append(L, e))
  <2>1. /\ n.typ = o.typ /\ n.id = o.id /\ n.where = o.where /\ n.added = o.added
        /\ n.removed = o.removed /\ n.edgeCleared = o.edgeCleared
        /\ n.op # "UpdateOne" /\ o.op # "UpdateOne"
    BY <1>1, <1>5, <1>8, <1>10 DEF Deletes
  <2> QED BY <1>3, <1>4, <2>1, EdgesKept, WhereKept
<1>14. IsLog(Append(L, e)) /\ Append(L, e) # << >>
  BY <1>4, Longer
<1>15. OldKnown(n, past[b], told[b])
  BY <1>4, <1>5, <1>8, <1>10 DEF OldKnown
<1>16. Current(b)'
  BY <1>2, <1>4, <1>5, <1>8, <1>10 DEF Current, Calls, Row
<1>17. BuilderInv(b)'
  BY <1>2, <1>10, <1>11, <1>12, <1>13, <1>14, <1>15, <1>16 DEF BuilderInv
<1> QED BY <1>1, <1>2, <1>17, OneMoves DEF Globals

(* A save that ends: the tables are others, and the builders know.                *)
LEMMA EndsKeeps ==
  ASSUME GraphInv, NEW b \in Builders, pc[b] \in {"hooks", "redirected"},
         NEW answer, NEW us, NEW ks, Ends(b, answer, us, ks), TablesOK(work, us, ks)
  PROVE  GraphInv'
<1>1. Globals
  BY DEF GraphInv
<1>2. /\ UNCHANGED <<work, now, cols, log, since, told>>
      /\ pc' \in [Builders -> Phases] /\ DOMAIN res' = Builders
      /\ DOMAIN mut' = Builders /\ DOMAIN past' = Builders
      /\ \A d \in Builders : pc'[d] = IF d # b THEN pc[d]
                                       ELSE IF pc[d] = "redirected" THEN "spent" ELSE "building"
      /\ \A d \in Builders \ {b} : mut'[d] = mut[d]
  BY <1>1 DEF Ends, Leaves, Globals, Phases
<1>3. TablesOK(work, users, tokens)'
  BY <1>1, <1>2 DEF Ends, Globals
<1>4. Globals'
  BY <1>1, <1>2, <1>3 DEF Globals
<1>5. ASSUME NEW d \in Builders PROVE BuilderInv(d)'
  <2>1. CASE pc[d] = "none"
    BY <1>2, <2>1 DEF GraphInv, BuilderInv
  <2>2. CASE pc[d] # "none"
    <3> DEFINE m == mut[d]
               n == mut'[d]
    <3>1. DOMAIN m = MutationFields /\ MutationOK(work, m)
      BY <2>2, AtWork
    <3>2. /\ DOMAIN n = DOMAIN m
          /\ n.typ = m.typ /\ n.op = m.op /\ n.id = m.id /\ n.where = m.where
          /\ n.value = m.value /\ n.cleared = m.cleared /\ n.added = m.added
          /\ n.removed = m.removed /\ n.edgeCleared = m.edgeCleared /\ n.old = m.old
          /\ ~n.done => ~m.done
      BY <1>1, <1>2, <3>1 DEF Ends, Globals, MutationFields
    <3>3. pc'[d] # "none"
      BY <1>2, <2>2
    <3>4. past'[d] = IF "Old" \notin Calls \/ pc[d] = "none" \/ n.id = Nil \/ n.done
                       THEN past[d]
                       ELSE past[d] \cup ({(IF m.typ = "User" THEN users' ELSE tokens')[m.id]} \ {Nil})
      <4>1. past'[d] = IF "Old" \notin Calls \/ pc[d] = "none" \/ mut'[d].id = Nil \/ mut'[d].done
                         THEN past[d]
                         ELSE past[d] \cup
                           ({(IF mut[d].typ = "User" THEN users' ELSE tokens')[mut[d].id]} \ {Nil})
        BY DEF Ends
      <4> QED BY <4>1, Zenon
    <3> HIDE DEF m, n
    <3>5. Stamped(m, log[d], pc'[d], since[d], now)
      <4>1. Stamped(m, log[d], pc[d], since[d], now)
        BY <2>2, AtWork DEF m
      <4>2. CASE d = b
        <5>1. Stamped(m, log[d], IF pc[d] = "redirected" THEN "spent" ELSE "building", since[d], now)
          BY <4>1, <4>2, LeavesStamped
        <5> QED BY <1>2, <4>2, <5>1
      <4>3. CASE d # b
        BY <1>2, <4>1, <4>3
      <4> QED BY <4>2, <4>3
    <3>6. FieldsReflect(m, log[d]) /\ EdgesReflect(m, log[d]) /\ WhereReflects(m, log[d])
      BY <2>2, AtWork DEF m
    <3>7. /\ MutationOK(work, n) /\ Stamped(n, log[d], pc'[d], since[d], now)
          /\ FieldsReflect(n, log[d]) /\ EdgesReflect(n, log[d]) /\ WhereReflects(n, log[d])
      BY <3>1, <3>2, <3>5, <3>6, ReflectsSame
    <3>8. OldKnown(n, past'[d], told[d])
      <4>1. OldKnown(m, past[d], told[d])
        BY <2>2, AtWork DEF m
      <4>2. past[d] \subseteq past'[d]
        BY <3>4
      <4> QED BY <3>2, <4>1, <4>2 DEF OldKnown
    <3>9. Current(d)'
      <4>1. "Old" \in Calls /\ n.id # Nil /\ ~n.done =>
              (IF n.typ = "User" THEN users'[n.id] ELSE tokens'[n.id]) \in past'[d] \cup {Nil}
        BY <2>2, <3>2, <3>4
      <4>2. Calls' = Calls
        BY <1>2 DEF Calls
      <4> QED BY <4>1, <4>2 DEF Current, Row, n
    <3> QED BY <1>2, <2>2, <3>3, <3>7, <3>8, <3>9, AtWork DEF BuilderInv, n
  <2> QED BY <2>1, <2>2
<1> QED BY <1>4, <1>5 DEF GraphInv

--------------------------------------------------------------------------------
(* What the saves make of the tables.                                            *)
UsersAfter(m) ==
  [u \in UserIds |-> IF u \in Hits(m) THEN Changes(m, users[u]) ELSE users[u]]

Linkable(m, k) ==
  k \in Stored("Token") /\ (k \in Unlinked(m, Hits(m)) \/ tokens[k].owner = Nil)

LinkedAfter(m) ==
  [k \in TokenIds |->
    IF k \in m.added /\ Hits(m) # {} THEN [tokens[k] EXCEPT !.owner = CHOOSE u \in Hits(m) : TRUE]
    ELSE IF k \in Unlinked(m, Hits(m)) THEN [tokens[k] EXCEPT !.owner = Nil] ELSE tokens[k]]

TokensAfter(m) ==
  [k \in TokenIds |-> IF k \in Hits(m) THEN TokenRow(m, tokens[k]) ELSE tokens[k]]

(* An update of users is refused, or it links what it can link.                   *)
LEMMA SaveUsersEnds ==
  ASSUME NEW b, NEW err, SaveUsers(b, err)
  PROVE  \/ \E answer \in {"NotFound", "Constraint"} : Ends(b, answer, users, tokens)
         \/ /\ Hits(mut[b]) # {} => \A k \in mut[b].added : Linkable(mut[b], k)
            /\ Ends(b, err, UsersAfter(mut[b]), LinkedAfter(mut[b]))
BY DEF SaveUsers, UsersAfter, LinkedAfter, Linkable

(* An update of tokens is refused, or it names owners that are there.             *)
LEMMA SaveTokensEnds ==
  ASSUME NEW b, NEW err, SaveTokens(b, err)
  PROVE  \/ \E answer \in {"NotFound", "Constraint", "error"} : Ends(b, answer, users, tokens)
         \/ /\ Hits(mut[b]) # {} => mut[b].added \subseteq Stored("User")
            /\ Ends(b, err, users, TokensAfter(mut[b]))
BY DEF SaveTokens, TokensAfter

(* The rows that are there.                                                      *)
LEMMA StoredRows ==
  ASSUME GraphInv
  PROVE  /\ work \in Workloads /\ TablesOK(work, users, tokens)
         /\ Stored("User") \subseteq UserIds /\ Stored("Token") \subseteq TokenIds
         /\ \A u \in UserIds : u \in Stored("User") <=> users[u] # Nil
         /\ \A k \in TokenIds : k \in Stored("Token") <=> tokens[k] # Nil
         /\ \A u \in Stored("User") : users[u] \in RowsOf(work, UserColumns)
         /\ \A k \in Stored("Token") :
              /\ tokens[k] \in RowsOf(work, TokenColumns \cup {"owner"})
              /\ tokens[k].owner \in UserIds \cup {Nil}
              /\ tokens[k].owner # Nil => tokens[k].owner \in Stored("User")
<1>1. work \in Workloads /\ TablesOK(work, users, tokens)
  BY DEF GraphInv, Globals
<1>2. /\ \A u \in UserIds : Row("User", u) = users[u]
      /\ \A k \in TokenIds : Row("Token", k) = tokens[k]
      /\ IdsOf("User") = UserIds /\ IdsOf("Token") = TokenIds
  BY DEF Row, IdsOf
<1>3. /\ Stored("User") = {u \in UserIds : users[u] # Nil}
      /\ Stored("Token") = {k \in TokenIds : tokens[k] # Nil}
  BY <1>2 DEF Stored
<1>4. \A u \in Stored("User") : users[u] \in RowsOf(work, UserColumns)
  BY <1>1, <1>3 DEF TablesOK, UserColumns
<1>5. \A k \in Stored("Token") :
        /\ tokens[k] \in RowsOf(work, TokenColumns \cup {"owner"})
        /\ tokens[k].owner # Nil => tokens[k].owner \in Stored("User")
  BY <1>1, <1>3 DEF TablesOK, TokenColumns
<1> QED BY <1>1, <1>3, <1>4, <1>5

(* The tables after an update of users ...                                       *)
LEMMA UsersAfterOK ==
  ASSUME GraphInv, NEW m, MutationOK(work, m), m.typ = "User",
         Hits(m) # {} => \A k \in m.added : Linkable(m, k)
  PROVE  TablesOK(work, UsersAfter(m), LinkedAfter(m))
<1> DEFINE us == UsersAfter(m)
           ks == LinkedAfter(m)
           cs == TokenColumns \cup {"owner"}
<1>1. Hits(m) \subseteq Stored("User") /\ Unlinked(m, Hits(m)) \subseteq Stored("Token")
  BY DEF Hits, Unlinked
<1>2. ASSUME NEW u \in UserIds
      PROVE  us[u] \in RowsOf(work, work.userColumns) \cup {Nil} /\ (users[u] # Nil => us[u] # Nil)
  <2>1. CASE u \in Hits(m)
    <3>1. users[u] \in RowsOf(work, work.userColumns)
      BY <1>1, <2>1, StoredRows DEF UserColumns
    <3>2. Changes(m, users[u]) \in RowsOf(work, work.userColumns)
      BY <3>1, ChangesRow
    <3> QED BY <2>1, <3>2, StoredRows, RowThere DEF UsersAfter
  <2>2. CASE u \notin Hits(m)
    BY <2>2, StoredRows DEF UsersAfter, TablesOK
  <2> QED BY <2>1, <2>2
<1>3. ASSUME NEW k \in TokenIds
      PROVE  /\ ks[k] \in RowsOf(work, work.tokenColumns \cup {"owner"}) \cup {Nil}
             /\ ks[k] # Nil /\ ks[k].owner # Nil =>
                  ks[k].owner \in UserIds /\ us[ks[k].owner] # Nil
  <2> DEFINE o == CHOOSE u \in Hits(m) : TRUE
  <2>1. CASE k \in m.added /\ Hits(m) # {}
    <3>1. o \in Hits(m)
      BY <2>1
    <3>2. tokens[k] \in RowsOf(work, cs)
      BY <2>1, StoredRows DEF Linkable
    <3>3. ks[k] = [tokens[k] EXCEPT !.owner = o]
      BY <2>1 DEF LinkedAfter
    <3> HIDE DEF o, ks
    <3>4. ks[k] \in RowsOf(work, cs) /\ ks[k].owner = o
      BY <1>1, <3>1, <3>2, <3>3, OwnedRow, StoredRows
    <3> QED BY <1>1, <1>2, <3>1, <3>4, StoredRows DEF TokenColumns
  <2>2. CASE ~(k \in m.added /\ Hits(m) # {}) /\ k \in Unlinked(m, Hits(m))
    <3>1. tokens[k] \in RowsOf(work, cs)
      BY <1>1, <2>2, StoredRows
    <3>2. ks[k] = [tokens[k] EXCEPT !.owner = Nil]
      BY <2>2 DEF LinkedAfter
    <3> HIDE DEF ks
    <3>3. ks[k] \in RowsOf(work, cs) /\ ks[k].owner = Nil
      BY <3>1, <3>2, OwnedRow
    <3> QED BY <3>3 DEF TokenColumns
  <2>3. CASE ~(k \in m.added /\ Hits(m) # {}) /\ k \notin Unlinked(m, Hits(m))
    <3>1. ks[k] = tokens[k]
      BY <2>3 DEF LinkedAfter
    <3> QED BY <1>2, <3>1, StoredRows DEF TablesOK
  <2> QED BY <2>1, <2>2, <2>3
<1>4. DOMAIN us = UserIds /\ DOMAIN ks = TokenIds
  BY DEF UsersAfter, LinkedAfter
<1> HIDE DEF us, ks
<1>5. TablesOK(work, us, ks)
  BY <1>2, <1>3, <1>4 DEF TablesOK
<1> QED BY <1>5 DEF us, ks

(* ... of tokens ...                                                             *)
LEMMA TokensAfterOK ==
  ASSUME GraphInv, NEW m, MutationOK(work, m), m.typ = "Token",
         Hits(m) # {} => m.added \subseteq Stored("User")
  PROVE  TablesOK(work, users, TokensAfter(m))
<1> DEFINE ks == TokensAfter(m)
           cs == TokenColumns \cup {"owner"}
<1>1. Hits(m) \subseteq Stored("Token")
  BY DEF Hits
<1>2. ASSUME NEW k \in TokenIds
      PROVE  /\ ks[k] \in RowsOf(work, work.tokenColumns \cup {"owner"}) \cup {Nil}
             /\ ks[k] # Nil /\ ks[k].owner # Nil =>
                  ks[k].owner \in UserIds /\ users[ks[k].owner] # Nil
  <2>1. CASE k \in Hits(m)
    <3>1. tokens[k] \in RowsOf(work, cs) /\ tokens[k].owner \in UserIds \cup {Nil} /\ "owner" \in cs
      BY <1>1, <2>1, StoredRows
    <3>2. ks[k] = TokenRow(m, tokens[k])
      BY <2>1 DEF TokensAfter
    <3>3. ks[k].owner = NewOwner(m, tokens[k].owner)
      BY <3>1, <3>2, RowElim DEF TokenRow
    <3> HIDE DEF ks, cs
    <3>4. ks[k] \in RowsOf(work, cs)
      BY <3>1, <3>2, TokenRowRow
    <3>5. NewOwner(m, tokens[k].owner) # Nil =>
            NewOwner(m, tokens[k].owner) \in Stored("User")
      BY <1>1, <2>1, StoredRows DEF NewOwner
    <3>6. ks[k].owner # Nil => ks[k].owner \in UserIds /\ users[ks[k].owner] # Nil
      BY <3>3, <3>5, StoredRows
    <3> QED BY <3>4, <3>6 DEF cs, TokenColumns
  <2>2. CASE k \notin Hits(m)
    <3>1. ks[k] = tokens[k]
      BY <2>2 DEF TokensAfter
    <3> QED BY <3>1, StoredRows DEF TablesOK
  <2> QED BY <2>1, <2>2
<1>3. DOMAIN ks = TokenIds /\ DOMAIN users = UserIds
  BY StoredRows DEF TokensAfter, TablesOK
<1> HIDE DEF ks
<1>4. TablesOK(work, users, ks)
  BY <1>2, <1>3, StoredRows DEF TablesOK
<1> QED BY <1>4 DEF ks

(* ... and after deletions: a token whose user goes loses it.                     *)
LEMMA DeletedOK ==
  ASSUME GraphInv, NEW is
  PROVE  TablesOK(work, Without(users, is), Orphans(is)) /\ TablesOK(work, users, Without(tokens, is))
<1>1. DOMAIN users = UserIds /\ DOMAIN tokens = TokenIds
  BY StoredRows DEF TablesOK
<1>2. TablesOK(work, users, Without(tokens, is))
  BY <1>1, StoredRows DEF TablesOK, Without
<1>3. ASSUME NEW k \in TokenIds
      PROVE  /\ Orphans(is)[k] \in RowsOf(work, work.tokenColumns \cup {"owner"}) \cup {Nil}
             /\ Orphans(is)[k] # Nil /\ Orphans(is)[k].owner # Nil =>
                  Orphans(is)[k].owner \in UserIds /\ Without(users, is)[Orphans(is)[k].owner] # Nil
  <2> DEFINE r == Orphans(is)[k]
             cs == TokenColumns \cup {"owner"}
  <2>1. CASE tokens[k] # Nil /\ tokens[k].owner \in is
    <3>1. tokens[k] \in RowsOf(work, cs) /\ "owner" \in cs
      BY <2>1, StoredRows
    <3>2. r = [tokens[k] EXCEPT !.owner = Nil]
      BY <2>1 DEF Orphans
    <3> HIDE DEF r, cs
    <3>3. r \in RowsOf(work, cs) /\ r.owner = Nil
      BY <3>1, <3>2, OwnedRow
    <3> QED BY <3>3 DEF r, cs, TokenColumns
  <2>2. CASE ~(tokens[k] # Nil /\ tokens[k].owner \in is)
    <3>1. r = tokens[k]
      BY <2>2 DEF Orphans
    <3> QED BY <1>1, <2>2, <3>1, StoredRows DEF TablesOK, Without
  <2> QED BY <2>1, <2>2
<1>4. /\ DOMAIN Without(users, is) = UserIds /\ DOMAIN Orphans(is) = TokenIds
      /\ \A u \in UserIds : Without(users, is)[u] \in RowsOf(work, work.userColumns) \cup {Nil}
  BY <1>1, StoredRows DEF Without, Orphans, TablesOK
<1>5. TablesOK(work, Without(users, is), Orphans(is))
  BY <1>3, <1>4 DEF TablesOK
<1> QED BY <1>2, <1>5

--------------------------------------------------------------------------------
(* The steps that end a save, and how each ends: what it hands to Ends is either  *)
(* the tables as they were, or those it makes.                                   *)
SqlSave(b, err) ==
  \/ UserSqlSave(b, err) \/ UserOneSqlSave(b, err) \/ UserSqlExec(b, err)
  \/ TokenSqlSave(b, err) \/ TokenOneSqlSave(b, err) \/ TokenSqlExec(b, err)

Refused(b) ==
  \E answer \in {"NotFound", "Constraint", "Validation", "error"} : Ends(b, answer, users, tokens)

SavesUsers(b, err) ==
  /\ mut[b].typ = "User" /\ mut[b].op \in Updates
  /\ Hits(mut[b]) # {} => \A k \in mut[b].added : Linkable(mut[b], k)
  /\ Ends(b, err, UsersAfter(mut[b]), LinkedAfter(mut[b]))

SavesTokens(b, err) ==
  /\ mut[b].typ = "Token" /\ mut[b].op \in Updates
  /\ Hits(mut[b]) # {} => mut[b].added \subseteq Stored("User")
  /\ Ends(b, err, users, TokensAfter(mut[b]))

DeletesRows(b, err) ==
  /\ mut[b].op \in Deletes
  /\ \E answer \in {"NotFound", err} :
       \/ /\ mut[b].typ = "User"
          /\ Ends(b, answer, Without(users, Hits(mut[b])), Orphans(Hits(mut[b])))
       \/ mut[b].typ = "Token" /\ Ends(b, answer, users, Without(tokens, Hits(mut[b])))

(* A save is refused, or writes users, tokens, or deletes.                       *)
LEMMA SqlSaveCases ==
  ASSUME NEW b, NEW err, SqlSave(b, err)
  PROVE  /\ pc[b] \in {"hooks", "redirected"}
         /\ Refused(b) \/ SavesUsers(b, err) \/ SavesTokens(b, err) \/ DeletesRows(b, err)
<1>1. CASE UserSqlSave(b, err)
  BY <1>1, SaveUsersEnds DEF UserSqlSave, SavesUsers, Refused, Updates
<1>2. CASE UserOneSqlSave(b, err)
  BY <1>2, SaveUsersEnds DEF UserOneSqlSave, SavesUsers, Refused, Updates
<1>3. CASE TokenSqlSave(b, err)
  BY <1>3, SaveTokensEnds DEF TokenSqlSave, SavesTokens, Refused, Updates
<1>4. CASE TokenOneSqlSave(b, err)
  BY <1>4, SaveTokensEnds DEF TokenOneSqlSave, SavesTokens, Refused, Updates
<1>5. CASE UserSqlExec(b, err)
  BY <1>5 DEF UserSqlExec, DeletesRows, Deletes
<1>6. CASE TokenSqlExec(b, err)
  BY <1>6 DEF TokenSqlExec, DeletesRows, Deletes
<1> QED BY <1>1, <1>2, <1>3, <1>4, <1>5, <1>6 DEF SqlSave

(* All of them keep the invariant.                                               *)
LEMMA SqlSaveKeeps ==
  ASSUME GraphInv, NEW b \in Builders, NEW err, SqlSave(b, err)
  PROVE  GraphInv'
<1>1. pc[b] \in {"hooks", "redirected"} /\ MutationOK(work, mut[b])
  BY SqlSaveCases, AtWork
<1>2. CASE Refused(b)
  BY <1>1, <1>2, StoredRows, EndsKeeps DEF Refused
<1>3. CASE SavesUsers(b, err)
  BY <1>1, <1>3, UsersAfterOK, EndsKeeps DEF SavesUsers
<1>4. CASE SavesTokens(b, err)
  BY <1>1, <1>4, TokensAfterOK, EndsKeeps DEF SavesTokens
<1>5. CASE DeletesRows(b, err)
  BY <1>1, <1>5, DeletedOK, EndsKeeps DEF DeletesRows
<1> QED BY <1>2, <1>3, <1>4, <1>5, SqlSaveCases

(* The other steps of a Save, and the clients.                                   *)
LEMMA SavingKeeps ==
  ASSUME GraphInv, NEW b \in Builders, Saving(b)
  PROVE  GraphInv'
<1>1. CASE SaveUser(b)
  BY <1>1, BeginsKeeps DEF SaveUser, IsUpdate, Updates
<1>2. CASE SaveToken(b)
  BY <1>2, BeginsKeeps DEF SaveToken, IsUpdate
<1>3. CASE Exec(b)
  BY <1>3, BeginsKeeps DEF Exec, Updates
<1>4. CASE HookRefuses(b)
  BY <1>4, RefusesKeeps
<1>5. CASE \E err \in {"ok", "error"} : SqlSave(b, err)
  BY <1>5, SqlSaveKeeps
<1> QED BY <1>1, <1>2, <1>3, <1>4, <1>5 DEF Saving, SqlSave

(* An update or a deletion that is begun.                                        *)
LEMMA OpeningKeeps ==
  ASSUME GraphInv, NEW b \in Builders, Opening(b)
  PROVE  GraphInv'
<1>1. PICK typ \in {"User", "Token"} :
        \/ \E op \in {"Update", "Delete"} : OpenMany(b, typ, op)
        \/ \E i \in IdsOf(typ) : UpdateOneID(b, typ, i) \/ UpdateOne(b, typ, i) \/ DeleteOneID(b, typ, i)
  BY DEF Opening
<1>2. \A i \in IdsOf(typ) : i # Nil
  BY DEF IdsOf
<1>3. ASSUME NEW op \in {"Update", "Delete"}, OpenMany(b, typ, op) PROVE GraphInv'
  BY <1>3, OpenKeeps DEF OpenMany, Updates, Deletes
<1>4. ASSUME NEW i \in IdsOf(typ), UpdateOneID(b, typ, i) PROVE GraphInv'
  BY <1>2, <1>4, OpenKeeps DEF UpdateOneID, Updates, Deletes
<1>5. ASSUME NEW i \in IdsOf(typ), UpdateOne(b, typ, i) PROVE GraphInv'
  BY <1>2, <1>5, OpenKeeps DEF UpdateOne, Updates, Deletes
<1>6. ASSUME NEW i \in IdsOf(typ), DeleteOneID(b, typ, i) PROVE GraphInv'
  BY <1>2, <1>6, OpenKeeps DEF DeleteOneID, Updates, Deletes
<1> QED BY <1>1, <1>3, <1>4, <1>5, <1>6

(* The calls on a builder.                                                       *)
LEMMA EditingKeeps ==
  ASSUME GraphInv, NEW b \in Builders, Editing(b)
  PROVE  GraphInv'
<1>1. /\ work \in Workloads
      /\ UserColumns \subseteq Fields /\ TokenColumns \subseteq Fields
  BY DEF GraphInv, Globals, UserColumns, TokenColumns, Fields
<1>2. ASSUME NEW f \in UserColumns, NEW v \in Domain(f) \ {Nil},
             SetUserField(b, f, v) \/ SetNillableUserField(b, f, v) \/ Mutate(b, f, v)
      PROVE  GraphInv'
  <2>1. f \in Fields /\ v \in ValuesOf(work, f) /\ v # Nil
    BY <1>1, <1>2, DomainValues
  <2> QED BY <1>2, <2>1, SetKeeps, MutateKeeps DEF SetUserField, SetNillableUserField
<1>3. ASSUME NEW f \in UserColumns, SetNillableUserField(b, f, Nil) PROVE GraphInv'
  BY <1>3, NothingKeeps DEF SetNillableUserField
<1>4. ASSUME NEW f \in TokenColumns, NEW v \in Domain(f), SetTokenField(b, f, v) \/ Mutate(b, f, v)
      PROVE  GraphInv'
  <2>1. f \in Fields /\ v \in ValuesOf(work, f)
    BY <1>1, <1>4, DomainValues
  <2> QED BY <1>4, <2>1, SetKeeps, MutateKeeps DEF SetTokenField
<1>5. CASE ClearTokenField(b)
  <2>1. "revoked_at" \in Fields
    BY <1>1, <1>5 DEF ClearTokenField
  <2> QED BY <1>5, <2>1, ResetsKeep DEF ClearTokenField
<1>6. ASSUME NEW f \in UserColumns \cup TokenColumns, ResetField(b, f) \/ Old(b, f) PROVE GraphInv'
  BY <1>1, <1>6, ResetsKeep, OldKeeps DEF ResetField
<1>7. ASSUME NEW k \in TokenIds, AddRefreshTokens(b, {k}) \/ RemoveRefreshTokens(b, {k}) PROVE GraphInv'
  <2>1. {k} \subseteq TokenIds
    OBVIOUS
  <2> QED BY <1>7, <2>1, EdgeCallsKeep DEF AddRefreshTokens, RemoveRefreshTokens, IsUpdate
<1>8. CASE ClearRefreshTokens(b) \/ ResetRefreshTokens(b) \/ ClearOwner(b) \/ ResetOwnerEdge(b)
  BY <1>8, EdgeCallsKeep DEF ClearRefreshTokens, ResetRefreshTokens, ClearOwner, ResetOwnerEdge, IsUpdate
<1>9. ASSUME NEW u \in UserIds, SetOwner(b, u) PROVE GraphInv'
  BY <1>9, EdgeCallsKeep DEF SetOwner, IsUpdate
<1>10. ASSUME NEW i, AddWhere(b, {i}) PROVE GraphInv'
  BY <1>10, WhereKeeps
<1>11. ASSUME NEW valid, Select(b, valid) PROVE GraphInv'
  BY <1>11, SelectKeeps
<1> QED BY <1>2, <1>3, <1>4, <1>5, <1>6, <1>7, <1>8, <1>9, <1>10, <1>11 DEF Editing

(* The clock goes on, up to the bound.                                           *)
LEMMA TickKeeps ==
  ASSUME GraphInv, Tick
  PROVE  GraphInv'
<1>1. Globals /\ work.maxTime \in Nat
  BY DEF GraphInv, Globals
<1>2. /\ now' = now + 1 /\ now' \in 0..work.maxTime /\ now \in Nat
      /\ UNCHANGED <<work, users, tokens, mut, cols, pc, res, log, since, past, told>>
  BY <1>1 DEF Tick, Globals, history
<1>3. Globals'
  BY <1>1, <1>2 DEF Globals
<1>4. ASSUME NEW b \in Builders PROVE BuilderInv(b)'
  <2>1. now' \in Nat /\ now <= now'
    BY <1>2
  <2> QED BY <1>2, <2>1, BuilderKept
<1> QED BY <1>3, <1>4 DEF GraphInv

(* So every step keeps the invariant.                                            *)
LEMMA GraphStep == GraphInv /\ [Next]_vars => GraphInv'
<1> SUFFICES ASSUME GraphInv, [Next]_vars PROVE GraphInv'
  OBVIOUS
<1>1. CASE Tick
  BY <1>1, TickKeeps
<1>2. ASSUME NEW b \in Builders, Opening(b) \/ Editing(b) \/ Saving(b) PROVE GraphInv'
  BY <1>2, OpeningKeeps, EditingKeeps, SavingKeeps
<1>3. CASE UNCHANGED vars
  <2>1. /\ UNCHANGED <<work, users, tokens, now, mut, cols, pc, res, log, since, past, told>>
        /\ Globals
    BY <1>3 DEF vars, tables, history, GraphInv
  <2>2. Globals'
    BY <2>1 DEF Globals
  <2>3. ASSUME NEW b \in Builders PROVE BuilderInv(b)'
    <3>1. now' \in Nat /\ now <= now'
      BY <2>1 DEF Globals
    <3> QED BY <2>1, <3>1, BuilderKept
  <2> QED BY <2>2, <2>3 DEF GraphInv
<1> QED BY <1>1, <1>2, <1>3 DEF Next

(* The invariant of the update and delete builders.                              *)
THEOREM GraphInvariance == Spec => []GraphInv
<1> QED BY GraphInit, GraphStep, PTL DEF Spec

(* All that OldX returned is of one version of the node, and of one that no       *)
(* answered Save of the builder made.                                            *)
THEOREM OldIsOneVersionAlways == Spec => []OldIsOneVersion
<1>1. ASSUME GraphInv, NEW b \in Builders, {p \in told[b] : p[2] # Failed} # {}
      PROVE  \E row \in past[b] : \A p \in {q \in told[b] : q[2] # Failed} : row[p[1]] = p[2]
  <2>1. OldKnown(mut[b], past[b], told[b])
    BY <1>1, AtWork DEF GraphInv, BuilderInv
  <2>2. mut[b].old \in past[b]
    BY <1>1, <2>1 DEF OldKnown
  <2> QED BY <2>1, <2>2 DEF OldKnown
<1>2. GraphInv => OldIsOneVersion
  BY <1>1 DEF OldIsOneVersion
<1> QED BY <1>2, GraphInvariance, PTL

--------------------------------------------------------------------------------
(* The tables change only where a save ends, and a builder leaves its hooks only  *)
(* there or where one refuses.                                                   *)
LEMMA EditingMoves ==
  ASSUME NEW c, Editing(c)
  PROVE  UNCHANGED <<users, tokens>> /\ (pc' = pc \/ pc' = [pc EXCEPT ![c] = "redirected"])
<1>1. \A call, on, arg, m : Edits(c, call, on, arg, m) => UNCHANGED <<users, tokens, pc>>
  BY DEF Edits, tables
<1>2. \A f, v : SetUserField(c, f, v) \/ SetNillableUserField(c, f, v) \/ SetTokenField(c, f, v)
        => UNCHANGED <<users, tokens, pc>>
  BY <1>1 DEF SetUserField, SetNillableUserField, SetTokenField
<1>3. ClearTokenField(c) \/ (\E f : ResetField(c, f)) => UNCHANGED <<users, tokens, pc>>
  BY <1>1 DEF ClearTokenField, ResetField
<1>4. \A ks : AddRefreshTokens(c, ks) \/ RemoveRefreshTokens(c, ks) \/ SetOwner(c, ks) \/ AddWhere(c, ks)
        => UNCHANGED <<users, tokens, pc>>
  BY <1>1 DEF AddRefreshTokens, RemoveRefreshTokens, SetOwner, AddWhere
<1>5. ClearRefreshTokens(c) \/ ResetRefreshTokens(c) \/ ClearOwner(c) \/ ResetOwnerEdge(c)
        => UNCHANGED <<users, tokens, pc>>
  BY <1>1 DEF ClearRefreshTokens, ResetRefreshTokens, ClearOwner, ResetOwnerEdge
<1>6. \A f : Old(c, f) => UNCHANGED <<users, tokens, pc>>
  BY DEF Old, tables
<1>7. \A valid : Select(c, valid) => UNCHANGED <<users, tokens, pc>>
  BY DEF Select, tables
<1>8. \A f, v : Mutate(c, f, v) =>
        UNCHANGED <<users, tokens>> /\ pc' = [pc EXCEPT ![c] = "redirected"]
  BY DEF Mutate, tables
<1> QED BY <1>2, <1>3, <1>4, <1>5, <1>6, <1>7, <1>8 DEF Editing

GoesOn(c) ==
  /\ UNCHANGED <<users, tokens>>
  /\ \/ pc' = pc
     \/ pc' = [pc EXCEPT ![c] = "redirected"] \/ pc' = [pc EXCEPT ![c] = "hooks"]
     \/ pc[c] = "none" /\ pc' = [pc EXCEPT ![c] = "building"]

(* Only a save moves the tables; hooks and callers move where a builder is.      *)
LEMMA StepMoves ==
  ASSUME [Next]_vars
  PROVE  \/ \E c \in Builders, err \in {"ok", "error"} : SqlSave(c, err)
         \/ \E c \in Builders : HookRefuses(c) /\ UNCHANGED <<users, tokens>>
         \/ \E c \in Builders : GoesOn(c)
         \/ UNCHANGED <<users, tokens, pc>>
<1>1. CASE Tick
  BY <1>1 DEF Tick
<1>2. CASE UNCHANGED vars
  BY <1>2 DEF vars, tables
<1>3. ASSUME NEW c \in Builders, Opening(c) PROVE GoesOn(c)
  BY <1>3 DEF Opening, OpenMany, UpdateOneID, UpdateOne, DeleteOneID, Open, tables, GoesOn
<1>4. ASSUME NEW c \in Builders, SaveUser(c) \/ SaveToken(c) \/ Exec(c) PROVE GoesOn(c)
  BY <1>4 DEF SaveUser, SaveToken, Exec, Begins, tables, GoesOn
<1>5. ASSUME NEW c \in Builders, HookRefuses(c) PROVE UNCHANGED <<users, tokens>>
  BY <1>5 DEF HookRefuses, tables
<1>6. ASSUME NEW c \in Builders, Saving(c)
      PROVE  \/ SaveUser(c) \/ SaveToken(c) \/ Exec(c) \/ HookRefuses(c)
             \/ \E err \in {"ok", "error"} : SqlSave(c, err)
  BY <1>6 DEF Saving, SqlSave
<1>7. ASSUME NEW c \in Builders, Editing(c) PROVE GoesOn(c)
  BY <1>7, EditingMoves DEF GoesOn
<1>8. CASE \E c \in Builders : Opening(c) \/ Editing(c)
  BY <1>3, <1>7, <1>8
<1>9. CASE \E c \in Builders : Saving(c)
  BY <1>4, <1>5, <1>6, <1>9
<1> QED BY <1>1, <1>2, <1>8, <1>9 DEF Next

(* So a Save that is answered is one that made the tables.                        *)
LEMMA SavedMakes ==
  ASSUME GraphInv, [Next]_vars, NEW b \in Builders, NEW typ, Saved(b, typ)
  PROVE  /\ pc[b] # "none" /\ mut[b].typ = typ
         /\ typ = "User" =>
              /\ Hits(mut[b]) # {} => \A k \in mut[b].added : Linkable(mut[b], k)
              /\ users' = UsersAfter(mut[b]) /\ tokens' = LinkedAfter(mut[b])
         /\ typ = "Token" => users' = users /\ tokens' = TokensAfter(mut[b])
<1>1. /\ pc[b] \in {"hooks", "redirected"} /\ pc'[b] \in {"building", "spent"} /\ res'[b] = "ok"
      /\ mut[b].typ = typ /\ mut[b].op \in Updates
      /\ DOMAIN pc = Builders /\ DOMAIN res = Builders
  BY DEF Saved, GraphInv, Globals, Updates
<1>2. \A c, answer : Leaves(c, answer) => c = b /\ answer = "ok"
  BY <1>1 DEF Leaves
<1>3. ~ \E c : HookRefuses(c)
  BY <1>2 DEF HookRefuses
<1>4. PICK c \in Builders, err \in {"ok", "error"} : SqlSave(c, err)
  <2>1. \A c \in Builders : ~GoesOn(c)
    BY <1>1 DEF GoesOn
  <2>2. ~UNCHANGED pc
    BY <1>1
  <2> QED BY <1>3, <2>1, <2>2, StepMoves
<1>5. \A answer, us, ks : Ends(c, answer, us, ks) =>
        c = b /\ answer = "ok" /\ users' = us /\ tokens' = ks
  BY <1>2 DEF Ends
<1>6. ~Refused(c)
  BY <1>5 DEF Refused
<1>7. ~DeletesRows(c, err)
  BY <1>1, <1>5 DEF DeletesRows, Updates, Deletes
<1>8. SavesUsers(c, err) \/ SavesTokens(c, err)
  BY <1>4, <1>6, <1>7, SqlSaveCases
<1> QED BY <1>1, <1>5, <1>8 DEF SavesUsers, SavesTokens

(* The rows a save finds are those the calls named.                              *)
LEMMA TargetsAreHits ==
  ASSUME GraphInv, NEW b \in Builders, pc[b] # "none"
  PROVE  Targets(b) = Hits(mut[b])
<1>1. WhereReflects(mut[b], log[b]) /\ Stored(mut[b].typ) \subseteq IdsOf(mut[b].typ)
  BY AtWork DEF Stored
<1> QED BY <1>1 DEF Targets, Hits, WhereReflects, Admitted

(* Every column of the users is what was asked for.                              *)
THEOREM UserFieldsAsAskedAlways == Spec => UserFieldsAsAsked
<1>1. ASSUME GraphInv, [Next]_vars, NEW b \in Builders, Saved(b, "User"),
             NEW u \in Stored("User"), NEW f \in UserColumns \ {"updated_at"}
      PROVE  users'[u][f] = IF u \in Targets(b) /\ f # "created_at" /\ AskedFor(log[b], f)
                              THEN LastOn(log[b], f).arg ELSE users[u][f]
  <2> DEFINE m == mut[b]
  <2>1. /\ pc[b] # "none" /\ m.typ = "User" /\ users' = UsersAfter(m)
        /\ Targets(b) = Hits(m) /\ MutationOK(work, m) /\ FieldsReflect(m, log[b])
    BY <1>1, SavedMakes, TargetsAreHits, AtWork
  <2>2. u \in UserIds /\ DOMAIN users[u] = UserColumns /\ work \in Workloads
    BY <1>1, StoredRows, RowElim
  <2>3. f \in UserFields /\ FieldReflects(m, log[b], f)
    BY <2>1, <2>2 DEF FieldsReflect, Fields, UserColumns
  <2>4. f \notin m.cleared
    BY <2>1, <2>3 DEF MutationOK, UserFields
  <2>5. CASE u \in Hits(m)
    <3>1. users'[u][f] = IF f \in DOMAIN m.value /\ f # "created_at" THEN m.value[f] ELSE users[u][f]
      BY <2>1, <2>2, <2>5 DEF UsersAfter, Changes, Over, Restrict
    <3> QED BY <2>1, <2>3, <2>4, <2>5, <3>1 DEF FieldReflects
  <2>6. CASE u \notin Hits(m)
    BY <2>1, <2>2, <2>6 DEF UsersAfter
  <2> QED BY <2>5, <2>6
<1>2. GraphInv /\ [Next]_vars =>
        [\A b \in Builders : Saved(b, "User") =>
          \A u \in Stored("User") : \A f \in UserColumns \ {"updated_at"} :
            users'[u][f] =
              IF u \in Targets(b) /\ f # "created_at" /\ AskedFor(log[b], f)
                THEN LastOn(log[b], f).arg ELSE users[u][f]]_vars
  BY <1>1
<1> QED BY <1>2, GraphInvariance, PTL DEF Spec, UserFieldsAsAsked

(* And every column of the tokens.                                               *)
THEOREM TokenFieldsAsAskedAlways == Spec => TokenFieldsAsAsked
<1>1. ASSUME GraphInv, [Next]_vars, NEW b \in Builders, Saved(b, "Token"),
             NEW k \in Stored("Token"), NEW f \in TokenColumns
      PROVE  tokens'[k][f] = IF k \in Targets(b) /\ AskedFor(log[b], f)
                               THEN LastOn(log[b], f).arg ELSE tokens[k][f]
  <2> DEFINE m == mut[b]
  <2>1. /\ pc[b] # "none" /\ m.typ = "Token" /\ tokens' = TokensAfter(m)
        /\ Targets(b) = Hits(m) /\ FieldsReflect(m, log[b])
    BY <1>1, SavedMakes, TargetsAreHits, AtWork
  <2>2. k \in TokenIds /\ DOMAIN tokens[k] = TokenColumns \cup {"owner"} /\ work \in Workloads
    BY <1>1, StoredRows, RowElim
  <2>3. f # "owner" /\ FieldReflects(m, log[b], f)
    BY <2>1, <2>2 DEF FieldsReflect, Fields, TokenColumns, TokenFields
  <2>4. CASE k \in Hits(m)
    <3>1. tokens'[k][f] = IF f \in DOMAIN m.value THEN m.value[f]
                          ELSE IF f \in m.cleared THEN Nil ELSE tokens[k][f]
      BY <2>1, <2>2, <2>3, <2>4 DEF TokensAfter, TokenRow
    <3> QED BY <2>1, <2>3, <2>4, <3>1 DEF FieldReflects
  <2>5. CASE k \notin Hits(m)
    BY <2>1, <2>2, <2>5 DEF TokensAfter
  <2> QED BY <2>4, <2>5
<1>2. GraphInv /\ [Next]_vars =>
        [\A b \in Builders : Saved(b, "Token") =>
          \A k \in Stored("Token") : \A f \in TokenColumns :
            tokens'[k][f] =
              IF k \in Targets(b) /\ AskedFor(log[b], f) THEN LastOn(log[b], f).arg ELSE tokens[k][f]]_vars
  BY <1>1
<1> QED BY <1>2, GraphInvariance, PTL DEF Spec, TokenFieldsAsAsked

(* And the stamp is the caller's, or that of the builder's first Save, unless     *)
(* updated_at was reset last.                                                    *)
THEOREM StampedBySaveAlways == Spec => StampedBySave
<1>1. ASSUME GraphInv, [Next]_vars, NEW b \in Builders, Saved(b, "User"),
             "updated_at" \in UserColumns, NEW u \in Targets(b) \cap Stored("User")
      PROVE  IF CallsOn(log[b], "updated_at") # {}
               THEN AskedFor(log[b], "updated_at") =>
                      users'[u]["updated_at"] = LastOn(log[b], "updated_at").arg
               ELSE \/ users'[u]["updated_at"] = since[b]
                    \/ pc[b] = "redirected" /\ users'[u]["updated_at"] \in since[b]..now
  <2> DEFINE m == mut[b]
             f == "updated_at"
  <2>1. /\ pc[b] # "none" /\ m.typ = "User" /\ users' = UsersAfter(m)
        /\ Targets(b) = Hits(m) /\ MutationOK(work, m) /\ FieldsReflect(m, log[b])
        /\ Stamped(m, log[b], pc[b], since[b], now)
    BY <1>1, SavedMakes, TargetsAreHits, AtWork
  <2>2. u \in UserIds /\ DOMAIN users[u] = UserColumns /\ u \in Hits(m)
    BY <1>1, <2>1, StoredRows, RowElim
  <2>3. FieldReflects(m, log[b], f) /\ f \notin m.cleared
    BY <2>1 DEF FieldsReflect, Fields, UserFields, MutationOK
  <2>4. IsSet(m, f) => users'[u][f] = m.value[f]
    BY <1>1, <2>1, <2>2 DEF UsersAfter, Changes, Over, Restrict, IsSet
  <2>5. CASE CallsOn(log[b], f) # {}
    BY <2>3, <2>4, <2>5 DEF FieldReflects, IsSet
  <2>6. CASE CallsOn(log[b], f) = {}
    <3>1. pc[b] \in {"hooks", "redirected"} /\ m.op \in Updates
      BY <1>1 DEF Saved, Updates
    <3>2. CASE pc[b] = "hooks"
      BY <2>1, <2>4, <2>6, <3>1, <3>2 DEF Stamped
    <3>3. CASE pc[b] = "redirected"
      BY <2>1, <2>4, <2>6, <3>3 DEF Stamped
    <3> QED BY <3>1, <3>2, <3>3, <2>6
  <2> QED BY <2>5, <2>6
<1>2. GraphInv /\ [Next]_vars =>
        [\A b \in Builders : Saved(b, "User") /\ "updated_at" \in UserColumns =>
          \A u \in Targets(b) \cap Stored("User") :
            LET stamp == users'[u]["updated_at"]
            IN  IF CallsOn(log[b], "updated_at") # {}
                  THEN AskedFor(log[b], "updated_at") => stamp = LastOn(log[b], "updated_at").arg
                  ELSE \/ stamp = since[b]
                       \/ pc[b] = "redirected" /\ stamp \in since[b]..now]_vars
  BY <1>1
<1> QED BY <1>2, GraphInvariance, PTL DEF Spec, StampedBySave

(* What LastEdge can say.                                                        *)
LEMMA LastEdgeKinds ==
  ASSUME NEW L, IsLog(L), NEW k
  PROVE  LastEdge(L, k) \in {"none", "Add", "Remove"}
<1> DEFINE is == {i \in SinceReset(L) : L[i].call \in {"Add", "Remove"} /\ k \in L[i].arg}
<1>1. is \in SUBSET (1..Len(L)) /\ Len(L) \in Nat
  BY CallsAppended, Appended DEF SinceReset
<1>2. LastEdge(L, k) = IF is = {} THEN "none" ELSE L[Max(is)].call
  BY DEF LastEdge
<1>3. is # {} => Max(is) \in is
  <2> HIDE DEF is
  <2> QED BY <1>1, MaxIn
<1> QED BY <1>2, <1>3

(* The tokens of the users are those last added and not removed.                  *)
THEOREM EdgesAsAskedAlways == Spec => EdgesAsAsked
<1>1. ASSUME GraphInv, [Next]_vars, NEW b \in Builders, Saved(b, "User"), Targets(b) # {},
             NEW k \in Stored("Token")
      PROVE  LET old  == tokens[k].owner
                 new  == tokens'[k].owner
                 last == LastEdge(log[b], k)
             IN  IF last = "Add" THEN new \in Targets(b) /\ old \in Targets(b) \cup {Nil}
                 ELSE IF (last = "Remove" \/ EdgeCalls(log[b], "ClearEdge") # {}) /\ old \in Targets(b)
                   THEN new = Nil
                 ELSE new = old
  <2> DEFINE m == mut[b]
             hits == Hits(m)
             last == LastEdge(log[b], k)
  <2>1. /\ pc[b] # "none" /\ m.typ = "User" /\ tokens' = LinkedAfter(m)
        /\ \A l \in m.added : Linkable(m, l)
        /\ Targets(b) = hits /\ hits # {}
        /\ EdgesReflect(m, log[b]) /\ IsLog(log[b])
    BY <1>1, SavedMakes, TargetsAreHits, AtWork
  <2>2. /\ k \in TokenIds /\ "owner" \in DOMAIN tokens[k]
        /\ tokens[k] = [f \in DOMAIN tokens[k] |-> tokens[k][f]]
    BY <1>1, StoredRows, RowElim
  <2>3. /\ last = "Add" <=> k \in m.added
        /\ last = "Remove" => k \in m.removed
        /\ k \in m.removed => last # "none"
        /\ m.edgeCleared <=> EdgeCalls(log[b], "ClearEdge") # {}
    BY <2>1, <2>2 DEF EdgesReflect, UserEdgesReflect
  <2>4. last \in {"none", "Add", "Remove"}
    BY <2>1, LastEdgeKinds
  <2>5. k \in Unlinked(m, hits) <=> tokens[k].owner \in hits /\ (m.edgeCleared \/ k \in m.removed)
    BY <1>1 DEF Unlinked
  <2>6. tokens'[k] = IF k \in m.added THEN [tokens[k] EXCEPT !.owner = CHOOSE u \in hits : TRUE]
                     ELSE IF k \in Unlinked(m, hits) THEN [tokens[k] EXCEPT !.owner = Nil]
                     ELSE tokens[k]
    BY <2>1, <2>2 DEF LinkedAfter
  <2>7. (CHOOSE u \in hits : TRUE) \in hits
    BY <2>1
  <2> HIDE DEF m, hits, last
  <2>8. CASE last = "Add"
    <3>1. Linkable(m, k) /\ tokens'[k].owner \in hits
      BY <2>1, <2>2, <2>3, <2>6, <2>7, <2>8
    <3>2. tokens[k].owner \in hits \cup {Nil}
      BY <2>5, <3>1 DEF Linkable, hits
    <3> QED BY <2>1, <2>8, <3>1, <3>2 DEF last
  <2>9. CASE last # "Add" /\ k \in Unlinked(m, hits)
    <3>1. tokens'[k].owner = Nil
      BY <2>2, <2>3, <2>6, <2>9
    <3>2. last = "Remove" \/ EdgeCalls(log[b], "ClearEdge") # {}
      BY <2>3, <2>4, <2>5, <2>9
    <3> QED BY <2>1, <2>5, <2>9, <3>1, <3>2 DEF last
  <2>10. CASE last # "Add" /\ k \notin Unlinked(m, hits)
    <3>1. tokens'[k].owner = tokens[k].owner
      BY <2>3, <2>6, <2>10
    <3>2. ~((last = "Remove" \/ EdgeCalls(log[b], "ClearEdge") # {}) /\ tokens[k].owner \in hits)
      BY <2>3, <2>5, <2>10
    <3> QED BY <2>1, <2>10, <3>1, <3>2 DEF last
  <2> QED BY <2>8, <2>9, <2>10
<1>2. GraphInv /\ [Next]_vars =>
        [\A b \in Builders : Saved(b, "User") /\ Targets(b) # {} =>
          \A k \in Stored("Token") :
            LET old  == tokens[k].owner
                new  == tokens'[k].owner
                last == LastEdge(log[b], k)
            IN  IF last = "Add" THEN new \in Targets(b) /\ old \in Targets(b) \cup {Nil}
                ELSE IF (last = "Remove" \/ EdgeCalls(log[b], "ClearEdge") # {}) /\ old \in Targets(b)
                  THEN new = Nil
                ELSE new = old]_vars
  BY <1>1
<1> QED BY <1>2, GraphInvariance, PTL DEF Spec, EdgesAsAsked

(* The owner of a token is the one last set, whatever was cleared before or after *)
(* that; one whose edge was only cleared has none.                               *)
THEOREM OwnerAsAskedAlways == Spec => OwnerAsAsked
<1>1. ASSUME GraphInv, [Next]_vars, NEW b \in Builders, Saved(b, "Token"), NEW k \in Stored("Token")
      PROVE  LET sets == EdgeCalls(log[b], "SetOwner")
             IN  tokens'[k].owner =
                   IF k \notin Targets(b) THEN tokens[k].owner
                   ELSE IF sets # {} THEN log[b][Max(sets)].arg
                   ELSE IF EdgeCalls(log[b], "ClearEdge") # {} THEN Nil ELSE tokens[k].owner
  <2> DEFINE m == mut[b]
             sets == EdgeCalls(log[b], "SetOwner")
  <2>1. /\ pc[b] # "none" /\ m.typ = "Token" /\ tokens' = TokensAfter(m)
        /\ Targets(b) = Hits(m) /\ EdgesReflect(m, log[b])
    BY <1>1, SavedMakes, TargetsAreHits, AtWork
  <2>2. k \in TokenIds /\ "owner" \in DOMAIN tokens[k]
    BY <1>1, StoredRows, RowElim
  <2>3. m.added = (IF sets = {} THEN {} ELSE {log[b][Max(sets)].arg})
        /\ (m.edgeCleared <=> EdgeCalls(log[b], "ClearEdge") # {})
    BY <2>1 DEF EdgesReflect, TokenEdgeReflects
  <2> HIDE DEF m, sets
  <2>4. CASE k \in Hits(m)
    <3>1. tokens'[k].owner = NewOwner(m, tokens[k].owner)
      BY <2>1, <2>2, <2>4 DEF TokensAfter, TokenRow
    <3>2. sets # {} => (CHOOSE u \in m.added : TRUE) = log[b][Max(sets)].arg
      BY <2>3
    <3> QED BY <2>1, <2>3, <2>4, <3>1, <3>2 DEF NewOwner, sets
  <2>5. CASE k \notin Hits(m)
    BY <2>1, <2>2, <2>5 DEF TokensAfter
  <2> QED BY <2>4, <2>5
<1>2. GraphInv /\ [Next]_vars =>
        [\A b \in Builders : Saved(b, "Token") =>
          \A k \in Stored("Token") :
            LET sets == EdgeCalls(log[b], "SetOwner")
            IN  tokens'[k].owner =
                  IF k \notin Targets(b) THEN tokens[k].owner
                  ELSE IF sets # {} THEN log[b][Max(sets)].arg
                  ELSE IF EdgeCalls(log[b], "ClearEdge") # {} THEN Nil ELSE tokens[k].owner]_vars
  BY <1>1
<1> QED BY <1>2, GraphInvariance, PTL DEF Spec, OwnerAsAsked

(* A token outlives its user, and loses nothing but its owner.                    *)
THEOREM TokensOutliveUsersAlways == Spec => TokensOutliveUsers
<1>1. ASSUME GraphInv, GraphInv', [Next]_vars, NEW b \in Builders,
             pc[b] # "none" /\ mut[b].typ = "User", NEW k \in TokenIds
      PROVE  mut'[b] = mut[b] \/ tokens[k] = Nil \/
               /\ tokens'[k] # Nil
               /\ \A f \in TokenColumns : tokens'[k][f] = tokens[k][f]
               /\ tokens'[k].owner # Nil => users'[tokens'[k].owner] # Nil
  <2> DEFINE cs == TokenColumns \cup {"owner"}
             r == tokens[k]
  <2> SUFFICES ASSUME mut'[b] # mut[b], r # Nil
               PROVE  tokens'[k] # Nil /\ \A f \in TokenColumns : tokens'[k][f] = r[f]
    BY <1>1 DEF GraphInv, Globals, TablesOK
  <2>1. /\ work \in Workloads /\ r \in RowsOf(work, cs) /\ DOMAIN mut = Builders
        /\ DOMAIN tokens = TokenIds
    BY <1>1, StoredRows DEF GraphInv, Globals, TablesOK
  <2>2. ASSUME NEW o \in UserIds \cup {Nil}, tokens'[k] = [r EXCEPT !.owner = o]
        PROVE  tokens'[k] # Nil /\ \A f \in TokenColumns : tokens'[k][f] = r[f]
    <3>1. tokens'[k] \in RowsOf(work, cs) /\ DOMAIN r = cs
      BY <2>1, <2>2, OwnedRow, RowElim
    <3>2. "owner" \notin TokenColumns
      BY <2>1 DEF TokenColumns, TokenFields
    <3>3. tokens'[k] # Nil
      BY <2>1, <3>1, RowThere DEF TokenColumns
    <3> QED BY <2>2, <3>1, <3>2, <3>3
  <2>3. CASE \E c \in Builders, err \in {"ok", "error"} : SqlSave(c, err)
    <3>1. PICK c \in Builders, err \in {"ok", "error"} : SqlSave(c, err)
      BY <2>3
    <3>2. \A answer, us, ks : Ends(c, answer, us, ks) =>
            c = b /\ (tokens' = ks \/ tokens' = tokens)
      BY <2>1 DEF Ends
    <3>3. CASE Refused(c)
      BY <3>2, <3>3 DEF Refused
    <3>4. CASE SavesUsers(c, err)
      <4>1. tokens' = LinkedAfter(mut[b]) \/ tokens' = tokens
        BY <3>2, <3>4 DEF SavesUsers
      <4>2. Hits(mut[b]) \subseteq UserIds
        BY <1>1, StoredRows DEF Hits
      <4>3. Hits(mut[b]) # {} => (CHOOSE u \in Hits(mut[b]) : TRUE) \in UserIds
        BY <4>2
      <4>4. \/ \E o \in UserIds \cup {Nil} : LinkedAfter(mut[b])[k] = [r EXCEPT !.owner = o]
            \/ LinkedAfter(mut[b])[k] = r
        BY <4>3 DEF LinkedAfter
      <4> QED BY <2>2, <4>1, <4>4
    <3>5. CASE SavesTokens(c, err)
      BY <1>1, <3>2, <3>5 DEF SavesTokens
    <3>6. CASE DeletesRows(c, err)
      <4>1. tokens' = Orphans(Hits(mut[b])) \/ tokens' = tokens
        BY <1>1, <3>2, <3>6 DEF DeletesRows
      <4>2. Orphans(Hits(mut[b]))[k] = [r EXCEPT !.owner = Nil] \/ Orphans(Hits(mut[b]))[k] = r
        BY DEF Orphans
      <4> QED BY <2>2, <4>1, <4>2
    <3> QED BY <3>1, <3>3, <3>4, <3>5, <3>6, SqlSaveCases
  <2>4. CASE UNCHANGED <<users, tokens>>
    BY <2>4
  <2> QED BY <1>1, <2>3, <2>4, StepMoves DEF GoesOn
<1>2. GraphInv /\ GraphInv' /\ [Next]_vars =>
        [\A b \in Builders : pc[b] # "none" /\ mut[b].typ = "User" =>
          \A k \in TokenIds : mut'[b] = mut[b] \/ tokens[k] = Nil \/
            /\ tokens'[k] # Nil
            /\ \A f \in TokenColumns : tokens'[k][f] = tokens[k][f]
            /\ tokens'[k].owner # Nil => users'[tokens'[k].owner] # Nil]_vars
  BY <1>1
<1> QED BY <1>2, GraphInvariance, PTL DEF Spec, TokensOutliveUsers
================================================================================
