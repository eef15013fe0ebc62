-------------------------- MODULE EntGraphInvariant ---------------------------
(* The inductive invariant of EntGraph: what a mutation has to do with the calls  *)
(* that were made, and the old node with the versions there were.                *)
EXTENDS EntGraphProperties

MutationFields == {"typ", "op", "id", "where", "value", "cleared", "added", "removed",
                   "edgeCleared", "done", "old"}
Fields  == UserFields \cup TokenFields
Updates == {"Update", "UpdateOne"}
Deletes == {"Delete", "DeleteOne"}
IsLog(calls) == \E S : calls \in Seq(S)
Phases  == {"none", "building", "hooks", "redirected", "spent"}

ValuesOf(w, f) == IF f \in FlagColumns THEN BOOLEAN ELSE OtherValues(w)

(* The tables: rows of their columns, and no owner who is not there.              *)
TablesOK(w, us, ks) ==
  /\ DOMAIN us = UserIds /\ DOMAIN ks = TokenIds
  /\ \A u \in UserIds : us[u] \in RowsOf(w, w.userColumns) \cup {Nil}
  /\ \A k \in TokenIds :
       /\ ks[k] \in RowsOf(w, w.tokenColumns \cup {"owner"}) \cup {Nil}
       /\ ks[k] # Nil /\ ks[k].owner # Nil => ks[k].owner \in UserIds /\ us[ks[k].owner] # Nil

Globals ==
  /\ work \in Workloads /\ now \in 0..work.maxTime
  /\ TablesOK(work, users, tokens)
  /\ pc \in [Builders -> Phases] /\ DOMAIN res = Builders /\ DOMAIN cols = Builders
  /\ DOMAIN mut = Builders /\ DOMAIN log = Builders /\ DOMAIN since = Builders
  /\ DOMAIN past = Builders /\ DOMAIN told = Builders

MutationOK(w, m) ==
  /\ DOMAIN m = MutationFields
  /\ m.typ \in {"User", "Token"} /\ m.op \in Updates \cup Deletes
  /\ m.id \in IdsOf(m.typ) \cup {Nil}
  /\ \A f \in DOMAIN m.value : m.value[f] \in ValuesOf(w, f)
  /\ m.cleared \subseteq {"revoked_at"}
  /\ m.added \subseteq IF m.typ = "User" THEN TokenIds ELSE UserIds
  /\ m.edgeCleared \in BOOLEAN

(* What a save will write of f is what the last call about it asked for; the      *)
(* stamp of a user is a matter of its own.                                       *)
FieldReflects(m, calls, f) ==
  IF AskedFor(calls, f)
    THEN IF f \in DOMAIN m.value THEN m.value[f] = LastOn(calls, f).arg
                                 ELSE f \in m.cleared /\ LastOn(calls, f).arg = Nil
    ELSE (m.typ = "User" /\ f = "updated_at") \/ f \notin DOMAIN m.value \cup m.cleared

FieldsReflect(m, calls) == \A f \in Fields : FieldReflects(m, calls, f)

UserEdgesReflect(m, calls) ==
  \A k \in TokenIds :
    LET last == LastEdge(calls, k)
    IN  /\ last = "Add" <=> k \in m.added
        /\ last = "Remove" => k \in m.removed
        /\ k \in m.removed => last # "none"

TokenEdgeReflects(m, calls) ==
  LET sets == EdgeCalls(calls, "SetOwner")
  IN  m.added = IF sets = {} THEN {} ELSE {calls[Max(sets)].arg}

EdgesReflect(m, calls) ==
  /\ m.edgeCleared <=> EdgeCalls(calls, "ClearEdge") # {}
  /\ IF m.typ = "User" THEN UserEdgesReflect(m, calls) ELSE TokenEdgeReflects(m, calls)

Admitted(m, i) == i \in m.where /\ (m.op = "UpdateOne" => i = m.id)

WhereReflects(m, calls) ==
  /\ calls[1].arg = m.id
  /\ \A i \in IdsOf(m.typ) : Admitted(m, i) <=> Admits(calls, i)

(* The stamp: none before the first Save; then that Save's time, which stays,     *)
(* or, of a deletion that a hook redirected, a later one.                        *)
Stamped(m, calls, phase, from, t) ==
  /\ phase = "hooks" => from # Nil
  /\ from # Nil => from \in 0..t
  /\ m.typ = "User" /\ CallsOn(calls, "updated_at") = {} =>
       /\ phase \in {"building", "hooks"} /\ m.op \in Updates =>
            IF IsSet(m, "updated_at") THEN from # Nil /\ m.value["updated_at"] = from
                                      ELSE from = Nil
       /\ phase \in {"building", "hooks"} /\ m.op \in Deletes => ~IsSet(m, "updated_at")
       /\ phase = "redirected" =>
            from # Nil /\ IsSet(m, "updated_at") /\ m.value["updated_at"] \in from..t

(* The old node, once there, is one of the versions, and is what was told.        *)
OldKnown(m, versions, answers) ==
  /\ m.old \notin {Nil, Failed} => m.old \in versions
  /\ \A p \in answers :
       m.old # Nil /\ (p[2] # Failed => m.old # Failed /\ p[2] = m.old[p[1]])

Current(b) ==
  "Old" \in Calls /\ mut[b].id # Nil /\ ~mut[b].done =>
    Row(mut[b].typ, mut[b].id) \in past[b] \cup {Nil}

BuilderInv(b) ==
  IF pc[b] = "none" THEN log[b] = << >> /\ since[b] = Nil /\ told[b] = {}
  ELSE /\ MutationOK(work, mut[b])
       /\ IsLog(log[b]) /\ log[b] # << >>
       /\ FieldsReflect(mut[b], log[b])
       /\ EdgesReflect(mut[b], log[b])
       /\ WhereReflects(mut[b], log[b])
       /\ Stamped(mut[b], log[b], pc[b], since[b], now)
       /\ OldKnown(mut[b], past[b], told[b]) /\ Current(b)

GraphInv == Globals /\ \A b \in Builders : BuilderInv(b)
==============================================================================
