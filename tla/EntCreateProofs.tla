---------------------------- MODULE EntCreateProofs ----------------------------
(* Proofs about the create builders, for any workloads: any number of builders,  *)
(* rows of a bulk, columns, keys, hooks, Saves and retries.                      *)
EXTENDS EntCreate, TLAPS

USE CreateAssumption, MutationAssumption

MutationFields == {"typ", "op", "id", "where", "value", "cleared", "added", "removed",
                   "edgeCleared", "done", "old"}

Phases == {"idle", "hook", "mutator", "returned"}

(* The variables, and the part of them that belongs to one Save.                 *)
Globals ==
  /\ work \in Workloads /\ now \in Nat /\ ids \in Nat
  /\ phase \in [Saves -> Phases] /\ DOMAIN at = Saves /\ DOMAIN err = Saves
  /\ DOMAIN made = Saves /\ DOMAIN given = Saves /\ DOMAIN asked = Saves
  /\ DOMAIN nodes = Saves /\ DOMAIN builders = Saves

Shaped(s) ==
  /\ phase[s] # "idle" => at[s] \in 1..Size[s]
  /\ DOMAIN asked[s] = 1..Size[s] /\ DOMAIN nodes[s] = 1..Size[s]
  /\ DOMAIN builders[s] = 1..Size[s]
  /\ \A i \in 1..Size[s] : DOMAIN builders[s][i] = MutationFields

CreateTypeOK == Globals /\ \A s \in Saves : Shaped(s)

(* What a builder would write is what was asked of it, and defaults.              *)
Faithful(m, wish) ==
  /\ DOMAIN wish \subseteq DOMAIN m.value
  /\ \A f \in DOMAIN m.value :
       IF f \in DOMAIN wish THEN m.value[f] = wish[f] ELSE Defaulted(f, m.value[f])

BuildersFaithful(s) == \A i \in 1..Size[s] : Faithful(builders[s][i], asked[s][i])

(* The nodes that a bulk has specified so far.                                   *)
RowFits(row, wish) == Columns \subseteq DOMAIN row /\ AsAsked(row, wish)

NodesFaithful(s) ==
  phase[s] # "idle" => \A j \in 1..Size[s] : j < at[s] => RowFits(nodes[s][j], asked[s][j])

(* While a Save runs every user has an id, and the nodes have those.             *)
Drawn(s) ==
  Typ = "User" /\ phase[s] # "idle" =>
    \A j \in 1..Size[s] :
      /\ builders[s][j].id # Nil
      /\ j < at[s] => nodes[s][j].id = builders[s][j].id

(* A row that is made has an id somebody gave, or the one its builder drew: the    *)
(* builder still has that, or has since been given another.                      *)
MadeByBuilder(s) ==
  Typ = "User" => \A p \in made[s] \ given[s] : \E i \in 1..Size[s] :
    /\ p[1] = i /\ builders[s][i].id # Nil
    /\ <<i, builders[s][i].id>> \in given[s] \/ p = <<i, builders[s][i].id>>

DrawnOnce(s) ==
  Typ = "User" => \A p, q \in made[s] \ given[s] : p[1] = q[1] => p = q

(* A nil error, on its way to Save, says that the rows are there.                *)
NilIsStored(s) ==
  s \notin skipped /\ phase[s] \in {"idle", "returned"} /\ err[s] = "nil" =>
    \A i \in 1..Size[s] : nodes[s][i] \in rows

Whole(s) == {p[1] : p \in made[s]} \in {{}, 1..Size[s]}

SaveInv(s) ==
  /\ BuildersFaithful(s) /\ NodesFaithful(s) /\ Drawn(s)
  /\ MadeByBuilder(s) /\ DrawnOnce(s) /\ NilIsStored(s) /\ Whole(s)

CreateInv == CreateTypeOK /\ \A s \in Saves : SaveInv(s)

--------------------------------------------------------------------------------
(* Of the operators on mutations and rows.                                       *)

(* A setter keeps a mutation faithful to what the caller asks for with it.        *)
LEMMA AssignFaithful ==
  ASSUME NEW m, DOMAIN m = MutationFields, NEW w, Faithful(m, w), NEW f, NEW v
  PROVE  /\ DOMAIN Assign(m, f, v) = MutationFields
         /\ Assign(m, f, v).id = m.id
         /\ Faithful(Assign(m, f, v), With(w, f, v))
<1>1. /\ DOMAIN Assign(m, f, v) = MutationFields
      /\ Assign(m, f, v).id = m.id
      /\ Assign(m, f, v).value = With(m.value, f, v)
  BY DEF Assign, MutationFields
<1> QED BY <1>1 DEF Faithful, With, Over

(* A hook that takes a value back takes back what was asked.                     *)
LEMMA ResetFaithful ==
  ASSUME NEW m, DOMAIN m = MutationFields, NEW w, Faithful(m, w), NEW f
  PROVE  /\ DOMAIN Reset(m, f) = MutationFields
         /\ Reset(m, f).id = m.id
         /\ Faithful(Reset(m, f), Restrict(w, DOMAIN w \ {f}))
<1>1. /\ DOMAIN Reset(m, f) = MutationFields
      /\ Reset(m, f).id = m.id
      /\ Reset(m, f).value = Restrict(m.value, DOMAIN m.value \ {f})
  BY DEF Reset, MutationFields
<1> QED BY <1>1 DEF Faithful, Restrict

(* The defaults are values that defaults() may give.                             *)
LEMMA DefaultDefaulted ==
  ASSUME now \in Nat,
         NEW f \in {"verified_email", "provider", "created_at", "updated_at", "is_admin"}
  PROVE  Defaulted(f, Default(f))
<1>1. CASE f \in {"verified_email", "is_admin"}
  <2>1. Default(f) = FALSE
    BY <1>1 DEF Default
  <2> QED BY <1>1, <2>1 DEF Defaulted
<1>2. CASE f = "provider"
  <2>1. Default(f) = "google"
    BY <1>2 DEF Default
  <2> QED BY <1>2, <2>1 DEF Defaulted
<1>3. CASE f \in {"created_at", "updated_at"}
  <2>1. Default(f) = now
    BY <1>3 DEF Default
  <2>2. now \in 0..now
    OBVIOUS
  <2> QED BY <1>3, <2>1, <2>2 DEF Defaulted
<1> QED BY <1>1, <1>2, <1>3

(* The defaults of a user: what was set stays, an id included.                   *)
LEMMA UserDefaultsFaithful ==
  ASSUME NEW m, DOMAIN m = MutationFields, NEW w, Faithful(m, w), NEW id, now \in Nat
  PROVE  /\ DOMAIN UserDefaults(m, id) = MutationFields
         /\ UserDefaults(m, id).id = IF m.id = Nil THEN id ELSE m.id
         /\ Faithful(UserDefaults(m, id), w)
<1> DEFINE fs == {"verified_email", "provider", "created_at", "updated_at", "is_admin"}
<1>1. /\ DOMAIN UserDefaults(m, id) = MutationFields
      /\ UserDefaults(m, id).id = IF m.id = Nil THEN id ELSE m.id
      /\ UserDefaults(m, id).value = Over(m.value, [f \in fs |-> Default(f)])
  BY DEF UserDefaults, MutationFields
<1>2. \A f \in fs : Defaulted(f, Default(f))
  BY DefaultDefaulted
<1> QED BY <1>1, <1>2 DEF Faithful, Over

(* The same for a token, which has one default.                                  *)
LEMMA TokenDefaultsFaithful ==
  ASSUME NEW m, DOMAIN m = MutationFields, NEW w, Faithful(m, w), now \in Nat
  PROVE  /\ DOMAIN TokenDefaults(m) = MutationFields
         /\ TokenDefaults(m).id = m.id
         /\ Faithful(TokenDefaults(m), w)
<1>1. /\ DOMAIN TokenDefaults(m) = MutationFields
      /\ TokenDefaults(m).id = m.id
      /\ TokenDefaults(m).value = Over(m.value, [f \in {"created_at"} |-> now])
  BY DEF TokenDefaults, MutationFields
<1>2. Defaulted("created_at", now)
  BY DEF Defaulted
<1> QED BY <1>1, <1>2 DEF Faithful, Over

(* The row of a faithful mutation that passes check is as asked.                 *)
LEMMA RowAsAsked ==
  ASSUME CreateTypeOK, NEW m, NEW w, Faithful(m, w), Check(m)
  PROVE  /\ RowFits(RowOf(m), w)
         /\ Typ = "User" => RowOf(m).id = m.id
<1>1. CASE Typ = "User"
  <2>1. Columns \subseteq UserFields
    BY <1>1 DEF CreateTypeOK, Globals, Columns, Typ
  <2>2. "id" \notin Columns /\ Columns \subseteq DOMAIN m.value
    BY <1>1, <2>1 DEF UserFields, Check, UserCheck
  <2>3. /\ RowOf(m).id = m.id /\ Columns \subseteq DOMAIN RowOf(m)
        /\ \A f \in Columns : RowOf(m)[f] = m.value[f]
    BY <1>1, <2>2 DEF RowOf, UserSpec, With, Over
  <2> QED BY <2>2, <2>3 DEF RowFits, AsAsked, Faithful
<1>2. CASE Typ # "User"
  <2>1. Columns \subseteq TokenFields
    BY <1>2 DEF CreateTypeOK, Globals, Columns, Typ
  <2>2. "id" \notin Columns /\ {"token_hash", "created_at"} \cap Columns \subseteq DOMAIN m.value
    BY <1>2, <2>1 DEF TokenFields, Check, TokenCheck
  <2>3. Columns \subseteq DOMAIN RowOf(m) /\ \A f \in Columns : RowOf(m)[f] = IF f \in DOMAIN m.value THEN m.value[f] ELSE Nil
    BY <1>2, <2>2 DEF RowOf, TokenSpec, IsSet, With, Over
  <2>4. \A f \in Columns : f \in DOMAIN m.value \/ f = "revoked_at"
    BY <2>1, <2>2 DEF TokenFields
  <2> QED BY <1>2, <2>3, <2>4 DEF RowFits, AsAsked, Faithful, Defaulted
<1> QED BY <1>1, <1>2

(* The numbers that the database gives out change nothing else.                  *)
LEMMA NumberedAsAsked ==
  ASSUME CreateTypeOK, NEW specs
  PROVE  /\ DOMAIN Numbered(specs) = DOMAIN specs
         /\ Typ = "User" => Numbered(specs) = specs
         /\ \A i \in DOMAIN specs : \A w : RowFits(specs[i], w) => RowFits(Numbered(specs)[i], w)
<1>1. "id" \notin Columns
  BY DEF CreateTypeOK, Globals, Columns, Typ, UserFields, TokenFields
<1>2. \A i \in DOMAIN specs : \A f \in Columns : f \in DOMAIN specs[i] =>
        /\ f \in DOMAIN With(specs[i], "id", ids + i)
        /\ With(specs[i], "id", ids + i)[f] = specs[i][f]
  BY <1>1 DEF With, Over
<1> QED BY <1>1, <1>2 DEF Numbered, RowFits, AsAsked

--------------------------------------------------------------------------------
(* A step of one Save, and what it leaves alone: the other Saves.                *)
StepOf(s) ==
  \/ \E i \in 1..Size[s], f \in Columns, v \in work.keys : SetField(s, i, f, v)
  \/ \E i \in 1..Size[s] : \E v : SetID(s, i, v)
  \/ Save(s) \/ Hooked(s) \/ Descend(s)
  \/ \E e \in {"nil", "error"} : SqlSave(s, e) \/ BatchCreate(s, e)

Same(q) ==
  /\ builders'[q] = builders[q] /\ nodes'[q] = nodes[q] /\ asked'[q] = asked[q]
  /\ at'[q] = at[q] /\ phase'[q] = phase[q] /\ err'[q] = err[q] /\ made'[q] = made[q]
  /\ given'[q] = given[q]
  /\ q \in skipped' <=> q \in skipped

Grows == work' = work /\ now' \in Nat /\ now <= now' /\ rows \subseteq rows'

(* A Save that makes nothing and gives no id still has what it has made.          *)
LEMMA MadeKept ==
  ASSUME NEW q, work' = work, made'[q] = made[q], given'[q] = given[q],
         \A i \in 1..Size[q] : builders'[q][i].id = builders[q][i].id,
         MadeByBuilder(q), DrawnOnce(q)
  PROVE  MadeByBuilder(q)' /\ DrawnOnce(q)'
<1>1. Typ' = Typ /\ Size' = Size
  BY DEF Typ, Size
<1>2. MadeByBuilder(q)'
  <2>1. CASE Typ = "User"
    <3>1. \A x \in made[q] \ given[q] : \E i \in 1..Size[q] :
            /\ x[1] = i /\ builders[q][i].id # Nil
            /\ <<i, builders[q][i].id>> \in given[q] \/ x = <<i, builders[q][i].id>>
      BY <2>1 DEF MadeByBuilder
    <3>2. ASSUME NEW x \in made[q] \ given[q]
          PROVE  \E i \in 1..Size[q] :
                   /\ x[1] = i /\ builders'[q][i].id # Nil
                   /\ <<i, builders'[q][i].id>> \in given[q] \/ x = <<i, builders'[q][i].id>>
      <4>1. PICK i \in 1..Size[q] :
              /\ x[1] = i /\ builders[q][i].id # Nil
              /\ <<i, builders[q][i].id>> \in given[q] \/ x = <<i, builders[q][i].id>>
        BY <3>1
      <4>2. builders'[q][i].id = builders[q][i].id
        OBVIOUS
      <4> QED BY <4>1, <4>2
    <3> QED BY <1>1, <3>2 DEF MadeByBuilder
  <2>2. CASE Typ # "User"
    BY <1>1, <2>2 DEF MadeByBuilder
  <2> QED BY <2>1, <2>2
<1>3. DrawnOnce(q)'
  BY <1>1 DEF DrawnOnce
<1> QED BY <1>2, <1>3

(* A Save in which nothing happens is none the worse for what others do.         *)
LEMMA SameKeeps ==
  ASSUME CreateTypeOK, Grows, NEW q \in Saves, Same(q), SaveInv(q)
  PROVE  Shaped(q)' /\ SaveInv(q)'
<1>1. Typ' = Typ /\ Size' = Size /\ Columns' = Columns
  BY DEF Grows, Typ, Size, Columns
<1>2. \A f, v : Defaulted(f, v) => Defaulted(f, v)'
  BY DEF Grows, CreateTypeOK, Globals, Defaulted
<1>3. \A m, w : Faithful(m, w) => Faithful(m, w)'
  BY <1>2 DEF Faithful
<1>4. \A r, w : RowFits(r, w) => RowFits(r, w)'
  BY <1>1, <1>2 DEF RowFits, AsAsked
<1>5. BuildersFaithful(q)' /\ NodesFaithful(q)'
  BY <1>1, <1>3, <1>4 DEF Same, SaveInv, BuildersFaithful, NodesFaithful
<1>6. Drawn(q)' /\ MadeByBuilder(q)' /\ DrawnOnce(q)'
  <2>1. Drawn(q)'
    BY <1>1 DEF Same, SaveInv, Drawn
  <2>2. MadeByBuilder(q)' /\ DrawnOnce(q)'
    BY MadeKept DEF Same, SaveInv, Grows
  <2> QED BY <2>1, <2>2
<1>7. NilIsStored(q)' /\ Whole(q)'
  BY <1>1 DEF Same, SaveInv, NilIsStored, Whole, Grows
<1>8. Shaped(q)'
  BY <1>1 DEF Same, CreateTypeOK, Shaped
<1> QED BY <1>5, <1>6, <1>7, <1>8 DEF SaveInv

(* A step of s that inserts nothing, specifies nothing and asks for nothing: it    *)
(* moves to the hooks or the mutator of the same builder or of one before.       *)
Moved(s) ==
  /\ phase' \in [Saves -> Phases] /\ DOMAIN at' = Saves /\ DOMAIN err' = Saves
  /\ at'[s] <= at[s]
  /\ phase'[s] # "idle" => at'[s] \in 1..Size[s]
  /\ \A q \in Saves \ {s} : at'[q] = at[q] /\ phase'[q] = phase[q] /\ err'[q] = err[q]

Marked(s) ==
  /\ DOMAIN builders' = Saves /\ DOMAIN builders'[s] = 1..Size[s]
  /\ \A i \in 1..Size[s] :
       /\ DOMAIN builders'[s][i] = MutationFields
       /\ builders'[s][i].id = builders[s][i].id
       /\ builders'[s][i].value = builders[s][i].value
  /\ \A q \in Saves \ {s} : builders'[q] = builders[q]

Quiet(s) ==
  /\ phase[s] # "idle" /\ UNCHANGED <<work, rows, now, ids, nodes, asked, given, made>>
  /\ Moved(s) /\ Marked(s)
  /\ \A q \in Saves \ {s} : q \in skipped' <=> q \in skipped

(* A hook or a mutator that returns e is quiet, but for what it does to skipped.  *)
LEMMA LeaveQuietly ==
  ASSUME CreateTypeOK, NEW s \in Saves, phase[s] # "idle", NEW e, Leave(s, e, builders[s]),
         UNCHANGED <<rows, ids, nodes, made>>,
         skipped' = skipped \/ skipped' = skipped \cup {s}
  PROVE  Quiet(s) /\ phase'[s] \in {"idle", "returned"} /\ err'[s] = e
<1>1. at[s] \in 1..Size[s] /\ Size[s] \in Nat
  BY DEF CreateTypeOK, Globals, Shaped, Size, Saves
<1>2. /\ DOMAIN err' = Saves /\ err'[s] = e
      /\ \A q \in Saves \ {s} : err'[q] = err[q]
  BY DEF Leave, CreateTypeOK, Globals
<1>3. Moved(s) /\ phase'[s] \in {"idle", "returned"}
  <2>1. CASE at[s] = 1
    <3>1. phase' = [phase EXCEPT ![s] = "idle"] /\ at' = at
      BY <2>1 DEF Leave
    <3> QED BY <1>1, <1>2, <3>1 DEF CreateTypeOK, Globals, Phases, Moved
  <2>2. CASE at[s] # 1
    <3>1. at' = [at EXCEPT ![s] = @ - 1] /\ phase' = [phase EXCEPT ![s] = "returned"]
      BY <2>2 DEF Leave
    <3> QED BY <1>1, <1>2, <2>2, <3>1 DEF CreateTypeOK, Globals, Phases, Moved
  <2> QED BY <2>1, <2>2
<1>4. Marked(s)
  <2>1. CASE at[s] = 1
    <3>1. builders' = [builders EXCEPT ![s] = builders[s]]
      BY <2>1 DEF Leave
    <3>2. /\ DOMAIN builders' = Saves /\ builders'[s] = builders[s]
          /\ \A q \in Saves \ {s} : builders'[q] = builders[q]
      BY <3>1 DEF CreateTypeOK, Globals
    <3> QED BY <3>2 DEF CreateTypeOK, Shaped, Marked
  <2>2. CASE at[s] # 1
    <3>1. builders' =
            [builders EXCEPT ![s] = [builders[s] EXCEPT ![at[s] - 1].done = @ \/ e = "nil"]]
      BY <2>2 DEF Leave
    <3>2. /\ DOMAIN builders' = Saves
          /\ builders'[s] = [builders[s] EXCEPT ![at[s] - 1].done = @ \/ e = "nil"]
          /\ \A q \in Saves \ {s} : builders'[q] = builders[q]
      BY <3>1 DEF CreateTypeOK, Globals
    <3> QED BY <3>2 DEF CreateTypeOK, Shaped, Marked, MutationFields
  <2> QED BY <2>1, <2>2
<1>5. \A q \in Saves \ {s} : q \in skipped' <=> q \in skipped
  OBVIOUS
<1>6. UNCHANGED <<work, rows, now, ids, nodes, asked, given, made>>
  BY DEF Leave
<1> QED BY <1>2, <1>3, <1>4, <1>5, <1>6 DEF Quiet

(* What every step of s has to leave behind.                                     *)
Keeps(s) == Globals' /\ Grows /\ (\A q \in Saves \ {s} : Same(q)) /\ Shaped(s)' /\ SaveInv(s)'

(* Within a moment the parts mean the same before and after.                     *)
LEMMA Within ==
  ASSUME work' = work, now' = now
  PROVE  /\ Typ' = Typ /\ Size' = Size /\ Columns' = Columns /\ Saves' = Saves
         /\ \A m, w : Faithful(m, w)' <=> Faithful(m, w)
         /\ \A r, w : RowFits(r, w)' <=> RowFits(r, w)
<1>1. Typ' = Typ /\ Size' = Size /\ Columns' = Columns /\ Saves' = Saves
  BY DEF Typ, Size, Columns, Saves
<1>2. \A f, v : Defaulted(f, v)' <=> Defaulted(f, v)
  BY DEF Defaulted
<1> QED BY <1>1, <1>2 DEF Faithful, RowFits, AsAsked

(* Quiet steps keep the invariant if they do not claim what is not so.            *)
LEMMA QuietKeeps ==
  ASSUME CreateInv, NEW s \in Saves, Quiet(s), NilIsStored(s)'
  PROVE  Keeps(s)
<1> USE DEF CreateInv
<1>0. /\ UNCHANGED <<work, rows, now, ids, nodes, asked, given, made>> /\ phase[s] # "idle"
      /\ Typ' = Typ /\ Size' = Size /\ Saves' = Saves /\ now \in Nat
      /\ at[s] \in 1..Size[s] /\ Size[s] \in Nat
  BY Within DEF Quiet, CreateTypeOK, Globals, Shaped, Size, Saves
<1>1. Globals'
  BY <1>0 DEF Quiet, Moved, Marked, CreateTypeOK, Globals
<1>2. Shaped(s)'
  <2>1. phase'[s] # "idle" => at'[s] \in 1..Size[s]
    BY DEF Quiet, Moved
  <2>2. /\ DOMAIN builders'[s] = 1..Size[s]
        /\ \A i \in 1..Size[s] : DOMAIN builders'[s][i] = MutationFields
    BY DEF Quiet, Marked
  <2>3. DOMAIN asked[s] = 1..Size[s] /\ DOMAIN nodes[s] = 1..Size[s]
    BY DEF CreateTypeOK, Shaped
  <2> QED BY <1>0, <2>1, <2>2, <2>3 DEF Shaped
<1>3. Grows /\ \A q \in Saves \ {s} : Same(q)
  BY <1>0 DEF Quiet, Moved, Marked, Grows, Same
<1>4. BuildersFaithful(s)'
  <2>1. \A i \in 1..Size[s] : Faithful(builders'[s][i], asked[s][i])
    BY DEF Quiet, Marked, SaveInv, BuildersFaithful, Faithful
  <2> QED BY <1>0, <2>1, Within DEF BuildersFaithful
<1>5. NodesFaithful(s)'
  <2>1. phase'[s] # "idle" => \A j \in 1..Size[s] : j < at'[s] => j < at[s]
    BY <1>0 DEF Quiet, Moved
  <2> QED BY <1>0, <2>1, Within DEF SaveInv, NodesFaithful
<1>6. Drawn(s)'
  <2>1. phase'[s] # "idle" => \A j \in 1..Size[s] : j < at'[s] => j < at[s]
    BY <1>0 DEF Quiet, Moved
  <2> QED BY <1>0, <2>1 DEF SaveInv, Drawn, Quiet, Marked
<1>7. MadeByBuilder(s)' /\ DrawnOnce(s)'
  BY <1>0, MadeKept DEF SaveInv, Quiet, Marked
<1>8. Whole(s)'
  BY <1>0 DEF SaveInv, Whole
<1> QED BY <1>1, <1>2, <1>3, <1>4, <1>5, <1>6, <1>7, <1>8 DEF Keeps, SaveInv

(* A setter is on record in the asked-for values as in the mutation's.           *)
LEMMA SetFieldKeeps ==
  ASSUME CreateInv, NEW s \in Saves, NEW i \in 1..Size[s], NEW f, NEW v, SetField(s, i, f, v)
  PROVE  Keeps(s)
<1> USE DEF CreateInv
<1>1. /\ DOMAIN builders' = Saves /\ \A q \in Saves \ {s} : builders'[q] = builders[q]
      /\ DOMAIN builders'[s] = 1..Size[s]
      /\ builders'[s][i] = Assign(builders[s][i], f, v)
      /\ \A j \in 1..Size[s] : j # i => builders'[s][j] = builders[s][j]
  BY DEF SetField, CreateTypeOK, Globals, Shaped
<1>2. /\ DOMAIN asked' = Saves /\ \A q \in Saves \ {s} : asked'[q] = asked[q]
      /\ DOMAIN asked'[s] = 1..Size[s]
      /\ asked'[s][i] = With(asked[s][i], f, v)
      /\ \A j \in 1..Size[s] : j # i => asked'[s][j] = asked[s][j]
  BY DEF SetField, CreateTypeOK, Globals, Shaped
<1>3. /\ UNCHANGED <<work, rows, now, ids, at, phase, err, nodes, given, made, skipped>>
      /\ phase[s] = "idle" /\ now \in Nat
  BY DEF SetField, CreateTypeOK, Globals, Shaped
<1>0. Typ' = Typ /\ Size' = Size /\ Saves' = Saves
  BY <1>3, Within
<1>4. /\ DOMAIN builders'[s][i] = MutationFields /\ builders'[s][i].id = builders[s][i].id
      /\ Faithful(builders'[s][i], asked'[s][i])
  BY <1>1, <1>2, AssignFaithful DEF CreateTypeOK, Shaped, SaveInv, BuildersFaithful
<1>5. Globals' /\ Shaped(s)'
  <2>1. Globals'
    BY <1>0, <1>1, <1>2, <1>3 DEF CreateTypeOK, Globals
  <2>2. \A j \in 1..Size[s] : DOMAIN builders'[s][j] = MutationFields
    BY <1>1, <1>4 DEF CreateTypeOK, Shaped
  <2>3. Shaped(s)'
    BY <1>0, <1>1, <1>2, <1>3, <2>2 DEF CreateTypeOK, Shaped
  <2> QED BY <2>1, <2>3
<1>6. Grows /\ \A q \in Saves \ {s} : Same(q)
  BY <1>1, <1>2, <1>3 DEF Grows, Same
<1>7. BuildersFaithful(s)'
  BY <1>1, <1>2, <1>3, <1>4, Within DEF SaveInv, BuildersFaithful
<1>8. NodesFaithful(s)' /\ Drawn(s)'
  BY <1>3 DEF NodesFaithful, Drawn
<1>9. \A j \in 1..Size[s] : builders'[s][j].id = builders[s][j].id
  BY <1>1, <1>4
<1>10. MadeByBuilder(s)' /\ DrawnOnce(s)' /\ NilIsStored(s)' /\ Whole(s)'
  <2>1. MadeByBuilder(s)' /\ DrawnOnce(s)'
    BY <1>3, <1>9, MadeKept DEF SaveInv
  <2>2. NilIsStored(s)' /\ Whole(s)'
    BY <1>0, <1>3 DEF SaveInv, NilIsStored, Whole
  <2> QED BY <2>1, <2>2
<1> QED BY <1>5, <1>6, <1>7, <1>8, <1>10 DEF Keeps, SaveInv

(* An id that is given stands for the one the builder had.                       *)
LEMMA SetIDKeeps ==
  ASSUME CreateInv, NEW s \in Saves, NEW i \in 1..Size[s], NEW v, SetID(s, i, v)
  PROVE  Keeps(s)
<1> USE DEF CreateInv
<1>1. /\ DOMAIN builders' = Saves /\ \A q \in Saves \ {s} : builders'[q] = builders[q]
      /\ DOMAIN builders'[s] = 1..Size[s]
      /\ builders'[s][i] = [builders[s][i] EXCEPT !.id = v]
      /\ \A j \in 1..Size[s] : j # i => builders'[s][j] = builders[s][j]
  BY DEF SetID, CreateTypeOK, Globals, Shaped
<1>2. /\ DOMAIN given' = Saves /\ \A q \in Saves \ {s} : given'[q] = given[q]
      /\ given'[s] = given[s] \cup {<<i, v>>}
  BY DEF SetID, CreateTypeOK, Globals
<1>3. /\ UNCHANGED <<work, rows, now, ids, at, phase, err, nodes, asked, made, skipped>>
      /\ now \in Nat /\ v # Nil
      /\ phase[s] = "idle" \/ (i = at[s] /\ Typ = "User" /\ at[s] \in 1..Size[s])
  BY DEF SetID, CreateTypeOK, Globals, Shaped
<1>0. Typ' = Typ /\ Size' = Size /\ Saves' = Saves /\ Size[s] \in Nat
  BY <1>3, Within DEF CreateTypeOK, Globals, Size, Saves
<1>4. /\ DOMAIN builders'[s][i] = MutationFields
      /\ builders'[s][i].id = v /\ builders'[s][i].value = builders[s][i].value
  BY <1>1 DEF CreateTypeOK, Shaped, MutationFields
<1>5. \A j \in 1..Size[s] :
        /\ DOMAIN builders'[s][j] = MutationFields
        /\ builders'[s][j].value = builders[s][j].value
        /\ j # i => builders'[s][j].id = builders[s][j].id
  <2> TAKE j \in 1..Size[s]
  <2>1. CASE j = i
    BY <1>4, <2>1
  <2>2. CASE j # i
    <3>1. builders'[s][j] = builders[s][j]
      BY <1>1, <2>2
    <3> QED BY <3>1 DEF CreateTypeOK, Shaped
  <2> QED BY <2>1, <2>2
<1>6. Globals' /\ Shaped(s)'
  <2>1. Globals'
    BY <1>0, <1>1, <1>2, <1>3 DEF CreateTypeOK, Globals
  <2>2. Shaped(s)'
    BY <1>0, <1>1, <1>3, <1>5 DEF CreateTypeOK, Shaped
  <2> QED BY <2>1, <2>2
<1>7. Grows /\ \A q \in Saves \ {s} : Same(q)
  BY <1>1, <1>2, <1>3 DEF Grows, Same
<1>8. BuildersFaithful(s)'
  <2>1. \A j \in 1..Size[s] : Faithful(builders'[s][j], asked[s][j])
    BY <1>5 DEF SaveInv, BuildersFaithful, Faithful
  <2> QED BY <1>0, <1>3, <2>1, Within DEF BuildersFaithful
<1>9. NodesFaithful(s)'
  BY <1>0, <1>3, Within DEF SaveInv, NodesFaithful
<1>10. Drawn(s)'
  <2>1. ASSUME phase[s] # "idle", NEW j \in 1..Size[s], j < at[s] PROVE j # i
    BY <1>0, <1>3, <2>1
  <2> QED BY <1>0, <1>3, <1>4, <1>5, <2>1 DEF SaveInv, Drawn
<1>11. MadeByBuilder(s)'
  <2> SUFFICES ASSUME Typ = "User", NEW p \in made[s] \ given'[s]
               PROVE  \E j \in 1..Size[s] :
                        /\ p[1] = j /\ builders'[s][j].id # Nil
                        /\ <<j, builders'[s][j].id>> \in given'[s] \/ p = <<j, builders'[s][j].id>>
    BY <1>0, <1>3 DEF MadeByBuilder
  <2>1. PICK j \in 1..Size[s] :
          /\ p[1] = j /\ builders[s][j].id # Nil
          /\ <<j, builders[s][j].id>> \in given[s] \/ p = <<j, builders[s][j].id>>
    BY <1>2 DEF SaveInv, MadeByBuilder
  <2>2. CASE j = i
    BY <1>2, <1>3, <1>4, <2>1, <2>2
  <2>3. CASE j # i
    BY <1>2, <1>5, <2>1, <2>3
  <2> QED BY <2>2, <2>3
<1>12. DrawnOnce(s)'
  BY <1>0, <1>2, <1>3 DEF SaveInv, DrawnOnce
<1>13. NilIsStored(s)' /\ Whole(s)'
  BY <1>0, <1>3 DEF SaveInv, NilIsStored, Whole
<1> QED BY <1>6, <1>7, <1>8, <1>9, <1>10, <1>11, <1>12, <1>13 DEF Keeps, SaveInv

(* The start of a save.                                                          *)
LEMMA SaveKeeps ==
  ASSUME CreateInv, NEW s \in Saves, Save(s)
  PROVE  Keeps(s)
<1> USE DEF CreateInv
<1> DEFINE new(i) == IF Typ = "User" THEN UserDefaults(builders[s][i], ids + i)
                                     ELSE TokenDefaults(builders[s][i])
<1>1. /\ DOMAIN builders' = Saves /\ \A q \in Saves \ {s} : builders'[q] = builders[q]
      /\ DOMAIN builders'[s] = 1..Size[s]
      /\ \A i \in 1..Size[s] : builders'[s][i] = new(i)
  BY DEF Save, CreateTypeOK, Globals, Shaped
<1>2. /\ DOMAIN nodes' = Saves /\ \A q \in Saves \ {s} : nodes'[q] = nodes[q]
      /\ DOMAIN nodes'[s] = 1..Size[s]
  BY DEF Save, CreateTypeOK, Globals, Shaped
<1>3. /\ DOMAIN at' = Saves /\ phase' \in [Saves -> Phases] /\ at'[s] = 1 /\ phase'[s] = "hook"
      /\ \A q \in Saves \ {s} : at'[q] = at[q] /\ phase'[q] = phase[q]
  BY DEF Save, CreateTypeOK, Globals, Shaped, Phases
<1>4. /\ UNCHANGED <<work, rows, now, err, asked, given, made>> /\ skipped' = skipped \ {s}
      /\ now \in Nat /\ Size[s] \in Nat \ {0} /\ ids \in Nat
      /\ ids' = IF Typ = "User" THEN ids + Size[s] ELSE ids
  BY DEF Save, CreateTypeOK, Globals, Shaped, Size, Saves
<1>0. Typ' = Typ /\ Size' = Size /\ Saves' = Saves
  BY <1>4, Within
<1>5. \A i \in 1..Size[s] :
        /\ DOMAIN new(i) = MutationFields /\ Faithful(new(i), asked[s][i])
        /\ builders[s][i].id # Nil \/ Typ # "User" => new(i).id = builders[s][i].id
        /\ Typ = "User" => new(i).id # Nil
  <2> SUFFICES ASSUME NEW i \in 1..Size[s]
               PROVE  /\ DOMAIN new(i) = MutationFields /\ Faithful(new(i), asked[s][i])
                      /\ builders[s][i].id # Nil \/ Typ # "User" => new(i).id = builders[s][i].id
                      /\ Typ = "User" => new(i).id # Nil
    OBVIOUS
  <2>1. DOMAIN builders[s][i] = MutationFields /\ Faithful(builders[s][i], asked[s][i])
    BY DEF CreateTypeOK, Shaped, SaveInv, BuildersFaithful
  <2>2. ids + i \in Nat
    BY <1>4
  <2>3. CASE Typ = "User"
    <3>1. new(i) = UserDefaults(builders[s][i], ids + i)
      BY <2>3
    <3>2. /\ DOMAIN new(i) = MutationFields /\ Faithful(new(i), asked[s][i])
          /\ new(i).id = IF builders[s][i].id = Nil THEN ids + i ELSE builders[s][i].id
      BY <1>4, <2>1, <3>1, UserDefaultsFaithful
    <3> QED BY <2>2, <2>3, <3>2
  <2>4. CASE Typ # "User"
    BY <1>4, <2>1, <2>4, TokenDefaultsFaithful
  <2> QED BY <2>3, <2>4
<1> HIDE DEF new
<1>6. Globals' /\ Shaped(s)'
  <2>1. Globals'
    BY <1>0, <1>1, <1>2, <1>3, <1>4 DEF CreateTypeOK, Globals
  <2>2. Shaped(s)'
    <3>1. \A i \in 1..Size[s] : DOMAIN builders'[s][i] = MutationFields
      BY <1>1, <1>5
    <3>2. at'[s] \in 1..Size[s]
      BY <1>3, <1>4
    <3> QED BY <1>0, <1>1, <1>2, <1>4, <3>1, <3>2 DEF CreateTypeOK, Shaped
  <2> QED BY <2>1, <2>2
<1>7. Grows /\ \A q \in Saves \ {s} : Same(q)
  BY <1>1, <1>2, <1>3, <1>4 DEF Grows, Same
<1>8. BuildersFaithful(s)'
  BY <1>1, <1>4, <1>5, Within DEF BuildersFaithful
<1>9. NodesFaithful(s)' /\ Drawn(s)'
  BY <1>1, <1>3, <1>4, <1>5, Within DEF NodesFaithful, Drawn
<1>10. MadeByBuilder(s)'
  <2> SUFFICES ASSUME Typ = "User", NEW p \in made[s] \ given[s]
               PROVE  \E i \in 1..Size[s] :
                        /\ p[1] = i /\ builders'[s][i].id # Nil
                        /\ <<i, builders'[s][i].id>> \in given[s] \/ p = <<i, builders'[s][i].id>>
    BY <1>0, <1>4 DEF MadeByBuilder
  <2>1. PICK i \in 1..Size[s] :
          /\ p[1] = i /\ builders[s][i].id # Nil
          /\ <<i, builders[s][i].id>> \in given[s] \/ p = <<i, builders[s][i].id>>
    BY DEF SaveInv, MadeByBuilder
  <2>2. new(i).id = builders[s][i].id
    BY <1>5, <2>1
  <2>3. builders'[s][i].id = builders[s][i].id
    BY <1>1, <2>2
  <2> QED BY <2>1, <2>3
<1>11. DrawnOnce(s)' /\ NilIsStored(s)' /\ Whole(s)'
  BY <1>0, <1>3, <1>4 DEF SaveInv, DrawnOnce, NilIsStored, Whole
<1> QED BY <1>6, <1>7, <1>8, <1>9, <1>10, <1>11 DEF Keeps, SaveInv

(* The hooks, but those that take a value back.                                  *)
LEMMA HooksKeep ==
  ASSUME CreateInv, NEW s \in Saves,
         \/ HookCalls(s) \/ HookRetries(s)
         \/ \E e \in {"refuse", "skip"} : HookEnds(s, e)
         \/ \E late \in BOOLEAN : HookReturns(s, late)
  PROVE  Keeps(s)
<1> USE DEF CreateInv
<1>1. CASE HookCalls(s) \/ HookRetries(s)
  <2>1. /\ UNCHANGED <<work, rows, now, ids, builders, at, err, nodes, asked, given, made, skipped>>
        /\ phase[s] # "idle" /\ phase' = [phase EXCEPT ![s] = "mutator"]
    BY <1>1 DEF HookCalls, HookRetries
  <2>2. /\ phase' \in [Saves -> Phases] /\ phase'[s] = "mutator"
        /\ \A q \in Saves \ {s} : phase'[q] = phase[q]
    BY <2>1 DEF CreateTypeOK, Globals, Phases
  <2>3. at[s] \in 1..Size[s] /\ Size[s] \in Nat
    BY <2>1 DEF CreateTypeOK, Globals, Shaped, Size, Saves
  <2>4. Moved(s)
    BY <2>1, <2>2, <2>3 DEF Moved, CreateTypeOK, Globals
  <2>5. Marked(s)
    BY <2>1 DEF Marked, CreateTypeOK, Globals, Shaped
  <2>6. Quiet(s) /\ NilIsStored(s)'
    BY <2>1, <2>2, <2>4, <2>5 DEF Quiet, NilIsStored
  <2> QED BY <2>6, QuietKeeps
<1>2. ASSUME NEW e \in {"refuse", "skip"}, HookEnds(s, e) PROVE Keeps(s)
  <2>1. phase[s] # "idle" /\ UNCHANGED <<rows, ids, nodes, made>>
    BY <1>2 DEF HookEnds
  <2>2. CASE e = "skip" /\ Size[s] > 1
    <3>1. Leave(s, "nil", builders[s]) /\ skipped' = skipped \cup {s}
      BY <1>2, <2>2 DEF HookEnds
    <3>2. Quiet(s)
      BY <2>1, <3>1, LeaveQuietly
    <3>3. NilIsStored(s)'
      BY <3>1 DEF NilIsStored
    <3> QED BY <3>2, <3>3, QuietKeeps
  <2>3. CASE ~(e = "skip" /\ Size[s] > 1)
    <3>1. Leave(s, "hook error", builders[s]) /\ skipped' = skipped
      BY <1>2, <2>3 DEF HookEnds
    <3>2. Quiet(s) /\ err'[s] = "hook error"
      BY <2>1, <3>1, LeaveQuietly
    <3>3. NilIsStored(s)'
      BY <3>2 DEF NilIsStored
    <3> QED BY <3>2, <3>3, QuietKeeps
  <2> QED BY <2>2, <2>3
<1>3. ASSUME NEW late \in BOOLEAN, HookReturns(s, late) PROVE Keeps(s)
  <2> DEFINE e == IF late THEN "hook error" ELSE err[s]
  <2>1. /\ phase[s] = "returned" /\ UNCHANGED <<work, rows, ids, nodes, made, skipped>>
        /\ Leave(s, e, builders[s])
    BY <1>3 DEF HookReturns, Leave
  <2>2. Quiet(s) /\ err'[s] = e
    BY <2>1, LeaveQuietly
  <2>3. NilIsStored(s)'
    <3>1. err'[s] = "nil" => err[s] = "nil"
      BY <2>2
    <3>2. Size' = Size
      BY <2>1 DEF Size
    <3> QED BY <2>1, <3>1, <3>2 DEF SaveInv, NilIsStored
  <2> QED BY <2>2, <2>3, QuietKeeps
<1> QED BY <1>1, <1>2, <1>3

(* A mutator that refuses, or whose statement does.                              *)
LEMMA RefusedKeeps ==
  ASSUME CreateInv, NEW s \in Saves, phase[s] # "idle", NEW e, e # "nil", Refused(s, e)
  PROVE  Keeps(s)
<1> USE DEF CreateInv
<1>1. /\ UNCHANGED <<work, rows, now, ids, builders, at, nodes, asked, given, made, skipped>>
      /\ phase' = [phase EXCEPT ![s] = "returned"] /\ err' = [err EXCEPT ![s] = e]
  BY DEF Refused, Returned
<1>2. /\ phase' \in [Saves -> Phases] /\ DOMAIN err' = Saves /\ err'[s] = e
      /\ \A q \in Saves \ {s} : phase'[q] = phase[q] /\ err'[q] = err[q]
  BY <1>1 DEF CreateTypeOK, Globals, Phases
<1>3. at[s] \in 1..Size[s] /\ Size[s] \in Nat
  BY DEF CreateTypeOK, Globals, Shaped, Size, Saves
<1>4. Moved(s)
  BY <1>1, <1>2, <1>3 DEF Moved, CreateTypeOK, Globals
<1>5. Marked(s)
  BY <1>1 DEF Marked, CreateTypeOK, Globals, Shaped
<1>6. Quiet(s) /\ NilIsStored(s)'
  BY <1>1, <1>2, <1>4, <1>5 DEF Quiet, NilIsStored
<1> QED BY <1>6, QuietKeeps

(* A hook that resets a field.                                                   *)
LEMMA HookResetsKeeps ==
  ASSUME CreateInv, NEW s \in Saves, NEW f, HookResets(s, f)
  PROVE  Keeps(s)
<1> USE DEF CreateInv
<1> DEFINE i == at[s]
<1>0. /\ UNCHANGED <<work, rows, now, ids, at, err, nodes, given, made, skipped>>
      /\ phase[s] = "hook" /\ now \in Nat /\ Typ' = Typ /\ Size' = Size /\ Saves' = Saves
      /\ i \in 1..Size[s] /\ Size[s] \in Nat
  BY Within DEF HookResets, CreateTypeOK, Globals, Shaped, Size, Saves
<1>1. /\ DOMAIN builders' = Saves /\ \A q \in Saves \ {s} : builders'[q] = builders[q]
      /\ DOMAIN builders'[s] = 1..Size[s]
      /\ builders'[s][i] = Reset(builders[s][i], f)
      /\ \A j \in 1..Size[s] : j # i => builders'[s][j] = builders[s][j]
  BY <1>0 DEF HookResets, CreateTypeOK, Globals, Shaped
<1>2. /\ DOMAIN asked' = Saves /\ \A q \in Saves \ {s} : asked'[q] = asked[q]
      /\ DOMAIN asked'[s] = 1..Size[s]
      /\ asked'[s][i] = Restrict(asked[s][i], DOMAIN asked[s][i] \ {f})
      /\ \A j \in 1..Size[s] : j # i => asked'[s][j] = asked[s][j]
  BY <1>0 DEF HookResets, CreateTypeOK, Globals, Shaped
<1>3. /\ phase' \in [Saves -> Phases] /\ phase'[s] = "mutator"
      /\ \A q \in Saves \ {s} : phase'[q] = phase[q]
  BY DEF HookResets, CreateTypeOK, Globals, Phases
<1>4. /\ DOMAIN builders'[s][i] = MutationFields /\ builders'[s][i].id = builders[s][i].id
      /\ Faithful(builders'[s][i], asked'[s][i])
  <2>1. DOMAIN builders[s][i] = MutationFields /\ Faithful(builders[s][i], asked[s][i])
    BY <1>0 DEF CreateTypeOK, Shaped, SaveInv, BuildersFaithful
  <2> QED BY <1>1, <1>2, <2>1, ResetFaithful
<1>5. Globals' /\ Shaped(s)'
  <2>1. Globals'
    BY <1>0, <1>1, <1>2, <1>3 DEF CreateTypeOK, Globals
  <2>2. \A j \in 1..Size[s] : DOMAIN builders'[s][j] = MutationFields
    BY <1>1, <1>4 DEF CreateTypeOK, Shaped
  <2>3. Shaped(s)'
    BY <1>0, <1>1, <1>2, <1>3, <2>2 DEF CreateTypeOK, Shaped
  <2> QED BY <2>1, <2>3
<1>6. Grows /\ \A q \in Saves \ {s} : Same(q)
  BY <1>0, <1>1, <1>2, <1>3 DEF Grows, Same
<1>7. BuildersFaithful(s)'
  BY <1>0, <1>1, <1>2, <1>4, Within DEF SaveInv, BuildersFaithful
<1>8. \A j \in 1..Size[s] : builders'[s][j].id = builders[s][j].id
  BY <1>1, <1>4
<1>9. NodesFaithful(s)'
  BY <1>0, <1>2, Within DEF SaveInv, NodesFaithful
<1>10. Drawn(s)'
  BY <1>0, <1>8 DEF SaveInv, Drawn
<1>11. MadeByBuilder(s)' /\ DrawnOnce(s)'
  BY <1>0, <1>8, MadeKept DEF SaveInv
<1>12. NilIsStored(s)' /\ Whole(s)'
  BY <1>0, <1>3 DEF SaveInv, NilIsStored, Whole
<1> QED BY <1>5, <1>6, <1>7, <1>9, <1>10, <1>11, <1>12 DEF Keeps, SaveInv

(* The mutator of a bulk's builder specifies a node and calls the next.          *)
LEMMA DescendKeeps ==
  ASSUME CreateInv, NEW s \in Saves, Descend(s)
  PROVE  Keeps(s)
<1> USE DEF CreateInv
<1> DEFINE i == at[s]
           row == RowOf(builders[s][i])
<1>1. CASE ~Check(builders[s][i])
  <2>1. phase[s] # "idle" /\ Refused(s, "Validation")
    BY <1>1 DEF Descend
  <2> QED BY <2>1, RefusedKeeps
<1>2. CASE Check(builders[s][i])
  <2>0. /\ UNCHANGED <<work, rows, now, ids, builders, err, asked, given, made, skipped>>
        /\ phase[s] = "mutator" /\ now \in Nat /\ Typ' = Typ /\ Size' = Size /\ Saves' = Saves
        /\ i \in 1..Size[s] /\ Size[s] \in Nat /\ i < Size[s]
    BY <1>2, Within DEF Descend, CreateTypeOK, Globals, Shaped, Size, Saves
  <2>1. /\ DOMAIN nodes' = Saves /\ \A q \in Saves \ {s} : nodes'[q] = nodes[q]
        /\ DOMAIN nodes'[s] = 1..Size[s] /\ nodes'[s][i] = row
        /\ \A j \in 1..Size[s] : j # i => nodes'[s][j] = nodes[s][j]
    BY <1>2, <2>0 DEF Descend, CreateTypeOK, Globals, Shaped
  <2>2. /\ phase' \in [Saves -> Phases] /\ phase'[s] = "hook"
        /\ DOMAIN at' = Saves /\ at'[s] = i + 1
        /\ \A q \in Saves \ {s} : phase'[q] = phase[q] /\ at'[q] = at[q]
    BY <1>2 DEF Descend, CreateTypeOK, Globals, Phases
  <2>3. RowFits(row, asked[s][i]) /\ (Typ = "User" => row.id = builders[s][i].id)
    BY <1>2, <2>0, RowAsAsked DEF SaveInv, BuildersFaithful
  <2> HIDE DEF row
  <2>4. Globals' /\ Shaped(s)'
    <3>1. Globals'
      BY <2>0, <2>1, <2>2 DEF CreateTypeOK, Globals
    <3>2. at'[s] \in 1..Size[s]
      BY <2>0, <2>2
    <3>3. Shaped(s)'
      BY <2>0, <2>1, <3>2 DEF CreateTypeOK, Shaped
    <3> QED BY <3>1, <3>3
  <2>5. Grows /\ \A q \in Saves \ {s} : Same(q)
    BY <2>0, <2>1, <2>2 DEF Grows, Same
  <2>6. BuildersFaithful(s)'
    BY <2>0, Within DEF SaveInv, BuildersFaithful
  <2>7. \A j \in 1..Size[s] : j < i + 1 => j < i \/ j = i
    BY <2>0
  <2>8. NodesFaithful(s)'
    <3>1. \A j \in 1..Size[s] : j < i + 1 => RowFits(nodes'[s][j], asked[s][j])
      BY <2>0, <2>1, <2>3, <2>7 DEF SaveInv, NodesFaithful
    <3> QED BY <2>0, <2>2, <3>1, Within DEF NodesFaithful
  <2>9. Drawn(s)'
    <3>1. ASSUME Typ = "User" 
          PROVE  \A j \in 1..Size[s] : j < i + 1 => nodes'[s][j].id = builders[s][j].id
      BY <2>0, <2>1, <2>3, <2>7, <3>1 DEF SaveInv, Drawn
    <3> QED BY <2>0, <2>2, <3>1 DEF SaveInv, Drawn
  <2>10. MadeByBuilder(s)' /\ DrawnOnce(s)' /\ NilIsStored(s)' /\ Whole(s)'
    <3>1. MadeByBuilder(s)' /\ DrawnOnce(s)'
      BY <2>0, MadeKept DEF SaveInv
    <3>2. NilIsStored(s)' /\ Whole(s)'
      BY <2>0, <2>2 DEF SaveInv, NilIsStored, Whole
    <3> QED BY <3>1, <3>2
  <2> QED BY <2>4, <2>5, <2>6, <2>8, <2>9, <2>10 DEF Keeps, SaveInv
<1> QED BY <1>1, <1>2

(* The rows of an INSERT, when it makes any: those whose nodes are as asked.      *)
Records(s) ==
  \A p \in made'[s] \ made[s] : \E r \in rows' : r.id = p[2] /\ AsAsked(r, asked[s][p[1]])

(* An INSERT whose rows fit adds one for each builder, or none.                  *)
LEMMA InsertRecords ==
  ASSUME CreateInv, NEW s \in Saves, NEW unnumbered, DOMAIN unnumbered = 1..Size[s],
         \A i \in 1..Size[s] : RowFits(unnumbered[i], asked[s][i]),
         NEW e, Insert(s, unnumbered, e)
  PROVE  Records(s)
<1> DEFINE specs == Numbered(unnumbered)
           new   == {specs[i] : i \in DOMAIN specs}
           pairs == {<<i, specs[i].id>> : i \in DOMAIN specs}
<1>1. DOMAIN specs = 1..Size[s] /\ \A i \in 1..Size[s] : AsAsked(specs[i], asked[s][i])
  BY NumberedAsAsked DEF CreateInv, RowFits
<1>2. \/ made' = made
      \/ rows' = rows \cup new /\ made' = [made EXCEPT ![s] = @ \cup pairs]
  BY DEF Insert, Refused
<1> HIDE DEF specs
<1>3. ASSUME NEW p \in made'[s] \ made[s]
      PROVE  \E r \in rows' : r.id = p[2] /\ AsAsked(r, asked[s][p[1]])
  <2>1. rows' = rows \cup new /\ p \in pairs
    BY <1>2, <1>3 DEF CreateInv, CreateTypeOK, Globals
  <2>2. PICK i \in 1..Size[s] : p = <<i, specs[i].id>>
    BY <1>1, <2>1
  <2>3. specs[i] \in rows'
    BY <1>1, <2>1
  <2> QED BY <1>1, <2>2, <2>3
<1> QED BY <1>3 DEF Records

(* One INSERT of a node per row, all of them as asked.                           *)
LEMMA InsertKeeps ==
  ASSUME CreateInv, NEW s \in Saves, phase[s] # "idle",
         NEW unnumbered, DOMAIN unnumbered = 1..Size[s],
         \A i \in 1..Size[s] : RowFits(unnumbered[i], asked[s][i]),
         Typ = "User" => \A i \in 1..Size[s] : unnumbered[i].id = builders[s][i].id,
         NEW e, Insert(s, unnumbered, e)
  PROVE  Keeps(s)
<1> USE DEF CreateInv
<1> DEFINE specs == Numbered(unnumbered)
           new   == {specs[i] : i \in DOMAIN specs}
           pairs == {<<i, specs[i].id>> : i \in DOMAIN specs}
<1>1. CASE ~Fits(new) \/ Cardinality(new) < Len(specs)
  <2>1. Refused(s, "Constraint")
    BY <1>1 DEF Insert
  <2> QED BY <2>1, RefusedKeeps
<1>2. CASE ~(~Fits(new) \/ Cardinality(new) < Len(specs))
  <2>1. /\ DOMAIN specs = 1..Size[s]
        /\ \A i \in 1..Size[s] : RowFits(specs[i], asked[s][i])
        /\ Typ = "User" => \A i \in 1..Size[s] : specs[i].id = builders[s][i].id
    BY NumberedAsAsked
  <2>2. /\ Returned(s, e)
        /\ \/ /\ rows' = rows \cup new
              /\ made' = [made EXCEPT ![s] = @ \cup pairs]
              /\ ids' = IF Typ = "Token" THEN ids + Len(specs) ELSE ids
           \/ e # "nil" /\ UNCHANGED <<rows, made, ids>>
        /\ nodes' = [nodes EXCEPT ![s] = specs]
        /\ builders' = [builders EXCEPT ![s][at[s]].done = @ \/ e = "nil"]
    BY <1>2 DEF Insert
  <2> HIDE DEF specs
  <2>3. /\ UNCHANGED <<work, now, at, asked, given, skipped>>
        /\ now \in Nat /\ Typ' = Typ /\ Size' = Size /\ Saves' = Saves
        /\ at[s] \in 1..Size[s] /\ Size[s] \in Nat
    BY <2>2, Within DEF Returned, CreateTypeOK, Globals, Shaped, Size, Saves
  <2>4. /\ phase' \in [Saves -> Phases] /\ phase'[s] = "returned"
        /\ DOMAIN err' = Saves /\ err'[s] = e
        /\ \A q \in Saves \ {s} : phase'[q] = phase[q] /\ err'[q] = err[q]
    BY <2>2 DEF Returned, CreateTypeOK, Globals, Phases
  <2>5. /\ DOMAIN nodes' = Saves /\ nodes'[s] = specs
        /\ \A q \in Saves \ {s} : nodes'[q] = nodes[q]
    BY <2>2 DEF CreateTypeOK, Globals
  <2>6. Marked(s)
    <3>1. /\ DOMAIN builders' = Saves
          /\ builders'[s] = [builders[s] EXCEPT ![at[s]].done = @ \/ e = "nil"]
          /\ \A q \in Saves \ {s} : builders'[q] = builders[q]
      BY <2>2 DEF CreateTypeOK, Globals
    <3> QED BY <3>1 DEF CreateTypeOK, Shaped, Marked, MutationFields
  <2>7. /\ rows \subseteq rows' /\ DOMAIN made' = Saves
        /\ \A q \in Saves \ {s} : made'[q] = made[q]
        /\ made'[s] = made[s] \/ made'[s] = made[s] \cup pairs
        /\ e = "nil" => rows' = rows \cup new
    BY <2>2 DEF CreateTypeOK, Globals
  <2>8. ids' \in Nat
    <3>1. CASE Typ = "Token"
      <4>1. specs = [i \in 1..Size[s] |-> With(unnumbered[i], "id", ids + i)]
        BY <3>1 DEF specs, Numbered
      <4>2. specs \in Seq({specs[i] : i \in 1..Size[s]})
        BY <2>3, <4>1
      <4>3. Len(specs) \in Nat
        BY <4>2
      <4> QED BY <2>2, <4>3 DEF CreateTypeOK, Globals
    <3>2. CASE Typ # "Token"
      BY <2>2, <3>2 DEF CreateTypeOK, Globals
    <3> QED BY <3>1, <3>2
  <2>9. Globals' /\ Shaped(s)'
    <3>1. Globals'
      BY <2>3, <2>4, <2>5, <2>6, <2>7, <2>8 DEF Marked, CreateTypeOK, Globals
    <3>2. Shaped(s)'
      BY <2>1, <2>3, <2>5, <2>6 DEF Marked, CreateTypeOK, Shaped
    <3> QED BY <3>1, <3>2
  <2>10. Grows /\ \A q \in Saves \ {s} : Same(q)
    BY <2>3, <2>4, <2>5, <2>6, <2>7 DEF Marked, Grows, Same
  <2>11. BuildersFaithful(s)'
    <3>1. \A i \in 1..Size[s] : Faithful(builders'[s][i], asked[s][i])
      BY <2>6 DEF Marked, SaveInv, BuildersFaithful, Faithful
    <3> QED BY <2>3, <3>1, Within DEF BuildersFaithful
  <2>12. NodesFaithful(s)'
    BY <2>1, <2>3, <2>5, Within DEF NodesFaithful
  <2>13. Drawn(s)'
    <3>1. \A i \in 1..Size[s] : builders'[s][i].id = builders[s][i].id
      BY <2>6 DEF Marked
    <3>2. Typ = "User" => \A i \in 1..Size[s] :
            builders[s][i].id # Nil /\ specs[i].id = builders[s][i].id
      BY <2>1 DEF SaveInv, Drawn
    <3> QED BY <2>3, <2>5, <3>1, <3>2 DEF Drawn
  <2>14. /\ \A i \in 1..Size[s] : builders'[s][i].id = builders[s][i].id
         /\ Typ = "User" => \A p \in pairs : \E i \in 1..Size[s] :
                p = <<i, builders[s][i].id>> /\ builders[s][i].id # Nil
    <3>1. \A i \in 1..Size[s] : builders'[s][i].id = builders[s][i].id
      BY <2>6 DEF Marked
    <3>2. ASSUME Typ = "User", NEW p \in pairs
          PROVE  \E i \in 1..Size[s] : p = <<i, builders[s][i].id>> /\ builders[s][i].id # Nil
      <4>1. PICK i \in 1..Size[s] : p = <<i, specs[i].id>>
        BY <2>1
      <4>2. specs[i].id = builders[s][i].id /\ builders[s][i].id # Nil
        BY <2>1, <3>2 DEF SaveInv, Drawn
      <4> QED BY <4>1, <4>2
    <3> QED BY <3>1, <3>2
  <2>17. MadeByBuilder(s)'
    <3>1. ASSUME Typ = "User", NEW p \in made'[s] \ given[s]
          PROVE  \E i \in 1..Size[s] :
                   /\ p[1] = i /\ builders'[s][i].id # Nil
                   /\ <<i, builders'[s][i].id>> \in given[s] \/ p = <<i, builders'[s][i].id>>
      <4> HIDE DEF pairs
      <4>1. PICK i \in 1..Size[s] :
              /\ p[1] = i /\ builders[s][i].id # Nil
              /\ <<i, builders[s][i].id>> \in given[s] \/ p = <<i, builders[s][i].id>>
        <5>1. CASE p \in made[s]
          BY <3>1, <5>1 DEF SaveInv, MadeByBuilder
        <5>2. CASE p \in pairs
          BY <2>14, <3>1, <5>2
        <5> QED BY <2>7, <3>1, <5>1, <5>2
      <4>2. builders'[s][i].id = builders[s][i].id
        BY <2>14
      <4> QED BY <4>1, <4>2
    <3> QED BY <2>3, <3>1 DEF MadeByBuilder
  <2>18. DrawnOnce(s)'
    <3> SUFFICES ASSUME Typ = "User", NEW p \in made'[s] \ given[s], NEW q \in made'[s] \ given[s],
                        p[1] = q[1]
                 PROVE  p = q
      BY <2>3 DEF DrawnOnce
    <3> HIDE DEF pairs
    <3>1. ASSUME NEW x \in pairs \ given[s], NEW y \in made[s] \ given[s], x[1] = y[1] PROVE x = y
      <4>1. PICK i \in 1..Size[s] : x = <<i, builders[s][i].id>>
        BY <2>14, <3>1
      <4>2. PICK k \in 1..Size[s] :
              /\ y[1] = k
              /\ <<k, builders[s][k].id>> \in given[s] \/ y = <<k, builders[s][k].id>>
        BY <3>1 DEF SaveInv, MadeByBuilder
      <4>3. k = i
        BY <3>1, <4>1, <4>2
      <4> QED BY <3>1, <4>1, <4>2, <4>3
    <3>2. ASSUME NEW x \in pairs, NEW y \in pairs, x[1] = y[1] PROVE x = y
      <4>1. PICK i \in 1..Size[s] : x = <<i, builders[s][i].id>>
        BY <2>14, <3>2
      <4>2. PICK k \in 1..Size[s] : y = <<k, builders[s][k].id>>
        BY <2>14, <3>2
      <4> QED BY <3>2, <4>1, <4>2
    <3>3. CASE p \in made[s] /\ q \in made[s]
      BY <3>3 DEF SaveInv, DrawnOnce
    <3> QED BY <2>7, <3>1, <3>2, <3>3
  <2>15. NilIsStored(s)'
    <3>1. \A i \in 1..Size[s] : specs[i] \in new
      BY <2>1
    <3> QED BY <2>3, <2>4, <2>5, <2>7, <3>1 DEF NilIsStored
  <2>16. Whole(s)'
    <3>1. \A p \in pairs : p[1] \in 1..Size[s]
      BY <2>1
    <3>2. \A i \in 1..Size[s] : \E p \in pairs : p[1] = i
      <4> TAKE i \in 1..Size[s]
      <4>1. <<i, specs[i].id>> \in pairs
        BY <2>1
      <4> QED BY <4>1
    <3> HIDE DEF pairs
    <3>3. {p[1] : p \in pairs} = 1..Size[s]
      BY <3>1, <3>2
    <3>4. {p[1] : p \in made[s] \cup pairs} = {p[1] : p \in made[s]} \cup {p[1] : p \in pairs}
      OBVIOUS
    <3> QED BY <2>3, <2>7, <3>3, <3>4 DEF SaveInv, Whole
  <2> QED BY <2>9, <2>10, <2>11, <2>12, <2>13, <2>15, <2>16, <2>17, <2>18 DEF Keeps, SaveInv
<1> QED BY <1>1, <1>2

(* The save of a single builder.                                                 *)
LEMMA SqlSaveKeeps ==
  ASSUME CreateInv, NEW s \in Saves, NEW e, SqlSave(s, e)
  PROVE  Keeps(s) /\ Records(s)
<1> DEFINE row == RowOf(builders[s][1])
<1>1. phase[s] # "idle" /\ Size[s] = 1
  BY DEF SqlSave
<1>2. CASE Check(builders[s][1])
  <2>1. Insert(s, <<row>>, e)
    BY <1>2 DEF SqlSave
  <2>2. 1 \in 1..Size[s] /\ \A i \in 1..Size[s] : i = 1
    BY <1>1
  <2>3. RowFits(row, asked[s][1]) /\ (Typ = "User" => row.id = builders[s][1].id)
    BY <1>2, <2>2, RowAsAsked DEF CreateInv, SaveInv, BuildersFaithful
  <2> HIDE DEF row
  <2>4. DOMAIN <<row>> = 1..Size[s] /\ <<row>>[1] = row
    BY <1>1
  <2> QED BY <1>1, <2>1, <2>2, <2>3, <2>4, InsertKeeps, InsertRecords
<1>3. CASE ~Check(builders[s][1])
  <2>1. Refused(s, "Validation")
    BY <1>3 DEF SqlSave
  <2>2. Records(s)
    BY <2>1 DEF Refused, Records
  <2> QED BY <1>1, <2>1, <2>2, RefusedKeeps
<1> QED BY <1>2, <1>3

(* The batch of a bulk, with its last mutator.                                   *)
LEMMA BatchCreateKeeps ==
  ASSUME CreateInv, NEW s \in Saves, NEW e, BatchCreate(s, e)
  PROVE  Keeps(s) /\ Records(s)
<1> DEFINE n     == at[s]
           row   == RowOf(builders[s][n])
           specs == [nodes[s] EXCEPT ![n] = row]
<1>1. phase[s] # "idle" /\ n = Size[s]
  BY DEF BatchCreate
<1>2. CASE Check(builders[s][n])
  <2>1. Insert(s, specs, e)
    BY <1>2 DEF BatchCreate
  <2>2. n \in 1..Size[s] /\ Size[s] \in Nat
    BY <1>1 DEF CreateInv, CreateTypeOK, Globals, Shaped, Size, Saves
  <2>3. RowFits(row, asked[s][n]) /\ (Typ = "User" => row.id = builders[s][n].id)
    BY <1>2, <2>2, RowAsAsked DEF CreateInv, SaveInv, BuildersFaithful
  <2> HIDE DEF row
  <2>4. /\ DOMAIN specs = 1..Size[s] /\ specs[n] = row
        /\ \A i \in 1..Size[s] : i # n => specs[i] = nodes[s][i] /\ i < n
    BY <1>1, <2>2 DEF CreateInv, CreateTypeOK, Shaped
  <2> HIDE DEF specs
  <2>5. \A i \in 1..Size[s] : RowFits(specs[i], asked[s][i])
    BY <1>1, <2>3, <2>4 DEF CreateInv, SaveInv, NodesFaithful
  <2>6. Typ = "User" => \A i \in 1..Size[s] : specs[i].id = builders[s][i].id
    BY <1>1, <2>3, <2>4 DEF CreateInv, SaveInv, Drawn
  <2> QED BY <1>1, <2>1, <2>4, <2>5, <2>6, InsertKeeps, InsertRecords
<1>3. CASE ~Check(builders[s][n])
  <2>1. Refused(s, "Validation")
    BY <1>3 DEF BatchCreate
  <2>2. Records(s)
    BY <2>1 DEF Refused, Records
  <2> QED BY <1>1, <2>1, <2>2, RefusedKeeps
<1> QED BY <1>2, <1>3

--------------------------------------------------------------------------------
(* So every step of a save keeps the invariant of its builders.                  *)
LEMMA StepKeeps ==
  ASSUME CreateInv, NEW s \in Saves, StepOf(s)
  PROVE  Keeps(s)
<1>1. ASSUME NEW i \in 1..Size[s], NEW f \in Columns, NEW v \in work.keys, SetField(s, i, f, v)
      PROVE  Keeps(s)
  BY <1>1, SetFieldKeeps
<1>4. ASSUME NEW i \in 1..Size[s], NEW v, SetID(s, i, v) PROVE Keeps(s)
  BY <1>4, SetIDKeeps
<1>2. ASSUME Hooked(s) PROVE Keeps(s)
  BY <1>2, HooksKeep, HookResetsKeeps DEF Hooked
<1>3. ASSUME NEW e, SqlSave(s, e) \/ BatchCreate(s, e) PROVE Keeps(s)
  BY <1>3, SqlSaveKeeps, BatchCreateKeeps
<1> QED BY <1>1, <1>2, <1>3, <1>4, SaveKeeps, DescendKeeps DEF StepOf

(* Only the clock and the saves move.                                            *)
LEMMA NextIsAStep ==
  ASSUME Next
  PROVE  Tick \/ \E s \in Saves : StepOf(s)
BY DEF Next, StepOf

(* The invariant holds to begin with.                                            *)
LEMMA CreateInit ==
  ASSUME Init
  PROVE  CreateInv
<1>1. \A s \in Saves : Size[s] \in Nat
  BY DEF Init, Size, Saves
<1>2. \A s \in Saves : \A i \in 1..Size[s] :
        /\ DOMAIN builders[s][i] = MutationFields
        /\ Faithful(builders[s][i], asked[s][i])
  BY DEF Init, NewMutation, Nothing, MutationFields, Faithful
<1>3. Globals
  BY DEF Init, Globals, Phases
<1>4. \A s \in Saves : Shaped(s)
  BY <1>2 DEF Init, Shaped
<1>5. ASSUME NEW s \in Saves PROVE SaveInv(s)
  <2>1. BuildersFaithful(s)
    BY <1>2 DEF BuildersFaithful
  <2>2. NodesFaithful(s) /\ Drawn(s)
    BY DEF Init, NodesFaithful, Drawn
  <2>3. MadeByBuilder(s) /\ DrawnOnce(s) /\ NilIsStored(s) /\ Whole(s)
    BY DEF Init, MadeByBuilder, DrawnOnce, NilIsStored, Whole
  <2> QED BY <2>1, <2>2, <2>3 DEF SaveInv
<1> QED BY <1>3, <1>4, <1>5 DEF CreateInv, CreateTypeOK

(* And after every step.                                                         *)
LEMMA CreateStep ==
  ASSUME CreateInv, [Next]_vars
  PROVE  CreateInv'
<1>1. ASSUME Grows, Saves' = Saves, Globals', \A q \in Saves : Same(q) PROVE CreateInv'
  BY <1>1, SameKeeps DEF CreateInv, CreateTypeOK
<1>2. CASE Tick
  <2>1. Grows /\ Saves' = Saves /\ \A q \in Saves : Same(q)
    BY <1>2 DEF Tick, Grows, Same, CreateInv, CreateTypeOK, Globals, Saves
  <2>2. Globals'
    BY <1>2, <2>1 DEF Tick, CreateInv, CreateTypeOK, Globals
  <2> QED BY <1>1, <2>1, <2>2
<1>3. CASE UNCHANGED vars
  <2>1. Grows /\ Saves' = Saves /\ \A q \in Saves : Same(q)
    BY <1>3 DEF vars, Grows, Same, CreateInv, CreateTypeOK, Globals, Saves
  <2>2. Globals'
    BY <1>3, <2>1 DEF vars, CreateInv, CreateTypeOK, Globals
  <2> QED BY <1>1, <2>1, <2>2
<1>4. ASSUME NEW s \in Saves, StepOf(s) PROVE CreateInv'
  <2>1. Keeps(s)
    BY <1>4, StepKeeps
  <2>2. Saves' = Saves
    BY <2>1 DEF Keeps, Grows, Saves
  <2>3. \A q \in Saves \ {s} : Shaped(q)' /\ SaveInv(q)'
    BY <2>1, SameKeeps DEF Keeps, CreateInv
  <2> QED BY <2>1, <2>2, <2>3 DEF Keeps, CreateInv, CreateTypeOK
<1> QED BY <1>2, <1>3, <1>4, NextIsAStep

(* The invariant of the create builders, for every workload.                     *)
THEOREM CreateInvariance == Spec => []CreateInv
<1>1. Init => CreateInv
  BY CreateInit
<1>2. CreateInv /\ [Next]_vars => CreateInv'
  BY CreateStep
<1> QED BY <1>1, <1>2, PTL DEF Spec

(* A bulk is stored whole or not at all, however often it is tried.               *)
THEOREM AllOrNoneAlways == Spec => []AllOrNone
<1>1. CreateInv => AllOrNone
  BY DEF CreateInv, SaveInv, Whole, AllOrNone
<1> QED BY <1>1, CreateInvariance, PTL

(* A builder of a user makes one row at most with an id it has drawn itself; any   *)
(* other has an id that a caller or a hook gave it with SetID.                   *)
THEOREM CreatesOnceAlways == Spec => []CreatesOnce
<1>1. CreateInv => CreatesOnce
  BY DEF CreateInv, SaveInv, DrawnOnce, CreatesOnce
<1> QED BY <1>1, CreateInvariance, PTL

(* What a Save that returns no error hands out is on record, unless a hook has    *)
(* returned nil in the place of the next builder of a bulk.                      *)
THEOREM AnsweredAreStoredAlways == Spec => []AnsweredAreStored
<1>1. CreateInv => AnsweredAreStored
  BY DEF CreateInv, SaveInv, NilIsStored, AnsweredAreStored
<1> QED BY <1>1, CreateInvariance, PTL


(* A new row has what was asked for, and the defaults for the rest.               *)
THEOREM RowsAsAskedAlways == Spec => RowsAsAsked
<1> DEFINE A == \A s \in Saves : Records(s)
<1>1. ASSUME CreateInv, [Next]_vars PROVE A
  <2>1. CASE Tick \/ UNCHANGED vars
    BY <2>1 DEF Tick, vars, Records
  <2>2. ASSUME NEW s \in Saves, StepOf(s) PROVE A
    <3>1. ASSUME NEW q \in Saves \ {s} PROVE Records(q)
      BY <1>1, <2>2, <3>1, StepKeeps DEF Keeps, Same, Records
    <3>2. Records(s)
      <4>1. CASE UNCHANGED made
        BY <4>1 DEF Records
      <4>2. ASSUME NEW e, SqlSave(s, e) \/ BatchCreate(s, e) PROVE Records(s)
        BY <1>1, <4>2, SqlSaveKeeps, BatchCreateKeeps
      <4>3. UNCHANGED made \/ \E e : SqlSave(s, e) \/ BatchCreate(s, e)
        BY <2>2 DEF StepOf, SetField, SetID, Save, Hooked, HookCalls, HookRetries, HookResets,
                    HookEnds, HookReturns, Descend, Refused
      <4> QED BY <4>1, <4>2, <4>3
    <3> QED BY <3>1, <3>2
  <2> QED BY <1>1, <2>1, <2>2, NextIsAStep
<1>2. A => \A s \in Saves : \A p \in made'[s] \ made[s] :
             \E r \in rows' : r.id = p[2] /\ AsAsked(r, asked[s][p[1]])
  BY DEF Records
<1>3. CreateInv /\ [Next]_vars =>
        [\A s \in Saves : \A p \in made'[s] \ made[s] :
           \E r \in rows' : r.id = p[2] /\ AsAsked(r, asked[s][p[1]])]_vars
  BY <1>1, <1>2
<1> QED BY <1>3, CreateInvariance, PTL DEF Spec, RowsAsAsked
================================================================================
