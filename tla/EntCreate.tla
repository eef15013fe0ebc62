------------------------------ MODULE EntCreate ------------------------------
(* user_create.go and refresh_token_create.go: builders that insert a row, alone *)
(* or in bulk, where the mutator of one builder calls that of the next and the   *)
(* last one inserts them all.  Hooks run around each; what they do is chosen     *)
(* anew at every call.  sqlgraph and PostgreSQL are external: an INSERT is        *)
(* atomic, ids and the unique column do not repeat, an answer may be lost.       *)
EXTENDS EntMutation, Sequences

CONSTANT Workloads        \* what the callers and the hooks do, and the bounds on it

(* A workload: how many rows each builder is for, of which type, the columns and *)
(* keys that matter, the ids a caller may choose for a user, what hooks do, and     *)
(* bounds on the Saves of one builder, the setters called on it, the retries of   *)
(* a hook and the clock.                                                         *)
ASSUME CreateAssumption ==
  \A w \in Workloads :
    /\ w.typ \in {"User", "Token"} /\ \A s \in DOMAIN w.size : w.size[s] \in Nat \ {0}
    /\ w.columns \subseteq (IF w.typ = "User" THEN UserFields ELSE TokenFields)
    /\ w.hooks \subseteq {"reset", "refuse", "skip", "late", "retry", "rename"}
    /\ {w.maxSaves, w.maxCalls, w.maxRetries, w.maxTime} \subseteq Nat

VARIABLES work,           \* the workload, which stays
          rows,           \* the table
          now,
          ids,            \* ids given out so far, uuid.New and the database's
          builders,       \* builders[s][i]: the mutation of a builder
          at, phase,      \* the builder a Save of s is at, and where
          err, tries,     \* what its mutator returned; the retries so far
          nodes,          \* the nodes a Save hands out
          saves, calls,
          asked,          \* history: what the caller asked for and no hook took back
          given,          \* history: <<i, id>> that a caller or a hook gave with SetID
          made,           \* history: <<i, id>> of the rows s has inserted
          skipped         \* history: those whose last Save a hook cut short with nil

vars == <<work, rows, now, ids, builders, at, phase, err, tries, nodes, saves, calls,
          asked, given, made, skipped>>

Typ       == work.typ
Saves     == DOMAIN work.size     \* the builders of the caller, single or bulk
Size      == work.size
Columns   == work.columns
HookKinds == work.hooks

UniqueColumns == IF Typ = "User" THEN {"provider", "provider_user_id"} ELSE {"token_hash"}

UniqueKey(r) == [f \in UniqueColumns \cap Columns |-> r[f]]

Init ==
  /\ work \in Workloads /\ skipped = {}
  /\ rows = {} /\ now = 0 /\ ids = 0
  /\ builders = [s \in Saves |-> [i \in 1..Size[s] |-> NewMutation(Typ, "Create", Nil, {})]]
  /\ at = [s \in Saves |-> 0] /\ phase = [s \in Saves |-> "idle"]
  /\ err = [s \in Saves |-> "none"] /\ tries = at
  /\ nodes = [s \in Saves |-> [i \in 1..Size[s] |-> Nil]]
  /\ saves = at /\ calls = at
  /\ asked = [s \in Saves |-> [i \in 1..Size[s] |-> Nothing]]
  /\ made = [s \in Saves |-> {}] /\ given = made

(* The setters; a pointer that is nil asks for nothing.                          *)
SetField(s, i, f, v) ==
  /\ phase[s] = "idle" /\ calls[s] < work.maxCalls /\ f \in Columns
  /\ builders' = [builders EXCEPT ![s][i] = Assign(@, f, v)]
  /\ asked' = [asked EXCEPT ![s][i] = With(@, f, v)]
  /\ calls' = [calls EXCEPT ![s] = @ + 1]
  /\ UNCHANGED <<work, rows, now, ids, at, phase, err, tries, nodes, saves, given, made, skipped>>

(* SetID of a user: by the caller, or by a hook of the builder s is at, before it  *)
(* calls the next one or after.                                                  *)
SetID(s, i, v) ==
  /\ Typ = "User" /\ v # Nil /\ calls[s] < work.maxCalls
  /\ \/ phase[s] = "idle"
     \/ "rename" \in HookKinds /\ phase[s] \in {"hook", "returned"} /\ i = at[s]
  /\ builders' = [builders EXCEPT ![s][i].id = v]
  /\ given' = [given EXCEPT ![s] = @ \cup {<<i, v>>}]
  /\ calls' = [calls EXCEPT ![s] = @ + 1]
  /\ UNCHANGED <<work, rows, now, ids, at, phase, err, tries, nodes, saves, asked, made, skipped>>

Default(f) ==
  CASE f \in {"verified_email", "is_admin"} -> FALSE
    [] f = "provider"                       -> "google"
    [] OTHER                                -> now

(* Mutant: what the caller set is replaced.                                      *)
UserDefaultsAll(m, id) ==
  LET fs == {"verified_email", "provider", "created_at", "updated_at", "is_admin"}
  IN  [m EXCEPT !.value = Over([f \in fs |-> Default(f)], @), !.id = IF @ = Nil THEN id ELSE @]

(* Mutant: every Save draws a new id.                                            *)
UserDefaultsNewID(m, id) ==
  LET fs == {"verified_email", "provider", "created_at", "updated_at", "is_admin"}
  IN  [m EXCEPT !.value = Over(@, [f \in fs |-> Default(f)]), !.id = id]

(* UserCreate.defaults: what is not set yet, the id included.                    *)
UserDefaults(m, id) ==
  LET fs == {"verified_email", "provider", "created_at", "updated_at", "is_admin"}
  IN  [m EXCEPT !.value = Over(@, [f \in fs |-> Default(f)]), !.id = IF @ = Nil THEN id ELSE @]

(* Mutant: the same for a token.                                                 *)
TokenDefaultsAll(m) == [m EXCEPT !.value = With(@, "created_at", now)]

TokenDefaults(m) == [m EXCEPT !.value = Over(@, [f \in {"created_at"} |-> now])]

(* UserCreate.check: every column has to be set.                                 *)
UserCheck(m) == UserFields \cap Columns \subseteq DOMAIN m.value

TokenCheck(m) == {"token_hash", "created_at"} \cap Columns \subseteq DOMAIN m.value

Check(m) == IF Typ = "User" THEN UserCheck(m) ELSE TokenCheck(m)

(* createSpec: the node and the row; a token has no id yet.                      *)
UserSpec(m) == With([f \in Columns |-> m.value[f]], "id", m.id)

TokenSpec(m) ==
  With([f \in Columns |-> IF IsSet(m, f) THEN m.value[f] ELSE Nil], "id", Nil)

RowOf(m) == IF Typ = "User" THEN UserSpec(m) ELSE TokenSpec(m)

(* Save: the defaults of every builder, then the mutator of the first.           *)
Save(s) ==
  /\ phase[s] = "idle" /\ saves[s] < work.maxSaves
  /\ builders' = [builders EXCEPT ![s] = [i \in DOMAIN @ |->
       IF Typ = "User" THEN UserDefaults(@[i], ids + i) ELSE TokenDefaults(@[i])]]
  /\ ids' = IF Typ = "User" THEN ids + Size[s] ELSE ids
  /\ nodes' = [nodes EXCEPT ![s] = [i \in DOMAIN @ |-> Nil]]
  /\ at' = [at EXCEPT ![s] = 1] /\ phase' = [phase EXCEPT ![s] = "hook"]
  /\ tries' = [tries EXCEPT ![s] = 0]
  /\ saves' = [saves EXCEPT ![s] = @ + 1] /\ skipped' = skipped \ {s}
  /\ UNCHANGED <<work, rows, now, err, calls, asked, given, made>>

--------------------------------------------------------------------------------
(* The hooks of the builder s is at, before they call the mutator ...            *)
HookCalls(s) ==
  /\ phase[s] = "hook" /\ phase' = [phase EXCEPT ![s] = "mutator"]
  /\ UNCHANGED <<work, rows, now, ids, builders, at, err, tries, nodes, saves, calls, asked, given, made, skipped>>

HookResets(s, f) ==
  /\ "reset" \in HookKinds /\ phase[s] = "hook" /\ f \in DOMAIN builders[s][at[s]].value
  /\ phase' = [phase EXCEPT ![s] = "mutator"]
  /\ builders' = [builders EXCEPT ![s][at[s]] = Reset(@, f)]
  /\ asked' = [asked EXCEPT ![s][at[s]] = Restrict(@, DOMAIN @ \ {f})]
  /\ UNCHANGED <<work, rows, now, ids, at, err, tries, nodes, saves, calls, given, made, skipped>>

(* Mutant: a mutator goes on whatever the next one has returned.                 *)
LeaveQuiet(s, e, ms) ==
  /\ IF at[s] = 1
       THEN /\ phase' = [phase EXCEPT ![s] = "idle"]
            /\ builders' = [builders EXCEPT ![s] = ms]
            /\ UNCHANGED at
       ELSE /\ at' = [at EXCEPT ![s] = @ - 1]
            /\ phase' = [phase EXCEPT ![s] = "returned"]
            /\ builders' = [builders EXCEPT ![s] = [ms EXCEPT ![at[s] - 1].done = TRUE]]
  /\ err' = [err EXCEPT ![s] = IF at[s] = 1 THEN e ELSE "nil"]
  /\ UNCHANGED <<work, now, tries, saves, calls, asked, given>>

(* A hook returns e: to Save, or to the mutator of the builder before, which      *)
(* takes its node for stored when e is nil, and returns in its turn.             *)
Leave(s, e, ms) ==
  /\ IF at[s] = 1
       THEN /\ phase' = [phase EXCEPT ![s] = "idle"]
            /\ builders' = [builders EXCEPT ![s] = ms]
            /\ UNCHANGED at
       ELSE /\ at' = [at EXCEPT ![s] = @ - 1]
            /\ phase' = [phase EXCEPT ![s] = "returned"]
            /\ builders' = [builders EXCEPT ![s] = [ms EXCEPT ![at[s] - 1].done = @ \/ e = "nil"]]
  /\ err' = [err EXCEPT ![s] = e]
  /\ UNCHANGED <<work, now, tries, saves, calls, asked, given>>

(* A hook that does not call the next one, and fails or returns nil: withHooks    *)
(* makes nil an error, the mutator of a bulk does not.                           *)
HookEnds(s, e) ==
  /\ phase[s] = "hook" /\ e \in HookKinds
  /\ IF e = "skip" /\ Size[s] > 1
       THEN Leave(s, "nil", builders[s]) /\ skipped' = skipped \cup {s}
       ELSE Leave(s, "hook error", builders[s]) /\ UNCHANGED skipped
  /\ UNCHANGED <<rows, ids, nodes, made>>

(* ... and after: they pass on what it returned, or fail, or try again.          *)
HookReturns(s, late) ==
  /\ phase[s] = "returned" /\ (late => "late" \in HookKinds)
  /\ Leave(s, IF late THEN "hook error" ELSE err[s], builders[s])
  /\ UNCHANGED <<rows, ids, nodes, made, skipped>>

HookRetries(s) ==
  /\ "retry" \in HookKinds /\ phase[s] = "returned" /\ err[s] # "nil" /\ tries[s] < work.maxRetries
  /\ tries' = [tries EXCEPT ![s] = @ + 1]
  /\ phase' = [phase EXCEPT ![s] = "mutator"]
  /\ UNCHANGED <<work, rows, now, ids, builders, at, err, nodes, saves, calls, asked, given, made, skipped>>

--------------------------------------------------------------------------------
Returned(s, e) ==
  /\ phase' = [phase EXCEPT ![s] = "returned"] /\ err' = [err EXCEPT ![s] = e]
  /\ UNCHANGED <<work, now, at, tries, saves, calls, asked, given, skipped>>

Refused(s, e) ==
  Returned(s, e) /\ UNCHANGED <<rows, ids, builders, nodes, made>>

Fits(new) ==
  /\ \A r, q \in new : r # q => r.id # q.id /\ UniqueKey(r) # UniqueKey(q)
  /\ \A r \in new, q \in rows : r.id # q.id /\ UniqueKey(r) # UniqueKey(q)

(* PostgreSQL numbers the tokens as it inserts them, and answers with the ids.    *)
Numbered(specs) ==
  IF Typ = "User" THEN specs
  ELSE [i \in DOMAIN specs |-> With(specs[i], "id", ids + i)]

(* One INSERT of the rows of s; an error of the driver may hide that it was done. *)
Insert(s, unnumbered, e) ==
  LET specs == Numbered(unnumbered)
      new   == {specs[i] : i \in DOMAIN specs}
  IN  IF ~Fits(new) \/ Cardinality(new) < Len(specs)
        THEN Refused(s, "Constraint")
        ELSE /\ Returned(s, e)
             /\ \/ /\ rows' = rows \cup new
                   /\ made' = [made EXCEPT ![s] = @ \cup {<<i, specs[i].id>> : i \in DOMAIN specs}]
                   /\ ids' = IF Typ = "Token" THEN ids + Len(specs) ELSE ids
                \/ e # "nil" /\ UNCHANGED <<rows, made, ids>>
             /\ nodes' = [nodes EXCEPT ![s] = specs]
             /\ builders' = [builders EXCEPT ![s][at[s]].done = @ \/ e = "nil"]

(* sqlSave of a single builder.                                                  *)
SqlSave(s, e) ==
  /\ phase[s] = "mutator" /\ Size[s] = 1
  /\ IF Check(builders[s][1]) THEN Insert(s, <<RowOf(builders[s][1])>>, e)
                              ELSE Refused(s, "Validation")

(* Mutant: every mutator of a bulk inserts its own row.                          *)
DescendInserting(s) ==
  /\ phase[s] = "mutator" /\ at[s] < Size[s] /\ Check(builders[s][at[s]])
  /\ LET spec == RowOf(builders[s][at[s]])
     IN  /\ Fits({spec}) /\ rows' = rows \cup {spec}
         /\ made' = [made EXCEPT ![s] = @ \cup {<<at[s], spec.id>>}]
         /\ nodes' = [nodes EXCEPT ![s][at[s]] = spec]
  /\ at' = [at EXCEPT ![s] = @ + 1] /\ phase' = [phase EXCEPT ![s] = "hook"]
  /\ UNCHANGED <<work, now, ids, builders, err, tries, saves, calls, asked, given, skipped>>

(* The mutator of a bulk's builder but the last.                                 *)
Descend(s) ==
  /\ phase[s] = "mutator" /\ at[s] < Size[s]
  /\ IF Check(builders[s][at[s]])
       THEN /\ nodes' = [nodes EXCEPT ![s][at[s]] = RowOf(builders[s][at[s]])]
            /\ at' = [at EXCEPT ![s] = @ + 1] /\ phase' = [phase EXCEPT ![s] = "hook"]
            /\ UNCHANGED <<work, rows, now, ids, builders, err, tries, saves, calls, asked, given, made, skipped>>
       ELSE Refused(s, "Validation")

(* The last one inserts what all of them have specified.                         *)
BatchCreate(s, e) ==
  /\ phase[s] = "mutator" /\ at[s] = Size[s] /\ Size[s] > 1
  /\ IF Check(builders[s][at[s]])
       THEN Insert(s, [nodes[s] EXCEPT ![at[s]] = RowOf(builders[s][at[s]])], e)
       ELSE Refused(s, "Validation")

Tick ==
  /\ now < work.maxTime /\ now' = now + 1
  /\ UNCHANGED <<work, rows, ids, builders, at, phase, err, tries, nodes, saves, calls, asked, given, made, skipped>>

Hooked(s) ==
  \/ HookCalls(s) \/ HookRetries(s)
  \/ \E f \in Columns : HookResets(s, f)
  \/ \E e \in {"refuse", "skip"} : HookEnds(s, e)
  \/ \E late \in BOOLEAN : HookReturns(s, late)

Next ==
  \/ Tick
  \/ \E s \in Saves :
       \/ \E i \in 1..Size[s], f \in Columns, v \in work.keys : SetField(s, i, f, v)
       \/ \E i \in 1..Size[s], v \in work.names \cup {r.id : r \in rows} : SetID(s, i, v)
       \/ Save(s) \/ Hooked(s) \/ Descend(s)
       \/ \E e \in {"nil", "error"} : SqlSave(s, e) \/ BatchCreate(s, e)

Spec == Init /\ [][Next]_vars

--------------------------------------------------------------------------------
(* A bulk is stored whole or not at all, whatever its hooks do, however often it *)
(* is tried.                                                                     *)
AllOrNone ==
  \A s \in Saves : {p[1] : p \in made[s]} \in {{}, 1..Size[s]}

(* A builder of a user makes one row with an id that it has drawn itself, saved   *)
(* again, retried by a hook or given another key in between: the id stays         *)
(* (user_create.go:215).  Another row takes an id that somebody gave it.          *)
CreatesOnce ==
  Typ = "User" => \A s \in Saves : \A p, q \in made[s] \ given[s] : p[1] = q[1] => p = q

(* What a Save that returns no error hands out is on record ("Save creates the   *)
(* User entities in the database", ent/user_create.go:361), unless a hook has    *)
(* returned nil in the place of the next builder of a bulk.                      *)
AnsweredAreStored ==
  \A s \in Saves \ skipped : phase[s] = "idle" /\ err[s] = "nil" =>
    \A i \in 1..Size[s] : nodes[s][i] \in rows

(* What createSpec may put in a column nobody asked for.                         *)
Defaulted(f, v) ==
  \/ f \in {"verified_email", "is_admin"} /\ v = FALSE
  \/ f = "provider" /\ v = "google"
  \/ f = "revoked_at" /\ v = Nil
  \/ f \in {"created_at", "updated_at"} /\ v \in 0..now

AsAsked(row, wish) ==
  \A f \in Columns : IF f \in DOMAIN wish THEN row[f] = wish[f] ELSE Defaulted(f, row[f])

(* A new row has what the caller asked for, and the defaults where he asked for   *)
(* nothing; no hook can take a required column away.                             *)
RowsAsAsked ==
  [][\A s \in Saves : \A p \in made'[s] \ made[s] :
       \E r \in rows' : r.id = p[2] /\ AsAsked(r, asked[s][p[1]])]_vars
==============================================================================
