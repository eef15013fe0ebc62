------------------------------- MODULE EntGraph -------------------------------
(* ent's update and delete builders over the two tables: user_update.go,         *)
(* refresh_token_update.go, user_delete.go, refresh_token_delete.go and the      *)
(* clients that open them.  Several builders are at work; a Save is the defaults *)
(* and the hooks, then one transaction.  sqlgraph and PostgreSQL are external:    *)
(* the transaction is atomic, edges are cleared before they are added, an edge   *)
(* is added only to a row that has none.                                         *)
EXTENDS EntMutation, Sequences, FiniteSetsExt

CONSTANTS Builders, UserIds, TokenIds,
          Workloads           \* what the callers do, and the bounds on it

(* A workload: the rows there are to begin with, the methods of the clients and  *)
(* of the builders that are called, the columns that matter and their texts, and *)
(* bounds on the builders at work, on the calls of one builder, Save included,   *)
(* and on the clock.                                                             *)
ASSUME GraphAssumption ==
  /\ Nil \notin UserIds \cup TokenIds
  /\ \A w \in Workloads :
       /\ w.users \subseteq UserIds
       /\ \A o \in w.owners : DOMAIN o \subseteq TokenIds /\ Range(o) \subseteq w.users \cup {Nil}
       /\ w.opens \subseteq {"User", "Token"} \X
                            {"Update", "UpdateOneID", "UpdateOne", "Delete", "DeleteOneID"}
       /\ w.calls \subseteq STRING
       /\ w.userColumns \subseteq UserFields /\ w.tokenColumns \subseteq TokenFields
       /\ {w.actors, w.maxCalls, w.maxTime} \subseteq Nat

TimeColumns == {"created_at", "updated_at", "revoked_at"}
FlagColumns == {"verified_email", "is_admin"}

(* The rows there can be; none is the nil that stands for a missing one.          *)
OtherValues(w) == UserIds \cup TokenIds \cup 0..w.maxTime \cup w.texts \cup {Nil}

RowsOf(w, columns) ==
  {Over(flags, rest) : flags \in [columns \cap FlagColumns -> BOOLEAN],
                       rest \in [columns \ FlagColumns -> OtherValues(w)]}

ASSUME RowAssumption ==
  \A w \in Workloads : Nil \notin RowsOf(w, w.userColumns) \cup RowsOf(w, w.tokenColumns \cup {"owner"})

VARIABLES work,               \* the workload, which stays
          users, tokens,      \* the rows by id, or Nil; a token's has its owner
          now,
          mut,                \* the mutation of each builder, or Nil
          cols,               \* whether Select was given columns there are
          pc,                 \* building, or in the hooks of a Save
          res,                \* what the last Save or Exec returned
          log,                \* history: the calls of each builder
          since,              \* history: when its first Save began
          past,               \* history: the node's versions before its first answered Save
          told                \* history: what the OldX calls returned

Calls        == work.calls
UserColumns  == work.userColumns
TokenColumns == work.tokenColumns
MaxCalls     == work.maxCalls

tables  == <<work, users, tokens, now>>
history == <<since, past, told>>
vars    == <<tables, mut, cols, pc, res, log, history>>

Domain(f) ==
  IF f \in TimeColumns THEN 0..work.maxTime
  ELSE IF f \in FlagColumns THEN BOOLEAN ELSE work.texts

(* Rows the tables may hold when the builders come: one user has what the other  *)
(* has not, tokens of one, of the other and of nobody.                           *)
Seed(f, i) ==
  IF f = "revoked_at" THEN Nil
  ELSE IF f \in TimeColumns THEN 0
  ELSE IF f \in FlagColumns THEN FALSE ELSE i

Init ==
  /\ work \in Workloads
  /\ users = [u \in UserIds |-> IF u \in work.users THEN [f \in UserColumns |-> Seed(f, u)] ELSE Nil]
  /\ \E owner \in work.owners :
       tokens = [k \in TokenIds |->
                  IF k \in DOMAIN owner
                    THEN With([f \in TokenColumns |-> Seed(f, k)], "owner", owner[k]) ELSE Nil]
  /\ now = 0
  /\ mut = [b \in Builders |-> Nil] /\ cols = [b \in Builders |-> TRUE]
  /\ pc = [b \in Builders |-> "none"] /\ res = pc
  /\ log = [b \in Builders |-> << >>] /\ since = mut
  /\ past = [b \in Builders |-> {}] /\ told = past

Entry(call, on, arg) == [call |-> call, on |-> on, arg |-> arg]
ColumnsOf(typ) == IF typ = "User" THEN UserColumns ELSE TokenColumns
IdsOf(typ)  == IF typ = "User" THEN UserIds ELSE TokenIds
Row(typ, i) == IF typ = "User" THEN users[i] ELSE tokens[i]
Stored(typ) == {i \in IdsOf(typ) : Row(typ, i) # Nil}

--------------------------------------------------------------------------------
(* The clients: Update, UpdateOneID, UpdateOne with a node read before, Delete,  *)
(* and DeleteOneID, which is Delete with a predicate on the id.                  *)
Open(b, typ, how, op, id, where, old) ==
  /\ <<typ, how>> \in work.opens /\ pc[b] = "none"
  /\ Cardinality({c \in Builders : pc[c] # "none"}) < work.actors
  /\ mut' = [mut EXCEPT ![b] = [NewMutation(typ, op, id, where) EXCEPT !.old = old]]
  /\ pc' = [pc EXCEPT ![b] = "building"]
  /\ log' = [log EXCEPT ![b] = <<Entry("Open", how, id)>>]
  /\ past' = [past EXCEPT ![b] = IF id \in Stored(typ) THEN {Row(typ, id)} ELSE {}]
  /\ UNCHANGED <<tables, cols, res, since, told>>

OpenMany(b, typ, op) == Open(b, typ, op, op, Nil, IdsOf(typ), Nil)

UpdateOneID(b, typ, i) == Open(b, typ, "UpdateOneID", "UpdateOne", i, IdsOf(typ), Nil)

UpdateOne(b, typ, i) ==
  i \in Stored(typ) /\ Open(b, typ, "UpdateOne", "UpdateOne", i, IdsOf(typ), Row(typ, i))

DeleteOneID(b, typ, i) == Open(b, typ, "DeleteOneID", "DeleteOne", i, {i}, Nil)

--------------------------------------------------------------------------------
(* A call on the builder, or by one of its hooks on the mutation.                *)
Edits(b, call, on, arg, m) ==
  /\ call \in Calls /\ pc[b] \in {"building", "hooks"} /\ Len(log[b]) < MaxCalls
  /\ mut' = [mut EXCEPT ![b] = m]
  /\ log' = [log EXCEPT ![b] = Append(@, Entry(call, on, arg))]
  /\ UNCHANGED <<tables, cols, pc, res, history>>

IsUpdate(b, typ) == pc[b] # "none" /\ mut[b].typ = typ /\ mut[b].op \in {"Update", "UpdateOne"}

(* The setters of UserUpdate; a hook may also set created_at in the mutation.    *)
SetUserField(b, f, v) ==
  IsUpdate(b, "User") /\ f \in UserColumns /\ Edits(b, "Set", f, v, Assign(mut[b], f, v))

(* The setters of UserUpdateOne that take a pointer: nil leaves things alone.    *)
SetNillableUserField(b, f, v) ==
  /\ IsUpdate(b, "User") /\ f \in UserColumns \ TimeColumns
  /\ IF v = Nil THEN Edits(b, "SetNillable", "nothing", Nil, mut[b])
                ELSE Edits(b, "SetNillable", f, v, Assign(mut[b], f, v))

SetTokenField(b, f, v) ==
  IsUpdate(b, "Token") /\ f \in TokenColumns /\ Edits(b, "Set", f, v, Assign(mut[b], f, v))

ClearTokenField(b) ==
  /\ IsUpdate(b, "Token") /\ "revoked_at" \in TokenColumns
  /\ Edits(b, "Clear", "revoked_at", Nil, Clear(mut[b], "revoked_at"))

ResetField(b, f) ==
  /\ IsUpdate(b, "User") \/ IsUpdate(b, "Token")
  /\ f \in DOMAIN mut[b].value \cup mut[b].cleared
  /\ Edits(b, "Reset", f, Nil, Reset(mut[b], f))

AddRefreshTokens(b, ks) ==
  IsUpdate(b, "User") /\ Edits(b, "Add", "edge", ks, AddIDs(mut[b], ks))

RemoveRefreshTokens(b, ks) ==
  IsUpdate(b, "User") /\ Edits(b, "Remove", "edge", ks, RemoveIDs(mut[b], ks))

ClearRefreshTokens(b) ==
  IsUpdate(b, "User") /\ Edits(b, "ClearEdge", "edge", Nil, ClearEdge(mut[b]))

ResetRefreshTokens(b) ==
  IsUpdate(b, "User") /\ Edits(b, "ResetEdge", "edge", Nil, ResetEdge(mut[b]))

SetOwner(b, u) ==
  IsUpdate(b, "Token") /\ Edits(b, "SetOwner", "edge", u, SetOwnerID(mut[b], u))

ClearOwner(b) ==
  IsUpdate(b, "Token") /\ Edits(b, "ClearEdge", "edge", Nil, ClearEdge(mut[b]))

ResetOwnerEdge(b) ==
  IsUpdate(b, "Token") /\ Edits(b, "ResetEdge", "edge", Nil, ResetOwner(mut[b]))

AddWhere(b, is) ==
  pc[b] # "none" /\ is \subseteq IdsOf(mut[b].typ) /\ Edits(b, "Where", "ids", is, Where(mut[b], is))

(* UpdateOne's Select: whether the columns are valid is seen by sqlSave.         *)
Select(b, valid) ==
  /\ "Select" \in Calls /\ pc[b] = "building" /\ mut[b].op = "UpdateOne" /\ Len(log[b]) < MaxCalls
  /\ cols' = [cols EXCEPT ![b] = valid]
  /\ log' = [log EXCEPT ![b] = Append(@, Entry("Select", "cols", valid))]
  /\ UNCHANGED <<tables, mut, pc, res, history>>

(* OldX, which may have to fetch the node with a query that may fail.            *)
Old(b, f) ==
  /\ "Old" \in Calls /\ pc[b] \in {"building", "hooks"} /\ OldAllowed(mut[b])
  /\ f \in ColumnsOf(mut[b].typ)
  /\ \E row \in {Row(mut[b].typ, mut[b].id), Nil} : mut' = [mut EXCEPT ![b] = FetchOld(@, row)]
  /\ told' = [told EXCEPT ![b] = @ \cup {<<f, OldValue(mut'[b], f)>>}]
  /\ UNCHANGED <<tables, cols, pc, res, log, since, past>>

--------------------------------------------------------------------------------
(* Mutant: the stamp of the last save, or of the caller, is replaced.            *)
DefaultsAlways(m) == Assign(m, "updated_at", now)

(* UserUpdate.defaults.                                                          *)
Defaults(m) == IF IsSet(m, "updated_at") THEN m ELSE Assign(m, "updated_at", now)

Begins(b, m) ==
  /\ Len(log[b]) < MaxCalls
  /\ mut' = [mut EXCEPT ![b] = m]
  /\ pc' = [pc EXCEPT ![b] = "hooks"]
  /\ log' = [log EXCEPT ![b] = Append(@, Entry("Save", "save", Nil))]
  /\ since' = [since EXCEPT ![b] = IF @ = Nil THEN now ELSE @]
  /\ UNCHANGED <<tables, cols, res, past, told>>

(* Save up to the hooks.                                                         *)
SaveUser(b) == pc[b] = "building" /\ IsUpdate(b, "User") /\ Begins(b, Defaults(mut[b]))

SaveToken(b) == pc[b] = "building" /\ IsUpdate(b, "Token") /\ Begins(b, mut[b])

Exec(b) == pc[b] = "building" /\ mut[b].op \in {"Delete", "DeleteOne"} /\ Begins(b, mut[b])

Leaves(b, answer) ==
  /\ pc' = [pc EXCEPT ![b] = IF @ = "redirected" THEN "spent" ELSE "building"]
  /\ res' = [res EXCEPT ![b] = answer]

(* A hook does not call the next one, or ends with an error.                     *)
HookRefuses(b) ==
  /\ pc[b] \in {"hooks", "redirected"}
  /\ Leaves(b, "refused")
  /\ UNCHANGED <<tables, mut, cols, log, history>>

(* A hook makes a deletion an update: SetOp, then Client.Mutate, whose builder   *)
(* takes over the mutation and saves it.  The first builder is not used again.   *)
Mutate(b, f, v) ==
  /\ "Mutate" \in Calls /\ pc[b] = "hooks" /\ mut[b].op \in {"Delete", "DeleteOne"}
  /\ f \in ColumnsOf(mut[b].typ) /\ Len(log[b]) < MaxCalls
  /\ LET m == Assign([mut[b] EXCEPT !.op = "Update"], f, v)
     IN  mut' = [mut EXCEPT ![b] = IF m.typ = "User" THEN Defaults(m) ELSE m]
  /\ pc' = [pc EXCEPT ![b] = "redirected"]
  /\ log' = [log EXCEPT ![b] = Append(@, Entry("Set", f, v))]
  /\ UNCHANGED <<tables, cols, res, history>>

--------------------------------------------------------------------------------
(* The nodes a save finds: those the predicates admit, and of UpdateOne its own. *)
Hits(m) == {i \in m.where \cap Stored(m.typ) : m.op = "UpdateOne" => i = m.id}

(* Mutant: sqlSave hands on every field that was set.                            *)
ChangesAll(m, row) == Over(Restrict(m.value, DOMAIN m.value \cap DOMAIN row), row)

(* The columns sqlSave hands to sqlgraph: created_at is not among them.          *)
Changes(m, row) ==
  Over(Restrict(m.value, (DOMAIN m.value \cap DOMAIN row) \ {"created_at"}), row)

(* Mutant: a cleared edge is cleared only of what is also removed.               *)
UnlinkedRemoved(m, us) == {k \in Stored("Token") : tokens[k].owner \in us /\ k \in m.removed}

(* The tokens the spec's Clear edges unlink from the users us.                   *)
Unlinked(m, us) ==
  {k \in Stored("Token") : tokens[k].owner \in us /\ (m.edgeCleared \/ k \in m.removed)}

(* A unique index over these columns, if they matter.                            *)
Distinct(rows, columns) ==
  \A i, j \in DOMAIN rows :
    i # j /\ Nil \notin {rows[i], rows[j]} /\ columns \subseteq DOMAIN rows[i] =>
      \E f \in columns : rows[i][f] # rows[j][f]

(* A save comes to its end: what it answers, and what becomes of the tables, if  *)
(* the transaction is committed; with an error of the driver it may have been.   *)
Ends(b, answer, us, ks) ==
  /\ Leaves(b, answer)
  /\ \/ answer = "ok" /\ users' = us /\ tokens' = ks
     \/ answer = "error" /\ users' = us /\ tokens' = ks
     \/ answer # "ok" /\ UNCHANGED <<users, tokens>>
  /\ mut' = [mut EXCEPT ![b].done = @ \/ answer = "ok" \/ mut[b].op \in {"Delete", "DeleteOne"}]
  /\ past' = [c \in Builders |->
       IF "Old" \notin Calls \/ pc[c] = "none" \/ mut'[c].id = Nil \/ mut'[c].done THEN past[c]
       ELSE past[c] \cup ({(IF mut[c].typ = "User" THEN users' ELSE tokens')[mut[c].id]} \ {Nil})]
  /\ UNCHANGED <<work, now, cols, log, since, told>>

(* sqlSave of UserUpdate and, with what comes before it, of UserUpdateOne; a     *)
(* builder for one node answers NotFound when there is none.                     *)
SaveUsers(b, err) ==
  LET m == mut[b]  hits == Hits(m)
      us == [u \in UserIds |-> IF u \in hits THEN Changes(m, users[u]) ELSE users[u]]
      freed == Unlinked(m, hits)
      linkable(k) == k \in Stored("Token") /\ (k \in freed \/ tokens[k].owner = Nil)
      ks == [k \in TokenIds |->
              IF k \in m.added /\ hits # {} THEN [tokens[k] EXCEPT !.owner = CHOOSE u \in hits : TRUE]
              ELSE IF k \in freed THEN [tokens[k] EXCEPT !.owner = Nil] ELSE tokens[k]]
      breaks == hits # {} /\ ( \/ m.added # {} /\ Cardinality(hits) > 1
                              \/ \E k \in m.added : ~linkable(k)
                              \/ ~Distinct(us, {"provider", "provider_user_id"}) )
  IN  IF hits = {} /\ m.id # Nil THEN Ends(b, "NotFound", users, tokens)
      ELSE IF breaks THEN Ends(b, "Constraint", users, tokens) ELSE Ends(b, err, us, ks)

UserSqlSave(b, err) ==
  /\ pc[b] \in {"hooks", "redirected"} /\ mut[b].typ = "User" /\ mut[b].op = "Update"
  /\ SaveUsers(b, err)

(* UpdateOne first looks at its id and at the columns of Select.                 *)
UserOneSqlSave(b, err) ==
  /\ pc[b] = "hooks" /\ mut[b].typ = "User" /\ mut[b].op = "UpdateOne"
  /\ IF mut[b].id = Nil \/ ~cols[b] THEN Ends(b, "Validation", users, tokens)
                                    ELSE SaveUsers(b, err)

(* Mutant: the owner is cleared although a new one was set.                      *)
OwnerClearWins(m, old) ==
  IF m.edgeCleared THEN Nil ELSE IF m.added # {} THEN CHOOSE u \in m.added : TRUE ELSE old

(* The edges of the token spec: a new owner is added after the old is cleared.   *)
NewOwner(m, old) ==
  IF m.added # {} THEN CHOOSE u \in m.added : TRUE ELSE IF m.edgeCleared THEN Nil ELSE old

(* A column that is both set and cleared, or an edge, may be refused as two      *)
(* assignments of one column.                                                    *)
Twice(m) == DOMAIN m.value \cap m.cleared # {} \/ (m.added # {} /\ m.edgeCleared)

TokenRow(m, row) ==
  [f \in DOMAIN row |-> IF f = "owner" THEN NewOwner(m, row.owner)
                        ELSE IF f \in DOMAIN m.value THEN m.value[f]
                        ELSE IF f \in m.cleared THEN Nil ELSE row[f]]

SaveTokens(b, err) ==
  LET m == mut[b]  hits == Hits(m)
      ks == [k \in TokenIds |-> IF k \in hits THEN TokenRow(m, tokens[k]) ELSE tokens[k]]
      breaks == hits # {} /\ (~Distinct(ks, {"token_hash"}) \/ m.added \ Stored("User") # {})
  IN  IF hits = {} /\ m.id # Nil THEN Ends(b, "NotFound", users, tokens)
      ELSE IF breaks THEN Ends(b, "Constraint", users, tokens)
      ELSE Ends(b, err, users, ks) \/ (Twice(m) /\ Ends(b, "error", users, tokens))

TokenSqlSave(b, err) ==
  /\ pc[b] \in {"hooks", "redirected"} /\ mut[b].typ = "Token" /\ mut[b].op = "Update"
  /\ SaveTokens(b, err)

TokenOneSqlSave(b, err) ==
  /\ pc[b] = "hooks" /\ mut[b].typ = "Token" /\ mut[b].op = "UpdateOne"
  /\ IF mut[b].id = Nil \/ ~cols[b] THEN Ends(b, "Validation", users, tokens)
                                    ELSE SaveTokens(b, err)

Without(rows, is) == [i \in DOMAIN rows |-> IF i \in is THEN Nil ELSE rows[i]]

(* Mutant: the tokens go with their user.                                        *)
OrphansCascade(us) ==
  Without(tokens, {k \in Stored("Token") : tokens[k].owner \in us})

(* The foreign key is set to NULL when its user goes.                            *)
Orphans(us) ==
  [k \in TokenIds |-> IF tokens[k] # Nil /\ tokens[k].owner \in us
                        THEN [tokens[k] EXCEPT !.owner = Nil] ELSE tokens[k]]

(* sqlExec; of DeleteOne, no row is an error.                                    *)
UserSqlExec(b, err) ==
  /\ pc[b] = "hooks" /\ mut[b].typ = "User" /\ mut[b].op \in {"Delete", "DeleteOne"}
  /\ LET us == Hits(mut[b])
     IN  Ends(b, IF us = {} /\ mut[b].op = "DeleteOne" THEN "NotFound" ELSE err,
              Without(users, us), Orphans(us))

TokenSqlExec(b, err) ==
  /\ pc[b] = "hooks" /\ mut[b].typ = "Token" /\ mut[b].op \in {"Delete", "DeleteOne"}
  /\ LET ks == Hits(mut[b])
     IN  Ends(b, IF ks = {} /\ mut[b].op = "DeleteOne" THEN "NotFound" ELSE err,
              users, Without(tokens, ks))

Tick ==
  /\ now < work.maxTime /\ now' = now + 1
  /\ UNCHANGED <<work, users, tokens, mut, cols, pc, res, log, history>>

--------------------------------------------------------------------------------
Opening(b) ==
  \E typ \in {"User", "Token"} :
    \/ \E op \in {"Update", "Delete"} : OpenMany(b, typ, op)
    \/ \E i \in IdsOf(typ) : UpdateOneID(b, typ, i) \/ UpdateOne(b, typ, i) \/ DeleteOneID(b, typ, i)

Editing(b) ==
  \/ \E f \in UserColumns : \E v \in Domain(f) \ {Nil} :
       SetUserField(b, f, v) \/ SetNillableUserField(b, f, v) \/ Mutate(b, f, v)
  \/ \E f \in UserColumns : SetNillableUserField(b, f, Nil)
  \/ \E f \in TokenColumns : \E v \in Domain(f) : SetTokenField(b, f, v) \/ Mutate(b, f, v)
  \/ ClearTokenField(b)
  \/ \E f \in UserColumns \cup TokenColumns : ResetField(b, f) \/ Old(b, f)
  \/ \E k \in TokenIds : AddRefreshTokens(b, {k}) \/ RemoveRefreshTokens(b, {k})
  \/ ClearRefreshTokens(b) \/ ResetRefreshTokens(b)
  \/ \E u \in UserIds : SetOwner(b, u)
  \/ ClearOwner(b) \/ ResetOwnerEdge(b)
  \/ \E i \in UserIds \cup TokenIds : AddWhere(b, {i})
  \/ \E valid \in BOOLEAN : Select(b, valid)

Saving(b) ==
  \/ SaveUser(b) \/ SaveToken(b) \/ Exec(b) \/ HookRefuses(b)
  \/ \E err \in {"ok", "error"} :
       \/ UserSqlSave(b, err) \/ UserOneSqlSave(b, err) \/ UserSqlExec(b, err)
       \/ TokenSqlSave(b, err) \/ TokenOneSqlSave(b, err) \/ TokenSqlExec(b, err)

Next == Tick \/ \E b \in Builders : Opening(b) \/ Editing(b) \/ Saving(b)

Spec == Init /\ [][Next]_vars
==============================================================================
