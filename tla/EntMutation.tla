----------------------------- MODULE EntMutation -----------------------------
(* ent/mutation.go: what a builder has been asked to change, as a record.  The    *)
(* accessors of every field have one shape, so one operator with the field as a  *)
(* parameter stands for all of them; the owner of a token is kept as the set     *)
(* OwnerIDs returns.                                                             *)
EXTENDS Naturals, FiniteSets, Functions, TLC

CONSTANTS Nil,        \* a nil pointer, and NULL in a column
          Failed      \* the error the query for the old node is answered with

(* Neither is an id or a time, and a failed query is not one that was not made.   *)
ASSUME MutationAssumption == Nil \notin Nat /\ Failed # Nil

UserFields == {"email", "verified_email", "name", "given_name", "family_name", "picture",
               "provider_user_id", "provider", "created_at", "updated_at", "is_admin"}
TokenFields == {"token_hash", "revoked_at", "created_at"}

(* f, and g where f says nothing; f with one more value.                          *)
Over(f, g) ==
  [x \in DOMAIN f \cup DOMAIN g |-> IF x \in DOMAIN f THEN f[x] ELSE g[x]]

With(f, k, v) == Over([x \in {k} |-> v], f)

Nothing == [f \in {} |-> Nil]

NewMutation(typ, op, id, ids) ==
  [typ |-> typ, op |-> op, id |-> id, where |-> ids,
   value |-> Nothing, cleared |-> {},
   added |-> {}, removed |-> {}, edgeCleared |-> FALSE,
   done |-> FALSE, old |-> Nil]

(* SetEmail and its like set a pointer and leave clearedFields alone.            *)
Assign(m, f, v) == [m EXCEPT !.value = With(@, f, v)]

IsSet(m, f) == f \in DOMAIN m.value

(* Mutant: the value outlives ResetX.                                            *)
ResetKeeps(m, f) == [m EXCEPT !.cleared = @ \ {f}]

Reset(m, f) ==
  [m EXCEPT !.value = Restrict(@, DOMAIN @ \ {f}), !.cleared = @ \ {f}]

(* Mutant: ClearRevokedAt leaves the value, which is then written as well.       *)
ClearKeeps(m, f) == [m EXCEPT !.cleared = @ \cup {f}]

(* ClearRevokedAt.                                                               *)
Clear(m, f) ==
  [m EXCEPT !.value = Restrict(@, DOMAIN @ \ {f}), !.cleared = @ \cup {f}]

(* OldX asks for one node that is known.                                         *)
OldAllowed(m) == m.op = "UpdateOne" /\ m.id # Nil

(* Mutant: the node is fetched anew by every call.                               *)
FetchOldAnew(m, row) == [m EXCEPT !.old = IF m.done \/ row = Nil THEN Failed ELSE row]

(* Mutant: m.done is not looked at.                                              *)
FetchOldWhenDone(m, row) ==
  IF m.old # Nil THEN m ELSE [m EXCEPT !.old = IF row = Nil THEN Failed ELSE row]

(* once.Do: the first call fetches the node, or fails for good, done, without a  *)
(* row or with the query's error (no row either).                                *)
FetchOld(m, row) ==
  IF m.old # Nil THEN m ELSE [m EXCEPT !.old = IF m.done \/ row = Nil THEN Failed ELSE row]

OldValue(m, f) == IF m.old = Failed THEN Failed ELSE m.old[f]

AddIDs(m, ids) == [m EXCEPT !.added = @ \cup ids]

(* Mutant: RemoveRefreshTokenIDs forgets what was to be added.                   *)
RemoveKeepsAdded(m, ids) == [m EXCEPT !.removed = @ \cup ids]

RemoveIDs(m, ids) == [m EXCEPT !.added = @ \ ids, !.removed = @ \cup ids]

ClearEdge(m) == [m EXCEPT !.edgeCleared = TRUE]

ResetEdge(m) == [m EXCEPT !.added = {}, !.removed = {}, !.edgeCleared = FALSE]

SetOwnerID(m, id) == [m EXCEPT !.added = {id}]

ResetOwner(m) == [m EXCEPT !.added = {}, !.edgeCleared = FALSE]

(* The predicates of several calls are applied one after the other.              *)
Where(m, ids) == [m EXCEPT !.where = @ \cap ids]
==============================================================================
