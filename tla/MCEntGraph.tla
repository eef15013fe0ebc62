------------------------------ MODULE MCEntGraph ------------------------------
(* A small instance of ent's builders for TLC: five workloads.                  *)
EXTENDS EntGraphProperties

CONSTANTS u1, u2, k1, k2,   \* the ids
          v1                \* a text no row has

BuilderSymmetry == Permutations(Builders)

(* Whose the tokens are to begin with, up to a permutation of the ids.           *)
Owners ==
  {k1 :> o[1] @@ k2 :> o[2] : o \in {<<u1, u1>>, <<u1, u2>>, <<u1, Nil>>, <<Nil, Nil>>}}

(* A builder that updates users and is used again, with hooks, one of which makes *)
(* a deletion an update.                                                         *)
FieldsOfUsers ==
  [users |-> UserIds, owners |-> {Nothing},
   opens |-> {"User"} \X {"Update", "UpdateOneID", "DeleteOneID"},
   calls |-> {"Set", "SetNillable", "Reset", "Select", "Mutate"},
   userColumns |-> {"provider", "provider_user_id", "created_at", "updated_at"}, tokenColumns |-> {},
   texts |-> {v1}, actors |-> 1, maxCalls |-> 5, maxTime |-> 1]

EdgesOfUsers ==
  [users |-> UserIds, owners |-> Owners,
   opens |-> {"User"} \X {"Update", "UpdateOneID"},
   calls |-> {"Add", "Remove", "ClearEdge", "ResetEdge", "Where"},
   userColumns |-> {"updated_at"}, tokenColumns |-> {},
   texts |-> {}, actors |-> 1, maxCalls |-> 5, maxTime |-> 0]

FieldsOfTokens ==
  [users |-> UserIds, owners |-> {k1 :> u1 @@ k2 :> u2, k1 :> u1 @@ k2 :> Nil},
   opens |-> {"Token"} \X {"Update", "UpdateOneID"},
   calls |-> {"Set", "Clear", "Reset", "SetOwner", "ClearEdge", "ResetEdge"},
   userColumns |-> {"updated_at"}, tokenColumns |-> {"token_hash", "revoked_at"},
   texts |-> {v1}, actors |-> 1, maxCalls |-> 5, maxTime |-> 0]

(* Two builders that save one user in turn, and ask for old values.              *)
OldValues ==
  [users |-> {u1}, owners |-> {Nothing},
   opens |-> {"User"} \X {"UpdateOneID", "UpdateOne"},
   calls |-> {"Set", "Old"},
   userColumns |-> {"email", "name"}, tokenColumns |-> {},
   texts |-> {v1}, actors |-> 2, maxCalls |-> 3, maxTime |-> 0]

(* Builders that delete users and tokens while others update them.               *)
DeletesAndUpdates ==
  [users |-> UserIds, owners |-> Owners,
   opens |-> {"User", "Token"} \X {"Delete", "DeleteOneID", "Update"},
   calls |-> {"Add", "Set", "SetOwner", "Mutate"},
   userColumns |-> {"updated_at"}, tokenColumns |-> {"revoked_at"},
   texts |-> {}, actors |-> 2, maxCalls |-> 3, maxTime |-> 0]

AllWorkloads == {FieldsOfUsers, EdgesOfUsers, FieldsOfTokens, OldValues, DeletesAndUpdates}
==============================================================================
