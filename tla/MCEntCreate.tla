----------------------------- MODULE MCEntCreate -----------------------------
(* Small instances of the create builders for TLC: four workloads.              *)
EXTENDS EntCreate

CONSTANTS s1, s2, a, b, c, d    \* builders and keys

(* A bulk of two users and a single one.                                         *)
Users ==
  [typ |-> "User", size |-> s1 :> 2 @@ s2 :> 1,
   columns |-> {"provider", "provider_user_id"}, keys |-> {a, b}, names |-> {},
   hooks |-> {"reset", "refuse", "late", "retry"},
   maxSaves |-> 1, maxCalls |-> 2, maxRetries |-> 1, maxTime |-> 0]

(* A bulk of two users that is saved twice, with hooks that do not go on.        *)
Again ==
  [typ |-> "User", size |-> s1 :> 2,
   columns |-> {"provider_user_id"}, keys |-> {a, b, c, d}, names |-> {},
   hooks |-> {"skip", "late", "retry"},
   maxSaves |-> 2, maxCalls |-> 4, maxRetries |-> 1, maxTime |-> 1]

(* A single user, saved again and again, with ids of somebody's choice.          *)
Named ==
  [typ |-> "User", size |-> s1 :> 1,
   columns |-> {"provider_user_id"}, keys |-> {a, b}, names |-> {c, d},
   hooks |-> {"rename", "late", "retry"},
   maxSaves |-> 3, maxCalls |-> 4, maxRetries |-> 1, maxTime |-> 0]

(* A bulk of two tokens and a single one.                                        *)
Tokens ==
  [typ |-> "Token", size |-> s1 :> 2 @@ s2 :> 1,
   columns |-> {"token_hash", "created_at"}, keys |-> {a, b}, names |-> {},
   hooks |-> {"reset", "late", "retry"},
   maxSaves |-> 1, maxCalls |-> 2, maxRetries |-> 1, maxTime |-> 0]

AllWorkloads == {Users, Again, Named, Tokens}
==============================================================================
