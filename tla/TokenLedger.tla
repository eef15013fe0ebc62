----------------------------- MODULE TokenLedger -----------------------------
(* What the refresh-token table promises the service: a token is issued at most *)
(* once, an issued token stays on record, and what is revoked stays revoked.    *)
(* A token is revoked on its own, or with every other token of its user.        *)
CONSTANTS Tokens,           \* the refresh tokens there can be
          Users,            \* the users they can belong to
          Owner(_)          \* the user a token names

VARIABLES issued, revoked

Init == issued = {} /\ revoked = {}

Issue(t) ==
  /\ t \in Tokens \ issued
  /\ issued' = issued \cup {t}
  /\ UNCHANGED revoked

RevokeOne(t) ==
  /\ t \in issued
  /\ revoked' = revoked \cup {t}
  /\ UNCHANGED issued

RevokeUser(u) ==
  /\ revoked' = revoked \cup {t \in issued : Owner(t) = u}
  /\ UNCHANGED issued

Next ==
  \/ \E t \in Tokens : Issue(t) \/ RevokeOne(t)
  \/ \E u \in Users : RevokeUser(u)

Spec == Init /\ [][Next]_<<issued, revoked>>
==============================================================================
