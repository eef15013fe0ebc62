--------------------------- MODULE AuthProperties ----------------------------
(* What the service owes its clients, stated over Auth.                          *)
EXTENDS Auth

Succeeded(r) == status[r] = OK
Refreshing(r, t) == kind[r] = "refresh" /\ tok[r] = t

(* Every refresh token a client holds is on record, under the user it names, so  *)
(* a logout of that user reaches it: Create (session.go:73) stores the hash      *)
(* before it returns the tokens, and no later failure takes the row away.        *)
DeliveredAreStored ==
  \A t \in delivered : t.TokenType = TokenTypeRefresh =>
    IsStored(Sign(t)) /\ refreshTokens[Sign(t)].owner = t.Subject

(* A refresh answered 200 has stored the new token and revoked the old one, on   *)
(* every path through Create and RevokeRefreshToken (auth.go:102-110), with any  *)
(* other request at work on the same rows.                                       *)
RotationRevokesOld ==
  \A r \in Requests : kind[r] = "refresh" /\ Succeeded(r) =>
    IsRevoked(Sign(tok[r])) /\ IsStored(Sign(ref[r]))

(* A token that was revoked when a refresh presented it never gets as far as     *)
(* generating a token (auth.go:94-100), whatever happens between the arrival and *)
(* the check: a token is replayed only by requests that overlap.                 *)
NoReplayOfSpentToken == \A r \in Requests : spent[r] => acc[r] = NoToken

(* A live token is revoked only once its replacement is on record, or by a       *)
(* logout of its user: Create comes before RevokeRefreshToken (auth.go:102,108), *)
(* so a failure between the two never takes both tokens from the client.         *)
RevokedOnlyIfReplaced ==
  \A h \in DOMAIN refreshTokens :
    refreshTokens[h].revoked =>
      \/ IsExpired(h.hmac, now)
      \/ h \in destroyed
      \/ \E r \in Requests : Refreshing(r, h.hmac) /\ IsStored(Sign(ref[r]))

(* A logout answered 204 has revoked every token its user had when it arrived    *)
(* (refreshtoken.go:54-60), the ones stored by requests of any kind included.    *)
LogoutRevokesOwned ==
  \A r \in Requests : kind[r] = "logout" /\ status[r] = NoContent =>
    \A h \in owned[r] : IsRevoked(h)

(* A refresh answered 401 has revoked the expired token: a failed update answers *)
(* 500 (auth.go:83-88), so the answer never runs ahead of the table.             *)
ExpiredAnswerMeansRevoked ==
  \A r \in Requests : kind[r] = "refresh" /\ status[r] = 401 => IsRevoked(Sign(tok[r]))

(* Sign-ins of one Google account act for one user, first sign-ins that race     *)
(* each other included: findOrCreateGoogleUser checks, then acts, and only the   *)
(* unique index stands between the two (auth.go:116,124).                        *)
OneUserPerSubject ==
  \A r, q \in Requests :
    /\ kind[r] = "verify" /\ uid[r] # NoUser
    /\ kind[q] = "verify" /\ uid[q] # NoUser
    => (subject[r] = subject[q] <=> uid[r] = uid[q])

(* Every token a client holds names a user on record, so /user/me never answers  *)
(* 404 and no owner edge is missing (refreshtoken.go:129).                       *)
TokensNameUsers ==
  /\ \A t \in delivered : t.Subject \in DOMAIN users
  /\ \A r \in Requests : kind[r] = "me" => status[r] # 404

(* A token lives at most its lifetime: the expiry is computed before IssuedAt is *)
(* read, so a second boundary between the two readings shortens the life of the  *)
(* token and never extends it (session.go:61,66, jwt.go:66-67).                  *)
TTLOf(t) == IF t.TokenType = TokenTypeAccess THEN AccessTTL ELSE RefreshTTL
LifetimeBounded == \A t \in delivered : t.ExpiresAt <= t.IssuedAt + TTLOf(t)

(* The rows as a ledger of tokens.                                               *)
SubjectOf(t) == t.Subject
Recorded == {h.hmac : h \in DOMAIN refreshTokens}
Ledger == INSTANCE TokenLedger WITH
            Tokens  <- RefreshTokens,
            Users   <- UserIDs,
            Owner   <- SubjectOf,
            issued  <- Recorded,
            revoked <- {t \in Recorded : IsRevoked(Sign(t))}

(* The service uses the refresh-token table as a ledger: whatever its requests   *)
(* do, fail at or lose, tokens are issued once, never forgotten, never revived.  *)
ImplementsLedger == Ledger!Spec

(* Every request the server accepts is answered or lost; none is left waiting    *)
(* on another, at whatever statement it fails.                                   *)
RequestsEnd ==
  \A r \in Requests : (r \in InFlight) ~> (pc[r] \in Ended)

(* Claims of the source that the service does not keep.                          *)

(* services/auth.go:21 names the error "refresh token is already used": a token  *)
(* is exchanged at most once.                                                    *)
RefreshTokenUsedOnce ==
  \A r, q \in Requests :
    /\ r # q
    /\ kind[r] = "refresh" /\ Succeeded(r)
    /\ kind[q] = "refresh" /\ Succeeded(q)
    => tok[r] # tok[q]

(* session/session.go:84: "Destroy invalidates the session for the given user    *)
(* ID".  A session that logout ended cannot be carried on by a refresh.          *)
DestroyEndsSession ==
  \A r, q \in Requests :
    /\ kind[r] = "logout" /\ status[r] = NoContent
    /\ kind[q] = "refresh" /\ Sign(tok[q]) \in owned[r] /\ Succeeded(q)
    => ~IsActive(Sign(ref[q]))

(* session/session.go:58: "Create creates a new session for the given user ID":  *)
(* the token it is about to store is a new one.                                  *)
CreateMakesNewToken ==
  \A r \in Requests : pc[r] = "storeToken" => ~IsStored(Sign(ref[r]))
==============================================================================
