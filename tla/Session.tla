------------------------------- MODULE Session -------------------------------
(* internal/session/session.go.  Create reads the clock four times, the expiry   *)
(* of each token before its IssuedAt, and any second boundary can fall between   *)
(* two reads; so each read is a step, and the row is inserted in a step after.   *)
EXTENDS RefreshTokenStore

CONSTANTS Requests,     \* the HTTP requests the server receives, each once
          NoToken,      \* no token: none presented, or none generated yet
          Garbage       \* a presented string this service did not sign

ASSUME TokenAssumption ==
  /\ NoToken \notin CustomClaims
  /\ Garbage \notin CustomClaims

VARIABLES now,          \* the wall clock, in seconds
          exp,          \* exp[r]: the expiry Create computed last for r
          acc,          \* acc[r]: the access token generated for r
          ref           \* ref[r]: the refresh token generated for r

SessionTypeOK ==
  /\ now \in Time
  /\ exp \in [Requests -> Expiry]
  /\ acc \in [Requests -> AccessTokens \cup {NoToken}]
  /\ ref \in [Requests -> RefreshTokens \cup {NoToken}]

(* Mutant: both tokens get the longer lifetime.                                    *)
ReadExpiryLong(r, ttl) ==
  /\ exp' = [exp EXCEPT ![r] = now + RefreshTTL]
  /\ UNCHANGED <<acc, ref>>

(* time.Now().Add(ttl), the argument of a call of GenerateJWT.                    *)
ReadExpiry(r, ttl) ==
  /\ exp' = [exp EXCEPT ![r] = now + ttl]
  /\ UNCHANGED <<acc, ref>>

(* GenerateJWT reads the clock again, for IssuedAt, and signs.                    *)
GenerateAccess(r, id) ==
  /\ acc' = [acc EXCEPT ![r] = GenerateJWT(id, now, exp[r], TokenTypeAccess)]
  /\ UNCHANGED <<exp, ref>>

(* Mutant: the wrong token type is passed.                                         *)
GenerateRefreshAsAccess(r, id) ==
  /\ ref' = [ref EXCEPT ![r] = GenerateJWT(id, now, exp[r], TokenTypeAccess)]
  /\ UNCHANGED <<exp, acc>>

GenerateRefresh(r, id) ==
  /\ ref' = [ref EXCEPT ![r] = GenerateJWT(id, now, exp[r], TokenTypeRefresh)]
  /\ UNCHANGED <<exp, acc>>

(* The last call of Create: the row is keyed by the hash of the token.            *)
StoreSession(r, id, err) == CreateRefreshToken(Sign(ref[r]), id, err)

(* Mutant: the row is looked up without RevokedAtIsNil.                            *)
CheckIsStored(token) == ~IsStored(Sign(token))

(* CheckIsRevokedRefreshToken: no active row under the hash.                       *)
CheckIsRevoked(token) == ~IsActive(Sign(token))

RevokeRefreshToken(token, err) == RevokeByTokenHash(Sign(token), err)

Destroy(id, err) == Revoke(id, err)

(* GetInfo with no error: the string is a token of this service.                   *)
IsToken(t) == t \notin {NoToken, Garbage}
==============================================================================
