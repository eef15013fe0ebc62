--------------------------------- MODULE JWT ---------------------------------
(* internal/security/jwt.go, hmac.go and internal/domain/refreshtoken.go: what  *)
(* a token says, when it is accepted, and the hash it is stored under.          *)
(* Times are whole seconds: jwt.NewNumericDate truncates to the second, and     *)
(* now.Before(exp) with exp on a second boundary is now < exp in seconds.       *)
EXTENDS Integers

CONSTANTS UserIDs,      \* the uuids a user row can have; uuid.Nil is not one
          AccessTTL,    \* domain.DefaultAccessTokenExpiration, in seconds
          RefreshTTL,   \* domain.DefaultRefreshTokenExpiration, in seconds
          MaxTime       \* bound: the last second the clock reaches

ASSUME TTLAssumption ==
  /\ AccessTTL \in Nat \ {0}
  /\ RefreshTTL \in Nat
  /\ AccessTTL < RefreshTTL
  /\ MaxTime \in Nat

Time   == 0 .. MaxTime
Expiry == 0 .. (MaxTime + RefreshTTL)

TokenTypeAccess  == "access_token"
TokenTypeRefresh == "refresh_token"

(* The signed string is determined by its claims: HS256 is deterministic and    *)
(* the claims hold no nonce and no jti.  Issuer is the constant "mixo".         *)
CustomClaims ==
  [TokenType: {TokenTypeAccess, TokenTypeRefresh}, Subject: UserIDs,
   IssuedAt: Time, ExpiresAt: Expiry]

GenerateJWT(userID, issuedAt, expiresAt, tokenType) ==
  [TokenType |-> tokenType, Subject |-> userID,
   IssuedAt |-> issuedAt, ExpiresAt |-> expiresAt]

(* ParseJWT on a string this service signed: jwt.ErrTokenExpired or the claims. *)
IsExpired(token, now) == now >= token.ExpiresAt

(* HMAC-SHA256 of the token: a keyed one-to-one image, never the token itself.  *)
Sign(token) == [hmac |-> token]

AccessTokens  == {t \in CustomClaims : t.TokenType = TokenTypeAccess}
RefreshTokens == {t \in CustomClaims : t.TokenType = TokenTypeRefresh}
Hashes        == {Sign(t) : t \in RefreshTokens}
==============================================================================
