-------------------------------- MODULE HTTPX --------------------------------
(* internal/httpx/httpx.go: the status a client is answered with for an error.  *)
(* An error is the sentinel its chain of %w wraps holds, or ErrDatabase for the *)
(* driver and context errors that no package names.                             *)
EXTENDS Naturals

NoError                      == "nil"
ErrDatabase                  == "database or context error"
ErrParse                     == "security.jwt.ParseJWT"
ErrIDToken                   == "oauth.google.VerifyIDToken"
ErrGoogleTokenRequired       == "serializer.ErrGoogleTokenRequired"
ErrRefreshTokenRequired      == "serializer.ErrRefreshTokenRequired"
ErrNoTokenInRequest          == "request.ErrNoTokenInRequest"
ErrUnauthorized              == "httpx.ErrUnauthorized"
ErrUserNotFound              == "store.ErrUserNotFound"
ErrUserAlreadyExists         == "store.ErrUserAlreadyExists"
ErrRefreshTokenNotFound      == "store.ErrRefreshTokenNotFound"
ErrRefreshTokenAlreadyExists == "store.ErrRefreshTokenAlreadyExists"
ErrRefreshTokenExpired       == "services.ErrRefreshTokenExpired"
ErrRefreshTokenAlreadyUsed   == "services.ErrRefreshTokenAlreadyUsed"
ErrInvalidTokenType          == "services.ErrInvalidTokenType"

(* The clientErrors table, as the set of errors each status is for.  The other  *)
(* sentinels it lists belong to flows no route reaches.                         *)
BadRequest   == {ErrGoogleTokenRequired, ErrRefreshTokenRequired, ErrNoTokenInRequest}
Unauthorized == {ErrUnauthorized, ErrRefreshTokenExpired}

FromError(err) ==
  CASE err \in BadRequest          -> 400
    [] err \in Unauthorized        -> 401
    [] err = ErrUserNotFound       -> 404
    [] err = ErrUserAlreadyExists  -> 409
    [] OTHER                       -> 500

OK        == 200
NoContent == 204
Statuses  == {OK, NoContent, 400, 401, 404, 409, 500}
==============================================================================
