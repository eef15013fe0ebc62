------------------------------ MODULE AuthProofs ------------------------------
(* Proofs that Auth keeps its inductive invariant, and what follows from it.      *)
EXTENDS AuthInvariant, TLAPS

(* A refresh token is stored under a hash, and the hash says which token it is of. *)
LEMMA HashLaws ==
  /\ \A t \in RefreshTokens : Sign(t) \in Hashes
  /\ \A h \in Hashes : h.hmac \in RefreshTokens /\ h = Sign(h.hmac)
  /\ \A s, t : Sign(s) = Sign(t) => s = t
BY DEF Sign, Hashes

(* Every error is answered with a status of its own kind, never a success.        *)
LEMMA ErrorStatus ==
  ASSUME NEW err
  PROVE  /\ FromError(err) \in Statuses \ {OK, NoContent}
         /\ FromError(err) = 401 => err \in Unauthorized
BY DEF FromError, Statuses, OK, NoContent

(* Tokens generated from a type-correct session are type-correct.                 *)
LEMMA GeneratedTokens ==
  ASSUME NEW id \in UserIDs, NEW iat \in Time, NEW e \in Expiry
  PROVE  /\ GenerateJWT(id, iat, e, TokenTypeAccess) \in AccessTokens
         /\ GenerateJWT(id, iat, e, TokenTypeRefresh) \in RefreshTokens
         /\ GenerateJWT(id, iat, e, TokenTypeAccess).Subject = id
         /\ GenerateJWT(id, iat, e, TokenTypeRefresh).Subject = id
BY DEF GenerateJWT, CustomClaims, AccessTokens, RefreshTokens

(* The tables stay well-typed under each statement.                               *)
LEMMA InsertTyped ==
  ASSUME TokenTypeOK, NEW h \in Hashes, NEW id \in UserIDs, InsertToken(h, id)
  PROVE  TokenTypeOK'
BY DEF TokenTypeOK, InsertToken, TokenRows

(* Revoking rows keeps their type.                                               *)
LEMMA SetRevokedTyped ==
  ASSUME TokenTypeOK, NEW S, SetRevoked(S)
  PROVE  TokenTypeOK'
BY DEF TokenTypeOK, SetRevoked, TokenRows

(* So does storing a new one.                                                    *)
LEMMA CreateTyped ==
  ASSUME TokenTypeOK, NEW h \in Hashes, NEW id \in UserIDs, NEW err,
         CreateRefreshToken(h, id, err)
  PROVE  TokenTypeOK'
BY InsertTyped DEF CreateRefreshToken, TokenTypeOK

(* And the UPDATE that revokes, whether or not its answer arrives.               *)
LEMMA UpdateTyped ==
  ASSUME TokenTypeOK, NEW S, NEW err, UpdateRevoked(S, err)
  PROVE  TokenTypeOK'
BY SetRevokedTyped DEF UpdateRevoked, TokenTypeOK

(* A new user keeps the type of the table.                                       *)
LEMMA CreateUserTyped ==
  ASSUME UserTypeOK, NEW id \in UserIDs, NEW s \in Subjects, NEW err,
         CreateUser(id, s, err)
  PROVE  UserTypeOK'
BY DEF CreateUser, InsertUser, UserTypeOK

USE TTLAssumption, TokenAssumption, AuthAssumption

(* Every step of the service keeps the types.                                    *)
LEMMA TypeStep ==
  ASSUME TypeOK, Control, [Next]_vars
  PROVE  TypeOK'
<1> USE DEF TypeOK, SessionTypeOK, db, minted, presented
<1>1. ASSUME NEW r \in Requests, Verify(r)
      PROVE  TypeOK'
  BY <1>1, ErrorStatus
     DEF Verify, Arrive, Goto, Fail, Reply, Kinds, Steps, UserTypeOK, TokenTypeOK
<1>2. ASSUME NEW r \in Requests, NEW t \in Presentable, Refresh(r, t)
      PROVE  TypeOK'
  BY <1>2, ErrorStatus
     DEF Refresh, Presentable, Arrive, Goto, Fail, Reply, Kinds, Steps, UserTypeOK,
         TokenTypeOK, IsRevoked, IsStored
<1>3. ASSUME NEW r \in Requests, NEW t \in Presentable, Logout(r, t)
      PROVE  TypeOK'
  BY <1>3, ErrorStatus
     DEF Logout, Presentable, RequireAuth, IsToken, CustomClaims, Arrive, Goto, Fail,
         Reply, Kinds, Steps, UserTypeOK, TokenTypeOK
<1>4. ASSUME NEW r \in Requests, NEW t \in Presentable, Me(r, t)
      PROVE  TypeOK'
  BY <1>4, ErrorStatus
     DEF Me, Presentable, RequireAuth, IsToken, CustomClaims, Arrive, Goto, Fail,
         Reply, Kinds, Steps, UserTypeOK, TokenTypeOK
<1>5. ASSUME NEW r \in Requests, FindUser(r)
      PROVE  TypeOK'
  BY <1>5, ErrorStatus
     DEF FindUser, ByProviderUserID, Goto, Fail, Reply, Steps, UserTypeOK, TokenTypeOK
<1>6. ASSUME NEW r \in Requests, CreateGoogleUser(r)
      PROVE  TypeOK'
  BY <1>6, ErrorStatus, CreateUserTyped
     DEF CreateGoogleUser, Goto, Fail, Reply, Steps, TokenTypeOK, Control, ControlOf
<1>7. ASSUME NEW r \in Requests, CreateSession(r)
      PROVE  TypeOK'
  <2>1. uid[r] \in UserIDs /\ exp[r] \in Expiry /\ now \in Time
    BY <1>7 DEF CreateSession, Control, ControlOf, Creating
  <2>2. now + AccessTTL \in Expiry /\ now + RefreshTTL \in Expiry
    BY <2>1 DEF Time, Expiry
  <2>3. /\ GenerateJWT(uid[r], now, exp[r], TokenTypeAccess) \in AccessTokens
        /\ GenerateJWT(uid[r], now, exp[r], TokenTypeRefresh) \in RefreshTokens
    BY <2>1, GeneratedTokens
  <2> QED
    BY <1>7, <2>2, <2>3
       DEF CreateSession, ReadExpiry, GenerateAccess, GenerateRefresh, Goto, Steps,
           UserTypeOK, TokenTypeOK
<1>8. ASSUME NEW r \in Requests, StoreToken(r)
      PROVE  TypeOK'
  BY <1>8, ErrorStatus, CreateTyped, HashLaws
     DEF StoreToken, StoreSession, Goto, Fail, Reply, Steps, UserTypeOK, Control,
         ControlOf, Creating, OK, Statuses
<1>9. ASSUME NEW r \in Requests, CheckRevoked(r)
      PROVE  TypeOK'
  <2>1. tok[r].Subject \in UserIDs
    BY <1>9 DEF CheckRevoked, Control, ControlOf, RefreshTokens, CustomClaims
  <2> QED
    BY <1>9, <2>1, ErrorStatus
       DEF CheckRevoked, Goto, Fail, Reply, Steps, UserTypeOK, TokenTypeOK
<1>10. ASSUME NEW r \in Requests, RevokeOld(r)
      PROVE  TypeOK'
  BY <1>10, ErrorStatus, UpdateTyped
     DEF RevokeOld, RevokeRefreshToken, RevokeByTokenHash, Fail, Reply, Steps,
         UserTypeOK, OK, Statuses
<1>11. ASSUME NEW r \in Requests, RevokeExpired(r)
      PROVE  TypeOK'
  BY <1>11, ErrorStatus, UpdateTyped
     DEF RevokeExpired, RevokeRefreshToken, RevokeByTokenHash, Fail, Reply, Steps,
         UserTypeOK
<1>12. ASSUME NEW r \in Requests, RevokeAll(r)
      PROVE  TypeOK'
  BY <1>12, ErrorStatus, UpdateTyped
     DEF RevokeAll, Destroy, Revoke, ActiveOf, Fail, Reply, Steps, UserTypeOK,
         TokenTypeOK, NoContent, Statuses
<1>13. ASSUME NEW r \in Requests, GetUser(r)
      PROVE  TypeOK'
  BY <1>13, ErrorStatus
     DEF GetUser, Fail, Reply, Steps, UserTypeOK, TokenTypeOK, OK, Statuses
<1>14. ASSUME NEW r \in Requests, Respond(r)
      PROVE  TypeOK'
  BY <1>14
     DEF Respond, Goto, Steps, Ended, UserTypeOK, TokenTypeOK, Control, ControlOf,
         AccessTokens, RefreshTokens
<1>15. ASSUME NEW r \in Requests, Lose(r)
      PROVE  TypeOK'
  BY <1>15 DEF Lose, Goto, Steps, Ended, UserTypeOK, TokenTypeOK
<1>16. CASE Crash
  BY <1>16 DEF Crash, Steps, Ended, UserTypeOK, TokenTypeOK
<1>17. CASE Tick
  BY <1>17 DEF Tick, Time, UserTypeOK, TokenTypeOK
<1>18. CASE UNCHANGED vars
  BY <1>18 DEF vars, UserTypeOK, TokenTypeOK
<1> QED
  BY <1>1, <1>2, <1>3, <1>4, <1>5, <1>6, <1>7, <1>8, <1>9, <1>10, <1>11, <1>12,
     <1>13, <1>14, <1>15, <1>16, <1>17, <1>18 DEF Next, Handler

(* What a step of one request leaves alone in every other request.                 *)
LEMMA ControlFrame ==
  ASSUME TypeOK, Control, NEW q \in Requests,
         UNCHANGED <<pc[q], kind[q], tok[q], subject[q], uid[q], status[q], acc[q], ref[q]>>
  PROVE  ControlOf(q)'
BY DEF Control, ControlOf, Rotating

(* Every step leaves each request where its handler can be.                      *)
LEMMA ControlStep ==
  ASSUME TypeOK, Control, [Next]_vars
  PROVE  Control'
<1> SUFFICES ASSUME NEW q \in Requests
             PROVE  ControlOf(q)'
  BY DEF Control
<1>0. ControlOf(q)
  BY DEF Control
<1> USE DEF TypeOK, SessionTypeOK, db, minted, presented
<1>1. ASSUME NEW r \in Requests, Verify(r)
      PROVE  ControlOf(q)'
  <2>1. CASE q = r
    BY <1>0, <1>1, <2>1, ErrorStatus
       DEF Verify, Arrive, Goto, Fail, Reply, ControlOf, Rotating, Creating, Answered,
           Ended, OK
  <2>2. CASE q # r
    BY <1>1, <2>2, ControlFrame DEF Verify, Arrive, Goto, Fail, Reply
  <2> QED BY <2>1, <2>2
<1>2. ASSUME NEW r \in Requests, NEW t \in Presentable, Refresh(r, t)
      PROVE  ControlOf(q)'
  <2>1. CASE q = r
    BY <1>0, <1>2, <2>1, ErrorStatus
       DEF Refresh, Presentable, IsToken, RefreshTokens, Arrive, Goto, Fail, Reply,
           ControlOf, Rotating, Creating, Answered, Ended, OK
  <2>2. CASE q # r
    BY <1>2, <2>2, ControlFrame DEF Refresh, Arrive, Goto, Fail, Reply
  <2> QED BY <2>1, <2>2
<1>3. ASSUME NEW r \in Requests, NEW t \in Presentable, Logout(r, t)
      PROVE  ControlOf(q)'
  <2>1. CASE q = r
    BY <1>0, <1>3, <2>1, ErrorStatus
       DEF Logout, RequireAuth, Presentable, IsToken, CustomClaims, Arrive, Goto, Fail,
           Reply, ControlOf, Rotating, Creating, Answered, Ended
  <2>2. CASE q # r
    BY <1>3, <2>2, ControlFrame DEF Logout, RequireAuth, Arrive, Goto, Fail, Reply
  <2> QED BY <2>1, <2>2
<1>4. ASSUME NEW r \in Requests, NEW t \in Presentable, Me(r, t)
      PROVE  ControlOf(q)'
  <2>1. CASE q = r
    BY <1>0, <1>4, <2>1, ErrorStatus
       DEF Me, RequireAuth, Presentable, IsToken, CustomClaims, Arrive, Goto, Fail,
           Reply, ControlOf, Rotating, Creating, Answered, Ended
  <2>2. CASE q # r
    BY <1>4, <2>2, ControlFrame DEF Me, RequireAuth, Arrive, Goto, Fail, Reply
  <2> QED BY <2>1, <2>2
<1>5. ASSUME NEW r \in Requests, FindUser(r)
      PROVE  ControlOf(q)'
  <2>1. CASE q = r
    BY <1>0, <1>5, <2>1, ErrorStatus
       DEF FindUser, ByProviderUserID, UserTypeOK, Goto, Fail, Reply, ControlOf,
           Rotating, Creating, Answered, Ended, OK
  <2>2. CASE q # r
    BY <1>5, <2>2, ControlFrame DEF FindUser, Goto, Fail, Reply
  <2> QED BY <2>1, <2>2
<1>6. ASSUME NEW r \in Requests, CreateGoogleUser(r)
      PROVE  ControlOf(q)'
  <2>1. CASE q = r
    BY <1>0, <1>6, <2>1, ErrorStatus
       DEF CreateGoogleUser, Goto, Fail, Reply, ControlOf, Rotating, Creating,
           Answered, Ended, OK
  <2>2. CASE q # r
    BY <1>6, <2>2, ControlFrame DEF CreateGoogleUser, Goto, Fail, Reply
  <2> QED BY <2>1, <2>2
<1>7. ASSUME NEW r \in Requests, CreateSession(r)
      PROVE  ControlOf(q)'
  <2>1. CASE q = r
    <3>1. uid[r] \in UserIDs /\ exp[r] \in Expiry /\ now \in Time
      BY <1>7 DEF CreateSession, Control, ControlOf, Creating
    <3>2. /\ GenerateJWT(uid[r], now, exp[r], TokenTypeAccess) \in AccessTokens
          /\ GenerateJWT(uid[r], now, exp[r], TokenTypeRefresh) \in RefreshTokens
          /\ GenerateJWT(uid[r], now, exp[r], TokenTypeAccess).Subject = uid[r]
          /\ GenerateJWT(uid[r], now, exp[r], TokenTypeRefresh).Subject = uid[r]
      BY <3>1, GeneratedTokens
    <3> QED
      BY <1>0, <1>7, <2>1, <3>2
         DEF CreateSession, ReadExpiry, GenerateAccess, GenerateRefresh, Goto,
             ControlOf, Rotating, Creating, Answered, Ended
  <2>2. CASE q # r
    BY <1>7, <2>2, ControlFrame
       DEF CreateSession, ReadExpiry, GenerateAccess, GenerateRefresh, Goto
  <2> QED BY <2>1, <2>2
<1>8. ASSUME NEW r \in Requests, StoreToken(r)
      PROVE  ControlOf(q)'
  <2>1. CASE q = r
    BY <1>0, <1>8, <2>1, ErrorStatus
       DEF StoreToken, Goto, Fail, Reply, ControlOf, Rotating, Creating, Answered, Ended
  <2>2. CASE q # r
    BY <1>8, <2>2, ControlFrame DEF StoreToken, Goto, Fail, Reply
  <2> QED BY <2>1, <2>2
<1>9. ASSUME NEW r \in Requests, CheckRevoked(r)
      PROVE  ControlOf(q)'
  <2>1. CASE q = r
    BY <1>0, <1>9, <2>1, ErrorStatus
       DEF CheckRevoked, RefreshTokens, CustomClaims, Goto, Fail, Reply, ControlOf,
           Rotating, Creating, Answered, Ended, OK
  <2>2. CASE q # r
    BY <1>9, <2>2, ControlFrame DEF CheckRevoked, Goto, Fail, Reply
  <2> QED BY <2>1, <2>2
<1>10. ASSUME NEW r \in Requests, RevokeOld(r)
      PROVE  ControlOf(q)'
  <2>1. CASE q = r
    BY <1>0, <1>10, <2>1, ErrorStatus
       DEF RevokeOld, Goto, Fail, Reply, ControlOf, Rotating, Creating, Answered, Ended
  <2>2. CASE q # r
    BY <1>10, <2>2, ControlFrame DEF RevokeOld, Goto, Fail, Reply
  <2> QED BY <2>1, <2>2
<1>11. ASSUME NEW r \in Requests, RevokeExpired(r)
      PROVE  ControlOf(q)'
  <2>1. CASE q = r
    BY <1>0, <1>11, <2>1, ErrorStatus
       DEF RevokeExpired, Fail, Reply, ControlOf, Rotating, Creating, Answered, Ended
  <2>2. CASE q # r
    BY <1>11, <2>2, ControlFrame DEF RevokeExpired, Fail, Reply
  <2> QED BY <2>1, <2>2
<1>12. ASSUME NEW r \in Requests, RevokeAll(r)
      PROVE  ControlOf(q)'
  <2>1. CASE q = r
    BY <1>0, <1>12, <2>1, ErrorStatus
       DEF RevokeAll, Fail, Reply, ControlOf, Rotating, Creating, Answered, Ended, OK,
           NoContent
  <2>2. CASE q # r
    BY <1>12, <2>2, ControlFrame DEF RevokeAll, Fail, Reply
  <2> QED BY <2>1, <2>2
<1>13. ASSUME NEW r \in Requests, GetUser(r)
      PROVE  ControlOf(q)'
  <2>1. CASE q = r
    BY <1>0, <1>13, <2>1, ErrorStatus
       DEF GetUser, Fail, Reply, ControlOf, Rotating, Creating, Answered, Ended
  <2>2. CASE q # r
    BY <1>13, <2>2, ControlFrame DEF GetUser, Fail, Reply
  <2> QED BY <2>1, <2>2
<1>14. ASSUME NEW r \in Requests, Respond(r) \/ Lose(r)
      PROVE  ControlOf(q)'
  <2>1. CASE q = r
    BY <1>0, <1>14, <2>1
       DEF Respond, Lose, Goto, ControlOf, Rotating, Creating, Answered, Ended
  <2>2. CASE q # r
    BY <1>14, <2>2, ControlFrame DEF Respond, Lose, Goto
  <2> QED BY <2>1, <2>2
<1>16. CASE Crash
  BY <1>0, <1>16 DEF Crash, ControlOf, Rotating, Creating, Answered, Ended, InFlight
<1>17. CASE Tick
  BY <1>17, ControlFrame DEF Tick
<1>18. CASE UNCHANGED vars
  BY <1>18, ControlFrame DEF vars
<1> QED
  BY <1>1, <1>2, <1>3, <1>4, <1>5, <1>6, <1>7, <1>8, <1>9, <1>10, <1>11, <1>12,
     <1>13, <1>14, <1>16, <1>17, <1>18 DEF Next, Handler
------------------------------------------------------------------------------
(* Rows are never taken away, handed to another user or made active again.         *)
Grows ==
  \A h : IsStored(h) =>
    /\ IsStored(h)'
    /\ refreshTokens'[h].owner = refreshTokens[h].owner
    /\ IsRevoked(h) => IsRevoked(h)'

(* Storing a token removes no row and changes no other.                          *)
LEMMA CreateGrows ==
  ASSUME NEW h, NEW id, NEW err, CreateRefreshToken(h, id, err)
  PROVE  Grows
BY DEF CreateRefreshToken, InsertToken, Grows, IsStored, IsRevoked

(* Revoking removes no row, and unmakes no revocation.                           *)
LEMMA UpdateGrows ==
  ASSUME TokenTypeOK, NEW S, NEW err, UpdateRevoked(S, err)
  PROVE  Grows
BY DEF UpdateRevoked, SetRevoked, Grows, IsStored, IsRevoked, TokenTypeOK, TokenRows

(* So every step only adds rows and revocations.                                 *)
LEMMA RowsGrow ==
  ASSUME TypeOK, [Next]_vars
  PROVE  Grows
<1>0. TokenTypeOK
  BY DEF TypeOK
<1>1. ASSUME UNCHANGED refreshTokens
      PROVE  Grows
  BY <1>1 DEF Grows, IsStored, IsRevoked
<1>2. ASSUME NEW r \in Requests, StoreToken(r)
      PROVE  Grows
  BY <1>2, CreateGrows DEF StoreToken, StoreSession
<1>3. ASSUME NEW r \in Requests, RevokeOld(r) \/ RevokeExpired(r)
      PROVE  Grows
  BY <1>0, <1>3, UpdateGrows
     DEF RevokeOld, RevokeExpired, RevokeRefreshToken, RevokeByTokenHash
<1>4. ASSUME NEW r \in Requests, RevokeAll(r)
      PROVE  Grows
  BY <1>0, <1>4, UpdateGrows DEF RevokeAll, Destroy, Revoke
<1>5. ASSUME NEW r \in Requests,
             \/ Verify(r) \/ FindUser(r) \/ CreateGoogleUser(r) \/ CreateSession(r)
             \/ CheckRevoked(r) \/ GetUser(r) \/ Respond(r) \/ Lose(r)
             \/ \E t \in Presentable : Refresh(r, t) \/ Logout(r, t) \/ Me(r, t)
      PROVE  UNCHANGED refreshTokens
  BY <1>5 DEF Verify, Refresh, Logout, Me, Arrive, FindUser, CreateGoogleUser,
              CreateSession, CheckRevoked, GetUser, Respond, Lose, db
<1>6. Crash \/ Tick \/ UNCHANGED vars => UNCHANGED refreshTokens
  BY DEF Crash, Tick, vars, db
<1> QED
  BY <1>1, <1>2, <1>3, <1>4, <1>5, <1>6 DEF Next, Handler

(* What a request has read or written of the rows stays true while others add    *)
(* to them.                                                                      *)
LEMMA RowsFrame ==
  ASSUME Rows, Grows, NEW q \in Requests,
         UNCHANGED <<kind[q], tok[q], uid[q], status[q], acc[q], ref[q], spent[q], owned[q]>>,
         pc'[q] = pc[q] \/ pc'[q] \in Ended
  PROVE  RowsOf(q)'
<1>1. RowsOf(q)
  BY DEF Rows
<1>2. \A h : (IsStored(h) => IsStored(h)') /\ (IsRevoked(h) => IsRevoked(h)')
  BY DEF Grows, IsRevoked
<1>3. \A h : IsStored(h) => refreshTokens'[h].owner = refreshTokens[h].owner
  BY DEF Grows
<1>4. /\ pc'[q] \in Creating \cup {"revokeOld", "revokeAll"} => pc'[q] = pc[q]
      /\ pc[q] \notin Creating \cup {"revokeOld"} => pc'[q] \notin Creating \cup {"revokeOld"}
  BY DEF Ended, Creating
<1> HIDE DEF IsRevoked, IsStored, Sign
<1> QED
  BY <1>1, <1>2, <1>3, <1>4 DEF RowsOf, Rotating

(* What a finished statement leaves in the table.                                  *)
LEMMA CreateStores ==
  ASSUME NEW h, NEW id, CreateRefreshToken(h, id, NoError)
  PROVE  IsStored(h)'
BY
   DEF CreateRefreshToken, InsertToken, IsStored, NoError, ErrDatabase,
       ErrRefreshTokenAlreadyExists

(* The UPDATE that answers nil has revoked the rows it names, which are          *)
(* there.                                                                        *)
LEMMA UpdateRevokes ==
  ASSUME TokenTypeOK, NEW S, S \subseteq DOMAIN refreshTokens, UpdateRevoked(S, NoError)
  PROVE  S # {} /\ \A h \in S : IsRevoked(h)'
BY DEF UpdateRevoked, SetRevoked, IsRevoked, IsStored, NoError, ErrDatabase,
       ErrRefreshTokenNotFound, TokenTypeOK, TokenRows

(* No error of the token store is answered 401.                                    *)
LEMMA StoreErrorStatus ==
  ASSUME NEW err \in TokenStoreErrors \cup {ErrRefreshTokenAlreadyUsed}
  PROVE  FromError(err) # 401
<1>1. err \notin Unauthorized
  BY
     DEF TokenStoreErrors, Unauthorized, NoError, ErrDatabase,
         ErrRefreshTokenAlreadyExists, ErrRefreshTokenNotFound,
         ErrRefreshTokenAlreadyUsed, ErrUnauthorized, ErrRefreshTokenExpired
<1> QED
  BY <1>1, ErrorStatus

(* After a step a request is right about the rows, its own step or another's.    *)
LEMMA RequestRows ==
  ASSUME TypeOK, Control, Rows, [Next]_vars, NEW q \in Requests
  PROVE  RowsOf(q)'
<1>0. RowsOf(q) /\ ControlOf(q) /\ Grows
  BY RowsGrow DEF Rows, Control
<1> USE DEF TypeOK, SessionTypeOK, db, minted, presented
<1>1. ASSUME NEW r \in Requests, Verify(r)
      PROVE  RowsOf(q)'
  <2>1. CASE q = r
    BY <1>0, <1>1, <2>1, ErrorStatus
       DEF Verify, Arrive, Goto, Fail, Reply, ControlOf, RowsOf, Rotating, Creating,
           Answered, Ended, OK
  <2>2. CASE q # r
    BY <1>0, <1>1, <2>2, RowsFrame DEF Verify, Arrive, Goto, Fail, Reply
  <2> QED BY <2>1, <2>2
<1>2. ASSUME NEW r \in Requests, NEW t \in Presentable, Refresh(r, t)
      PROVE  RowsOf(q)'
  <2>1. CASE q = r
    <3>1. status'[q] \notin {OK, NoContent, 401}
      BY <1>0, <1>2, <2>1
         DEF Refresh, Arrive, Goto, Fail, Reply, ControlOf, Answered, Ended, FromError,
             OK, NoContent, BadRequest, Unauthorized, ErrRefreshTokenRequired, ErrParse,
             ErrInvalidTokenType, ErrUnauthorized, ErrRefreshTokenExpired,
             ErrUserNotFound, ErrUserAlreadyExists, ErrGoogleTokenRequired, ErrNoTokenInRequest
    <3>2. /\ kind'[q] = "refresh" /\ acc'[q] = NoToken /\ tok'[q] = t
          /\ pc'[q] \in {"respond", "revokeExpired", "checkRevoked"}
          /\ spent'[q] => IsRevoked(Sign(t))
          /\ UNCHANGED refreshTokens
      BY <1>0, <1>2, <2>1 DEF Refresh, Arrive, Goto, Fail, Reply, ControlOf
    <3>3. IsRevoked(Sign(t)) => IsRevoked(Sign(t))'
      BY <1>0 DEF Grows, IsRevoked
    <3> QED
      BY <3>1, <3>2, <3>3 DEF RowsOf, Rotating, Creating
  <2>2. CASE q # r
    BY <1>0, <1>2, <2>2, RowsFrame DEF Refresh, Arrive, Goto, Fail, Reply
  <2> QED BY <2>1, <2>2
<1>3. ASSUME NEW r \in Requests, NEW t \in Presentable, Logout(r, t)
      PROVE  RowsOf(q)'
  <2>1. CASE q = r
    <3>1. /\ status'[q] \notin {OK, NoContent}
          /\ kind'[q] = "logout" /\ ~spent'[q]
          /\ pc'[q] \in {"respond", "revokeAll"}
          /\ UNCHANGED refreshTokens
      BY <1>0, <1>3, <2>1, ErrorStatus
         DEF Logout, RequireAuth, Arrive, Goto, Fail, Reply, ControlOf, RowsOf,
             Answered, Ended, OK, NoContent
    <3>2. pc'[q] = "revokeAll" =>
            \A h \in owned'[q] : IsStored(h) /\ refreshTokens[h].owner = uid'[q]
      BY <1>3, <2>1 DEF Logout, RequireAuth, Arrive, Goto, Fail, Reply, IsStored
    <3> QED
      BY <3>1, <3>2 DEF RowsOf, Rotating, Creating, IsRevoked, IsStored
  <2>2. CASE q # r
    BY <1>0, <1>3, <2>2, RowsFrame DEF Logout, RequireAuth, Arrive, Goto, Fail, Reply
  <2> QED BY <2>1, <2>2
<1>4. ASSUME NEW r \in Requests, NEW t \in Presentable, Me(r, t)
      PROVE  RowsOf(q)'
  <2>1. CASE q = r
    BY <1>0, <1>4, <2>1, ErrorStatus
       DEF Me, RequireAuth, Arrive, Goto, Fail, Reply, ControlOf, RowsOf, Rotating,
           Creating, Answered, Ended, OK, NoContent
  <2>2. CASE q # r
    BY <1>0, <1>4, <2>2, RowsFrame DEF Me, RequireAuth, Arrive, Goto, Fail, Reply
  <2> QED BY <2>1, <2>2
<1>5. ASSUME NEW r \in Requests, FindUser(r) \/ CreateGoogleUser(r)
      PROVE  RowsOf(q)'
  <2>1. CASE q = r
    <3>1. /\ status'[q] # OK
          /\ UNCHANGED <<refreshTokens, kind[q], spent[q]>>
          /\ kind[q] = "verify"
          /\ pc'[q] # "revokeOld" /\ pc'[q] # "revokeAll"
      BY <1>0, <1>5, <2>1, ErrorStatus
         DEF FindUser, CreateGoogleUser, Goto, Fail, Reply, ControlOf, Answered, Ended,
             OK
    <3> QED
      BY <1>0, <3>1 DEF RowsOf, Rotating
  <2>2. CASE q # r
    BY <1>0, <1>5, <2>2, RowsFrame DEF FindUser, CreateGoogleUser, Goto, Fail, Reply
  <2> QED BY <2>1, <2>2
<1>7. ASSUME NEW r \in Requests, CreateSession(r)
      PROVE  RowsOf(q)'
  <2>1. CASE q = r
    <3>1. /\ status'[q] = 0 /\ ~spent[q]
          /\ UNCHANGED <<refreshTokens, kind[q], tok[q], spent[q]>>
          /\ pc[q] \in Creating /\ pc'[q] \in Creating
      BY <1>0, <1>7, <2>1
         DEF CreateSession, Goto, ControlOf, RowsOf, Creating, Answered, Ended
    <3> QED
      BY <1>0, <3>1 DEF RowsOf, Rotating, Creating, IsStored, OK, NoContent
  <2>2. CASE q # r
    BY <1>0, <1>7, <2>2, RowsFrame
       DEF CreateSession, ReadExpiry, GenerateAccess, GenerateRefresh, Goto
  <2> QED BY <2>1, <2>2
<1>8. ASSUME NEW r \in Requests, StoreToken(r)
      PROVE  RowsOf(q)'
  <2>1. CASE q = r
    <3>1. /\ ~spent'[q]
          /\ UNCHANGED <<kind[q], tok[q], ref[q]>>
          /\ kind[q] \in {"verify", "refresh"}
          /\ kind[q] = "refresh" => IsStored(Sign(tok[q]))
          /\ pc'[q] # "revokeAll"
      BY <1>0, <1>8, <2>1
         DEF StoreToken, Goto, Fail, Reply, ControlOf, RowsOf, Rotating, Creating
    <3>2. IsStored(Sign(tok[q])) => IsStored(Sign(tok[q]))'
      BY <1>0, <1>8 DEF Grows, StoreToken, IsStored
    <3>3. kind[q] = "refresh" => status'[q] # OK /\ status'[q] # 401
      BY <1>0, <1>8, <2>1, ErrorStatus, StoreErrorStatus
         DEF StoreToken, Goto, Fail, Reply, ControlOf, Answered, Ended, OK
    <3>4. status'[q] = OK \/ pc'[q] = "revokeOld" => IsStored(Sign(ref[q]))'
      BY <1>0, <1>8, <2>1, CreateStores, ErrorStatus
         DEF StoreToken, StoreSession, Goto, Fail, Reply, ControlOf, Answered, Ended,
             IsStored
    <3> QED
      BY <3>1, <3>2, <3>3, <3>4 DEF RowsOf, Rotating, IsStored
  <2>2. CASE q # r
    BY <1>0, <1>8, <2>2, RowsFrame DEF StoreToken, Goto, Fail, Reply
  <2> QED BY <2>1, <2>2
<1>9. ASSUME NEW r \in Requests, CheckRevoked(r)
      PROVE  RowsOf(q)'
  <2>1. CASE q = r
    <3>1. /\ UNCHANGED <<refreshTokens, kind[q], tok[q], acc[q], spent[q]>>
          /\ kind[q] = "refresh"
          /\ status'[q] # OK /\ status'[q] # 401
          /\ pc'[q] \in {"accessExp", "respond"}
          /\ pc'[q] = "accessExp" => IsActive(Sign(tok[q]))
      BY <1>0, <1>9, <2>1, ErrorStatus, StoreErrorStatus
         DEF CheckRevoked, CheckIsRevoked, Goto, Fail, Reply, ControlOf, Answered,
             Ended, OK, TokenStoreErrors
    <3> QED
      BY <1>0, <3>1 DEF RowsOf, Rotating, Creating, IsActive, IsRevoked, IsStored
  <2>2. CASE q # r
    BY <1>0, <1>9, <2>2, RowsFrame DEF CheckRevoked, Goto, Fail, Reply
  <2> QED BY <2>1, <2>2
<1>10. ASSUME NEW r \in Requests, RevokeOld(r) \/ RevokeExpired(r)
      PROVE  RowsOf(q)'
  <2>1. CASE q = r
    <3>1. /\ UNCHANGED <<kind[q], tok[q], acc[q], ref[q], spent[q]>>
          /\ kind[q] = "refresh"
          /\ pc[q] \in {"revokeOld", "revokeExpired"}
          /\ pc'[q] = "respond"
      BY <1>0, <1>10, <2>1 DEF RevokeOld, RevokeExpired, Fail, Reply, ControlOf
    <3>2. PICK err \in TokenStoreErrors :
            /\ RevokeRefreshToken(tok[q], err)
            /\ err # NoError => status'[q] = FromError(err)
            /\ err = NoError => status'[q] = IF pc[q] = "revokeOld" THEN OK
                                            ELSE FromError(ErrRefreshTokenExpired)
      BY <1>10, <2>1 DEF RevokeOld, RevokeExpired, Fail, Reply
    <3>3. err = NoError => IsRevoked(Sign(tok[q]))'
      <4>1. ASSUME err = NoError
            PROVE  IsRevoked(Sign(tok[q]))'
        <5> DEFINE S == {Sign(tok[q])} \cap DOMAIN refreshTokens
        <5>1. S \subseteq DOMAIN refreshTokens /\ UpdateRevoked(S, NoError)
          BY <3>2, <4>1 DEF RevokeRefreshToken, RevokeByTokenHash
        <5>2. Sign(tok[q])' = Sign(tok[q])
          BY <3>1 DEF Sign
        <5> HIDE DEF S
        <5>3. S # {} /\ \A h \in S : IsRevoked(h)'
          BY <5>1, UpdateRevokes
        <5> QED
          BY <5>2, <5>3 DEF S, IsRevoked, IsStored
      <4> QED BY <4>1
    <3>4. err # NoError => status'[q] # OK /\ status'[q] # 401
      BY <3>2, ErrorStatus, StoreErrorStatus
    <3>5. status'[q] = OK => pc[q] = "revokeOld"
      BY <3>1, <3>2, <3>4, ErrorStatus
    <3>6. \A h : (IsStored(h) => IsStored(h)') /\ (IsRevoked(h) => IsRevoked(h)')
      BY <1>0 DEF Grows, IsRevoked
    <3> HIDE DEF IsRevoked, IsStored, Sign
    <3> QED
      BY <1>0, <3>1, <3>3, <3>4, <3>5, <3>6 DEF RowsOf, Rotating, Creating
  <2>2. CASE q # r
    BY <1>0, <1>10, <2>2, RowsFrame DEF RevokeOld, RevokeExpired, Fail, Reply
  <2> QED BY <2>1, <2>2
<1>12. ASSUME NEW r \in Requests, RevokeAll(r)
      PROVE  RowsOf(q)'
  <2>1. CASE q = r
    <3>1. /\ UNCHANGED <<kind[q], spent[q], owned[q]>>
          /\ kind[q] = "logout"
          /\ pc[q] = "revokeAll" /\ pc'[q] = "respond"
      BY <1>0, <1>12, <2>1 DEF RevokeAll, Fail, Reply, ControlOf
    <3>2. status'[q] = NoContent => UpdateRevoked(ActiveOf(uid[q]), NoError)
      BY <1>12, <2>1, ErrorStatus DEF RevokeAll, Destroy, Revoke, Fail, Reply
    <3>3. status'[q] = NoContent => \A h \in ActiveOf(uid[q]) : IsRevoked(h)'
      BY <3>2, UpdateRevokes, ActiveOf(uid[q]) \subseteq DOMAIN refreshTokens, TokenTypeOK
         DEF ActiveOf
    <3>4. \A h \in owned[q] : h \in ActiveOf(uid[q]) \/ IsRevoked(h)
      BY <1>0, <3>1 DEF RowsOf, ActiveOf, IsActive, IsRevoked, IsStored
    <3>5. \A h : IsRevoked(h) => IsRevoked(h)'
      BY <1>0 DEF Grows, IsRevoked
    <3> HIDE DEF IsRevoked, IsStored, Sign
    <3> QED
      BY <1>0, <3>1, <3>3, <3>4, <3>5 DEF RowsOf, Rotating, Creating
  <2>2. CASE q # r
    BY <1>0, <1>12, <2>2, RowsFrame DEF RevokeAll, Fail, Reply
  <2> QED BY <2>1, <2>2
<1>13. ASSUME NEW r \in Requests, GetUser(r)
      PROVE  RowsOf(q)'
  <2>1. CASE q = r
    BY <1>0, <1>13, <2>1
       DEF GetUser, Fail, Reply, ControlOf, RowsOf, Rotating, Creating
  <2>2. CASE q # r
    BY <1>0, <1>13, <2>2, RowsFrame DEF GetUser, Fail, Reply
  <2> QED BY <2>1, <2>2
<1>14. ASSUME NEW r \in Requests, Respond(r) \/ Lose(r)
      PROVE  RowsOf(q)'
  BY <1>0, <1>14, RowsFrame DEF Respond, Lose, Goto, Ended
<1>16. CASE Crash
  BY <1>0, <1>16, RowsFrame DEF Crash, Ended
<1>17. CASE Tick
  BY <1>0, <1>17, RowsFrame DEF Tick
<1>18. CASE UNCHANGED vars
  BY <1>0, <1>18, RowsFrame DEF vars
<1> QED
  BY <1>1, <1>2, <1>3, <1>4, <1>5, <1>7, <1>8, <1>9, <1>10, <1>12,
     <1>13, <1>14, <1>16, <1>17, <1>18 DEF Next, Handler

(* What one step does to the table: nothing, a new row for the user its token     *)
(* names, or a revocation of rows that are there.                                  *)
LEMMA TableStep ==
  ASSUME TypeOK, Control, [Next]_vars
  PROVE  \/ UNCHANGED refreshTokens
         \/ \E t \in RefreshTokens :
              ~IsStored(Sign(t)) /\ InsertToken(Sign(t), t.Subject)
         \/ \E t \in RefreshTokens :
              IsStored(Sign(t)) /\ SetRevoked({Sign(t)})
         \/ \E u \in UserIDs : SetRevoked(ActiveOf(u))
<1>1. ASSUME NEW r \in Requests, StoreToken(r)
      PROVE  \/ UNCHANGED refreshTokens
             \/ \E t \in RefreshTokens : ~IsStored(Sign(t)) /\ InsertToken(Sign(t), t.Subject)
  <2>1. ref[r] \in RefreshTokens /\ ref[r].Subject = uid[r]
    BY <1>1 DEF StoreToken, Control, ControlOf
  <2> QED
    BY <1>1, <2>1 DEF StoreToken, StoreSession, CreateRefreshToken
<1>2. ASSUME NEW r \in Requests, RevokeOld(r) \/ RevokeExpired(r)
      PROVE  \/ UNCHANGED refreshTokens
             \/ \E t \in RefreshTokens : IsStored(Sign(t)) /\ SetRevoked({Sign(t)})
  <2>1. PICK err : UpdateRevoked({Sign(tok[r])} \cap DOMAIN refreshTokens, err)
    BY <1>2 DEF RevokeOld, RevokeExpired, RevokeRefreshToken, RevokeByTokenHash
  <2>2. CASE IsStored(Sign(tok[r]))
    <3>1. tok[r] \in RefreshTokens
      BY <2>2, HashLaws DEF TypeOK, TokenTypeOK, IsStored, Hashes
    <3>2. {Sign(tok[r])} \cap DOMAIN refreshTokens = {Sign(tok[r])}
      BY <2>2 DEF IsStored
    <3> QED
      BY <2>1, <2>2, <3>1, <3>2 DEF UpdateRevoked
  <2>3. CASE ~IsStored(Sign(tok[r]))
    <3>1. {Sign(tok[r])} \cap DOMAIN refreshTokens = {}
      BY <2>3 DEF IsStored
    <3> QED
      BY <2>1, <3>1 DEF UpdateRevoked
  <2> QED BY <2>2, <2>3
<1>3. ASSUME NEW r \in Requests, RevokeAll(r)
      PROVE  UNCHANGED refreshTokens \/ \E u \in UserIDs : SetRevoked(ActiveOf(u))
  <2>1. uid[r] \in UserIDs
    BY <1>3 DEF RevokeAll, Control, ControlOf
  <2> QED
    BY <1>3, <2>1 DEF RevokeAll, Destroy, Revoke, UpdateRevoked
<1>4. ASSUME NEW r \in Requests,
             \/ Verify(r) \/ FindUser(r) \/ CreateGoogleUser(r) \/ CreateSession(r)
             \/ CheckRevoked(r) \/ GetUser(r) \/ Respond(r) \/ Lose(r)
             \/ \E t \in Presentable : Refresh(r, t) \/ Logout(r, t) \/ Me(r, t)
      PROVE  UNCHANGED refreshTokens
  BY <1>4 DEF Verify, Refresh, Logout, Me, Arrive, FindUser, CreateGoogleUser,
              CreateSession, CheckRevoked, GetUser, Respond, Lose, db
<1>5. Crash \/ Tick \/ UNCHANGED vars => UNCHANGED refreshTokens
  BY DEF Crash, Tick, vars, db
<1> QED
  BY <1>1, <1>2, <1>3, <1>4, <1>5 DEF Next, Handler

(* What one step does to the tokens clients hold: nothing, or the pair of a        *)
(* request that has succeeded.                                                      *)
LEMMA DeliveryStep ==
  ASSUME [Next]_vars
  PROVE  \/ UNCHANGED delivered
         \/ \E r \in Requests :
              /\ status[r] = OK /\ kind[r] \in {"verify", "refresh"}
              /\ delivered' = delivered \cup {acc[r], ref[r]}
              /\ UNCHANGED refreshTokens
<1>1. ASSUME NEW r \in Requests,
             \/ Verify(r) \/ FindUser(r) \/ CreateGoogleUser(r) \/ CreateSession(r)
             \/ StoreToken(r) \/ CheckRevoked(r) \/ RevokeOld(r) \/ RevokeExpired(r)
             \/ RevokeAll(r) \/ GetUser(r) \/ Lose(r)
             \/ \E t \in Presentable : Refresh(r, t) \/ Logout(r, t) \/ Me(r, t)
      PROVE  UNCHANGED delivered
  BY <1>1 DEF Verify, Refresh, Logout, Me, Arrive, FindUser, CreateGoogleUser,
              CreateSession, StoreToken, CheckRevoked, RevokeOld, RevokeExpired,
              RevokeAll, GetUser, Lose
<1>2. Crash \/ Tick \/ UNCHANGED vars => UNCHANGED delivered
  BY DEF Crash, Tick, vars
<1>3. ASSUME NEW r \in Requests, Respond(r)
      PROVE  \/ UNCHANGED delivered
             \/ /\ status[r] = OK /\ kind[r] \in {"verify", "refresh"}
                /\ delivered' = delivered \cup {acc[r], ref[r]}
                /\ UNCHANGED refreshTokens
  BY <1>3 DEF Respond, db
<1> QED
  BY <1>1, <1>2, <1>3 DEF Next, Handler

(* So every request is.                                                          *)
LEMMA RowsStep ==
  ASSUME TypeOK, Control, Rows, [Next]_vars
  PROVE  Rows'
<1>1. \A h \in DOMAIN refreshTokens' : refreshTokens'[h].owner = h.hmac.Subject
  <2>1. \A h \in DOMAIN refreshTokens : refreshTokens[h].owner = h.hmac.Subject
    BY DEF Rows
  <2>2. ASSUME NEW t \in RefreshTokens, InsertToken(Sign(t), t.Subject)
        PROVE  <1>1
    BY <2>1, <2>2 DEF InsertToken, Sign
  <2>3. ASSUME NEW S, SetRevoked(S)
        PROVE  <1>1
    BY <2>1, <2>3 DEF SetRevoked, TypeOK, TokenTypeOK, TokenRows
  <2> QED
    BY <2>1, <2>2, <2>3, TableStep
<1>2. \A t \in delivered' : t.TokenType = TokenTypeRefresh => IsStored(Sign(t))'
  <2>1. Grows
    BY RowsGrow
  <2>2. \A t \in delivered : t.TokenType = TokenTypeRefresh => IsStored(Sign(t))'
    BY <2>1 DEF Rows, Grows, IsStored
  <2>3. ASSUME NEW r \in Requests,
               status[r] = OK, kind[r] \in {"verify", "refresh"},
               UNCHANGED refreshTokens
        PROVE  IsStored(Sign(ref[r])) /\ acc[r].TokenType = TokenTypeAccess
    BY <2>3 DEF Rows, RowsOf, Control, ControlOf, AccessTokens
  <2> QED
    BY <2>2, <2>3, DeliveryStep DEF TokenTypeAccess, TokenTypeRefresh, IsStored, Sign
<1> QED
  BY <1>1, <1>2, RequestRows DEF Rows
------------------------------------------------------------------------------
(* Users are never taken away and never change their Google account.               *)
UsersGrow == \A id \in DOMAIN users : id \in DOMAIN users' /\ users'[id] = users[id]

(* What one step does to the users: nothing, or one new row for an account that    *)
(* had none.                                                                        *)
LEMMA UsersStep ==
  ASSUME [Next]_vars
  PROVE  \/ UNCHANGED users
         \/ \E id, s : /\ id \notin DOMAIN users
                       /\ ByProviderUserID(s) = {}
                       /\ InsertUser(id, s)
<1>1. ASSUME NEW r \in Requests,
             \/ Verify(r) \/ FindUser(r) \/ CreateSession(r) \/ StoreToken(r)
             \/ CheckRevoked(r) \/ RevokeOld(r) \/ RevokeExpired(r) \/ RevokeAll(r)
             \/ GetUser(r) \/ Respond(r) \/ Lose(r)
             \/ \E t \in Presentable : Refresh(r, t) \/ Logout(r, t) \/ Me(r, t)
      PROVE  UNCHANGED users
  BY <1>1 DEF Verify, Refresh, Logout, Me, Arrive, FindUser, CreateSession, StoreToken,
              CheckRevoked, RevokeOld, RevokeExpired, RevokeAll, GetUser, Respond, Lose, db
<1>2. Crash \/ Tick \/ UNCHANGED vars => UNCHANGED users
  BY DEF Crash, Tick, vars, db
<1>3. ASSUME NEW r \in Requests, CreateGoogleUser(r)
      PROVE  \/ UNCHANGED users
             \/ \E id, s : /\ id \notin DOMAIN users
                           /\ ByProviderUserID(s) = {}
                           /\ InsertUser(id, s)
  BY <1>3 DEF CreateGoogleUser, CreateUser
<1> QED
  BY <1>1, <1>2, <1>3 DEF Next, Handler

(* Users are added only, one for each subject.                                   *)
LEMMA UniqueUsers ==
  ASSUME Accounts, [Next]_vars
  PROVE  /\ UsersGrow
         /\ (\A i, j \in DOMAIN users : users[i] = users[j] => i = j)'
<1>1. CASE UNCHANGED users
  BY <1>1 DEF Accounts, UsersGrow
<1>2. ASSUME NEW id, NEW s, id \notin DOMAIN users, ByProviderUserID(s) = {}, InsertUser(id, s)
      PROVE  /\ UsersGrow
             /\ (\A i, j \in DOMAIN users : users[i] = users[j] => i = j)'
  <2>1. \A i \in DOMAIN users : users[i] # s
    BY <1>2 DEF ByProviderUserID
  <2> QED
    BY <1>2, <2>1 DEF InsertUser, Accounts, UsersGrow
<1> QED
  BY <1>1, <1>2, UsersStep

(* What a request knows of its user stays true while users are added.            *)
LEMMA AccountFrame ==
  ASSUME Accounts, UsersGrow, NEW q \in Requests,
         UNCHANGED <<kind[q], tok[q], uid[q], subject[q]>>,
         pc'[q] = pc[q] \/ pc'[q] \notin {"idle", "findUser", "createUser"},
         status'[q] # status[q] => kind[q] # "me"
  PROVE  AccountOf(q)'
<1>1. AccountOf(q)
  BY DEF Accounts
<1> QED
  BY <1>1 DEF AccountOf, UsersGrow, IsToken

(* No error of RequireAuth is answered 404.                                         *)
LEMMA GuardStatus ==
  /\ FromError(ErrNoTokenInRequest) # 404
  /\ FromError(ErrParse) # 404
  /\ FromError(ErrUnauthorized) # 404
<1>1. FromError(ErrNoTokenInRequest) # 404
  BY DEF FromError, BadRequest, Unauthorized, ErrNoTokenInRequest, ErrUserNotFound
<1>2. FromError(ErrParse) # 404
  BY DEF FromError, BadRequest, Unauthorized, ErrParse, ErrUserNotFound
<1>3. FromError(ErrUnauthorized) # 404
  BY DEF FromError, BadRequest, Unauthorized, ErrUnauthorized, ErrUserNotFound
<1> QED
  BY <1>1, <1>2, <1>3

(* After a step a request is right about its user, its own step or another's.    *)
LEMMA RequestAccounts ==
  ASSUME TypeOK, Control, Accounts, [Next]_vars, NEW q \in Requests
  PROVE  AccountOf(q)'
<1>0. AccountOf(q) /\ ControlOf(q) /\ UsersGrow
  BY UniqueUsers DEF Accounts, Control
<1> USE DEF TypeOK, SessionTypeOK, db, minted, presented
<1>1. ASSUME NEW r \in Requests, Verify(r)
      PROVE  AccountOf(q)'
  <2>1. CASE q = r
    BY <1>0, <1>1, <2>1 DEF Verify, Arrive, Goto, Fail, Reply, AccountOf, IsToken
  <2>2. CASE q # r
    BY <1>0, <1>1, <2>2, AccountFrame DEF Verify, Arrive, Goto, Fail, Reply
  <2> QED BY <2>1, <2>2
<1>2. ASSUME NEW r \in Requests, NEW t \in Presentable, Refresh(r, t)
      PROVE  AccountOf(q)'
  <2>1. CASE q = r
    BY <1>0, <1>2, <2>1
       DEF Refresh, Presentable, Arrive, Goto, Fail, Reply, Accounts, AccountOf, IsToken
  <2>2. CASE q # r
    BY <1>0, <1>2, <2>2, AccountFrame DEF Refresh, Arrive, Goto, Fail, Reply
  <2> QED BY <2>1, <2>2
<1>3. ASSUME NEW r \in Requests, NEW t \in Presentable, Logout(r, t) \/ Me(r, t)
      PROVE  AccountOf(q)'
  <2>1. CASE q = r
    <3>1. /\ uid'[q] = NoUser \/ (IsToken(t) /\ uid'[q] = t.Subject)
          /\ kind'[q] \in {"logout", "me"} /\ tok'[q] = t
          /\ pc'[q] \in {"revokeAll", "getUser", "respond"}
          /\ status'[q] # 404
          /\ UNCHANGED users
      BY <1>0, <1>3, <2>1, GuardStatus
         DEF Logout, Me, RequireAuth, Arrive, Goto, Fail, Reply, AccountOf, ControlOf,
             Answered, Ended
    <3>2. IsToken(t) => t.Subject \in DOMAIN users
      BY <1>3 DEF Presentable, IsToken, Accounts
    <3> QED
      BY <3>1, <3>2 DEF AccountOf, IsToken
  <2>2. CASE q # r
    BY <1>0, <1>3, <2>2, AccountFrame
       DEF Logout, Me, RequireAuth, Arrive, Goto, Fail, Reply
  <2> QED BY <2>1, <2>2
<1>4. ASSUME NEW r \in Requests, FindUser(r) \/ CreateGoogleUser(r)
      PROVE  AccountOf(q)'
  <2>1. CASE q = r
    <3>1. /\ UNCHANGED <<kind[q], tok[q], subject[q]>>
          /\ kind[q] = "verify" /\ uid[q] = NoUser
          /\ uid'[q] = NoUser \/ pc'[q] = "accessExp"
      BY <1>0, <1>4, <2>1
         DEF FindUser, CreateGoogleUser, Goto, Fail, Reply, AccountOf, ControlOf
    <3>2. uid'[q] # NoUser => uid'[q] \in DOMAIN users' /\ users'[uid'[q]] = subject[q]
      BY <1>0, <1>4, <2>1, <3>1
         DEF FindUser, ByProviderUserID, CreateGoogleUser, CreateUser, InsertUser,
             NoError, ErrDatabase, ErrUserAlreadyExists
    <3>3. pc'[q] \in {"idle", "findUser", "createUser"} => uid'[q] = NoUser
      BY <3>1
    <3> QED
      BY <1>0, <3>1, <3>2, <3>3 DEF AccountOf, UsersGrow, IsToken
  <2>2. CASE q # r
    BY <1>0, <1>4, <2>2, AccountFrame DEF FindUser, CreateGoogleUser, Goto, Fail, Reply
  <2> QED BY <2>1, <2>2
<1>5. ASSUME NEW r \in Requests, CreateSession(r) \/ StoreToken(r)
      PROVE  AccountOf(q)'
  BY <1>0, <1>5, AccountFrame
     DEF CreateSession, StoreToken, Goto, Fail, Reply, ControlOf, Creating
<1>6. ASSUME NEW r \in Requests, CheckRevoked(r)
      PROVE  AccountOf(q)'
  <2>1. CASE q = r
    <3>1. /\ UNCHANGED <<kind[q], tok[q], subject[q], users>>
          /\ kind[q] = "refresh" /\ IsToken(tok[q])
          /\ uid'[q] \in {uid[q], tok[q].Subject}
          /\ pc'[q] \in {"respond", "accessExp"}
      BY <1>0, <1>6, <2>1
         DEF CheckRevoked, Goto, Fail, Reply, ControlOf, RefreshTokens, IsToken
    <3> QED
      BY <1>0, <3>1 DEF AccountOf, IsToken
  <2>2. CASE q # r
    BY <1>0, <1>6, <2>2, AccountFrame DEF CheckRevoked, Goto, Fail, Reply
  <2> QED BY <2>1, <2>2
<1>7. ASSUME NEW r \in Requests, RevokeOld(r) \/ RevokeExpired(r) \/ RevokeAll(r)
      PROVE  AccountOf(q)'
  BY <1>0, <1>7, AccountFrame
     DEF RevokeOld, RevokeExpired, RevokeAll, Goto, Fail, Reply, ControlOf
<1>8. ASSUME NEW r \in Requests, GetUser(r)
      PROVE  AccountOf(q)'
  <2>1. CASE q = r
    <3>1. uid[q] \in DOMAIN users
      BY <1>0, <1>8, <2>1 DEF GetUser, AccountOf, ControlOf
    <3>2. FromError(ErrDatabase) # 404
      BY DEF FromError, BadRequest, Unauthorized, ErrDatabase, ErrUserNotFound
    <3> QED
      BY <1>0, <1>8, <2>1, <3>1, <3>2 DEF GetUser, Fail, Reply, AccountOf, OK
  <2>2. CASE q # r
    BY <1>0, <1>8, <2>2, AccountFrame DEF GetUser, Fail, Reply
  <2> QED BY <2>1, <2>2
<1>9. ASSUME NEW r \in Requests, Respond(r) \/ Lose(r)
      PROVE  AccountOf(q)'
  BY <1>0, <1>9, AccountFrame DEF Respond, Lose, Goto
<1>10. CASE Crash
  BY <1>0, <1>10, AccountFrame DEF Crash
<1>11. CASE Tick
  BY <1>0, <1>11, AccountFrame DEF Tick
<1>12. CASE UNCHANGED vars
  BY <1>0, <1>12, AccountFrame DEF vars
<1> QED
  BY <1>1, <1>2, <1>3, <1>4, <1>5, <1>6, <1>7, <1>8, <1>9, <1>10, <1>11, <1>12
     DEF Next, Handler

(* So every request is.                                                          *)
LEMMA AccountsStep ==
  ASSUME TypeOK, Control, Accounts, [Next]_vars
  PROVE  Accounts'
<1>1. /\ UsersGrow
      /\ (\A i, j \in DOMAIN users : users[i] = users[j] => i = j)'
  BY UniqueUsers
<1>2. \A r \in Requests : AccountOf(r)'
  BY RequestAccounts
<1>3. \A t \in delivered' : t.Subject \in DOMAIN users'
  <2>1. \A t \in delivered : t.Subject \in DOMAIN users'
    BY <1>1 DEF Accounts, UsersGrow
  <2>2. ASSUME NEW r \in Requests, status[r] = OK, kind[r] \in {"verify", "refresh"}
        PROVE  acc[r].Subject \in DOMAIN users' /\ ref[r].Subject \in DOMAIN users'
    <3>1. /\ acc[r] \in AccessTokens /\ acc[r].Subject = uid[r]
          /\ ref[r] \in RefreshTokens /\ ref[r].Subject = uid[r]
      BY <2>2 DEF Control, ControlOf
    <3>2. uid[r] \in UserIDs
      BY <3>1 DEF AccessTokens, CustomClaims
    <3>3. uid[r] \in DOMAIN users
      BY <3>2, AuthAssumption DEF Accounts, AccountOf
    <3> QED
      BY <1>1, <3>1, <3>3 DEF UsersGrow
  <2> QED
    BY <2>1, <2>2, DeliveryStep
<1> QED
  BY <1>1, <1>2, <1>3 DEF Accounts
------------------------------------------------------------------------------
(* Tokens are minted by CreateSession alone, and a request that is past minting   *)
(* never comes back to it.                                                        *)
Settled(q) ==
  /\ UNCHANGED <<exp[q], acc[q], ref[q]>>
  /\ pc'[q] \in Unminted => pc[q] \in Unminted
  /\ pc'[q] \in {"accessSign", "refreshSign"} => pc'[q] = pc[q]

(* No other step mints, or takes a request back to minting.                      *)
LEMMA MintStep ==
  ASSUME TypeOK, [Next]_vars, NEW q \in Requests, ~CreateSession(q)
  PROVE  Settled(q)
<1> USE DEF TypeOK, SessionTypeOK, Settled, Unminted
<1>1. ASSUME NEW r \in Requests, Verify(r)
      PROVE  Settled(q)
  BY <1>1 DEF Verify, Arrive, minted, Goto, Fail, Reply
<1>2. ASSUME NEW r \in Requests, NEW t \in Presentable, Refresh(r, t) \/ Logout(r, t) \/ Me(r, t)
      PROVE  Settled(q)
  BY <1>2 DEF Refresh, Logout, Me, RequireAuth, Arrive, minted, Goto, Fail, Reply
<1>3. ASSUME NEW r \in Requests, CreateSession(r)
      PROVE  Settled(q)
  BY <1>3 DEF CreateSession, ReadExpiry, GenerateAccess, GenerateRefresh, Goto
<1>4. ASSUME NEW r \in Requests,
             \/ FindUser(r) \/ CreateGoogleUser(r) \/ StoreToken(r) \/ CheckRevoked(r)
             \/ RevokeOld(r) \/ RevokeExpired(r) \/ RevokeAll(r) \/ GetUser(r)
             \/ Respond(r) \/ Lose(r)
      PROVE  Settled(q)
  BY <1>4 DEF FindUser, CreateGoogleUser, StoreToken, CheckRevoked, RevokeOld, RevokeExpired,
              RevokeAll, GetUser, Respond, Lose, minted, Goto, Fail, Reply
<1>5. CASE Crash
  BY <1>5 DEF Crash, minted
<1>6. CASE Tick \/ UNCHANGED vars
  BY <1>6 DEF Tick, vars, minted
<1> QED
  BY <1>1, <1>2, <1>3, <1>4, <1>5, <1>6 DEF Next, Handler

(* The clock never goes back.                                                      *)
LEMMA ClockStep ==
  ASSUME TypeOK, [Next]_vars
  PROVE  now <= now' /\ now \in Nat /\ now' \in Nat
<1>0. now \in Nat
  BY DEF TypeOK, SessionTypeOK, Time
<1>1. ~Tick => now' = now
  BY DEF Next, Handler, Verify, Refresh, Logout, Me, Arrive, FindUser, CreateGoogleUser,
         CreateSession, StoreToken, CheckRevoked, RevokeOld, RevokeExpired, RevokeAll, GetUser,
         Respond, Lose, Crash, vars
<1>2. Tick => now' = now + 1
  BY DEF Tick
<1> QED
  BY <1>0, <1>1, <1>2

(* No step makes a token that lives longer than its lifetime.                    *)
LEMMA LifetimesStep ==
  ASSUME TypeOK, Control, Lifetimes, [Next]_vars
  PROVE  Lifetimes'
<1>0. \A r \in Requests :
        /\ acc[r] \in AccessTokens \cup {NoToken} /\ ref[r] \in RefreshTokens \cup {NoToken}
        /\ exp[r] \in Nat
  BY DEF TypeOK, SessionTypeOK, Expiry
<1>1. now <= now' /\ now \in Nat /\ now' \in Nat
  BY ClockStep
<1>2. ASSUME NEW r \in Requests, ~CreateSession(r)
      PROVE  LifetimesOf(r)'
  <2>1. Settled(r)
    BY <1>2, MintStep
  <2>2. LifetimesOf(r)
    BY DEF Lifetimes
  <2>3. \A ttl \in Nat : exp[r] <= now + ttl => exp[r] <= now' + ttl
    BY <1>0, <1>1
  <2> QED
    BY <2>1, <2>2, <2>3, TTLAssumption DEF LifetimesOf, Settled
<1>3. ASSUME NEW r \in Requests, CreateSession(r)
      PROVE  LifetimesOf(r)'
  <2>1. LifetimesOf(r) /\ now' = now
    BY <1>3 DEF Lifetimes, CreateSession
  <2>2. CASE pc[r] = "accessExp" \/ pc[r] = "refreshExp"
    <3>1. UNCHANGED <<acc, ref>>
      BY <1>3, <2>2 DEF CreateSession, ReadExpiry
    <3>2. CASE pc[r] = "accessExp"
      <4>1. pc'[r] = "accessSign" /\ exp'[r] = now + AccessTTL
        BY <1>3, <3>2 DEF CreateSession, ReadExpiry, Goto, TypeOK, SessionTypeOK
      <4> QED
        BY <1>1, <2>1, <3>1, <4>1, TTLAssumption DEF LifetimesOf
    <3>3. CASE pc[r] = "refreshExp"
      <4>1. pc'[r] = "refreshSign" /\ exp'[r] = now + RefreshTTL
        BY <1>3, <3>3 DEF CreateSession, ReadExpiry, Goto, TypeOK, SessionTypeOK
      <4> QED
        BY <1>1, <2>1, <3>1, <4>1, TTLAssumption DEF LifetimesOf
    <3> QED BY <2>2, <3>2, <3>3
  <2>3. CASE pc[r] = "accessSign"
    <3>1. pc'[r] = "refreshExp" /\ ref' = ref
          /\ acc'[r] = GenerateJWT(uid[r], now, exp[r], TokenTypeAccess)
      BY <1>3, <2>3 DEF CreateSession, GenerateAccess, Goto, TypeOK, SessionTypeOK
    <3>2. acc'[r].ExpiresAt = exp[r] /\ acc'[r].IssuedAt = now
      BY <3>1 DEF GenerateJWT
    <3> QED
      BY <2>1, <2>3, <3>1, <3>2 DEF LifetimesOf
  <2>4. CASE pc[r] = "refreshSign"
    <3>1. pc'[r] = "storeToken" /\ acc' = acc
          /\ ref'[r] = GenerateJWT(uid[r], now, exp[r], TokenTypeRefresh)
      BY <1>3, <2>4 DEF CreateSession, GenerateRefresh, Goto, TypeOK, SessionTypeOK
    <3>2. ref'[r].ExpiresAt = exp[r] /\ ref'[r].IssuedAt = now
      BY <3>1 DEF GenerateJWT
    <3> QED
      BY <2>1, <2>4, <3>1, <3>2 DEF LifetimesOf
  <2> QED
    BY <1>3, <2>2, <2>3, <2>4 DEF CreateSession
<1>4. LifetimeBounded'
  <2>1. ASSUME NEW r \in Requests, status[r] = OK, kind[r] \in {"verify", "refresh"},
               NEW t \in {acc[r], ref[r]}
        PROVE  t.ExpiresAt <= t.IssuedAt + TTLOf(t)
    <3>1. acc[r] \in AccessTokens /\ ref[r] \in RefreshTokens
      BY <2>1 DEF Control, ControlOf
    <3>2. acc[r] # NoToken /\ ref[r] # NoToken
      BY <3>1, TokenAssumption DEF AccessTokens, RefreshTokens
    <3>3. TTLOf(acc[r]) = AccessTTL /\ TTLOf(ref[r]) = RefreshTTL
      BY <3>1 DEF TTLOf, AccessTokens, RefreshTokens, TokenTypeAccess, TokenTypeRefresh
    <3> QED
      BY <2>1, <3>2, <3>3 DEF Lifetimes, LifetimesOf
  <2> QED
    BY <2>1, DeliveryStep DEF Lifetimes, LifetimeBounded, TTLOf
<1> QED
  BY <1>2, <1>3, <1>4 DEF Lifetimes
------------------------------------------------------------------------------
(* A session that was destroyed stays so.                                        *)
LEMMA DestroyedStep ==
  ASSUME [Next]_vars
  PROVE  destroyed \subseteq destroyed'
BY DEF Next, Handler, Verify, Refresh, Logout, Me, Arrive, FindUser, CreateGoogleUser,
       CreateSession, StoreToken, CheckRevoked, RevokeOld, RevokeExpired, RevokeAll, GetUser,
       Respond, Lose, Crash, Tick, vars

(* A request keeps the token it came with, and sets out to revoke it as expired    *)
(* only if it is.                                                                  *)
Keeps(q) ==
  /\ kind[q] # "none" => UNCHANGED <<kind[q], tok[q]>>
  /\ \/ pc'[q] # "revokeExpired"
     \/ IsExpired(tok'[q], now)
     \/ pc[q] = "revokeExpired" /\ tok'[q] = tok[q]

(* Every step keeps the tokens that requests came with.                          *)
LEMMA PresentedStep ==
  ASSUME TypeOK, Control, [Next]_vars, NEW q \in Requests
  PROVE  Keeps(q)
<1>0. \A r \in Requests : pc[r] = "idle" => kind[r] = "none"
  BY DEF Control, ControlOf
<1> USE DEF TypeOK, Keeps
<1>1. ASSUME NEW r \in Requests, Verify(r)
      PROVE  Keeps(q)
  BY <1>0, <1>1 DEF Verify, Arrive, Goto, Fail, Reply
<1>2. ASSUME NEW r \in Requests, NEW t \in Presentable, Logout(r, t) \/ Me(r, t)
      PROVE  Keeps(q)
  BY <1>0, <1>2 DEF Logout, Me, RequireAuth, Arrive, Goto, Fail, Reply
<1>3. ASSUME NEW r \in Requests, NEW t \in Presentable, Refresh(r, t)
      PROVE  Keeps(q)
  BY <1>0, <1>3 DEF Refresh, Arrive, Goto, Fail, Reply
<1>4. ASSUME NEW r \in Requests,
             \/ FindUser(r) \/ CreateGoogleUser(r) \/ CreateSession(r) \/ StoreToken(r)
             \/ CheckRevoked(r) \/ RevokeOld(r) \/ RevokeExpired(r) \/ RevokeAll(r)
             \/ GetUser(r) \/ Respond(r) \/ Lose(r)
      PROVE  Keeps(q)
  BY <1>4 DEF FindUser, CreateGoogleUser, CreateSession, StoreToken, CheckRevoked, RevokeOld,
              RevokeExpired, RevokeAll, GetUser, Respond, Lose, presented, Goto, Fail, Reply
<1>5. CASE Crash \/ Tick \/ UNCHANGED vars
  BY <1>5 DEF Crash, Tick, vars, presented
<1> QED
  BY <1>1, <1>2, <1>3, <1>4, <1>5 DEF Next, Handler

(* A row is revoked by a refresh, of the token it came with, or by a logout.       *)
LEMMA RevocationStep ==
  ASSUME TypeOK, [Next]_vars, NEW h, IsRevoked(h)', ~IsRevoked(h)
  PROVE  \/ \E r \in Requests : (RevokeOld(r) \/ RevokeExpired(r)) /\ h = Sign(tok[r])
         \/ h \in destroyed'
<1> USE DEF TypeOK, TokenTypeOK, TokenRows
<1>1. ASSUME NEW S, NEW err, UpdateRevoked(S, err)
      PROVE  h \in S
  BY <1>1 DEF UpdateRevoked, SetRevoked, IsRevoked, IsStored
<1>2. ASSUME NEW r \in Requests, StoreToken(r)
      PROVE  FALSE
  BY <1>2 DEF StoreToken, StoreSession, CreateRefreshToken, InsertToken, IsRevoked, IsStored
<1>3. ASSUME NEW r \in Requests, RevokeOld(r) \/ RevokeExpired(r)
      PROVE  h = Sign(tok[r])
  BY <1>1, <1>3 DEF RevokeOld, RevokeExpired, RevokeRefreshToken, RevokeByTokenHash
<1>4. ASSUME NEW r \in Requests, RevokeAll(r)
      PROVE  h \in destroyed'
  <2>1. h \in ActiveOf(uid[r])
    BY <1>1, <1>4 DEF RevokeAll, Destroy, Revoke
  <2>2. refreshTokens'[h].revoked
    BY DEF IsRevoked
  <2> QED
    BY <1>4, <2>1, <2>2 DEF RevokeAll
<1>5. ASSUME UNCHANGED refreshTokens
      PROVE  FALSE
  BY <1>5 DEF IsRevoked, IsStored
<1>6. ASSUME NEW r \in Requests,
             \/ Verify(r) \/ FindUser(r) \/ CreateGoogleUser(r) \/ CreateSession(r)
             \/ CheckRevoked(r) \/ GetUser(r) \/ Respond(r) \/ Lose(r)
             \/ \E t \in Presentable : Refresh(r, t) \/ Logout(r, t) \/ Me(r, t)
      PROVE  UNCHANGED refreshTokens
  BY <1>6 DEF Verify, Refresh, Logout, Me, Arrive, FindUser, CreateGoogleUser,
              CreateSession, CheckRevoked, GetUser, Respond, Lose, db
<1>7. Crash \/ Tick \/ UNCHANGED vars => UNCHANGED refreshTokens
  BY DEF Crash, Tick, vars, db
<1> QED
  BY <1>2, <1>3, <1>4, <1>5, <1>6, <1>7 DEF Next, Handler

(* No step revokes a token that is neither replaced nor expired nor signed out.  *)
LEMMA ReplacementsStep ==
  ASSUME TypeOK, Control, Rows, Replacements, [Next]_vars
  PROVE  Replacements'
<1>0. now <= now' /\ now \in Nat /\ now' \in Nat
  BY ClockStep
<1>1. Grows
  BY RowsGrow
<1>2. \A r \in Requests : Refreshing(r, tok[r]) => pc[r] # "idle" /\ UNCHANGED <<kind[r], tok[r]>>
  BY PresentedStep DEF Keeps, Refreshing, Control, ControlOf
<1>3. ASSUME NEW r \in Requests, pc'[r] \in Unminted
      PROVE  ref'[r] = NoToken
  <2>1. CASE CreateSession(r)
    BY <1>3, <2>1
       DEF Replacements, CreateSession, ReadExpiry, GenerateAccess, GenerateRefresh, Goto,
           Unminted, TypeOK
  <2>2. CASE ~CreateSession(r)
    BY <1>3, <2>2, MintStep DEF Settled, Replacements
  <2> QED BY <2>1, <2>2
<1>4. \A t \in CustomClaims : IsExpired(t, now) => IsExpired(t, now')
  BY <1>0 DEF IsExpired, CustomClaims, Expiry
<1>5. ASSUME NEW r \in Requests, pc'[r] = "revokeExpired"
      PROVE  IsExpired(tok'[r], now')
  <2>1. IsExpired(tok'[r], now)
    BY <1>5, PresentedStep DEF Keeps, Replacements
  <2>2. tok'[r] \in CustomClaims
    BY <1>5, ControlStep DEF Control, ControlOf
  <2> QED
    BY <1>4, <2>1, <2>2
<1>6. ASSUME NEW r \in Requests, NEW h, IsStored(h), Refreshing(r, h.hmac), IsStored(Sign(ref[r]))
      PROVE  Refreshing(r, h.hmac)' /\ IsStored(Sign(ref[r]))'
  <2>1. ref[r] # NoToken
    BY <1>6, HashLaws, TokenAssumption
       DEF IsStored, TypeOK, TokenTypeOK, Hashes, RefreshTokens
  <2>2. ref'[r] = ref[r]
    <3>1. CASE ~CreateSession(r)
      BY <3>1, MintStep DEF Settled
    <3>2. CASE CreateSession(r)
      BY <2>1, <3>2 DEF CreateSession, Replacements, Unminted, ReadExpiry, GenerateAccess
    <3> QED BY <3>1, <3>2
  <2>3. kind'[r] = kind[r] /\ tok'[r] = tok[r]
    BY <1>6, <1>2 DEF Refreshing
  <2> QED
    BY <1>1, <1>6, <2>2, <2>3 DEF Refreshing, Grows, Sign
<1>7. RevokedOnlyIfReplaced'
  <2> SUFFICES ASSUME NEW h \in DOMAIN refreshTokens', refreshTokens'[h].revoked
               PROVE  \/ IsExpired(h.hmac, now')
                      \/ h \in destroyed'
                      \/ \E r \in Requests : Refreshing(r, h.hmac)' /\ IsStored(Sign(ref[r]))'
    BY DEF RevokedOnlyIfReplaced
  <2>1. CASE IsRevoked(h)
    <3>1. h.hmac \in CustomClaims
      BY <2>1, HashLaws DEF IsRevoked, IsStored, TypeOK, TokenTypeOK, RefreshTokens
    <3>2. \/ IsExpired(h.hmac, now) \/ h \in destroyed
          \/ \E r \in Requests : Refreshing(r, h.hmac) /\ IsStored(Sign(ref[r]))
      BY <2>1 DEF Replacements, RevokedOnlyIfReplaced, IsRevoked, IsStored
    <3>4. destroyed \subseteq destroyed'
      BY DestroyedStep
    <3> QED
      BY <1>4, <1>6, <2>1, <3>1, <3>2, <3>4 DEF IsRevoked
  <2>2. CASE ~IsRevoked(h)
    <3>1. CASE h \in destroyed'
      BY <3>1
    <3>2. ASSUME NEW r \in Requests, RevokeOld(r), h = Sign(tok[r])
          PROVE  Refreshing(r, h.hmac)' /\ IsStored(Sign(ref[r]))'
      <4>1. Refreshing(r, h.hmac) /\ IsStored(Sign(ref[r])) /\ IsStored(h)
        BY <3>2 DEF RevokeOld, Control, ControlOf, Rows, RowsOf, Rotating, Refreshing, Sign
      <4> QED BY <4>1, <1>6
    <3>3. ASSUME NEW r \in Requests, RevokeExpired(r), h = Sign(tok[r])
          PROVE  IsExpired(h.hmac, now')
      BY <3>3, <1>4 DEF RevokeExpired, Replacements, Control, ControlOf, Sign
    <3>4. IsRevoked(h)'
      BY DEF IsRevoked, IsStored
    <3> QED
      BY <2>2, <3>1, <3>2, <3>3, <3>4, RevocationStep
  <2> QED BY <2>1, <2>2
<1> QED
  BY <1>3, <1>5, <1>7 DEF Replacements
------------------------------------------------------------------------------
(* The invariant holds to begin with.                                            *)
LEMMA InitInv == Init => IInv
<1> SUFFICES ASSUME Init
             PROVE  IInv
  OBVIOUS
<1> USE DEF Init
<1>1. TypeOK
  BY
     DEF TypeOK, SessionTypeOK, UserTypeOK, TokenTypeOK, Time, Expiry, Kinds, Steps,
         Statuses
<1>2. Control
  BY DEF Control, ControlOf, Rotating, Creating, Answered, Ended, OK
<1>3. Rows
  BY DEF Rows, RowsOf, Rotating, Creating, OK, NoContent
<1>4. Accounts
  BY DEF Accounts, AccountOf, IsToken
<1>5. Lifetimes
  BY DEF Lifetimes, LifetimesOf, LifetimeBounded
<1>6. Replacements
  BY DEF Replacements, RevokedOnlyIfReplaced
<1> QED
  BY <1>1, <1>2, <1>3, <1>4, <1>5, <1>6 DEF IInv

(* The inductive invariant holds in every reachable state, for any numbers of      *)
(* requests, users and accounts and any lifetimes.                                  *)
THEOREM Invariance == Spec => []IInv
<1>1. Init => IInv
  BY InitInv
<1>2. IInv /\ [Next]_vars => IInv'
  BY TypeStep, ControlStep, RowsStep, AccountsStep, LifetimesStep, ReplacementsStep DEF IInv
<1> QED
  BY <1>1, <1>2, PTL DEF Spec
------------------------------------------------------------------------------
(* What follows from the inductive invariant.                                       *)

(* Every variable keeps its type: in particular no statement ever stores a hash    *)
(* that is not of a refresh token, nor a row without a user.                        *)
THEOREM TypeCorrect == Spec => []TypeOK
BY Invariance, PTL DEF IInv

(* Every refresh token a client holds has its row, under the user it names, so a   *)
(* logout of that user reaches it.                                                  *)
THEOREM DeliveredStored == Spec => []DeliveredAreStored
<1>1. IInv => DeliveredAreStored
  BY DEF IInv, Rows, DeliveredAreStored, IsStored, Sign
<1> QED
  BY <1>1, Invariance, PTL

(* A refresh answered 200 leaves the old token revoked and the new one stored,     *)
(* whatever the other requests do to the same rows.                                 *)
THEOREM RotationRevokes == Spec => []RotationRevokesOld
<1>1. IInv => RotationRevokesOld
  BY DEF IInv, Rows, RowsOf, RotationRevokesOld, Succeeded
<1> QED
  BY <1>1, Invariance, PTL

(* A token already revoked when a refresh presents it is never exchanged: only     *)
(* requests that overlap can exchange one token twice.                              *)
THEOREM SpentNotReplayed == Spec => []NoReplayOfSpentToken
<1>1. IInv => NoReplayOfSpentToken
  BY DEF IInv, Rows, RowsOf, NoReplayOfSpentToken
<1> QED
  BY <1>1, Invariance, PTL

(* A logout answered 204 has revoked every token its user had when it arrived.     *)
THEOREM LogoutRevokes == Spec => []LogoutRevokesOwned
<1>1. IInv => LogoutRevokesOwned
  BY DEF IInv, Rows, RowsOf, LogoutRevokesOwned
<1> QED
  BY <1>1, Invariance, PTL

(* A refresh answered 401 has revoked the expired token it was given.              *)
THEOREM ExpiredRevoked == Spec => []ExpiredAnswerMeansRevoked
<1>1. IInv => ExpiredAnswerMeansRevoked
  BY DEF IInv, Rows, RowsOf, ExpiredAnswerMeansRevoked
<1> QED
  BY <1>1, Invariance, PTL

(* Sign-ins of one Google account act for one user, and of two for two, however    *)
(* the first sign-ins race each other.                                              *)
THEOREM OneUser == Spec => []OneUserPerSubject
<1>1. IInv => OneUserPerSubject
  BY DEF IInv, Accounts, AccountOf, OneUserPerSubject
<1> QED
  BY <1>1, Invariance, PTL

(* Every token a client holds names a user on record, and /user/me never answers   *)
(* 404.                                                                             *)
THEOREM TokensOfUsers == Spec => []TokensNameUsers
<1>1. IInv => TokensNameUsers
  BY DEF IInv, Accounts, AccountOf, TokensNameUsers
<1> QED
  BY <1>1, Invariance, PTL
(* A live token is revoked only once its replacement is on record, by a logout or  *)
(* when it has expired: no failure takes both tokens from the client               *)
(* (auth.go:102,108).                                                              *)
THEOREM RevokedReplaced == Spec => []RevokedOnlyIfReplaced
<1>1. IInv => RevokedOnlyIfReplaced
  BY DEF IInv, Replacements
<1> QED
  BY <1>1, Invariance, PTL

(* No token outlives its lifetime, wherever the clock turns between the readings   *)
(* of Create and GenerateJWT (session.go:61,66).                                   *)
THEOREM LifetimesBounded == Spec => []LifetimeBounded
<1>1. IInv => LifetimeBounded
  BY DEF IInv, Lifetimes
<1> QED
  BY <1>1, Invariance, PTL
------------------------------------------------------------------------------
(* The refresh-token table under the service is a ledger of tokens.                *)

(* The tokens of a set of hashes are the ones whose hash is in it.                 *)
LEMMA TokensOfHashes ==
  ASSUME NEW T, T \subseteq Hashes
  PROVE  \A t : t \in {h.hmac : h \in T} <=> Sign(t) \in T
<1>1. \A h \in T : h = Sign(h.hmac)
  BY HashLaws
<1>2. \A t : Sign(t).hmac = t
  BY DEF Sign
<1> HIDE DEF Sign
<1> QED
  BY <1>1, <1>2

(* The ledger's tokens are those whose signature has a row.                      *)
LEMMA RecordedTokens ==
  ASSUME TypeOK, TypeOK'
  PROVE  /\ \A t : t \in Recorded <=> IsStored(Sign(t))
         /\ \A t : t \in Recorded' <=> IsStored(Sign(t))'
<1>1. DOMAIN refreshTokens \subseteq Hashes /\ DOMAIN refreshTokens' \subseteq Hashes
  BY DEF TypeOK, TokenTypeOK
<1>2. \A t : t \in Recorded <=> IsStored(Sign(t))
  BY <1>1, TokensOfHashes DEF Recorded, IsStored
<1>3. \A t : t \in Recorded' <=> IsStored(Sign(t))'
  BY <1>1, TokensOfHashes DEF Recorded, IsStored, Sign
<1> QED
  BY <1>2, <1>3

(* A row inserted for a token is the token issued.                                  *)
LEMMA LedgerIssue ==
  ASSUME TypeOK, TypeOK', NEW t \in RefreshTokens, ~IsStored(Sign(t)),
         InsertToken(Sign(t), t.Subject)
  PROVE  Ledger!Issue(t)
<1>1. \A x : IsStored(Sign(x))' <=> IsStored(Sign(x)) \/ x = t
  BY HashLaws DEF InsertToken, IsStored, Sign
<1>2. \A x : IsRevoked(Sign(x))' <=> IsRevoked(Sign(x))
  BY HashLaws DEF InsertToken, IsStored, IsRevoked, Sign
<1>3. Recorded' = Recorded \cup {t} /\ t \notin Recorded
  BY <1>1, RecordedTokens
<1>4. UNCHANGED {x \in Recorded : IsRevoked(Sign(x))}
  BY <1>1, <1>2, <1>3, RecordedTokens DEF IsRevoked
<1> QED
  BY <1>3, <1>4 DEF Ledger!Issue

(* Rows revoked are tokens revoked: those with a hash in the set.                   *)
LEMMA LedgerRevoke ==
  ASSUME TypeOK, TypeOK', NEW S, SetRevoked(S)
  PROVE  /\ UNCHANGED Recorded
         /\ {x \in Recorded : IsRevoked(Sign(x))}' =
              {x \in Recorded : IsRevoked(Sign(x))} \cup {x \in Recorded : Sign(x) \in S}
<1>1. \A x : IsStored(Sign(x))' <=> IsStored(Sign(x))
  BY DEF SetRevoked, IsStored, Sign
<1>2. \A x : IsRevoked(Sign(x))' <=> IsRevoked(Sign(x)) \/ (IsStored(Sign(x)) /\ Sign(x) \in S)
  BY DEF SetRevoked, IsStored, IsRevoked, Sign, TypeOK, TokenTypeOK, TokenRows
<1>3. Recorded' = Recorded
  BY <1>1, RecordedTokens
<1> QED
  BY <1>2, <1>3, RecordedTokens

(* Every step of the service is one of the ledger, or none.                      *)
LEMMA LedgerStep ==
  ASSUME IInv, IInv', [Next]_vars
  PROVE  [Ledger!Next]_<<Recorded, {t \in Recorded : IsRevoked(Sign(t))}>>
<1>0. TypeOK /\ TypeOK' /\ Control
  BY DEF IInv
<1>1. ASSUME UNCHANGED refreshTokens
      PROVE  UNCHANGED <<Recorded, {t \in Recorded : IsRevoked(Sign(t))}>>
  BY <1>1 DEF Recorded, IsRevoked, IsStored, Sign
<1>2. ASSUME NEW t \in RefreshTokens, ~IsStored(Sign(t)), InsertToken(Sign(t), t.Subject)
      PROVE  Ledger!Next
  BY <1>0, <1>2, LedgerIssue DEF Ledger!Next
<1>3. ASSUME NEW t \in RefreshTokens, IsStored(Sign(t)), SetRevoked({Sign(t)})
      PROVE  Ledger!Next
  <2>1. {x \in Recorded : Sign(x) \in {Sign(t)}} = {t}
    BY <1>0, <1>3, RecordedTokens, HashLaws
  <2>2. t \in Recorded
    BY <1>0, <1>3, RecordedTokens
  <2> QED
    BY <1>0, <1>3, <2>1, <2>2, LedgerRevoke DEF Ledger!Next, Ledger!RevokeOne
<1>4. ASSUME NEW u \in UserIDs, SetRevoked(ActiveOf(u))
      PROVE  Ledger!Next
  <2> DEFINE Revoked == {x \in Recorded : IsRevoked(Sign(x))}
  <2>1. \A x \in Recorded : Sign(x) \in ActiveOf(u) <=> ~IsRevoked(Sign(x)) /\ SubjectOf(x) = u
    <3>1. \A x \in Recorded : IsStored(Sign(x)) /\ refreshTokens[Sign(x)].owner = SubjectOf(x)
      BY <1>0, RecordedTokens DEF IInv, Rows, SubjectOf, IsStored, Sign
    <3> QED
      BY <3>1 DEF ActiveOf, IsActive, IsRevoked, IsStored
  <2>2. Revoked' = Revoked \cup {x \in Recorded : Sign(x) \in ActiveOf(u)} /\ UNCHANGED Recorded
    BY <1>0, <1>4, LedgerRevoke
  <2>3. Revoked' = Revoked \cup {x \in Recorded : SubjectOf(x) = u}
    BY <2>1, <2>2
  <2> QED
    BY <2>2, <2>3 DEF Ledger!Next, Ledger!RevokeUser
<1> QED
  BY <1>0, <1>1, <1>2, <1>3, <1>4, TableStep

(* The service implements the ledger: whatever its requests do, fail at or lose,   *)
(* a refresh token is issued at most once, never forgotten and never revived.      *)
THEOREM LedgerImplemented == Spec => ImplementsLedger
<1>1. Init => Ledger!Init
  BY DEF Init, Ledger!Init, Recorded
<1>2. IInv /\ IInv' /\ [Next]_vars
        => [Ledger!Next]_<<Recorded, {t \in Recorded : IsRevoked(Sign(t))}>>
  BY LedgerStep
<1> QED
  BY <1>1, <1>2, Invariance, PTL DEF Spec, ImplementsLedger, Ledger!Spec
==============================================================================
