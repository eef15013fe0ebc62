-------------------------------- MODULE Auth ---------------------------------
(* The service: internal/handler, internal/middleware and internal/services over *)
(* the session manager and the two stores.  Every request runs in a goroutine of  *)
(* its own, and takes one step per database statement and per reading of the      *)
(* clock; the steps of different requests interleave.  The database outlives a    *)
(* crash of the process, the requests in flight do not.                           *)
EXTENDS Session, UserStore

CONSTANTS NoUser,       \* uuid.Nil: no user known yet
          NoSubject     \* not a Google sign-in

ASSUME AuthAssumption ==
  /\ NoUser \notin UserIDs
  /\ NoSubject \notin Subjects

VARIABLES pc,           \* pc[r]: the next step of r
          kind,         \* kind[r]: the route r came in on
          tok,          \* tok[r]: the token r presents
          subject,      \* subject[r]: the Google account VerifyIDToken returned
          uid,          \* uid[r]: the user r is known to act for
          status,       \* status[r]: the HTTP status of the answer, 0 before
          delivered,    \* the tokens clients hold
          (* History: what no code keeps and some property speaks of. *)
          spent,        \* spent[r]: tok[r] was already revoked when r arrived
          owned,        \* owned[r]: hashes of the user's rows when logout r arrived
          destroyed     \* hashes of the rows a logout revoked

db        == <<users, refreshTokens>>
minted    == <<exp, acc, ref>>
presented == <<kind, tok, subject, spent, owned>>
vars      == <<now, users, refreshTokens, exp, acc, ref, pc, kind, tok, subject,
               uid, status, delivered, spent, owned, destroyed>>

Kinds == {"none", "verify", "refresh", "logout", "me"}
Ended == {"done", "lost"}
Steps == {"idle", "findUser", "createUser", "accessExp", "accessSign", "refreshExp",
          "refreshSign", "storeToken", "checkRevoked", "revokeOld", "revokeExpired",
          "revokeAll", "getUser", "respond"} \cup Ended

InFlight == {r \in Requests : pc[r] \notin {"idle"} \cup Ended}

TypeOK ==
  /\ SessionTypeOK /\ UserTypeOK /\ TokenTypeOK
  /\ pc \in [Requests -> Steps]
  /\ kind \in [Requests -> Kinds]
  /\ tok \in [Requests -> CustomClaims \cup {NoToken, Garbage}]
  /\ subject \in [Requests -> Subjects \cup {NoSubject}]
  /\ uid \in [Requests -> UserIDs \cup {NoUser}]
  /\ status \in [Requests -> Statuses \cup {0}]
  /\ delivered \subseteq CustomClaims
  /\ spent \in [Requests -> BOOLEAN]
  /\ owned \in [Requests -> SUBSET Hashes]
  /\ destroyed \subseteq Hashes

Init ==
  /\ now = 0
  /\ users = [id \in {} |-> NoSubject]
  /\ refreshTokens = [h \in {} |-> 0]
  /\ exp = [r \in Requests |-> 0]
  /\ acc = [r \in Requests |-> NoToken]
  /\ ref = [r \in Requests |-> NoToken]
  /\ pc = [r \in Requests |-> "idle"]
  /\ kind = [r \in Requests |-> "none"]
  /\ tok = [r \in Requests |-> NoToken]
  /\ subject = [r \in Requests |-> NoSubject]
  /\ uid = [r \in Requests |-> NoUser]
  /\ status = [r \in Requests |-> 0]
  /\ delivered = {}
  /\ spent = [r \in Requests |-> FALSE]
  /\ owned = [r \in Requests |-> {}]
  /\ destroyed = {}
------------------------------------------------------------------------------
(* Control of one request.                                                        *)

Goto(r, step) == pc' = [pc EXCEPT ![r] = step] /\ UNCHANGED status

Reply(r, code) ==
  /\ pc' = [pc EXCEPT ![r] = "respond"]
  /\ status' = [status EXCEPT ![r] = code]

Fail(r, err) == Reply(r, FromError(err))

(* A request reaches its handler.  Clients hold the tokens delivered to them.     *)
Arrive(r, route, t) ==
  /\ pc[r] = "idle"
  /\ kind' = [kind EXCEPT ![r] = route]
  /\ tok' = [tok EXCEPT ![r] = t]
  /\ UNCHANGED <<now, db, minted, delivered, destroyed>>

Presentable == delivered \cup {NoToken, Garbage}

(* middleware.RequireAuth, then the handler's first step.  The database is not    *)
(* asked: a token is good until it expires, whatever happened to its session.     *)
RequireAuth(r, t, step) ==
  \/ /\ t = NoToken
     /\ Fail(r, ErrNoTokenInRequest)
     /\ UNCHANGED uid
  \/ /\ t = Garbage
     /\ Fail(r, ErrParse)
     /\ UNCHANGED uid
  \/ /\ IsToken(t)
     /\ IsExpired(t, now) \/ t.TokenType # TokenTypeAccess
     /\ Fail(r, ErrUnauthorized)
     /\ UNCHANGED uid
  \/ /\ IsToken(t)
     /\ ~IsExpired(t, now)
     /\ t.TokenType = TokenTypeAccess
     /\ uid' = [uid EXCEPT ![r] = t.Subject]
     /\ Goto(r, step)
------------------------------------------------------------------------------
(* The routes: a request arrives and runs up to its first database statement.     *)

(* POST /auth/google/verify: Auth.Verify, up to VerifyIDToken's answer.           *)
Verify(r) ==
  /\ Arrive(r, "verify", NoToken)
  /\ \/ \E s \in Subjects :
          /\ subject' = [subject EXCEPT ![r] = s]
          /\ Goto(r, "findUser")
     \/ \E err \in {ErrGoogleTokenRequired, ErrIDToken} :
          /\ Fail(r, err)
          /\ UNCHANGED subject
  /\ UNCHANGED <<uid, spent, owned>>

(* POST /auth/refresh: Auth.Refresh, then GetNewTokens up to its first statement. *)
Refresh(r, t) ==
  /\ Arrive(r, "refresh", t)
  /\ spent' = [spent EXCEPT ![r] = IsRevoked(Sign(t))]
  /\ \/ t = NoToken /\ Fail(r, ErrRefreshTokenRequired)
     \/ t = Garbage /\ Fail(r, ErrParse)
     \/ /\ IsToken(t)
        /\ IsExpired(t, now)
        /\ Goto(r, "revokeExpired")
     \/ /\ IsToken(t)
        /\ ~IsExpired(t, now)
        /\ t.TokenType # TokenTypeRefresh
        /\ Fail(r, ErrInvalidTokenType)
     \/ /\ IsToken(t)
        /\ ~IsExpired(t, now)
        /\ t.TokenType = TokenTypeRefresh
        /\ Goto(r, "checkRevoked")
  /\ UNCHANGED <<subject, uid, owned>>

(* POST /auth/logout behind RequireAuth.                                          *)
Logout(r, t) ==
  /\ Arrive(r, "logout", t)
  /\ RequireAuth(r, t, "revokeAll")
  /\ owned' = [owned EXCEPT ![r] =
       {h \in DOMAIN refreshTokens : IsToken(t) /\ refreshTokens[h].owner = t.Subject}]
  /\ UNCHANGED <<subject, spent>>

(* GET /user/me behind RequireAuth.                                               *)
Me(r, t) ==
  /\ Arrive(r, "me", t)
  /\ RequireAuth(r, t, "getUser")
  /\ UNCHANGED <<subject, spent, owned>>
------------------------------------------------------------------------------
(* findOrCreateGoogleUser.                                                        *)

FindUser(r) ==
  /\ pc[r] = "findUser"
  /\ \/ \E id \in ByProviderUserID(subject[r]) :
          /\ uid' = [uid EXCEPT ![r] = id]
          /\ Goto(r, "accessExp")
     \/ /\ ByProviderUserID(subject[r]) = {}
        /\ Goto(r, "createUser")
        /\ UNCHANGED uid
     \/ Fail(r, ErrDatabase) /\ UNCHANGED uid
  /\ UNCHANGED <<now, db, minted, presented, delivered, destroyed>>

(* Mutant: the error of Users.Create is dropped.                                  *)
CreateGoogleUserUnchecked(r) ==
  /\ pc[r] = "createUser"
  /\ \E id \in UserIDs, err \in CreateUserErrors :
       /\ CreateUser(id, subject[r], err)
       /\ uid' = [uid EXCEPT ![r] = id]
       /\ Goto(r, "accessExp")
  /\ UNCHANGED <<now, refreshTokens, minted, presented, delivered, destroyed>>

CreateGoogleUser(r) ==
  /\ pc[r] = "createUser"
  /\ \E id \in UserIDs, err \in CreateUserErrors :
       /\ CreateUser(id, subject[r], err)
       /\ \/ /\ err = NoError
             /\ uid' = [uid EXCEPT ![r] = id]
             /\ Goto(r, "accessExp")
          \/ /\ err # NoError
             /\ Fail(r, err)
             /\ UNCHANGED uid
  /\ UNCHANGED <<now, refreshTokens, minted, presented, delivered, destroyed>>

(* Session.Create.  GenerateJWT cannot fail here: the user id is not uuid.Nil,    *)
(* the expiry is not the zero time and the type is one of the two.                *)
CreateSession(r) ==
  /\ \/ /\ pc[r] = "accessExp"
        /\ ReadExpiry(r, AccessTTL)
        /\ Goto(r, "accessSign")
     \/ /\ pc[r] = "accessSign"
        /\ GenerateAccess(r, uid[r])
        /\ Goto(r, "refreshExp")
     \/ /\ pc[r] = "refreshExp"
        /\ ReadExpiry(r, RefreshTTL)
        /\ Goto(r, "refreshSign")
     \/ /\ pc[r] = "refreshSign"
        /\ GenerateRefresh(r, uid[r])
        /\ Goto(r, "storeToken")
  /\ UNCHANGED <<now, db, presented, uid, delivered, destroyed>>

(* Mutant: the error of TokenStore.Create is dropped.                             *)
StoreTokenUnchecked(r) ==
  /\ pc[r] = "storeToken"
  /\ \E err \in TokenStoreErrors :
       /\ StoreSession(r, uid[r], err)
       /\ \/ kind[r] = "verify"  /\ Reply(r, OK)
          \/ kind[r] = "refresh" /\ Goto(r, "revokeOld")
  /\ UNCHANGED <<now, users, minted, presented, uid, delivered, destroyed>>

StoreToken(r) ==
  /\ pc[r] = "storeToken"
  /\ \E err \in TokenStoreErrors :
       /\ StoreSession(r, uid[r], err)
       /\ \/ err = NoError /\ kind[r] = "verify"  /\ Reply(r, OK)
          \/ err = NoError /\ kind[r] = "refresh" /\ Goto(r, "revokeOld")
          \/ err # NoError /\ Fail(r, err)
  /\ UNCHANGED <<now, users, minted, presented, uid, delivered, destroyed>>

(* GetNewTokens: CheckIsRevokedRefreshToken, Create, RevokeRefreshToken.          *)

(* Mutant: the old token is revoked at the check, before Create.                  *)
CheckRevokedEarlyRevoke(r) ==
  /\ pc[r] = "checkRevoked"
  /\ ~CheckIsRevoked(tok[r])
  /\ SetRevoked({Sign(tok[r])})
  /\ uid' = [uid EXCEPT ![r] = tok[r].Subject]
  /\ Goto(r, "accessExp")
  /\ UNCHANGED <<now, users, minted, presented, delivered, destroyed>>

CheckRevoked(r) ==
  /\ pc[r] = "checkRevoked"
  /\ \/ /\ CheckIsRevoked(tok[r])
        /\ Fail(r, ErrRefreshTokenAlreadyUsed)
        /\ UNCHANGED uid
     \/ /\ ~CheckIsRevoked(tok[r])
        /\ uid' = [uid EXCEPT ![r] = tok[r].Subject]
        /\ Goto(r, "accessExp")
     \/ Fail(r, ErrDatabase) /\ UNCHANGED uid
  /\ UNCHANGED <<now, db, minted, presented, delivered, destroyed>>

(* Mutant: the error of the revocation is dropped.                                *)
RevokeOldUnchecked(r) ==
  /\ pc[r] = "revokeOld"
  /\ \E err \in TokenStoreErrors : RevokeRefreshToken(tok[r], err)
  /\ Reply(r, OK)
  /\ UNCHANGED <<now, users, minted, presented, uid, delivered, destroyed>>

RevokeOld(r) ==
  /\ pc[r] = "revokeOld"
  /\ \E err \in TokenStoreErrors :
       /\ RevokeRefreshToken(tok[r], err)
       /\ \/ err = NoError /\ Reply(r, OK)
          \/ err # NoError /\ Fail(r, err)
  /\ UNCHANGED <<now, users, minted, presented, uid, delivered, destroyed>>

(* Mutant: the error of the revocation is dropped.                                *)
RevokeExpiredUnchecked(r) ==
  /\ pc[r] = "revokeExpired"
  /\ \E err \in TokenStoreErrors : RevokeRefreshToken(tok[r], err)
  /\ Fail(r, ErrRefreshTokenExpired)
  /\ UNCHANGED <<now, users, minted, presented, uid, delivered, destroyed>>

(* Mutant: the update is tried again until it finds a row.                        *)
RevokeExpiredRetried(r) ==
  /\ pc[r] = "revokeExpired"
  /\ RevokeRefreshToken(tok[r], NoError)
  /\ Fail(r, ErrRefreshTokenExpired)
  /\ UNCHANGED <<now, users, minted, presented, uid, delivered, destroyed>>

RevokeExpired(r) ==
  /\ pc[r] = "revokeExpired"
  /\ \E err \in TokenStoreErrors :
       /\ RevokeRefreshToken(tok[r], err)
       /\ \/ err = NoError /\ Fail(r, ErrRefreshTokenExpired)
          \/ err # NoError /\ Fail(r, err)
  /\ UNCHANGED <<now, users, minted, presented, uid, delivered, destroyed>>

(* Auth.Logout: Destroy.                                                          *)

(* Mutant: the update is tried again until it finds a row.                        *)
RevokeAllRetried(r) ==
  /\ pc[r] = "revokeAll"
  /\ Destroy(uid[r], NoError)
  /\ Reply(r, NoContent)
  /\ destroyed' = destroyed \cup ActiveOf(uid[r])
  /\ UNCHANGED <<now, users, minted, presented, uid, delivered>>

RevokeAll(r) ==
  /\ pc[r] = "revokeAll"
  /\ \E err \in TokenStoreErrors :
       /\ Destroy(uid[r], err)
       /\ \/ err = NoError /\ Reply(r, NoContent)
          \/ err # NoError /\ Fail(r, err)
  /\ destroyed' = destroyed \cup
       {h \in ActiveOf(uid[r]) : refreshTokens'[h].revoked}
  /\ UNCHANGED <<now, users, minted, presented, uid, delivered>>

(* User.GetByID.                                                                  *)
GetUser(r) ==
  /\ pc[r] = "getUser"
  /\ \/ Reply(r, IF uid[r] \in DOMAIN users THEN OK ELSE FromError(ErrUserNotFound))
     \/ Fail(r, ErrDatabase)
  /\ UNCHANGED <<now, db, minted, presented, uid, delivered, destroyed>>

(* The answer reaches the client.                                                 *)
Respond(r) ==
  /\ pc[r] = "respond"
  /\ Goto(r, "done")
  /\ delivered' = IF status[r] = OK /\ kind[r] \in {"verify", "refresh"}
                    THEN delivered \cup {acc[r], ref[r]} ELSE delivered
  /\ UNCHANGED <<now, db, minted, presented, uid, destroyed>>
------------------------------------------------------------------------------
(* The environment.                                                               *)

(* The client is gone or the connection breaks before the answer arrives.         *)
Lose(r) ==
  /\ pc[r] = "respond"
  /\ Goto(r, "lost")
  /\ UNCHANGED <<now, db, minted, presented, uid, delivered, destroyed>>

(* The process dies and is started again (restart: unless-stopped).               *)
Crash ==
  /\ InFlight # {}
  /\ pc' = [r \in Requests |-> IF r \in InFlight THEN "lost" ELSE pc[r]]
  /\ UNCHANGED <<now, db, minted, presented, uid, status, delivered, destroyed>>

Tick ==
  /\ now < MaxTime
  /\ now' = now + 1
  /\ UNCHANGED <<db, minted, presented, pc, uid, status, delivered, destroyed>>

Handler(r) ==
  \/ FindUser(r) \/ CreateGoogleUser(r) \/ CreateSession(r) \/ StoreToken(r)
  \/ CheckRevoked(r) \/ RevokeOld(r) \/ RevokeExpired(r) \/ RevokeAll(r)
  \/ GetUser(r) \/ Respond(r)

Next ==
  \/ \E r \in Requests :
       \/ Verify(r)
       \/ \E t \in Presentable : Refresh(r, t) \/ Logout(r, t) \/ Me(r, t)
       \/ Handler(r)
       \/ Lose(r)
  \/ Crash
  \/ Tick

Spec == Init /\ [][Next]_vars

(* A goroutine runs until its handler returns: every statement ends, at the latest *)
(* with the context error of middleware.Timeout.  Nothing obliges clients to send. *)
FairSpec == Spec /\ \A r \in Requests : WF_vars(Handler(r))
==============================================================================
