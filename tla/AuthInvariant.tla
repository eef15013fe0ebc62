---------------------------- MODULE AuthInvariant -----------------------------
(* The inductive invariant of Auth: what is true between any two steps of the     *)
(* requests, and enough of it to follow from itself.                              *)
EXTENDS AuthProperties

Creating == {"accessExp", "accessSign", "refreshExp", "refreshSign", "storeToken"}
Answered == {"respond"} \cup Ended
Rotating(r) == kind[r] = "refresh" /\ pc[r] \in Creating \cup {"revokeOld"}

(* What a request at a step has established on the way there.                     *)
ControlOf(r) ==
  /\ pc[r] = "idle" => kind[r] = "none"
  /\ pc[r] \notin Answered => status[r] = 0
  /\ pc[r] \in {"findUser", "createUser"} => kind[r] = "verify" /\ subject[r] \in Subjects
  /\ pc[r] \in Creating => kind[r] \in {"verify", "refresh"} /\ uid[r] \in UserIDs
  /\ pc[r] \in {"checkRevoked", "revokeOld", "revokeExpired"} => kind[r] = "refresh"
  /\ pc[r] = "checkRevoked" \/ Rotating(r) => tok[r] \in RefreshTokens
  /\ pc[r] = "revokeExpired" => tok[r] \in CustomClaims
  /\ pc[r] = "revokeAll" => kind[r] = "logout" /\ uid[r] \in UserIDs
  /\ pc[r] = "getUser" => kind[r] = "me" /\ uid[r] \in UserIDs
  /\ pc[r] \in {"idle", "checkRevoked", "revokeExpired"} => acc[r] = NoToken
  /\ pc[r] \in {"refreshExp", "refreshSign", "storeToken", "revokeOld"} =>
       acc[r] \in AccessTokens /\ acc[r].Subject = uid[r]
  /\ pc[r] \in {"storeToken", "revokeOld"} =>
       ref[r] \in RefreshTokens /\ ref[r].Subject = uid[r]
  /\ status[r] = OK /\ kind[r] \in {"verify", "refresh"} =>
       /\ acc[r] \in AccessTokens /\ acc[r].Subject = uid[r]
       /\ ref[r] \in RefreshTokens /\ ref[r].Subject = uid[r]

Control == \A r \in Requests : ControlOf(r)

(* What the rows say of the tokens a request has presented, stored or seen.       *)
RowsOf(r) ==
  /\ spent[r] =>
       /\ kind[r] = "refresh"
       /\ IsRevoked(Sign(tok[r]))
       /\ acc[r] = NoToken
       /\ pc[r] \notin Creating \cup {"revokeOld"}
  /\ Rotating(r) => IsStored(Sign(tok[r]))
  /\ pc[r] = "revokeOld" => IsStored(Sign(ref[r]))
  /\ status[r] = OK /\ kind[r] \in {"verify", "refresh"} =>
       /\ IsStored(Sign(ref[r]))
       /\ kind[r] = "refresh" => IsRevoked(Sign(tok[r]))
  /\ kind[r] = "refresh" /\ status[r] = 401 => IsRevoked(Sign(tok[r]))
  /\ pc[r] = "revokeAll" =>
       \A h \in owned[r] : IsStored(h) /\ refreshTokens[h].owner = uid[r]
  /\ kind[r] = "logout" /\ status[r] = NoContent => \A h \in owned[r] : IsRevoked(h)

Rows ==
  /\ \A h \in DOMAIN refreshTokens : refreshTokens[h].owner = h.hmac.Subject
  /\ \A t \in delivered : t.TokenType = TokenTypeRefresh => IsStored(Sign(t))
  /\ \A r \in Requests : RowsOf(r)

(* One user for each Google account; every request and every token acts for one.  *)
AccountOf(r) ==
  /\ uid[r] # NoUser => uid[r] \in DOMAIN users
  /\ kind[r] = "verify" /\ uid[r] # NoUser => users[uid[r]] = subject[r]
  /\ pc[r] \in {"idle", "findUser", "createUser"} => uid[r] = NoUser
  /\ IsToken(tok[r]) => tok[r].Subject \in DOMAIN users
  /\ kind[r] = "me" => status[r] # 404

Accounts ==
  /\ \A i, j \in DOMAIN users : users[i] = users[j] => i = j
  /\ \A t \in delivered : t.Subject \in DOMAIN users
  /\ \A r \in Requests : AccountOf(r)

(* The expiry is computed first, and the clock only moves on until IssuedAt is read. *)
LifetimesOf(r) ==
  /\ pc[r] = "accessSign" => exp[r] <= now + AccessTTL
  /\ pc[r] = "refreshSign" => exp[r] <= now + RefreshTTL
  /\ acc[r] # NoToken => acc[r].ExpiresAt <= acc[r].IssuedAt + AccessTTL
  /\ ref[r] # NoToken => ref[r].ExpiresAt <= ref[r].IssuedAt + RefreshTTL

Lifetimes == LifetimeBounded /\ \A r \in Requests : LifetimesOf(r)

(* Before its refresh token is made, a request has none; so a token on record as a *)
(* replacement is not replaced itself by the request that made it.                *)
Unminted == {"idle", "findUser", "createUser", "checkRevoked", "accessExp", "accessSign",
             "refreshExp", "refreshSign"}

Replacements ==
  /\ RevokedOnlyIfReplaced
  /\ \A r \in Requests :
       /\ pc[r] \in Unminted => ref[r] = NoToken
       /\ pc[r] = "revokeExpired" => IsExpired(tok[r], now)

(* The inductive invariant of the service.                                        *)
IInv == TypeOK /\ Control /\ Rows /\ Accounts /\ Lifetimes /\ Replacements
==============================================================================
