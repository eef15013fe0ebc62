-------------------------- MODULE RefreshTokenStore --------------------------
(* internal/store/refreshtoken.go over the table of ent/schema/refresh_token.go. *)
(* Each method is one SQL statement, so one atomic step; a write that reports a  *)
(* database or context error may still have been committed.  revoked_at is kept  *)
(* as whether it is set: no code reads the time in it.                           *)
EXTENDS JWT, HTTPX

VARIABLES refreshTokens     \* token_hash -> its row, for the rows that exist

TokenRows == [owner: UserIDs, revoked: BOOLEAN]

TokenTypeOK ==
  /\ DOMAIN refreshTokens \subseteq Hashes
  /\ refreshTokens \in [DOMAIN refreshTokens -> TokenRows]

IsStored(hash)  == hash \in DOMAIN refreshTokens
IsRevoked(hash) == IsStored(hash) /\ refreshTokens[hash].revoked

(* GetByTokenHash finds a row: it filters on RevokedAtIsNil.                     *)
IsActive(hash)  == IsStored(hash) /\ ~refreshTokens[hash].revoked

(* HasOwnerWith(user.IDEQ(id)), RevokedAtIsNil().                                *)
ActiveOf(id) == {h \in DOMAIN refreshTokens : refreshTokens[h].owner = id /\ IsActive(h)}

InsertToken(hash, id) ==
  refreshTokens' = [h \in DOMAIN refreshTokens \cup {hash} |->
                      IF h = hash THEN [owner |-> id, revoked |-> FALSE]
                                  ELSE refreshTokens[h]]

(* SetRevokedAt(time.Now()) on the rows of S.                                    *)
SetRevoked(S) ==
  refreshTokens' = [h \in DOMAIN refreshTokens |->
                      IF h \in S THEN [refreshTokens[h] EXCEPT !.revoked = TRUE]
                                 ELSE refreshTokens[h]]

(* Mutant: the insert is an upsert.                                              *)
UpsertRefreshToken(hash, id, err) ==
  \/ /\ err \in {NoError, ErrDatabase}
     /\ InsertToken(hash, id)
  \/ /\ err = ErrDatabase
     /\ UNCHANGED refreshTokens

(* token_hash is unique: a second row is error 23505.                            *)
CreateRefreshToken(hash, id, err) ==
  \/ /\ err \in {NoError, ErrDatabase}
     /\ ~IsStored(hash)
     /\ InsertToken(hash, id)
  \/ /\ err = ErrRefreshTokenAlreadyExists
     /\ IsStored(hash)
     /\ UNCHANGED refreshTokens
  \/ /\ err = ErrDatabase
     /\ UNCHANGED refreshTokens

(* An UPDATE of the rows of S that reports ErrRefreshTokenNotFound for none.     *)
UpdateRevoked(S, err) ==
  \/ /\ err \in {NoError, ErrDatabase}
     /\ S # {}
     /\ SetRevoked(S)
  \/ /\ err = ErrRefreshTokenNotFound
     /\ S = {}
     /\ UNCHANGED refreshTokens
  \/ /\ err = ErrDatabase
     /\ UNCHANGED refreshTokens

(* Mutant: only the row GetByUserID would return is revoked.                     *)
RevokeFirst(id, err) ==
  \/ \E h \in ActiveOf(id) : UpdateRevoked({h}, err)
  \/ ActiveOf(id) = {} /\ UpdateRevoked({}, err)

Revoke(id, err) == UpdateRevoked(ActiveOf(id), err)

(* No RevokedAtIsNil here: a row already revoked is found, and revoked again.    *)
RevokeByTokenHash(hash, err) == UpdateRevoked({hash} \cap DOMAIN refreshTokens, err)

TokenStoreErrors ==
  {NoError, ErrRefreshTokenAlreadyExists, ErrRefreshTokenNotFound, ErrDatabase}
==============================================================================
