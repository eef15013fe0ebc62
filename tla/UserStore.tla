------------------------------ MODULE UserStore ------------------------------
(* internal/store/user.go over the users table of ent/schema/user.go.  Each     *)
(* method is one SQL statement, so one atomic step; a write that reports a      *)
(* database or context error may still have been committed.  Profile columns    *)
(* are left out: nothing decides on them.                                       *)
EXTENDS JWT, HTTPX

CONSTANTS Subjects      \* Google account ids: users.provider_user_id

VARIABLES users         \* id -> provider_user_id, for the rows that exist

UserTypeOK ==
  /\ DOMAIN users \subseteq UserIDs
  /\ users \in [DOMAIN users -> Subjects]

(* The rows Users.GetByProviderUserID selects from.                             *)
ByProviderUserID(subject) == {id \in DOMAIN users : users[id] = subject}

InsertUser(id, subject) ==
  users' = [x \in DOMAIN users \cup {id} |-> IF x = id THEN subject ELSE users[x]]

(* Mutant: no unique index on (provider, provider_user_id).                     *)
CreateUserNoIndex(id, subject, err) ==
  \/ /\ err \in {NoError, ErrDatabase}
     /\ id \notin DOMAIN users
     /\ InsertUser(id, subject)
  \/ /\ err = ErrDatabase
     /\ UNCHANGED users

(* Users.Create: uuid.New picks an unused id, and the unique index on           *)
(* (provider, provider_user_id) turns a second row into error 23505.            *)
CreateUser(id, subject, err) ==
  \/ /\ err \in {NoError, ErrDatabase}
     /\ id \notin DOMAIN users
     /\ ByProviderUserID(subject) = {}
     /\ InsertUser(id, subject)
  \/ /\ err = ErrUserAlreadyExists
     /\ ByProviderUserID(subject) # {}
     /\ UNCHANGED users
  \/ /\ err = ErrDatabase
     /\ UNCHANGED users

CreateUserErrors == {NoError, ErrUserAlreadyExists, ErrDatabase}
==============================================================================
