# TLA+ models of mixo

mixo is the backend of a Google-sign-in service in Go: it verifies a Google ID
token, keeps a user row per Google account, hands out a pair of signed tokens
(an access token and a refresh token), rotates the pair, ends sessions, and
serves `/user/me`. Its tables are reached through a client that ent generated from
the two schemas, which makes up most of the code. This directory models what is
hard to test: what overlapping requests do to the two tables while statements
fail, answers get lost, the clock ticks and the process dies; what `WithTx` and
the transactions of ent promise; how the process starts, stops and is restarted;
and what ent's builders do when they are used again, by several users at once, or
by hooks. Paths below are relative to `src/`.

## The system

| Component | State it keeps | Operations | Talks to |
|---|---|---|---|
| authentication service: `internal/services/auth.go`, `internal/handler/auth.go`, `internal/serializer/auth.go` | none between requests; the locals of each request | `AuthenticateGoogle`, `GetNewTokens`, `Logout`, `findOrCreateGoogleUser` | session manager, user store, Google sign-in |
| session manager: `internal/session/session.go` | none | `Create`, `Destroy`, `GetInfo`, `CheckIsRevokedRefreshToken`, `RevokeRefreshToken`; `GetAccessToken`, `GetRefreshToken`, `IsValidRefreshToken` (no handler calls them) | tokens, refresh-token store |
| refresh-token store: `internal/store/refreshtoken.go`, `ent/schema/refresh_token.go` | table `refresh_tokens`: hash, `revoked_at`, owner | `Create`, `Revoke`, `RevokeByTokenHash`, `GetByTokenHash`, `GetByUserID` (no caller) | PostgreSQL through ent |
| user store: `internal/store/user.go`, `ent/schema/user.go` | table `users`, unique on (provider, provider_user_id) | `Create`, `GetByProviderUserID`, `GetByID` | PostgreSQL through ent |
| tokens: `internal/security/jwt.go`, `hmac.go`, `internal/domain/refreshtoken.go` | the secrets | `GenerateJWT`, `ParseJWT`, `Sign` | the wall clock |
| authorisation: `internal/middleware/auth.go` | none | `RequireAuth`, `RequireAdmin` (a stub no route uses) | tokens, through `GetInfo` |
| user service: `internal/services/user.go`, `internal/handler/user.go`, `internal/routes/` | none | `GetByID` | user store |
| error answers: `internal/httpx/httpx.go` | the table of client errors | `FromError`, `Render` | every handler |
| Google sign-in: `internal/oauth/google.go` | client id | `VerifyIDToken` | Google |
| transactor: `internal/store/tx.go` | a transaction in the context | `WithTx` (no service calls it yet) | ent transactions |
| server lifecycle: `cmd/main.go`, `docker-compose.yml` | the requests in flight | `run`, listen, graceful shutdown, restart | everything |
| configuration: `internal/config/config.go`, `internal/database/database.go` | the settings | `Load`, `New`, `Migrate` | the environment, PostgreSQL |
| ent transactions: `ent/tx.go`, `ent/client.go` | an open transaction, its hooks | `Tx`, `BeginTx`, `Commit`, `Rollback`, `OnCommit`, `OnRollback`, the driver builders run in | PostgreSQL |
| ent mutations: `ent/mutation.go` | what a builder has been asked to change | setters, `Clear`, `Reset`, edges, `OldX`, `Where`, `IDs` | the client, for old values |
| ent update and delete builders: `ent/user_update.go`, `ent/refresh_token_update.go`, `ent/user_delete.go`, `ent/refresh_token_delete.go` | a mutation, the selected columns | setters, `Save`, `Exec`, hooks | mutations, sqlgraph |
| ent create builders: `ent/user_create.go`, `ent/refresh_token_create.go` | a mutation, or those of a bulk | setters, `Save` of one and of many | mutations, sqlgraph |
| ent query builders: `ent/user_query.go`, `ent/refresh_token_query.go` | predicates, limit, offset, order, columns, edges to load | setters, `Clone`, `QueryX`, `WithX`, `All`, `First`, `Only`, `IDs`, `Exist` | sqlgraph |
| ent predicates, entities, hook adapters; cipher, base62, logging | none | one SQL fragment each; scanning; pure functions | - |

### The service

The services hold no state and take no lock; the only shared state is the two
tables. Every HTTP request runs in its own goroutine and sends its SQL statements
one by one, **outside any transaction**. Each statement is atomic; nothing else
is. So the interesting behaviour is that of short sequential programs
interleaved at the database, and the hazards listed in `PROJECT.json` are of
that kind:

- *check, then act*: `GetNewTokens` reads the row of a token (`auth.go:94`) and
  revokes it three calls later (`auth.go:108`); `findOrCreateGoogleUser` looks a
  user up and then inserts one;
- *partial failure*: any statement can fail, or commit and report an error;
  `GetNewTokens` stores the new token before it revokes the old one;
- *crash and lost answers*: the process is restarted by Docker
  (`restart: unless-stopped`) and the tables survive, a client may never learn
  what its request did;
- *the clock*: `Create` reads it four times, tokens carry whole seconds and
  nothing else that varies;
- *stale state*: an access token is checked against the clock and no store;
- *liveness*: a request must be answered whatever statement fails.

### Transactions, process, builders

- *transactions*: a builder inside an open transaction begins and commits one of
  its own, which must not reach the database; hooks may refuse a commit, the answer
  of COMMIT may be lost. `WithTx` holds one connection while the stores it calls
  need another, and puts its client under a context key that no store reads;
- *process*: `main` may be killed between two steps of its start, told to stop
  while requests are at work, killed by `docker stop` before its own 30 seconds are
  over, and restarted while PostgreSQL is not there;
- *builders*: they are mutable, and their reads and saves change them too. A
  caller may save or read one again, a hook may change, refuse, skip or retry it,
  two builders may be at work on one row, an INSERT may be done and its answer lost,
  and eager loading is a second SELECT that other sessions can come in before.

What makes each component correct:

- *service*: a rotation leaves the old token revoked and the new one stored; a
  spent token is not exchanged again; a logout reaches every token of its user;
  one user per Google account; every request ends;
- *token store*: it is a ledger: a token is recorded once, never forgotten, never
  revived, and belongs to the user it names;
- *tokens*: a token never lives longer than its lifetime;
- *error answers*: an answer never says more than the tables do (401 for an
  expired token only after its row is revoked, 404 never for a token's own user);
- *transactions*: all of a transaction's rows or none, and an answer of `Commit` or
  `Rollback` that is true;
- *transactor*: every connection is given back; what stores insert inside `fn` stays;
- *process*: only a whole configuration on a migrated schema serves; an accepted
  request is cut off only late, or by a listener that fails; a signalled process ends;
- *builders*: a save writes what the last call about each field asked for and
  nothing else; a bulk is stored whole or not at all and once; a read gives what its
  builder was asked for, of one state of the tables. Each of these has exceptions in
  the code, which the properties name (see *What ent leaves to its callers*).

## Modules

| Module | Models | Extends |
|---|---|---|
| `JWT` | claims, expiry, the stored hash (`jwt.go`, `hmac.go`) | Integers |
| `HTTPX` | errors and the status each is answered with (`httpx.go`) | Naturals |
| `UserStore` | `users` and its statements (`store/user.go`) | JWT, HTTPX |
| `RefreshTokenStore` | `refreshTokens` and its statements (`store/refreshtoken.go`) | JWT, HTTPX |
| `Session` | the session manager's calls (`session/session.go`) | RefreshTokenStore |
| `Auth` | routes, `RequireAuth`, services, clients, crash, clock | Session, UserStore |
| `TokenLedger` | abstract: what the token table promises | - |
| `AuthProperties` | the properties, and the mapping to `TokenLedger` | Auth |
| `AuthInvariant` | the inductive invariant `IInv` | AuthProperties |
| `AuthProofs` | the theorems and their proofs | AuthInvariant, TLAPS |
| `AtomicUnits` | abstract: units of work that are applied whole or not at all | - |
| `EntTx` | ent's transactions, their hooks, the driver inside them (`ent/tx.go`) | SequencesExt |
| `EntTxProofs` | that `EntTx` implements `AtomicUnits`, that its answers are true, and how hooks nest | EntTx, NatLemmas |
| `Transactor` | concurrent calls of `WithTx` (`store/tx.go`) | EntTx |
| `TransactorProofs` | the theorems about `WithTx` | Transactor, EntTxProofs |
| `Config` | which environments `Load` and the constructors take (`config.go`, `google.go`) | - |
| `Server` | `run`, `main`, Docker, PostgreSQL, requests in flight | Config |
| `ServerProofs` | the theorems about the process | Server, TLAPS |
| `EntMutation` | a mutation as a record and its methods as operators (`ent/mutation.go`) | Functions, TLC |
| `EntGraph` | the update and delete builders over both tables | EntMutation |
| `EntGraphProperties` | what they promise, stated over the calls that were made | EntGraph |
| `EntGraphInvariant` | the inductive invariant `GraphInv` | EntGraphProperties |
| `EntGraphProofs` | the theorems about updates and deletions | EntGraphInvariant, NatLemmas |
| `EntCreate` | the create builders, single and bulk | EntMutation |
| `EntCreateProofs` | the invariant `CreateInv` and the theorems about creates | EntCreate, TLAPS |
| `EntQuery` | the query builders | Sequences |
| `EntQueryInvariant` | the inductive invariant `QueryInv` | EntQuery |
| `EntQueryProofs` | the theorems about reads | EntQueryInvariant, NatLemmas |
| `NatLemmas` | induction over the naturals and the maximum of a set, as facts about sets | TLAPS |
| `MCAuth`, `MCEntTx`, ... | instances for TLC: symmetry sets, workloads | the above |

`Transactor` composes with `EntTx` (every step of `WithTx` on its transaction is a
step of `EntTx`), `Server` with `Config`, `Auth` with the session manager and both
stores. `Auth` takes a statement of a store to be atomic; `EntGraph` and `EntCreate`
are about how such a statement is built, and `EntTx` about the transaction it runs in.

### From the code to the actions

A request `r` has a program counter `pc[r]` naming the statement it is about to
run, and the locals its handler carries: the route (`kind`), the presented token
(`tok`), the Google account (`subject`), the user (`uid`), the pair being
generated (`exp`, `acc`, `ref`) and the answer (`status`). What a handler does
between two statements touches no shared state, so it is folded into the
statement before it, or into the arrival.

| Action | Code |
|---|---|
| `Verify`, `Refresh`, `Logout`, `Me` | the request arrives and runs up to its first statement, early returns included (`RequireAuth`, `Bind`, `GetInfo`, the tests of `auth.go:78-92`) |
| `FindUser`, `CreateGoogleUser` | the two statements of `findOrCreateGoogleUser` |
| `CreateSession` | the four clock readings of `Session.Create`, one per step |
| `StoreToken` | the insert that ends `Session.Create` |
| `CheckRevoked`, `RevokeOld` | the check and the revocation of `GetNewTokens` |
| `RevokeExpired` | `auth.go:83-88` |
| `RevokeAll` | `Logout`, `Destroy`, `Revoke` |
| `GetUser` | `GET /user/me` |
| `Respond`, `Lose` | the answer arrives, or does not |
| `Crash` | the process dies with every request in flight; the tables stay |
| `Tick` | a second passes |

The other modules:

| Action | Code |
|---|---|
| `EntTx`: `BeginTx`, `Exec`, `OnCommit`, `OnRollback`, `Commit`, `Rollback` | the methods of `Client` and `Tx`; `Exec` is a whole builder on the `txDriver`: it is answered nil (`Executed`), PostgreSQL refuses a statement of it and aborts the transaction (`Refused`), or it fails on our side, and what it has sent stays (`FailsHere`) |
| `EntTx`: `ContextDone` | database/sql rolls back when the context of the transaction ends |
| `Transactor`: `Start`, `StoreStatement`, `FnEnds`, `RollBack`, `ReturnCommit` | `tx.go:20-41`, each return and the deferred function |
| `Server`: `Load`, `Migrate`, `Construct` | `run` from the configuration to the server |
| `Server`: `Listen`, `ListenLate`, `AcceptFails`, `ServeFails` | the goroutine of `ListenAndServe` (`main.go:46-52`): it binds or not, finds that `Shutdown` has begun, or fails for good while it serves, which is `log.Fatal` |
| `Server`: `Signal`, `DockerStop`, `Terminate` | a signal, before and after `main` waits for one; `docker stop`, which may follow one |
| `Server`: `CloseListener`, `ShutdownEnds`, `Kill`, `Restart` | `main.go:54-65`, the kill that ends `docker stop`, `restart: unless-stopped` |
| `EntGraph`: `Open...`, `Update...`, `Delete...` | the methods of `UserClient` and `RefreshTokenClient` that return builders |
| `EntGraph`: `SetUserField`, ..., `ResetOwnerEdge`, `AddWhere`, `Select`, `Old` | the methods of builders and mutations, by the caller or, while `pc` is `hooks`, by a hook |
| `EntGraph`: `SaveUser`, `SaveToken`, `Exec`, `HookRefuses`, `Mutate`, `...SqlSave`, `...SqlExec` | `Save` and `Exec`: defaults, hooks, then one transaction |
| `EntCreate`: `SetField`, `SetID` | the setters, of a caller; the id of a user also by a hook, before it calls the next one or after |
| `EntCreate`: `Save`, `HookCalls`, ..., `HookRetries`, `Descend`, `BatchCreate`, `SqlSave` | `Save`, the hooks of each builder of a bulk, the mutators that call each other |
| `EntQuery`: `Where`, ..., `Clones`, `QueryEdge`, `Run`, `LoadEdges` | the methods of the query builders; a read with edges to load has two steps; a query over an edge reads the query it came from with all its setters, DISTINCT, OFFSET, LIMIT and ORDER BY (`From`) |

Each statement of a store is an operator with an `err` parameter that says which
errors the code can report in which states: `CreateRefreshToken` inserts when the
hash is new and reports 23505 as `ErrRefreshTokenAlreadyExists` when it is not.
`ErrDatabase` stands for every driver and context error; a **write** that reports
it may or may not have been committed, a read changes nothing.

Abstractions, and why they lose nothing the properties speak of:

*The service.*

- a token *is* its claims. HS256 is deterministic and the claims hold a type, a
  subject and two times in whole seconds, with no `jti`; two calls with equal
  claims produce equal strings. `ParseJWT` returns the claims together with
  `ErrTokenExpired`, so the code reads the type and the subject of an expired token;
- `Sign` wraps a token, so a hash determines its token but is not one;
- `Garbage` stands for every presented string this service did not sign, and
  `NoToken` for none. Clients otherwise present only tokens delivered to them, of
  either type, to any route, at any time;
- `revoked_at` is kept as whether it is set; profile columns, logging and bodies
  are left out; the provider is always `google`;
- an expiry of a token on a second boundary makes `now.Before(exp)` a comparison
  of whole seconds;
- `spent`, `owned` and `destroyed` are history: they record what was true when a
  request arrived, and which rows a logout revoked. No guard reads them.

*ent.*

- the accessors of every field have the same text, so an operator has the field as a
  parameter, and a workload names the columns it looks at;
- a predicate is the set of rows it admits; the SQL a builder writes is what it does
  to the tables. sqlgraph and PostgreSQL are external: a save is one atomic
  transaction, unique columns and the foreign key hold, an error of the driver may
  hide a commit;
- values are a handful: an id's own text, one no row has, the seconds of the clock;
- the key of a user is drawn by the builder (`DefaultID`), that of a token by the
  table when the row is inserted, in an order nobody promises;
- of copies of one user that a join gives, which is the last is left open, as the order of
  the rows is (`Lasts`);
- `log`, `asked`, `given`, `made`, `past`, `told`, `since`, `runs`, `skipped` and, in `EntTx`,
  `answered` are history: the properties compare the tables with the calls, not with
  the mutation the calls have left behind.

*The process.* Time is in units of ten seconds, which divide 30 (`Shutdown`) and 10
(what `docker stop` grants when nothing else is said). A request runs or has its
answer; `Auth` is about what it does in between, and its `Crash` is what `Exit` does to it.

## Runs

| Run | Instance | Shows |
|---|---|---|
| `auth` | 3 requests, 1 account, `AccessTTL` 1, `RefreshTTL` 2, clock 0..2 | `TypeOK`, `RotationRevokesOld`, `NoReplayOfSpentToken`, `RevokedOnlyIfReplaced`, `LogoutRevokesOwned`, `ExpiredAnswerMeansRevoked`, `LifetimeBounded` |
| `accounts` | 3 requests, 2 accounts, clock 0..1 | `OneUserPerSubject`, `TokensNameUsers`, `DeliveredAreStored`, `ImplementsLedger`, and `IInv`, the invariant the proofs use |
| `liveness` | 3 requests, 1 account, clock 0..2, under fairness | `RequestsEnd` |
| `reuse` | as `auth` | violates `RefreshTokenUsedOnce` |
| `logout_race` | as `auth` | violates `DestroyEndsSession` |
| `same_second` | as `auth` | violates `CreateMakesNewToken` |
| `ent_tx` | 2 transactions, 2 rows, 3 hooks of which 1 refuses, 2 registered | `ImplementsUnits` (it implements `AtomicUnits`), `AnswersTruly`, `FirstHookOutermost` |
| `transactor` | 3 calls, 2 rows, 2 connections | `OutcomeTrue`, `StoreRowsStay`, `ConnectionsGivenBack`, `CallsEnd` |
| `server` | 2 requests, clock 0..4, PostgreSQL goes away once | `ServesConfigured`, `CutOnlyLate`, `CleanExitAnswersAll`, `StopEnds`, `ComesUp` |
| `ent_graph` | 2 users, 2 tokens, 5 workloads | `UserFieldsAsAsked`, `StampedBySave`, `EdgesAsAsked`, `TokenFieldsAsAsked`, `OwnerAsAsked`, `OldIsOneVersion`, `TokensOutliveUsers` |
| `ent_create` | a bulk of 2 and a single builder, 4 workloads | `AllOrNone`, `CreatesOnce`, `AnsweredAreStored`, `RowsAsAsked` |
| `ent_query` | 2 users, 2 tokens, 3 workloads | `AnswersAsAsked`, `EdgesAsLinked`, `VerdictsStand` |

*Bounds of the service.* A sign-in and two requests that act on the token it delivered are what
every hazard of the list takes: two refreshes of one token, a refresh and a
logout, a refresh and its retry. A sign-in at second 0 gives a refresh token that
is alive at 1 and expired at 2, and an access token expired at 1, so the clock
0..2 has every combination of live and expired tokens; `RefreshTTL` > `AccessTTL`
keeps the order of the source's 20 and 5 seconds. Two accounts with two user ids
let first sign-ins race on one account and keep a second one beside it; there one
tick is enough to make tokens of different seconds. Requests, and in `accounts`
users and Google accounts, are symmetric: no definition tells one from another.
The liveness run uses no symmetry set; its requests are numbered and come in turn
(`InTurn`, the same symmetry as a bound), and its clock moves only between the answer
of the first and the arrival of the second (`QuietTick`): three requests contend in
one second, or two for tokens of the first that have or have not expired.

*Bounds of transactions and process.* Two transactions that want two rows meet in
every way two can. Two hooks are registered in all (`FewHooks`), on one transaction in either
order, one of them refusing or not, which are all the shapes of a chain of two, or
one on each, as what a transaction answers depends on whether some hook refuses. Three calls of `WithTx` on two
connections are more than there are connections, so that some call finds none for
its transaction and some none for its statement. A shutdown takes three units of time
and the clock four, so that one can begin late and `docker stop` come after it;
`Signal` and `DockerStop` are taken only while 30 seconds still fit in the clock. The environment of `Server` is chosen from those
with at most one variable empty, blank or of the wrong kind (`Environments`).

*Workloads of the builders.* `EntGraph`, `EntCreate` and `EntQuery` would be too large with every
method of every builder at once, so the variable `work` is a workload, chosen in
`Init` from the set the MC module gives, that names the methods in use, the columns that
matter, and the bounds; the same actions and the same properties serve all of them.

| Workload | Who is at work |
|---|---|
| `FieldsOfUsers` | one builder: fields set, by value and by pointer, reset, saved again; a hook that makes a deletion an update |
| `EdgesOfUsers` | one builder: tokens added, removed, cleared, reset, on one user and on many |
| `FieldsOfTokens` | one builder: hash, `revoked_at` and owner set, cleared and reset in any order |
| `OldValues` | two builders that save one user in turn and ask for old values; a node that is missing |
| `DeletesAndUpdates` | two builders: deletions beside updates of the same rows |
| `Users`, `Tokens` (create) | a bulk of two and a single builder race for the unique key (provider and account of a user, hash of a token), with hooks that take a field back, refuse, fail late and retry |
| `Again` (create) | a bulk saved twice, keys set in between, hooks that skip, fail late and retry |
| `Named` (create) | a single builder saved three times, with ids the caller or a hook gives it, new ones and those of rows that are there |
| `Reads` | every setter and read on one builder, its clone, or a query over an edge |
| `Loads` | eager loading with a change of another session at any point |
| `Again` (query) | builders read twice, clones in between |

A builder makes up to four calls after it was opened (three setters and a save, or two saves
with setters around them); a pair of calls about one field is what every
disagreement between mutation and save takes, and a third makes order matter. Two
rows of a table tell one from many and own from foreign. The owners of the two tokens
are taken up to a permutation of the ids where the operations are symmetric.

*Deadlock.* Every instance has finitely many requests, calls or builders and a bounded
clock, so it ends when they are used up: `CHECK_DEADLOCK FALSE`. `RequestsEnd`, `CallsEnd` and `StopEnds` are
what shows that nothing is stuck.

*Fairness.*

- `Auth`: weak fairness of `Handler(r)`, for each request: a goroutine that has a
  statement to run runs it in the end, and each statement ends, at the latest with
  the context error of `middleware.Timeout` (`cmd/main.go:114`). Nothing is asked of
  clients, of the clock, or of crashes.
- `Transactor`: weak fairness of `Proceed(c)`: a call that has begun goes on. A
  statement without a connection fails (the pool has no bound, PostgreSQL refuses), which is why
  `CallsEnd` holds; its mutant bounds the pool instead, and the calls wait for each other.
- `Server`: weak fairness of `main` (`Process`), `Kill`, `Restart`, `DatabaseUp` and
  `Tick`: timers fire, Docker does what it is configured to, PostgreSQL comes up in the
  end. Strong fairness of `Listen(TRUE)`: the port is not taken every time. Nothing is
  asked of a handler, so `StopEnds` holds though one hangs.

### What the violations show

- `reuse`: two refreshes of one token overlap; both read the row as active, both
  store a new pair, and `RevokeByTokenHash` matches a row that is already revoked,
  so both are answered 200. `ErrRefreshTokenAlreadyUsed` promises the opposite.
  `NoReplayOfSpentToken` says what does hold: without an overlap there is no
  second exchange.
- `logout_race`: a refresh past its check inserts its new row after the update of
  the logout has run. `LogoutRevokesOwned` says what does hold: the rows there
  when the logout arrived are all revoked.
- `same_second`: a user who signs in twice in one second (or refreshes in the second
  of the sign-in) is answered 500 with `ErrRefreshTokenAlreadyExists`, because the
  second token is the same string as the first.

### What the runs say of the rest

- *WithTx.* The stores keep the client they were made with and never read the key
  `WithTx` sets (`tx.go:26`): a row a store inserts inside `fn` is on record at once and
  survives the rollback. `StoreRowsStay` states that as it is, with a mutant that
  does what a reader would expect; whoever begins to use `WithTx` should know.
- *Shutdown.* `main` grants the requests 30 seconds, `middleware.Timeout` lets them
  run for 60, and `docker stop` kills after 10, as `docker-compose.yml` sets no
  `stop_grace_period`. `CutOnlyLate` says that nothing is cut off before that, and that it
  can be. A request that is cut leaves what `Crash` leaves. Signals after the first
  are swallowed, but a `docker stop` that follows one has its own 10 seconds. A listener
  whose `Accept` fails for good ends the process by `log.Fatal` with whatever it serves
  (`main.go:49-50`); that is the one way to be cut early.
- *What WithTx tells.* nil means committed, an error or a panic of `fn` means rolled back;
  only an error of `Commit` leaves open which of the two it was (`OutcomeTrue`).
- *Start.* The schema is migrated before a blank `GOOGLE_CLIENT_ID` or a blank secret is refused
  by a constructor. `database.New` opens no connection; `Migrate` is the first to
  need one and ends the process, and nothing but `restart: unless-stopped` makes
  the service wait for PostgreSQL (there is no `depends_on`): `ComesUp`.

### What ent leaves to its callers

The properties of the builders say exactly as much as holds. What they leave out:

- `IDs` of an `UpdateOne` or `DeleteOne` ignores the predicates of the builder
  (`ent/mutation.go:673-677`) while the save obeys them, so a hook may act on a row the
  save does not find. `IDs` is not modelled further.
- A builder inside a transaction begins and ends one of its own on the `txDriver`, whose
  `Commit` and `Rollback` are nops (`ent/tx.go:195-201`). When it fails on our side after a
  statement (its context has ended, sqlgraph counts the rows), what it has sent stays in
  the transaction, and a `Commit` that is answered nil keeps it. `AnswersTruly` speaks of the rows
  of the builders that returned nil (`answered`), and says that those are all there.
- `SetID` (`user_create.go:131-143`) between two saves of one builder makes two rows.
  `CreatesOnce` is about ids that the builder drew itself: those stay.
- `Unique` is said to be true by default (`refresh_token_query.go:53`). Of a query for tokens
  with `Unique(true)`, `QueryOwner` selects the foreign key alone, DISTINCT
  (`refresh_token_query.go:507-509`, and sqlgraph's `SetNeighbors`), so OFFSET and LIMIT count
  owners: two tokens of one user with `Offset(1)` lead to that user without
  `Unique` and to nobody with it, and PostgreSQL refuses an ORDER BY a column that is
  not selected. `AnswersAsAsked` compares every other read with what was asked
  (`AsWished`), and says of such a query that it still finds only owners of such
  tokens (`OnlyOwners`).
- A user that comes twice, as from `QueryOwner().Unique(false)`, is two nodes with one id,
  and `nodeids` keeps the last (`user_query.go:409-412`): the other has no tokens.
  `EdgesAsLinked` says that one of the copies has all of them.
- The edge of an update of tokens that was cleared and set, in either order, is set
  (`OwnerAsAsked`); the call that came last does not count.
- `SetRevokedAt` after `ClearRevokedAt` leaves the field among the cleared ones
  (`ent/mutation.go:185-187`): the statement assigns the column twice and PostgreSQL
  refuses it. The properties are about saves that are answered with nil, so they say
  nothing of it.
- In a bulk, a mutator looks only at the error of the next (`user_create.go:384-397`): a
  hook that returns nil without calling the next makes `Save` hand out nodes that
  were never inserted. A single builder is protected by the type check of `withHooks`
  (`ent.go:520-523`). `AnsweredAreStored` excepts such a save (`skipped`).
- `First`, `Only` and `Exist` leave their limit in the builder and `IDs` the id column
  (`refresh_token_query.go:90`, `113`, `136`, `207-216`), and eager loading its predicate
  (`user_query.go:418-420`): `AnswersAsAsked` and `EdgesAsLinked` are about the first read of a builder.
  What a second one still gives is `VerdictsStand`.
- A builder that is saved again stamps `updated_at` with the time of its first save
  (`user_update.go:235`): `StampedBySave` says between which times a stamp lies, and two saves that
  overlap may stamp out of order. It exempts a builder on which `updated_at`
  was reset last.

## Proofs

Every safety property of a run that passes is a theorem, proved by TLAPS for
**every** value of the constants. Seven modules hold the theorems, and `NatLemmas`
what they share:

| Module | For any | Assumptions |
|---|---|---|
| `AuthProofs` | sets of requests, users and Google accounts, lifetimes and `MaxTime` | `TTLAssumption` (`0 < AccessTTL < RefreshTTL`), `TokenAssumption` (`NoToken` and `Garbage` are not tokens), `AuthAssumption` (`uuid.Nil` is no user's id) |
| `EntTxProofs` | sets of transactions, rows and hooks, refusing ones included, any number of them registered | `HookAssumption` (the refusing hooks are hooks, `MaxHooks` is a number), used for the hooks only |
| `TransactorProofs` | sets of calls and rows, number of connections | `ConnectionAssumption` (at least one connection) |
| `ServerProofs` | requests, graces, clock and failures of PostgreSQL | `ServerAssumption` (the graces are positive) |
| `EntGraphProofs` | sets of ids, builders and workloads: any columns, owners, hooks, number of calls and values | `MutationAssumption` (`Nil` is no number, `Failed` is not `Nil`), `GraphAssumption` (`Nil` is no id, a table at the start names its own users, columns are fields of the schema), `RowAssumption` (`Nil` is no row) |
| `EntCreateProofs` | workloads: any number of builders and of rows in a bulk, columns, keys, hooks, saves, retries | `MutationAssumption`, `CreateAssumption` (a workload names a type, its columns, the hooks there are, and no empty bulk) |
| `EntQueryProofs` | sets of ids and workloads: any tables, predicates, limits, offsets, orders, number of builders and reads | `QueryAssumption` (ids are positive numbers, `Nil` is neither a number nor a Boolean, the tables at the start obey the foreign key, `Limit` is positive) |

| Theorem | States |
|---|---|
| `Invariance` | `Spec => []IInv` |
| `TypeCorrect` | `Spec => []TypeOK` |
| `DeliveredStored` | `Spec => []DeliveredAreStored` |
| `RotationRevokes` | `Spec => []RotationRevokesOld` |
| `SpentNotReplayed` | `Spec => []NoReplayOfSpentToken` |
| `LogoutRevokes` | `Spec => []LogoutRevokesOwned` |
| `ExpiredRevoked` | `Spec => []ExpiredAnswerMeansRevoked` |
| `OneUser` | `Spec => []OneUserPerSubject` |
| `TokensOfUsers` | `Spec => []TokensNameUsers` |
| `RevokedReplaced` | `Spec => []RevokedOnlyIfReplaced` |
| `LifetimesBounded` | `Spec => []LifetimeBounded` |
| `LedgerImplemented` | `Spec => ImplementsLedger` |
| `UnitsImplemented` | `EntTxSpec => ImplementsUnits` |
| `AnswersTrue` | `EntTxSpec => []AnswersTruly` |
| `FirstOutermost` | `EntTxSpec => []FirstHookOutermost` |
| `TypesCorrect` | `Spec => []TransactorTypeOK` |
| `OutcomesTrue` | `Spec => []OutcomeTrue` |
| `RowsStay`, `ConnectionsReturned` | `Spec => []StoreRowsStay`, `Spec => []ConnectionsGivenBack` |
| `ServedConfigured` | `Spec => []ServesConfigured` |
| `CutLate`, `CleanExit` | `Spec => CutOnlyLate`, `Spec => CleanExitAnswersAll` |
| `GraphInvariance` | `Spec => []GraphInv` |
| `OldIsOneVersionAlways` | `Spec => []OldIsOneVersion` |
| `UserFieldsAsAskedAlways`, `TokenFieldsAsAskedAlways` | `Spec => UserFieldsAsAsked`, `Spec => TokenFieldsAsAsked` |
| `StampedBySaveAlways` | `Spec => StampedBySave` |
| `EdgesAsAskedAlways`, `OwnerAsAskedAlways` | `Spec => EdgesAsAsked`, `Spec => OwnerAsAsked` |
| `TokensOutliveUsersAlways` | `Spec => TokensOutliveUsers` |
| `CreateInvariance` | `Spec => []CreateInv` |
| `AllOrNoneAlways`, `CreatesOnceAlways` | `Spec => []AllOrNone`, `Spec => []CreatesOnce` |
| `AnsweredAreStoredAlways` | `Spec => []AnsweredAreStored` |
| `RowsAsAskedAlways` | `Spec => RowsAsAsked` |
| `QueryInvariance` | `Spec => []QueryInv` |
| `VerdictsStandAlways` | `Spec => []VerdictsStand` |
| `AnswersAsAskedAlways` | `Spec => []AnswersAsAsked` |
| `EdgesAsLinkedAlways` | `Spec => []EdgesAsLinked` |

*The service.* None of its properties is inductive: `RotationRevokesOld` speaks of a
request that has its answer, and does not say what was true one statement earlier.
`IInv` is six layers; the first four are each proved from the ones before, the last
two from the first three:

1. `TypeOK`;
2. `Control`: what a request at a given step has established, e.g. that a request
   about to store a token has one for its own user, and that a request without an
   answer has status 0;
3. `Rows`: what the token table holds of the tokens requests have seen: a request
   past its check has its old token stored; one about to revoke has its new one
   stored; a spent token never gets past the check; a logout about to update owns
   every row it saw on arrival;
4. `Accounts`: one row per Google account; every user a request acts for, and
   every user a delivered token names, is on record;
5. `Lifetimes`: an expiry that was computed lies at most a lifetime ahead of the
   clock, which only moves on until the token is signed;
6. `Replacements`: a request has no new refresh token until it has made one, so that
   what it stored as a replacement stays the replacement; a request about to revoke a
   token as expired holds one that has expired.

A step of one request must not disturb what another one relies on. That is proved
once: `RowsGrow` says that no statement removes a row, changes its owner or clears
`revoked_at`, `UsersStep` and `UniqueUsers` say the same of users, `MintStep` that
only `CreateSession` touches tokens in the making, `ClockStep` that time does not go
back. Whatever the layers say of another request is monotone in these, so it survives
(`ControlFrame`, `RowsFrame`, `AccountFrame`, `Settled`); what remains for each action
is the request that took it. `TableStep` and `DeliveryStep` say what one step does to
the token table and to the tokens clients hold; the ledger's step follows from the
former, because a row's owner is the user its token names, which makes a revocation
by owner a revocation by user in the ledger.

*Transactions.* `StepEffect` reduces every call on a transaction, whatever its hooks
do, to one of five effects on rows and states: it adds rows to an open transaction,
applies it, drops it, opens it, or changes nothing. `UnitStep` maps each effect to a
step of `AtomicUnits` or a stutter; the only invariant this needs is that a
transaction that has not begun has written nothing. `AnswersStep` then looks at the
call itself: an answer stays true because a decided transaction is never touched again
and rows are never taken away. For nil from `Commit` it needs one invariant more
(`AnsweredKept`): until a transaction is rolled back, the rows of every builder that returned nil
are among those it has written, whatever builders failed beside them.

*Hooks.* `Commit` wraps the driver in its hooks from the last one down to the first.
`Chain` is that loop as a recursive function on the positions of the hooks, and
`ChainLoops` says that the function is there, by induction on how far the loop has
come. `WrapPlaces` and `WrapNests` say what one more hook does to what has been
wrapped: it begins before all of it and ends after all of it, or nothing below it
runs. So a chain is a *part* of a list of nested hooks, the first of them outermost
(`ChainNests`). `HooksInv` says that the trace of every transaction is such a part,
of hooks that are registered once; later registrations come behind it.

*`WithTx`.* `CallsInv` adds to the typing that no hook is registered on the
transaction, which is what makes Commit and Rollback always end it
(`CompletionEnds`), that nothing is written in it, and that only a call inside
`WithTx` has one open. The connections in use form a finite set at every moment
(`Pool`), whether or not the calls do. With `HooksInv` of the transactions under it
this gives `TransactorTypeOK`.

*The process.* `ServerInv` says what `main` has checked by the time it is where it is,
and that whatever runs was accepted by a listener this process still has.
`ServerStep` then shows that a step either ends the process in a way `MayExit`
allows (nothing runs, a grace is over, or the listener has failed), or cuts nothing off; the action properties are read off it.

*Updates and deletions.* The properties compare the tables with the calls that were
made; a save sees only the mutation those calls have left. `GraphInv` closes the gap:
for every builder it says what its mutation has to do with its log.

1. `FieldsReflect`: what a save will write of a field is the argument of the last
   call about it, and what nobody called about is neither set nor cleared;
2. `EdgesReflect`: a token is to be added if the last call about it adds it, is to be
   removed only if some call asked for it, and a cleared edge was cleared by a call;
3. `WhereReflects`: the rows that the predicates admit are the rows that the calls do;
4. `Stamped`: `updated_at` is absent before the first save and has its time afterwards,
   or, of a deletion that a hook made an update, a later one;
5. `OldKnown` and `Current`: the old node, once there, is one of the versions the row
   has had since the builder was opened, and is what every `OldX` has been answered.

`TablesOK` adds that rows have their columns and an owner is on record. For each
method there is one lemma about the mutation and the log alone (`FieldsSet`,
`EdgesAdded`, `WhereAdded`, ...), which rests on what a call at the end of a log does
to the last call about a field or an edge (`OtherCall`, `NewCall`,
`LastEdgeAppended`). `EditsKeep` then lifts it to a builder, and `BuilderKept` says
that what leaves the tables alone, the clock included, leaves the other builders as they
are; `EndsKeeps` is the end of a save, which does not. The action properties follow from `SavedMakes`: a step that changes a table is the
end of one save, whose rows are those of its mutation.

*Creates.* `CreateInv` says of each `Save`, a bulk or not, that its builders would write what was
asked of them and otherwise defaults (`Faithful`); that the nodes specified on the way
down do so too (`NodesFaithful`); that while it runs every user has an id and the nodes have
those (`Drawn`); that a row once made with an id nobody gave has its builder's, unless the builder
has been given another since, so that a second save meets its own key
(`MadeByBuilder`, `DrawnOnce`); that an error of nil, wherever it is on its way
up through the mutators, means that the rows are there (`NilIsStored`); and that
the rows of a bulk are made together (`Whole`). A step that neither inserts nor asks
for anything is `Quiet` and keeps all of this at once (`QuietKeeps`), which covers
the hooks that skip, refuse, fail late and retry; `InsertKeeps` is the one
hard case.

*Reads.* `QueryInv` says which part of what a caller asked for survives its reads. They never change
the rows a builder is about, and one that was not read is untouched (`Kept`); a read
leaves its own limit in the builder (`Read`) and has found the first rows, in number and in
order, of those its builder is for, and no token twice (`Found`). `SliceOfWhole` is what makes that true: a
SELECT with a limit gives the first part of one without. It rests on counting:
`PlacesOrdered` and `PlacesTaken` say that the places of rows below a
limit are taken, in order, and `SizesBetween`, by induction, that a finite set
has subsets of every size on the way to its own. `VerdictsStand` follows from the sizes alone;
`AnswersAsAsked` needs that a first read takes its limit from the caller, and, as its
reference (`Reached`) follows the edge from every row and knows nothing of keys, that
what the code selects is the same (`WholeWished`, `JoinIs`) but for the
queries that count owners, of which `KeysReached` says that each key is the owner of a token. For eager
loading `TokensLinked` and `OwnersLinked` say, for either direction of the edge, that
the rows of the second SELECT are the neighbours in the tables it saw, given to every token
and to one copy of every user; `ReadingFrame` and
`TablesKept` that what other sessions do in between changes the tables and not the read.

*Induction.* The induction theorems of the library take a predicate as a parameter, which
no prover here can instantiate. `NatAll` states induction over a set instead (a set of
naturals that has 0 and every successor is `Nat`), proved from the least element
(`NatMin`) that well-foundedness gives; the loops and the counting above use it.
`GraphInv` and `QueryInv` are kept apart from the proofs so that TLC can evaluate
them; it finds both true of the workloads of `ent_graph` and `ent_query`.

*Only model-checked.* Liveness (`RequestsEnd`, `CallsEnd`, `StopEnds`, `ComesUp`) is
out of the prover's reach. The three violations are counterexamples, and need no proof.

## Not modelled

- `GetAccessToken`, `GetRefreshToken`, `IsValidRefreshToken`, `GetByUserID`,
  `RequireAdmin`: no route reaches them, and none changes state;
- the claim checks inside `VerifyIDToken`: a step that returns an account or an error;
- `Cipher` (AES-GCM) and `Base62` over byte strings, which nothing calls, and logging;
- the router itself: middleware order and CORS; `Server` takes a request from its
  arrival to its answer;
- of ent: predicates and orders (`where.go`: one SQL fragment each), entities and
  scanning, type adapters of hooks, test helpers; `Count`, `GroupBy`, `Aggregate` and interceptors of
  queries, `Limit(0)`, eager loading inside eager loading; edges set by a create; `IDs`, `Tx`
  and `Client` of a mutation; the `X` variants, which panic on an error;
- PostgreSQL: each statement is taken to be atomic and its unique indexes to hold,
  and of its locks only that a row another open transaction has inserted is waited for.

## Plan

Done: the service (`JWT` to `Auth`) with its ledger, inductive invariant and
theorems; transactions, `WithTx` and the process, with their theorems; the builders
of ent, with theirs. Next:

1. `GoogleOAuth`: `VerifyIDToken` as an operator over payloads with missing, empty
   or mistyped claims; `HTTPX` with the whole `clientErrors` table over chains of
   wrapped errors, `Unwrap` loop included.
2. `RotationAtomic`: the refresh as one atomic exchange, to state how far `Auth` is
   from it: which interleavings the check-then-act leaves open.
3. An abstract specification of the saves of `EntGraph`, one atomic change per save, and
   that the builders implement it: `GraphInv` has what its steps need.
