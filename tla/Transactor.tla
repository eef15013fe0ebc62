----------------------------- MODULE Transactor ------------------------------
(* internal/store/tx.go: concurrent calls of WithTx, each on a transaction of    *)
(* its own.  WithTx puts the transactional client in the context, under a key    *)
(* no store reads: a statement of fn goes through a store's own client, on a     *)
(* second connection, outside the transaction.                                   *)
EXTENDS EntTx, FiniteSets

CONSTANT MaxConnections    \* connections PostgreSQL accepts (max_connections)

ASSUME ConnectionAssumption == MaxConnections \in Nat \ {0}

VARIABLES pc,           \* pc[c]: where call c is
          wrote,        \* wrote[c]: the rows the stores inserted for c
          outcome       \* outcome[c]: how fn ended, then how WithTx did

vars == <<rows, txVars, pc, wrote, outcome>>

Ended == {"returned", "panicked"}

TransactorTypeOK ==
  /\ EntTxTypeOK
  /\ pc \in [Txs -> {"idle", "fn", "rollback", "commit"} \cup Ended]
  /\ wrote \in [Txs -> SUBSET Rows]
  /\ outcome \in [Txs -> {"none", "nil", "error", "panic"}]

Init ==
  /\ EntTxInit
  /\ pc = [c \in Txs |-> "idle"]
  /\ wrote = [c \in Txs |-> {}]
  /\ outcome = [c \in Txs |-> "none"]

Go(c, to) == pc' = [pc EXCEPT ![c] = to]
End(c, how) == outcome' = [outcome EXCEPT ![c] = how]

Connections    == {t \in Txs : state[t] = "open"}
FreeConnection == Cardinality(Connections) < MaxConnections

(* WithTx up to the call of fn.  With no connection left the driver fails.       *)
Start(c, err) ==
  /\ pc[c] = "idle"
  /\ ~FreeConnection => err # "nil"
  /\ BeginTx(c, err)
  /\ IF err = "nil" THEN Go(c, "fn") /\ UNCHANGED outcome
                    ELSE Go(c, "returned") /\ End(c, "error")
  /\ UNCHANGED wrote

(* Mutant: the store takes its client from the context.                          *)
StoreStatementInTx(c, r) ==
  /\ pc[c] = "fn"
  /\ wrote' = [wrote EXCEPT ![c] = @ \cup {r}]
  /\ Exec(c, {r}, "nil")
  /\ UNCHANGED <<pc, outcome>>

(* Mutant: the pool is bounded on our side, a statement waits for a connection.  *)
StoreStatementWaits(c, r) ==
  /\ pc[c] = "fn" /\ wrote[c] = {}
  /\ FreeConnection
  /\ wrote' = [wrote EXCEPT ![c] = @ \cup {r}]
  /\ rows' = rows \cup {r}
  /\ UNCHANGED <<txVars, pc, outcome>>

(* A statement fn makes through a store: its own connection, committed at once.  *)
(* The connection pool has no bound, so without a connection it fails.           *)
StoreStatement(c, r) ==
  /\ pc[c] = "fn"
  /\ IF FreeConnection /\ r \notin rows
       THEN /\ rows' = rows \cup {r}
            /\ wrote' = [wrote EXCEPT ![c] = @ \cup {r}]
            /\ UNCHANGED <<pc, outcome>>
       ELSE /\ Go(c, "rollback") /\ End(c, "error")
            /\ UNCHANGED <<rows, wrote>>
  /\ UNCHANGED txVars

(* fn returns or panics; it has made a statement before it returns nil.          *)
FnEnds(c, how) ==
  /\ pc[c] = "fn"
  /\ how = "nil" => wrote[c] # {}
  /\ End(c, how)
  /\ Go(c, IF how = "nil" THEN "commit" ELSE "rollback")
  /\ UNCHANGED <<rows, txVars, wrote>>

(* Mutant: the deferred function does not roll back.                             *)
RollBackOnError(c, err) ==
  /\ pc[c] = "rollback"
  /\ IF outcome[c] = "panic" THEN UNCHANGED <<rows, txVars>> ELSE Rollback(c, err)
  /\ Go(c, IF outcome[c] = "panic" THEN "panicked" ELSE "returned")
  /\ UNCHANGED <<wrote, outcome>>

(* Rollback, its error ignored, after an error of fn and in the deferred         *)
(* function, which then panics again.                                            *)
RollBack(c, err) ==
  /\ pc[c] = "rollback"
  /\ Rollback(c, err)
  /\ Go(c, IF outcome[c] = "panic" THEN "panicked" ELSE "returned")
  /\ UNCHANGED <<wrote, outcome>>

(* Mutant: what Commit returns is dropped, and WithTx returns nil.                *)
ReturnNil(c, err) ==
  /\ pc[c] = "commit"
  /\ Commit(c, err)
  /\ End(c, "nil")
  /\ Go(c, "returned")
  /\ UNCHANGED wrote

(* What Commit returns is returned (tx.go:40).                                   *)
ReturnCommit(c, err) ==
  /\ pc[c] = "commit"
  /\ Commit(c, err)
  /\ End(c, IF res'[c] = "nil" THEN "nil" ELSE "error")
  /\ Go(c, "returned")
  /\ UNCHANGED wrote

Proceed(c) ==
  \/ \E err \in Errors : RollBack(c, err) \/ ReturnCommit(c, err)
  \/ \E r \in Rows : StoreStatement(c, r)
  \/ FnEnds(c, "nil")

Next ==
  \E c \in Txs :
    \/ \E err \in Errors : Start(c, err)
    \/ Proceed(c)
    \/ \E how \in {"error", "panic"} : FnEnds(c, how)
    \/ ContextDone(c) /\ UNCHANGED <<pc, wrote, outcome>>

Spec == Init /\ [][Next]_vars

(* A call that has begun goes on: fn comes to its end, and so do Commit and       *)
(* Rollback.                                                                     *)
FairSpec == Spec /\ \A c \in Txs : WF_vars(Proceed(c))

--------------------------------------------------------------------------------
(* What the stores insert for fn is on record when the statement ends and stays, *)
(* whether WithTx commits, rolls back or panics: its transaction holds nothing.  *)
StoreRowsStay ==
  \A c \in Txs : wrote[c] \subseteq rows /\ pending[c] = {}

(* A call that has returned or panicked has given its connection back, on every  *)
(* path, and the calls never hold more connections than there are.               *)
ConnectionsGivenBack ==
  /\ \A c \in Connections : pc[c] \in {"fn", "commit", "rollback"}
  /\ Cardinality(Connections) <= MaxConnections

(* What WithTx tells is true of its transaction: nil means that it is committed,  *)
(* also if its context ended or its COMMIT was lost meanwhile; an error or panic  *)
(* of fn means that it is not; only an error of Commit itself leaves it open       *)
(* which of the two it is.                                                       *)
Told(c) ==
  /\ outcome[c] = "nil" => state[c] = "committed"
  /\ outcome[c] # "nil" /\ call[c] # "commit" => state[c] = "rolledback"
  /\ pc[c] = "panicked" <=> outcome[c] = "panic"

OutcomeTrue == \A c \in Txs : pc[c] \in Ended => Told(c)

(* Every call of WithTx ends, though each holds a connection while its fn needs  *)
(* another.                                                                      *)
CallsEnd == \A c \in Txs : pc[c] = "fn" ~> pc[c] \in Ended
==============================================================================
