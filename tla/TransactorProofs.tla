--------------------------- MODULE TransactorProofs ---------------------------
(* Proofs about concurrent calls of WithTx, for any set of calls, finite or not, *)
(* and any number of connections.                                                *)
EXTENDS Transactor, EntTxProofs, FiniteSetTheorems

Holding == {"fn", "rollback", "commit"}

(* The inductive invariant.  Nobody registers a hook on the transaction of       *)
(* WithTx, so Commit and Rollback always reach the driver; and nothing is        *)
(* written in it.                                                                *)
CallOf(c) ==
  /\ onCommit[c] = << >> /\ onRollback[c] = << >>
  /\ pending[c] = {} /\ wrote[c] \subseteq rows
  /\ state[c] = "open" => pc[c] \in Holding

Calls ==
  /\ pc \in [Txs -> {"idle"} \cup Holding \cup Ended]
  /\ wrote \in [Txs -> SUBSET Rows]
  /\ outcome \in [Txs -> {"none", "nil", "error", "panic"}]
  /\ onCommit \in [Txs -> {<< >>}] /\ onRollback \in [Txs -> {<< >>}]
  /\ \A c \in Txs : CallOf(c)

Pool == IsFiniteSet(Connections) /\ Cardinality(Connections) <= MaxConnections

CallsInv == Typed /\ Calls /\ Pool

(* Without hooks, a transaction is over when Commit or Rollback returns.         *)
LEMMA CompletionEnds ==
  ASSUME Typed, NEW c \in Txs, onCommit[c] = << >>, onRollback[c] = << >>,
         NEW err, Commit(c, err) \/ Rollback(c, err)
  PROVE  state'[c] # "open"
<1>1. ReachesDriver(onCommit[c]) /\ ReachesDriver(onRollback[c])
  BY DEF ReachesDriver
<1>2. CASE state[c] # "open"
  BY <1>2 DEF Commit, Rollback, NotDone
<1>3. CASE state[c] = "open"
  BY <1>1, <1>3 DEF Commit, Rollback, NotDone, DriverCommit, DriverRollback, Typed
<1> QED BY <1>2, <1>3

(* A call's step, and what it is a step of in ent's transaction.                 *)
LEMMA CallSteps ==
  ASSUME Next
  PROVE  \E c \in Txs :
           \/ \E err \in Errors : Start(c, err) \/ RollBack(c, err) \/ ReturnCommit(c, err)
           \/ \E r \in Rows : StoreStatement(c, r)
           \/ \E how \in {"nil", "error", "panic"} : FnEnds(c, how)
           \/ ContextDone(c) /\ UNCHANGED <<pc, wrote, outcome>>
BY DEF Next, Proceed

(* Every step keeps the types of the calls.                                      *)
LEMMA CallsTyped ==
  ASSUME Typed, [Next]_vars
  PROVE  Typed'
<1>1. CASE Next
  <2>1. PICK c \in Txs : StepOf(c) \/ UNCHANGED txVars
    BY <1>1, CallSteps
       DEF Start, RollBack, ReturnCommit, StoreStatement, FnEnds, StepOf
  <2> QED BY <2>1, TypedStep DEF txVars, Typed
<1>2. CASE UNCHANGED vars
  BY <1>2 DEF vars, txVars, Typed
<1> QED BY <1>1, <1>2

(* A step that opens no transaction keeps the pool within its bound.              *)
LEMMA PoolShrinks ==
  ASSUME Pool, Connections' \subseteq Connections
  PROVE  Pool'
<1>1. IsFiniteSet(Connections') /\ Cardinality(Connections') <= Cardinality(Connections)
  BY FS_Subset DEF Pool
<1>2. Cardinality(Connections) \in Nat /\ Cardinality(Connections') \in Nat
  BY <1>1, FS_CardinalityType DEF Pool
<1> QED BY <1>1, <1>2, ConnectionAssumption DEF Pool

(* The opening of a transaction, whether it fails or not.                        *)
LEMMA StartKeeps ==
  ASSUME CallsInv, NEW c \in Txs, NEW err \in Errors, Start(c, err)
  PROVE  Calls' /\ Pool'
<1> USE DEF CallsInv
<1>1. state[c] # "open" /\ pc[c] = "idle"
  BY DEF Start, Calls, CallOf, Holding
<1>2. UNCHANGED <<rows, pending, onCommit, onRollback, wrote>>
  BY DEF Start, BeginTx
<1>3. \A d \in Txs \ {c} : state'[d] = state[d] /\ pc'[d] = pc[d]
  BY DEF Start, BeginTx, Go, Typed, Calls
<1>4. CASE err = "nil" /\ FreeConnection
  <2>1. pc'[c] = "fn"
    BY <1>4 DEF Start, Go, Calls
  <2>2. Calls'
    BY <1>2, <1>3, <1>4, <2>1 DEF Start, Go, Calls, CallOf, Holding
  <2>3. Connections' \in {Connections, Connections \cup {c}}
    <3>1. Connections' \subseteq Connections \cup {c} /\ Connections \subseteq Connections'
      BY <1>1, <1>3 DEF Connections
    <3> QED BY <3>1
  <2>4. CASE Connections' = Connections \cup {c}
    <3>1. c \notin Connections BY <1>1 DEF Connections
    <3>2. IsFiniteSet(Connections') /\ Cardinality(Connections') = Cardinality(Connections) + 1
      BY <2>4, <3>1, FS_AddElement DEF Pool
    <3>3. Cardinality(Connections) \in Nat
      BY FS_CardinalityType DEF Pool
    <3> QED BY <1>4, <2>2, <3>2, <3>3, ConnectionAssumption DEF Pool, FreeConnection
  <2> QED BY <2>2, <2>3, <2>4, PoolShrinks
<1>5. CASE err # "nil"
  <2>1. state'[c] # "open"
    BY <1>1, <1>5 DEF Start, BeginTx, Typed
  <2>2. Calls'
    BY <1>2, <1>3, <1>5, <2>1 DEF Start, Go, End, Calls, CallOf, Ended
  <2>3. Connections' \subseteq Connections
    BY <1>3, <2>1 DEF Connections
  <2> QED BY <2>2, <2>3, PoolShrinks
<1> QED BY <1>4, <1>5 DEF Start

(* Its commit or rollback.                                                       *)
LEMMA CompletionKeeps ==
  ASSUME CallsInv, NEW c \in Txs, NEW err \in Errors, RollBack(c, err) \/ ReturnCommit(c, err)
  PROVE  Calls' /\ Pool'
<1> USE DEF CallsInv
<1>1. state'[c] # "open"
  BY CompletionEnds DEF RollBack, ReturnCommit, Calls, CallOf
<1>2. StepOf(c)
  BY DEF RollBack, ReturnCommit, StepOf
<1>3. UnusedEmpty
  BY DEF UnusedEmpty, Calls, CallOf
<1>4. Effect(c)
  BY <1>2, <1>3, StepEffect
<1>5. /\ \A d \in Txs \ {c} : state'[d] = state[d] /\ pc'[d] = pc[d]
      /\ UNCHANGED <<onCommit, onRollback, wrote>>
  BY <1>4 DEF RollBack, ReturnCommit, Commit, Rollback, Completed, Go, Effect, Adds, Applies,
    Drops, Opens, Typed, Calls
<1>6. rows' = rows /\ pending' = pending
  <2>1. CASE RollBack(c, err)
    BY <2>1 DEF RollBack, Rollback, NotDone, DriverRollback, Calls, CallOf, Typed
  <2>2. CASE ReturnCommit(c, err)
    BY <2>2 DEF ReturnCommit, Commit, NotDone, DriverCommit, Calls, CallOf, Typed
  <2> QED BY <2>1, <2>2
<1>7. pc' \in [Txs -> {"idle"} \cup Holding \cup Ended]
  BY DEF RollBack, ReturnCommit, Go, Calls, Ended
<1>8. outcome' \in [Txs -> {"none", "nil", "error", "panic"}]
  BY DEF RollBack, ReturnCommit, End, Calls
<1>9. Calls'
  BY <1>1, <1>5, <1>6, <1>7, <1>8 DEF Calls, CallOf
<1>10. Connections' \subseteq Connections
  BY <1>1, <1>5 DEF Connections
<1> QED BY <1>9, <1>10, PoolShrinks

(* The statements and the end of the callback.                                   *)
LEMMA FnKeeps ==
  ASSUME CallsInv, NEW c \in Txs,
         \/ \E r \in Rows : StoreStatement(c, r)
         \/ \E how \in {"nil", "error", "panic"} : FnEnds(c, how)
  PROVE  Calls' /\ Pool'
<1> USE DEF CallsInv
<1>1. Connections' = Connections
  BY DEF StoreStatement, FnEnds, txVars, Connections
<1>2. ASSUME NEW r \in Rows, StoreStatement(c, r) PROVE Calls'
  BY <1>2 DEF StoreStatement, Go, End, txVars, Calls, CallOf, Holding
<1>3. ASSUME NEW how \in {"nil", "error", "panic"}, FnEnds(c, how) PROVE Calls'
  BY <1>3 DEF FnEnds, Go, End, txVars, Calls, CallOf, Holding
<1> QED BY <1>1, <1>2, <1>3, PoolShrinks

(* The end of a context, at any point of the call.                               *)
LEMMA DoneKeeps ==
  ASSUME CallsInv, NEW c \in Txs, ContextDone(c), UNCHANGED <<pc, wrote, outcome>>
  PROVE  Calls' /\ Pool'
<1> USE DEF CallsInv
<1>1. Connections' \subseteq Connections
  BY DEF ContextDone, Connections, Typed
<1>2. Calls'
  BY DEF ContextDone, Calls, CallOf, Typed
<1> QED BY <1>1, <1>2, PoolShrinks

(* So every step keeps the invariant.                                            *)
LEMMA CallsStep ==
  ASSUME CallsInv, [Next]_vars
  PROVE  CallsInv'
<1>1. Typed' BY CallsTyped DEF CallsInv
<1>2. CASE Next
  <2>1. PICK c \in Txs :
          \/ \E err \in Errors : Start(c, err) \/ RollBack(c, err) \/ ReturnCommit(c, err)
          \/ \E r \in Rows : StoreStatement(c, r)
          \/ \E how \in {"nil", "error", "panic"} : FnEnds(c, how)
          \/ ContextDone(c) /\ UNCHANGED <<pc, wrote, outcome>>
    BY <1>2, CallSteps
  <2>2. Calls' /\ Pool'
    BY <2>1, StartKeeps, CompletionKeeps, FnKeeps, DoneKeeps
  <2> QED BY <1>1, <2>2 DEF CallsInv
<1>3. CASE UNCHANGED vars
  <2>1. Calls' BY <1>3 DEF vars, txVars, CallsInv, Calls, CallOf
  <2>2. Pool' BY <1>3 DEF vars, txVars, CallsInv, Pool, Connections
  <2> QED BY <1>1, <2>1, <2>2 DEF CallsInv
<1> QED BY <1>2, <1>3

(* It holds to begin with.                                                       *)
LEMMA CallsInit == Init => CallsInv
<1> SUFFICES ASSUME Init PROVE CallsInv
  OBVIOUS
<1>1. Typed BY DEF Init, EntTxInit, Typed, States, Results
<1>2. Calls BY DEF Init, EntTxInit, Calls, CallOf, Holding
<1>3. Connections = {} BY DEF Init, EntTxInit, Connections
<1>4. Pool BY <1>3, FS_EmptySet, ConnectionAssumption DEF Pool
<1> QED BY <1>1, <1>2, <1>4 DEF CallsInv

(* In every run of WithTx calls and transactions agree (Transactor.WithTx).      *)
THEOREM CallsInvariance == Spec => []CallsInv
BY CallsInit, CallsStep, PTL DEF Spec

(* A statement of fn is on record when it ends and stays, whatever becomes of    *)
(* the transaction WithTx opened for it (tx.go:26).                              *)
THEOREM RowsStay == Spec => []StoreRowsStay
<1>1. CallsInv => StoreRowsStay
  BY DEF CallsInv, Calls, CallOf, StoreRowsStay
<1> QED BY <1>1, CallsInvariance, PTL

(* WithTx gives its connection back on every path, panics and a context that     *)
(* ends included, and the calls never hold more than PostgreSQL accepts.         *)
THEOREM ConnectionsReturned == Spec => []ConnectionsGivenBack
<1>1. CallsInv => ConnectionsGivenBack
  BY DEF CallsInv, Calls, CallOf, Pool, Connections, Holding, ConnectionsGivenBack
<1> QED BY <1>1, CallsInvariance, PTL

(* What a call has come to know of its transaction, at every point.              *)
OutcomeOf(c) ==
  /\ pc[c] = "idle" => state[c] = "unused"
  /\ pc[c] \in Holding => state[c] \in {"open", "rolledback"}
  /\ pc[c] = "rollback" => outcome[c] \in {"error", "panic"}
  /\ pc[c] \in Ended => Told(c)

Outcomes == \A c \in Txs : OutcomeOf(c)

(* A step of one call tells another nothing.                                      *)
LEMMA OthersOutcome ==
  ASSUME CallsInv, Outcomes, NEW c \in Txs, NEW d \in Txs \ {c},
         UNCHANGED <<pc[d], outcome[d], state[d], call[d]>>
  PROVE  OutcomeOf(d)'
BY DEF Outcomes, OutcomeOf, Told

(* Every step keeps them.                                                        *)
LEMMA OutcomesStep ==
  ASSUME CallsInv, Outcomes, [Next]_vars
  PROVE  Outcomes'
<1> USE DEF CallsInv
<1>1. ASSUME NEW c \in Txs, NEW err \in Errors, Start(c, err) PROVE Outcomes'
  <2>1. state[c] = "unused" /\ pc[c] = "idle"
    BY <1>1 DEF Start, Outcomes, OutcomeOf
  <2>2. state' = [state EXCEPT ![c] = IF err = "nil" THEN "open" ELSE "rolledback"]
    BY <1>1, <2>1 DEF Start, BeginTx
  <2>3. call' = [call EXCEPT ![c] = "none"]
    BY <1>1 DEF Start, BeginTx, NoCompletion
  <2>4. OutcomeOf(c)'
    BY <1>1, <2>2, <2>3 DEF Start, Go, End, Typed, Calls, OutcomeOf, Told, Holding, Ended
  <2>5. ASSUME NEW d \in Txs \ {c} PROVE OutcomeOf(d)'
    <3>1. UNCHANGED <<pc[d], outcome[d], state[d], call[d]>>
      BY <1>1, <2>2, <2>3, <2>5 DEF Start, Go, End, Typed, Calls
    <3> QED BY <3>1, OthersOutcome
  <2> QED BY <2>4, <2>5 DEF Outcomes
<1>2. ASSUME NEW c \in Txs, NEW err \in Errors, RollBack(c, err) PROVE Outcomes'
  <2>1. /\ pc[c] = "rollback" /\ outcome[c] \in {"error", "panic"} /\ UNCHANGED outcome
        /\ pc' = [pc EXCEPT ![c] = IF outcome[c] = "panic" THEN "panicked" ELSE "returned"]
    BY <1>2 DEF RollBack, Go, Outcomes, OutcomeOf
  <2>2. call' = [call EXCEPT ![c] = "rollback"]
    BY <1>2 DEF RollBack, Rollback, Completed
  <2>3. state[c] \in {"open", "rolledback"} /\ ReachesDriver(onRollback[c])
    BY <2>1 DEF Outcomes, OutcomeOf, Holding, ReachesDriver, Calls, CallOf
  <2>4. state' = [state EXCEPT ![c] = "rolledback"]
    BY <1>2, <2>3 DEF RollBack, Rollback, NotDone, DriverRollback, Typed
  <2>5. OutcomeOf(c)'
    BY <2>1, <2>2, <2>4 DEF Typed, Calls, OutcomeOf, Told, Holding, Ended
  <2>6. ASSUME NEW d \in Txs \ {c} PROVE OutcomeOf(d)'
    <3>1. UNCHANGED <<pc[d], outcome[d], state[d], call[d]>>
      BY <2>1, <2>2, <2>4, <2>6 DEF Typed, Calls
    <3> QED BY <3>1, OthersOutcome
  <2> QED BY <2>5, <2>6 DEF Outcomes
<1>3. ASSUME NEW c \in Txs, NEW err \in Errors, ReturnCommit(c, err) PROVE Outcomes'
  <2>1. /\ pc[c] = "commit" /\ pc' = [pc EXCEPT ![c] = "returned"]
        /\ outcome' = [outcome EXCEPT ![c] = IF res'[c] = "nil" THEN "nil" ELSE "error"]
    BY <1>3 DEF ReturnCommit, Go, End
  <2>2. call' = [call EXCEPT ![c] = "commit"]
    BY <1>3 DEF ReturnCommit, Commit, Completed
  <2>3. ReachesDriver(onCommit[c])
    BY DEF ReachesDriver, Calls, CallOf
  <2>4. CASE NotDone(c, onCommit[c])
    <3>1. res'[c] = "ErrTxDone" /\ UNCHANGED state
      BY <2>3, <2>4 DEF NotDone, Returns, Typed
    <3>2. OutcomeOf(c)'
      BY <2>1, <2>2, <3>1 DEF Typed, Calls, OutcomeOf, Told, Holding, Ended
    <3>3. \A d \in Txs \ {c} : UNCHANGED <<pc[d], outcome[d], state[d], call[d]>>
      BY <2>1, <2>2, <3>1 DEF Typed, Calls
    <3> QED BY <3>2, <3>3, OthersOutcome DEF Outcomes
  <2>5. CASE DriverCommit(c, err)
    <3>1. res'[c] = "nil" => state'[c] = "committed"
      BY <2>5 DEF DriverCommit, Returns, Typed
    <3>2. OutcomeOf(c)'
      BY <2>1, <2>2, <3>1 DEF Typed, Calls, OutcomeOf, Told, Holding, Ended
    <3>3. \A d \in Txs \ {c} : UNCHANGED <<pc[d], outcome[d], state[d], call[d]>>
      BY <2>1, <2>2, <2>5 DEF DriverCommit, Typed, Calls
    <3> QED BY <3>2, <3>3, OthersOutcome DEF Outcomes
  <2> QED BY <1>3, <2>4, <2>5 DEF ReturnCommit, Commit
<1>4. ASSUME NEW c \in Txs,
             \/ \E r \in Rows : StoreStatement(c, r)
             \/ \E how \in {"nil", "error", "panic"} : FnEnds(c, how)
      PROVE  Outcomes'
  <2>1. /\ pc[c] = "fn" /\ UNCHANGED <<state, call>>
        /\ \A d \in Txs \ {c} : UNCHANGED <<pc[d], outcome[d]>>
    BY <1>4 DEF StoreStatement, FnEnds, Go, End, txVars, Calls
  <2>2. OutcomeOf(c)'
    BY <1>4, <2>1 DEF StoreStatement, FnEnds, Go, End, Calls, Outcomes, OutcomeOf, Holding, Ended
  <2> QED BY <2>1, <2>2, OthersOutcome DEF Outcomes
<1>5. ASSUME NEW c \in Txs, ContextDone(c), UNCHANGED <<pc, wrote, outcome>> PROVE Outcomes'
  <2>1. state[c] = "open" /\ state' = [state EXCEPT ![c] = "rolledback"] /\ UNCHANGED call
    BY <1>5 DEF ContextDone
  <2>2. pc[c] \in Holding
    BY <2>1 DEF Calls, CallOf
  <2>3. OutcomeOf(c)'
    BY <1>5, <2>1, <2>2 DEF Typed, Outcomes, OutcomeOf, Holding, Ended
  <2> QED BY <1>5, <2>1, <2>3, OthersOutcome DEF Outcomes, Typed
<1>6. CASE UNCHANGED vars
  BY <1>6 DEF vars, txVars, Outcomes, OutcomeOf, Told
<1> QED BY <1>1, <1>2, <1>3, <1>4, <1>5, <1>6, CallSteps

(* Whatever becomes of its context, its connection and its COMMIT, WithTx returns *)
(* nil only for a transaction that is committed, and an error of fn, or its panic *)
(* again, only for one that is not (tx.go:28-40).                                *)
THEOREM OutcomesTrue == Spec => []OutcomeTrue
<1>1. Init => CallsInv /\ Outcomes
  BY CallsInit DEF Init, EntTxInit, Outcomes, OutcomeOf, Holding, Ended
<1>2. CallsInv /\ Outcomes /\ [Next]_vars => (CallsInv /\ Outcomes)'
  BY CallsStep, OutcomesStep
<1>3. Outcomes => OutcomeTrue
  BY DEF Outcomes, OutcomeOf, OutcomeTrue
<1> QED BY <1>1, <1>2, <1>3, PTL DEF Spec

(* The hooks and traces of the transactions WithTx opens.                        *)
LEMMA CallsHooks ==
  ASSUME CallsInv, HooksInv, [Next]_vars
  PROVE  HooksInv'
<1> USE DEF CallsInv
<1>1. ASSUME NEW c \in Txs, StepOf(c) PROVE HooksInv'
  <2>1. UnusedEmpty
    BY DEF UnusedEmpty, Calls, CallOf
  <2> QED BY <1>1, <2>1, StepEffect, HooksStep
<1>2. ASSUME rows' \subseteq Rows, UNCHANGED txVars PROVE HooksInv'
  BY <1>2 DEF txVars, HooksInv, HooksTyped, Outermost, HooksOf
<1>3. CASE Next
  <2>1. PICK c \in Txs :
          \/ \E err \in Errors : Start(c, err) \/ RollBack(c, err) \/ ReturnCommit(c, err)
          \/ \E r \in Rows : StoreStatement(c, r)
          \/ \E how \in {"nil", "error", "panic"} : FnEnds(c, how)
          \/ ContextDone(c) /\ UNCHANGED <<pc, wrote, outcome>>
    BY <1>3, CallSteps
  <2>2. StepOf(c) \/ (rows' \subseteq Rows /\ UNCHANGED txVars)
    BY <2>1 DEF Start, RollBack, ReturnCommit, StoreStatement, FnEnds, StepOf, HooksInv, HooksTyped
  <2> QED BY <1>1, <1>2, <2>2
<1>4. CASE UNCHANGED vars
  BY <1>2, <1>4 DEF vars, HooksInv, HooksTyped
<1> QED BY <1>3, <1>4

(* Every variable of WithTx and of its transactions keeps its type: whatever     *)
(* Commit answers, a call ends with nil, an error or a panic (tx.go:35-41), and  *)
(* what its transaction ran is a sequence of events of hooks and the driver.     *)
THEOREM TypesCorrect == Spec => []TransactorTypeOK
<1>1. Init => CallsInv /\ HooksInv
  BY CallsInit, HooksInit DEF Init
<1>2. CallsInv /\ HooksInv /\ [Next]_vars => (CallsInv /\ HooksInv)'
  BY CallsStep, CallsHooks
<1>3. CallsInv /\ HooksInv => TransactorTypeOK
  BY TypeParts DEF CallsInv, HooksInv, Calls, Holding, Ended, TransactorTypeOK
<1> QED BY <1>1, <1>2, <1>3, PTL DEF Spec

==============================================================================
