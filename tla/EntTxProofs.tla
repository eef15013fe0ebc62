------------------------------ MODULE EntTxProofs -----------------------------
(* Proofs that ent's transactions are atomic units and that their answers are    *)
(* true, for any sets of transactions, rows and hooks.                           *)
EXTENDS EntTx, NatLemmas

(* The part of EntTxTypeOK the proofs rest on: hooks and traces are left out.    *)
States == {"unused", "open", "committed", "rolledback"}

Typed ==
  /\ state \in [Txs -> States]
  /\ pending \in [Txs -> SUBSET Rows] /\ answered \in [Txs -> SUBSET Rows]
  /\ aborted \in [Txs -> BOOLEAN]
  /\ call \in [Txs -> {"none", "commit", "rollback"}]
  /\ res \in [Txs -> Results]

(* A transaction that has not begun has written nothing.                          *)
UnusedEmpty == \A t \in Txs : state[t] = "unused" => pending[t] = {}

(* What a step does to the rows and to the transaction that takes it: it stutters, *)
(* adds rows to an open transaction, or decides it.                              *)
Adds(t) ==
  /\ state[t] = "open" /\ UNCHANGED <<rows, state>>
  /\ \E rs \in SUBSET Rows : pending' = [pending EXCEPT ![t] = @ \cup rs]

Applies(t) ==
  /\ state[t] = "open" /\ state' = [state EXCEPT ![t] = "committed"]
  /\ rows' = rows \cup pending[t] /\ UNCHANGED pending

Drops(t) ==
  /\ state[t] \in {"unused", "open"} /\ state' = [state EXCEPT ![t] = "rolledback"]
  /\ pending' = [pending EXCEPT ![t] = {}] /\ UNCHANGED rows

Opens(t) ==
  /\ state[t] = "unused" /\ state' = [state EXCEPT ![t] = "open"]
  /\ UNCHANGED <<rows, pending>>

Effect(t) == Adds(t) \/ Applies(t) \/ Drops(t) \/ Opens(t) \/ UNCHANGED <<rows, state, pending>>

(* The steps of one transaction.                                                 *)
StepOf(t) ==
  \/ \E err \in Errors : BeginTx(t, err) \/ Commit(t, err) \/ Rollback(t, err)
  \/ \E rs \in SUBSET Rows \ {{}}, err \in Errors \cup {"builder error"} : Exec(t, rs, err)
  \/ \E h \in Hooks : OnCommit(t, h) \/ OnRollback(t, h)
  \/ ContextDone(t)

(* A step of a transaction keeps the types.                                      *)
LEMMA TypedStep ==
  ASSUME Typed, NEW t \in Txs, StepOf(t)
  PROVE  Typed'
<1> USE DEF Typed, States, Results
<1>1. ASSUME NEW err \in Errors, BeginTx(t, err) PROVE Typed'
  BY <1>1 DEF BeginTx, Returns, NoCompletion, Errors
<1>2. ASSUME NEW err \in Errors, Commit(t, err) PROVE Typed'
  <2>1. CASE NotDone(t, onCommit[t])
    BY <1>2, <2>1 DEF Commit, Completed, NotDone, Returns
  <2>2. CASE DriverCommit(t, err)
    <3>1. state' \in [Txs -> States] /\ pending' \in [Txs -> SUBSET Rows]
      BY <2>2 DEF DriverCommit
    <3>2. res' \in [Txs -> Results]
      BY <2>2 DEF DriverCommit, Returns, Errors
    <3> QED BY <1>2, <3>1, <3>2 DEF Commit, Completed
  <2> QED BY <1>2, <2>1, <2>2 DEF Commit
<1>3. ASSUME NEW err \in Errors, Rollback(t, err) PROVE Typed'
  BY <1>3 DEF Rollback, Completed, NotDone, DriverRollback, Returns, Errors
<1>4. ASSUME NEW rs \in SUBSET Rows, NEW err, Exec(t, rs, err) PROVE Typed'
  <2>1. UNCHANGED state /\ call' \in [Txs -> {"none", "commit", "rollback"}]
    BY <1>4 DEF Exec, NoCompletion
  <2>2. CASE Executed(t, rs)
    BY <2>1, <2>2 DEF Executed, Returns
  <2>3. CASE Refused(t)
    BY <2>1, <2>3 DEF Refused, Returns
  <2>4. CASE FailsHere(t, rs)
    BY <2>1, <2>4 DEF FailsHere, BuilderRollback, Returns
  <2> QED BY <1>4, <2>2, <2>3, <2>4 DEF Exec
<1>5. ASSUME NEW h \in Hooks, OnCommit(t, h) \/ OnRollback(t, h) PROVE Typed'
  BY <1>5 DEF OnCommit, OnRollback
<1>6. CASE ContextDone(t)
  BY <1>6 DEF ContextDone
<1> QED BY <1>1, <1>2, <1>3, <1>4, <1>5, <1>6 DEF StepOf

(* Every step has one of the effects, or none.                                   *)
LEMMA StepEffect ==
  ASSUME Typed, UnusedEmpty, NEW t \in Txs, StepOf(t)
  PROVE  Effect(t)
<1> USE DEF Typed, States, Effect
<1>1. ASSUME NEW err \in Errors, BeginTx(t, err) PROVE Effect(t)
  <2>1. CASE state[t] = "unused" /\ err = "nil"
    BY <1>1, <2>1 DEF BeginTx, Opens
  <2>2. CASE state[t] = "unused" /\ err # "nil"
    <3>1. pending = [pending EXCEPT ![t] = {}] BY <2>2 DEF UnusedEmpty
    <3> QED BY <1>1, <2>2, <3>1 DEF BeginTx, Drops
  <2>3. CASE state[t] # "unused"
    BY <1>1, <2>3 DEF BeginTx
  <2> QED BY <2>1, <2>2, <2>3
<1>2. ASSUME NEW err \in Errors, Commit(t, err) PROVE Effect(t)
  <2>1. CASE NotDone(t, onCommit[t]) BY <2>1 DEF NotDone
  <2>2. CASE state[t] = "open" /\ DriverCommit(t, err)
    BY <2>2 DEF DriverCommit, Applies, Drops
  <2> QED BY <1>2, <2>1, <2>2 DEF Commit
<1>3. ASSUME NEW err \in Errors, Rollback(t, err) PROVE Effect(t)
  BY <1>3 DEF Rollback, NotDone, DriverRollback, Drops
<1>4. ASSUME NEW rs \in SUBSET Rows, NEW err, Exec(t, rs, err) PROVE Effect(t)
  <2>1. state[t] = "open" /\ UNCHANGED state
    BY <1>4 DEF Exec
  <2>2. CASE Executed(t, rs)
    BY <2>1, <2>2 DEF Executed, BuilderCommit, Adds
  <2>3. CASE Refused(t)
    BY <2>1, <2>3 DEF Refused
  <2>4. CASE FailsHere(t, rs)
    BY <2>1, <2>4 DEF FailsHere, BuilderRollback, Adds
  <2> QED BY <1>4, <2>2, <2>3, <2>4 DEF Exec
<1>5. ASSUME NEW h \in Hooks, OnCommit(t, h) \/ OnRollback(t, h) PROVE Effect(t)
  BY <1>5 DEF OnCommit, OnRollback
<1>6. CASE ContextDone(t)
  BY <1>6 DEF ContextDone, Drops
<1> QED BY <1>1, <1>2, <1>3, <1>4, <1>5, <1>6 DEF StepOf

(* A transaction that has not begun has written nothing.                         *)
LEMMA UnusedStep ==
  ASSUME Typed, UnusedEmpty, NEW t \in Txs, Effect(t)
  PROVE  UnusedEmpty'
BY DEF Typed, States, UnusedEmpty, Effect, Adds, Applies, Drops, Opens

--------------------------------------------------------------------------------
(* The refinement.                                                               *)

Fate == [t \in Txs |-> CASE state[t] = "committed"  -> "applied"
                         [] state[t] = "rolledback" -> "dropped"
                         [] OTHER                   -> "open"]

(* The fate of a unit, by the state of its transaction.                          *)
LEMMA FateOf ==
  ASSUME NEW t \in Txs
  PROVE  /\ state[t] = "committed" => Fate[t] = "applied"
         /\ state[t] = "rolledback" => Fate[t] = "dropped"
         /\ state[t] \notin {"committed", "rolledback"} => Fate[t] = "open"
BY DEF Fate

(* An effect is a step of the units, or none.                                    *)
LEMMA UnitStep ==
  ASSUME Typed, NEW t \in Txs, Effect(t)
  PROVE  [Units!Next]_<<rows, pending, Fate>>
<1> USE DEF Typed, States
<1>1. CASE Adds(t)
  <2>1. Fate[t] = "open" BY <1>1, FateOf DEF Adds
  <2>2. Fate' = Fate BY <1>1 DEF Adds, Fate
  <2>3. \E rs \in SUBSET Rows : Units!Work(t, rs)
    BY <1>1, <2>1, <2>2 DEF Adds, Units!Work, Fate
  <2> QED BY <2>3 DEF Units!Next
<1>2. CASE Applies(t)
  <2>1. Fate[t] = "open" BY <1>2, FateOf DEF Applies
  <2>2. Fate' = [Fate EXCEPT ![t] = "applied"] BY <1>2 DEF Applies, Fate
  <2>3. Units!Apply(t) BY <1>2, <2>1, <2>2 DEF Applies, Units!Apply, Fate
  <2> QED BY <2>3 DEF Units!Next
<1>3. CASE Drops(t)
  <2>1. Fate[t] = "open" BY <1>3, FateOf DEF Drops
  <2>2. Fate' = [Fate EXCEPT ![t] = "dropped"] BY <1>3 DEF Drops, Fate
  <2>3. Units!Drop(t) BY <1>3, <2>1, <2>2 DEF Drops, Units!Drop, Fate
  <2> QED BY <2>3 DEF Units!Next
<1>4. CASE Opens(t)
  <2>1. Fate' = Fate BY <1>4 DEF Opens, Fate
  <2> QED BY <1>4, <2>1 DEF Opens
<1>5. CASE UNCHANGED <<rows, state, pending>>
  BY <1>5 DEF Fate
<1> QED BY <1>1, <1>2, <1>3, <1>4, <1>5 DEF Effect

(* To begin with every unit is open and empty.                                   *)
LEMMA UnitInit == EntTxInit => Units!Init
BY DEF EntTxInit, Units!Init

(* So every step of the transactions is one of the units, or none.               *)
LEMMA EntTxStep ==
  ASSUME Typed, UnusedEmpty, [EntTxNext]_<<rows, txVars>>
  PROVE  Typed' /\ UnusedEmpty' /\ [Units!Next]_<<rows, pending, Fate>>
<1>1. CASE EntTxNext
  <2>1. PICK t \in Txs : StepOf(t) BY <1>1 DEF EntTxNext, StepOf
  <2> QED BY <2>1, TypedStep, StepEffect, UnusedStep, UnitStep
<1>2. CASE UNCHANGED <<rows, txVars>>
  BY <1>2 DEF txVars, Typed, UnusedEmpty, Fate
<1> QED BY <1>1, <1>2

(* The rows a builder of the transactional client writes become visible all at   *)
(* once, by the commit of their owner, or never: ent's transactions implement    *)
(* the abstract units of work, nested builders, hooks, faults and lost answers    *)
(* included.                                                                     *)
THEOREM UnitsImplemented == EntTxSpec => ImplementsUnits
<1>1. EntTxInit => Typed /\ UnusedEmpty
  BY DEF EntTxInit, Typed, UnusedEmpty, States, Results
<1>2. Typed /\ UnusedEmpty /\ [EntTxNext]_<<rows, txVars>>
        => (Typed /\ UnusedEmpty)' /\ [Units!Next]_<<rows, pending, Fate>>
  BY EntTxStep
<1> QED BY <1>1, <1>2, UnitInit, PTL DEF EntTxSpec, ImplementsUnits, Units!Spec, Fate

--------------------------------------------------------------------------------
(* Answers.                                                                      *)

(* What a builder that returned nil has written stays in its transaction until it  *)
(* is rolled back, whatever fails after it.                                      *)
AnsweredKept == \A t \in Txs : state[t] # "rolledback" => answered[t] \subseteq pending[t]

(* A builder adds to both, an error of one to what is sent alone.                *)
LEMMA KeptStep ==
  ASSUME Typed, AnsweredKept, NEW t \in Txs, StepOf(t), Effect(t)
  PROVE  AnsweredKept'
<1>1. CASE UNCHANGED answered
  <2>1. CASE Drops(t)
    BY <1>1, <2>1 DEF Drops, AnsweredKept, Typed
  <2>2. CASE ~Drops(t)
    BY <1>1, <2>2 DEF Effect, Adds, Applies, Opens, AnsweredKept, Typed, States
  <2> QED BY <2>1, <2>2
<1>2. ASSUME NEW rs \in SUBSET Rows, NEW err, Exec(t, rs, err), ~UNCHANGED answered
      PROVE  AnsweredKept'
  <2>1. Executed(t, rs) /\ UNCHANGED state
    BY <1>2 DEF Exec, Refused, FailsHere
  <2> QED BY <2>1 DEF Executed, AnsweredKept, Typed
<1>3. (\E rs \in SUBSET Rows : \E err : Exec(t, rs, err)) \/ UNCHANGED answered
  BY DEF StepOf, BeginTx, Commit, Rollback, Completed, OnCommit, OnRollback, ContextDone
<1> QED BY <1>1, <1>2, <1>3

(* A commit that has answered nil has applied its unit.                          *)
LEMMA AnswersStep ==
  ASSUME Typed, AnsweredKept, AnswersTruly, NEW t \in Txs, StepOf(t), Effect(t)
  PROVE  AnswersTruly'
<1> DEFINE Answer(u) ==
      /\ call[u] = "commit" /\ res[u] = "nil" =>
           state[u] = "committed" /\ ~aborted[u] /\ answered[u] \cup pending[u] \subseteq rows
      /\ call[u] = "rollback" /\ res[u] = "nil" => state[u] = "rolledback" /\ pending[u] = {}
<1>1. ASSUME NEW u \in Txs \ {t} PROVE Answer(u)'
  <2>1. UNCHANGED <<call[u], res[u], aborted[u], answered[u]>>
    <3>1. CASE \E rs \in SUBSET Rows : \E err : Exec(t, rs, err)
      BY <1>1, <3>1 DEF Exec, Executed, Refused, FailsHere, Returns, NoCompletion, Typed
    <3>2. CASE ~\E rs \in SUBSET Rows : \E err : Exec(t, rs, err)
      BY <1>1, <3>2 DEF StepOf, BeginTx, Commit, Rollback, OnCommit, OnRollback, ContextDone,
        Returns, NoCompletion, Completed, NotDone, DriverCommit, DriverRollback, Typed
    <3> QED BY <3>1, <3>2
  <2>2. UNCHANGED <<state[u], pending[u]>> /\ rows \subseteq rows'
    BY <1>1 DEF Effect, Adds, Applies, Drops, Opens, Typed
  <2> QED BY <1>1, <2>1, <2>2 DEF AnswersTruly
<1>2. Answer(t)'
  <2>1. ASSUME NEW err \in Errors, BeginTx(t, err) PROVE Answer(t)'
    BY <2>1 DEF BeginTx, NoCompletion, Typed
  <2>2. ASSUME NEW err \in Errors, Commit(t, err) PROVE Answer(t)'
    <3>1. call'[t] = "commit" /\ UNCHANGED <<answered, aborted>>
      BY <2>2 DEF Commit, Completed, Typed
    <3>2. CASE NotDone(t, onCommit[t])
      BY <3>1, <3>2 DEF NotDone, Returns, Typed
    <3>3. CASE state[t] = "open" /\ DriverCommit(t, err)
      <4>1. CASE aborted[t]
        <5>1. res'[t] = "database error" BY <3>3, <4>1 DEF DriverCommit, Returns, Typed
        <5> QED BY <3>1, <5>1
      <4>2. CASE ~aborted[t] /\ err = "nil"
        <5>1. state'[t] = "committed" /\ rows' = rows \cup pending[t] /\ pending' = pending
          BY <3>3, <4>2 DEF DriverCommit, Typed
        <5>2. answered'[t] \subseteq pending[t]
          BY <3>1, <3>3 DEF AnsweredKept
        <5> QED BY <3>1, <4>2, <5>1, <5>2 DEF Typed
      <4>3. CASE ~aborted[t] /\ err # "nil"
        <5>1. res'[t] # "nil" BY <3>3, <4>3 DEF DriverCommit, Returns, Typed
        <5> QED BY <3>1, <5>1
      <4> QED BY <4>1, <4>2, <4>3
    <3> QED BY <2>2, <3>2, <3>3 DEF Commit
  <2>3. ASSUME NEW err \in Errors, Rollback(t, err) PROVE Answer(t)'
    BY <2>3 DEF Rollback, Completed, NotDone, DriverRollback, Returns, Typed
  <2>4. ASSUME NEW rs \in SUBSET Rows, NEW err, Exec(t, rs, err) PROVE Answer(t)'
    BY <2>4 DEF Exec, NoCompletion, Typed
  <2>5. ASSUME NEW h \in Hooks, OnCommit(t, h) \/ OnRollback(t, h) PROVE Answer(t)'
    BY <2>5 DEF OnCommit, OnRollback, AnswersTruly
  <2>6. CASE ContextDone(t)
    <3>1. state[t] = "open" /\ UNCHANGED <<call, res>> BY <2>6 DEF ContextDone
    <3>2. ~(call[t] # "none" /\ res[t] = "nil") BY <3>1 DEF AnswersTruly, Typed
    <3> QED BY <3>1, <3>2 DEF Typed
  <2> QED BY <2>1, <2>2, <2>3, <2>4, <2>5, <2>6 DEF StepOf
<1> QED BY <1>1, <1>2 DEF AnswersTruly

(* Commit answers nil only if PostgreSQL has refused no statement and all that   *)
(* was sent is on record, that of builders that returned nil above all; Rollback  *)
(* only if none of it is; whatever hooks refuse, builders fail on our side, and   *)
(* answers are lost.                                                             *)
THEOREM AnswersTrue == EntTxSpec => []AnswersTruly
<1> DEFINE Inv == Typed /\ UnusedEmpty /\ AnsweredKept /\ AnswersTruly
<1>1. EntTxInit => Inv
  BY DEF EntTxInit, Typed, UnusedEmpty, AnsweredKept, AnswersTruly, States, Results
<1>2. Inv /\ [EntTxNext]_<<rows, txVars>> => Inv'
  <2> SUFFICES ASSUME Inv, [EntTxNext]_<<rows, txVars>> PROVE Inv'
    OBVIOUS
  <2>1. CASE EntTxNext
    <3>1. PICK t \in Txs : StepOf(t) BY <2>1 DEF EntTxNext, StepOf
    <3> QED BY <3>1, EntTxStep, StepEffect, KeptStep, AnswersStep
  <2>2. CASE UNCHANGED <<rows, txVars>>
    BY <2>2 DEF txVars, Typed, UnusedEmpty, AnsweredKept, AnswersTruly
  <2> QED BY <2>1, <2>2
<1> QED BY <1>1, <1>2, PTL DEF EntTxSpec

--------------------------------------------------------------------------------
(* Hooks.                                                                        *)

(* What the loop leaves in fn, one hook after the other.                         *)
Wrapped(hooks, w, from) ==
  /\ w \in [from .. Len(hooks) + 1 -> Seq(Events)]
  /\ w[Len(hooks) + 1] = Driver
  /\ \A i \in from .. Len(hooks) : w[i] = Wrap(hooks[i], w[i + 1])

(* A wrapped function runs hooks and the driver, as what it wraps does.          *)
LEMMA WrapTyped ==
  ASSUME NEW h \in Hooks, NEW fn \in Seq(Events)
  PROVE  Wrap(h, fn) \in Seq(Events)
<1>1. \A a \in {"before", "after", "refused"} : <<[at |-> a, hook |-> h]>> \in Seq(Events)
  BY DEF Events
<1> QED BY <1>1 DEF Wrap

(* The loop comes to its end: each of its steps has something to wrap.           *)
LEMMA LoopRuns ==
  ASSUME NEW hooks \in Seq(Hooks)
  PROVE  \E w : Wrapped(hooks, w, 1)
<1>. PICK n \in Nat : n = Len(hooks) /\ hooks \in [1 .. n -> Hooks]
  OBVIOUS
<1> DEFINE T == {k \in Nat : k <= n => \E w : Wrapped(hooks, w, n + 1 - k)}
<1>1. 0 \in T
  <2> DEFINE w == [i \in n + 1 .. n + 1 |-> Driver]
  <2>1. Driver \in Seq(Events)
    BY DEF Driver, Events
  <2>2. Wrapped(hooks, w, n + 1)
    BY <2>1 DEF Wrapped
  <2> QED BY <2>2
<1>2. ASSUME NEW k \in T PROVE k + 1 \in T
  <2>1. CASE k + 1 <= n
    <3> DEFINE f == n + 1 - (k + 1)
    <3>1. f \in 1..n /\ n + 1 - k = f + 1
      BY <2>1
    <3>2. PICK w : Wrapped(hooks, w, f + 1)
      BY <2>1, <3>1
    <3> DEFINE v == [i \in f .. n + 1 |-> IF i = f THEN Wrap(hooks[f], w[f + 1]) ELSE w[i]]
    <3> HIDE DEF f
    <3>3. hooks[f] \in Hooks /\ w[f + 1] \in Seq(Events)
      <4>1. f + 1 \in f + 1 .. n + 1
        BY <3>1
      <4> QED BY <3>1, <3>2, <4>1 DEF Wrapped
    <3>4. v \in [f .. n + 1 -> Seq(Events)]
      BY <3>1, <3>2, <3>3, WrapTyped DEF Wrapped
    <3>5. v[n + 1] = Driver
      BY <3>1, <3>2 DEF Wrapped
    <3>6. \A i \in f .. n : v[i] = Wrap(hooks[i], v[i + 1])
      BY <3>1, <3>2 DEF Wrapped
    <3>7. Wrapped(hooks, v, f)
      BY <3>4, <3>5, <3>6 DEF Wrapped
    <3>8. \E u : Wrapped(hooks, u, f)
      BY <3>7
    <3> QED BY <3>8 DEF f
  <2>2. CASE ~(k + 1 <= n)
    BY <2>2
  <2> QED BY <2>1, <2>2
<1>3. T = Nat
  <2> HIDE DEF T
  <2>1. T \in SUBSET Nat
    BY DEF T
  <2> QED BY <1>1, <1>2, <2>1, NatAll
<1>4. n \in T /\ n + 1 - n = 1
  BY <1>3
<1> QED BY <1>4

(* Chain is where the loop ends.                                                 *)
LEMMA ChainLoops ==
  ASSUME NEW hooks \in Seq(Hooks)
  PROVE  \E w : Wrapped(hooks, w, 1) /\ Chain(hooks) = w[1]
<1>. PICK n \in Nat : n = Len(hooks) /\ hooks \in [1 .. n -> Hooks]
  OBVIOUS
<1> DEFINE P(v) == v = [i \in 1 .. n + 1 |-> IF i > n THEN Driver ELSE Wrap(hooks[i], v[i + 1])]
           c == CHOOSE v : P(v)
           T == {k \in Nat : k <= n => c[n + 1 - k] \in Seq(Events)}
<1>1. P(c)
  <2>1. PICK w : Wrapped(hooks, w, 1)
    BY LoopRuns
  <2>2. P(w)
    BY <2>1 DEF Wrapped
  <2> HIDE DEF P
  <2> QED BY <2>2
<1>2. Chain(hooks) = c[1]
  BY DEF Chain
<1>3. c[n + 1] = Driver /\ \A i \in 1 .. n : c[i] = Wrap(hooks[i], c[i + 1])
  <2> HIDE DEF c
  <2> QED BY <1>1
<1>4. DOMAIN c = 1 .. n + 1
  <2> HIDE DEF c
  <2> QED BY <1>1
<1> HIDE DEF c
<1>5. 0 \in T
  <2>1. c[n + 1] \in Seq(Events)
    BY <1>3 DEF Driver, Events
  <2> QED BY <2>1
<1>6. ASSUME NEW k \in T PROVE k + 1 \in T
  <2>1. CASE k + 1 <= n
    <3>1. c[n + 1 - k] \in Seq(Events) /\ n + 1 - (k + 1) \in 1 .. n
      BY <2>1
    <3>2. c[n + 1 - (k + 1)] = Wrap(hooks[n + 1 - (k + 1)], c[n + 1 - k])
      BY <1>3, <3>1
    <3>3. hooks[n + 1 - (k + 1)] \in Hooks
      BY <3>1
    <3> QED BY <3>1, <3>2, <3>3, WrapTyped
  <2>2. CASE ~(k + 1 <= n)
    BY <2>2
  <2> QED BY <2>1, <2>2
<1>7. T = Nat
  <2> HIDE DEF T
  <2>1. T \in SUBSET Nat
    BY DEF T
  <2> QED BY <1>5, <1>6, <2>1, NatAll
<1>8. \A i \in 1 .. n + 1 : c[i] \in Seq(Events)
  <2> TAKE i \in 1 .. n + 1
  <2>1. PICK k \in Nat : k = n + 1 - i /\ k <= n /\ n + 1 - k = i
    <3>1. n + 1 - i \in Nat /\ n + 1 - i <= n /\ n + 1 - (n + 1 - i) = i
      OBVIOUS
    <3> QED BY <3>1
  <2>2. k \in T
    BY <1>7
  <2> HIDE DEF P
  <2> QED BY <2>1, <2>2
<1>9. c = [i \in 1 .. n + 1 |-> IF i > n THEN Driver ELSE Wrap(hooks[i], c[i + 1])]
  BY <1>1
<1>10. c \in [1 .. n + 1 -> Seq(Events)]
  <2> HIDE DEF T, P
  <2>1. c = [i \in 1 .. n + 1 |-> c[i]]
    BY <1>9
  <2> QED BY <1>8, <2>1
<1> QED BY <1>2, <1>3, <1>10 DEF Wrapped

(* The part of the hooks from one on: only they run, the first of them outermost. *)
Part(hooks, events, from) ==
  /\ \A q \in DOMAIN events :
       events[q].at \in {"before", "after"} =>
         \E i \in from .. Len(hooks) : events[q].hook = hooks[i]
  /\ \A i, j \in from .. Len(hooks) : i < j =>
       /\ \A q \in At(events, "before", hooks[j]) : \E p \in At(events, "before", hooks[i]) : p < q
       /\ \A q \in At(events, "after", hooks[j]) : \E p \in At(events, "after", hooks[i]) : q < p

Distinct(hooks) == \A i, j \in DOMAIN hooks : hooks[i] = hooks[j] => i = j

(* Where the events of a wrapped function are.                                   *)
LEMMA WrapPlaces ==
  ASSUME NEW h \in Hooks \ Refusing, NEW fn \in Seq(Events)
  PROVE  /\ DOMAIN Wrap(h, fn) = 1 .. Len(fn) + 2
         /\ Wrap(h, fn)[1] = [at |-> "before", hook |-> h]
         /\ Wrap(h, fn)[Len(fn) + 2] = [at |-> "after", hook |-> h]
         /\ \A q \in 1 .. Len(fn) : Wrap(h, fn)[q + 1] = fn[q]
<1> DEFINE b == [at |-> "before", hook |-> h]
           a == [at |-> "after", hook |-> h]
<1>1. a \in Events /\ b \in Events
  BY DEF Events
<1> HIDE DEF a, b
<1>2. Wrap(h, fn) = <<b>> \o fn \o <<a>>
  BY DEF Wrap, a, b
<1>3. <<b>> \in Seq(Events) /\ <<a>> \in Seq(Events)
  BY <1>1
<1>4. PICK s \in Seq(Events) : s = <<b>> \o fn
  <2>1. <<b>> \o fn \in Seq(Events)
    BY <1>3
  <2> QED BY <2>1
<1>5. Len(s) = Len(fn) + 1 /\ s[1] = b /\ \A q \in 1 .. Len(fn) : s[q + 1] = fn[q]
  BY <1>3, <1>4
<1>6. /\ Len(s \o <<a>>) = Len(s) + 1
      /\ (s \o <<a>>)[Len(s) + 1] = a
      /\ \A q \in 1 .. Len(s) : (s \o <<a>>)[q] = s[q]
      /\ DOMAIN (s \o <<a>>) = 1 .. Len(s) + 1
  BY <1>3, <1>4
<1>7. \A q \in 1 .. Len(fn) : q + 1 \in 1 .. Len(s)
  BY <1>5
<1>8. 1 \in 1 .. Len(s) /\ Len(s) + 1 = Len(fn) + 2
  BY <1>5
<1> QED BY <1>2, <1>4, <1>5, <1>6, <1>7, <1>8 DEF a, b

(* One more hook around a part of the chain makes it the outermost.              *)
LEMMA WrapNests ==
  ASSUME NEW hooks \in Seq(Hooks), Distinct(hooks), NEW f \in 1 .. Len(hooks),
         NEW fn \in Seq(Events), Part(hooks, fn, f + 1)
  PROVE  Part(hooks, Wrap(hooks[f], fn), f)
<1>. PICK n \in Nat : n = Len(hooks) /\ hooks \in [1 .. n -> Hooks]
  OBVIOUS
<1> DEFINE h == hooks[f]
           W == Wrap(h, fn)
<1>1. h \in Hooks
  OBVIOUS
<1>2. CASE h \in Refusing
  <2>1. W = <<[at |-> "refused", hook |-> h]>>
    BY <1>2 DEF Wrap
  <2>2. \A q \in DOMAIN W : W[q].at = "refused"
    <3> HIDE DEF h
    <3> QED BY <2>1
  <2> HIDE DEF W
  <2>3. \A g : At(W, "before", g) = {} /\ At(W, "after", g) = {}
    BY <2>2 DEF At
  <2> QED BY <2>2, <2>3 DEF Part, W
<1>3. CASE h \notin Refusing
  <2>1. /\ DOMAIN W = 1 .. Len(fn) + 2
        /\ W[1] = [at |-> "before", hook |-> h]
        /\ W[Len(fn) + 2] = [at |-> "after", hook |-> h]
        /\ \A q \in 1 .. Len(fn) : W[q + 1] = fn[q]
    BY <1>1, <1>3, WrapPlaces
  <2> HIDE DEF W
  <2>2. PICK m \in Nat : m = Len(fn) /\ DOMAIN fn = 1 .. m
    OBVIOUS
  <2>3. \A q \in DOMAIN W : q = 1 \/ q = m + 2 \/ (q - 1 \in 1 .. m /\ W[q] = fn[q - 1])
    <3> TAKE q \in DOMAIN W
    <3>1. CASE q - 1 \in 1 .. m
      <4>1. (q - 1) + 1 = q BY <2>1, <2>2
      <4> QED BY <2>1, <2>2, <3>1, <4>1
    <3> QED BY <2>1, <2>2, <3>1
  <2>4. \A j \in f + 1 .. n : j \in 1 .. n /\ j # f /\ hooks[j] # h
    BY DEF Distinct
  <2>5. ASSUME NEW q \in DOMAIN W, W[q].at \in {"before", "after"}
        PROVE  \E i \in f .. n : W[q].hook = hooks[i]
    <3>1. CASE q = 1 \/ q = m + 2
      <4>1. W[q].hook = h /\ f \in f .. n BY <2>1, <2>2, <3>1
      <4> QED BY <4>1
    <3>2. CASE q - 1 \in 1 .. m /\ W[q] = fn[q - 1]
      <4>1. PICK i \in f + 1 .. n : fn[q - 1].hook = hooks[i]
        BY <2>2, <2>5, <3>2 DEF Part
      <4>2. i \in f .. n OBVIOUS
      <4> QED BY <3>2, <4>1, <4>2
    <3> QED BY <2>3, <3>1, <3>2
  <2>6. ASSUME NEW at \in {"before", "after"}, NEW g, NEW p \in At(fn, at, g)
        PROVE  p \in Nat /\ p + 1 \in At(W, at, g)
    <3>1. p \in 1 .. m /\ fn[p] = [at |-> at, hook |-> g]
      BY <2>2 DEF At
    <3>2. p + 1 \in DOMAIN W /\ W[p + 1] = fn[p]
      BY <2>1, <2>2, <3>1
    <3> QED BY <3>1, <3>2 DEF At
  <2>7. ASSUME NEW at \in {"before", "after"}, NEW j \in f + 1 .. n, NEW q \in At(W, at, hooks[j])
        PROVE  q - 1 \in At(fn, at, hooks[j]) /\ q \in 2 .. m + 1
    <3>1. q \in DOMAIN W /\ W[q] = [at |-> at, hook |-> hooks[j]]
      BY DEF At
    <3>2. W[q].hook # h
      BY <2>4, <3>1
    <3>3. q # 1 /\ q # m + 2
      BY <2>1, <2>2, <3>2
    <3>4. q - 1 \in 1 .. m /\ W[q] = fn[q - 1]
      BY <2>3, <3>1, <3>3
    <3>5. q - 1 \in At(fn, at, hooks[j])
      BY <2>2, <3>1, <3>4 DEF At
    <3> QED BY <2>1, <2>2, <3>1, <3>3, <3>5
  <2>8. ASSUME NEW i \in f .. n, NEW j \in f .. n, i < j, NEW q \in At(W, "before", hooks[j])
        PROVE  \E p \in At(W, "before", hooks[i]) : p < q
    <3>1. j \in f + 1 .. n
      BY <2>8
    <3>2. q - 1 \in At(fn, "before", hooks[j]) /\ q \in 2 .. m + 1
      BY <2>7, <3>1
    <3>3. CASE i = f
      <4>1. 1 \in At(W, "before", hooks[i]) BY <2>1, <2>2, <3>3 DEF At
      <4> QED BY <3>2, <4>1
    <3>4. CASE i # f
      <4>1. i \in f + 1 .. n BY <3>4
      <4>2. PICK p \in At(fn, "before", hooks[i]) : p < q - 1
        BY <2>8, <3>1, <3>2, <4>1 DEF Part
      <4>3. p \in Nat /\ p + 1 \in At(W, "before", hooks[i]) BY <2>6
      <4> QED BY <3>2, <4>2, <4>3
    <3> QED BY <3>3, <3>4
  <2>9. ASSUME NEW i \in f .. n, NEW j \in f .. n, i < j, NEW q \in At(W, "after", hooks[j])
        PROVE  \E p \in At(W, "after", hooks[i]) : q < p
    <3>1. j \in f + 1 .. n
      BY <2>9
    <3>2. q - 1 \in At(fn, "after", hooks[j]) /\ q \in 2 .. m + 1
      BY <2>7, <3>1
    <3>3. CASE i = f
      <4>1. m + 2 \in At(W, "after", hooks[i]) BY <2>1, <2>2, <3>3 DEF At
      <4> QED BY <3>2, <4>1
    <3>4. CASE i # f
      <4>1. i \in f + 1 .. n BY <3>4
      <4>2. PICK p \in At(fn, "after", hooks[i]) : q - 1 < p
        BY <2>9, <3>1, <3>2, <4>1 DEF Part
      <4>3. p \in Nat /\ p + 1 \in At(W, "after", hooks[i]) BY <2>6
      <4> QED BY <3>2, <4>2, <4>3
    <3> QED BY <3>3, <3>4
  <2> QED BY <2>5, <2>8, <2>9 DEF Part, W
<1> QED BY <1>2, <1>3

(* A call runs only the hooks that were registered, the first of them outermost. *)
LEMMA ChainNests ==
  ASSUME NEW hooks \in Seq(Hooks), Distinct(hooks)
  PROVE  Chain(hooks) \in Seq(Events) /\ Part(hooks, Chain(hooks), 1)
<1>. PICK n \in Nat : n = Len(hooks) /\ hooks \in [1 .. n -> Hooks]
  OBVIOUS
<1>1. PICK w : Wrapped(hooks, w, 1) /\ Chain(hooks) = w[1]
  BY ChainLoops
<1> DEFINE T == {k \in Nat : k <= n => Part(hooks, w[n + 1 - k], n + 1 - k)}
<1>2. 0 \in T
  <2>1. w[n + 1] = Driver
    BY <1>1 DEF Wrapped
  <2>2. Part(hooks, Driver, n + 1)
    BY DEF Part, Driver
  <2> QED BY <2>1, <2>2
<1>3. ASSUME NEW k \in T PROVE k + 1 \in T
  <2>1. CASE k + 1 <= n
    <3>1. PICK f \in 1 .. n : f = n + 1 - (k + 1) /\ f + 1 = n + 1 - k
      <4>1. n + 1 - (k + 1) \in 1 .. n /\ n + 1 - (k + 1) + 1 = n + 1 - k
        BY <2>1
      <4> QED BY <4>1
    <3>2. Part(hooks, w[f + 1], f + 1) /\ w[f + 1] \in Seq(Events)
      BY <1>1, <2>1, <3>1 DEF Wrapped
    <3>3. w[f] = Wrap(hooks[f], w[f + 1])
      BY <1>1, <3>1 DEF Wrapped
    <3>4. Part(hooks, w[f], f)
      BY <3>2, <3>3, WrapNests
    <3> QED BY <3>1, <3>4
  <2>2. CASE ~(k + 1 <= n)
    BY <2>2
  <2> QED BY <2>1, <2>2
<1>4. T = Nat
  <2> HIDE DEF T
  <2>1. T \in SUBSET Nat
    BY DEF T
  <2> QED BY <1>2, <1>3, <2>1, NatAll
<1>5. n \in T /\ n + 1 - n = 1 /\ 1 \in 1 .. n + 1
  BY <1>4
<1>6. Part(hooks, w[1], 1)
  BY <1>5
<1> QED BY <1>1, <1>5, <1>6 DEF Wrapped

HooksTyped ==
  /\ rows \subseteq Rows
  /\ {onCommit, onRollback} \subseteq [Txs -> BoundedSeq(Hooks, MaxHooks)]
  /\ trace \in [Txs -> Seq(Events)]

(* A hook is registered once, and a trace is of hooks that are still registered. *)
Outermost(t) == Part(HooksOf(t), trace[t], 1)

HooksInv ==
  /\ HooksTyped
  /\ \A t \in Txs : /\ Distinct(onCommit[t]) /\ Distinct(onRollback[t])
                    /\ call[t] # "none" => Outermost(t)

(* The type invariant of EntTx is that of its parts.                             *)
LEMMA TypeParts == Typed /\ HooksTyped <=> EntTxTypeOK
BY DEF Typed, States, HooksTyped, EntTxTypeOK

(* A bounded sequence is a sequence of a bounded length.                         *)
LEMMA BoundedIs ==
  ASSUME NEW S, NEW n \in Nat
  PROVE  BoundedSeq(S, n) = {s \in Seq(S) : Len(s) <= n}
<1>1. \A s \in BoundedSeq(S, n) : s \in Seq(S) /\ Len(s) <= n
  BY DEF BoundedSeq, SeqOf
<1>2. ASSUME NEW s \in Seq(S), Len(s) <= n PROVE s \in BoundedSeq(S, n)
  <2>1. Len(s) \in 0 .. n /\ s \in [1 .. Len(s) -> S]
    BY <1>2
  <2> QED BY <2>1 DEF BoundedSeq, SeqOf
<1> QED BY <1>1, <1>2

(* Registering one more hook.                                                    *)
LEMMA RegisterKeeps ==
  ASSUME NEW hooks \in Seq(Hooks), Distinct(hooks), NEW h \in Hooks, h \notin Range(hooks)
  PROVE  /\ Append(hooks, h) \in Seq(Hooks) /\ Len(Append(hooks, h)) = Len(hooks) + 1
         /\ Distinct(Append(hooks, h))
         /\ \A events : Part(hooks, events, 1) => Part(Append(hooks, h), events, 1)
<1>. PICK n \in Nat : n = Len(hooks) /\ DOMAIN hooks = 1 .. n
  OBVIOUS
<1>1. PICK more \in Seq(Hooks) : more = Append(hooks, h)
  <2>1. Append(hooks, h) \in Seq(Hooks)
    OBVIOUS
  <2> QED BY <2>1
<1>2. /\ Len(more) = n + 1
      /\ DOMAIN more = 1 .. n + 1
      /\ more[n + 1] = h
      /\ \A i \in 1 .. n : more[i] = hooks[i]
  BY <1>1
<1>3. \A i \in 1 .. n : hooks[i] # h
  BY DEF Range
<1>4. Distinct(more)
  <2> SUFFICES ASSUME NEW i \in 1 .. n + 1, NEW j \in 1 .. n + 1, more[i] = more[j] PROVE i = j
    BY <1>2 DEF Distinct
  <2>1. \A k \in 1 .. n + 1 : k = n + 1 \/ k \in 1 .. n
    OBVIOUS
  <2> QED BY <1>2, <1>3, <2>1 DEF Distinct
<1>5. ASSUME NEW events, Part(hooks, events, 1) PROVE Part(more, events, 1)
  <2>1. ASSUME NEW q \in DOMAIN events, events[q].at \in {"before", "after"}
        PROVE  \E i \in 1 .. n + 1 : events[q].hook = more[i]
    <3>1. PICK i \in 1 .. n : events[q].hook = hooks[i]
      BY <1>5, <2>1 DEF Part
    <3> QED BY <1>2, <3>1
  <2>2. At(events, "before", h) = {} /\ At(events, "after", h) = {}
    <3>1. ASSUME NEW at \in {"before", "after"}, NEW q \in At(events, at, h) PROVE FALSE
      <4>1. events[q].at = at /\ events[q].hook = h /\ q \in DOMAIN events
        BY DEF At
      <4>2. PICK i \in 1 .. n : events[q].hook = hooks[i]
        BY <1>5, <4>1 DEF Part
      <4> QED BY <1>3, <4>1, <4>2
    <3> QED BY <3>1
  <2>3. ASSUME NEW i \in 1 .. n + 1, NEW j \in 1 .. n + 1, i < j
        PROVE  /\ \A q \in At(events, "before", more[j]) : \E p \in At(events, "before", more[i]) : p < q
               /\ \A q \in At(events, "after", more[j]) : \E p \in At(events, "after", more[i]) : q < p
    <3>1. CASE j = n + 1
      BY <1>2, <2>2, <3>1
    <3>2. CASE j # n + 1
      <4>1. i \in 1 .. n /\ j \in 1 .. n
        BY <2>3, <3>2
      <4>2. more[i] = hooks[i] /\ more[j] = hooks[j]
        BY <1>2, <4>1
      <4> QED BY <1>5, <2>3, <4>1, <4>2 DEF Part
    <3> QED BY <3>1, <3>2
  <2> QED BY <1>2, <2>1, <2>3 DEF Part
<1> QED BY <1>1, <1>2, <1>4, <1>5

(* What a step does to the hooks: nothing of another transaction changes.        *)
LEMMA HooksFrame ==
  ASSUME Typed, HooksInv, NEW t \in Txs, StepOf(t), NEW u \in Txs \ {t}
  PROVE  UNCHANGED <<onCommit[u], onRollback[u], call[u], trace[u]>>
BY DEF StepOf, BeginTx, Commit, Rollback, Exec, OnCommit, OnRollback, ContextDone, NoCompletion,
  Completed, Typed, HooksInv, HooksTyped

(* Every step keeps the hooks registered, and the traces nested.                 *)
LEMMA HooksStep ==
  ASSUME Typed, HooksInv, NEW t \in Txs, StepOf(t), Effect(t)
  PROVE  HooksInv'
<1>1. rows' \subseteq Rows
  BY DEF Effect, Adds, Applies, Drops, Opens, HooksInv, HooksTyped, Typed
<1>2. /\ onCommit \in [Txs -> BoundedSeq(Hooks, MaxHooks)]
      /\ onRollback \in [Txs -> BoundedSeq(Hooks, MaxHooks)]
      /\ trace \in [Txs -> Seq(Events)]
      /\ onCommit[t] \in Seq(Hooks) /\ onRollback[t] \in Seq(Hooks)
  BY BoundedIs, HookAssumption DEF HooksInv, HooksTyped
<1> DEFINE Good(u) == /\ Distinct(onCommit[u]) /\ Distinct(onRollback[u])
                      /\ call[u] # "none" => Outermost(u)
           Types == /\ onCommit' \in [Txs -> BoundedSeq(Hooks, MaxHooks)]
                    /\ onRollback' \in [Txs -> BoundedSeq(Hooks, MaxHooks)]
                    /\ trace' \in [Txs -> Seq(Events)]
<1>3. ASSUME NEW u \in Txs \ {t} PROVE Good(u)'
  BY <1>3, HooksFrame DEF HooksInv, Outermost, HooksOf
<1>4. CASE \/ \E err \in Errors : BeginTx(t, err)
           \/ \E rs \in SUBSET Rows : \E err : Exec(t, rs, err)
  <2>1. /\ UNCHANGED <<onCommit, onRollback>> /\ call'[t] = "none"
        /\ trace' = [trace EXCEPT ![t] = << >>]
    BY <1>4 DEF BeginTx, Exec, NoCompletion, Typed
  <2>2. << >> \in Seq(Events)
    OBVIOUS
  <2>3. Types
    BY <1>2, <2>1, <2>2
  <2>4. Good(t)'
    BY <2>1 DEF HooksInv
  <2> QED BY <1>1, <1>3, <2>3, <2>4 DEF HooksInv, HooksTyped
<1>5. ASSUME NEW c \in {"commit", "rollback"}, NEW hooks, hooks = (IF c = "commit" THEN onCommit[t] ELSE onRollback[t]),
             Completed(t, c, hooks)
      PROVE  HooksInv'
  <2>1. hooks \in Seq(Hooks) /\ Distinct(hooks)
    BY <1>2, <1>5 DEF HooksInv
  <2>2. Chain(hooks) \in Seq(Events) /\ Part(hooks, Chain(hooks), 1)
    BY <2>1, ChainNests
  <2>3. /\ UNCHANGED <<onCommit, onRollback>> /\ call'[t] = c
        /\ trace' = [trace EXCEPT ![t] = Chain(hooks)]
    BY <1>5 DEF Completed, Typed
  <2>4. Types
    BY <1>2, <2>2, <2>3
  <2>5. trace'[t] = Chain(hooks)
    BY <1>2, <2>3
  <2>6. HooksOf(t)' = hooks
    BY <1>5, <2>3 DEF HooksOf
  <2>7. Good(t)'
    BY <2>2, <2>3, <2>5, <2>6 DEF HooksInv, Outermost
  <2> QED BY <1>1, <1>3, <2>4, <2>7 DEF HooksInv, HooksTyped
<1>6. ASSUME NEW h \in Hooks, OnCommit(t, h) PROVE HooksInv'
  <2>1. /\ h \notin Range(onCommit[t]) /\ MayRegister(t)
        /\ onCommit' = [onCommit EXCEPT ![t] = Append(onCommit[t], h)]
        /\ UNCHANGED <<onRollback, call, trace>>
    BY <1>6 DEF OnCommit
  <2>2. /\ Append(onCommit[t], h) \in Seq(Hooks)
        /\ Len(Append(onCommit[t], h)) = Len(onCommit[t]) + 1
        /\ Distinct(Append(onCommit[t], h))
        /\ \A events : Part(onCommit[t], events, 1) => Part(Append(onCommit[t], h), events, 1)
    BY <1>2, <2>1, RegisterKeeps DEF HooksInv
  <2>3. Append(onCommit[t], h) \in BoundedSeq(Hooks, MaxHooks)
    <3>1. Len(onCommit[t]) + 1 <= MaxHooks
      BY <1>2, <2>1, HookAssumption DEF MayRegister
    <3> QED BY <2>2, <3>1, BoundedIs, HookAssumption
  <2>4. Types
    BY <1>2, <2>1, <2>3
  <2>5. onCommit'[t] = Append(onCommit[t], h)
    BY <1>2, <2>1
  <2>6. Good(t)'
    BY <2>1, <2>2, <2>5 DEF HooksInv, Outermost, HooksOf
  <2> QED BY <1>1, <1>3, <2>4, <2>6 DEF HooksInv, HooksTyped
<1>7. ASSUME NEW h \in Hooks, OnRollback(t, h) PROVE HooksInv'
  <2>1. /\ h \notin Range(onRollback[t]) /\ MayRegister(t)
        /\ onRollback' = [onRollback EXCEPT ![t] = Append(onRollback[t], h)]
        /\ UNCHANGED <<onCommit, call, trace>>
    BY <1>7 DEF OnRollback
  <2>2. /\ Append(onRollback[t], h) \in Seq(Hooks)
        /\ Len(Append(onRollback[t], h)) = Len(onRollback[t]) + 1
        /\ Distinct(Append(onRollback[t], h))
        /\ \A events : Part(onRollback[t], events, 1) => Part(Append(onRollback[t], h), events, 1)
    BY <1>2, <2>1, RegisterKeeps DEF HooksInv
  <2>3. Append(onRollback[t], h) \in BoundedSeq(Hooks, MaxHooks)
    <3>1. Len(onRollback[t]) + 1 <= MaxHooks
      BY <1>2, <2>1, HookAssumption DEF MayRegister
    <3> QED BY <2>2, <3>1, BoundedIs, HookAssumption
  <2>4. Types
    BY <1>2, <2>1, <2>3
  <2>5. onRollback'[t] = Append(onRollback[t], h)
    BY <1>2, <2>1
  <2>6. Good(t)'
    BY <2>1, <2>2, <2>5 DEF HooksInv, Outermost, HooksOf, Typed
  <2> QED BY <1>1, <1>3, <2>4, <2>6 DEF HooksInv, HooksTyped
<1>8. CASE ContextDone(t)
  BY <1>1, <1>8 DEF ContextDone, HooksInv, HooksTyped, Outermost, HooksOf
<1>9. ASSUME NEW err \in Errors, Commit(t, err) \/ Rollback(t, err) PROVE HooksInv'
  BY <1>5, <1>9 DEF Commit, Rollback
<1> QED BY <1>4, <1>6, <1>7, <1>8, <1>9 DEF StepOf

(* To begin with there are neither hooks nor traces.                             *)
LEMMA HooksInit ==
  ASSUME EntTxInit
  PROVE  HooksInv
<1>1. << >> \in BoundedSeq(Hooks, MaxHooks) /\ << >> \in Seq(Events)
  <2>1. << >> \in Seq(Hooks) /\ Len(<< >>) = 0 /\ << >> \in Seq(Events)
    OBVIOUS
  <2>2. BoundedSeq(Hooks, MaxHooks) = {s \in Seq(Hooks) : Len(s) <= MaxHooks} /\ 0 <= MaxHooks
    BY BoundedIs, HookAssumption
  <2> QED BY <2>1, <2>2
<1>2. Distinct(<< >>)
  BY DEF Distinct
<1> QED BY <1>1, <1>2 DEF EntTxInit, HooksInv, HooksTyped

(* The hook of a transaction that was registered first is the outermost of every *)
(* Commit and Rollback, whatever hooks refuse, are registered between two calls, *)
(* or were registered for the other of the two.                                  *)
THEOREM FirstOutermost == EntTxSpec => []FirstHookOutermost
<1> DEFINE Inv == Typed /\ UnusedEmpty /\ HooksInv
<1>1. EntTxInit => Inv
  <2>1. EntTxInit => Typed /\ UnusedEmpty
    BY DEF EntTxInit, Typed, UnusedEmpty, States, Results
  <2> QED BY <2>1, HooksInit
<1>2. Inv /\ [EntTxNext]_<<rows, txVars>> => Inv'
  <2> SUFFICES ASSUME Inv, [EntTxNext]_<<rows, txVars>> PROVE Inv'
    OBVIOUS
  <2>1. CASE EntTxNext
    <3>1. PICK t \in Txs : StepOf(t) BY <2>1 DEF EntTxNext, StepOf
    <3> QED BY <3>1, EntTxStep, StepEffect, HooksStep
  <2>2. CASE UNCHANGED <<rows, txVars>>
    <3>1. (Typed /\ UnusedEmpty)'
      BY <2>2 DEF txVars, Typed, UnusedEmpty
    <3>2. HooksInv'
      BY <2>2 DEF txVars, HooksInv, HooksTyped, Outermost, HooksOf
    <3> QED BY <3>1, <3>2
  <2> QED BY <2>1, <2>2
<1>3. Inv => FirstHookOutermost
  <2> SUFFICES ASSUME HooksInv, NEW t \in Txs, call[t] # "none" PROVE Nested(HooksOf(t), trace[t])
    BY DEF FirstHookOutermost
  <2>1. onCommit[t] \in Seq(Hooks) /\ onRollback[t] \in Seq(Hooks)
    BY BoundedIs, HookAssumption DEF HooksInv, HooksTyped
  <2>2. HooksOf(t) \in Seq(Hooks)
    BY <2>1 DEF HooksOf
  <2>3. DOMAIN HooksOf(t) = 1 .. Len(HooksOf(t))
    BY <2>2
  <2>4. Part(HooksOf(t), trace[t], 1)
    BY DEF HooksInv, Outermost
  <2> QED BY <2>3, <2>4 DEF Part, Nested
<1> QED BY <1>1, <1>2, <1>3, PTL DEF EntTxSpec

==============================================================================
