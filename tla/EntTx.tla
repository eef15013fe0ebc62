-------------------------------- MODULE EntTx --------------------------------
(* ent/tx.go: a transaction of ent's client, its commit and rollback hooks, and  *)
(* the driver that runs a builder's own transactions inside it.  PostgreSQL is   *)
(* external: unique rows, a statement it refuses aborts its transaction, a row    *)
(* another open transaction holds is waited for.                                 *)
EXTENDS Naturals, SequencesExt

CONSTANTS Txs,          \* the transactions opened, each once
          Rows,         \* the rows they write, by their unique key
          Hooks,        \* the completion hooks that may be registered
          Refusing,     \* those that return an error and do not call next
          MaxHooks      \* bound: hooks registered on one transaction

ASSUME HookAssumption == Refusing \subseteq Hooks /\ MaxHooks \in Nat

VARIABLES rows,         \* the committed rows
          state,        \* state[t]: unused, open, committed or rolledback
          pending,      \* pending[t]: the rows t has written
          answered,     \* history: answered[t], the rows of the builders that returned nil
          aborted,      \* aborted[t]: PostgreSQL has refused a statement of t
          onCommit,     \* the hooks registered on t, in order
          onRollback,
          call,         \* call[t]: the last call on t, if it was Commit or Rollback
          trace,        \* what the last Commit or Rollback of t ran, in order
          res           \* res[t]: what the last call on t returned

txVars == <<state, pending, answered, aborted, onCommit, onRollback, call, trace, res>>

Results == {"nil", "database error", "builder error", "ErrTxDone", "ErrTxStarted", "hook error"}
Events  == [at : {"before", "after", "refused", "done"}, hook : Hooks \cup {"driver"}]
Driver  == <<[at |-> "done", hook |-> "driver"]>>

EntTxTypeOK ==
  /\ rows \subseteq Rows
  /\ state \in [Txs -> {"unused", "open", "committed", "rolledback"}]
  /\ {pending, answered} \subseteq [Txs -> SUBSET Rows]
  /\ aborted \in [Txs -> BOOLEAN]
  /\ {onCommit, onRollback} \subseteq [Txs -> BoundedSeq(Hooks, MaxHooks)]
  /\ trace \in [Txs -> Seq(Events)]
  /\ call \in [Txs -> {"none", "commit", "rollback"}]
  /\ res \in [Txs -> Results]

EntTxInit ==
  /\ rows = {}
  /\ state = [t \in Txs |-> "unused"]
  /\ pending = [t \in Txs |-> {}] /\ answered = pending
  /\ aborted = [t \in Txs |-> FALSE]
  /\ onCommit = [t \in Txs |-> << >>] /\ onRollback = onCommit
  /\ call = [t \in Txs |-> "none"] /\ trace = onCommit
  /\ res = [t \in Txs |-> "nil"]

Returns(t, r) == res' = [res EXCEPT ![t] = r]

NoCompletion(t) ==
  call' = [call EXCEPT ![t] = "none"] /\ trace' = [trace EXCEPT ![t] = << >>]

(* Client.Tx: a transactional client refuses, the driver may fail.               *)
BeginTx(t, err) ==
  /\ IF state[t] = "unused"
       THEN /\ state' = [state EXCEPT ![t] = IF err = "nil" THEN "open" ELSE "rolledback"]
            /\ Returns(t, err)
       ELSE Returns(t, "ErrTxStarted") /\ UNCHANGED state
  /\ NoCompletion(t)
  /\ UNCHANGED <<rows, pending, answered, aborted, onCommit, onRollback>>

(* Mutant: the builder's own commit reaches the database.                        *)
BuilderCommits(t) == rows' = rows \cup pending'[t]

(* txDriver.Commit is a nop, for the transaction a builder opens within t.       *)
BuilderCommit(t) == UNCHANGED rows

(* txDriver.Rollback is a nop too: what a builder has sent before it fails stays. *)
BuilderRollback(t, sent) == pending' = [pending EXCEPT ![t] = @ \cup sent]

Held(t) == UNION {pending[u] : u \in {v \in Txs \ {t} : state[v] = "open"}}

Accepts(t, rs) == ~aborted[t] /\ rs \cap (rows \cup pending[t]) = {}

Executed(t, rs) ==
  /\ rs \cap Held(t) = {} /\ Accepts(t, rs)
  /\ pending' = [pending EXCEPT ![t] = @ \cup rs]
  /\ answered' = [answered EXCEPT ![t] = @ \cup rs]
  /\ BuilderCommit(t)
  /\ Returns(t, "nil")
  /\ UNCHANGED aborted

(* PostgreSQL refuses a statement of the builder, and every later one.           *)
Refused(t) ==
  /\ aborted' = [aborted EXCEPT ![t] = TRUE]
  /\ Returns(t, "database error")
  /\ UNCHANGED <<rows, pending, answered>>

(* The builder fails on our side (its validation, the end of its own context,     *)
(* sqlgraph's count of the rows a statement met) when it has sent a part of rs.   *)
FailsHere(t, rs) ==
  /\ \E sent \in SUBSET rs :
       /\ sent # {} => sent \cap Held(t) = {} /\ Accepts(t, sent)
       /\ BuilderRollback(t, sent)
  /\ Returns(t, "builder error")
  /\ UNCHANGED <<rows, aborted, answered>>

(* A builder of the transactional client writes rs: it begins, gets t itself     *)
(* (txDriver.Tx), executes, and commits or rolls back.                           *)
Exec(t, rs, err) ==
  /\ state[t] = "open"
  /\ \/ err = "nil" /\ Executed(t, rs)
     \/ err = "nil" /\ ~Accepts(t, rs) /\ Refused(t)
     \/ err = "database error" /\ Refused(t)
     \/ err = "builder error" /\ FailsHere(t, rs)
  /\ NoCompletion(t)
  /\ UNCHANGED <<state, onCommit, onRollback>>

MayRegister(t) == Len(onCommit[t]) + Len(onRollback[t]) < MaxHooks

OnCommit(t, h) ==
  /\ state[t] = "open" /\ MayRegister(t) /\ h \notin Range(onCommit[t])
  /\ onCommit' = [onCommit EXCEPT ![t] = Append(@, h)]
  /\ UNCHANGED <<rows, state, pending, answered, aborted, onRollback, call, trace, res>>

OnRollback(t, h) ==
  /\ state[t] = "open" /\ MayRegister(t) /\ h \notin Range(onRollback[t])
  /\ onRollback' = [onRollback EXCEPT ![t] = Append(@, h)]
  /\ UNCHANGED <<rows, state, pending, answered, aborted, onCommit, call, trace, res>>

(* hooks[i](fn): what the wrapped function runs.                                 *)
Wrap(h, fn) ==
  IF h \in Refusing
    THEN <<[at |-> "refused", hook |-> h]>>
    ELSE <<[at |-> "before", hook |-> h]>> \o fn \o <<[at |-> "after", hook |-> h]>>

(* Mutant: the loop goes up.                                                     *)
ChainUp(hooks) == FoldLeft(LAMBDA fn, h : Wrap(h, fn), Driver, hooks)

(* The loop of Commit and Rollback, from the last hook down to the first:        *)
(* wrapped[i] is fn once hooks[i] has wrapped it.                                *)
Chain(hooks) ==
  LET wrapped[i \in 1 .. Len(hooks) + 1] ==
        IF i > Len(hooks) THEN Driver ELSE Wrap(hooks[i], wrapped[i + 1])
  IN  wrapped[1]

ReachesDriver(hooks) == \A i \in DOMAIN hooks : hooks[i] \notin Refusing

(* Mutant: what an aborted transaction answers is dropped.                       *)
DriverCommitQuiet(t, err) ==
  \E applied \in {err = "nil", TRUE} :
    LET commits == applied /\ ~aborted[t]
    IN  /\ state' = [state EXCEPT ![t] = IF commits THEN "committed" ELSE "rolledback"]
        /\ rows' = IF commits THEN rows \cup pending[t] ELSE rows
        /\ pending' = IF commits THEN pending ELSE [pending EXCEPT ![t] = {}]
        /\ Returns(t, err)

(* The driver's Commit: it applies the rows, or fails, or applies them and the   *)
(* answer is lost; an aborted transaction is rolled back by the database.        *)
DriverCommit(t, err) ==
  \E applied \in {err = "nil", TRUE} :
    LET commits == applied /\ ~aborted[t]
    IN  /\ state' = [state EXCEPT ![t] = IF commits THEN "committed" ELSE "rolledback"]
        /\ rows' = IF commits THEN rows \cup pending[t] ELSE rows
        /\ pending' = IF commits THEN pending ELSE [pending EXCEPT ![t] = {}]
        /\ Returns(t, IF aborted[t] THEN "database error" ELSE err)

DriverRollback(t, err) ==
  /\ state' = [state EXCEPT ![t] = "rolledback"]
  /\ pending' = [pending EXCEPT ![t] = {}]
  /\ Returns(t, err)
  /\ UNCHANGED rows

(* Tx.Commit and Tx.Rollback: the hooks, and the driver if they let it be        *)
(* reached; a transaction that has ended answers sql.ErrTxDone.                  *)
Completed(t, c, hooks) ==
  /\ call' = [call EXCEPT ![t] = c]
  /\ trace' = [trace EXCEPT ![t] = Chain(hooks)]
  /\ UNCHANGED <<answered, aborted, onCommit, onRollback>>

NotDone(t, hooks) ==
  /\ ~ReachesDriver(hooks) \/ state[t] # "open"
  /\ Returns(t, IF ReachesDriver(hooks) THEN "ErrTxDone" ELSE "hook error")
  /\ UNCHANGED <<rows, state, pending>>

Commit(t, err) ==
  /\ state[t] # "unused"
  /\ Completed(t, "commit", onCommit[t])
  /\ \/ NotDone(t, onCommit[t])
     \/ ReachesDriver(onCommit[t]) /\ state[t] = "open" /\ DriverCommit(t, err)

Rollback(t, err) ==
  /\ state[t] # "unused"
  /\ Completed(t, "rollback", onRollback[t])
  /\ \/ NotDone(t, onRollback[t])
     \/ ReachesDriver(onRollback[t]) /\ state[t] = "open" /\ DriverRollback(t, err)

(* database/sql rolls a transaction back when its context is done.               *)
ContextDone(t) ==
  /\ state[t] = "open"
  /\ state' = [state EXCEPT ![t] = "rolledback"]
  /\ pending' = [pending EXCEPT ![t] = {}]
  /\ UNCHANGED <<rows, answered, aborted, onCommit, onRollback, call, trace, res>>

Errors == {"nil", "database error"}

EntTxNext ==
  \E t \in Txs :
    \/ \E err \in Errors : BeginTx(t, err) \/ Commit(t, err) \/ Rollback(t, err)
    \/ \E rs \in SUBSET Rows \ {{}}, err \in Errors \cup {"builder error"} : Exec(t, rs, err)
    \/ \E h \in Hooks : OnCommit(t, h) \/ OnRollback(t, h)
    \/ ContextDone(t)

EntTxSpec == EntTxInit /\ [][EntTxNext]_<<rows, txVars>>

--------------------------------------------------------------------------------
(* The rows a builder of the transactional client writes are seen by nobody      *)
(* until its owner commits, then all of them are (ent/tx.go: "the user must call *)
(* one of them in order to commit or rollback the transaction").                 *)
Units == INSTANCE AtomicUnits WITH
  Units   <- Txs,
  visible <- rows,
  work    <- pending,
  fate    <- [t \in Txs |-> CASE state[t] = "committed"  -> "applied"
                              [] state[t] = "rolledback" -> "dropped"
                              [] OTHER                   -> "open"]

ImplementsUnits == Units!Spec

(* What Commit and Rollback answer is true, hooks and faults included: nil from    *)
(* Commit means that PostgreSQL refused no statement, and that all the rows are   *)
(* there of every builder that returned nil, beside what others sent before they  *)
(* failed on our side (tx.go:199); nil from Rollback means that none is there; a  *)
(* caller that is refused by a hook still holds the transaction.                 *)
AnswersTruly ==
  \A t \in Txs :
    /\ call[t] = "commit" /\ res[t] = "nil" =>
         state[t] = "committed" /\ ~aborted[t] /\ answered[t] \cup pending[t] \subseteq rows
    /\ call[t] = "rollback" /\ res[t] = "nil" => state[t] = "rolledback" /\ pending[t] = {}

At(events, at, h) == {i \in DOMAIN events : events[i] = [at |-> at, hook |-> h]}

Nested(hs, events) ==
  \A i, j \in DOMAIN hs : i < j =>
    /\ \A q \in At(events, "before", hs[j]) : \E p \in At(events, "before", hs[i]) : p < q
    /\ \A q \in At(events, "after", hs[j]) : \E p \in At(events, "after", hs[i]) : q < p

HooksOf(t) == IF call[t] = "commit" THEN onCommit[t] ELSE onRollback[t]

(* The hook registered first is the outermost: it begins before the others and   *)
(* ends after them, so what it sees is the whole of the call.                    *)
FirstHookOutermost == \A t \in Txs : call[t] # "none" => Nested(HooksOf(t), trace[t])
==============================================================================
