------------------------------- MODULE MCEntTx -------------------------------
(* A small instance of ent's transactions for TLC.                              *)
EXTENDS EntTx, TLC

Symmetry == Permutations(Txs) \cup Permutations(Rows) \cup Permutations(Hooks \ Refusing)

(* Bound: MaxHooks hooks in all, on one transaction or shared by two.            *)
Registered(t) == Len(onCommit[t]) + Len(onRollback[t])
FewHooks == \A t, u \in Txs : t # u => Registered(t) + Registered(u) <= MaxHooks

FewHooksSpec == EntTxInit /\ [][EntTxNext /\ FewHooks']_<<rows, txVars>>
==============================================================================
