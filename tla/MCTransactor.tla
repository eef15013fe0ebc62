---------------------------- MODULE MCTransactor -----------------------------
(* Small instances of WithTx for TLC.                                           *)
EXTENDS Transactor
==============================================================================
