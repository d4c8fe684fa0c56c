---------------------------- MODULE MCPoolLedger ----------------------------
(***************************************************************************)
(* PoolLedger and its accounting for model checking: the accounts are two  *)
(* model values of the configurations.                                     *)
(***************************************************************************)
EXTENDS PoolAccounting

CONSTANTS alice, bob

=============================================================================
