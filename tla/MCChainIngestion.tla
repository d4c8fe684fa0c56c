-------------------------- MODULE MCChainIngestion --------------------------
(***************************************************************************)
(* The instance of ChainIngestion that TLC checks.                         *)
(***************************************************************************)
EXTENDS ChainIngestion, TLC

CONSTANTS c1, c2

(* The chain found later has no block yet, the configured one has two.     *)
MCTop == c1 :> 1 @@ c2 :> -1
=============================================================================
