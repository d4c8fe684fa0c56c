----------------------------- MODULE MCFunding -----------------------------
(***************************************************************************)
(* Funding for model checking: alice and bob share a chain, carol has her  *)
(* own.                                                                    *)
(***************************************************************************)
EXTENDS FundingAccounting

CONSTANTS alice, bob, carol, shared, own

Homes == [a \in Accounts |-> IF a = carol THEN own ELSE shared]

=============================================================================
