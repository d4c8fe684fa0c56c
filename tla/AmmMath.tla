------------------------------ MODULE AmmMath ------------------------------
(***************************************************************************)
(* The constant-product arithmetic of abi/src/swap/pool/mod.rs, the Pool   *)
(* methods every settlement on the pool creator chain is computed with:    *)
(* swaps here, what no fee enters in ShareMath.                            *)
(***************************************************************************)
EXTENDS ShareMath

CONSTANTS
  FeeBase,   \* the fee denominator, 10000 in the code
  PoolFee    \* pool_fee_percent_mul_100, the swap fee out of FeeBase

\* A larger fee would make every swap panic (checked_sub of the fee).
ASSUME FeeAssumption ==
  /\ FeeBase \in Nat \ {0}
  /\ PoolFee \in 0 .. FeeBase

----------------------------------------------------------------------------
(* Swaps                                                                   *)

\* Mutant: the fee forgotten.
AmountOutNoFee(reserveIn, reserveOut, amountIn) ==
  (amountIn * reserveOut) \div (reserveIn + amountIn)

\* calculate_swap_amount_1 and, with the sides exchanged,
\* calculate_swap_amount_0: what amountIn of one token buys of the other.
AmountOut(reserveIn, reserveOut, amountIn) ==
  LET paid == amountIn * (FeeBase - PoolFee)
  IN  (paid * reserveOut) \div (reserveIn * FeeBase + paid)

\* validate_swap_invariant: the product of the reserves, with the fee kept
\* out of the inputs, does not shrink.
KeepsProduct(r0, r1, in0, in1, out0, out1) ==
  /\ in0 > 0 \/ in1 > 0
  /\ out0 < r0 /\ out1 < r1
  /\ LET adjusted0 == (r0 + in0 - out0) * FeeBase - in0 * PoolFee
         adjusted1 == (r1 + in1 - out1) * FeeBase - in1 * PoolFee
     IN  adjusted0 * adjusted1 >= r0 * r1 * FeeBase * FeeBase

----------------------------------------------------------------------------
(* Properties, of every input the pool can meet: positive reserves         *)

\* A swap pays the most that the invariant check lets through, and always
\* passes it, so no swap is refunded as BrokenK for the rounding of its output.
BestOutput(reserveIn, reserveOut, amountIn) ==
  LET out == AmountOut(reserveIn, reserveOut, amountIn)
  IN  /\ KeepsProduct(reserveIn, reserveOut, amountIn, 0, 0, out)
      /\ ~KeepsProduct(reserveIn, reserveOut, amountIn, 0, 0, out + 1)

\* Swapping back what a swap paid, with nothing in between, never returns
\* more than the first input.
NoGainSwappingBack(r0, r1, amountIn) ==
  LET out == AmountOut(r0, r1, amountIn)
  IN  AmountOut(r1 - out, r0 + amountIn, out) <= amountIn
============================================================================
