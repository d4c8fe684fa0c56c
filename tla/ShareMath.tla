------------------------------ MODULE ShareMath ------------------------------
(***************************************************************************)
(* The arithmetic of a constant-product pool that no fee enters, from      *)
(* abi/src/swap/pool/mod.rs: roots, the pair taken of a deposit, shares,   *)
(* payouts and the protocol's share.  Amounts are attos: natural numbers.  *)
(* The code does its products in 256 bits and panics when a result does    *)
(* not fit 128 bits, so no value ever wraps and the widths are not         *)
(* modelled.                                                               *)
(***************************************************************************)
EXTENDS Integers

(* Helpers                                                                 *)

SmallerOf(a, b) == IF a <= b THEN a ELSE b

\* U256::integer_sqrt: the root rounded down.
ISqrt(n) == CHOOSE r \in 0 .. n : r * r <= n /\ n < (r + 1) * (r + 1)

\* Mutant: round_dp forgotten.
RoundDivTruncates(n, d) == n \div d

\* Decimal division followed by round_dp: to the nearest, ties to even.
RoundDiv(n, d) ==
  LET q == n \div d
      r == n % d
  IN  IF 2 * r > d \/ (2 * r = d /\ q % 2 = 1) THEN q + 1 ELSE q

----------------------------------------------------------------------------
(* Liquidity                                                               *)

\* The answer of OptimalPair when it is Err; every caller treats it as it
\* treats a pair with a zero.
NoPair == <<0, 0>>

\* try_calculate_swap_amount_pair: the part of the two desired amounts that
\* enters the pool at its present price.
OptimalPair(r0, r1, want0, want1, min0, min1) ==
  LET optimal1 == RoundDiv(want0 * r1, r0)
      optimal0 == RoundDiv(want1 * r0, r1)
  IN  CASE r0 = 0 /\ r1 = 0 -> <<want0, want1>>
        [] ~(r0 = 0 /\ r1 = 0) /\ optimal1 <= want1 ->
             IF optimal1 < min1 THEN NoPair ELSE <<want0, optimal1>>
        [] ~(r0 = 0 /\ r1 = 0) /\ optimal1 > want1 ->
             IF optimal0 > want0 \/ optimal0 < min0
             THEN NoPair ELSE <<optimal0, want1>>

\* Mutant: the larger contribution decides.
SharesForLarger(supply, r0, r1, a0, a1) ==
  IF (r0 = 0 /\ r1 = 0) \/ supply = 0
  THEN ISqrt(a0 * a1)
  ELSE -SmallerOf(-((a0 * supply) \div r0), -((a1 * supply) \div r1))

\* calculate_liquidity: the shares minted for amounts a0, a1.
SharesFor(supply, r0, r1, a0, a1) ==
  IF (r0 = 0 /\ r1 = 0) \/ supply = 0
  THEN ISqrt(a0 * a1)
  ELSE SmallerOf((a0 * supply) \div r0, (a1 * supply) \div r1)

\* try_calculate_liquidity_amount_pair: what burning shares pays of a
\* reserve.  Division by a zero supply answers zero.
PayoutFor(liquidity, supply, r) ==
  IF supply = 0 THEN 0 ELSE (liquidity * r) \div supply

\* Mutant: the subtraction of k_last forgotten.
FeeShareOfAll(supply, r0, r1, kLast) ==
  LET rootK == ISqrt(r0 * r1)
  IN  IF kLast > 0 THEN (supply * rootK) \div (rootK * 5 + kLast) ELSE 0

\* mint_fee: the shares that give the fee receiver one sixth of the growth
\* of the root of the product since k_last.
FeeShare(supply, r0, r1, kLast) ==
  LET rootK == ISqrt(r0 * r1)
  IN  IF kLast > 0 /\ rootK > kLast
      THEN (supply * (rootK - kLast)) \div (rootK * 5 + kLast)
      ELSE 0

----------------------------------------------------------------------------
(* Properties, of every input the pool can meet: positive reserves         *)

\* Without minimums a pair is always found; it takes no more than was
\* offered, uses one side up, and is off the price by rounding only.
PairAtPrice(r0, r1, want0, want1) ==
  LET pair == OptimalPair(r0, r1, want0, want1, 0, 0)
      skew == pair[2] * r0 - pair[1] * r1
  IN  /\ pair[1] <= want0 /\ pair[2] <= want1
      /\ \/ pair[1] = want0 /\ 2 * skew \in -r0 .. r0
         \/ pair[2] = want1 /\ 2 * skew \in -r1 .. r1

\* Removing at once the shares that a deposit of a0, a1 minted never pays
\* more of either token than was deposited.
NoGainWithdrawing(supply, r0, r1, a0, a1) ==
  LET minted == SharesFor(supply, r0, r1, a0, a1)
  IN  /\ PayoutFor(minted, supply + minted, r0 + a0) <= a0
      /\ PayoutFor(minted, supply + minted, r1 + a1) <= a1

\* The fee share leaves every other share worth at least what it was worth
\* when kLast was taken, by the root of the product of the reserves.
FeeWithinGrowth(supply, r0, r1, kLast) ==
  kLast <= ISqrt(r0 * r1)
    => kLast * (supply + FeeShare(supply, r0, r1, kLast)) <= ISqrt(r0 * r1) * supply
============================================================================
