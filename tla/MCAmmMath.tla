----------------------------- MODULE MCAmmMath -----------------------------
(***************************************************************************)
(* AmmMath over every input of a grid: a behaviour walks through the       *)
(* inputs, one unit of one coordinate at a time.                           *)
(***************************************************************************)
EXTENDS AmmMath, Sequences

CONSTANTS MostReserve, MostAmount, MostSupply   \* the bounds of the grid

\* Corners: the reserves, the amounts, the supply and k_last.
Least == <<1, 1, 1, 1, 1, 0>>
Most == <<MostReserve, MostReserve, MostAmount, MostAmount, MostSupply, MostReserve>>

VARIABLE point

GridInit == point = Least

GridNext ==
  \E i \in DOMAIN Most :
    /\ point[i] < Most[i]
    /\ point' = [point EXCEPT ![i] = @ + 1]

GridSpec == GridInit /\ [][GridNext]_point

\* A swap's output is exactly what validate_swap_invariant allows.
SwapExact == BestOutput(point[1], point[2], point[3])

\* The pair taken from a deposit is the best at the pool's price.
PairFair == PairAtPrice(point[1], point[2], point[3], point[4])

\* No profit from a deposit and its withdrawal.
DepositBack == NoGainWithdrawing(point[5], point[1], point[2], point[3], point[4])

\* The protocol fee comes out of growth only.
FeeFair == FeeWithinGrowth(point[5], point[1], point[2], point[6])

=============================================================================
