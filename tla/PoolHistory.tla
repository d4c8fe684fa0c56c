---------------------------- MODULE PoolHistory ----------------------------
(***************************************************************************)
(* What service/kline computes from the recorded transactions of a pool:   *)
(* the pool state it keeps step by step, the same state rebuilt from the   *)
(* whole history, the protocol fee an account was minted, and the          *)
(* principal of a position had the swaps paid no fee.  Sources: market/    *)
(* position_metrics_snapshot_builder.py, position_metrics_swap_math_       *)
(* support.py, position_metrics_pool_history_reconstructor.py,             *)
(* market/position_metrics_snapshot_principal_simulator.py and             *)
(* market/position_metrics_protocol_fee_ownership_tracker.py.              *)
(*                                                                         *)
(* A recorded transaction is a record with kind, owner, id, in0, out0,     *)
(* in1, out1, liquidity and virtual.  Amounts are attos, tolerances are    *)
(* none, and every transaction is of a block of its own: its time is its   *)
(* id, and no hidden swap can be inferred between two of them.             *)
(***************************************************************************)
EXTENDS AmmMath, Sequences, SequencesExt

Trades == {"BuyToken0", "SellToken0"}
IsTrade(t) == t.kind \in Trades
NoOutput == -1        \* None
NonNegative(n) == IF n < 0 THEN 0 ELSE n

-----------------------------------------------------------------------------
(* The arithmetic of PositionMetricsSwapMathSupport.                       *)

\* sqrt_attos_product: the root of a product, rounded down, lies between
\* its factors.
SqrtProduct(a, b) ==
  CHOOSE r \in SmallerOf(a, b) .. a + b - SmallerOf(a, b) :
    r * r <= a * b /\ a * b < (r + 1) * (r + 1)

\* Mutant: the fee on the growth since nothing.
MintFeeOfAll(supply, r0, r1, kLast) ==
  (supply * SqrtProduct(r0, r1)) \div (5 * SqrtProduct(r0, r1) + kLast + 1)

MintFee(supply, r0, r1, kLast) ==
  LET rootK == SqrtProduct(r0, r1) IN
  IF kLast = 0 \/ rootK <= kLast THEN 0
  ELSE (supply * (rootK - kLast)) \div (rootK * 5 + kLast)

\* The output a swap should have, and the output it would have without the
\* fee.
ExpectedOut(t, r0, r1) ==
  LET buys == t.kind = "BuyToken0"
      paid == (IF buys THEN t.in1 ELSE t.in0) * (FeeBase - PoolFee)
      from == IF buys THEN r1 ELSE r0
      of == IF buys THEN r0 ELSE r1
  IN  IF r0 <= 0 \/ r1 <= 0 \/ paid <= 0 THEN NoOutput
      ELSE (paid * of) \div (from * FeeBase + paid)

FeeFreeOut(t, r0, r1) ==
  LET buys == t.kind = "BuyToken0"
      paid == IF buys THEN t.in1 ELSE t.in0
      from == IF buys THEN r1 ELSE r0
      of == IF buys THEN r0 ELSE r1
  IN  IF r0 <= 0 \/ r1 <= 0 \/ paid <= 0 THEN NoOutput
      ELSE (paid * of) \div (from + paid)

\* The reserves after a swap, from the recorded amounts.
AfterSwap(t, r0, r1) ==
  IF t.kind = "BuyToken0" THEN <<r0 - t.out0, r1 + t.in1>>
  ELSE <<r0 + t.in0, r1 - t.out1>>

-----------------------------------------------------------------------------
(* The state kept step by step: a row of pool_state_v2.  freeBasis is the  *)
(* last change of liquidity, since when free0 and free1 follow the swaps   *)
(* without their fee.                                                      *)

NoPoolState ==
  [r0 |-> 0, r1 |-> 0, supply |-> 0, kLast |-> 0, pending |-> 0, minted |-> 0, swaps |-> 0,
   last |-> 0, freeBasis |-> 0, free0 |-> 0, free1 |-> 0, freeSupply |-> 0]

\* Mutant: the fee-free reserves follow the swap that was made.
FeeFreeFollows(s, t) ==
  LET after == AfterSwap(t, s.free0, s.free1) IN
  [s EXCEPT !.free0 = NonNegative(after[1]), !.free1 = NonNegative(after[2])]

FeeFreeTrade(s, t) ==
  LET out == FeeFreeOut(t, s.free0, s.free1) IN
  IF out = NoOutput THEN s
  ELSE IF t.kind = "BuyToken0"
  THEN [s EXCEPT !.free0 = NonNegative(@ - out), !.free1 = @ + t.in1]
  ELSE [s EXCEPT !.free0 = @ + t.in0, !.free1 = NonNegative(@ - out)]

ApplyTrade(s, t) ==
  LET after == AfterSwap(t, s.r0, s.r1)
      r0 == NonNegative(after[1])
      r1 == NonNegative(after[2])
  IN  [FeeFreeTrade(s, t) EXCEPT
         !.r0 = r0, !.r1 = r1, !.pending = MintFee(s.supply, r0, r1, s.kLast),
         !.swaps = @ + 1, !.last = IF t.id > @ THEN t.id ELSE @]

\* The pending fee is minted with the change of liquidity; the first,
\* virtual, deposit sets the supply by itself.
ApplyLiquidity(s, t) ==
  LET adds == t.kind = "AddLiquidity"
      opens == adds /\ s.r0 = 0 /\ s.r1 = 0 /\ t.virtual
      r0 == IF adds THEN s.r0 + t.in0 ELSE NonNegative(s.r0 - t.out0)
      r1 == IF adds THEN s.r1 + t.in1 ELSE NonNegative(s.r1 - t.out1)
      supply == IF opens THEN SqrtProduct(t.in0, t.in1)
                ELSE s.supply + s.pending + (IF adds THEN t.liquidity ELSE -t.liquidity)
  IN  [s EXCEPT !.r0 = r0, !.r1 = r1, !.supply = supply,
                !.minted = IF opens THEN @ ELSE @ + s.pending,
                !.pending = IF opens THEN @ ELSE 0,
                !.kLast = SqrtProduct(r0, r1), !.last = IF t.id > @ THEN t.id ELSE @,
                !.freeBasis = t.id, !.free0 = r0, !.free1 = r1, !.freeSupply = supply]

ApplyPoolState(s, t) == IF IsTrade(t) THEN ApplyTrade(s, t) ELSE ApplyLiquidity(s, t)

-----------------------------------------------------------------------------
(* The state rebuilt from the history.                                     *)

\* The semantics of the first deposit decide for the pool.
InferVirtual(rows) ==
  \E i \in DOMAIN rows : /\ rows[i].kind = "AddLiquidity" /\ rows[i].virtual
                         /\ \A j \in 1 .. i - 1 : rows[j].kind # "AddLiquidity"

\* _build_pool_state: an opening deposit of a virtual pool counts as
\* virtual whatever its own row says.
BuildPoolState(rows) ==
  LET Opens(s, t) == /\ InferVirtual(rows) /\ t.kind = "AddLiquidity"
                     /\ s.r0 = 0 /\ s.r1 = 0
      Step(s, t) == ApplyPoolState(s, IF Opens(s, t) THEN [t EXCEPT !.virtual = TRUE] ELSE t)
  IN  FoldLeft(Step, NoPoolState, rows)

StateAfter(t, r0, r1, supply, minted) ==
  [id |-> t.id, kind |-> t.kind, owner |-> t.owner, r0 |-> r0, r1 |-> r1, supply |-> supply,
   kLast |-> 0, minted |-> minted]
Origin == [r0 |-> 0, r1 |-> 0, supply |-> 0, kLast |-> 0]
LastState(states) == IF states = <<>> THEN Origin ELSE states[Len(states)]

\* One step of _reconstruct_recorded_pool_state_history: the recorded
\* amounts are taken as they are.
RecordedStep(states, t, virtual) ==
  LET s == LastState(states)
      opens == t.kind = "AddLiquidity" /\ s.r0 = 0 /\ s.r1 = 0 /\ virtual /\ t.liquidity = 0
      minted == IF opens \/ IsTrade(t) THEN 0 ELSE MintFee(s.supply, s.r0, s.r1, s.kLast)
      after == AfterSwap(t, s.r0, s.r1)
      r0 == CASE IsTrade(t) -> NonNegative(after[1])
              [] t.kind = "AddLiquidity" -> s.r0 + t.in0
              [] t.kind = "RemoveLiquidity" -> NonNegative(s.r0 - t.out0)
      r1 == CASE IsTrade(t) -> NonNegative(after[2])
              [] t.kind = "AddLiquidity" -> s.r1 + t.in1
              [] t.kind = "RemoveLiquidity" -> NonNegative(s.r1 - t.out1)
      supply == CASE opens -> SqrtProduct(t.in0, t.in1)
                  [] IsTrade(t) -> s.supply
                  [] ~opens /\ t.kind = "AddLiquidity" -> s.supply + minted + t.liquidity
                  [] t.kind = "RemoveLiquidity" -> NonNegative(s.supply + minted - t.liquidity)
  IN  Append(states, [StateAfter(t, r0, r1, supply, minted) EXCEPT
                        !.kLast = IF IsTrade(t) THEN s.kLast ELSE SqrtProduct(r0, r1)])

RecordedStates(rows) ==
  LET Step(states, t) == RecordedStep(states, t, InferVirtual(rows))
  IN  FoldLeft(Step, <<>>, rows)

\* Why reconstruct gives up at a transaction, if it does: here the recorded
\* amounts are checked against the pool's arithmetic.
Blocker(s, t, virtual) ==
  LET supply == s.supply + MintFee(s.supply, s.r0, s.r1, s.kLast)
      opening == SqrtProduct(t.in0, t.in1)
  IN  CASE IsTrade(t) ->
             IF ExpectedOut(t, s.r0, s.r1) # (IF t.kind = "BuyToken0" THEN t.out0 ELSE t.out1)
             THEN {"pool_history_contains_invalid_swap_amounts"} ELSE {}
        [] t.kind = "AddLiquidity" /\ s.r0 = 0 /\ s.r1 = 0 ->
             IF t.liquidity # opening /\ ~(virtual /\ t.liquidity = 0)
             THEN {"pool_history_bootstrap_supply_unknown"} ELSE {}
        [] t.kind = "AddLiquidity" /\ ~(s.r0 = 0 /\ s.r1 = 0) ->
             IF t.liquidity # SmallerOf((t.in0 * supply) \div s.r0, (t.in1 * supply) \div s.r1)
             THEN {"pool_history_liquidity_mint_mismatch"} ELSE {}
        [] t.kind = "RemoveLiquidity" ->
             IF t.liquidity > supply \/ t.out0 > s.r0 \/ t.out1 > s.r1
             THEN {"pool_history_remove_liquidity_invalid"} ELSE {}

\* reconstruct: the checked states, or the blockers.
Reconstruct(rows) ==
  LET virtual == InferVirtual(rows)
      Step(done, t) ==
        LET s == LastState(done.states) IN
        IF done.blockers # {} THEN done
        ELSE IF Blocker(s, t, virtual) # {}
        THEN [done EXCEPT !.blockers = Blocker(s, t, virtual)]
        ELSE [done EXCEPT !.states =
                RecordedStep(@, IF t.kind = "AddLiquidity" /\ s.r0 = 0 /\ s.r1 = 0
                                THEN [t EXCEPT !.liquidity = SqrtProduct(t.in0, t.in1)] ELSE t,
                             virtual)]
  IN  FoldLeft(Step, [states |-> <<>>, blockers |-> {}], rows)

\* The supply with the fee a change of liquidity would mint now.
EffectiveSupply(s) == s.supply + MintFee(s.supply, s.r0, s.r1, s.kLast)

-----------------------------------------------------------------------------
(* The principal of a position at its basis, carried over the later        *)
(* transactions as if the swaps paid no fee: simulate_current_principal.   *)

NoPrincipal == <<>>
Lost == [r0 |-> 0, r1 |-> 0, supply |-> 0]

SimulateStep(p, t) ==
  LET out == FeeFreeOut(t, p.r0, p.r1)
      shares == SmallerOf((t.in0 * p.supply) \div p.r0, (t.in1 * p.supply) \div p.r1)
      out0 == (t.liquidity * p.r0) \div p.supply
      out1 == (t.liquidity * p.r1) \div p.supply
  IN  IF p = Lost THEN Lost
      ELSE CASE t.kind = "BuyToken0" ->
                  IF out > 0 /\ out < p.r0
                  THEN [p EXCEPT !.r0 = @ - out, !.r1 = @ + t.in1] ELSE Lost
             [] t.kind = "SellToken0" ->
                  IF out > 0 /\ out < p.r1
                  THEN [p EXCEPT !.r0 = @ + t.in0, !.r1 = @ - out] ELSE Lost
             [] t.kind = "AddLiquidity" ->
                  IF t.in0 > 0 /\ t.in1 > 0 /\ shares > 0
                  THEN [r0 |-> p.r0 + t.in0, r1 |-> p.r1 + t.in1, supply |-> p.supply + shares]
                  ELSE Lost
             [] t.kind = "RemoveLiquidity" ->
                  IF /\ t.liquidity > 0 /\ t.liquidity <= p.supply
                     /\ out0 > 0 /\ out0 < p.r0 /\ out1 > 0 /\ out1 < p.r1
                  THEN [r0 |-> p.r0 - out0, r1 |-> p.r1 - out1, supply |-> p.supply - t.liquidity]
                  ELSE Lost

\* basis is the index of the position's last change; opens and
\* tradesBefore describe the round it belongs to.
SimulatePrincipal(rows, states, basis, tracked, opens, tradesBefore) ==
  LET s == states[basis]
      start == [r0 |-> s.r0, r1 |-> s.r1, supply |-> EffectiveSupply(s)]
      end == FoldLeft(SimulateStep, start, SubSeq(rows, basis + 1, Len(rows)))
  IN  CASE rows[basis].kind = "AddLiquidity" /\ ~opens /\ tradesBefore > 0 -> NoPrincipal
        [] ~(rows[basis].kind = "AddLiquidity" /\ ~opens /\ tradesBefore > 0)
           /\ tracked <= 0 -> <<0, 0>>
        [] OTHER ->
             IF start.r0 <= 0 \/ start.r1 <= 0 \/ start.supply <= 0 \/ end = Lost
             THEN NoPrincipal
             ELSE <<(tracked * end.r0) \div end.supply, (tracked * end.r1) \div end.supply>>

-----------------------------------------------------------------------------
(* The protocol fee an account holds, by the minted fees it was the        *)
(* receiver of; what it removes is taken from them first.                  *)

OwnedFees(o, receiver, rows) ==
  LET states == RecordedStates(rows)
      Step(owned, i) ==
        LET held == owned + (IF o = receiver THEN states[i].minted ELSE 0)
            removes == rows[i].kind = "RemoveLiquidity" /\ rows[i].owner = o
        IN  IF removes THEN held - SmallerOf(rows[i].liquidity, held) ELSE held
  IN  FoldLeft(Step, 0, [i \in 1 .. Len(rows) |-> i])

=============================================================================
