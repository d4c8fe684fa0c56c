------------------------ MODULE PositionSnapshotsProofs ------------------------
(***************************************************************************)
(* The snapshots of PositionSnapshots hold what they claim, for every      *)
(* number of owners, amounts, transactions, failures and replays.          *)
(*                                                                         *)
(* Chain       the pool on its chain and the history h of the states its   *)
(*             transactions lead through: each transaction fits the state  *)
(*             it finds, and the snapshot's step and the states recomputed *)
(*             from the amounts follow it;                                 *)
(* PoolSnapshot  which transactions the snapshot of the pool went through; *)
(* Positions   which transactions the snapshot of an owner is made of;     *)
(* Owned       what a run of the owner's transactions, taken from what the *)
(*             owner held, adds up to on the chain;                        *)
(* Bases       the basis of an owner is a state of the pool, and the two   *)
(*             shares to divide by are those of the simulation from it.    *)
(*                                                                         *)
(* The runs of a list of transactions are folds in the model; here they    *)
(* are functions of the number of steps taken, which a proof goes through  *)
(* one step at a time.                                                     *)
(***************************************************************************)
EXTENDS PositionSnapshots, ArithmeticTheorems

Kinds == Trades \cup {"AddLiquidity", "RemoveLiquidity"}

Transaction ==
  [id : Nat, kind : Kinds, owner : Owners, in0 : Nat, out0 : Nat, in1 : Nat, out1 : Nat,
   liquidity : Nat, virtual : BOOLEAN]

PoolState ==
  [r0 : Nat, r1 : Nat, supply : Int, kLast : Nat, pending : Int, minted : Int, swaps : Nat,
   last : Nat, freeBasis : Nat, free0 : Nat, free1 : Nat, freeSupply : Int]

----------------------------------------------------------------------------
(* The service's arithmetic is the contract's.                             *)

\* A root is unique.
LEMMA RootUnique ==
  ASSUME NEW n \in Nat, NEW r \in Nat, r * r <= n, n < (r + 1) * (r + 1)
  PROVE  r = ISqrt(n)
<1> DEFINE q == ISqrt(n)
<1>1. q \in Nat /\ q * q <= n /\ n < (q + 1) * (q + 1)
  BY ISqrtSpec
<1>2. r <= q
  BY RootMonotone
<1> HIDE DEF q
<1>3. ASSUME r < q PROVE FALSE
  <2>1. r + 1 \in Nat /\ r + 1 <= q
    BY <1>1, <1>3
  <2>2. (r + 1) * (r + 1) <= q * q
    BY <1>1, <2>1, SquareMonotone
  <2> QED BY <1>1, <2>2
<1>4. r = q
  BY <1>1, <1>2, <1>3
<1> QED BY <1>4 DEF q

\* sqrt_attos_product finds the root of the product.
LEMMA SqrtProductIs ==
  ASSUME NEW a \in Nat, NEW b \in Nat
  PROVE  SqrtProduct(a, b) = ISqrt(a * b) /\ SqrtProduct(a, b) \in Nat
<1> DEFINE low == SmallerOf(a, b)
           high == a + b - low
           root == ISqrt(a * b)
           Good(r) == r * r <= a * b /\ a * b < (r + 1) * (r + 1)
<1>1. a * b \in Nat /\ root \in Nat /\ Good(root)
  BY ISqrtSpec
<1>2. low \in Nat /\ high \in Nat /\ low <= a /\ low <= b /\ a <= high /\ b <= high
  BY DEF SmallerOf
<1>3. low <= root
  <2>1. low * low <= a * low /\ a * low <= a * b
    <3> HIDE DEF low
    <3>1. low * low <= a * low
      BY <1>2, ProductMonotone
    <3>2. low * a <= b * a
      BY <1>2, ProductMonotone
    <3> QED BY <1>2, <3>1, <3>2
  <2>2. low * low \in Nat /\ a * low \in Nat
    BY <1>2
  <2>3. low * low <= a * b
    BY <1>1, <2>1, <2>2
  <2> HIDE DEF low
  <2> QED BY <1>1, <1>2, <2>3, RootMonotone
<1>4. root <= high
  <2> HIDE DEF low, high, root
  <2> SUFFICES ASSUME high < root PROVE FALSE
    BY <1>1, <1>2
  <2>1. high + 1 \in Nat /\ high + 1 <= root
    BY <1>1, <1>2
  <2>2. (high + 1) * (high + 1) <= root * root
    BY <1>1, <2>1, SquareMonotone
  <2>3. a * b <= high * b
    BY <1>2, ProductMonotone
  <2>4. b * high <= high * high
    BY <1>2, ProductMonotone
  <2>5. (high + 1) * (high + 1) = high * high + 2 * high + 1
    BY <1>2
  <2>6. high * b = b * high /\ high * high \in Nat /\ high * b \in Nat /\ root * root \in Nat
    BY <1>1, <1>2
  <2> QED BY <1>1, <1>2, <2>2, <2>3, <2>4, <2>5, <2>6
<1>5. root \in low .. high
  BY <1>1, <1>2, <1>3, <1>4
<1> DEFINE found == CHOOSE r \in low .. high : Good(r)
<1>6. found \in low .. high /\ Good(found)
  BY <1>1, <1>5
<1>7. found \in Nat
  BY <1>2, <1>6
<1> HIDE DEF low, high, found
<1>8. found = root
  BY <1>1, <1>6, <1>7, RootUnique
<1> QED BY <1>1, <1>8 DEF found, low, high, SqrtProduct

\* _pending_protocol_fee is mint_fee.
LEMMA MintFeeIs ==
  ASSUME NEW supply \in Int, NEW r0 \in Nat, NEW r1 \in Nat, NEW kLast \in Nat
  PROVE  /\ MintFee(supply, r0, r1, kLast) = FeeShare(supply, r0, r1, kLast)
         /\ MintFee(supply, r0, r1, kLast) \in Int
         /\ supply \in Nat => MintFee(supply, r0, r1, kLast) \in Nat
         /\ kLast = ISqrt(r0 * r1) => MintFee(supply, r0, r1, kLast) = 0
<1> DEFINE root == SqrtProduct(r0, r1)
<1>1. root = ISqrt(r0 * r1) /\ root \in Nat
  BY SqrtProductIs
<1> HIDE DEF root
<1>2. MintFee(supply, r0, r1, kLast) =
        IF kLast = 0 \/ root <= kLast THEN 0
        ELSE (supply * (root - kLast)) \div (root * 5 + kLast)
  BY DEF MintFee, root
<1>3. FeeShare(supply, r0, r1, kLast) =
        IF kLast > 0 /\ root > kLast
        THEN (supply * (root - kLast)) \div (root * 5 + kLast) ELSE 0
  BY <1>1 DEF FeeShare
<1>4. MintFee(supply, r0, r1, kLast) = FeeShare(supply, r0, r1, kLast)
  BY <1>1, <1>2, <1>3
<1>5. MintFee(supply, r0, r1, kLast) \in Int
  <2>1. CASE kLast = 0 \/ root <= kLast
    BY <1>2, <2>1
  <2>2. CASE ~(kLast = 0 \/ root <= kLast)
    <3>1. root * 5 + kLast \in Nat \ {0} /\ supply * (root - kLast) \in Int
      BY <1>1, <2>2
    <3> DEFINE d == root * 5 + kLast
               m == supply * (root - kLast)
    <3> HIDE DEF d, m
    <3>2. m \div d \in Int
      BY <3>1 DEF d, m
    <3> QED BY <1>2, <2>2, <3>2 DEF d, m
  <2> QED BY <2>1, <2>2
<1>6. supply \in Nat => MintFee(supply, r0, r1, kLast) \in Nat
  BY <1>4, FeeShareBound
<1>7. kLast = ISqrt(r0 * r1) => MintFee(supply, r0, r1, kLast) = 0
  BY <1>1, <1>2
<1> QED BY <1>4, <1>5, <1>6, <1>7

----------------------------------------------------------------------------
(* A row applied to any state.                                             *)

\* What a trade pays out without the fee is an integer.
LEMMA FeeFreeOutIs ==
  ASSUME NEW t \in Transaction, NEW r0 \in Nat, NEW r1 \in Nat
  PROVE  FeeFreeOut(t, r0, r1) \in Int
<1> DEFINE buys == t.kind = "BuyToken0"
           paid == IF buys THEN t.in1 ELSE t.in0
           from == IF buys THEN r1 ELSE r0
           of == IF buys THEN r0 ELSE r1
           m == paid * of
           d == from + paid
<1>1. paid \in Nat /\ from \in Nat /\ of \in Nat
  BY DEF Transaction
<1>2. FeeFreeOut(t, r0, r1) = IF r0 <= 0 \/ r1 <= 0 \/ paid <= 0 THEN -1 ELSE m \div d
  BY DEF FeeFreeOut, NoOutput
<1>3. CASE r0 <= 0 \/ r1 <= 0 \/ paid <= 0
  BY <1>2, <1>3
<1>4. CASE ~(r0 <= 0 \/ r1 <= 0 \/ paid <= 0)
  <2>1. m \in Nat /\ d \in Nat \ {0}
    BY <1>1, <1>4
  <2> HIDE DEF m, d
  <2>2. m \div d \in Nat
    BY <2>1, DivSpec
  <2> QED BY <1>2, <1>4, <2>2
<1> QED BY <1>3, <1>4

\* A trade moves the reserves without the fee and nothing else of the
\* fee-free part of a state.
LEMMA FeeFreeTradeIs ==
  ASSUME NEW s \in PoolState, NEW t \in Transaction
  PROVE  \E f0 \in Nat, f1 \in Nat :
           FeeFreeTrade(s, t) = [s EXCEPT !.free0 = f0, !.free1 = f1]
<1>1. s.free0 \in Nat /\ s.free1 \in Nat /\ t.in0 \in Nat /\ t.in1 \in Nat
  BY DEF PoolState, Transaction
<1>2. FeeFreeOut(t, s.free0, s.free1) \in Int
  BY <1>1, FeeFreeOutIs
<1> DEFINE out == FeeFreeOut(t, s.free0, s.free1)
<1>3. /\ NonNegative(s.free0 - out) \in Nat /\ NonNegative(s.free1 - out) \in Nat
      /\ s.free0 + t.in0 \in Nat /\ s.free1 + t.in1 \in Nat
  BY <1>1, <1>2 DEF NonNegative
<1> HIDE DEF out
<1>4. s = [s EXCEPT !.free0 = s.free0, !.free1 = s.free1]
  BY DEF PoolState
<1>5. FeeFreeTrade(s, t) =
        IF out = NoOutput THEN s
        ELSE IF t.kind = "BuyToken0"
        THEN [s EXCEPT !.free0 = NonNegative(s.free0 - out), !.free1 = s.free1 + t.in1]
        ELSE [s EXCEPT !.free0 = s.free0 + t.in0, !.free1 = NonNegative(s.free1 - out)]
  BY DEF FeeFreeTrade, out, PoolState
<1>6. CASE out = NoOutput
  BY <1>1, <1>4, <1>5, <1>6
<1>7. CASE out # NoOutput /\ t.kind = "BuyToken0"
  BY <1>3, <1>5, <1>7
<1>8. CASE out # NoOutput /\ t.kind # "BuyToken0"
  BY <1>3, <1>5, <1>8
<1> QED BY <1>6, <1>7, <1>8

\* A state and what a trade makes of it.
LEMMA TradeApplied ==
  ASSUME NEW s \in PoolState, NEW t \in Transaction, IsTrade(t)
  PROVE  LET n == ApplyPoolState(s, t)
             after == AfterSwap(t, s.r0, s.r1)
         IN  /\ n \in PoolState
             /\ n.r0 = NonNegative(after[1]) /\ n.r1 = NonNegative(after[2])
             /\ n.supply = s.supply /\ n.kLast = s.kLast /\ n.minted = s.minted
             /\ n.pending = MintFee(s.supply, n.r0, n.r1, s.kLast)
             /\ n.swaps = s.swaps + 1 /\ n.last = IF t.id > s.last THEN t.id ELSE s.last
             /\ n.freeBasis = s.freeBasis /\ n.freeSupply = s.freeSupply
             /\ n.free0 = FeeFreeTrade(s, t).free0 /\ n.free1 = FeeFreeTrade(s, t).free1
<1> DEFINE after == AfterSwap(t, s.r0, s.r1)
           r0 == NonNegative(after[1])
           r1 == NonNegative(after[2])
           due == MintFee(s.supply, r0, r1, s.kLast)
           at == IF t.id > s.last THEN t.id ELSE s.last
           n == ApplyPoolState(s, t)
<1>1. PICK f0 \in Nat, f1 \in Nat : FeeFreeTrade(s, t) = [s EXCEPT !.free0 = f0, !.free1 = f1]
  BY FeeFreeTradeIs
<1>2. after[1] \in Int /\ after[2] \in Int
  BY DEF AfterSwap, PoolState, Transaction
<1> HIDE DEF after
<1>3. r0 \in Nat /\ r1 \in Nat
  BY <1>2 DEF NonNegative
<1> HIDE DEF r0, r1
<1>4. due \in Int
  BY <1>3, MintFeeIs DEF PoolState
<1> HIDE DEF due
<1>5. at \in Nat
  BY DEF PoolState, Transaction
<1>6. n = [FeeFreeTrade(s, t) EXCEPT !.r0 = r0, !.r1 = r1, !.pending = due,
                                     !.swaps = FeeFreeTrade(s, t).swaps + 1,
                                     !.last = IF t.id > FeeFreeTrade(s, t).last THEN t.id
                                              ELSE FeeFreeTrade(s, t).last]
  BY DEF ApplyPoolState, ApplyTrade, after, r0, r1, due
<1>7. FeeFreeTrade(s, t).swaps = s.swaps /\ FeeFreeTrade(s, t).last = s.last
  BY <1>1 DEF PoolState
<1>8. n = [s EXCEPT !.free0 = f0, !.free1 = f1, !.r0 = r0, !.r1 = r1, !.pending = due,
                    !.swaps = s.swaps + 1, !.last = at]
  BY <1>1, <1>6, <1>7 DEF PoolState
<1> HIDE DEF n, at
<1>9. n \in PoolState
  <2> DEFINE swaps == s.swaps + 1
  <2>1. swaps \in Nat
    BY DEF PoolState
  <2>2. n = [s EXCEPT !.free0 = f0, !.free1 = f1, !.r0 = r0, !.r1 = r1, !.pending = due,
                      !.swaps = swaps, !.last = at]
    BY <1>8
  <2> HIDE DEF swaps
  <2> QED BY <1>3, <1>4, <1>5, <2>1, <2>2 DEF PoolState
<1>10. /\ n.r0 = r0 /\ n.r1 = r1 /\ n.supply = s.supply /\ n.kLast = s.kLast
       /\ n.minted = s.minted /\ n.pending = due /\ n.swaps = s.swaps + 1 /\ n.last = at
       /\ n.freeBasis = s.freeBasis /\ n.freeSupply = s.freeSupply
       /\ n.free0 = f0 /\ n.free1 = f1
  BY <1>8 DEF PoolState
<1>11. FeeFreeTrade(s, t).free0 = f0 /\ FeeFreeTrade(s, t).free1 = f1
  BY <1>1 DEF PoolState
<1> QED BY <1>9, <1>10, <1>11 DEF n, at, due, r0, r1, after

\* The reserves after a change of liquidity.
AfterLiquidity(t, r0, r1) ==
  IF t.kind = "AddLiquidity" THEN <<r0 + t.in0, r1 + t.in1>>
  ELSE <<NonNegative(r0 - t.out0), NonNegative(r1 - t.out1)>>

Opens(s, t) == t.kind = "AddLiquidity" /\ s.r0 = 0 /\ s.r1 = 0 /\ t.virtual

\* A state and what a change of liquidity makes of it.
LEMMA LiquidityApplied ==
  ASSUME NEW s \in PoolState, NEW t \in Transaction, ~IsTrade(t)
  PROVE  LET n == ApplyPoolState(s, t)
             after == AfterLiquidity(t, s.r0, s.r1)
         IN  /\ n \in PoolState
             /\ n.r0 = after[1] /\ n.r1 = after[2]
             /\ n.supply = IF Opens(s, t) THEN SqrtProduct(t.in0, t.in1)
                           ELSE s.supply + s.pending
                                + (IF t.kind = "AddLiquidity" THEN t.liquidity ELSE -t.liquidity)
             /\ n.minted = IF Opens(s, t) THEN s.minted ELSE s.minted + s.pending
             /\ n.pending = IF Opens(s, t) THEN s.pending ELSE 0
             /\ n.kLast = SqrtProduct(n.r0, n.r1)
             /\ n.swaps = s.swaps /\ n.last = IF t.id > s.last THEN t.id ELSE s.last
             /\ n.freeBasis = t.id /\ n.free0 = n.r0 /\ n.free1 = n.r1 /\ n.freeSupply = n.supply
<1> DEFINE after == AfterLiquidity(t, s.r0, s.r1)
           r0 == after[1]
           r1 == after[2]
           supply == IF Opens(s, t) THEN SqrtProduct(t.in0, t.in1)
                     ELSE s.supply + s.pending
                          + (IF t.kind = "AddLiquidity" THEN t.liquidity ELSE -t.liquidity)
           minted == IF Opens(s, t) THEN s.minted ELSE s.minted + s.pending
           pending == IF Opens(s, t) THEN s.pending ELSE 0
           kLast == SqrtProduct(r0, r1)
           at == IF t.id > s.last THEN t.id ELSE s.last
           n == ApplyPoolState(s, t)
<1>1. r0 \in Nat /\ r1 \in Nat
  BY DEF AfterLiquidity, NonNegative, PoolState, Transaction
<1>2. /\ r0 = IF t.kind = "AddLiquidity" THEN s.r0 + t.in0 ELSE NonNegative(s.r0 - t.out0)
      /\ r1 = IF t.kind = "AddLiquidity" THEN s.r1 + t.in1 ELSE NonNegative(s.r1 - t.out1)
  BY DEF AfterLiquidity
<1> HIDE DEF after
<1>3. SqrtProduct(t.in0, t.in1) \in Int
  BY SqrtProductIs DEF Transaction
<1>4. supply \in Int
  BY <1>3 DEF PoolState, Transaction
<1>5. minted \in Int /\ pending \in Int /\ at \in Nat
  BY DEF PoolState, Transaction
<1>6. kLast \in Nat
  BY <1>1, SqrtProductIs
<1>7. n = [s EXCEPT !.r0 = r0, !.r1 = r1, !.supply = supply, !.minted = minted,
                    !.pending = pending, !.kLast = kLast, !.last = at,
                    !.freeBasis = t.id, !.free0 = r0, !.free1 = r1, !.freeSupply = supply]
  <2>1. n = ApplyLiquidity(s, t)
    BY DEF ApplyPoolState
  <2> HIDE DEF n
  <2> QED BY <2>1, <1>2 DEF ApplyLiquidity, Opens, PoolState
<1> HIDE DEF n, r0, r1, supply, minted, pending, kLast, at
<1>8. n \in PoolState
  BY <1>1, <1>4, <1>5, <1>6, <1>7 DEF PoolState, Transaction
<1>9. /\ n.r0 = r0 /\ n.r1 = r1 /\ n.supply = supply /\ n.kLast = kLast
      /\ n.minted = minted /\ n.pending = pending /\ n.swaps = s.swaps /\ n.last = at
      /\ n.freeBasis = t.id /\ n.freeSupply = supply /\ n.free0 = r0 /\ n.free1 = r1
  BY <1>7 DEF PoolState
<1> QED BY <1>8, <1>9 DEF n, r0, r1, supply, minted, pending, kLast, at, after

\* A row leads from a state of the pool to a state of the pool, whatever the
\* row, and a trade counts as a swap.
LEMMA ApplyTyped ==
  ASSUME NEW s \in PoolState, NEW t \in Transaction
  PROVE  /\ ApplyPoolState(s, t) \in PoolState /\ StepPool(s, t) \in PoolState
         /\ ApplyPoolState(s, t).last = IF t.id > s.last THEN t.id ELSE s.last
         /\ ApplyPoolState(s, t).swaps = IF IsTrade(t) THEN s.swaps + 1 ELSE s.swaps
<1>1. CASE IsTrade(t)
  BY <1>1, TradeApplied DEF StepPool
<1>2. CASE ~IsTrade(t)
  BY <1>2, LiquidityApplied DEF StepPool
<1> QED BY <1>1, <1>2

----------------------------------------------------------------------------
(* The pool's history.                                                     *)

\* A state the pool can be in.
Sound(s) ==
  /\ s \in PoolState /\ s.supply \in Nat
  /\ s.r0 = 0 <=> s.supply = 0
  /\ s.r1 = 0 <=> s.supply = 0
  /\ s.pending = FeeShare(s.supply, s.r0, s.r1, s.kLast)

\* The rows the pool can announce in a state.
TradeFits(s, t) ==
  /\ IsTrade(t) /\ s.r0 > 0 /\ s.r1 > 0
  /\ t.kind = "BuyToken0" => t.out0 > 0 /\ t.out0 = AmountOut(s.r1, s.r0, t.in1)
  /\ t.kind = "SellToken0" => t.out1 > 0 /\ t.out1 = AmountOut(s.r0, s.r1, t.in0)

AddFits(s, t) ==
  /\ t.kind = "AddLiquidity"
  /\ t.liquidity > 0 /\ t.liquidity = SharesFor(s.supply + s.pending, s.r0, s.r1, t.in0, t.in1)

RemoveFits(s, t) ==
  /\ t.kind = "RemoveLiquidity"
  /\ t.liquidity > 0 /\ t.liquidity <= s.supply + s.pending
  /\ t.out0 > 0 /\ t.out0 = PayoutFor(t.liquidity, s.supply + s.pending, s.r0)
  /\ t.out1 > 0 /\ t.out1 = PayoutFor(t.liquidity, s.supply + s.pending, s.r1)

Fits(s, t) == TradeFits(s, t) \/ AddFits(s, t) \/ RemoveFits(s, t)

\* A swap pays less than the reserve, and only for something.
LEMMA OutputBelow ==
  ASSUME NEW from \in Nat \ {0}, NEW of \in Nat \ {0}, NEW amount \in Nat
  PROVE  /\ AmountOut(from, of, amount) \in Nat /\ AmountOut(from, of, amount) < of
         /\ AmountOut(from, of, amount) > 0 => amount * (FeeBase - PoolFee) > 0
<1> DEFINE paid == amount * (FeeBase - PoolFee)
           d == from * FeeBase + paid
           m == paid * of
           q == m \div d
<1>1. paid \in Nat
  BY FeeAssumption
<1>2. from * FeeBase \in Nat \ {0}
  BY FeeAssumption
<1> HIDE DEF paid
<1>3. d \in Nat \ {0} /\ m \in Nat /\ paid < d
  BY <1>1, <1>2
<1>4. AmountOut(from, of, amount) = q
  BY DEF AmountOut, paid
<1> HIDE DEF q
<1>5. q \in Nat /\ q * d <= m
  <2> HIDE DEF m, d
  <2> QED BY <1>3, DivSpec DEF q
<1>6. ASSUME of <= q PROVE FALSE
  <2>1. of * d <= q * d
    <3> HIDE DEF d
    <3> QED BY <1>3, <1>5, <1>6, ProductMonotone
  <2>2. of * d = d * of /\ of * d \in Nat /\ q * d \in Nat
    BY <1>3, <1>5
  <2>3. paid * of < d * of
    <3> HIDE DEF d
    <3>1. (paid + 1) * of <= d * of
      BY <1>1, <1>3, ProductMonotone
    <3>2. (paid + 1) * of = paid * of + of
      BY <1>1
    <3> QED BY <1>1, <1>3, <3>1, <3>2
  <2> HIDE DEF d
  <2> QED BY <1>3, <1>5, <2>1, <2>2, <2>3
<1>7. q > 0 => paid > 0
  <2> SUFFICES ASSUME paid = 0 PROVE q = 0
    BY <1>1, <1>5
  <2>1. m = 0
    OBVIOUS
  <2> HIDE DEF m, d
  <2>2. 0 \div d = 0
    BY <1>3
  <2> QED BY <2>1, <2>2 DEF q
<1> QED BY <1>4, <1>5, <1>6, <1>7 DEF paid

\* In a sound state the fee that is due is the fee the contract would mint.
LEMMA DueIs ==
  ASSUME NEW s, Sound(s)
  PROVE  /\ s.pending \in Nat
         /\ s.supply = 0 => s.pending = 0
         /\ s.pending = MintFee(s.supply, s.r0, s.r1, s.kLast)
<1>1. s.supply \in Nat /\ s.r0 \in Nat /\ s.r1 \in Nat /\ s.kLast \in Nat
  BY DEF Sound, PoolState
<1>2. /\ FeeShare(s.supply, s.r0, s.r1, s.kLast) \in Nat
      /\ s.supply = 0 => FeeShare(s.supply, s.r0, s.r1, s.kLast) = 0
  BY <1>1, FeeShareBound
<1>3. MintFee(s.supply, s.r0, s.r1, s.kLast) = FeeShare(s.supply, s.r0, s.r1, s.kLast)
  <2>1. s.supply \in Int
    BY <1>1
  <2> QED BY ONLY <1>1, <2>1, MintFeeIs, ZenonT(40)
<1> QED BY <1>2, <1>3 DEF Sound

\* A trade that fits keeps a state sound, leaves supply and k alone and
\* leaves both reserves above zero.
LEMMA TradeStep ==
  ASSUME NEW s, Sound(s), NEW t \in Transaction, TradeFits(s, t)
  PROVE  LET n == ApplyPoolState(s, t) IN
         /\ Sound(n) /\ n.supply = s.supply /\ n.kLast = s.kLast
         /\ n.r0 = AfterSwap(t, s.r0, s.r1)[1] /\ n.r1 = AfterSwap(t, s.r0, s.r1)[2]
         /\ n.r0 > 0 /\ n.r1 > 0
<1> DEFINE n == ApplyPoolState(s, t)
           after == AfterSwap(t, s.r0, s.r1)
<1>1. s \in PoolState /\ s.r0 \in Nat \ {0} /\ s.r1 \in Nat \ {0} /\ t.in0 \in Nat /\ t.in1 \in Nat
  BY DEF Sound, PoolState, Transaction, TradeFits
<1>2. after[1] \in Nat \ {0} /\ after[2] \in Nat \ {0}
  <2>1. CASE t.kind = "BuyToken0"
    <3>1. t.out0 \in Nat /\ t.out0 < s.r0
      BY <1>1, <2>1, OutputBelow DEF TradeFits
    <3> QED BY <1>1, <2>1, <3>1 DEF AfterSwap
  <2>2. CASE t.kind = "SellToken0"
    <3>1. t.out1 \in Nat /\ t.out1 < s.r1
      BY <1>1, <2>2, OutputBelow DEF TradeFits
    <3> QED BY <1>1, <2>2, <3>1 DEF AfterSwap
  <2> QED BY <2>1, <2>2 DEF TradeFits, IsTrade, Trades
<1>3. /\ n \in PoolState
      /\ n.r0 = NonNegative(after[1]) /\ n.r1 = NonNegative(after[2])
      /\ n.supply = s.supply /\ n.kLast = s.kLast
      /\ n.pending = MintFee(s.supply, n.r0, n.r1, s.kLast)
  BY <1>1, TradeApplied DEF TradeFits
<1> HIDE DEF n, after
<1>4. n.r0 = after[1] /\ n.r1 = after[2]
  BY <1>2, <1>3 DEF NonNegative
<1>5. s.supply \in Nat /\ s.kLast \in Nat /\ s.supply # 0
  BY <1>1 DEF Sound, PoolState
<1>6. n.pending = FeeShare(n.supply, n.r0, n.r1, n.kLast)
  <2>1. s.supply \in Int /\ n.r0 \in Nat /\ n.r1 \in Nat
    BY <1>2, <1>4, <1>5
  <2>2. MintFee(s.supply, n.r0, n.r1, s.kLast) = FeeShare(s.supply, n.r0, n.r1, s.kLast)
    BY ONLY <1>5, <2>1, MintFeeIs, ZenonT(40)
  <2> QED BY <1>3, <2>2
<1>7. Sound(n)
  BY <1>2, <1>3, <1>4, <1>5, <1>6 DEF Sound
<1> QED BY <1>2, <1>3, <1>4, <1>7 DEF n, after

\* What a change of liquidity leaves owes no fee.
LEMMA NothingDue ==
  ASSUME NEW supply \in Nat, NEW r0 \in Nat, NEW r1 \in Nat
  PROVE  FeeShare(supply, r0, r1, ISqrt(r0 * r1)) = 0
<1>1. r0 * r1 \in Nat
  OBVIOUS
<1>2. ISqrt(r0 * r1) \in Nat
  BY <1>1, ISqrtSpec
<1> QED BY <1>2, MintFeeIs

\* An addition that fits keeps a state sound, mints the fee with the shares
\* of the owner and starts the next fee from the new reserves.
LEMMA AddStep ==
  ASSUME NEW s, Sound(s), NEW t \in Transaction, AddFits(s, t)
  PROVE  LET n == ApplyPoolState(s, t) IN
         /\ Sound(n) /\ n.supply = s.supply + s.pending + t.liquidity /\ n.pending = 0
         /\ n.r0 = s.r0 + t.in0 /\ n.r1 = s.r1 + t.in1
         /\ n.kLast = ISqrt(n.r0 * n.r1)
         /\ t.in0 > 0 /\ t.in1 > 0 /\ n.r0 > 0 /\ n.r1 > 0
<1> DEFINE n == ApplyPoolState(s, t)
           after == AfterLiquidity(t, s.r0, s.r1)
<1>1. /\ s \in PoolState /\ s.r0 \in Nat /\ s.r1 \in Nat /\ t.in0 \in Nat /\ t.in1 \in Nat
      /\ s.supply \in Nat /\ s.pending \in Nat /\ t.liquidity \in Nat /\ ~IsTrade(t)
      /\ t.kind = "AddLiquidity" /\ t.liquidity > 0
  BY DueIs DEF Sound, PoolState, Transaction, AddFits, IsTrade, Trades
<1>2. /\ n.supply = s.supply + s.pending + t.liquidity /\ n.pending = 0
      /\ t.in0 > 0 /\ t.in1 > 0
  <2>1. CASE s.supply = 0
    <3>1. s.r0 = 0 /\ s.r1 = 0 /\ s.pending = 0
      BY <2>1, DueIs DEF Sound
    <3>2. t.liquidity = ISqrt(t.in0 * t.in1)
      BY <1>1, <2>1, <3>1 DEF AddFits, SharesFor
    <3>3. t.in0 > 0 /\ t.in1 > 0
      <4> SUFFICES ASSUME t.in0 = 0 \/ t.in1 = 0 PROVE FALSE
        BY <1>1
      <4>1. t.in0 * t.in1 = 0
        BY <1>1
      <4>2. ISqrt(0) = 0
        BY ISqrtSpec
      <4> QED BY <1>1, <3>2, <4>1, <4>2
    <3>4. SqrtProduct(t.in0, t.in1) = t.liquidity
      BY <1>1, <3>2, SqrtProductIs
    <3>5. /\ n.supply = IF Opens(s, t) THEN SqrtProduct(t.in0, t.in1)
                        ELSE s.supply + s.pending + t.liquidity
          /\ n.pending = IF Opens(s, t) THEN s.pending ELSE 0
      BY <1>1, LiquidityApplied
    <3> HIDE DEF n
    <3>6. n.supply = s.supply + s.pending + t.liquidity /\ n.pending = 0
      BY <1>1, <2>1, <3>1, <3>4, <3>5
    <3> QED BY <3>3, <3>6
  <2>2. CASE s.supply # 0
    <3>1. s.r0 \in Nat \ {0} /\ s.r1 \in Nat \ {0} /\ s.supply + s.pending \in Nat \ {0}
      BY <1>1, <2>2 DEF Sound
    <3>2. /\ t.liquidity * s.r0 <= t.in0 * (s.supply + s.pending)
          /\ t.liquidity * s.r1 <= t.in1 * (s.supply + s.pending)
      BY <1>1, <3>1, SharesBound DEF AddFits
    <3>3. t.liquidity * s.r0 > 0 /\ t.liquidity * s.r1 > 0
      BY <1>1, <3>1
    <3>4. t.in0 > 0 /\ t.in1 > 0
      <4>1. ASSUME t.in0 = 0 PROVE FALSE
        BY <1>1, <3>1, <3>2, <3>3, <4>1
      <4>2. ASSUME t.in1 = 0 PROVE FALSE
        BY <1>1, <3>1, <3>2, <3>3, <4>2
      <4> QED BY <1>1, <4>1, <4>2
    <3>5. /\ n.supply = IF Opens(s, t) THEN SqrtProduct(t.in0, t.in1)
                        ELSE s.supply + s.pending + t.liquidity
          /\ n.pending = IF Opens(s, t) THEN s.pending ELSE 0
      BY <1>1, LiquidityApplied
    <3> HIDE DEF n
    <3>6. n.supply = s.supply + s.pending + t.liquidity /\ n.pending = 0
      BY <3>1, <3>5 DEF Opens
    <3> QED BY <3>4, <3>6
  <2> QED BY <2>1, <2>2
<1>5. /\ n \in PoolState /\ n.r0 = s.r0 + t.in0 /\ n.r1 = s.r1 + t.in1
      /\ n.kLast = SqrtProduct(n.r0, n.r1)
  BY <1>1, LiquidityApplied DEF AfterLiquidity
<1> HIDE DEF n
<1>6. n.r0 \in Nat /\ n.r1 \in Nat /\ n.r0 > 0 /\ n.r1 > 0 /\ n.supply \in Nat /\ n.supply > 0
  BY <1>1, <1>2, <1>5
<1>7. n.kLast = ISqrt(n.r0 * n.r1)
  <2>1. SqrtProduct(n.r0, n.r1) = ISqrt(n.r0 * n.r1)
    BY ONLY <1>6, SqrtProductIs
  <2> QED BY <1>5, <2>1
<1>8. n.pending = FeeShare(n.supply, n.r0, n.r1, n.kLast)
  <2>1. FeeShare(n.supply, n.r0, n.r1, ISqrt(n.r0 * n.r1)) = 0
    BY ONLY <1>6, NothingDue
  <2> QED BY <1>2, <1>7, <2>1
<1>9. Sound(n)
  BY <1>5, <1>6, <1>8 DEF Sound
<1> QED BY <1>2, <1>5, <1>6, <1>7, <1>9 DEF n

\* A removal that fits keeps a state sound, mints the fee before it burns
\* and starts the next fee from the new reserves.
LEMMA RemoveStep ==
  ASSUME NEW s, Sound(s), NEW t \in Transaction, RemoveFits(s, t)
  PROVE  LET n == ApplyPoolState(s, t) IN
         /\ Sound(n) /\ n.supply = s.supply + s.pending - t.liquidity /\ n.pending = 0
         /\ n.r0 = s.r0 - t.out0 /\ n.r1 = s.r1 - t.out1
         /\ n.kLast = ISqrt(n.r0 * n.r1)
         /\ s.r0 > 0 /\ s.r1 > 0 /\ t.out0 <= s.r0 /\ t.out1 <= s.r1
<1> DEFINE n == ApplyPoolState(s, t)
           supply == s.supply + s.pending
<1>1. /\ s \in PoolState /\ s.r0 \in Nat /\ s.r1 \in Nat /\ t.out0 \in Nat /\ t.out1 \in Nat
      /\ s.supply \in Nat /\ s.pending \in Nat /\ t.liquidity \in Nat /\ ~IsTrade(t)
      /\ t.kind = "RemoveLiquidity" /\ t.liquidity > 0
  BY DueIs DEF Sound, PoolState, Transaction, RemoveFits, IsTrade, Trades
<1>2. supply \in Nat \ {0} /\ t.liquidity \in 0 .. supply /\ s.supply # 0 /\ s.r0 > 0 /\ s.r1 > 0
  <2>1. supply \in Nat \ {0} /\ t.liquidity \in 0 .. supply
    BY <1>1 DEF RemoveFits
  <2>2. s.supply # 0
    BY <1>1, <2>1, DueIs
  <2> QED BY <1>1, <2>1, <2>2 DEF Sound
<1>3. /\ t.out0 \in 0 .. s.r0 /\ t.out1 \in 0 .. s.r1
      /\ t.liquidity = supply => t.out0 = s.r0 /\ t.out1 = s.r1
      /\ t.liquidity < supply => t.out0 < s.r0 /\ t.out1 < s.r1
  <2> DEFINE out0 == PayoutFor(t.liquidity, supply, s.r0)
             out1 == PayoutFor(t.liquidity, supply, s.r1)
  <2>1. t.out0 = out0 /\ t.out1 = out1
    BY DEF RemoveFits
  <2>2. /\ out0 \in 0 .. s.r0
        /\ t.liquidity = supply => out0 = s.r0
        /\ t.liquidity < supply /\ s.r0 > 0 => out0 < s.r0
    <3> HIDE DEF supply
    <3> QED BY <1>1, <1>2, PayoutBound
  <2>3. /\ out1 \in 0 .. s.r1
        /\ t.liquidity = supply => out1 = s.r1
        /\ t.liquidity < supply /\ s.r1 > 0 => out1 < s.r1
    <3> HIDE DEF supply
    <3> QED BY <1>1, <1>2, PayoutBound
  <2> HIDE DEF out0, out1, supply
  <2> QED BY <1>2, <2>1, <2>2, <2>3
<1>4. /\ n \in PoolState /\ n.r0 = NonNegative(s.r0 - t.out0) /\ n.r1 = NonNegative(s.r1 - t.out1)
      /\ n.kLast = SqrtProduct(n.r0, n.r1) /\ n.pending = 0
      /\ n.supply = supply + (-t.liquidity)
  BY <1>1, LiquidityApplied DEF AfterLiquidity, Opens
<1> HIDE DEF n
<1>5. n.supply = supply - t.liquidity /\ n.r0 = s.r0 - t.out0 /\ n.r1 = s.r1 - t.out1
  BY <1>1, <1>2, <1>3, <1>4 DEF NonNegative
<1>6. n.r0 \in Nat /\ n.r1 \in Nat /\ n.supply \in Nat
  BY <1>1, <1>2, <1>3, <1>5
<1>7. (n.r0 = 0 <=> n.supply = 0) /\ (n.r1 = 0 <=> n.supply = 0)
  BY <1>1, <1>2, <1>3, <1>5
<1>8. n.kLast = ISqrt(n.r0 * n.r1)
  <2>1. SqrtProduct(n.r0, n.r1) = ISqrt(n.r0 * n.r1)
    BY ONLY <1>6, SqrtProductIs
  <2> QED BY <1>4, <2>1
<1>9. n.pending = FeeShare(n.supply, n.r0, n.r1, n.kLast)
  <2>1. FeeShare(n.supply, n.r0, n.r1, ISqrt(n.r0 * n.r1)) = 0
    BY ONLY <1>6, NothingDue
  <2> QED BY <1>4, <1>8, <2>1
<1>10. Sound(n)
  BY <1>4, <1>6, <1>7, <1>9 DEF Sound
<1>11. t.out0 <= s.r0 /\ t.out1 <= s.r1
  BY <1>1, <1>3
<1>12. s.r0 > 0 /\ s.r1 > 0 /\ n.pending = 0 /\ n.supply = s.supply + s.pending - t.liquidity
  BY <1>1, <1>2, <1>4, <1>5
<1> HIDE DEF supply
<1>13. /\ n.r0 = s.r0 - t.out0 /\ n.r1 = s.r1 - t.out1
  BY <1>5
<1> QED BY <1>8, <1>10, <1>11, <1>12, <1>13 DEF n

\* Every row the pool can announce leads from a state it can be in to another.
LEMMA SoundStep ==
  ASSUME NEW s, Sound(s), NEW t \in Transaction, Fits(s, t)
  PROVE  Sound(ApplyPoolState(s, t))
<1>1. CASE TradeFits(s, t)
  BY <1>1, TradeStep
<1>2. CASE AddFits(s, t)
  BY <1>2, AddStep
<1>3. CASE RemoveFits(s, t)
  BY <1>3, RemoveStep
<1> QED BY <1>1, <1>2, <1>3 DEF Fits

\* What the pool has announced: numbered, its opening first.
Announced(list) ==
  /\ list \in Seq(Transaction) /\ Len(list) > 0 /\ list[1].kind = "AddLiquidity"
  /\ \A k \in 1 .. Len(list) : list[k].id = k /\ (list[k].virtual => k = 1)

\* The states of the pool, from before its opening to now.
History(h, list) ==
  /\ h \in [0 .. Len(list) -> PoolState] /\ h[0] = NoPoolState
  /\ \A k \in 1 .. Len(list) : Fits(h[k - 1], list[k]) /\ h[k] = ApplyPoolState(h[k - 1], list[k])

\* A pool nobody has opened is sound.
LEMMA NothingSound == Sound(NoPoolState)
<1>1. NoPoolState \in PoolState
  BY DEF NoPoolState, PoolState
<1>2. FeeShare(0, 0, 0, 0) = 0
  BY FeeShareBound
<1> QED BY <1>1, <1>2 DEF Sound, NoPoolState

\* Every state of a history is sound, and its last row is the one it is
\* the state after.
LEMMA HistorySound ==
  ASSUME NEW list, Announced(list), NEW h, History(h, list)
  PROVE  \A k \in 0 .. Len(list) : Sound(h[k]) /\ h[k].last = k
<1> DEFINE n == Len(list)
           T == {k \in 0 .. n : Sound(h[k]) /\ h[k].last = k}
<1>1. n \in Nat
  BY DEF Announced
<1>2. 0 \in T
  BY <1>1, NothingSound DEF History, NoPoolState
<1>3. ASSUME NEW k \in 1 .. n, k - 1 \in T PROVE k \in T
  <2>1. list[k] \in Transaction /\ list[k].id = k
    BY <1>1 DEF Announced
  <2>2. /\ Sound(h[k - 1]) /\ h[k - 1].last = k - 1 /\ Fits(h[k - 1], list[k])
        /\ h[k] = ApplyPoolState(h[k - 1], list[k])
    BY <1>3 DEF History
  <2>3. Sound(h[k])
    BY <2>1, <2>2, SoundStep
  <2>4. h[k].last = k
    <3>1. h[k - 1] \in PoolState
      BY <2>2 DEF Sound
    <3> QED BY <1>1, <2>1, <2>2, <3>1, ApplyTyped
  <2> QED BY <2>3, <2>4
<1>4. \A k \in 0 .. n : k \in T
  <2> HIDE DEF T, n
  <2> QED BY <1>1, <1>2, <1>3, IndexInduction
<1> QED BY <1>4

----------------------------------------------------------------------------
(* The pool snapshot of a batch.                                           *)

PoolRun(h, base, list, ids) ==
  /\ h \in [0 .. Len(list) -> PoolState] /\ h[0] = base
  /\ \A k \in 1 .. Len(list) :
       h[k] = IF list[k].id \in ids THEN StepPool(h[k - 1], list[k]) ELSE h[k - 1]

\* The fold of StepPool is the last state of a run.
LEMMA PoolThrough ==
  ASSUME NEW list \in Seq(Transaction), NEW from \in PoolState, NEW ids
  PROVE  \E h : PoolRun(h, from, list, ids) /\ Through(StepPool, from, list, ids) = h[Len(list)]
<1> DEFINE n == Len(list)
           base == from
           D == PoolState
           Then(s, k) == IF list[k].id \in ids THEN StepPool(s, list[k]) ELSE s
           Rec(f) == f = [s \in SUBSET DOMAIN list |->
                            IF s = {} THEN base ELSE Then(f[s \ {Max(s)}], Max(s))]
           f == CHOOSE f : Rec(f)
           F == [p \in (1 .. n) \X D |-> Then(p[2], p[1])]
<1>1. DOMAIN list = 1 .. n /\ n \in Nat
  OBVIOUS
<1>2. \A s : Max(s) = Greatest(s)
  BY DEF Max, Greatest
<1>3. Through(StepPool, from, list, ids) = f[1 .. n]
  BY <1>1 DEF Through, FoldLeft, MapThenFoldSet
<1>4. base \in D
  OBVIOUS
<1>5. \A k \in 1 .. n, s \in D : Then(s, k) \in D
  BY <1>1, ApplyTyped
<1>6. F \in [(1 .. n) \X D -> D]
  <2> HIDE DEF Then, D, n
  <2> QED BY <1>5
<1> HIDE DEF n, base, D, Then
<1>7. Rec(f)
  <2>1. PICK g : FoldsLeft(g, n, D, base, F)
    <3> HIDE DEF F
    <3> QED BY <1>1, <1>4, <1>6, LeftFold
  <2>2. \A s \in SUBSET (1 .. n) :
          g[s] = IF s = {} THEN base ELSE Then(g[s \ {Greatest(s)}], Greatest(s))
    BY <2>1 DEF FoldsLeft
  <2>3. Rec(g)
    BY <2>1, <2>2, <1>1, <1>2 DEF FoldsLeft
  <2> HIDE DEF Rec
  <2> QED BY <2>3, Zenon
<1> HIDE DEF f
<1> HIDE DEF F
<1> DEFINE h == [k \in 0 .. n |-> f[1 .. k]]
           T == {k \in 0 .. n : h[k] \in D}
<1>8. ASSUME NEW k \in 1 .. n PROVE h[k] = Then(h[k - 1], k)
  <2>1. /\ 1 .. k \in SUBSET (1 .. n) /\ 1 .. k # {} /\ Greatest(1 .. k) = k
        /\ (1 .. k) \ {k} = 1 .. k - 1 /\ k - 1 \in 0 .. n
    BY <1>1, PrefixStep
  <2>2. f[1 .. k] = Then(f[1 .. k - 1], k)
    BY <1>1, <1>2, <1>7, <2>1
  <2> QED BY <2>1, <2>2
<1>9. h[0] = base /\ h[n] = f[1 .. n]
  <2>1. 1 .. 0 = {} /\ 1 .. 0 \in SUBSET (1 .. n)
    BY <1>1
  <2>2. f[1 .. 0] = base
    BY <1>1, <1>7, <2>1
  <2> QED BY <1>1, <2>2
<1> HIDE DEF h, f, Rec
<1>10. \A k \in 0 .. n : k \in T
  <2>1. 0 \in T
    BY <1>1, <1>4, <1>9
  <2>2. \A k \in 1 .. n : k - 1 \in T => k \in T
    BY <1>5, <1>8
  <2> HIDE DEF T
  <2> QED BY <1>1, <2>1, <2>2, IndexInduction
<1>11. h \in [0 .. n -> D]
  BY <1>10 DEF h
<1>12. PoolRun(h, from, list, ids)
  BY <1>8, <1>9, <1>11 DEF PoolRun, Then, n, D, base
<1> QED BY <1>3, <1>9, <1>12 DEF n

\* A batch leaves the snapshot at its last row, if it was not beyond it,
\* and counts the swaps the snapshot did not have.  A snapshot of the
\* pool's state at a row that the batch does not leave out becomes the one
\* of its state at the last.
LEMMA BatchApplied ==
  ASSUME NEW list, Announced(list), NEW base \in PoolState, NEW a \in 0 .. Len(list) - 1,
         base.last <= Len(list)
  PROVE  LET new == Through(StepPool, base, list, a + 1 .. Len(list)) IN
         /\ new \in PoolState /\ new.last = Len(list)
         /\ new.swaps = base.swaps
              + Cardinality({i \in a + 1 .. Len(list) : i > base.last /\ IsTrade(list[i])})
         /\ \A H : History(H, list) /\ a <= base.last /\ base = H[base.last]
                     => new = H[Len(list)]
<1> DEFINE n == Len(list)
           L == base.last
           U(k) == {i \in a + 1 .. k : i > L /\ IsTrade(list[i])}
<1>1. /\ n \in Nat /\ list \in Seq(Transaction) /\ L \in Nat /\ L <= n /\ a \in Nat /\ a < n
      /\ base.swaps \in Nat
      /\ \A k \in 1 .. n : list[k] \in Transaction /\ list[k].id = k
  <2>1. L \in Nat /\ base.swaps \in Nat
    BY DEF PoolState
  <2>2. n \in Nat /\ list \in Seq(Transaction) /\ \A k \in 1 .. n : list[k].id = k
    BY DEF Announced
  <2>3. \A k \in 1 .. n : list[k] \in Transaction
    BY <2>2
  <2> QED BY <2>1, <2>2, <2>3
<1>2. PICK h : /\ PoolRun(h, base, list, a + 1 .. n)
               /\ Through(StepPool, base, list, a + 1 .. n) = h[n]
  BY <1>1, PoolThrough
<1> HIDE DEF n, L
<1>3. /\ h \in [0 .. n -> PoolState] /\ h[0] = base
      /\ \A k \in 1 .. n : h[k] = IF k > a THEN StepPool(h[k - 1], list[k]) ELSE h[k - 1]
  BY <1>1, <1>2 DEF PoolRun, n
<1> DEFINE Good(k) == /\ h[k].last = IF k > a /\ k > L THEN k ELSE L
                      /\ h[k].swaps = base.swaps + Cardinality(U(k))
           T == {k \in 0 .. n : Good(k)}
<1>4. 0 \in T
  <2>1. U(0) = {} /\ Cardinality({}) = 0
    BY <1>1, FS_EmptySet
  <2>2. h[0] = base /\ base.last = L /\ base.swaps + 0 = base.swaps /\ ~(0 > a /\ 0 > L)
    BY <1>1, <1>3 DEF L
  <2>3. Good(0)
    <3> HIDE DEF U
    <3> QED BY <2>1, <2>2
  <2> HIDE DEF Good
  <2> QED BY <1>1, <2>3
<1>5. ASSUME NEW k \in 1 .. n, k - 1 \in T PROVE k \in T
  <2>1. /\ h[k - 1] \in PoolState /\ list[k] \in Transaction /\ list[k].id = k
        /\ h[k] = IF k > a THEN StepPool(h[k - 1], list[k]) ELSE h[k - 1]
        /\ h[k - 1].last = IF k - 1 > a /\ k - 1 > L THEN k - 1 ELSE L
        /\ h[k - 1].swaps = base.swaps + Cardinality(U(k - 1))
    BY <1>1, <1>3, <1>5
  <2>2. CASE k > a /\ k > L
    <3>1. h[k] = ApplyPoolState(h[k - 1], list[k])
      BY <1>1, <2>1, <2>2 DEF StepPool, AlreadyApplied
    <3>2. /\ h[k].last = k
          /\ h[k].swaps = IF IsTrade(list[k]) THEN h[k - 1].swaps + 1 ELSE h[k - 1].swaps
      <4>1. /\ ApplyPoolState(h[k - 1], list[k]).last
                 = IF k > h[k - 1].last THEN k ELSE h[k - 1].last
            /\ ApplyPoolState(h[k - 1], list[k]).swaps
                 = IF IsTrade(list[k]) THEN h[k - 1].swaps + 1 ELSE h[k - 1].swaps
        BY ONLY <2>1, ApplyTyped
      <4>2. h[k - 1].last < k
        BY <1>1, <2>1, <2>2
      <4> HIDE DEF U
      <4>3. h[k - 1].last \in Nat
        BY <2>1 DEF PoolState
      <4> QED BY <3>1, <4>1, <4>2, <4>3
    <3>3. U(k) = IF IsTrade(list[k]) THEN U(k - 1) \cup {k} ELSE U(k - 1)
      BY <1>1, <2>2
    <3>4. IsFiniteSet(U(k - 1)) /\ k \notin U(k - 1)
      <4>1. U(k - 1) \subseteq 1 .. n /\ k \notin U(k - 1)
        BY <1>1
      <4>2. IsFiniteSet(1 .. n)
        BY <1>1, FS_Interval
      <4> QED BY <4>1, <4>2, FS_Subset
    <3> DEFINE V == U(k - 1)
    <3>5. IsFiniteSet(V) /\ k \notin V
      BY <3>4
    <3> HIDE DEF U, V
    <3>6. Cardinality(V) \in Nat /\ Cardinality(V \cup {k}) = Cardinality(V) + 1
      BY ONLY <3>5, FS_CardinalityType, FS_AddElement
    <3>7. /\ Cardinality(U(k - 1)) \in Nat
          /\ IsTrade(list[k]) => Cardinality(U(k)) = Cardinality(U(k - 1)) + 1
      BY <3>3, <3>6 DEF V
    <3>8. h[k].swaps = base.swaps + Cardinality(U(k))
      <4>1. CASE IsTrade(list[k])
        <5>1. Cardinality(U(k)) = Cardinality(U(k - 1)) + 1 /\ h[k].swaps = h[k - 1].swaps + 1
          BY <3>2, <3>7, <4>1
        <5>2. h[k - 1].swaps = base.swaps + Cardinality(U(k - 1)) /\ base.swaps \in Nat
          BY <1>1, <2>1
        <5> QED BY ONLY <3>7, <5>1, <5>2
      <4>2. CASE ~IsTrade(list[k])
        BY <2>1, <3>2, <3>3, <4>2
      <4> QED BY <4>1, <4>2
    <3> QED BY <1>1, <2>2, <3>2, <3>8
  <2>3. CASE ~(k > a /\ k > L)
    <3>1. h[k] = h[k - 1]
      BY <1>1, <2>1, <2>3 DEF StepPool, AlreadyApplied
    <3>2. U(k) = U(k - 1)
      BY <1>1, <2>3
    <3> HIDE DEF U
    <3>3. ~(k - 1 > a /\ k - 1 > L)
      BY <1>1, <2>3
    <3> QED BY <1>1, <2>1, <2>3, <3>1, <3>2, <3>3
  <2> QED BY <2>2, <2>3
<1>6. \A k \in 0 .. n : Good(k)
  <2>1. \A k \in 0 .. n : k \in T
    <3> HIDE DEF T
    <3> QED BY <1>1, <1>4, <1>5, IndexInduction
  <2> QED BY <2>1
<1>7. ASSUME NEW H, History(H, list), a <= L, base = H[L] PROVE h[n] = H[n]
  <2> DEFINE Same(k) == h[k] = IF k <= L THEN base ELSE H[k]
             S == {k \in 0 .. n : Same(k)}
  <2>1. 0 \in S
    BY <1>1, <1>3
  <2>2. ASSUME NEW k \in 1 .. n, k - 1 \in S PROVE k \in S
    <3>1. /\ h[k - 1] = IF k - 1 <= L THEN base ELSE H[k - 1]
          /\ h[k] = IF k > a THEN StepPool(h[k - 1], list[k]) ELSE h[k - 1]
          /\ H[k] = ApplyPoolState(H[k - 1], list[k]) /\ list[k].id = k
          /\ h[k - 1].last = IF k - 1 > a /\ k - 1 > L THEN k - 1 ELSE L
      BY <1>1, <1>3, <1>6, <1>7, <2>2 DEF History, n
    <3>2. CASE k <= L
      BY <1>1, <3>1, <3>2 DEF StepPool, AlreadyApplied
    <3>3. CASE k > L
      <4>1. h[k - 1] = H[k - 1] /\ k > a
        BY <1>1, <1>7, <3>1, <3>3
      <4> QED BY <1>1, <3>1, <3>3, <4>1 DEF StepPool, AlreadyApplied
    <3> QED BY <1>1, <3>2, <3>3
  <2>3. n \in S
    <3> HIDE DEF S
    <3>1. \A k \in 0 .. n : k \in S
      BY <1>1, <2>1, <2>2, IndexInduction
    <3> QED BY <1>1, <3>1
  <2>4. Same(n)
    BY <2>3
  <2>5. CASE n = L
    BY <1>1, <1>7, <2>4, <2>5
  <2>6. CASE n # L
    <3>1. ~(n <= L)
      BY <1>1, <2>6
    <3> QED BY <2>4, <3>1
  <2> QED BY <2>5, <2>6
<1>8. h[n] \in PoolState /\ Good(n)
  <2>1. n \in 0 .. n
    BY <1>1
  <2> HIDE DEF Good
  <2> QED BY <1>3, <1>6, <2>1
<1>9. h[n].last = n
  BY <1>1, <1>8
<1> QED BY <1>2, <1>7, <1>8, <1>9 DEF n, L

----------------------------------------------------------------------------
(* The states recomputed from the recorded amounts.                        *)

RState ==
  [id : Nat, kind : Kinds, owner : Owners, r0 : Nat, r1 : Nat, supply : Nat, kLast : Nat,
   minted : Nat]

\* The two ways to keep a pool's state say the same of it.
Agrees(s, p) == s.r0 = p.r0 /\ s.r1 = p.r1 /\ s.supply = p.supply /\ s.kLast = p.kLast

\* The last of the recomputed states, or the empty pool.
LEMMA LastStateIs ==
  ASSUME NEW states \in Seq(RState)
  PROVE  LET s == LastState(states) IN
         /\ s.r0 \in Nat /\ s.r1 \in Nat /\ s.supply \in Nat /\ s.kLast \in Nat
         /\ \A e \in RState : LastState(Append(states, e)) = e
<1> DEFINE s == LastState(states)
           Typed == s.r0 \in Nat /\ s.r1 \in Nat /\ s.supply \in Nat /\ s.kLast \in Nat
<1>1. ASSUME states = <<>> PROVE Typed
  BY <1>1 DEF LastState, Origin
<1>2. ASSUME states # <<>> PROVE Typed
  <2>1. Len(states) \in 1 .. Len(states)
    BY <1>2
  <2>2. states[Len(states)] \in RState
    BY <2>1
  <2>3. LastState(states) = states[Len(states)]
    BY <1>2 DEF LastState
  <2> QED BY <2>2, <2>3 DEF RState
<1>3. ASSUME NEW e \in RState PROVE LastState(Append(states, e)) = e
  <2>1. Append(states, e) # <<>> /\ Append(states, e)[Len(Append(states, e))] = e
    OBVIOUS
  <2> QED BY <2>1 DEF LastState
<1> QED BY <1>1, <1>2, <1>3

\* The reserves after a row are natural numbers once they are capped at zero.
LEMMA AfterTyped ==
  ASSUME NEW t \in Transaction, NEW r0 \in Nat, NEW r1 \in Nat
  PROVE  /\ NonNegative(AfterSwap(t, r0, r1)[1]) \in Nat
         /\ NonNegative(AfterSwap(t, r0, r1)[2]) \in Nat
         /\ AfterLiquidity(t, r0, r1)[1] \in Nat /\ AfterLiquidity(t, r0, r1)[2] \in Nat
<1>1. t.in0 \in Nat /\ t.in1 \in Nat /\ t.out0 \in Nat /\ t.out1 \in Nat
  BY DEF Transaction
<1>2. \A i \in Int : NonNegative(i) \in Nat
  BY DEF NonNegative
<1>3. AfterSwap(t, r0, r1)[1] \in Int /\ AfterSwap(t, r0, r1)[2] \in Int
  <2>1. CASE t.kind = "BuyToken0"
    BY <1>1, <2>1 DEF AfterSwap
  <2>2. CASE t.kind # "BuyToken0"
    BY <1>1, <2>2 DEF AfterSwap
  <2> QED BY <2>1, <2>2
<1>4. AfterLiquidity(t, r0, r1)[1] \in Nat /\ AfterLiquidity(t, r0, r1)[2] \in Nat
  <2>1. CASE t.kind = "AddLiquidity"
    BY <1>1, <2>1 DEF AfterLiquidity
  <2>2. CASE t.kind # "AddLiquidity"
    <3>1. r0 - t.out0 \in Int /\ r1 - t.out1 \in Int
      BY <1>1
    <3> QED BY <1>2, <2>2, <3>1 DEF AfterLiquidity
  <2> QED BY <2>1, <2>2
<1> QED BY <1>2, <1>3, <1>4

\* One recorded state more.
LEMMA RecordedStepIs ==
  ASSUME NEW states \in Seq(RState), NEW t \in Transaction, NEW v \in BOOLEAN
  PROVE  LET s == LastState(states)
             after == IF IsTrade(t)
                      THEN <<NonNegative(AfterSwap(t, s.r0, s.r1)[1]),
                             NonNegative(AfterSwap(t, s.r0, s.r1)[2])>>
                      ELSE AfterLiquidity(t, s.r0, s.r1)
         IN  \E e \in RState :
               /\ RecordedStep(states, t, v) = Append(states, e)
               /\ e.id = t.id /\ e.kind = t.kind /\ e.owner = t.owner
               /\ e.r0 = after[1] /\ e.r1 = after[2]
               /\ IsTrade(t) => e.supply = s.supply /\ e.kLast = s.kLast /\ e.minted = 0
               /\ ~IsTrade(t) /\ t.liquidity > 0
                    => /\ e.minted = MintFee(s.supply, s.r0, s.r1, s.kLast)
                       /\ e.supply = IF t.kind = "AddLiquidity"
                                     THEN s.supply + e.minted + t.liquidity
                                     ELSE NonNegative(s.supply + e.minted - t.liquidity)
                       /\ e.kLast = SqrtProduct(e.r0, e.r1)
<1> DEFINE s == LastState(states)
           after == IF IsTrade(t)
                    THEN <<NonNegative(AfterSwap(t, s.r0, s.r1)[1]),
                           NonNegative(AfterSwap(t, s.r0, s.r1)[2])>>
                    ELSE AfterLiquidity(t, s.r0, s.r1)
           r0 == after[1]
           r1 == after[2]
           opens == t.kind = "AddLiquidity" /\ s.r0 = 0 /\ s.r1 = 0 /\ v /\ t.liquidity = 0
           due == MintFee(s.supply, s.r0, s.r1, s.kLast)
           minted == IF opens \/ IsTrade(t) THEN 0 ELSE due
           supply == IF opens THEN SqrtProduct(t.in0, t.in1)
                     ELSE IF IsTrade(t) THEN s.supply
                     ELSE IF t.kind = "AddLiquidity" THEN s.supply + minted + t.liquidity
                     ELSE NonNegative(s.supply + minted - t.liquidity)
           kLast == IF IsTrade(t) THEN s.kLast ELSE SqrtProduct(r0, r1)
           e == [id |-> t.id, kind |-> t.kind, owner |-> t.owner, r0 |-> r0, r1 |-> r1,
                 supply |-> supply, kLast |-> kLast, minted |-> minted]
<1>1. /\ s.r0 \in Nat /\ s.r1 \in Nat /\ s.supply \in Nat /\ s.kLast \in Nat
      /\ t.id \in Nat /\ t.kind \in Kinds /\ t.owner \in Owners /\ t.liquidity \in Nat
      /\ t.in0 \in Nat /\ t.in1 \in Nat /\ t.out0 \in Nat /\ t.out1 \in Nat
  BY LastStateIs DEF Transaction
<1> HIDE DEF s
<1>2. r0 \in Nat /\ r1 \in Nat
  BY <1>1, AfterTyped
<1>3. due \in Nat
  <2>1. s.supply \in Int
    BY <1>1
  <2> QED BY ONLY <1>1, <2>1, MintFeeIs, ZenonT(40)
<1>4. SqrtProduct(t.in0, t.in1) \in Nat /\ SqrtProduct(r0, r1) \in Nat
  <2> HIDE DEF r0, r1
  <2> QED BY ONLY <1>1, <1>2, SqrtProductIs
<1>5. /\ IsTrade(t) <=> t.kind \in {"BuyToken0", "SellToken0"}
      /\ t.kind \in {"BuyToken0", "SellToken0", "AddLiquidity", "RemoveLiquidity"}
  BY <1>1 DEF Kinds, Trades, IsTrade
<1>6. /\ r0 = IF IsTrade(t) THEN NonNegative(AfterSwap(t, s.r0, s.r1)[1])
              ELSE IF t.kind = "AddLiquidity" THEN s.r0 + t.in0 ELSE NonNegative(s.r0 - t.out0)
      /\ r1 = IF IsTrade(t) THEN NonNegative(AfterSwap(t, s.r0, s.r1)[2])
              ELSE IF t.kind = "AddLiquidity" THEN s.r1 + t.in1 ELSE NonNegative(s.r1 - t.out1)
  BY DEF AfterLiquidity
<1> HIDE DEF after, r0, r1, due
<1>7. minted \in Nat /\ supply \in Nat /\ kLast \in Nat
  <2>1. minted \in Nat
    BY <1>3
  <2>2. kLast \in Nat
    BY <1>1, <1>4
  <2> HIDE DEF minted
  <2>3. NonNegative(s.supply + minted - t.liquidity) \in Nat
    BY <1>1, <2>1 DEF NonNegative
  <2>4. supply \in Nat
    BY <1>1, <1>4, <2>1, <2>3
  <2> QED BY <2>1, <2>2, <2>4
<1>8. e \in RState
  <2> HIDE DEF minted, supply, kLast
  <2> QED BY <1>1, <1>2, <1>7 DEF RState
<1>9. RecordedStep(states, t, v) = Append(states, e)
  <2> DEFINE c0 == CASE IsTrade(t) -> NonNegative(AfterSwap(t, s.r0, s.r1)[1])
                     [] t.kind = "AddLiquidity" -> s.r0 + t.in0
                     [] t.kind = "RemoveLiquidity" -> NonNegative(s.r0 - t.out0)
             c1 == CASE IsTrade(t) -> NonNegative(AfterSwap(t, s.r0, s.r1)[2])
                     [] t.kind = "AddLiquidity" -> s.r1 + t.in1
                     [] t.kind = "RemoveLiquidity" -> NonNegative(s.r1 - t.out1)
             cs == CASE opens -> SqrtProduct(t.in0, t.in1)
                     [] IsTrade(t) -> s.supply
                     [] ~opens /\ t.kind = "AddLiquidity" -> s.supply + minted + t.liquidity
                     [] t.kind = "RemoveLiquidity" -> NonNegative(s.supply + minted - t.liquidity)
  <2>1. c0 = r0 /\ c1 = r1
    BY <1>5, <1>6
  <2>2. cs = supply
    <3> HIDE DEF minted
    <3>1. CASE t.kind = "AddLiquidity"
      BY <1>5, <3>1
    <3>2. CASE t.kind = "RemoveLiquidity"
      BY <1>5, <3>2
    <3>3. CASE IsTrade(t)
      BY <1>5, <3>3
    <3> QED BY <1>5, <3>1, <3>2, <3>3
  <2>3. RecordedStep(states, t, v) =
          Append(states, [StateAfter(t, c0, c1, cs, minted) EXCEPT
                            !.kLast = IF IsTrade(t) THEN s.kLast ELSE SqrtProduct(c0, c1)])
    BY DEF RecordedStep, s, due
  <2> HIDE DEF c0, c1, cs, minted, supply
  <2> QED BY <2>1, <2>2, <2>3 DEF StateAfter
<1>10. /\ IsTrade(t) => supply = s.supply /\ kLast = s.kLast /\ minted = 0
       /\ ~IsTrade(t) /\ t.liquidity > 0
            => /\ minted = due
               /\ supply = IF t.kind = "AddLiquidity" THEN s.supply + minted + t.liquidity
                           ELSE NonNegative(s.supply + minted - t.liquidity)
               /\ kLast = SqrtProduct(r0, r1)
  BY <1>1, <1>5
<1> HIDE DEF supply, kLast, minted
<1>11. /\ e.id = t.id /\ e.kind = t.kind /\ e.owner = t.owner /\ e.r0 = r0 /\ e.r1 = r1
       /\ e.supply = supply /\ e.kLast = kLast /\ e.minted = minted
  OBVIOUS
<1> HIDE DEF e
<1>12. /\ IsTrade(t) => e.supply = s.supply /\ e.kLast = s.kLast /\ e.minted = 0
       /\ ~IsTrade(t) /\ t.liquidity > 0
            => /\ e.minted = due
               /\ e.supply = IF t.kind = "AddLiquidity" THEN s.supply + e.minted + t.liquidity
                             ELSE NonNegative(s.supply + e.minted - t.liquidity)
               /\ e.kLast = SqrtProduct(e.r0, e.r1)
  BY <1>10, <1>11
<1> QED BY <1>8, <1>9, <1>11, <1>12 DEF s, after, r0, r1, due

\* From a state the pool can be in, a row it can announce: the recorded
\* state follows it.
LEMMA RecordedAgrees ==
  ASSUME NEW states \in Seq(RState), NEW p, Sound(p), Agrees(LastState(states), p),
         NEW t \in Transaction, Fits(p, t), NEW v \in BOOLEAN
  PROVE  \E e \in RState :
           /\ RecordedStep(states, t, v) = Append(states, e) /\ e.id = t.id
           /\ Agrees(e, ApplyPoolState(p, t))
           /\ e.minted = IF IsTrade(t) THEN 0 ELSE p.pending
<1> DEFINE s == LastState(states)
           n == ApplyPoolState(p, t)
<1>1. /\ s.r0 = p.r0 /\ s.r1 = p.r1 /\ s.supply = p.supply /\ s.kLast = p.kLast
      /\ p \in PoolState /\ p.supply \in Nat /\ p.r0 \in Nat /\ p.r1 \in Nat
      /\ p.pending \in Nat /\ p.pending = MintFee(p.supply, p.r0, p.r1, p.kLast)
      /\ t.liquidity \in Nat
  BY DueIs DEF Agrees, Sound, PoolState, Transaction
<1> HIDE DEF s
<1>2. CASE TradeFits(p, t)
  <2>1. IsTrade(t)
    BY <1>2 DEF TradeFits
  <2>2. PICK e \in RState :
          /\ RecordedStep(states, t, v) = Append(states, e) /\ e.id = t.id
          /\ e.r0 = NonNegative(AfterSwap(t, s.r0, s.r1)[1])
          /\ e.r1 = NonNegative(AfterSwap(t, s.r0, s.r1)[2])
          /\ e.supply = s.supply /\ e.kLast = s.kLast /\ e.minted = 0
    BY <2>1, RecordedStepIs DEF s
  <2>3. /\ n.r0 = NonNegative(AfterSwap(t, p.r0, p.r1)[1])
        /\ n.r1 = NonNegative(AfterSwap(t, p.r0, p.r1)[2])
        /\ n.supply = p.supply /\ n.kLast = p.kLast
    BY <1>1, <2>1, TradeApplied
  <2> HIDE DEF n
  <2>4. Agrees(e, n)
    BY <1>1, <2>2, <2>3 DEF Agrees
  <2> QED BY <2>1, <2>2, <2>4 DEF n
<1>3. ASSUME AddFits(p, t) \/ RemoveFits(p, t)
      PROVE  \E e \in RState :
               /\ RecordedStep(states, t, v) = Append(states, e) /\ e.id = t.id
               /\ Agrees(e, n) /\ e.minted = IF IsTrade(t) THEN 0 ELSE p.pending
  <2>1. /\ ~IsTrade(t) /\ t.liquidity > 0
        /\ t.kind = "AddLiquidity" <=> AddFits(p, t)
    BY <1>3 DEF AddFits, RemoveFits, IsTrade, Trades
  <2>2. PICK e \in RState :
          /\ RecordedStep(states, t, v) = Append(states, e) /\ e.id = t.id
          /\ e.r0 = AfterLiquidity(t, s.r0, s.r1)[1]
          /\ e.r1 = AfterLiquidity(t, s.r0, s.r1)[2]
          /\ e.minted = MintFee(s.supply, s.r0, s.r1, s.kLast)
          /\ e.supply = IF t.kind = "AddLiquidity" THEN s.supply + e.minted + t.liquidity
                        ELSE NonNegative(s.supply + e.minted - t.liquidity)
          /\ e.kLast = SqrtProduct(e.r0, e.r1)
    BY <2>1, RecordedStepIs DEF s
  <2>3. /\ n.r0 = AfterLiquidity(t, p.r0, p.r1)[1] /\ n.r1 = AfterLiquidity(t, p.r0, p.r1)[2]
        /\ n.kLast = SqrtProduct(n.r0, n.r1)
    BY <1>1, <2>1, LiquidityApplied
  <2>4. e.minted = p.pending /\ e.r0 = n.r0 /\ e.r1 = n.r1 /\ e.kLast = n.kLast
    <3> HIDE DEF n
    <3> QED BY <1>1, <2>2, <2>3
  <2>5. e.supply = n.supply
    <3>1. CASE AddFits(p, t)
      <4>1. n.supply = p.supply + p.pending + t.liquidity
        BY <3>1, AddStep
      <4> HIDE DEF n
      <4> QED BY <1>1, <2>1, <2>2, <2>4, <3>1, <4>1
    <3>2. CASE RemoveFits(p, t)
      <4>1. n.supply = p.supply + p.pending - t.liquidity /\ Sound(n)
        BY <3>2, RemoveStep
      <4>2. t.kind # "AddLiquidity"
        BY <3>2 DEF RemoveFits
      <4> HIDE DEF n
      <4>3. n.supply \in Nat
        BY <4>1 DEF Sound
      <4>4. s.supply + e.minted - t.liquidity = n.supply
        BY <1>1, <2>4, <4>1
      <4>5. e.supply = NonNegative(n.supply)
        BY <2>2, <4>2, <4>4
      <4> QED BY <4>3, <4>5 DEF NonNegative
    <3> QED BY <1>3, <3>1, <3>2
  <2> HIDE DEF n
  <2>6. Agrees(e, n)
    BY <2>4, <2>5 DEF Agrees
  <2> QED BY <2>1, <2>2, <2>4, <2>6
<1> QED BY <1>2, <1>3 DEF Fits

RecordedRun(h, list) ==
  /\ h \in [0 .. Len(list) -> Seq(RState)] /\ h[0] = <<>>
  /\ \A k \in 1 .. Len(list) : h[k] = RecordedStep(h[k - 1], list[k], InferVirtual(list))

\* The fold of RecordedStep is the last state of a run.
LEMMA RecordedThrough ==
  ASSUME NEW list \in Seq(Transaction)
  PROVE  \E h : RecordedRun(h, list) /\ RecordedStates(list) = h[Len(list)]
<1> DEFINE n == Len(list)
           base == <<>>
           D == Seq(RState)
           Then(s, k) == RecordedStep(s, list[k], InferVirtual(list))
           Rec(f) == f = [s \in SUBSET DOMAIN list |->
                            IF s = {} THEN base ELSE Then(f[s \ {Max(s)}], Max(s))]
           f == CHOOSE f : Rec(f)
           F == [p \in (1 .. n) \X D |-> Then(p[2], p[1])]
<1>1. DOMAIN list = 1 .. n /\ n \in Nat
  OBVIOUS
<1>2. \A s : Max(s) = Greatest(s)
  BY DEF Max, Greatest
<1>3. RecordedStates(list) = f[1 .. n]
  BY <1>1 DEF RecordedStates, FoldLeft, MapThenFoldSet
<1>4. base \in D
  OBVIOUS
<1>5. \A k \in 1 .. n, s \in D : Then(s, k) \in D
  <2>1. InferVirtual(list) \in BOOLEAN
    BY DEF InferVirtual
  <2>2. ASSUME NEW k \in 1 .. n, NEW s \in Seq(RState) PROVE Then(s, k) \in Seq(RState)
    <3>1. list[k] \in Transaction
      BY <1>1
    <3>2. PICK e \in RState : RecordedStep(s, list[k], InferVirtual(list)) = Append(s, e)
      BY <2>1, <3>1, RecordedStepIs
    <3> QED BY <3>2
  <2> QED BY <2>2
<1>6. F \in [(1 .. n) \X D -> D]
  <2> HIDE DEF Then, D, n
  <2> QED BY <1>5
<1> HIDE DEF n, base, D, Then
<1>7. Rec(f)
  <2>1. PICK g : FoldsLeft(g, n, D, base, F)
    <3> HIDE DEF F
    <3> QED BY <1>1, <1>4, <1>6, LeftFold
  <2>2. \A s \in SUBSET (1 .. n) :
          g[s] = IF s = {} THEN base ELSE Then(g[s \ {Greatest(s)}], Greatest(s))
    BY <2>1 DEF FoldsLeft
  <2>3. Rec(g)
    BY <2>1, <2>2, <1>1, <1>2 DEF FoldsLeft
  <2> HIDE DEF Rec
  <2> QED BY <2>3, Zenon
<1> HIDE DEF f
<1> HIDE DEF F
<1> DEFINE h == [k \in 0 .. n |-> f[1 .. k]]
           T == {k \in 0 .. n : h[k] \in D}
<1>8. ASSUME NEW k \in 1 .. n PROVE h[k] = Then(h[k - 1], k)
  <2>1. /\ 1 .. k \in SUBSET (1 .. n) /\ 1 .. k # {} /\ Greatest(1 .. k) = k
        /\ (1 .. k) \ {k} = 1 .. k - 1 /\ k - 1 \in 0 .. n
    BY <1>1, PrefixStep
  <2>2. f[1 .. k] = Then(f[1 .. k - 1], k)
    BY <1>1, <1>2, <1>7, <2>1
  <2> QED BY <2>1, <2>2
<1>9. h[0] = base /\ h[n] = f[1 .. n]
  <2>1. 1 .. 0 = {} /\ 1 .. 0 \in SUBSET (1 .. n)
    BY <1>1
  <2>2. f[1 .. 0] = base
    BY <1>1, <1>7, <2>1
  <2> QED BY <1>1, <2>2
<1> HIDE DEF h, f, Rec
<1>10. \A k \in 0 .. n : k \in T
  <2>1. 0 \in T
    BY <1>1, <1>4, <1>9
  <2>2. \A k \in 1 .. n : k - 1 \in T => k \in T
    BY <1>5, <1>8
  <2> HIDE DEF T
  <2> QED BY <1>1, <2>1, <2>2, IndexInduction
<1>11. h \in [0 .. n -> D]
  BY <1>10 DEF h
<1>12. RecordedRun(h, list)
  BY <1>8, <1>9, <1>11 DEF RecordedRun, Then, n, D, base
<1> QED BY <1>3, <1>9, <1>12 DEF n

Reasons == {"pool_history_contains_invalid_swap_amounts", "pool_history_bootstrap_supply_unknown",
            "pool_history_liquidity_mint_mismatch", "pool_history_remove_liquidity_invalid"}

Reconstruction == [states : Seq(RState), blockers : SUBSET Reasons]

\* A step of reconstruct.
CheckedStep(done, t, virtual) ==
  LET s == LastState(done.states) IN
  IF done.blockers # {} THEN done
  ELSE IF Blocker(s, t, virtual) # {} THEN [done EXCEPT !.blockers = Blocker(s, t, virtual)]
  ELSE [done EXCEPT !.states =
          RecordedStep(@, IF t.kind = "AddLiquidity" /\ s.r0 = 0 /\ s.r1 = 0
                          THEN [t EXCEPT !.liquidity = SqrtProduct(t.in0, t.in1)] ELSE t,
                       virtual)]

\* A row is blocked for one of four reasons or for none.
LEMMA BlockerIs ==
  ASSUME NEW s, NEW t \in Transaction, NEW virtual
  PROVE  Blocker(s, t, virtual) \in SUBSET Reasons
<1> DEFINE supply == s.supply + MintFee(s.supply, s.r0, s.r1, s.kLast)
           opening == SqrtProduct(t.in0, t.in1)
<1>1. t.kind \in {"BuyToken0", "SellToken0", "AddLiquidity", "RemoveLiquidity"}
  BY DEF Transaction, Kinds, Trades
<1> HIDE DEF supply, opening
<1>2. CASE IsTrade(t)
  BY <1>2 DEF Blocker, Reasons, IsTrade, Trades
<1>3. CASE t.kind = "AddLiquidity"
  BY <1>3 DEF Blocker, Reasons, IsTrade, Trades
<1>4. CASE t.kind = "RemoveLiquidity"
  BY <1>4 DEF Blocker, Reasons, IsTrade, Trades
<1> QED BY <1>1, <1>2, <1>3, <1>4 DEF IsTrade, Trades

\* A checked row adds one recomputed state and perhaps a reason.
LEMMA CheckedTyped ==
  ASSUME NEW done \in Reconstruction, NEW t \in Transaction, NEW virtual \in BOOLEAN
  PROVE  CheckedStep(done, t, virtual) \in Reconstruction
<1> DEFINE s == LastState(done.states)
           u == IF t.kind = "AddLiquidity" /\ s.r0 = 0 /\ s.r1 = 0
                THEN [t EXCEPT !.liquidity = SqrtProduct(t.in0, t.in1)] ELSE t
<1>1. u \in Transaction
  <2>1. SqrtProduct(t.in0, t.in1) \in Nat
    BY SqrtProductIs DEF Transaction
  <2> QED BY <2>1 DEF Transaction
<1> HIDE DEF s, u
<1>2. PICK e \in RState : RecordedStep(done.states, u, virtual) = Append(done.states, e)
  BY <1>1, RecordedStepIs DEF Reconstruction
<1>3. Blocker(s, t, virtual) \in SUBSET Reasons
  BY BlockerIs
<1>4. CheckedStep(done, t, virtual) =
        IF done.blockers # {} THEN done
        ELSE IF Blocker(s, t, virtual) # {} THEN [done EXCEPT !.blockers = Blocker(s, t, virtual)]
        ELSE [done EXCEPT !.states = RecordedStep(done.states, u, virtual)]
  BY DEF CheckedStep, s, u, Reconstruction
<1> DEFINE b == Blocker(s, t, virtual)
           r == RecordedStep(done.states, u, virtual)
<1>5. r \in Seq(RState) /\ b \in SUBSET Reasons
  BY <1>2, <1>3 DEF Reconstruction
<1> HIDE DEF b, r
<1>6. /\ [done EXCEPT !.blockers = b] \in Reconstruction
      /\ [done EXCEPT !.states = r] \in Reconstruction
  BY <1>5 DEF Reconstruction
<1> QED BY <1>4, <1>6 DEF b, r

CheckedRun(h, list) ==
  /\ h \in [0 .. Len(list) -> Reconstruction] /\ h[0] = [states |-> <<>>, blockers |-> {}]
  /\ \A k \in 1 .. Len(list) : h[k] = CheckedStep(h[k - 1], list[k], InferVirtual(list))

\* The fold of CheckedStep is the last state of a run.
LEMMA CheckedThrough ==
  ASSUME NEW list \in Seq(Transaction)
  PROVE  \E h : CheckedRun(h, list) /\ Reconstruct(list) = h[Len(list)]
<1> DEFINE n == Len(list)
           base == [states |-> <<>>, blockers |-> {}]
           D == Reconstruction
           Then(s, k) == CheckedStep(s, list[k], InferVirtual(list))
           Rec(f) == f = [s \in SUBSET DOMAIN list |->
                            IF s = {} THEN base ELSE Then(f[s \ {Max(s)}], Max(s))]
           f == CHOOSE f : Rec(f)
           F == [p \in (1 .. n) \X D |-> Then(p[2], p[1])]
<1>1. DOMAIN list = 1 .. n /\ n \in Nat
  OBVIOUS
<1>2. \A s : Max(s) = Greatest(s)
  BY DEF Max, Greatest
<1>3. Reconstruct(list) = f[1 .. n]
  BY <1>1 DEF Reconstruct, CheckedStep, FoldLeft, MapThenFoldSet
<1>4. base \in D
  BY DEF Reconstruction
<1>5. \A k \in 1 .. n, s \in D : Then(s, k) \in D
  <2>1. InferVirtual(list) \in BOOLEAN
    BY DEF InferVirtual
  <2> QED BY <1>1, <2>1, CheckedTyped
<1>6. F \in [(1 .. n) \X D -> D]
  <2> HIDE DEF Then, D, n
  <2> QED BY <1>5
<1> HIDE DEF n, base, D, Then
<1>7. Rec(f)
  <2>1. PICK g : FoldsLeft(g, n, D, base, F)
    <3> HIDE DEF F
    <3> QED BY <1>1, <1>4, <1>6, LeftFold
  <2>2. \A s \in SUBSET (1 .. n) :
          g[s] = IF s = {} THEN base ELSE Then(g[s \ {Greatest(s)}], Greatest(s))
    BY <2>1 DEF FoldsLeft
  <2>3. Rec(g)
    BY <2>1, <2>2, <1>1, <1>2 DEF FoldsLeft
  <2> HIDE DEF Rec
  <2> QED BY <2>3, Zenon
<1> HIDE DEF f
<1> HIDE DEF F
<1> DEFINE h == [k \in 0 .. n |-> f[1 .. k]]
           T == {k \in 0 .. n : h[k] \in D}
<1>8. ASSUME NEW k \in 1 .. n PROVE h[k] = Then(h[k - 1], k)
  <2>1. /\ 1 .. k \in SUBSET (1 .. n) /\ 1 .. k # {} /\ Greatest(1 .. k) = k
        /\ (1 .. k) \ {k} = 1 .. k - 1 /\ k - 1 \in 0 .. n
    BY <1>1, PrefixStep
  <2>2. f[1 .. k] = Then(f[1 .. k - 1], k)
    BY <1>1, <1>2, <1>7, <2>1
  <2> QED BY <2>1, <2>2
<1>9. h[0] = base /\ h[n] = f[1 .. n]
  <2>1. 1 .. 0 = {} /\ 1 .. 0 \in SUBSET (1 .. n)
    BY <1>1
  <2>2. f[1 .. 0] = base
    BY <1>1, <1>7, <2>1
  <2> QED BY <1>1, <2>2
<1> HIDE DEF h, f, Rec
<1>10. \A k \in 0 .. n : k \in T
  <2>1. 0 \in T
    BY <1>1, <1>4, <1>9
  <2>2. \A k \in 1 .. n : k - 1 \in T => k \in T
    BY <1>5, <1>8
  <2> HIDE DEF T
  <2> QED BY <1>1, <2>1, <2>2, IndexInduction
<1>11. h \in [0 .. n -> D]
  BY <1>10 DEF h
<1>12. CheckedRun(h, list)
  BY <1>8, <1>9, <1>11 DEF CheckedRun, Then, n, D, base
<1> QED BY <1>3, <1>9, <1>12 DEF n

\* A row as _build_pool_state takes it.
AsVirtual(s, t, virtual) ==
  IF virtual /\ t.kind = "AddLiquidity" /\ s.r0 = 0 /\ s.r1 = 0
  THEN [t EXCEPT !.virtual = TRUE] ELSE t

BuildRun(h, list) ==
  /\ h \in [0 .. Len(list) -> PoolState] /\ h[0] = NoPoolState
  /\ \A k \in 1 .. Len(list) :
       h[k] = ApplyPoolState(h[k - 1], AsVirtual(h[k - 1], list[k], InferVirtual(list)))

\* The fold that builds a pool state from nothing is the last state of a run.
LEMMA BuildThrough ==
  ASSUME NEW list \in Seq(Transaction)
  PROVE  \E h : BuildRun(h, list) /\ BuildPoolState(list) = h[Len(list)]
<1> DEFINE n == Len(list)
           base == NoPoolState
           D == PoolState
           Then(s, k) == ApplyPoolState(s, AsVirtual(s, list[k], InferVirtual(list)))
           Rec(f) == f = [s \in SUBSET DOMAIN list |->
                            IF s = {} THEN base ELSE Then(f[s \ {Max(s)}], Max(s))]
           f == CHOOSE f : Rec(f)
           F == [p \in (1 .. n) \X D |-> Then(p[2], p[1])]
<1>1. DOMAIN list = 1 .. n /\ n \in Nat
  OBVIOUS
<1>2. \A s : Max(s) = Greatest(s)
  BY DEF Max, Greatest
<1>3. BuildPoolState(list) = f[1 .. n]
  BY <1>1 DEF BuildPoolState, AsVirtual, FoldLeft, MapThenFoldSet
<1>4. base \in D
  BY NothingSound DEF Sound
<1>5. \A k \in 1 .. n, s \in D : Then(s, k) \in D
  <2>1. \A s, v : \A t \in Transaction : AsVirtual(s, t, v) \in Transaction
    BY DEF AsVirtual, Transaction
  <2> QED BY <1>1, <2>1, ApplyTyped
<1>6. F \in [(1 .. n) \X D -> D]
  <2> HIDE DEF Then, D, n
  <2> QED BY <1>5
<1> HIDE DEF n, base, D, Then
<1>7. Rec(f)
  <2>1. PICK g : FoldsLeft(g, n, D, base, F)
    <3> HIDE DEF F
    <3> QED BY <1>1, <1>4, <1>6, LeftFold
  <2>2. \A s \in SUBSET (1 .. n) :
          g[s] = IF s = {} THEN base ELSE Then(g[s \ {Greatest(s)}], Greatest(s))
    BY <2>1 DEF FoldsLeft
  <2>3. Rec(g)
    BY <2>1, <2>2, <1>1, <1>2 DEF FoldsLeft
  <2> HIDE DEF Rec
  <2> QED BY <2>3, Zenon
<1> HIDE DEF f
<1> HIDE DEF F
<1> DEFINE h == [k \in 0 .. n |-> f[1 .. k]]
           T == {k \in 0 .. n : h[k] \in D}
<1>8. ASSUME NEW k \in 1 .. n PROVE h[k] = Then(h[k - 1], k)
  <2>1. /\ 1 .. k \in SUBSET (1 .. n) /\ 1 .. k # {} /\ Greatest(1 .. k) = k
        /\ (1 .. k) \ {k} = 1 .. k - 1 /\ k - 1 \in 0 .. n
    BY <1>1, PrefixStep
  <2>2. f[1 .. k] = Then(f[1 .. k - 1], k)
    BY <1>1, <1>2, <1>7, <2>1
  <2> QED BY <2>1, <2>2
<1>9. h[0] = base /\ h[n] = f[1 .. n]
  <2>1. 1 .. 0 = {} /\ 1 .. 0 \in SUBSET (1 .. n)
    BY <1>1
  <2>2. f[1 .. 0] = base
    BY <1>1, <1>7, <2>1
  <2> QED BY <1>1, <2>2
<1> HIDE DEF h, f, Rec
<1>10. \A k \in 0 .. n : k \in T
  <2>1. 0 \in T
    BY <1>1, <1>4, <1>9
  <2>2. \A k \in 1 .. n : k - 1 \in T => k \in T
    BY <1>5, <1>8
  <2> HIDE DEF T
  <2> QED BY <1>1, <2>1, <2>2, IndexInduction
<1>11. h \in [0 .. n -> D]
  BY <1>10 DEF h
<1>12. BuildRun(h, list)
  BY <1>8, <1>9, <1>11 DEF BuildRun, Then, n, D, base
<1> QED BY <1>3, <1>9, <1>12 DEF n

\* The checks of reconstruct accept every row the pool can announce.
LEMMA NothingBlocks ==
  ASSUME NEW s, NEW p, Sound(p), Agrees(s, p), NEW t \in Transaction, Fits(p, t), NEW virtual
  PROVE  /\ Blocker(s, t, virtual) = {}
         /\ t.kind = "AddLiquidity" /\ s.r0 = 0 /\ s.r1 = 0
              => t.liquidity = SqrtProduct(t.in0, t.in1)
<1> DEFINE supply == s.supply + MintFee(s.supply, s.r0, s.r1, s.kLast)
           opening == SqrtProduct(t.in0, t.in1)
<1>1. /\ s.r0 = p.r0 /\ s.r1 = p.r1 /\ p.r0 \in Nat /\ p.r1 \in Nat /\ p.supply \in Nat
      /\ p.pending \in Nat /\ supply = p.supply + p.pending
      /\ t.in0 \in Nat /\ t.in1 \in Nat /\ t.out0 \in Nat /\ t.out1 \in Nat /\ t.liquidity \in Nat
  BY DueIs DEF Agrees, Sound, PoolState, Transaction
<1>2. opening = ISqrt(t.in0 * t.in1)
  BY <1>1, SqrtProductIs
<1>3. Blocker(s, t, virtual) =
        CASE IsTrade(t) ->
               IF ExpectedOut(t, s.r0, s.r1) # (IF t.kind = "BuyToken0" THEN t.out0 ELSE t.out1)
               THEN {"pool_history_contains_invalid_swap_amounts"} ELSE {}
          [] t.kind = "AddLiquidity" /\ s.r0 = 0 /\ s.r1 = 0 ->
               IF t.liquidity # opening /\ ~(virtual /\ t.liquidity = 0)
               THEN {"pool_history_bootstrap_supply_unknown"} ELSE {}
          [] t.kind = "AddLiquidity" /\ ~(s.r0 = 0 /\ s.r1 = 0) ->
               IF t.liquidity # SmallerOf((t.in0 * supply) \div s.r0, (t.in1 * supply) \div s.r1)
               THEN {"pool_history_liquidity_mint_mismatch"} ELSE {}
          [] t.kind = "RemoveLiquidity" ->
               IF t.liquidity > supply \/ t.out0 > s.r0 \/ t.out1 > s.r1
               THEN {"pool_history_remove_liquidity_invalid"} ELSE {}
  BY DEF Blocker
<1> HIDE DEF supply, opening
<1>4. CASE TradeFits(p, t)
  <2>1. /\ IsTrade(t) /\ t.kind # "AddLiquidity" /\ t.kind # "RemoveLiquidity"
        /\ p.r0 \in Nat \ {0} /\ p.r1 \in Nat \ {0}
    BY <1>1, <1>4 DEF TradeFits, IsTrade, Trades
  <2>2. ExpectedOut(t, s.r0, s.r1) = IF t.kind = "BuyToken0" THEN t.out0 ELSE t.out1
    <3>1. CASE t.kind = "BuyToken0"
      <4>1. t.out0 > 0 /\ t.out0 = AmountOut(p.r1, p.r0, t.in1)
        BY <1>4, <3>1 DEF TradeFits
      <4>2. t.in1 * (FeeBase - PoolFee) > 0
        BY <1>1, <2>1, <4>1, OutputBelow
      <4> DEFINE paid == t.in1 * (FeeBase - PoolFee)
      <4>3. AmountOut(p.r1, p.r0, t.in1) = (paid * p.r0) \div (p.r1 * FeeBase + paid)
        BY DEF AmountOut
      <4>4. ExpectedOut(t, s.r0, s.r1) =
              IF s.r0 <= 0 \/ s.r1 <= 0 \/ paid <= 0 THEN NoOutput
              ELSE (paid * s.r0) \div (s.r1 * FeeBase + paid)
        BY <3>1 DEF ExpectedOut
      <4>5. paid \in Int /\ paid > 0
        BY <1>1, <4>2, FeeAssumption
      <4> HIDE DEF paid
      <4>6. ~(s.r0 <= 0 \/ s.r1 <= 0 \/ paid <= 0)
        BY <1>1, <2>1, <4>5
      <4> QED BY <1>1, <3>1, <4>1, <4>3, <4>4, <4>6
    <3>2. CASE t.kind = "SellToken0"
      <4>1. t.out1 > 0 /\ t.out1 = AmountOut(p.r0, p.r1, t.in0)
        BY <1>4, <3>2 DEF TradeFits
      <4>2. t.in0 * (FeeBase - PoolFee) > 0
        BY <1>1, <2>1, <4>1, OutputBelow
      <4> DEFINE paid == t.in0 * (FeeBase - PoolFee)
      <4>3. AmountOut(p.r0, p.r1, t.in0) = (paid * p.r1) \div (p.r0 * FeeBase + paid)
        BY DEF AmountOut
      <4>4. ExpectedOut(t, s.r0, s.r1) =
              IF s.r0 <= 0 \/ s.r1 <= 0 \/ paid <= 0 THEN NoOutput
              ELSE (paid * s.r1) \div (s.r0 * FeeBase + paid)
        BY <3>2 DEF ExpectedOut
      <4>5. paid \in Int /\ paid > 0
        BY <1>1, <4>2, FeeAssumption
      <4> HIDE DEF paid
      <4>6. ~(s.r0 <= 0 \/ s.r1 <= 0 \/ paid <= 0)
        BY <1>1, <2>1, <4>5
      <4> QED BY <1>1, <3>2, <4>1, <4>3, <4>4, <4>6
    <3> QED BY <2>1, <3>1, <3>2 DEF IsTrade, Trades
  <2> QED BY <1>3, <2>1, <2>2
<1>5. CASE AddFits(p, t)
  <2>1. t.kind = "AddLiquidity" /\ ~IsTrade(t) /\ t.liquidity > 0
        /\ t.liquidity = SharesFor(supply, p.r0, p.r1, t.in0, t.in1)
    BY <1>1, <1>5 DEF AddFits, IsTrade, Trades
  <2>2. CASE s.r0 = 0 /\ s.r1 = 0
    <3>1. t.liquidity = opening
      BY <1>1, <1>2, <2>1, <2>2 DEF SharesFor
    <3> QED BY <1>3, <2>1, <2>2, <3>1 DEF opening
  <2>3. CASE ~(s.r0 = 0 /\ s.r1 = 0)
    <3>1. supply # 0
      <4>1. p.supply # 0
        BY <1>1, <2>3 DEF Sound
      <4> QED BY <1>1, <4>1
    <3>2. t.liquidity = SmallerOf((t.in0 * supply) \div s.r0, (t.in1 * supply) \div s.r1)
      BY <1>1, <2>1, <2>3, <3>1 DEF SharesFor
    <3> QED BY <1>3, <2>1, <2>3, <3>2
  <2> QED BY <2>2, <2>3
<1>6. CASE RemoveFits(p, t)
  <2>1. /\ t.kind = "RemoveLiquidity" /\ ~IsTrade(t) /\ t.liquidity <= supply
        /\ t.out0 <= s.r0 /\ t.out1 <= s.r1
    BY <1>1, <1>6, RemoveStep DEF RemoveFits, IsTrade, Trades
  <2>2. ~(t.liquidity > supply \/ t.out0 > s.r0 \/ t.out1 > s.r1)
    BY <1>1, <2>1
  <2> QED BY <1>3, <2>1, <2>2
<1> QED BY <1>4, <1>5, <1>6 DEF Fits

\* The states recomputed from the recorded amounts of a pool's history.
Recounts(states, h, list) ==
  /\ states \in Seq(RState) /\ Len(states) = Len(list)
  /\ Agrees(LastState(states), h[Len(list)])
  /\ \A j \in 1 .. Len(list) :
       /\ Agrees(states[j], h[j])
       /\ states[j].minted = IF IsTrade(list[j]) THEN 0 ELSE h[j - 1].pending

\* The checked reconstruction and the unchecked one recount a history alike.
LEMMA HistoryRecounted ==
  ASSUME NEW list, Announced(list), NEW h, History(h, list)
  PROVE  /\ Recounts(RecordedStates(list), h, list)
         /\ Reconstruct(list) = [states |-> RecordedStates(list), blockers |-> {}]
<1> DEFINE n == Len(list)
           v == InferVirtual(list)
<1>1. n \in Nat /\ v \in BOOLEAN /\ list \in Seq(Transaction) /\ \A k \in 1 .. n : list[k] \in Transaction
  BY DEF Announced, InferVirtual
<1>2. PICK g : RecordedRun(g, list) /\ RecordedStates(list) = g[n]
  BY <1>1, RecordedThrough
<1>3. PICK c : CheckedRun(c, list) /\ Reconstruct(list) = c[n]
  BY <1>1, CheckedThrough
<1>4. /\ g \in [0 .. n -> Seq(RState)] /\ g[0] = <<>>
      /\ \A k \in 1 .. n : g[k] = RecordedStep(g[k - 1], list[k], v)
  BY <1>2 DEF RecordedRun
<1>5. /\ c[0] = [states |-> <<>>, blockers |-> {}]
      /\ \A k \in 1 .. n : c[k] = CheckedStep(c[k - 1], list[k], v)
  BY <1>3 DEF CheckedRun
<1>6. /\ h[0] = NoPoolState
      /\ \A k \in 1 .. n : Fits(h[k - 1], list[k]) /\ h[k] = ApplyPoolState(h[k - 1], list[k])
  BY DEF History
<1>7. \A k \in 0 .. n : Sound(h[k])
  BY HistorySound
<1> HIDE DEF n, v
<1> DEFINE Good(k) ==
             /\ g[k] \in Seq(RState) /\ Len(g[k]) = k /\ Agrees(LastState(g[k]), h[k])
             /\ c[k] = [states |-> g[k], blockers |-> {}]
             /\ \A j \in 1 .. k : /\ Agrees(g[k][j], h[j])
                                  /\ g[k][j].minted = IF IsTrade(list[j]) THEN 0 ELSE h[j - 1].pending
           T == {k \in 0 .. n : Good(k)}
<1>8. Good(0)
  <2>1. Agrees(LastState(<<>>), NoPoolState)
    BY DEF Agrees, LastState, Origin, NoPoolState
  <2>2. <<>> \in Seq(RState) /\ Len(<<>>) = 0 /\ 1 .. 0 = {}
    OBVIOUS
  <2> QED BY <1>4, <1>5, <1>6, <2>1, <2>2
<1>9. ASSUME NEW k \in 1 .. n, Good(k - 1) PROVE Good(k)
  <2> DEFINE s == LastState(g[k - 1])
             t == list[k]
  <2>1. /\ k - 1 \in 0 .. n /\ Sound(h[k - 1]) /\ Fits(h[k - 1], t) /\ t \in Transaction
        /\ h[k] = ApplyPoolState(h[k - 1], t) /\ g[k] = RecordedStep(g[k - 1], t, v)
        /\ g[k - 1] \in Seq(RState) /\ Len(g[k - 1]) = k - 1 /\ Agrees(s, h[k - 1])
        /\ c[k - 1] = [states |-> g[k - 1], blockers |-> {}]
        /\ c[k] = CheckedStep(c[k - 1], t, v)
    BY <1>1, <1>4, <1>5, <1>6, <1>7, <1>9, SMTT(20)
  <2> HIDE DEF s, t
  <2>2. PICK e \in RState :
          /\ g[k] = Append(g[k - 1], e) /\ Agrees(e, h[k])
          /\ e.minted = IF IsTrade(t) THEN 0 ELSE h[k - 1].pending
    <3>1. Agrees(LastState(g[k - 1]), h[k - 1])
      BY <2>1 DEF s
    <3> DEFINE p == h[k - 1]
               states == g[k - 1]
    <3>2. PICK e \in RState :
            /\ RecordedStep(states, t, v) = Append(states, e)
            /\ Agrees(e, ApplyPoolState(p, t))
            /\ e.minted = IF IsTrade(t) THEN 0 ELSE p.pending
      <4>1. states \in Seq(RState) /\ Sound(p) /\ Agrees(LastState(states), p) /\ Fits(p, t)
        BY <2>1, <3>1
      <4> HIDE DEF p, states
      <4> QED BY ONLY <1>1, <2>1, <4>1, RecordedAgrees
    <3> QED BY <2>1, <3>2
  <2>3. g[k] \in Seq(RState) /\ Len(g[k]) = k /\ LastState(g[k]) = e
    BY <1>1, <2>1, <2>2, LastStateIs
  <2>4. c[k] = [states |-> g[k], blockers |-> {}]
    <3>1. Blocker(s, t, v) = {}
      BY <2>1, NothingBlocks
    <3>2. t.kind = "AddLiquidity" /\ s.r0 = 0 /\ s.r1 = 0 => t.liquidity = SqrtProduct(t.in0, t.in1)
      BY <2>1, NothingBlocks
    <3>3. (IF t.kind = "AddLiquidity" /\ s.r0 = 0 /\ s.r1 = 0
           THEN [t EXCEPT !.liquidity = SqrtProduct(t.in0, t.in1)] ELSE t) = t
      BY <2>1, <3>2 DEF Transaction
    <3> DEFINE d == [states |-> g[k - 1], blockers |-> {}]
               u == IF t.kind = "AddLiquidity" /\ s.r0 = 0 /\ s.r1 = 0
                    THEN [t EXCEPT !.liquidity = SqrtProduct(t.in0, t.in1)] ELSE t
    <3>4. /\ d.states = g[k - 1] /\ d.blockers = {}
          /\ [d EXCEPT !.states = g[k]] = [states |-> g[k], blockers |-> {}]
      <4>1. \A x, y, z : [[states |-> x, blockers |-> y] EXCEPT !.states = z]
                           = [states |-> z, blockers |-> y]
        OBVIOUS
      <4> QED BY ONLY <4>1, ZenonT(40)
    <3>5. u = t /\ s = LastState(d.states)
      BY <3>3, <3>4 DEF s
    <3> HIDE DEF d
    <3>6. CheckedStep(d, t, v) =
            IF d.blockers # {} THEN d
            ELSE IF Blocker(s, t, v) # {} THEN [d EXCEPT !.blockers = Blocker(s, t, v)]
            ELSE [d EXCEPT !.states = RecordedStep(@, u, v)]
      BY <3>5 DEF CheckedStep
    <3> HIDE DEF u
    <3>7. CheckedStep(d, t, v) = [d EXCEPT !.states = RecordedStep(@, t, v)]
      BY <3>1, <3>4, <3>5, <3>6
    <3>8. [d EXCEPT !.states = RecordedStep(@, t, v)] = [d EXCEPT !.states = g[k]]
      BY <2>1, <3>4 DEF d
    <3>9. c[k] = CheckedStep(d, t, v)
      BY <2>1 DEF d
    <3> QED BY <3>4, <3>7, <3>8, <3>9
  <2>5. ASSUME NEW j \in 1 .. k
        PROVE  /\ Agrees(g[k][j], h[j])
               /\ g[k][j].minted = IF IsTrade(list[j]) THEN 0 ELSE h[j - 1].pending
    <3>1. CASE j = k
      <4>1. g[k][k] = e
        BY <1>1, <2>1, <2>2
      <4> QED BY <2>2, <3>1, <4>1 DEF t
    <3>2. CASE j # k
      <4>1. j \in 1 .. k - 1
        BY <1>1, <3>2
      <4>2. g[k][j] = g[k - 1][j]
        BY <1>1, <2>1, <2>2, <4>1
      <4> QED BY <1>9, <4>1, <4>2
    <3> QED BY <3>1, <3>2
  <2> QED BY <2>2, <2>3, <2>4, <2>5
<1> HIDE DEF Good
<1>10. Good(n)
  <2>1. 0 \in T
    BY <1>1, <1>8
  <2>2. \A k \in 1 .. n : k - 1 \in T => k \in T
    BY <1>9
  <2>3. \A k \in 0 .. n : k \in T
    <3> HIDE DEF T
    <3> QED BY <1>1, <2>1, <2>2, IndexInduction
  <2> QED BY <1>1, <2>3
<1>11. Recounts(g[n], h, list)
  BY <1>10 DEF Good, Recounts, n
<1> QED BY <1>2, <1>3, <1>10, <1>11 DEF Good

\* The rebuilt state is the one kept step by step.
LEMMA HistoryRebuilt ==
  ASSUME NEW list, Announced(list), NEW h, History(h, list)
  PROVE  BuildPoolState(list) = h[Len(list)]
<1> DEFINE n == Len(list)
           v == InferVirtual(list)
<1>1. n \in Nat /\ list \in Seq(Transaction) /\ \A k \in 1 .. n : list[k] \in Transaction
  BY DEF Announced
<1>2. PICK b : BuildRun(b, list) /\ BuildPoolState(list) = b[n]
  BY <1>1, BuildThrough
<1>3. /\ b[0] = NoPoolState
      /\ \A k \in 1 .. n : b[k] = ApplyPoolState(b[k - 1], AsVirtual(b[k - 1], list[k], v))
  BY <1>2 DEF BuildRun
<1>4. /\ h[0] = NoPoolState
      /\ \A k \in 1 .. n : Fits(h[k - 1], list[k]) /\ h[k] = ApplyPoolState(h[k - 1], list[k])
  BY DEF History
<1>5. \A k \in 0 .. n : Sound(h[k])
  BY HistorySound
<1> HIDE DEF n, v
<1>6. ASSUME NEW p, Sound(p), NEW t \in Transaction, Fits(p, t)
      PROVE  ApplyPoolState(p, AsVirtual(p, t, v)) = ApplyPoolState(p, t)
  <2> DEFINE u == [t EXCEPT !.virtual = TRUE]
  <2>1. CASE ~(v /\ t.kind = "AddLiquidity" /\ p.r0 = 0 /\ p.r1 = 0)
    BY <2>1 DEF AsVirtual
  <2>2. ASSUME v /\ t.kind = "AddLiquidity" /\ p.r0 = 0 /\ p.r1 = 0
        PROVE  ApplyPoolState(p, u) = ApplyPoolState(p, t)
    <3>1. /\ u \in Transaction /\ u.kind = t.kind /\ u.in0 = t.in0 /\ u.in1 = t.in1
          /\ u.liquidity = t.liquidity /\ u.id = t.id
      BY DEF Transaction
    <3>2. ~IsTrade(t) /\ ~IsTrade(u)
      BY <2>2, <3>1 DEF IsTrade, Trades
    <3>3. /\ p \in PoolState /\ p.supply = 0 /\ p.pending = 0 /\ AddFits(p, t)
          /\ t.in0 \in Nat /\ t.in1 \in Nat /\ t.liquidity \in Nat
      BY <1>6, <2>2, <3>2, DueIs DEF Sound, Fits, TradeFits, RemoveFits, Transaction
    <3>4. SqrtProduct(t.in0, t.in1) = t.liquidity
      BY <2>2, <3>3, SqrtProductIs DEF AddFits, SharesFor
    <3> DEFINE m == ApplyPoolState(p, t)
               w == ApplyPoolState(p, u)
    <3>5. m \in PoolState /\ w \in PoolState /\ p.minted + p.pending = p.minted
      BY <3>1, <3>3, ApplyTyped DEF PoolState
    <3>6. /\ m.r0 = AfterLiquidity(t, p.r0, p.r1)[1] /\ m.r1 = AfterLiquidity(t, p.r0, p.r1)[2]
          /\ m.supply = IF Opens(p, t) THEN SqrtProduct(t.in0, t.in1)
                        ELSE p.supply + p.pending
                             + (IF t.kind = "AddLiquidity" THEN t.liquidity ELSE -t.liquidity)
          /\ m.minted = IF Opens(p, t) THEN p.minted ELSE p.minted + p.pending
          /\ m.pending = IF Opens(p, t) THEN p.pending ELSE 0
          /\ m.kLast = SqrtProduct(m.r0, m.r1)
          /\ m.swaps = p.swaps /\ m.last = IF t.id > p.last THEN t.id ELSE p.last
          /\ m.freeBasis = t.id /\ m.free0 = m.r0 /\ m.free1 = m.r1 /\ m.freeSupply = m.supply
      BY <3>2, <3>3, LiquidityApplied
    <3>7. /\ w.r0 = AfterLiquidity(u, p.r0, p.r1)[1] /\ w.r1 = AfterLiquidity(u, p.r0, p.r1)[2]
          /\ w.supply = IF Opens(p, u) THEN SqrtProduct(u.in0, u.in1)
                        ELSE p.supply + p.pending
                             + (IF u.kind = "AddLiquidity" THEN u.liquidity ELSE -u.liquidity)
          /\ w.minted = IF Opens(p, u) THEN p.minted ELSE p.minted + p.pending
          /\ w.pending = IF Opens(p, u) THEN p.pending ELSE 0
          /\ w.kLast = SqrtProduct(w.r0, w.r1)
          /\ w.swaps = p.swaps /\ w.last = IF u.id > p.last THEN u.id ELSE p.last
          /\ w.freeBasis = u.id /\ w.free0 = w.r0 /\ w.free1 = w.r1 /\ w.freeSupply = w.supply
      BY <3>1, <3>2, <3>3, LiquidityApplied
    <3> HIDE DEF m, w, u
    <3>8. w.r0 = m.r0 /\ w.r1 = m.r1
      BY <2>2, <3>1, <3>6, <3>7 DEF AfterLiquidity
    <3>9. m.supply = t.liquidity /\ w.supply = t.liquidity
      BY <2>2, <3>1, <3>3, <3>4, <3>6, <3>7
    <3>10. m.minted = p.minted /\ w.minted = p.minted /\ m.pending = 0 /\ w.pending = 0
      BY <3>3, <3>5, <3>6, <3>7
    <3>11. /\ w.kLast = m.kLast /\ w.swaps = m.swaps /\ w.last = m.last /\ w.freeBasis = m.freeBasis
           /\ w.free0 = m.free0 /\ w.free1 = m.free1 /\ w.freeSupply = m.freeSupply
      BY <3>1, <3>6, <3>7, <3>8, <3>9
    <3>12. w = m
      BY <3>5, <3>8, <3>9, <3>10, <3>11 DEF PoolState
    <3> QED BY <3>12 DEF m, w, u
  <2> QED BY <2>1, <2>2 DEF AsVirtual
<1> DEFINE T == {k \in 0 .. n : b[k] = h[k]}
<1>7. 0 \in T
  BY <1>1, <1>3, <1>4
<1>8. ASSUME NEW k \in 1 .. n, k - 1 \in T PROVE k \in T
  <2>1. /\ Sound(h[k - 1]) /\ list[k] \in Transaction /\ Fits(h[k - 1], list[k])
        /\ b[k - 1] = h[k - 1] /\ h[k] = ApplyPoolState(h[k - 1], list[k])
        /\ b[k] = ApplyPoolState(b[k - 1], AsVirtual(b[k - 1], list[k], v))
    BY <1>1, <1>3, <1>4, <1>5, <1>8
  <2>2. b[k] = h[k]
    BY <1>6, <2>1
  <2> QED BY <1>1, <2>2
<1>9. n \in T
  <2> HIDE DEF T
  <2>1. \A k \in 0 .. n : k \in T
    BY <1>1, <1>7, <1>8, IndexInduction
  <2> QED BY <1>1, <2>1
<1> QED BY <1>2, <1>9 DEF n

----------------------------------------------------------------------------
(* The pool on its chain.                                                  *)

\* One row more.
LEMMA HistoryGrows ==
  ASSUME NEW list, Announced(list), NEW h, History(h, list), NEW t \in Transaction,
         t.id = Len(list) + 1, t.virtual = FALSE, Fits(h[Len(list)], t)
  PROVE  /\ Announced(Append(list, t))
         /\ \E g : /\ History(g, Append(list, t))
                   /\ g[Len(Append(list, t))] = ApplyPoolState(h[Len(list)], t)
                   /\ \A k \in 0 .. Len(list) : g[k] = h[k]
<1> DEFINE n == Len(list)
           more == Append(list, t)
           next == ApplyPoolState(h[n], t)
           g == [k \in 0 .. n + 1 |-> IF k <= n THEN h[k] ELSE next]
<1>1. /\ n \in Nat /\ n > 0 /\ list \in Seq(Transaction) /\ list[1].kind = "AddLiquidity"
      /\ \A k \in 1 .. n : list[k].id = k /\ (list[k].virtual => k = 1)
  BY DEF Announced
<1>2. /\ more \in Seq(Transaction) /\ Len(more) = n + 1 /\ more[n + 1] = t
      /\ \A k \in 1 .. n : more[k] = list[k]
  BY <1>1
<1> HIDE DEF n, more
<1>3. Announced(more)
  <2>1. ASSUME NEW k \in 1 .. n + 1 PROVE more[k].id = k /\ (more[k].virtual => k = 1)
    <3>1. CASE k = n + 1
      BY <1>1, <1>2, <3>1 DEF n
    <3>2. CASE k # n + 1
      <4>1. k \in 1 .. n
        BY <1>1, <3>2
      <4> QED BY <1>1, <1>2, <4>1
    <3> QED BY <3>1, <3>2
  <2>2. more[1].kind = "AddLiquidity" /\ Len(more) > 0
    BY <1>1, <1>2
  <2> QED BY <1>2, <2>1, <2>2 DEF Announced
<1>4. /\ h \in [0 .. n -> PoolState] /\ h[0] = NoPoolState /\ Fits(h[n], t)
      /\ \A k \in 1 .. n : Fits(h[k - 1], list[k]) /\ h[k] = ApplyPoolState(h[k - 1], list[k])
  BY DEF History, n
<1>5. next \in PoolState
  <2>1. h[n] \in PoolState
    BY <1>1, <1>4
  <2> QED BY <2>1, ApplyTyped
<1> HIDE DEF next
<1>6. g \in [0 .. n + 1 -> PoolState] /\ g[n + 1] = next /\ \A k \in 0 .. n : g[k] = h[k]
  BY <1>1, <1>4, <1>5
<1> HIDE DEF g
<1>7. ASSUME NEW k \in 1 .. n + 1
      PROVE  Fits(g[k - 1], more[k]) /\ g[k] = ApplyPoolState(g[k - 1], more[k])
  <2>1. CASE k = n + 1
    <3>1. g[k - 1] = h[n] /\ g[k] = next /\ more[k] = t
      BY <1>1, <1>2, <1>6, <2>1
    <3> QED BY <1>4, <3>1 DEF next
  <2>2. CASE k # n + 1
    <3>1. k \in 1 .. n /\ k - 1 \in 0 .. n
      BY <1>1, <2>2
    <3> QED BY <1>2, <1>4, <1>6, <3>1
  <2> QED BY <2>1, <2>2
<1>8. History(g, more)
  <2>1. g[0] = NoPoolState
    BY <1>1, <1>4, <1>6
  <2> QED BY <1>2, <1>6, <1>7, <2>1 DEF History
<1> QED BY <1>2, <1>3, <1>6, <1>8 DEF more, n, next

\* One row less.
LEMMA HistoryPrefix ==
  ASSUME NEW list \in Seq(Transaction), NEW t \in Transaction, NEW g, History(g, Append(list, t))
  PROVE  \E h : History(h, list) /\ \A k \in 0 .. Len(list) : h[k] = g[k]
<1> DEFINE n == Len(list)
           h == [k \in 0 .. n |-> g[k]]
<1>1. /\ n \in Nat /\ Len(Append(list, t)) = n + 1
      /\ \A k \in 1 .. n : Append(list, t)[k] = list[k]
  OBVIOUS
<1>2. /\ g \in [0 .. n + 1 -> PoolState] /\ g[0] = NoPoolState
      /\ \A k \in 1 .. n + 1 : /\ Fits(g[k - 1], Append(list, t)[k])
                               /\ g[k] = ApplyPoolState(g[k - 1], Append(list, t)[k])
  BY <1>1 DEF History
<1> HIDE DEF n
<1>3. h \in [0 .. n -> PoolState] /\ \A k \in 0 .. n : h[k] = g[k]
  BY <1>1, <1>2
<1> HIDE DEF h
<1>4. ASSUME NEW k \in 1 .. n PROVE Fits(h[k - 1], list[k]) /\ h[k] = ApplyPoolState(h[k - 1], list[k])
  <2>1. k \in 1 .. n + 1 /\ k \in 0 .. n /\ k - 1 \in 0 .. n
    BY <1>1
  <2> QED BY <1>1, <1>2, <1>3, <2>1
<1>5. History(h, list)
  <2>1. h[0] = NoPoolState
    <3>1. 0 \in 0 .. n
      BY <1>1
    <3>2. g[0] = NoPoolState
      BY <1>2
    <3> QED BY <1>3, <3>1, <3>2
  <2> QED BY <1>3, <1>4, <2>1 DEF History, n
<1> QED BY <1>3, <1>5 DEF n

Pools == [r0 : Nat, r1 : Nat, supply : Nat, kLast : Nat, shares : [Owners -> Nat]]

\* The shares are the supply, and the pool is where its history leads.
Chain ==
  /\ pool \in Pools /\ SumFunction(pool.shares) = pool.supply
  /\ Announced(rows)
  /\ \E h : History(h, rows) /\ Agrees(h[Len(rows)], pool)

\* The transaction that opens the pool is a history of one step.
LEMMA ChainInit == Init => Chain
<1> SUFFICES ASSUME Init PROVE Chain
  OBVIOUS
<1> DEFINE supply == ISqrt(Opening * Opening)
<1>1. Opening \in Nat \ {0} /\ IsFiniteSet(Owners) /\ Creator \in Owners
  BY SnapshotsAssumption
<1>2. supply = Opening
  <2>1. Opening * Opening \in Nat /\ Opening \in Nat /\ Opening * Opening <= Opening * Opening
        /\ Opening * Opening < (Opening + 1) * (Opening + 1)
    BY <1>1
  <2> QED BY <2>1, RootUnique
<1>3. PICK virtual \in BOOLEAN : Open(virtual)
  BY DEF Init
<1> DEFINE t == [id |-> 1, kind |-> "AddLiquidity", owner |-> Creator, in0 |-> Opening,
                 out0 |-> 0, in1 |-> Opening, out1 |-> 0, liquidity |-> supply,
                 virtual |-> virtual]
<1>4. pool = [r0 |-> Opening, r1 |-> Opening, supply |-> supply, kLast |-> supply,
              shares |-> [o \in Owners |-> IF o = Creator THEN supply ELSE 0]] /\ rows = <<t>>
  BY <1>3 DEF Open
<1>5. t \in Transaction /\ t.liquidity > 0 /\ t.kind = "AddLiquidity" /\ t.id = 1
  BY <1>1, <1>2 DEF Transaction, Kinds
<1>6. t.in0 = Opening /\ t.in1 = Opening /\ t.liquidity = ISqrt(t.in0 * t.in1)
  OBVIOUS
<1> HIDE DEF supply, t
<1>7. Len(rows) = 1 /\ rows[1] = t /\ rows \in Seq(Transaction)
  BY <1>4, <1>5
<1>8. Announced(rows)
  BY <1>5, <1>7 DEF Announced
<1>9. pool \in Pools
  BY <1>1, <1>2, <1>4 DEF Pools
<1>10. SumFunction(pool.shares) = pool.supply
  <2> DEFINE zero == [o \in Owners |-> 0]
             f == [o \in Owners |-> IF o = Creator THEN supply ELSE 0]
  <2>1. zero \in [Owners -> {0}] /\ zero \in [Owners -> Int] /\ zero[Creator] = 0
        /\ f \in [Owners -> Int] /\ f[Creator] = supply /\ supply \in Int
        /\ \A o \in Owners \ {Creator} : f[o] = zero[o]
    BY <1>1, <1>2
  <2> HIDE DEF zero, f
  <2>2. SumFunction(zero) = 0
    BY <1>1, <2>1, SumZero
  <2>3. SumFunction(f) = SumFunction(zero) - zero[Creator] + supply
    BY <1>1, <2>1, SumUpdate
  <2>4. SumFunction(f) = supply
    BY <2>1, <2>2, <2>3
  <2> QED BY <1>4, <2>4 DEF f
<1> DEFINE next == ApplyPoolState(NoPoolState, t)
           h == [k \in 0 .. 1 |-> IF k = 0 THEN NoPoolState ELSE next]
<1>11. Fits(NoPoolState, t)
  <2>1. t.liquidity = SharesFor(0 + 0, 0, 0, t.in0, t.in1)
    BY <1>6 DEF SharesFor
  <2> QED BY <1>5, <2>1 DEF Fits, AddFits, NoPoolState
<1>12. Agrees(next, pool)
  <2>1. /\ next.supply = NoPoolState.supply + NoPoolState.pending + t.liquidity
        /\ next.r0 = NoPoolState.r0 + t.in0 /\ next.r1 = NoPoolState.r1 + t.in1
        /\ next.kLast = ISqrt(next.r0 * next.r1)
    BY <1>5, <1>11, NothingSound, AddStep DEF Fits, TradeFits, RemoveFits, IsTrade, Trades
  <2> HIDE DEF next
  <2>2. /\ next.r0 = Opening /\ next.r1 = Opening /\ next.supply = supply
        /\ next.kLast = supply
    BY <1>1, <1>2, <1>6, <2>1 DEF NoPoolState, supply
  <2> QED BY <1>4, <2>2 DEF Agrees
<1>13. next \in PoolState /\ NoPoolState \in PoolState
  BY <1>5, NothingSound, ApplyTyped DEF Sound
<1> HIDE DEF next
<1>14. h \in [0 .. 1 -> PoolState] /\ h[0] = NoPoolState /\ h[1] = next
  BY <1>13
<1> HIDE DEF h
<1>15. History(h, rows)
  <2>1. \A k \in 1 .. 1 : k = 1
    OBVIOUS
  <2>2. Fits(h[1 - 1], rows[1]) /\ h[1] = ApplyPoolState(h[1 - 1], rows[1])
    BY <1>7, <1>11, <1>14 DEF next
  <2> QED BY <1>7, <1>14, <2>1, <2>2 DEF History
<1> QED BY <1>7, <1>8, <1>9, <1>10, <1>12, <1>14, <1>15 DEF Chain

\* What a row changes in the shares of an account.
ShareChange(x, due, t) ==
  (IF x = Creator /\ ~IsTrade(t) THEN due ELSE 0)
  + (IF x = t.owner /\ ~IsTrade(t)
     THEN IF t.kind = "AddLiquidity" THEN t.liquidity ELSE -t.liquidity ELSE 0)

\* The pool announces a row that its state allows, and follows it.
Grows(p, t) ==
  /\ t \in Transaction /\ t.id = Len(rows) + 1 /\ t.virtual = FALSE /\ rows' = Append(rows, t)
  /\ Fits(p, t) /\ Agrees(ApplyPoolState(p, t), pool')
  /\ t.kind = "RemoveLiquidity" => t.liquidity <= pool.shares[t.owner]
  /\ pool' \in Pools
  /\ \A x \in Owners : pool'.shares[x] = pool.shares[x] + ShareChange(x, p.pending, t)

\* The supply follows the shares of the fee receiver and of the owner.
LEMMA SharesAddUp ==
  ASSUME NEW f \in [Owners -> Nat], NEW g \in [Owners -> Nat], NEW fee \in Nat, NEW d \in Int,
         NEW o \in Owners,
         \A x \in Owners : g[x] = f[x] + (IF x = Creator THEN fee ELSE 0) + (IF x = o THEN d ELSE 0)
  PROVE  SumFunction(g) = SumFunction(f) + fee + d
<1> DEFINE m == [x \in Owners |-> f[x] + (IF x = Creator THEN fee ELSE 0)]
<1>1. IsFiniteSet(Owners) /\ Creator \in Owners
  BY SnapshotsAssumption
<1>2. /\ m \in [Owners -> Int] /\ f \in [Owners -> Int] /\ g \in [Owners -> Int]
      /\ m[Creator] = f[Creator] + fee /\ \A x \in Owners \ {Creator} : m[x] = f[x]
  BY <1>1
<1>3. g[o] = m[o] + d /\ \A x \in Owners \ {o} : g[x] = m[x]
  OBVIOUS
<1> HIDE DEF m
<1>4. f[Creator] \in Int /\ f[Creator] + fee \in Int /\ m[o] \in Int /\ m[o] + d \in Int
  BY <1>1, <1>2
<1>5. SumFunction(f) \in Int
  BY <1>1, SumType
<1>6. SumFunction(m) = SumFunction(f) - f[Creator] + (f[Creator] + fee)
  BY ONLY <1>1, <1>2, <1>4, SumUpdate
<1>7. SumFunction(g) = SumFunction(m) - m[o] + (m[o] + d)
  BY ONLY <1>1, <1>2, <1>3, <1>4, SumUpdate
<1> QED BY <1>4, <1>5, <1>6, <1>7

\* The state a pool's history leads to, in its own terms.
LEMMA PoolIs ==
  ASSUME Chain, NEW h, History(h, rows), Agrees(h[Len(rows)], pool)
  PROVE  LET p == h[Len(rows)] IN
         /\ p \in PoolState /\ Sound(p) /\ p.pending \in Nat
         /\ p.pending = FeeShare(pool.supply, pool.r0, pool.r1, pool.kLast)
         /\ p.r0 = pool.r0 /\ p.r1 = pool.r1 /\ p.supply = pool.supply /\ p.kLast = pool.kLast
         /\ pool.r0 \in Nat /\ pool.r1 \in Nat /\ pool.supply \in Nat /\ pool.kLast \in Nat
         /\ pool.shares \in [Owners -> Nat]
         /\ \A x \in Owners : pool.shares[x] <= pool.supply
<1> DEFINE p == h[Len(rows)]
<1>1. Announced(rows) /\ pool \in Pools /\ SumFunction(pool.shares) = pool.supply
  BY DEF Chain
<1>2. Len(rows) \in 0 .. Len(rows)
  BY <1>1 DEF Announced
<1>3. Sound(p)
  BY <1>1, <1>2, HistorySound
<1> HIDE DEF p
<1>4. p.r0 = pool.r0 /\ p.r1 = pool.r1 /\ p.supply = pool.supply /\ p.kLast = pool.kLast
  BY DEF Agrees, p
<1>5. p.pending \in Nat
  BY <1>3, DueIs
<1>6. \A x \in Owners : pool.shares[x] <= pool.supply
  <2>1. pool.shares \in [Owners -> Nat] /\ IsFiniteSet(Owners)
    BY <1>1, SnapshotsAssumption DEF Pools
  <2> QED BY <1>1, <2>1, SumBound
<1> QED BY <1>1, <1>3, <1>4, <1>5, <1>6 DEF Sound, Pools, p

\* An addition the pool chain takes fits the state its history ended in.
LEMMA AddGrows ==
  ASSUME Chain, NEW h, History(h, rows), Agrees(h[Len(rows)], pool),
         NEW o \in Owners, NEW want0 \in Nat, NEW want1 \in Nat, AddLiquidity(o, want0, want1)
  PROVE  \E t : Grows(h[Len(rows)], t)
<1> DEFINE p == h[Len(rows)]
           due == p.pending
           pair == OptimalPair(pool.r0, pool.r1, want0, want1, 0, 0)
           fed == WithFee
           minted == SharesFor(fed.supply, fed.r0, fed.r1, pair[1], pair[2])
           t == [id |-> Len(rows) + 1, kind |-> "AddLiquidity", owner |-> o, in0 |-> pair[1],
                 out0 |-> 0, in1 |-> pair[2], out1 |-> 0, liquidity |-> minted, virtual |-> FALSE]
           kLast == ISqrt((fed.r0 + pair[1]) * (fed.r1 + pair[2]))
<1>1. /\ minted > 0 /\ rows' = Append(rows, t)
      /\ pool' = [fed EXCEPT !.r0 = @ + pair[1], !.r1 = @ + pair[2], !.supply = @ + minted,
                             !.kLast = kLast, !.shares[o] = @ + minted]
  BY DEF AddLiquidity, Announce
<1>2. /\ p \in PoolState /\ Sound(p) /\ due \in Nat
      /\ due = FeeShare(pool.supply, pool.r0, pool.r1, pool.kLast)
      /\ p.r0 = pool.r0 /\ p.r1 = pool.r1 /\ p.supply = pool.supply /\ p.kLast = pool.kLast
      /\ pool.r0 \in Nat /\ pool.r1 \in Nat /\ pool.supply \in Nat /\ pool.kLast \in Nat
      /\ pool.shares \in [Owners -> Nat]
  BY PoolIs
<1>3. Len(rows) \in Nat /\ Creator \in Owners /\ pool \in Pools
  BY SnapshotsAssumption DEF Chain, Announced
<1> HIDE DEF p
<1>4. fed = [pool EXCEPT !.supply = @ + due, !.shares[Creator] = @ + due]
  BY <1>2 DEF WithFee
<1> HIDE DEF due, fed, pair
<1>5. /\ fed.r0 = pool.r0 /\ fed.r1 = pool.r1 /\ fed.supply = pool.supply + due
      /\ fed.shares \in [Owners -> Nat]
      /\ \A x \in Owners : fed.shares[x] = pool.shares[x] + (IF x = Creator THEN due ELSE 0)
  BY <1>2, <1>3, <1>4, SMTT(20) DEF Pools
<1>6. pair[1] \in Nat /\ pair[2] \in Nat
  <2>1. pool.r0 = 0 <=> pool.r1 = 0
    BY <1>2 DEF Sound
  <2>2. 0 \in Nat
    OBVIOUS
  <2>3. pair[1] \in 0 .. want0 /\ pair[2] \in 0 .. want1
    BY <1>2, <2>1, <2>2, PairBound DEF pair
  <2> QED BY <2>3
<1>7. minted \in Nat
  <2> DEFINE a0 == pair[1]
             a1 == pair[2]
             supply == fed.supply
  <2>1. a0 \in Nat /\ a1 \in Nat /\ a0 * a1 \in Nat /\ supply \in Nat
    <3>1. a0 \in Nat /\ a1 \in Nat /\ supply \in Nat
      BY <1>2, <1>5, <1>6
    <3> HIDE DEF a0, a1
    <3> QED BY <3>1
  <2>2. minted = SharesFor(supply, pool.r0, pool.r1, a0, a1)
    BY <1>5
  <2> HIDE DEF minted, a0, a1
  <2>3. ISqrt(a0 * a1) \in Nat
    BY <2>1, ISqrtSpec
  <2>4. CASE (pool.r0 = 0 /\ pool.r1 = 0) \/ supply = 0
    BY <2>2, <2>3, <2>4 DEF SharesFor
  <2>5. CASE ~((pool.r0 = 0 /\ pool.r1 = 0) \/ supply = 0)
    <3>1. pool.r0 \in Nat \ {0} /\ pool.r1 \in Nat \ {0} /\ supply \in Nat \ {0}
      BY <1>2, <2>1, <2>5 DEF Sound
    <3> HIDE DEF supply
    <3> QED BY <2>1, <2>2, <3>1, SharesBound
  <2> QED BY <2>4, <2>5
<1>8. kLast \in Nat /\ kLast = ISqrt((pool.r0 + pair[1]) * (pool.r1 + pair[2]))
  <2> DEFINE k == (pool.r0 + pair[1]) * (pool.r1 + pair[2])
  <2>1. k \in Nat /\ kLast = ISqrt(k)
    <3> DEFINE n0 == pool.r0 + pair[1]
               n1 == pool.r1 + pair[2]
    <3>1. n0 \in Nat /\ n1 \in Nat
      <4>1. pool.r0 \in Nat /\ pool.r1 \in Nat
        BY <1>2
      <4> QED BY ONLY <1>6, <4>1
    <3>2. kLast = ISqrt(n0 * n1)
      BY <1>5
    <3> HIDE DEF n0, n1
    <3>3. n0 * n1 \in Nat
      BY <3>1
    <3> QED BY <3>2, <3>3 DEF n0, n1
  <2> HIDE DEF k, kLast
  <2>2. ISqrt(k) \in Nat
    BY <2>1, ISqrtSpec
  <2> QED BY <2>1, <2>2 DEF k
<1>9. minted = SharesFor(pool.supply + due, pool.r0, pool.r1, pair[1], pair[2])
  BY <1>5
<1> HIDE DEF minted, kLast
<1>10. t \in Transaction
  BY <1>3, <1>6, <1>7 DEF Transaction, Kinds
<1>11. /\ t.id = Len(rows) + 1 /\ t.kind = "AddLiquidity" /\ t.virtual = FALSE /\ t.owner = o
       /\ t.in0 = pair[1] /\ t.in1 = pair[2] /\ t.liquidity = minted
  OBVIOUS
<1> HIDE DEF t
<1>12. AddFits(p, t)
  BY <1>1, <1>2, <1>9, <1>11 DEF AddFits, due
<1>13. /\ pool'.r0 = pool.r0 + pair[1] /\ pool'.r1 = pool.r1 + pair[2]
       /\ pool'.supply = pool.supply + due + minted /\ pool'.kLast = kLast
       /\ pool'.shares = [fed.shares EXCEPT ![o] = @ + minted]
       /\ pool' = [r0 |-> pool'.r0, r1 |-> pool'.r1, supply |-> pool'.supply,
                   kLast |-> pool'.kLast, shares |-> pool'.shares]
  <2>1. fed = [r0 |-> fed.r0, r1 |-> fed.r1, supply |-> fed.supply, kLast |-> fed.kLast,
               shares |-> fed.shares]
    BY <1>3, <1>4 DEF Pools
  <2> QED BY <1>1, <1>5, <2>1
<1>14. /\ pool'.shares \in [Owners -> Nat]
       /\ \A x \in Owners : pool'.shares[x] = pool.shares[x] + ShareChange(x, due, t)
  <2>1. ~IsTrade(t)
    BY <1>11 DEF IsTrade, Trades
  <2>2. \A x \in Owners : pool'.shares[x] = fed.shares[x] + (IF x = o THEN minted ELSE 0)
    BY <1>5, <1>7, <1>13
  <2>3. \A x \in Owners : ShareChange(x, due, t)
            = (IF x = Creator THEN due ELSE 0) + (IF x = o THEN minted ELSE 0)
    BY <1>11, <2>1 DEF ShareChange
  <2>4. pool'.shares \in [Owners -> Nat]
    <3>1. fed.shares[o] + minted \in Nat
      BY <1>5, <1>7
    <3> QED BY <1>5, <1>13, <3>1
  <2>5. ASSUME NEW x \in Owners PROVE pool'.shares[x] = pool.shares[x] + ShareChange(x, due, t)
    <3>1. /\ pool'.shares[x] = fed.shares[x] + (IF x = o THEN minted ELSE 0)
          /\ fed.shares[x] = pool.shares[x] + (IF x = Creator THEN due ELSE 0)
          /\ ShareChange(x, due, t) = (IF x = Creator THEN due ELSE 0) + (IF x = o THEN minted ELSE 0)
      BY <1>5, <2>2, <2>3
    <3>2. pool.shares[x] \in Nat /\ due \in Nat
      BY <1>2 DEF due
    <3> QED BY <1>7, <3>1, <3>2
  <2> QED BY <2>4, <2>5
<1>15. pool' \in Pools
  <2>1. pool.r0 \in Nat /\ pool.r1 \in Nat /\ pool.supply \in Nat /\ due \in Nat
    BY <1>2 DEF due
  <2>2. pool'.r0 \in Nat /\ pool'.r1 \in Nat /\ pool'.supply \in Nat /\ pool'.kLast \in Nat
    BY ONLY <1>6, <1>7, <1>8, <1>13, <2>1
  <2> QED BY <1>13, <1>14, <2>2 DEF Pools
<1>16. Agrees(ApplyPoolState(p, t), pool')
  <2> DEFINE m == ApplyPoolState(p, t)
  <2>1. /\ m.supply = p.supply + p.pending + t.liquidity
        /\ m.r0 = p.r0 + t.in0 /\ m.r1 = p.r1 + t.in1 /\ m.kLast = ISqrt(m.r0 * m.r1)
    BY <1>2, <1>10, <1>12, AddStep
  <2> HIDE DEF m
  <2>2. m.r0 = pool'.r0 /\ m.r1 = pool'.r1 /\ m.supply = pool'.supply
    BY <1>2, <1>11, <1>13, <2>1 DEF due
  <2>3. m.kLast = pool'.kLast
    BY <1>8, <1>13, <2>1, <2>2
  <2> QED BY <2>2, <2>3 DEF Agrees, m
<1>17. Fits(p, t) /\ t.kind # "RemoveLiquidity"
  BY <1>11, <1>12 DEF Fits
<1>18. Grows(p, t)
  BY <1>1, <1>10, <1>11, <1>14, <1>15, <1>16, <1>17 DEF Grows, due
<1> QED BY <1>18 DEF p

\* A removal the pool chain takes fits the state its history ended in.
LEMMA RemoveGrows ==
  ASSUME Chain, NEW h, History(h, rows), Agrees(h[Len(rows)], pool),
         NEW o \in Owners, NEW liquidity, RemoveLiquidity(o, liquidity)
  PROVE  \E t : Grows(h[Len(rows)], t)
<1> DEFINE p == h[Len(rows)]
           due == p.pending
           fed == WithFee
           out0 == PayoutFor(liquidity, fed.supply, fed.r0)
           out1 == PayoutFor(liquidity, fed.supply, fed.r1)
           t == [id |-> Len(rows) + 1, kind |-> "RemoveLiquidity", owner |-> o, in0 |-> 0,
                 out0 |-> out0, in1 |-> 0, out1 |-> out1, liquidity |-> liquidity,
                 virtual |-> FALSE]
           kLast == ISqrt((fed.r0 - out0) * (fed.r1 - out1))
<1>1. /\ out0 > 0 /\ out1 > 0 /\ liquidity \in 1 .. pool.shares[o] /\ rows' = Append(rows, t)
      /\ pool' = [fed EXCEPT !.r0 = @ - out0, !.r1 = @ - out1, !.supply = @ - liquidity,
                             !.kLast = kLast, !.shares[o] = @ - liquidity]
  BY DEF RemoveLiquidity, Announce
<1>2. /\ p \in PoolState /\ Sound(p) /\ due \in Nat
      /\ due = FeeShare(pool.supply, pool.r0, pool.r1, pool.kLast)
      /\ p.r0 = pool.r0 /\ p.r1 = pool.r1 /\ p.supply = pool.supply /\ p.kLast = pool.kLast
      /\ pool.r0 \in Nat /\ pool.r1 \in Nat /\ pool.supply \in Nat /\ pool.kLast \in Nat
      /\ pool.shares \in [Owners -> Nat] /\ \A x \in Owners : pool.shares[x] <= pool.supply
  BY PoolIs
<1>3. Len(rows) \in Nat /\ Creator \in Owners /\ pool \in Pools
  BY SnapshotsAssumption DEF Chain, Announced
<1> HIDE DEF p
<1>4. fed = [pool EXCEPT !.supply = @ + due, !.shares[Creator] = @ + due]
  BY <1>2 DEF WithFee
<1>5. due \in Nat /\ due = p.pending
  BY <1>2
<1> HIDE DEF due, fed
<1>6. /\ fed.r0 = pool.r0 /\ fed.r1 = pool.r1 /\ fed.supply = pool.supply + due
      /\ fed.shares \in [Owners -> Nat]
      /\ \A x \in Owners : fed.shares[x] = pool.shares[x] + (IF x = Creator THEN due ELSE 0)
  BY <1>2, <1>3, <1>4, <1>5 DEF Pools
<1>7. /\ liquidity \in Nat /\ liquidity > 0 /\ liquidity <= pool.shares[o]
      /\ liquidity \in 0 .. fed.supply /\ fed.supply \in Nat \ {0} /\ liquidity <= fed.shares[o]
  <2>1. pool.shares[o] \in Nat /\ pool.shares[o] <= pool.supply
    BY <1>2
  <2>2. liquidity \in Nat /\ liquidity > 0 /\ liquidity <= pool.shares[o]
    BY <1>1, <2>1
  <2>3. fed.shares[o] = pool.shares[o] + (IF o = Creator THEN due ELSE 0)
    BY <1>6
  <2>4. pool.supply \in Nat /\ fed.supply = pool.supply + due
    BY <1>2, <1>6
  <2>5. fed.shares[o] = pool.shares[o] \/ fed.shares[o] = pool.shares[o] + due
    BY <1>5, <2>1, <2>3
  <2> DEFINE x == fed.shares[o]
             y == pool.shares[o]
             z == pool.supply
             u == fed.supply
  <2>6. y \in Nat /\ z \in Nat /\ y <= z /\ liquidity \in Nat /\ liquidity > 0 /\ liquidity <= y
        /\ u = z + due /\ (x = y \/ x = y + due)
    BY <2>1, <2>2, <2>4, <2>5
  <2> HIDE DEF x, y, z, u
  <2>7. u \in Nat \ {0} /\ liquidity \in 0 .. u /\ liquidity <= x
    BY <1>5, <2>6
  <2> QED BY <2>2, <2>7 DEF x, u
<1>8. out0 \in 0 .. pool.r0 /\ out1 \in 0 .. pool.r1
  <2> DEFINE supply == fed.supply
  <2>1. /\ pool.r0 \in Nat /\ pool.r1 \in Nat /\ supply \in Nat \ {0} /\ liquidity \in 0 .. supply
        /\ out0 = PayoutFor(liquidity, supply, pool.r0)
        /\ out1 = PayoutFor(liquidity, supply, pool.r1)
    BY <1>2, <1>6, <1>7
  <2> HIDE DEF out0, out1, supply
  <2>2. out0 \in 0 .. pool.r0
    BY ONLY <2>1, PayoutBound
  <2>3. out1 \in 0 .. pool.r1
    BY ONLY <2>1, PayoutBound
  <2> QED BY <2>2, <2>3
<1>9. /\ out0 = PayoutFor(liquidity, pool.supply + due, pool.r0)
      /\ out1 = PayoutFor(liquidity, pool.supply + due, pool.r1)
  BY <1>6
<1> HIDE DEF out0, out1
<1>10. kLast \in Nat /\ kLast = ISqrt((pool.r0 - out0) * (pool.r1 - out1))
  <2> DEFINE n0 == pool.r0 - out0
             n1 == pool.r1 - out1
  <2>1. n0 \in Nat /\ n1 \in Nat
    <3>1. pool.r0 \in Nat /\ pool.r1 \in Nat
      BY <1>2
    <3> QED BY ONLY <1>8, <3>1
  <2>2. kLast = ISqrt(n0 * n1)
    BY <1>6
  <2> HIDE DEF n0, n1, kLast
  <2>3. n0 * n1 \in Nat
    BY <2>1
  <2>4. ISqrt(n0 * n1) \in Nat
    BY <2>3, ISqrtSpec
  <2> QED BY <2>2, <2>4 DEF n0, n1
<1> HIDE DEF kLast
<1>11. t \in Transaction
  <2>1. out0 \in Nat /\ out1 \in Nat /\ Len(rows) + 1 \in Nat
    BY <1>2, <1>3, <1>8
  <2> QED BY <1>7, <2>1 DEF Transaction, Kinds
<1>12. /\ t.id = Len(rows) + 1 /\ t.kind = "RemoveLiquidity" /\ t.virtual = FALSE /\ t.owner = o
       /\ t.out0 = out0 /\ t.out1 = out1 /\ t.liquidity = liquidity
  OBVIOUS
<1> HIDE DEF t
<1>13. RemoveFits(p, t)
  BY <1>1, <1>2, <1>5, <1>6, <1>7, <1>9, <1>12 DEF RemoveFits
<1>14. /\ pool' \in Pools /\ pool'.r0 = pool.r0 - out0 /\ pool'.r1 = pool.r1 - out1
       /\ pool'.supply = pool.supply + due - liquidity /\ pool'.kLast = kLast
       /\ pool'.shares = [fed.shares EXCEPT ![o] = fed.shares[o] - liquidity]
  <2>1. fed \in Pools
    <3>1. pool.supply + due \in Nat /\ pool.shares[Creator] + due \in Nat
      BY <1>2, <1>3, <1>5
    <3> DEFINE supply == pool.supply + due
               share == pool.shares[Creator] + due
    <3>2. fed = [pool EXCEPT !.supply = supply, !.shares[Creator] = share]
      BY <1>3, <1>4 DEF Pools
    <3> HIDE DEF supply, share
    <3> QED BY <1>3, <3>1, <3>2 DEF Pools, supply, share
  <2> DEFINE a == fed.r0 - out0
             b == fed.r1 - out1
             c == fed.supply - liquidity
             v == fed.shares[o] - liquidity
  <2>2. pool' = [fed EXCEPT !.r0 = a, !.r1 = b, !.supply = c, !.kLast = kLast, !.shares[o] = v]
    BY <1>1
  <2>3. a \in Nat /\ b \in Nat
    <3>1. pool.r0 \in Nat /\ pool.r1 \in Nat
      BY <1>2
    <3> QED BY <1>6, <1>8, <3>1
  <2>4. c \in Nat /\ v \in Nat /\ o \in Owners
    BY <1>6, <1>7
  <2>5. a = pool.r0 - out0 /\ b = pool.r1 - out1 /\ c = pool.supply + due - liquidity
    BY <1>2, <1>5, <1>6, <1>7
  <2> HIDE DEF a, b, c
  <2>6. /\ pool' \in Pools /\ pool'.r0 = a /\ pool'.r1 = b /\ pool'.supply = c
        /\ pool'.kLast = kLast /\ pool'.shares = [fed.shares EXCEPT ![o] = v]
    <3> HIDE DEF v
    <3> DEFINE g == [fed EXCEPT !.r0 = a, !.r1 = b, !.supply = c, !.kLast = kLast,
                                !.shares[o] = v]
    <3>1. /\ g \in Pools /\ g.r0 = a /\ g.r1 = b /\ g.supply = c /\ g.kLast = kLast
          /\ g.shares = [fed.shares EXCEPT ![o] = v]
      BY ONLY <1>10, <2>1, <2>3, <2>4 DEF Pools
    <3>2. pool' = g
      BY <2>2
    <3> HIDE DEF g
    <3> QED BY <3>1, <3>2
  <2> QED BY <2>5, <2>6
<1>15. /\ pool'.shares \in [Owners -> Nat]
       /\ \A x \in Owners : pool'.shares[x] = pool.shares[x] + ShareChange(x, due, t)
  <2>1. ~IsTrade(t) /\ t.kind # "AddLiquidity"
    BY <1>12 DEF IsTrade, Trades
  <2>2. \A x \in Owners : pool'.shares[x] = fed.shares[x] + (IF x = o THEN -liquidity ELSE 0)
    BY <1>6, <1>7, <1>14
  <2>3. \A x \in Owners : ShareChange(x, due, t)
            = (IF x = Creator THEN due ELSE 0) + (IF x = o THEN -liquidity ELSE 0)
    BY <1>12, <2>1 DEF ShareChange
  <2>4. pool'.shares \in [Owners -> Nat]
    <3>1. fed.shares[o] - liquidity \in Nat
      BY <1>6, <1>7
    <3> QED BY <1>6, <1>14, <3>1
  <2>5. ASSUME NEW x \in Owners PROVE pool'.shares[x] = pool.shares[x] + ShareChange(x, due, t)
    <3>1. /\ pool'.shares[x] = fed.shares[x] + (IF x = o THEN -liquidity ELSE 0)
          /\ fed.shares[x] = pool.shares[x] + (IF x = Creator THEN due ELSE 0)
          /\ ShareChange(x, due, t) = (IF x = Creator THEN due ELSE 0) + (IF x = o THEN -liquidity ELSE 0)
      BY <1>6, <2>2, <2>3
    <3>2. pool.shares[x] \in Nat
      BY <1>2
    <3> QED BY <1>5, <1>7, <3>1, <3>2
  <2> QED BY <2>4, <2>5
<1>17. Agrees(ApplyPoolState(p, t), pool')
  <2> DEFINE m == ApplyPoolState(p, t)
  <2>1. /\ m.supply = p.supply + p.pending - t.liquidity
        /\ m.r0 = p.r0 - t.out0 /\ m.r1 = p.r1 - t.out1 /\ m.kLast = ISqrt(m.r0 * m.r1)
    BY <1>2, <1>11, <1>13, RemoveStep
  <2> HIDE DEF m
  <2>2. m.r0 = pool'.r0 /\ m.r1 = pool'.r1 /\ m.supply = pool'.supply
    BY <1>2, <1>5, <1>12, <1>14, <2>1
  <2>3. m.kLast = pool'.kLast
    BY <1>10, <1>14, <2>1, <2>2
  <2> QED BY <2>2, <2>3 DEF Agrees, m
<1>18. Fits(p, t) /\ t.liquidity <= pool.shares[t.owner]
  BY <1>7, <1>12, <1>13 DEF Fits
<1>19. Grows(p, t)
  BY <1>1, <1>5, <1>11, <1>12, <1>14, <1>15, <1>17, <1>18 DEF Grows
<1> QED BY <1>19 DEF p

\* A swap the pool chain takes fits the state its history ended in.
LEMMA SwapGrows ==
  ASSUME Chain, NEW h, History(h, rows), Agrees(h[Len(rows)], pool),
         NEW o \in Owners, NEW kind \in Trades, NEW amount \in Nat, Swap(o, kind, amount)
  PROVE  \E t : Grows(h[Len(rows)], t)
<1> DEFINE p == h[Len(rows)]
           buys == kind = "BuyToken0"
           out == IF buys THEN AmountOut(pool.r1, pool.r0, amount)
                  ELSE AmountOut(pool.r0, pool.r1, amount)
           t == [id |-> Len(rows) + 1, kind |-> kind, owner |-> o,
                 in0 |-> IF buys THEN 0 ELSE amount, out0 |-> IF buys THEN out ELSE 0,
                 in1 |-> IF buys THEN amount ELSE 0, out1 |-> IF buys THEN 0 ELSE out,
                 liquidity |-> 0, virtual |-> FALSE]
<1>1. /\ pool.r0 > 0 /\ pool.r1 > 0 /\ out > 0
      /\ pool' = IF buys THEN [pool EXCEPT !.r0 = @ - out, !.r1 = @ + amount]
                 ELSE [pool EXCEPT !.r0 = @ + amount, !.r1 = @ - out]
      /\ rows' = Append(rows, t)
  <2>1. CASE buys
    BY <2>1 DEF Swap, Announce
  <2>2. CASE ~buys
    BY <2>2 DEF Swap, Announce
  <2> QED BY <2>1, <2>2
<1>2. /\ p \in PoolState /\ Sound(p) /\ p.pending \in Nat
      /\ p.r0 = pool.r0 /\ p.r1 = pool.r1 /\ p.supply = pool.supply /\ p.kLast = pool.kLast
      /\ pool.r0 \in Nat /\ pool.r1 \in Nat /\ pool.supply \in Nat /\ pool.kLast \in Nat
      /\ pool.shares \in [Owners -> Nat]
  BY PoolIs
<1>3. Len(rows) \in Nat /\ pool \in Pools
  BY DEF Chain, Announced
<1> HIDE DEF p
<1>4. pool.r0 \in Nat \ {0} /\ pool.r1 \in Nat \ {0}
  BY <1>1, <1>2
<1>5. out \in Nat /\ (buys => out < pool.r0) /\ (~buys => out < pool.r1)
  <2>1. /\ AmountOut(pool.r1, pool.r0, amount) \in Nat
        /\ AmountOut(pool.r1, pool.r0, amount) < pool.r0
        /\ AmountOut(pool.r0, pool.r1, amount) \in Nat
        /\ AmountOut(pool.r0, pool.r1, amount) < pool.r1
    BY <1>4, OutputBelow
  <2> QED BY <2>1
<1>6. /\ buys => out = AmountOut(pool.r1, pool.r0, amount)
      /\ ~buys => out = AmountOut(pool.r0, pool.r1, amount)
  OBVIOUS
<1> HIDE DEF out
<1>7. t \in Transaction
  BY <1>3, <1>5 DEF Transaction, Kinds
<1>8. /\ t.id = Len(rows) + 1 /\ t.kind = kind /\ t.virtual = FALSE /\ t.owner = o /\ IsTrade(t)
      /\ buys => t.in1 = amount /\ t.out0 = out
      /\ ~buys => t.in0 = amount /\ t.out1 = out
      /\ buys <=> kind # "SellToken0"
  BY DEF IsTrade, Trades
<1> HIDE DEF t
<1>9. TradeFits(p, t)
  BY <1>1, <1>2, <1>6, <1>8 DEF TradeFits
<1>10. /\ buys => pool'.r0 = pool.r0 - out /\ pool'.r1 = pool.r1 + amount
       /\ ~buys => pool'.r0 = pool.r0 + amount /\ pool'.r1 = pool.r1 - out
       /\ pool'.supply = pool.supply /\ pool'.kLast = pool.kLast /\ pool'.shares = pool.shares
       /\ pool' \in Pools
  <2>1. pool.r0 - out \in Int /\ pool.r1 - out \in Int
    BY <1>4, <1>5
  <2>2. CASE buys
    <3>1. pool.r0 - out \in Nat /\ pool.r1 + amount \in Nat
      BY <1>4, <1>5, <2>2
    <3>2. pool' = [pool EXCEPT !.r0 = pool.r0 - out, !.r1 = pool.r1 + amount]
      BY <1>1, <1>3, <2>2 DEF Pools
    <3> QED BY <1>3, <2>2, <3>1, <3>2 DEF Pools
  <2>3. CASE ~buys
    <3>1. pool.r1 - out \in Nat /\ pool.r0 + amount \in Nat
      BY <1>4, <1>5, <2>3
    <3>2. pool' = [pool EXCEPT !.r0 = pool.r0 + amount, !.r1 = pool.r1 - out]
      BY <1>1, <1>3, <2>3 DEF Pools
    <3> QED BY <1>3, <2>3, <3>1, <3>2 DEF Pools
  <2> QED BY <2>2, <2>3
<1>11. \A x \in Owners : pool'.shares[x] = pool.shares[x] + ShareChange(x, p.pending, t)
  <2>1. \A x \in Owners : ShareChange(x, p.pending, t) = 0 /\ pool.shares[x] \in Nat
    BY <1>2, <1>8 DEF ShareChange
  <2> QED BY <1>10, <2>1
<1>12. Agrees(ApplyPoolState(p, t), pool')
  <2> DEFINE m == ApplyPoolState(p, t)
  <2>1. /\ m.supply = p.supply /\ m.kLast = p.kLast
        /\ m.r0 = AfterSwap(t, p.r0, p.r1)[1] /\ m.r1 = AfterSwap(t, p.r0, p.r1)[2]
    BY <1>2, <1>7, <1>9, TradeStep
  <2> HIDE DEF m
  <2>2. m.r0 = pool'.r0 /\ m.r1 = pool'.r1
    <3>1. CASE buys
      BY <1>2, <1>8, <1>10, <2>1, <3>1 DEF AfterSwap
    <3>2. CASE ~buys
      BY <1>2, <1>8, <1>10, <2>1, <3>2 DEF AfterSwap
    <3> QED BY <3>1, <3>2
  <2> QED BY <1>2, <1>10, <2>1, <2>2 DEF Agrees, m
<1>13. Fits(p, t) /\ t.kind # "RemoveLiquidity"
  BY <1>8, <1>9 DEF Fits, Trades
<1>14. Grows(p, t)
  BY <1>1, <1>7, <1>8, <1>10, <1>11, <1>12, <1>13 DEF Grows
<1> QED BY <1>14 DEF p

\* A grown pool still is where its history leads.
LEMMA GrowthKeepsChain ==
  ASSUME Chain, NEW h, History(h, rows), Agrees(h[Len(rows)], pool), NEW t, Grows(h[Len(rows)], t)
  PROVE  Chain'
<1> DEFINE p == h[Len(rows)]
<1>1. /\ t \in Transaction /\ t.id = Len(rows) + 1 /\ t.virtual = FALSE /\ rows' = Append(rows, t)
      /\ Fits(p, t) /\ Agrees(ApplyPoolState(p, t), pool') /\ pool' \in Pools
      /\ \A x \in Owners : pool'.shares[x] = pool.shares[x] + ShareChange(x, p.pending, t)
  BY DEF Grows
<1>2. /\ p \in PoolState /\ Sound(p) /\ p.pending \in Nat /\ p.supply = pool.supply
      /\ pool.shares \in [Owners -> Nat] /\ SumFunction(pool.shares) = pool.supply
      /\ pool.supply \in Nat /\ Announced(rows)
  BY PoolIs DEF Chain
<1>3. Announced(rows')
  BY <1>1, <1>2, HistoryGrows
<1>4. \E g : History(g, rows') /\ Agrees(g[Len(rows')], pool')
  <2>1. /\ History(h, rows) /\ Announced(rows) /\ Fits(h[Len(rows)], t)
        /\ t \in Transaction /\ t.id = Len(rows) + 1 /\ t.virtual = FALSE
    BY <1>1, <1>2
  <2>2. \E g : /\ History(g, Append(rows, t))
               /\ g[Len(Append(rows, t))] = ApplyPoolState(h[Len(rows)], t)
               /\ \A k \in 0 .. Len(rows) : g[k] = h[k]
    BY ONLY <2>1, HistoryGrows, ZenonT(40)
  <2>3. PICK g : /\ History(g, Append(rows, t))
                 /\ g[Len(Append(rows, t))] = ApplyPoolState(h[Len(rows)], t)
    BY <2>2
  <2> QED BY <1>1, <2>3
<1> DEFINE due == IF IsTrade(t) THEN 0 ELSE p.pending
           d == IF IsTrade(t) THEN 0
                ELSE IF t.kind = "AddLiquidity" THEN t.liquidity ELSE -t.liquidity
           m == ApplyPoolState(p, t)
<1>5. m.supply = p.supply + due + d
  <2>1. CASE TradeFits(p, t)
    <3>1. IsTrade(t) /\ m.supply = p.supply
      BY <1>1, <1>2, <2>1, TradeStep DEF TradeFits
    <3> HIDE DEF m
    <3> QED BY <1>2, <3>1
  <2>2. CASE AddFits(p, t)
    <3>1. ~IsTrade(t) /\ t.kind = "AddLiquidity" /\ m.supply = p.supply + p.pending + t.liquidity
      BY <1>1, <1>2, <2>2, AddStep DEF AddFits, IsTrade, Trades
    <3> HIDE DEF m
    <3> QED BY <3>1
  <2>3. CASE RemoveFits(p, t)
    <3>1. ~IsTrade(t) /\ t.kind # "AddLiquidity" /\ m.supply = p.supply + p.pending - t.liquidity
      BY <1>1, <1>2, <2>3, RemoveStep DEF RemoveFits, IsTrade, Trades
    <3>2. t.liquidity \in Nat
      BY <1>1 DEF Transaction
    <3> HIDE DEF m
    <3> QED BY <1>2, <3>1, <3>2
  <2> QED BY <1>1, <2>1, <2>2, <2>3 DEF Fits
<1>6. due \in Nat /\ d \in Int /\ t.owner \in Owners
  BY <1>1, <1>2 DEF Transaction
<1>7. \A x \in Owners : ShareChange(x, p.pending, t)
          = (IF x = Creator THEN due ELSE 0) + (IF x = t.owner THEN d ELSE 0)
  BY DEF ShareChange
<1> HIDE DEF due, d
<1>8. SumFunction(pool'.shares) = SumFunction(pool.shares) + due + d
  <2> DEFINE f == pool.shares
             g == pool'.shares
             o == t.owner
  <2>1. f \in [Owners -> Nat] /\ g \in [Owners -> Nat] /\ o \in Owners
    BY <1>1, <1>2, <1>6 DEF Pools
  <2>2. ASSUME NEW x \in Owners
        PROVE  g[x] = f[x] + (IF x = Creator THEN due ELSE 0) + (IF x = o THEN d ELSE 0)
    <3>1. /\ g[x] = f[x] + ShareChange(x, p.pending, t) /\ f[x] \in Nat
          /\ ShareChange(x, p.pending, t)
               = (IF x = Creator THEN due ELSE 0) + (IF x = o THEN d ELSE 0)
      BY <1>1, <1>2, <1>7
    <3> HIDE DEF f, g, o
    <3> QED BY <1>6, <3>1
  <2> HIDE DEF f, g, o
  <2>3. SumFunction(g) = SumFunction(f) + due + d
    BY ONLY <1>6, <2>1, <2>2, SharesAddUp
  <2> QED BY <2>3 DEF f, g
<1>9. SumFunction(pool'.shares) = pool'.supply
  <2>1. m.supply = pool'.supply
    BY <1>1 DEF Agrees
  <2> HIDE DEF m
  <2> QED BY <1>2, <1>5, <1>8, <2>1
<1> QED BY <1>1, <1>3, <1>4, <1>9 DEF Chain

----------------------------------------------------------------------------
(* The pool snapshot.                                                      *)

\* What the pool snapshot went through, and where that led it.
PoolSnapshot ==
  /\ used \in [faults : Nat, replays : Nat]
  /\ settled \subseteq 1 .. Len(rows) /\ cursor \in 0 .. Len(rows)
  /\ poolRow \in PoolState /\ poolRow.last \in {0} \cup applied
  /\ applied \subseteq settled /\ applied \subseteq 1 .. poolRow.last
  /\ poolRow.swaps = Cardinality({i \in applied : IsTrade(rows[i])})
  /\ used.faults = 0 => applied = 1 .. cursor /\ settled = 1 .. cursor
  /\ NothingMissing => \A h : History(h, rows) => poolRow = h[poolRow.last]

\* Before the first request the snapshot is of the empty pool.
LEMMA PoolSnapshotInit == Init => PoolSnapshot
<1> SUFFICES ASSUME Init PROVE PoolSnapshot
  OBVIOUS
<1>1. /\ used = [faults |-> 0, replays |-> 0] /\ settled = {} /\ cursor = 0
      /\ poolRow = NoPoolState /\ applied = {}
  BY DEF Init
<1>2. Announced(rows)
  BY ChainInit DEF Chain
<1>3. Len(rows) \in Nat
  BY <1>2 DEF Announced
<1>4. poolRow \in PoolState /\ poolRow.last = 0 /\ poolRow.swaps = 0
  BY <1>1, NothingSound DEF Sound, NoPoolState
<1>5. Cardinality({i \in applied : IsTrade(rows[i])}) = 0
  <2>1. {i \in applied : IsTrade(rows[i])} = {}
    BY <1>1
  <2> QED BY <2>1, FS_EmptySet
<1>6. \A h : History(h, rows) => poolRow = h[poolRow.last]
  BY <1>1, <1>4 DEF History
<1>7. 1 .. 0 = {} /\ used \in [faults : Nat, replays : Nat]
  BY <1>1
<1> QED BY <1>1, <1>3, <1>4, <1>5, <1>6, <1>7 DEF PoolSnapshot

\* A transaction on the chain changes nothing the snapshot is made of: the
\* snapshot of the pool is behind until the next request.
LEMMA GrowthKeepsPoolSnapshot ==
  ASSUME Chain, PoolSnapshot, NEW t \in Transaction, rows' = Append(rows, t),
         UNCHANGED <<tables, up, used, histories>>
  PROVE  PoolSnapshot'
<1>1. /\ settled' = settled /\ cursor' = cursor /\ poolRow' = poolRow /\ applied' = applied
      /\ used' = used
  BY DEF tables, histories
<1>2. rows \in Seq(Transaction) /\ Len(rows) \in Nat
  BY DEF Chain, Announced
<1>3. Len(rows') = Len(rows) + 1 /\ \A i \in 1 .. Len(rows) : rows'[i] = rows[i]
  BY <1>2
<1>4. settled' \subseteq 1 .. Len(rows') /\ cursor' \in 0 .. Len(rows')
  BY <1>1, <1>2, <1>3 DEF PoolSnapshot
<1>5. {i \in applied' : IsTrade(rows'[i])} = {i \in applied : IsTrade(rows[i])}
  <2>1. \A i \in applied : i \in 1 .. Len(rows)
    BY DEF PoolSnapshot
  <2>2. \A i \in applied : rows'[i] = rows[i]
    BY <1>3, <2>1
  <2> QED BY <1>1, <2>2
<1>6. ASSUME NothingMissing', NEW g, History(g, rows') PROVE poolRow' = g[poolRow'.last]
  <2>1. PICK h : History(h, rows) /\ \A k \in 0 .. Len(rows) : h[k] = g[k]
    BY <1>2, <1>6, HistoryPrefix
  <2>2. NothingMissing
    BY <1>1, <1>6 DEF NothingMissing
  <2>3. poolRow = h[poolRow.last]
    BY <2>1, <2>2 DEF PoolSnapshot
  <2>4. poolRow.last \in 0 .. Len(rows)
    <3>1. applied \subseteq 1 .. Len(rows) /\ poolRow.last \in {0} \cup applied
      BY DEF PoolSnapshot
    <3>2. \A i \in 1 .. Len(rows) : i \in 0 .. Len(rows)
      BY <1>2
    <3>3. 0 \in 0 .. Len(rows)
      BY <1>2
    <3> QED BY <3>1, <3>2, <3>3
  <2> QED BY <1>1, <2>1, <2>3, <2>4
<1> QED BY <1>1, <1>4, <1>5, <1>6 DEF PoolSnapshot

\* A batch settled and applied to the pool snapshot.
LEMMA UpsertKeepsPoolSnapshot ==
  ASSUME Chain, PoolSnapshot, NEW after \in 0 .. Len(rows), after < Len(rows),
         Settle(Batch(after)), UpsertPoolState(Batch(after)), cursor' = Len(rows),
         rows' = rows, used' \in [faults : Nat, replays : Nat],
         used'.faults = 0 => used.faults = 0 /\ after \in {0, cursor}
  PROVE  PoolSnapshot'
<1> DEFINE n == Len(rows)
           L == poolRow.last
           new == {i \in after + 1 .. n : i > L}
<1>1. n \in Nat /\ after \in Nat /\ after < n /\ Announced(rows)
  BY DEF Chain, Announced
<1>2. /\ settled \subseteq 1 .. n /\ cursor \in 0 .. n /\ poolRow \in PoolState
      /\ L \in {0} \cup applied /\ applied \subseteq settled /\ applied \subseteq 1 .. L
      /\ poolRow.swaps = Cardinality({i \in applied : IsTrade(rows[i])})
      /\ used.faults = 0 => applied = 1 .. cursor /\ settled = 1 .. cursor
      /\ NothingMissing => \A h : History(h, rows) => poolRow = h[L]
  BY DEF PoolSnapshot
<1>3. L \in 0 .. n
  <2>1. L \in {0} \cup 1 .. n
    BY <1>2
  <2> HIDE DEF L
  <2> QED BY <1>1, <2>1
<1>4. /\ settled' = settled \cup after + 1 .. n /\ cursor' = n
      /\ poolRow' = Through(StepPool, poolRow, rows, after + 1 .. n)
      /\ applied' = applied \cup {i \in after + 1 .. n : ~AlreadyApplied(poolRow, rows[i])}
  BY DEF Settle, Batch, UpsertPoolState
<1>5. applied' = applied \cup new
  <2>1. \A i \in after + 1 .. n : rows[i].id = i
    BY <1>1 DEF Announced
  <2>2. \A i \in after + 1 .. n : ~AlreadyApplied(poolRow, rows[i]) <=> i > L
    BY <1>1, <1>3, <2>1 DEF AlreadyApplied
  <2> QED BY <1>4, <2>2
<1> DEFINE trades == {i \in after + 1 .. n : i > L /\ IsTrade(rows[i])}
<1>6. /\ poolRow' \in PoolState /\ poolRow'.last = n
      /\ poolRow'.swaps = poolRow.swaps + Cardinality(trades)
      /\ \A h : History(h, rows) /\ after <= L /\ poolRow = h[L] => poolRow' = h[n]
  <2> DEFINE to == Through(StepPool, poolRow, rows, after + 1 .. Len(rows))
  <2>1. after \in 0 .. Len(rows) - 1 /\ poolRow.last <= Len(rows)
    BY <1>1, <1>3
  <2>2. /\ to \in PoolState /\ to.last = Len(rows)
        /\ to.swaps = poolRow.swaps
             + Cardinality({i \in after + 1 .. Len(rows) : i > poolRow.last /\ IsTrade(rows[i])})
        /\ \A H : History(H, rows) /\ after <= poolRow.last /\ poolRow = H[poolRow.last]
                    => to = H[Len(rows)]
    BY <1>1, <1>2, <2>1, BatchApplied
  <2> HIDE DEF to
  <2>3. poolRow' = to
    BY <1>4 DEF to
  <2> QED BY <2>2, <2>3
<1> HIDE DEF n, L
<1>7. poolRow'.swaps = Cardinality({i \in applied' : IsTrade(rows'[i])})
  <2> DEFINE old == {i \in applied : IsTrade(rows[i])}
  <2>1. /\ {i \in applied' : IsTrade(rows'[i])} = old \cup trades
        /\ old \cap trades = {} /\ old \subseteq 1 .. n /\ trades \subseteq 1 .. n
    <3>1. /\ {i \in applied' : IsTrade(rows'[i])}
               = old \cup {i \in new : IsTrade(rows[i])}
          /\ {i \in new : IsTrade(rows[i])} = trades
      BY <1>5
    <3>2. \A i \in applied : i \in 1 .. n /\ i <= L
      BY <1>1, <1>2, <1>3
    <3>3. trades \subseteq 1 .. n /\ \A i \in trades : ~(i <= L)
      BY <1>1, <1>3
    <3> QED BY <3>1, <3>2, <3>3
  <2>2. IsFiniteSet(old) /\ IsFiniteSet(trades)
    <3>1. IsFiniteSet(1 .. n)
      BY <1>1, FS_Interval
    <3> HIDE DEF old, trades
    <3> QED BY <2>1, <3>1, FS_Subset
  <2>3. poolRow'.swaps = Cardinality(old) + Cardinality(trades)
    BY <1>2, <1>6
  <2> HIDE DEF old, trades
  <2>4. Cardinality(old \cup trades) = Cardinality(old) + Cardinality(trades)
    <3>1. Cardinality(old) \in Nat /\ Cardinality(trades) \in Nat /\ Cardinality({}) = 0
      BY <2>2, FS_CardinalityType, FS_EmptySet
    <3>2. Cardinality(old \cup trades)
            = Cardinality(old) + Cardinality(trades) - Cardinality(old \cap trades)
      BY <2>2, FS_Union
    <3>3. old \cap trades = {}
      BY <2>1
    <3>4. Cardinality(old \cap trades) = 0
      BY <3>1, <3>3
    <3> DEFINE a == Cardinality(old)
               b == Cardinality(trades)
               c == Cardinality(old \cap trades)
               d == Cardinality(old \cup trades)
    <3>5. a \in Nat /\ b \in Nat /\ c = 0 /\ d = a + b - c
      BY <3>1, <3>2, <3>4
    <3> HIDE DEF a, b, c, d
    <3>6. d = a + b
      BY <3>5
    <3> QED BY <3>6 DEF a, b, d
  <2> QED BY <2>1, <2>3, <2>4
<1>8. applied' \subseteq settled' /\ settled' \subseteq 1 .. n /\ applied' \subseteq 1 .. n
  <2>1. new \subseteq after + 1 .. n /\ after + 1 .. n \subseteq 1 .. n
    BY <1>1
  <2>2. applied \subseteq settled /\ settled \subseteq 1 .. n
    BY <1>2
  <2> QED BY <1>4, <1>5, <2>1, <2>2
<1>9. n \in applied'
  <2>1. CASE L = n
    BY <1>1, <1>2, <1>5, <2>1
  <2>2. CASE L # n
    BY <1>1, <1>3, <1>5, <2>2
  <2> QED BY <2>1, <2>2
<1>10. used'.faults = 0 => applied' = 1 .. n /\ settled' = 1 .. n
  <2> SUFFICES ASSUME used'.faults = 0 PROVE applied' = 1 .. n /\ settled' = 1 .. n
    OBVIOUS
  <2>1. applied = 1 .. cursor /\ settled = 1 .. cursor /\ after <= cursor /\ cursor \in 0 .. n
    BY <1>1, <1>2
  <2>2. L = cursor
    BY <1>1, <1>2, <1>3, <2>1
  <2> QED BY <1>1, <1>4, <1>5, <2>1, <2>2
<1>11. ASSUME NothingMissing', NEW h, History(h, rows') PROVE poolRow' = h[poolRow'.last]
  <2>1. applied' = 1 .. n /\ History(h, rows)
    BY <1>6, <1>11 DEF NothingMissing
  <2>2. applied = 1 .. L
    <3>1. \A i \in 1 .. L : i \in applied' /\ i \notin new
      BY <1>1, <1>3, <2>1
    <3>2. \A i \in 1 .. L : i \in applied
      BY <1>5, <3>1
    <3> QED BY <1>2, <3>2
  <2>3. poolRow = h[L]
    BY <1>2, <2>1, <2>2 DEF NothingMissing, L
  <2>4. after <= L
    <3> SUFFICES ASSUME L < after PROVE FALSE
      BY <1>1, <1>3
    <3>1. L + 1 \in applied' /\ L + 1 \notin applied /\ L + 1 \notin new
      BY <1>1, <1>3, <2>1, <2>2
    <3> QED BY <1>5, <3>1
  <2> QED BY <1>6, <2>1, <2>3, <2>4
<1>12. PoolSnapshot'
  BY <1>1, <1>4, <1>6, <1>7, <1>8, <1>9, <1>10, <1>11 DEF PoolSnapshot, n
<1> QED BY <1>12

\* A step of the chain announces a row.
LEMMA ChainMoves ==
  ASSUME Chain,
         \/ \E o \in Owners, amount \in Amounts : AddLiquidity(o, amount, amount)
         \/ \E o \in Owners : \/ RemoveLiquidity(o, pool.shares[o] \div 2)
                              \/ RemoveLiquidity(o, pool.shares[o])
         \/ \E kind \in Trades, amount \in Amounts : Swap(Creator, kind, amount)
  PROVE  /\ \E h, t : /\ History(h, rows) /\ Agrees(h[Len(rows)], pool)
                      /\ Grows(h[Len(rows)], t)
         /\ UNCHANGED <<tables, up, used, histories>>
<1>1. PICK h : History(h, rows) /\ Agrees(h[Len(rows)], pool)
  BY DEF Chain
<1>2. Amounts \subseteq Nat /\ Creator \in Owners
  BY SnapshotsAssumption
<1>3. CASE \E o \in Owners, amount \in Amounts : AddLiquidity(o, amount, amount)
  <2>1. PICK o \in Owners, amount \in Amounts : AddLiquidity(o, amount, amount)
    BY <1>3
  <2>2. amount \in Nat
    BY <1>2
  <2>3. \E t : Grows(h[Len(rows)], t)
    BY <1>1, <2>1, <2>2, AddGrows
  <2> QED BY <1>1, <2>1, <2>3 DEF AddLiquidity
<1>4. CASE \E o \in Owners : \/ RemoveLiquidity(o, pool.shares[o] \div 2)
                             \/ RemoveLiquidity(o, pool.shares[o])
  <2>1. PICK o \in Owners : \E liquidity : RemoveLiquidity(o, liquidity)
    BY <1>4
  <2>2. PICK liquidity : RemoveLiquidity(o, liquidity)
    BY <2>1
  <2>3. \E t : Grows(h[Len(rows)], t)
    BY <1>1, <2>2, RemoveGrows
  <2> QED BY <1>1, <2>2, <2>3 DEF RemoveLiquidity
<1>5. CASE \E kind \in Trades, amount \in Amounts : Swap(Creator, kind, amount)
  <2>1. PICK kind \in Trades, amount \in Amounts : Swap(Creator, kind, amount)
    BY <1>5
  <2>2. amount \in Nat
    BY <1>2
  <2>3. \E t : Grows(h[Len(rows)], t)
    BY <1>1, <1>2, <2>1, <2>2, SwapGrows
  <2> QED BY <1>1, <2>1, <2>3 DEF Swap
<1> QED BY <1>3, <1>4, <1>5

\* What the service does never touches the pool on its chain.
LEMMA ChainKept ==
  ASSUME Chain, pool' = pool, rows' = rows
  PROVE  Chain'
  BY DEF Chain

\* A step that leaves the snapshot of the pool alone, whatever it settles
\* when a write has failed.
LEMMA PoolSnapshotKept ==
  ASSUME Chain, PoolSnapshot, rows' = rows, poolRow' = poolRow, applied' = applied,
         used' \in [faults : Nat, replays : Nat],
         \/ used'.faults > 0 /\ \/ settled' = settled
                                \/ settled' = settled \cup (cursor + 1 .. Len(rows))
         \/ used' = used /\ settled' = settled /\ cursor' = cursor,
         cursor' \in {cursor, Len(rows)}
  PROVE  PoolSnapshot'
<1>1. Len(rows) \in Nat
  BY DEF Chain, Announced
<1>2. settled \subseteq settled' /\ settled' \subseteq 1 .. Len(rows') /\ cursor' \in 0 .. Len(rows')
  <2>1. settled \subseteq 1 .. Len(rows) /\ cursor \in 0 .. Len(rows)
    BY DEF PoolSnapshot
  <2>2. cursor + 1 .. Len(rows) \subseteq 1 .. Len(rows)
    BY <1>1, <2>1
  <2>3. cursor' \in 0 .. Len(rows)
    BY <1>1, <2>1
  <2> QED BY <2>1, <2>2, <2>3
<1>3. used'.faults = 0 => applied' = 1 .. cursor' /\ settled' = 1 .. cursor'
  BY DEF PoolSnapshot
<1>4. NothingMissing' => \A h : History(h, rows') => poolRow' = h[poolRow'.last]
  BY DEF PoolSnapshot, NothingMissing
<1> QED BY <1>2, <1>3, <1>4 DEF PoolSnapshot

\* A fault is counted.
LEMMA FaultCounts ==
  ASSUME used \in [faults : Nat, replays : Nat], Fault
  PROVE  used' \in [faults : Nat, replays : Nat] /\ used'.faults > 0
  BY DEF Fault

\* Every step keeps the pool on its chain and the snapshot of it.
LEMMA PoolSnapshotStep ==
  ASSUME Chain, PoolSnapshot, [Next]_vars
  PROVE  Chain' /\ PoolSnapshot'
<1> USE DEF chainVars, tables, histories
<1>1. used \in [faults : Nat, replays : Nat] /\ Len(rows) \in Nat /\ cursor \in 0 .. Len(rows)
  BY DEF PoolSnapshot, Chain, Announced
<1>2. CASE \/ \E o \in Owners, amount \in Amounts : AddLiquidity(o, amount, amount)
           \/ \E o \in Owners : \/ RemoveLiquidity(o, pool.shares[o] \div 2)
                                \/ RemoveLiquidity(o, pool.shares[o])
           \/ \E kind \in Trades, amount \in Amounts : Swap(Creator, kind, amount)
  <2>1. PICK h, t : /\ History(h, rows) /\ Agrees(h[Len(rows)], pool)
                    /\ Grows(h[Len(rows)], t)
    BY <1>2, ChainMoves
  <2>2. UNCHANGED <<tables, up, used, histories>>
    BY <1>2, ChainMoves
  <2>3. Chain'
    BY <2>1, GrowthKeepsChain
  <2>4. t \in Transaction /\ rows' = Append(rows, t)
    BY <2>1 DEF Grows
  <2> QED BY <2>2, <2>3, <2>4, GrowthKeepsPoolSnapshot
<1>3. CASE MaterializeBatch
  <2>1. /\ cursor < Len(rows) /\ Settle(Batch(cursor)) /\ UpsertPoolState(Batch(cursor))
        /\ cursor' = Len(rows) /\ rows' = rows /\ pool' = pool /\ used' = used
    BY <1>3 DEF MaterializeBatch, Materialize
  <2> QED BY <1>1, <2>1, ChainKept, UpsertKeepsPoolSnapshot
<1>4. CASE OperatorReplays
  <2>1. /\ 0 < Len(rows) /\ Settle(Batch(0)) /\ UpsertPoolState(Batch(0))
        /\ cursor' = Len(rows) /\ rows' = rows /\ pool' = pool
        /\ used' = [used EXCEPT !.replays = @ + 1]
    BY <1>4 DEF OperatorReplays, Materialize
  <2>2. used' \in [faults : Nat, replays : Nat] /\ used'.faults = used.faults
    BY <1>1, <2>1
  <2>3. 0 \in 0 .. Len(rows)
    BY <1>1
  <2> QED BY <2>1, <2>2, <2>3, ChainKept, UpsertKeepsPoolSnapshot
<1>5. CASE \E n \in cursor .. Len(rows) : SnapshotsDegrade(n)
  <2>1. /\ Fault /\ settled' = settled \cup (cursor + 1 .. Len(rows)) /\ cursor' = Len(rows)
        /\ rows' = rows /\ pool' = pool /\ poolRow' = poolRow /\ applied' = applied
    BY <1>5 DEF SnapshotsDegrade, Settle, Batch
  <2> QED BY <1>1, <2>1, ChainKept, FaultCounts, PoolSnapshotKept
<1>6. CASE DerivationFails
  <2>1. /\ Fault /\ settled' = settled /\ cursor' = Len(rows)
        /\ rows' = rows /\ pool' = pool /\ poolRow' = poolRow /\ applied' = applied
    BY <1>6 DEF DerivationFails
  <2> QED BY <1>1, <2>1, ChainKept, FaultCounts, PoolSnapshotKept
<1>7. CASE \E n \in cursor .. Len(rows) : CrashInBatch(n)
  <2>1. /\ Fault /\ settled' = settled \cup (cursor + 1 .. Len(rows)) /\ cursor' = cursor
        /\ rows' = rows /\ pool' = pool /\ poolRow' = poolRow /\ applied' = applied
    BY <1>7 DEF CrashInBatch, Settle, Batch
  <2> QED BY <1>1, <2>1, ChainKept, FaultCounts, PoolSnapshotKept
<1>8. CASE Crash
  <2>1. /\ Fault /\ settled' = settled /\ cursor' = cursor
        /\ rows' = rows /\ pool' = pool /\ poolRow' = poolRow /\ applied' = applied
    BY <1>8 DEF Crash
  <2> QED BY <1>1, <2>1, ChainKept, FaultCounts, PoolSnapshotKept
<1>9. CASE Restart \/ UNCHANGED vars
  <2>1. /\ used' = used /\ settled' = settled /\ cursor' = cursor
        /\ rows' = rows /\ pool' = pool /\ poolRow' = poolRow /\ applied' = applied
    BY <1>9 DEF Restart, vars
  <2> QED BY <1>1, <2>1, ChainKept, PoolSnapshotKept
<1> QED BY <1>2, <1>3, <1>4, <1>5, <1>6, <1>7, <1>8, <1>9 DEF Next

\* What the snapshot holds where nothing is missing from it.
LEMMA PoolSnapshotSays ==
  ASSUME Chain, PoolSnapshot
  PROVE  SnapshotIsPool
<1>1. PICK h : History(h, rows) /\ Agrees(h[Len(rows)], pool)
  BY DEF Chain
<1>2. Announced(rows)
  BY DEF Chain
<1>3. ASSUME NothingMissing, poolRow.last = Len(rows)
      PROVE  /\ SamePool(poolRow)
             /\ poolRow.pending = FeeShare(pool.supply, pool.r0, pool.r1, pool.kLast)
             /\ BuildPoolState(rows) = poolRow
             /\ Reconstruct(rows) = [states |-> RecordedStates(rows), blockers |-> {}]
             /\ SamePool(LastState(RecordedStates(rows)))
  <2>1. poolRow = h[Len(rows)]
    BY <1>1, <1>3 DEF PoolSnapshot
  <2>2. SamePool(poolRow)
    BY <1>1, <2>1 DEF SamePool, Agrees
  <2>3. poolRow.pending = FeeShare(pool.supply, pool.r0, pool.r1, pool.kLast)
    BY <1>1, <2>1, PoolIs
  <2>4. BuildPoolState(rows) = poolRow
    BY <1>1, <1>2, <2>1, HistoryRebuilt
  <2>5. /\ Recounts(RecordedStates(rows), h, rows)
        /\ Reconstruct(rows) = [states |-> RecordedStates(rows), blockers |-> {}]
    BY <1>1, <1>2, HistoryRecounted
  <2>6. SamePool(LastState(RecordedStates(rows)))
    BY <1>1, <2>5 DEF Recounts, SamePool, Agrees
  <2> QED BY <2>2, <2>3, <2>4, <2>5, <2>6
<1> QED BY <1>3 DEF SnapshotIsPool, PoolSnapshot

\* However batches, failures, crashes and replays follow each other, the
\* pool snapshot went through settled rows only, each once, and where none
\* of them is missing it is the pool the contract holds and what the
\* rebuild and the checked reconstruction of the history give.
THEOREM SnapshotFollowsPool == Spec => []SnapshotIsPool
<1>1. Init => Chain /\ PoolSnapshot
  BY ChainInit, PoolSnapshotInit
<1>2. Chain /\ PoolSnapshot /\ [Next]_vars => (Chain /\ PoolSnapshot)'
  BY PoolSnapshotStep
<1>3. Chain /\ PoolSnapshot => SnapshotIsPool
  BY PoolSnapshotSays
<1> QED BY <1>1, <1>2, <1>3, PTL DEF Spec


----------------------------------------------------------------------------
(* The snapshots of the positions.                                         *)

Statuses == {"none", "active", "closed"}

PositionRow ==
  [status : Statuses, liquidity : Nat, basis : {"none"} \cup Kinds, basisTx : Nat, last : Nat]

Answer == [liquidity : Nat, status : Statuses, opened : Nat]

\* A step of a position snapshot, whatever it finds.
LEMMA StepPositionTyped ==
  ASSUME NEW s \in PositionRow, NEW t \in Transaction
  PROVE  StepPosition(s, t) \in PositionRow
<1>1. /\ s.liquidity \in Nat /\ t.liquidity \in Nat /\ t.id \in Nat /\ t.kind \in Kinds
      /\ s.status \in Statuses
  BY DEF PositionRow, Transaction
<1>2. \A i \in Int : NonNegative(i) \in Nat
  BY DEF NonNegative
<1>3. ApplyPositionState(s, t) \in PositionRow
  <2> DEFINE running == s.liquidity + (IF t.kind = "AddLiquidity" THEN t.liquidity ELSE -t.liquidity)
  <2>1. running \in Int
    BY <1>1
  <2> HIDE DEF running
  <2>2. ApplyPositionState(s, t) =
          [status |-> IF running > 0 THEN "active" ELSE "closed",
           liquidity |-> NonNegative(running), basis |-> t.kind, basisTx |-> t.id, last |-> t.id]
    BY DEF ApplyPositionState, running
  <2> QED BY <1>1, <1>2, <2>1, <2>2 DEF PositionRow, Statuses
<1>4. RecordSkippedRemove(s, t) \in PositionRow
  BY <1>1 DEF RecordSkippedRemove, PositionRow, Statuses
<1> QED BY <1>3, <1>4 DEF StepPosition

\* What an answer becomes with one row more.
LEMMA AddUpIs ==
  ASSUME NEW a \in Answer, NEW t \in Transaction, ~IsTrade(t)
  PROVE  /\ AddUp(a, t) \in Answer
         /\ t.kind = "AddLiquidity" =>
               /\ AddUp(a, t).liquidity = a.liquidity + t.liquidity
               /\ AddUp(a, t).status = "active"
               /\ AddUp(a, t).opened = IF a.opened = 0 THEN t.id ELSE a.opened
         /\ t.kind # "AddLiquidity" =>
               /\ t.kind = "RemoveLiquidity"
               /\ a.liquidity <= 0 \/ t.liquidity > a.liquidity => AddUp(a, t) = a
               /\ ~(a.liquidity <= 0 \/ t.liquidity > a.liquidity) =>
                     /\ AddUp(a, t).liquidity = a.liquidity - t.liquidity
                     /\ AddUp(a, t).status = IF t.liquidity = a.liquidity THEN "closed" ELSE "active"
                     /\ AddUp(a, t).opened = a.opened
<1>1. t.liquidity \in Nat /\ t.id \in Nat /\ a.liquidity \in Nat /\ a.opened \in Nat
  BY DEF Transaction, Answer
<1>2. CASE t.kind = "AddLiquidity"
  <2>1. AddUp(a, t) = [a EXCEPT !.liquidity = @ + t.liquidity, !.status = "active",
                                !.opened = IF @ = 0 THEN t.id ELSE @]
    BY <1>2 DEF AddUp
  <2>2. AddUp(a, t) \in Answer
    <3> DEFINE l == a.liquidity + t.liquidity
               i == IF a.opened = 0 THEN t.id ELSE a.opened
    <3>1. l \in Nat /\ i \in Nat /\ "active" \in Statuses
      BY <1>1 DEF Statuses
    <3>2. AddUp(a, t) = [a EXCEPT !.liquidity = l, !.status = "active", !.opened = i]
      BY <2>1
    <3> HIDE DEF l, i
    <3> QED BY <3>1, <3>2 DEF Answer
  <2> QED BY <1>2, <2>1, <2>2 DEF Answer
<1>3. CASE t.kind # "AddLiquidity"
  <2>1. t.kind = "RemoveLiquidity"
    BY <1>3 DEF Transaction, Kinds, IsTrade
  <2>2. AddUp(a, t) = IF a.liquidity <= 0 \/ t.liquidity > a.liquidity THEN a
                      ELSE [a EXCEPT !.liquidity = @ - t.liquidity,
                              !.status = IF t.liquidity = a.liquidity THEN "closed" ELSE "active"]
    BY <2>1 DEF AddUp
  <2>3. CASE a.liquidity <= 0 \/ t.liquidity > a.liquidity
    BY <1>3, <2>1, <2>2, <2>3
  <2>4. CASE ~(a.liquidity <= 0 \/ t.liquidity > a.liquidity)
    <3>1. a.liquidity - t.liquidity \in Nat
      BY <1>1, <2>4
    <3>2. AddUp(a, t) = [a EXCEPT !.liquidity = @ - t.liquidity,
                           !.status = IF t.liquidity = a.liquidity THEN "closed" ELSE "active"]
      BY <2>2, <2>4
    <3>3. AddUp(a, t) \in Answer
      BY <3>1, <3>2 DEF Answer, Statuses
    <3> QED BY <1>3, <2>1, <2>4, <3>2, <3>3 DEF Answer
  <2> QED BY <2>3, <2>4
<1> QED BY <1>2, <1>3

\* The rows of ids are changes of liquidity.
OfChanges(list, ids) == \A k \in 1 .. Len(list) : list[k].id \in ids => ~IsTrade(list[k])

PositionRun(h, base, list, ids) ==
  /\ h \in [0 .. Len(list) -> PositionRow] /\ h[0] = base
  /\ \A k \in 1 .. Len(list) :
       h[k] = IF list[k].id \in ids THEN StepPosition(h[k - 1], list[k]) ELSE h[k - 1]

AnswerRun(h, list, ids) ==
  /\ h \in [0 .. Len(list) -> Answer] /\ h[0] = NoAnswer
  /\ \A k \in 1 .. Len(list) :
       h[k] = IF list[k].id \in ids THEN AddUp(h[k - 1], list[k]) ELSE h[k - 1]

\* A position is brought up to date row by row.
LEMMA PositionThrough ==
  ASSUME NEW list \in Seq(Transaction), NEW from \in PositionRow, NEW ids
  PROVE  \E h : PositionRun(h, from, list, ids) /\ Through(StepPosition, from, list, ids) = h[Len(list)]
<1> DEFINE n == Len(list)
           base == from
           D == PositionRow
           Then(s, k) == IF list[k].id \in ids THEN StepPosition(s, list[k]) ELSE s
           Rec(f) == f = [s \in SUBSET DOMAIN list |->
                            IF s = {} THEN base ELSE Then(f[s \ {Max(s)}], Max(s))]
           f == CHOOSE f : Rec(f)
           F == [p \in (1 .. n) \X D |-> Then(p[2], p[1])]
<1>1. DOMAIN list = 1 .. n /\ n \in Nat
  OBVIOUS
<1>2. \A s : Max(s) = Greatest(s)
  BY DEF Max, Greatest
<1>3. Through(StepPosition, from, list, ids) = f[1 .. n]
  BY <1>1 DEF Through, FoldLeft, MapThenFoldSet
<1>4. base \in D
  OBVIOUS
<1>5. \A k \in 1 .. n, s \in D : Then(s, k) \in D
  BY <1>1, StepPositionTyped
<1>6. F \in [(1 .. n) \X D -> D]
  <2> HIDE DEF Then, D, n
  <2> QED BY <1>5
<1> HIDE DEF n, base, D, Then
<1>7. Rec(f)
  <2>1. PICK g : FoldsLeft(g, n, D, base, F)
    <3> HIDE DEF F
    <3> QED BY <1>1, <1>4, <1>6, LeftFold
  <2>2. \A s \in SUBSET (1 .. n) :
          g[s] = IF s = {} THEN base ELSE Then(g[s \ {Greatest(s)}], Greatest(s))
    BY <2>1 DEF FoldsLeft
  <2>3. Rec(g)
    BY <2>1, <2>2, <1>1, <1>2 DEF FoldsLeft
  <2> HIDE DEF Rec
  <2> QED BY <2>3, Zenon
<1> HIDE DEF f
<1> HIDE DEF F
<1> DEFINE h == [k \in 0 .. n |-> f[1 .. k]]
           T == {k \in 0 .. n : h[k] \in D}
<1>8. ASSUME NEW k \in 1 .. n PROVE h[k] = Then(h[k - 1], k)
  <2>1. /\ 1 .. k \in SUBSET (1 .. n) /\ 1 .. k # {} /\ Greatest(1 .. k) = k
        /\ (1 .. k) \ {k} = 1 .. k - 1 /\ k - 1 \in 0 .. n
    BY <1>1, PrefixStep
  <2>2. f[1 .. k] = Then(f[1 .. k - 1], k)
    BY <1>1, <1>2, <1>7, <2>1
  <2> QED BY <2>1, <2>2
<1>9. h[0] = base /\ h[n] = f[1 .. n]
  <2>1. 1 .. 0 = {} /\ 1 .. 0 \in SUBSET (1 .. n)
    BY <1>1
  <2>2. f[1 .. 0] = base
    BY <1>1, <1>7, <2>1
  <2> QED BY <1>1, <2>2
<1> HIDE DEF h, f, Rec
<1>10. \A k \in 0 .. n : k \in T
  <2>1. 0 \in T
    BY <1>1, <1>4, <1>9
  <2>2. \A k \in 1 .. n : k - 1 \in T => k \in T
    BY <1>5, <1>8
  <2> HIDE DEF T
  <2> QED BY <1>1, <2>1, <2>2, IndexInduction
<1>11. h \in [0 .. n -> D]
  BY <1>10 DEF h
<1>12. PositionRun(h, from, list, ids)
  BY <1>8, <1>9, <1>11 DEF PositionRun, Then, n, D, base
<1> QED BY <1>3, <1>9, <1>12 DEF n

\* What is recorded is added up row by row.
LEMMA AnswerThrough ==
  ASSUME NEW list \in Seq(Transaction), NEW ids, OfChanges(list, ids)
  PROVE  \E h : AnswerRun(h, list, ids) /\ Recorded(list, ids) = h[Len(list)]
<1> DEFINE n == Len(list)
           base == NoAnswer
           D == Answer
           Then(s, k) == IF list[k].id \in ids THEN AddUp(s, list[k]) ELSE s
           Rec(f) == f = [s \in SUBSET DOMAIN list |->
                            IF s = {} THEN base ELSE Then(f[s \ {Max(s)}], Max(s))]
           f == CHOOSE f : Rec(f)
           F == [p \in (1 .. n) \X D |-> Then(p[2], p[1])]
<1>1. DOMAIN list = 1 .. n /\ n \in Nat
  OBVIOUS
<1>2. \A s : Max(s) = Greatest(s)
  BY DEF Max, Greatest
<1>3. Recorded(list, ids) = f[1 .. n]
  BY <1>1 DEF Recorded, Through, FoldLeft, MapThenFoldSet
<1>4. base \in D
  BY DEF NoAnswer, Answer, Statuses
<1>5. \A k \in 1 .. n, s \in D : Then(s, k) \in D
  <2>1. ASSUME NEW k \in 1 .. n, NEW s \in D, list[k].id \in ids PROVE AddUp(s, list[k]) \in D
    BY <1>1, <2>1, AddUpIs DEF OfChanges
  <2> QED BY <2>1
<1>6. F \in [(1 .. n) \X D -> D]
  <2> HIDE DEF Then, D, n
  <2> QED BY <1>5
<1> HIDE DEF n, base, D, Then
<1>7. Rec(f)
  <2>1. PICK g : FoldsLeft(g, n, D, base, F)
    <3> HIDE DEF F
    <3> QED BY <1>1, <1>4, <1>6, LeftFold
  <2>2. \A s \in SUBSET (1 .. n) :
          g[s] = IF s = {} THEN base ELSE Then(g[s \ {Greatest(s)}], Greatest(s))
    BY <2>1 DEF FoldsLeft
  <2>3. Rec(g)
    BY <2>1, <2>2, <1>1, <1>2 DEF FoldsLeft
  <2> HIDE DEF Rec
  <2> QED BY <2>3, Zenon
<1> HIDE DEF f
<1> HIDE DEF F
<1> DEFINE h == [k \in 0 .. n |-> f[1 .. k]]
           T == {k \in 0 .. n : h[k] \in D}
<1>8. ASSUME NEW k \in 1 .. n PROVE h[k] = Then(h[k - 1], k)
  <2>1. /\ 1 .. k \in SUBSET (1 .. n) /\ 1 .. k # {} /\ Greatest(1 .. k) = k
        /\ (1 .. k) \ {k} = 1 .. k - 1 /\ k - 1 \in 0 .. n
    BY <1>1, PrefixStep
  <2>2. f[1 .. k] = Then(f[1 .. k - 1], k)
    BY <1>1, <1>2, <1>7, <2>1
  <2> QED BY <2>1, <2>2
<1>9. h[0] = base /\ h[n] = f[1 .. n]
  <2>1. 1 .. 0 = {} /\ 1 .. 0 \in SUBSET (1 .. n)
    BY <1>1
  <2>2. f[1 .. 0] = base
    BY <1>1, <1>7, <2>1
  <2> QED BY <1>1, <2>2
<1> HIDE DEF h, f, Rec
<1>10. \A k \in 0 .. n : k \in T
  <2>1. 0 \in T
    BY <1>1, <1>4, <1>9
  <2>2. \A k \in 1 .. n : k - 1 \in T => k \in T
    BY <1>5, <1>8
  <2> HIDE DEF T
  <2> QED BY <1>1, <2>1, <2>2, IndexInduction
<1>11. h \in [0 .. n -> D]
  BY <1>10 DEF h
<1>12. AnswerRun(h, list, ids)
  BY <1>8, <1>9, <1>11 DEF AnswerRun, Then, n, D, base
<1> QED BY <1>3, <1>9, <1>12 DEF n

\* Two records that agree so far add up to the same so far.
LEMMA AnswersSame ==
  ASSUME NEW list, NEW more, NEW A, NEW B, NEW g, AnswerRun(g, list, A), NEW h, AnswerRun(h, more, B),
         NEW m \in Nat, Len(list) \in Nat, Len(more) \in Nat, m <= Len(list), m <= Len(more),
         \A k \in 1 .. m : list[k] = more[k] /\ (list[k].id \in A <=> list[k].id \in B)
  PROVE  g[m] = h[m]
<1> DEFINE T == {k \in 0 .. m : g[k] = h[k]}
<1>1. 0 \in T
  BY DEF AnswerRun
<1>2. ASSUME NEW k \in 1 .. m, k - 1 \in T PROVE k \in T
  <2>1. k \in 1 .. Len(list) /\ k \in 1 .. Len(more) /\ list[k] = more[k] /\ g[k - 1] = h[k - 1]
        /\ (list[k].id \in A <=> more[k].id \in B)
    BY <1>2
  <2>2. g[k] = IF list[k].id \in A THEN AddUp(g[k - 1], list[k]) ELSE g[k - 1]
    BY <2>1 DEF AnswerRun
  <2>3. h[k] = IF more[k].id \in B THEN AddUp(h[k - 1], more[k]) ELSE h[k - 1]
    BY <2>1 DEF AnswerRun
  <2>4. g[k] = h[k]
    BY <2>1, <2>2, <2>3
  <2> QED BY <2>4
<1>3. m \in T
  <2> HIDE DEF T
  <2>1. \A k \in 0 .. m : k \in T
    BY <1>1, <1>2, IndexInduction
  <2> QED BY <2>1
<1> QED BY <1>3

\* The same of two sets of ids of one record.
LEMMA AnswersPrefix ==
  ASSUME NEW list, NEW A, NEW B, NEW g, AnswerRun(g, list, A), NEW h, AnswerRun(h, list, B),
         NEW m \in Nat, Len(list) \in Nat, m <= Len(list),
         \A k \in 1 .. m : list[k].id \in A <=> list[k].id \in B
  PROVE  g[m] = h[m]
<1> DEFINE T == {k \in 0 .. m : g[k] = h[k]}
<1>1. 0 \in T
  BY DEF AnswerRun
<1>2. ASSUME NEW k \in 1 .. m, k - 1 \in T PROVE k \in T
  <2>1. k \in 1 .. Len(list) /\ g[k - 1] = h[k - 1] /\ (list[k].id \in A <=> list[k].id \in B)
    BY <1>2
  <2>2. g[k] = IF list[k].id \in A THEN AddUp(g[k - 1], list[k]) ELSE g[k - 1]
    BY <2>1 DEF AnswerRun
  <2>3. h[k] = IF list[k].id \in B THEN AddUp(h[k - 1], list[k]) ELSE h[k - 1]
    BY <2>1 DEF AnswerRun
  <2> QED BY <2>1, <2>2, <2>3
<1>3. m \in T
  <2> HIDE DEF T
  <2>1. \A k \in 0 .. m : k \in T
    BY <1>1, <1>2, IndexInduction
  <2> QED BY <2>1
<1> QED BY <1>3

\* Rows of others do not add up.
LEMMA AnswersFlat ==
  ASSUME NEW list, NEW A, NEW g, AnswerRun(g, list, A), Len(list) \in Nat,
         NEW a \in 0 .. Len(list), NEW b \in 0 .. Len(list), a <= b,
         \A k \in a + 1 .. b : list[k].id \notin A
  PROVE  g[b] = g[a]
<1> DEFINE n == b - a
           T == {i \in 0 .. n : g[a + i] = g[a]}
<1>1. n \in Nat /\ 0 \in T
  OBVIOUS
<1>2. ASSUME NEW i \in 1 .. n, i - 1 \in T PROVE i \in T
  <2>1. a + i \in 1 .. Len(list) /\ a + i \in a + 1 .. b /\ (a + i) - 1 = a + (i - 1)
        /\ g[a + (i - 1)] = g[a]
    BY <1>2
  <2>2. g[a + i] = g[(a + i) - 1]
    BY <2>1 DEF AnswerRun
  <2> QED BY <2>1, <2>2
<1>3. n \in T
  <2> HIDE DEF T, n
  <2>1. \A k \in 0 .. n : k \in T
    BY <1>1, <1>2, IndexInduction
  <2> QED BY <1>1, <2>1
<1>4. a + n = b
  OBVIOUS
<1> QED BY <1>3, <1>4

\* The changes of liquidity among the rows are of something.
Changes(list) == \A k \in 1 .. Len(list) : ~IsTrade(list[k]) => list[k].liquidity > 0

\* A change of liquidity moves some liquidity.
LEMMA HistoryChanges ==
  ASSUME NEW list, Announced(list), NEW h, History(h, list)
  PROVE  Changes(list)
<1> SUFFICES ASSUME NEW k \in 1 .. Len(list), ~IsTrade(list[k]) PROVE list[k].liquidity > 0
  BY DEF Changes
<1>1. Fits(h[k - 1], list[k])
  BY DEF History
<1> QED BY <1>1 DEF Fits, TradeFits, AddFits, RemoveFits

\* What the records say of a set of ids is what they said of it before,
\* and one row more adds up.
LEMMA RecordedGrows ==
  ASSUME NEW list, Announced(list), NEW t \in Transaction, t.id = Len(list) + 1,
         NEW A \in SUBSET (1 .. Len(list)), OfChanges(list, A)
  PROVE  /\ Recorded(Append(list, t), A) = Recorded(list, A) /\ Recorded(list, A) \in Answer
         /\ ~IsTrade(t) => Recorded(Append(list, t), A \cup {t.id}) = AddUp(Recorded(list, A), t)
<1> DEFINE n == Len(list)
           more == Append(list, t)
           B == A \cup {t.id}
<1>1. /\ n \in Nat /\ list \in Seq(Transaction) /\ \A k \in 1 .. n : list[k].id = k
  BY DEF Announced
<1>2. /\ more \in Seq(Transaction) /\ Len(more) = n + 1 /\ more[n + 1] = t
      /\ \A k \in 1 .. n : more[k] = list[k] /\ more[k].id = k
      /\ more[n + 1].id = n + 1
  BY <1>1
<1> HIDE DEF n, more
<1>3. n + 1 \notin A /\ t.id = n + 1
  BY <1>1 DEF n
<1>4. OfChanges(more, A)
  BY <1>1, <1>2, <1>3 DEF OfChanges, n
<1>5. PICK f : AnswerRun(f, list, A) /\ Recorded(list, A) = f[n]
  BY <1>1, AnswerThrough DEF n
<1>6. PICK g : AnswerRun(g, more, A) /\ Recorded(more, A) = g[n + 1]
  BY <1>2, <1>4, AnswerThrough
<1>7. f[n] \in Answer
  BY <1>1, <1>5 DEF AnswerRun, n
<1>8. g[n] = f[n]
  <2>1. \A k \in 1 .. n : list[k] = more[k]
    BY <1>2
  <2>2. n <= Len(list) /\ n <= Len(more) /\ Len(list) \in Nat /\ Len(more) \in Nat
    BY <1>1, <1>2 DEF n
  <2> QED BY <1>1, <1>5, <1>6, <2>1, <2>2, AnswersSame
<1>9. g[n + 1] = g[n]
  <2>1. (n + 1) - 1 = n /\ n + 1 \in 1 .. Len(more) /\ more[n + 1].id \notin A
    BY <1>1, <1>2, <1>3
  <2> QED BY <1>6, <2>1 DEF AnswerRun
<1>10. ASSUME ~IsTrade(t) PROVE Recorded(more, B) = AddUp(f[n], t)
  <2>1. OfChanges(more, B)
    <3> SUFFICES ASSUME NEW k \in 1 .. Len(more), more[k].id \in B PROVE ~IsTrade(more[k])
      BY DEF OfChanges
    <3>1. CASE k = n + 1
      BY <1>2, <1>10, <3>1
    <3>2. CASE k # n + 1
      <4>1. k \in 1 .. n /\ more[k].id \in A
        BY <1>1, <1>2, <1>3, <3>2
      <4> QED BY <1>4, <4>1 DEF OfChanges
    <3> QED BY <3>1, <3>2
  <2>2. PICK h : AnswerRun(h, more, B) /\ Recorded(more, B) = h[n + 1]
    BY <1>2, <2>1, AnswerThrough
  <2>3. h[n] = f[n]
    <3>1. \A k \in 1 .. n : list[k] = more[k] /\ (list[k].id \in A <=> list[k].id \in B)
      BY <1>1, <1>2, <1>3
    <3>2. n <= Len(list) /\ n <= Len(more) /\ Len(list) \in Nat /\ Len(more) \in Nat
      BY <1>1, <1>2 DEF n
    <3> HIDE DEF B
    <3> QED BY ONLY <1>1, <1>5, <2>2, <3>1, <3>2, AnswersSame
  <2>4. h[n + 1] = AddUp(h[n], t)
    <3>1. (n + 1) - 1 = n /\ n + 1 \in 1 .. Len(more) /\ more[n + 1].id \in B /\ more[n + 1] = t
      BY <1>1, <1>2, <1>3
    <3> QED BY <2>2, <3>1 DEF AnswerRun
  <2> QED BY <2>2, <2>3, <2>4
<1> QED BY <1>5, <1>6, <1>7, <1>8, <1>9, <1>10 DEF more

\* A position snapshot stands for what the records say of its rows.
Tracks(s, a) ==
  /\ s.liquidity = a.liquidity /\ (s.basis # "none" => s.status = a.status)
  /\ (s.status # "active" => s.liquidity = 0) /\ (s.status = "none" => s.basis = "none")

\* One row more keeps it so.
LEMMA TrackStep ==
  ASSUME NEW s \in PositionRow, NEW a \in Answer, Tracks(s, a), NEW t \in Transaction, ~IsTrade(t),
         t.liquidity > 0, t.id > s.last
  PROVE  /\ StepPosition(s, t) \in PositionRow /\ AddUp(a, t) \in Answer
         /\ Tracks(StepPosition(s, t), AddUp(a, t)) /\ StepPosition(s, t).last = t.id
<1> DEFINE u == StepPosition(s, t)
           b == AddUp(a, t)
<1>1. /\ s.liquidity \in Nat /\ t.liquidity \in Nat /\ t.id \in Nat /\ s.last \in Nat
      /\ a.liquidity = s.liquidity
  BY DEF PositionRow, Transaction, Tracks
<1>2. u = IF IsOverRemove(s, t) THEN RecordSkippedRemove(s, t) ELSE ApplyPositionState(s, t)
  BY <1>1 DEF StepPosition, AlreadyApplied
<1>3. u \in PositionRow /\ b \in Answer
  BY StepPositionTyped, AddUpIs
<1> HIDE DEF u, b
<1>4. CASE IsOverRemove(s, t)
  <2>1. /\ u.liquidity = s.liquidity /\ u.basis = s.basis /\ u.last = t.id
        /\ u.status = IF s.status = "none" THEN "active" ELSE s.status
    BY <1>2, <1>4 DEF RecordSkippedRemove, PositionRow
  <2>2. b = a
    <3>1. t.kind # "AddLiquidity" /\ (a.liquidity <= 0 \/ t.liquidity > a.liquidity)
      BY <1>1, <1>4 DEF IsOverRemove
    <3> QED BY <3>1, AddUpIs DEF b
  <2>3. Tracks(u, b)
    BY <2>1, <2>2 DEF Tracks
  <2> QED BY <1>3, <2>1, <2>3 DEF u, b
<1>5. CASE ~IsOverRemove(s, t)
  <2> DEFINE running == s.liquidity + (IF t.kind = "AddLiquidity" THEN t.liquidity ELSE -t.liquidity)
  <2>1. /\ u.status = IF running > 0 THEN "active" ELSE "closed"
        /\ u.liquidity = NonNegative(running) /\ u.basis = t.kind /\ u.last = t.id
    BY <1>2, <1>5 DEF ApplyPositionState
  <2>2. CASE t.kind = "AddLiquidity"
    <3>1. running > 0 /\ running \in Nat /\ running = a.liquidity + t.liquidity
      BY <1>1, <2>2
    <3>2. b.liquidity = a.liquidity + t.liquidity /\ b.status = "active"
      BY <2>2, AddUpIs DEF b
    <3> HIDE DEF running
    <3>3. Tracks(u, b)
      BY <1>1, <2>1, <3>1, <3>2 DEF Tracks, NonNegative
    <3> QED BY <1>3, <2>1, <3>3 DEF u, b
  <2>3. CASE t.kind # "AddLiquidity"
    <3>1. t.kind = "RemoveLiquidity"
      BY <2>3 DEF IsTrade, Transaction, Kinds
    <3>2. ~(a.liquidity <= 0 \/ t.liquidity > a.liquidity)
      BY <1>1, <1>5, <3>1 DEF IsOverRemove
    <3>3. /\ b.liquidity = a.liquidity - t.liquidity
          /\ b.status = IF t.liquidity = a.liquidity THEN "closed" ELSE "active"
      BY <2>3, <3>2, AddUpIs DEF b
    <3>4. running \in Nat /\ running = a.liquidity - t.liquidity
          /\ (running > 0 <=> t.liquidity # a.liquidity)
      BY <1>1, <2>3, <3>2
    <3> HIDE DEF running
    <3>5. u.liquidity = running /\ b.liquidity = running
      BY <2>1, <3>3, <3>4 DEF NonNegative
    <3>6. u.status = b.status /\ u.status # "none" /\ (u.status # "active" => running = 0)
      BY <2>1, <3>3, <3>4
    <3>7. Tracks(u, b)
      BY <3>5, <3>6 DEF Tracks
    <3> QED BY <1>3, <2>1, <3>7 DEF u, b
  <2> QED BY <2>2, <2>3
<1> QED BY <1>4, <1>5

\* A snapshot that stands for some rows, none beyond row m, stands after a
\* batch for those of the batch besides that it did not have, when all of
\* these are beyond m.
LEMMA PositionFollows ==
  ASSUME NEW list, Announced(list), Changes(list), NEW base \in PositionRow,
         NEW ids \in SUBSET (1 .. Len(list)), OfChanges(list, ids),
         NEW m \in 0 .. Len(list), NEW K \in SUBSET (1 .. m), OfChanges(list, K),
         Tracks(base, Recorded(list, K)), base.last <= m,
         \A i \in ids : i > base.last => i > m
  PROVE  LET to == Through(StepPosition, base, list, ids)
             new == {i \in ids : i > base.last}
         IN  /\ to \in PositionRow /\ Tracks(to, Recorded(list, K \cup new))
             /\ new = {} => to = base
             /\ new # {} => to.last \in new /\ new \subseteq 1 .. to.last
<1> DEFINE n == Len(list)
           new == {i \in ids : i > base.last}
           all == K \cup new
<1>1. /\ n \in Nat /\ list \in Seq(Transaction) /\ base.last \in Nat
      /\ \A k \in 1 .. n : list[k] \in Transaction /\ list[k].id = k
  <2>1. n \in Nat /\ list \in Seq(Transaction) /\ \A k \in 1 .. n : list[k].id = k
    BY DEF Announced
  <2>2. \A k \in 1 .. n : list[k] \in Transaction
    BY <2>1
  <2>3. base.last \in Nat
    BY DEF PositionRow
  <2> QED BY <2>1, <2>2, <2>3
<1>0. m \in Nat /\ m <= n
  BY <1>1
<1>2. all \in SUBSET (1 .. n) /\ new \in SUBSET (m + 1 .. n) /\ OfChanges(list, all)
  <2>1. new \in SUBSET (m + 1 .. n)
    <3>1. \A i \in ids : i \in 1 .. n
      OBVIOUS
    <3> QED BY <1>0, <1>1, <3>1
  <2>2. K \in SUBSET (1 .. n)
    BY <1>0, <1>1
  <2>3. new \in SUBSET (1 .. n)
    OBVIOUS
  <2>4. OfChanges(list, all)
    BY DEF OfChanges
  <2> QED BY <2>1, <2>2, <2>3, <2>4
<1>3. PICK p : PositionRun(p, base, list, ids) /\ Through(StepPosition, base, list, ids) = p[n]
  BY <1>1, PositionThrough
<1>4. PICK f : AnswerRun(f, list, K) /\ Recorded(list, K) = f[n]
  BY <1>1, AnswerThrough
<1>5. PICK g : AnswerRun(g, list, all) /\ Recorded(list, all) = g[n]
  BY <1>1, <1>2, AnswerThrough
<1>6. /\ p \in [0 .. n -> PositionRow] /\ p[0] = base
      /\ \A k \in 1 .. n : p[k] = IF k \in ids THEN StepPosition(p[k - 1], list[k]) ELSE p[k - 1]
  BY <1>1, <1>3 DEF PositionRun
<1>7. /\ g \in [0 .. n -> Answer]
      /\ \A k \in 1 .. n : g[k] = IF k \in all THEN AddUp(g[k - 1], list[k]) ELSE g[k - 1]
  BY <1>1, <1>5 DEF AnswerRun
<1> HIDE DEF all, n
<1>8. g[m] = f[n]
  <2>1. \A k \in 1 .. m : list[k].id \in K <=> list[k].id \in all
    <3> SUFFICES ASSUME NEW k \in 1 .. m PROVE list[k].id \in K <=> list[k].id \in all
      OBVIOUS
    <3>1. k \in 1 .. n /\ list[k].id = k /\ ~(k \in m + 1 .. n)
      BY <1>0, <1>1 DEF n
    <3>2. k \notin new
      BY <1>2, <3>1
    <3> QED BY <3>1, <3>2 DEF all
  <2>2. n \in Nat /\ m \in Nat /\ m <= n /\ n = Len(list)
    BY <1>0, <1>1 DEF n
  <2> HIDE DEF new
  <2>3. f[m] = g[m]
    <3>1. Len(list) \in Nat /\ m <= Len(list) /\ m \in Nat
      BY <2>2
    <3> QED BY ONLY <1>4, <1>5, <2>1, <3>1, AnswersPrefix
  <2>4. f[n] = f[m]
    <3>1. \A k \in m + 1 .. n : list[k].id \notin K
      BY <1>1, <2>2
    <3>2. m \in 0 .. Len(list) /\ n \in 0 .. Len(list) /\ Len(list) \in Nat
      BY <2>2
    <3> QED BY ONLY <1>4, <2>2, <3>1, <3>2, AnswersFlat
  <2> QED BY <2>3, <2>4
<1>9. p[m] = base
  <2> DEFINE T == {k \in 0 .. m : p[k] = base}
  <2>1. 0 \in T
    BY <1>6
  <2>2. ASSUME NEW k \in 1 .. m, k - 1 \in T PROVE k \in T
    <3>1. k \in 1 .. n /\ p[k - 1] = base
      BY <1>1, <2>2 DEF n
    <3>2. CASE k \in ids
      <4>1. k <= base.last
        BY <1>1, <3>2
      <4>2. list[k].id <= base.last
        BY <1>1, <3>1, <4>1
      <4> QED BY <1>6, <3>1, <3>2, <4>2 DEF StepPosition, AlreadyApplied
    <3>3. CASE k \notin ids
      BY <1>6, <3>1, <3>3
    <3> QED BY <3>2, <3>3
  <2>3. \A k \in 0 .. m : k \in T
    <3> HIDE DEF T
    <3> QED BY <1>0, <2>1, <2>2, IndexInduction
  <2>4. m \in 0 .. m
    BY <1>0
  <2> QED BY <2>3, <2>4
<1> DEFINE Good(k) ==
             /\ Tracks(p[k], g[k]) /\ p[k].last < k + 1
             /\ (\A i \in new : i > k) => p[k] = base
             /\ ~(\A i \in new : i > k) => p[k].last \in new
                                           /\ \A i \in new : i <= k => i <= p[k].last
           S == {i \in 0 .. n - m : Good(m + i)}
<1>10. Good(m)
  <2>1. \A i \in new : i > m
    OBVIOUS
  <2>2. base.last < m + 1
    BY <1>1
  <2> HIDE DEF new
  <2> QED BY <1>4, <1>8, <1>9, <2>1, <2>2
<1>11. ASSUME NEW k \in m + 1 .. n, Good(k - 1) PROVE Good(k)
  <2>1. /\ k \in 1 .. n /\ k - 1 \in 0 .. n /\ list[k] \in Transaction /\ list[k].id = k
        /\ p[k - 1] \in PositionRow /\ g[k - 1] \in Answer /\ (k - 1) + 1 = k /\ k < k + 1
    <3>1. k \in 1 .. n /\ k - 1 \in 0 .. n /\ (k - 1) + 1 = k /\ k < k + 1
      BY <1>0, <1>1
    <3> QED BY <1>1, <1>6, <1>7, <3>1 DEF n
  <2>2. k \in ids <=> k \in new
    BY <1>1
  <2>3. k \in all <=> k \in new
    BY DEF all
  <2>4. /\ Tracks(p[k - 1], g[k - 1]) /\ p[k - 1].last < k
        /\ (\A i \in new : i > k - 1) => p[k - 1] = base
        /\ ~(\A i \in new : i > k - 1) => p[k - 1].last \in new
                                           /\ \A i \in new : i <= k - 1 => i <= p[k - 1].last
    BY <1>11, <2>1
  <2>5. \A i \in new : i \in Nat
    BY <1>1, <1>2
  <2> HIDE DEF new
  <2>6. CASE k \in new
    <3>1. /\ p[k] = StepPosition(p[k - 1], list[k]) /\ g[k] = AddUp(g[k - 1], list[k])
      BY <1>6, <1>7, <2>1, <2>2, <2>3, <2>6
    <3>2. ~IsTrade(list[k]) /\ list[k].liquidity > 0
      <4>1. list[k].id \in ids
        BY <2>1, <2>2, <2>6
      <4> QED BY <2>1, <4>1 DEF OfChanges, Changes, n
    <3>3. list[k].id > p[k - 1].last
      BY <2>1, <2>4 DEF PositionRow
    <3>4. Tracks(p[k], g[k]) /\ p[k].last = k
      BY <2>1, <2>4, <3>1, <3>2, <3>3, TrackStep
    <3> QED BY <2>1, <2>5, <2>6, <3>4
  <2>7. CASE k \notin new
    <3>1. p[k] = p[k - 1] /\ g[k] = g[k - 1]
      BY <1>6, <1>7, <2>1, <2>2, <2>3, <2>7
    <3>2. \A i \in new : (i > k - 1 <=> i > k) /\ (i <= k - 1 <=> i <= k)
      <4>1. \A i \in new : i \in Nat /\ i # k
        BY <2>5, <2>7
      <4>2. k \in Nat
        BY <2>1
      <4> QED BY ONLY <4>1, <4>2
    <3>3. p[k].last < k + 1
      BY <2>1, <2>4, <3>1 DEF PositionRow
    <3> QED BY <2>4, <3>1, <3>2, <3>3
  <2> QED BY <2>6, <2>7
<1> HIDE DEF Good
<1>12. Good(n)
  <2>1. n - m \in Nat /\ m + 0 = m /\ m + (n - m) = n
    BY <1>1 DEF n
  <2>2. 0 \in S
    BY <1>10, <2>1
  <2>3. ASSUME NEW i \in 1 .. n - m, i - 1 \in S PROVE i \in S
    <3>1. m + i \in m + 1 .. n /\ (m + i) - 1 = m + (i - 1)
      BY <1>1, <2>3
    <3> QED BY <1>11, <2>3, <3>1
  <2>4. \A i \in 0 .. n - m : i \in S
    <3> HIDE DEF S
    <3> QED BY <2>1, <2>2, <2>3, IndexInduction
  <2> QED BY <2>1, <2>4
<1>13. /\ Tracks(p[n], g[n]) /\ p[n] \in PositionRow
       /\ new = {} => p[n] = base
       /\ new # {} => p[n].last \in new /\ new \subseteq 1 .. p[n].last
  <2>1. new \subseteq 1 .. n /\ (\A i \in new : ~(i > n))
    BY <1>1, <1>2
  <2>2. p[n] \in PositionRow
    BY <1>1, <1>6
  <2> HIDE DEF new
  <2>3. /\ Tracks(p[n], g[n]) /\ ((\A i \in new : i > n) => p[n] = base)
        /\ ~(\A i \in new : i > n) => p[n].last \in new
                                        /\ \A i \in new : i <= n => i <= p[n].last
    BY <1>12 DEF Good
  <2>4. p[n].last \in Nat
    BY <2>2 DEF PositionRow
  <2>5. ASSUME new # {} PROVE p[n].last \in new /\ new \subseteq 1 .. p[n].last
    <3>1. ~(\A i \in new : i > n)
      BY <2>1, <2>5
    <3>2. \A i \in new : i \in 1 .. n
      BY <2>1
    <3>3. \A i \in new : i \in Nat /\ 1 <= i /\ i <= p[n].last
      BY <1>1, <2>3, <3>1, <3>2
    <3> QED BY <2>3, <2>4, <3>1, <3>3
  <2> QED BY <2>2, <2>3, <2>5
<1> QED BY <1>3, <1>5, <1>13 DEF all, n

\* What the snapshot of a position stands for.
PositionOf(o) ==
  /\ posRow[o] \in PositionRow
  /\ taken[o] \subseteq PositionsOf(o, settled) /\ taken[o] \subseteq 1 .. posRow[o].last
  /\ posRow[o].last \in {0} \cup taken[o]
  /\ Tracks(posRow[o], Recorded(rows, taken[o]))

Positions ==
  \A o \in Owners : PositionOf(o) /\ (used.faults = 0 => taken[o] = PositionsOf(o, settled))

\* The rows of a position are changes of liquidity.
LEMMA PositionRows ==
  ASSUME Chain, NEW o, NEW S \in SUBSET (1 .. Len(rows)), NEW A \in SUBSET PositionsOf(o, S)
  PROVE  A \in SUBSET (1 .. Len(rows)) /\ OfChanges(rows, A)
<1>1. \A k \in 1 .. Len(rows) : rows[k].id = k
  BY DEF Chain, Announced
<1>2. \A i \in A : i \in 1 .. Len(rows) /\ ~IsTrade(rows[i])
  BY DEF PositionsOf, IsPositionLiquidity
<1> QED BY <1>1, <1>2 DEF OfChanges

\* No rows add up to nothing.
LEMMA NothingRecorded ==
  ASSUME Chain
  PROVE  Recorded(rows, {}) = NoAnswer
<1>1. rows \in Seq(Transaction) /\ Len(rows) \in Nat
  BY DEF Chain, Announced
<1>2. OfChanges(rows, {})
  BY DEF OfChanges
<1>3. PICK f : AnswerRun(f, rows, {}) /\ Recorded(rows, {}) = f[Len(rows)]
  BY <1>1, <1>2, AnswerThrough
<1>4. f[Len(rows)] = f[0]
  <2>1. 0 \in 0 .. Len(rows) /\ Len(rows) \in 0 .. Len(rows) /\ 0 <= Len(rows)
    BY <1>1
  <2>2. \A k \in 0 + 1 .. Len(rows) : rows[k].id \notin {}
    OBVIOUS
  <2> QED BY ONLY <1>1, <1>3, <2>1, <2>2, AnswersFlat
<1> QED BY <1>3, <1>4 DEF AnswerRun

\* The snapshot of an owner with rows in the batch is replaced.
LEMMA OwnerReplaced ==
  ASSUME Chain, settled \subseteq 1 .. Len(rows), NEW o \in Owners, PositionOf(o),
         NEW batch \in SUBSET (1 .. Len(rows)), PositionsOf(o, batch) # {}
  PROVE  LET known == GetPositionState(posRow[o])
             ids == PositionsOf(o, batch)
             new == {i \in ids : ~AlreadyApplied(known, rows[i])}
             to == PositionAfter(posRow[o], ids)
             all == IF known.status = "active" THEN taken[o] \cup new ELSE Kept(o, new) \cup new
         IN  /\ to \in PositionRow /\ all \subseteq taken[o] \cup ids
             /\ all \subseteq 1 .. to.last /\ to.last \in {0} \cup all
             /\ Tracks(to, Recorded(rows, all))
<1> DEFINE n == Len(rows)
           row == posRow[o]
           T == taken[o]
           known == GetPositionState(row)
           ids == PositionsOf(o, batch)
           new == {i \in ids : ~AlreadyApplied(known, rows[i])}
           to == PositionAfter(row, ids)
           all == IF known.status = "active" THEN T \cup new ELSE Kept(o, new) \cup new
           Goal == /\ to \in PositionRow /\ all \subseteq T \cup ids
                   /\ all \subseteq 1 .. to.last /\ to.last \in {0} \cup all
                   /\ Tracks(to, Recorded(rows, all))
<1> SUFFICES Goal
  OBVIOUS
<1>1. /\ n \in Nat /\ Announced(rows) /\ Changes(rows)
      /\ \A k \in 1 .. n : rows[k].id = k
  <2>1. PICK h : History(h, rows)
    BY DEF Chain
  <2>2. Announced(rows)
    BY DEF Chain
  <2> QED BY <2>1, <2>2, HistoryChanges DEF Announced
<1>2. /\ row \in PositionRow /\ T \subseteq PositionsOf(o, settled) /\ T \subseteq 1 .. row.last
      /\ row.last \in {0} \cup T /\ Tracks(row, Recorded(rows, T))
  BY DEF PositionOf
<1>3. /\ ids \in SUBSET (1 .. n) /\ OfChanges(rows, ids)
      /\ T \in SUBSET (1 .. n) /\ OfChanges(rows, T)
  BY <1>2, PositionRows
<1>4. row.last \in 0 .. n /\ row.last \in Nat
  BY <1>1, <1>2, <1>3
<1> HIDE DEF n, row, T, ids
<1>5. to = Through(StepPosition, known, rows, ids)
  BY DEF PositionAfter
<1>6. \A i \in ids : i \in 1 .. n /\ rows[i].id = i
  BY <1>1, <1>3
<1>7. CASE known.status = "active"
  <2>1. known = row
    BY <1>7 DEF GetPositionState, NoPosition
  <2>2. new = {i \in ids : i > row.last}
    BY <1>1, <1>4, <1>6, <2>1 DEF AlreadyApplied
  <2> DEFINE late == {i \in ids : i > row.last}
  <2>3. /\ to \in PositionRow /\ Tracks(to, Recorded(rows, T \cup late))
        /\ late = {} => to = row
        /\ late # {} => to.last \in late /\ late \subseteq 1 .. to.last
    <3>1. row.last \in 0 .. Len(rows) /\ T \in SUBSET (1 .. row.last) /\ row.last <= row.last
          /\ ids \in SUBSET (1 .. Len(rows))
      BY <1>2, <1>3, <1>4 DEF n
    <3>2. \A i \in ids : i > row.last => i > row.last
      OBVIOUS
    <3>3. to = Through(StepPosition, row, rows, ids)
      BY <1>5, <2>1
    <3> HIDE DEF to
    <3> QED BY ONLY <1>1, <1>2, <1>3, <3>1, <3>2, <3>3, PositionFollows
  <2>4. all = T \cup late
    BY <1>7, <2>2
  <2> HIDE DEF to, all
  <2>5. CASE late = {}
    BY <1>2, <2>3, <2>4, <2>5
  <2>6. CASE late # {}
    <3>1. to.last \in late /\ late \subseteq 1 .. to.last /\ late \subseteq ids
      BY <2>3, <2>6
    <3>2. to.last \in Nat /\ row.last < to.last
      BY <1>1, <1>4, <1>6, <3>1
    <3>3. T \subseteq 1 .. to.last
      <4>1. \A i \in T : i \in 1 .. row.last
        BY <1>2
      <4>2. \A i \in T : i \in 1 .. to.last
        BY <1>4, <3>2, <4>1
      <4> QED BY <4>2
    <3> QED BY <2>3, <2>4, <3>1, <3>3
  <2> QED BY <2>5, <2>6
<1>8. CASE known.status # "active"
  <2>1. known = NoPosition
    BY <1>8 DEF GetPositionState
  <2>2. new = ids /\ new = {i \in ids : i > NoPosition.last}
    BY <1>1, <1>6, <2>1 DEF AlreadyApplied, NoPosition
  <2> DEFINE K == Kept(o, ids)
             before == {i \in T : \A j \in ids : i < j}
  <2>3. PICK first \in ids : \A j \in ids : first <= j
    <3>1. ids \subseteq Int /\ ids # {}
      BY <1>6 DEF ids
    <3>2. IsFiniteSet(ids)
      <4>1. IsFiniteSet(1 .. n)
        BY <1>1, FS_Interval
      <4> QED BY <1>3, <4>1, FS_Subset
    <3> QED BY <3>1, <3>2, FiniteExtremes
  <2>4. first \in 1 .. n /\ first - 1 \in 0 .. n
    BY <1>1, <1>6
  <2>5. K \in SUBSET (1 .. first - 1) /\ K \subseteq T /\ Recorded(rows, K).liquidity = 0
    <3>1. K = IF Recorded(rows, before).liquidity = 0 THEN before ELSE {}
      BY DEF Kept, T
    <3>2. before \subseteq 1 .. first - 1 /\ before \subseteq T
      <4>1. \A i \in before : i \in 1 .. n /\ i < first
        BY <1>3, <2>3
      <4> QED BY <2>4, <4>1
    <3>3. Recorded(rows, {}).liquidity = 0
      BY NothingRecorded DEF NoAnswer
    <3> HIDE DEF before, K
    <3> QED BY <3>1, <3>2, <3>3
  <2>6. OfChanges(rows, K)
    BY <1>3, <2>5 DEF OfChanges
  <2>7. NoPosition \in PositionRow /\ Tracks(NoPosition, Recorded(rows, K))
        /\ NoPosition.last = 0
    BY <2>5 DEF NoPosition, PositionRow, Statuses, Tracks
  <2> HIDE DEF K
  <2> DEFINE late == {i \in ids : i > NoPosition.last}
  <2>8. /\ to \in PositionRow /\ Tracks(to, Recorded(rows, K \cup late))
        /\ late # {} => to.last \in late /\ late \subseteq 1 .. to.last
    <3>1. first - 1 \in 0 .. Len(rows) /\ ids \in SUBSET (1 .. Len(rows))
          /\ NoPosition.last <= first - 1
      BY <1>3, <2>4, <2>7 DEF n
    <3>2. \A i \in ids : i > NoPosition.last => i > first - 1
      BY <1>6, <2>3, <2>4
    <3>3. to = Through(StepPosition, NoPosition, rows, ids)
      BY <1>5, <2>1
    <3>4. Announced(rows) /\ Changes(rows) /\ OfChanges(rows, ids)
      BY <1>1, <1>3
    <3>5. K \in SUBSET (1 .. first - 1)
      BY <2>5
    <3> HIDE DEF to, late, ids, known
    <3>6. LET goal == Through(StepPosition, NoPosition, rows, ids)
              new0 == {i \in ids : i > NoPosition.last}
          IN  /\ goal \in PositionRow /\ Tracks(goal, Recorded(rows, K \cup new0))
              /\ new0 = {} => goal = NoPosition
              /\ new0 # {} => goal.last \in new0 /\ new0 \subseteq 1 .. goal.last
      BY ONLY <2>6, <2>7, <3>1, <3>2, <3>4, <3>5, PositionFollows
    <3> QED BY <3>3, <3>6 DEF late
  <2>9. all = K \cup ids /\ late = ids
    BY <1>8, <2>2 DEF K
  <2>10. ids # {}
    BY DEF ids
  <2> HIDE DEF to, all, late
  <2>11. to.last \in ids /\ ids \subseteq 1 .. to.last
    BY <2>8, <2>9, <2>10
  <2>12. K \subseteq 1 .. to.last
    <3>1. to.last \in Nat /\ first <= to.last
      BY <1>6, <2>3, <2>11
    <3>2. \A i \in K : i \in 1 .. to.last
      BY <2>4, <2>5, <3>1
    <3> QED BY <3>2
  <2> QED BY <2>5, <2>8, <2>9, <2>11, <2>12
<1> QED BY <1>7, <1>8

\* An owner is replaced if he has a row in the batch.
LEMMA OwnerInBatch ==
  ASSUME NEW o, NEW sub
  PROVE  o \in OwnersOf(sub) <=> PositionsOf(o, sub) # {}
  BY DEF OwnersOf, PositionsOf

\* Replacing the snapshots of some owners of a batch.
LEMMA ReplaceKeeps ==
  ASSUME Chain, settled \subseteq 1 .. Len(rows), \A o \in Owners : PositionOf(o), rows' = rows,
         NEW batch \in SUBSET (1 .. Len(rows)), NEW sub \in SUBSET batch,
         settled \cup batch \subseteq settled', ReplacePositions(batch, OwnersOf(sub))
  PROVE  \A o \in Owners : PositionOf(o)'
<1> SUFFICES ASSUME NEW o \in Owners PROVE PositionOf(o)'
  OBVIOUS
<1>1. PositionOf(o) /\ PositionsOf(o, settled) \cup PositionsOf(o, batch) \subseteq PositionsOf(o, settled)'
  BY DEF PositionsOf
<1>2. CASE o \notin OwnersOf(sub)
  <2>1. posRow'[o] = posRow[o] /\ taken'[o] = taken[o]
    BY <1>2 DEF ReplacePositions
  <2> QED BY <1>1, <2>1 DEF PositionOf
<1>3. CASE o \in OwnersOf(sub)
  <2> DEFINE known == GetPositionState(posRow[o])
             ids == PositionsOf(o, batch)
             new == {i \in ids : ~AlreadyApplied(known, rows[i])}
             to == PositionAfter(posRow[o], ids)
             all == IF known.status = "active" THEN taken[o] \cup new ELSE Kept(o, new) \cup new
  <2>1. posRow'[o] = to /\ taken'[o] = all
    BY <1>3 DEF ReplacePositions
  <2>2. ids # {}
    <3>1. PositionsOf(o, sub) # {}
      BY <1>3, OwnerInBatch
    <3> QED BY <3>1 DEF PositionsOf
  <2>3. /\ to \in PositionRow /\ all \subseteq taken[o] \cup ids
        /\ all \subseteq 1 .. to.last /\ to.last \in {0} \cup all
        /\ Tracks(to, Recorded(rows, all))
    BY <1>1, <2>2, OwnerReplaced
  <2> HIDE DEF to, all, ids
  <2>4. all \subseteq PositionsOf(o, settled)'
    BY <1>1, <2>3 DEF PositionOf, ids
  <2> QED BY <2>1, <2>3, <2>4 DEF PositionOf
<1> QED BY <1>2, <1>3

\* A batch that goes on where all was settled, or starts again from the
\* first row, leaves nothing out.
LEMMA BatchCompletes ==
  ASSUME Chain, NEW o \in Owners, PositionOf(o), rows' = rows,
         taken[o] = PositionsOf(o, settled), settled = 1 .. cursor, cursor \in 0 .. Len(rows),
         NEW after \in {0, cursor}, settled' = settled \cup (after + 1 .. Len(rows)),
         ReplacePositions(after + 1 .. Len(rows), OwnersOf(after + 1 .. Len(rows)))
  PROVE  taken'[o] = PositionsOf(o, settled)'
<1> DEFINE n == Len(rows)
           batch == after + 1 .. n
           T == taken[o]
           known == GetPositionState(posRow[o])
           ids == PositionsOf(o, batch)
           new == {i \in ids : ~AlreadyApplied(known, rows[i])}
           target == PositionsOf(o, 1 .. n)
<1>1. /\ n \in Nat /\ cursor \in 0 .. n /\ after \in 0 .. n /\ \A k \in 1 .. n : rows[k].id = k
  <2>1. n \in Nat /\ \A k \in 1 .. n : rows[k].id = k
    BY DEF Chain, Announced
  <2> QED BY <2>1
<1>2. settled' = 1 .. n
  BY <1>1
<1>3. PositionsOf(o, settled)' = target
  BY <1>2 DEF PositionsOf
<1>4. /\ target = T \cup ids /\ (after = 0 => target = ids)
      /\ \A i \in T : i \in 1 .. cursor
      /\ \A i \in ids : i \in after + 1 .. n /\ i \in 1 .. n
      /\ \A i \in target : i \in 1 .. cursor => i \in T
  <2>1. \A i \in 1 .. n : i \in 1 .. cursor \/ i \in after + 1 .. n
    BY <1>1
  <2>2. \A i : i \in 1 .. cursor \/ i \in after + 1 .. n => i \in 1 .. n
    BY <1>1
  <2>3. after = 0 => batch = 1 .. n
    OBVIOUS
  <2> QED BY <2>1, <2>2, <2>3 DEF PositionsOf
<1>5. /\ posRow[o] \in PositionRow /\ posRow[o].last \in {0} \cup T
      /\ Tracks(posRow[o], Recorded(rows, T))
  BY DEF PositionOf
<1>6. taken'[o] = IF o \notin OwnersOf(batch) THEN T
                  ELSE IF known.status = "active" THEN T \cup new ELSE Kept(o, new) \cup new
  BY DEF ReplacePositions
<1>7. o \in OwnersOf(batch) <=> ids # {}
  BY OwnerInBatch
<1> HIDE DEF n, T, ids, target, batch
<1>8. CASE ids = {}
  BY <1>3, <1>4, <1>6, <1>7, <1>8
<1>9. CASE ids # {} /\ known.status = "active"
  <2>1. known = posRow[o]
    BY <1>9 DEF GetPositionState, NoPosition
  <2>2. posRow[o].last \in Nat /\ posRow[o].last <= cursor
    BY <1>1, <1>4, <1>5
  <2>3. ASSUME NEW i \in ids, i \notin new PROVE i \in T
    <3>1. rows[i].id = i /\ rows[i].id <= posRow[o].last
      BY <1>1, <1>4, <2>1, <2>3 DEF AlreadyApplied
    <3>2. i \in 1 .. cursor /\ i \in target
      BY <1>1, <1>4, <2>2, <3>1
    <3> QED BY <1>4, <3>2
  <2> QED BY <1>3, <1>4, <1>6, <1>7, <1>9, <2>3
<1>10. CASE ids # {} /\ known.status # "active"
  <2>1. known = NoPosition /\ posRow[o].status # "active"
    BY <1>10 DEF GetPositionState
  <2>2. new = ids
    BY <1>1, <1>4, <2>1 DEF AlreadyApplied, NoPosition
  <2> DEFINE before == {i \in T : \A j \in ids : i < j}
  <2>3. Kept(o, ids) = IF Recorded(rows, before).liquidity = 0 THEN before ELSE {}
    BY DEF Kept, T
  <2>4. after = cursor => Kept(o, ids) = T
    <3> SUFFICES ASSUME after = cursor PROVE Kept(o, ids) = T
      OBVIOUS
    <3>1. before = T
      BY <1>1, <1>4
    <3>2. Recorded(rows, T).liquidity = 0
      BY <1>5, <2>1 DEF Tracks
    <3> QED BY <2>3, <3>1, <3>2
  <2>5. Kept(o, ids) \subseteq T
    BY <2>3
  <2>6. taken'[o] = Kept(o, ids) \cup ids
    BY <1>6, <1>7, <1>10, <2>2
  <2> QED BY <1>3, <1>4, <2>4, <2>5, <2>6
<1> QED BY <1>8, <1>9, <1>10

\* Where nothing is left out, a restart finds no gap.
LEMMA NoGap ==
  ASSUME Chain, settled \subseteq 1 .. Len(rows),
         \A o \in Owners : PositionOf(o) /\ taken[o] = PositionsOf(o, settled)
  PROVE  OwnersOf(GapChanges) = {}
<1> SUFFICES ASSUME NEW i \in GapChanges PROVE FALSE
  BY DEF OwnersOf
<1>1. /\ i \in settled /\ IsPositionLiquidity(rows[i]) /\ i > posRow[rows[i].owner].last
      /\ i \in 1 .. Len(rows)
  BY DEF GapChanges
<1>2. rows[i] \in Transaction
  BY <1>1 DEF Chain, Announced
<1> DEFINE o == rows[i].owner
<1>3. o \in Owners
  BY <1>2 DEF Transaction
<1>4. i \in PositionsOf(o, settled)
  BY <1>1 DEF PositionsOf
<1>5. i \in 1 .. posRow[o].last /\ posRow[o].last \in Nat
  BY <1>3, <1>4 DEF PositionOf, PositionRow
<1> QED BY <1>1, <1>5

\* A row more on the chain changes nothing of what snapshots stand for.
LEMMA GrowthKeepsPositions ==
  ASSUME Chain, settled \subseteq 1 .. Len(rows), Positions, NEW t \in Transaction,
         t.id = Len(rows) + 1, rows' = Append(rows, t),
         UNCHANGED <<tables, up, used, histories>>
  PROVE  Positions'
<1> SUFFICES ASSUME NEW o \in Owners
             PROVE  PositionOf(o)' /\ (used'.faults = 0 => taken'[o] = PositionsOf(o, settled)')
  BY DEF Positions
<1>1. settled' = settled /\ posRow' = posRow /\ taken' = taken /\ used' = used
  BY DEF tables, histories
<1>2. Announced(rows) /\ rows \in Seq(Transaction) /\ Len(rows) \in Nat
  BY DEF Chain, Announced
<1>3. PositionsOf(o, settled)' = PositionsOf(o, settled)
  <2>1. \A i \in settled : rows'[i] = rows[i]
    BY <1>2
  <2> QED BY <1>1, <2>1 DEF PositionsOf
<1>4. PositionOf(o) /\ (used.faults = 0 => taken[o] = PositionsOf(o, settled))
  BY DEF Positions
<1> DEFINE T == taken[o]
<1>5. Recorded(rows', T) = Recorded(rows, T)
  <2>1. T \in SUBSET (1 .. Len(rows)) /\ OfChanges(rows, T)
    BY <1>4, PositionRows DEF PositionOf
  <2> HIDE DEF T
  <2> QED BY <1>2, <2>1, RecordedGrows
<1> QED BY <1>1, <1>3, <1>4, <1>5 DEF PositionOf

\* Before the first request nobody has a position and nothing is settled.
LEMMA PositionsInit == Init => Positions
<1> SUFFICES ASSUME Init, NEW o \in Owners
             PROVE  PositionOf(o) /\ (used.faults = 0 => taken[o] = PositionsOf(o, settled))
  BY DEF Positions
<1>1. posRow[o] = NoPosition /\ taken[o] = {} /\ settled = {}
  BY DEF Init
<1>2. Recorded(rows, {}) = NoAnswer
  BY ChainInit, NothingRecorded
<1>3. PositionsOf(o, settled) = {}
  BY <1>1 DEF PositionsOf
<1>4. NoPosition \in PositionRow /\ NoPosition.last = 0 /\ Tracks(NoPosition, NoAnswer)
  BY DEF NoPosition, NoAnswer, PositionRow, Statuses, Tracks
<1> QED BY <1>1, <1>2, <1>3, <1>4 DEF PositionOf

\* Steps that leave positions and settled rows alone.
LEMMA PositionsKept ==
  ASSUME Positions, rows' = rows, settled' = settled, posRow' = posRow, taken' = taken,
         used'.faults = 0 => used.faults = 0
  PROVE  Positions'
<1> SUFFICES ASSUME NEW o \in Owners
             PROVE  PositionOf(o)' /\ (used'.faults = 0 => taken'[o] = PositionsOf(o, settled)')
  BY DEF Positions
<1>1. PositionsOf(o, settled)' = PositionsOf(o, settled)
  BY DEF PositionsOf
<1>2. PositionOf(o) /\ (used.faults = 0 => taken[o] = PositionsOf(o, settled))
  BY DEF Positions
<1> QED BY <1>1, <1>2 DEF PositionOf

\* A batch is settled and all its positions are replaced.
LEMMA BatchKeepsPositions ==
  ASSUME Chain, PoolSnapshot, Positions, rows' = rows, NEW after \in {0, cursor},
         Settle(Batch(after)), ReplacePositions(Batch(after), OwnersOf(Batch(after))),
         used'.faults = used.faults
  PROVE  Positions'
<1>1. Len(rows) \in Nat /\ cursor \in 0 .. Len(rows) /\ settled \subseteq 1 .. Len(rows)
  BY DEF Chain, Announced, PoolSnapshot
<1>2. \A o \in Owners : PositionOf(o) /\ (used.faults = 0 => taken[o] = PositionsOf(o, settled))
  BY DEF Positions
<1> DEFINE batch == after + 1 .. Len(rows)
<1>3. batch \in SUBSET (1 .. Len(rows)) /\ batch \in SUBSET batch
  BY <1>1
<1>4. settled' = settled \cup batch /\ ReplacePositions(batch, OwnersOf(batch))
  BY DEF Settle, Batch
<1>5. \A o \in Owners : PositionOf(o)'
  <2> HIDE DEF batch
  <2> QED BY <1>1, <1>2, <1>3, <1>4, ReplaceKeeps
<1>6. ASSUME used'.faults = 0, NEW o \in Owners PROVE taken'[o] = PositionsOf(o, settled)'
  <2>1. settled = 1 .. cursor /\ taken[o] = PositionsOf(o, settled) /\ PositionOf(o)
    BY <1>2, <1>6 DEF PoolSnapshot
  <2> QED BY <1>1, <1>4, <2>1, BatchCompletes
<1> QED BY <1>5, <1>6 DEF Positions

\* A batch is settled, and some of its positions are replaced before a
\* fault.
LEMMA FaultKeepsPositions ==
  ASSUME Chain, PoolSnapshot, Positions, rows' = rows, Fault, NEW n \in cursor .. Len(rows),
         Settle(Batch(cursor)), ReplacePositions(Batch(cursor), OwnersOf(cursor + 1 .. n))
  PROVE  Positions'
<1>1. Len(rows) \in Nat /\ cursor \in 0 .. Len(rows) /\ settled \subseteq 1 .. Len(rows)
  BY DEF Chain, Announced, PoolSnapshot
<1>2. \A o \in Owners : PositionOf(o)
  BY DEF Positions
<1> DEFINE batch == cursor + 1 .. Len(rows)
           sub == cursor + 1 .. n
<1>3. batch \in SUBSET (1 .. Len(rows)) /\ sub \in SUBSET batch
  BY <1>1
<1>4. settled' = settled \cup batch /\ ReplacePositions(batch, OwnersOf(sub))
  BY DEF Settle, Batch
<1>5. \A o \in Owners : PositionOf(o)'
  <2> HIDE DEF batch, sub
  <2> QED BY <1>1, <1>2, <1>3, <1>4, ReplaceKeeps
<1>6. used'.faults > 0 /\ used'.faults \in Nat
  BY FaultCounts DEF PoolSnapshot
<1> QED BY <1>5, <1>6 DEF Positions

\* The replay at the start of the service brings the snapshot of an owner
\* to what is settled, or leaves it.
LEMMA RestartKeepsPositions ==
  ASSUME Chain, PoolSnapshot, Positions, Restart
  PROVE  Positions'
<1>1. /\ rows' = rows /\ settled' = settled /\ used' = used
      /\ ReplacePositions(GapChanges, OwnersOf(GapChanges))
  BY DEF Restart, chainVars
<1>2. settled \subseteq 1 .. Len(rows)
  BY DEF PoolSnapshot
<1>3. \A o \in Owners : PositionOf(o) /\ (used.faults = 0 => taken[o] = PositionsOf(o, settled))
  BY DEF Positions
<1>4. GapChanges \in SUBSET (1 .. Len(rows)) /\ GapChanges \in SUBSET GapChanges
      /\ settled \cup GapChanges \subseteq settled'
  BY <1>1, <1>2 DEF GapChanges
<1>5. \A o \in Owners : PositionOf(o)'
  BY ONLY Chain, <1>1, <1>2, <1>3, <1>4, ReplaceKeeps
<1>6. ASSUME used'.faults = 0, NEW o \in Owners PROVE taken'[o] = PositionsOf(o, settled)'
  <2>1. OwnersOf(GapChanges) = {}
    BY <1>1, <1>2, <1>3, <1>6, NoGap
  <2>2. taken'[o] = taken[o]
    BY <1>1, <2>1 DEF ReplacePositions
  <2>3. PositionsOf(o, settled)' = PositionsOf(o, settled)
    BY <1>1 DEF PositionsOf
  <2> QED BY <1>1, <1>3, <1>6, <2>2, <2>3
<1> QED BY <1>5, <1>6 DEF Positions

\* Every step keeps the snapshots of the positions in place.
LEMMA PositionsStep ==
  ASSUME Chain, PoolSnapshot, Positions, [Next]_vars
  PROVE  Positions'
<1> USE DEF chainVars, tables, histories
<1>1. used \in [faults : Nat, replays : Nat] /\ settled \subseteq 1 .. Len(rows)
  BY DEF PoolSnapshot
<1>2. CASE \/ \E o \in Owners, amount \in Amounts : AddLiquidity(o, amount, amount)
           \/ \E o \in Owners : \/ RemoveLiquidity(o, pool.shares[o] \div 2)
                                \/ RemoveLiquidity(o, pool.shares[o])
           \/ \E kind \in Trades, amount \in Amounts : Swap(Creator, kind, amount)
  <2>1. PICK h, t : Grows(h[Len(rows)], t)
    BY <1>2, ChainMoves
  <2>2. UNCHANGED <<tables, up, used, histories>>
    BY <1>2, ChainMoves
  <2>3. t \in Transaction /\ t.id = Len(rows) + 1 /\ rows' = Append(rows, t)
    BY <2>1 DEF Grows
  <2> QED BY <1>1, <2>2, <2>3, GrowthKeepsPositions
<1>3. CASE MaterializeBatch
  <2>1. /\ Settle(Batch(cursor)) /\ ReplacePositions(Batch(cursor), OwnersOf(Batch(cursor)))
        /\ rows' = rows /\ used'.faults = used.faults
    BY <1>3 DEF MaterializeBatch, Materialize
  <2> QED BY <2>1, BatchKeepsPositions
<1>4. CASE OperatorReplays
  <2>1. /\ Settle(Batch(0)) /\ ReplacePositions(Batch(0), OwnersOf(Batch(0)))
        /\ rows' = rows /\ used' = [used EXCEPT !.replays = @ + 1]
    BY <1>4 DEF OperatorReplays, Materialize
  <2>2. used'.faults = used.faults
    BY <1>1, <2>1
  <2> QED BY <2>1, <2>2, BatchKeepsPositions
<1>5. CASE \E n \in cursor .. Len(rows) : SnapshotsDegrade(n)
  <2>1. PICK n \in cursor .. Len(rows) :
          /\ Fault /\ Settle(Batch(cursor)) /\ rows' = rows
          /\ ReplacePositions(Batch(cursor), OwnersOf(cursor + 1 .. n))
    BY <1>5 DEF SnapshotsDegrade
  <2> QED BY <2>1, FaultKeepsPositions
<1>6. CASE DerivationFails
  <2>1. /\ Fault /\ settled' = settled /\ rows' = rows /\ posRow' = posRow /\ taken' = taken
    BY <1>6 DEF DerivationFails
  <2> QED BY <1>1, <2>1, FaultCounts, PositionsKept
<1>7. CASE \E n \in cursor .. Len(rows) : CrashInBatch(n)
  <2>1. PICK n \in cursor .. Len(rows) :
          /\ Fault /\ Settle(Batch(cursor)) /\ rows' = rows
          /\ ReplacePositions(Batch(cursor), OwnersOf(cursor + 1 .. n))
    BY <1>7 DEF CrashInBatch
  <2> QED BY <2>1, FaultKeepsPositions
<1>8. CASE Crash
  <2>1. /\ Fault /\ settled' = settled /\ rows' = rows /\ posRow' = posRow /\ taken' = taken
    BY <1>8 DEF Crash
  <2> QED BY <1>1, <2>1, FaultCounts, PositionsKept
<1>9. CASE Restart
  BY <1>9, RestartKeepsPositions
<1>10. CASE UNCHANGED vars
  BY <1>10, PositionsKept DEF vars
<1> QED BY <1>2, <1>3, <1>4, <1>5, <1>6, <1>7, <1>8, <1>9, <1>10 DEF Next

----------------------------------------------------------------------------
(* The shares on the chain.                                                *)

\* The receiver's fees, row by row.
OwnedRun(f, o, list) ==
  /\ f \in [0 .. Len(list) -> Nat] /\ f[0] = 0
  /\ \A k \in 1 .. Len(list) :
       LET held == f[k - 1] + (IF o = Creator THEN RecordedStates(list)[k].minted ELSE 0)
       IN  f[k] = IF list[k].kind = "RemoveLiquidity" /\ list[k].owner = o
                  THEN held - SmallerOf(list[k].liquidity, held) ELSE held

\* The fees an account is said to own are added up row by row.
LEMMA OwnedThrough ==
  ASSUME NEW list \in Seq(Transaction), NEW o,
         \A k \in 1 .. Len(list) : RecordedStates(list)[k].minted \in Nat
  PROVE  \E h : OwnedRun(h, o, list) /\ OwnedFees(o, Creator, list) = h[Len(list)]
<1> DEFINE n == Len(list)
           seq == [i \in 1 .. Len(list) |-> i]
           base == 0
           D == Nat
           Then(s, k) == LET held == s + (IF o = Creator THEN RecordedStates(list)[seq[k]].minted ELSE 0)
                             removes == list[seq[k]].kind = "RemoveLiquidity" /\ list[seq[k]].owner = o
                         IN  IF removes THEN held - SmallerOf(list[seq[k]].liquidity, held) ELSE held
           Rec(f) == f = [s \in SUBSET DOMAIN seq |->
                            IF s = {} THEN base ELSE Then(f[s \ {Max(s)}], Max(s))]
           f == CHOOSE f : Rec(f)
           F == [p \in (1 .. n) \X D |-> Then(p[2], p[1])]
<1>1. DOMAIN seq = 1 .. n /\ n \in Nat /\ \A k \in 1 .. n : seq[k] = k
  OBVIOUS
<1>2. \A s : Max(s) = Greatest(s)
  BY DEF Max, Greatest
<1>3. OwnedFees(o, Creator, list) = f[1 .. n]
  BY <1>1 DEF OwnedFees, FoldLeft, MapThenFoldSet
<1>4. base \in D
  OBVIOUS
<1>5. \A k \in 1 .. n, s \in D : Then(s, k) \in D
  <2>1. \A k \in 1 .. n : list[k].liquidity \in Nat
    <3>1. \A k \in 1 .. n : list[k] \in Transaction
      OBVIOUS
    <3> QED BY <3>1 DEF Transaction
  <2>2. \A a \in Nat, b \in Nat : b - SmallerOf(a, b) \in Nat
    BY DEF SmallerOf
  <2>3. ASSUME NEW k \in 1 .. n, NEW s \in Nat PROVE Then(s, k) \in Nat
    <3> DEFINE held == s + (IF o = Creator THEN RecordedStates(list)[k].minted ELSE 0)
    <3>1. held \in Nat /\ seq[k] = k
      OBVIOUS
    <3>2. Then(s, k) = IF list[k].kind = "RemoveLiquidity" /\ list[k].owner = o
                       THEN held - SmallerOf(list[k].liquidity, held) ELSE held
      BY <3>1
    <3> HIDE DEF held, Then
    <3> QED BY <2>1, <2>2, <3>1, <3>2
  <2> QED BY <2>3
<1>6. F \in [(1 .. n) \X D -> D]
  <2> HIDE DEF Then, D, n
  <2> QED BY <1>5
<1> HIDE DEF n, base, D, Then, seq
<1>7. Rec(f)
  <2>1. PICK g : FoldsLeft(g, n, D, base, F)
    <3> HIDE DEF F
    <3> QED BY <1>1, <1>4, <1>6, LeftFold
  <2>2. \A s \in SUBSET (1 .. n) :
          g[s] = IF s = {} THEN base ELSE Then(g[s \ {Greatest(s)}], Greatest(s))
    BY <2>1 DEF FoldsLeft
  <2>3. Rec(g)
    BY <2>1, <2>2, <1>1, <1>2 DEF FoldsLeft
  <2> HIDE DEF Rec
  <2> QED BY <2>3, Zenon
<1> HIDE DEF f
<1> HIDE DEF F
<1> DEFINE h == [k \in 0 .. n |-> f[1 .. k]]
           T == {k \in 0 .. n : h[k] \in D}
<1>8. ASSUME NEW k \in 1 .. n PROVE h[k] = Then(h[k - 1], k)
  <2>1. /\ 1 .. k \in SUBSET (1 .. n) /\ 1 .. k # {} /\ Greatest(1 .. k) = k
        /\ (1 .. k) \ {k} = 1 .. k - 1 /\ k - 1 \in 0 .. n
    BY <1>1, PrefixStep
  <2>2. f[1 .. k] = Then(f[1 .. k - 1], k)
    <3>1. Max(1 .. k) = k
      BY <1>2, <2>1
    <3>2. f[1 .. k] = Then(f[(1 .. k) \ {Max(1 .. k)}], Max(1 .. k))
      BY ONLY <1>1, <1>7, <2>1
    <3> QED BY ONLY <2>1, <3>1, <3>2
  <2> QED BY <2>1, <2>2
<1>9. h[0] = base /\ h[n] = f[1 .. n]
  <2>1. 1 .. 0 = {} /\ 1 .. 0 \in SUBSET (1 .. n)
    BY <1>1
  <2>2. f[1 .. 0] = base
    BY <1>1, <1>7, <2>1
  <2> QED BY <1>1, <2>2
<1> HIDE DEF h, f, Rec
<1>10. \A k \in 0 .. n : k \in T
  <2>1. 0 \in T
    BY <1>1, <1>4, <1>9
  <2>2. \A k \in 1 .. n : k - 1 \in T => k \in T
    BY <1>5, <1>8
  <2> HIDE DEF T
  <2> QED BY <1>1, <2>1, <2>2, IndexInduction
<1>11. h \in [0 .. n -> D]
  BY <1>10 DEF h
<1>12. OwnedRun(h, o, list)
  BY <1>1, <1>8, <1>9, <1>11 DEF OwnedRun, Then, n, D, base
<1> QED BY <1>3, <1>9, <1>12 DEF n

\* What an account owns of the fees grows by what is due, while it removes
\* nothing.
LEMMA OwnedGrows ==
  ASSUME NEW list, Announced(list), NEW h, History(h, list), NEW t \in Transaction,
         Announced(Append(list, t)), NEW g, History(g, Append(list, t)),
         \A k \in 0 .. Len(list) : g[k] = h[k], NEW o,
         \A k \in 1 .. Len(list) : list[k].kind = "RemoveLiquidity" => list[k].owner # o,
         t.kind = "RemoveLiquidity" => t.owner # o
  PROVE  /\ OwnedFees(o, Creator, list) \in Nat
         /\ OwnedFees(o, Creator, Append(list, t))
              = OwnedFees(o, Creator, list)
                + (IF o = Creator /\ ~IsTrade(t) THEN h[Len(list)].pending ELSE 0)
<1> DEFINE n == Len(list)
           more == Append(list, t)
           old == RecordedStates(list)
           new == RecordedStates(more)
<1>1. /\ n \in Nat /\ list \in Seq(Transaction) /\ more \in Seq(Transaction)
      /\ Len(more) = n + 1 /\ more[n + 1] = t /\ \A k \in 1 .. n : more[k] = list[k]
  BY DEF Announced
<1>2. \A j \in 1 .. n : old[j].minted = IF IsTrade(list[j]) THEN 0 ELSE h[j - 1].pending
  BY HistoryRecounted DEF Recounts
<1>3. \A j \in 1 .. n + 1 : new[j].minted = IF IsTrade(more[j]) THEN 0 ELSE g[j - 1].pending
  <2>1. Recounts(new, g, more)
    BY HistoryRecounted
  <2> HIDE DEF new, more
  <2> QED BY <1>1, <2>1 DEF Recounts
<1>4. \A k \in 0 .. n : h[k].pending \in Nat
  BY HistorySound, DueIs
<1>5. \A k \in 0 .. n : g[k] = h[k]
  OBVIOUS
<1> HIDE DEF n, more, old, new
<1>6. \A j \in 1 .. n : old[j].minted \in Nat /\ new[j].minted = old[j].minted
  <2> SUFFICES ASSUME NEW j \in 1 .. n PROVE old[j].minted \in Nat /\ new[j].minted = old[j].minted
    OBVIOUS
  <2>1. j - 1 \in 0 .. n /\ j \in 1 .. n + 1
    BY <1>1
  <2>2. /\ old[j].minted = IF IsTrade(list[j]) THEN 0 ELSE h[j - 1].pending
        /\ new[j].minted = IF IsTrade(list[j]) THEN 0 ELSE h[j - 1].pending
    BY <1>1, <1>2, <1>3, <1>5, <2>1
  <2>3. h[j - 1].pending \in Nat
    BY <1>4, <2>1
  <2> QED BY <2>2, <2>3
<1>7. new[n + 1].minted = IF IsTrade(t) THEN 0 ELSE h[n].pending
  <2>1. n + 1 \in 1 .. n + 1 /\ (n + 1) - 1 = n /\ n \in 0 .. n
    BY <1>1
  <2> QED BY <1>1, <1>3, <1>5, <2>1
<1>8. h[n].pending \in Nat
  BY <1>1, <1>4
<1>9. \A j \in 1 .. n + 1 : new[j].minted \in Nat
  <2> SUFFICES ASSUME NEW j \in 1 .. n + 1 PROVE new[j].minted \in Nat
    OBVIOUS
  <2>1. j = n + 1 \/ j \in 1 .. n
    BY <1>1
  <2> QED BY <1>6, <1>7, <1>8, <2>1
<1>10. PICK a : OwnedRun(a, o, list) /\ OwnedFees(o, Creator, list) = a[n]
  <2>1. \A k \in 1 .. Len(list) : RecordedStates(list)[k].minted \in Nat
    BY <1>6 DEF n, old
  <2> QED BY <1>1, <2>1, OwnedThrough DEF n
<1>11. PICK b : OwnedRun(b, o, more) /\ OwnedFees(o, Creator, more) = b[n + 1]
  <2>1. \A k \in 1 .. Len(more) : RecordedStates(more)[k].minted \in Nat
    BY <1>1, <1>9 DEF new
  <2> QED BY <1>1, <2>1, OwnedThrough
<1>12. /\ a \in [0 .. n -> Nat] /\ a[0] = 0
       /\ \A k \in 1 .. n : a[k] = a[k - 1] + (IF o = Creator THEN old[k].minted ELSE 0)
  <2>1. \A k \in 1 .. n : ~(list[k].kind = "RemoveLiquidity" /\ list[k].owner = o)
    BY DEF n
  <2> QED BY <1>10, <2>1 DEF OwnedRun, n, old
<1>13. /\ b[0] = 0
       /\ \A k \in 1 .. n + 1 : b[k] = b[k - 1] + (IF o = Creator THEN new[k].minted ELSE 0)
  <2>1. \A k \in 1 .. n + 1 : ~(more[k].kind = "RemoveLiquidity" /\ more[k].owner = o)
    <3> SUFFICES ASSUME NEW k \in 1 .. n + 1
                 PROVE  ~(more[k].kind = "RemoveLiquidity" /\ more[k].owner = o)
      OBVIOUS
    <3>1. k = n + 1 \/ k \in 1 .. Len(list)
      BY <1>1 DEF n
    <3> QED BY <1>1, <3>1 DEF n
  <2> QED BY <1>1, <1>11, <2>1 DEF OwnedRun, new
<1> DEFINE T == {k \in 0 .. n : b[k] = a[k]}
<1>14. 0 \in T
  BY <1>1, <1>12, <1>13
<1>15. ASSUME NEW k \in 1 .. n, k - 1 \in T PROVE k \in T
  <2>1. b[k - 1] = a[k - 1] /\ k \in 1 .. n + 1 /\ new[k].minted = old[k].minted
    BY <1>1, <1>6, <1>15
  <2> QED BY <1>12, <1>13, <2>1
<1>16. b[n] = a[n]
  <2> HIDE DEF T
  <2>1. \A k \in 0 .. n : k \in T
    BY <1>1, <1>14, <1>15, IndexInduction
  <2> QED BY <1>1, <2>1 DEF T
<1>17. b[n + 1] = b[n] + (IF o = Creator THEN new[n + 1].minted ELSE 0)
  <2>1. n + 1 \in 1 .. n + 1 /\ (n + 1) - 1 = n
    BY <1>1
  <2> QED BY <1>13, <2>1
<1>18. a[n] \in Nat
  BY <1>1, <1>12
<1>19. b[n + 1] = a[n] + (IF o = Creator /\ ~IsTrade(t) THEN h[n].pending ELSE 0)
  BY <1>7, <1>8, <1>16, <1>17, <1>18
<1> QED BY <1>10, <1>11, <1>18, <1>19 DEF n, more

\* What the records say an account has deposited and not removed.
Held(o) == Recorded(rows, PositionsOf(o, 1 .. Len(rows))).liquidity

\* The shares of an account are what it holds by the records and, unless it
\* removed something, its fees and the virtual deposit.
OwnedBy(o) ==
  /\ o # Creator => pool.shares[o] = Held(o)
  /\ NeverRemoved(o) => pool.shares[o] = Held(o) + Virtual(o) + OwnedFees(o, Creator, rows)

Owned == \A o \in Owners : OwnedBy(o)

\* What the records say of an account grows with its own rows only.
LEMMA HeldGrows ==
  ASSUME Chain, NEW t \in Transaction, t.id = Len(rows) + 1, t.virtual = FALSE,
         rows' = Append(rows, t), NEW o \in Owners
  PROVE  /\ Held(o) \in Nat
         /\ IsTrade(t) \/ t.owner # o => Held(o)' = Held(o)
         /\ t.kind = "AddLiquidity" /\ t.owner = o => Held(o)' = Held(o) + t.liquidity
         /\ t.kind = "RemoveLiquidity" /\ t.owner = o /\ t.liquidity > 0 /\ t.liquidity <= Held(o)
              => Held(o)' = Held(o) - t.liquidity
<1> DEFINE n == Len(rows)
           A == PositionsOf(o, 1 .. n)
           a == Recorded(rows, A)
<1>1. /\ n \in Nat /\ n > 0 /\ Announced(rows) /\ rows \in Seq(Transaction)
  BY DEF Chain, Announced
<1>2. /\ Len(rows') = n + 1 /\ rows'[n + 1] = t /\ \A k \in 1 .. n : rows'[k] = rows[k]
  BY <1>1
<1>3. A \in SUBSET (1 .. n) /\ OfChanges(rows, A)
  <2>1. A \in SUBSET PositionsOf(o, 1 .. n) /\ 1 .. n \in SUBSET (1 .. Len(rows))
    OBVIOUS
  <2> HIDE DEF A
  <2> QED BY <2>1, PositionRows
<1>4. PositionsOf(o, 1 .. Len(rows))' = A \cup (IF ~IsTrade(t) /\ t.owner = o THEN {n + 1} ELSE {})
  <2> DEFINE B == {i \in 1 .. n + 1 : IsPositionLiquidity(rows'[i]) /\ rows'[i].owner = o}
             C == {i \in 1 .. n : IsPositionLiquidity(rows[i]) /\ rows[i].owner = o}
             E == IF ~IsTrade(t) /\ t.owner = o THEN {n + 1} ELSE {}
  <2>1. PositionsOf(o, 1 .. Len(rows))' = B /\ A = C
    BY <1>2 DEF PositionsOf
  <2> HIDE DEF A
  <2>2. IsPositionLiquidity(t) <=> ~IsTrade(t)
    BY DEF IsPositionLiquidity
  <2>3. ASSUME NEW i \in B PROVE i \in C \cup E
    <3>1. i = n + 1 \/ i \in 1 .. n
      BY <1>1
    <3>2. IsPositionLiquidity(rows'[i]) /\ rows'[i].owner = o
      OBVIOUS
    <3> QED BY <1>2, <2>2, <3>1, <3>2
  <2>4. ASSUME NEW i \in C PROVE i \in B
    <3>1. i \in 1 .. n /\ i \in 1 .. n + 1 /\ rows'[i] = rows[i]
      BY <1>1, <1>2
    <3> QED BY <3>1
  <2>5. ASSUME NEW i \in E PROVE i \in B
    <3>1. i = n + 1 /\ i \in 1 .. n + 1 /\ rows'[i] = t /\ IsPositionLiquidity(t) /\ t.owner = o
      BY <1>1, <1>2, <2>2
    <3> QED BY <3>1
  <2> HIDE DEF B, C, E
  <2>6. B = C \cup E
    BY <2>3, <2>4, <2>5
  <2> QED BY <2>1, <2>6 DEF E
<1> HIDE DEF A, a, n
<1>5. /\ Recorded(rows', A) = a /\ a \in Answer
      /\ ~IsTrade(t) => Recorded(rows', A \cup {n + 1}) = AddUp(a, t)
  <2>1. A \in SUBSET (1 .. Len(rows))
    BY <1>3 DEF n
  <2>2. t.id = n + 1
    BY DEF n
  <2>3. /\ Recorded(Append(rows, t), A) = Recorded(rows, A) /\ Recorded(rows, A) \in Answer
        /\ ~IsTrade(t) => Recorded(Append(rows, t), A \cup {t.id}) = AddUp(Recorded(rows, A), t)
    BY <1>1, <1>3, <2>1, RecordedGrows
  <2> QED BY <2>2, <2>3 DEF a
<1>6. Held(o) = a.liquidity /\ a.liquidity \in Nat /\ t.liquidity \in Nat
  BY <1>5 DEF Held, A, a, n, Answer, Transaction
<1>7. Held(o)' = Recorded(rows', PositionsOf(o, 1 .. Len(rows))').liquidity
  BY DEF Held
<1>8. CASE IsTrade(t) \/ t.owner # o
  <2>1. PositionsOf(o, 1 .. Len(rows))' = A
    BY <1>4, <1>8
  <2>2. IsTrade(t) => t.kind # "AddLiquidity" /\ t.kind # "RemoveLiquidity"
    BY DEF IsTrade, Trades
  <2> QED BY <1>5, <1>6, <1>7, <1>8, <2>1, <2>2
<1>9. CASE ~IsTrade(t) /\ t.owner = o
  <2>1. PositionsOf(o, 1 .. Len(rows))' = A \cup {n + 1}
    BY <1>4, <1>9
  <2>2. Held(o)' = AddUp(a, t).liquidity
    BY <1>5, <1>7, <1>9, <2>1
  <2>3. /\ t.kind = "AddLiquidity" => AddUp(a, t).liquidity = a.liquidity + t.liquidity
        /\ t.kind # "AddLiquidity" /\ ~(a.liquidity <= 0 \/ t.liquidity > a.liquidity)
              => AddUp(a, t).liquidity = a.liquidity - t.liquidity
    BY <1>5, <1>9, AddUpIs
  <2>4. t.liquidity > 0 /\ t.liquidity <= a.liquidity
          => ~(a.liquidity <= 0 \/ t.liquidity > a.liquidity)
    BY <1>6
  <2> QED BY <1>6, <1>9, <2>2, <2>3, <2>4
<1> QED BY <1>8, <1>9

\* A row of the pool moves shares, records and fees together.
LEMMA GrowthKeepsOwned ==
  ASSUME Chain, NEW h, History(h, rows), Agrees(h[Len(rows)], pool), NEW t,
         Grows(h[Len(rows)], t), Owned
  PROVE  Owned'
<1> SUFFICES ASSUME NEW o \in Owners PROVE OwnedBy(o)'
  BY DEF Owned
<1> DEFINE n == Len(rows)
           p == h[n]
           due == p.pending
<1>1. /\ t \in Transaction /\ t.id = n + 1 /\ t.virtual = FALSE /\ rows' = Append(rows, t)
      /\ Fits(p, t) /\ pool' \in Pools
      /\ t.kind = "RemoveLiquidity" => t.liquidity <= pool.shares[t.owner]
      /\ pool'.shares[o] = pool.shares[o] + ShareChange(o, due, t)
  BY DEF Grows
<1>2. /\ n \in Nat /\ n > 0 /\ Announced(rows) /\ rows \in Seq(Transaction)
      /\ due \in Nat /\ pool.shares[o] \in Nat
  BY PoolIs DEF Chain, Announced
<1>3. OwnedBy(o)
  BY DEF Owned
<1>4. /\ Held(o) \in Nat
      /\ IsTrade(t) \/ t.owner # o => Held(o)' = Held(o)
      /\ t.kind = "AddLiquidity" /\ t.owner = o => Held(o)' = Held(o) + t.liquidity
      /\ t.kind = "RemoveLiquidity" /\ t.owner = o /\ t.liquidity > 0 /\ t.liquidity <= Held(o)
           => Held(o)' = Held(o) - t.liquidity
  <2> HIDE DEF due, p
  <2> QED BY <1>1, HeldGrows
<1>5. t.liquidity \in Nat /\ t.kind \in Kinds
  BY <1>1 DEF Transaction
<1>6. t.kind = "RemoveLiquidity" => t.liquidity > 0
  BY <1>1 DEF Fits, TradeFits, AddFits, RemoveFits, IsTrade, Trades
<1>7. (t.kind = "AddLiquidity" \/ t.kind = "RemoveLiquidity") <=> ~IsTrade(t)
  BY <1>5 DEF Kinds, IsTrade, Trades
<1>8. ShareChange(o, due, t) =
        (IF o = Creator /\ ~IsTrade(t) THEN due ELSE 0)
        + (IF o = t.owner /\ ~IsTrade(t)
           THEN IF t.kind = "AddLiquidity" THEN t.liquidity ELSE -t.liquidity ELSE 0)
  BY DEF ShareChange
<1>9. /\ DOMAIN rows = 1 .. n /\ DOMAIN rows' = 1 .. n + 1 /\ rows'[n + 1] = t
      /\ \A k \in 1 .. n : rows'[k] = rows[k]
  BY <1>1, <1>2
<1>10. Virtual(o)' = Virtual(o)
  <2>1. rows'[1] = rows[1]
    BY <1>2, <1>9
  <2> QED BY <2>1 DEF Virtual
<1>11. Virtual(o) \in Nat
  <2>1. rows[1] \in Transaction
    BY <1>2
  <2> QED BY <2>1 DEF Virtual, Transaction
<1>12. ASSUME NeverRemoved(o)'
       PROVE  NeverRemoved(o) /\ (t.kind = "RemoveLiquidity" => t.owner # o)
  <2>1. \A i \in 1 .. n + 1 : rows'[i].kind = "RemoveLiquidity" => rows'[i].owner # o
    BY <1>9, <1>12 DEF NeverRemoved
  <2>2. n + 1 \in 1 .. n + 1 /\ \A i \in 1 .. n : i \in 1 .. n + 1
    BY <1>2
  <2>3. \A i \in 1 .. n : rows[i].kind = "RemoveLiquidity" => rows[i].owner # o
    BY <1>9, <2>1, <2>2
  <2> QED BY <1>9, <2>1, <2>2, <2>3 DEF NeverRemoved
<1>13. ASSUME NeverRemoved(o)'
       PROVE  /\ OwnedFees(o, Creator, rows) \in Nat
              /\ OwnedFees(o, Creator, rows') = OwnedFees(o, Creator, rows)
                   + (IF o = Creator /\ ~IsTrade(t) THEN due ELSE 0)
  <2>1. /\ \A k \in 1 .. Len(rows) : rows[k].kind = "RemoveLiquidity" => rows[k].owner # o
        /\ t.kind = "RemoveLiquidity" => t.owner # o
    BY <1>9, <1>12, <1>13 DEF NeverRemoved
  <2>2. /\ History(h, rows) /\ Announced(rows) /\ Fits(h[Len(rows)], t)
        /\ t \in Transaction /\ t.id = Len(rows) + 1 /\ t.virtual = FALSE
    BY <1>1, <1>2
  <2>3. Announced(Append(rows, t))
    BY ONLY <2>2, HistoryGrows
  <2>4. PICK g : History(g, Append(rows, t)) /\ \A k \in 0 .. Len(rows) : g[k] = h[k]
    <3>1. \E g : /\ History(g, Append(rows, t))
                 /\ g[Len(Append(rows, t))] = ApplyPoolState(h[Len(rows)], t)
                 /\ \A k \in 0 .. Len(rows) : g[k] = h[k]
      BY ONLY <2>2, HistoryGrows, ZenonT(40)
    <3> QED BY <3>1
  <2>5. /\ OwnedFees(o, Creator, rows) \in Nat
        /\ OwnedFees(o, Creator, Append(rows, t))
             = OwnedFees(o, Creator, rows)
               + (IF o = Creator /\ ~IsTrade(t) THEN h[Len(rows)].pending ELSE 0)
    BY ONLY <2>1, <2>2, <2>3, <2>4, o \in Owners, OwnedGrows
  <2> QED BY <1>1, <2>5
<1> HIDE DEF due, p, n
<1>14. o # Creator => pool'.shares[o] = Held(o)'
  <2> SUFFICES ASSUME o # Creator PROVE pool'.shares[o] = Held(o)'
    OBVIOUS
  <2>1. pool.shares[o] = Held(o)
    BY <1>3 DEF OwnedBy
  <2>2. CASE IsTrade(t) \/ t.owner # o
    BY <1>1, <1>2, <1>4, <1>8, <2>1, <2>2
  <2>3. CASE t.kind = "AddLiquidity" /\ t.owner = o
    <3>1. ShareChange(o, due, t) = t.liquidity
      BY <1>5, <1>7, <1>8, <2>3
    <3> QED BY <1>1, <1>4, <2>1, <2>3, <3>1
  <2>4. CASE t.kind = "RemoveLiquidity" /\ t.owner = o
    <3>1. ShareChange(o, due, t) = -t.liquidity
      BY <1>5, <1>7, <1>8, <2>4
    <3>2. Held(o)' = Held(o) - t.liquidity
      BY <1>1, <1>4, <1>6, <2>1, <2>4
    <3> QED BY <1>1, <1>4, <1>5, <2>1, <3>1, <3>2
  <2> QED BY <1>7, <2>2, <2>3, <2>4
<1>15. NeverRemoved(o)' => pool'.shares[o] = Held(o)' + Virtual(o)' + OwnedFees(o, Creator, rows')
  <2> SUFFICES ASSUME NeverRemoved(o)'
               PROVE  pool'.shares[o] = Held(o)' + Virtual(o)' + OwnedFees(o, Creator, rows')
    OBVIOUS
  <2> DEFINE fee == IF o = Creator /\ ~IsTrade(t) THEN due ELSE 0
             gain == IF o = t.owner /\ ~IsTrade(t) THEN t.liquidity ELSE 0
             fees == OwnedFees(o, Creator, rows)
  <2>1. pool.shares[o] = Held(o) + Virtual(o) + fees /\ fees \in Nat
    BY <1>3, <1>12, <1>13 DEF OwnedBy
  <2>2. OwnedFees(o, Creator, rows') = fees + fee
    BY <1>13
  <2>3. ShareChange(o, due, t) = fee + gain
    BY <1>5, <1>7, <1>8, <1>12
  <2>4. Held(o)' = Held(o) + gain
    BY <1>4, <1>7, <1>12
  <2>5. fee \in Nat /\ gain \in Nat
    BY <1>2, <1>5
  <2> HIDE DEF fee, gain, fees
  <2>6. pool'.shares[o] = pool.shares[o] + (fee + gain)
    BY <1>1, <2>3
  <2>7. Held(o) \in Nat
    BY <1>4
  <2> QED BY ONLY <1>10, <1>11, <2>1, <2>2, <2>4, <2>5, <2>6, <2>7
<1> QED BY <1>14, <1>15 DEF OwnedBy

\* The creator holds what the opening transaction minted, and nobody else
\* holds anything.
LEMMA OwnedInit == Init => Owned
<1> SUFFICES ASSUME Init, NEW o \in Owners PROVE OwnedBy(o)
  BY DEF Owned
<1> DEFINE supply == ISqrt(Opening * Opening)
<1>1. Chain /\ Creator \in Owners /\ Opening \in Nat \ {0}
  BY ChainInit, SnapshotsAssumption
<1>2. PICK virtual \in BOOLEAN : Open(virtual)
  BY DEF Init
<1> DEFINE t == [id |-> 1, kind |-> "AddLiquidity", owner |-> Creator, in0 |-> Opening,
                 out0 |-> 0, in1 |-> Opening, out1 |-> 0, liquidity |-> supply,
                 virtual |-> virtual]
<1>3. /\ pool.shares = [x \in Owners |-> IF x = Creator THEN supply ELSE 0] /\ rows = <<t>>
  BY <1>2 DEF Open
<1>4. /\ t.kind = "AddLiquidity" /\ t.id = 1 /\ t.owner = Creator /\ t.liquidity = supply
      /\ t.virtual = virtual
  OBVIOUS
<1> HIDE DEF t
<1>5. Len(rows) = 1 /\ rows[1] = t /\ t \in Transaction
  <2>1. Len(rows) = 1 /\ rows[1] = t
    BY <1>3
  <2>2. rows \in Seq(Transaction)
    BY <1>1 DEF Chain, Announced
  <2> QED BY <2>1, <2>2
<1>6. supply \in Nat /\ ~IsTrade(t)
  BY <1>4, <1>5 DEF Transaction, IsTrade, Trades
<1> HIDE DEF supply
<1>7. PICK h : History(h, rows)
  BY <1>1 DEF Chain
<1>8. Announced(rows)
  BY <1>1 DEF Chain
<1>9. OwnedFees(o, Creator, rows) = 0
  <2>1. RecordedStates(rows)[1].minted = 0
    <3>1. \A j \in 1 .. Len(rows) : RecordedStates(rows)[j].minted
                                      = IF IsTrade(rows[j]) THEN 0 ELSE h[j - 1].pending
      BY <1>7, <1>8, HistoryRecounted DEF Recounts
    <3>2. 1 \in 1 .. Len(rows) /\ 1 - 1 = 0
      BY <1>5
    <3>3. h[0].pending = 0
      BY <1>7 DEF History, NoPoolState
    <3> QED BY <3>1, <3>2, <3>3
  <2>2. \A k \in 1 .. Len(rows) : k = 1 /\ RecordedStates(rows)[k].minted \in Nat
    <3>1. \A k \in 1 .. Len(rows) : k = 1
      BY <1>5
    <3> QED BY <2>1, <3>1
  <2>3. PICK f : OwnedRun(f, o, rows) /\ OwnedFees(o, Creator, rows) = f[Len(rows)]
    <3>1. rows \in Seq(Transaction)
      BY <1>8 DEF Announced
    <3> QED BY <2>2, <3>1, OwnedThrough
  <2>4. f[0] = 0 /\ 1 \in 1 .. Len(rows) /\ rows[1].kind # "RemoveLiquidity"
    BY <1>4, <1>5, <2>3 DEF OwnedRun
  <2>5. f[1] = f[1 - 1] + (IF o = Creator THEN RecordedStates(rows)[1].minted ELSE 0)
    BY <2>3, <2>4 DEF OwnedRun
  <2> QED BY <1>5, <2>1, <2>3, <2>4, <2>5
<1>10. Held(o) = IF o = Creator /\ ~virtual THEN supply ELSE 0
  <2> DEFINE A == PositionsOf(o, 1 .. Len(rows))
  <2>1. A = IF o = Creator /\ ~virtual THEN {1} ELSE {}
    <3>1. IsPositionLiquidity(rows[1]) <=> ~virtual
      BY <1>4, <1>5, <1>6 DEF IsPositionLiquidity
    <3>2. \A i : i \in 1 .. Len(rows) <=> i = 1
      BY <1>5
    <3> QED BY <1>4, <1>5, <3>1, <3>2 DEF PositionsOf
  <2>2. CASE o = Creator /\ ~virtual
    <3>1. OfChanges(rows, {1}) /\ rows \in Seq(Transaction)
      <4>1. \A k \in 1 .. Len(rows) : ~IsTrade(rows[k])
        BY <1>5, <1>6
      <4> QED BY <1>8, <4>1 DEF OfChanges, Announced
    <3>2. PICK f : AnswerRun(f, rows, {1}) /\ Recorded(rows, {1}) = f[Len(rows)]
      BY <3>1, AnswerThrough
    <3>3. f[1] = AddUp(f[1 - 1], t) /\ f[0] = NoAnswer /\ f[0] \in Answer
      <4>1. 1 \in 1 .. Len(rows) /\ rows[1].id \in {1} /\ rows[1] = t /\ 0 \in 0 .. Len(rows)
        BY <1>4, <1>5
      <4> QED BY <3>2, <4>1 DEF AnswerRun
    <3>4. f[1] = AddUp(NoAnswer, t) /\ NoAnswer \in Answer
      BY <3>3
    <3>5. AddUp(NoAnswer, t).liquidity = NoAnswer.liquidity + t.liquidity
      BY <1>4, <1>5, <1>6, <3>4, AddUpIs
    <3>6. NoAnswer.liquidity = 0
      BY DEF NoAnswer
    <3> QED BY <1>4, <1>5, <1>6, <2>1, <2>2, <3>2, <3>4, <3>5, <3>6 DEF Held
  <2>3. CASE ~(o = Creator /\ ~virtual)
    <3>1. A = {} /\ Recorded(rows, {}) = NoAnswer
      BY <1>1, <2>1, <2>3, NothingRecorded
    <3>2. NoAnswer.liquidity = 0
      BY DEF NoAnswer
    <3> QED BY <2>3, <3>1, <3>2 DEF Held
  <2> QED BY <2>2, <2>3
<1>11. Virtual(o) = IF o = Creator /\ virtual THEN supply ELSE 0
  BY <1>4, <1>5 DEF Virtual
<1>12. pool.shares[o] = IF o = Creator THEN supply ELSE 0
  BY <1>3
<1>13. pool.shares[o] = Held(o) + Virtual(o) + OwnedFees(o, Creator, rows)
  BY <1>6, <1>9, <1>10, <1>11, <1>12
<1> QED BY <1>10, <1>12, <1>13 DEF OwnedBy

\* What the service does leaves the chain alone.
LEMMA OwnedStep ==
  ASSUME Chain, Owned, [Next]_vars
  PROVE  Owned'
<1>1. CASE \/ \E o \in Owners, amount \in Amounts : AddLiquidity(o, amount, amount)
           \/ \E o \in Owners : \/ RemoveLiquidity(o, pool.shares[o] \div 2)
                                \/ RemoveLiquidity(o, pool.shares[o])
           \/ \E kind \in Trades, amount \in Amounts : Swap(Creator, kind, amount)
  <2>1. PICK h, t : History(h, rows) /\ Agrees(h[Len(rows)], pool) /\ Grows(h[Len(rows)], t)
    BY <1>1, ChainMoves
  <2> QED BY <2>1, GrowthKeepsOwned
<1>2. CASE pool' = pool /\ rows' = rows
  <2> SUFFICES ASSUME NEW o \in Owners PROVE OwnedBy(o)'
    BY DEF Owned
  <2>1. OwnedBy(o)
    BY DEF Owned
  <2>2. Held(o)' = Held(o) /\ Virtual(o)' = Virtual(o) /\ NeverRemoved(o)' = NeverRemoved(o)
    BY <1>2 DEF Held, Virtual, NeverRemoved, PositionsOf
  <2> QED BY <1>2, <2>1, <2>2 DEF OwnedBy
<1>3. ~(\/ \E o \in Owners, amount \in Amounts : AddLiquidity(o, amount, amount)
        \/ \E o \in Owners : \/ RemoveLiquidity(o, pool.shares[o] \div 2)
                             \/ RemoveLiquidity(o, pool.shares[o])
        \/ \E kind \in Trades, amount \in Amounts : Swap(Creator, kind, amount))
      => pool' = pool /\ rows' = rows
  BY DEF Next, MaterializeBatch, OperatorReplays, Materialize, SnapshotsDegrade, DerivationFails,
         CrashInBatch, Crash, Restart, vars, chainVars
<1> QED BY <1>1, <1>2, <1>3

\* What the invariants say together.
LEMMA PositionsSay ==
  ASSUME Chain, PoolSnapshot, Positions, Owned
  PROVE  PositionsAgree
<1> SUFFICES ASSUME NEW o \in Owners
             PROVE
    LET answer == RecordedPosition(o) IN
    /\ taken[o] \subseteq PositionIds(o) /\ posRow[o].last \in {0} \cup taken[o]
    /\ taken[o] = PositionIds(o) =>
          /\ posRow[o].liquidity = answer.liquidity
          /\ posRow[o].basis # "none" => posRow[o].status = answer.status
    /\ used.faults = 0 => taken[o] = PositionIds(o)
    /\ settled = 1 .. Len(rows) =>
          /\ o # Creator => pool.shares[o] = answer.liquidity
          /\ NeverRemoved(o) => pool.shares[o] = answer.liquidity + Virtual(o)
                                                    + OwnedFees(o, Creator, rows)
  BY DEF PositionsAgree
<1>1. /\ PositionOf(o) /\ OwnedBy(o) /\ (used.faults = 0 => taken[o] = PositionIds(o))
  BY DEF Positions, Owned, PositionIds
<1>2. taken[o] = PositionIds(o) => Recorded(rows, taken[o]) = RecordedPosition(o)
  BY DEF RecordedPosition
<1>3. settled = 1 .. Len(rows) => Held(o) = RecordedPosition(o).liquidity
  BY DEF Held, RecordedPosition, PositionIds
<1> QED BY <1>1, <1>2, <1>3 DEF PositionOf, PositionIds, Tracks, OwnedBy

\* However batches, failures, crashes and replays follow each other, the
\* snapshot of a position that went through all its settled rows is what the
\* positions query answers, and the shares on the chain are what the records
\* of the whole history give: for the receiver of the fee with the fees it
\* owns and the virtual deposit, while it has removed nothing.
THEOREM PositionsFollowShares == Spec => []PositionsAgree
<1>1. Init => Chain /\ PoolSnapshot /\ Positions /\ Owned
  BY ChainInit, PoolSnapshotInit, PositionsInit, OwnedInit
<1>2. Chain /\ PoolSnapshot /\ Positions /\ Owned /\ [Next]_vars
        => (Chain /\ PoolSnapshot /\ Positions /\ Owned)'
  BY PoolSnapshotStep, PositionsStep, OwnedStep
<1>3. Chain /\ PoolSnapshot /\ Positions /\ Owned => PositionsAgree
  BY PositionsSay
<1> QED BY <1>1, <1>2, <1>3, PTL DEF Spec

----------------------------------------------------------------------------
(* The principal of a position.                                            *)

\* What the simulation carries until it is lost.
Principal == [r0 : Nat \ {0}, r1 : Nat \ {0}, supply : Nat \ {0}]

\* The part of a pool's state the principal is taken from.
FreeOf(s) == [r0 |-> s.free0, r1 |-> s.free1, supply |-> s.supply]

SimulateRun(g, start, list) ==
  /\ g \in [0 .. Len(list) -> Principal \cup {Lost}] /\ g[0] = start
  /\ \A k \in 1 .. Len(list) : g[k] = SimulateStep(g[k - 1], list[k])

\* A step of the simulation, case by case.
LEMMA SimulateStepIs ==
  ASSUME NEW p \in Principal, NEW t \in Transaction
  PROVE  LET out == FeeFreeOut(t, p.r0, p.r1)
             shares == SmallerOf((t.in0 * p.supply) \div p.r0, (t.in1 * p.supply) \div p.r1)
             out0 == (t.liquidity * p.r0) \div p.supply
             out1 == (t.liquidity * p.r1) \div p.supply
             next == SimulateStep(p, t)
         IN  /\ t.kind = "BuyToken0" =>
                  next = IF out > 0 /\ out < p.r0
                         THEN [p EXCEPT !.r0 = @ - out, !.r1 = @ + t.in1] ELSE Lost
             /\ t.kind = "SellToken0" =>
                  next = IF out > 0 /\ out < p.r1
                         THEN [p EXCEPT !.r0 = @ + t.in0, !.r1 = @ - out] ELSE Lost
             /\ t.kind = "AddLiquidity" =>
                  next = IF t.in0 > 0 /\ t.in1 > 0 /\ shares > 0
                         THEN [r0 |-> p.r0 + t.in0, r1 |-> p.r1 + t.in1, supply |-> p.supply + shares]
                         ELSE Lost
             /\ t.kind = "RemoveLiquidity" =>
                  next = IF /\ t.liquidity > 0 /\ t.liquidity <= p.supply
                            /\ out0 > 0 /\ out0 < p.r0 /\ out1 > 0 /\ out1 < p.r1
                         THEN [r0 |-> p.r0 - out0, r1 |-> p.r1 - out1,
                               supply |-> p.supply - t.liquidity]
                         ELSE Lost
<1>1. p # Lost
  BY DEF Lost, Principal
<1>2. CASE t.kind = "BuyToken0"
  BY <1>1, <1>2 DEF SimulateStep
<1>3. CASE t.kind = "SellToken0"
  BY <1>1, <1>3 DEF SimulateStep
<1>4. CASE t.kind = "AddLiquidity"
  BY <1>1, <1>4 DEF SimulateStep
<1>5. CASE t.kind = "RemoveLiquidity"
  BY <1>1, <1>5 DEF SimulateStep
<1>6. t.kind \in {"BuyToken0", "SellToken0", "AddLiquidity", "RemoveLiquidity"}
  BY DEF Transaction, Kinds, Trades
<1> QED BY <1>2, <1>3, <1>4, <1>5, <1>6

\* The simulation keeps something of both tokens, or is lost.
LEMMA SimulateTyped ==
  ASSUME NEW p \in Principal \cup {Lost}, NEW t \in Transaction
  PROVE  SimulateStep(p, t) \in Principal \cup {Lost}
<1>1. CASE p = Lost
  BY <1>1 DEF SimulateStep
<1>2. CASE p \in Principal
  <2> DEFINE out == FeeFreeOut(t, p.r0, p.r1)
             shares == SmallerOf((t.in0 * p.supply) \div p.r0, (t.in1 * p.supply) \div p.r1)
             out0 == (t.liquidity * p.r0) \div p.supply
             out1 == (t.liquidity * p.r1) \div p.supply
             next == SimulateStep(p, t)
  <2>1. /\ p.r0 \in Nat \ {0} /\ p.r1 \in Nat \ {0} /\ p.supply \in Nat \ {0}
        /\ t.in0 \in Nat /\ t.in1 \in Nat /\ t.liquidity \in Nat
    BY <1>2 DEF Principal, Transaction
  <2>2. out \in Int
    BY <2>1, FeeFreeOutIs
  <2>3. shares \in Int /\ out0 \in Int /\ out1 \in Int
    <3>1. t.in0 * p.supply \in Nat /\ t.in1 * p.supply \in Nat
          /\ t.liquidity * p.r0 \in Nat /\ t.liquidity * p.r1 \in Nat
      BY <2>1
    <3>2. (t.in0 * p.supply) \div p.r0 \in Nat /\ (t.in1 * p.supply) \div p.r1 \in Nat
          /\ out0 \in Nat /\ out1 \in Nat
      BY ONLY <2>1, <3>1, DivSpec
    <3> QED BY <3>2 DEF SmallerOf
  <2>4. /\ t.kind = "BuyToken0" =>
             next = IF out > 0 /\ out < p.r0
                    THEN [p EXCEPT !.r0 = @ - out, !.r1 = @ + t.in1] ELSE Lost
        /\ t.kind = "SellToken0" =>
             next = IF out > 0 /\ out < p.r1
                    THEN [p EXCEPT !.r0 = @ + t.in0, !.r1 = @ - out] ELSE Lost
        /\ t.kind = "AddLiquidity" =>
             next = IF t.in0 > 0 /\ t.in1 > 0 /\ shares > 0
                    THEN [r0 |-> p.r0 + t.in0, r1 |-> p.r1 + t.in1, supply |-> p.supply + shares]
                    ELSE Lost
        /\ t.kind = "RemoveLiquidity" =>
             next = IF /\ t.liquidity > 0 /\ t.liquidity <= p.supply
                       /\ out0 > 0 /\ out0 < p.r0 /\ out1 > 0 /\ out1 < p.r1
                    THEN [r0 |-> p.r0 - out0, r1 |-> p.r1 - out1,
                          supply |-> p.supply - t.liquidity]
                    ELSE Lost
    BY <1>2, SimulateStepIs
  <2>5. t.liquidity = p.supply => out0 = p.r0
    <3>1. ASSUME t.liquidity = p.supply PROVE out0 = p.r0
      <4>1. p.supply \in 0 .. p.supply
        BY <2>1
      <4>2. PayoutFor(p.supply, p.supply, p.r0) = p.r0
        <5>1. p.supply \in Nat \ {0} /\ p.r0 \in Nat
          BY <2>1
        <5> QED BY ONLY <4>1, <5>1, PayoutBound
      <4> QED BY <2>1, <3>1, <4>2 DEF PayoutFor
    <3> QED BY <3>1
  <2> HIDE DEF out, shares, out0, out1, next
  <2>6. CASE t.kind = "BuyToken0"
    <3>1. out > 0 /\ out < p.r0 => p.r0 - out \in Nat \ {0} /\ p.r1 + t.in1 \in Nat \ {0}
      BY <2>1, <2>2
    <3> QED BY <1>2, <2>4, <2>6, <3>1 DEF Principal, next
  <2>7. CASE t.kind = "SellToken0"
    <3>1. out > 0 /\ out < p.r1 => p.r1 - out \in Nat \ {0} /\ p.r0 + t.in0 \in Nat \ {0}
      BY <2>1, <2>2
    <3> QED BY <1>2, <2>4, <2>7, <3>1 DEF Principal, next
  <2>8. CASE t.kind = "AddLiquidity"
    <3>1. shares > 0 => /\ p.r0 + t.in0 \in Nat \ {0} /\ p.r1 + t.in1 \in Nat \ {0}
                        /\ p.supply + shares \in Nat \ {0}
      BY <2>1, <2>3
    <3> QED BY <2>4, <2>8, <3>1 DEF Principal, next
  <2>9. CASE t.kind = "RemoveLiquidity"
    <3>1. t.liquidity <= p.supply /\ out0 > 0 /\ out0 < p.r0 /\ out1 > 0 /\ out1 < p.r1
            => /\ p.r0 - out0 \in Nat \ {0} /\ p.r1 - out1 \in Nat \ {0}
               /\ p.supply - t.liquidity \in Nat \ {0}
      BY <2>1, <2>3, <2>5
    <3> QED BY <2>4, <2>9, <3>1 DEF Principal, next
  <2>10. t.kind \in {"BuyToken0", "SellToken0", "AddLiquidity", "RemoveLiquidity"}
    BY DEF Transaction, Kinds, Trades
  <2> QED BY <2>6, <2>7, <2>8, <2>9, <2>10
<1> QED BY <1>1, <1>2

\* The principal is simulated row by row.
LEMMA SimulateThrough ==
  ASSUME NEW list \in Seq(Transaction), NEW start \in Principal
  PROVE  \E h : SimulateRun(h, start, list) /\ FoldLeft(SimulateStep, start, list) = h[Len(list)]
<1> DEFINE n == Len(list)
           base == start
           D == Principal \cup {Lost}
           Then(s, k) == SimulateStep(s, list[k])
           Rec(f) == f = [s \in SUBSET DOMAIN list |->
                            IF s = {} THEN base ELSE Then(f[s \ {Max(s)}], Max(s))]
           f == CHOOSE f : Rec(f)
           F == [p \in (1 .. n) \X D |-> Then(p[2], p[1])]
<1>1. DOMAIN list = 1 .. n /\ n \in Nat
  OBVIOUS
<1>2. \A s : Max(s) = Greatest(s)
  BY DEF Max, Greatest
<1>3. FoldLeft(SimulateStep, start, list) = f[1 .. n]
  BY <1>1 DEF FoldLeft, MapThenFoldSet
<1>4. base \in D
  OBVIOUS
<1>5. \A k \in 1 .. n, s \in D : Then(s, k) \in D
  <2>1. \A k \in 1 .. n : list[k] \in Transaction
    OBVIOUS
  <2> QED BY <2>1, SimulateTyped
<1>6. F \in [(1 .. n) \X D -> D]
  <2> HIDE DEF Then, D, n
  <2> QED BY <1>5
<1> HIDE DEF n, base, D, Then
<1>7. Rec(f)
  <2>1. PICK g : FoldsLeft(g, n, D, base, F)
    <3> HIDE DEF F
    <3> QED BY <1>1, <1>4, <1>6, LeftFold
  <2>2. \A s \in SUBSET (1 .. n) :
          g[s] = IF s = {} THEN base ELSE Then(g[s \ {Greatest(s)}], Greatest(s))
    BY <2>1 DEF FoldsLeft
  <2>3. Rec(g)
    BY <2>1, <2>2, <1>1, <1>2 DEF FoldsLeft
  <2> HIDE DEF Rec
  <2> QED BY <2>3, Zenon
<1> HIDE DEF f
<1> HIDE DEF F
<1> DEFINE h == [k \in 0 .. n |-> f[1 .. k]]
           T == {k \in 0 .. n : h[k] \in D}
<1>8. ASSUME NEW k \in 1 .. n PROVE h[k] = Then(h[k - 1], k)
  <2>1. /\ 1 .. k \in SUBSET (1 .. n) /\ 1 .. k # {} /\ Greatest(1 .. k) = k
        /\ (1 .. k) \ {k} = 1 .. k - 1 /\ k - 1 \in 0 .. n
    BY <1>1, PrefixStep
  <2>2. f[1 .. k] = Then(f[1 .. k - 1], k)
    BY <1>1, <1>2, <1>7, <2>1
  <2> QED BY <2>1, <2>2
<1>9. h[0] = base /\ h[n] = f[1 .. n]
  <2>1. 1 .. 0 = {} /\ 1 .. 0 \in SUBSET (1 .. n)
    BY <1>1
  <2>2. f[1 .. 0] = base
    BY <1>1, <1>7, <2>1
  <2> QED BY <1>1, <2>2
<1> HIDE DEF h, f, Rec
<1>10. \A k \in 0 .. n : k \in T
  <2>1. 0 \in T
    BY <1>1, <1>4, <1>9
  <2>2. \A k \in 1 .. n : k - 1 \in T => k \in T
    BY <1>5, <1>8
  <2> HIDE DEF T
  <2> QED BY <1>1, <2>1, <2>2, IndexInduction
<1>11. h \in [0 .. n -> D]
  BY <1>10 DEF h
<1>12. SimulateRun(h, start, list)
  BY <1>8, <1>9, <1>11 DEF SimulateRun, Then, n, D, base
<1> QED BY <1>3, <1>9, <1>12 DEF n

\* A swap moves the simulated principal as it moves the fee-free reserves.
LEMMA SimulatedTrade ==
  ASSUME NEW s \in PoolState, NEW t \in Transaction, IsTrade(t), FreeOf(s) \in Principal
  PROVE  SimulateStep(FreeOf(s), t) \in {Lost, FreeOf(ApplyPoolState(s, t))}
<1> DEFINE p == FreeOf(s)
           out == FeeFreeOut(t, s.free0, s.free1)
           m == ApplyPoolState(s, t)
           next == SimulateStep(p, t)
<1>1. /\ s.free0 \in Nat \ {0} /\ s.free1 \in Nat \ {0} /\ s.supply \in Nat \ {0}
      /\ t.in0 \in Nat /\ t.in1 \in Nat
      /\ p.r0 = s.free0 /\ p.r1 = s.free1 /\ p.supply = s.supply
  BY DEF FreeOf, Principal, Transaction
<1>2. out \in Int
  BY <1>1, FeeFreeOutIs
<1>3. /\ m.supply = s.supply
      /\ m.free0 = FeeFreeTrade(s, t).free0 /\ m.free1 = FeeFreeTrade(s, t).free1
  BY TradeApplied
<1>4. /\ t.kind = "BuyToken0" =>
           next = IF out > 0 /\ out < p.r0
                  THEN [p EXCEPT !.r0 = @ - out, !.r1 = @ + t.in1] ELSE Lost
      /\ t.kind = "SellToken0" =>
           next = IF out > 0 /\ out < p.r1
                  THEN [p EXCEPT !.r0 = @ + t.in0, !.r1 = @ - out] ELSE Lost
  BY <1>1, SimulateStepIs
<1>5. FeeFreeTrade(s, t) =
        IF out = NoOutput THEN s
        ELSE IF t.kind = "BuyToken0"
        THEN [s EXCEPT !.free0 = NonNegative(@ - out), !.free1 = @ + t.in1]
        ELSE [s EXCEPT !.free0 = @ + t.in0, !.free1 = NonNegative(@ - out)]
  BY DEF FeeFreeTrade
<1>6. out > 0 => out # NoOutput
  BY <1>2 DEF NoOutput
<1> HIDE DEF out, m, next
<1>7. CASE t.kind = "BuyToken0"
  <2>1. CASE out > 0 /\ out < p.r0
    <3>1. NonNegative(s.free0 - out) = s.free0 - out
      BY <1>1, <1>2, <2>1 DEF NonNegative
    <3>2. m.free0 = s.free0 - out /\ m.free1 = s.free1 + t.in1
      BY <1>3, <1>5, <1>6, <1>7, <2>1, <3>1 DEF PoolState
    <3>3. next = [p EXCEPT !.r0 = @ - out, !.r1 = @ + t.in1]
      BY <1>4, <1>7, <2>1
    <3>4. next = [r0 |-> s.free0 - out, r1 |-> s.free1 + t.in1, supply |-> s.supply]
      BY <3>3 DEF FreeOf
    <3>5. next = FreeOf(m)
      BY <1>3, <3>2, <3>4 DEF FreeOf
    <3> QED BY <3>5 DEF m, next
  <2>2. CASE ~(out > 0 /\ out < p.r0)
    BY <1>4, <1>7, <2>2 DEF next
  <2> QED BY <2>1, <2>2
<1>8. CASE t.kind = "SellToken0"
  <2>1. CASE out > 0 /\ out < p.r1
    <3>1. NonNegative(s.free1 - out) = s.free1 - out
      BY <1>1, <1>2, <2>1 DEF NonNegative
    <3>2. m.free0 = s.free0 + t.in0 /\ m.free1 = s.free1 - out
      BY <1>3, <1>5, <1>6, <1>8, <2>1, <3>1 DEF PoolState
    <3>3. next = [p EXCEPT !.r0 = @ + t.in0, !.r1 = @ - out]
      BY <1>4, <1>8, <2>1
    <3>4. next = [r0 |-> s.free0 + t.in0, r1 |-> s.free1 - out, supply |-> s.supply]
      BY <3>3 DEF FreeOf
    <3>5. next = FreeOf(m)
      BY <1>3, <3>2, <3>4 DEF FreeOf
    <3> QED BY <3>5 DEF m, next
  <2>2. CASE ~(out > 0 /\ out < p.r1)
    BY <1>4, <1>8, <2>2 DEF next
  <2> QED BY <2>1, <2>2
<1> QED BY <1>7, <1>8 DEF IsTrade, Trades

\* A change of liquidity that finds no fee due moves the simulated principal
\* as it moves the pool.
LEMMA SimulatedChange ==
  ASSUME NEW s, Sound(s), s.pending = 0, NEW t \in Transaction, ~IsTrade(t), Fits(s, t),
         [r0 |-> s.r0, r1 |-> s.r1, supply |-> s.supply] \in Principal
  PROVE  SimulateStep([r0 |-> s.r0, r1 |-> s.r1, supply |-> s.supply], t)
           \in {Lost, FreeOf(ApplyPoolState(s, t))}
<1> DEFINE p == [r0 |-> s.r0, r1 |-> s.r1, supply |-> s.supply]
           m == ApplyPoolState(s, t)
           next == SimulateStep(p, t)
           shares == SmallerOf((t.in0 * p.supply) \div p.r0, (t.in1 * p.supply) \div p.r1)
           out0 == (t.liquidity * p.r0) \div p.supply
           out1 == (t.liquidity * p.r1) \div p.supply
<1>1. /\ s \in PoolState /\ s.r0 \in Nat \ {0} /\ s.r1 \in Nat \ {0} /\ s.supply \in Nat \ {0}
      /\ p.r0 = s.r0 /\ p.r1 = s.r1 /\ p.supply = s.supply /\ p \in Principal
      /\ t.liquidity \in Nat
  BY DEF Sound, Principal, Transaction
<1>2. s.supply + s.pending = s.supply
  BY <1>1
<1>3. m.free0 = m.r0 /\ m.free1 = m.r1
  BY <1>1, LiquidityApplied
<1>4. /\ t.kind = "AddLiquidity" =>
           next = IF t.in0 > 0 /\ t.in1 > 0 /\ shares > 0
                  THEN [r0 |-> p.r0 + t.in0, r1 |-> p.r1 + t.in1, supply |-> p.supply + shares]
                  ELSE Lost
      /\ t.kind = "RemoveLiquidity" =>
           next = IF /\ t.liquidity > 0 /\ t.liquidity <= p.supply
                     /\ out0 > 0 /\ out0 < p.r0 /\ out1 > 0 /\ out1 < p.r1
                  THEN [r0 |-> p.r0 - out0, r1 |-> p.r1 - out1, supply |-> p.supply - t.liquidity]
                  ELSE Lost
  BY <1>1, SimulateStepIs
<1> HIDE DEF m, next, p
<1>5. CASE AddFits(s, t)
  <2>1. /\ m.supply = s.supply + s.pending + t.liquidity
        /\ m.r0 = s.r0 + t.in0 /\ m.r1 = s.r1 + t.in1
    BY <1>5, AddStep DEF m
  <2>2. t.kind = "AddLiquidity" /\ t.liquidity = shares
    <3>1. t.kind = "AddLiquidity" /\ t.liquidity = SharesFor(s.supply, s.r0, s.r1, t.in0, t.in1)
      BY <1>2, <1>5 DEF AddFits
    <3> QED BY <1>1, <3>1 DEF SharesFor
  <2> HIDE DEF shares
  <2>3. next \in {Lost, [r0 |-> s.r0 + t.in0, r1 |-> s.r1 + t.in1, supply |-> s.supply + shares]}
    BY <1>1, <1>4, <2>2
  <2>4. FreeOf(m) = [r0 |-> s.r0 + t.in0, r1 |-> s.r1 + t.in1, supply |-> s.supply + shares]
    BY <1>2, <1>3, <2>1, <2>2 DEF FreeOf
  <2> QED BY <2>3, <2>4 DEF m, next, p
<1>6. CASE RemoveFits(s, t)
  <2>1. /\ m.supply = s.supply + s.pending - t.liquidity
        /\ m.r0 = s.r0 - t.out0 /\ m.r1 = s.r1 - t.out1
    BY <1>6, RemoveStep DEF m
  <2>2. t.kind = "RemoveLiquidity" /\ t.out0 = out0 /\ t.out1 = out1
    <3>1. /\ t.kind = "RemoveLiquidity" /\ t.out0 = PayoutFor(t.liquidity, s.supply, s.r0)
          /\ t.out1 = PayoutFor(t.liquidity, s.supply, s.r1)
      BY <1>2, <1>6 DEF RemoveFits
    <3> QED BY <1>1, <3>1 DEF PayoutFor
  <2> HIDE DEF out0, out1
  <2>3. next \in {Lost, [r0 |-> s.r0 - out0, r1 |-> s.r1 - out1, supply |-> s.supply - t.liquidity]}
    BY <1>1, <1>4, <2>2
  <2>4. FreeOf(m) = [r0 |-> s.r0 - out0, r1 |-> s.r1 - out1, supply |-> s.supply - t.liquidity]
    <3>1. m.supply = s.supply - t.liquidity
      BY <1>1, <1>2, <2>1
    <3> QED BY <1>3, <2>1, <2>2, <3>1 DEF FreeOf
  <2> QED BY <2>3, <2>4 DEF m, next, p
<1> QED BY <1>5, <1>6 DEF Fits, TradeFits

\* Since its fee-free basis, its last change of liquidity, a pool has seen
\* trades only.
LEMMA HistoryBasis ==
  ASSUME NEW list, Announced(list), NEW h, History(h, list)
  PROVE  /\ h[Len(list)].freeBasis \in 0 .. Len(list)
         /\ \A j \in h[Len(list)].freeBasis + 1 .. Len(list) : IsTrade(list[j])
<1> DEFINE n == Len(list)
           Good(k) == /\ h[k].freeBasis \in 0 .. k
                      /\ \A j \in h[k].freeBasis + 1 .. k : IsTrade(list[j])
           T == {k \in 0 .. n : Good(k)}
<1>1. /\ n \in Nat /\ h[0] = NoPoolState /\ h \in [0 .. n -> PoolState]
      /\ \A k \in 1 .. n : /\ list[k] \in Transaction /\ list[k].id = k
                           /\ h[k] = ApplyPoolState(h[k - 1], list[k])
  <2>1. n \in Nat /\ list \in Seq(Transaction) /\ \A k \in 1 .. n : list[k].id = k
    BY DEF Announced
  <2>2. \A k \in 1 .. n : list[k] \in Transaction
    BY <2>1
  <2> QED BY <2>1, <2>2 DEF History
<1> HIDE DEF n
<1>2. 0 \in T
  <2>1. h[0].freeBasis = 0
    BY <1>1 DEF NoPoolState
  <2> QED BY <1>1, <2>1
<1>3. ASSUME NEW k \in 1 .. n, k - 1 \in T PROVE k \in T
  <2>1. /\ h[k - 1] \in PoolState /\ list[k] \in Transaction /\ list[k].id = k
        /\ h[k] = ApplyPoolState(h[k - 1], list[k]) /\ Good(k - 1)
    BY <1>1, <1>3
  <2>2. CASE IsTrade(list[k])
    <3>1. h[k].freeBasis = h[k - 1].freeBasis
      BY <2>1, <2>2, TradeApplied
    <3>2. \A j \in h[k].freeBasis + 1 .. k : j = k \/ j \in h[k - 1].freeBasis + 1 .. k - 1
      BY <1>1, <2>1, <3>1
    <3>3. h[k].freeBasis \in 0 .. k
      BY <1>1, <2>1, <3>1
    <3> QED BY <2>1, <2>2, <3>2, <3>3
  <2>3. CASE ~IsTrade(list[k])
    <3>1. h[k].freeBasis = k
      BY <2>1, <2>3, LiquidityApplied
    <3> QED BY <1>1, <3>1
  <2> QED BY <2>2, <2>3
<1>4. \A k \in 0 .. n : k \in T
  <2> HIDE DEF T
  <2> QED BY <1>1, <1>2, <1>3, IndexInduction
<1>5. Good(n)
  BY <1>1, <1>4
<1> QED BY <1>5 DEF n

\* After a change of liquidity no fee is due and the fee-free reserves are
\* the pool's.
LEMMA ChangedState ==
  ASSUME NEW s, Sound(s), NEW t \in Transaction, ~IsTrade(t), Fits(s, t)
  PROVE  LET m == ApplyPoolState(s, t) IN m.pending = 0 /\ m.free0 = m.r0 /\ m.free1 = m.r1
<1> DEFINE m == ApplyPoolState(s, t)
<1>1. m.pending = 0
  BY AddStep, RemoveStep DEF Fits, TradeFits
<1>2. m.free0 = m.r0 /\ m.free1 = m.r1
  BY LiquidityApplied DEF Sound
<1> QED BY <1>1, <1>2

\* From a change of liquidity on, with no trade between it and the fee-free
\* basis, the simulation arrives at the fee-free reserves of the pool.
LEMMA SimulationFollows ==
  ASSUME NEW list, Announced(list), NEW h, History(h, list), NEW b \in 1 .. Len(list),
         ~IsTrade(list[b]), \A j \in b .. h[Len(list)].freeBasis : ~IsTrade(list[j]),
         NEW g, SimulateRun(g, [r0 |-> h[b].r0, r1 |-> h[b].r1, supply |-> h[b].supply],
                            SubSeq(list, b + 1, Len(list)))
  PROVE  g[Len(list) - b] \in {Lost, FreeOf(h[Len(list)])}
<1> DEFINE n == Len(list)
           m == n - b
           fb == h[n].freeBasis
           rest == SubSeq(list, b + 1, n)
           Good(i) == /\ g[i] \in {Lost, FreeOf(h[b + i])}
                      /\ b + i <= fb => /\ h[b + i].pending = 0
                                        /\ h[b + i].free0 = h[b + i].r0
                                        /\ h[b + i].free1 = h[b + i].r1
           T == {i \in 0 .. m : Good(i)}
<1>1. /\ n \in Nat /\ list \in Seq(Transaction) /\ m \in Nat /\ b \in Nat /\ b <= n
      /\ \A k \in 1 .. n : list[k] \in Transaction
  <2>1. n \in Nat /\ list \in Seq(Transaction)
    BY DEF Announced
  <2>2. \A k \in 1 .. n : list[k] \in Transaction
    BY <2>1
  <2> QED BY <2>1, <2>2
<1>2. Len(rest) = m /\ \A i \in 1 .. m : rest[i] = list[b + i]
  BY <1>1
<1>3. /\ \A k \in 1 .. n : Fits(h[k - 1], list[k]) /\ h[k] = ApplyPoolState(h[k - 1], list[k])
      /\ \A k \in 0 .. n : Sound(h[k]) /\ h[k] \in PoolState
  <2>1. \A k \in 1 .. n : Fits(h[k - 1], list[k]) /\ h[k] = ApplyPoolState(h[k - 1], list[k])
    BY DEF History
  <2>2. \A k \in 0 .. n : Sound(h[k])
    BY HistorySound
  <2> QED BY <2>1, <2>2 DEF Sound
<1>4. fb \in 0 .. n /\ \A j \in fb + 1 .. n : IsTrade(list[j])
  BY HistoryBasis
<1>5. /\ g \in [0 .. m -> Principal \cup {Lost}]
      /\ g[0] = [r0 |-> h[b].r0, r1 |-> h[b].r1, supply |-> h[b].supply]
      /\ \A i \in 1 .. m : g[i] = SimulateStep(g[i - 1], list[b + i])
  <2> HIDE DEF m
  <2> QED BY <1>2 DEF SimulateRun
<1>6. \A j \in b .. fb : ~IsTrade(list[j])
  OBVIOUS
<1>7. b \in 1 .. n /\ ~IsTrade(list[b])
  OBVIOUS
<1> HIDE DEF n, m, fb, rest, Good
<1>8. \A k \in 1 .. n : ~IsTrade(list[k]) => /\ h[k].pending = 0 /\ h[k].free0 = h[k].r0
                                             /\ h[k].free1 = h[k].r1
  <2> SUFFICES ASSUME NEW k \in 1 .. n, ~IsTrade(list[k])
               PROVE  h[k].pending = 0 /\ h[k].free0 = h[k].r0 /\ h[k].free1 = h[k].r1
    OBVIOUS
  <2>1. k - 1 \in 0 .. n
    BY <1>1
  <2>2. /\ Sound(h[k - 1]) /\ Fits(h[k - 1], list[k]) /\ h[k] = ApplyPoolState(h[k - 1], list[k])
        /\ list[k] \in Transaction
    BY <1>1, <1>3, <2>1
  <2> QED BY <2>2, ChangedState
<1>9. 0 \in T
  <2>1. b + 0 = b /\ g[0] = FreeOf(h[b])
    BY <1>1, <1>5, <1>7, <1>8 DEF FreeOf
  <2>2. Good(0)
    BY <1>7, <1>8, <2>1 DEF Good
  <2> QED BY <1>1, <2>2
<1>10. ASSUME NEW i \in 1 .. m, i - 1 \in T PROVE i \in T
  <2> DEFINE k == b + i
             s == h[k - 1]
             t == list[k]
  <2>1. k \in 1 .. n /\ k - 1 \in 0 .. n /\ b + (i - 1) = k - 1 /\ k \in Nat /\ k > b /\ i - 1 \in 0 .. m
    BY <1>1 DEF m
  <2>2. /\ Sound(s) /\ s \in PoolState /\ Fits(s, t) /\ h[k] = ApplyPoolState(s, t)
        /\ t \in Transaction /\ g[i] = SimulateStep(g[i - 1], t)
        /\ g[i - 1] \in Principal \cup {Lost}
    BY <1>1, <1>3, <1>5, <2>1
  <2>3. /\ g[i - 1] \in {Lost, FreeOf(s)}
        /\ k - 1 <= fb => s.pending = 0 /\ s.free0 = s.r0 /\ s.free1 = s.r1
    BY <1>10, <2>1 DEF Good
  <2>4. k <= fb <=> ~IsTrade(t)
    BY <1>4, <1>6, <2>1
  <2> HIDE DEF s, t
  <2>5. g[i] \in {Lost, FreeOf(h[k])}
    <3>1. CASE g[i - 1] = Lost
      BY <2>2, <3>1 DEF SimulateStep
    <3>2. CASE g[i - 1] # Lost /\ IsTrade(t)
      <4>1. g[i - 1] = FreeOf(s) /\ FreeOf(s) \in Principal
        BY <2>2, <2>3, <3>2
      <4>2. SimulateStep(FreeOf(s), t) \in {Lost, FreeOf(ApplyPoolState(s, t))}
        BY <2>2, <3>2, <4>1, SimulatedTrade
      <4> QED BY <2>2, <4>1, <4>2
    <3>3. CASE g[i - 1] # Lost /\ ~IsTrade(t)
      <4>1. k - 1 <= fb
        BY <1>4, <2>1, <2>4, <3>3
      <4>2. g[i - 1] = [r0 |-> s.r0, r1 |-> s.r1, supply |-> s.supply] /\ s.pending = 0
            /\ [r0 |-> s.r0, r1 |-> s.r1, supply |-> s.supply] \in Principal
        BY <2>2, <2>3, <3>3, <4>1 DEF FreeOf
      <4>3. SimulateStep([r0 |-> s.r0, r1 |-> s.r1, supply |-> s.supply], t)
              \in {Lost, FreeOf(ApplyPoolState(s, t))}
        BY <2>2, <3>3, <4>2, SimulatedChange
      <4> QED BY <2>2, <4>2, <4>3
    <3> QED BY <3>1, <3>2, <3>3
  <2>6. k <= fb => h[k].pending = 0 /\ h[k].free0 = h[k].r0 /\ h[k].free1 = h[k].r1
    BY <1>8, <2>1, <2>4 DEF t
  <2>7. Good(i)
    BY <2>5, <2>6 DEF Good
  <2> QED BY <2>7
<1>11. Good(m)
  <2>1. \A i \in 0 .. m : i \in T
    <3> HIDE DEF T
    <3> QED BY <1>1, <1>9, <1>10, IndexInduction
  <2> QED BY <1>1, <2>1
<1>12. b + m = n
  BY <1>1 DEF m
<1> QED BY <1>11, <1>12 DEF Good, m, n

\* The simulated principal, where there is one.
LEMMA PrincipalIs ==
  ASSUME NEW list, NEW states, NEW b, NEW tracked \in Nat, tracked > 0, NEW opens \in BOOLEAN,
         NEW count, SimulatePrincipal(list, states, b, tracked, opens, count) # NoPrincipal
  PROVE  LET start == [r0 |-> states[b].r0, r1 |-> states[b].r1,
                       supply |-> EffectiveSupply(states[b])]
             end == FoldLeft(SimulateStep, start, SubSeq(list, b + 1, Len(list)))
         IN  /\ ~(start.r0 <= 0) /\ ~(start.r1 <= 0) /\ ~(start.supply <= 0) /\ end # Lost
             /\ SimulatePrincipal(list, states, b, tracked, opens, count)
                  = <<(tracked * end.r0) \div end.supply, (tracked * end.r1) \div end.supply>>
<1> DEFINE start == [r0 |-> states[b].r0, r1 |-> states[b].r1,
                     supply |-> EffectiveSupply(states[b])]
           end == FoldLeft(SimulateStep, start, SubSeq(list, b + 1, Len(list)))
           unknown == list[b].kind = "AddLiquidity" /\ ~opens /\ count > 0
           nothing == start.r0 <= 0 \/ start.r1 <= 0 \/ start.supply <= 0 \/ end = Lost
           value == <<(tracked * end.r0) \div end.supply, (tracked * end.r1) \div end.supply>>
           found == SimulatePrincipal(list, states, b, tracked, opens, count)
<1>1. found = CASE unknown -> NoPrincipal
                [] ~unknown /\ tracked <= 0 -> <<0, 0>>
                [] OTHER -> IF nothing THEN NoPrincipal ELSE value
  BY DEF SimulatePrincipal
<1>2. ~(tracked <= 0) /\ found # NoPrincipal
  OBVIOUS
<1> HIDE DEF unknown, value, found, nothing
<1>3. ~nothing /\ found = value
  BY <1>1, <1>2
<1> QED BY <1>3 DEF nothing, found, value

\* The basis of a position is one of the pool's changes of liquidity.
HasBasis(s, list) ==
  s.basis # "none" => s.basisTx \in 1 .. Len(list) /\ ~IsTrade(list[s.basisTx])

Bases == \A o \in Owners : posRow[o] \in PositionRow /\ HasBasis(posRow[o], rows)

\* It stays one however the snapshot is brought up to date.
LEMMA BasisFollows ==
  ASSUME NEW list, Announced(list), NEW from \in PositionRow, HasBasis(from, list),
         NEW ids, OfChanges(list, ids)
  PROVE  /\ Through(StepPosition, from, list, ids) \in PositionRow
         /\ HasBasis(Through(StepPosition, from, list, ids), list)
<1> DEFINE n == Len(list)
<1>1. n \in Nat /\ list \in Seq(Transaction) /\ \A k \in 1 .. n : list[k].id = k
  BY DEF Announced
<1>2. PICK p : PositionRun(p, from, list, ids) /\ Through(StepPosition, from, list, ids) = p[n]
  BY <1>1, PositionThrough
<1>3. /\ p \in [0 .. n -> PositionRow] /\ p[0] = from
      /\ \A k \in 1 .. n : p[k] = IF list[k].id \in ids THEN StepPosition(p[k - 1], list[k]) ELSE p[k - 1]
  BY <1>2 DEF PositionRun
<1> HIDE DEF n
<1> DEFINE T == {k \in 0 .. n : HasBasis(p[k], list)}
<1>4. 0 \in T
  BY <1>1, <1>3
<1>5. ASSUME NEW k \in 1 .. n, k - 1 \in T PROVE k \in T
  <2> DEFINE s == p[k - 1]
             t == list[k]
  <2>1. HasBasis(s, list) /\ k \in 0 .. n /\ t.id = k /\ s \in PositionRow
    <3>1. k - 1 \in 0 .. n /\ k \in 0 .. n
      BY <1>1
    <3> QED BY <1>1, <1>3, <1>5, <3>1
  <2>2. CASE p[k] = s
    BY <2>1, <2>2
  <2>3. CASE t.id \in ids /\ p[k] = RecordSkippedRemove(s, t)
    <3>1. p[k].basis = s.basis /\ p[k].basisTx = s.basisTx
      <4> HIDE DEF s, t
      <4> QED BY <2>1, <2>3 DEF RecordSkippedRemove, PositionRow
    <3> QED BY <2>1, <3>1 DEF HasBasis
  <2>4. CASE t.id \in ids /\ p[k] = ApplyPositionState(s, t)
    <3>1. p[k].basisTx = k
      BY <2>1, <2>4 DEF ApplyPositionState
    <3>2. ~IsTrade(list[k])
      BY <2>4 DEF OfChanges, n
    <3> QED BY <2>1, <3>1, <3>2 DEF HasBasis, n
  <2>5. p[k] = IF t.id \in ids THEN StepPosition(s, t) ELSE s
    BY <1>3
  <2> HIDE DEF s, t, T
  <2> QED BY <2>2, <2>3, <2>4, <2>5 DEF StepPosition
<1>6. n \in T
  <2> HIDE DEF T
  <2>1. \A k \in 0 .. n : k \in T
    BY <1>1, <1>4, <1>5, IndexInduction
  <2> QED BY <1>1, <2>1
<1> QED BY <1>1, <1>2, <1>3, <1>6

\* Before the first request no position has a basis.
LEMMA BasesInit == Init => Bases
<1> SUFFICES ASSUME Init PROVE Bases
  OBVIOUS
<1>1. posRow = [o \in Owners |-> NoPosition]
  BY DEF Init
<1>2. NoPosition \in PositionRow /\ NoPosition.basis = "none"
  BY DEF NoPosition, PositionRow, Statuses
<1> QED BY <1>1, <1>2 DEF Bases, HasBasis

\* Replacing positions keeps their bases.
LEMMA ReplaceKeepsBases ==
  ASSUME Chain, Bases, rows' = rows, NEW batch \in SUBSET (1 .. Len(rows)), NEW owners,
         ReplacePositions(batch, owners)
  PROVE  Bases'
<1> SUFFICES ASSUME NEW o \in Owners PROVE posRow'[o] \in PositionRow /\ HasBasis(posRow'[o], rows)
  BY DEF Bases
<1>1. posRow[o] \in PositionRow /\ HasBasis(posRow[o], rows)
  BY DEF Bases
<1>2. CASE o \notin owners
  BY <1>1, <1>2 DEF ReplacePositions
<1>3. CASE o \in owners
  <2> DEFINE from == GetPositionState(posRow[o])
             ids == PositionsOf(o, batch)
  <2>1. posRow'[o] = Through(StepPosition, from, rows, ids)
    BY <1>3 DEF ReplacePositions, PositionAfter
  <2>2. from \in PositionRow /\ HasBasis(from, rows)
    <3>1. NoPosition \in PositionRow /\ NoPosition.basis = "none"
      BY DEF NoPosition, PositionRow, Statuses
    <3> QED BY <1>1, <3>1 DEF GetPositionState, HasBasis
  <2>3. OfChanges(rows, ids)
    BY PositionRows
  <2>4. Announced(rows)
    BY DEF Chain
  <2> HIDE DEF from, ids
  <2> QED BY <2>1, <2>2, <2>3, <2>4, BasisFollows
<1> QED BY <1>2, <1>3

\* Every step keeps the bases of the positions.
LEMMA BasesStep ==
  ASSUME Chain, PoolSnapshot, Bases, [Next]_vars
  PROVE  Bases'
<1> USE DEF chainVars, tables, histories
<1>0. Len(rows) \in Nat /\ cursor \in 0 .. Len(rows) /\ settled \subseteq 1 .. Len(rows)
  BY DEF PoolSnapshot, Chain, Announced
<1>1. CASE \/ \E o \in Owners, amount \in Amounts : AddLiquidity(o, amount, amount)
           \/ \E o \in Owners : \/ RemoveLiquidity(o, pool.shares[o] \div 2)
                                \/ RemoveLiquidity(o, pool.shares[o])
           \/ \E kind \in Trades, amount \in Amounts : Swap(Creator, kind, amount)
  <2>1. PICK h, t : Grows(h[Len(rows)], t)
    BY <1>1, ChainMoves
  <2>2. posRow' = posRow
    BY <1>1, ChainMoves
  <2>3. /\ Len(rows') = Len(rows) + 1 /\ \A k \in 1 .. Len(rows) : rows'[k] = rows[k]
    BY <1>0, <2>1 DEF Grows, Chain, Announced
  <2> SUFFICES ASSUME NEW o \in Owners
               PROVE  posRow'[o] \in PositionRow /\ HasBasis(posRow'[o], rows')
    BY DEF Bases
  <2>4. posRow[o] \in PositionRow /\ HasBasis(posRow[o], rows)
    BY DEF Bases
  <2> QED BY <1>0, <2>2, <2>3, <2>4 DEF HasBasis
<1>2. CASE posRow' = posRow /\ rows' = rows
  BY <1>2 DEF Bases
<1>3. CASE /\ rows' = rows
           /\ \E batch \in SUBSET (1 .. Len(rows)) : \E owners : ReplacePositions(batch, owners)
  BY <1>3, ReplaceKeepsBases
<1>4. CASE MaterializeBatch \/ OperatorReplays
  <2>1. Batch(cursor) \in SUBSET (1 .. Len(rows)) /\ Batch(0) \in SUBSET (1 .. Len(rows))
    BY <1>0 DEF Batch
  <2> QED BY <1>3, <1>4, <2>1 DEF MaterializeBatch, OperatorReplays, Materialize
<1>5. CASE \E n \in cursor .. Len(rows) : SnapshotsDegrade(n) \/ CrashInBatch(n)
  <2>1. Batch(cursor) \in SUBSET (1 .. Len(rows))
    BY <1>0 DEF Batch
  <2> QED BY <1>3, <1>5, <2>1 DEF SnapshotsDegrade, CrashInBatch
<1>6. CASE Restart
  <2>1. GapChanges \in SUBSET (1 .. Len(rows))
    BY <1>0 DEF GapChanges
  <2> QED BY <1>3, <1>6, <2>1 DEF Restart
<1>7. CASE DerivationFails \/ Crash \/ UNCHANGED vars
  BY <1>2, <1>7 DEF DerivationFails, Crash, vars
<1> QED BY <1>1, <1>4, <1>5, <1>6, <1>7 DEF Next

\* Where the snapshots are complete and the fast path answers for a position,
\* it answers what the simulation of the history does.
LEMMA PrincipalSays ==
  ASSUME Chain, PoolSnapshot, Positions, Bases
  PROVE  PrincipalAgrees
<1> SUFFICES ASSUME NEW o \in Owners,
                    UpToDate, taken[o] = PositionIds(o),
                    FastPathEligible(o), posRow[o].liquidity > 0,
                    TradesIn(posRow[o].basisTx, poolRow.freeBasis) = {},
                    FastPrincipal(o) # NoPrincipal, Simulated(o) # NoPrincipal
             PROVE  IF poolRow.last = posRow[o].basisTx THEN Near(FastPrincipal(o), Simulated(o))
                    ELSE FastPrincipal(o) = Simulated(o)
  BY DEF PrincipalAgrees
<1> DEFINE n == Len(rows)
           b == posRow[o].basisTx
           l == posRow[o].liquidity
           states == RecordedStates(rows)
           round == PositionBefore(o, b)
           opens == round.liquidity = 0
           count == Cardinality(TradesIn(IF opens THEN b ELSE round.since, b))
           start == [r0 |-> states[b].r0, r1 |-> states[b].r1, supply |-> EffectiveSupply(states[b])]
           rest == SubSeq(rows, b + 1, n)
           end == FoldLeft(SimulateStep, start, rest)
<1>1. PICK h : History(h, rows)
  BY DEF Chain
<1>2. /\ n \in Nat /\ Announced(rows) /\ rows \in Seq(Transaction)
      /\ \A k \in 1 .. n : rows[k] \in Transaction
  <2>1. Announced(rows) /\ n \in Nat /\ rows \in Seq(Transaction)
    BY DEF Chain, Announced
  <2>2. \A k \in 1 .. n : rows[k] \in Transaction
    BY <2>1
  <2> QED BY <2>1, <2>2
<1>3. poolRow = h[n] /\ poolRow.last = n
  BY <1>1 DEF UpToDate, PoolSnapshot
<1>4. l \in Nat /\ l > 0 /\ l = RecordedPosition(o).liquidity
  <2>1. posRow[o] \in PositionRow /\ Tracks(posRow[o], Recorded(rows, taken[o]))
    BY DEF Positions, PositionOf
  <2> QED BY <2>1 DEF PositionRow, Tracks, RecordedPosition
<1>5. b \in 1 .. n /\ ~IsTrade(rows[b])
  BY DEF Bases, HasBasis, FastPathEligible
<1>6. \A k \in 0 .. n : Sound(h[k]) /\ h[k] \in PoolState
  <2>1. \A k \in 0 .. n : Sound(h[k])
    BY <1>1, <1>2, HistorySound
  <2> QED BY <2>1 DEF Sound
<1>7. \A j \in b .. h[n].freeBasis : ~IsTrade(rows[j])
  BY <1>3 DEF TradesIn
<1>8. b - 1 \in 0 .. n /\ b \in 0 .. n /\ n \in 0 .. n
  BY <1>2, <1>5
<1>9. h[b].pending = 0
  <2>1. /\ Sound(h[b - 1]) /\ Fits(h[b - 1], rows[b]) /\ h[b] = ApplyPoolState(h[b - 1], rows[b])
        /\ rows[b] \in Transaction
    BY <1>1, <1>2, <1>5, <1>6, <1>8 DEF History
  <2> QED BY <1>5, <2>1, ChangedState
<1>10. start = [r0 |-> h[b].r0, r1 |-> h[b].r1, supply |-> h[b].supply]
  <2>1. Agrees(states[b], h[b])
    BY <1>1, <1>2, <1>5, HistoryRecounted DEF Recounts
  <2>2. Sound(h[b]) /\ h[b].supply \in Nat
    BY <1>6, <1>8 DEF Sound
  <2>3. h[b].pending = MintFee(h[b].supply, h[b].r0, h[b].r1, h[b].kLast)
    BY <2>2, DueIs
  <2>4. EffectiveSupply(states[b]) = h[b].supply + 0
    BY <1>9, <2>1, <2>3 DEF EffectiveSupply, Agrees
  <2> HIDE DEF states
  <2> QED BY <2>1, <2>2, <2>4 DEF Agrees
<1>11. Simulated(o) = SimulatePrincipal(rows, states, b, l, opens, count)
  BY DEF Simulated
<1>12. /\ ~(start.r0 <= 0) /\ ~(start.r1 <= 0) /\ ~(start.supply <= 0) /\ end # Lost
       /\ Simulated(o) = <<(l * end.r0) \div end.supply, (l * end.r1) \div end.supply>>
  <2>1. opens \in BOOLEAN /\ SimulatePrincipal(rows, states, b, l, opens, count) # NoPrincipal
    BY <1>11
  <2>2. LET from == [r0 |-> states[b].r0, r1 |-> states[b].r1,
                     supply |-> EffectiveSupply(states[b])]
            to == FoldLeft(SimulateStep, from, SubSeq(rows, b + 1, Len(rows)))
        IN  /\ ~(from.r0 <= 0) /\ ~(from.r1 <= 0) /\ ~(from.supply <= 0) /\ to # Lost
            /\ SimulatePrincipal(rows, states, b, l, opens, count)
                 = <<(l * to.r0) \div to.supply, (l * to.r1) \div to.supply>>
    <3>1. l \in Nat /\ l > 0
      BY <1>4
    <3> HIDE DEF opens, count, states, l, b
    <3> QED BY ONLY <2>1, <3>1, PrincipalIs, ZenonT(60)
  <2>3. start = [r0 |-> states[b].r0, r1 |-> states[b].r1, supply |-> EffectiveSupply(states[b])]
        /\ end = FoldLeft(SimulateStep, start, SubSeq(rows, b + 1, Len(rows)))
    OBVIOUS
  <2> HIDE DEF opens, count, states, l, b, start, end
  <2> QED BY ONLY <1>11, <2>2, <2>3
<1> HIDE DEF n, b, l, states, opens, count, start, rest, end
<1>13. start \in Principal
  <2>1. h[b].r0 \in Nat /\ h[b].r1 \in Nat /\ h[b].supply \in Nat
    BY <1>6, <1>8 DEF Sound, PoolState
  <2> QED BY <1>10, <1>12, <2>1 DEF Principal
<1>14. rest \in Seq(Transaction) /\ Len(rest) = n - b
  BY <1>2, <1>5 DEF rest
<1>15. PICK g : SimulateRun(g, start, rest) /\ end = g[n - b]
  <2>1. PICK g : SimulateRun(g, start, rest) /\ FoldLeft(SimulateStep, start, rest) = g[Len(rest)]
    BY <1>13, <1>14, SimulateThrough
  <2> QED BY <1>14, <2>1 DEF end
<1>16. end \in {Lost, FreeOf(h[n])}
  <2>1. SimulateRun(g, [r0 |-> h[b].r0, r1 |-> h[b].r1, supply |-> h[b].supply],
                    SubSeq(rows, b + 1, Len(rows)))
    BY <1>10, <1>15 DEF rest, n
  <2>2. b \in 1 .. Len(rows) /\ \A j \in b .. h[Len(rows)].freeBasis : ~IsTrade(rows[j])
    BY <1>5, <1>7 DEF n
  <2>3. g[Len(rows) - b] \in {Lost, FreeOf(h[Len(rows)])}
    BY <1>1, <1>2, <1>5, <2>1, <2>2, SimulationFollows
  <2> QED BY <1>15, <2>3 DEF n
<1>17. /\ end.r0 = poolRow.free0 /\ end.r1 = poolRow.free1 /\ end.supply = poolRow.supply
       /\ poolRow.free0 \in Nat /\ poolRow.free1 \in Nat /\ poolRow.supply \in Nat \ {0}
       /\ poolRow.r0 \in Nat /\ poolRow.r1 \in Nat
  <2>1. end = FreeOf(poolRow)
    BY <1>3, <1>12, <1>16
  <2>2. poolRow \in PoolState /\ poolRow.supply \in Nat /\ poolRow.supply > 0
    BY <1>3, <1>6, <1>8 DEF Sound, FastPathEligible
  <2> QED BY <2>1, <2>2 DEF FreeOf, PoolState
<1> DEFINE whole == Redeemable(RecordedPosition(o).liquidity)
           part == <<(l * poolRow.free0) \div poolRow.supply,
                     (l * poolRow.free1) \div poolRow.supply>>
<1>18. FastPrincipal(o) = IF poolRow.last = b THEN whole
                          ELSE IF part[1] > whole[1] \/ part[2] > whole[2] THEN NoPrincipal ELSE part
  BY <1>4 DEF FastPrincipal, b
<1>19. Simulated(o) = part
  BY <1>12, <1>17
<1>20. CASE poolRow.last = b
  <2>1. poolRow.free0 = poolRow.r0 /\ poolRow.free1 = poolRow.r1
    <3>1. b = n
      BY <1>3, <1>20
    <3>2. /\ Sound(h[n - 1]) /\ Fits(h[n - 1], rows[n]) /\ h[n] = ApplyPoolState(h[n - 1], rows[n])
          /\ rows[n] \in Transaction /\ ~IsTrade(rows[n])
      BY <1>1, <1>2, <1>5, <1>6, <1>8, <3>1 DEF History, n
    <3> QED BY <1>3, <3>2, ChangedState
  <2>2. FastPrincipal(o) = <<RoundDiv(l * poolRow.r0, poolRow.supply),
                             RoundDiv(l * poolRow.r1, poolRow.supply)>>
    BY <1>4, <1>18, <1>20 DEF Redeemable
  <2>3. ASSUME NEW m \in Nat, NEW d \in Nat \ {0} PROVE RoundDiv(m, d) - m \div d \in 0 .. 1
    <3> DEFINE q == m \div d
    <3>1. q \in Nat
      BY DivSpec
    <3>2. RoundDiv(m, d) \in {q, q + 1}
      BY DEF RoundDiv
    <3> HIDE DEF q
    <3>3. RoundDiv(m, d) - q \in 0 .. 1
      BY <3>1, <3>2
    <3> QED BY <3>3 DEF q
  <2>4. l * poolRow.r0 \in Nat /\ l * poolRow.r1 \in Nat
    BY <1>4, <1>17
  <2>5. /\ RoundDiv(l * poolRow.r0, poolRow.supply) - (l * poolRow.r0) \div poolRow.supply \in 0 .. 1
        /\ RoundDiv(l * poolRow.r1, poolRow.supply) - (l * poolRow.r1) \div poolRow.supply \in 0 .. 1
    BY <1>17, <2>3, <2>4
  <2>6. Near(FastPrincipal(o), Simulated(o))
    <3> DEFINE x1 == RoundDiv(l * poolRow.r0, poolRow.supply)
               x2 == RoundDiv(l * poolRow.r1, poolRow.supply)
               y1 == (l * poolRow.r0) \div poolRow.supply
               y2 == (l * poolRow.r1) \div poolRow.supply
    <3>1. FastPrincipal(o) = <<x1, x2>> /\ Simulated(o) = <<y1, y2>>
      BY <1>19, <2>1, <2>2
    <3>2. x1 - y1 \in 0 .. 1 /\ x2 - y2 \in 0 .. 1
      BY <2>5
    <3> HIDE DEF x1, x2, y1, y2
    <3> QED BY <3>1, <3>2 DEF Near
  <2> QED BY <1>20, <2>6 DEF b
<1>21. CASE poolRow.last # b
  <2> HIDE DEF part, whole
  <2>1. FastPrincipal(o) = part
    BY <1>18, <1>21
  <2> QED BY <1>19, <1>21, <2>1 DEF b
<1> QED BY <1>20, <1>21

\* However the snapshots came about, where nothing is missing from them and
\* no trade lies between the basis of a position and that of the fee-free
\* reserves, the principal of the fast path is that of the simulation over
\* the whole history.
THEOREM FastPathIsSimulation == Spec => []PrincipalAgrees
<1>1. Init => Chain /\ PoolSnapshot /\ Positions /\ Bases
  BY ChainInit, PoolSnapshotInit, PositionsInit, BasesInit
<1>2. Chain /\ PoolSnapshot /\ Positions /\ Bases /\ [Next]_vars
        => (Chain /\ PoolSnapshot /\ Positions /\ Bases)'
  BY PoolSnapshotStep, PositionsStep, BasesStep
<1>3. Chain /\ PoolSnapshot /\ Positions /\ Bases => PrincipalAgrees
  BY PrincipalSays
<1> QED BY <1>1, <1>2, <1>3, PTL DEF Spec
=============================================================================
