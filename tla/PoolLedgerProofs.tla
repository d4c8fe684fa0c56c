-------------------------- MODULE PoolLedgerProofs --------------------------
(***************************************************************************)
(* Proofs about the pool's swaps, and about PoolLedger and PoolAccounting  *)
(* for every number of accounts, amounts, fees and requests.  First the    *)
(* swaps of AmmMath, with what the grid of MCAmmMath checks.  Then the     *)
(* ledger: the inductive invariant is the type invariant with              *)
(* FinalizedTogether and KLastBound, the first makes the divisions by the  *)
(* reserves and the overwriting in LiquidityInitialized safe, the second   *)
(* bounds the fee share.  Then the bookkeeping: the shares add up to the   *)
(* total supply, every unit the pool owns is accounted for, what is set    *)
(* aside matches what is under way, and the ledger implements Escrow.      *)
(***************************************************************************)
EXTENDS PoolAccounting, MCAmmMath, ArithmeticTheorems

----------------------------------------------------------------------------
(* Swaps                                                                   *)

(* A swap that passes the invariant check does not shrink the product of   *)
(* the reserves, and leaves both positive.                                 *)
LEMMA ProductKept ==
  ASSUME NEW r0 \in Nat, NEW r1 \in Nat, NEW in0 \in Nat, NEW in1 \in Nat,
         NEW out0 \in Nat, NEW out1 \in Nat,
         KeepsProduct(r0, r1, in0, in1, out0, out1)
  PROVE  /\ r0 + in0 - out0 \in Nat \ {0}
         /\ r1 + in1 - out1 \in Nat \ {0}
         /\ r0 * r1 <= (r0 + in0 - out0) * (r1 + in1 - out1)
<1> DEFINE new0 == r0 + in0 - out0
           new1 == r1 + in1 - out1
           adjusted0 == new0 * FeeBase - in0 * PoolFee
           adjusted1 == new1 * FeeBase - in1 * PoolFee
<1> USE FeeAssumption
<1>1. /\ new0 \in Nat \ {0} /\ new1 \in Nat \ {0}
      /\ in0 <= new0 /\ in1 <= new1
  BY DEF KeepsProduct
<1>2. adjusted0 * adjusted1 >= r0 * r1 * FeeBase * FeeBase
  BY DEF KeepsProduct
<1> HIDE DEF new0, new1
<1>3. /\ in0 * PoolFee \in Nat /\ in1 * PoolFee \in Nat
      /\ new0 * FeeBase \in Nat /\ new1 * FeeBase \in Nat
  BY <1>1
<1>4. in0 * PoolFee <= new0 * FeeBase /\ in1 * PoolFee <= new1 * FeeBase
  <2>1. in0 * PoolFee <= new0 * PoolFee /\ in1 * PoolFee <= new1 * PoolFee
    BY <1>1, ProductMonotone
  <2>2. PoolFee * new0 <= FeeBase * new0 /\ PoolFee * new1 <= FeeBase * new1
    BY <1>1, ProductMonotone
  <2> QED BY <1>1, <2>1, <2>2
<1>5. /\ adjusted0 \in Nat /\ adjusted0 <= new0 * FeeBase
      /\ adjusted1 \in Nat /\ adjusted1 <= new1 * FeeBase
  BY <1>3, <1>4
<1> HIDE DEF adjusted0, adjusted1
<1>6. adjusted0 * adjusted1 <= (new0 * FeeBase) * (new1 * FeeBase)
  <2>1. adjusted0 * adjusted1 <= (new0 * FeeBase) * adjusted1
    BY <1>3, <1>5, ProductMonotone
  <2>2. adjusted1 * (new0 * FeeBase) <= (new1 * FeeBase) * (new0 * FeeBase)
    BY <1>3, <1>5, ProductMonotone
  <2> DEFINE p0 == new0 * FeeBase
             p1 == new1 * FeeBase
  <2>3. p0 \in Nat /\ p1 \in Nat
    BY <1>3
  <2> HIDE DEF p0, p1
  <2>4. p0 * adjusted1 = adjusted1 * p0 /\ p1 * p0 = p0 * p1
    BY <1>5, <2>3
  <2> QED BY <1>5, <2>1, <2>2, <2>3, <2>4 DEF p0, p1
<1>7. (r0 * r1) * (FeeBase * FeeBase) <= (new0 * new1) * (FeeBase * FeeBase)
  <2>1. (new0 * FeeBase) * (new1 * FeeBase) = (new0 * new1) * (FeeBase * FeeBase)
    BY <1>1
  <2>2. r0 * r1 * FeeBase * FeeBase = (r0 * r1) * (FeeBase * FeeBase)
    OBVIOUS
  <2>3. /\ (r0 * r1) * (FeeBase * FeeBase) \in Nat
        /\ (new0 * new1) * (FeeBase * FeeBase) \in Nat
        /\ adjusted0 * adjusted1 \in Nat
    BY <1>1, <1>5
  <2> QED BY <1>2, <1>6, <2>1, <2>2, <2>3
<1>8. r0 * r1 <= new0 * new1
  <2>1. r0 * r1 \in Nat /\ new0 * new1 \in Nat /\ FeeBase * FeeBase \in Nat \ {0}
    BY <1>1
  <2> QED BY <1>7, <2>1, ProductCancel
<1> QED BY <1>1, <1>8 DEF new0, new1

(* The invariant check on a swap of one token for the other comes down to  *)
(* the division that AmountOut makes.                                      *)
LEMMA KeepsProductIff ==
  ASSUME NEW rIn \in Nat \ {0}, NEW rOut \in Nat \ {0}, NEW in \in Nat \ {0},
         NEW out \in Nat
  PROVE  LET paid == in * (FeeBase - PoolFee)
         IN  KeepsProduct(rIn, rOut, in, 0, 0, out)
               <=> out * (rIn * FeeBase + paid) <= paid * rOut
<1> USE FeeAssumption
<1> DEFINE paid == in * (FeeBase - PoolFee)
           base == rIn * FeeBase
<1>1. paid \in Nat /\ base \in Nat \ {0}
  OBVIOUS
<1>2. (rIn + in - 0) * FeeBase - in * PoolFee = base + paid
  OBVIOUS
<1>3. (rOut + 0 - out) * FeeBase - 0 * PoolFee = (rOut - out) * FeeBase
  OBVIOUS
<1>4. rIn * rOut * FeeBase * FeeBase = (base * rOut) * FeeBase
  OBVIOUS
<1> HIDE DEF paid, base
<1>5. (base + paid) * ((rOut - out) * FeeBase)
        = (base * rOut) * FeeBase + (paid * rOut - out * (base + paid)) * FeeBase
  <2>1. (base + paid) * ((rOut - out) * FeeBase)
          = ((base + paid) * rOut - (base + paid) * out) * FeeBase
    BY <1>1
  <2>2. (base + paid) * rOut - (base + paid) * out
          = base * rOut + (paid * rOut - out * (base + paid))
    BY <1>1
  <2> DEFINE x == base * rOut
             y == paid * rOut - out * (base + paid)
  <2>3. x \in Int /\ y \in Int
    BY <1>1
  <2> HIDE DEF x, y
  <2>4. (x + y) * FeeBase = x * FeeBase + y * FeeBase
    BY <2>3
  <2> QED BY <2>1, <2>2, <2>4 DEF x, y
<1>6. (base + paid) * ((rOut - out) * FeeBase) >= (base * rOut) * FeeBase
        <=> out * (base + paid) <= paid * rOut
  <2> DEFINE x == base * rOut * FeeBase
             y == paid * rOut - out * (base + paid)
  <2>1. x \in Int /\ y \in Int
    BY <1>1
  <2>2. y >= 0 <=> out * (base + paid) <= paid * rOut
    BY <1>1
  <2> HIDE DEF y
  <2>3. y * FeeBase >= 0 <=> y >= 0
    BY <2>1
  <2>4. y * FeeBase \in Int
    BY <2>1
  <2> HIDE DEF x
  <2>5. x + y * FeeBase >= x <=> y >= 0
    BY <2>1, <2>3, <2>4
  <2>6. (base + paid) * ((rOut - out) * FeeBase) = x + y * FeeBase
    BY <1>5 DEF x, y
  <2> QED BY <2>2, <2>5, <2>6 DEF x
<1>7. out * (base + paid) <= paid * rOut => out < rOut
  <2>1. SUFFICES ASSUME out * (base + paid) <= paid * rOut, rOut <= out PROVE FALSE
    OBVIOUS
  <2>2. rOut * (base + paid) <= out * (base + paid)
    BY <1>1, <2>1, ProductMonotone
  <2>3. rOut * (base + paid) = rOut * base + paid * rOut
    BY <1>1
  <2>4. rOut * base > 0
    BY <1>1
  <2> QED BY <1>1, <2>1, <2>2, <2>3, <2>4
<1>8. KeepsProduct(rIn, rOut, in, 0, 0, out)
        <=> /\ out < rOut
            /\ (base + paid) * ((rOut - out) * FeeBase) >= (base * rOut) * FeeBase
  BY <1>2, <1>3, <1>4 DEF KeepsProduct
<1>9. KeepsProduct(rIn, rOut, in, 0, 0, out)
        <=> out * (base + paid) <= paid * rOut
  BY <1>6, <1>7, <1>8
<1> QED BY <1>9 DEF paid, base

(* An output is a natural number. *)
LEMMA OutputNatural ==
  ASSUME NEW rIn \in Nat \ {0}, NEW rOut \in Nat, NEW in \in Nat
  PROVE  AmountOut(rIn, rOut, in) \in Nat
<1> DEFINE paid == in * (FeeBase - PoolFee)
           scale == rIn * FeeBase + paid
<1>1. paid * rOut \in Nat /\ scale \in Nat \ {0}
  BY FeeAssumption
<1>2. AmountOut(rIn, rOut, in) = (paid * rOut) \div scale
  BY DEF AmountOut
<1> HIDE DEF paid, scale
<1> QED BY <1>1, <1>2, DivSpec

(* AmountOut computes the largest output that passes                       *)
(* validate_swap_invariant, whatever the reserves, the input and the fee.  *)
THEOREM SwapPaysTheMost ==
  ASSUME NEW rIn \in Nat \ {0}, NEW rOut \in Nat \ {0}, NEW in \in Nat \ {0}
  PROVE  BestOutput(rIn, rOut, in)
<1> USE FeeAssumption
<1> DEFINE paid == in * (FeeBase - PoolFee)
           scale == rIn * FeeBase + paid
           out == AmountOut(rIn, rOut, in)
<1>1. paid \in Nat /\ scale \in Nat \ {0} /\ paid * rOut \in Nat
  OBVIOUS
<1>2. out = (paid * rOut) \div scale
  BY DEF AmountOut
<1>3. /\ out \in Nat
      /\ out * scale <= paid * rOut
      /\ paid * rOut < (out + 1) * scale
  <2> HIDE DEF paid, scale, out
  <2> QED BY <1>1, <1>2, DivSpec
<1>4. KeepsProduct(rIn, rOut, in, 0, 0, out)
  <2> HIDE DEF out
  <2> QED BY <1>3, KeepsProductIff
<1>5. ~KeepsProduct(rIn, rOut, in, 0, 0, out + 1)
  <2> HIDE DEF out
  <2>1. out + 1 \in Nat
    BY <1>3
  <2>2. (out + 1) * scale \in Nat
    BY <1>1, <2>1
  <2>3. ~((out + 1) * scale <= paid * rOut)
    <3> HIDE DEF paid, scale
    <3> QED BY <1>1, <1>3, <2>2
  <2> QED BY <2>1, <2>3, KeepsProductIff
<1> QED BY <1>4, <1>5 DEF BestOutput

(* A swap and its reverse return no more than was paid, whatever the       *)
(* roundings of the two outputs: neither swap shrinks the product.         *)
THEOREM SwapBackNoGain ==
  ASSUME NEW r0 \in Nat \ {0}, NEW r1 \in Nat \ {0}, NEW amountIn \in Nat \ {0}
  PROVE  NoGainSwappingBack(r0, r1, amountIn)
<1> DEFINE out == AmountOut(r0, r1, amountIn)
           left == r1 - out
           total == r0 + amountIn
           back == AmountOut(left, total, out)
<1>1. KeepsProduct(r0, r1, amountIn, 0, 0, out)
  BY SwapPaysTheMost DEF BestOutput
<1>2. out \in Nat
  BY OutputNatural
<1> HIDE DEF out
<1>3. left \in Nat \ {0} /\ total \in Nat \ {0} /\ r0 * r1 <= total * left
  <2>1. /\ r1 + 0 - out \in Nat \ {0}
        /\ r0 * r1 <= (r0 + amountIn - 0) * (r1 + 0 - out)
    BY <1>1, <1>2, ProductKept
  <2> QED BY <1>2, <2>1
<1> HIDE DEF left, total
<1>4. CASE out = 0
  <2>1. back = 0
    <3>1. 0 * (FeeBase - PoolFee) = 0 /\ left * FeeBase \in Nat \ {0}
      BY <1>3, FeeAssumption
    <3>2. (0 * total) \div (left * FeeBase + 0) = 0
      BY <1>3, <3>1
    <3> QED BY <1>4, <3>1, <3>2 DEF AmountOut
  <2> QED BY <2>1 DEF NoGainSwappingBack, out, left, total
<1>5. CASE out # 0
  <2>1. KeepsProduct(left, total, out, 0, 0, back)
    BY <1>2, <1>3, <1>5, SwapPaysTheMost DEF BestOutput
  <2>2. back \in Nat
    BY <1>2, <1>3, OutputNatural
  <2> HIDE DEF back
  <2>3. total - back \in Nat /\ left * total <= (left + out) * (total - back)
    <3>1. /\ total + 0 - back \in Nat \ {0}
          /\ left * total <= (left + out - 0) * (total + 0 - back)
      BY <1>2, <1>3, <2>1, <2>2, ProductKept
    <3> QED BY <1>2, <1>3, <2>2, <3>1
  <2>4. left + out = r1
    BY <1>2 DEF left
  <2>5. r0 * r1 <= (total - back) * r1
    <3>1. total * left = left * total /\ left * total \in Nat
      BY <1>3
    <3>2. r1 * (total - back) = (total - back) * r1 /\ r1 * (total - back) \in Nat
      BY <2>3
    <3>3. r0 * r1 \in Nat
      OBVIOUS
    <3> QED BY <1>3, <2>3, <2>4, <3>1, <3>2, <3>3
  <2>6. r0 <= total - back
    BY <2>3, <2>5, ProductCancel
  <2>7. back <= amountIn
    BY <2>2, <2>6 DEF total
  <2> QED BY <2>7 DEF NoGainSwappingBack, out, left, total, back
<1> QED BY <1>4, <1>5

----------------------------------------------------------------------------
(* The grid of MCAmmMath.                                                  *)

\* A point of the grid: positive reserves, amounts and supply.
GridPoint == point \in [1 .. 6 -> Nat] /\ \A i \in 1 .. 5 : point[i] \in Nat \ {0}

LEMMA GridTyped == GridSpec => []GridPoint
<1>1. GridInit => GridPoint
  BY DEF GridInit, GridPoint, Least
<1>2. GridPoint /\ [GridNext]_point => GridPoint'
  <2> SUFFICES ASSUME GridPoint, [GridNext]_point PROVE GridPoint'
    OBVIOUS
  <2>1. CASE UNCHANGED point
    BY <2>1 DEF GridPoint
  <2>2. CASE GridNext
    <3>1. DOMAIN Most = 1 .. 6
      BY DEF Most
    <3>2. PICK i \in 1 .. 6 : point' = [point EXCEPT ![i] = @ + 1]
      BY <2>2, <3>1 DEF GridNext
    <3>3. \A j \in 1 .. 6 : point'[j] = IF j = i THEN point[j] + 1 ELSE point[j]
      BY <3>2 DEF GridPoint
    <3> QED BY <3>2, <3>3 DEF GridPoint
  <2> QED BY <2>1, <2>2
<1> QED BY <1>1, <1>2, PTL DEF GridSpec

(* On a grid of any size the output of a swap is exactly what              *)
(* validate_swap_invariant allows.                                         *)
THEOREM GridSwapExact == GridSpec => []SwapExact
<1>1. GridPoint => SwapExact
  BY SwapPaysTheMost DEF GridPoint, SwapExact
<1> QED BY <1>1, GridTyped, PTL

(* On a grid of any size a deposit finds a pair at the pool's price.       *)
THEOREM GridPairFair == GridSpec => []PairFair
<1>1. GridPoint => PairFair
  BY PairFound DEF GridPoint, PairFair
<1> QED BY <1>1, GridTyped, PTL

(* On a grid of any size a deposit withdrawn at once gains nothing.        *)
THEOREM GridDepositBack == GridSpec => []DepositBack
<1>1. GridPoint => DepositBack
  BY DepositNoGain DEF GridPoint, DepositBack
<1> QED BY <1>1, GridTyped, PTL

(* On a grid of any size the protocol fee comes out of growth.             *)
THEOREM GridFeeFair == GridSpec => []FeeFair
<1>1. GridPoint => FeeFair
  BY FeeFromGrowth DEF GridPoint, FeeFair
<1> QED BY <1>1, GridTyped, PTL

----------------------------------------------------------------------------
(* The ledger.                                                             *)

LedgerInv == TypeOK /\ FinalizedTogether /\ KLastBound

----------------------------------------------------------------------------
(* Initial states                                                          *)

LEMMA InitLedgerInv == Init => LedgerInv
<1> SUFFICES ASSUME Init PROVE LedgerInv
  OBVIOUS
<1> USE LedgerAssumption DEF Init
<1>1. TypeOK
  <2>1. /\ claimable \in [Tokens -> [Accounts -> Nat]]
        /\ claiming \in [Tokens -> [Accounts -> Nat]]
        /\ shares \in [Accounts -> Nat]
    OBVIOUS
  <2>2. custody \in [Tokens -> Nat] /\ stranded \in [Tokens -> Nat]
    OBVIOUS
  <2>3. wallet \in [Tokens -> [Accounts -> Nat]]
    OBVIOUS
  <2>4. inbox \subseteq PoolMessage /\ transfers \subseteq Transfer /\ receipts \subseteq Receipt
    OBVIOUS
  <2>5. /\ reserve_0 \in Nat /\ reserve_1 \in Nat /\ k_last \in Nat /\ total_supply \in Nat
        /\ fee_to \in Accounts /\ fee_to_setter \in Accounts
    OBVIOUS
  <2>6. transaction_id \in Nat /\ requests \in Nat /\ virtual \in Nat
    OBVIOUS
  <2>7. bootstrapped \in BOOLEAN
    BY Zenon
  <2> HIDE DEF Init
  <2> QED BY <2>1, <2>2, <2>3, <2>4, <2>5, <2>6, <2>7 DEF TypeOK
<1>2. FinalizedTogether /\ KLastBound
  BY DEF FinalizedTogether, KLastBound
<1> QED BY <1>1, <1>2 DEF LedgerInv

----------------------------------------------------------------------------
(* Requests                                                                *)

(* Value moved out of one balance of a ledger, or into one.                *)
LEMMA BalanceTypes ==
  ASSUME NEW balances \in [Tokens -> [Accounts -> Nat]], NEW t \in Tokens,
         NEW a \in Accounts, NEW n \in Nat
  PROVE  /\ Credit(balances, t, a, n) \in [Tokens -> [Accounts -> Nat]]
         /\ balances[t][a] >= n => Debit(balances, t, a, n) \in [Tokens -> [Accounts -> Nat]]
         /\ Debit(balances, t, a, n)
              = [balances EXCEPT ![t] = [balances[t] EXCEPT ![a] = balances[t][a] - n]]
  BY DEF Credit, Debit

LEMMA CreditPairType ==
  ASSUME NEW balances \in [Tokens -> [Accounts -> Nat]], NEW a \in Accounts,
         NEW n0 \in Nat, NEW n1 \in Nat
  PROVE  CreditPair(balances, a, n0, n1) \in [Tokens -> [Accounts -> Nat]]
<1>1. Token0 \in Tokens /\ Token1 \in Tokens
  BY DEF Tokens
<1>2. Credit(balances, Token0, a, n0) \in [Tokens -> [Accounts -> Nat]]
  BY <1>1, BalanceTypes
<1> DEFINE half == Credit(balances, Token0, a, n0)
<1> HIDE DEF half
<1>3. Credit(half, Token1, a, n1) \in [Tokens -> [Accounts -> Nat]]
  BY <1>1, <1>2, BalanceTypes DEF half
<1> QED BY <1>3 DEF CreditPair, half

LEMMA DepositType ==
  ASSUME TypeOK, NEW a \in Accounts, NEW n0 \in Nat, NEW n1 \in Nat, Deposit(a, n0, n1)
  PROVE  wallet' \in [Tokens -> [Accounts -> Nat]] /\ custody' \in [Tokens -> Nat]
<1>1. Token0 \in Tokens /\ Token1 \in Tokens /\ Token0 # Token1
  BY DEF Tokens, Token0, Token1
<1>2. /\ wallet \in [Tokens -> [Accounts -> Nat]] /\ custody \in [Tokens -> Nat]
      /\ wallet[Token0][a] >= n0 /\ wallet[Token1][a] >= n1
  BY DEF TypeOK, Deposit
<1> DEFINE half == Debit(wallet, Token0, a, n0)
<1>3. half \in [Tokens -> [Accounts -> Nat]] /\ half[Token1][a] = wallet[Token1][a]
  BY <1>1, <1>2 DEF Debit
<1> HIDE DEF half
<1>4. Debit(half, Token1, a, n1) \in [Tokens -> [Accounts -> Nat]]
  BY <1>1, <1>2, <1>3, BalanceTypes
<1>5. custody' \in [Tokens -> Nat]
  BY <1>1, <1>2 DEF Deposit
<1> QED BY <1>4, <1>5 DEF Deposit, half

(* A request touches neither the reserves nor the shares.                  *)
LEMMA RequestStep ==
  ASSUME LedgerInv,
         \/ Request
         \/ \E a \in Accounts, t \in Tokens, n \in Amounts : SendClaim(a, t, n)
         \/ SendInitializeLiquidity
  PROVE  TypeOK' /\ UNCHANGED <<amm, total_supply>>
<1> USE LedgerAssumption
<1>0. TypeOK
  BY DEF LedgerInv
<1>1. ASSUME NEW a \in Accounts, NEW b \in Recipients, NEW t \in Tokens,
             NEW n \in Amounts, NEW least \in Mins, SendSwap(a, t, n, least, b)
      PROVE  TypeOK' /\ UNCHANGED <<amm, total_supply>>
  <2> DEFINE n0 == IF t = Token0 THEN n ELSE 0
             n1 == IF t = Token1 THEN n ELSE 0
  <2>1. n0 \in Nat /\ n1 \in Nat /\ Deposit(a, n0, n1)
    BY <1>1 DEF SendSwap
  <2>2. wallet' \in [Tokens -> [Accounts -> Nat]] /\ custody' \in [Tokens -> Nat]
    <3> HIDE DEF n0, n1
    <3> QED BY <1>0, <2>1, DepositType
  <2>3. inbox' \subseteq PoolMessage /\ requests' \in Nat
    BY <1>0, <1>1, <2>1 DEF SendSwap, Issue, TypeOK, PoolMessage, SwapMessage
  <2> QED BY <1>0, <1>1, <2>2, <2>3
        DEF SendSwap, TypeOK, amm, fees, equity, claims, history
<1>2. ASSUME NEW a \in Accounts, NEW b \in Recipients, NEW n0 \in Amounts, NEW n1 \in Amounts,
             NEW least0 \in Mins, NEW least1 \in Mins,
             SendAddLiquidity(a, n0, n1, least0, least1, b)
      PROVE  TypeOK' /\ UNCHANGED <<amm, total_supply>>
  <2>1. n0 \in Nat \ {0} /\ n1 \in Nat \ {0} /\ Deposit(a, n0, n1)
    BY <1>2 DEF SendAddLiquidity
  <2>2. wallet' \in [Tokens -> [Accounts -> Nat]] /\ custody' \in [Tokens -> Nat]
    BY <1>0, <2>1, DepositType
  <2>3. inbox' \subseteq PoolMessage /\ requests' \in Nat
    BY <1>0, <1>2, <2>1 DEF SendAddLiquidity, Issue, TypeOK, PoolMessage, DepositMessage
  <2> QED BY <1>0, <1>2, <2>2, <2>3
        DEF SendAddLiquidity, TypeOK, amm, fees, equity, claims, history
<1>3. ASSUME NEW a \in Accounts, NEW b \in Recipients, NEW n \in Amounts,
             NEW least0 \in Mins, NEW least1 \in Mins,
             SendRemoveLiquidity(a, n, least0, least1, b)
      PROVE  TypeOK' /\ UNCHANGED <<amm, total_supply>>
  <2>1. inbox' \subseteq PoolMessage /\ requests' \in Nat
    BY <1>0, <1>3 DEF SendRemoveLiquidity, Issue, TypeOK, PoolMessage, RemoveMessage
  <2> QED BY <1>0, <1>3, <2>1
        DEF SendRemoveLiquidity, TypeOK, amm, fees, equity, claims, outside, history
<1>4. ASSUME NEW a \in Accounts, NEW b \in Recipients,
             NEW kind \in {"SetFeeTo", "SetFeeToSetter"}, SendFeeChange(kind, a, b)
      PROVE  TypeOK' /\ UNCHANGED <<amm, total_supply>>
  <2>1. inbox' \subseteq PoolMessage /\ requests' \in Nat
    BY <1>0, <1>4 DEF SendFeeChange, Issue, TypeOK, PoolMessage, FeeMessage
  <2> QED BY <1>0, <1>4, <2>1
        DEF SendFeeChange, TypeOK, amm, fees, equity, claims, outside, history
<1>5. ASSUME NEW a \in Accounts, NEW t \in Tokens, NEW n \in Amounts, SendClaim(a, t, n)
      PROVE  TypeOK' /\ UNCHANGED <<amm, total_supply>>
  <2>1. inbox' \subseteq PoolMessage /\ requests' \in Nat
    BY <1>0, <1>5 DEF SendClaim, Issue, TypeOK, PoolMessage, ClaimMessage
  <2> QED BY <1>0, <1>5, <2>1
        DEF SendClaim, TypeOK, amm, fees, equity, claims, outside, history
<1>6. ASSUME SendInitializeLiquidity PROVE TypeOK' /\ UNCHANGED <<amm, total_supply>>
  <2>1. inbox' \subseteq PoolMessage
    BY <1>0, <1>6 DEF SendInitializeLiquidity, TypeOK, PoolMessage, DepositMessage
  <2>2. custody' \in [Tokens -> Nat]
    BY <1>0, <1>6 DEF SendInitializeLiquidity, TypeOK, Funding, Tokens
  <2> QED BY <1>0, <1>6, <2>1, <2>2
        DEF SendInitializeLiquidity, TypeOK, amm, fees, equity, claims, history
<1> QED BY <1>1, <1>2, <1>3, <1>4, <1>5, <1>6 DEF Request

----------------------------------------------------------------------------
(* The fee share and the shares minted                                     *)

LEMMA FeeDueBound ==
  ASSUME LedgerInv
  PROVE  /\ FeeDue \in Nat
         /\ total_supply = 0 => FeeDue = 0
         /\ k_last * (total_supply + FeeDue) <= ISqrt(reserve_0 * reserve_1) * total_supply
         /\ ISqrt(reserve_0 * reserve_1) \in Nat
         /\ ISqrt(reserve_0 * reserve_1) * ISqrt(reserve_0 * reserve_1) <= reserve_0 * reserve_1
<1>1. /\ total_supply \in Nat /\ reserve_0 \in Nat /\ reserve_1 \in Nat /\ k_last \in Nat
      /\ k_last * k_last <= reserve_0 * reserve_1
  BY DEF LedgerInv, TypeOK, KLastBound
<1>2. reserve_0 * reserve_1 \in Nat
  BY <1>1
<1>3. k_last <= ISqrt(reserve_0 * reserve_1)
  BY <1>1, <1>2, RootMonotone
<1>4. /\ FeeShare(total_supply, reserve_0, reserve_1, k_last) \in Nat
      /\ total_supply = 0 => FeeShare(total_supply, reserve_0, reserve_1, k_last) = 0
      /\ FeeWithinGrowth(total_supply, reserve_0, reserve_1, k_last)
  BY <1>1, FeeShareBound
<1> QED BY <1>2, <1>3, <1>4, ISqrtSpec DEF FeeDue, FeeWithinGrowth

(* What the arithmetic of a change of liquidity comes to: if the product   *)
(* of the reserves per squared share does not shrink once the fee share is *)
(* counted, a share keeps the value it had at k_last.                      *)
LEMMA ValueChain ==
  ASSUME NEW k \in Nat, NEW root \in Nat, NEW product \in Nat, NEW newProduct \in Nat,
         NEW supply \in Nat, NEW diluted \in Nat \ {0}, NEW newSupply \in Nat,
         k * diluted <= root * supply,
         root * root <= product,
         product * newSupply * newSupply <= newProduct * diluted * diluted
  PROVE  k * k * newSupply * newSupply <= newProduct * supply * supply
<1> DEFINE kd == k * diluted
           rs == root * supply
           ss == supply * supply
           nn == newSupply * newSupply
           dd == diluted * diluted
<1>1. /\ kd \in Nat /\ rs \in Nat /\ ss \in Nat /\ nn \in Nat /\ dd \in Nat \ {0}
  OBVIOUS
<1>2. kd * kd <= product * ss
  <2>1. kd * kd <= rs * rs
    <3> HIDE DEF kd, rs
    <3> QED BY <1>1, SquareMonotone DEF kd, rs
  <2>2. rs * rs = (root * root) * ss
    OBVIOUS
  <2>3. (root * root) * ss <= product * ss
    <3> HIDE DEF ss
    <3> QED BY <1>1, root * root \in Nat, ProductMonotone
  <2>4. kd * kd \in Nat /\ rs * rs \in Nat /\ product * ss \in Nat
    <3> HIDE DEF kd, rs, ss
    <3> QED BY <1>1
  <2> HIDE DEF kd, rs, ss
  <2> QED BY <2>1, <2>2, <2>3, <2>4
<1>3. (kd * kd) * nn <= (product * ss) * nn
  <2>1. kd * kd \in Nat /\ product * ss \in Nat
    <3> HIDE DEF kd, ss
    <3> QED BY <1>1
  <2> HIDE DEF kd, ss, nn
  <2> QED BY <1>1, <1>2, <2>1, ProductMonotone
<1>4. (product * nn) * ss <= (newProduct * dd) * ss
  <2>1. product * nn <= newProduct * dd
    <3>1. product * newSupply * newSupply = product * nn
      OBVIOUS
    <3>2. newProduct * diluted * diluted = newProduct * dd
      OBVIOUS
    <3> QED BY <3>1, <3>2
  <2>2. product * nn \in Nat /\ newProduct * dd \in Nat
    <3> HIDE DEF nn, dd
    <3> QED BY <1>1
  <2> HIDE DEF ss, nn, dd
  <2> QED BY <1>1, <2>1, <2>2, ProductMonotone
<1>5. (k * k * nn) * dd <= (newProduct * ss) * dd
  <2>1. (kd * kd) * nn = (k * k * nn) * dd
    OBVIOUS
  <2> HIDE DEF kd, ss, nn, dd
  <2>2. (product * ss) * nn = (product * nn) * ss
    BY <1>1
  <2>3. (newProduct * dd) * ss = (newProduct * ss) * dd
    BY <1>1
  <2>4. /\ (product * ss) * nn \in Nat /\ (newProduct * ss) * dd \in Nat
        /\ (kd * kd) * nn \in Nat
    BY <1>1
  <2> QED BY <1>3, <1>4, <2>1, <2>2, <2>3, <2>4
<1>6. k * k * nn <= newProduct * ss
  <2>1. k * k * nn \in Nat /\ newProduct * ss \in Nat
    <3> HIDE DEF nn, ss
    <3> QED BY <1>1
  <2> DEFINE left == k * k * nn
             right == newProduct * ss
  <2> HIDE DEF left, right, dd
  <2>2. left <= right
    BY <1>1, <1>5, <2>1, ProductCancel DEF left, right
  <2> QED BY <2>2 DEF left, right
<1>7. k * k * newSupply * newSupply = k * k * nn /\ newProduct * supply * supply = newProduct * ss
  OBVIOUS
<1> QED BY <1>6, <1>7

(* The same from the two reserves taken one by one.                        *)
LEMMA ReservesPerShare ==
  ASSUME NEW r0 \in Nat, NEW r1 \in Nat, NEW new0 \in Nat, NEW new1 \in Nat,
         NEW diluted \in Nat, NEW newSupply \in Nat,
         newSupply * r0 <= diluted * new0, newSupply * r1 <= diluted * new1
  PROVE  (r0 * r1) * newSupply * newSupply <= (new0 * new1) * diluted * diluted
<1> DEFINE a == newSupply * r0
           b == newSupply * r1
           c == diluted * new0
           d == diluted * new1
<1>1. a \in Nat /\ b \in Nat /\ c \in Nat /\ d \in Nat
  OBVIOUS
<1>2. a * b <= c * d
  <2> HIDE DEF a, b, c, d
  <2>1. a * b <= c * b /\ b * c <= d * c
    BY <1>1, ProductMonotone DEF a, b, c, d
  <2>2. c * b = b * c /\ d * c = c * d
    BY <1>1
  <2>3. a * b \in Nat /\ b * c \in Nat /\ c * d \in Nat
    BY <1>1
  <2> QED BY <2>1, <2>2, <2>3
<1>3. (r0 * r1) * newSupply * newSupply = a * b
  OBVIOUS
<1>4. (new0 * new1) * diluted * diluted = c * d
  OBVIOUS
<1> QED BY <1>2, <1>3, <1>4

----------------------------------------------------------------------------
(* Steps that leave the reserves and the supply alone                      *)

StepKept == LedgerInv' /\ ShareValueStep

LEMMA UntouchedKept ==
  ASSUME LedgerInv, TypeOK', UNCHANGED <<amm, total_supply>>
  PROVE  StepKept
<1>1. LedgerInv'
  BY DEF LedgerInv, FinalizedTogether, KLastBound, amm
<1>2. ShareValueStep
  <2>1. /\ total_supply \in Nat /\ reserve_0 \in Nat /\ reserve_1 \in Nat /\ k_last \in Nat
        /\ k_last * k_last <= reserve_0 * reserve_1
    BY DEF LedgerInv, TypeOK, KLastBound
  <2>2. (k_last * k_last) * (total_supply * total_supply)
          <= (reserve_0 * reserve_1) * (total_supply * total_supply)
    <3> DEFINE kk == k_last * k_last
               tt == total_supply * total_supply
               product == reserve_0 * reserve_1
    <3>1. kk \in Nat /\ tt \in Nat /\ product \in Nat /\ kk <= product
      BY <2>1
    <3> HIDE DEF kk, tt, product
    <3> QED BY <3>1, ProductMonotone DEF kk, tt, product
  <2>3. /\ k_last * k_last * total_supply * total_supply
             = (k_last * k_last) * (total_supply * total_supply)
        /\ reserve_0 * reserve_1 * total_supply * total_supply
             = (reserve_0 * reserve_1) * (total_supply * total_supply)
    BY <2>1
  <2> QED BY <2>2, <2>3 DEF ShareValueStep, amm
<1> QED BY <1>1, <1>2 DEF StepKept

LEMMA RefundType ==
  ASSUME TypeOK, NEW m \in inbox, NEW kind \in {"Swap", "AddLiquidity"}, Refund(kind, m)
  PROVE  TypeOK' /\ UNCHANGED <<amm, total_supply>>
<1>1. m.origin \in Accounts /\ m.in0 \in Nat /\ m.in1 \in Nat
  BY DEF TypeOK, Refund, Consume, PoolMessage, SwapMessage, DepositMessage, RemoveMessage,
         ClaimMessage, FeeMessage
<1>2. claimable' \in [Tokens -> [Accounts -> Nat]]
  BY <1>1, CreditPairType DEF TypeOK, Refund
<1> QED BY <1>2 DEF Refund, Consume, TypeOK, amm, fees, equity, outside, sending, history

LEMMA ClaimStep ==
  ASSUME TypeOK, NEW m \in inbox, ClaimNative(m) \/ ClaimFungible(m) \/ ClaimRejected(m)
  PROVE  TypeOK' /\ UNCHANGED <<amm, total_supply>>
<1>1. /\ m.id \in Nat /\ m.origin \in Accounts /\ m.token \in Tokens
      /\ m.amount \in Nat \ {0}
  <2>1. m.kind = "Claim"
    BY DEF ClaimNative, ClaimFungible, ClaimRejected, Reject, Consume
  <2> QED BY <2>1 DEF TypeOK, PoolMessage, SwapMessage, DepositMessage, RemoveMessage,
                      ClaimMessage, FeeMessage
<1>2. CASE ClaimNative(m)
  <2>1. claimable' \in [Tokens -> [Accounts -> Nat]] /\ wallet' \in [Tokens -> [Accounts -> Nat]]
    BY <1>1, <1>2, BalanceTypes DEF ClaimNative, NativeClaimable, TypeOK
  <2>2. custody' \in [Tokens -> Nat]
    BY <1>1, <1>2 DEF ClaimNative, NativeClaimable, TypeOK
  <2> QED BY <1>2, <2>1, <2>2
        DEF ClaimNative, Consume, TypeOK, amm, fees, equity, sending, history
<1>3. CASE ClaimFungible(m)
  <2>1. claimable' \in [Tokens -> [Accounts -> Nat]] /\ claiming' \in [Tokens -> [Accounts -> Nat]]
    BY <1>1, <1>3, BalanceTypes DEF ClaimFungible, TypeOK
  <2>2. transfers' \subseteq Transfer
    BY <1>1, <1>3 DEF ClaimFungible, TypeOK, Transfer
  <2> QED BY <1>3, <2>1, <2>2
        DEF ClaimFungible, Consume, TypeOK, amm, fees, equity, sending, history
<1>4. CASE ClaimRejected(m)
  BY <1>4 DEF ClaimRejected, Reject, Consume, TypeOK, amm, fees, equity, claims, outside, sending
<1> QED BY <1>2, <1>3, <1>4

LEMMA FeeChangeStep ==
  ASSUME TypeOK, NEW m \in inbox, SetFeeTo(m) \/ SetFeeToSetter(m) \/ FeeChangeRejected(m)
  PROVE  TypeOK' /\ UNCHANGED <<amm, total_supply>>
<1>1. m.account \in Accounts
  <2>1. m.kind \in {"SetFeeTo", "SetFeeToSetter"}
    BY DEF SetFeeTo, SetFeeToSetter, FeeChangeRejected, Reject, Consume
  <2> QED BY <2>1 DEF TypeOK, PoolMessage, SwapMessage, DepositMessage, RemoveMessage,
                      ClaimMessage, FeeMessage
<1>2. CASE SetFeeTo(m)
  BY <1>1, <1>2 DEF SetFeeTo, Consume, TypeOK, amm, equity, claims, outside, sending, history
<1>3. CASE SetFeeToSetter(m)
  BY <1>1, <1>3 DEF SetFeeToSetter, Consume, TypeOK, amm, equity, claims, outside, sending, history
<1>4. CASE FeeChangeRejected(m)
  BY <1>4 DEF FeeChangeRejected, Reject, Consume, TypeOK, amm, fees, equity, claims, outside, sending
<1> QED BY <1>2, <1>3, <1>4

LEMMA DeliverStep ==
  ASSUME TypeOK, Deliver
  PROVE  TypeOK' /\ UNCHANGED <<amm, total_supply>>
<1>1. ASSUME NEW c \in transfers, TransferFromApplication(c) \/ BounceTransfer(c)
      PROVE  TypeOK' /\ UNCHANGED <<amm, total_supply>>
  <2>1. /\ c.id \in Nat /\ c.owner \in Accounts /\ c.token \in Tokens
        /\ c.amount \in Nat \ {0}
    BY DEF TypeOK, Transfer
  <2>2. transfers' \subseteq Transfer
    BY <1>1 DEF TransferFromApplication, BounceTransfer, TypeOK
  <2>3. receipts' \subseteq Receipt
    <3>1. \A ok \in BOOLEAN : Answer(c, ok) \in Receipt
      BY <2>1 DEF Answer, Receipt
    <3>2. Answer(c, TRUE) \in Receipt /\ Answer(c, FALSE) \in Receipt
      BY <3>1, Zenon
    <3> QED BY <1>1, <3>2 DEF TransferFromApplication, BounceTransfer, TypeOK
  <2>4. custody' \in [Tokens -> Nat]
    <3>1. \/ custody' = custody
          \/ /\ custody[c.token] >= c.amount
             /\ custody' = [custody EXCEPT ![c.token] = custody[c.token] - c.amount]
      BY <1>1 DEF TransferFromApplication, BounceTransfer
    <3>2. custody \in [Tokens -> Nat]
      BY DEF TypeOK
    <3> QED BY <2>1, <3>1, <3>2
  <2>5. wallet' \in [Tokens -> [Accounts -> Nat]]
    <3>1. wallet' = wallet \/ wallet' = Credit(wallet, c.token, c.owner, c.amount)
      BY <1>1 DEF TransferFromApplication, BounceTransfer
    <3>2. wallet \in [Tokens -> [Accounts -> Nat]]
      BY DEF TypeOK
    <3> QED BY <2>1, <3>1, <3>2, BalanceTypes
  <2> QED BY <1>1, <2>2, <2>3, <2>4, <2>5 DEF TransferFromApplication, BounceTransfer, TypeOK,
            amm, fees, equity, claims, sending, history
<1>2. ASSUME NEW r \in receipts, ClaimTransferReceipt(r)
      PROVE  TypeOK' /\ UNCHANGED <<amm, total_supply>>
  <2>1. r.owner \in Accounts /\ r.token \in Tokens /\ r.amount \in Nat \ {0}
    BY DEF TypeOK, Receipt
  <2>2. claiming' \in [Tokens -> [Accounts -> Nat]] /\ claimable' \in [Tokens -> [Accounts -> Nat]]
    BY <1>2, <2>1, BalanceTypes DEF ClaimTransferReceipt, TypeOK
  <2> QED BY <1>2, <2>2 DEF ClaimTransferReceipt, TypeOK, amm, fees, equity, sending, history
<1> QED BY <1>1, <1>2 DEF Deliver

----------------------------------------------------------------------------
(* Swaps                                                                   *)

LEMMA OutTypes ==
  ASSUME NEW m, m.in0 \in Nat, m.in1 \in Nat, reserve_0 \in Nat \ {0}, reserve_1 \in Nat \ {0}
  PROVE  Out0(m) \in Nat /\ Out1(m) \in Nat
<1>1. ASSUME NEW rIn \in Nat \ {0}, NEW rOut \in Nat, NEW in \in Nat
      PROVE  AmountOut(rIn, rOut, in) \in Nat
  <2> DEFINE paid == in * (FeeBase - PoolFee)
  <2>1. paid \in Nat
    BY FeeAssumption
  <2>2. paid * rOut \in Nat /\ rIn * FeeBase + paid \in Nat \ {0}
    <3> HIDE DEF paid
    <3> QED BY <2>1, FeeAssumption
  <2> QED BY <2>2, DivSpec DEF AmountOut
<1> QED BY <1>1 DEF Out0, Out1

LEMMA SwapSettledKept ==
  ASSUME LedgerInv, NEW m \in inbox, SwapSettled(m)
  PROVE  StepKept
<1> DEFINE out0 == Out0(m)
           out1 == Out1(m)
<1>1. /\ m.in0 \in Nat /\ m.in1 \in Nat /\ m.to \in Accounts
  <2>1. m.kind = "Swap"
    BY DEF SwapSettled, Consume
  <2> QED BY <2>1 DEF LedgerInv, TypeOK, PoolMessage, SwapMessage, DepositMessage,
                      RemoveMessage, ClaimMessage, FeeMessage
<1>2. /\ reserve_0 \in Nat \ {0} /\ reserve_1 \in Nat \ {0} /\ total_supply \in Nat \ {0}
      /\ k_last \in Nat /\ k_last * k_last <= reserve_0 * reserve_1
  BY DEF SwapSettled, SwapAccepted, Finalized, LedgerInv, TypeOK, KLastBound
<1>3. out0 \in Nat /\ out1 \in Nat
  BY <1>1, <1>2, OutTypes
<1>4. /\ reserve_0' = reserve_0 + m.in0 - out0
      /\ reserve_1' = reserve_1 + m.in1 - out1
      /\ k_last' = k_last /\ total_supply' = total_supply
  <2>1. reserve_0' = reserve_0 - out0 + m.in0 /\ reserve_1' = reserve_1 - out1 + m.in1
    BY DEF SwapSettled
  <2> HIDE DEF out0, out1
  <2>2. k_last' = k_last /\ total_supply' = total_supply
    BY DEF SwapSettled, equity
  <2> QED BY <1>1, <1>2, <1>3, <2>1, <2>2
<1>5. KeepsProduct(reserve_0, reserve_1, m.in0, m.in1, out0, out1)
  BY DEF SwapSettled, SwapAccepted
<1> HIDE DEF out0, out1
<1>6. /\ reserve_0' \in Nat \ {0} /\ reserve_1' \in Nat \ {0}
      /\ reserve_0 * reserve_1 <= reserve_0' * reserve_1'
  <2>1. /\ reserve_0 + m.in0 - out0 \in Nat \ {0}
        /\ reserve_1 + m.in1 - out1 \in Nat \ {0}
        /\ reserve_0 * reserve_1
             <= (reserve_0 + m.in0 - out0) * (reserve_1 + m.in1 - out1)
    BY <1>1, <1>2, <1>3, <1>5, ProductKept
  <2> QED BY <1>4, <2>1
<1>7. TypeOK'
  <2>1. claimable' \in [Tokens -> [Accounts -> Nat]]
    BY <1>1, <1>3, CreditPairType DEF SwapSettled, LedgerInv, TypeOK, out0, out1
  <2> QED BY <1>4, <1>6, <2>1
        DEF SwapSettled, Consume, LedgerInv, TypeOK, fees, equity, outside, sending, history
<1>8. FinalizedTogether'
  BY <1>2, <1>4, <1>6 DEF FinalizedTogether
<1> DEFINE product == reserve_0 * reserve_1
           newProduct == reserve_0' * reserve_1'
           kk == k_last * k_last
           tt == total_supply * total_supply
<1>9. /\ product \in Nat /\ newProduct \in Nat /\ kk \in Nat /\ tt \in Nat
      /\ kk <= product /\ product <= newProduct
  <2>1. product \in Nat /\ kk \in Nat /\ tt \in Nat /\ kk <= product
    BY <1>2
  <2>2. newProduct \in Nat /\ product <= newProduct
    <3> DEFINE x == reserve_0'
               y == reserve_1'
    <3> HIDE DEF x, y
    <3>1. x \in Nat /\ y \in Nat /\ product <= x * y
      BY <1>6 DEF x, y
    <3>2. x * y \in Nat
      BY <3>1
    <3> QED BY <3>1, <3>2 DEF x, y
  <2> QED BY <2>1, <2>2
<1>10. KLastBound'
  <2> HIDE DEF product, newProduct, kk
  <2>1. kk <= newProduct
    BY <1>9
  <2> QED BY <1>4, <2>1 DEF KLastBound, kk, newProduct
<1>11. ShareValueStep
  <2>1. kk * tt <= newProduct * tt
    <3> HIDE DEF product, newProduct, kk, tt
    <3>1. kk <= newProduct
      BY <1>9
    <3> QED BY <1>9, <3>1, ProductMonotone
  <2>2. /\ k_last * k_last * total_supply * total_supply = kk * tt
        /\ reserve_0' * reserve_1' * total_supply * total_supply = newProduct * tt
    BY <1>2, <1>6
  <2> QED BY <1>4, <2>1, <2>2 DEF ShareValueStep
<1> QED BY <1>7, <1>8, <1>10, <1>11 DEF StepKept, LedgerInv

----------------------------------------------------------------------------
(* Changes of liquidity                                                    *)

(* What mint_shares does: some share is minted into an empty pool, and     *)
(* into any other no more than the deposit is worth.                       *)
LEMMA MintedBound ==
  ASSUME LedgerInv, NEW m, m.to \in Accounts,
         NEW n0 \in Nat \ {0}, NEW n1 \in Nat \ {0}, SharesMinted(m, n0, n1)
  PROVE  /\ total_supply' \in Nat \ {0}
         /\ shares' \in [Accounts -> Nat]
         /\ total_supply # 0 =>
              /\ total_supply' * reserve_0 <= (total_supply + FeeDue) * (reserve_0 + n0)
              /\ total_supply' * reserve_1 <= (total_supply + FeeDue) * (reserve_1 + n1)
<1> DEFINE supply == total_supply + FeeDue
           minted == SharesFor(supply, reserve_0, reserve_1, n0, n1)
<1>1. FeeDue \in Nat /\ (total_supply = 0 => FeeDue = 0)
  BY FeeDueBound
<1>2. /\ total_supply \in Nat /\ reserve_0 \in Nat /\ reserve_1 \in Nat
      /\ total_supply = 0 <=> reserve_0 = 0
      /\ total_supply = 0 <=> reserve_1 = 0
      /\ fee_to \in Accounts /\ shares \in [Accounts -> Nat]
  BY DEF LedgerInv, TypeOK, FinalizedTogether
<1>3. supply \in Nat /\ (supply = 0 <=> total_supply = 0)
  BY <1>1, <1>2
<1>4. /\ total_supply' = supply + minted
      /\ shares' = Mint(Mint(shares, fee_to, FeeDue), m.to, minted)
  BY DEF SharesMinted
<1> HIDE DEF supply
<1>5. CASE total_supply = 0
  <2>1. minted \in Nat \ {0}
    BY <1>2, <1>3, <1>5, FirstShares
  <2> HIDE DEF minted
  <2>2. shares' \in [Accounts -> Nat]
    BY <1>1, <1>2, <1>4, <2>1 DEF Mint
  <2> QED BY <1>3, <1>4, <1>5, <2>1, <2>2
<1>6. CASE total_supply # 0
  <2>1. minted \in Nat /\ minted * reserve_0 <= n0 * supply /\ minted * reserve_1 <= n1 * supply
    BY <1>2, <1>3, <1>6, SharesBound
  <2> HIDE DEF minted
  <2>2. shares' \in [Accounts -> Nat]
    BY <1>1, <1>2, <1>4, <2>1 DEF Mint
  <2>3. total_supply' \in Nat \ {0}
    BY <1>3, <1>4, <1>6, <2>1
  <2>4. ASSUME NEW r \in Nat, NEW n \in Nat, minted * r <= n * supply
        PROVE  (supply + minted) * r <= supply * (r + n)
    <3>1. (supply + minted) * r = supply * r + minted * r
      BY <1>3, <2>1
    <3>2. supply * (r + n) = supply * r + n * supply
      BY <1>3
    <3>3. supply * r \in Nat /\ minted * r \in Nat /\ n * supply \in Nat
      BY <1>3, <2>1
    <3> QED BY <2>4, <3>1, <3>2, <3>3
  <2>5. /\ (supply + minted) * reserve_0 <= supply * (reserve_0 + n0)
        /\ (supply + minted) * reserve_1 <= supply * (reserve_1 + n1)
    BY <1>2, <2>1, <2>4
  <2> QED BY <1>4, <2>2, <2>3, <2>5 DEF supply
<1> QED BY <1>5, <1>6

(* A step that rewrites the reserves with Liquid keeps everything if it    *)
(* empties shares and reserves together and each reserve per share does    *)
(* not shrink.                                                             *)
LEMMA LiquidKept ==
  ASSUME LedgerInv, NEW new0 \in Nat, NEW new1 \in Nat, Liquid(new0, new1),
         total_supply' \in Nat,
         total_supply' = 0 <=> new0 = 0,
         total_supply' = 0 <=> new1 = 0,
         total_supply # 0 =>
           /\ total_supply' * reserve_0 <= (total_supply + FeeDue) * new0
           /\ total_supply' * reserve_1 <= (total_supply + FeeDue) * new1
  PROVE  FinalizedTogether' /\ KLastBound' /\ k_last' \in Nat /\ ShareValueStep
<1>1. reserve_0' = new0 /\ reserve_1' = new1 /\ k_last' = ISqrt(new0 * new1)
  BY DEF Liquid
<1>2. new0 * new1 \in Nat
  OBVIOUS
<1>3. k_last' \in Nat /\ k_last' * k_last' <= new0 * new1
  BY <1>1, <1>2, ISqrtSpec
<1>4. FinalizedTogether' /\ KLastBound'
  BY <1>1, <1>3 DEF FinalizedTogether, KLastBound
<1>5. /\ total_supply \in Nat /\ reserve_0 \in Nat /\ reserve_1 \in Nat /\ k_last \in Nat
      /\ total_supply = 0 => reserve_0 = 0
      /\ k_last * k_last <= reserve_0 * reserve_1
  BY DEF LedgerInv, TypeOK, FinalizedTogether, KLastBound
<1>6. ShareValueStep
  <2>1. CASE total_supply = 0
    <3>1. k_last * k_last <= 0
      BY <1>5, <2>1
    <3>2. k_last = 0
      BY <1>5, <3>1
    <3>3. k_last * k_last * total_supply' * total_supply' = 0
      <4> DEFINE t == total_supply'
      <4> HIDE DEF t
      <4>1. t \in Nat
        BY DEF t
      <4>2. 0 * 0 * t * t = 0
        BY <4>1
      <4> QED BY <3>2, <4>2 DEF t
    <3>4. reserve_0' * reserve_1' * total_supply * total_supply = 0
      BY <1>1, <1>2, <2>1
    <3> QED BY <3>3, <3>4 DEF ShareValueStep
  <2>2. CASE total_supply # 0
    <3> DEFINE diluted == total_supply + FeeDue
               root == ISqrt(reserve_0 * reserve_1)
               product == reserve_0 * reserve_1
               newProduct == new0 * new1
    <3>1. /\ diluted \in Nat \ {0} /\ root \in Nat
          /\ k_last * diluted <= root * total_supply
          /\ root * root <= product
      BY <1>5, <2>2, FeeDueBound
    <3>2. total_supply' * reserve_0 <= diluted * new0 /\ total_supply' * reserve_1 <= diluted * new1
      BY <2>2
    <3> HIDE DEF diluted, root
    <3>3. product * total_supply' * total_supply' <= newProduct * diluted * diluted
      BY <1>5, <3>1, <3>2, ReservesPerShare, ZenonT(40)
    <3>4. product \in Nat /\ newProduct \in Nat
      BY <1>5
    <3> HIDE DEF product, newProduct
    <3>5. k_last * k_last * total_supply' * total_supply' <= newProduct * total_supply * total_supply
      BY <1>5, <3>1, <3>3, <3>4, ValueChain
    <3> QED BY <1>1, <3>5 DEF ShareValueStep, newProduct
  <2> QED BY <2>1, <2>2
<1> QED BY <1>3, <1>4, <1>6

LEMMA LiquidityAddedKept ==
  ASSUME LedgerInv, NEW m \in inbox, LiquidityAdded(m)
  PROVE  StepKept
<1> DEFINE n0 == Pair(m)[1]
           n1 == Pair(m)[2]
<1>1. /\ m.in0 \in Nat /\ m.in1 \in Nat /\ m.min0 \in Nat /\ m.min1 \in Nat
      /\ m.to \in Accounts /\ m.origin \in Accounts
  <2>1. m.kind = "AddLiquidity"
    BY DEF LiquidityAdded, Consume
  <2> QED BY <2>1 DEF LedgerInv, TypeOK, PoolMessage, SwapMessage, DepositMessage,
                      RemoveMessage, ClaimMessage, FeeMessage
<1>2. reserve_0 \in Nat /\ reserve_1 \in Nat /\ (reserve_0 = 0 <=> reserve_1 = 0)
  BY DEF LedgerInv, TypeOK, FinalizedTogether
<1>3. n0 \in 0 .. m.in0 /\ n1 \in 0 .. m.in1
  BY <1>1, <1>2, PairBound DEF Pair
<1>4. n0 \in Nat \ {0} /\ n1 \in Nat \ {0} /\ m.in0 - n0 \in Nat /\ m.in1 - n1 \in Nat
  BY <1>1, <1>3 DEF LiquidityAdded, LiquidityAccepted
<1>5. /\ SharesMinted(m, n0, n1)
      /\ Liquid(reserve_0 + n0, reserve_1 + n1)
      /\ claimable' = CreditPair(claimable, m.origin, m.in0 - n0, m.in1 - n1)
  BY DEF LiquidityAdded
<1> HIDE DEF n0, n1
<1>6. /\ total_supply' \in Nat \ {0} /\ shares' \in [Accounts -> Nat]
      /\ total_supply # 0 =>
           /\ total_supply' * reserve_0 <= (total_supply + FeeDue) * (reserve_0 + n0)
           /\ total_supply' * reserve_1 <= (total_supply + FeeDue) * (reserve_1 + n1)
  BY <1>1, <1>4, <1>5, MintedBound
<1> DEFINE new0 == reserve_0 + n0
           new1 == reserve_1 + n1
<1>7. new0 \in Nat \ {0} /\ new1 \in Nat \ {0}
  BY <1>2, <1>4
<1>8. FinalizedTogether' /\ KLastBound' /\ k_last' \in Nat /\ ShareValueStep
  <2> HIDE DEF new0, new1
  <2> QED BY <1>5, <1>6, <1>7, LiquidKept DEF new0, new1
<1>9. TypeOK'
  <2>1. claimable' \in [Tokens -> [Accounts -> Nat]]
    BY <1>1, <1>4, <1>5, CreditPairType DEF LedgerInv, TypeOK
  <2>2. reserve_0' \in Nat /\ reserve_1' \in Nat
    BY <1>5, <1>7 DEF Liquid
  <2> QED BY <1>6, <1>8, <2>1, <2>2
        DEF LiquidityAdded, Consume, LedgerInv, TypeOK, fees, outside, sending, history
<1> QED BY <1>8, <1>9 DEF StepKept, LedgerInv

LEMMA LiquidityInitializedKept ==
  ASSUME LedgerInv, NEW m \in inbox, LiquidityInitialized(m)
  PROVE  StepKept
<1>1. m.in0 \in Nat \ {0} /\ m.in1 \in Nat \ {0} /\ m.to \in Accounts
  <2>1. m.kind = "InitializeLiquidity"
    BY DEF LiquidityInitialized, Consume
  <2> QED BY <2>1 DEF LedgerInv, TypeOK, PoolMessage, SwapMessage, DepositMessage,
                      RemoveMessage, ClaimMessage, FeeMessage
<1>2. total_supply = 0
  BY DEF LiquidityInitialized, Finalized, LedgerInv, TypeOK, FinalizedTogether
<1>3. SharesMinted(m, m.in0, m.in1) /\ Liquid(m.in0, m.in1)
  BY DEF LiquidityInitialized
<1>4. total_supply' \in Nat \ {0} /\ shares' \in [Accounts -> Nat]
  BY <1>1, <1>3, MintedBound
<1>5. FinalizedTogether' /\ KLastBound' /\ k_last' \in Nat /\ ShareValueStep
  BY <1>1, <1>2, <1>3, <1>4, LiquidKept
<1>6. TypeOK'
  <2>1. reserve_0' \in Nat /\ reserve_1' \in Nat
    BY <1>1, <1>3 DEF Liquid
  <2>2. virtual' \in Nat
    BY <1>1 DEF LiquidityInitialized, Funding, Token0, Token1, LedgerInv, TypeOK
  <2> QED BY <1>4, <1>5, <2>1, <2>2
        DEF LiquidityInitialized, Consume, LedgerInv, TypeOK, fees, claims, outside, sending
<1> QED BY <1>5, <1>6 DEF StepKept, LedgerInv

LEMMA LiquidityRemovedKept ==
  ASSUME LedgerInv, NEW m \in inbox, LiquidityRemoved(m)
  PROVE  StepKept
<1> DEFINE supply == total_supply + FeeDue
           pay0 == Payout0(m)
           pay1 == Payout1(m)
           new0 == reserve_0 - pay0
           new1 == reserve_1 - pay1
<1>1. /\ m.liquidity \in Nat \ {0} /\ m.to \in Accounts /\ m.origin \in Accounts
  <2>1. m.kind = "RemoveLiquidity"
    BY DEF LiquidityRemoved, Consume
  <2> QED BY <2>1 DEF LedgerInv, TypeOK, PoolMessage, SwapMessage, DepositMessage,
                      RemoveMessage, ClaimMessage, FeeMessage
<1>2. /\ reserve_0 \in Nat \ {0} /\ reserve_1 \in Nat \ {0} /\ total_supply \in Nat \ {0}
      /\ fee_to \in Accounts /\ shares \in [Accounts -> Nat]
  BY DEF LiquidityRemoved, RemoveAccepted, Finalized, LedgerInv, TypeOK
<1>3. FeeDue \in Nat /\ supply \in Nat \ {0}
  BY <1>2, FeeDueBound
<1>4. m.liquidity \in 0 .. supply
  BY <1>1, <1>3 DEF LiquidityRemoved, RemoveAccepted
<1>5. ASSUME NEW r \in Nat \ {0}, NEW pay, pay = PayoutFor(m.liquidity, supply, r)
      PROVE  /\ pay \in 0 .. r
             /\ m.liquidity = supply <=> pay = r
             /\ (supply - m.liquidity) * r <= supply * (r - pay)
  <2> HIDE DEF supply
  <2>1. /\ pay \in 0 .. r /\ pay * supply <= m.liquidity * r
        /\ m.liquidity = supply => pay = r
        /\ m.liquidity < supply /\ r > 0 => pay < r
    BY <1>3, <1>4, <1>5, PayoutBound
  <2>2. (supply - m.liquidity) * r = supply * r - m.liquidity * r
    BY <1>1, <1>3
  <2>3. supply * (r - pay) = supply * r - pay * supply
    BY <1>3, <2>1
  <2>4. supply * r \in Nat /\ m.liquidity * r \in Nat /\ pay * supply \in Nat
    BY <1>1, <1>3, <2>1
  <2>5. m.liquidity = supply <=> pay = r
    BY <1>1, <1>3, <1>4, <2>1
  <2> QED BY <2>1, <2>2, <2>3, <2>4, <2>5
<1>6. /\ pay0 \in 0 .. reserve_0 /\ (m.liquidity = supply <=> pay0 = reserve_0)
      /\ (supply - m.liquidity) * reserve_0 <= supply * new0
  BY <1>2, <1>5 DEF Payout0
<1>7. /\ pay1 \in 0 .. reserve_1 /\ (m.liquidity = supply <=> pay1 = reserve_1)
      /\ (supply - m.liquidity) * reserve_1 <= supply * new1
  BY <1>2, <1>5 DEF Payout1
<1>8. /\ total_supply' = supply - m.liquidity
      /\ Liquid(new0, new1)
      /\ shares' = Burn(Mint(shares, fee_to, FeeDue), m.origin, m.liquidity)
      /\ claimable' = CreditPair(claimable, m.to, pay0, pay1)
      /\ m.liquidity <= Mint(shares, fee_to, FeeDue)[m.origin]
  <2>1. total_supply' = supply - m.liquidity
    <3>1. total_supply' = total_supply + FeeDue - m.liquidity
      BY DEF LiquidityRemoved
    <3> QED BY <1>1, <1>2, <1>3, <3>1
  <2>2. Liquid(new0, new1)
    BY DEF LiquidityRemoved
  <2>3. shares' = Burn(Mint(shares, fee_to, FeeDue), m.origin, m.liquidity)
    BY DEF LiquidityRemoved
  <2>4. claimable' = CreditPair(claimable, m.to, pay0, pay1)
    BY DEF LiquidityRemoved
  <2>5. m.liquidity <= Mint(shares, fee_to, FeeDue)[m.origin]
    BY DEF LiquidityRemoved, RemoveAccepted
  <2> QED BY <2>1, <2>2, <2>3, <2>4, <2>5
<1> HIDE DEF pay0, pay1
<1>9. new0 \in Nat /\ new1 \in Nat
  BY <1>2, <1>6, <1>7
<1>10. total_supply' \in Nat /\ (total_supply' = 0 <=> new0 = 0) /\ (total_supply' = 0 <=> new1 = 0)
  <2>1. total_supply' = 0 <=> m.liquidity = supply
    BY <1>1, <1>3, <1>4, <1>8
  <2>2. new0 = 0 <=> pay0 = reserve_0
    BY <1>2, <1>6
  <2>3. new1 = 0 <=> pay1 = reserve_1
    BY <1>2, <1>7
  <2>4. total_supply' \in Nat
    BY <1>1, <1>3, <1>4, <1>8
  <2> QED BY <1>6, <1>7, <2>1, <2>2, <2>3, <2>4
<1>11. /\ total_supply' * reserve_0 <= supply * new0
       /\ total_supply' * reserve_1 <= supply * new1
  BY <1>6, <1>7, <1>8
<1>12. FinalizedTogether' /\ KLastBound' /\ k_last' \in Nat /\ ShareValueStep
  <2> HIDE DEF new0, new1
  <2> QED BY <1>8, <1>9, <1>10, <1>11, LiquidKept DEF supply
<1>13. TypeOK'
  <2>1. claimable' \in [Tokens -> [Accounts -> Nat]]
    <3>1. pay0 \in Nat /\ pay1 \in Nat /\ claimable \in [Tokens -> [Accounts -> Nat]]
      BY <1>2, <1>6, <1>7 DEF LedgerInv, TypeOK
    <3>2. claimable' = CreditPair(claimable, m.to, pay0, pay1)
      BY <1>8
    <3> QED BY <1>1, <3>1, <3>2, CreditPairType
  <2>2. shares' \in [Accounts -> Nat]
    BY <1>1, <1>2, <1>3, <1>8 DEF Mint, Burn
  <2>3. reserve_0' \in Nat /\ reserve_1' \in Nat
    BY <1>8, <1>9 DEF Liquid
  <2> QED BY <1>10, <1>12, <2>1, <2>2, <2>3
        DEF LiquidityRemoved, Consume, LedgerInv, TypeOK, fees, outside, sending, history
<1> QED BY <1>12, <1>13 DEF StepKept, LedgerInv

----------------------------------------------------------------------------
(* The theorems                                                            *)

LEMMA RejectedStep ==
  ASSUME TypeOK, NEW m \in inbox, InitializeRejected(m) \/ RemoveRejected(m)
  PROVE  TypeOK' /\ UNCHANGED <<amm, total_supply>>
<1>1. CASE InitializeRejected(m)
  <2>1. m.in0 \in Nat /\ m.in1 \in Nat
    <3>1. m.kind = "InitializeLiquidity"
      BY <1>1 DEF InitializeRejected, Reject, Consume
    <3> QED BY <3>1 DEF TypeOK, PoolMessage, SwapMessage, DepositMessage,
                        RemoveMessage, ClaimMessage, FeeMessage
  <2>2. \A t \in Tokens : Funding(m, t) \in Nat
    BY <2>1 DEF Funding, Tokens, Token0, Token1
  <2>3. stranded' \in [Tokens -> Nat]
    BY <1>1, <2>2 DEF InitializeRejected, TypeOK
  <2> QED BY <1>1, <2>3 DEF InitializeRejected, Reject, Consume, TypeOK, amm, fees, equity,
                            claims, outside, sending
<1>2. CASE RemoveRejected(m)
  BY <1>2 DEF RemoveRejected, Reject, Consume, TypeOK, amm, fees, equity, claims, outside, sending
<1> QED BY <1>1, <1>2

(* Every step keeps the invariant and the value of a share.                *)
LEMMA NextKept ==
  ASSUME LedgerInv, [Next]_vars
  PROVE  StepKept
<1>0. TypeOK
  BY DEF LedgerInv
<1>1. CASE Request \/ SendInitializeLiquidity
           \/ \E a \in Accounts, t \in Tokens, n \in Amounts : SendClaim(a, t, n)
  BY <1>1, RequestStep, UntouchedKept
<1>2. CASE Settle
  <2> PICK m \in inbox :
        \/ SwapSettled(m) \/ SwapRefunded(m)
        \/ LiquidityAdded(m) \/ LiquidityRefunded(m)
        \/ LiquidityInitialized(m) \/ InitializeRejected(m)
        \/ LiquidityRemoved(m) \/ RemoveRejected(m)
        \/ ClaimNative(m) \/ ClaimFungible(m) \/ ClaimRejected(m)
        \/ SetFeeTo(m) \/ SetFeeToSetter(m) \/ FeeChangeRejected(m)
    BY <1>2 DEF Settle
  <2>1. CASE SwapSettled(m)
    BY <2>1, SwapSettledKept
  <2>2. CASE LiquidityAdded(m)
    BY <2>2, LiquidityAddedKept
  <2>3. CASE LiquidityInitialized(m)
    BY <2>3, LiquidityInitializedKept
  <2>4. CASE LiquidityRemoved(m)
    BY <2>4, LiquidityRemovedKept
  <2>5. CASE SwapRefunded(m) \/ LiquidityRefunded(m)
    BY <1>0, <2>5, RefundType, UntouchedKept DEF SwapRefunded, LiquidityRefunded
  <2>6. CASE InitializeRejected(m) \/ RemoveRejected(m)
    BY <1>0, <2>6, RejectedStep, UntouchedKept
  <2>7. CASE ClaimNative(m) \/ ClaimFungible(m) \/ ClaimRejected(m)
    BY <1>0, <2>7, ClaimStep, UntouchedKept
  <2>8. CASE SetFeeTo(m) \/ SetFeeToSetter(m) \/ FeeChangeRejected(m)
    BY <1>0, <2>8, FeeChangeStep, UntouchedKept
  <2> QED BY <2>1, <2>2, <2>3, <2>4, <2>5, <2>6, <2>7, <2>8
<1>3. CASE Deliver
  BY <1>0, <1>3, DeliverStep, UntouchedKept
<1>4. CASE UNCHANGED vars
  <2>1. TypeOK' /\ UNCHANGED <<amm, total_supply>>
    BY <1>0, <1>4 DEF vars, TypeOK, amm, fees, equity, claims, outside, sending, history
  <2> QED BY <2>1, UntouchedKept
<1> QED BY <1>1, <1>2, <1>3, <1>4 DEF Next

(* The inductive invariant of the ledger: its types, FinalizedTogether and   *)
(* KLastBound, which the handlers rely on together.                        *)
THEOREM LedgerInvariant == Spec => []LedgerInv
<1>1. Init => LedgerInv
  BY InitLedgerInv
<1>2. LedgerInv /\ [Next]_vars => LedgerInv'
  BY NextKept DEF StepKept
<1> QED BY <1>1, <1>2, PTL DEF Spec

(* The ledger's values keep their types: no balance, reserve or share      *)
(* count of the pool ever goes negative.                                   *)
THEOREM LedgerTypes == Spec => []TypeOK
<1>1. LedgerInv => TypeOK
  BY DEF LedgerInv
<1> QED BY <1>1, LedgerInvariant, PTL

(* The three facts of has_finalized_reserve_share_facts stand and fall     *)
(* together, so initialize_liquidity never overwrites reserves that back   *)
(* shares.                                                                 *)
THEOREM FinalizationSound == Spec => []FinalizedTogether
<1>1. LedgerInv => FinalizedTogether
  BY DEF LedgerInv
<1> QED BY <1>1, LedgerInvariant, PTL

(* The root kept as k_last never exceeds the root of the present product.  *)
THEOREM KLastSound == Spec => []KLastBound
<1>1. LedgerInv => KLastBound
  BY DEF LedgerInv
<1> QED BY <1>1, LedgerInvariant, PTL

(* No swap, deposit, withdrawal or fee mint leaves a share worth less than *)
(* it was right after the last change of liquidity.                        *)
THEOREM ShareValueSound == Spec => ShareValueKept
<1>1. LedgerInv /\ [Next]_vars => [ShareValueStep]_vars
  BY NextKept DEF StepKept
<1> QED BY <1>1, LedgerInvariant, PTL DEF Spec, ShareValueKept


----------------------------------------------------------------------------
(* The sums under one change                                               *)

LEMMA TokenPair == Token0 \in Tokens /\ Token1 \in Tokens /\ Token0 # Token1
  BY DEF Tokens, Token0, Token1

LEMMA ValueType ==
  ASSUME NEW m \in PoolMessage, NEW t \in Tokens
  PROVE  Value(m, t) \in Nat
<1>1. m.kind \in {"Swap", "AddLiquidity", "InitializeLiquidity"} => m.in0 \in Nat /\ m.in1 \in Nat
  BY DEF PoolMessage, SwapMessage, DepositMessage, RemoveMessage, ClaimMessage, FeeMessage
<1> QED BY <1>1 DEF Value, Funding, Tokens, Token0, Token1

LEMMA CarriedType ==
  ASSUME NEW box, IsFiniteSet(box), box \subseteq PoolMessage, NEW t \in Tokens
  PROVE  Carried(box, t) \in Nat
<1> DEFINE f == [m \in box |-> Value(m, t)]
<1>1. f \in [box -> Nat] /\ f \in [box -> Int]
  BY ValueType
<1> HIDE DEF f
<1>2. SumFunction(f) \in Nat
  BY <1>1, SumType
<1> QED BY <1>2 DEF Carried, f

LEMMA CarriedAdd ==
  ASSUME NEW box, IsFiniteSet(box), box \subseteq PoolMessage, NEW m \in PoolMessage,
         m \notin box, NEW t \in Tokens
  PROVE  Carried(box \cup {m}, t) = Carried(box, t) + Value(m, t)
<1> DEFINE f == [n \in box |-> Value(n, t)]
           U == box \cup {m}
           h == [n \in U |-> Value(n, t)]
<1>1. f \in [box -> Int]
  BY ValueType
<1>2. h \in [U -> Int]
  BY ValueType
<1>3. h[m] = Value(m, t) /\ \A n \in box : h[n] = f[n]
  OBVIOUS
<1> HIDE DEF f, h
<1>4. SumFunction(h) = SumFunction(f) + h[m]
  BY <1>1, <1>2, <1>3, SumAdd
<1> QED BY <1>3, <1>4 DEF Carried, f, h

LEMMA CarriedRemove ==
  ASSUME NEW box, IsFiniteSet(box), box \subseteq PoolMessage, NEW m \in box, NEW t \in Tokens
  PROVE  Carried(box \ {m}, t) = Carried(box, t) - Value(m, t)
<1> DEFINE f == [n \in box |-> Value(n, t)]
           U == box \ {m}
           h == [n \in U |-> Value(n, t)]
<1>1. f \in [box -> Int]
  BY ValueType
<1>2. h \in [U -> Int]
  BY ValueType
<1>3. f[m] = Value(m, t) /\ \A n \in U : h[n] = f[n]
  OBVIOUS
<1> HIDE DEF f, h
<1>4. SumFunction(h) = SumFunction(f) - f[m]
  BY <1>1, <1>2, <1>3, SumRemove
<1> QED BY <1>3, <1>4 DEF Carried, f, h

(* Messages that name an owner, a token and an amount.                     *)
Owing(messages) == \A c \in messages : c.amount \in Nat
Part(c, t, a) == IF c.token = t /\ c.owner = a THEN c.amount ELSE 0

LEMMA UnderWayType ==
  ASSUME NEW messages, IsFiniteSet(messages), Owing(messages), NEW t, NEW a
  PROVE  UnderWay(messages, t, a) \in Nat
<1> DEFINE f == [c \in messages |-> Part(c, t, a)]
<1>1. f \in [messages -> Nat] /\ f \in [messages -> Int]
  BY DEF Owing, Part
<1> HIDE DEF f
<1>2. SumFunction(f) \in Nat
  BY <1>1, SumType
<1> QED BY <1>2 DEF UnderWay, f, Part

LEMMA UnderWayAdd ==
  ASSUME NEW messages, IsFiniteSet(messages), Owing(messages),
         NEW c, c \notin messages, c.amount \in Nat, NEW t, NEW a
  PROVE  UnderWay(messages \cup {c}, t, a) = UnderWay(messages, t, a) + Part(c, t, a)
<1> DEFINE f == [n \in messages |-> Part(n, t, a)]
           U == messages \cup {c}
           h == [n \in U |-> Part(n, t, a)]
<1>1. f \in [messages -> Int]
  BY DEF Owing, Part
<1>2. h \in [U -> Int]
  BY DEF Owing, Part
<1>3. h[c] = Part(c, t, a) /\ \A n \in messages : h[n] = f[n]
  OBVIOUS
<1> HIDE DEF f, h
<1>4. SumFunction(h) = SumFunction(f) + h[c]
  BY <1>1, <1>2, <1>3, SumAdd
<1> QED BY <1>3, <1>4 DEF UnderWay, f, h, Part

LEMMA UnderWayRemove ==
  ASSUME NEW messages, IsFiniteSet(messages), Owing(messages), NEW c \in messages, NEW t, NEW a
  PROVE  UnderWay(messages \ {c}, t, a) = UnderWay(messages, t, a) - Part(c, t, a)
<1> DEFINE f == [n \in messages |-> Part(n, t, a)]
           U == messages \ {c}
           h == [n \in U |-> Part(n, t, a)]
<1>1. f \in [messages -> Int]
  BY DEF Owing, Part
<1>2. h \in [U -> Int]
  BY DEF Owing, Part
<1>3. f[c] = Part(c, t, a) /\ \A n \in U : h[n] = f[n]
  OBVIOUS
<1> HIDE DEF f, h
<1>4. SumFunction(h) = SumFunction(f) - f[c]
  BY <1>1, <1>2, <1>3, SumRemove
<1> QED BY <1>3, <1>4 DEF UnderWay, f, h, Part

(* No message is larger than all of its account's together.                *)
LEMMA UnderWayBound ==
  ASSUME NEW messages, IsFiniteSet(messages), Owing(messages), NEW c \in messages
  PROVE  c.amount <= UnderWay(messages, c.token, c.owner)
<1> DEFINE f == [n \in messages |-> Part(n, c.token, c.owner)]
<1>1. f \in [messages -> Nat] /\ f[c] = c.amount
  BY DEF Owing, Part
<1> HIDE DEF f
<1>2. f[c] <= SumFunction(f)
  BY <1>1, SumBound
<1> QED BY <1>1, <1>2 DEF UnderWay, f, Part
----------------------------------------------------------------------------
(* The shares add up                                                       *)

LEMMA MintSum ==
  ASSUME NEW book \in [Accounts -> Nat], NEW a \in Accounts, NEW n \in Nat
  PROVE  /\ Mint(book, a, n) \in [Accounts -> Nat]
         /\ SumFunction(Mint(book, a, n)) = SumFunction(book) + n
<1> DEFINE h == Mint(book, a, n)
<1>1. /\ h \in [Accounts -> Nat] /\ h \in [Accounts -> Int] /\ book \in [Accounts -> Int]
      /\ h[a] = book[a] + n /\ \A b \in Accounts \ {a} : h[b] = book[b]
      /\ h[a] \in Int /\ book[a] \in Int
  BY DEF Mint
<1> HIDE DEF h
<1>2. SumFunction(h) = SumFunction(book) - book[a] + h[a]
  BY <1>1, LedgerAssumption, SumUpdate
<1>3. SumFunction(book) \in Int
  BY <1>1, LedgerAssumption, SumType
<1>4. SumFunction(h) = SumFunction(book) + n
  BY <1>1, <1>2, <1>3
<1> QED BY <1>1, <1>4 DEF h

LEMMA BurnSum ==
  ASSUME NEW book \in [Accounts -> Nat], NEW a \in Accounts, NEW n \in Nat
  PROVE  SumFunction(Burn(book, a, n)) = SumFunction(book) - n
<1> DEFINE h == Burn(book, a, n)
<1>1. /\ h \in [Accounts -> Int] /\ book \in [Accounts -> Int]
      /\ h[a] = book[a] - n /\ \A b \in Accounts \ {a} : h[b] = book[b]
      /\ h[a] \in Int /\ book[a] \in Int
  BY DEF Burn
<1> HIDE DEF h
<1>2. SumFunction(h) = SumFunction(book) - book[a] + h[a]
  BY <1>1, LedgerAssumption, SumUpdate
<1>3. SumFunction(book) \in Int
  BY <1>1, LedgerAssumption, SumType
<1>4. SumFunction(h) = SumFunction(book) - n
  BY <1>1, <1>2, <1>3
<1> QED BY <1>4 DEF h

LEMMA SharesMintedSum ==
  ASSUME LedgerInv, SharesAccounted, NEW m, m.to \in Accounts,
         NEW n0 \in Nat \ {0}, NEW n1 \in Nat \ {0}, SharesMinted(m, n0, n1)
  PROVE  SharesAccounted'
<1> DEFINE supply == total_supply + FeeDue
           minted == SharesFor(supply, reserve_0, reserve_1, n0, n1)
<1>1. /\ shares \in [Accounts -> Nat] /\ fee_to \in Accounts /\ total_supply \in Nat
      /\ FeeDue \in Nat /\ SumFunction(shares) = total_supply
  BY FeeDueBound DEF LedgerInv, TypeOK, SharesAccounted
<1>2. minted \in Nat
  <2>1. CASE total_supply = 0
    <3>1. supply = 0
      BY <1>1, <2>1, FeeDueBound
    <3>2. reserve_0 \in Nat /\ reserve_1 \in Nat
      BY DEF LedgerInv, TypeOK
    <3>3. SharesFor(0, reserve_0, reserve_1, n0, n1) \in Nat
      BY <3>2, FirstShares
    <3> QED BY <3>1, <3>3
  <2>2. CASE total_supply # 0
    <3>1. supply \in Nat \ {0} /\ reserve_0 \in Nat \ {0} /\ reserve_1 \in Nat \ {0}
      BY <1>1, <2>2 DEF LedgerInv, TypeOK, FinalizedTogether
    <3> HIDE DEF supply
    <3> QED BY <3>1, SharesBound
  <2> QED BY <2>1, <2>2
<1>3. total_supply' = supply + minted /\ shares' = Mint(Mint(shares, fee_to, FeeDue), m.to, minted)
  BY DEF SharesMinted
<1> HIDE DEF minted
<1>4. /\ Mint(shares, fee_to, FeeDue) \in [Accounts -> Nat]
      /\ SumFunction(Mint(shares, fee_to, FeeDue)) = supply
  BY <1>1, MintSum
<1>5. SumFunction(shares') = supply + minted
  BY <1>2, <1>3, <1>4, MintSum
<1> QED BY <1>3, <1>5 DEF SharesAccounted

LEMMA SharesStep ==
  ASSUME LedgerInv, SharesAccounted, [Next]_vars
  PROVE  SharesAccounted'
<1>1. ASSUME UNCHANGED equity PROVE SharesAccounted'
  BY <1>1 DEF equity, SharesAccounted
<1>2. ASSUME NEW m \in inbox, LiquidityAdded(m) PROVE SharesAccounted'
  <2>1. /\ m.in0 \in Nat /\ m.in1 \in Nat /\ m.min0 \in Nat /\ m.min1 \in Nat
        /\ m.to \in Accounts
    <3>1. m.kind = "AddLiquidity"
      BY <1>2 DEF LiquidityAdded, Consume
    <3> QED BY <3>1 DEF LedgerInv, TypeOK, PoolMessage, SwapMessage, DepositMessage,
                        RemoveMessage, ClaimMessage, FeeMessage
  <2>2. reserve_0 \in Nat /\ reserve_1 \in Nat /\ (reserve_0 = 0 <=> reserve_1 = 0)
    BY DEF LedgerInv, TypeOK, FinalizedTogether
  <2>3. Pair(m)[1] \in 0 .. m.in0 /\ Pair(m)[2] \in 0 .. m.in1
    BY <2>1, <2>2, PairBound DEF Pair
  <2>4. Pair(m)[1] \in Nat \ {0} /\ Pair(m)[2] \in Nat \ {0}
    BY <1>2, <2>1, <2>3 DEF LiquidityAdded, LiquidityAccepted
  <2> QED BY <1>2, <2>1, <2>4, SharesMintedSum DEF LiquidityAdded
<1>3. ASSUME NEW m \in inbox, LiquidityInitialized(m) PROVE SharesAccounted'
  <2>1. m.in0 \in Nat \ {0} /\ m.in1 \in Nat \ {0} /\ m.to \in Accounts
    <3>1. m.kind = "InitializeLiquidity"
      BY <1>3 DEF LiquidityInitialized, Consume
    <3> QED BY <3>1 DEF LedgerInv, TypeOK, PoolMessage, SwapMessage, DepositMessage,
                        RemoveMessage, ClaimMessage, FeeMessage
  <2> QED BY <1>3, <2>1, SharesMintedSum DEF LiquidityInitialized
<1>4. ASSUME NEW m \in inbox, LiquidityRemoved(m) PROVE SharesAccounted'
  <2>1. m.liquidity \in Nat /\ m.origin \in Accounts
    <3>1. m.kind = "RemoveLiquidity"
      BY <1>4 DEF LiquidityRemoved, Consume
    <3> QED BY <3>1 DEF LedgerInv, TypeOK, PoolMessage, SwapMessage, DepositMessage,
                        RemoveMessage, ClaimMessage, FeeMessage
  <2>2. /\ shares \in [Accounts -> Nat] /\ fee_to \in Accounts /\ total_supply \in Nat
        /\ FeeDue \in Nat /\ SumFunction(shares) = total_supply
    BY FeeDueBound DEF LedgerInv, TypeOK, SharesAccounted
  <2> DEFINE book == Mint(shares, fee_to, FeeDue)
  <2>3. book \in [Accounts -> Nat] /\ SumFunction(book) = total_supply + FeeDue
    BY <2>2, MintSum
  <2>4. /\ total_supply' = total_supply + FeeDue - m.liquidity
        /\ shares' = Burn(book, m.origin, m.liquidity)
    BY <1>4 DEF LiquidityRemoved
  <2> HIDE DEF book
  <2>5. SumFunction(Burn(book, m.origin, m.liquidity)) = SumFunction(book) - m.liquidity
    BY <2>1, <2>3, BurnSum
  <2>6. SumFunction(shares') = SumFunction(book) - m.liquidity
    BY <2>4, <2>5
  <2> QED BY <2>1, <2>2, <2>3, <2>4, <2>6 DEF SharesAccounted
<1>5. CASE Request \/ SendInitializeLiquidity
           \/ \E a \in Accounts, t \in Tokens, n \in Amounts : SendClaim(a, t, n)
  <2>1. UNCHANGED equity
    BY <1>5, ZenonT(40) DEF Request, SendInitializeLiquidity, SendClaim, SendSwap, SendAddLiquidity,
                SendRemoveLiquidity, SendFeeChange
  <2> QED BY <1>1, <2>1
<1>6. CASE Settle
  <2>1. ASSUME NEW m \in inbox,
               \/ SwapSettled(m) \/ SwapRefunded(m) \/ LiquidityRefunded(m)
               \/ InitializeRejected(m) \/ RemoveRejected(m)
               \/ ClaimNative(m) \/ ClaimFungible(m) \/ ClaimRejected(m)
               \/ SetFeeTo(m) \/ SetFeeToSetter(m) \/ FeeChangeRejected(m)
        PROVE  UNCHANGED equity
    BY <2>1 DEF SwapSettled, SwapRefunded, LiquidityRefunded, Refund, InitializeRejected,
                RemoveRejected, Reject, ClaimNative, ClaimFungible, ClaimRejected, SetFeeTo,
                SetFeeToSetter, FeeChangeRejected
  <2> QED BY <1>1, <1>2, <1>3, <1>4, <1>6, <2>1 DEF Settle
<1>7. CASE Deliver
  BY <1>1, <1>7 DEF Deliver, TransferFromApplication, BounceTransfer, ClaimTransferReceipt
<1>8. CASE UNCHANGED vars
  BY <1>1, <1>8 DEF vars
<1> QED BY <1>5, <1>6, <1>7, <1>8 DEF Next

(* The shares of all accounts add up to the total supply, whatever mix of  *)
(* fee mints, deposits and withdrawals led here, and whoever receives the  *)
(* fee.                                                                    *)
THEOREM SharesSound == Spec => []SharesAccounted
<1>1. Init => SharesAccounted
  <2> SUFFICES ASSUME Init PROVE SharesAccounted
    OBVIOUS
  <2>1. shares \in [Accounts -> {0}] /\ total_supply = 0
    BY DEF Init
  <2> QED BY <2>1, LedgerAssumption, SumZero DEF SharesAccounted
<1>2. LedgerInv /\ SharesAccounted /\ [Next]_vars => SharesAccounted'
  BY SharesStep
<1> QED BY <1>1, <1>2, LedgerInvariant, PTL DEF Spec

----------------------------------------------------------------------------
(* Messages: no two that are under way at once have one identity           *)

UniqueIds(messages) == \A m, n \in messages : m.id = n.id => m = n
Apart(S, T) == \A m \in S, n \in T : m.id # n.id

MessageIds ==
  /\ IsFiniteSet(inbox) /\ IsFiniteSet(transfers) /\ IsFiniteSet(receipts)
  /\ requests <= MaxRequests
  /\ \A m \in inbox : m.kind # "InitializeLiquidity" => m.id < requests
  /\ \A m \in inbox : m.kind = "InitializeLiquidity" => bootstrapped /\ m.id = MaxRequests
  /\ \A c \in transfers : c.id < requests /\ ~IsNative(c.token)
  /\ \A r \in receipts : r.id < requests
  /\ UniqueIds(inbox) /\ UniqueIds(transfers)
  /\ Apart(inbox, transfers) /\ Apart(inbox, receipts) /\ Apart(transfers, receipts)

(* A message added to the inbox, with a fresh identity.                    *)
LEMMA IssueIds ==
  ASSUME TypeOK, MessageIds, NEW m \in PoolMessage,
         \/ /\ m.kind # "InitializeLiquidity" /\ m.id = requests
            /\ requests < MaxRequests /\ requests' = requests + 1
            /\ bootstrapped' = bootstrapped
         \/ /\ m.kind = "InitializeLiquidity" /\ m.id = MaxRequests
            /\ ~bootstrapped /\ bootstrapped' /\ requests' = requests,
         inbox' = inbox \cup {m}, UNCHANGED <<transfers, receipts>>
  PROVE  MessageIds' /\ m \notin inbox
<1>1. IsFiniteSet(inbox')
  BY FS_AddElement DEF MessageIds
<1>2. /\ requests \in Nat /\ MaxRequests \in Nat /\ requests <= MaxRequests
      /\ inbox \subseteq PoolMessage
      /\ \A n \in inbox : n.kind # "InitializeLiquidity" => n.id < requests
      /\ \A n \in inbox : n.kind = "InitializeLiquidity" => bootstrapped /\ n.id = MaxRequests
  BY LedgerAssumption DEF TypeOK, MessageIds
<1>3. \A n \in inbox : n.id \in Nat
  BY <1>2 DEF PoolMessage, SwapMessage, DepositMessage, RemoveMessage, ClaimMessage, FeeMessage
<1>4. \A n \in inbox : n.id # m.id
  BY <1>2, <1>3
<1>5. \A c \in transfers \cup receipts : c.id # m.id
  <2>1. \A c \in transfers \cup receipts : c.id \in Nat /\ c.id < requests
    BY DEF TypeOK, MessageIds, Transfer, Receipt
  <2> QED BY <1>2, <2>1
<1>6. requests' <= MaxRequests /\ requests <= requests' /\ requests' \in Nat
  BY <1>2
<1>7. /\ \A n \in inbox' : n.kind # "InitializeLiquidity" => n.id < requests'
      /\ \A n \in inbox' : n.kind = "InitializeLiquidity" => bootstrapped' /\ n.id = MaxRequests
  BY <1>2, <1>3
<1>8. /\ \A c \in transfers : c.id < requests' /\ ~IsNative(c.token)
      /\ \A r \in receipts : r.id < requests'
  <2>1. \A c \in transfers \cup receipts : c.id \in Nat /\ c.id < requests
    BY DEF TypeOK, MessageIds, Transfer, Receipt
  <2> QED BY <1>2, <1>6, <2>1 DEF MessageIds
<1>9. UniqueIds(inbox')
  BY <1>4 DEF UniqueIds, MessageIds
<1>10. Apart(inbox', transfers) /\ Apart(inbox', receipts)
  BY <1>5 DEF Apart, MessageIds
<1> QED BY <1>1, <1>4, <1>6, <1>7, <1>8, <1>9, <1>10 DEF MessageIds, IsNative

(* A message handled, with no transfer made.                               *)
LEMMA ConsumeIds ==
  ASSUME MessageIds, NEW m \in inbox, inbox' = inbox \ {m},
         UNCHANGED <<transfers, receipts, bootstrapped, requests>>
  PROVE  MessageIds'
<1>1. IsFiniteSet(inbox')
  BY FS_RemoveElement DEF MessageIds
<1> QED BY <1>1 DEF MessageIds, UniqueIds, Apart, IsNative

(* A claim turned into a transfer of the same identity.                    *)
LEMMA ClaimIds ==
  ASSUME TypeOK, MessageIds, NEW m \in inbox, inbox' = inbox \ {m}, NEW c,
         m.kind # "InitializeLiquidity", c.id = m.id, ~IsNative(c.token),
         transfers' = transfers \cup {c}, UNCHANGED <<receipts, bootstrapped, requests>>
  PROVE  MessageIds' /\ c \notin transfers
<1>1. IsFiniteSet(inbox') /\ IsFiniteSet(transfers')
  BY FS_RemoveElement, FS_AddElement DEF MessageIds
<1>2. c \notin transfers /\ UniqueIds(transfers')
  BY DEF MessageIds, UniqueIds, Apart
<1>3. UniqueIds(inbox') /\ Apart(inbox', transfers')
  BY DEF MessageIds, UniqueIds, Apart
<1>4. Apart(inbox', receipts) /\ Apart(transfers', receipts)
  BY DEF MessageIds, UniqueIds, Apart
<1>5. \A d \in transfers' : d.id < requests /\ ~IsNative(d.token)
  BY DEF MessageIds
<1> QED BY <1>1, <1>2, <1>3, <1>4, <1>5 DEF MessageIds, IsNative

(* A transfer answered by a receipt of the same identity.                  *)
LEMMA AnswerIds ==
  ASSUME TypeOK, MessageIds, NEW c \in transfers, NEW r, r.id = c.id,
         transfers' = transfers \ {c}, receipts' = receipts \cup {r},
         UNCHANGED <<inbox, bootstrapped, requests>>
  PROVE  MessageIds' /\ r \notin receipts
<1>1. IsFiniteSet(transfers') /\ IsFiniteSet(receipts')
  BY FS_RemoveElement, FS_AddElement DEF MessageIds
<1>2. r \notin receipts /\ UniqueIds(transfers') /\ Apart(transfers', receipts')
  BY DEF MessageIds, UniqueIds, Apart
<1>3. Apart(inbox, transfers') /\ Apart(inbox, receipts')
  BY DEF MessageIds, Apart
<1>4. \A s \in receipts' : s.id < requests
  BY DEF MessageIds
<1> QED BY <1>1, <1>2, <1>3, <1>4 DEF MessageIds, IsNative

LEMMA ReceiptIds ==
  ASSUME MessageIds, NEW r \in receipts, receipts' = receipts \ {r},
         UNCHANGED <<inbox, transfers, bootstrapped, requests>>
  PROVE  MessageIds'
<1>1. IsFiniteSet(receipts')
  BY FS_RemoveElement DEF MessageIds
<1> QED BY <1>1 DEF MessageIds, UniqueIds, Apart, IsNative

----------------------------------------------------------------------------
(* What the accounts are owed                                              *)

(* Set aside as claiming is what is under way to the token's chain or back. *)
ClaimingCovered ==
  \A t \in Tokens, a \in Accounts :
    claiming[t][a] = UnderWay(transfers, t, a) + UnderWay(receipts, t, a)

(* Virtual liquidity is a number only where the pool was made for it.      *)
NothingVirtual == ~Virtual => virtual = 0

AccountInv ==
  LedgerInv /\ MessageIds /\ NothingVirtual /\ ClaimingCovered /\ LedgerBalanced

LEMMA OwingTypes ==
  ASSUME TypeOK, MessageIds
  PROVE  /\ IsFiniteSet(transfers) /\ Owing(transfers)
         /\ IsFiniteSet(receipts) /\ Owing(receipts)
         /\ IsFiniteSet({r \in receipts : r.ok}) /\ Owing({r \in receipts : r.ok})
<1>1. Owing(transfers) /\ Owing(receipts)
  BY DEF TypeOK, Transfer, Receipt, Owing
<1>2. {r \in receipts : r.ok} \subseteq receipts
  OBVIOUS
<1> QED BY <1>1, <1>2, FS_Subset DEF MessageIds, Owing

LEMMA OwedTypes ==
  ASSUME TypeOK, MessageIds, NEW t \in Tokens, NEW a \in Accounts
  PROVE  /\ PaidOut(t, a) \in Nat /\ UnderWay(receipts, t, a) \in Nat
         /\ UnderWay(transfers, t, a) \in Nat
         /\ claimable[t][a] \in Nat /\ claiming[t][a] \in Nat /\ Owed(t, a) \in Int
<1>1. /\ PaidOut(t, a) \in Nat /\ UnderWay(receipts, t, a) \in Nat
      /\ UnderWay(transfers, t, a) \in Nat
  BY OwingTypes, UnderWayType DEF PaidOut
<1>2. claimable[t][a] \in Nat /\ claiming[t][a] \in Nat
  BY DEF TypeOK
<1> QED BY <1>1, <1>2 DEF Owed

LEMMA OwedTotalType ==
  ASSUME TypeOK, MessageIds, NEW t \in Tokens
  PROVE  OwedTotal(t) \in Int
<1> DEFINE f == [a \in Accounts |-> Owed(t, a)]
<1>1. f \in [Accounts -> Int]
  BY OwedTypes
<1> HIDE DEF f
<1>2. SumFunction(f) \in Int
  BY <1>1, LedgerAssumption, SumType
<1> QED BY <1>2 DEF OwedTotal, f

(* The debt to one account changes.                                        *)
LEMMA OwedMoves ==
  ASSUME TypeOK, MessageIds, NEW t \in Tokens, NEW a \in Accounts, NEW d \in Int,
         \A b \in Accounts : Owed(t, b)' = Owed(t, b) + (IF b = a THEN d ELSE 0)
  PROVE  OwedTotal(t)' = OwedTotal(t) + d
<1> DEFINE f == [b \in Accounts |-> Owed(t, b)]
           h == [b \in Accounts |-> Owed(t, b)']
<1>1. \A b \in Accounts : Owed(t, b) \in Int
  BY OwedTypes
<1>2. f \in [Accounts -> Int] /\ h \in [Accounts -> Int]
  BY <1>1
<1>3. h[a] = f[a] + d /\ f[a] \in Int /\ h[a] \in Int /\ \A b \in Accounts \ {a} : h[b] = f[b]
  BY <1>1
<1>4. OwedTotal(t) = SumFunction(f) /\ OwedTotal(t)' = SumFunction(h)
  BY DEF OwedTotal
<1> HIDE DEF f, h
<1>5. SumFunction(h) = SumFunction(f) - f[a] + h[a]
  BY <1>2, <1>3, LedgerAssumption, SumUpdate
<1>6. SumFunction(f) \in Int
  BY <1>2, LedgerAssumption, SumType
<1>7. SumFunction(h) = SumFunction(f) + d
  BY <1>3, <1>5, <1>6
<1> QED BY <1>4, <1>7

(* A claimable balance changes and nothing that is being claimed.          *)
LEMMA ClaimableMoves ==
  ASSUME TypeOK, MessageIds, NEW t \in Tokens, NEW a \in Accounts, NEW d \in Int,
         \A b \in Accounts : claimable'[t][b] = claimable[t][b] + (IF b = a THEN d ELSE 0),
         UNCHANGED <<claiming, receipts>>
  PROVE  /\ \A b \in Accounts : Owed(t, b)' = Owed(t, b) + (IF b = a THEN d ELSE 0)
         /\ OwedTotal(t)' = OwedTotal(t) + d
<1>1. ASSUME NEW b \in Accounts
      PROVE  Owed(t, b)' = Owed(t, b) + (IF b = a THEN d ELSE 0)
  <2>1. PaidOut(t, b)' = PaidOut(t, b)
    BY DEF PaidOut
  <2>2. /\ claimable[t][b] \in Nat /\ claiming[t][b] \in Nat /\ PaidOut(t, b) \in Nat
    BY OwedTypes
  <2>3. Owed(t, b)' = claimable'[t][b] + claiming[t][b] - PaidOut(t, b)
    BY <2>1 DEF Owed
  <2>4. claimable'[t][b] = claimable[t][b] + (IF b = a THEN d ELSE 0)
    OBVIOUS
  <2> QED BY <2>2, <2>3, <2>4 DEF Owed
<1> QED BY <1>1, OwedMoves

LEMMA CreditPairAt ==
  ASSUME NEW balances \in [Tokens -> [Accounts -> Nat]], NEW a \in Accounts,
         NEW n0 \in Nat, NEW n1 \in Nat, NEW t \in Tokens, NEW b \in Accounts
  PROVE  CreditPair(balances, a, n0, n1)[t][b]
           = balances[t][b] + (IF b = a THEN IF t = Token0 THEN n0 ELSE n1 ELSE 0)
<1> DEFINE half == Credit(balances, Token0, a, n0)
<1>1. half \in [Tokens -> [Accounts -> Nat]]
  BY TokenPair, BalanceTypes
<1>2. half[t][b] = balances[t][b] + (IF b = a /\ t = Token0 THEN n0 ELSE 0)
  BY TokenPair DEF Credit
<1> HIDE DEF half
<1>3. Credit(half, Token1, a, n1)[t][b] = half[t][b] + (IF b = a /\ t = Token1 THEN n1 ELSE 0)
  BY <1>1, TokenPair DEF Credit
<1>4. t # Token0 => t = Token1
  BY DEF Tokens
<1>5. balances[t][b] \in Nat
  OBVIOUS
<1> QED BY <1>2, <1>3, <1>4, <1>5, TokenPair DEF CreditPair, half

(* Two balances of one account credited.                                   *)
LEMMA CreditsPaid ==
  ASSUME TypeOK, NEW a \in Accounts, NEW n0 \in Nat, NEW n1 \in Nat,
         claimable' = CreditPair(claimable, a, n0, n1),
         NEW paid, \A t \in Tokens : paid[t] = IF t = Token0 THEN n0 ELSE n1
  PROVE  \A t \in Tokens, b \in Accounts :
           claimable'[t][b] = claimable[t][b] + (IF b = a THEN paid[t] ELSE 0)
<1>1. claimable \in [Tokens -> [Accounts -> Nat]]
  BY DEF TypeOK
<1>2. ASSUME NEW t \in Tokens, NEW b \in Accounts
      PROVE  claimable'[t][b]
               = claimable[t][b] + (IF b = a THEN IF t = Token0 THEN n0 ELSE n1 ELSE 0)
  BY <1>1, CreditPairAt
<1> QED BY <1>2

----------------------------------------------------------------------------
(* The shapes of a step.  In each, the equation of LedgerBalanced holds    *)
(* again for every token, and the step is one of Escrow.                   *)

LEMMA BalanceTerms ==
  ASSUME AccountInv, NEW t \in Tokens
  PROVE  /\ custody[t] \in Nat /\ virtual \in Nat /\ Reserve(t) \in Nat
         /\ OwedTotal(t) \in Int /\ Arriving(t) \in Nat /\ stranded[t] \in Nat
         /\ custody[t] + (IF t = Token1 THEN virtual ELSE 0)
              = Reserve(t) + OwedTotal(t) + Arriving(t) + stranded[t]
<1>1. TypeOK /\ MessageIds /\ LedgerBalanced
  BY DEF AccountInv, LedgerInv
<1>2. custody[t] \in Nat /\ virtual \in Nat /\ Reserve(t) \in Nat /\ stranded[t] \in Nat
  BY <1>1 DEF TypeOK, Reserve
<1>3. Arriving(t) \in Nat
  BY <1>1, CarriedType DEF Arriving, TypeOK, MessageIds
<1> QED BY <1>1, <1>2, <1>3, OwedTotalType DEF LedgerBalanced

(* The sum that Escrow takes of its balances is the sum taken here.        *)
LEMMA PromiseTotal ==
  ASSUME NEW balances
  PROVE  Promise!Total(balances) = SumFunction(balances)
  BY DEF Promise!Total, Promise!SumFunction, Promise!SumFunctionOnSet,
         Promise!FoldFunctionOnSet, Promise!MapThenFoldSet,
         SumFunction, SumFunctionOnSet, FoldFunctionOnSet, MapThenFoldSet

StepAccounted ==
  /\ NothingVirtual' /\ ClaimingCovered' /\ LedgerBalanced'
  /\ ~Virtual => [Promise!Next]_(Promise!evars)

(* A request: what it carries is added to what the pool owns.              *)
LEMMA EnterStep ==
  ASSUME AccountInv, NEW m \in PoolMessage, m \notin inbox, inbox' = inbox \cup {m},
         \A t \in Tokens : custody'[t] = custody[t] + Value(m, t),
         UNCHANGED <<reserve_0, reserve_1, claims, transfers, receipts, history>>,
         \/ wallet' = wallet
         \/ \A t \in Tokens :
              /\ SumFunction(wallet'[t]) = SumFunction(wallet[t]) - Value(m, t)
              /\ \A a \in Accounts : wallet'[t][a] <= wallet[t][a]
  PROVE  StepAccounted
<1>1. TypeOK /\ MessageIds
  BY DEF AccountInv, LedgerInv
<1>2. ASSUME NEW t \in Tokens
      PROVE  /\ Arriving(t)' = Arriving(t) + Value(m, t) /\ Value(m, t) \in Nat
             /\ OwedTotal(t)' = OwedTotal(t) /\ Reserve(t)' = Reserve(t)
             /\ \A a \in Accounts : Owed(t, a)' = Owed(t, a)
  <2>1. Arriving(t)' = Arriving(t) + Value(m, t)
    BY <1>1, CarriedAdd DEF Arriving, TypeOK, MessageIds
  <2>2. \A a \in Accounts : Owed(t, a)' = Owed(t, a)
    BY DEF Owed, PaidOut, claims
  <2>3. OwedTotal(t)' = OwedTotal(t)
    BY <2>2 DEF OwedTotal
  <2> QED BY <2>1, <2>2, <2>3, ValueType DEF Reserve
<1>3. LedgerBalanced'
  <2> SUFFICES ASSUME NEW t \in Tokens
               PROVE  custody'[t] + (IF t = Token1 THEN virtual' ELSE 0)
                        = Reserve(t)' + OwedTotal(t)' + Arriving(t)' + stranded'[t]
    BY DEF LedgerBalanced
  <2>1. virtual' = virtual /\ stranded'[t] = stranded[t] /\ custody'[t] = custody[t] + Value(m, t)
    BY DEF history
  <2> QED BY <1>2, <2>1, BalanceTerms
<1>4. ClaimingCovered' /\ NothingVirtual'
  BY DEF AccountInv, ClaimingCovered, NothingVirtual, claims, history
<1>5. [Promise!Next]_(Promise!evars)
  <2>0. \A t \in Tokens : custody[t] \in Nat /\ Arriving(t) \in Nat
    BY BalanceTerms
  <2>1. \A t \in Tokens : /\ custody'[t] >= custody[t]
                          /\ custody'[t] - custody[t] = Arriving(t)' - Arriving(t)
    BY <1>2, <2>0
  <2>2. CASE wallet' = wallet
    <3>1. Promise!Endow
      BY <1>2, <2>1, <2>2 DEF Promise!Endow
    <3> QED BY <3>1 DEF Promise!Next
  <2>3. CASE \A t \in Tokens :
               /\ SumFunction(wallet'[t]) = SumFunction(wallet[t]) - Value(m, t)
               /\ \A a \in Accounts : wallet'[t][a] <= wallet[t][a]
    <3>1. \A t \in Tokens : SumFunction(wallet[t]) \in Int
      BY <1>1, LedgerAssumption, SumType DEF TypeOK
    <3>2. \A t \in Tokens : custody'[t] + SumFunction(wallet'[t]) = custody[t] + SumFunction(wallet[t])
      BY <1>2, <2>0, <2>3, <3>1
    <3>3. Promise!Deposit
      BY <1>2, <2>1, <2>3, <3>2, PromiseTotal DEF Promise!Deposit
    <3> QED BY <3>3 DEF Promise!Next
  <2> QED BY <2>2, <2>3
<1> QED BY <1>3, <1>4, <1>5 DEF StepAccounted

(* A request settled: its value goes to the reserves and to one account.   *)
LEMMA SettleStep ==
  ASSUME AccountInv, NEW m \in inbox, inbox' = inbox \ {m},
         NEW a \in Accounts, NEW paid \in [Tokens -> Nat], NEW v \in Nat,
         \A t \in Tokens, b \in Accounts :
           claimable'[t][b] = claimable[t][b] + (IF b = a THEN paid[t] ELSE 0),
         \A t \in Tokens :
           Reserve(t)' = Reserve(t) + Value(m, t) - paid[t] + (IF t = Token1 THEN v ELSE 0),
         reserve_0' \in Nat, reserve_1' \in Nat,
         virtual' = virtual + v, ~Virtual => v = 0,
         UNCHANGED <<claiming, outside, stranded>>
  PROVE  StepAccounted
<1>1. TypeOK /\ MessageIds
  BY DEF AccountInv, LedgerInv
<1>2. ASSUME NEW t \in Tokens
      PROVE  /\ Arriving(t)' = Arriving(t) - Value(m, t) /\ Value(m, t) \in Nat
             /\ OwedTotal(t)' = OwedTotal(t) + paid[t] /\ paid[t] \in Nat
             /\ \A b \in Accounts : Owed(t, b)' >= Owed(t, b)
             /\ Reserve(t)' \in Nat
  <2>1. Arriving(t)' = Arriving(t) - Value(m, t)
    BY <1>1, CarriedRemove DEF Arriving, TypeOK, MessageIds
  <2>2. Value(m, t) \in Nat
    BY <1>1, ValueType DEF TypeOK
  <2>3. paid[t] \in Nat /\ paid[t] \in Int
    OBVIOUS
  <2>4. UNCHANGED <<claiming, receipts>>
    BY DEF outside
  <2>5. /\ \A b \in Accounts : Owed(t, b)' = Owed(t, b) + (IF b = a THEN paid[t] ELSE 0)
        /\ OwedTotal(t)' = OwedTotal(t) + paid[t]
    BY <1>1, <2>3, <2>4, ClaimableMoves
  <2>6. \A b \in Accounts : Owed(t, b)' >= Owed(t, b)
    BY <1>1, <2>3, <2>5, OwedTypes
  <2>7. Reserve(t)' \in Nat
    BY DEF Reserve
  <2> QED BY <2>1, <2>2, <2>3, <2>5, <2>6, <2>7
<1>3. LedgerBalanced'
  <2> SUFFICES ASSUME NEW t \in Tokens
               PROVE  custody'[t] + (IF t = Token1 THEN virtual' ELSE 0)
                        = Reserve(t)' + OwedTotal(t)' + Arriving(t)' + stranded'[t]
    BY DEF LedgerBalanced
  <2>1. stranded'[t] = stranded[t] /\ custody'[t] = custody[t]
    BY DEF outside
  <2> DEFINE extra == IF t = Token1 THEN v ELSE 0
             unreal == IF t = Token1 THEN virtual ELSE 0
  <2>2. /\ extra \in Nat /\ unreal \in Nat
        /\ (IF t = Token1 THEN virtual' ELSE 0) = unreal + extra
        /\ Reserve(t)' = Reserve(t) + Value(m, t) - paid[t] + extra
    BY BalanceTerms
  <2>3. custody[t] + unreal = Reserve(t) + OwedTotal(t) + Arriving(t) + stranded[t]
    BY BalanceTerms
  <2> HIDE DEF extra, unreal
  <2>4. /\ custody[t] \in Nat /\ Reserve(t) \in Nat /\ OwedTotal(t) \in Int
        /\ Arriving(t) \in Nat /\ stranded[t] \in Nat
    BY BalanceTerms
  <2>5. /\ Arriving(t)' = Arriving(t) - Value(m, t) /\ Value(m, t) \in Nat
        /\ OwedTotal(t)' = OwedTotal(t) + paid[t] /\ paid[t] \in Nat
    BY <1>2
  <2>6. Reserve(t)' + OwedTotal(t)' + Arriving(t)' + stranded'[t]
          = Reserve(t) + extra + OwedTotal(t) + Arriving(t) + stranded[t]
    BY <2>1, <2>2, <2>4, <2>5
  <2>7. custody'[t] + (IF t = Token1 THEN virtual' ELSE 0) = custody[t] + unreal + extra
    BY <2>1, <2>2, <2>4
  <2> QED BY <2>2, <2>3, <2>4, <2>6, <2>7
<1>4. ClaimingCovered' /\ NothingVirtual'
  BY BalanceTerms DEF AccountInv, ClaimingCovered, NothingVirtual, outside
<1>5. ASSUME ~Virtual PROVE [Promise!Next]_(Promise!evars)
  <2>1. ASSUME NEW t \in Tokens
        PROVE  /\ Arriving(t)' <= Arriving(t) /\ Reserve(t)' >= 0
               /\ Arriving(t)' + Reserve(t)' + OwedTotal(t)'
                    = Arriving(t) + Reserve(t) + OwedTotal(t)
    <3>1. v = 0
      BY <1>5
    <3> QED BY <1>2, <3>1, BalanceTerms
  <2>2. UNCHANGED <<custody, wallet>>
    BY DEF outside
  <2>3. Promise!Settle
    BY <1>2, <2>1, <2>2, PromiseTotal DEF Promise!Settle, OwedTotal
  <2> QED BY <2>3 DEF Promise!Next
<1> QED BY <1>3, <1>4, <1>5 DEF StepAccounted

(* A request handled that moves no value.                                  *)
LEMMA NothingMoves ==
  ASSUME AccountInv, NEW m \in inbox, inbox' = inbox \ {m},
         m.kind \notin {"Swap", "AddLiquidity", "InitializeLiquidity"},
         UNCHANGED <<reserve_0, reserve_1, claims, outside, history>>
  PROVE  StepAccounted
<1>1. TypeOK
  BY DEF AccountInv, LedgerInv
<1> DEFINE paid == [t \in Tokens |-> 0]
<1>2. paid \in [Tokens -> Nat] /\ \A t \in Tokens : paid[t] = 0
  OBVIOUS
<1> HIDE DEF paid
<1>3. \A t \in Tokens, b \in Accounts :
        claimable'[t][b] = claimable[t][b] + (IF b = Creator THEN paid[t] ELSE 0)
  BY <1>1, <1>2 DEF claims, TypeOK
<1>4. \A t \in Tokens : Value(m, t) = 0 /\ Reserve(t)' = Reserve(t) /\ Reserve(t) \in Nat
  BY <1>1 DEF Value, Reserve, TypeOK
<1>5. \A t \in Tokens :
        Reserve(t)' = Reserve(t) + Value(m, t) - paid[t] + (IF t = Token1 THEN 0 ELSE 0)
  BY <1>2, <1>4
<1>6. /\ reserve_0' \in Nat /\ reserve_1' \in Nat /\ virtual' = virtual + 0
      /\ UNCHANGED <<claiming, outside, stranded>> /\ Creator \in Accounts /\ 0 \in Nat
  BY <1>1, LedgerAssumption DEF claims, history, TypeOK
<1> QED BY <1>2, <1>3, <1>5, <1>6, SettleStep

(* The rejected initialisation: its value stays with the pool.             *)
LEMMA ForfeitStep ==
  ASSUME AccountInv, NEW m \in inbox, InitializeRejected(m)
  PROVE  StepAccounted
<1>1. TypeOK /\ MessageIds
  BY DEF AccountInv, LedgerInv
<1>2. /\ m.kind = "InitializeLiquidity" /\ inbox' = inbox \ {m}
      /\ UNCHANGED <<amm, claims, outside, virtual>>
      /\ stranded' = [t \in Tokens |-> stranded[t] + Funding(m, t)]
  BY DEF InitializeRejected, Reject, Consume
<1>3. ASSUME NEW t \in Tokens
      PROVE  /\ Arriving(t)' = Arriving(t) - Value(m, t) /\ Value(m, t) \in Nat
             /\ OwedTotal(t)' = OwedTotal(t) /\ Reserve(t)' = Reserve(t)
             /\ stranded'[t] = stranded[t] + Value(m, t)
             /\ \A a \in Accounts : Owed(t, a)' = Owed(t, a)
  <2>1. Arriving(t)' = Arriving(t) - Value(m, t)
    BY <1>1, <1>2, CarriedRemove DEF Arriving, TypeOK, MessageIds
  <2>2. \A a \in Accounts : Owed(t, a)' = Owed(t, a)
    BY <1>2 DEF Owed, PaidOut, claims, outside
  <2>3. OwedTotal(t)' = OwedTotal(t)
    BY <2>2 DEF OwedTotal
  <2>4. Value(m, t) \in Nat
    BY <1>1, ValueType DEF TypeOK
  <2> QED BY <1>2, <2>1, <2>2, <2>3, <2>4 DEF Reserve, Value, amm
<1>4. LedgerBalanced'
  <2> SUFFICES ASSUME NEW t \in Tokens
               PROVE  custody'[t] + (IF t = Token1 THEN virtual' ELSE 0)
                        = Reserve(t)' + OwedTotal(t)' + Arriving(t)' + stranded'[t]
    BY DEF LedgerBalanced
  <2>1. custody'[t] = custody[t] /\ virtual' = virtual
    BY <1>2 DEF outside
  <2> QED BY <1>3, <2>1, BalanceTerms
<1>5. ClaimingCovered' /\ NothingVirtual'
  BY <1>2 DEF AccountInv, ClaimingCovered, NothingVirtual, claims, outside
<1>6. [Promise!Next]_(Promise!evars)
  <2>1. \A t \in Tokens : Arriving(t) \in Nat /\ Arriving(t)' \in Nat
    <3> SUFFICES ASSUME NEW t \in Tokens PROVE Arriving(t) \in Nat /\ Arriving(t)' \in Nat
      OBVIOUS
    <3>1. IsFiniteSet(inbox') /\ inbox' \subseteq PoolMessage
      BY <1>1, <1>2, FS_RemoveElement DEF TypeOK, MessageIds
    <3>2. Arriving(t)' = Carried(inbox', t)
      BY DEF Arriving
    <3> QED BY <3>1, <3>2, CarriedType, BalanceTerms
  <2>2. \A t \in Tokens : Arriving(t)' \in 0 .. Arriving(t)
    BY <1>3, <2>1
  <2>3. Promise!Forfeit
    BY <1>2, <1>3, <2>2 DEF Promise!Forfeit, outside
  <2> QED BY <2>3 DEF Promise!Next
<1> QED BY <1>4, <1>5, <1>6 DEF StepAccounted

(* An account is paid n of token t.                                        *)
LEMMA PayStep ==
  ASSUME AccountInv, NEW t \in Tokens, NEW a \in Accounts, NEW n \in Nat,
         \A u \in Tokens, b \in Accounts :
           Owed(u, b)' = Owed(u, b) - (IF u = t /\ b = a THEN n ELSE 0),
         Owed(t, a)' >= 0,
         \A u \in Tokens : Carried(inbox', u) = Carried(inbox, u),
         custody' = [custody EXCEPT ![t] = custody[t] - n],
         wallet' = Credit(wallet, t, a, n),
         ClaimingCovered', UNCHANGED <<reserve_0, reserve_1, history>>
  PROVE  StepAccounted
<1>1. TypeOK /\ MessageIds
  BY DEF AccountInv, LedgerInv
<1>2. ASSUME NEW u \in Tokens
      PROVE  /\ OwedTotal(u)' = OwedTotal(u) - (IF u = t THEN n ELSE 0)
             /\ Reserve(u)' = Reserve(u) /\ Arriving(u)' = Arriving(u)
  <2> DEFINE d == IF u = t THEN 0 - n ELSE 0
  <2>1. d \in Int
    OBVIOUS
  <2>2. \A b \in Accounts : Owed(u, b)' = Owed(u, b) + (IF b = a THEN d ELSE 0)
    BY <1>1, OwedTypes
  <2>3. OwedTotal(u)' = OwedTotal(u) + d
    <3> HIDE DEF d
    <3> QED BY <1>1, <2>1, <2>2, OwedMoves
  <2> QED BY <2>3, BalanceTerms DEF Reserve, Arriving
<1>3. LedgerBalanced'
  <2> SUFFICES ASSUME NEW u \in Tokens
               PROVE  custody'[u] + (IF u = Token1 THEN virtual' ELSE 0)
                        = Reserve(u)' + OwedTotal(u)' + Arriving(u)' + stranded'[u]
    BY DEF LedgerBalanced
  <2>1. custody'[u] = custody[u] - (IF u = t THEN n ELSE 0) /\ stranded'[u] = stranded[u]
    BY <1>1 DEF history, TypeOK
  <2>2. virtual' = virtual
    BY DEF history
  <2> QED BY <1>2, <2>1, <2>2, BalanceTerms
<1>4. NothingVirtual'
  BY DEF AccountInv, NothingVirtual, history
<1>5. Promise!Pay(t, a)
  <2> DEFINE owed == [u \in Tokens |-> [b \in Accounts |-> Owed(u, b)]]
             next == [u \in Tokens |-> [b \in Accounts |-> Owed(u, b)']]
  <2>1. /\ owed \in [Tokens -> [Accounts -> Int]] /\ next \in [Tokens -> [Accounts -> Int]]
        /\ Owed(t, a) \in Int /\ Owed(t, a)' = Owed(t, a) - n
    BY <1>1, OwedTypes
  <2>2. next = [owed EXCEPT ![t] = [owed[t] EXCEPT ![a] = Owed(t, a)']]
    <3>1. \A u \in Tokens : u # t => next[u] = owed[u]
      BY <1>1, OwedTypes
    <3>2. next[t] = [owed[t] EXCEPT ![a] = Owed(t, a)']
      <4>1. \A b \in Accounts : Owed(t, b)' = IF b = a THEN Owed(t, a)' ELSE Owed(t, b)
        BY <1>1, OwedTypes
      <4>2. next[t] = [b \in Accounts |-> Owed(t, b)'] /\ owed[t] = [b \in Accounts |-> Owed(t, b)]
        OBVIOUS
      <4> HIDE DEF owed, next
      <4> QED BY <4>1, <4>2
    <3> HIDE DEF owed, next
    <3> QED BY <2>1, <3>1, <3>2
  <2>3. wallet' = [wallet EXCEPT ![t] = [wallet[t] EXCEPT ![a] = wallet[t][a] + n]]
    BY DEF Credit
  <2>4. Owed(t, a) - Owed(t, a)' = n
    BY <2>1
  <2> QED BY <1>2, <2>1, <2>2, <2>3, <2>4 DEF Promise!Pay
<1> QED BY <1>3, <1>4, <1>5 DEF StepAccounted, Promise!Next

(* Nothing moves but between what is claimable, set aside and under way.   *)
LEMMA SetAsideStep ==
  ASSUME AccountInv, ClaimingCovered',
         \A u \in Tokens, b \in Accounts : Owed(u, b)' = Owed(u, b),
         \A u \in Tokens : Carried(inbox', u) = Carried(inbox, u),
         UNCHANGED <<reserve_0, reserve_1, custody, wallet, history>>
  PROVE  StepAccounted
<1>1. ASSUME NEW u \in Tokens
      PROVE  /\ OwedTotal(u)' = OwedTotal(u) /\ Reserve(u)' = Reserve(u)
             /\ Arriving(u)' = Arriving(u)
  BY DEF OwedTotal, Reserve, Arriving
<1>2. LedgerBalanced' /\ NothingVirtual'
  BY <1>1 DEF AccountInv, LedgerBalanced, NothingVirtual, history
<1>3. UNCHANGED Promise!evars
  BY <1>1 DEF Promise!evars
<1> QED BY <1>2, <1>3 DEF StepAccounted

----------------------------------------------------------------------------
(* Every action has one of these shapes                                    *)

LEMMA DebitSum ==
  ASSUME NEW balances \in [Tokens -> [Accounts -> Nat]], NEW u \in Tokens,
         NEW a \in Accounts, NEW n \in Nat, balances[u][a] >= n, NEW t \in Tokens
  PROVE  /\ Debit(balances, u, a, n) \in [Tokens -> [Accounts -> Nat]]
         /\ SumFunction(Debit(balances, u, a, n)[t])
              = SumFunction(balances[t]) - (IF t = u THEN n ELSE 0)
         /\ \A b \in Accounts : Debit(balances, u, a, n)[t][b] <= balances[t][b]
<1> DEFINE after == Debit(balances, u, a, n)
<1>1. after \in [Tokens -> [Accounts -> Nat]] /\ after[t] \in [Accounts -> Nat]
  <2>1. after \in [Tokens -> [Accounts -> Nat]]
    BY BalanceTypes
  <2> HIDE DEF after
  <2> QED BY <2>1
<1>2. /\ t # u => after[t] = balances[t]
      /\ t = u => /\ after[t][a] = balances[t][a] - n
                  /\ \A b \in Accounts \ {a} : after[t][b] = balances[t][b]
  BY DEF Debit
<1> HIDE DEF after
<1>3. \A b \in Accounts : after[t][b] <= balances[t][b]
  BY <1>1, <1>2
<1>4. balances[t] \in [Accounts -> Int] /\ after[t] \in [Accounts -> Int]
  BY <1>1
<1>5. SumFunction(balances[t]) \in Int
  BY <1>4, LedgerAssumption, SumType
<1>6. CASE t = u
  <2>1. after[t][a] \in Int /\ balances[t][a] \in Int
    BY <1>4
  <2>2. SumFunction(after[t]) = SumFunction(balances[t]) - balances[t][a] + after[t][a]
    BY <1>2, <1>4, <1>6, <2>1, LedgerAssumption, SumUpdate
  <2>3. SumFunction(after[t]) = SumFunction(balances[t]) - n
    BY <1>2, <1>5, <1>6, <2>1, <2>2
  <2> QED BY <1>1, <1>3, <1>6, <2>3 DEF after
<1>7. CASE t # u
  BY <1>1, <1>2, <1>3, <1>5, <1>7 DEF after
<1> QED BY <1>6, <1>7

LEMMA DepositSum ==
  ASSUME TypeOK, NEW a \in Accounts, NEW n0 \in Nat, NEW n1 \in Nat, Deposit(a, n0, n1),
         NEW t \in Tokens
  PROVE  /\ SumFunction(wallet'[t]) = SumFunction(wallet[t]) - (IF t = Token0 THEN n0 ELSE n1)
         /\ \A b \in Accounts : wallet'[t][b] <= wallet[t][b]
         /\ custody'[t] = custody[t] + (IF t = Token0 THEN n0 ELSE n1)
<1> DEFINE half == Debit(wallet, Token0, a, n0)
           all == Debit(half, Token1, a, n1)
<1>1. /\ wallet \in [Tokens -> [Accounts -> Nat]] /\ custody \in [Tokens -> Nat]
      /\ wallet[Token0][a] >= n0 /\ wallet[Token1][a] >= n1 /\ wallet' = all
      /\ custody' = [custody EXCEPT ![Token0] = custody[Token0] + n0,
                                    ![Token1] = custody[Token1] + n1]
  BY TokenPair DEF TypeOK, Deposit
<1>2. half[Token1][a] >= n1
  BY <1>1, TokenPair DEF Debit
<1>3. /\ half \in [Tokens -> [Accounts -> Nat]]
      /\ SumFunction(half[t]) = SumFunction(wallet[t]) - (IF t = Token0 THEN n0 ELSE 0)
      /\ \A b \in Accounts : half[t][b] <= wallet[t][b]
  BY <1>1, TokenPair, DebitSum
<1> HIDE DEF half
<1>4. /\ SumFunction(all[t]) = SumFunction(half[t]) - (IF t = Token1 THEN n1 ELSE 0)
      /\ \A b \in Accounts : all[t][b] <= half[t][b]
      /\ all \in [Tokens -> [Accounts -> Nat]]
  BY <1>2, <1>3, TokenPair, DebitSum
<1> HIDE DEF all
<1>5. \A b \in Accounts : all[t][b] \in Nat /\ half[t][b] \in Nat /\ wallet[t][b] \in Nat
  BY <1>1, <1>3, <1>4
<1>6. SumFunction(wallet[t]) \in Int
  BY <1>1, LedgerAssumption, SumType
<1>7. t = Token0 \/ t = Token1
  BY DEF Tokens
<1>8. SumFunction(all[t]) = SumFunction(wallet[t]) - (IF t = Token0 THEN n0 ELSE n1)
  BY <1>3, <1>4, <1>6, <1>7, TokenPair
<1>9. \A b \in Accounts : all[t][b] <= wallet[t][b]
  BY <1>3, <1>4, <1>5
<1>10. custody'[t] = custody[t] + (IF t = Token0 THEN n0 ELSE n1)
  BY <1>1, <1>7, TokenPair
<1> QED BY <1>1, <1>8, <1>9, <1>10

(* Requests of users.                                                      *)
LEMMA IssueStep ==
  ASSUME AccountInv, NEW m \in PoolMessage, NEW operation,
         Issue(operation, m), m.id = requests, m.kind # "InitializeLiquidity",
         UNCHANGED <<amm, claims, transfers, receipts, bootstrapped, history>>,
         \/ /\ UNCHANGED <<custody, wallet>>
            /\ m.kind \notin {"Swap", "AddLiquidity"}
         \/ /\ m.kind \in {"Swap", "AddLiquidity"}
            /\ m.in0 \in Nat /\ m.in1 \in Nat
            /\ \E a \in Accounts : Deposit(a, m.in0, m.in1)
  PROVE  MessageIds' /\ StepAccounted
<1>1. TypeOK /\ MessageIds
  BY DEF AccountInv, LedgerInv
<1>2. inbox' = inbox \cup {m} /\ requests < MaxRequests /\ requests' = requests + 1
  BY DEF Issue
<1>3. MessageIds' /\ m \notin inbox
  BY <1>1, <1>2, IssueIds
<1>4. UNCHANGED <<reserve_0, reserve_1, claims, transfers, receipts, history>>
  BY DEF amm
<1>5. CASE UNCHANGED <<custody, wallet>> /\ m.kind \notin {"Swap", "AddLiquidity"}
  <2>1. \A t \in Tokens : Value(m, t) = 0 /\ custody[t] \in Nat
    BY <1>1, <1>5 DEF Value, TypeOK
  <2>2. \A t \in Tokens : custody'[t] = custody[t] + Value(m, t)
    BY <1>5, <2>1
  <2>3. StepAccounted
    BY <1>2, <1>3, <1>4, <1>5, <2>2, EnterStep
  <2> QED BY <1>3, <2>3
<1>6. ASSUME NEW a \in Accounts, m.kind \in {"Swap", "AddLiquidity"},
             m.in0 \in Nat, m.in1 \in Nat, Deposit(a, m.in0, m.in1)
      PROVE  StepAccounted
  <2>1. \A t \in Tokens : Value(m, t) = IF t = Token0 THEN m.in0 ELSE m.in1
    BY <1>6, TokenPair DEF Value, Funding, Tokens
  <2>2. \A t \in Tokens :
          /\ SumFunction(wallet'[t]) = SumFunction(wallet[t]) - Value(m, t)
          /\ \A b \in Accounts : wallet'[t][b] <= wallet[t][b]
          /\ custody'[t] = custody[t] + Value(m, t)
    BY <1>1, <1>6, <2>1, DepositSum
  <2> QED BY <1>2, <1>3, <1>4, <2>2, EnterStep
<1> QED BY <1>3, <1>5, <1>6

LEMMA RequestAccounted ==
  ASSUME AccountInv,
         \/ Request \/ SendInitializeLiquidity
         \/ \E a \in Accounts, t \in Tokens, n \in Amounts : SendClaim(a, t, n)
  PROVE  MessageIds' /\ StepAccounted
<1> USE LedgerAssumption
<1>1. TypeOK /\ MessageIds /\ requests \in Nat
  BY DEF AccountInv, LedgerInv, TypeOK
<1>2. ASSUME NEW a \in Accounts, NEW b \in Recipients, NEW t \in Tokens,
             NEW n \in Amounts, NEW least \in Mins, SendSwap(a, t, n, least, b)
      PROVE  MessageIds' /\ StepAccounted
  <2> DEFINE n0 == IF t = Token0 THEN n ELSE 0
             n1 == IF t = Token1 THEN n ELSE 0
             m == [id |-> requests, kind |-> "Swap", origin |-> a, in0 |-> n0, in1 |-> n1,
                   min0 |-> IF t = Token1 THEN least ELSE 0,
                   min1 |-> IF t = Token0 THEN least ELSE 0, to |-> b]
  <2>1. Issue("Swap", m) /\ Deposit(a, n0, n1)
        /\ UNCHANGED <<amm, claims, transfers, receipts, bootstrapped, history>>
    BY <1>2 DEF SendSwap
  <2>2. m \in SwapMessage /\ n0 \in Nat /\ n1 \in Nat
    BY <1>1 DEF SwapMessage
  <2>3. /\ m.id = requests /\ m.kind = "Swap" /\ m.in0 = n0 /\ m.in1 = n1
    OBVIOUS
  <2>4. m \in PoolMessage
    BY <2>2 DEF PoolMessage
  <2> HIDE DEF m, n0, n1
  <2> QED BY <2>1, <2>2, <2>3, <2>4, IssueStep
<1>3. ASSUME NEW a \in Accounts, NEW b \in Recipients, NEW n0 \in Amounts, NEW n1 \in Amounts,
             NEW least0 \in Mins, NEW least1 \in Mins,
             SendAddLiquidity(a, n0, n1, least0, least1, b)
      PROVE  MessageIds' /\ StepAccounted
  <2> DEFINE m == [id |-> requests, kind |-> "AddLiquidity", origin |-> a, in0 |-> n0,
                   in1 |-> n1, min0 |-> least0, min1 |-> least1, to |-> b]
  <2>1. Issue("AddLiquidity", m) /\ Deposit(a, n0, n1)
        /\ UNCHANGED <<amm, claims, transfers, receipts, bootstrapped, history>>
    BY <1>3 DEF SendAddLiquidity
  <2>2. m \in DepositMessage /\ n0 \in Nat /\ n1 \in Nat
    BY <1>1 DEF DepositMessage
  <2>3. /\ m.id = requests /\ m.kind = "AddLiquidity" /\ m.in0 = n0 /\ m.in1 = n1
    OBVIOUS
  <2>4. m \in PoolMessage
    BY <2>2 DEF PoolMessage
  <2> HIDE DEF m
  <2> QED BY <2>1, <2>2, <2>3, <2>4, IssueStep
<1>4. ASSUME NEW a \in Accounts, NEW b \in Recipients, NEW n \in Amounts,
             NEW least0 \in Mins, NEW least1 \in Mins,
             SendRemoveLiquidity(a, n, least0, least1, b)
      PROVE  MessageIds' /\ StepAccounted
  <2> DEFINE m == [id |-> requests, kind |-> "RemoveLiquidity", origin |-> a, liquidity |-> n,
                   min0 |-> least0, min1 |-> least1, to |-> b]
  <2>1. Issue("RemoveLiquidity", m)
        /\ UNCHANGED <<amm, claims, transfers, receipts, bootstrapped, history, custody, wallet>>
    BY <1>4 DEF SendRemoveLiquidity, outside
  <2>2. m \in RemoveMessage /\ m.id = requests /\ m.kind = "RemoveLiquidity"
    BY <1>1 DEF RemoveMessage
  <2>3. m \in PoolMessage
    BY <2>2 DEF PoolMessage
  <2> HIDE DEF m
  <2> QED BY <2>1, <2>2, <2>3, IssueStep
<1>5. ASSUME NEW a \in Accounts, NEW b \in Recipients,
             NEW kind \in {"SetFeeTo", "SetFeeToSetter"}, SendFeeChange(kind, a, b)
      PROVE  MessageIds' /\ StepAccounted
  <2> DEFINE m == [id |-> requests, kind |-> kind, operator |-> a, account |-> b]
  <2>1. Issue(kind, m)
        /\ UNCHANGED <<amm, claims, transfers, receipts, bootstrapped, history, custody, wallet>>
    BY <1>5 DEF SendFeeChange, outside
  <2>2. m \in FeeMessage /\ m.id = requests /\ m.kind = kind
    BY <1>1 DEF FeeMessage
  <2>3. m \in PoolMessage
    BY <2>2 DEF PoolMessage
  <2>4. m.kind \notin {"Swap", "AddLiquidity", "InitializeLiquidity"}
    BY <2>2
  <2> HIDE DEF m
  <2> QED BY <2>1, <2>2, <2>3, <2>4, IssueStep
<1>6. ASSUME NEW a \in Accounts, NEW t \in Tokens, NEW n \in Amounts, SendClaim(a, t, n)
      PROVE  MessageIds' /\ StepAccounted
  <2> DEFINE m == [id |-> requests, kind |-> "Claim", origin |-> a, token |-> t, amount |-> n]
  <2>1. Issue("Claim", m)
        /\ UNCHANGED <<amm, claims, transfers, receipts, bootstrapped, history, custody, wallet>>
    BY <1>6 DEF SendClaim, outside
  <2>2. m \in ClaimMessage /\ m.id = requests /\ m.kind = "Claim"
    BY <1>1 DEF ClaimMessage
  <2>3. m \in PoolMessage
    BY <2>2 DEF PoolMessage
  <2> HIDE DEF m
  <2> QED BY <2>1, <2>2, <2>3, IssueStep
<1>7. ASSUME SendInitializeLiquidity PROVE MessageIds' /\ StepAccounted
  <2> DEFINE m == [id |-> MaxRequests, kind |-> "InitializeLiquidity", origin |-> Creator,
                   in0 |-> Initial0, in1 |-> Initial1, min0 |-> 0, min1 |-> 0, to |-> Creator]
  <2>1. /\ ~bootstrapped /\ bootstrapped' = TRUE /\ inbox' = inbox \cup {m}
        /\ custody' = [t \in Tokens |-> custody[t] + Funding(m, t)]
        /\ UNCHANGED <<amm, claims, wallet, transfers, receipts, requests, history>>
    BY <1>7 DEF SendInitializeLiquidity
  <2>2. m \in DepositMessage /\ m.id = MaxRequests /\ m.kind = "InitializeLiquidity"
    BY <1>1 DEF DepositMessage
  <2>3. m \in PoolMessage
    BY <2>2 DEF PoolMessage
  <2> HIDE DEF m
  <2>4. MessageIds' /\ m \notin inbox
    BY <1>1, <2>1, <2>2, <2>3, IssueIds
  <2>5. \A t \in Tokens : custody'[t] = custody[t] + Value(m, t)
    BY <2>1, <2>2 DEF Value
  <2>6. UNCHANGED <<reserve_0, reserve_1, claims, transfers, receipts, history>>
    BY <2>1 DEF amm
  <2>7. StepAccounted
    BY <2>1, <2>3, <2>4, <2>5, <2>6, EnterStep
  <2> QED BY <2>4, <2>7
<1> QED BY <1>2, <1>3, <1>4, <1>5, <1>6, <1>7 DEF Request

(* Settlements.                                                            *)
LEMMA SwapAccounted ==
  ASSUME AccountInv, NEW m \in inbox, SwapSettled(m)
  PROVE  StepAccounted
<1> DEFINE out0 == Out0(m)
           out1 == Out1(m)
           paid == [t \in Tokens |-> IF t = Token0 THEN out0 ELSE out1]
<1>1. TypeOK /\ LedgerInv
  BY DEF AccountInv, LedgerInv
<1>2. /\ m.in0 \in Nat /\ m.in1 \in Nat /\ m.to \in Accounts /\ m.kind = "Swap"
  <2>1. m.kind = "Swap"
    BY DEF SwapSettled, Consume
  <2> QED BY <1>1, <2>1 DEF TypeOK, PoolMessage, SwapMessage, DepositMessage,
                            RemoveMessage, ClaimMessage, FeeMessage
<1>3. reserve_0 \in Nat \ {0} /\ reserve_1 \in Nat \ {0}
  BY <1>1 DEF SwapSettled, SwapAccepted, Finalized, TypeOK
<1>4. out0 \in Nat /\ out1 \in Nat
  BY <1>2, <1>3, OutTypes
<1>5. reserve_0' \in Nat /\ reserve_1' \in Nat
  BY <1>1, SwapSettledKept DEF StepKept, LedgerInv, TypeOK
<1>6. /\ inbox' = inbox \ {m} /\ claimable' = CreditPair(claimable, m.to, out0, out1)
      /\ reserve_0' = reserve_0 - out0 + m.in0 /\ reserve_1' = reserve_1 - out1 + m.in1
      /\ UNCHANGED <<claiming, outside, history>>
  BY DEF SwapSettled, Consume
<1> HIDE DEF out0, out1
<1>7. \A t \in Tokens : Value(m, t) = IF t = Token0 THEN m.in0 ELSE m.in1
  BY <1>2, TokenPair DEF Value, Funding, Tokens
<1>8. paid \in [Tokens -> Nat] /\ \A t \in Tokens : paid[t] = IF t = Token0 THEN out0 ELSE out1
  BY <1>4
<1> HIDE DEF paid
<1>9. \A t \in Tokens, b \in Accounts :
        claimable'[t][b] = claimable[t][b] + (IF b = m.to THEN paid[t] ELSE 0)
  <2>1. claimable' = CreditPair(claimable, m.to, out0, out1)
    BY <1>6
  <2> QED BY <1>1, <1>2, <1>4, <1>8, <2>1, CreditsPaid
<1>10. \A t \in Tokens :
         Reserve(t)' = Reserve(t) + Value(m, t) - paid[t] + (IF t = Token1 THEN 0 ELSE 0)
  BY <1>2, <1>3, <1>4, <1>6, <1>7, <1>8 DEF Reserve
<1>11. virtual' = virtual + 0 /\ UNCHANGED <<claiming, outside, stranded>> /\ 0 \in Nat
  BY <1>1, <1>6 DEF history, TypeOK
<1> QED BY <1>2, <1>5, <1>6, <1>8, <1>9, <1>10, <1>11, SettleStep

LEMMA RefundAccounted ==
  ASSUME AccountInv, NEW m \in inbox, NEW kind \in {"Swap", "AddLiquidity"}, Refund(kind, m)
  PROVE  StepAccounted
<1> DEFINE paid == [t \in Tokens |-> IF t = Token0 THEN m.in0 ELSE m.in1]
<1>1. TypeOK
  BY DEF AccountInv, LedgerInv
<1>2. /\ m.in0 \in Nat /\ m.in1 \in Nat /\ m.origin \in Accounts /\ m.kind = kind
  <2>1. m.kind = kind
    BY DEF Refund, Consume
  <2> QED BY <1>1, <2>1 DEF TypeOK, PoolMessage, SwapMessage, DepositMessage,
                            RemoveMessage, ClaimMessage, FeeMessage
<1>3. /\ inbox' = inbox \ {m} /\ claimable' = CreditPair(claimable, m.origin, m.in0, m.in1)
      /\ UNCHANGED <<reserve_0, reserve_1, claiming, outside, history>>
  BY DEF Refund, Consume, amm
<1>4. \A t \in Tokens : Value(m, t) = IF t = Token0 THEN m.in0 ELSE m.in1
  BY <1>2, TokenPair DEF Value, Funding, Tokens
<1>5. paid \in [Tokens -> Nat] /\ \A t \in Tokens : paid[t] = IF t = Token0 THEN m.in0 ELSE m.in1
  BY <1>2
<1> HIDE DEF paid
<1>6. \A t \in Tokens, b \in Accounts :
        claimable'[t][b] = claimable[t][b] + (IF b = m.origin THEN paid[t] ELSE 0)
  <2>1. claimable' = CreditPair(claimable, m.origin, m.in0, m.in1)
    BY <1>3
  <2> QED BY <1>1, <1>2, <1>5, <2>1, CreditsPaid
<1>7. reserve_0 \in Nat /\ reserve_1 \in Nat
  BY <1>1 DEF TypeOK
<1>8. \A t \in Tokens :
        Reserve(t)' = Reserve(t) + Value(m, t) - paid[t] + (IF t = Token1 THEN 0 ELSE 0)
  BY <1>2, <1>3, <1>4, <1>5, <1>7 DEF Reserve
<1>9. /\ virtual' = virtual + 0 /\ UNCHANGED <<claiming, outside, stranded>> /\ 0 \in Nat
      /\ reserve_0' \in Nat /\ reserve_1' \in Nat
  BY <1>1, <1>3, <1>7 DEF history, TypeOK
<1> QED BY <1>2, <1>3, <1>5, <1>6, <1>8, <1>9, SettleStep

LEMMA AdditionAccounted ==
  ASSUME AccountInv, NEW m \in inbox, LiquidityAdded(m)
  PROVE  StepAccounted
<1> DEFINE n0 == Pair(m)[1]
           n1 == Pair(m)[2]
           rest0 == m.in0 - n0
           rest1 == m.in1 - n1
           paid == [t \in Tokens |-> IF t = Token0 THEN rest0 ELSE rest1]
<1>1. TypeOK /\ LedgerInv
  BY DEF AccountInv, LedgerInv
<1>2. /\ m.in0 \in Nat /\ m.in1 \in Nat /\ m.min0 \in Nat /\ m.min1 \in Nat
      /\ m.origin \in Accounts /\ m.kind = "AddLiquidity"
  <2>1. m.kind = "AddLiquidity"
    BY DEF LiquidityAdded, Consume
  <2> QED BY <1>1, <2>1 DEF TypeOK, PoolMessage, SwapMessage, DepositMessage,
                            RemoveMessage, ClaimMessage, FeeMessage
<1>3. reserve_0 \in Nat /\ reserve_1 \in Nat /\ (reserve_0 = 0 <=> reserve_1 = 0)
  BY <1>1 DEF LedgerInv, TypeOK, FinalizedTogether
<1>4. n0 \in 0 .. m.in0 /\ n1 \in 0 .. m.in1
  BY <1>2, <1>3, PairBound DEF Pair
<1>5. /\ inbox' = inbox \ {m}
      /\ claimable' = CreditPair(claimable, m.origin, rest0, rest1)
      /\ reserve_0' = reserve_0 + n0 /\ reserve_1' = reserve_1 + n1
      /\ UNCHANGED <<claiming, outside, history>>
  BY DEF LiquidityAdded, Consume, Liquid
<1> HIDE DEF n0, n1
<1>6. /\ n0 \in Nat /\ n1 \in Nat /\ rest0 \in Nat /\ rest1 \in Nat
      /\ rest0 = m.in0 - n0 /\ rest1 = m.in1 - n1
  BY <1>2, <1>4
<1> HIDE DEF rest0, rest1
<1>7. \A t \in Tokens : Value(m, t) = IF t = Token0 THEN m.in0 ELSE m.in1
  BY <1>2, TokenPair DEF Value, Funding, Tokens
<1>8. /\ paid \in [Tokens -> Nat]
      /\ \A t \in Tokens : paid[t] = IF t = Token0 THEN rest0 ELSE rest1
  BY <1>6
<1> HIDE DEF paid
<1>9. \A t \in Tokens, b \in Accounts :
        claimable'[t][b] = claimable[t][b] + (IF b = m.origin THEN paid[t] ELSE 0)
  <2>1. claimable' = CreditPair(claimable, m.origin, rest0, rest1)
    BY <1>5
  <2> QED BY <1>1, <1>2, <1>6, <1>8, <2>1, CreditsPaid
<1>10. \A t \in Tokens :
         Reserve(t)' = Reserve(t) + Value(m, t) - paid[t] + (IF t = Token1 THEN 0 ELSE 0)
  BY <1>2, <1>3, <1>5, <1>6, <1>7, <1>8 DEF Reserve
<1>11. /\ virtual' = virtual + 0 /\ UNCHANGED <<claiming, outside, stranded>> /\ 0 \in Nat
       /\ reserve_0' \in Nat /\ reserve_1' \in Nat
  BY <1>1, <1>3, <1>5, <1>6 DEF history, TypeOK
<1> QED BY <1>2, <1>5, <1>8, <1>9, <1>10, <1>11, SettleStep

LEMMA InitializationAccounted ==
  ASSUME AccountInv, NEW m \in inbox, LiquidityInitialized(m)
  PROVE  StepAccounted
<1> DEFINE v == m.in1 - Funding(m, Token1)
           paid == [t \in Tokens |-> 0]
<1>1. TypeOK /\ LedgerInv
  BY DEF AccountInv, LedgerInv
<1>2. m.in0 \in Nat /\ m.in1 \in Nat /\ m.kind = "InitializeLiquidity"
  <2>1. m.kind = "InitializeLiquidity"
    BY DEF LiquidityInitialized, Consume
  <2> QED BY <1>1, <2>1 DEF TypeOK, PoolMessage, SwapMessage, DepositMessage,
                            RemoveMessage, ClaimMessage, FeeMessage
<1>3. reserve_0 = 0 /\ reserve_1 = 0
  BY <1>1 DEF LiquidityInitialized, Finalized, LedgerInv, TypeOK, FinalizedTogether
<1>4. /\ inbox' = inbox \ {m} /\ reserve_0' = m.in0 /\ reserve_1' = m.in1
      /\ virtual' = virtual + m.in1 - Funding(m, Token1)
      /\ UNCHANGED <<claims, outside, stranded>>
  BY DEF LiquidityInitialized, Consume, Liquid
<1>5. /\ Value(m, Token0) = m.in0 /\ Value(m, Token1) = Funding(m, Token1)
      /\ Funding(m, Token1) = (IF Virtual THEN 0 ELSE m.in1)
  BY <1>2, TokenPair DEF Value, Funding
<1>6. v \in Nat /\ (~Virtual => v = 0) /\ virtual \in Nat /\ virtual' = virtual + v
  BY <1>1, <1>2, <1>4, <1>5 DEF TypeOK
<1>7. paid \in [Tokens -> Nat] /\ \A t \in Tokens : paid[t] = 0
  OBVIOUS
<1>8. m.in1 = Value(m, Token1) + v
  BY <1>2, <1>5
<1>13. Value(m, Token1) \in Nat
  BY <1>2, <1>5
<1> HIDE DEF v, paid
<1>9. \A t \in Tokens, b \in Accounts :
        claimable'[t][b] = claimable[t][b] + (IF b = Creator THEN paid[t] ELSE 0)
  BY <1>1, <1>4, <1>7 DEF claims, TypeOK
<1>10. \A t \in Tokens :
         Reserve(t)' = Reserve(t) + Value(m, t) - paid[t] + (IF t = Token1 THEN v ELSE 0)
  BY <1>2, <1>3, <1>4, <1>5, <1>6, <1>7, <1>8, <1>13, TokenPair DEF Reserve, Tokens
<1>11. UNCHANGED <<claiming, outside, stranded>> /\ reserve_0' \in Nat /\ reserve_1' \in Nat
  BY <1>2, <1>4 DEF claims
<1> QED BY <1>4, <1>6, <1>7, <1>9, <1>10, <1>11, LedgerAssumption, SettleStep

LEMMA RemovalAccounted ==
  ASSUME AccountInv, NEW m \in inbox, LiquidityRemoved(m)
  PROVE  StepAccounted
<1> DEFINE supply == total_supply + FeeDue
           pay0 == Payout0(m)
           pay1 == Payout1(m)
           paid == [t \in Tokens |-> IF t = Token0 THEN pay0 ELSE pay1]
<1>1. TypeOK /\ LedgerInv
  BY DEF AccountInv, LedgerInv
<1>2. m.liquidity \in Nat /\ m.to \in Accounts /\ m.kind = "RemoveLiquidity"
  <2>1. m.kind = "RemoveLiquidity"
    BY DEF LiquidityRemoved, Consume
  <2> QED BY <1>1, <2>1 DEF TypeOK, PoolMessage, SwapMessage, DepositMessage,
                            RemoveMessage, ClaimMessage, FeeMessage
<1>3. reserve_0 \in Nat \ {0} /\ reserve_1 \in Nat \ {0} /\ total_supply \in Nat \ {0}
  BY <1>1 DEF LiquidityRemoved, RemoveAccepted, Finalized, TypeOK
<1>4. supply \in Nat \ {0} /\ m.liquidity \in 0 .. supply
  BY <1>1, <1>2, <1>3, FeeDueBound DEF LiquidityRemoved, RemoveAccepted
<1>5. pay0 \in 0 .. reserve_0 /\ pay1 \in 0 .. reserve_1
  <2> HIDE DEF supply
  <2> QED BY <1>3, <1>4, PayoutBound DEF Payout0, Payout1, supply
<1>6. /\ inbox' = inbox \ {m} /\ claimable' = CreditPair(claimable, m.to, pay0, pay1)
      /\ reserve_0' = reserve_0 - pay0 /\ reserve_1' = reserve_1 - pay1
      /\ UNCHANGED <<claiming, outside, history>>
  BY DEF LiquidityRemoved, Consume, Liquid
<1> HIDE DEF pay0, pay1
<1>7. pay0 \in Nat /\ pay1 \in Nat
  BY <1>3, <1>5
<1>8. \A t \in Tokens : Value(m, t) = 0
  BY <1>2 DEF Value
<1>9. paid \in [Tokens -> Nat] /\ \A t \in Tokens : paid[t] = IF t = Token0 THEN pay0 ELSE pay1
  BY <1>7
<1> HIDE DEF paid
<1>10. \A t \in Tokens, b \in Accounts :
         claimable'[t][b] = claimable[t][b] + (IF b = m.to THEN paid[t] ELSE 0)
  <2>1. claimable' = CreditPair(claimable, m.to, pay0, pay1)
    BY <1>6
  <2> DEFINE to == m.to
  <2>2. TypeOK /\ to \in Accounts /\ claimable' = CreditPair(claimable, to, pay0, pay1)
    BY <1>1, <1>2, <2>1
  <2>3. \A t \in Tokens : paid[t] = IF t = Token0 THEN pay0 ELSE pay1
    BY <1>9
  <2> HIDE DEF to
  <2>4. ASSUME NEW t \in Tokens, NEW b \in Accounts
        PROVE  claimable'[t][b] = claimable[t][b] + (IF b = to THEN paid[t] ELSE 0)
    <3>1. claimable \in [Tokens -> [Accounts -> Nat]]
      BY <2>2 DEF TypeOK
    <3>2. claimable'[t][b]
            = claimable[t][b] + (IF b = to THEN IF t = Token0 THEN pay0 ELSE pay1 ELSE 0)
      <4>1. to \in Accounts /\ claimable' = CreditPair(claimable, to, pay0, pay1)
        BY <2>2
      <4>2. CreditPair(claimable, to, pay0, pay1)[t][b]
              = claimable[t][b] + (IF b = to THEN IF t = Token0 THEN pay0 ELSE pay1 ELSE 0)
        BY <1>7, <3>1, <4>1, CreditPairAt
      <4> QED BY <4>1, <4>2
    <3>3. paid[t] = IF t = Token0 THEN pay0 ELSE pay1
      BY <2>3
    <3> QED BY <3>2, <3>3
  <2> QED BY <2>4 DEF to
<1>11. \A t \in Tokens :
         Reserve(t)' = Reserve(t) + Value(m, t) - paid[t] + (IF t = Token1 THEN 0 ELSE 0)
  <2> SUFFICES ASSUME NEW t \in Tokens
               PROVE  Reserve(t)' = Reserve(t) + Value(m, t) - paid[t] + 0
    OBVIOUS
  <2>1. Value(m, t) = 0 /\ paid[t] = IF t = Token0 THEN pay0 ELSE pay1
    BY <1>8, <1>9
  <2>2. CASE t = Token0
    <3>1. Reserve(t) = reserve_0 /\ Reserve(t)' = reserve_0' /\ paid[t] = pay0
      BY <2>1, <2>2 DEF Reserve
    <3> QED BY <1>3, <1>6, <1>7, <2>1, <3>1
  <2>3. CASE t # Token0
    <3>1. Reserve(t) = reserve_1 /\ Reserve(t)' = reserve_1' /\ paid[t] = pay1
      BY <2>1, <2>3 DEF Reserve
    <3> QED BY <1>3, <1>6, <1>7, <2>1, <3>1
  <2> QED BY <2>2, <2>3
<1>12. /\ virtual' = virtual + 0 /\ UNCHANGED <<claiming, outside, stranded>> /\ 0 \in Nat
       /\ reserve_0' \in Nat /\ reserve_1' \in Nat
  BY <1>1, <1>3, <1>5, <1>6 DEF history, TypeOK
<1> QED BY <1>2, <1>6, <1>9, <1>10, <1>11, <1>12, SettleStep

(* Claims and their transfers.                                             *)

(* What was paid and is not yet known is part of what is set aside.        *)
LEMMA PaidBound ==
  ASSUME TypeOK, MessageIds, NEW t \in Tokens, NEW a \in Accounts
  PROVE  PaidOut(t, a) <= UnderWay(receipts, t, a)
<1> DEFINE good == {r \in receipts : r.ok}
           f == [r \in receipts |-> Part(r, t, a)]
           h == [r \in good |-> Part(r, t, a)]
<1>1. good \in SUBSET receipts /\ IsFiniteSet(receipts) /\ Owing(receipts)
  BY OwingTypes
<1>2. f \in [receipts -> Nat] /\ h \in [good -> Int] /\ \A r \in good : h[r] = f[r]
  BY <1>1 DEF Owing, Part
<1>3. PaidOut(t, a) = SumFunction(h) /\ UnderWay(receipts, t, a) = SumFunction(f)
  BY DEF PaidOut, UnderWay, Part
<1> HIDE DEF good, f, h
<1>4. SumFunction(h) <= SumFunction(f)
  BY <1>1, <1>2, SumSubset
<1> QED BY <1>3, <1>4

(* So nobody is owed less than what is claimable or on its way out.        *)
LEMMA OwedBound ==
  ASSUME TypeOK, MessageIds, ClaimingCovered, NEW t \in Tokens, NEW a \in Accounts
  PROVE  Owed(t, a) >= claimable[t][a] + UnderWay(transfers, t, a)
  BY OwedTypes, PaidBound DEF Owed, ClaimingCovered

LEMMA ClaimNativeAccounted ==
  ASSUME AccountInv, NEW m \in inbox, ClaimNative(m)
  PROVE  StepAccounted
<1> DEFINE t == m.token
           a == m.origin
           n == m.amount
<1>1. TypeOK /\ MessageIds /\ ClaimingCovered
  BY DEF AccountInv, LedgerInv
<1>2. t \in Tokens /\ a \in Accounts /\ n \in Nat /\ m.kind = "Claim"
  <2>1. m.kind = "Claim"
    BY DEF ClaimNative, Consume
  <2> QED BY <1>1, <2>1 DEF TypeOK, PoolMessage, SwapMessage, DepositMessage,
                            RemoveMessage, ClaimMessage, FeeMessage
<1>3. /\ inbox' = inbox \ {m} /\ claimable[t][a] >= n
      /\ claimable' = Debit(claimable, t, a, n)
      /\ custody' = [custody EXCEPT ![t] = custody[t] - n] /\ wallet' = Credit(wallet, t, a, n)
      /\ UNCHANGED <<reserve_0, reserve_1, claiming, transfers, receipts, history>>
  BY DEF ClaimNative, NativeClaimable, Consume, amm
<1>4. \A u \in Tokens : Carried(inbox', u) = Carried(inbox, u)
  <2> SUFFICES ASSUME NEW u \in Tokens PROVE Carried(inbox', u) = Carried(inbox, u)
    OBVIOUS
  <2>1. Value(m, u) = 0
    BY <1>2 DEF Value
  <2>2. Carried(inbox', u) = Carried(inbox, u) - Value(m, u) /\ Carried(inbox, u) \in Nat
    BY <1>1, <1>3, CarriedRemove, CarriedType DEF TypeOK, MessageIds
  <2> QED BY <2>1, <2>2
<1> HIDE DEF t, a, n
<1>5. \A u \in Tokens, b \in Accounts :
        claimable'[u][b] = claimable[u][b] - (IF u = t /\ b = a THEN n ELSE 0)
  <2>1. claimable \in [Tokens -> [Accounts -> Nat]]
    BY <1>1 DEF TypeOK
  <2> QED BY <1>2, <1>3, <2>1 DEF Debit
<1>6. \A u \in Tokens, b \in Accounts :
        Owed(u, b)' = Owed(u, b) - (IF u = t /\ b = a THEN n ELSE 0)
  <2> SUFFICES ASSUME NEW u \in Tokens, NEW b \in Accounts
               PROVE  Owed(u, b)' = Owed(u, b) - (IF u = t /\ b = a THEN n ELSE 0)
    OBVIOUS
  <2>1. PaidOut(u, b)' = PaidOut(u, b)
    BY <1>3 DEF PaidOut
  <2>2. claimable[u][b] \in Nat /\ claiming[u][b] \in Nat /\ PaidOut(u, b) \in Nat
    BY <1>1, OwedTypes
  <2>3. Owed(u, b)' = claimable'[u][b] + claiming[u][b] - PaidOut(u, b)
    BY <1>3, <2>1 DEF Owed
  <2> QED BY <1>2, <1>5, <2>2, <2>3 DEF Owed
<1>7. Owed(t, a)' >= 0
  <2>1. Owed(t, a) >= claimable[t][a] + UnderWay(transfers, t, a)
    BY <1>1, <1>2, OwedBound
  <2> QED BY <1>1, <1>2, <1>3, <1>6, <2>1, OwedTypes
<1>8. ClaimingCovered'
  BY <1>1, <1>3 DEF ClaimingCovered
<1> QED BY <1>2, <1>3, <1>4, <1>6, <1>7, <1>8, PayStep

LEMMA ClaimFungibleAccounted ==
  ASSUME AccountInv, NEW m \in inbox, ClaimFungible(m)
  PROVE  MessageIds' /\ StepAccounted
<1> DEFINE t == m.token
           a == m.origin
           n == m.amount
           c == [id |-> m.id, owner |-> m.origin, token |-> m.token, amount |-> m.amount]
<1>1. TypeOK /\ MessageIds /\ ClaimingCovered
  BY DEF AccountInv, LedgerInv
<1>2. t \in Tokens /\ a \in Accounts /\ n \in Nat /\ m.kind = "Claim"
  <2>1. m.kind = "Claim"
    BY DEF ClaimFungible, Consume
  <2> QED BY <1>1, <2>1 DEF TypeOK, PoolMessage, SwapMessage, DepositMessage,
                            RemoveMessage, ClaimMessage, FeeMessage
<1>3. /\ inbox' = inbox \ {m} /\ claimable[t][a] >= n
      /\ claimable' = Debit(claimable, t, a, n) /\ claiming' = Credit(claiming, t, a, n)
      /\ transfers' = transfers \cup {c}
      /\ UNCHANGED <<reserve_0, reserve_1, custody, wallet, receipts, sending, history>>
  BY DEF ClaimFungible, Consume, amm
<1>4. c.id = m.id /\ c.owner = a /\ c.token = t /\ c.amount = n /\ ~IsNative(c.token)
  BY DEF ClaimFungible
<1>5. \A u \in Tokens : Carried(inbox', u) = Carried(inbox, u)
  <2> SUFFICES ASSUME NEW u \in Tokens PROVE Carried(inbox', u) = Carried(inbox, u)
    OBVIOUS
  <2>1. Value(m, u) = 0
    BY <1>2 DEF Value
  <2>2. Carried(inbox', u) = Carried(inbox, u) - Value(m, u) /\ Carried(inbox, u) \in Nat
    BY <1>1, <1>3, CarriedRemove, CarriedType DEF TypeOK, MessageIds
  <2> QED BY <2>1, <2>2
<1> HIDE DEF c
<1>6. MessageIds' /\ c \notin transfers
  BY <1>1, <1>2, <1>3, <1>4, ClaimIds DEF sending
<1> HIDE DEF t, a, n
<1>7. \A u \in Tokens, b \in Accounts :
        /\ claimable'[u][b] = claimable[u][b] - (IF u = t /\ b = a THEN n ELSE 0)
        /\ claiming'[u][b] = claiming[u][b] + (IF u = t /\ b = a THEN n ELSE 0)
  <2>1. /\ claimable \in [Tokens -> [Accounts -> Nat]]
        /\ claiming \in [Tokens -> [Accounts -> Nat]]
    BY <1>1 DEF TypeOK
  <2> QED BY <1>2, <1>3, <2>1 DEF Debit, Credit
<1>8. \A u \in Tokens, b \in Accounts : Owed(u, b)' = Owed(u, b)
  <2> SUFFICES ASSUME NEW u \in Tokens, NEW b \in Accounts PROVE Owed(u, b)' = Owed(u, b)
    OBVIOUS
  <2>1. PaidOut(u, b)' = PaidOut(u, b)
    BY <1>3 DEF PaidOut
  <2>2. claimable[u][b] \in Nat /\ claiming[u][b] \in Nat /\ PaidOut(u, b) \in Nat
    BY <1>1, OwedTypes
  <2>3. Owed(u, b)' = claimable'[u][b] + claiming'[u][b] - PaidOut(u, b)
    BY <2>1 DEF Owed
  <2> QED BY <1>2, <1>7, <2>2, <2>3 DEF Owed
<1>9. ClaimingCovered'
  <2> SUFFICES ASSUME NEW u \in Tokens, NEW b \in Accounts
               PROVE  claiming'[u][b] = UnderWay(transfers', u, b) + UnderWay(receipts', u, b)
    BY DEF ClaimingCovered
  <2>1. IsFiniteSet(transfers) /\ Owing(transfers)
    BY <1>1, OwingTypes
  <2>2. c.amount \in Nat
    BY <1>2, <1>4
  <2>3. UnderWay(transfers', u, b) = UnderWay(transfers, u, b) + Part(c, u, b)
    BY <1>3, <1>6, <2>1, <2>2, UnderWayAdd
  <2>4. Part(c, u, b) = IF u = t /\ b = a THEN n ELSE 0
    BY <1>4 DEF Part
  <2>5. claiming[u][b] = UnderWay(transfers, u, b) + UnderWay(receipts, u, b)
    BY <1>1 DEF ClaimingCovered
  <2>6. /\ UnderWay(transfers, u, b) \in Nat /\ UnderWay(receipts, u, b) \in Nat
        /\ Part(c, u, b) \in Nat /\ UnderWay(receipts', u, b) = UnderWay(receipts, u, b)
    BY <1>1, <1>2, <1>3, <2>4, OwedTypes
  <2> QED BY <1>7, <2>3, <2>4, <2>5, <2>6
<1>10. /\ \A u \in Tokens, b \in Accounts : Owed(u, b)' = Owed(u, b)
       /\ \A u \in Tokens : Carried(inbox', u) = Carried(inbox, u)
       /\ UNCHANGED <<reserve_0, reserve_1, custody, wallet, history>>
  BY <1>3, <1>5, <1>8
<1> QED BY <1>6, <1>9, <1>10, SetAsideStep

(* A transfer answered: what was under way out is now under way back.      *)
LEMMA AnswerCovered ==
  ASSUME TypeOK, MessageIds, ClaimingCovered, NEW c \in transfers, NEW ok \in BOOLEAN,
         transfers' = transfers \ {c}, receipts' = receipts \cup {Answer(c, ok)},
         UNCHANGED <<claiming, inbox, bootstrapped, requests>>
  PROVE  /\ MessageIds' /\ ClaimingCovered'
         /\ \A t \in Tokens, a \in Accounts :
              PaidOut(t, a)' = PaidOut(t, a) + (IF ok THEN Part(c, t, a) ELSE 0)
<1> DEFINE r == Answer(c, ok)
<1>1. /\ r.id = c.id /\ r.owner = c.owner /\ r.token = c.token /\ r.amount = c.amount
      /\ r.ok = ok /\ c.amount \in Nat
  BY DEF Answer, TypeOK, Transfer
<1>2. receipts' = receipts \cup {r}
  OBVIOUS
<1> HIDE DEF r
<1>3. MessageIds' /\ r \notin receipts
  BY <1>1, <1>2, AnswerIds
<1>4. ASSUME NEW t \in Tokens, NEW a \in Accounts
      PROVE  /\ UnderWay(transfers', t, a) = UnderWay(transfers, t, a) - Part(c, t, a)
             /\ UnderWay(receipts', t, a) = UnderWay(receipts, t, a) + Part(c, t, a)
             /\ Part(c, t, a) \in Nat
  <2>1. Part(r, t, a) = Part(c, t, a) /\ Part(c, t, a) \in Nat
    BY <1>1 DEF Part
  <2>2. UnderWay(transfers', t, a) = UnderWay(transfers, t, a) - Part(c, t, a)
    BY OwingTypes, UnderWayRemove
  <2>3. UnderWay(receipts', t, a) = UnderWay(receipts, t, a) + Part(r, t, a)
    <3>1. r.amount \in Nat /\ IsFiniteSet(receipts) /\ Owing(receipts)
      BY <1>1, OwingTypes
    <3> QED BY <1>2, <1>3, <3>1, UnderWayAdd
  <2> QED BY <2>1, <2>2, <2>3
<1>5. ClaimingCovered'
  <2> SUFFICES ASSUME NEW t \in Tokens, NEW a \in Accounts
               PROVE  claiming[t][a] = UnderWay(transfers', t, a) + UnderWay(receipts', t, a)
    BY DEF ClaimingCovered
  <2>1. claiming[t][a] = UnderWay(transfers, t, a) + UnderWay(receipts, t, a)
    BY DEF ClaimingCovered
  <2>2. /\ UnderWay(transfers', t, a) = UnderWay(transfers, t, a) - Part(c, t, a)
        /\ UnderWay(receipts', t, a) = UnderWay(receipts, t, a) + Part(c, t, a)
        /\ Part(c, t, a) \in Nat
    BY <1>4
  <2>3. UnderWay(transfers, t, a) \in Nat /\ UnderWay(receipts, t, a) \in Nat
    BY OwedTypes
  <2> QED BY <2>1, <2>2, <2>3
<1>6. ASSUME NEW t \in Tokens, NEW a \in Accounts
      PROVE  PaidOut(t, a)' = PaidOut(t, a) + (IF ok THEN Part(c, t, a) ELSE 0)
  <2> DEFINE good == {s \in receipts : s.ok}
  <2>0. PaidOut(t, a) \in Nat
    BY OwedTypes
  <2>1. CASE ok
    <3>1. {s \in receipts' : s.ok} = good \cup {r} /\ r \notin good
      BY <1>1, <1>2, <1>3, <2>1
    <3>2. r.amount \in Nat /\ IsFiniteSet(good) /\ Owing(good)
      BY <1>1, OwingTypes
    <3>3. PaidOut(t, a)' = UnderWay({s \in receipts' : s.ok}, t, a)
          /\ PaidOut(t, a) = UnderWay(good, t, a)
      BY DEF PaidOut
    <3> HIDE DEF good
    <3>4. UnderWay(good \cup {r}, t, a) = UnderWay(good, t, a) + Part(r, t, a)
      BY <3>1, <3>2, UnderWayAdd
    <3>5. Part(r, t, a) = Part(c, t, a)
      BY <1>1 DEF Part
    <3> QED BY <2>1, <3>1, <3>3, <3>4, <3>5
  <2>2. CASE ~ok
    <3>1. {s \in receipts' : s.ok} = good
      BY <1>1, <1>2, <2>2
    <3>2. PaidOut(t, a)' = PaidOut(t, a)
      BY <3>1 DEF PaidOut
    <3> QED BY <2>0, <2>2, <3>2
  <2> QED BY <2>1, <2>2
<1> QED BY <1>3, <1>5, <1>6

LEMMA TransferAccounted ==
  ASSUME AccountInv, NEW c \in transfers,
         TransferFromApplication(c) \/ BounceTransfer(c)
  PROVE  MessageIds' /\ StepAccounted
<1> DEFINE t == c.token
           a == c.owner
           n == c.amount
<1>1. TypeOK /\ MessageIds /\ ClaimingCovered
  BY DEF AccountInv, LedgerInv
<1>2. t \in Tokens /\ a \in Accounts /\ n \in Nat
  BY <1>1 DEF TypeOK, Transfer
<1>3. /\ transfers' = transfers \ {c}
      /\ UNCHANGED <<reserve_0, reserve_1, claimable, claiming, inbox, bootstrapped, requests,
                     history>>
  BY DEF TransferFromApplication, BounceTransfer, amm, claims, sending
<1>4. \A u \in Tokens : Carried(inbox', u) = Carried(inbox, u)
  BY <1>3
<1>5. ASSUME NEW ok \in BOOLEAN, receipts' = receipts \cup {Answer(c, ok)}
      PROVE  /\ MessageIds' /\ ClaimingCovered'
             /\ \A u \in Tokens, b \in Accounts :
                  Owed(u, b)' = Owed(u, b) - (IF ok THEN Part(c, u, b) ELSE 0)
  <2>1. /\ MessageIds' /\ ClaimingCovered'
        /\ \A u \in Tokens, b \in Accounts :
             PaidOut(u, b)' = PaidOut(u, b) + (IF ok THEN Part(c, u, b) ELSE 0)
    BY <1>1, <1>3, <1>5, AnswerCovered
  <2>2. ASSUME NEW u \in Tokens, NEW b \in Accounts
        PROVE  Owed(u, b)' = Owed(u, b) - (IF ok THEN Part(c, u, b) ELSE 0)
    <3>1. Part(c, u, b) \in Nat
      BY <1>2 DEF Part
    <3>2. claimable[u][b] \in Nat /\ claiming[u][b] \in Nat /\ PaidOut(u, b) \in Nat
      BY <1>1, OwedTypes
    <3>3. Owed(u, b)' = claimable[u][b] + claiming[u][b] - PaidOut(u, b)'
      BY <1>3 DEF Owed
    <3>4. PaidOut(u, b)' = PaidOut(u, b) + (IF ok THEN Part(c, u, b) ELSE 0)
      BY <2>1
    <3> QED BY <3>1, <3>2, <3>3, <3>4 DEF Owed
  <2> QED BY <2>1, <2>2
<1>6. CASE /\ receipts' = receipts \cup {Answer(c, TRUE)}
           /\ custody' = [custody EXCEPT ![t] = custody[t] - n]
           /\ wallet' = Credit(wallet, t, a, n)
  <2>1. /\ MessageIds' /\ ClaimingCovered'
        /\ \A u \in Tokens, b \in Accounts : Owed(u, b)' = Owed(u, b) - Part(c, u, b)
    BY <1>5, <1>6
  <2>2. \A u \in Tokens, b \in Accounts :
          Owed(u, b)' = Owed(u, b) - (IF u = t /\ b = a THEN n ELSE 0)
    BY <2>1 DEF Part
  <2>3. Owed(t, a)' >= 0
    <3>1. Owed(t, a) >= claimable[t][a] + UnderWay(transfers, t, a)
      BY <1>1, <1>2, OwedBound
    <3>2. n <= UnderWay(transfers, t, a)
      BY <1>1, OwingTypes, UnderWayBound
    <3>3. Owed(t, a)' = Owed(t, a) - n
      BY <1>2, <2>2
    <3>4. /\ claimable[t][a] \in Nat /\ UnderWay(transfers, t, a) \in Nat /\ Owed(t, a) \in Int
      BY <1>1, <1>2, OwedTypes
    <3> QED BY <1>2, <3>1, <3>2, <3>3, <3>4
  <2>4. /\ custody' = [custody EXCEPT ![t] = custody[t] - n]
        /\ wallet' = Credit(wallet, t, a, n) /\ UNCHANGED <<reserve_0, reserve_1, history>>
    BY <1>3, <1>6
  <2> HIDE DEF t, a, n
  <2>5. StepAccounted
    BY <1>2, <1>4, <2>1, <2>2, <2>3, <2>4, PayStep
  <2> QED BY <2>1, <2>5
<1>7. CASE receipts' = receipts \cup {Answer(c, FALSE)} /\ UNCHANGED <<custody, wallet>>
  <2>1. /\ MessageIds' /\ ClaimingCovered'
        /\ \A u \in Tokens, b \in Accounts : Owed(u, b)' = Owed(u, b) - 0
    BY <1>5, <1>7
  <2>2. \A u \in Tokens, b \in Accounts : Owed(u, b)' = Owed(u, b)
    BY <1>1, <2>1, OwedTypes
  <2>3. StepAccounted
    BY <1>3, <1>4, <1>7, <2>1, <2>2, SetAsideStep
  <2> QED BY <2>1, <2>3
<1> QED BY <1>6, <1>7 DEF TransferFromApplication, BounceTransfer

LEMMA ReceiptAccounted ==
  ASSUME AccountInv, NEW r \in receipts, ClaimTransferReceipt(r)
  PROVE  MessageIds' /\ StepAccounted
<1> DEFINE t == r.token
           a == r.owner
           n == r.amount
<1>1. TypeOK /\ MessageIds /\ ClaimingCovered
  BY DEF AccountInv, LedgerInv
<1>2. t \in Tokens /\ a \in Accounts /\ n \in Nat /\ r.ok \in BOOLEAN
  BY <1>1 DEF TypeOK, Receipt
<1>3. /\ receipts' = receipts \ {r} /\ claiming[t][a] >= n
      /\ claiming' = Debit(claiming, t, a, n)
      /\ claimable' = IF r.ok THEN claimable ELSE Credit(claimable, t, a, n)
      /\ UNCHANGED <<reserve_0, reserve_1, custody, wallet, transfers, inbox, bootstrapped,
                     requests, history>>
  BY DEF ClaimTransferReceipt, amm, sending
<1>4. MessageIds'
  BY <1>1, <1>3, ReceiptIds
<1>5. \A u \in Tokens, b \in Accounts : Part(r, u, b) = IF u = t /\ b = a THEN n ELSE 0
  BY DEF Part
<1> HIDE DEF t, a, n
<1>6. \A u \in Tokens, b \in Accounts :
        /\ claiming'[u][b] = claiming[u][b] - Part(r, u, b)
        /\ claimable'[u][b] = claimable[u][b] + (IF r.ok THEN 0 ELSE Part(r, u, b))
        /\ Part(r, u, b) \in Nat
  <2>1. /\ claimable \in [Tokens -> [Accounts -> Nat]]
        /\ claiming \in [Tokens -> [Accounts -> Nat]]
    BY <1>1 DEF TypeOK
  <2>2. \A u \in Tokens, b \in Accounts :
          /\ Debit(claiming, t, a, n)[u][b]
               = claiming[u][b] - (IF u = t /\ b = a THEN n ELSE 0)
          /\ Credit(claimable, t, a, n)[u][b]
               = claimable[u][b] + (IF u = t /\ b = a THEN n ELSE 0)
    BY <1>2, <2>1 DEF Debit, Credit
  <2>3. \A u \in Tokens, b \in Accounts : claimable[u][b] \in Nat
    BY <2>1
  <2> QED BY <1>2, <1>3, <1>5, <2>2, <2>3
<1>7. ASSUME NEW u \in Tokens, NEW b \in Accounts
      PROVE  /\ UnderWay(receipts', u, b) = UnderWay(receipts, u, b) - Part(r, u, b)
             /\ PaidOut(u, b)' = PaidOut(u, b) - (IF r.ok THEN Part(r, u, b) ELSE 0)
  <2> DEFINE good == {s \in receipts : s.ok}
  <2>1. UnderWay(receipts', u, b) = UnderWay(receipts, u, b) - Part(r, u, b)
    BY <1>1, <1>3, OwingTypes, UnderWayRemove
  <2>2. IsFiniteSet(good) /\ Owing(good)
    BY <1>1, OwingTypes
  <2>3. PaidOut(u, b)' = UnderWay({s \in receipts' : s.ok}, u, b)
        /\ PaidOut(u, b) = UnderWay(good, u, b) /\ PaidOut(u, b) \in Nat
    BY <1>1, OwedTypes DEF PaidOut
  <2>4. CASE r.ok
    <3>1. {s \in receipts' : s.ok} = good \ {r} /\ r \in good
      BY <1>3, <2>4
    <3> HIDE DEF good
    <3>2. UnderWay(good \ {r}, u, b) = UnderWay(good, u, b) - Part(r, u, b)
      BY <2>2, <3>1, UnderWayRemove
    <3> QED BY <2>1, <2>3, <2>4, <3>1, <3>2
  <2>5. CASE ~r.ok
    <3>1. {s \in receipts' : s.ok} = good
      BY <1>3, <2>5
    <3>2. PaidOut(u, b)' = PaidOut(u, b)
      BY <2>3, <3>1
    <3> QED BY <2>1, <2>3, <2>5, <3>2
  <2> QED BY <2>4, <2>5
<1>8. ClaimingCovered'
  <2> SUFFICES ASSUME NEW u \in Tokens, NEW b \in Accounts
               PROVE  claiming'[u][b] = UnderWay(transfers', u, b) + UnderWay(receipts', u, b)
    BY DEF ClaimingCovered
  <2>1. /\ UnderWay(receipts', u, b) = UnderWay(receipts, u, b) - Part(r, u, b)
        /\ claiming'[u][b] = claiming[u][b] - Part(r, u, b) /\ Part(r, u, b) \in Nat
        /\ UnderWay(transfers', u, b) = UnderWay(transfers, u, b)
    BY <1>3, <1>6, <1>7
  <2>2. claiming[u][b] = UnderWay(transfers, u, b) + UnderWay(receipts, u, b)
    BY <1>1 DEF ClaimingCovered
  <2> QED BY <1>1, <2>1, <2>2, OwedTypes
<1>9. \A u \in Tokens, b \in Accounts : Owed(u, b)' = Owed(u, b)
  <2> SUFFICES ASSUME NEW u \in Tokens, NEW b \in Accounts PROVE Owed(u, b)' = Owed(u, b)
    OBVIOUS
  <2>1. claimable[u][b] \in Nat /\ claiming[u][b] \in Nat /\ PaidOut(u, b) \in Nat
    BY <1>1, OwedTypes
  <2>2. Owed(u, b)' = claimable'[u][b] + claiming'[u][b] - PaidOut(u, b)'
    BY DEF Owed
  <2> QED BY <1>2, <1>6, <1>7, <2>1, <2>2 DEF Owed
<1>10. \A u \in Tokens : Carried(inbox', u) = Carried(inbox, u)
  BY <1>3
<1>11. UNCHANGED <<reserve_0, reserve_1, custody, wallet, history>>
  BY <1>3
<1>12. StepAccounted
  BY <1>8, <1>9, <1>10, <1>11, SetAsideStep
<1> QED BY <1>4, <1>12

----------------------------------------------------------------------------
(* The theorems                                                            *)

LEMMA EmptySums ==
  ASSUME Init, NEW t \in Tokens
  PROVE  /\ Arriving(t) = 0 /\ OwedTotal(t) = 0 /\ Reserve(t) = 0
         /\ \A a \in Accounts :
              Owed(t, a) = 0 /\ UnderWay(transfers, t, a) = 0 /\ UnderWay(receipts, t, a) = 0
<1>1. inbox = {} /\ transfers = {} /\ receipts = {} /\ {r \in receipts : r.ok} = {}
  BY DEF Init
<1>2. ASSUME NEW a \in Accounts PROVE UnderWay({}, t, a) = 0
  <2>1. DOMAIN [c \in {} |-> IF c.token = t /\ c.owner = a THEN c.amount ELSE 0] = {}
    OBVIOUS
  <2> QED BY <2>1, SumEmpty DEF UnderWay
<1>3. Carried({}, t) = 0
  <2>1. DOMAIN [m \in {} |-> Value(m, t)] = {}
    OBVIOUS
  <2> QED BY <2>1, SumEmpty DEF Carried
<1>4. \A a \in Accounts : Owed(t, a) = 0
  BY <1>1, <1>2 DEF Init, Owed, PaidOut
<1>5. OwedTotal(t) = 0
  <2> DEFINE f == [a \in Accounts |-> Owed(t, a)]
  <2>1. f \in [Accounts -> {0}]
    BY <1>4
  <2> HIDE DEF f
  <2>2. SumFunction(f) = 0
    BY <2>1, LedgerAssumption, SumZero
  <2> QED BY <2>2 DEF OwedTotal, f
<1> QED BY <1>1, <1>2, <1>3, <1>4, <1>5 DEF Init, Arriving, Reserve

LEMMA InitAccounted ==
  ASSUME Init
  PROVE  AccountInv /\ Promise!Init
<1>1. MessageIds
  BY LedgerAssumption, FS_EmptySet DEF Init, MessageIds, UniqueIds, Apart
<1>2. ClaimingCovered
  <2> SUFFICES ASSUME NEW t \in Tokens, NEW a \in Accounts
               PROVE  claiming[t][a] = UnderWay(transfers, t, a) + UnderWay(receipts, t, a)
    BY DEF ClaimingCovered
  <2>1. claiming[t][a] = 0
    BY DEF Init
  <2> QED BY <2>1, EmptySums
<1>3. LedgerBalanced
  <2> SUFFICES ASSUME NEW t \in Tokens
               PROVE  custody[t] + (IF t = Token1 THEN virtual ELSE 0)
                        = Reserve(t) + OwedTotal(t) + Arriving(t) + stranded[t]
    BY DEF LedgerBalanced
  <2>1. custody[t] = 0 /\ virtual = 0 /\ stranded[t] = 0
    BY DEF Init
  <2> QED BY <2>1, EmptySums
<1>4. Promise!Init
  <2>1. /\ custody = [t \in Tokens |-> 0] /\ wallet \in [Tokens -> [Accounts -> Nat]]
    BY LedgerAssumption DEF Init
  <2> QED BY <2>1, EmptySums DEF Promise!Init
<1> QED BY <1>1, <1>2, <1>3, <1>4, InitLedgerInv DEF AccountInv, Init, NothingVirtual

LEMMA SettleAccounted ==
  ASSUME AccountInv, Settle
  PROVE  MessageIds' /\ StepAccounted
<1>1. MessageIds
  BY DEF AccountInv
<1> PICK m \in inbox :
      \/ SwapSettled(m) \/ SwapRefunded(m)
      \/ LiquidityAdded(m) \/ LiquidityRefunded(m)
      \/ LiquidityInitialized(m) \/ InitializeRejected(m)
      \/ LiquidityRemoved(m) \/ RemoveRejected(m)
      \/ ClaimNative(m) \/ ClaimFungible(m) \/ ClaimRejected(m)
      \/ SetFeeTo(m) \/ SetFeeToSetter(m) \/ FeeChangeRejected(m)
  BY DEF Settle
<1>2. ASSUME inbox' = inbox \ {m}, UNCHANGED <<transfers, receipts, sending>>
      PROVE  MessageIds'
  BY <1>1, <1>2, ConsumeIds DEF sending
<1>3. CASE SwapSettled(m)
  BY <1>2, <1>3, SwapAccounted DEF SwapSettled, Consume, outside
<1>4. CASE SwapRefunded(m) \/ LiquidityRefunded(m)
  BY <1>2, <1>4, RefundAccounted DEF SwapRefunded, LiquidityRefunded, Refund, Consume, outside
<1>5. CASE LiquidityAdded(m)
  BY <1>2, <1>5, AdditionAccounted DEF LiquidityAdded, Consume, outside
<1>6. CASE LiquidityInitialized(m)
  BY <1>2, <1>6, InitializationAccounted DEF LiquidityInitialized, Consume, outside
<1>7. CASE InitializeRejected(m)
  BY <1>2, <1>7, ForfeitStep DEF InitializeRejected, Reject, Consume, outside
<1>8. CASE LiquidityRemoved(m)
  BY <1>2, <1>8, RemovalAccounted DEF LiquidityRemoved, Consume, outside
<1>9. CASE ClaimNative(m)
  BY <1>2, <1>9, ClaimNativeAccounted DEF ClaimNative, Consume
<1>10. CASE ClaimFungible(m)
  BY <1>10, ClaimFungibleAccounted
<1>11. CASE RemoveRejected(m) \/ ClaimRejected(m) \/ FeeChangeRejected(m)
            \/ SetFeeTo(m) \/ SetFeeToSetter(m)
  <2>1. /\ m.kind \in {"RemoveLiquidity", "Claim", "SetFeeTo", "SetFeeToSetter"}
        /\ inbox' = inbox \ {m}
        /\ UNCHANGED <<amm, claims, outside, sending, history>>
    BY <1>11 DEF RemoveRejected, ClaimRejected, FeeChangeRejected, SetFeeTo, SetFeeToSetter,
                 Reject, Consume, history
  <2>2. /\ m.kind \notin {"Swap", "AddLiquidity", "InitializeLiquidity"}
        /\ UNCHANGED <<reserve_0, reserve_1, claims, outside, history>>
        /\ UNCHANGED <<transfers, receipts, sending>>
    BY <2>1 DEF amm, outside
  <2> QED BY <1>2, <2>1, <2>2, NothingMoves
<1> QED BY <1>3, <1>4, <1>5, <1>6, <1>7, <1>8, <1>9, <1>10, <1>11

(* Every step keeps the invariant and is a step of Escrow.                 *)
LEMMA NextAccounted ==
  ASSUME AccountInv, [Next]_vars
  PROVE  AccountInv' /\ (~Virtual => [Promise!Next]_(Promise!evars))
<1>1. LedgerInv'
  BY NextKept DEF AccountInv, StepKept
<1>2. CASE UNCHANGED vars
  <2>1. UNCHANGED <<reserve_0, reserve_1, claimable, claiming, custody, wallet, inbox,
                    transfers, receipts, bootstrapped, requests, virtual, stranded>>
    BY <1>2 DEF vars, amm, claims, outside, sending, history
  <2>2. \A t \in Tokens : /\ Arriving(t)' = Arriving(t) /\ Reserve(t)' = Reserve(t)
                          /\ OwedTotal(t)' = OwedTotal(t)
                          /\ \A a \in Accounts : Owed(t, a)' = Owed(t, a)
    BY <2>1 DEF Arriving, Reserve, OwedTotal, Owed, PaidOut
  <2>3. UNCHANGED Promise!evars
    BY <2>1, <2>2 DEF Promise!evars
  <2>4. LedgerBalanced' /\ ClaimingCovered' /\ NothingVirtual'
    BY <2>1, <2>2 DEF AccountInv, LedgerBalanced, ClaimingCovered, NothingVirtual
  <2>5. MessageIds'
    BY <2>1 DEF AccountInv, MessageIds, IsNative
  <2> QED BY <1>1, <2>3, <2>4, <2>5 DEF AccountInv
<1>3. CASE Next
  <2>1. CASE Request \/ SendInitializeLiquidity
             \/ \E a \in Accounts, t \in Tokens, n \in Amounts : SendClaim(a, t, n)
    BY <1>1, <2>1, RequestAccounted DEF AccountInv, StepAccounted
  <2>2. CASE Settle
    BY <1>1, <2>2, SettleAccounted DEF AccountInv, StepAccounted
  <2>3. CASE Deliver
    BY <1>1, <2>3, TransferAccounted, ReceiptAccounted DEF Deliver, AccountInv, StepAccounted
  <2> QED BY <1>3, <2>1, <2>2, <2>3 DEF Next
<1> QED BY <1>2, <1>3

(* The inductive invariant of the bookkeeping: the ledger with ids of its   *)
(* own for each message, covered claims and the balance of every token.    *)
THEOREM AccountInvariant == Spec => []AccountInv
<1>1. Init => AccountInv
  BY InitAccounted
<1>2. AccountInv /\ [Next]_vars => AccountInv'
  BY NextAccounted
<1> QED BY <1>1, <1>2, PTL DEF Spec

(* Every unit the pool application owns is in the reserves, owed to an     *)
(* account, on its way in or lost with a rejected message, exactly once,   *)
(* whatever mix of requests, claims, bounced transfers and late receipts   *)
(* led here; the reserves exceed that by the virtual liquidity alone.      *)
THEOREM LedgerBalances == Spec => []LedgerBalanced
<1>1. AccountInv => LedgerBalanced
  BY DEF AccountInv
<1> QED BY <1>1, AccountInvariant, PTL

LEMMA TransferCovered ==
  ASSUME AccountInv, NEW c \in transfers
  PROVE  custody[c.token] >= c.amount
<1> DEFINE t == c.token
           a == c.owner
           f == [b \in Accounts |-> Owed(t, b)]
<1>1. TypeOK /\ MessageIds /\ ClaimingCovered /\ NothingVirtual
  BY DEF AccountInv, LedgerInv
<1>2. t \in Tokens /\ a \in Accounts /\ c.amount \in Nat /\ ~IsNative(t)
  BY <1>1 DEF TypeOK, Transfer, MessageIds
<1>3. c.amount <= UnderWay(transfers, t, a)
  BY <1>1, OwingTypes, UnderWayBound
<1> HIDE DEF t, a
<1>4. \A b \in Accounts : Owed(t, b) \in Nat /\ Owed(t, b) >= UnderWay(transfers, t, b)
  <2> SUFFICES ASSUME NEW b \in Accounts
               PROVE  Owed(t, b) \in Nat /\ Owed(t, b) >= UnderWay(transfers, t, b)
    OBVIOUS
  <2>1. Owed(t, b) >= claimable[t][b] + UnderWay(transfers, t, b)
    BY <1>1, <1>2, OwedBound
  <2>2. claimable[t][b] \in Nat /\ UnderWay(transfers, t, b) \in Nat /\ Owed(t, b) \in Int
    BY <1>1, <1>2, OwedTypes
  <2> QED BY <2>1, <2>2
<1>5. f \in [Accounts -> Nat] /\ f[a] = Owed(t, a) /\ OwedTotal(t) = SumFunction(f)
  BY <1>2, <1>4 DEF OwedTotal
<1> HIDE DEF f
<1>6. f[a] <= SumFunction(f)
  BY <1>2, <1>5, LedgerAssumption, SumBound
<1>7. (IF t = Token1 THEN virtual ELSE 0) = 0
  BY <1>1, <1>2, LedgerAssumption DEF NothingVirtual, IsNative
<1>8. /\ custody[t] \in Nat /\ Reserve(t) \in Nat /\ OwedTotal(t) \in Int /\ Arriving(t) \in Nat
      /\ stranded[t] \in Nat
      /\ custody[t] + 0 = Reserve(t) + OwedTotal(t) + Arriving(t) + stranded[t]
  BY <1>2, <1>7, BalanceTerms
<1>9. OwedTotal(t) >= c.amount
  <2>1. UnderWay(transfers, t, a) \in Nat /\ Owed(t, a) \in Nat
        /\ Owed(t, a) >= UnderWay(transfers, t, a)
    BY <1>1, <1>2, <1>4, OwedTypes
  <2> QED BY <1>2, <1>3, <1>5, <1>6, <1>8, <2>1
<1>10. custody[t] >= c.amount
  BY <1>2, <1>8, <1>9
<1> QED BY <1>10 DEF t

(* What is set aside as claiming is exactly what is under way to the       *)
(* token's chain or back, so a receipt always finds the balance that       *)
(* claim_success and claim_fail assert; and a transfer always finds the    *)
(* tokens it needs on the token's chain.                                   *)
THEOREM ClaimsMatched == Spec => []ClaimingMatchesFlight
<1>1. AccountInv => ClaimingMatchesFlight
  BY TransferCovered DEF AccountInv, ClaimingCovered, ClaimingMatchesFlight
<1> QED BY <1>1, AccountInvariant, PTL

(* A pool whose initial liquidity is not virtual implements the escrow:    *)
(* every handler, message, transfer and receipt is one of its steps.       *)
THEOREM PoolIsEscrow ==
  ASSUME ~Virtual
  PROVE  Spec => EscrowSpec
<1>1. Init => Promise!Init
  BY InitAccounted
<1>2. AccountInv /\ [Next]_vars => [Promise!Next]_(Promise!evars)
  BY NextAccounted
<1> QED BY <1>1, <1>2, AccountInvariant, PTL DEF Spec, EscrowSpec, Promise!Spec
=============================================================================
