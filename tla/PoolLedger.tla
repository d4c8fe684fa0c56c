----------------------------- MODULE PoolLedger -----------------------------
(***************************************************************************)
(* The pool application on its creator chain: reserves, LP shares and the  *)
(* claim ledger (pool/src/state/state_impl.rs), the message handlers that  *)
(* settle users' requests (pool/src/contract_inner/handlers/message), the  *)
(* operations that send those messages, and the transfer a claim of a meme *)
(* token makes on the token's own chain with the receipt that comes back.  *)
(*                                                                         *)
(* A handler runs in one block, so it is one step; a handler that panics   *)
(* leaves the state alone and its message is gone, which the Reject        *)
(* actions say.  Messages sent by different chains arrive in any order.    *)
(* A message to the pool that carries value is sent after the value has    *)
(* entered the pool's own account; the funding hops before that are the    *)
(* subject of another module.                                              *)
(***************************************************************************)
EXTENDS AmmMath, FiniteSets

CONSTANTS
  Accounts,       \* the accounts of users: a chain and an owner
  Creator,        \* the account that created the pool
  NativePair,     \* token_1 is None: the native token
  MemeBootstrap,  \* bootstrap_policy is MemeInitializeLiquidity
  Virtual,        \* ... with virtual_initial_liquidity
  Initial0,       \* the amounts of that initialisation
  Initial1,
  Wealth,         \* what each account owns of each token at the start
  Recipients,     \* the accounts that requests name as recipient
  Amounts,        \* the amounts that requests carry
  Mins,           \* the minimum outputs that requests carry, 0 for None
  Operations,     \* the operations users issue in this instance
  MaxRequests,    \* bound on the number of requests
  MaxPending      \* bound on the messages waiting in the inbox when one is sent

Token0 == "token_0"
Token1 == "token_1"
Tokens == {Token0, Token1}

ASSUME LedgerAssumption ==
  /\ IsFiniteSet(Accounts)
  /\ Creator \in Accounts /\ Recipients \subseteq Accounts
  /\ NativePair \in BOOLEAN /\ MemeBootstrap \in BOOLEAN /\ Virtual \in BOOLEAN
  /\ Virtual => MemeBootstrap
  /\ MemeBootstrap => NativePair
  /\ Initial0 \in Nat \ {0} /\ Initial1 \in Nat \ {0}
  /\ Wealth \in Nat /\ MaxRequests \in Nat /\ MaxPending \in Nat
  /\ Amounts \subseteq Nat \ {0} /\ Mins \subseteq Nat

VARIABLES
  reserve_0, reserve_1, k_last,   \* the Pool value
  fee_to, fee_to_setter,
  total_supply, shares,           \* LP shares
  claimable, claiming,            \* claimable_balances, claiming_balances
  transaction_id,                 \* messages NewTransaction 1000 .. transaction_id - 1 are sent
  custody,                        \* what the pool application owns of each token
  wallet,                         \* what the users own of each token
  inbox,                          \* messages to the pool on its creator chain
  transfers,                      \* claim transfers on their way to the token's chain
  receipts,                       \* receipts of those on their way back
  bootstrapped,                   \* the initialisation has been sent
  requests,                       \* number of requests so far; a message's identity
  virtual,                        \* history: initial liquidity that was never paid in
  stranded                        \* history: value whose message was rejected

amm == <<reserve_0, reserve_1, k_last>>
fees == <<fee_to, fee_to_setter>>
equity == <<total_supply, shares>>
claims == <<claimable, claiming>>
outside == <<custody, wallet, transfers, receipts>>
sending == <<bootstrapped, requests>>
history == <<virtual, stranded>>
vars == <<amm, fees, equity, claims, transaction_id, outside, inbox, sending, history>>

----------------------------------------------------------------------------
(* Messages                                                                *)

\* PoolMessage::Swap: one of in0 and in1 is 0 for None.  An absent recipient
\* is the origin, an absent minimum 0.
SwapMessage ==
  [id : Nat, kind : {"Swap"}, origin : Accounts, in0 : Nat, in1 : Nat,
   min0 : Nat, min1 : Nat, to : Accounts]
DepositMessage ==
  [id : Nat, kind : {"AddLiquidity", "InitializeLiquidity"}, origin : Accounts,
   in0 : Nat \ {0}, in1 : Nat \ {0}, min0 : Nat, min1 : Nat, to : Accounts]
RemoveMessage ==
  [id : Nat, kind : {"RemoveLiquidity"}, origin : Accounts, liquidity : Nat \ {0},
   min0 : Nat, min1 : Nat, to : Accounts]
ClaimMessage ==
  [id : Nat, kind : {"Claim"}, origin : Accounts, token : Tokens, amount : Nat \ {0}]
FeeMessage ==
  [id : Nat, kind : {"SetFeeTo", "SetFeeToSetter"}, operator : Accounts, account : Accounts]
PoolMessage ==
  SwapMessage \cup DepositMessage \cup RemoveMessage \cup ClaimMessage \cup FeeMessage

\* MemeMessage::TransferFromApplicationWithReceipt with purpose PoolClaim.
Transfer == [id : Nat, owner : Accounts, token : Tokens, amount : Nat \ {0}]
\* PoolMessage::ClaimTransferReceipt.
Receipt == [id : Nat, owner : Accounts, token : Tokens, amount : Nat \ {0}, ok : BOOLEAN]

TypeOK ==
  /\ reserve_0 \in Nat /\ reserve_1 \in Nat /\ k_last \in Nat
  /\ fee_to \in Accounts /\ fee_to_setter \in Accounts
  /\ total_supply \in Nat /\ shares \in [Accounts -> Nat]
  /\ claimable \in [Tokens -> [Accounts -> Nat]]
  /\ claiming \in [Tokens -> [Accounts -> Nat]]
  /\ transaction_id \in Nat
  /\ custody \in [Tokens -> Nat]
  /\ wallet \in [Tokens -> [Accounts -> Nat]]
  /\ inbox \subseteq PoolMessage
  /\ transfers \subseteq Transfer /\ receipts \subseteq Receipt
  /\ bootstrapped \in BOOLEAN /\ requests \in Nat
  /\ virtual \in Nat /\ stranded \in [Tokens -> Nat]

\* PoolState::instantiate with Pool::create.
Init ==
  /\ reserve_0 = 0 /\ reserve_1 = 0 /\ k_last = 0
  /\ fee_to = Creator /\ fee_to_setter = Creator
  /\ total_supply = 0 /\ shares = [a \in Accounts |-> 0]
  /\ claimable = [t \in Tokens |-> [a \in Accounts |-> 0]]
  /\ claiming = [t \in Tokens |-> [a \in Accounts |-> 0]]
  /\ transaction_id = 1000
  /\ custody = [t \in Tokens |-> 0]
  /\ wallet = [t \in Tokens |-> [a \in Accounts |-> Wealth]]
  /\ inbox = {} /\ transfers = {} /\ receipts = {}
  /\ bootstrapped = FALSE /\ requests = 0
  /\ virtual = 0 /\ stranded = [t \in Tokens |-> 0]

----------------------------------------------------------------------------
(* The claim ledger and the shares                                         *)

\* has_finalized_reserve_share_facts
Finalized == reserve_0 > 0 /\ reserve_1 > 0 /\ total_supply > 0

\* Mutants: the balance overwritten; the second credit forgotten; the new
\* balance not stored.
CreditOverwrites(balances, t, a, n) ==
  IF n = 0 THEN balances ELSE [balances EXCEPT ![t][a] = n]
CreditPairFirstOnly(balances, a, n0, n1) == [balances EXCEPT ![Token0][a] = @ + n0]
DebitNotStored(balances, t, a, n) == balances

\* credit, which the handlers skip for a zero amount.
Credit(balances, t, a, n) == [balances EXCEPT ![t][a] = @ + n]
CreditPair(balances, a, n0, n1) ==
  Credit(Credit(balances, Token0, a, n0), Token1, a, n1)
\* debit, and claim_success on the claiming balances; the caller's guard is
\* the assertion that the balance covers n.
Debit(balances, t, a, n) == [balances EXCEPT ![t][a] = @ - n]

\* Mutant: the share overwritten.
MintOverwrites(book, a, n) == IF n = 0 THEN book ELSE [book EXCEPT ![a] = n]

\* mint and burn of the share map; total_supply moves with it.
Mint(book, a, n) == [book EXCEPT ![a] = @ + n]
Burn(book, a, n) == [book EXCEPT ![a] = @ - n]

\* The fee share due when liquidity next changes.
FeeDue == FeeShare(total_supply, reserve_0, reserve_1, k_last)

\* Mutant: update_k_last before liquid.
LiquidAfterKLast(r0, r1) ==
  /\ reserve_0' = r0
  /\ reserve_1' = r1
  /\ k_last' = ISqrt(reserve_0 * reserve_1)

\* liquid followed by update_k_last.
Liquid(r0, r1) ==
  /\ reserve_0' = r0
  /\ reserve_1' = r1
  /\ k_last' = ISqrt(r0 * r1)

\* The value that entered the pool's account with a message.  A virtual
\* initial amount of the native token is only a number.
Funding(m, t) ==
  CASE t = Token0 -> m.in0
    [] t = Token1 -> IF m.kind = "InitializeLiquidity" /\ Virtual THEN 0 ELSE m.in1

----------------------------------------------------------------------------
(* Requests: operations on a user's chain, each up to the message that     *)
(* reaches the pool's creator chain                                        *)

Issue(operation, m) ==
  /\ operation \in Operations
  /\ requests < MaxRequests /\ Cardinality(inbox) < MaxPending
  /\ requests' = requests + 1
  /\ inbox' = inbox \cup {m}

\* The funds of the request enter the pool's account.
Deposit(a, n0, n1) ==
  /\ wallet[Token0][a] >= n0 /\ wallet[Token1][a] >= n1
  /\ wallet' = Debit(Debit(wallet, Token0, a, n0), Token1, a, n1)
  /\ custody' = [custody EXCEPT ![Token0] = @ + n0, ![Token1] = @ + n1]

\* Swap: exactly one input; the minimum is on the other side.
SendSwap(a, t, n, least, to) ==
  LET n0 == IF t = Token0 THEN n ELSE 0
      n1 == IF t = Token1 THEN n ELSE 0
  IN  /\ Issue("Swap",
           [id |-> requests, kind |-> "Swap", origin |-> a, in0 |-> n0, in1 |-> n1,
            min0 |-> IF t = Token1 THEN least ELSE 0,
            min1 |-> IF t = Token0 THEN least ELSE 0, to |-> to])
      /\ Deposit(a, n0, n1)
      /\ UNCHANGED <<amm, fees, equity, claims, transaction_id, transfers, receipts,
                     bootstrapped, history>>

SendAddLiquidity(a, n0, n1, least0, least1, to) ==
  /\ Issue("AddLiquidity",
       [id |-> requests, kind |-> "AddLiquidity", origin |-> a, in0 |-> n0, in1 |-> n1,
        min0 |-> least0, min1 |-> least1, to |-> to])
  /\ Deposit(a, n0, n1)
  /\ UNCHANGED <<amm, fees, equity, claims, transaction_id, transfers, receipts,
                 bootstrapped, history>>

SendRemoveLiquidity(a, n, least0, least1, to) ==
  /\ Issue("RemoveLiquidity",
       [id |-> requests, kind |-> "RemoveLiquidity", origin |-> a, liquidity |-> n,
        min0 |-> least0, min1 |-> least1, to |-> to])
  /\ UNCHANGED <<amm, fees, equity, claims, transaction_id, outside, bootstrapped, history>>

SendClaim(a, t, n) ==
  /\ Issue("Claim",
       [id |-> requests, kind |-> "Claim", origin |-> a, token |-> t, amount |-> n])
  /\ UNCHANGED <<amm, fees, equity, claims, transaction_id, outside, bootstrapped, history>>

\* SetFeeTo and SetFeeToSetter: whoever issues the operation is the operator.
SendFeeChange(kind, a, account) ==
  /\ Issue(kind, [id |-> requests, kind |-> kind, operator |-> a, account |-> account])
  /\ UNCHANGED <<amm, fees, equity, claims, transaction_id, outside, bootstrapped, history>>

\* InitializeLiquidity, called by the meme application once its creation has
\* paid the pool.  It spends no request.
SendInitializeLiquidity ==
  LET m == [id |-> MaxRequests, kind |-> "InitializeLiquidity", origin |-> Creator,
            in0 |-> Initial0, in1 |-> Initial1, min0 |-> 0, min1 |-> 0, to |-> Creator]
  IN  /\ MemeBootstrap /\ ~bootstrapped
      /\ bootstrapped' = TRUE
      /\ inbox' = inbox \cup {m}
      /\ custody' = [t \in Tokens |-> custody[t] + Funding(m, t)]
      /\ UNCHANGED <<amm, fees, equity, claims, transaction_id, wallet, transfers,
                     receipts, requests, history>>

----------------------------------------------------------------------------
(* Settlement: the message handlers on the creator chain                   *)

Consume(kind, m) ==
  /\ m \in inbox /\ m.kind = kind
  /\ inbox' = inbox \ {m}

\* A handler that panics: nothing changes, and what the message carried
\* belongs to nobody.
Reject(kind, m) ==
  /\ Consume(kind, m)
  /\ UNCHANGED <<amm, fees, equity, claims, transaction_id, outside, sending, virtual>>

\* A request refused with its inputs credited back to its origin.
Refund(kind, m) ==
  /\ Consume(kind, m)
  /\ claimable' = CreditPair(claimable, m.origin, m.in0, m.in1)
  /\ UNCHANGED <<amm, fees, equity, claiming, transaction_id, outside, sending, history>>

Out0(m) == IF m.in1 > 0 THEN AmountOut(reserve_1, reserve_0, m.in1) ELSE 0
Out1(m) == IF m.in0 > 0 THEN AmountOut(reserve_0, reserve_1, m.in0) ELSE 0

\* The checks of do_swap.  The pool's native balance is compared with the
\* output alone.
SwapAccepted(m) ==
  /\ Finalized
  /\ Out0(m) >= m.min0 /\ Out1(m) >= m.min1
  /\ m.in0 > 0 => Out1(m) > 0
  /\ m.in1 > 0 => Out0(m) > 0
  /\ KeepsProduct(reserve_0, reserve_1, m.in0, m.in1, Out0(m), Out1(m))
  /\ NativePair => custody[Token1] >= Out1(m)

SwapSettled(m) ==
  /\ Consume("Swap", m)
  /\ SwapAccepted(m)
  /\ reserve_0' = reserve_0 - Out0(m) + m.in0
  /\ reserve_1' = reserve_1 - Out1(m) + m.in1
  /\ claimable' = CreditPair(claimable, m.to, Out0(m), Out1(m))
  /\ transaction_id' = transaction_id + 1
  /\ UNCHANGED <<k_last, fees, equity, claiming, outside, sending, history>>

SwapRefunded(m) == Refund("Swap", m) /\ ~SwapAccepted(m)

\* calculate_amount_pair; the handler does not ask whether the pool is
\* initialised.
Pair(m) == OptimalPair(reserve_0, reserve_1, m.in0, m.in1, m.min0, m.min1)
LiquidityAccepted(m) == Pair(m)[1] > 0 /\ Pair(m)[2] > 0

\* mint_shares: the fee receiver's share first, then the provider's.
SharesMinted(m, n0, n1) ==
  LET supply == total_supply + FeeDue
      minted == SharesFor(supply, reserve_0, reserve_1, n0, n1)
  IN  /\ total_supply' = supply + minted
      /\ shares' = Mint(Mint(shares, fee_to, FeeDue), m.to, minted)

LiquidityAdded(m) ==
  /\ Consume("AddLiquidity", m)
  /\ LiquidityAccepted(m)
  /\ SharesMinted(m, Pair(m)[1], Pair(m)[2])
  /\ Liquid(reserve_0 + Pair(m)[1], reserve_1 + Pair(m)[2])
  /\ claimable' = CreditPair(claimable, m.origin, m.in0 - Pair(m)[1], m.in1 - Pair(m)[2])
  /\ transaction_id' = transaction_id + 1
  /\ UNCHANGED <<fees, claiming, outside, sending, history>>

LiquidityRefunded(m) == Refund("AddLiquidity", m) /\ ~LiquidityAccepted(m)

\* initialize_liquidity sets the reserves to the amounts.
LiquidityInitialized(m) ==
  /\ Consume("InitializeLiquidity", m)
  /\ ~Finalized
  /\ SharesMinted(m, m.in0, m.in1)
  /\ Liquid(m.in0, m.in1)
  /\ virtual' = virtual + m.in1 - Funding(m, Token1)
  /\ transaction_id' = transaction_id + 1
  /\ UNCHANGED <<fees, claims, outside, sending, stranded>>

InitializeRejected(m) ==
  /\ Finalized
  /\ Reject("InitializeLiquidity", m)
  /\ stranded' = [t \in Tokens |-> stranded[t] + Funding(m, t)]

\* Mutant: the payout computed before the fee share is minted.
PayoutBeforeFee(m) == PayoutFor(m.liquidity, total_supply, reserve_0)

Payout0(m) == PayoutFor(m.liquidity, total_supply + FeeDue, reserve_0)
Payout1(m) == PayoutFor(m.liquidity, total_supply + FeeDue, reserve_1)

RemoveAccepted(m) ==
  /\ Finalized
  /\ Payout0(m) > 0 /\ Payout1(m) > 0
  /\ Payout0(m) >= m.min0 /\ Payout1(m) >= m.min1
  /\ m.liquidity <= total_supply + FeeDue
  /\ m.liquidity <= Mint(shares, fee_to, FeeDue)[m.origin]

LiquidityRemoved(m) ==
  /\ Consume("RemoveLiquidity", m)
  /\ RemoveAccepted(m)
  /\ total_supply' = total_supply + FeeDue - m.liquidity
  /\ shares' = Burn(Mint(shares, fee_to, FeeDue), m.origin, m.liquidity)
  /\ Liquid(reserve_0 - Payout0(m), reserve_1 - Payout1(m))
  /\ claimable' = CreditPair(claimable, m.to, Payout0(m), Payout1(m))
  /\ transaction_id' = transaction_id + 1
  /\ UNCHANGED <<fees, claiming, outside, sending, history>>

RemoveRejected(m) ==
  Reject("RemoveLiquidity", m) /\ ~RemoveAccepted(m) /\ UNCHANGED stranded

----------------------------------------------------------------------------
(* Claims                                                                  *)

IsNative(t) == NativePair /\ t = Token1

\* Mutant: the claimable balance not asserted.
NativeUnasserted(m) == custody[m.token] >= m.amount

\* A native claim is paid in the handler's own block.
NativeClaimable(m) ==
  /\ claimable[m.token][m.origin] >= m.amount
  /\ custody[m.token] >= m.amount

ClaimNative(m) ==
  /\ Consume("Claim", m)
  /\ IsNative(m.token)
  /\ NativeClaimable(m)
  /\ claimable' = Debit(claimable, m.token, m.origin, m.amount)
  /\ custody' = [custody EXCEPT ![m.token] = @ - m.amount]
  /\ wallet' = Credit(wallet, m.token, m.origin, m.amount)
  /\ UNCHANGED <<amm, fees, equity, claiming, transaction_id, transfers, receipts,
                 sending, history>>

\* A claim of a meme token moves the amount aside until the receipt.
ClaimFungible(m) ==
  /\ Consume("Claim", m)
  /\ ~IsNative(m.token)
  /\ claimable[m.token][m.origin] >= m.amount
  /\ claimable' = Debit(claimable, m.token, m.origin, m.amount)
  /\ claiming' = Credit(claiming, m.token, m.origin, m.amount)
  /\ transfers' = transfers \cup
       {[id |-> m.id, owner |-> m.origin, token |-> m.token, amount |-> m.amount]}
  /\ UNCHANGED <<amm, fees, equity, transaction_id, custody, wallet, receipts, sending,
                 history>>

ClaimRejected(m) ==
  /\ Reject("Claim", m)
  /\ IF IsNative(m.token) THEN ~NativeClaimable(m)
     ELSE claimable[m.token][m.origin] < m.amount
  /\ UNCHANGED stranded

Answer(c, ok) ==
  [id |-> c.id, owner |-> c.owner, token |-> c.token, amount |-> c.amount, ok |-> ok]

\* The meme application on the token's chain: the transfer and its receipt.
TransferFromApplication(c) ==
  /\ c \in transfers
  /\ transfers' = transfers \ {c}
  /\ IF custody[c.token] >= c.amount
     THEN /\ custody' = [custody EXCEPT ![c.token] = @ - c.amount]
          /\ wallet' = Credit(wallet, c.token, c.owner, c.amount)
          /\ receipts' = receipts \cup {Answer(c, TRUE)}
     ELSE /\ receipts' = receipts \cup {Answer(c, FALSE)}
          /\ UNCHANGED <<custody, wallet>>
  /\ UNCHANGED <<amm, fees, equity, claims, transaction_id, inbox, sending, history>>

\* The tracked message is rejected there and bounces to its sender.
BounceTransfer(c) ==
  /\ c \in transfers
  /\ transfers' = transfers \ {c}
  /\ receipts' = receipts \cup {Answer(c, FALSE)}
  /\ UNCHANGED <<amm, fees, equity, claims, transaction_id, custody, wallet, inbox,
                 sending, history>>

\* claim_success, or claim_fail; both assert the claiming balance.
ClaimTransferReceipt(r) ==
  /\ r \in receipts
  /\ claiming[r.token][r.owner] >= r.amount
  /\ receipts' = receipts \ {r}
  /\ claiming' = Debit(claiming, r.token, r.owner, r.amount)
  /\ claimable' = IF r.ok THEN claimable
                  ELSE Credit(claimable, r.token, r.owner, r.amount)
  /\ UNCHANGED <<amm, fees, equity, transaction_id, custody, wallet, transfers, inbox,
                 sending, history>>

----------------------------------------------------------------------------
(* The fee receiver                                                        *)

SetFeeTo(m) ==
  /\ Consume("SetFeeTo", m)
  /\ fee_to_setter = m.operator
  /\ fee_to' = m.account
  /\ UNCHANGED <<amm, fee_to_setter, equity, claims, transaction_id, outside, sending,
                 history>>

SetFeeToSetter(m) ==
  /\ Consume("SetFeeToSetter", m)
  /\ fee_to_setter = m.operator
  /\ fee_to_setter' = m.account
  /\ UNCHANGED <<amm, fee_to, equity, claims, transaction_id, outside, sending, history>>

FeeChangeRejected(m) ==
  /\ Reject("SetFeeTo", m) \/ Reject("SetFeeToSetter", m)
  /\ fee_to_setter # m.operator
  /\ UNCHANGED stranded

----------------------------------------------------------------------------
Request ==
  \E a \in Accounts, b \in Recipients :
    \/ \E t \in Tokens, n \in Amounts, least \in Mins : SendSwap(a, t, n, least, b)
    \/ \E n0, n1 \in Amounts, least0, least1 \in Mins :
         SendAddLiquidity(a, n0, n1, least0, least1, b)
    \/ \E n \in Amounts, least0, least1 \in Mins :
         SendRemoveLiquidity(a, n, least0, least1, b)
    \/ \E kind \in {"SetFeeTo", "SetFeeToSetter"} : SendFeeChange(kind, a, b)

Settle ==
  \E m \in inbox :
    \/ SwapSettled(m) \/ SwapRefunded(m)
    \/ LiquidityAdded(m) \/ LiquidityRefunded(m)
    \/ LiquidityInitialized(m) \/ InitializeRejected(m)
    \/ LiquidityRemoved(m) \/ RemoveRejected(m)
    \/ ClaimNative(m) \/ ClaimFungible(m) \/ ClaimRejected(m)
    \/ SetFeeTo(m) \/ SetFeeToSetter(m) \/ FeeChangeRejected(m)

Deliver ==
  \/ \E c \in transfers : TransferFromApplication(c) \/ BounceTransfer(c)
  \/ \E r \in receipts : ClaimTransferReceipt(r)

Next ==
  \/ Request
  \/ \E a \in Accounts, t \in Tokens, n \in Amounts : SendClaim(a, t, n)
  \/ SendInitializeLiquidity
  \/ Settle
  \/ Deliver

Spec == Init /\ [][Next]_vars

----------------------------------------------------------------------------
(* Properties                                                              *)

\* Reserves and shares are finalised and emptied together, whatever mix of
\* deposits, swaps, fee mints and withdrawals led here.  has_finalized_
\* reserve_share_facts tests the three values separately, and
\* initialize_liquidity overwrites the reserves on the strength of it.
FinalizedTogether ==
  /\ total_supply = 0 <=> reserve_0 = 0
  /\ total_supply = 0 <=> reserve_1 = 0

\* k_last never runs ahead of the reserves, so mint_fee never pays a fee for
\* growth that did not happen.
KLastBound == k_last * k_last <= reserve_0 * reserve_1

\* Whatever happens to the pool, a share stays worth at least what it was
\* worth right after the last change of liquidity, measured by the root of
\* the product of the reserves per share: the fee that mint_fee takes, the
\* rounding of minted shares and of payouts all stay below the swap fees
\* that accrued since (squared, to stay in the integers).
ShareValueStep ==
  k_last * k_last * total_supply' * total_supply'
    <= reserve_0' * reserve_1' * total_supply * total_supply
ShareValueKept == [][ShareValueStep]_vars

\* The documents' rule that the first liquidity of a meme's pool comes from
\* InitializeLiquidity and ordinary AddLiquidity only follows it.  Not a
\* property of the code: nothing keeps a user from adding liquidity between
\* the creation of the pool and its initialisation.
InitializedByBootstrap ==
  [][MemeBootstrap /\ ~Finalized /\ Finalized'
       => \E m \in inbox \ inbox' : m.kind = "InitializeLiquidity"]_vars
============================================================================
