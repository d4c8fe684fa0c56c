------------------------------ MODULE MemeToken ------------------------------
(***************************************************************************)
(* The books of a meme token, on its own chain: balances, allowances, the  *)
(* holder of what is not given out (the application itself) and the owner, *)
(* and what instantiation makes of the parameters.  An account is an owner *)
(* on a chain; an account without a balance has nothing, and an allowance  *)
(* is there once it was approved.  The operators are the functions of         *)
(* MemeState; Can... is what they assert or ensure.                        *)
(***************************************************************************)
EXTENDS Integers

CONSTANTS
  Accounts,    \* the accounts that occur in the books
  Holder,      \* the application's account on its chain
  Swap,        \* the router's account on its creator chain
  OwnerGrant,  \* initial_owner_balance
  Unset        \* mining_supply or initial liquidity that is None

\* transfer; transfer_ensure is the same with an error instead of a panic.
CanTransfer(b, from, to, x) == x > 0 /\ from # to /\ b.balance[from] >= x
Transferred(b, from, to, x) == [b EXCEPT !.balance[from] = @ - x, !.balance[to] = @ + x]

Allowance(b, owner, spender) ==
  IF <<owner, spender>> \in DOMAIN b.allowance THEN b.allowance[<<owner, spender>>] ELSE 0

\* approve takes the amount out of the balance at once.
CanApprove(b, owner, spender, x) ==
  /\ owner # spender
  /\ ~(owner = Holder /\ spender = b.owner)
  /\ b.balance[owner] >= x
Allowed(b, owner, spender, x) ==
  [at \in DOMAIN b.allowance \cup {<<owner, spender>>} |->
     IF at = <<owner, spender>> THEN Allowance(b, owner, spender) + x ELSE b.allowance[at]]

\* Mutant: the balance left as it is, as approving does elsewhere.
ApprovedInPlace(b, owner, spender, x) ==
  [b EXCEPT !.allowance = Allowed(b, owner, spender, x)]

Approved(b, owner, spender, x) ==
  [b EXCEPT !.balance[owner] = @ - x, !.allowance = Allowed(b, owner, spender, x)]

\* transfer_from pays out of the allowance.
CanTransferFrom(b, spender, from, x) ==
  <<from, spender>> \in DOMAIN b.allowance /\ b.allowance[<<from, spender>>] >= x
TransferredFrom(b, spender, from, to, x) ==
  [b EXCEPT !.balance[to] = @ + x, !.allowance[<<from, spender>>] = @ - x]

\* mint gives out of the holder's balance.
CanMint(b, to, x) == CanTransfer(b, Holder, to, x)
Minted(b, to, x) == Transferred(b, Holder, to, x)

(* Instantiation with plan, a record of initial_supply (supply),           *)
(* enable_mining, mining_supply, virtual_initial_liquidity and             *)
(* initial_liquidity: fungible and native, or Unset as a whole.            *)
Empty == [a \in Accounts |-> 0]
Supplied(plan, creator) ==
  [balance |-> [Empty EXCEPT ![Holder] = plan.supply],
   allowance |-> << >>,
   owner |-> creator]

Held(plan) == plan.supply - OwnerGrant
\* What mining is to keep, and what remains for the pool: initialize_liquidity.
MiningShare(plan) ==
  IF ~plan.mining THEN 0 ELSE IF plan.miningSupply = Unset THEN Held(plan) ELSE plan.miningSupply
PooledAmount(plan) ==
  IF plan.mining /\ plan.liquidity.fungible > Held(plan) - MiningShare(plan)
  THEN Held(plan) - MiningShare(plan) ELSE plan.liquidity.fungible

\* The assertions of instantiate, mint and initialize_liquidity.
Instantiable(plan) ==
  /\ plan.supply > 0 /\ plan.supply >= OwnerGrant
  /\ plan.liquidity # Unset =>
       /\ Held(plan) >= plan.liquidity.fungible
       /\ Held(plan) >= MiningShare(plan)

\* The liquidity that the state records, if any.
Recorded(plan) ==
  IF plan.liquidity = Unset \/ PooledAmount(plan) <= 0 THEN Unset
  ELSE [fungible |-> PooledAmount(plan), native |-> plan.liquidity.native]

\* The books after instantiation: the creator has his grant, the router its
\* allowance.
Instantiated(plan, creator) ==
  LET granted == Minted(Supplied(plan, creator), creator, OwnerGrant) IN
  IF Recorded(plan) = Unset THEN granted
  ELSE Approved(granted, Holder, Swap, Recorded(plan).fungible)
=============================================================================
