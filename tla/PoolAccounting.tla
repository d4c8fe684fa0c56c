--------------------------- MODULE PoolAccounting ---------------------------
(***************************************************************************)
(* The bookkeeping identities of PoolLedger, which need sums over accounts *)
(* and messages, and PoolLedger as an implementation of Escrow.            *)
(***************************************************************************)
EXTENDS PoolLedger, Functions

Reserve(t) == IF t = Token0 THEN reserve_0 ELSE reserve_1

\* What a message carries of a token, and the messages of a box together.
Value(m, t) ==
  IF m.kind \in {"Swap", "AddLiquidity", "InitializeLiquidity"} THEN Funding(m, t) ELSE 0
Carried(box, t) == SumFunction([m \in box |-> Value(m, t)])
Arriving(t) == Carried(inbox, t)

\* The amounts of account a in claim transfers or receipts under way.
UnderWay(messages, t, a) ==
  SumFunction([c \in messages |-> IF c.token = t /\ c.owner = a THEN c.amount ELSE 0])
\* Paid on the token's chain, not yet known on the pool's.
PaidOut(t, a) == UnderWay({r \in receipts : r.ok}, t, a)

Owed(t, a) == claimable[t][a] + claiming[t][a] - PaidOut(t, a)
OwedTotal(t) == SumFunction([a \in Accounts |-> Owed(t, a)])

\* The shares add up to the total supply: mint and burn update the two in
\* separate statements, for the fee receiver and the provider in one call,
\* who may be the same account.
SharesAccounted == SumFunction(shares) = total_supply

\* Every unit the pool application owns is accounted for exactly once: in
\* the reserves, owed to an account, on the way in, or lost with a rejected
\* message; the reserves exceed that only by the virtual initial liquidity.
LedgerBalanced ==
  \A t \in Tokens :
    custody[t] + (IF t = Token1 THEN virtual ELSE 0)
      = Reserve(t) + OwedTotal(t) + Arriving(t) + stranded[t]

\* What is set aside as claiming is exactly what is under way to the token's
\* chain or back, so the assertion of claim_success never fails, no receipt
\* is settled twice and no claim is forgotten; and a transfer finds the
\* balance it needs on the token's chain.
ClaimingMatchesFlight ==
  /\ \A t \in Tokens, a \in Accounts :
       claiming[t][a] = UnderWay(transfers, t, a) + UnderWay(receipts, t, a)
  /\ \A c \in transfers : custody[c.token] >= c.amount

\* The documents' rule on virtual initial liquidity: what accounts may take
\* out never exceeds what the pool application owns.  Not a property of the
\* code: a withdrawal pays out its part of the virtual reserve as a claimable
\* balance, and a swap compares its output with the balance as if nothing
\* were owed from it already.
OwedWithinCustody == \A t \in Tokens : OwedTotal(t) <= custody[t]

Promise == INSTANCE Escrow WITH
  arriving <- [t \in Tokens |-> Arriving(t)],
  reserve <- [t \in Tokens |-> Reserve(t)],
  owed <- [t \in Tokens |-> [a \in Accounts |-> Owed(t, a)]],
  paid <- wallet

\* The pool is an escrow unless its initial liquidity is virtual: of a step of
\* any handler, message, transfer or receipt, no account loses what it was
\* owed, and only deposits and payments move value across the pool's boundary.
EscrowSpec == Promise!Spec
=============================================================================
