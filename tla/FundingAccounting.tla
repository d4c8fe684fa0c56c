------------------------- MODULE FundingAccounting -------------------------
(***************************************************************************)
(* Where the value of the requests is, as sums over requests, messages and *)
(* accounts.                                                               *)
(***************************************************************************)
EXTENDS Funding, Functions

\* The legs of m's request that have reached the pool's account on the
\* creator chain: the one before, the present one once it is paid, and the
\* native one that final_settlement_receipt no longer names.
Settled(m) ==
  (IF m.prev = None THEN {} ELSE {m.prev})
    \cup (IF m.kind \in {"Receipt", "Settlement"} /\ m.ok THEN {m.token} ELSE {})
    \cup (IF m.kind = "Settlement" /\ m.ok /\ m.request.type = "AddLiquidity"
          THEN Tokens ELSE {})

\* The legs that the pool's account on the user's chain holds.
OnTheWay(m) ==
  IF m.kind = "Transfer" \/ (m.kind \in {"FundResult", "Receipt", "Settlement"}
                              /\ (m.kind = "FundResult" <=> m.ok))
  THEN {m.token} ELSE {}

\* What m's request carries of token t there.
Lands(m, t) == IF t \in Settled(m) THEN Amount(m.request, t) ELSE 0
Travels(m, t) == IF t \in OnTheWay(m) THEN Amount(m.request, t) ELSE 0

Delivered(t) == SumFunction([r \in delivered |-> Amount(r, t)])
Landed(t) == SumFunction([m \in messages |-> Lands(m, t)])
Travelling(t) == SumFunction([m \in messages |-> Travels(m, t)])

\* What the pool must be able to account for on its creator chain.
Due(t) == Delivered(t) + SumFunction(claimable[t]) + Landed(t)

\* Every request the creator chain settles, and every balance it credits, is
\* backed by value in the pool's own account: what PoolLedger takes for
\* granted of the messages in its inbox.
SettlementsFunded == \A t \in Tokens : Due(t) <= custody[t]

\* All that the pool got from users, in whichever of its accounts, is
\* settled, credited, carried by a message, or known to be lost to its owner.
ValueAccounted ==
  \A t \in Tokens :
    custody[t] + SumFunction(transit[t])
      = Due(t) + Travelling(t) + SumFunction(replica[t]) + stranded[t]

\* The documents' rule for a deposit that fails half way: the leg that
\* arrived is claimable.  Not a property of the code: the refund may be
\* credited on the wrong chain, or the receipt dropped.
PartialFundingClaimable == \A t \in Tokens : custody[t] = Due(t)
=============================================================================
