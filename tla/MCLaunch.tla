------------------------------- MODULE MCLaunch -------------------------------
(***************************************************************************)
(* Instances of launches.  Amounts are small: the fee is 1, the owner's    *)
(* grant 2, a reward 1.                                                    *)
(***************************************************************************)
EXTENDS LaunchAccounting, TLC

CONSTANTS m1, m2, u1, u2, native, unset, holder, swap

MCMemes == {m1, m2}
MCUsers == {u1, u2}
MCAccounts ==
  {Home(u) : u \in MCUsers} \cup {Miner(u) : u \in MCUsers}
    \cup {PoolAccount(c) : c \in PoolChains} \cup {holder, swap}

Liquidity(f, n) == [fungible |-> f, native |-> n]
\* Of 8 tokens 6 are held: 4 are asked for the pool, and 3 kept for mining
\* leave it 3.
Mined == [supply |-> 8, mining |-> TRUE, miningSupply |-> 3, virtual |-> FALSE,
          liquidity |-> Liquidity(4, 3)]
Virtual == [Mined EXCEPT !.mining = FALSE, !.virtual = TRUE]
\* Mining takes what is held, and nothing is recorded for the pool.
Greedy == [Mined EXCEPT !.miningSupply = unset]
Plain == [Mined EXCEPT !.mining = FALSE, !.liquidity = unset]
TooLarge == [Mined EXCEPT !.liquidity = Liquidity(7, 3)]

Scenario(p1, p2, r, s, o) ==
  [plan |-> (m1 :> p1) @@ (m2 :> p2), left |-> [requests |-> r, settled |-> s, ops |-> o]]

MCScenarios ==
  {Scenario(Mined, Virtual, 1, 0, 0),
   Scenario(Plain, Plain, 2, 1, 0),
   Scenario(Mined, Greedy, 0, 0, 1),
   Scenario(TooLarge, Mined, 0, 0, 2),
   Scenario(TooLarge, Mined, 1, 2, 0)}
=============================================================================
