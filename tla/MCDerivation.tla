---------------------------- MODULE MCDerivation ----------------------------
(***************************************************************************)
(* Derivation on two small histories of one pool.  In the first its        *)
(* creator makes it with virtual liquidity, alice adds more than the pool  *)
(* accepts, bob swaps and claims, alice removes and a transfer of hers     *)
(* fails; in the second bob sends the same swap twice in one block.        *)
(***************************************************************************)
EXTENDS Derivation

\* A transaction that receives a bundle of one or two messages.
Receives(origin, cert, source, action, payloads) ==
    [bundle |-> <<[origin |-> origin, cert |-> cert, tx |-> source, action |-> action,
                   messages |-> [n \in DOMAIN payloads |->
                     [index |-> n, app |-> IF payloads[n].type = "pool_created"
                                           THEN "swap" ELSE "pool", bytes |-> payloads[n]]]]>>,
     operation |-> <<>>, messages |-> <<>>, events |-> <<>>, responses |-> <<>>]

Runs(payload) ==
    [bundle |-> <<>>, operation |-> <<[app |-> "pool", bytes |-> payload]>>,
     messages |-> <<"sent">>, events |-> <<>>, responses |-> <<"answer">>]

WithEvents(tx, payloads) ==
    [tx EXCEPT !.events = [n \in DOMAIN payloads |-> [app |-> "pool", bytes |-> payloads[n]]]]

Block(chain, height, hash, txs) == [chain |-> chain, height |-> height, hash |-> hash, txs |-> txs]

Transaction(id, kind, from, in0, out0, in1, out1, liquidity) ==
    [type |-> "new_transaction",
     transaction |-> [id |-> id, kind |-> kind, from |-> from, in0 |-> in0, out0 |-> out0,
                      in1 |-> in1, out1 |-> out1, liquidity |-> liquidity]]

Swap(origin, amount) ==
    [type |-> "swap", origin |-> origin, to |-> origin, slot |-> 0, amount |-> amount]

PoolCreated1 ==
    Receives("P", "p0", 1, "Accept",
        <<[type |-> "pool_created", pool |-> <<"P", "pool">>, token0 |-> "tok",
           token1 |-> Absent, creator |-> "creator"]>>)

PoolCreatedOn == <<Block("S", 1, "s1", <<PoolCreated1>>)>>

Lifecycle ==
    [S |-> <<Block("S", 1, "s1",
         <<PoolCreated1, Runs([type |-> "swap"]), Runs([type |-> "claim"]),
           Runs([type |-> "add_liquidity"])>>)>>,
     P |-> <<
       Block("P", 1, "p1",
         <<Receives("S", "s0", 1, "Accept", <<[type |-> "initialize_liquidity"]>>)>>),
       Block("P", 2, "p2",
         <<Receives("P", "p1", 1, "Accept",
             <<Transaction(1, "AddLiquidity", "creator", 2, 0, 8, 0, 4)>>),
           Receives("U", "u1", 2, "Accept",
             <<[type |-> "add_liquidity", origin |-> "alice", in0 |-> 3, in1 |-> 9]>>),
           WithEvents(Receives("U", "u1", 1, "Accept", <<Swap("bob", 2)>>),
             <<[type |-> "swap_executed", kind |-> "sell_token_0",
                fields |-> CommonFields \union {"amount_0_in", "amount_1_out"}]>>),
           Receives("U", "u1", 3, "Reject", <<Swap("bob", 2)>>)>>),
       Block("P", 3, "p3",
         <<Receives("P", "p2", 3, "Accept",
             <<Transaction(3, "SellToken0", "bob", 2, 0, 0, 3, 0)>>),
           Receives("P", "p2", 2, "Accept",
             <<Transaction(2, "AddLiquidity", "alice", 2, 0, 8, 0, 4)>>),
           Receives("U", "u2", 1, "Accept",
             <<[type |-> "claim", origin |-> "bob", token |-> Absent, amount |-> 3],
               [type |-> "claim_transfer_receipt", owner |-> "alice", token |-> "tok",
                amount |-> 1, failed |-> TRUE]>>)>>)>>]

Twins ==
    [S |-> PoolCreatedOn,
     P |-> <<
       Block("P", 1, "p1", <<Receives("U", "u1", 1, "Accept", <<Swap("bob", 2)>>),
                             Receives("U", "u1", 2, "Accept", <<Swap("bob", 2)>>)>>),
       Block("P", 2, "p2", <<Receives("P", "p1", 1, "Accept",
             <<Transaction(1, "SellToken0", "bob", 2, 0, 0, 5, 0)>>)>>),
       Block("P", 3, "p3", <<Receives("P", "p1", 2, "Accept",
             <<Transaction(2, "SellToken0", "bob", 2, 0, 0, 4, 0)>>)>>)>>]

(* alice adds and removes on a pool whose receiver is set from chain O.    *)
FeeSetting ==
    [S |-> PoolCreatedOn,
     P |-> <<Block("P", 1, "p1", <<Receives("O", "o1", 1, "Accept",
             <<[type |-> "set_fee_to", account |-> "treasury"]>>)>>)>>]

MCScenarios == {Lifecycle, Twins}
MCFeeScenarios == {FeeSetting}
MCSeeded == ("swap" :> "swap")
MCDiscovered == ("pool" :> "pool")
=============================================================================
