----------------------------- MODULE PairCatalog -----------------------------
(***************************************************************************)
(* What the router promises to those who look a pair up: a pair has one    *)
(* pool, for good, and what is said of its reserves was true once and      *)
(* never goes back.  The reserves of a pool are told apart by the number   *)
(* of the transactions it has settled.  Launch implements it; no code      *)
(* corresponds to it directly.                                             *)
(***************************************************************************)
EXTENDS Integers

CONSTANTS
  Pairs,   \* the pairs of tokens, without an order
  Pools    \* the pools there may be

VARIABLES
  catalog,   \* the entries of each pair: its pool and the transaction the pool was last told of
  settled    \* the transactions each pool has settled

cvars == <<catalog, settled>>

Init ==
  /\ catalog = [p \in Pairs |-> {}]
  /\ settled = [c \in Pools |-> 0]

\* A pair without a pool gets one that no other pair has.
Register(p, c) ==
  /\ catalog[p] = {}
  /\ \A q \in Pairs : \A e \in catalog[q] : e.pool # c
  /\ catalog' = [catalog EXCEPT ![p] = {[pool |-> c, told |-> 0]}]
  /\ UNCHANGED settled

\* A pool settles a transaction.
Settle(c) ==
  /\ settled' = [settled EXCEPT ![c] = @ + 1]
  /\ UNCHANGED catalog

\* The catalog hears of the reserves its pool had after a transaction, not
\* an earlier one than it heard of before.
Tell(p, e, n) ==
  /\ catalog[p] = {e}
  /\ n \in e.told .. settled[e.pool]
  /\ catalog' = [catalog EXCEPT ![p] = {[pool |-> e.pool, told |-> n]}]
  /\ UNCHANGED settled

Next ==
  \/ \E p \in Pairs, c \in Pools : Register(p, c)
  \/ \E c \in Pools : Settle(c)
  \/ \E p \in Pairs : \E e \in catalog[p] : \E n \in e.told .. settled[e.pool] : Tell(p, e, n)

Spec == Init /\ [][Next]_cvars
=============================================================================
