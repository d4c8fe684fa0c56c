---------------------------- MODULE SwapRegistry ----------------------------
(***************************************************************************)
(* The router (the swap application) on its creator chain, and the chains  *)
(* it opens for pools.  A pool takes three chains to come into being:      *)
(*                                                                         *)
(*   CreateUserPool, InitializeLiquidity   -> router    opens a chain      *)
(*   CreatePool                            router -> pool chain            *)
(*   PoolCreated                           pool chain -> router  registers *)
(*                                                                         *)
(* and then tells the router of its reserves:                              *)
(*                                                                         *)
(*   NewTransaction   the pool chain to itself                             *)
(*   UpdatePool       pool chain -> router                                 *)
(*                                                                         *)
(* A pair is looked up in both orders and filed in one.  A message from    *)
(* one chain to another is not overtaken by later ones; those of different *)
(* chains arrive in any order.                                             *)
(***************************************************************************)
EXTENDS Integers, Sequences

CONSTANTS
  Memes,     \* the meme tokens
  Native,    \* token_1 of a pair with the native token (None in the code)
  Users,     \* the users, each on his own chain
  PoolChains,\* bound: the chains that are opened for pools, in this order
  Fee        \* open_chain_fee_budget()

ASSUME ChainsAssumption == PoolChains \subseteq Nat
ASSUME NativeAssumption == Native \notin Memes

Tokens == Memes \cup {Native}
\* A pair as it is written in a request: token_0 is a meme.
Orders == {p \in Memes \X Tokens : p[1] # p[2]}
NoPool == [pool |-> "none"]
NoChain == [stage |-> "none"]

VARIABLES
  registry,  \* meme_meme_pools and meme_native_pools: what is filed under each order
  poolId,    \* pool_id, which numbers the pools
  chain,     \* the chains opened for pools, with the pool application and the messages it concerns
  requests,  \* CreateUserPool messages under way
  router,    \* what the router holds: the chain balance and the application's own
  wallet     \* what the users own of the native token

rvars == <<registry, poolId, chain, requests, router, wallet>>

RegistryInit ==
  /\ registry = [p \in Orders |-> NoPool]
  /\ poolId = 1000
  /\ chain = [c \in PoolChains |-> NoChain]
  /\ requests = {}
  /\ router = [fees |-> 0, native |-> 0]

Opened == {c \in PoolChains : chain[c].stage # "none"}
Swapped(p) == <<p[2], p[1]>>

\* Mutant: the pair looked up as it is written.
FiledInOrder(p) == {q \in {p} : registry[q] # NoPool}

\* get_pool_exchangable: where a pair is filed, if it is.
FiledAt(p) ==
  {q \in {p} \cup ({Swapped(p)} \cap Orders) : registry[q] # NoPool}

\* CreatePoolHandler::handle: a new chain gets the fee and CreatePool.
OpenPoolChain(c, p, policy, to) ==
  /\ chain[c] = NoChain /\ \A d \in PoolChains : d < c => chain[d] # NoChain
  /\ chain' = [chain EXCEPT ![c] =
       [stage |-> "opened", pair |-> p, policy |-> policy,
        settled |-> 0, news |-> 0, updates |-> << >>]]
  /\ router' = to

\* The operation CreatePool on the user's chain.  The fee travels in the same
\* block as the message.
CreatePool(u, p, n) ==
  /\ wallet[u] >= Fee
  /\ wallet' = [wallet EXCEPT ![u] = @ - Fee]
  /\ requests' = requests \cup {[id |-> n, user |-> u, pair |-> p]}
  /\ UNCHANGED <<registry, poolId, chain, router>>

\* Mutant: the fee of a refused request kept.
UserPoolRefusedUnpaid(m) ==
  /\ m \in requests /\ FiledAt(m.pair) # {}
  /\ requests' = requests \ {m}
  /\ UNCHANGED <<registry, poolId, chain, router, wallet>>

\* CreateUserPool for a pair that is filed: the fee goes back.
UserPoolRefused(m) ==
  /\ m \in requests /\ FiledAt(m.pair) # {}
  /\ requests' = requests \ {m}
  /\ wallet' = [wallet EXCEPT ![m.user] = @ + Fee]
  /\ UNCHANGED <<registry, poolId, chain, router>>

\* CreateUserPool: the fee opens a chain.  Nothing is reserved for the pair.
UserPoolOpened(m, c) ==
  /\ m \in requests /\ FiledAt(m.pair) = {}
  /\ OpenPoolChain(c, m.pair, "user", router)
  /\ requests' = requests \ {m}
  /\ UNCHANGED <<registry, poolId, wallet>>

\* CreatePool on the pool's chain creates the application.
PoolBuilt(c) ==
  /\ chain[c].stage = "opened"
  /\ chain' = [chain EXCEPT ![c].stage = "built"]
  /\ UNCHANGED <<registry, poolId, requests, router, wallet>>

\* SwapState::create_pool.
File(c) ==
  /\ registry' = [registry EXCEPT ![chain[c].pair] =
                    [pool |-> c, id |-> poolId, told |-> 0]]
  /\ poolId' = poolId + 1

\* PoolCreated for a user's pool.  He is sent UserPoolCreated and deposits
\* by AddLiquidity: the way of module Funding, and here one of PoolSettles.
PoolCreatedForUser(c) ==
  /\ chain[c].stage = "built" /\ chain[c].policy = "user"
  /\ FiledAt(chain[c].pair) = {}
  /\ File(c)
  /\ chain' = [chain EXCEPT ![c].stage = "registered"]
  /\ UNCHANGED <<requests, router, wallet>>

\* PoolCreated for a pair that got another pool meanwhile panics.
PoolCreatedRejected(c) ==
  /\ chain[c].stage = "built" /\ FiledAt(chain[c].pair) # {}
  /\ chain' = [chain EXCEPT ![c].stage = "refused"]
  /\ UNCHANGED <<registry, poolId, requests, router, wallet>>

\* A pool settles a transaction and sends itself NewTransaction.  Whoever
\* knows the application may use it, whether the router has filed it or not.
PoolSettles(c) ==
  /\ chain[c].stage \in {"built", "registered", "refused"}
  /\ chain' = [chain EXCEPT ![c] =
       [chain[c] EXCEPT !.settled = chain[c].settled + 1, !.news = chain[c].news + 1]]
  /\ UNCHANGED <<registry, poolId, requests, router, wallet>>

\* Mutant: an UpdatePool that overtakes those before it.
NewTransactionOvertakes(c) ==
  /\ chain[c].stage # "none" /\ chain[c].news > 0
  /\ chain' = [chain EXCEPT ![c] =
       [chain[c] EXCEPT !.news = chain[c].news - 1,
                        !.updates = <<chain[c].settled>> \o chain[c].updates]]
  /\ UNCHANGED <<registry, poolId, requests, router, wallet>>

\* NewTransaction calls UpdatePool with the reserves of this moment, which
\* may be those after a later transaction.
NewTransaction(c) ==
  /\ chain[c].stage # "none" /\ chain[c].news > 0
  /\ chain' = [chain EXCEPT ![c] =
       [chain[c] EXCEPT !.news = chain[c].news - 1,
                        !.updates = Append(chain[c].updates, chain[c].settled)]]
  /\ UNCHANGED <<registry, poolId, requests, router, wallet>>

\* The router takes the next UpdatePool of a pool, behind its PoolCreated.
TakeUpdate(c) ==
  /\ chain[c].stage \in {"registered", "refused"} /\ chain[c].updates # << >>
  /\ chain' = [chain EXCEPT ![c].updates = Tail(@)]

\* UpdatePool: the sender must be the pool that is filed for the pair.  What
\* is filed goes under the order of the message, the pool's own.
UpdatePool(c) ==
  /\ TakeUpdate(c)
  /\ \E p \in FiledAt(chain[c].pair) :
       /\ registry[p].pool = c
       /\ registry' = [registry EXCEPT ![chain[c].pair] =
                         [registry[p] EXCEPT !.told = Head(chain[c].updates)]]
  /\ UNCHANGED <<poolId, requests, router, wallet>>

\* "Invalid pool origin chain": another pool is filed for the pair.
UpdatePoolRejected(c) ==
  /\ TakeUpdate(c)
  /\ \A p \in FiledAt(chain[c].pair) : registry[p].pool # c
  /\ UNCHANGED <<registry, poolId, requests, router, wallet>>
=============================================================================
