------------------------------- MODULE Launch -------------------------------
(***************************************************************************)
(* How a meme comes to life, from the proxy over its own chain to the      *)
(* router and its first pool, while users create pools, pools settle       *)
(* transactions and the token is used and mined:                           *)
(*                                                                         *)
(*   CreateMeme           user chain -> proxy      opens the meme's chain  *)
(*   CreateMemeExt        proxy -> meme chain      creates the application *)
(*   LiquidityFunded      meme chain to itself                             *)
(*   InitializeLiquidity  meme chain -> router     opens the pool's chain  *)
(*     (CreatePool, PoolCreated as in SwapRegistry)                        *)
(*   InitializeLiquidity  router -> meme chain     pays the pool its meme  *)
(*   InitializeLiquidity  meme chain -> pool chain                         *)
(*                                                                         *)
(* The native money goes ahead: from the user over the proxy's and the     *)
(* meme's chain to the router, before the pool is asked for.               *)
(***************************************************************************)
EXTENDS SwapRegistry, MemeToken, FiniteSets

CONSTANTS
  Scenarios,   \* bound: the parameters of the memes (plan) and the operations left to their users (left)
  Wealth,      \* native tokens of each user at the start
  Reward,      \* reward_amount of mining; halving is beyond the instances
  Amounts      \* amounts of the token operations

Home(u) == <<"home", u>>          \* a user on his own chain
Miner(u) == <<"meme chain", u>>   \* a user on the meme's chain
PoolAccount(c) == <<"pool", c>>

\* MemeParameters and InstantiationArgument, as far as they matter here.
Plan ==
  [supply : Nat, mining : BOOLEAN, miningSupply : Nat \cup {Unset}, virtual : BOOLEAN,
   liquidity : [fungible : Nat, native : Nat] \cup {Unset}]

ASSUME LaunchAssumption ==
  /\ IsFiniteSet(Memes) /\ IsFiniteSet(Users) /\ IsFiniteSet(PoolChains)
  /\ Fee \in Nat /\ OwnerGrant \in Nat /\ Wealth \in Nat /\ Reward \in Nat /\ Amounts \subseteq Nat
  /\ \A s \in Scenarios : /\ s.plan \in [Memes -> Plan]
                          /\ s.left \in [requests : Nat, settled : Nat, ops : Nat]

\* The accounts of applications are nobody's account on a chain.
ASSUME AccountsAssumption ==
  /\ IsFiniteSet(Accounts) /\ {Holder, Swap} \subseteq Accounts /\ Holder # Swap
  /\ \A u \in Users : {Home(u), Miner(u)} \subseteq Accounts \ {Holder, Swap}
  /\ \A c \in PoolChains : PoolAccount(c) \in Accounts \ {Holder, Swap}

VARIABLES
  plan,         \* MemeParameters and InstantiationArgument of each meme
  meme,         \* each meme's chain and application
  toRouter,     \* messages of each meme's chain to the router
  paid,         \* the native tokens the router paid each pool
  initializing, \* MemeMessage::InitializeLiquidity under way, by the pool's chain
  bootstraps,   \* PoolMessage::InitializeLiquidity under way
  left          \* bound: the CreatePool operations, pool transactions and token operations to come

lvars == <<plan, meme, toRouter, paid, initializing, bootstraps, left>>
vars == <<rvars, lvars>>

NoBook == [balance |-> Empty, allowance |-> << >>, owner |-> Unset]

Init ==
  /\ RegistryInit
  /\ wallet = [u \in Users |-> Wealth]
  /\ \E s \in Scenarios : plan = s.plan /\ left = s.left
  /\ meme = [m \in Memes |-> [stage |-> "none", creator |-> Unset, purse |-> 0, book |-> NoBook,
                              funded |-> FALSE, started |-> FALSE, mined |-> FALSE]]
  /\ toRouter = [m \in Memes |-> << >>]
  /\ paid = [c \in PoolChains |-> 0]
  /\ initializing = {} /\ bootstraps = {}

-----------------------------------------------------------------------------
(* The way to the meme's chain.                                            *)

\* What the creator lays out for liquidity: the fee of the pool's chain, and
\* the native amount unless it is virtual.
NativeIn(p) == IF p.liquidity = Unset \/ p.virtual THEN 0 ELSE p.liquidity.native
LiquidityCost(p) == IF p.liquidity = Unset THEN 0 ELSE Fee + NativeIn(p)

\* ProxyOperation::CreateMeme on the creator's chain.
CreateMeme(u, m) ==
  /\ meme[m].stage = "none"
  /\ wallet[u] >= Fee + LiquidityCost(plan[m])
  /\ wallet' = [wallet EXCEPT ![u] = @ - Fee - LiquidityCost(plan[m])]
  /\ meme' = [meme EXCEPT ![m].stage = "requested", ![m].creator = u,
                          ![m].purse = LiquidityCost(plan[m])]
  /\ UNCHANGED <<registry, poolId, chain, requests, router, plan, paid, toRouter,
                 initializing, bootstraps, left>>

\* ProxyMessage::CreateMeme opens the chain with its fee and sends on what
\* was laid out, to the creator's account of that chain.
MemeChainOpened(m) ==
  /\ meme[m].stage = "requested"
  /\ meme' = [meme EXCEPT ![m].stage = "opened"]
  /\ UNCHANGED <<rvars, plan, paid, toRouter, initializing, bootstraps, left>>

\* create_liquidity_pool looks at the parameters, not at what was recorded.
PoolPaidFor(p) == p.liquidity # Unset /\ p.liquidity.fungible > 0 /\ p.liquidity.native > 0

\* CreateMemeExt: the application is instantiated and pays the router.
MemeCreated(m) ==
  /\ meme[m].stage = "opened" /\ Instantiable(plan[m])
  /\ meme' = [meme EXCEPT
       ![m].stage = "live",
       ![m].book = Instantiated(plan[m], Home(meme[m].creator)),
       ![m].purse = IF PoolPaidFor(plan[m]) THEN @ - LiquidityCost(plan[m]) ELSE @,
       ![m].funded = PoolPaidFor(plan[m])]
  /\ toRouter' = IF PoolPaidFor(plan[m])
                 THEN [toRouter EXCEPT ![m] = Append(@, "funds")] ELSE toRouter
  /\ UNCHANGED <<rvars, plan, paid, initializing, bootstraps, left>>

\* An instantiation that fails an assertion leaves a chain without a meme.
MemeRejected(m) ==
  /\ meme[m].stage = "opened" /\ ~Instantiable(plan[m])
  /\ meme' = [meme EXCEPT ![m].stage = "rejected"]
  /\ UNCHANGED <<rvars, plan, paid, toRouter, initializing, bootstraps, left>>

\* After mining has started, a block of the meme's chain must begin with Mine
\* (is_valid_mining_height); other messages and operations are refused.
Executable(m) ==
  meme[m].stage = "live" /\ (plan[m].mining /\ meme[m].started => meme[m].mined)

\* Mutant: the pool asked for with what the parameters say.
AskedInParameters(p) == p.liquidity

\* What LiquidityFunded asks the router for: what was recorded.
Asked(p) == Recorded(p)

\* LiquidityFunded asks for nothing when nothing was recorded.
LiquidityFunded(m) ==
  /\ meme[m].funded /\ Executable(m)
  /\ meme' = [meme EXCEPT ![m].funded = FALSE]
  /\ toRouter' = IF Recorded(plan[m]) = Unset THEN toRouter
                 ELSE [toRouter EXCEPT ![m] = Append(@, "initialize")]
  /\ UNCHANGED <<rvars, plan, paid, initializing, bootstraps, left>>

-----------------------------------------------------------------------------
(* The router and the first pool.                                          *)

\* The transfers of the instantiation reach the router's chain.
RouterFunded(m) ==
  /\ toRouter[m] # << >> /\ Head(toRouter[m]) = "funds"
  /\ toRouter' = [toRouter EXCEPT ![m] = Tail(@)]
  /\ router' = [fees |-> router.fees + Fee, native |-> router.native + NativeIn(plan[m])]
  /\ UNCHANGED <<registry, poolId, chain, requests, wallet, plan, paid, meme,
                 initializing, bootstraps, left>>

\* InitializeLiquidity opens a chain for the pair whether it is filed or not.
InitializeLiquidity(m, c) ==
  /\ toRouter[m] # << >> /\ Head(toRouter[m]) = "initialize"
  /\ router.fees >= Fee
  /\ toRouter' = [toRouter EXCEPT ![m] = Tail(@)]
  /\ OpenPoolChain(c, <<m, Native>>, "meme", [router EXCEPT !.fees = @ - Fee])
  /\ UNCHANGED <<registry, poolId, requests, wallet, plan, paid, meme,
                 initializing, bootstraps, left>>

\* What the router pays a meme's first pool.
PaidIn(p) == NativeIn(p)

\* PoolCreated for a meme's first pool: the router pays it the native part
\* and calls the meme, which sends itself InitializeLiquidity.
InitialPoolCreated(c) ==
  LET amount == PaidIn(plan[chain[c].pair[1]]) IN
  /\ chain[c].stage = "built" /\ chain[c].policy = "meme"
  /\ FiledAt(chain[c].pair) = {} /\ router.native >= amount
  /\ File(c)
  /\ chain' = [chain EXCEPT ![c].stage = "registered"]
  /\ router' = [router EXCEPT !.native = @ - amount]
  /\ paid' = [paid EXCEPT ![c] = amount]
  /\ initializing' = initializing \cup {c}
  /\ UNCHANGED <<requests, wallet, plan, meme, toRouter, bootstraps, left>>

\* MemeMessage::InitializeLiquidity pays the pool out of the allowance, calls
\* it and opens the chain to miners, if a part of the supply is for them.
MemeInitializesPool(c) ==
  LET m == chain[c].pair[1]
      x == Asked(plan[m]).fungible IN
  /\ c \in initializing /\ Executable(m)
  /\ CanTransferFrom(meme[m].book, Swap, Holder, x)
  /\ initializing' = initializing \ {c}
  /\ bootstraps' = bootstraps \cup {c}
  /\ meme' = [meme EXCEPT
       ![m].book = TransferredFrom(@, Swap, Holder, PoolAccount(c), x),
       ![m].started = @ \/ (plan[m].mining /\ plan[m].miningSupply # Unset
                                           /\ plan[m].miningSupply > 0)]
  /\ UNCHANGED <<rvars, plan, paid, toRouter, left>>

\* PoolMessage::InitializeLiquidity on the pool's chain, where there is
\* nothing yet or everything has been withdrawn.
PoolInitialized(c) ==
  /\ c \in bootstraps
  /\ PoolSettles(c)
  /\ bootstraps' = bootstraps \ {c}
  /\ UNCHANGED <<plan, paid, meme, toRouter, initializing, left>>

\* A pool that has reserves already, from a deposit that came first, panics.
PoolInitializeRejected(c) ==
  /\ c \in bootstraps /\ chain[c].settled > 0
  /\ bootstraps' = bootstraps \ {c}
  /\ UNCHANGED <<rvars, plan, paid, meme, toRouter, initializing, left>>

-----------------------------------------------------------------------------
(* What users do meanwhile: pools of their own, transactions in the pools, *)
(* and the token.  An operation on the token changes nothing where it is   *)
(* made; these are the messages as the meme's chain executes them.         *)

Live == {m \in Memes : meme[m].stage = "live"}

UserCreatesPool(u, p) ==
  /\ left.requests > 0
  /\ {p[1], p[2]} \ {Native} \subseteq Live
  /\ CreatePool(u, p, left.requests)
  /\ left' = [left EXCEPT !.requests = @ - 1]
  /\ UNCHANGED <<plan, paid, meme, toRouter, initializing, bootstraps>>

PoolUsed(c) ==
  /\ left.settled > 0
  /\ PoolSettles(c)
  /\ left' = [left EXCEPT !.settled = @ - 1]
  /\ UNCHANGED <<plan, paid, meme, toRouter, initializing, bootstraps>>

TokenStep(m, book) ==
  /\ left.ops > 0
  /\ left' = [left EXCEPT !.ops = @ - 1]
  /\ meme' = [meme EXCEPT ![m].book = book]
  /\ UNCHANGED <<rvars, plan, paid, toRouter, initializing, bootstraps>>

Transfer(m, u, to, x) ==
  /\ Executable(m) /\ CanTransfer(meme[m].book, Home(u), to, x)
  /\ TokenStep(m, Transferred(meme[m].book, Home(u), to, x))

Approve(m, u, spender, x) ==
  /\ Executable(m) /\ CanApprove(meme[m].book, Home(u), spender, x)
  /\ TokenStep(m, Approved(meme[m].book, Home(u), spender, x))

TransferFrom(m, u, from, to, x) ==
  /\ Executable(m) /\ CanTransferFrom(meme[m].book, Home(u), from, x)
  /\ TokenStep(m, TransferredFrom(meme[m].book, Home(u), from, to, x))

\* Mint is for the owner, who is known by his key alone.
Mint(m, u, to, x) ==
  /\ Executable(m) /\ meme[m].book.owner = Home(u) /\ CanMint(meme[m].book, to, x)
  /\ TokenStep(m, Minted(meme[m].book, to, x))

\* Redeem moves what a miner earned to his own chain.
Redeem(m, u, x) ==
  /\ Executable(m) /\ CanTransfer(meme[m].book, Miner(u), Home(u), x)
  /\ TokenStep(m, Transferred(meme[m].book, Miner(u), Home(u), x))

TransferOwnership(m, u, v) ==
  /\ Executable(m) /\ meme[m].book.owner = Home(u) /\ u # v
  /\ TokenStep(m, [meme[m].book EXCEPT !.owner = Home(v)])

\* Mine opens a block of the meme's chain and is paid by the holder.  It does
\* not ask whether mining has started.
Mine(m, u) ==
  /\ meme[m].stage = "live" /\ plan[m].mining /\ ~meme[m].mined /\ left.ops > 0
  /\ CanMint(meme[m].book, Miner(u), Reward)
  /\ meme' = [meme EXCEPT ![m].book = Minted(@, Miner(u), Reward), ![m].mined = TRUE]
  /\ left' = [left EXCEPT !.ops = @ - 1]
  /\ UNCHANGED <<rvars, plan, paid, toRouter, initializing, bootstraps>>

\* The next block has a height of its own: mining_height is behind again.
NextBlock(m) ==
  /\ meme[m].mined
  /\ meme' = [meme EXCEPT ![m].mined = FALSE]
  /\ UNCHANGED <<rvars, plan, paid, toRouter, initializing, bootstraps, left>>

-----------------------------------------------------------------------------
(* A message that has arrived is handled.                                  *)
Routed ==
  \/ \E q \in requests : UserPoolRefused(q) \/ \E c \in PoolChains : UserPoolOpened(q, c)
  \/ \E c \in PoolChains :
       \/ PoolBuilt(c) \/ PoolCreatedForUser(c) \/ PoolCreatedRejected(c)
       \/ NewTransaction(c) \/ UpdatePool(c) \/ UpdatePoolRejected(c)

Launched ==
  \/ \E m \in Memes :
       \/ MemeChainOpened(m) \/ MemeCreated(m) \/ MemeRejected(m)
       \/ LiquidityFunded(m) \/ RouterFunded(m)
       \/ \E c \in PoolChains : InitializeLiquidity(m, c)
  \/ \E c \in PoolChains :
       \/ InitialPoolCreated(c) \/ MemeInitializesPool(c)
       \/ PoolInitialized(c) \/ PoolInitializeRejected(c)

Deliver == (Routed /\ UNCHANGED lvars) \/ Launched

TokenUsed(m) ==
  \/ \E u, v \in Users, x \in Amounts :
       \/ Transfer(m, u, Home(v), x)
       \/ Approve(m, u, Home(v), x)
       \/ Mint(m, u, Home(v), x)
       \/ \E w \in Users : TransferFrom(m, u, Home(v), Home(w), x)
  \/ \E u \in Users, x \in Amounts : Redeem(m, u, x)
  \/ \E u, v \in Users : TransferOwnership(m, u, v)
  \/ \E u \in Users : Mine(m, u)
  \/ NextBlock(m)

Next ==
  \/ Deliver
  \/ \E u \in Users, m \in Memes : CreateMeme(u, m)
  \/ \E u \in Users, p \in Orders : UserCreatesPool(u, p)
  \/ \E c \in PoolChains : PoolUsed(c)
  \/ \E m \in Memes : TokenUsed(m)

\* Validators execute the messages in the inboxes of chains.
Spec == Init /\ [][Next]_vars /\ WF_vars(Deliver)
=============================================================================
