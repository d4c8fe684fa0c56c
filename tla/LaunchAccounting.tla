--------------------------- MODULE LaunchAccounting ---------------------------
(***************************************************************************)
(* What must stay true of launches and of the router's pools.              *)
(***************************************************************************)
EXTENDS Launch, Functions

-----------------------------------------------------------------------------
(* The registry implements the catalog.                                    *)

UnorderedPairs == {{p[1], p[2]} : p \in Orders}
Entry(p) == [pool |-> registry[p].pool, told |-> registry[p].told]
Entries(s) == {Entry(p) : p \in {q \in Orders : {q[1], q[2]} = s /\ registry[q] # NoPool}}
SettledOf(c) == IF chain[c] = NoChain THEN 0 ELSE chain[c].settled

Listed == [s \in UnorderedPairs |-> Entries(s)]
SettledBy == [c \in PoolChains |-> SettledOf(c)]

Catalog == INSTANCE PairCatalog WITH
  Pairs <- UnorderedPairs,
  Pools <- PoolChains,
  catalog <- Listed,
  settled <- SettledBy

\* A pair has one pool however many are created at once, in either order of
\* its tokens, and the reserves the router shows are those after a later and
\* later transaction of that pool (create_pool, update_pool and
\* get_pool_exchangable of the router's state, NewTransaction of the pool).
CatalogSpec == Catalog!Spec

\* The first pool of a meme, once the router has opened its chain.
FirstPools(m) == {c \in Opened : chain[c].policy = "meme" /\ chain[c].pair[1] = m}

\* However often a registered pool has settled, the router comes to show what
\* it settled last (NewTransaction and UpdatePool).
NewsArrives ==
  \A c \in PoolChains :
    chain[c].stage = "registered"
      ~> \E p \in Orders : registry[p] # NoPool /\ Entry(p) = [pool |-> c, told |-> SettledOf(c)]

-----------------------------------------------------------------------------
(* Money and tokens.                                                       *)

Created == {m \in Memes : meme[m].stage # "none"}
\* The memes that paid for a pool, those whose transfers have not reached the
\* router yet, and those whose transfers have.
Paying == {m \in Live : PoolPaidFor(plan[m])}
InFlight == {m \in Paying : \E i \in DOMAIN toRouter[m] : toRouter[m][i] = "funds"}
Paid == Paying \ InFlight
Unserved == {m \in Paid : \A c \in FirstPools(m) : chain[c].stage # "registered"}

Purses == SumFunction([m \in Memes |-> meme[m].purse])
SentAhead == SumFunction([m \in Memes |-> IF m \in InFlight THEN LiquidityCost(plan[m]) ELSE 0])
OwedToPools == SumFunction([m \in Memes |-> IF m \in Unserved THEN NativeIn(plan[m]) ELSE 0])
FeesPaid == Fee * (Cardinality(Created) + Cardinality(requests) + Cardinality(Opened))

\* No native token is made or lost on the way of a launch or of a user's
\* pool, and the router holds neither more nor less than the fee and the
\* liquidity of the launches that have paid and not been served: no launch is
\* served with the money of another (create_liquidity_pool of the meme,
\* CreatePool, PoolCreated and CreateUserPool of the router).
MoneyAccounted ==
  /\ router.fees = Fee * Cardinality({m \in Paid : FirstPools(m) = {}})
  /\ router.native = OwedToPools
  /\ Cardinality(Users) * Wealth =
       SumFunction(wallet) + Purses + SentAhead + SumFunction(paid)
         + router.fees + router.native + FeesPaid

\* What a token's accounts have, together with what they set aside for others.
Worth(book) == SumFunction(book.balance) + SumFunction(book.allowance)

\* The meme's first pool has not been paid its part of the token yet.
Unpaid(m) == \A c \in FirstPools(m) : chain[c].stage # "registered" \/ c \in initializing

\* A token's supply is what its accounts have together with what they have
\* set aside for others, no account having less than nothing: approving,
\* minting, mining and paying a pool move it and never change it.  Whatever
\* happens to the token meanwhile, the recorded liquidity is set aside for the
\* router until the meme's chain pays it to the first pool, neither more nor
\* less, and a pool told to initialize holds both parts (approve, transfer_from,
\* mint and initialize_liquidity of MemeState, PoolCreated of the router).
TokensAccounted ==
  \A m \in Live :
    LET book == meme[m].book
    IN  /\ Worth(book) = plan[m].supply
        /\ \A a \in Accounts : book.balance[a] >= 0
        /\ \A at \in DOMAIN book.allowance : book.allowance[at] >= 0
        /\ Allowance(book, Holder, Swap) =
             IF Recorded(plan[m]) # Unset /\ Unpaid(m) THEN Recorded(plan[m]).fungible ELSE 0
        /\ \A c \in FirstPools(m) \cap bootstraps :
             book.balance[PoolAccount(c)] >= Recorded(plan[m]).fungible /\ paid[c] = NativeIn(plan[m])

\* A meme that is paid for and has liquidity to give gets its pool, with
\* mining opened if a share was set aside for it, unless a user's pool of the
\* pair was registered first (LiquidityFunded to PoolMessage::InitializeLiquidity).
\* A deposit may have been the pool's first transaction.
LaunchDecided ==
  \A m \in Memes :
    (m \in Live /\ PoolPaidFor(plan[m]) /\ Recorded(plan[m]) # Unset) ~>
      \E c \in FirstPools(m) :
        \/ /\ chain[c].settled > 0 /\ c \notin initializing \cup bootstraps
           /\ MiningShare(plan[m]) > 0 /\ plan[m].miningSupply # Unset => meme[m].started
        \/ /\ chain[c].stage = "refused"
           /\ \E d \in Opened : chain[d].policy = "user" /\ registry[<<m, Native>>].pool = d
=============================================================================
