----------------------------- MODULE LaunchProofs -----------------------------
(***************************************************************************)
(* For any memes, users and plans, any number of pools and any length of   *)
(* behaviour: the router's registry implements PairCatalog, the money of   *)
(* launches is accounted for, and so are the tokens.                       *)
(***************************************************************************)
EXTENDS LaunchAccounting, ArithmeticTheorems, SequenceTheorems, TLAPS

-----------------------------------------------------------------------------
(* The inductive invariant: what the registry and the pools' chains have   *)
(* to do with each other.                                                  *)

PoolRecords == [pool : PoolChains, id : Nat, told : Nat]
ChainRecords ==
  [stage : {"opened", "built", "registered", "refused"}, pair : Orders,
   policy : {"user", "meme"}, settled : Nat, news : Nat, updates : Seq(Nat)]

RegistryTypes ==
  /\ registry \in [Orders -> {NoPool} \cup PoolRecords]
  /\ poolId \in Nat
  /\ chain \in [PoolChains -> {NoChain} \cup ChainRecords]
  /\ \A q \in requests : q.pair \in Orders

IsFiled(p) == registry[p] # NoPool

\* A pool is filed under the order its chain was opened for, once it was
\* registered.
FiledRight ==
  \A p \in Orders : IsFiled(p) =>
    chain[registry[p].pool].stage = "registered" /\ chain[registry[p].pool].pair = p

\* One order of a pair is filed.
FiledOnce ==
  \A p, q \in Orders :
    IsFiled(p) /\ IsFiled(q) /\ {p[1], p[2]} = {q[1], q[2]} => p = q

\* The updates under way are in the order of the pool's transactions and
\* none is ahead of the pool.
InOrder(r) ==
  /\ \A i \in DOMAIN r.updates : r.updates[i] <= r.settled
  /\ \A i, j \in DOMAIN r.updates : i <= j => r.updates[i] <= r.updates[j]
NewsInOrder == \A c \in PoolChains : chain[c] # NoChain => InOrder(chain[c])

\* Nor is the registry ahead of the updates to come.
NotAhead(n, r) == n <= r.settled /\ \A i \in DOMAIN r.updates : n <= r.updates[i]
ToldBefore ==
  \A p \in Orders : IsFiled(p) => NotAhead(registry[p].told, chain[registry[p].pool])

RegistryInv == RegistryTypes /\ FiledRight /\ FiledOnce /\ NewsInOrder /\ ToldBefore

-----------------------------------------------------------------------------
LEMMA RecordsDiffer ==
  /\ \A r \in PoolRecords : r # NoPool
  /\ \A r \in ChainRecords : r # NoChain /\ r.stage # "none"
<1>1. ASSUME NEW r \in PoolRecords PROVE r # NoPool
  <2>1. "id" \in DOMAIN r
    BY DEF PoolRecords
  <2>2. "id" \notin DOMAIN NoPool
    BY DEF NoPool
  <2> QED BY <2>1, <2>2
<1>2. ASSUME NEW r \in ChainRecords PROVE r # NoChain /\ r.stage # "none"
  BY DEF ChainRecords, NoChain
<1> QED BY <1>1, <1>2

LEMMA SamePair ==
  ASSUME NEW p \in Orders, NEW q \in Orders, {p[1], p[2]} = {q[1], q[2]}
  PROVE  q = p \/ q = Swapped(p)
BY DEF Orders, Swapped, Tokens

\* A pair that is filed in neither order has no entry.
LEMMA NotListed ==
  ASSUME NEW p \in Orders, FiledAt(p) = {}
  PROVE  /\ ~IsFiled(p)
         /\ \A q \in Orders : {q[1], q[2]} = {p[1], p[2]} => ~IsFiled(q)
         /\ Entries({p[1], p[2]}) = {}
<1>1. ~IsFiled(p)
  BY DEF FiledAt, IsFiled
<1>2. ASSUME NEW q \in Orders, {q[1], q[2]} = {p[1], p[2]} PROVE ~IsFiled(q)
  <2>1. q = p \/ q = Swapped(p)
    BY <1>2, SamePair
  <2>2. CASE q = Swapped(p)
    BY <2>2, <1>2 DEF FiledAt, IsFiled
  <2> QED BY <2>1, <2>2, <1>1
<1>3. Entries({p[1], p[2]}) = {}
  BY <1>2 DEF Entries, IsFiled
<1> QED BY <1>1, <1>2, <1>3

\* The entry of a pair that is filed.
LEMMA OneEntry ==
  ASSUME RegistryInv, NEW p \in Orders, IsFiled(p)
  PROVE  Entries({p[1], p[2]}) = {Entry(p)}
BY DEF RegistryInv, FiledOnce, Entries, IsFiled

-----------------------------------------------------------------------------
(* The catalog before and after a step.                                    *)

\* Chains differ in what is no concern of the catalog.
SameSettled == \A c \in PoolChains : SettledOf(c)' = SettledOf(c)

LEMMA SameCatalog ==
  ASSUME UNCHANGED registry, SameSettled
  PROVE  UNCHANGED <<Listed, SettledBy>>
<1>1. Listed' = Listed
  BY DEF Listed, Entries, Entry
<1>2. SettledBy' = SettledBy
  BY DEF SettledBy, SameSettled
<1> QED BY <1>1, <1>2

\* A pool's chain is opened.
LEMMA Opens ==
  ASSUME RegistryInv, NEW c \in PoolChains, NEW p \in Orders, NEW policy \in {"user", "meme"},
         NEW to, OpenPoolChain(c, p, policy, to), UNCHANGED <<registry, poolId>>,
         requests' \subseteq requests
  PROVE  RegistryInv' /\ UNCHANGED <<Listed, SettledBy>>
<1> DEFINE new == [stage |-> "opened", pair |-> p, policy |-> policy,
                   settled |-> 0, news |-> 0, updates |-> << >>]
<1>1. /\ chain[c] = NoChain /\ chain' = [chain EXCEPT ![c] = new]
      /\ new \in ChainRecords /\ InOrder(new)
      /\ chain \in [PoolChains -> {NoChain} \cup ChainRecords]
  BY DEF RegistryInv, RegistryTypes, OpenPoolChain, ChainRecords, InOrder
<1> HIDE DEF new
<1>2. new # NoChain
  BY <1>1, RecordsDiffer
<1>3. RegistryTypes'
  BY <1>1 DEF RegistryInv, RegistryTypes
<1>4. ASSUME NEW q \in Orders, IsFiled(q) PROVE registry[q].pool # c /\ registry[q].pool \in PoolChains
  BY <1>1, <1>4 DEF RegistryInv, RegistryTypes, FiledRight, IsFiled, PoolRecords, NoChain
<1>5. FiledRight' /\ FiledOnce' /\ ToldBefore'
  BY <1>1, <1>4 DEF RegistryInv, FiledRight, FiledOnce, ToldBefore, IsFiled
<1>6. NewsInOrder'
  BY <1>1 DEF RegistryInv, NewsInOrder
<1>7. SameSettled
  BY <1>1, <1>2 DEF SameSettled, SettledOf, new
<1> QED BY <1>3, <1>5, <1>6, <1>7, SameCatalog DEF RegistryInv

\* A chain whose pool is not registered yet goes on to its next stage.
LEMMA Marks ==
  ASSUME RegistryInv, NEW c \in PoolChains, NEW to \in {"built", "refused"},
         chain[c].stage \in {"opened", "built"},
         chain' = [chain EXCEPT ![c].stage = to],
         UNCHANGED <<registry, poolId, requests>>
  PROVE  RegistryInv' /\ UNCHANGED <<Listed, SettledBy>>
<1> DEFINE new == [chain[c] EXCEPT !.stage = to]
<1>1. /\ chain[c] \in ChainRecords /\ chain' = [chain EXCEPT ![c] = new]
      /\ chain \in [PoolChains -> {NoChain} \cup ChainRecords]
  BY DEF RegistryInv, RegistryTypes, NoChain
<1>2. new \in ChainRecords /\ new.updates = chain[c].updates /\ new.settled = chain[c].settled
  BY <1>1 DEF ChainRecords
<1> HIDE DEF new
<1>3. chain[c] # NoChain /\ new # NoChain
  BY <1>1, <1>2, RecordsDiffer
<1>4. RegistryTypes'
  BY <1>1, <1>2 DEF RegistryInv, RegistryTypes
<1>5. ASSUME NEW q \in Orders, IsFiled(q) PROVE registry[q].pool # c /\ registry[q].pool \in PoolChains
  BY <1>5 DEF RegistryInv, RegistryTypes, FiledRight, IsFiled, PoolRecords
<1>6. FiledRight' /\ FiledOnce' /\ ToldBefore'
  BY <1>1, <1>5 DEF RegistryInv, FiledRight, FiledOnce, ToldBefore, IsFiled
<1>7. NewsInOrder'
  BY <1>1, <1>2, <1>3 DEF RegistryInv, NewsInOrder, InOrder
<1>8. SameSettled
  BY <1>1, <1>2, <1>3 DEF SameSettled, SettledOf
<1> QED BY <1>4, <1>6, <1>7, <1>8, SameCatalog DEF RegistryInv

\* A pool whose pair is filed in neither order is filed.
LEMMA Registers ==
  ASSUME RegistryInv, NEW c \in PoolChains, chain[c].stage = "built",
         FiledAt(chain[c].pair) = {}, File(c),
         chain' = [chain EXCEPT ![c].stage = "registered"], UNCHANGED requests
  PROVE  RegistryInv' /\ \E s \in UnorderedPairs : Catalog!Register(s, c)
<1>0. PICK p \in Orders : p = chain[c].pair
  BY DEF RegistryInv, RegistryTypes, ChainRecords, NoChain
<1> DEFINE new == [chain[c] EXCEPT !.stage = "registered"]
           entry == [pool |-> c, id |-> poolId, told |-> 0]
<1>1. /\ chain[c] \in ChainRecords /\ chain' = [chain EXCEPT ![c] = new]
      /\ chain \in [PoolChains -> {NoChain} \cup ChainRecords]
      /\ registry \in [Orders -> {NoPool} \cup PoolRecords]
      /\ registry' = [registry EXCEPT ![p] = entry]
  BY <1>0 DEF RegistryInv, RegistryTypes, NoChain, File
<1>2. /\ new \in ChainRecords /\ new.updates = chain[c].updates
      /\ new.settled = chain[c].settled /\ new.stage = "registered" /\ new.pair = p
      /\ new.settled \in Nat /\ new.updates \in Seq(Nat)
  BY <1>0, <1>1 DEF ChainRecords
<1>3. entry \in PoolRecords /\ poolId' \in Nat
  BY DEF RegistryInv, RegistryTypes, File, PoolRecords
<1>4. entry # NoPool /\ entry.pool = c /\ entry.told = 0
  BY <1>3, RecordsDiffer
<1> HIDE DEF new, entry
<1>5. chain[c] # NoChain /\ new # NoChain
  BY <1>1, <1>2, RecordsDiffer
<1>6. RegistryTypes'
  BY <1>1, <1>2, <1>3 DEF RegistryInv, RegistryTypes
<1>7. ASSUME NEW q \in Orders, IsFiled(q) PROVE registry[q].pool # c /\ registry[q].pool \in PoolChains
  BY <1>7 DEF RegistryInv, RegistryTypes, FiledRight, IsFiled, PoolRecords
<1>8. /\ ~IsFiled(p) /\ Entries({p[1], p[2]}) = {}
      /\ \A q \in Orders : {q[1], q[2]} = {p[1], p[2]} => ~IsFiled(q)
  BY <1>0, NotListed
<1>9. \A q \in Orders : registry'[q] = IF q = p THEN entry ELSE registry[q]
  BY <1>1, <1>2
<1>10. FiledRight'
  <2> SUFFICES ASSUME NEW q \in Orders, IsFiled(q)'
               PROVE  chain'[registry'[q].pool].stage = "registered"
                      /\ chain'[registry'[q].pool].pair = q
    BY DEF FiledRight
  <2>1. CASE q = p
    BY <2>1, <1>1, <1>2, <1>4, <1>9
  <2>2. CASE q # p
    <3>1. registry'[q] = registry[q] /\ IsFiled(q)
      BY <2>2, <1>9 DEF IsFiled
    <3>2. chain'[registry[q].pool] = chain[registry[q].pool]
      BY <3>1, <1>7, <1>1
    <3> QED BY <3>1, <3>2 DEF RegistryInv, FiledRight
  <2> QED BY <2>1, <2>2
<1>11. FiledOnce'
  BY <1>8, <1>9 DEF RegistryInv, FiledOnce, IsFiled
<1>12. NewsInOrder'
  BY <1>1, <1>2, <1>5 DEF RegistryInv, NewsInOrder, InOrder
<1>13. ToldBefore'
  <2>1. NotAhead(0, new)
    BY <1>2 DEF NotAhead
  <2> QED BY <2>1, <1>1, <1>4, <1>7, <1>9 DEF RegistryInv, ToldBefore, IsFiled
<1>14. UNCHANGED SettledBy
  BY <1>1, <1>2, <1>5 DEF SettledBy, SettledOf
<1> DEFINE s == {p[1], p[2]}
<1>15. s \in UnorderedPairs
  BY <1>2 DEF UnorderedPairs
<1>16. Entries(s)' = {[pool |-> c, told |-> 0]}
  <2>1. \A q \in Orders : {q[1], q[2]} = s /\ registry'[q] # NoPool <=> q = p
    BY <1>2, <1>4, <1>8, <1>9 DEF IsFiled
  <2>2. {q \in Orders : {q[1], q[2]} = s /\ registry'[q] # NoPool} = {p}
    BY <1>2, <2>1
  <2>3. Entry(p)' = [pool |-> c, told |-> 0]
    BY <1>2, <1>4, <1>9 DEF Entry
  <2> QED BY <2>2, <2>3 DEF Entries
<1>17. ASSUME NEW t \in UnorderedPairs, t # s PROVE Entries(t)' = Entries(t)
  <2>1. \A q \in Orders : {q[1], q[2]} = t => registry'[q] = registry[q]
    BY <1>9, <1>17
  <2> QED BY <2>1 DEF Entries, Entry
<1>18. Listed' = [Listed EXCEPT ![s] = {[pool |-> c, told |-> 0]}]
  BY <1>15, <1>16, <1>17 DEF Listed
<1>19. \A t \in UnorderedPairs : \A e \in Listed[t] : e.pool # c
  BY <1>7 DEF Listed, Entries, Entry, IsFiled
<1>20. Listed[s] = {}
  BY <1>15, <1>8 DEF Listed
<1>21. Catalog!Register(s, c)
  BY <1>14, <1>18, <1>19, <1>20 DEF Catalog!Register
<1> QED BY <1>6, <1>10, <1>11, <1>12, <1>13, <1>15, <1>21 DEF RegistryInv

-----------------------------------------------------------------------------
(* A pool's chain that goes on with the pool as it is filed.               *)

\* What such a step must see to: it keeps the order of the news, and does not
\* fall behind what the registry has been told.
Continues(r, s) ==
  /\ s \in ChainRecords /\ s.stage = r.stage /\ s.pair = r.pair
  /\ InOrder(r) => InOrder(s)
  /\ \A n \in Nat : NotAhead(n, r) => NotAhead(n, s)

LEMMA Goes ==
  ASSUME RegistryInv, NEW c \in PoolChains, NEW new,
         chain[c] \in ChainRecords, InOrder(chain[c]) => Continues(chain[c], new),
         chain' = [chain EXCEPT ![c] = new], UNCHANGED <<registry, poolId, requests>>
  PROVE  RegistryInv' /\ UNCHANGED Listed
<1>1. /\ chain[c] # NoChain /\ new # NoChain /\ Continues(chain[c], new) /\ InOrder(new)
      /\ chain \in [PoolChains -> {NoChain} \cup ChainRecords]
  BY RecordsDiffer DEF RegistryInv, RegistryTypes, NewsInOrder, Continues
<1>2. RegistryTypes'
  BY <1>1 DEF RegistryInv, RegistryTypes, Continues
<1>3. \A q \in Orders : IsFiled(q) => registry[q].pool \in PoolChains /\ registry[q].told \in Nat
  BY DEF RegistryInv, RegistryTypes, IsFiled, PoolRecords
<1>4. \A d \in PoolChains : chain'[d] = IF d = c THEN new ELSE chain[d]
  BY <1>1
<1>5. FiledRight'
  BY <1>1, <1>3, <1>4 DEF RegistryInv, FiledRight, IsFiled, Continues
<1>6. FiledOnce'
  BY DEF RegistryInv, FiledOnce, IsFiled
<1>7. NewsInOrder'
  BY <1>1, <1>4 DEF RegistryInv, NewsInOrder
<1>8. ToldBefore'
  BY <1>1, <1>3, <1>4 DEF RegistryInv, ToldBefore, IsFiled, Continues
<1>9. UNCHANGED Listed
  BY DEF Listed, Entries, Entry
<1> QED BY <1>2, <1>5, <1>6, <1>7, <1>8, <1>9 DEF RegistryInv

\* A pool settles a transaction.
LEMMA Settles ==
  ASSUME RegistryInv, NEW c \in PoolChains, PoolSettles(c)
  PROVE  RegistryInv' /\ Catalog!Settle(c)
<1> DEFINE new == [chain[c] EXCEPT !.settled = @ + 1, !.news = @ + 1]
<1>1. /\ chain[c] \in ChainRecords /\ chain' = [chain EXCEPT ![c] = new]
      /\ chain \in [PoolChains -> {NoChain} \cup ChainRecords]
  <2>1. chain \in [PoolChains -> {NoChain} \cup ChainRecords]
    BY DEF RegistryInv, RegistryTypes
  <2>2. chain[c].stage # "none"
    BY DEF PoolSettles
  <2>3. chain[c] \in ChainRecords
    BY <2>1, <2>2 DEF NoChain
  <2>4. chain' = [chain EXCEPT ![c] = new]
    BY DEF PoolSettles
  <2> QED BY <2>1, <2>3, <2>4
<1>2. /\ new \in ChainRecords /\ new.settled = chain[c].settled + 1
      /\ chain[c].settled \in Nat /\ chain[c].updates \in Seq(Nat)
      /\ new.updates = chain[c].updates /\ new.stage = chain[c].stage /\ new.pair = chain[c].pair
  <2>1. chain[c].settled + 1 \in Nat /\ chain[c].news + 1 \in Nat
    BY <1>1 DEF ChainRecords
  <2> QED BY <1>1, <2>1 DEF ChainRecords
<1> HIDE DEF new
<1>3. Continues(chain[c], new)
  BY <1>1, <1>2 DEF Continues, InOrder, NotAhead
<1>4. RegistryInv' /\ UNCHANGED Listed
  BY <1>1, <1>3, Goes DEF PoolSettles
<1>5. chain[c] # NoChain /\ new # NoChain
  BY <1>1, <1>2, RecordsDiffer
<1>6. SettledBy' = [SettledBy EXCEPT ![c] = @ + 1]
  BY <1>1, <1>2, <1>5 DEF SettledBy, SettledOf
<1> QED BY <1>4, <1>6 DEF Catalog!Settle

\* NewTransaction reports the reserves of this moment.
LEMMA Reports ==
  ASSUME RegistryInv, NEW c \in PoolChains, NewTransaction(c)
  PROVE  RegistryInv' /\ UNCHANGED <<Listed, SettledBy>>
<1> DEFINE new == [chain[c] EXCEPT !.news = @ - 1, !.updates = Append(@, chain[c].settled)]
<1>1. /\ chain[c] \in ChainRecords /\ chain' = [chain EXCEPT ![c] = new]
      /\ chain \in [PoolChains -> {NoChain} \cup ChainRecords]
  <2>1. chain \in [PoolChains -> {NoChain} \cup ChainRecords]
    BY DEF RegistryInv, RegistryTypes
  <2>2. chain[c].stage # "none"
    BY DEF NewTransaction
  <2>3. chain[c] \in ChainRecords
    BY <2>1, <2>2 DEF NoChain
  <2>4. chain' = [chain EXCEPT ![c] = new]
    BY DEF NewTransaction
  <2> QED BY <2>1, <2>3, <2>4
<1>2. /\ new \in ChainRecords /\ new.settled = chain[c].settled
      /\ chain[c].settled \in Nat /\ chain[c].updates \in Seq(Nat)
      /\ new.updates = Append(chain[c].updates, chain[c].settled)
      /\ new.stage = chain[c].stage /\ new.pair = chain[c].pair
  <2>1. /\ chain[c].updates \in Seq(Nat) /\ chain[c].settled \in Nat
        /\ chain[c].news \in Nat
    BY <1>1 DEF ChainRecords
  <2>2. chain[c].news - 1 \in Nat
    BY <2>1 DEF NewTransaction
  <2>3. Append(chain[c].updates, chain[c].settled) \in Seq(Nat)
    BY <2>1
  <2> QED BY <1>1, <2>1, <2>2, <2>3 DEF ChainRecords
<1> HIDE DEF new
<1>3. /\ DOMAIN new.updates = 1 .. Len(chain[c].updates) + 1
      /\ DOMAIN chain[c].updates = 1 .. Len(chain[c].updates)
      /\ Len(chain[c].updates) \in Nat
      /\ \A i \in DOMAIN new.updates :
           new.updates[i] = IF i \in DOMAIN chain[c].updates THEN chain[c].updates[i]
                            ELSE chain[c].settled
      /\ \A i \in DOMAIN chain[c].updates : chain[c].updates[i] \in Nat
  BY <1>2
<1>4. InOrder(chain[c]) => InOrder(new)
  BY <1>2, <1>3, SMTT(40) DEF InOrder
<1>5. \A n \in Nat : NotAhead(n, chain[c]) => NotAhead(n, new)
  BY <1>2, <1>3 DEF NotAhead
<1>6. RegistryInv' /\ UNCHANGED Listed
  BY <1>1, <1>2, <1>4, <1>5, Goes DEF NewTransaction, Continues
<1>7. chain[c] # NoChain /\ new # NoChain
  BY <1>1, <1>2, RecordsDiffer
<1>8. UNCHANGED SettledBy
  BY <1>1, <1>2, <1>7 DEF SettledBy, SettledOf
<1> QED BY <1>6, <1>8

\* An update is taken out of the messages to the router.
LEMMA Taken ==
  ASSUME RegistryInv, NEW c \in PoolChains, TakeUpdate(c)
  PROVE  \E new :
    /\ chain' = [chain EXCEPT ![c] = new] /\ chain[c] \in ChainRecords /\ new # NoChain
    /\ new.settled = chain[c].settled
    /\ InOrder(chain[c]) => Continues(chain[c], new)
    /\ Head(chain[c].updates) \in Nat
    /\ InOrder(chain[c]) => NotAhead(Head(chain[c].updates), new)
    /\ \A n \in Nat : NotAhead(n, chain[c]) => n <= Head(chain[c].updates)
<1> DEFINE new == [chain[c] EXCEPT !.updates = Tail(@)]
<1>1. /\ chain[c] \in ChainRecords /\ chain' = [chain EXCEPT ![c] = new]
      /\ chain[c].updates # << >>
  BY DEF RegistryInv, RegistryTypes, TakeUpdate, NoChain
<1>2. /\ new \in ChainRecords /\ new.settled = chain[c].settled
      /\ chain[c].settled \in Nat /\ chain[c].updates \in Seq(Nat)
      /\ new.updates = Tail(chain[c].updates)
      /\ new.stage = chain[c].stage /\ new.pair = chain[c].pair
  <2>1. chain[c].updates \in Seq(Nat)
    BY <1>1 DEF ChainRecords
  <2>2. Tail(chain[c].updates) \in Seq(Nat)
    BY <1>1, <2>1
  <2> QED BY <1>1, <2>1, <2>2 DEF ChainRecords
<1> HIDE DEF new
<1>3. /\ DOMAIN new.updates = 1 .. Len(chain[c].updates) - 1
      /\ DOMAIN chain[c].updates = 1 .. Len(chain[c].updates)
      /\ Len(chain[c].updates) \in Nat \ {0}
      /\ \A i \in DOMAIN new.updates : new.updates[i] = chain[c].updates[i + 1]
      /\ \A i \in DOMAIN chain[c].updates : chain[c].updates[i] \in Nat
      /\ Head(chain[c].updates) = chain[c].updates[1] /\ 1 \in DOMAIN chain[c].updates
  BY <1>1, <1>2
<1> DEFINE old == chain[c].updates
           rest == new.updates
<1>3a. \A i \in DOMAIN rest : i + 1 \in DOMAIN old /\ rest[i] = old[i + 1]
  BY <1>3
<1> HIDE DEF old, rest
<1>4. InOrder(chain[c]) => InOrder(new) /\ NotAhead(Head(chain[c].updates), new)
  <2> SUFFICES ASSUME InOrder(chain[c])
               PROVE  InOrder(new) /\ NotAhead(Head(chain[c].updates), new)
    OBVIOUS
  <2>1. /\ \A i \in DOMAIN old : old[i] <= chain[c].settled
        /\ \A i, j \in DOMAIN old : i <= j => old[i] <= old[j]
    BY DEF InOrder, old
  <2>2. /\ DOMAIN rest \subseteq Nat \ {0} /\ 1 \in DOMAIN old
        /\ Head(chain[c].updates) = old[1]
    BY <1>3 DEF old, rest
  <2>3. \A i \in DOMAIN rest : rest[i] <= new.settled
    BY <1>2, <1>3a, <2>1
  <2>4. \A i, j \in DOMAIN rest : i <= j => rest[i] <= rest[j]
    BY <1>3a, <2>1, <2>2
  <2>5. \A i \in DOMAIN rest : old[1] <= rest[i]
    BY <1>3a, <2>1, <2>2
  <2>6. old[1] <= new.settled
    BY <1>2, <2>1, <2>2
  <2> QED BY <2>2, <2>3, <2>4, <2>5, <2>6 DEF InOrder, NotAhead, rest
<1>5. \A n \in Nat : NotAhead(n, chain[c]) => NotAhead(n, new) /\ n <= Head(chain[c].updates)
  <2> SUFFICES ASSUME NEW n \in Nat, NotAhead(n, chain[c])
               PROVE  NotAhead(n, new) /\ n <= Head(chain[c].updates)
    OBVIOUS
  <2>1. n <= chain[c].settled /\ \A i \in DOMAIN old : n <= old[i]
    BY DEF NotAhead, old
  <2>2. \A i \in DOMAIN rest : n <= rest[i]
    BY <1>3a, <2>1
  <2>3. n <= Head(chain[c].updates)
    BY <1>3, <2>1 DEF old
  <2> QED BY <1>2, <2>1, <2>2, <2>3 DEF NotAhead, rest
<1>6. new # NoChain
  BY <1>2, RecordsDiffer
<1>7. InOrder(chain[c]) => Continues(chain[c], new)
  BY <1>2, <1>4, <1>5 DEF Continues
<1> QED BY <1>1, <1>2, <1>3, <1>4, <1>5, <1>6, <1>7

\* The router takes the news of the pool that is filed.
LEMMA Updates ==
  ASSUME RegistryInv, NEW c \in PoolChains, UpdatePool(c)
  PROVE  /\ RegistryInv'
         /\ \E s \in UnorderedPairs : \E e \in Listed[s] :
              \E n \in e.told .. SettledBy[e.pool] : Catalog!Tell(s, e, n)
<1>1. PICK new :
        /\ chain' = [chain EXCEPT ![c] = new] /\ chain[c] \in ChainRecords /\ new # NoChain
        /\ new.settled = chain[c].settled
        /\ InOrder(chain[c]) => Continues(chain[c], new)
        /\ Head(chain[c].updates) \in Nat
        /\ InOrder(chain[c]) => NotAhead(Head(chain[c].updates), new)
        /\ \A n \in Nat : NotAhead(n, chain[c]) => n <= Head(chain[c].updates)
  BY Taken DEF UpdatePool
<1>2. chain[c] # NoChain /\ InOrder(chain[c]) /\ Continues(chain[c], new) /\ InOrder(new)
  BY <1>1, RecordsDiffer DEF RegistryInv, NewsInOrder, Continues
<1>3. PICK h \in Nat : h = Head(chain[c].updates)
  BY <1>1
<1>4. PICK p \in FiledAt(chain[c].pair) :
        /\ registry[p].pool = c
        /\ registry' = [registry EXCEPT ![chain[c].pair] = [registry[p] EXCEPT !.told = h]]
  BY <1>3 DEF UpdatePool
<1>5. p \in Orders /\ IsFiled(p) /\ registry[p] \in PoolRecords
  <2>1. chain[c].pair \in Orders
    BY <1>1 DEF ChainRecords
  <2>2. p \in Orders /\ IsFiled(p)
    BY <1>4, <2>1 DEF FiledAt, IsFiled
  <2> QED BY <2>2 DEF RegistryInv, RegistryTypes, IsFiled
<1>6. chain[c].pair = p
  BY <1>4, <1>5 DEF RegistryInv, FiledRight
<1> DEFINE entry == [registry[p] EXCEPT !.told = h]
<1>7. entry \in PoolRecords /\ entry.pool = c /\ entry.told = h /\ entry # NoPool
  <2>1. entry \in PoolRecords /\ entry.pool = c /\ entry.told = h
    BY <1>3, <1>4, <1>5 DEF PoolRecords
  <2> QED BY <2>1, RecordsDiffer
<1>8. registry' = [registry EXCEPT ![p] = entry]
  BY <1>4, <1>6
<1> HIDE DEF entry
<1>9. /\ \A q \in Orders : registry'[q] = IF q = p THEN entry ELSE registry[q]
      /\ \A q \in Orders : IsFiled(q)' <=> IsFiled(q)
      /\ \A d \in PoolChains : chain'[d] = IF d = c THEN new ELSE chain[d]
  BY <1>1, <1>5, <1>7, <1>8 DEF RegistryInv, RegistryTypes, IsFiled
<1>10. ASSUME NEW q \in Orders, IsFiled(q), q # p
       PROVE  registry[q].pool # c /\ registry[q].pool \in PoolChains
  BY <1>6, <1>10 DEF RegistryInv, RegistryTypes, FiledRight, IsFiled, PoolRecords
<1>11. RegistryTypes'
  <2>1. registry' \in [Orders -> {NoPool} \cup PoolRecords]
    BY <1>7, <1>8 DEF RegistryInv, RegistryTypes
  <2>2. chain' \in [PoolChains -> {NoChain} \cup ChainRecords]
    BY <1>1, <1>2 DEF RegistryInv, RegistryTypes, Continues
  <2> QED BY <2>1, <2>2 DEF RegistryInv, RegistryTypes, UpdatePool
<1>12. FiledRight'
  <2> SUFFICES ASSUME NEW q \in Orders, IsFiled(q)
               PROVE  chain'[registry'[q].pool].stage = "registered"
                      /\ chain'[registry'[q].pool].pair = q
    BY <1>9 DEF FiledRight
  <2>1. CASE q = p
    BY <2>1, <1>2, <1>4, <1>5, <1>7, <1>9 DEF RegistryInv, FiledRight, Continues
  <2>2. CASE q # p
    BY <2>2, <1>9, <1>10 DEF RegistryInv, FiledRight
  <2> QED BY <2>1, <2>2
<1>13. FiledOnce'
  BY <1>9 DEF RegistryInv, FiledOnce
<1>14. NewsInOrder'
  BY <1>2, <1>9 DEF RegistryInv, NewsInOrder
<1>15. ToldBefore'
  <2> SUFFICES ASSUME NEW q \in Orders, IsFiled(q)
               PROVE  NotAhead(registry'[q].told, chain'[registry'[q].pool])
    BY <1>9 DEF ToldBefore
  <2>1. CASE q = p
    BY <2>1, <1>1, <1>2, <1>3, <1>7, <1>9
  <2>2. CASE q # p
    BY <2>2, <1>9, <1>10 DEF RegistryInv, ToldBefore
  <2> QED BY <2>1, <2>2
<1> DEFINE s == {p[1], p[2]}
           e == [pool |-> c, told |-> registry[p].told]
<1>16. s \in UnorderedPairs
  BY <1>5 DEF UnorderedPairs
<1>17. Listed[s] = {e}
  BY <1>4, <1>5, <1>16, OneEntry DEF Listed, Entry
<1>18. h \in registry[p].told .. SettledBy[c]
  <2>1. SettledBy[c] = chain[c].settled /\ chain[c].settled \in Nat
    BY <1>1, <1>2 DEF SettledBy, SettledOf, ChainRecords
  <2>2. registry[p].told \in Nat /\ NotAhead(registry[p].told, chain[c])
    BY <1>4, <1>5 DEF RegistryInv, ToldBefore, PoolRecords
  <2>3. registry[p].told <= h
    BY <2>2, <1>1, <1>3
  <2>4. h <= chain[c].settled
    BY <1>1, <1>2, <1>3 DEF NotAhead
  <2> QED BY <2>1, <2>2, <2>3, <2>4
<1>19. Listed' = [Listed EXCEPT ![s] = {[pool |-> c, told |-> h]}]
  <2>1. \A q \in Orders : {q[1], q[2]} = s /\ registry'[q] # NoPool <=> q = p
    BY <1>5, <1>9 DEF RegistryInv, FiledOnce, IsFiled
  <2>2. {q \in Orders : {q[1], q[2]} = s /\ registry'[q] # NoPool} = {p}
    BY <1>5, <2>1
  <2>3. Entry(p)' = [pool |-> c, told |-> h]
    BY <1>5, <1>7, <1>9 DEF Entry
  <2>4. Entries(s)' = {[pool |-> c, told |-> h]}
    BY <2>2, <2>3 DEF Entries
  <2>5. ASSUME NEW t \in UnorderedPairs, t # s PROVE Entries(t)' = Entries(t)
    <3>1. \A q \in Orders : {q[1], q[2]} = t => registry'[q] = registry[q]
      BY <1>9, <2>5
    <3> QED BY <3>1 DEF Entries, Entry
  <2> QED BY <1>16, <2>4, <2>5 DEF Listed
<1>20. UNCHANGED SettledBy
  BY <1>1, <1>2, <1>9 DEF SettledBy, SettledOf
<1> HIDE DEF s, e
<1>21. e \in Listed[s] /\ e.told = registry[p].told /\ e.pool = c
  BY <1>17 DEF e
<1>22. Catalog!Tell(s, e, h)
  BY <1>17, <1>18, <1>19, <1>20, <1>21 DEF Catalog!Tell
<1>23. \E t \in UnorderedPairs : \E f \in Listed[t] :
         \E n \in f.told .. SettledBy[f.pool] : Catalog!Tell(t, f, n)
  BY <1>16, <1>18, <1>21, <1>22
<1> QED BY <1>11, <1>12, <1>13, <1>14, <1>15, <1>23 DEF RegistryInv

\* News of a pool that is not the one filed are dropped.
LEMMA Drops ==
  ASSUME RegistryInv, NEW c \in PoolChains, UpdatePoolRejected(c)
  PROVE  RegistryInv' /\ UNCHANGED <<Listed, SettledBy>>
<1>1. PICK new :
        /\ chain' = [chain EXCEPT ![c] = new] /\ chain[c] \in ChainRecords /\ new # NoChain
        /\ new.settled = chain[c].settled
        /\ InOrder(chain[c]) => Continues(chain[c], new)
  BY Taken DEF UpdatePoolRejected
<1>2. RegistryInv' /\ UNCHANGED Listed
  BY <1>1, Goes DEF UpdatePoolRejected
<1>3. chain[c] # NoChain /\ chain \in [PoolChains -> {NoChain} \cup ChainRecords]
  BY <1>1, RecordsDiffer DEF RegistryInv, RegistryTypes
<1>4. UNCHANGED SettledBy
  BY <1>1, <1>3 DEF SettledBy, SettledOf
<1> QED BY <1>2, <1>4

\* What concerns neither pools nor their registry.
LEMMA Stays ==
  ASSUME RegistryInv, UNCHANGED <<registry, poolId, chain>>, \A q \in requests' : q.pair \in Orders
  PROVE  RegistryInv' /\ UNCHANGED <<Listed, SettledBy>>
<1>1. RegistryInv'
  BY DEF RegistryInv, RegistryTypes, FiledRight, FiledOnce, NewsInOrder, ToldBefore, IsFiled,
         InOrder, NotAhead
<1>2. UNCHANGED <<Listed, SettledBy>>
  BY DEF Listed, Entries, Entry, SettledBy, SettledOf
<1> QED BY <1>1, <1>2

-----------------------------------------------------------------------------
(* All steps.                                                              *)

Implemented == RegistryInv' /\ [Catalog!Next]_(Catalog!cvars)

LEMMA Routes ==
  ASSUME RegistryInv, Routed
  PROVE  Implemented
<1> USE DEF Implemented, Catalog!cvars
<1>0. \A q \in requests : q.pair \in Orders
  BY DEF RegistryInv, RegistryTypes
<1>1. ASSUME NEW q \in requests, UserPoolRefused(q) PROVE Implemented
  BY <1>0, <1>1, Stays DEF UserPoolRefused
<1>2. ASSUME NEW q \in requests, NEW c \in PoolChains, UserPoolOpened(q, c) PROVE Implemented
  <2>1. q.pair \in Orders /\ OpenPoolChain(c, q.pair, "user", router) /\ requests' \subseteq requests
    BY <1>0, <1>2 DEF UserPoolOpened
  <2> QED BY <1>2, <2>1, Opens DEF UserPoolOpened
<1>3. ASSUME NEW c \in PoolChains, PoolBuilt(c) PROVE Implemented
  <2>1. chain' = [chain EXCEPT ![c].stage = "built"] /\ chain[c].stage \in {"opened", "built"}
    BY <1>3 DEF PoolBuilt
  <2> QED BY <1>3, <2>1, Marks DEF PoolBuilt
<1>4. ASSUME NEW c \in PoolChains, PoolCreatedForUser(c) PROVE Implemented
  <2>1. RegistryInv' /\ \E s \in UnorderedPairs : Catalog!Register(s, c)
    BY <1>4, Registers DEF PoolCreatedForUser
  <2> QED BY <2>1 DEF Catalog!Next
<1>5. ASSUME NEW c \in PoolChains, PoolCreatedRejected(c) PROVE Implemented
  <2>1. chain' = [chain EXCEPT ![c].stage = "refused"] /\ chain[c].stage \in {"opened", "built"}
    BY <1>5 DEF PoolCreatedRejected
  <2> QED BY <1>5, <2>1, Marks DEF PoolCreatedRejected
<1>6. ASSUME NEW c \in PoolChains, NewTransaction(c) PROVE Implemented
  BY <1>6, Reports
<1>7. ASSUME NEW c \in PoolChains, UpdatePool(c) PROVE Implemented
  BY <1>7, Updates DEF Catalog!Next
<1>8. ASSUME NEW c \in PoolChains, UpdatePoolRejected(c) PROVE Implemented
  BY <1>8, Drops
<1> QED BY <1>1, <1>2, <1>3, <1>4, <1>5, <1>6, <1>7, <1>8 DEF Routed

LEMMA Launches ==
  ASSUME RegistryInv, Launched
  PROVE  Implemented
<1> USE DEF Implemented, Catalog!cvars
<1>0. \A q \in requests : q.pair \in Orders
  BY DEF RegistryInv, RegistryTypes
<1>1. ASSUME UNCHANGED <<registry, poolId, chain, requests>> PROVE Implemented
  BY <1>0, <1>1, Stays
<1>2. ASSUME NEW m \in Memes,
             \/ MemeChainOpened(m) \/ MemeCreated(m) \/ MemeRejected(m)
             \/ LiquidityFunded(m) \/ RouterFunded(m)
      PROVE  Implemented
  BY <1>1, <1>2 DEF MemeChainOpened, MemeCreated, MemeRejected, LiquidityFunded, RouterFunded, rvars
<1>3. ASSUME NEW m \in Memes, NEW c \in PoolChains, InitializeLiquidity(m, c) PROVE Implemented
  <2>1. <<m, Native>> \in Orders
    BY NativeAssumption DEF Orders, Tokens
  <2>2. OpenPoolChain(c, <<m, Native>>, "meme", [router EXCEPT !.fees = @ - Fee])
    BY <1>3 DEF InitializeLiquidity
  <2> QED BY <1>3, <2>1, <2>2, Opens DEF InitializeLiquidity
<1>4. ASSUME NEW c \in PoolChains, InitialPoolCreated(c) PROVE Implemented
  <2>1. RegistryInv' /\ \E s \in UnorderedPairs : Catalog!Register(s, c)
    BY <1>4, Registers DEF InitialPoolCreated
  <2> QED BY <2>1 DEF Catalog!Next
<1>5. ASSUME NEW c \in PoolChains, PoolInitialized(c) PROVE Implemented
  BY <1>5, Settles DEF PoolInitialized, Catalog!Next
<1>6. ASSUME NEW c \in PoolChains, MemeInitializesPool(c) \/ PoolInitializeRejected(c)
      PROVE  Implemented
  BY <1>1, <1>6 DEF MemeInitializesPool, PoolInitializeRejected, rvars
<1> QED BY <1>2, <1>3, <1>4, <1>5, <1>6 DEF Launched

LEMMA LaunchStep ==
  ASSUME RegistryInv, [Next]_vars
  PROVE  Implemented
<1>0. \A q \in requests : q.pair \in Orders
  BY DEF RegistryInv, RegistryTypes
<1>1. ASSUME UNCHANGED <<registry, poolId, chain>>, \A q \in requests' : q.pair \in Orders
      PROVE  Implemented
  BY <1>1, Stays DEF Implemented, Catalog!cvars
<1>2. CASE Deliver
  BY <1>2, Routes, Launches DEF Deliver
<1>3. ASSUME NEW u \in Users, NEW m \in Memes, CreateMeme(u, m) PROVE Implemented
  BY <1>0, <1>1, <1>3 DEF CreateMeme
<1>4. ASSUME NEW u \in Users, NEW p \in Orders, UserCreatesPool(u, p) PROVE Implemented
  <2>1. /\ requests' = requests \cup {[id |-> left.requests, user |-> u, pair |-> p]}
        /\ UNCHANGED <<registry, poolId, chain>>
    BY <1>4 DEF UserCreatesPool, CreatePool
  <2> QED BY <1>0, <1>1, <2>1
<1>5. ASSUME NEW c \in PoolChains, PoolUsed(c) PROVE Implemented
  BY <1>5, Settles DEF PoolUsed, Implemented, Catalog!Next
<1>6. ASSUME NEW m \in Memes, TokenUsed(m) PROVE Implemented
  <2>1. UNCHANGED rvars
    BY <1>6, ZenonT(40) DEF TokenUsed, Transfer, Approve, Mint, TransferFrom, Redeem, TransferOwnership, Mine,
                NextBlock, TokenStep
  <2> QED BY <1>0, <1>1, <2>1 DEF rvars
<1>7. CASE UNCHANGED vars
  BY <1>0, <1>1, <1>7 DEF vars, rvars
<1> QED BY <1>2, <1>3, <1>4, <1>5, <1>6, <1>7 DEF Next

LEMMA LaunchInit ==
  ASSUME Init
  PROVE  RegistryInv /\ Catalog!Init
<1>1. /\ registry = [p \in Orders |-> NoPool] /\ poolId = 1000
      /\ chain = [c \in PoolChains |-> NoChain] /\ requests = {}
  BY DEF Init, RegistryInit
<1>2. RegistryInv
  BY <1>1 DEF RegistryInv, RegistryTypes, FiledRight, FiledOnce, NewsInOrder, ToldBefore, IsFiled
<1>3. Catalog!Init
  <2>1. \A s \in UnorderedPairs : Entries(s) = {}
    BY <1>1 DEF Entries
  <2> QED BY <1>1, <2>1 DEF Catalog!Init, Listed, SettledBy, SettledOf
<1> QED BY <1>2, <1>3

\* A pool is filed under one order of its pair, the one its chain was opened
\* for, and is not told of transactions it has not settled, nor of an earlier
\* one after a later one (create_pool, update_pool).
THEOREM LaunchInvariant == Spec => []RegistryInv
BY LaunchInit, LaunchStep, PTL DEF Spec, Implemented

\* The router's registry, with all the chains and messages it takes, is a
\* catalog of one pool for each pair whose reserves never go back.
THEOREM CatalogImplemented == Spec => CatalogSpec
<1>1. Init => Catalog!Init
  BY LaunchInit
<1>2. RegistryInv /\ [Next]_vars => [Catalog!Next]_(Catalog!cvars)
  BY LaunchStep DEF Implemented
<1> QED BY <1>1, <1>2, LaunchInvariant, PTL DEF Spec, CatalogSpec, Catalog!Spec

-----------------------------------------------------------------------------
(* The books of a token.                                                   *)

Books ==
  [balance : [Accounts -> Nat],
   allowance : UNION {[s -> Nat] : s \in SUBSET (Accounts \X Accounts)},
   owner : Accounts \cup {Unset}]

LEMMA BookTypes ==
  ASSUME NEW b \in Books
  PROVE  /\ b.balance \in [Accounts -> Nat] /\ b.allowance \in [DOMAIN b.allowance -> Nat]
         /\ DOMAIN b.allowance \subseteq Accounts \X Accounts
         /\ IsFiniteSet(DOMAIN b.allowance)
         /\ SumFunction(b.balance) \in Nat /\ SumFunction(b.allowance) \in Nat
         /\ \A o, s \in Accounts : Allowance(b, o, s) \in Nat
<1>1. /\ b.balance \in [Accounts -> Nat] /\ b.allowance \in [DOMAIN b.allowance -> Nat]
      /\ DOMAIN b.allowance \subseteq Accounts \X Accounts
  BY DEF Books
<1>2. IsFiniteSet(Accounts)
  BY AccountsAssumption
<1>3. IsFiniteSet(Accounts \X Accounts)
  BY <1>2, FS_Product
<1>4. IsFiniteSet(DOMAIN b.allowance)
  BY <1>1, <1>3, FS_Subset
<1>5. SumFunction(b.balance) \in Nat
  BY <1>1, <1>2, SumType
<1>6. SumFunction(b.allowance) \in Nat
  <2> DEFINE s == DOMAIN b.allowance
             f == b.allowance
  <2>1. IsFiniteSet(s) /\ f \in [s -> Nat] /\ f \in [s -> Int]
    BY <1>1, <1>4
  <2> HIDE DEF s, f
  <2>2. SumFunction(f) \in Nat
    BY <2>1, SumType
  <2> QED BY <2>2 DEF f
<1>7. \A o, s \in Accounts : Allowance(b, o, s) \in Nat
  BY <1>1 DEF Allowance
<1> QED BY <1>1, <1>4, <1>5, <1>6, <1>7

\* What is moved between the accounts.
LEMMA BookTransferred ==
  ASSUME NEW b \in Books, NEW from \in Accounts, NEW to \in Accounts, NEW x \in Nat,
         from # to, b.balance[from] >= x, NEW t, t = Transferred(b, from, to, x)
  PROVE  /\ t \in Books /\ Worth(t) = Worth(b)
         /\ t.allowance = b.allowance /\ t.owner = b.owner
         /\ \A a \in Accounts \ {from} : t.balance[a] >= b.balance[a]
         /\ t.balance[from] = b.balance[from] - x
<1> DEFINE f == b.balance
           mid == [f EXCEPT ![from] = @ - x]
           end == [f EXCEPT ![from] = @ - x, ![to] = @ + x]
<1>1. f \in [Accounts -> Nat] /\ SumFunction(f) \in Nat /\ SumFunction(b.allowance) \in Nat
  BY BookTypes
<1>2. t.balance = end /\ t.allowance = b.allowance /\ t.owner = b.owner
  BY BookTypes DEF Transferred, Books
<1>3. f[from] - x \in Nat /\ f[to] + x \in Nat /\ f[from] \in Nat /\ f[to] \in Nat
  BY <1>1
<1>4. /\ mid \in [Accounts -> Nat] /\ end \in [Accounts -> Nat]
      /\ mid[from] = f[from] - x /\ mid[to] = f[to]
      /\ end[from] = f[from] - x /\ end[to] = f[to] + x
      /\ \A a \in Accounts \ {from} : mid[a] = f[a]
      /\ \A a \in Accounts \ {to} : end[a] = mid[a]
  BY <1>1, <1>3
<1>5. t \in Books
  <2>1. t = [b EXCEPT !.balance = end]
    BY DEF Transferred, Books
  <2> QED BY <2>1, <1>4 DEF Books
<1>6. SumFunction(end) = SumFunction(f)
  <2> HIDE DEF f, mid, end
  <2>0. IsFiniteSet(Accounts) /\ f \in [Accounts -> Int] /\ mid \in [Accounts -> Int]
        /\ end \in [Accounts -> Int]
    BY <1>1, <1>4, AccountsAssumption
  <2>1. SumFunction(mid) = SumFunction(f) - f[from] + (f[from] - x)
    BY <1>3, <1>4, <2>0, SumUpdate
  <2>2. SumFunction(end) = SumFunction(mid) - mid[to] + (f[to] + x)
    BY <1>3, <1>4, <2>0, SumUpdate
  <2> QED BY <2>1, <2>2, <1>1, <1>3, <1>4
<1>7. \A a \in Accounts \ {from} : end[a] >= f[a]
  BY <1>1, <1>4
<1> QED BY <1>2, <1>4, <1>5, <1>6, <1>7 DEF Worth

\* What is set aside for another.
LEMMA BookApproved ==
  ASSUME NEW b \in Books, NEW owner \in Accounts, NEW spender \in Accounts, NEW x \in Nat,
         b.balance[owner] >= x, NEW t, t = Approved(b, owner, spender, x)
  PROVE  /\ t \in Books /\ Worth(t) = Worth(b) /\ t.owner = b.owner
         /\ \A a \in Accounts \ {owner} : t.balance[a] >= b.balance[a]
         /\ Allowance(t, owner, spender) = Allowance(b, owner, spender) + x
         /\ \A o, s \in Accounts :
              <<o, s>> # <<owner, spender>> => Allowance(t, o, s) = Allowance(b, o, s)
<1> DEFINE f == b.balance
           end == [f EXCEPT ![owner] = @ - x]
           g == b.allowance
           S == DOMAIN b.allowance
           at == <<owner, spender>>
           old == Allowance(b, owner, spender)
           h == Allowed(b, owner, spender, x)
<1>1. /\ f \in [Accounts -> Nat] /\ SumFunction(f) \in Nat
      /\ g \in [S -> Nat] /\ S \subseteq Accounts \X Accounts /\ IsFiniteSet(S)
      /\ SumFunction(g) \in Nat /\ old \in Nat
  BY BookTypes
<1>2. /\ t = [b EXCEPT !.balance = end, !.allowance = h]
      /\ t.balance = end /\ t.allowance = h /\ t.owner = b.owner
  BY DEF Approved, Books
<1>3. f[owner] - x \in Nat /\ f[owner] \in Nat /\ old + x \in Nat
  BY <1>1
<1>4. /\ end \in [Accounts -> Nat] /\ end[owner] = f[owner] - x
      /\ \A a \in Accounts \ {owner} : end[a] = f[a]
  BY <1>1, <1>3
<1>5. /\ at \in Accounts \X Accounts
      /\ h \in [S \cup {at} -> Nat] /\ h[at] = old + x
      /\ \A z \in S \ {at} : h[z] = g[z]
      /\ at \in S => old = g[at]
      /\ at \notin S => old = 0
  <2>1. h = [z \in S \cup {at} |-> IF z = at THEN old + x ELSE g[z]]
    BY DEF Allowed
  <2>2. (at \in S => old = g[at]) /\ (at \notin S => old = 0)
    BY DEF Allowance
  <2> HIDE DEF h, old, at, S, g
  <2>3. h \in [S \cup {at} -> Nat] /\ h[at] = old + x /\ \A z \in S \ {at} : h[z] = g[z]
    BY <2>1, <1>1, <1>3
  <2> QED BY <2>2, <2>3 DEF at
<1>6. t \in Books
  <2>1. S \cup {at} \in SUBSET (Accounts \X Accounts)
    BY <1>1, <1>5
  <2> HIDE DEF h, at, S, end
  <2>2. h \in UNION {[s -> Nat] : s \in SUBSET (Accounts \X Accounts)}
    BY <1>5, <2>1
  <2> QED BY <1>2, <1>4, <2>2 DEF Books
<1>7. SumFunction(end) = SumFunction(f) - x
  <2> HIDE DEF f, end
  <2>0. IsFiniteSet(Accounts) /\ f \in [Accounts -> Int] /\ end \in [Accounts -> Int]
    BY <1>1, <1>4, AccountsAssumption
  <2>1. SumFunction(end) = SumFunction(f) - f[owner] + (f[owner] - x)
    BY <1>3, <1>4, <2>0, SumUpdate
  <2> QED BY <2>1, <1>1, <1>3
<1>8. SumFunction(h) = SumFunction(g) + x
  <2> HIDE DEF g, h, S, at, old
  <2>0. g \in [S -> Int] /\ h \in [S \cup {at} -> Int] /\ old + x \in Int
    BY <1>1, <1>3, <1>5
  <2>1. CASE at \in S
    <3>1. S \cup {at} = S
      BY <2>1
    <3>2. h \in [S -> Int]
      BY <2>0, <3>1
    <3>3. SumFunction(h) = SumFunction(g) - g[at] + (old + x)
      BY <1>1, <1>5, <2>0, <2>1, <3>2, SumUpdate
    <3> QED BY <3>3, <2>1, <1>1, <1>5
  <2>2. CASE at \notin S
    <3>1. \A z \in S : h[z] = g[z]
      BY <1>5, <2>2
    <3> DEFINE T == S \cup {at}
    <3>2. IsFiniteSet(T) /\ at \in T /\ T \ {at} = S
      BY <1>1, <2>2, FS_AddElement
    <3>3. h \in [T -> Int] /\ h[at] \in Int
      BY <2>0
    <3> HIDE DEF T
    <3>4. g \in [T \ {at} -> Int] /\ \A z \in T \ {at} : g[z] = h[z]
      BY <2>0, <3>1, <3>2
    <3>5. SumFunction(g) = SumFunction(h) - h[at] /\ SumFunction(h) \in Int
      BY <3>2, <3>3, <3>4, SumRemove, SumType, SMTT(40)
    <3> QED BY <3>3, <3>5, <2>2, <1>1, <1>5
  <2> QED BY <2>1, <2>2
<1>9. Worth(t) = Worth(b)
  BY <1>1, <1>2, <1>7, <1>8 DEF Worth
<1>10. \A a \in Accounts \ {owner} : end[a] >= f[a]
  BY <1>1, <1>4
<1>11. Allowance(t, owner, spender) = Allowance(b, owner, spender) + x
  <2>1. at \in DOMAIN t.allowance /\ t.allowance[at] = old + x
    BY <1>2, <1>5
  <2> QED BY <2>1 DEF Allowance
<1>12. ASSUME NEW o \in Accounts, NEW s \in Accounts, <<o, s>> # <<owner, spender>>
       PROVE  Allowance(t, o, s) = Allowance(b, o, s)
  <2>1. DOMAIN t.allowance = S \cup {at}
    BY <1>2, <1>5
  <2>2. \A z \in S \ {at} : t.allowance[z] = b.allowance[z]
    BY <1>2, <1>5
  <2>3. <<o, s>> \in DOMAIN t.allowance <=> <<o, s>> \in S
    BY <2>1, <1>12
  <2> QED BY <2>2, <2>3, <1>12 DEF Allowance
<1> QED BY <1>2, <1>4, <1>6, <1>9, <1>10, <1>11, <1>12

\* What is paid out of what was set aside.
LEMMA BookTransferredFrom ==
  ASSUME NEW b \in Books, NEW spender \in Accounts, NEW from \in Accounts, NEW to \in Accounts,
         NEW x \in Nat, CanTransferFrom(b, spender, from, x),
         NEW t, t = TransferredFrom(b, spender, from, to, x)
  PROVE  /\ t \in Books /\ Worth(t) = Worth(b) /\ t.owner = b.owner
         /\ \A a \in Accounts : t.balance[a] >= b.balance[a]
         /\ t.balance[to] = b.balance[to] + x
         /\ Allowance(t, from, spender) = Allowance(b, from, spender) - x
         /\ \A o, s \in Accounts :
              <<o, s>> # <<from, spender>> => Allowance(t, o, s) = Allowance(b, o, s)
<1> DEFINE f == b.balance
           end == [f EXCEPT ![to] = @ + x]
           g == b.allowance
           S == DOMAIN b.allowance
           at == <<from, spender>>
           h == [g EXCEPT ![at] = @ - x]
<1>1. /\ f \in [Accounts -> Nat] /\ SumFunction(f) \in Nat
      /\ g \in [S -> Nat] /\ S \subseteq Accounts \X Accounts /\ IsFiniteSet(S)
      /\ SumFunction(g) \in Nat
  BY BookTypes
<1>2. /\ t = [b EXCEPT !.balance = end, !.allowance = h]
      /\ t.balance = end /\ t.allowance = h /\ t.owner = b.owner
  BY DEF TransferredFrom, Books
<1>3. f[to] + x \in Nat /\ f[to] \in Nat /\ at \in S /\ g[at] \in Nat /\ g[at] - x \in Nat
  BY <1>1 DEF CanTransferFrom
<1>4. /\ end \in [Accounts -> Nat] /\ end[to] = f[to] + x
      /\ \A a \in Accounts \ {to} : end[a] = f[a]
  BY <1>1, <1>3
<1>5. /\ h \in [S -> Nat] /\ h[at] = g[at] - x
      /\ \A z \in S \ {at} : h[z] = g[z]
  <2> HIDE DEF at, S, g
  <2> QED BY <1>1, <1>3
<1>6. t \in Books
  <2> HIDE DEF h, S, end
  <2> QED BY <1>1, <1>2, <1>4, <1>5 DEF Books
<1>7. SumFunction(end) = SumFunction(f) + x
  <2> HIDE DEF f, end
  <2>0. IsFiniteSet(Accounts) /\ f \in [Accounts -> Int] /\ end \in [Accounts -> Int]
    BY <1>1, <1>4, AccountsAssumption
  <2>1. SumFunction(end) = SumFunction(f) - f[to] + (f[to] + x)
    BY <1>3, <1>4, <2>0, SumUpdate
  <2> QED BY <2>1, <1>1, <1>3
<1>8. SumFunction(h) = SumFunction(g) - x
  <2> HIDE DEF g, h, S, at
  <2>0. g \in [S -> Int] /\ h \in [S -> Int] /\ g[at] - x \in Int
    BY <1>1, <1>3, <1>5
  <2>1. SumFunction(h) = SumFunction(g) - g[at] + (g[at] - x)
    BY <1>1, <1>3, <1>5, <2>0, SumUpdate
  <2> QED BY <2>1, <1>1, <1>3
<1>9. Worth(t) = Worth(b)
  BY <1>1, <1>2, <1>7, <1>8 DEF Worth
<1>10. \A a \in Accounts : end[a] >= f[a]
  BY <1>1, <1>4
<1>11. Allowance(t, from, spender) = Allowance(b, from, spender) - x
  <2>1. at \in DOMAIN t.allowance /\ t.allowance[at] = g[at] - x
    BY <1>2, <1>3, <1>5
  <2> QED BY <2>1, <1>3 DEF Allowance
<1>12. ASSUME NEW o \in Accounts, NEW s \in Accounts, <<o, s>> # <<from, spender>>
       PROVE  Allowance(t, o, s) = Allowance(b, o, s)
  <2>1. DOMAIN t.allowance = S
    BY <1>2, <1>5
  <2>2. \A z \in S \ {at} : t.allowance[z] = b.allowance[z]
    BY <1>2, <1>5
  <2> QED BY <2>1, <2>2, <1>12 DEF Allowance
<1> QED BY <1>2, <1>4, <1>6, <1>9, <1>10, <1>11, <1>12

\* What instantiation makes of the parameters.
LEMMA Pooled ==
  ASSUME NEW p \in Plan, Instantiable(p)
  PROVE  /\ Held(p) \in Nat /\ p.supply \in Nat /\ OwnerGrant <= p.supply /\ Held(p) = p.supply - OwnerGrant
         /\ Recorded(p) # Unset =>
              /\ p.liquidity # Unset
              /\ Recorded(p).fungible \in Nat /\ Recorded(p).fungible <= Held(p)
              /\ Recorded(p).native = p.liquidity.native
<1>1. p.supply \in Nat /\ OwnerGrant \in Nat /\ OwnerGrant <= p.supply
  BY LaunchAssumption DEF Plan, Instantiable
<1>2. Held(p) \in Nat /\ Held(p) = p.supply - OwnerGrant
  BY <1>1 DEF Held
<1>3. ASSUME Recorded(p) # Unset
      PROVE  /\ p.liquidity # Unset
             /\ Recorded(p).fungible \in Nat /\ Recorded(p).fungible <= Held(p)
             /\ Recorded(p).native = p.liquidity.native
  <2>1. /\ p.liquidity # Unset /\ ~(PooledAmount(p) <= 0)
        /\ Recorded(p) = [fungible |-> PooledAmount(p), native |-> p.liquidity.native]
    BY <1>3 DEF Recorded
  <2>2. p.liquidity.fungible \in Nat /\ p.liquidity.fungible <= Held(p)
    BY <2>1 DEF Plan, Instantiable
  <2>3. MiningShare(p) \in Nat /\ MiningShare(p) <= Held(p)
    BY <1>2, <2>1 DEF Plan, Instantiable, MiningShare
  <2>4. PooledAmount(p) \in Nat /\ PooledAmount(p) <= Held(p)
    BY <1>2, <2>2, <2>3 DEF PooledAmount
  <2> QED BY <2>1, <2>4
<1> QED BY <1>1, <1>2, <1>3

LEMMA BookInstantiated ==
  ASSUME NEW p \in Plan, Instantiable(p), NEW u \in Users, NEW t, t = Instantiated(p, Home(u))
  PROVE  /\ t \in Books /\ Worth(t) = p.supply
         /\ Allowance(t, Holder, Swap) = IF Recorded(p) = Unset THEN 0 ELSE Recorded(p).fungible
<1> DEFINE creator == Home(u)
           b == Supplied(p, creator)
           granted == Minted(b, creator, OwnerGrant)
           f == [Empty EXCEPT ![Holder] = p.supply]
<1>0. /\ creator \in Accounts /\ Holder \in Accounts /\ Swap \in Accounts /\ Holder # creator
      /\ Holder # Swap /\ IsFiniteSet(Accounts) /\ OwnerGrant \in Nat
  BY AccountsAssumption, LaunchAssumption
<1>1. /\ Held(p) \in Nat /\ p.supply \in Nat /\ OwnerGrant <= p.supply /\ Held(p) = p.supply - OwnerGrant
      /\ Recorded(p) # Unset =>
           Recorded(p).fungible \in Nat /\ Recorded(p).fungible <= Held(p)
  BY Pooled
<1>2. /\ b.balance = f /\ b.allowance = << >> /\ b.owner = creator
      /\ f \in [Accounts -> Nat] /\ f[Holder] = p.supply /\ \A a \in Accounts \ {Holder} : f[a] = 0
  BY <1>0, <1>1 DEF Supplied, Empty
<1>3. b \in Books
  <2>1. << >> \in [{} -> Nat] /\ {} \in SUBSET (Accounts \X Accounts)
    OBVIOUS
  <2>2. << >> \in UNION {[s -> Nat] : s \in SUBSET (Accounts \X Accounts)}
    BY <2>1
  <2>3. b = [balance |-> f, allowance |-> << >>, owner |-> creator]
    BY DEF Supplied
  <2> QED BY <2>2, <2>3, <1>0, <1>2 DEF Books
<1>4. Worth(b) = p.supply /\ Allowance(b, Holder, Swap) = 0
  <2>1. SumFunction(<< >>) = 0
    BY SumEmpty
  <2> DEFINE e == Empty
  <2>2. e \in [Accounts -> {0}] /\ e \in [Accounts -> Int] /\ f \in [Accounts -> Int]
        /\ e[Holder] = 0 /\ \A a \in Accounts \ {Holder} : f[a] = e[a]
    BY <1>0, <1>2 DEF Empty
  <2> HIDE DEF e, f
  <2>3. SumFunction(e) = 0
    BY <1>0, <2>2, SumZero
  <2>4. SumFunction(f) = SumFunction(e) - e[Holder] + p.supply
    BY <1>0, <1>1, <1>2, <2>2, SumUpdate
  <2>5. Worth(b) = p.supply
    BY <2>1, <2>2, <2>3, <2>4, <1>1, <1>2 DEF Worth
  <2>6. <<Holder, Swap>> \notin DOMAIN << >>
    OBVIOUS
  <2> QED BY <2>5, <2>6, <1>2 DEF Allowance
<1> HIDE DEF b, f, creator
<1>5. granted = Transferred(b, Holder, creator, OwnerGrant)
  BY DEF Minted
<1> HIDE DEF granted
<1>6. /\ granted \in Books /\ Worth(granted) = p.supply
      /\ granted.allowance = b.allowance
      /\ granted.balance[Holder] = p.supply - OwnerGrant
  BY <1>0, <1>1, <1>2, <1>3, <1>4, <1>5, BookTransferred
<1>7. Allowance(granted, Holder, Swap) = 0
  BY <1>4, <1>6 DEF Allowance
<1>8. CASE Recorded(p) = Unset
  <2>1. t = granted
    BY <1>8 DEF Instantiated, granted, b, creator
  <2> QED BY <2>1, <1>6, <1>7, <1>8
<1>9. CASE Recorded(p) # Unset
  <2> DEFINE x == Recorded(p).fungible
  <2>1. t = Approved(granted, Holder, Swap, x)
    BY <1>9 DEF Instantiated, granted, b, creator
  <2>2. x \in Nat /\ granted.balance[Holder] >= x
    BY <1>1, <1>6, <1>9, <1>0
  <2> HIDE DEF x
  <2>3. t \in Books /\ Worth(t) = p.supply /\ Allowance(t, Holder, Swap) = 0 + x
    BY <1>0, <1>6, <1>7, <2>1, <2>2, BookApproved
  <2> QED BY <2>2, <2>3, <1>9 DEF x
<1> QED BY <1>8, <1>9

-----------------------------------------------------------------------------
(* What users and miners do to a book is of no concern to the first pool.  *)
BookKept(b, t) ==
  /\ t \in Books /\ Worth(t) = Worth(b)
  /\ Allowance(t, Holder, Swap) = Allowance(b, Holder, Swap)
  /\ \A c \in PoolChains : t.balance[PoolAccount(c)] >= b.balance[PoolAccount(c)]

LEMMA KeptTransferred ==
  ASSUME NEW b \in Books, NEW from \in Accounts, NEW to \in Accounts, NEW x \in Nat,
         CanTransfer(b, from, to, x), \A c \in PoolChains : from # PoolAccount(c)
  PROVE  BookKept(b, Transferred(b, from, to, x))
<1> DEFINE t == Transferred(b, from, to, x)
<1>1. from # to /\ b.balance[from] >= x
  BY DEF CanTransfer
<1>2. t = Transferred(b, from, to, x)
  OBVIOUS
<1> HIDE DEF t
<1>3. /\ t \in Books /\ Worth(t) = Worth(b) /\ t.allowance = b.allowance
      /\ \A a \in Accounts \ {from} : t.balance[a] >= b.balance[a]
  BY <1>1, <1>2, BookTransferred
<1>4. \A c \in PoolChains : t.balance[PoolAccount(c)] >= b.balance[PoolAccount(c)]
  BY <1>3, AccountsAssumption
<1> QED BY <1>3, <1>4 DEF BookKept, Allowance, t

LEMMA TokenKept ==
  ASSUME NEW m \in Memes, meme[m].book \in Books, NEW u \in Users, NEW v \in Users, NEW w \in Users,
         NEW x \in Nat, NEW b, b = meme[m].book
  PROVE  /\ CanTransfer(b, Home(u), Home(v), x) =>
              BookKept(b, Transferred(b, Home(u), Home(v), x))
         /\ CanApprove(b, Home(u), Home(v), x) =>
              BookKept(b, Approved(b, Home(u), Home(v), x))
         /\ CanTransferFrom(b, Home(u), Home(v), x) =>
              BookKept(b, TransferredFrom(b, Home(u), Home(v), Home(w), x))
         /\ CanMint(b, Home(v), x) => BookKept(b, Minted(b, Home(v), x))
         /\ CanMint(b, Miner(u), x) => BookKept(b, Minted(b, Miner(u), x))
         /\ CanTransfer(b, Miner(u), Home(u), x) =>
              BookKept(b, Transferred(b, Miner(u), Home(u), x))
         /\ BookKept(b, [b EXCEPT !.owner = Home(v)])
<1>1. /\ Holder \in Accounts /\ Swap \in Accounts
      /\ \A y \in Users : Home(y) \in Accounts \ {Holder, Swap} /\ Miner(y) \in Accounts \ {Holder, Swap}
      /\ \A c \in PoolChains : PoolAccount(c) \in Accounts \ {Holder, Swap}
  BY AccountsAssumption
<1>2. /\ \A y \in Users, c \in PoolChains : Home(y) # PoolAccount(c) /\ Miner(y) # PoolAccount(c)
  BY DEF Home, Miner, PoolAccount
<1>3. CanTransfer(b, Home(u), Home(v), x) => BookKept(b, Transferred(b, Home(u), Home(v), x))
  BY <1>1, <1>2, KeptTransferred
<1>4. CanTransfer(b, Miner(u), Home(u), x) => BookKept(b, Transferred(b, Miner(u), Home(u), x))
  BY <1>1, <1>2, KeptTransferred
<1>5. \A to \in Accounts : CanMint(b, to, x) => BookKept(b, Minted(b, to, x))
  <2> SUFFICES ASSUME NEW to \in Accounts, CanMint(b, to, x) PROVE BookKept(b, Minted(b, to, x))
    OBVIOUS
  <2>1. CanTransfer(b, Holder, to, x) /\ Minted(b, to, x) = Transferred(b, Holder, to, x)
    BY DEF CanMint, Minted
  <2>2. \A c \in PoolChains : Holder # PoolAccount(c)
    BY <1>1
  <2> QED BY <1>1, <2>1, <2>2, KeptTransferred
<1>6. ASSUME CanApprove(b, Home(u), Home(v), x)
      PROVE  BookKept(b, Approved(b, Home(u), Home(v), x))
  <2> DEFINE o == Home(u)
             s == Home(v)
             t == Approved(b, o, s, x)
  <2>1. o \in Accounts /\ s \in Accounts /\ b.balance[o] >= x /\ <<Holder, Swap>> # <<o, s>>
    BY <1>1, <1>6 DEF CanApprove
  <2>2. \A c \in PoolChains : PoolAccount(c) \in Accounts \ {o}
    BY <1>1, <1>2
  <2>3. t = Approved(b, o, s, x)
    OBVIOUS
  <2> HIDE DEF o, s, t
  <2>4. /\ t \in Books /\ Worth(t) = Worth(b)
        /\ \A a \in Accounts \ {o} : t.balance[a] >= b.balance[a]
        /\ \A a, z \in Accounts : <<a, z>> # <<o, s>> => Allowance(t, a, z) = Allowance(b, a, z)
    BY <2>1, <2>3, BookApproved
  <2>5. BookKept(b, t)
    BY <1>1, <2>1, <2>2, <2>4 DEF BookKept
  <2> QED BY <2>5 DEF t, o, s
<1>7. ASSUME CanTransferFrom(b, Home(u), Home(v), x)
      PROVE  BookKept(b, TransferredFrom(b, Home(u), Home(v), Home(w), x))
  <2> DEFINE s == Home(u)
             from == Home(v)
             to == Home(w)
             t == TransferredFrom(b, s, from, to, x)
  <2>1. /\ s \in Accounts /\ from \in Accounts /\ to \in Accounts /\ <<Holder, Swap>> # <<from, s>>
        /\ CanTransferFrom(b, s, from, x)
    BY <1>1, <1>7
  <2>2. t = TransferredFrom(b, s, from, to, x)
    OBVIOUS
  <2> HIDE DEF s, from, to, t
  <2>4. /\ t \in Books /\ Worth(t) = Worth(b)
        /\ \A a \in Accounts : t.balance[a] >= b.balance[a]
        /\ \A a, z \in Accounts : <<a, z>> # <<from, s>> => Allowance(t, a, z) = Allowance(b, a, z)
    BY <2>1, <2>2, BookTransferredFrom
  <2>5. BookKept(b, t)
    BY <1>1, <2>1, <2>4 DEF BookKept
  <2> QED BY <2>5 DEF t, from, s, to
<1>8. BookKept(b, [b EXCEPT !.owner = Home(v)])
  <2> DEFINE t == [b EXCEPT !.owner = Home(v)]
  <2>1. t.balance = b.balance /\ t.allowance = b.allowance /\ t \in Books
    BY <1>1 DEF Books
  <2>2. \A c \in PoolChains : b.balance[PoolAccount(c)] \in Nat
    BY <1>1, BookTypes
  <2> HIDE DEF t
  <2>3. BookKept(b, t)
    BY <2>1, <2>2 DEF BookKept, Worth, Allowance
  <2> QED BY <2>3 DEF t
<1> QED BY <1>1, <1>3, <1>4, <1>5, <1>6, <1>7, <1>8

-----------------------------------------------------------------------------
(* The inductive invariant of launches.                                    *)

\* The first pools that are registered and paid.
Served == {c \in PoolChains : chain[c].stage = "registered" /\ chain[c].policy = "meme"}

Posts == {<< >>, <<"funds">>, <<"initialize">>, <<"funds", "initialize">>}
MemeRecords ==
  [stage : {"none", "requested", "opened", "rejected", "live"}, creator : Users \cup {Unset},
   purse : Nat, book : Books, funded : BOOLEAN, started : BOOLEAN, mined : BOOLEAN]

LaunchTypes ==
  /\ plan \in [Memes -> Plan] /\ meme \in [Memes -> MemeRecords]
  /\ toRouter \in [Memes -> Posts]
  /\ left \in [requests : Nat, settled : Nat, ops : Nat]
  /\ router \in [fees : Int, native : Int] /\ wallet \in [Users -> Nat]
  /\ paid \in [PoolChains -> Nat]

\* A request is told from the others by its number.
RequestsApart ==
  /\ IsFiniteSet(requests)
  /\ \A q \in requests : q.id \in Nat /\ q.id > left.requests /\ q.user \in Users

\* A pool is initialized once, after the router has paid it.
PoolsPaid ==
  /\ initializing \cup bootstraps \subseteq Served
  /\ initializing \cap bootstraps = {}
  /\ \A c \in PoolChains : paid[c] = IF c \in Served THEN NativeIn(plan[chain[c].pair[1]]) ELSE 0

PaidAhead(m) == meme[m].stage = "live" /\ PoolPaidFor(plan[m])

\* The money goes to the router before the pool is asked for, and a pool is
\* asked for once.
InTurn(m) ==
  /\ meme[m].stage \in {"requested", "opened"} => meme[m].creator \in Users
  /\ meme[m].stage = "live" => Instantiable(plan[m])
  /\ meme[m].funded \/ toRouter[m] # << >> \/ FirstPools(m) # {} => PaidAhead(m)
  /\ meme[m].funded => toRouter[m] \in {<< >>, <<"funds">>} /\ FirstPools(m) = {}
  /\ toRouter[m] \in {<<"initialize">>, <<"funds", "initialize">>} \/ FirstPools(m) # {} =>
       Recorded(plan[m]) # Unset
  /\ FirstPools(m) # {} => toRouter[m] = << >>
  /\ \A c, d \in FirstPools(m) : c = d

\* What was laid out is on the way with the meme until the router is paid.
PurseKept(m) ==
  meme[m].purse = IF meme[m].stage = "none" \/ PaidAhead(m) THEN 0 ELSE LiquidityCost(plan[m])

Owing(m) == Recorded(plan[m]) # Unset /\ \A c \in FirstPools(m) : c \notin Served \/ c \in initializing

\* The books of a live meme, and the allowance of the router until it is used.
BookSound(m) ==
  meme[m].stage = "live" =>
    /\ Worth(meme[m].book) = plan[m].supply
    /\ Allowance(meme[m].book, Holder, Swap) = IF Owing(m) THEN Recorded(plan[m]).fungible ELSE 0
    /\ \A c \in FirstPools(m) \cap bootstraps :
         meme[m].book.balance[PoolAccount(c)] >= Recorded(plan[m]).fungible

MemeSound(m) == InTurn(m) /\ PurseKept(m) /\ BookSound(m)

Shape == LaunchTypes /\ RequestsApart /\ PoolsPaid /\ \A m \in Memes : MemeSound(m)

-----------------------------------------------------------------------------
(* Steps that leave first pools as they are.                               *)

PoolsSame ==
  /\ \A m \in Memes : FirstPools(m)' = FirstPools(m)
  /\ Served' = Served
  /\ \A c \in Served : chain'[c].pair = chain[c].pair

LEMMA ChainTypes ==
  ASSUME RegistryInv
  PROVE  /\ chain \in [PoolChains -> {NoChain} \cup ChainRecords]
         /\ \A c \in PoolChains : c \in Opened <=> chain[c] \in ChainRecords
         /\ \A c \in PoolChains : c \in Opened <=> chain[c] # NoChain
         /\ \A m \in Memes : FirstPools(m) \subseteq Opened
         /\ Opened \subseteq PoolChains /\ Served \subseteq Opened
         /\ \A c \in Served : chain[c].pair \in Orders /\ chain[c].pair[1] \in Memes
                              /\ c \in FirstPools(chain[c].pair[1])
         /\ \A c \in PoolChains, m \in Memes :
              c \in FirstPools(m) <=>
                chain[c].stage # "none" /\ chain[c].policy = "meme" /\ chain[c].pair[1] = m
<1>1. chain \in [PoolChains -> {NoChain} \cup ChainRecords]
  BY DEF RegistryInv, RegistryTypes
<1>2. \A c \in PoolChains : c \in Opened <=> chain[c] \in ChainRecords
  BY <1>1, RecordsDiffer DEF Opened, NoChain
<1>3. \A c \in PoolChains : c \in Opened <=> chain[c] # NoChain
  BY <1>1, <1>2, RecordsDiffer
<1>4. \A c \in Served : chain[c].stage # "none"
  BY DEF Served
<1>5. Opened \subseteq PoolChains /\ Served \subseteq Opened
  BY <1>4 DEF Opened, Served
<1>6. \A c \in Served : chain[c].pair \in Orders
  BY <1>2, <1>5 DEF ChainRecords
<1>7. \A c \in Served : chain[c].pair[1] \in Memes
  BY <1>6 DEF Orders
<1>8. \A c \in PoolChains, m \in Memes :
        c \in FirstPools(m) <=>
          chain[c].stage # "none" /\ chain[c].policy = "meme" /\ chain[c].pair[1] = m
  BY DEF FirstPools, Opened
<1>9. \A c \in Served : c \in FirstPools(chain[c].pair[1])
  BY <1>4, <1>5, <1>7 DEF FirstPools, Served
<1> QED BY <1>1, <1>2, <1>3, <1>5, <1>6, <1>7, <1>8, <1>9 DEF FirstPools

LEMMA PoolsGoOn ==
  ASSUME RegistryInv, NEW c \in Opened, NEW new, chain' = [chain EXCEPT ![c] = new],
         new.stage # "none", new.pair = chain[c].pair, new.policy = chain[c].policy,
         new.policy = "meme" => (new.stage = "registered" <=> chain[c].stage = "registered")
  PROVE  PoolsSame /\ Opened' = Opened
<1>1. c \in PoolChains /\ chain[c].stage # "none"
  BY DEF Opened
<1>2. \A d \in PoolChains : chain'[d] = IF d = c THEN new ELSE chain[d]
  BY <1>1, ChainTypes
<1>3. Opened' = Opened
  BY <1>1, <1>2 DEF Opened
<1>4. \A m \in Memes : FirstPools(m)' = FirstPools(m)
  <2> SUFFICES ASSUME NEW m \in Memes PROVE FirstPools(m)' = FirstPools(m)
    OBVIOUS
  <2>1. FirstPools(m)' = {d \in Opened : chain'[d].policy = "meme" /\ chain'[d].pair[1] = m}
    BY <1>3 DEF FirstPools
  <2>2. \A d \in Opened : d \in PoolChains
    BY DEF Opened
  <2>3. \A d \in Opened : chain'[d].policy = chain[d].policy /\ chain'[d].pair = chain[d].pair
    BY <1>2, <2>2
  <2> QED BY <2>1, <2>3 DEF FirstPools
<1>5. Served' = Served
  <2>1. \A d \in PoolChains :
          chain'[d].stage = "registered" /\ chain'[d].policy = "meme" <=>
            chain[d].stage = "registered" /\ chain[d].policy = "meme"
    BY <1>2
  <2> QED BY <2>1 DEF Served
<1>6. \A d \in Served : chain'[d].pair = chain[d].pair
  BY <1>2 DEF Served
<1> QED BY <1>3, <1>4, <1>5, <1>6 DEF PoolsSame

\* A user's pool is opened.
LEMMA UserChainOpens ==
  ASSUME RegistryInv, NEW c \in PoolChains, NEW p \in Orders, NEW to, OpenPoolChain(c, p, "user", to)
  PROVE  PoolsSame /\ Opened' = Opened \cup {c} /\ c \notin Opened
<1> DEFINE new == [stage |-> "opened", pair |-> p, policy |-> "user",
                   settled |-> 0, news |-> 0, updates |-> << >>]
<1>1. chain' = [chain EXCEPT ![c] = new] /\ chain[c] = NoChain
  BY DEF OpenPoolChain
<1>2. new.stage = "opened" /\ new.policy = "user" /\ c \notin Opened /\ c \notin Served
  BY <1>1, ChainTypes
<1> HIDE DEF new
<1>3. \A d \in PoolChains : chain'[d] = IF d = c THEN new ELSE chain[d]
  BY <1>1, ChainTypes
<1>4. Opened' = Opened \cup {c}
  BY <1>2, <1>3 DEF Opened
<1>5. ASSUME NEW m \in Memes PROVE FirstPools(m)' = FirstPools(m)
  <2>1. FirstPools(m)' = {d \in Opened \cup {c} : chain'[d].policy = "meme" /\ chain'[d].pair[1] = m}
    BY <1>4 DEF FirstPools
  <2>2. \A d \in Opened : d \in PoolChains /\ chain'[d] = chain[d]
    BY <1>2, <1>3 DEF Opened
  <2>3. chain'[c].policy # "meme"
    BY <1>2, <1>3
  <2> QED BY <2>1, <2>2, <2>3 DEF FirstPools
<1>6. Served' = Served /\ \A d \in Served : chain'[d].pair = chain[d].pair
  BY <1>2, <1>3 DEF Served
<1> QED BY <1>2, <1>4, <1>5, <1>6 DEF PoolsSame

LEMMA PoolsUntouched ==
  ASSUME UNCHANGED chain
  PROVE  PoolsSame /\ Opened' = Opened
BY DEF PoolsSame, FirstPools, Opened, Served

\* A meme none of whose matters changes.
LEMMA MemeSame ==
  ASSUME NEW m \in Memes, MemeSound(m), UNCHANGED plan, meme'[m] = meme[m],
         toRouter'[m] = toRouter[m], FirstPools(m)' = FirstPools(m),
         \A c \in FirstPools(m) : /\ c \in Served' <=> c \in Served
                                  /\ c \in initializing' <=> c \in initializing
                                  /\ c \in bootstraps' => c \in bootstraps
  PROVE  MemeSound(m)'
<1>1. InTurn(m)'
  BY DEF MemeSound, InTurn, PaidAhead
<1>2. PurseKept(m)'
  BY DEF MemeSound, PurseKept, PaidAhead
<1>3. Owing(m)' <=> Owing(m)
  BY DEF Owing
<1>4. BookSound(m)'
  BY <1>3 DEF MemeSound, BookSound
<1> QED BY <1>1, <1>2, <1>4 DEF MemeSound

\* Steps that concern no meme.
LEMMA ShapeKept ==
  ASSUME Shape, PoolsSame, UNCHANGED <<plan, meme, toRouter, paid, initializing, router>>,
         bootstraps' \subseteq bootstraps, wallet' \in [Users -> Nat],
         left' \in [requests : Nat, settled : Nat, ops : Nat], RequestsApart'
  PROVE  Shape'
<1>1. LaunchTypes'
  BY DEF Shape, LaunchTypes
<1>2. PoolsPaid'
  <2>1. initializing' \cup bootstraps' \subseteq Served' /\ initializing' \cap bootstraps' = {}
    BY DEF Shape, PoolsPaid, PoolsSame
  <2>2. ASSUME NEW c \in PoolChains
        PROVE  paid'[c] = IF c \in Served' THEN NativeIn(plan'[chain'[c].pair[1]]) ELSE 0
    BY DEF Shape, PoolsPaid, PoolsSame
  <2> QED BY <2>1, <2>2 DEF PoolsPaid
<1>3. ASSUME NEW m \in Memes PROVE MemeSound(m)'
  BY MemeSame DEF Shape, PoolsSame
<1> QED BY <1>1, <1>2, <1>3 DEF Shape

-----------------------------------------------------------------------------
(* Fees and sums.                                                          *)
FeesOf(S) == Fee * Cardinality(S)

LEMMA FeesCounted ==
  ASSUME NEW S, IsFiniteSet(S)
  PROVE  /\ FeesOf(S) \in Nat
         /\ \A x : x \notin S => FeesOf(S \cup {x}) = FeesOf(S) + Fee
         /\ \A x \in S : FeesOf(S \ {x}) = FeesOf(S) - Fee
<1>1. Cardinality(S) \in Nat /\ Fee \in Nat
  BY FS_CardinalityType, LaunchAssumption
<1>2. \A n \in Nat : Fee * n \in Nat /\ Fee * (n + 1) = Fee * n + Fee /\ Fee * (n - 1) = Fee * n - Fee
  BY <1>1
<1>3. FeesOf(S) \in Nat
  BY <1>1, <1>2 DEF FeesOf
<1>4. ASSUME NEW x, x \notin S PROVE FeesOf(S \cup {x}) = FeesOf(S) + Fee
  <2>1. Cardinality(S \cup {x}) = Cardinality(S) + 1
    BY <1>4, FS_AddElement
  <2> QED BY <2>1, <1>1, <1>2 DEF FeesOf
<1>5. ASSUME NEW x \in S PROVE FeesOf(S \ {x}) = FeesOf(S) - Fee
  <2>1. Cardinality(S \ {x}) = Cardinality(S) - 1
    BY <1>5, FS_RemoveElement
  <2> QED BY <2>1, <1>1, <1>2 DEF FeesOf
<1> QED BY <1>3, <1>4, <1>5

-----------------------------------------------------------------------------
(* The money, meme by meme.                                                *)
HasFunds(post) == \E i \in DOMAIN post : post[i] = "funds"
Sending(m) == HasFunds(toRouter[m])

AheadOf(m) == IF PaidAhead(m) /\ Sending(m) THEN LiquidityCost(plan[m]) ELSE 0
OwedOf(m) ==
  IF PaidAhead(m) /\ ~Sending(m) /\ FirstPools(m) \cap Served = {} THEN NativeIn(plan[m]) ELSE 0
IsWaiting(m) == PaidAhead(m) /\ ~Sending(m) /\ FirstPools(m) = {}

PurseOf == [m \in Memes |-> meme[m].purse]
Ahead == [m \in Memes |-> AheadOf(m)]
Owed == [m \in Memes |-> OwedOf(m)]
Waiting == {m \in Memes : IsWaiting(m)}

Balanced ==
  /\ router.fees = FeesOf(Waiting)
  /\ router.native = SumFunction(Owed)
  /\ Cardinality(Users) * Wealth =
       SumFunction(wallet) + SumFunction(PurseOf) + SumFunction(Ahead) + SumFunction(paid)
         + FeesOf(Waiting) + SumFunction(Owed)
         + FeesOf(Created) + FeesOf(requests) + FeesOf(Opened)

LaunchInv == RegistryInv /\ Shape /\ Balanced

LEMMA CostTypes ==
  ASSUME NEW p \in Plan
  PROVE  /\ NativeIn(p) \in Nat /\ LiquidityCost(p) \in Nat
         /\ PoolPaidFor(p) => LiquidityCost(p) = Fee + NativeIn(p)
<1>1. NativeIn(p) \in Nat
  BY DEF NativeIn, Plan
<1> QED BY <1>1, LaunchAssumption DEF LiquidityCost, PoolPaidFor

LEMMA MoneyTerms ==
  ASSUME RegistryInv, Shape
  PROVE  /\ IsFiniteSet(Memes) /\ IsFiniteSet(Users) /\ IsFiniteSet(PoolChains)
         /\ wallet \in [Users -> Int] /\ paid \in [PoolChains -> Int]
         /\ PurseOf \in [Memes -> Int] /\ Ahead \in [Memes -> Int] /\ Owed \in [Memes -> Int]
         /\ IsFiniteSet(Waiting) /\ IsFiniteSet(Created) /\ IsFiniteSet(requests) /\ IsFiniteSet(Opened)
         /\ SumFunction(wallet) \in Int /\ SumFunction(paid) \in Int
         /\ SumFunction(PurseOf) \in Int /\ SumFunction(Ahead) \in Int /\ SumFunction(Owed) \in Int
         /\ FeesOf(Waiting) \in Nat /\ FeesOf(Created) \in Nat /\ FeesOf(requests) \in Nat
         /\ FeesOf(Opened) \in Nat
<1>1. IsFiniteSet(Memes) /\ IsFiniteSet(Users) /\ IsFiniteSet(PoolChains)
  BY LaunchAssumption
<1>2. \A m \in Memes : LiquidityCost(plan[m]) \in Nat /\ NativeIn(plan[m]) \in Nat
  BY CostTypes DEF Shape, LaunchTypes
<1>3. /\ PurseOf \in [Memes -> Int] /\ Ahead \in [Memes -> Int] /\ Owed \in [Memes -> Int]
      /\ wallet \in [Users -> Int] /\ paid \in [PoolChains -> Int]
  <2>1. PurseOf \in [Memes -> Int]
    BY DEF Shape, LaunchTypes, MemeRecords, PurseOf
  <2>2. Ahead \in [Memes -> Int]
    BY <1>2 DEF Ahead, AheadOf
  <2>3. Owed \in [Memes -> Int]
    BY <1>2 DEF Owed, OwedOf
  <2>4. wallet \in [Users -> Int] /\ paid \in [PoolChains -> Int]
    BY DEF Shape, LaunchTypes
  <2> QED BY <2>1, <2>2, <2>3, <2>4
<1>4. /\ SumFunction(wallet) \in Int /\ SumFunction(paid) \in Int
      /\ SumFunction(PurseOf) \in Int /\ SumFunction(Ahead) \in Int /\ SumFunction(Owed) \in Int
  BY <1>1, <1>3, SumType
<1>5. Waiting \subseteq Memes /\ Created \subseteq Memes /\ Opened \subseteq PoolChains
  BY DEF Waiting, Created, Opened
<1>6. IsFiniteSet(Waiting) /\ IsFiniteSet(Created) /\ IsFiniteSet(requests) /\ IsFiniteSet(Opened)
  BY <1>1, <1>5, FS_Subset DEF Shape, RequestsApart
<1>7. /\ FeesOf(Waiting) \in Nat /\ FeesOf(Created) \in Nat /\ FeesOf(requests) \in Nat
      /\ FeesOf(Opened) \in Nat
  BY <1>6, FeesCounted
<1> QED BY <1>1, <1>3, <1>4, <1>6, <1>7

\* The accounts as they are stated.
LEMMA BalancedMeans ==
  ASSUME RegistryInv, Shape, Balanced
  PROVE  MoneyAccounted
<1>1. \A m \in Memes : /\ m \in Paying <=> PaidAhead(m)
                       /\ m \in InFlight <=> PaidAhead(m) /\ Sending(m)
                       /\ m \in Paid <=> PaidAhead(m) /\ ~Sending(m)
  <2> SUFFICES ASSUME NEW m \in Memes
               PROVE  /\ m \in Paying <=> PaidAhead(m)
                      /\ m \in InFlight <=> PaidAhead(m) /\ Sending(m)
                      /\ m \in Paid <=> PaidAhead(m) /\ ~Sending(m)
    OBVIOUS
  <2>1. m \in Paying <=> PaidAhead(m)
    BY DEF Paying, Live, PaidAhead
  <2>2. Sending(m) <=> \E i \in DOMAIN toRouter[m] : toRouter[m][i] = "funds"
    BY DEF Sending, HasFunds
  <2>3. m \in InFlight <=> m \in Paying /\ Sending(m)
    BY <2>2 DEF InFlight
  <2> QED BY <2>1, <2>3 DEF Paid
<1>2. \A m \in Memes : (\A c \in FirstPools(m) : chain[c].stage # "registered")
                         <=> FirstPools(m) \cap Served = {}
  <2>1. \A m \in Memes : \A c \in FirstPools(m) : c \in PoolChains /\ chain[c].policy = "meme"
    BY DEF FirstPools, Opened
  <2> QED BY <2>1 DEF Served
<1>3. \A m \in Memes : m \in Unserved <=> PaidAhead(m) /\ ~Sending(m) /\ FirstPools(m) \cap Served = {}
  BY <1>1, <1>2 DEF Unserved
<1>4. Waiting = {m \in Paid : FirstPools(m) = {}}
  <2>1. Paid \subseteq Memes
    BY DEF Paid, Paying, Live
  <2> QED BY <1>1, <2>1 DEF Waiting, IsWaiting
<1>5. Ahead = [m \in Memes |-> IF m \in InFlight THEN LiquidityCost(plan[m]) ELSE 0]
  BY <1>1 DEF Ahead, AheadOf
<1>6. Owed = [m \in Memes |-> IF m \in Unserved THEN NativeIn(plan[m]) ELSE 0]
  BY <1>3 DEF Owed, OwedOf
<1>7. SentAhead = SumFunction(Ahead) /\ OwedToPools = SumFunction(Owed) /\ Purses = SumFunction(PurseOf)
  BY <1>5, <1>6 DEF SentAhead, OwedToPools, Purses, PurseOf
<1>8. FeesPaid = FeesOf(Created) + FeesOf(requests) + FeesOf(Opened)
  <2>1. Cardinality(Created) \in Nat /\ Cardinality(requests) \in Nat /\ Cardinality(Opened) \in Nat
    BY MoneyTerms, FS_CardinalityType
  <2>2. Fee \in Nat
    BY LaunchAssumption
  <2>3. \A i, j, k \in Nat : Fee * (i + j + k) = Fee * i + Fee * j + Fee * k
    BY <2>2
  <2> QED BY <2>1, <2>3 DEF FeesPaid, FeesOf
<1>9. router.fees = Fee * Cardinality({m \in Paid : FirstPools(m) = {}}) /\ router.native = OwedToPools
  BY <1>4, <1>7 DEF Balanced, FeesOf
<1>10. Cardinality(Users) * Wealth =
       SumFunction(wallet) + Purses + SentAhead + SumFunction(paid)
         + router.fees + router.native + FeesPaid
  <2> DEFINE total == Cardinality(Users) * Wealth
  <2>1. total = SumFunction(wallet) + Purses + SentAhead + SumFunction(paid)
         + router.fees + router.native + FeesOf(Created) + FeesOf(requests) + FeesOf(Opened)
    BY <1>7 DEF Balanced
  <2> HIDE DEF total
  <2>2. router.fees = FeesOf(Waiting) /\ router.native = SumFunction(Owed)
    BY DEF Balanced
  <2>3. total = SumFunction(wallet) + Purses + SentAhead + SumFunction(paid)
         + router.fees + router.native + FeesPaid
    BY <2>1, <2>2, <1>7, <1>8, MoneyTerms
  <2> QED BY <2>3 DEF total
<1> QED BY <1>9, <1>10 DEF MoneyAccounted

-----------------------------------------------------------------------------
(* What of it stays in a step.                                             *)

\* One meme's part changes.
LEMMA OneChanges ==
  ASSUME NEW f \in [Memes -> Int], NEW h \in [Memes -> Int], NEW m \in Memes,
         \A n \in Memes \ {m} : h[n] = f[n]
  PROVE  SumFunction(h) = SumFunction(f) - f[m] + h[m]
<1>1. IsFiniteSet(Memes) /\ h[m] \in Int
  BY LaunchAssumption
<1> QED BY <1>1, SumUpdate

\* The payments of the memes to the router.
PaymentSame(m) ==
  /\ PaidAhead(m)' <=> PaidAhead(m)
  /\ Sending(m)' <=> Sending(m)

LEMMA PaymentsKept ==
  ASSUME UNCHANGED plan, PoolsSame, \A m \in Memes : PaymentSame(m)
  PROVE  UNCHANGED <<Ahead, Owed, Waiting>>
<1>1. \A m \in Memes : AheadOf(m)' = AheadOf(m)
  BY DEF AheadOf, PaymentSame
<1>2. \A m \in Memes : OwedOf(m)' = OwedOf(m)
  BY DEF OwedOf, PaymentSame, PoolsSame
<1>3. \A m \in Memes : IsWaiting(m)' <=> IsWaiting(m)
  BY DEF IsWaiting, PaymentSame, PoolsSame
<1> QED BY <1>1, <1>2, <1>3 DEF Ahead, Owed, Waiting

\* Steps that concern no meme's money.
LEMMA MemesMoneyKept ==
  ASSUME UNCHANGED <<plan, toRouter>>, PoolsSame,
         \A m \in Memes : /\ meme'[m].stage = "none" <=> meme[m].stage = "none"
                          /\ meme'[m].stage = "live" <=> meme[m].stage = "live"
                          /\ meme'[m].purse = meme[m].purse
  PROVE  UNCHANGED <<Ahead, Owed, Waiting, PurseOf, Created>>
<1>1. \A m \in Memes : PaymentSame(m)
  BY DEF PaymentSame, PaidAhead, Sending
<1>2. UNCHANGED <<PurseOf, Created>>
  BY DEF PurseOf, Created
<1> QED BY <1>1, <1>2, PaymentsKept

LEMMA BalancedKept ==
  ASSUME RegistryInv, Shape, Balanced, UNCHANGED <<plan, toRouter, paid, router>>, PoolsSame,
         \A m \in Memes : /\ meme'[m].stage = "none" <=> meme[m].stage = "none"
                          /\ meme'[m].stage = "live" <=> meme[m].stage = "live"
                          /\ meme'[m].purse = meme[m].purse,
         SumFunction(wallet') \in Int, FeesOf(requests') \in Int, FeesOf(Opened') \in Int,
         SumFunction(wallet') + FeesOf(requests') + FeesOf(Opened') =
           SumFunction(wallet) + FeesOf(requests) + FeesOf(Opened)
  PROVE  Balanced'
<1>1. UNCHANGED <<Ahead, Owed, Waiting, PurseOf, Created>>
  BY MemesMoneyKept
<1> DEFINE total == Cardinality(Users) * Wealth
<1>2. total = SumFunction(wallet) + SumFunction(PurseOf) + SumFunction(Ahead) + SumFunction(paid)
         + FeesOf(Waiting) + SumFunction(Owed)
         + FeesOf(Created) + FeesOf(requests) + FeesOf(Opened)
  BY DEF Balanced
<1> HIDE DEF total
<1>3. total = SumFunction(wallet') + SumFunction(PurseOf) + SumFunction(Ahead) + SumFunction(paid)
         + FeesOf(Waiting) + SumFunction(Owed)
         + FeesOf(Created) + FeesOf(requests') + FeesOf(Opened')
  <2> DEFINE others == SumFunction(PurseOf) + SumFunction(Ahead) + SumFunction(paid)
                         + FeesOf(Waiting) + SumFunction(Owed) + FeesOf(Created)
  <2>1. /\ others \in Int /\ SumFunction(wallet) \in Int /\ FeesOf(requests) \in Int
        /\ FeesOf(Opened) \in Int
    BY MoneyTerms
  <2>2. total = others + (SumFunction(wallet) + FeesOf(requests) + FeesOf(Opened))
    BY <1>2, MoneyTerms
  <2>3. total = others + (SumFunction(wallet') + FeesOf(requests') + FeesOf(Opened'))
    BY <2>2
  <2> QED BY <2>3, MoneyTerms
<1>4. total = (SumFunction(wallet) + SumFunction(PurseOf) + SumFunction(Ahead) + SumFunction(paid)
         + FeesOf(Waiting) + SumFunction(Owed)
         + FeesOf(Created) + FeesOf(requests) + FeesOf(Opened))'
  BY <1>1, <1>3
<1>5. router'.fees = FeesOf(Waiting') /\ router'.native = SumFunction(Owed')
  BY <1>1 DEF Balanced
<1> QED BY <1>1, <1>4, <1>5 DEF Balanced, total, FeesOf

LEMMA SecondAppended ==
  ASSUME NEW S, NEW s \in Seq(S), Len(s) = 1, NEW x \in S
  PROVE  Append(s, x) = <<s[1], x>>
<1> DEFINE t == Append(s, x)
<1>1. t \in Seq(S)
  OBVIOUS
<1>2. Len(t) = Len(s) + 1
  BY AppendProperties
<1>3. \A i \in 1 .. Len(s) : t[i] = s[i]
  BY AppendProperties
<1>4. t[Len(s) + 1] = x
  BY AppendProperties
<1>5. Len(t) = 2 /\ t[1] = s[1] /\ t[2] = x
  <2> HIDE DEF t
  <2>1. 1 \in 1 .. Len(s)
    OBVIOUS
  <2> QED BY <1>2, <1>3, <1>4, <2>1
<1> HIDE DEF t
<1>6. t = <<s[1], x>>
  BY <1>1, <1>5
<1> QED BY <1>6 DEF t

\* The messages of a meme's chain to the router.
LEMMA PostsTaken ==
  /\ Append(<< >>, "funds") = <<"funds">> /\ Append(<<"funds">>, "initialize") = <<"funds", "initialize">>
  /\ Append(<< >>, "initialize") = <<"initialize">>
  /\ Head(<<"funds">>) = "funds" /\ Head(<<"initialize">>) = "initialize"
  /\ Head(<<"funds", "initialize">>) = "funds"
  /\ Tail(<<"funds">>) = << >> /\ Tail(<<"initialize">>) = << >>
  /\ Tail(<<"funds", "initialize">>) = <<"initialize">>
  /\ <<"funds">> # << >> /\ <<"initialize">> # << >> /\ <<"funds", "initialize">> # << >>
  /\ <<"funds">> # <<"initialize">> /\ <<"funds">> # <<"funds", "initialize">>
  /\ <<"initialize">> # <<"funds", "initialize">>
<1>1. /\ Append(<< >>, "funds") = <<"funds">>
      /\ Append(<<"funds">>, "initialize") = <<"funds", "initialize">>
      /\ Append(<< >>, "initialize") = <<"initialize">>
  <2>1. Append(<< >>, "funds") = <<"funds">> /\ Append(<< >>, "initialize") = <<"initialize">>
    OBVIOUS
  <2>2. Append(<<"funds">>, "initialize") = <<"funds", "initialize">>
    <3> DEFINE S == {"funds", "initialize"}
               s == <<"funds">>
               x == "initialize"
    <3>1. s \in Seq(S) /\ Len(s) = 1 /\ s[1] = "funds" /\ x \in S
      OBVIOUS
    <3> HIDE DEF S, s, x
    <3>2. Append(s, x) = <<s[1], x>>
      BY <3>1, SecondAppended
    <3> QED BY <3>1, <3>2 DEF s, x
  <2> QED BY <2>1, <2>2
<1>2. /\ Head(<<"funds">>) = "funds" /\ Head(<<"initialize">>) = "initialize"
      /\ Head(<<"funds", "initialize">>) = "funds"
  OBVIOUS
<1>3. /\ Tail(<<"funds">>) = << >> /\ Tail(<<"initialize">>) = << >>
      /\ Tail(<<"funds", "initialize">>) = <<"initialize">>
  OBVIOUS
<1>4. <<"funds">> # << >> /\ <<"initialize">> # << >> /\ <<"funds", "initialize">> # << >>
  OBVIOUS
<1>5. /\ <<"funds">> # <<"initialize">> /\ <<"funds">> # <<"funds", "initialize">>
      /\ <<"initialize">> # <<"funds", "initialize">>
  OBVIOUS
<1> QED BY <1>1, <1>2, <1>3, <1>4, <1>5

LEMMA PostsSending ==
  /\ ~HasFunds(<< >>) /\ ~HasFunds(<<"initialize">>)
  /\ HasFunds(<<"funds">>) /\ HasFunds(<<"funds", "initialize">>)
<1>1. ~HasFunds(<< >>)
  BY DEF HasFunds
<1>2. ~HasFunds(<<"initialize">>)
  <2>1. DOMAIN <<"initialize">> = {1} /\ <<"initialize">>[1] = "initialize"
    OBVIOUS
  <2> QED BY <2>1 DEF HasFunds
<1>3. HasFunds(<<"funds">>)
  <2>1. 1 \in DOMAIN <<"funds">> /\ <<"funds">>[1] = "funds"
    OBVIOUS
  <2> QED BY <2>1 DEF HasFunds
<1>4. HasFunds(<<"funds", "initialize">>)
  <2>1. 1 \in DOMAIN <<"funds", "initialize">> /\ <<"funds", "initialize">>[1] = "funds"
    OBVIOUS
  <2> QED BY <2>1 DEF HasFunds
<1> QED BY <1>1, <1>2, <1>3, <1>4

-----------------------------------------------------------------------------
(* Steps of chains and requests.                                           *)
Kept == Shape' /\ Balanced'

LEMMA ChainsGoOn ==
  ASSUME RegistryInv, Shape, Balanced, PoolsSame, Opened' = Opened,
         UNCHANGED <<plan, meme, toRouter, paid, initializing, router, requests, wallet>>,
         bootstraps' \subseteq bootstraps,
         left' \in [requests : Nat, settled : Nat, ops : Nat], left'.requests = left.requests
  PROVE  Kept
<1>1. RequestsApart'
  BY DEF Shape, RequestsApart
<1>2. wallet' \in [Users -> Nat]
  BY DEF Shape, LaunchTypes
<1>3. Shape'
  BY <1>1, <1>2, ShapeKept
<1>4. /\ SumFunction(wallet') = SumFunction(wallet) /\ FeesOf(requests') = FeesOf(requests)
      /\ FeesOf(Opened') = FeesOf(Opened)
  OBVIOUS
<1>5. SumFunction(wallet') \in Int /\ FeesOf(requests') \in Int /\ FeesOf(Opened') \in Int
  BY <1>4, MoneyTerms
<1>6. Balanced'
  BY <1>4, <1>5, BalancedKept
<1> QED BY <1>3, <1>6 DEF Kept

\* What the user whose request is refused gets back.
LEMMA RequestRefused ==
  ASSUME RegistryInv, Shape, Balanced, NEW q \in requests, UserPoolRefused(q), UNCHANGED lvars
  PROVE  Kept
<1> DEFINE u == q.user
<1>1. u \in Users /\ Fee \in Nat /\ wallet \in [Users -> Nat]
  BY LaunchAssumption DEF Shape, RequestsApart, LaunchTypes
<1>2. /\ requests' = requests \ {q} /\ wallet' = [wallet EXCEPT ![u] = @ + Fee]
      /\ UNCHANGED <<chain, router, plan, meme, toRouter, paid, initializing, bootstraps, left>>
  BY DEF UserPoolRefused, lvars
<1> HIDE DEF u
<1>3. PoolsSame /\ Opened' = Opened
  BY <1>2, PoolsUntouched
<1>4. RequestsApart'
  <2>1. IsFiniteSet(requests \ {q})
    BY FS_RemoveElement DEF Shape, RequestsApart
  <2> QED BY <1>2, <2>1 DEF Shape, RequestsApart
<1>5. /\ wallet' \in [Users -> Nat] /\ wallet' \in [Users -> Int] /\ wallet'[u] = wallet[u] + Fee
      /\ wallet[u] + Fee \in Int /\ wallet[u] \in Int
      /\ \A v \in Users \ {u} : wallet'[v] = wallet[v]
  BY <1>1, <1>2
<1>6. left' \in [requests : Nat, settled : Nat, ops : Nat]
  BY <1>2 DEF Shape, LaunchTypes
<1>7. Shape'
  BY <1>2, <1>3, <1>4, <1>5, <1>6, ShapeKept
<1>8. SumFunction(wallet') = SumFunction(wallet) - wallet[u] + (wallet[u] + Fee)
  <2>1. IsFiniteSet(Users) /\ wallet \in [Users -> Int]
    BY MoneyTerms
  <2> QED BY <1>1, <1>5, <2>1, SumUpdate
<1>9. FeesOf(requests') = FeesOf(requests) - Fee
  BY <1>2, MoneyTerms, FeesCounted
<1>10. FeesOf(Opened') = FeesOf(Opened)
  BY <1>3
<1>11. Balanced'
  <2>1. /\ SumFunction(wallet) \in Int /\ FeesOf(requests) \in Int /\ FeesOf(Opened) \in Int
    BY MoneyTerms
  <2>2. /\ SumFunction(wallet') \in Int /\ FeesOf(requests') \in Int /\ FeesOf(Opened') \in Int
        /\ SumFunction(wallet') + FeesOf(requests') + FeesOf(Opened') =
             SumFunction(wallet) + FeesOf(requests) + FeesOf(Opened)
    BY <2>1, <1>1, <1>5, <1>8, <1>9, <1>10
  <2> QED BY <1>2, <1>3, <2>2, BalancedKept
<1> QED BY <1>7, <1>11 DEF Kept

\* A request becomes a chain.
LEMMA RequestServed ==
  ASSUME RegistryInv, Shape, Balanced, NEW q \in requests, NEW c \in PoolChains, UserPoolOpened(q, c),
         UNCHANGED lvars
  PROVE  Kept
<1>1. /\ requests' = requests \ {q} /\ q.pair \in Orders
      /\ OpenPoolChain(c, q.pair, "user", router) /\ router' = router
      /\ UNCHANGED <<wallet, plan, meme, toRouter, paid, initializing, bootstraps, left>>
  BY DEF UserPoolOpened, OpenPoolChain, lvars, RegistryInv, RegistryTypes
<1>2. PoolsSame /\ Opened' = Opened \cup {c} /\ c \notin Opened
  BY <1>1, UserChainOpens
<1>3. RequestsApart'
  <2>1. IsFiniteSet(requests \ {q})
    BY FS_RemoveElement DEF Shape, RequestsApart
  <2> QED BY <1>1, <2>1 DEF Shape, RequestsApart
<1>4. wallet' \in [Users -> Nat] /\ left' \in [requests : Nat, settled : Nat, ops : Nat]
  BY <1>1 DEF Shape, LaunchTypes
<1>5. Shape'
  BY <1>1, <1>2, <1>3, <1>4, ShapeKept
<1>6. FeesOf(requests') = FeesOf(requests) - Fee
  BY <1>1, MoneyTerms, FeesCounted
<1>7. FeesOf(Opened') = FeesOf(Opened) + Fee
  BY <1>2, MoneyTerms, FeesCounted
<1>8. SumFunction(wallet') = SumFunction(wallet)
  BY <1>1
<1>9. Balanced'
  <2>1. /\ SumFunction(wallet) \in Int /\ FeesOf(requests) \in Int /\ FeesOf(Opened) \in Int
        /\ Fee \in Nat
    BY MoneyTerms, LaunchAssumption
  <2>2. /\ SumFunction(wallet') \in Int /\ FeesOf(requests') \in Int /\ FeesOf(Opened') \in Int
        /\ SumFunction(wallet') + FeesOf(requests') + FeesOf(Opened') =
             SumFunction(wallet) + FeesOf(requests) + FeesOf(Opened)
    BY <2>1, <1>6, <1>7, <1>8
  <2> QED BY <1>1, <1>2, <2>2, BalancedKept
<1> QED BY <1>5, <1>9 DEF Kept

\* A user asks for a pool.
LEMMA RequestMade ==
  ASSUME RegistryInv, Shape, Balanced, NEW u \in Users, NEW p \in Orders, UserCreatesPool(u, p)
  PROVE  Kept
<1> DEFINE q == [id |-> left.requests, user |-> u, pair |-> p]
<1>1. /\ wallet[u] >= Fee /\ wallet' = [wallet EXCEPT ![u] = @ - Fee]
      /\ requests' = requests \cup {q} /\ left.requests > 0
      /\ left' = [left EXCEPT !.requests = @ - 1]
      /\ UNCHANGED <<chain, router, plan, meme, toRouter, paid, initializing, bootstraps>>
  BY DEF UserCreatesPool, CreatePool
<1>2. /\ q.id = left.requests /\ q.user = u /\ left.requests \in Nat
      /\ left \in [requests : Nat, settled : Nat, ops : Nat]
  BY DEF Shape, LaunchTypes
<1> HIDE DEF q
<1>3. /\ left' \in [requests : Nat, settled : Nat, ops : Nat]
      /\ left'.requests = left.requests - 1
  BY <1>1, <1>2
<1>4. q \notin requests
  BY <1>2 DEF Shape, RequestsApart
<1>5. RequestsApart'
  <2>1. IsFiniteSet(requests \cup {q})
    BY FS_AddElement DEF Shape, RequestsApart
  <2>2. \A r \in requests : r.id \in Nat /\ r.id > left'.requests /\ r.user \in Users
    BY <1>2, <1>3 DEF Shape, RequestsApart
  <2>3. q.id \in Nat /\ q.id > left'.requests /\ q.user \in Users
    BY <1>2, <1>3
  <2> QED BY <1>1, <2>1, <2>2, <2>3 DEF RequestsApart
<1>6. PoolsSame /\ Opened' = Opened
  BY <1>1, PoolsUntouched
<1>7. /\ wallet' \in [Users -> Nat] /\ wallet' \in [Users -> Int] /\ wallet'[u] = wallet[u] - Fee
      /\ wallet[u] - Fee \in Int /\ wallet[u] \in Int /\ Fee \in Nat
      /\ \A v \in Users \ {u} : wallet'[v] = wallet[v]
  <2>1. wallet \in [Users -> Nat] /\ Fee \in Nat
    BY LaunchAssumption DEF Shape, LaunchTypes
  <2>2. wallet[u] - Fee \in Nat
    BY <1>1, <2>1
  <2> QED BY <1>1, <2>1, <2>2
<1>8. Shape'
  BY <1>1, <1>3, <1>5, <1>6, <1>7, ShapeKept
<1>9. SumFunction(wallet') = SumFunction(wallet) - wallet[u] + (wallet[u] - Fee)
  <2>1. IsFiniteSet(Users) /\ wallet \in [Users -> Int]
    BY MoneyTerms
  <2> QED BY <1>7, <2>1, SumUpdate
<1>10. FeesOf(requests') = FeesOf(requests) + Fee
  BY <1>1, <1>4, MoneyTerms, FeesCounted
<1>11. FeesOf(Opened') = FeesOf(Opened)
  BY <1>6
<1>12. Balanced'
  <2>1. /\ SumFunction(wallet) \in Int /\ FeesOf(requests) \in Int /\ FeesOf(Opened) \in Int
    BY MoneyTerms
  <2>2. /\ SumFunction(wallet') \in Int /\ FeesOf(requests') \in Int /\ FeesOf(Opened') \in Int
        /\ SumFunction(wallet') + FeesOf(requests') + FeesOf(Opened') =
             SumFunction(wallet) + FeesOf(requests) + FeesOf(Opened)
    BY <2>1, <1>7, <1>9, <1>10, <1>11
  <2> QED BY <1>1, <1>6, <2>2, BalancedKept
<1> QED BY <1>8, <1>12 DEF Kept

\* A pool settles a transaction.
LEMMA PoolGoesOn ==
  ASSUME RegistryInv, NEW c \in PoolChains, PoolSettles(c)
  PROVE  PoolsSame /\ Opened' = Opened /\ UNCHANGED <<router, requests, wallet>>
<1> DEFINE new == [chain[c] EXCEPT !.settled = chain[c].settled + 1, !.news = chain[c].news + 1]
<1>1. chain' = [chain EXCEPT ![c] = new] /\ chain[c].stage # "none"
  BY DEF PoolSettles
<1>2. c \in Opened /\ chain[c] \in ChainRecords
  BY <1>1, ChainTypes DEF Opened
<1>3. new.stage = chain[c].stage /\ new.pair = chain[c].pair /\ new.policy = chain[c].policy
  BY <1>2 DEF ChainRecords
<1> HIDE DEF new
<1>4. PoolsSame /\ Opened' = Opened
  BY <1>1, <1>2, <1>3, PoolsGoOn
<1> QED BY <1>4 DEF PoolSettles

LEMMA RoutedKept ==
  ASSUME RegistryInv, Shape, Balanced, Routed, UNCHANGED lvars
  PROVE  Kept
<1>0. /\ UNCHANGED <<plan, meme, toRouter, paid, initializing>> /\ bootstraps' \subseteq bootstraps
      /\ left' \in [requests : Nat, settled : Nat, ops : Nat] /\ left'.requests = left.requests
  BY DEF lvars, Shape, LaunchTypes
<1>1. ASSUME NEW q \in requests, UserPoolRefused(q) PROVE Kept
  BY <1>1, RequestRefused
<1>2. ASSUME NEW q \in requests, NEW c \in PoolChains, UserPoolOpened(q, c) PROVE Kept
  BY <1>2, RequestServed
<1>3. ASSUME NEW c \in PoolChains, NEW new, chain' = [chain EXCEPT ![c] = new],
             chain[c].stage # "none", new.stage # "none", new.pair = chain[c].pair,
             new.policy = chain[c].policy,
             new.policy = "meme" => (new.stage = "registered" <=> chain[c].stage = "registered"),
             UNCHANGED <<router, requests, wallet>>
      PROVE  Kept
  <2>1. c \in Opened
    BY <1>3 DEF Opened
  <2>2. PoolsSame /\ Opened' = Opened
    BY <1>3, <2>1, PoolsGoOn
  <2> QED BY <1>0, <1>3, <2>2, ChainsGoOn
<1>4. \A c \in PoolChains : chain[c].stage # "none" => chain[c] \in ChainRecords
  BY ChainTypes DEF Opened
<1>5. ASSUME NEW c \in PoolChains, PoolBuilt(c) \/ PoolCreatedForUser(c) \/ PoolCreatedRejected(c)
      PROVE  Kept
  <2>1. chain[c] \in ChainRecords /\ UNCHANGED <<router, requests, wallet>>
    BY <1>4, <1>5 DEF PoolBuilt, PoolCreatedForUser, PoolCreatedRejected
  <2>2. CASE PoolBuilt(c)
    <3> DEFINE new == [chain[c] EXCEPT !.stage = "built"]
    <3>1. chain' = [chain EXCEPT ![c] = new] /\ chain[c].stage = "opened"
      BY <2>2 DEF PoolBuilt
    <3>2. new.stage = "built" /\ new.pair = chain[c].pair /\ new.policy = chain[c].policy
      BY <2>1 DEF ChainRecords
    <3> HIDE DEF new
    <3> QED BY <2>1, <3>1, <3>2, <1>3
  <2>3. CASE PoolCreatedForUser(c)
    <3> DEFINE new == [chain[c] EXCEPT !.stage = "registered"]
    <3>1. chain' = [chain EXCEPT ![c] = new] /\ chain[c].stage = "built" /\ chain[c].policy = "user"
      BY <2>3 DEF PoolCreatedForUser
    <3>2. new.stage = "registered" /\ new.pair = chain[c].pair /\ new.policy = chain[c].policy
      BY <2>1 DEF ChainRecords
    <3> HIDE DEF new
    <3> QED BY <2>1, <3>1, <3>2, <1>3
  <2>4. CASE PoolCreatedRejected(c)
    <3> DEFINE new == [chain[c] EXCEPT !.stage = "refused"]
    <3>1. chain' = [chain EXCEPT ![c] = new] /\ chain[c].stage = "built"
      BY <2>4 DEF PoolCreatedRejected
    <3>2. new.stage = "refused" /\ new.pair = chain[c].pair /\ new.policy = chain[c].policy
      BY <2>1 DEF ChainRecords
    <3> HIDE DEF new
    <3> QED BY <2>1, <3>1, <3>2, <1>3
  <2> QED BY <1>5, <2>2, <2>3, <2>4
<1>6. ASSUME NEW c \in PoolChains, NewTransaction(c) PROVE Kept
  <2> DEFINE new == [chain[c] EXCEPT !.news = chain[c].news - 1,
                                     !.updates = Append(chain[c].updates, chain[c].settled)]
  <2>1. /\ chain' = [chain EXCEPT ![c] = new] /\ chain[c].stage # "none"
        /\ UNCHANGED <<router, requests, wallet>>
    BY <1>6 DEF NewTransaction
  <2>2. new.stage = chain[c].stage /\ new.pair = chain[c].pair /\ new.policy = chain[c].policy
    BY <1>4, <2>1 DEF ChainRecords
  <2> HIDE DEF new
  <2> QED BY <2>1, <2>2, <1>3
<1>7. ASSUME NEW c \in PoolChains, UpdatePool(c) \/ UpdatePoolRejected(c) PROVE Kept
  <2> DEFINE new == [chain[c] EXCEPT !.updates = Tail(@)]
  <2>1. /\ chain' = [chain EXCEPT ![c] = new] /\ chain[c].stage # "none"
        /\ UNCHANGED <<router, requests, wallet>>
    BY <1>7 DEF UpdatePool, UpdatePoolRejected, TakeUpdate
  <2>2. new.stage = chain[c].stage /\ new.pair = chain[c].pair /\ new.policy = chain[c].policy
    BY <1>4, <2>1 DEF ChainRecords
  <2> HIDE DEF new
  <2> QED BY <2>1, <2>2, <1>3
<1> QED BY <1>1, <1>2, <1>5, <1>6, <1>7 DEF Routed

\* Transactions in the pools, the first one of a meme's pool among them.
LEMMA PoolsKept ==
  ASSUME RegistryInv, Shape, Balanced, NEW c \in PoolChains,
         PoolUsed(c) \/ PoolInitialized(c) \/ PoolInitializeRejected(c)
  PROVE  Kept
<1>1. left \in [requests : Nat, settled : Nat, ops : Nat]
  BY DEF Shape, LaunchTypes
<1>2. CASE PoolUsed(c)
  <2>1. left' \in [requests : Nat, settled : Nat, ops : Nat] /\ left'.requests = left.requests
    BY <1>1, <1>2 DEF PoolUsed
  <2>2. PoolsSame /\ Opened' = Opened /\ UNCHANGED <<router, requests, wallet>>
    BY <1>2, PoolGoesOn DEF PoolUsed
  <2>3. UNCHANGED <<plan, meme, toRouter, paid, initializing>> /\ bootstraps' \subseteq bootstraps
    BY <1>2 DEF PoolUsed
  <2> QED BY <2>1, <2>2, <2>3, ChainsGoOn
<1>3. CASE PoolInitialized(c)
  <2>1. left' \in [requests : Nat, settled : Nat, ops : Nat] /\ left'.requests = left.requests
    BY <1>1, <1>3 DEF PoolInitialized
  <2>2. PoolsSame /\ Opened' = Opened /\ UNCHANGED <<router, requests, wallet>>
    BY <1>3, PoolGoesOn DEF PoolInitialized
  <2>3. UNCHANGED <<plan, meme, toRouter, paid, initializing>> /\ bootstraps' \subseteq bootstraps
    BY <1>3 DEF PoolInitialized
  <2> QED BY <2>1, <2>2, <2>3, ChainsGoOn
<1>4. CASE PoolInitializeRejected(c)
  <2>1. left' \in [requests : Nat, settled : Nat, ops : Nat] /\ left'.requests = left.requests
    BY <1>1, <1>4 DEF PoolInitializeRejected
  <2>2. UNCHANGED <<chain, router, requests, wallet>>
    BY <1>4 DEF PoolInitializeRejected, rvars
  <2>3. UNCHANGED <<plan, meme, toRouter, paid, initializing>> /\ bootstraps' \subseteq bootstraps
    BY <1>4 DEF PoolInitializeRejected
  <2> QED BY <2>1, <2>2, <2>3, ChainsGoOn, PoolsUntouched
<1> QED BY <1>2, <1>3, <1>4

-----------------------------------------------------------------------------
(* Steps of one meme.                                                      *)

LEMMA OtherMemes ==
  ASSUME Shape, NEW m \in Memes, MemeSound(m)', UNCHANGED plan,
         \A n \in Memes \ {m} :
           /\ meme'[n] = meme[n] /\ toRouter'[n] = toRouter[n] /\ FirstPools(n)' = FirstPools(n)
           /\ \A c \in FirstPools(n) : /\ c \in Served' <=> c \in Served
                                       /\ c \in initializing' <=> c \in initializing
                                       /\ c \in bootstraps' => c \in bootstraps
  PROVE  \A n \in Memes : MemeSound(n)'
<1> SUFFICES ASSUME NEW n \in Memes PROVE MemeSound(n)'
  OBVIOUS
<1>1. CASE n = m
  BY <1>1
<1>2. CASE n # m
  BY <1>2, MemeSame DEF Shape
<1> QED BY <1>1, <1>2

\* A step that changes one meme and its messages to the router.
LEMMA MemeShape ==
  ASSUME Shape, NEW m \in Memes, NEW new \in MemeRecords, meme' = [meme EXCEPT ![m] = new],
         toRouter' \in [Memes -> Posts], \A n \in Memes \ {m} : toRouter'[n] = toRouter[n],
         PoolsSame, UNCHANGED <<plan, paid, initializing, bootstraps, requests>>,
         router' \in [fees : Int, native : Int], wallet' \in [Users -> Nat],
         left' \in [requests : Nat, settled : Nat, ops : Nat], left'.requests = left.requests,
         MemeSound(m)'
  PROVE  Shape'
<1>1. meme \in [Memes -> MemeRecords]
  BY DEF Shape, LaunchTypes
<1>2. LaunchTypes'
  BY <1>1 DEF Shape, LaunchTypes
<1>3. RequestsApart'
  BY DEF Shape, RequestsApart
<1>4. PoolsPaid'
  <2>1. initializing' \cup bootstraps' \subseteq Served' /\ initializing' \cap bootstraps' = {}
    BY DEF Shape, PoolsPaid, PoolsSame
  <2>2. ASSUME NEW c \in PoolChains
        PROVE  paid'[c] = IF c \in Served' THEN NativeIn(plan'[chain'[c].pair[1]]) ELSE 0
    BY DEF Shape, PoolsPaid, PoolsSame
  <2> QED BY <2>1, <2>2 DEF PoolsPaid
<1>5. \A n \in Memes : MemeSound(n)'
  <2>1. ASSUME NEW n \in Memes \ {m}
        PROVE  /\ meme'[n] = meme[n] /\ toRouter'[n] = toRouter[n] /\ FirstPools(n)' = FirstPools(n)
               /\ \A c \in FirstPools(n) : /\ c \in Served' <=> c \in Served
                                           /\ c \in initializing' <=> c \in initializing
                                           /\ c \in bootstraps' => c \in bootstraps
    BY <1>1 DEF PoolsSame
  <2> QED BY <2>1, OtherMemes
<1> QED BY <1>2, <1>3, <1>4, <1>5 DEF Shape

\* What users and miners do with a token.
LEMMA BookStep ==
  ASSUME RegistryInv, Shape, Balanced, NEW m \in Memes, NEW new \in MemeRecords,
         meme' = [meme EXCEPT ![m] = new],
         meme[m].stage = "live" => BookKept(meme[m].book, new.book),
         new.stage = meme[m].stage, new.creator = meme[m].creator, new.purse = meme[m].purse,
         new.funded = meme[m].funded,
         UNCHANGED <<rvars, plan, paid, toRouter, initializing, bootstraps>>,
         left' \in [requests : Nat, settled : Nat, ops : Nat], left'.requests = left.requests
  PROVE  Kept
<1>1. UNCHANGED <<chain, requests, router, wallet, plan, paid, toRouter, initializing, bootstraps>>
  BY DEF rvars
<1>2. PoolsSame /\ Opened' = Opened
  BY <1>1, PoolsUntouched
<1>3. meme \in [Memes -> MemeRecords] /\ meme'[m] = new /\ \A n \in Memes \ {m} : meme'[n] = meme[n]
  BY DEF Shape, LaunchTypes
<1>4. MemeSound(m)'
  <2>1. MemeSound(m)
    BY DEF Shape
  <2>2. FirstPools(m)' = FirstPools(m) /\ Served' = Served
    BY <1>2 DEF PoolsSame
  <2>3. InTurn(m)' /\ PurseKept(m)'
    BY <1>1, <1>3, <2>1, <2>2 DEF MemeSound, InTurn, PurseKept, PaidAhead
  <2>4. BookSound(m)'
    <3> SUFFICES ASSUME meme[m].stage = "live" PROVE BookSound(m)'
      BY <1>3 DEF BookSound
    <3> DEFINE b == meme[m].book
               t == new.book
               x == Recorded(plan[m]).fungible
    <3>1. /\ t \in Books /\ b \in Books /\ Worth(t) = Worth(b)
          /\ Allowance(t, Holder, Swap) = Allowance(b, Holder, Swap)
          /\ \A c \in PoolChains : t.balance[PoolAccount(c)] >= b.balance[PoolAccount(c)]
      BY <1>3 DEF BookKept, MemeRecords
    <3>2. Owing(m)' <=> Owing(m)
      BY <1>1, <2>2 DEF Owing
    <3>3. /\ Worth(b) = plan[m].supply
          /\ Allowance(b, Holder, Swap) = IF Owing(m) THEN x ELSE 0
          /\ \A c \in FirstPools(m) \cap bootstraps : b.balance[PoolAccount(c)] >= x
      BY <2>1 DEF MemeSound, BookSound
    <3>4. ASSUME NEW c \in FirstPools(m) \cap bootstraps PROVE t.balance[PoolAccount(c)] >= x
      <4>1. c \in PoolChains /\ PoolAccount(c) \in Accounts
        BY AccountsAssumption DEF FirstPools, Opened
      <4>2. b.balance[PoolAccount(c)] \in Nat /\ t.balance[PoolAccount(c)] \in Nat
        BY <3>1, <4>1, BookTypes
      <4>3. Recorded(plan[m]) # Unset /\ x \in Nat
        <5>1. Recorded(plan[m]) # Unset /\ Instantiable(plan[m]) /\ plan[m] \in Plan
          BY <2>1, <3>4 DEF MemeSound, InTurn, Shape, LaunchTypes
        <5> QED BY <5>1, Pooled
      <4>4. t.balance[PoolAccount(c)] >= b.balance[PoolAccount(c)] /\ b.balance[PoolAccount(c)] >= x
        BY <3>1, <3>3, <4>1
      <4> HIDE DEF t, b, x
      <4> QED BY <4>2, <4>3, <4>4
    <3>5. meme'[m].book = t /\ plan'[m] = plan[m]
      BY <1>1, <1>3
    <3> QED BY <1>1, <2>2, <3>1, <3>2, <3>3, <3>4, <3>5 DEF BookSound
  <2> QED BY <2>3, <2>4 DEF MemeSound
<1>5. Shape'
  <2>1. /\ toRouter' \in [Memes -> Posts] /\ router' \in [fees : Int, native : Int]
        /\ wallet' \in [Users -> Nat] /\ \A n \in Memes \ {m} : toRouter'[n] = toRouter[n]
    BY <1>1 DEF Shape, LaunchTypes
  <2> QED BY <1>1, <1>2, <1>4, <2>1, MemeShape
<1>6. Balanced'
  <2>1. \A n \in Memes : /\ meme'[n].stage = "none" <=> meme[n].stage = "none"
                         /\ meme'[n].stage = "live" <=> meme[n].stage = "live"
                         /\ meme'[n].purse = meme[n].purse
    BY <1>3
  <2>2. SumFunction(wallet') \in Int /\ FeesOf(requests') \in Int /\ FeesOf(Opened') \in Int
    BY <1>1, <1>2, MoneyTerms
  <2>3. SumFunction(wallet') + FeesOf(requests') + FeesOf(Opened') =
          SumFunction(wallet) + FeesOf(requests) + FeesOf(Opened)
    BY <1>1, <1>2
  <2> QED BY <1>1, <1>2, <2>1, <2>2, <2>3, BalancedKept
<1> QED BY <1>5, <1>6 DEF Kept

LEMMA TokenUsedKept ==
  ASSUME RegistryInv, Shape, Balanced, NEW m \in Memes, TokenUsed(m)
  PROVE  Kept
<1> DEFINE b == meme[m].book
<1>0. /\ meme \in [Memes -> MemeRecords] /\ meme[m] \in MemeRecords /\ b \in Books
      /\ left \in [requests : Nat, settled : Nat, ops : Nat]
      /\ Amounts \subseteq Nat /\ Reward \in Nat
  BY LaunchAssumption DEF Shape, LaunchTypes, MemeRecords
<1>1. ASSUME NEW t, TokenStep(m, t), BookKept(b, t) PROVE Kept
  <2> DEFINE new == [meme[m] EXCEPT !.book = t]
  <2>1. /\ meme' = [meme EXCEPT ![m] = new] /\ left' = [left EXCEPT !.ops = @ - 1] /\ left.ops > 0
        /\ UNCHANGED <<rvars, plan, paid, toRouter, initializing, bootstraps>>
    BY <1>1 DEF TokenStep
  <2>2. /\ new \in MemeRecords /\ new.book = t /\ new.stage = meme[m].stage
        /\ new.creator = meme[m].creator /\ new.purse = meme[m].purse /\ new.funded = meme[m].funded
    BY <1>0, <1>1 DEF MemeRecords, BookKept
  <2>3. left' \in [requests : Nat, settled : Nat, ops : Nat] /\ left'.requests = left.requests
    BY <1>0, <2>1
  <2> HIDE DEF new
  <2> QED BY <1>1, <2>1, <2>2, <2>3, BookStep
<1>2. \A u, v, w \in Users, x \in Nat :
         /\ CanTransfer(b, Home(u), Home(v), x) =>
              BookKept(b, Transferred(b, Home(u), Home(v), x))
         /\ CanApprove(b, Home(u), Home(v), x) =>
              BookKept(b, Approved(b, Home(u), Home(v), x))
         /\ CanTransferFrom(b, Home(u), Home(v), x) =>
              BookKept(b, TransferredFrom(b, Home(u), Home(v), Home(w), x))
         /\ CanMint(b, Home(v), x) => BookKept(b, Minted(b, Home(v), x))
         /\ CanMint(b, Miner(u), x) => BookKept(b, Minted(b, Miner(u), x))
         /\ CanTransfer(b, Miner(u), Home(u), x) =>
              BookKept(b, Transferred(b, Miner(u), Home(u), x))
         /\ BookKept(b, [b EXCEPT !.owner = Home(v)])
  BY <1>0, TokenKept
<1>3. ASSUME NEW u \in Users, NEW v \in Users, NEW x \in Amounts,
             \/ Transfer(m, u, Home(v), x) \/ Approve(m, u, Home(v), x) \/ Mint(m, u, Home(v), x)
      PROVE  Kept
  <2> x \in Nat
    BY <1>0
  <2>1. CASE Transfer(m, u, Home(v), x)
    BY <2>1, <1>1, <1>2 DEF Transfer
  <2>2. CASE Approve(m, u, Home(v), x)
    BY <2>2, <1>1, <1>2 DEF Approve
  <2>3. CASE Mint(m, u, Home(v), x)
    BY <2>3, <1>1, <1>2 DEF Mint
  <2> QED BY <1>3, <2>1, <2>2, <2>3
<1>4. ASSUME NEW u \in Users, NEW v \in Users, NEW w \in Users, NEW x \in Amounts,
             TransferFrom(m, u, Home(v), Home(w), x)
      PROVE  Kept
  <2> x \in Nat
    BY <1>0
  <2> QED BY <1>4, <1>1, <1>2 DEF TransferFrom
<1>5. ASSUME NEW u \in Users, NEW x \in Amounts, Redeem(m, u, x) PROVE Kept
  <2> x \in Nat
    BY <1>0
  <2> QED BY <1>5, <1>1, <1>2 DEF Redeem
<1>6. ASSUME NEW u \in Users, NEW v \in Users, TransferOwnership(m, u, v) PROVE Kept
  <2> 0 \in Nat
    OBVIOUS
  <2> QED BY <1>6, <1>1, <1>2 DEF TransferOwnership
<1>7. ASSUME NEW u \in Users, Mine(m, u) PROVE Kept
  <2> DEFINE t == Minted(b, Miner(u), Reward)
             new == [meme[m] EXCEPT !.book = t, !.mined = TRUE]
  <2>1. /\ CanMint(b, Miner(u), Reward) /\ left' = [left EXCEPT !.ops = @ - 1] /\ left.ops > 0
        /\ UNCHANGED <<rvars, plan, paid, toRouter, initializing, bootstraps>>
    BY <1>7 DEF Mine
  <2>2. meme' = [meme EXCEPT ![m] = new]
    BY <1>7 DEF Mine
  <2>3. BookKept(b, t)
    BY <1>0, <1>2, <2>1
  <2> HIDE DEF t
  <2>4. /\ new \in MemeRecords /\ new.book = t /\ new.stage = meme[m].stage
        /\ new.creator = meme[m].creator /\ new.purse = meme[m].purse /\ new.funded = meme[m].funded
    BY <1>0, <2>3 DEF MemeRecords, BookKept
  <2>5. left' \in [requests : Nat, settled : Nat, ops : Nat] /\ left'.requests = left.requests
    BY <1>0, <2>1
  <2> HIDE DEF new
  <2> QED BY <2>1, <2>2, <2>3, <2>4, <2>5, BookStep
<1>8. CASE NextBlock(m)
  <2> DEFINE new == [meme[m] EXCEPT !.mined = FALSE]
  <2>1. /\ meme' = [meme EXCEPT ![m] = new]
        /\ UNCHANGED <<rvars, plan, paid, toRouter, initializing, bootstraps, left>>
    BY <1>8 DEF NextBlock
  <2>2. /\ new \in MemeRecords /\ new.book = b /\ new.stage = meme[m].stage
        /\ new.creator = meme[m].creator /\ new.purse = meme[m].purse /\ new.funded = meme[m].funded
    BY <1>0 DEF MemeRecords
  <2>3. BookKept(b, b)
    <3>1. \A c \in PoolChains : b.balance[PoolAccount(c)] \in Nat
      BY <1>0, BookTypes, AccountsAssumption
    <3> QED BY <1>0, <3>1 DEF BookKept
  <2> HIDE DEF new
  <2> QED BY <1>0, <2>1, <2>2, <2>3, BookStep
<1> QED BY <1>3, <1>4, <1>5, <1>6, <1>7, <1>8 DEF TokenUsed

-----------------------------------------------------------------------------
(* The way of a launch.                                                    *)

LEMMA MemeTypes ==
  ASSUME Shape, NEW m \in Memes
  PROVE  /\ plan[m] \in Plan /\ meme[m] \in MemeRecords /\ toRouter[m] \in Posts /\ MemeSound(m)
         /\ meme \in [Memes -> MemeRecords] /\ toRouter \in [Memes -> Posts]
         /\ left \in [requests : Nat, settled : Nat, ops : Nat]
         /\ router \in [fees : Int, native : Int] /\ wallet \in [Users -> Nat]
         /\ LiquidityCost(plan[m]) \in Nat /\ NativeIn(plan[m]) \in Nat /\ Fee \in Nat
         /\ meme[m].book \in Books
BY CostTypes, LaunchAssumption DEF Shape, LaunchTypes, MemeRecords

LEMMA CreateMemeKept ==
  ASSUME RegistryInv, Shape, Balanced, NEW u \in Users, NEW m \in Memes, CreateMeme(u, m)
  PROVE  Kept
<1> DEFINE cost == LiquidityCost(plan[m])
           new == [meme[m] EXCEPT !.stage = "requested", !.creator = u, !.purse = cost]
<1>0. /\ plan[m] \in Plan /\ meme[m] \in MemeRecords /\ toRouter[m] \in Posts /\ MemeSound(m)
      /\ meme \in [Memes -> MemeRecords] /\ toRouter \in [Memes -> Posts]
      /\ left \in [requests : Nat, settled : Nat, ops : Nat]
      /\ router \in [fees : Int, native : Int] /\ wallet \in [Users -> Nat]
      /\ cost \in Nat /\ Fee \in Nat
  BY MemeTypes
<1>1. /\ meme[m].stage = "none" /\ wallet[u] >= Fee + cost
      /\ wallet' = [wallet EXCEPT ![u] = @ - Fee - cost]
      /\ meme' = [meme EXCEPT ![m] = new]
      /\ UNCHANGED <<chain, requests, router, plan, paid, toRouter, initializing, bootstraps, left>>
  BY DEF CreateMeme
<1>2. /\ new \in MemeRecords /\ new.stage = "requested" /\ new.creator = u /\ new.purse = cost
      /\ new.funded = meme[m].funded
  BY <1>0 DEF MemeRecords
<1> HIDE DEF new, cost
<1>3. meme'[m] = new /\ \A n \in Memes \ {m} : meme'[n] = meme[n]
  BY <1>0, <1>1
<1>4. PoolsSame /\ Opened' = Opened
  BY <1>1, PoolsUntouched
<1>5. ~PaidAhead(m) /\ ~PaidAhead(m)' /\ ~meme[m].funded /\ toRouter[m] = << >> /\ FirstPools(m) = {}
  BY <1>0, <1>1, <1>2, <1>3 DEF PaidAhead, MemeSound, InTurn
<1>6. MemeSound(m)'
  <2>1. FirstPools(m)' = {}
    BY <1>4, <1>5 DEF PoolsSame
  <2>2. toRouter'[m] = << >> /\ ~meme'[m].funded /\ meme'[m].stage = "requested" /\ meme'[m].creator = u
    BY <1>1, <1>2, <1>3, <1>5
  <2>3. InTurn(m)'
    BY <2>1, <2>2, PostsTaken DEF InTurn
  <2>4. PurseKept(m)'
    BY <1>1, <1>2, <1>3, <1>5 DEF PurseKept, cost
  <2>5. BookSound(m)'
    BY <2>2 DEF BookSound
  <2> QED BY <2>3, <2>4, <2>5 DEF MemeSound
<1>7. /\ wallet' \in [Users -> Nat] /\ wallet' \in [Users -> Int]
      /\ wallet'[u] = wallet[u] - Fee - cost
      /\ wallet[u] - Fee - cost \in Int /\ wallet[u] \in Int
      /\ \A v \in Users \ {u} : wallet'[v] = wallet[v]
  <2>1. wallet[u] - Fee - cost \in Nat
    BY <1>0, <1>1
  <2> QED BY <1>0, <1>1, <2>1
<1>8. Shape'
  <2>1. /\ toRouter' \in [Memes -> Posts] /\ router' \in [fees : Int, native : Int]
        /\ left' \in [requests : Nat, settled : Nat, ops : Nat] /\ left'.requests = left.requests
        /\ \A n \in Memes \ {m} : toRouter'[n] = toRouter[n]
    BY <1>0, <1>1
  <2> QED BY <1>1, <1>2, <1>4, <1>6, <1>7, <2>1, MemeShape
<1>9. UNCHANGED <<Ahead, Owed, Waiting>>
  <2>1. \A n \in Memes : PaymentSame(n)
    <3> SUFFICES ASSUME NEW n \in Memes PROVE PaymentSame(n)
      OBVIOUS
    <3>1. Sending(n)' <=> Sending(n)
      BY <1>1 DEF Sending
    <3>2. PaidAhead(n)' <=> PaidAhead(n)
      BY <1>1, <1>3, <1>5 DEF PaidAhead
    <3> QED BY <3>1, <3>2 DEF PaymentSame
  <2> QED BY <1>1, <1>4, <2>1, PaymentsKept
<1>10. SumFunction(wallet') = SumFunction(wallet) - wallet[u] + (wallet[u] - Fee - cost)
  <2>1. IsFiniteSet(Users) /\ wallet \in [Users -> Int]
    BY MoneyTerms
  <2> QED BY <1>7, <2>1, SumUpdate
<1>11. SumFunction(PurseOf') = SumFunction(PurseOf) + cost
  <2> DEFINE f == PurseOf
             h == PurseOf'
  <2>1. f \in [Memes -> Int] /\ f[m] = 0
    BY <1>0, <1>1, MoneyTerms DEF PurseOf, MemeSound, PurseKept
  <2>2. h \in [Memes -> Int] /\ h[m] = cost /\ \A n \in Memes \ {m} : h[n] = f[n]
    <3>1. \A n \in Memes : meme'[n].purse \in Int
      BY <1>8 DEF Shape, LaunchTypes, MemeRecords
    <3> QED BY <1>2, <1>3, <3>1 DEF PurseOf
  <2> HIDE DEF f, h
  <2>3. SumFunction(h) = SumFunction(f) - f[m] + h[m]
    BY <2>1, <2>2, OneChanges
  <2>4. SumFunction(f) \in Int
    BY MoneyTerms DEF f
  <2> QED BY <1>0, <2>1, <2>2, <2>3, <2>4 DEF f, h
<1>12. FeesOf(Created') = FeesOf(Created) + Fee
  <2>1. Created' = Created \cup {m} /\ m \notin Created
    BY <1>1, <1>2, <1>3 DEF Created
  <2> QED BY <2>1, MoneyTerms, FeesCounted
<1>13. Balanced'
  <2>1. router'.fees = FeesOf(Waiting') /\ router'.native = SumFunction(Owed')
    BY <1>1, <1>9 DEF Balanced
  <2> DEFINE total == Cardinality(Users) * Wealth
  <2>2. total = SumFunction(wallet) + SumFunction(PurseOf) + SumFunction(Ahead) + SumFunction(paid)
         + FeesOf(Waiting) + SumFunction(Owed)
         + FeesOf(Created) + FeesOf(requests) + FeesOf(Opened)
    BY DEF Balanced
  <2> HIDE DEF total
  <2>3. total = SumFunction(wallet') + SumFunction(PurseOf') + SumFunction(Ahead) + SumFunction(paid)
         + FeesOf(Waiting) + SumFunction(Owed)
         + FeesOf(Created') + FeesOf(requests) + FeesOf(Opened)
    BY <1>0, <1>7, <1>10, <1>11, <1>12, <2>2, MoneyTerms
  <2>4. total = (SumFunction(wallet) + SumFunction(PurseOf) + SumFunction(Ahead) + SumFunction(paid)
         + FeesOf(Waiting) + SumFunction(Owed)
         + FeesOf(Created) + FeesOf(requests) + FeesOf(Opened))'
    BY <1>1, <1>4, <1>9, <2>3
  <2> QED BY <2>1, <2>4 DEF Balanced, total, FeesOf
<1> QED BY <1>8, <1>13 DEF Kept

\* The chain of the meme is opened, or its application is not created.
LEMMA MemeGoesOn ==
  ASSUME RegistryInv, Shape, Balanced, NEW m \in Memes, MemeChainOpened(m) \/ MemeRejected(m)
  PROVE  Kept
<1> DEFINE to == IF MemeChainOpened(m) THEN "opened" ELSE "rejected"
           new == [meme[m] EXCEPT !.stage = to]
<1>0. /\ plan[m] \in Plan /\ meme[m] \in MemeRecords /\ toRouter[m] \in Posts /\ MemeSound(m)
      /\ meme \in [Memes -> MemeRecords] /\ toRouter \in [Memes -> Posts]
      /\ left \in [requests : Nat, settled : Nat, ops : Nat]
      /\ router \in [fees : Int, native : Int] /\ wallet \in [Users -> Nat]
  BY MemeTypes
<1>1. /\ meme[m].stage \in {"requested", "opened"} /\ meme' = [meme EXCEPT ![m] = new]
      /\ UNCHANGED <<chain, requests, router, wallet, plan, paid, toRouter, initializing, bootstraps, left>>
  BY DEF MemeChainOpened, MemeRejected, rvars
<1>2. /\ new \in MemeRecords /\ new.stage \in {"opened", "rejected"} /\ new.purse = meme[m].purse
      /\ new.creator = meme[m].creator /\ new.funded = meme[m].funded
  BY <1>0 DEF MemeRecords
<1> HIDE DEF new
<1>3. meme'[m] = new /\ \A n \in Memes \ {m} : meme'[n] = meme[n]
  BY <1>0, <1>1
<1>4. PoolsSame /\ Opened' = Opened
  BY <1>1, PoolsUntouched
<1>5. ~PaidAhead(m) /\ ~PaidAhead(m)' /\ ~meme[m].funded /\ toRouter[m] = << >> /\ FirstPools(m) = {}
  BY <1>0, <1>1, <1>2, <1>3 DEF PaidAhead, MemeSound, InTurn
<1>6. MemeSound(m)'
  <2>1. FirstPools(m)' = {}
    BY <1>4, <1>5 DEF PoolsSame
  <2>2. /\ toRouter'[m] = << >> /\ ~meme'[m].funded /\ meme'[m].stage \in {"opened", "rejected"}
        /\ meme'[m].creator \in Users
    BY <1>0, <1>1, <1>2, <1>3, <1>5 DEF MemeSound, InTurn
  <2>3. InTurn(m)'
    BY <2>1, <2>2, PostsTaken DEF InTurn
  <2>4. PurseKept(m)'
    BY <1>0, <1>1, <1>2, <1>3, <1>5 DEF PurseKept, MemeSound
  <2>5. BookSound(m)'
    BY <2>2 DEF BookSound
  <2> QED BY <2>3, <2>4, <2>5 DEF MemeSound
<1>7. Shape'
  <2>1. /\ toRouter' \in [Memes -> Posts] /\ router' \in [fees : Int, native : Int]
        /\ wallet' \in [Users -> Nat]
        /\ left' \in [requests : Nat, settled : Nat, ops : Nat] /\ left'.requests = left.requests
        /\ \A n \in Memes \ {m} : toRouter'[n] = toRouter[n]
    BY <1>0, <1>1
  <2> QED BY <1>1, <1>2, <1>4, <1>6, <2>1, MemeShape
<1>8. Balanced'
  <2>1. \A n \in Memes : /\ meme'[n].stage = "none" <=> meme[n].stage = "none"
                         /\ meme'[n].stage = "live" <=> meme[n].stage = "live"
                         /\ meme'[n].purse = meme[n].purse
    BY <1>1, <1>2, <1>3
  <2>2. SumFunction(wallet') \in Int /\ FeesOf(requests') \in Int /\ FeesOf(Opened') \in Int
    BY <1>1, <1>4, MoneyTerms
  <2>3. SumFunction(wallet') + FeesOf(requests') + FeesOf(Opened') =
          SumFunction(wallet) + FeesOf(requests) + FeesOf(Opened)
    BY <1>1, <1>4
  <2> QED BY <1>1, <1>4, <2>1, <2>2, <2>3, BalancedKept
<1> QED BY <1>7, <1>8 DEF Kept

LEMMA BalancedRest ==
  ASSUME Balanced, UNCHANGED <<Ahead, Owed, Waiting, PurseOf, Created, Opened>>,
         UNCHANGED <<paid, router, wallet, requests>>
  PROVE  Balanced'
BY DEF Balanced, FeesOf

\* The application is instantiated and pays the router.
LEMMA MemeCreatedKept ==
  ASSUME RegistryInv, Shape, Balanced, NEW m \in Memes, MemeCreated(m)
  PROVE  Kept
<1> DEFINE cost == LiquidityCost(plan[m])
           sent == PoolPaidFor(plan[m])
           book == Instantiated(plan[m], Home(meme[m].creator))
           purse == IF sent THEN meme[m].purse - cost ELSE meme[m].purse
           new == [meme[m] EXCEPT !.stage = "live", !.book = book, !.purse = purse, !.funded = sent]
           post == IF sent THEN <<"funds">> ELSE << >>
<1>0. /\ plan[m] \in Plan /\ meme[m] \in MemeRecords /\ toRouter[m] \in Posts /\ MemeSound(m)
      /\ meme \in [Memes -> MemeRecords] /\ toRouter \in [Memes -> Posts]
      /\ left \in [requests : Nat, settled : Nat, ops : Nat]
      /\ router \in [fees : Int, native : Int] /\ wallet \in [Users -> Nat]
      /\ cost \in Nat
  BY MemeTypes
<1>1. /\ meme[m].stage = "opened" /\ Instantiable(plan[m])
      /\ UNCHANGED <<chain, requests, router, wallet, plan, paid, initializing, bootstraps, left>>
  BY DEF MemeCreated, rvars
<1>2. ~PaidAhead(m) /\ ~meme[m].funded /\ toRouter[m] = << >> /\ FirstPools(m) = {}
      /\ meme[m].creator \in Users /\ meme[m].purse = cost
  BY <1>0, <1>1 DEF PaidAhead, MemeSound, InTurn, PurseKept
<1>3. meme' = [meme EXCEPT ![m] = new]
  BY DEF MemeCreated
<1>4. toRouter' = [toRouter EXCEPT ![m] = post]
  BY <1>0, <1>2, PostsTaken DEF MemeCreated
<1>5. /\ book \in Books /\ Worth(book) = plan[m].supply
      /\ Allowance(book, Holder, Swap) =
           IF Recorded(plan[m]) = Unset THEN 0 ELSE Recorded(plan[m]).fungible
  BY <1>0, <1>1, <1>2, BookInstantiated
<1>6. sent \in BOOLEAN /\ purse = IF sent THEN 0 ELSE cost
  BY <1>0, <1>2 DEF PoolPaidFor
<1>7. /\ new \in MemeRecords /\ new.stage = "live" /\ new.creator = meme[m].creator
      /\ new.purse = purse /\ new.funded = sent /\ new.book = book
  <2> HIDE DEF book, purse, sent, cost
  <2>1. purse \in Nat
    BY <1>0, <1>6
  <2> QED BY <1>0, <1>5, <1>6, <2>1 DEF MemeRecords
<1>8. post \in Posts /\ (sent => post = <<"funds">>) /\ (~sent => post = << >>)
  BY DEF Posts
<1> HIDE DEF new, book, purse, post
<1>9. /\ meme'[m] = new /\ \A n \in Memes \ {m} : meme'[n] = meme[n]
      /\ toRouter'[m] = post /\ \A n \in Memes \ {m} : toRouter'[n] = toRouter[n]
      /\ toRouter' \in [Memes -> Posts]
  BY <1>0, <1>3, <1>4, <1>8
<1>10. PoolsSame /\ Opened' = Opened
  BY <1>1, PoolsUntouched
<1>11. (PaidAhead(m)' <=> sent) /\ FirstPools(m)' = {} /\ (Sending(m)' <=> sent) /\ ~Sending(m)
  <2>1. PaidAhead(m)' <=> sent
    BY <1>1, <1>7, <1>9 DEF PaidAhead
  <2>2. FirstPools(m)' = {}
    BY <1>2, <1>10 DEF PoolsSame
  <2>3. (Sending(m)' <=> sent) /\ ~Sending(m)
    BY <1>2, <1>8, <1>9, PostsSending DEF Sending
  <2> QED BY <2>1, <2>2, <2>3
<1>12. MemeSound(m)'
  <2>1. InTurn(m)'
    BY <1>1, <1>7, <1>8, <1>9, <1>11, PostsTaken DEF InTurn
  <2>2. PurseKept(m)'
    BY <1>1, <1>6, <1>7, <1>9, <1>11 DEF PurseKept, cost
  <2>3. BookSound(m)'
    BY <1>1, <1>5, <1>7, <1>9, <1>11 DEF BookSound, Owing
  <2> QED BY <2>1, <2>2, <2>3 DEF MemeSound
<1>13. Shape'
  <2>1. /\ router' \in [fees : Int, native : Int] /\ wallet' \in [Users -> Nat]
        /\ left' \in [requests : Nat, settled : Nat, ops : Nat] /\ left'.requests = left.requests
    BY <1>0, <1>1
  <2> QED BY <1>1, <1>3, <1>7, <1>9, <1>10, <1>12, <2>1, MemeShape
<1>14. ASSUME NEW n \in Memes \ {m}
       PROVE  PaidAhead(n)' = PaidAhead(n) /\ Sending(n)' = Sending(n) /\ FirstPools(n)' = FirstPools(n)
  BY <1>1, <1>9, <1>10 DEF PaidAhead, Sending, PoolsSame
<1>15. UNCHANGED <<Owed, Waiting, Created>>
  <2>1. OwedOf(m)' = OwedOf(m) /\ ~IsWaiting(m)' /\ ~IsWaiting(m)
    BY <1>2, <1>11 DEF OwedOf, IsWaiting
  <2>2. \A n \in Memes \ {m} : OwedOf(n)' = OwedOf(n) /\ (IsWaiting(n)' <=> IsWaiting(n))
    BY <1>1, <1>10, <1>14 DEF OwedOf, IsWaiting, PoolsSame
  <2>3. UNCHANGED Owed
    BY <2>1, <2>2 DEF Owed
  <2>4. UNCHANGED Waiting
    BY <2>1, <2>2 DEF Waiting
  <2>5. UNCHANGED Created
    BY <1>1, <1>7, <1>9 DEF Created
  <2> QED BY <2>3, <2>4, <2>5
<1> DEFINE d == IF sent THEN cost ELSE 0
<1>16. SumFunction(PurseOf') = SumFunction(PurseOf) - d
  <2> DEFINE f == PurseOf
             h == PurseOf'
  <2>1. f \in [Memes -> Int] /\ f[m] = cost
    BY <1>2, MoneyTerms DEF PurseOf
  <2>2. h \in [Memes -> Int] /\ h[m] = purse /\ \A n \in Memes \ {m} : h[n] = f[n]
    <3>1. \A n \in Memes : meme'[n].purse \in Int
      BY <1>13 DEF Shape, LaunchTypes, MemeRecords
    <3> QED BY <1>7, <1>9, <3>1 DEF PurseOf
  <2> HIDE DEF f, h
  <2>3. SumFunction(h) = SumFunction(f) - f[m] + h[m]
    BY <2>1, <2>2, OneChanges
  <2>4. SumFunction(f) \in Int
    BY MoneyTerms DEF f
  <2>5. SumFunction(h) = SumFunction(f) - d
    BY <1>0, <1>6, <2>1, <2>2, <2>3, <2>4
  <2> QED BY <2>5 DEF f, h
<1>17. SumFunction(Ahead') = SumFunction(Ahead) + d
  <2> DEFINE f == Ahead
             h == Ahead'
  <2>1. f \in [Memes -> Int] /\ f[m] = 0
    BY <1>2, MoneyTerms DEF Ahead, AheadOf
  <2>2. h \in [Memes -> Int] /\ h[m] = d /\ \A n \in Memes \ {m} : h[n] = f[n]
    <3>1. AheadOf(m)' = d
      BY <1>1, <1>11 DEF AheadOf
    <3>2. \A n \in Memes \ {m} : AheadOf(n)' = AheadOf(n)
      BY <1>1, <1>14 DEF AheadOf
    <3>3. \A n \in Memes \ {m} : AheadOf(n)' \in Int
      BY <2>1, <3>2 DEF Ahead
    <3>4. d \in Int
      BY <1>0
    <3>5. h = [n \in Memes |-> AheadOf(n)']
      BY DEF Ahead
    <3>6. f = [n \in Memes |-> AheadOf(n)]
      BY DEF Ahead
    <3> HIDE DEF d, f, h
    <3> QED BY <3>1, <3>2, <3>3, <3>4, <3>5, <3>6
  <2> HIDE DEF f, h
  <2>3. SumFunction(h) = SumFunction(f) - f[m] + h[m]
    BY <2>1, <2>2, OneChanges
  <2>4. SumFunction(f) \in Int
    BY MoneyTerms DEF f
  <2>5. SumFunction(h) = SumFunction(f) + d
    BY <1>0, <2>1, <2>2, <2>3, <2>4
  <2> QED BY <2>5 DEF f, h
<1>18. Balanced'
  <2>1. router'.fees = FeesOf(Waiting') /\ router'.native = SumFunction(Owed')
    BY <1>1, <1>15 DEF Balanced
  <2> DEFINE total == Cardinality(Users) * Wealth
  <2>2. total = SumFunction(wallet) + SumFunction(PurseOf) + SumFunction(Ahead) + SumFunction(paid)
         + FeesOf(Waiting) + SumFunction(Owed)
         + FeesOf(Created) + FeesOf(requests) + FeesOf(Opened)
    BY DEF Balanced
  <2>3. d \in Int
    BY <1>0
  <2> HIDE DEF total, d
  <2>4. total = SumFunction(wallet) + SumFunction(PurseOf') + SumFunction(Ahead') + SumFunction(paid)
         + FeesOf(Waiting) + SumFunction(Owed)
         + FeesOf(Created) + FeesOf(requests) + FeesOf(Opened)
    BY <1>16, <1>17, <2>2, <2>3, MoneyTerms
  <2>5. total = (SumFunction(wallet) + SumFunction(PurseOf) + SumFunction(Ahead) + SumFunction(paid)
         + FeesOf(Waiting) + SumFunction(Owed)
         + FeesOf(Created) + FeesOf(requests) + FeesOf(Opened))'
    BY <1>1, <1>10, <1>15, <2>4
  <2> QED BY <2>1, <2>5 DEF Balanced, total, FeesOf
<1> QED BY <1>13, <1>18 DEF Kept

\* The pool is asked for.
LEMMA LiquidityFundedKept ==
  ASSUME RegistryInv, Shape, Balanced, NEW m \in Memes, LiquidityFunded(m)
  PROVE  Kept
<1> DEFINE new == [meme[m] EXCEPT !.funded = FALSE]
           post == IF Recorded(plan[m]) = Unset THEN toRouter[m] ELSE Append(toRouter[m], "initialize")
<1>0. /\ plan[m] \in Plan /\ meme[m] \in MemeRecords /\ toRouter[m] \in Posts /\ MemeSound(m)
      /\ meme \in [Memes -> MemeRecords] /\ toRouter \in [Memes -> Posts]
      /\ left \in [requests : Nat, settled : Nat, ops : Nat]
      /\ router \in [fees : Int, native : Int] /\ wallet \in [Users -> Nat]
  BY MemeTypes
<1>1. /\ meme[m].funded /\ meme' = [meme EXCEPT ![m] = new]
      /\ UNCHANGED <<chain, requests, router, wallet, plan, paid, initializing, bootstraps, left>>
  BY DEF LiquidityFunded, rvars
<1>2. /\ PaidAhead(m) /\ toRouter[m] \in {<< >>, <<"funds">>} /\ FirstPools(m) = {}
  BY <1>0, <1>1 DEF MemeSound, InTurn
<1>3. toRouter' = [toRouter EXCEPT ![m] = post]
  <2>1. CASE Recorded(plan[m]) = Unset
    BY <1>0, <2>1 DEF LiquidityFunded
  <2>2. CASE Recorded(plan[m]) # Unset
    BY <1>0, <2>2 DEF LiquidityFunded
  <2> QED BY <2>1, <2>2
<1>4. /\ post \in Posts /\ (HasFunds(post) <=> HasFunds(toRouter[m]))
      /\ Recorded(plan[m]) = Unset => post \in {<< >>, <<"funds">>}
  BY <1>2, PostsTaken, PostsSending DEF Posts
<1>5. /\ new \in MemeRecords /\ new.stage = meme[m].stage /\ new.creator = meme[m].creator
      /\ new.purse = meme[m].purse /\ ~new.funded /\ new.book = meme[m].book
  BY <1>0 DEF MemeRecords
<1> HIDE DEF new, post
<1>6. /\ meme'[m] = new /\ \A n \in Memes \ {m} : meme'[n] = meme[n]
      /\ toRouter'[m] = post /\ \A n \in Memes \ {m} : toRouter'[n] = toRouter[n]
      /\ toRouter' \in [Memes -> Posts]
  BY <1>0, <1>1, <1>3, <1>4
<1>7. PoolsSame /\ Opened' = Opened
  BY <1>1, PoolsUntouched
<1>8. PaidAhead(m)' /\ FirstPools(m)' = {} /\ Served' = Served
  BY <1>1, <1>2, <1>5, <1>6, <1>7 DEF PaidAhead, PoolsSame
<1>9. MemeSound(m)'
  <2>1. InTurn(m)'
    <3>1. Instantiable(plan[m])
      BY <1>0, <1>2 DEF MemeSound, InTurn, PaidAhead
    <3> QED BY <1>1, <1>2, <1>4, <1>5, <1>6, <1>8, <3>1, PostsTaken DEF InTurn, PaidAhead
  <2>2. PurseKept(m)'
    BY <1>0, <1>1, <1>2, <1>5, <1>6, <1>8 DEF PurseKept, MemeSound
  <2>3. BookSound(m)'
    BY <1>0, <1>1, <1>2, <1>5, <1>6, <1>8 DEF BookSound, Owing, MemeSound
  <2> QED BY <2>1, <2>2, <2>3 DEF MemeSound
<1>10. Shape'
  <2>1. /\ router' \in [fees : Int, native : Int] /\ wallet' \in [Users -> Nat]
        /\ left' \in [requests : Nat, settled : Nat, ops : Nat] /\ left'.requests = left.requests
    BY <1>0, <1>1
  <2> QED BY <1>1, <1>5, <1>6, <1>7, <1>9, <2>1, MemeShape
<1>11. UNCHANGED <<Ahead, Owed, Waiting>>
  <2>1. \A n \in Memes : PaymentSame(n)
    <3> SUFFICES ASSUME NEW n \in Memes PROVE PaymentSame(n)
      OBVIOUS
    <3>1. Sending(n)' <=> Sending(n)
      BY <1>4, <1>6 DEF Sending
    <3>2. PaidAhead(n)' <=> PaidAhead(n)
      BY <1>1, <1>5, <1>6 DEF PaidAhead
    <3> QED BY <3>1, <3>2 DEF PaymentSame
  <2> QED BY <1>1, <1>7, <2>1, PaymentsKept
<1>12. UNCHANGED <<PurseOf, Created>>
  <2>1. \A n \in Memes : meme'[n].purse = meme[n].purse /\ meme'[n].stage = meme[n].stage
    BY <1>5, <1>6
  <2> QED BY <2>1 DEF PurseOf, Created
<1>13. Balanced'
  BY <1>1, <1>7, <1>11, <1>12, BalancedRest
<1> QED BY <1>10, <1>13 DEF Kept

\* The money reaches the router.
LEMMA RouterFundedKept ==
  ASSUME RegistryInv, Shape, Balanced, NEW m \in Memes, RouterFunded(m)
  PROVE  Kept
<1> DEFINE cost == LiquidityCost(plan[m])
           in == NativeIn(plan[m])
           post == Tail(toRouter[m])
<1>0. /\ plan[m] \in Plan /\ meme[m] \in MemeRecords /\ toRouter[m] \in Posts /\ MemeSound(m)
      /\ meme \in [Memes -> MemeRecords] /\ toRouter \in [Memes -> Posts]
      /\ left \in [requests : Nat, settled : Nat, ops : Nat]
      /\ router \in [fees : Int, native : Int] /\ wallet \in [Users -> Nat]
      /\ cost \in Nat /\ in \in Nat /\ Fee \in Nat
  BY MemeTypes
<1>1. /\ toRouter[m] # << >> /\ Head(toRouter[m]) = "funds"
      /\ toRouter' = [toRouter EXCEPT ![m] = post]
      /\ router' = [fees |-> router.fees + Fee, native |-> router.native + in]
      /\ UNCHANGED <<chain, requests, wallet, plan, paid, meme, initializing, bootstraps, left>>
  BY DEF RouterFunded
<1>2. /\ toRouter[m] \in {<<"funds">>, <<"funds", "initialize">>}
      /\ post \in {<< >>, <<"initialize">>}
      /\ post = <<"initialize">> => toRouter[m] = <<"funds", "initialize">>
  BY <1>0, <1>1, PostsTaken DEF Posts
<1>3. PaidAhead(m) /\ FirstPools(m) = {} /\ Sending(m) /\ ~HasFunds(post) /\ cost = Fee + in
  <2>1. PaidAhead(m) /\ FirstPools(m) = {}
    BY <1>0, <1>1 DEF MemeSound, InTurn
  <2>2. Sending(m) /\ ~HasFunds(post)
    BY <1>2, PostsSending DEF Sending
  <2>3. cost = Fee + in
    BY <1>0, <2>1, CostTypes DEF PaidAhead
  <2> QED BY <2>1, <2>2, <2>3
<1> HIDE DEF post, cost, in
<1>4. /\ toRouter'[m] = post /\ \A n \in Memes \ {m} : toRouter'[n] = toRouter[n]
      /\ toRouter' \in [Memes -> Posts]
  <2>1. post \in Posts
    BY <1>2 DEF Posts
  <2> QED BY <1>0, <1>1, <2>1
<1>5. PoolsSame /\ Opened' = Opened
  BY <1>1, PoolsUntouched
<1>6. PaidAhead(m)' /\ FirstPools(m)' = {} /\ Served' = Served /\ ~Sending(m)'
  BY <1>1, <1>3, <1>4, <1>5 DEF PaidAhead, PoolsSame, Sending
<1>7. MemeSound(m)'
  <2>1. InTurn(m)'
    <3>1. Instantiable(plan[m]) /\ (post = <<"initialize">> => Recorded(plan[m]) # Unset)
      BY <1>0, <1>2, <1>3 DEF MemeSound, InTurn, PaidAhead
    <3>2. meme[m].funded => post = << >>
      BY <1>0, <1>2, PostsTaken DEF MemeSound, InTurn
    <3> QED BY <1>1, <1>2, <1>3, <1>4, <1>6, <3>1, <3>2, PostsTaken DEF InTurn, PaidAhead
  <2>2. PurseKept(m)'
    BY <1>0, <1>1, <1>3, <1>6 DEF PurseKept, MemeSound
  <2>3. BookSound(m)'
    BY <1>0, <1>1, <1>3, <1>6 DEF BookSound, Owing, MemeSound
  <2> QED BY <2>1, <2>2, <2>3 DEF MemeSound
<1>8. Shape'
  <2>1. /\ router' \in [fees : Int, native : Int] /\ wallet' \in [Users -> Nat]
        /\ left' \in [requests : Nat, settled : Nat, ops : Nat] /\ left'.requests = left.requests
    BY <1>0, <1>1
  <2>2. meme' = [meme EXCEPT ![m] = meme[m]]
    BY <1>0, <1>1
  <2> QED BY <1>0, <1>1, <1>4, <1>5, <1>7, <2>1, <2>2, MemeShape
<1>9. ASSUME NEW n \in Memes \ {m}
      PROVE  PaidAhead(n)' = PaidAhead(n) /\ Sending(n)' = Sending(n) /\ FirstPools(n)' = FirstPools(n)
  BY <1>1, <1>4, <1>5 DEF PaidAhead, Sending, PoolsSame
<1>10. FeesOf(Waiting') = FeesOf(Waiting) + Fee
  <2>1. IsWaiting(m)' /\ ~IsWaiting(m) /\ \A n \in Memes \ {m} : IsWaiting(n)' <=> IsWaiting(n)
    BY <1>3, <1>6, <1>9 DEF IsWaiting
  <2>2. Waiting' = Waiting \cup {m} /\ m \notin Waiting
    BY <2>1 DEF Waiting
  <2> QED BY <2>2, MoneyTerms, FeesCounted
<1>11. UNCHANGED <<PurseOf, Created>>
  BY <1>1 DEF PurseOf, Created
<1>12. SumFunction(Owed') = SumFunction(Owed) + in
  <2> DEFINE f == Owed
             h == Owed'
  <2>1. f \in [Memes -> Int] /\ f[m] = 0
    BY <1>3, MoneyTerms DEF Owed, OwedOf
  <2>2. h \in [Memes -> Int] /\ h[m] = in /\ \A n \in Memes \ {m} : h[n] = f[n]
    <3>1. OwedOf(m)' = in
      BY <1>1, <1>6 DEF OwedOf, in
    <3>2. \A n \in Memes \ {m} : OwedOf(n)' = OwedOf(n)
      BY <1>1, <1>5, <1>9 DEF OwedOf, PoolsSame
    <3>3. \A n \in Memes \ {m} : OwedOf(n)' \in Int
      BY <2>1, <3>2 DEF Owed
    <3>4. in \in Int
      BY <1>0
    <3>5. h = [n \in Memes |-> OwedOf(n)'] /\ f = [n \in Memes |-> OwedOf(n)]
      BY DEF Owed
    <3> HIDE DEF f, h
    <3> QED BY <3>1, <3>2, <3>3, <3>4, <3>5
  <2> HIDE DEF f, h
  <2>3. SumFunction(h) = SumFunction(f) - f[m] + h[m]
    BY <2>1, <2>2, OneChanges
  <2>4. SumFunction(f) \in Int
    BY MoneyTerms DEF f
  <2>5. SumFunction(h) = SumFunction(f) + in
    BY <1>0, <2>1, <2>2, <2>3, <2>4
  <2> QED BY <2>5 DEF f, h
<1>13. SumFunction(Ahead') = SumFunction(Ahead) - cost
  <2> DEFINE f == Ahead
             h == Ahead'
  <2>1. f \in [Memes -> Int] /\ f[m] = cost
    BY <1>3, MoneyTerms DEF Ahead, AheadOf, cost
  <2>2. h \in [Memes -> Int] /\ h[m] = 0 /\ \A n \in Memes \ {m} : h[n] = f[n]
    <3>1. AheadOf(m)' = 0
      BY <1>6 DEF AheadOf
    <3>2. \A n \in Memes \ {m} : AheadOf(n)' = AheadOf(n)
      BY <1>1, <1>9 DEF AheadOf
    <3>3. \A n \in Memes \ {m} : AheadOf(n)' \in Int
      BY <2>1, <3>2 DEF Ahead
    <3>5. h = [n \in Memes |-> AheadOf(n)'] /\ f = [n \in Memes |-> AheadOf(n)]
      BY DEF Ahead
    <3> HIDE DEF f, h
    <3> QED BY <3>1, <3>2, <3>3, <3>5
  <2> HIDE DEF f, h
  <2>3. SumFunction(h) = SumFunction(f) - f[m] + h[m]
    BY <2>1, <2>2, OneChanges
  <2>4. SumFunction(f) \in Int
    BY MoneyTerms DEF f
  <2>5. SumFunction(h) = SumFunction(f) - cost
    BY <1>0, <2>1, <2>2, <2>3, <2>4
  <2> QED BY <2>5 DEF f, h
<1>14. Balanced'
  <2>0. router.fees \in Int /\ router.native \in Int
        /\ router'.fees = router.fees + Fee /\ router'.native = router.native + in
    BY <1>0, <1>1
  <2>1. router'.fees = FeesOf(Waiting') /\ router'.native = SumFunction(Owed')
    BY <2>0, <1>10, <1>12 DEF Balanced
  <2> DEFINE total == Cardinality(Users) * Wealth
  <2>2. total = SumFunction(wallet) + SumFunction(PurseOf) + SumFunction(Ahead) + SumFunction(paid)
         + FeesOf(Waiting) + SumFunction(Owed)
         + FeesOf(Created) + FeesOf(requests) + FeesOf(Opened)
    BY DEF Balanced
  <2> HIDE DEF total
  <2>3. total = SumFunction(wallet) + SumFunction(PurseOf) + SumFunction(Ahead') + SumFunction(paid)
         + FeesOf(Waiting') + SumFunction(Owed')
         + FeesOf(Created) + FeesOf(requests) + FeesOf(Opened)
    BY <1>0, <1>3, <1>10, <1>12, <1>13, <2>2, MoneyTerms
  <2>4. total = (SumFunction(wallet) + SumFunction(PurseOf) + SumFunction(Ahead) + SumFunction(paid)
         + FeesOf(Waiting) + SumFunction(Owed)
         + FeesOf(Created) + FeesOf(requests) + FeesOf(Opened))'
    BY <1>1, <1>5, <1>11, <2>3
  <2> QED BY <2>1, <2>4 DEF Balanced, total, FeesOf
<1> QED BY <1>8, <1>14 DEF Kept

\* The chain of a meme's first pool is opened.
LEMMA MemeChainOpens ==
  ASSUME RegistryInv, NEW m \in Memes, NEW c \in PoolChains, NEW to,
         OpenPoolChain(c, <<m, Native>>, "meme", to)
  PROVE  /\ Opened' = Opened \cup {c} /\ c \notin Opened
         /\ FirstPools(m)' = FirstPools(m) \cup {c}
         /\ \A n \in Memes \ {m} : FirstPools(n)' = FirstPools(n)
         /\ Served' = Served /\ \A d \in Served : chain'[d].pair = chain[d].pair
<1> DEFINE new == [stage |-> "opened", pair |-> <<m, Native>>, policy |-> "meme",
                   settled |-> 0, news |-> 0, updates |-> << >>]
<1>1. chain' = [chain EXCEPT ![c] = new] /\ chain[c] = NoChain
  BY DEF OpenPoolChain
<1>2. new.stage = "opened" /\ new.policy = "meme" /\ new.pair[1] = m /\ c \notin Opened /\ c \notin Served
  BY <1>1, ChainTypes
<1> HIDE DEF new
<1>3. \A d \in PoolChains : chain'[d] = IF d = c THEN new ELSE chain[d]
  BY <1>1, ChainTypes
<1>4. Opened' = Opened \cup {c}
  BY <1>2, <1>3 DEF Opened
<1>5. ASSUME NEW n \in Memes
      PROVE  FirstPools(n)' = IF n = m THEN FirstPools(n) \cup {c} ELSE FirstPools(n)
  <2>1. FirstPools(n)' = {d \in Opened \cup {c} : chain'[d].policy = "meme" /\ chain'[d].pair[1] = n}
    BY <1>4 DEF FirstPools
  <2>2. \A d \in Opened : d \in PoolChains /\ chain'[d] = chain[d]
    BY <1>2, <1>3 DEF Opened
  <2>3. chain'[c].policy = "meme" /\ chain'[c].pair[1] = m
    BY <1>2, <1>3
  <2> QED BY <2>1, <2>2, <2>3 DEF FirstPools
<1>6. Served' = Served /\ \A d \in Served : chain'[d].pair = chain[d].pair
  BY <1>2, <1>3 DEF Served
<1> QED BY <1>2, <1>4, <1>5, <1>6

\* The router opens a chain for the pool with the fee of this launch.
LEMMA InitializeLiquidityKept ==
  ASSUME RegistryInv, Shape, Balanced, NEW m \in Memes, NEW c \in PoolChains, InitializeLiquidity(m, c)
  PROVE  Kept
<1> DEFINE post == Tail(toRouter[m])
           to == [router EXCEPT !.fees = @ - Fee]
<1>0. /\ plan[m] \in Plan /\ meme[m] \in MemeRecords /\ toRouter[m] \in Posts /\ MemeSound(m)
      /\ meme \in [Memes -> MemeRecords] /\ toRouter \in [Memes -> Posts]
      /\ left \in [requests : Nat, settled : Nat, ops : Nat]
      /\ router \in [fees : Int, native : Int] /\ wallet \in [Users -> Nat] /\ Fee \in Nat
  BY MemeTypes
<1>1. /\ toRouter[m] # << >> /\ Head(toRouter[m]) = "initialize"
      /\ toRouter' = [toRouter EXCEPT ![m] = post]
      /\ OpenPoolChain(c, <<m, Native>>, "meme", to) /\ router' = to
      /\ UNCHANGED <<requests, wallet, plan, paid, meme, initializing, bootstraps, left>>
  BY DEF InitializeLiquidity, OpenPoolChain
<1>2. /\ toRouter[m] = <<"initialize">> /\ post = << >>
  BY <1>0, <1>1, PostsTaken DEF Posts
<1>3. /\ PaidAhead(m) /\ FirstPools(m) = {} /\ ~Sending(m) /\ Recorded(plan[m]) # Unset
      /\ ~meme[m].funded
  BY <1>0, <1>2, PostsTaken, PostsSending DEF MemeSound, InTurn, Sending
<1> HIDE DEF post
<1>4. /\ toRouter'[m] = << >> /\ \A n \in Memes \ {m} : toRouter'[n] = toRouter[n]
      /\ toRouter' \in [Memes -> Posts]
  <2>1. post \in Posts
    BY <1>2 DEF Posts
  <2> QED BY <1>0, <1>1, <1>2, <2>1
<1>5. /\ Opened' = Opened \cup {c} /\ c \notin Opened
      /\ FirstPools(m)' = {c}
      /\ \A n \in Memes \ {m} : FirstPools(n)' = FirstPools(n)
      /\ Served' = Served /\ \A d \in Served : chain'[d].pair = chain[d].pair
  BY <1>1, <1>3, MemeChainOpens
<1>6. c \notin Served /\ c \notin initializing /\ c \notin bootstraps
  <2>1. c \notin Served
    BY <1>5, ChainTypes
  <2> QED BY <2>1 DEF Shape, PoolsPaid
<1>7. PaidAhead(m)' /\ ~Sending(m)'
  BY <1>1, <1>3, <1>4, PostsSending DEF PaidAhead, Sending
<1>8. MemeSound(m)'
  <2>1. InTurn(m)'
    <3>1. Instantiable(plan[m])
      BY <1>0, <1>3 DEF MemeSound, InTurn, PaidAhead
    <3> QED BY <1>1, <1>3, <1>4, <1>5, <1>7, <3>1, PostsTaken DEF InTurn, PaidAhead
  <2>2. PurseKept(m)'
    BY <1>0, <1>1, <1>3, <1>7 DEF PurseKept, MemeSound
  <2>3. Owing(m) /\ Owing(m)'
    BY <1>1, <1>3, <1>5, <1>6 DEF Owing
  <2>4. BookSound(m)'
    BY <1>0, <1>1, <1>5, <1>6, <2>3 DEF BookSound, MemeSound
  <2> QED BY <2>1, <2>2, <2>4 DEF MemeSound
<1>9. Shape'
  <2>1. LaunchTypes'
    BY <1>0, <1>1, <1>4 DEF Shape, LaunchTypes
  <2>2. RequestsApart'
    BY <1>1 DEF Shape, RequestsApart
  <2>3. PoolsPaid'
    <3>1. initializing' \cup bootstraps' \subseteq Served' /\ initializing' \cap bootstraps' = {}
      BY <1>1, <1>5 DEF Shape, PoolsPaid
    <3>2. ASSUME NEW d \in PoolChains
          PROVE  paid'[d] = IF d \in Served' THEN NativeIn(plan'[chain'[d].pair[1]]) ELSE 0
      BY <1>1, <1>5 DEF Shape, PoolsPaid
    <3> QED BY <3>1, <3>2 DEF PoolsPaid
  <2>4. \A n \in Memes : MemeSound(n)'
    BY <1>1, <1>4, <1>5, <1>8, OtherMemes
  <2> QED BY <2>1, <2>2, <2>3, <2>4 DEF Shape
<1>10. ASSUME NEW n \in Memes \ {m}
       PROVE  PaidAhead(n)' = PaidAhead(n) /\ Sending(n)' = Sending(n) /\ FirstPools(n)' = FirstPools(n)
  BY <1>1, <1>4, <1>5 DEF PaidAhead, Sending
<1>11. FeesOf(Waiting') = FeesOf(Waiting) - Fee
  <2>1. ~IsWaiting(m)' /\ IsWaiting(m) /\ \A n \in Memes \ {m} : IsWaiting(n)' <=> IsWaiting(n)
    BY <1>3, <1>5, <1>10 DEF IsWaiting
  <2>2. Waiting' = Waiting \ {m} /\ m \in Waiting
    BY <2>1 DEF Waiting
  <2> QED BY <2>2, MoneyTerms, FeesCounted
<1>12. UNCHANGED <<PurseOf, Created, Ahead, Owed>>
  <2>1. \A n \in Memes : AheadOf(n)' = AheadOf(n)
    BY <1>1, <1>3, <1>7, <1>10 DEF AheadOf
  <2>2. \A n \in Memes : OwedOf(n)' = OwedOf(n)
    <3>1. OwedOf(m)' = OwedOf(m)
      BY <1>1, <1>3, <1>5, <1>6, <1>7 DEF OwedOf
    <3>2. \A n \in Memes \ {m} : OwedOf(n)' = OwedOf(n)
      BY <1>1, <1>5, <1>10 DEF OwedOf
    <3> QED BY <3>1, <3>2
  <2> QED BY <1>1, <2>1, <2>2 DEF PurseOf, Created, Ahead, Owed
<1>13. FeesOf(Opened') = FeesOf(Opened) + Fee
  BY <1>5, MoneyTerms, FeesCounted
<1>14. Balanced'
  <2>0. router.fees \in Int /\ router.native \in Int
        /\ router'.fees = router.fees - Fee /\ router'.native = router.native
    BY <1>0, <1>1
  <2>1. router'.fees = FeesOf(Waiting') /\ router'.native = SumFunction(Owed')
    BY <2>0, <1>11, <1>12 DEF Balanced
  <2> DEFINE total == Cardinality(Users) * Wealth
  <2>2. total = SumFunction(wallet) + SumFunction(PurseOf) + SumFunction(Ahead) + SumFunction(paid)
         + FeesOf(Waiting) + SumFunction(Owed)
         + FeesOf(Created) + FeesOf(requests) + FeesOf(Opened)
    BY DEF Balanced
  <2> HIDE DEF total
  <2>3. total = SumFunction(wallet) + SumFunction(PurseOf) + SumFunction(Ahead) + SumFunction(paid)
         + FeesOf(Waiting') + SumFunction(Owed)
         + FeesOf(Created) + FeesOf(requests) + FeesOf(Opened')
    BY <1>0, <1>11, <1>13, <2>2, MoneyTerms
  <2>4. total = (SumFunction(wallet) + SumFunction(PurseOf) + SumFunction(Ahead) + SumFunction(paid)
         + FeesOf(Waiting) + SumFunction(Owed)
         + FeesOf(Created) + FeesOf(requests) + FeesOf(Opened))'
    BY <1>1, <1>12, <2>3
  <2> QED BY <2>1, <2>4 DEF Balanced, total, FeesOf
<1> QED BY <1>9, <1>14 DEF Kept

\* The chain of a meme's first pool is registered.
LEMMA MemePoolRegisters ==
  ASSUME RegistryInv, NEW c \in PoolChains, chain[c].stage = "built", chain[c].policy = "meme",
         chain' = [chain EXCEPT ![c].stage = "registered"]
  PROVE  /\ Opened' = Opened /\ \A n \in Memes : FirstPools(n)' = FirstPools(n)
         /\ Served' = Served \cup {c} /\ c \notin Served
         /\ \A d \in PoolChains : chain'[d].pair = chain[d].pair
         /\ chain[c].pair[1] \in Memes /\ c \in FirstPools(chain[c].pair[1])
<1> DEFINE new == [chain[c] EXCEPT !.stage = "registered"]
<1>1. chain' = [chain EXCEPT ![c] = new] /\ c \in Opened /\ chain[c] \in ChainRecords
  BY ChainTypes DEF Opened
<1>2. new.stage = "registered" /\ new.policy = chain[c].policy /\ new.pair = chain[c].pair
  BY <1>1 DEF ChainRecords
<1> HIDE DEF new
<1>3. \A d \in PoolChains : chain'[d] = IF d = c THEN new ELSE chain[d]
  BY <1>1, ChainTypes
<1>4. \A d \in PoolChains : chain'[d].pair = chain[d].pair /\ chain'[d].policy = chain[d].policy
  BY <1>2, <1>3
<1>5. Opened' = Opened
  BY <1>1, <1>2, <1>3 DEF Opened
<1>6. \A n \in Memes : FirstPools(n)' = FirstPools(n)
  <2> SUFFICES ASSUME NEW n \in Memes PROVE FirstPools(n)' = FirstPools(n)
    OBVIOUS
  <2>1. FirstPools(n)' = {d \in Opened : chain'[d].policy = "meme" /\ chain'[d].pair[1] = n}
    BY <1>5 DEF FirstPools
  <2>2. \A d \in Opened : d \in PoolChains
    BY DEF Opened
  <2> QED BY <1>4, <2>1, <2>2 DEF FirstPools
<1>7. Served' = Served \cup {c} /\ c \notin Served
  <2>1. \A d \in PoolChains : chain'[d].stage = "registered" /\ chain'[d].policy = "meme" <=>
                                d = c \/ (chain[d].stage = "registered" /\ chain[d].policy = "meme")
    BY <1>2, <1>3
  <2> QED BY <2>1 DEF Served
<1>8. chain[c].pair[1] \in Memes
  BY <1>1 DEF ChainRecords, Orders
<1>9. c \in FirstPools(chain[c].pair[1])
  BY <1>1, <1>8 DEF FirstPools
<1> QED BY <1>4, <1>5, <1>6, <1>7, <1>8, <1>9

\* The router pays a meme's first pool what this launch paid for it.
LEMMA InitialPoolCreatedKept ==
  ASSUME RegistryInv, Shape, Balanced, NEW c \in PoolChains, InitialPoolCreated(c),
         NEW m, m = chain[c].pair[1]
  PROVE  Kept
<1> DEFINE in == NativeIn(plan[m])
<1>1. /\ chain[c].stage = "built" /\ chain[c].policy = "meme"
      /\ chain' = [chain EXCEPT ![c].stage = "registered"]
      /\ router' = [router EXCEPT !.native = @ - in]
      /\ paid' = [paid EXCEPT ![c] = in]
      /\ initializing' = initializing \cup {c}
      /\ UNCHANGED <<requests, wallet, plan, meme, toRouter, bootstraps, left>>
  BY DEF InitialPoolCreated, PaidIn
<1>2. /\ Opened' = Opened /\ \A n \in Memes : FirstPools(n)' = FirstPools(n)
      /\ Served' = Served \cup {c} /\ c \notin Served
      /\ \A d \in PoolChains : chain'[d].pair = chain[d].pair
      /\ m \in Memes /\ c \in FirstPools(m)
  BY <1>1, MemePoolRegisters
<1>0. /\ plan[m] \in Plan /\ meme[m] \in MemeRecords /\ toRouter[m] \in Posts /\ MemeSound(m)
      /\ meme \in [Memes -> MemeRecords] /\ toRouter \in [Memes -> Posts]
      /\ left \in [requests : Nat, settled : Nat, ops : Nat]
      /\ router \in [fees : Int, native : Int] /\ wallet \in [Users -> Nat]
      /\ in \in Nat /\ paid \in [PoolChains -> Nat] /\ plan \in [Memes -> Plan]
  BY <1>2, MemeTypes DEF Shape, LaunchTypes
<1>3. /\ PaidAhead(m) /\ FirstPools(m) = {c} /\ ~Sending(m) /\ toRouter[m] = << >>
      /\ Recorded(plan[m]) # Unset
  <2>1. PaidAhead(m) /\ toRouter[m] = << >> /\ Recorded(plan[m]) # Unset
    BY <1>0, <1>2 DEF MemeSound, InTurn
  <2>2. FirstPools(m) = {c}
    BY <1>0, <1>2 DEF MemeSound, InTurn
  <2> QED BY <2>1, <2>2, PostsSending DEF Sending
<1>4. \A n \in Memes \ {m} : c \notin FirstPools(n)
  BY <1>2 DEF FirstPools
<1>5. c \notin initializing /\ c \notin bootstraps /\ paid[c] = 0
  BY <1>2 DEF Shape, PoolsPaid
<1> HIDE DEF in
<1>6. MemeSound(m)'
  <2>1. InTurn(m)'
    BY <1>0, <1>1, <1>2, ZenonT(40) DEF InTurn, PaidAhead, MemeSound
  <2>2. PurseKept(m)'
    BY <1>0, <1>1 DEF PurseKept, PaidAhead, MemeSound
  <2>3. Owing(m) /\ Owing(m)'
    BY <1>1, <1>2, <1>3 DEF Owing
  <2>4. FirstPools(m)' = FirstPools(m)
    BY <1>2
  <2>5. BookSound(m)'
    BY <1>0, <1>1, <2>3, <2>4 DEF BookSound, MemeSound
  <2> QED BY <2>1, <2>2, <2>5 DEF MemeSound
<1>7. Shape'
  <2>1. LaunchTypes'
    <3>1. router' \in [fees : Int, native : Int]
      BY <1>0, <1>1
    <3>2. paid' \in [PoolChains -> Nat]
      BY <1>0, <1>1
    <3> QED BY <1>0, <1>1, <3>1, <3>2 DEF LaunchTypes
  <2>2. RequestsApart'
    BY <1>1 DEF Shape, RequestsApart
  <2>3. PoolsPaid'
    <3>1. initializing' \cup bootstraps' \subseteq Served' /\ initializing' \cap bootstraps' = {}
      BY <1>1, <1>2, <1>5 DEF Shape, PoolsPaid
    <3>2. ASSUME NEW d \in PoolChains
          PROVE  paid'[d] = IF d \in Served' THEN NativeIn(plan'[chain'[d].pair[1]]) ELSE 0
      <4>1. paid[d] = IF d \in Served THEN NativeIn(plan[chain[d].pair[1]]) ELSE 0
        BY DEF Shape, PoolsPaid
      <4>2. CASE d = c
        BY <1>0, <1>1, <1>2, <4>2 DEF in
      <4>3. CASE d # c
        BY <1>0, <1>1, <1>2, <4>1, <4>3
      <4> QED BY <4>2, <4>3
    <3> QED BY <3>1, <3>2 DEF PoolsPaid
  <2>4. \A n \in Memes : MemeSound(n)'
    <3>1. ASSUME NEW n \in Memes \ {m}
          PROVE  /\ meme'[n] = meme[n] /\ toRouter'[n] = toRouter[n] /\ FirstPools(n)' = FirstPools(n)
                 /\ \A d \in FirstPools(n) : /\ d \in Served' <=> d \in Served
                                             /\ d \in initializing' <=> d \in initializing
                                             /\ d \in bootstraps' => d \in bootstraps
      BY <1>1, <1>2, <1>4
    <3> QED BY <1>1, <1>2, <1>6, <3>1, OtherMemes
  <2> QED BY <2>1, <2>2, <2>3, <2>4 DEF Shape
<1>8. \A n \in Memes : (PaidAhead(n)' <=> PaidAhead(n)) /\ (Sending(n)' <=> Sending(n))
  BY <1>1 DEF PaidAhead, Sending
<1>9. UNCHANGED <<PurseOf, Created, Ahead, Waiting>>
  <2>1. \A n \in Memes : AheadOf(n)' = AheadOf(n)
    BY <1>1, <1>8 DEF AheadOf
  <2>2. \A n \in Memes : IsWaiting(n)' <=> IsWaiting(n)
    BY <1>2, <1>8 DEF IsWaiting
  <2> QED BY <1>1, <2>1, <2>2 DEF PurseOf, Created, Ahead, Waiting
<1>10. SumFunction(Owed') = SumFunction(Owed) - in
  <2> DEFINE f == Owed
             h == Owed'
  <2>1. f \in [Memes -> Int] /\ f[m] = in
    <3>1. OwedOf(m) = in
      BY <1>2, <1>3 DEF OwedOf, in
    <3> QED BY <1>2, <3>1, MoneyTerms DEF Owed
  <2>2. h \in [Memes -> Int] /\ h[m] = 0 /\ \A n \in Memes \ {m} : h[n] = f[n]
    <3>1. OwedOf(m)' = 0
      BY <1>2, <1>3 DEF OwedOf
    <3>2. \A n \in Memes \ {m} : OwedOf(n)' = OwedOf(n)
      <4> SUFFICES ASSUME NEW n \in Memes \ {m} PROVE OwedOf(n)' = OwedOf(n)
        OBVIOUS
      <4>1. FirstPools(n)' = FirstPools(n) /\ FirstPools(n)' \cap Served' = FirstPools(n) \cap Served
        BY <1>2, <1>4
      <4> QED BY <1>1, <1>8, <4>1 DEF OwedOf
    <3>3. \A n \in Memes \ {m} : OwedOf(n)' \in Int
      BY <2>1, <3>2 DEF Owed
    <3>4. h = [n \in Memes |-> OwedOf(n)'] /\ f = [n \in Memes |-> OwedOf(n)]
      BY DEF Owed
    <3> HIDE DEF f, h
    <3> QED BY <1>2, <3>1, <3>2, <3>3, <3>4
  <2> HIDE DEF f, h
  <2>3. SumFunction(h) = SumFunction(f) - f[m] + h[m]
    BY <1>2, <2>1, <2>2, OneChanges
  <2>4. SumFunction(f) \in Int
    BY MoneyTerms DEF f
  <2>5. SumFunction(h) = SumFunction(f) - in
    BY <1>0, <2>1, <2>2, <2>3, <2>4
  <2> QED BY <2>5 DEF f, h
<1>11. SumFunction(paid') = SumFunction(paid) + in
  <2>1. SumFunction(paid') = SumFunction(paid) - paid[c] + in
    <3>1. paid \in [PoolChains -> Int] /\ paid' \in [PoolChains -> Int] /\ in \in Int
      BY <1>0, <1>1
    <3>2. paid'[c] = in /\ \A d \in PoolChains \ {c} : paid'[d] = paid[d]
      BY <1>0, <1>1
    <3>3. IsFiniteSet(PoolChains)
      BY LaunchAssumption
    <3> QED BY <3>1, <3>2, <3>3, SumUpdate
  <2> QED BY <1>0, <1>5, <2>1, MoneyTerms
<1>12. Balanced'
  <2>0. router.fees \in Int /\ router.native \in Int
        /\ router'.fees = router.fees /\ router'.native = router.native - in
    BY <1>0, <1>1
  <2>1. router'.fees = FeesOf(Waiting') /\ router'.native = SumFunction(Owed')
    BY <2>0, <1>9, <1>10 DEF Balanced
  <2> DEFINE total == Cardinality(Users) * Wealth
  <2>2. total = SumFunction(wallet) + SumFunction(PurseOf) + SumFunction(Ahead) + SumFunction(paid)
         + FeesOf(Waiting) + SumFunction(Owed)
         + FeesOf(Created) + FeesOf(requests) + FeesOf(Opened)
    BY DEF Balanced
  <2> HIDE DEF total
  <2>3. total = SumFunction(wallet) + SumFunction(PurseOf) + SumFunction(Ahead) + SumFunction(paid')
         + FeesOf(Waiting) + SumFunction(Owed')
         + FeesOf(Created) + FeesOf(requests) + FeesOf(Opened)
    BY <1>0, <1>10, <1>11, <2>2, MoneyTerms
  <2>4. total = (SumFunction(wallet) + SumFunction(PurseOf) + SumFunction(Ahead) + SumFunction(paid)
         + FeesOf(Waiting) + SumFunction(Owed)
         + FeesOf(Created) + FeesOf(requests) + FeesOf(Opened))'
    BY <1>1, <1>2, <1>9, <2>3
  <2> QED BY <2>1, <2>4 DEF Balanced, total, FeesOf
<1> QED BY <1>7, <1>12 DEF Kept

\* The meme's chain pays the first pool out of the router's allowance.
LEMMA MemeInitializesPoolKept ==
  ASSUME RegistryInv, Shape, Balanced, NEW c \in PoolChains, MemeInitializesPool(c),
         NEW m, m = chain[c].pair[1]
  PROVE  Kept
<1> DEFINE x == Recorded(plan[m]).fungible
           b == meme[m].book
           t == TransferredFrom(b, Swap, Holder, PoolAccount(c), x)
           opens == meme[m].started \/ (plan[m].mining /\ plan[m].miningSupply # Unset
                                                       /\ plan[m].miningSupply > 0)
           new == [meme[m] EXCEPT !.book = t, !.started = opens]
<1>1. /\ c \in initializing /\ meme[m].stage = "live"
      /\ CanTransferFrom(b, Swap, Holder, x)
      /\ initializing' = initializing \ {c} /\ bootstraps' = bootstraps \cup {c}
      /\ meme' = [meme EXCEPT ![m] = new]
      /\ UNCHANGED <<chain, requests, router, wallet, plan, paid, toRouter, left>>
  BY DEF MemeInitializesPool, Executable, Asked, rvars
<1>2. c \in Served /\ m \in Memes /\ c \in FirstPools(m) /\ c \notin bootstraps
  <2>1. c \in Served /\ c \notin bootstraps
    BY <1>1 DEF Shape, PoolsPaid
  <2> QED BY <2>1, ChainTypes
<1>0. /\ plan[m] \in Plan /\ meme[m] \in MemeRecords /\ MemeSound(m) /\ b \in Books
      /\ meme \in [Memes -> MemeRecords]
  BY <1>2, MemeTypes
<1>3. /\ FirstPools(m) = {c} /\ Recorded(plan[m]) # Unset /\ Instantiable(plan[m]) /\ x \in Nat
  <2>1. FirstPools(m) = {c} /\ Recorded(plan[m]) # Unset /\ Instantiable(plan[m])
    BY <1>0, <1>1, <1>2 DEF MemeSound, InTurn
  <2> QED BY <1>0, <2>1, Pooled
<1>4. /\ t \in Books /\ Worth(t) = Worth(b)
      /\ t.balance[PoolAccount(c)] = b.balance[PoolAccount(c)] + x
      /\ Allowance(t, Holder, Swap) = Allowance(b, Holder, Swap) - x
  <2>1. Swap \in Accounts /\ Holder \in Accounts /\ PoolAccount(c) \in Accounts
    BY AccountsAssumption
  <2> HIDE DEF b, t, x
  <2>2. t = TransferredFrom(b, Swap, Holder, PoolAccount(c), x)
    BY DEF t
  <2> QED BY <1>0, <1>1, <1>3, <2>1, <2>2, BookTransferredFrom
<1>5. Allowance(b, Holder, Swap) = x /\ Worth(b) = plan[m].supply
  <2>1. Owing(m)
    BY <1>1, <1>3 DEF Owing
  <2> QED BY <1>0, <1>1, <2>1 DEF MemeSound, BookSound
<1>6. /\ t.balance[PoolAccount(c)] >= x /\ Allowance(t, Holder, Swap) = 0
  <2>1. b.balance[PoolAccount(c)] \in Nat
    BY <1>0, AccountsAssumption, BookTypes
  <2> HIDE DEF b, t, x
  <2> QED BY <1>3, <1>4, <1>5, <2>1
<1>7. /\ new \in MemeRecords /\ new.stage = "live" /\ new.book = t
      /\ new.creator = meme[m].creator /\ new.purse = meme[m].purse /\ new.funded = meme[m].funded
  <2> HIDE DEF t
  <2>1. opens \in BOOLEAN
    BY <1>0 DEF MemeRecords
  <2> HIDE DEF opens
  <2> QED BY <1>0, <1>1, <1>4, <2>1 DEF MemeRecords
<1> HIDE DEF new
<1>8. meme'[m] = new /\ \A n \in Memes \ {m} : meme'[n] = meme[n]
  BY <1>0, <1>1, <1>2
<1>9. PoolsSame /\ Opened' = Opened /\ Served' = Served /\ FirstPools(m)' = {c}
  <2>1. PoolsSame /\ Opened' = Opened
    BY <1>1, PoolsUntouched
  <2> QED BY <1>2, <1>3, <2>1 DEF PoolsSame
<1>10. MemeSound(m)'
  <2>1. InTurn(m)'
    BY <1>0, <1>1, <1>3, <1>7, <1>8, <1>9 DEF InTurn, PaidAhead, MemeSound
  <2>2. PurseKept(m)'
    BY <1>0, <1>1, <1>7, <1>8 DEF PurseKept, PaidAhead, MemeSound
  <2>3. ~Owing(m)'
    BY <1>1, <1>2, <1>9 DEF Owing
  <2>4. BookSound(m)'
    <3>1. meme'[m].book = t /\ plan'[m] = plan[m]
      BY <1>1, <1>7, <1>8
    <3>2. Worth(t) = plan[m].supply
      BY <1>4, <1>5
    <3> HIDE DEF t, b
    <3> QED BY <1>6, <1>9, <2>3, <3>1, <3>2 DEF BookSound
  <2> QED BY <2>1, <2>2, <2>4 DEF MemeSound
<1>11. Shape'
  <2>1. LaunchTypes'
    BY <1>0, <1>1, <1>7 DEF Shape, LaunchTypes
  <2>2. RequestsApart'
    BY <1>1 DEF Shape, RequestsApart
  <2>3. PoolsPaid'
    <3>1. initializing' \cup bootstraps' \subseteq Served' /\ initializing' \cap bootstraps' = {}
      BY <1>1, <1>2, <1>9 DEF Shape, PoolsPaid
    <3>2. ASSUME NEW d \in PoolChains
          PROVE  paid'[d] = IF d \in Served' THEN NativeIn(plan'[chain'[d].pair[1]]) ELSE 0
      BY <1>1, <1>9 DEF Shape, PoolsPaid
    <3> QED BY <3>1, <3>2 DEF PoolsPaid
  <2>4. \A n \in Memes : MemeSound(n)'
    <3>1. \A n \in Memes \ {m} : c \notin FirstPools(n)
      BY DEF FirstPools
    <3>2. ASSUME NEW n \in Memes \ {m}
          PROVE  /\ meme'[n] = meme[n] /\ toRouter'[n] = toRouter[n] /\ FirstPools(n)' = FirstPools(n)
                 /\ \A d \in FirstPools(n) : /\ d \in Served' <=> d \in Served
                                             /\ d \in initializing' <=> d \in initializing
                                             /\ d \in bootstraps' => d \in bootstraps
      BY <1>1, <1>8, <1>9, <3>1 DEF PoolsSame
    <3> QED BY <1>1, <1>2, <1>10, <3>2, OtherMemes
  <2> QED BY <2>1, <2>2, <2>3, <2>4 DEF Shape
<1>12. Balanced'
  <2>1. \A n \in Memes : /\ meme'[n].stage = "none" <=> meme[n].stage = "none"
                         /\ meme'[n].stage = "live" <=> meme[n].stage = "live"
                         /\ meme'[n].purse = meme[n].purse
    BY <1>1, <1>7, <1>8
  <2>2. SumFunction(wallet') \in Int /\ FeesOf(requests') \in Int /\ FeesOf(Opened') \in Int
    BY <1>1, <1>9, MoneyTerms
  <2>3. SumFunction(wallet') + FeesOf(requests') + FeesOf(Opened') =
          SumFunction(wallet) + FeesOf(requests) + FeesOf(Opened)
    BY <1>1, <1>9
  <2> QED BY <1>1, <1>9, <2>1, <2>2, <2>3, BalancedKept
<1> QED BY <1>11, <1>12 DEF Kept

-----------------------------------------------------------------------------
(* Launches from the start.                                                *)

LEMMA LaunchBegins ==
  ASSUME Init
  PROVE  LaunchInv
<1>1. RegistryInv
  BY LaunchInit
<1>2. /\ requests = {} /\ initializing = {} /\ bootstraps = {}
      /\ chain = [c \in PoolChains |-> NoChain]
      /\ router = [fees |-> 0, native |-> 0]
      /\ wallet = [u \in Users |-> Wealth]
      /\ paid = [c \in PoolChains |-> 0]
      /\ toRouter = [m \in Memes |-> << >>]
      /\ meme = [m \in Memes |-> [stage |-> "none", creator |-> Unset, purse |-> 0, book |-> NoBook,
                                  funded |-> FALSE, started |-> FALSE, mined |-> FALSE]]
  BY DEF Init, RegistryInit
<1>3. plan \in [Memes -> Plan] /\ left \in [requests : Nat, settled : Nat, ops : Nat]
  BY LaunchAssumption DEF Init
<1>4. Served = {} /\ Opened = {} /\ \A m \in Memes : FirstPools(m) = {}
  <2>1. \A c \in PoolChains : chain[c].stage = "none"
    BY <1>2 DEF NoChain
  <2> QED BY <2>1 DEF Served, Opened, FirstPools
<1>5. \A m \in Memes : /\ meme[m].stage = "none" /\ meme[m].purse = 0 /\ ~meme[m].funded
                       /\ toRouter[m] = << >>
  BY <1>2
<1>6. Shape
  <2>1. LaunchTypes
    <3>1. NoBook \in Books
      <4>1. << >> \in [{} -> Nat] /\ {} \in SUBSET (Accounts \X Accounts)
        OBVIOUS
      <4>2. << >> \in UNION {[s -> Nat] : s \in SUBSET (Accounts \X Accounts)}
        BY <4>1
      <4>3. Empty \in [Accounts -> Nat]
        BY DEF Empty
      <4> QED BY <4>2, <4>3 DEF NoBook, Books
    <3>2. meme \in [Memes -> MemeRecords]
      BY <1>2, <3>1 DEF MemeRecords
    <3>3. toRouter \in [Memes -> Posts]
      BY <1>2 DEF Posts
    <3>4. router \in [fees : Int, native : Int] /\ wallet \in [Users -> Nat] /\ paid \in [PoolChains -> Nat]
      BY <1>2, LaunchAssumption
    <3> QED BY <1>3, <3>2, <3>3, <3>4 DEF LaunchTypes
  <2>2. RequestsApart
    BY <1>2, FS_EmptySet DEF RequestsApart
  <2>3. PoolsPaid
    BY <1>2, <1>4 DEF PoolsPaid
  <2>4. ASSUME NEW m \in Memes PROVE MemeSound(m)
    <3>1. InTurn(m)
      BY <1>4, <1>5, PostsTaken DEF InTurn
    <3>2. PurseKept(m) /\ BookSound(m)
      BY <1>5 DEF PurseKept, BookSound
    <3> QED BY <3>1, <3>2 DEF MemeSound
  <2> QED BY <2>1, <2>2, <2>3, <2>4 DEF Shape
<1>7. Balanced
  <2>1. \A m \in Memes : ~PaidAhead(m)
    BY <1>5 DEF PaidAhead
  <2>2. Waiting = {} /\ Created = {}
    BY <1>5, <2>1 DEF Waiting, IsWaiting, Created
  <2>3. FeesOf({}) = 0
    <3>1. Cardinality({}) = 0 /\ Fee \in Nat
      BY FS_EmptySet, LaunchAssumption
    <3> QED BY <3>1 DEF FeesOf
  <2>4. SumFunction(Ahead) = 0 /\ SumFunction(Owed) = 0 /\ SumFunction(PurseOf) = 0
        /\ SumFunction(paid) = 0
    <3>1. Ahead \in [Memes -> {0}] /\ Owed \in [Memes -> {0}] /\ PurseOf \in [Memes -> {0}]
          /\ paid \in [PoolChains -> {0}]
      BY <1>2, <1>5, <2>1 DEF Ahead, AheadOf, Owed, OwedOf, PurseOf
    <3> QED BY <3>1, SumZero, LaunchAssumption
  <2>5. SumFunction(wallet) = Cardinality(Users) * Wealth
    <3>1. wallet \in [Users -> {Wealth}] /\ Wealth \in Int /\ IsFiniteSet(Users)
      BY <1>2, LaunchAssumption
    <3> QED BY <3>1, SumSame
  <2>6. SumFunction(wallet) \in Int
    BY <1>1, <1>6, MoneyTerms
  <2> QED BY <1>2, <1>4, <2>2, <2>3, <2>4, <2>5, <2>6 DEF Balanced
<1> QED BY <1>1, <1>6, <1>7 DEF LaunchInv

LEMMA LaunchContinues ==
  ASSUME LaunchInv, [Next]_vars
  PROVE  LaunchInv'
<1>1. RegistryInv /\ Shape /\ Balanced
  BY DEF LaunchInv
<1>2. RegistryInv'
  BY <1>1, LaunchStep DEF Implemented
<1>3. ASSUME Launched PROVE Kept
  <2>1. ASSUME NEW m \in Memes, \/ MemeChainOpened(m) \/ MemeCreated(m) \/ MemeRejected(m)
                                \/ LiquidityFunded(m) \/ RouterFunded(m)
        PROVE  Kept
    BY <1>1, <2>1, MemeGoesOn, MemeCreatedKept, LiquidityFundedKept, RouterFundedKept
  <2>2. ASSUME NEW m \in Memes, NEW c \in PoolChains, InitializeLiquidity(m, c) PROVE Kept
    BY <1>1, <2>2, InitializeLiquidityKept
  <2>3. ASSUME NEW c \in PoolChains, InitialPoolCreated(c) \/ MemeInitializesPool(c)
        PROVE  Kept
    BY <1>1, <2>3, InitialPoolCreatedKept, MemeInitializesPoolKept
  <2>4. ASSUME NEW c \in PoolChains, PoolInitialized(c) \/ PoolInitializeRejected(c) PROVE Kept
    BY <1>1, <2>4, PoolsKept
  <2> QED BY <1>3, <2>1, <2>2, <2>3, <2>4 DEF Launched
<1>4. ASSUME Deliver PROVE Kept
  BY <1>1, <1>3, <1>4, RoutedKept DEF Deliver
<1>5. ASSUME NEW u \in Users, NEW m \in Memes, CreateMeme(u, m) PROVE Kept
  BY <1>1, <1>5, CreateMemeKept
<1>6. ASSUME NEW u \in Users, NEW p \in Orders, UserCreatesPool(u, p) PROVE Kept
  BY <1>1, <1>6, RequestMade
<1>7. ASSUME NEW c \in PoolChains, PoolUsed(c) PROVE Kept
  BY <1>1, <1>7, PoolsKept
<1>8. ASSUME NEW m \in Memes, TokenUsed(m) PROVE Kept
  BY <1>1, <1>8, TokenUsedKept
<1>9. ASSUME UNCHANGED vars PROVE Kept
  <2>1. UNCHANGED <<chain, requests, router, wallet, plan, meme, toRouter, paid, initializing,
                    bootstraps, left>>
    BY <1>9 DEF vars, rvars, lvars
  <2>2. PoolsSame /\ Opened' = Opened
    BY <2>1, PoolsUntouched
  <2>3. left' \in [requests : Nat, settled : Nat, ops : Nat]
    BY <1>1, <2>1 DEF Shape, LaunchTypes
  <2> QED BY <1>1, <2>1, <2>2, <2>3, ChainsGoOn
<1>10. Kept
  BY <1>4, <1>5, <1>6, <1>7, <1>8, <1>9 DEF Next
<1> QED BY <1>2, <1>10 DEF LaunchInv, Kept

\* The tokens as they are stated.
LEMMA BooksMean ==
  ASSUME LaunchInv
  PROVE  TokensAccounted
<1> SUFFICES ASSUME NEW m \in Live, NEW book, book = meme[m].book
             PROVE  /\ Worth(book) = plan[m].supply
                    /\ \A a \in Accounts : book.balance[a] >= 0
                    /\ \A at \in DOMAIN book.allowance : book.allowance[at] >= 0
                    /\ Allowance(book, Holder, Swap) =
                         IF Recorded(plan[m]) # Unset /\ Unpaid(m) THEN Recorded(plan[m]).fungible ELSE 0
                    /\ \A c \in FirstPools(m) \cap bootstraps :
                         book.balance[PoolAccount(c)] >= Recorded(plan[m]).fungible /\ paid[c] = NativeIn(plan[m])
  BY DEF TokensAccounted
<1>1. m \in Memes /\ meme[m].stage = "live" /\ Shape /\ RegistryInv
  BY DEF LaunchInv, Live
<1>2. book \in Books /\ BookSound(m)
  BY <1>1, MemeTypes DEF MemeSound
<1>3. /\ \A a \in Accounts : book.balance[a] >= 0
      /\ \A at \in DOMAIN book.allowance : book.allowance[at] >= 0
  <2>1. book.balance \in [Accounts -> Nat] /\ book.allowance \in [DOMAIN book.allowance -> Nat]
    BY <1>2, BookTypes
  <2> QED BY <2>1
<1>4. Owing(m) <=> Recorded(plan[m]) # Unset /\ Unpaid(m)
  <2>1. \A c \in FirstPools(m) : c \in Served <=> chain[c].stage = "registered"
    BY DEF FirstPools, Opened, Served
  <2> QED BY <2>1 DEF Owing, Unpaid
<1>5. ASSUME NEW c \in FirstPools(m) \cap bootstraps PROVE paid[c] = NativeIn(plan[m])
  <2>1. c \in Served /\ c \in PoolChains /\ chain[c].pair[1] = m
    BY <1>1 DEF Shape, PoolsPaid, FirstPools, Opened
  <2> QED BY <1>1, <2>1 DEF Shape, PoolsPaid
<1> QED BY <1>1, <1>2, <1>3, <1>4, <1>5 DEF BookSound

\* Of every meme there is at any time one thing to be said: what was laid out
\* for it is in one place, its books are worth its supply, and its first pool
\* is asked for once and paid once, after its money has gone ahead.
THEOREM LaunchSound == Spec => []LaunchInv
BY LaunchBegins, LaunchContinues, PTL DEF Spec

\* No native token is made or lost on the way of a launch, and none is served
\* with the money of another (create_liquidity_pool, PoolCreated and
\* CreateUserPool).
THEOREM MoneySound == Spec => []MoneyAccounted
<1>1. LaunchInv => MoneyAccounted
  BY BalancedMeans DEF LaunchInv
<1> QED BY <1>1, LaunchSound, PTL

\* A token's supply is what its accounts have and have set aside, and the
\* recorded liquidity is set aside for the router until the first pool is
\* paid (approve, transfer_from, mint and initialize_liquidity of MemeState).
THEOREM TokensSound == Spec => []TokensAccounted
BY LaunchSound, BooksMean, PTL
=============================================================================
