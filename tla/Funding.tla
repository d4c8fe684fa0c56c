------------------------------ MODULE Funding ------------------------------
(***************************************************************************)
(* How a swap's or a deposit's funds reach the pool.  The operation runs   *)
(* on the user's chain; a meme token keeps its balances on its own chain,  *)
(* the pool its reserves on its creator chain.  For each meme token        *)
(*                                                                         *)
(*   RequestFund   user chain -> token chain    the user pays the pool     *)
(*                                  application's account of his own chain *)
(*   FundResult    token chain -> user chain                               *)
(*   Transfer      user chain -> token chain    that account pays the      *)
(*                                  pool's account of the creator chain    *)
(*   Receipt       token chain -> user chain                               *)
(*   Settlement    user chain -> creator chain                             *)
(*                                                                         *)
(* A deposit funds token_0 first and starts on token_1 at the receipt; a   *)
(* native amount is paid at once.  The requests before and after travel in *)
(* the messages as prev and next; no chain keeps a record of a request.    *)
(* The settlement ends in the PoolMessage that PoolLedger's inbox starts   *)
(* from.  Only Transfer is a tracked message.                              *)
(***************************************************************************)
EXTENDS Integers, FiniteSets

CONSTANTS
  Accounts,      \* the accounts of users
  Chains,        \* the chains they live on, the pool's creator chain not among them
  ChainOf,       \* the chain of each account
  NativePairs,   \* whether token_1 is None, the native token, in the pools of this instance
  Wealth,        \* what each account owns of each token at the start
  Amounts,       \* the amounts that requests carry
  Operations,    \* the operations users issue in this instance
  MaxRequests    \* bound on the number of requests

Token0 == "token_0"
Token1 == "token_1"
Tokens == {Token0, Token1}
None == "none"

\* Users cannot operate the pool on its own creator chain: the chain's
\* permissions admit the operations of the tokens and the router only.
ASSUME FundingAssumption ==
  /\ IsFiniteSet(Accounts) /\ IsFiniteSet(Chains)
  /\ ChainOf \in [Accounts -> Chains]
  /\ NativePairs \subseteq BOOLEAN
  /\ Wealth \in Nat /\ MaxRequests \in Nat /\ Amounts \subseteq Nat \ {0}

VARIABLES
  nativePair,  \* whether the pool is one against the native token
  wallet,      \* what the users own of each token
  transit,     \* what the pool application owns in its account of each user chain
  custody,     \* what it owns in its account of the creator chain
  claimable,   \* claimable_balances on the creator chain
  replica,     \* claimable_balances on the users' chains
  messages,    \* messages under way
  delivered,   \* requests whose Swap or AddLiquidity message was sent to the creator chain
  issued,      \* the requests so far; the code keeps no record of them
  failed,      \* history: requests given up
  stranded     \* history: value the pool got of them that was credited to nobody

balances == <<wallet, transit, custody>>
credits == <<claimable, replica>>
history == <<failed, stranded>>
vars == <<nativePair, balances, credits, messages, delivered, issued, history>>

----------------------------------------------------------------------------
(* Requests and messages                                                   *)

IsNative(t) == nativePair /\ t = Token1

\* What an operation asks for; 0 for no input.
FundRequest ==
  [id : Nat, type : {"Swap", "AddLiquidity"}, from : Accounts, in0 : Nat, in1 : Nat]

Amount(r, t) == IF t = Token0 THEN r.in0 ELSE r.in1

\* token names the leg of request r that the message is about.
Message ==
  [kind : {"RequestFund", "FundResult", "Transfer", "Receipt", "Settlement"},
   request : FundRequest, prev : Tokens \cup {None}, token : Tokens,
   next : Tokens \cup {None}, ok : BOOLEAN]

TypeOK ==
  /\ nativePair \in NativePairs
  /\ wallet \in [Tokens -> [Accounts -> Nat]]
  /\ transit \in [Tokens -> [Chains -> Nat]]
  /\ custody \in [Tokens -> Nat]
  /\ claimable \in [Tokens -> [Accounts -> Nat]]
  /\ replica \in [Tokens -> [Accounts -> Nat]]
  /\ messages \subseteq Message
  /\ issued \subseteq FundRequest
  /\ delivered \subseteq issued /\ failed \subseteq issued
  /\ stranded \in [Tokens -> Nat]

Init ==
  /\ nativePair \in NativePairs
  /\ wallet = [t \in Tokens |-> [a \in Accounts |-> Wealth]]
  /\ transit = [t \in Tokens |-> [c \in Chains |-> 0]]
  /\ custody = [t \in Tokens |-> 0]
  /\ claimable = [t \in Tokens |-> [a \in Accounts |-> 0]]
  /\ replica = [t \in Tokens |-> [a \in Accounts |-> 0]]
  /\ messages = {} /\ issued = {} /\ delivered = {} /\ failed = {}
  /\ stranded = [t \in Tokens |-> 0]

Ask(r, prev, t, next) ==
  [kind |-> "RequestFund", request |-> r, prev |-> prev, token |-> t, next |-> next,
   ok |-> TRUE]

\* The next message of the same leg.
Answer(m, kind, ok) == [m EXCEPT !.kind = kind, !.ok = ok]

Receive(m, kind) == m \in messages /\ m.kind = kind
Reply(m, answers) == messages' = (messages \ {m}) \cup answers

\* Mutant: the settlement keeps the leg that has been paid.
FinalSettlementKeepsNext(m) == Answer(m, "Settlement", TRUE)

\* final_settlement_receipt
FinalSettlement(m) == [Answer(m, "Settlement", TRUE) EXCEPT !.next = None]

\* Mutant: transfer_combined without its assertions.
TransferNativeUnchecked(a, n) ==
  /\ wallet' = [wallet EXCEPT ![Token1][a] = @ - n]
  /\ custody' = [custody EXCEPT ![Token1] = @ + n]

\* The native token of a request enters the pool's account.
TransferNative(a, n) ==
  /\ wallet[Token1][a] >= n
  /\ wallet' = [wallet EXCEPT ![Token1][a] = @ - n]
  /\ custody' = [custody EXCEPT ![Token1] = @ + n]

Give(book, t, a, n) == [book EXCEPT ![t][a] = @ + n]

----------------------------------------------------------------------------
(* Operations on the user's chain                                          *)

Issue(operation, r) ==
  /\ operation \in Operations
  /\ Cardinality(issued) < MaxRequests
  /\ issued' = issued \cup {r}

SwapRequest(a, t, n) ==
  [id |-> Cardinality(issued), type |-> "Swap", from |-> a,
   in0 |-> IF t = Token0 THEN n ELSE 0, in1 |-> IF t = Token1 THEN n ELSE 0]

SwapNative(a, n) ==
  LET r == SwapRequest(a, Token1, n)
  IN  /\ Issue("Swap", r)
      /\ IsNative(Token1)
      /\ TransferNative(a, n)
      /\ delivered' = delivered \cup {r}
      /\ UNCHANGED <<transit, credits, messages, history>>

SwapMeme(a, t, n) ==
  LET r == SwapRequest(a, t, n)
  IN  /\ Issue("Swap", r)
      /\ ~IsNative(t)
      /\ messages' = messages \cup {Ask(r, None, t, None)}
      /\ UNCHANGED <<balances, credits, delivered, history>>

AddLiquidity(a, n0, n1) ==
  LET r == [id |-> Cardinality(issued), type |-> "AddLiquidity", from |-> a,
            in0 |-> n0, in1 |-> n1]
  IN  /\ Issue("AddLiquidity", r)
      /\ messages' = messages \cup {Ask(r, None, Token0, Token1)}
      /\ UNCHANGED <<balances, credits, delivered, history>>

----------------------------------------------------------------------------
(* The token's chain                                                       *)

\* Mutant: the answer of the meme application ignored.
FundedAnyway(m) == TRUE

\* transfer_to_caller
Funded(m) == wallet[m.token][m.request.from] >= Amount(m.request, m.token)

\* RequestFund, with the meme application's TransferToCaller.
RequestFund(m) ==
  LET n == Amount(m.request, m.token)
      a == m.request.from
  IN  /\ Receive(m, "RequestFund")
      /\ Reply(m, {Answer(m, "FundResult", Funded(m))})
      /\ IF wallet[m.token][a] >= n
         THEN /\ wallet' = [wallet EXCEPT ![m.token][a] = @ - n]
              /\ transit' = Give(transit, m.token, ChainOf[a], n)
         ELSE UNCHANGED <<wallet, transit>>
      /\ UNCHANGED <<custody, credits, delivered, issued, history>>

\* The meme application's TransferFromApplicationWithReceipt.
TransferFromApplication(m) ==
  LET n == Amount(m.request, m.token)
      c == ChainOf[m.request.from]
  IN  /\ Receive(m, "Transfer")
      /\ IF transit[m.token][c] >= n
         THEN /\ transit' = [transit EXCEPT ![m.token][c] = @ - n]
              /\ custody' = [custody EXCEPT ![m.token] = @ + n]
              /\ Reply(m, {Answer(m, "Receipt", TRUE)})
         ELSE /\ Reply(m, {Answer(m, "Receipt", FALSE)})
              /\ UNCHANGED <<transit, custody>>
      /\ UNCHANGED <<wallet, credits, delivered, issued, history>>

\* The token's chain rejects the tracked message; back on the user's chain it
\* becomes a failed receipt.
BounceTransfer(m) ==
  /\ Receive(m, "Transfer")
  /\ Reply(m, {Answer(m, "Receipt", FALSE)})
  /\ UNCHANGED <<balances, credits, delivered, issued, history>>

----------------------------------------------------------------------------
(* The user's chain                                                        *)

Fail(m) == Reply(m, {}) /\ failed' = failed \cup {m.request}

\* The amount of the present leg is credited to nobody.
Lose(m) == [stranded EXCEPT ![m.token] = @ + Amount(m.request, m.token)]

\* Mutant: whichever leg failed is credited.
PrevOrOwn(m) ==
  IF m.request.type = "AddLiquidity" /\ m.prev = None THEN m.token ELSE m.prev

\* settle_failed_transfer credits the request before, if there was one; a
\* swap has none.
Prev(m) == IF m.request.type = "AddLiquidity" THEN m.prev ELSE None

FundResultErr(m) ==
  /\ Receive(m, "FundResult") /\ ~m.ok
  /\ Fail(m)
  /\ replica' = IF Prev(m) = None THEN replica
                ELSE Give(replica, Prev(m), m.request.from, Amount(m.request, Prev(m)))
  /\ UNCHANGED <<balances, claimable, delivered, issued, stranded>>

FundResultOk(m) ==
  /\ Receive(m, "FundResult") /\ m.ok
  /\ Reply(m, {Answer(m, "Transfer", TRUE)})
  /\ UNCHANGED <<balances, credits, delivered, issued, history>>

\* SwapTransferReceipt, and AddLiquidityTransferReceipt without a successor.
ForwardReceipt(m) ==
  /\ Receive(m, "Receipt")
  /\ m.request.type = "Swap" \/ ~m.ok \/ m.next = None
  /\ Reply(m, {Answer(m, "Settlement", m.ok)})
  /\ UNCHANGED <<balances, credits, delivered, issued, history>>

Successor(m) ==
  Receive(m, "Receipt") /\ m.request.type = "AddLiquidity" /\ m.ok /\ m.next # None

\* exec_successor
RequestNextLeg(m) ==
  /\ Successor(m)
  /\ ~IsNative(m.next)
  /\ Reply(m, {Ask(m.request, m.token, m.next, None)})
  /\ UNCHANGED <<balances, credits, delivered, issued, history>>

PayNextLeg(m) ==
  /\ Successor(m)
  /\ IsNative(m.next)
  /\ TransferNative(m.request.from, Amount(m.request, m.next))
  /\ Reply(m, {FinalSettlement(m)})
  /\ UNCHANGED <<transit, credits, delivered, issued, history>>

\* transfer_combined panics: the receipt's block is rejected, and with it
\* the untracked message.
AbortNextLeg(m) ==
  /\ Successor(m)
  /\ IsNative(m.next)
  /\ wallet[Token1][m.request.from] < Amount(m.request, m.next)
  /\ Fail(m)
  /\ stranded' = Lose(m)
  /\ UNCHANGED <<balances, credits, delivered, issued>>

----------------------------------------------------------------------------
(* The creator chain                                                       *)

SettleErr(m) ==
  /\ Receive(m, "Settlement") /\ ~m.ok
  /\ Fail(m)
  /\ claimable' = IF Prev(m) = None THEN claimable
                  ELSE Give(claimable, Prev(m), m.request.from, Amount(m.request, Prev(m)))
  /\ stranded' = Lose(m)
  /\ UNCHANGED <<balances, replica, delivered, issued>>

\* A receipt that still names a successor settles nothing.
SettleOk(m) ==
  /\ Receive(m, "Settlement") /\ m.ok
  /\ Reply(m, {})
  /\ delivered' = IF m.next = None THEN delivered \cup {m.request} ELSE delivered
  /\ UNCHANGED <<balances, credits, issued, history>>

----------------------------------------------------------------------------
Operate ==
  \E a \in Accounts, n \in Amounts :
    \/ SwapNative(a, n)
    \/ \E t \in Tokens : SwapMeme(a, t, n)
    \/ \E n1 \in Amounts : AddLiquidity(a, n, n1)

Handle(m) ==
  \/ RequestFund(m)
  \/ TransferFromApplication(m) \/ BounceTransfer(m)
  \/ FundResultErr(m) \/ FundResultOk(m)
  \/ ForwardReceipt(m) \/ RequestNextLeg(m) \/ PayNextLeg(m) \/ AbortNextLeg(m)
  \/ SettleErr(m) \/ SettleOk(m)

Deliver == (\E m \in messages : Handle(m)) /\ UNCHANGED nativePair

Next == (Operate /\ UNCHANGED nativePair) \/ Deliver

Spec == Init /\ [][Next]_vars

\* Every chain goes on handling the messages in its inbox.
FairSpec == Spec /\ WF_vars(Deliver)

----------------------------------------------------------------------------
(* Properties                                                              *)

\* A request is in one place: one message under way carries it, or it was
\* delivered once to the pool, or it was given up.  No chain keeps a record
\* of a request, so only the messages keep a leg from being funded twice or
\* a deposit from being settled and refunded as well.
OneFate ==
  /\ \A m1, m2 \in messages : m1.request = m2.request => m1 = m2
  /\ delivered \cap failed = {}
  /\ \A m \in messages : m.request \notin delivered \cup failed
  /\ \A r \in issued :
       r \in delivered \cup failed \/ \E m \in messages : m.request = r

\* The second transfer of a leg always finds the balance the first one paid:
\* all users of a chain share the pool's account there.
TransferFunded ==
  \A m \in messages :
    m.kind = "Transfer" => transit[m.token][ChainOf[m.request.from]] >= Amount(m.request, m.token)

\* Every request is delivered or given up in the end: no handler drops it.
EventuallyDecided ==
  \A i \in 0 .. MaxRequests - 1 :
    (\E r \in issued : r.id = i) ~> (\E r \in delivered \cup failed : r.id = i)
=============================================================================
