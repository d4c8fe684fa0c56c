--------------------------- MODULE FundingProofs ---------------------------
(***************************************************************************)
(* Theorems of Funding: balances never go below zero, and a request has    *)
(* one fate, for any users, chains and amounts.                            *)
(***************************************************************************)
EXTENDS FundingAccounting, ArithmeticTheorems

----------------------------------------------------------------------------
(* The inductive invariant                                                 *)

\* Requests get fresh identities.
Fresh ==
  /\ IsFiniteSet(issued)
  /\ \A r \in issued : r.id < Cardinality(issued)

\* A swap has one leg, and a settlement that succeeded leaves none to fund.
WellFormed(m) ==
  /\ m.request.type = "Swap" => m.next = None
  /\ m.kind = "Settlement" /\ m.ok => m.next = None

Carried ==
  \A m \in messages : m.request \in issued /\ WellFormed(m)

\* The part of the invariant that is about requests and messages, and the
\* part that is about balances.
Traffic ==
  /\ messages \subseteq Message
  /\ issued \subseteq FundRequest
  /\ delivered \subseteq issued /\ failed \subseteq issued
  /\ Fresh /\ Carried /\ OneFate

Books ==
  /\ wallet \in [Tokens -> [Accounts -> Nat]]
  /\ transit \in [Tokens -> [Chains -> Nat]]
  /\ custody \in [Tokens -> Nat]
  /\ claimable \in [Tokens -> [Accounts -> Nat]]
  /\ replica \in [Tokens -> [Accounts -> Nat]]
  /\ stranded \in [Tokens -> Nat]

FundingInv == Traffic /\ Books

\* The two parts together imply OneFate and, of a pool of a kind of the
\* instance, the type invariant.
LEMMA InvImplies == FundingInv => OneFate /\ (nativePair \in NativePairs => TypeOK)
  BY DEF FundingInv, Traffic, Books, TypeOK

\* The initial state satisfies the invariant: nothing was asked for yet.
LEMMA FundingInit == Init => FundingInv
<1> SUFFICES ASSUME Init PROVE FundingInv
  OBVIOUS
<1>1. Books
  BY FundingAssumption DEF Init, Books
<1>2. Fresh
  BY FS_EmptySet DEF Init, Fresh
<1>3. Traffic
  BY <1>2 DEF Init, Traffic, Carried, OneFate
<1> QED
  BY <1>1, <1>3 DEF FundingInv

----------------------------------------------------------------------------
(* What a step can do to the requests                                      *)

\* A message replaced by one of the same request keeps the request's place.
LEMMA PassOnKeeps ==
  ASSUME Traffic, NEW m \in messages, NEW m2 \in Message,
         m2.request = m.request, WellFormed(m2), Reply(m, {m2}),
         UNCHANGED <<delivered, failed, issued>>
  PROVE  Traffic'
<1>1. messages' = (messages \ {m}) \cup {m2}
  BY DEF Reply
<1>2. messages' \subseteq Message
  BY <1>1 DEF Traffic
<1>3. Fresh'
  BY DEF Traffic, Fresh
<1>4. Carried'
  BY <1>1 DEF Traffic, Carried, WellFormed
<1>5. OneFate'
  BY <1>1 DEF Traffic, OneFate
<1> QED
  BY <1>2, <1>3, <1>4, <1>5 DEF Traffic

\* A message consumed for good leaves its request delivered or given up.
LEMMA EndKeeps ==
  ASSUME Traffic, NEW m \in messages, Reply(m, {}), UNCHANGED issued,
         \/ delivered' = delivered \cup {m.request} /\ UNCHANGED failed
         \/ failed' = failed \cup {m.request} /\ UNCHANGED delivered
  PROVE  Traffic'
<1>1. messages' = messages \ {m}
  BY DEF Reply
<1>2. m.request \in issued /\ m.request \notin delivered \cup failed
  BY DEF Traffic, Carried, OneFate
<1>3. delivered' \subseteq issued' /\ failed' \subseteq issued'
  BY <1>2 DEF Traffic
<1>4. messages' \subseteq Message /\ issued' \subseteq FundRequest
  BY <1>1 DEF Traffic
<1>5. Fresh'
  BY DEF Traffic, Fresh
<1>6. Carried'
  BY <1>1 DEF Traffic, Carried, WellFormed
<1>7. OneFate'
  <2>1. delivered' \cap failed' = {}
    BY <1>2 DEF Traffic, OneFate
  <2>2. \A m1 \in messages' : m1.request # m.request /\ m1 \in messages
    BY <1>1 DEF Traffic, OneFate
  <2>3. delivered' \cup failed' = (delivered \cup failed) \cup {m.request}
    OBVIOUS
  <2>4. \A m1 \in messages' : m1.request \notin delivered' \cup failed'
    BY <2>2, <2>3 DEF Traffic, OneFate
  <2>5. \A r \in issued' :
          r \in delivered' \cup failed' \/ \E m1 \in messages' : m1.request = r
    BY <1>1, <2>3 DEF Traffic, OneFate
  <2>6. \A m1, m2 \in messages' : m1.request = m2.request => m1 = m2
    BY <1>1 DEF Traffic, OneFate
  <2> QED
    BY <2>1, <2>4, <2>5, <2>6 DEF OneFate
<1> QED
  BY <1>3, <1>4, <1>5, <1>6, <1>7 DEF Traffic

\* A new request differs from all before it, and one message carries it or
\* it is delivered at once.
LEMMA IssueKeeps ==
  ASSUME Traffic, NEW r \in FundRequest, r.id = Cardinality(issued),
         issued' = issued \cup {r}, UNCHANGED failed,
         \/ /\ delivered' = delivered \cup {r}
            /\ UNCHANGED messages
         \/ /\ UNCHANGED delivered
            /\ \E m \in Message : /\ m.request = r /\ WellFormed(m)
                                  /\ messages' = messages \cup {m}
  PROVE  Traffic'
<1>1. r \notin issued
  <2>1. IsFiniteSet(issued) /\ Cardinality(issued) \in Nat
    BY FS_CardinalityType DEF Traffic, Fresh
  <2>2. \A q \in issued : q.id < Cardinality(issued)
    BY DEF Traffic, Fresh
  <2> QED
    BY <2>1, <2>2
<1>2. Fresh'
  <2>1. IsFiniteSet(issued) /\ Cardinality(issued) \in Nat
    BY FS_CardinalityType DEF Traffic, Fresh
  <2>2. IsFiniteSet(issued') /\ Cardinality(issued') = Cardinality(issued) + 1
    BY <2>1, <1>1, FS_AddElement
  <2>3. \A q \in issued : q.id \in Nat /\ q.id < Cardinality(issued)
    BY DEF Traffic, Fresh, FundRequest
  <2>4. r.id < Cardinality(issued')
    BY <2>1, <2>2
  <2>5. \A q \in issued : q.id < Cardinality(issued')
    BY <2>1, <2>2, <2>3
  <2> QED
    BY <2>2, <2>4, <2>5 DEF Fresh
<1>3. \A m \in messages : m.request \in issued
  BY DEF Traffic, Carried
<1>4. issued' \subseteq FundRequest
  BY DEF Traffic
<1>5. CASE delivered' = delivered \cup {r} /\ UNCHANGED messages
  <2>1. Carried'
    BY <1>5 DEF Traffic, Carried, WellFormed
  <2>2. OneFate'
    BY <1>1, <1>3, <1>5 DEF Traffic, OneFate
  <2> QED
    BY <1>2, <1>4, <1>5, <2>1, <2>2 DEF Traffic
<1>6. ASSUME UNCHANGED delivered, NEW m \in Message, m.request = r, WellFormed(m),
             messages' = messages \cup {m}
      PROVE  Traffic'
  <2>1. messages' \subseteq Message
    BY <1>6 DEF Traffic
  <2>2. Carried'
    BY <1>6 DEF Traffic, Carried, WellFormed
  <2>3. OneFate'
    BY <1>1, <1>3, <1>6 DEF Traffic, OneFate
  <2> QED
    BY <1>2, <1>4, <1>6, <2>1, <2>2, <2>3 DEF Traffic
<1> QED
  BY <1>5, <1>6

----------------------------------------------------------------------------
(* What a step can do to the balances                                      *)

\* Legs and amounts are of their types.
LEMMA LegTypes ==
  ASSUME Traffic, NEW m \in messages
  PROVE  /\ m \in Message /\ m.request \in FundRequest /\ WellFormed(m)
         /\ m.request.from \in Accounts /\ ChainOf[m.request.from] \in Chains
         /\ m.token \in Tokens
         /\ \A t \in Tokens : Amount(m.request, t) \in Nat
         /\ Prev(m) # None => Prev(m) \in Tokens
<1>1. m \in Message /\ m.request \in FundRequest /\ WellFormed(m)
  BY DEF Traffic, Carried
<1> QED
  BY <1>1, FundingAssumption DEF Message, FundRequest, Amount, Prev

\* A credit adds a natural number to one entry of a book.
LEMMA GiveTypes ==
  ASSUME NEW S, NEW book \in [Tokens -> [S -> Nat]],
         NEW t \in Tokens, NEW a \in S, NEW n \in Nat
  PROVE  Give(book, t, a, n) \in [Tokens -> [S -> Nat]]
  BY DEF Give

\* transfer_combined pays only what the user has.
LEMMA NativeTypes ==
  ASSUME Books, NEW a \in Accounts, NEW n \in Nat, TransferNative(a, n),
         UNCHANGED <<transit, credits, stranded>>
  PROVE  Books'
<1>1. wallet[Token1][a] - n \in Nat /\ custody[Token1] + n \in Nat
  BY DEF Books, TransferNative, Tokens
<1>2. wallet' \in [Tokens -> [Accounts -> Nat]]
  BY <1>1 DEF Books, TransferNative
<1>3. custody' \in [Tokens -> Nat]
  BY <1>1 DEF Books, TransferNative
<1> QED
  BY <1>2, <1>3 DEF Books, credits

----------------------------------------------------------------------------
(* Each action                                                             *)

LEMMA SwapNativeKeeps ==
  ASSUME FundingInv, NEW a \in Accounts, NEW n \in Amounts, SwapNative(a, n)
  PROVE  FundingInv'
<1> DEFINE r == SwapRequest(a, Token1, n)
<1>1. Cardinality(issued) \in Nat /\ n \in Nat
  BY FS_CardinalityType, FundingAssumption DEF FundingInv, Traffic, Fresh
<1>2. r \in FundRequest /\ r.id = Cardinality(issued)
  BY <1>1 DEF SwapRequest, FundRequest, Token0, Token1
<1>3. Traffic'
  <2>1. issued' = issued \cup {r} /\ delivered' = delivered \cup {r}
        /\ UNCHANGED <<messages, failed>>
    BY DEF SwapNative, Issue, history
  <2> HIDE DEF r
  <2> QED
    BY <1>2, <2>1, IssueKeeps DEF FundingInv
<1>4. Books'
  BY <1>1, NativeTypes DEF FundingInv, SwapNative, history
<1> QED
  BY <1>3, <1>4 DEF FundingInv

LEMMA SwapMemeKeeps ==
  ASSUME FundingInv, NEW a \in Accounts, NEW n \in Amounts, NEW t \in Tokens,
         SwapMeme(a, t, n)
  PROVE  FundingInv'
<1> DEFINE r == SwapRequest(a, t, n)
           m == Ask(r, None, t, None)
<1>1. Cardinality(issued) \in Nat /\ n \in Nat
  BY FS_CardinalityType, FundingAssumption DEF FundingInv, Traffic, Fresh
<1>2. r \in FundRequest /\ r.id = Cardinality(issued)
  BY <1>1 DEF SwapRequest, FundRequest
<1>3. m \in Message /\ m.request = r /\ WellFormed(m)
  BY <1>2 DEF Ask, Message, WellFormed
<1>4. Traffic'
  <2>1. issued' = issued \cup {r} /\ messages' = messages \cup {m}
        /\ UNCHANGED <<delivered, failed>>
    BY DEF SwapMeme, Issue, history
  <2> HIDE DEF r, m
  <2> QED
    BY <1>2, <1>3, <2>1, IssueKeeps DEF FundingInv
<1>5. Books'
  BY DEF FundingInv, Books, SwapMeme, balances, credits, history
<1> QED
  BY <1>4, <1>5 DEF FundingInv

LEMMA AddLiquidityKeeps ==
  ASSUME FundingInv, NEW a \in Accounts, NEW n0 \in Amounts, NEW n1 \in Amounts,
         AddLiquidity(a, n0, n1)
  PROVE  FundingInv'
<1> DEFINE r == [id |-> Cardinality(issued), type |-> "AddLiquidity", from |-> a,
                 in0 |-> n0, in1 |-> n1]
           m == Ask(r, None, Token0, Token1)
<1>1. Cardinality(issued) \in Nat /\ n0 \in Nat /\ n1 \in Nat
  BY FS_CardinalityType, FundingAssumption DEF FundingInv, Traffic, Fresh
<1>2. r \in FundRequest /\ r.id = Cardinality(issued)
  BY <1>1 DEF FundRequest
<1>3. m \in Message /\ m.request = r /\ WellFormed(m)
  BY <1>2 DEF Ask, Message, WellFormed, Tokens
<1>4. Traffic'
  <2>1. issued' = issued \cup {r} /\ messages' = messages \cup {m}
        /\ UNCHANGED <<delivered, failed>>
    BY DEF AddLiquidity, Issue, history
  <2> HIDE DEF r, m
  <2> QED
    BY <1>2, <1>3, <2>1, IssueKeeps DEF FundingInv
<1>5. Books'
  BY DEF FundingInv, Books, AddLiquidity, balances, credits, history
<1> QED
  BY <1>4, <1>5 DEF FundingInv

\* The next message of a leg is one that PassOnKeeps takes.
LEMMA AnswerTypes ==
  ASSUME Traffic, NEW m \in messages,
         NEW kind \in {"FundResult", "Transfer", "Receipt", "Settlement"},
         NEW ok \in BOOLEAN, kind = "Settlement" /\ ok => m.next = None
  PROVE  /\ Answer(m, kind, ok) \in Message
         /\ Answer(m, kind, ok).request = m.request
         /\ WellFormed(Answer(m, kind, ok))
<1>1. m \in Message /\ WellFormed(m)
  BY LegTypes
<1> QED
  BY <1>1 DEF Answer, Message, WellFormed

LEMMA RequestFundKeeps ==
  ASSUME FundingInv, NEW m \in messages, RequestFund(m)
  PROVE  FundingInv'
<1> DEFINE a == m.request.from
           n == Amount(m.request, m.token)
           t == m.token
<1>1. Traffic /\ Books
  BY DEF FundingInv
<1>2. /\ a \in Accounts /\ ChainOf[a] \in Chains /\ t \in Tokens /\ n \in Nat
  BY <1>1, LegTypes
<1>3. Traffic'
  <2>1. Funded(m) \in BOOLEAN
    BY DEF Funded
  <2>2. Reply(m, {Answer(m, "FundResult", Funded(m))})
        /\ UNCHANGED <<delivered, failed, issued>>
    BY DEF RequestFund, history
  <2> QED
    BY <1>1, <2>1, <2>2, AnswerTypes, PassOnKeeps
<1>4. Books'
  <2>1. UNCHANGED <<custody, claimable, replica, stranded>>
    BY DEF RequestFund, credits, history
  <2>2. CASE UNCHANGED <<wallet, transit>>
    BY <1>1, <2>1, <2>2 DEF Books
  <2>3. CASE /\ wallet[t][a] >= n
             /\ wallet' = [wallet EXCEPT ![t][a] = @ - n]
             /\ transit' = Give(transit, t, ChainOf[a], n)
    <3> HIDE DEF a, n, t
    <3>1. wallet[t][a] - n \in Nat
      BY <1>1, <1>2, <2>3 DEF Books
    <3>2. wallet' \in [Tokens -> [Accounts -> Nat]]
      BY <1>1, <1>2, <2>3, <3>1 DEF Books
    <3>3. transit' \in [Tokens -> [Chains -> Nat]]
      BY <1>1, <1>2, <2>3, GiveTypes DEF Books
    <3> QED
      BY <1>1, <2>1, <3>2, <3>3 DEF Books
  <2> QED
    BY <2>2, <2>3 DEF RequestFund
<1> QED
  BY <1>3, <1>4 DEF FundingInv

LEMMA TransferFromApplicationKeeps ==
  ASSUME FundingInv, NEW m \in messages, TransferFromApplication(m)
  PROVE  FundingInv'
<1> DEFINE c == ChainOf[m.request.from]
           n == Amount(m.request, m.token)
           t == m.token
<1>1. Traffic /\ Books
  BY DEF FundingInv
<1>2. /\ c \in Chains /\ t \in Tokens /\ n \in Nat
  BY <1>1, LegTypes
<1>3. Traffic'
  <2>1. \E ok \in BOOLEAN : Reply(m, {Answer(m, "Receipt", ok)})
    BY DEF TransferFromApplication
  <2>2. UNCHANGED <<delivered, failed, issued>>
    BY DEF TransferFromApplication, history
  <2> QED
    BY <1>1, <2>1, <2>2, AnswerTypes, PassOnKeeps
<1>4. Books'
  <2>1. UNCHANGED <<wallet, claimable, replica, stranded>>
    BY DEF TransferFromApplication, credits, history
  <2>2. CASE UNCHANGED <<transit, custody>>
    BY <1>1, <2>1, <2>2 DEF Books
  <2>3. CASE /\ transit[t][c] >= n
             /\ transit' = [transit EXCEPT ![t][c] = @ - n]
             /\ custody' = [custody EXCEPT ![t] = @ + n]
    <3> HIDE DEF c, n, t
    <3>1. transit[t][c] - n \in Nat /\ custody[t] + n \in Nat
      BY <1>1, <1>2, <2>3 DEF Books
    <3>2. transit' \in [Tokens -> [Chains -> Nat]]
      BY <1>1, <1>2, <2>3, <3>1 DEF Books
    <3>3. custody' \in [Tokens -> Nat]
      BY <1>1, <1>2, <2>3, <3>1 DEF Books
    <3> QED
      BY <1>1, <2>1, <3>2, <3>3 DEF Books
  <2> QED
    BY <2>2, <2>3 DEF TransferFromApplication
<1> QED
  BY <1>3, <1>4 DEF FundingInv

\* The handlers that only send the next message.
LEMMA RelayKeeps ==
  ASSUME FundingInv, NEW m \in messages,
         BounceTransfer(m) \/ FundResultOk(m) \/ ForwardReceipt(m)
  PROVE  FundingInv'
<1>1. Traffic /\ Books
  BY DEF FundingInv
<1>2. UNCHANGED <<balances, credits, delivered, issued, history>>
  BY DEF BounceTransfer, FundResultOk, ForwardReceipt
<1>3. \E kind \in {"FundResult", "Transfer", "Receipt", "Settlement"}, ok \in BOOLEAN :
        /\ Reply(m, {Answer(m, kind, ok)})
        /\ kind = "Settlement" /\ ok => m.next = None
  <2>1. m \in Message /\ WellFormed(m)
    BY <1>1, LegTypes
  <2>2. m.ok \in BOOLEAN
    BY <2>1 DEF Message
  <2>3. CASE BounceTransfer(m)
    BY <2>3 DEF BounceTransfer
  <2>4. CASE FundResultOk(m)
    BY <2>4 DEF FundResultOk
  <2>5. CASE ForwardReceipt(m)
    BY <2>1, <2>2, <2>5 DEF ForwardReceipt, WellFormed
  <2> QED
    BY <2>3, <2>4, <2>5
<1>4. Traffic'
  BY <1>1, <1>2, <1>3, AnswerTypes, PassOnKeeps DEF history
<1>5. Books'
  BY <1>1, <1>2 DEF Books, balances, credits, history
<1> QED
  BY <1>4, <1>5 DEF FundingInv

LEMMA RequestNextLegKeeps ==
  ASSUME FundingInv, NEW m \in messages, RequestNextLeg(m)
  PROVE  FundingInv'
<1> DEFINE m2 == Ask(m.request, m.token, m.next, None)
<1>1. Traffic /\ Books
  BY DEF FundingInv
<1>2. m \in Message
  BY <1>1, LegTypes
<1>3. m2 \in Message /\ m2.request = m.request /\ WellFormed(m2)
  <2>1. m.next \in Tokens /\ m.token \in Tokens /\ m.request \in FundRequest
    BY <1>2 DEF RequestNextLeg, Successor, Message
  <2> QED
    BY <2>1 DEF Ask, Message, WellFormed
<1>4. Traffic'
  <2>1. Reply(m, {m2}) /\ UNCHANGED <<delivered, failed, issued>>
    BY DEF RequestNextLeg, history
  <2> HIDE DEF m2
  <2> QED
    BY <1>1, <1>3, <2>1, PassOnKeeps
<1>5. Books'
  BY <1>1 DEF Books, RequestNextLeg, balances, credits, history
<1> QED
  BY <1>4, <1>5 DEF FundingInv

LEMMA PayNextLegKeeps ==
  ASSUME FundingInv, NEW m \in messages, PayNextLeg(m)
  PROVE  FundingInv'
<1>1. Traffic /\ Books
  BY DEF FundingInv
<1>2. m \in Message /\ m.request.from \in Accounts
  BY <1>1, LegTypes
<1>3. Amount(m.request, m.next) \in Nat
  BY <1>2 DEF Message, FundRequest, Amount
<1>4. /\ FinalSettlement(m) \in Message
      /\ FinalSettlement(m).request = m.request
      /\ WellFormed(FinalSettlement(m))
  BY <1>2 DEF FinalSettlement, Answer, Message, WellFormed
<1>5. Traffic'
  BY <1>1, <1>4, PassOnKeeps DEF PayNextLeg, history
<1>6. Books'
  BY <1>1, <1>2, <1>3, NativeTypes DEF PayNextLeg, history
<1> QED
  BY <1>5, <1>6 DEF FundingInv

\* The amount of the present leg can be counted as lost.
LEMMA LoseTypes ==
  ASSUME Traffic, Books, NEW m \in messages
  PROVE  Lose(m) \in [Tokens -> Nat]
<1>1. m.token \in Tokens /\ Amount(m.request, m.token) \in Nat
  BY LegTypes
<1> QED
  BY <1>1 DEF Lose, Books

LEMMA AbortNextLegKeeps ==
  ASSUME FundingInv, NEW m \in messages, AbortNextLeg(m)
  PROVE  FundingInv'
<1>1. Traffic /\ Books
  BY DEF FundingInv
<1>2. Traffic'
  BY <1>1, EndKeeps DEF AbortNextLeg, Fail
<1>3. Books'
  BY <1>1, LoseTypes DEF AbortNextLeg, Books, balances, credits
<1> QED
  BY <1>2, <1>3 DEF FundingInv

\* A refund credits the leg before, on whichever chain.
LEMMA RefundTypes ==
  ASSUME Traffic, Books, NEW m \in messages, NEW book \in [Tokens -> [Accounts -> Nat]],
         Prev(m) # None
  PROVE  Give(book, Prev(m), m.request.from, Amount(m.request, Prev(m)))
           \in [Tokens -> [Accounts -> Nat]]
<1>1. m.request.from \in Accounts /\ Prev(m) \in Tokens
      /\ Amount(m.request, Prev(m)) \in Nat
  BY LegTypes
<1> QED
  BY <1>1, GiveTypes

LEMMA FundResultErrKeeps ==
  ASSUME FundingInv, NEW m \in messages, FundResultErr(m)
  PROVE  FundingInv'
<1>1. Traffic /\ Books
  BY DEF FundingInv
<1>2. Traffic'
  BY <1>1, EndKeeps DEF FundResultErr, Fail
<1>3. replica' \in [Tokens -> [Accounts -> Nat]]
  BY <1>1, RefundTypes DEF FundResultErr, Books
<1>4. Books'
  BY <1>1, <1>3 DEF FundResultErr, Books, balances
<1> QED
  BY <1>2, <1>4 DEF FundingInv

LEMMA SettleErrKeeps ==
  ASSUME FundingInv, NEW m \in messages, SettleErr(m)
  PROVE  FundingInv'
<1>1. Traffic /\ Books
  BY DEF FundingInv
<1>2. Traffic'
  BY <1>1, EndKeeps DEF SettleErr, Fail
<1>3. claimable' \in [Tokens -> [Accounts -> Nat]]
  BY <1>1, RefundTypes DEF SettleErr, Books
<1>4. Books'
  BY <1>1, <1>3, LoseTypes DEF SettleErr, Books, balances
<1> QED
  BY <1>2, <1>4 DEF FundingInv

\* The settlement that succeeded names no further leg, so the request is
\* delivered and not dropped.
LEMMA SettleOkKeeps ==
  ASSUME FundingInv, NEW m \in messages, SettleOk(m)
  PROVE  FundingInv'
<1>1. Traffic /\ Books
  BY DEF FundingInv
<1>2. m.next = None
  BY <1>1, LegTypes DEF SettleOk, Receive, WellFormed
<1>3. Traffic'
  BY <1>1, <1>2, EndKeeps DEF SettleOk, history
<1>4. Books'
  BY <1>1 DEF SettleOk, Books, balances, credits, history
<1> QED
  BY <1>3, <1>4 DEF FundingInv

----------------------------------------------------------------------------
(* Every step, every behaviour                                             *)

LEMMA FundingNext == FundingInv /\ [Next]_vars => FundingInv'
<1> SUFFICES ASSUME FundingInv, [Next]_vars PROVE FundingInv'
  OBVIOUS
<1>1. CASE Operate
  BY <1>1, SwapNativeKeeps, SwapMemeKeeps, AddLiquidityKeeps DEF Operate
<1>2. ASSUME NEW m \in messages, Handle(m) PROVE FundingInv'
  <2>1. CASE RequestFund(m)
    BY <2>1, RequestFundKeeps
  <2>2. CASE TransferFromApplication(m)
    BY <2>2, TransferFromApplicationKeeps
  <2>3. CASE BounceTransfer(m) \/ FundResultOk(m) \/ ForwardReceipt(m)
    BY <2>3, RelayKeeps
  <2>4. CASE FundResultErr(m)
    BY <2>4, FundResultErrKeeps
  <2>5. CASE RequestNextLeg(m)
    BY <2>5, RequestNextLegKeeps
  <2>6. CASE PayNextLeg(m)
    BY <2>6, PayNextLegKeeps
  <2>7. CASE AbortNextLeg(m)
    BY <2>7, AbortNextLegKeeps
  <2>8. CASE SettleErr(m)
    BY <2>8, SettleErrKeeps
  <2>9. CASE SettleOk(m)
    BY <2>9, SettleOkKeeps
  <2> QED
    BY <1>2, <2>1, <2>2, <2>3, <2>4, <2>5, <2>6, <2>7, <2>8, <2>9 DEF Handle
<1>3. CASE UNCHANGED vars
  <2>1. Traffic'
    BY <1>3 DEF FundingInv, Traffic, Fresh, Carried, OneFate, vars, history
  <2>2. Books'
    BY <1>3 DEF FundingInv, Books, vars, balances, credits, history
  <2> QED
    BY <2>1, <2>2 DEF FundingInv
<1> QED
  BY <1>1, <1>2, <1>3 DEF Next, Deliver

\* The invariant holds in every reachable state.
THEOREM FundingInvariant == Spec => []FundingInv
<1>1. Init => FundingInv
  BY FundingInit
<1>2. FundingInv /\ [Next]_vars => FundingInv'
  BY FundingNext
<1> QED
  BY <1>1, <1>2, PTL DEF Spec

\* No hop pays out what its account does not hold: wallets, the accounts of
\* the pool application and the claimable balances stay natural numbers.
THEOREM FundingTypes == Spec => []TypeOK
<1> DEFINE Kind == nativePair \in NativePairs
<1>1. FundingInv /\ Kind => TypeOK
  BY InvImplies
<1>2. Init => Kind
  BY DEF Init
<1>3. Kind /\ [Next]_vars => Kind'
  BY DEF Next, Deliver, vars
<1> HIDE DEF Kind
<1>4. Spec => []Kind
  BY <1>2, <1>3, PTL DEF Spec
<1> QED
  BY <1>1, <1>4, FundingInvariant, PTL

\* A request is carried by one message, or was delivered once, or was given
\* up, and never two of these: the chains keep no record of a request, yet no
\* leg is funded twice and no deposit is both settled and refunded.
THEOREM OneFateSound == Spec => []OneFate
<1>1. FundingInv => OneFate
  BY InvImplies
<1> QED
  BY <1>1, FundingInvariant, PTL

----------------------------------------------------------------------------
(* The money: what each message stands for                                 *)

\* The travelling part of m in the pool's account of chain c.
TravelsOn(m, t, c) == IF ChainOf[m.request.from] = c THEN Travels(m, t) ELSE 0
OnChain(t, c) == SumFunction([m \in messages |-> TravelsOn(m, t, c)])

\* The legs a message of a swap or a deposit can be about.
Shaped(m) ==
  \/ /\ m.request.type = "Swap" /\ m.prev = None /\ m.next = None
     /\ \A t \in Tokens \ {m.token} : Amount(m.request, t) = 0
  \/ /\ m.request.type = "AddLiquidity" /\ m.prev = None /\ m.token = Token0
     /\ m.next = IF m.kind = "Settlement" /\ m.ok THEN None ELSE Token1
  \/ /\ m.request.type = "AddLiquidity" /\ m.prev = Token0 /\ m.token = Token1
     /\ m.next = None

\* The pool's account of a user chain holds at least what travels there: all
\* users of the chain share it, and what was credited to nobody stays in it.
Money ==
  /\ IsFiniteSet(messages)
  /\ \A m \in messages : Shaped(m)
  /\ ValueAccounted
  /\ SettlementsFunded
  /\ \A t \in Tokens, c \in Chains : OnChain(t, c) <= transit[t][c]

MoneyInv == FundingInv /\ Money

LEMMA TokenNames ==
  /\ Token0 \in Tokens /\ Token1 \in Tokens /\ Token0 # Token1
  /\ None \notin Tokens /\ \A t \in Tokens : t = Token0 \/ t = Token1
  BY DEF Tokens, Token0, Token1, None

LEMMA PartTypes ==
  ASSUME NEW m \in Message, NEW t \in Tokens, NEW c
  PROVE  /\ Lands(m, t) \in Nat /\ Travels(m, t) \in Nat /\ TravelsOn(m, t, c) \in Nat
         /\ Amount(m.request, t) \in Nat
<1>1. Amount(m.request, t) \in Nat
  BY DEF Message, FundRequest, Amount
<1> QED BY <1>1 DEF Lands, Travels, TravelsOn

(* The sum of a weight over messages; the totals are such sums.            *)
Weighed(box, w) == SumFunction([m \in box |-> w[m]])
LandsAt(t) == [m \in Message |-> Lands(m, t)]
TravelsAt(t) == [m \in Message |-> Travels(m, t)]
TravelsOnAt(t, c) == [m \in Message |-> TravelsOn(m, t, c)]

LEMMA Weights ==
  ASSUME NEW t \in Tokens, NEW c
  PROVE  /\ LandsAt(t) \in [Message -> Nat] /\ TravelsAt(t) \in [Message -> Nat]
         /\ TravelsOnAt(t, c) \in [Message -> Nat]
  BY PartTypes DEF LandsAt, TravelsAt, TravelsOnAt

LEMMA TotalsWeighed ==
  ASSUME messages \subseteq Message, NEW t, NEW c
  PROVE  /\ Landed(t) = Weighed(messages, LandsAt(t))
         /\ Travelling(t) = Weighed(messages, TravelsAt(t))
         /\ OnChain(t, c) = Weighed(messages, TravelsOnAt(t, c))
<1>1. [m \in messages |-> Lands(m, t)] = [m \in messages |-> LandsAt(t)[m]]
  BY DEF LandsAt
<1>2. [m \in messages |-> Travels(m, t)] = [m \in messages |-> TravelsAt(t)[m]]
  BY DEF TravelsAt
<1>3. [m \in messages |-> TravelsOn(m, t, c)] = [m \in messages |-> TravelsOnAt(t, c)[m]]
  BY DEF TravelsOnAt
<1> QED BY <1>1, <1>2, <1>3 DEF Landed, Travelling, OnChain, Weighed

LEMMA TotalsWeighedNext ==
  ASSUME messages' \subseteq Message, NEW t, NEW c
  PROVE  /\ Landed(t)' = Weighed(messages', LandsAt(t))
         /\ Travelling(t)' = Weighed(messages', TravelsAt(t))
         /\ OnChain(t, c)' = Weighed(messages', TravelsOnAt(t, c))
<1>1. [m \in messages' |-> Lands(m, t)] = [m \in messages' |-> LandsAt(t)[m]]
  BY DEF LandsAt
<1>2. [m \in messages' |-> Travels(m, t)] = [m \in messages' |-> TravelsAt(t)[m]]
  BY DEF TravelsAt
<1>3. [m \in messages' |-> TravelsOn(m, t, c)] = [m \in messages' |-> TravelsOnAt(t, c)[m]]
  BY DEF TravelsOnAt
<1> QED BY <1>1, <1>2, <1>3 DEF Landed, Travelling, OnChain, Weighed

LEMMA WeighedType ==
  ASSUME NEW box, box \subseteq Message, IsFiniteSet(box), NEW w \in [Message -> Nat]
  PROVE  Weighed(box, w) \in Nat
<1> DEFINE f == [m \in box |-> w[m]]
<1>1. f \in [box -> Nat] /\ f \in [box -> Int]
  OBVIOUS
<1> HIDE DEF f
<1>2. SumFunction(f) \in Nat
  BY <1>1, SumType
<1> QED BY <1>2 DEF Weighed, f

LEMMA WeighedEnd ==
  ASSUME NEW box, box \subseteq Message, IsFiniteSet(box), NEW w \in [Message -> Nat],
         NEW m \in box
  PROVE  Weighed(box \ {m}, w) = Weighed(box, w) - w[m]
<1> DEFINE after == box \ {m}
           f == [n \in box |-> w[n]]
           h == [n \in after |-> w[n]]
<1>1. f \in [box -> Int] /\ h \in [after -> Int]
  OBVIOUS
<1>2. f[m] = w[m] /\ \A n \in after : h[n] = f[n]
  OBVIOUS
<1> HIDE DEF f, h
<1>3. SumFunction(h) = SumFunction(f) - f[m]
  BY <1>1, <1>2, SumRemove
<1> QED BY <1>2, <1>3 DEF Weighed, f, h

LEMMA WeighedIssue ==
  ASSUME NEW box, box \subseteq Message, IsFiniteSet(box), NEW w \in [Message -> Nat],
         NEW m \in Message, m \notin box
  PROVE  Weighed(box \cup {m}, w) = Weighed(box, w) + w[m]
<1> DEFINE after == box \cup {m}
           f == [n \in box |-> w[n]]
           h == [n \in after |-> w[n]]
<1>1. f \in [box -> Int] /\ h \in [after -> Int]
  OBVIOUS
<1>2. h[m] = w[m] /\ \A n \in box : h[n] = f[n]
  OBVIOUS
<1> HIDE DEF f, h
<1>3. SumFunction(h) = SumFunction(f) + h[m]
  BY <1>1, <1>2, SumAdd
<1> QED BY <1>2, <1>3 DEF Weighed, f, h

LEMMA WeighedReply ==
  ASSUME NEW box, box \subseteq Message, IsFiniteSet(box), NEW w \in [Message -> Nat],
         NEW m \in box, NEW m2 \in Message, m2 \notin box \ {m}
  PROVE  Weighed((box \ {m}) \cup {m2}, w) = Weighed(box, w) - w[m] + w[m2]
<1> DEFINE rest == box \ {m}
<1>1. rest \subseteq Message /\ IsFiniteSet(rest) /\ m2 \notin rest
  BY FS_RemoveElement
<1>2. Weighed(rest, w) = Weighed(box, w) - w[m]
  BY WeighedEnd
<1> HIDE DEF rest
<1>3. Weighed(rest \cup {m2}, w) = Weighed(rest, w) + w[m2]
  BY <1>1, WeighedIssue
<1> QED BY <1>2, <1>3 DEF rest

LEMMA TotalTypes ==
  ASSUME Traffic, IsFiniteSet(messages), NEW t \in Tokens, NEW c
  PROVE  /\ Delivered(t) \in Nat /\ Landed(t) \in Nat /\ Travelling(t) \in Nat
         /\ OnChain(t, c) \in Nat
<1>1. messages \subseteq Message
  BY DEF Traffic
<1>2. Landed(t) \in Nat /\ Travelling(t) \in Nat /\ OnChain(t, c) \in Nat
  BY <1>1, Weights, WeighedType, TotalsWeighed
<1> DEFINE d == [r \in delivered |-> Amount(r, t)]
<1>3. IsFiniteSet(delivered) /\ d \in [delivered -> Nat] /\ d \in [delivered -> Int]
  BY FS_Subset DEF Traffic, Fresh, FundRequest, Amount
<1> HIDE DEF d
<1>4. SumFunction(d) \in Nat
  BY <1>3, SumType
<1> QED BY <1>2, <1>4 DEF Delivered, d

(* A message is answered by one of the same request.                       *)
LEMMA ReplyTotals ==
  ASSUME Traffic, IsFiniteSet(messages), NEW m \in messages, NEW m2 \in Message,
         m2.request = m.request, Reply(m, {m2}), NEW t \in Tokens, NEW c
  PROVE  /\ IsFiniteSet(messages')
         /\ Landed(t)' = Landed(t) - Lands(m, t) + Lands(m2, t)
         /\ Travelling(t)' = Travelling(t) - Travels(m, t) + Travels(m2, t)
         /\ OnChain(t, c)' = OnChain(t, c) - TravelsOn(m, t, c) + TravelsOn(m2, t, c)
<1>1. messages' = (messages \ {m}) \cup {m2} /\ m2 \notin messages \ {m}
      /\ messages \subseteq Message /\ m \in Message
  BY DEF Reply, Traffic, OneFate
<1>2. IsFiniteSet(messages') /\ messages' \subseteq Message
  BY <1>1, FS_RemoveElement, FS_AddElement
<1>3. \A w \in [Message -> Nat] : Weighed(messages', w) = Weighed(messages, w) - w[m] + w[m2]
  BY <1>1, WeighedReply
<1>4. /\ Landed(t)' = Weighed(messages', LandsAt(t))
      /\ Travelling(t)' = Weighed(messages', TravelsAt(t))
      /\ OnChain(t, c)' = Weighed(messages', TravelsOnAt(t, c))
  BY <1>2, TotalsWeighedNext
<1> QED BY <1>1, <1>2, <1>3, <1>4, Weights, TotalsWeighed DEF LandsAt, TravelsAt, TravelsOnAt

(* A message is consumed for good.                                         *)
LEMMA EndTotals ==
  ASSUME Traffic, IsFiniteSet(messages), NEW m \in messages, Reply(m, {}),
         NEW t \in Tokens, NEW c
  PROVE  /\ IsFiniteSet(messages')
         /\ Landed(t)' = Landed(t) - Lands(m, t)
         /\ Travelling(t)' = Travelling(t) - Travels(m, t)
         /\ OnChain(t, c)' = OnChain(t, c) - TravelsOn(m, t, c)
<1>1. messages' = messages \ {m} /\ messages \subseteq Message /\ m \in Message
  BY DEF Reply, Traffic
<1>2. IsFiniteSet(messages') /\ messages' \subseteq Message
  BY <1>1, FS_RemoveElement
<1>3. \A w \in [Message -> Nat] : Weighed(messages', w) = Weighed(messages, w) - w[m]
  BY <1>1, WeighedEnd
<1>4. /\ Landed(t)' = Weighed(messages', LandsAt(t))
      /\ Travelling(t)' = Weighed(messages', TravelsAt(t))
      /\ OnChain(t, c)' = Weighed(messages', TravelsOnAt(t, c))
  BY <1>2, TotalsWeighedNext
<1> QED BY <1>1, <1>2, <1>3, <1>4, Weights, TotalsWeighed DEF LandsAt, TravelsAt, TravelsOnAt

(* A request sets out, and nothing has been paid for it.                   *)
LEMMA IssueTotals ==
  ASSUME Traffic, IsFiniteSet(messages), NEW m \in Message, messages' = messages \cup {m},
         m \notin messages, NEW t \in Tokens, NEW c, Lands(m, t) = 0, Travels(m, t) = 0
  PROVE  /\ IsFiniteSet(messages')
         /\ Landed(t)' = Landed(t) /\ Travelling(t)' = Travelling(t)
         /\ OnChain(t, c)' = OnChain(t, c)
<1>1. messages \subseteq Message /\ TravelsOn(m, t, c) = 0
  BY DEF Traffic, TravelsOn
<1>2. IsFiniteSet(messages') /\ messages' \subseteq Message
  BY <1>1, FS_AddElement
<1>3. \A w \in [Message -> Nat] : Weighed(messages', w) = Weighed(messages, w) + w[m]
  BY <1>1, WeighedIssue
<1>4. /\ Landed(t)' = Weighed(messages', LandsAt(t))
      /\ Travelling(t)' = Weighed(messages', TravelsAt(t))
      /\ OnChain(t, c)' = Weighed(messages', TravelsOnAt(t, c))
  BY <1>2, TotalsWeighedNext
<1>5. Landed(t) \in Nat /\ Travelling(t) \in Nat /\ OnChain(t, c) \in Nat
  BY TotalTypes
<1>6. LandsAt(t)[m] = 0 /\ TravelsAt(t)[m] = 0 /\ TravelsOnAt(t, c)[m] = 0
  BY <1>1 DEF LandsAt, TravelsAt, TravelsOnAt
<1>7. /\ Weighed(messages', LandsAt(t)) = Weighed(messages, LandsAt(t)) + 0
      /\ Weighed(messages', TravelsAt(t)) = Weighed(messages, TravelsAt(t)) + 0
      /\ Weighed(messages', TravelsOnAt(t, c)) = Weighed(messages, TravelsOnAt(t, c)) + 0
  BY <1>3, <1>6, Weights
<1>8. /\ Landed(t) = Weighed(messages, LandsAt(t))
      /\ Travelling(t) = Weighed(messages, TravelsAt(t))
      /\ OnChain(t, c) = Weighed(messages, TravelsOnAt(t, c))
  BY <1>1, TotalsWeighed
<1> QED BY <1>2, <1>4, <1>5, <1>7, <1>8

----------------------------------------------------------------------------
(* The money: what a step moves                                            *)

LEMMA BookTotal ==
  ASSUME NEW S, IsFiniteSet(S), NEW book \in [Tokens -> [S -> Nat]], NEW t \in Tokens
  PROVE  SumFunction(book[t]) \in Nat
<1>1. book[t] \in [S -> Nat] /\ book[t] \in [S -> Int]
  OBVIOUS
<1> QED BY <1>1, SumType

(* One entry of a book changes.                                            *)
LEMMA RowMoves ==
  ASSUME NEW S, IsFiniteSet(S), NEW f \in [S -> Nat], NEW h \in [S -> Nat],
         NEW a \in S, NEW d \in Int, h[a] = f[a] + d, \A b \in S \ {a} : h[b] = f[b]
  PROVE  SumFunction(h) = SumFunction(f) + d
<1>1. f \in [S -> Int] /\ h \in [S -> Int] /\ f[a] \in Int /\ h[a] \in Int
  OBVIOUS
<1>2. SumFunction(h) = SumFunction(f) - f[a] + h[a]
  BY <1>1, SumUpdate
<1>3. SumFunction(f) \in Int
  BY <1>1, SumType
<1> QED BY <1>1, <1>2, <1>3

LEMMA BookMoves ==
  ASSUME NEW S, IsFiniteSet(S), NEW book \in [Tokens -> [S -> Nat]],
         NEW t \in Tokens, NEW a \in S, NEW d \in Int, book[t][a] + d \in Nat,
         NEW u \in Tokens
  PROVE  /\ SumFunction(Give(book, t, a, d)[u]) = SumFunction(book[u]) + (IF u = t THEN d ELSE 0)
         /\ Give(book, t, a, d) \in [Tokens -> [S -> Nat]]
<1> DEFINE after == Give(book, t, a, d)
           f == book[u]
           h == after[u]
<1>1. after \in [Tokens -> [S -> Nat]]
  BY DEF Give
<1>2. f \in [S -> Nat] /\ h \in [S -> Nat]
  BY <1>1
<1>3. CASE u = t
  <2>1. h[a] = f[a] + d /\ \A b \in S \ {a} : h[b] = f[b]
    BY <1>3 DEF Give
  <2> HIDE DEF f, h
  <2>2. SumFunction(h) = SumFunction(f) + d
    BY <1>2, <2>1, RowMoves, SMTT(40)
  <2> QED BY <1>1, <1>3, <2>2 DEF f, h
<1>4. CASE u # t
  <2>1. h = f
    BY <1>4 DEF Give
  <2>2. SumFunction(f) \in Nat
    BY BookTotal
  <2> QED BY <1>1, <1>4, <2>1, <2>2
<1> QED BY <1>3, <1>4

LEMMA MoneyTerms ==
  ASSUME MoneyInv, NEW t \in Tokens
  PROVE  /\ custody[t] \in Nat /\ SumFunction(transit[t]) \in Nat
         /\ Delivered(t) \in Nat /\ SumFunction(claimable[t]) \in Nat /\ Landed(t) \in Nat
         /\ Travelling(t) \in Nat /\ SumFunction(replica[t]) \in Nat /\ stranded[t] \in Nat
         /\ custody[t] + SumFunction(transit[t])
              = Delivered(t) + SumFunction(claimable[t]) + Landed(t)
                  + Travelling(t) + SumFunction(replica[t]) + stranded[t]
         /\ Delivered(t) + SumFunction(claimable[t]) + Landed(t) <= custody[t]
         /\ \A c \in Chains : /\ OnChain(t, c) \in Nat /\ transit[t][c] \in Nat
                              /\ OnChain(t, c) <= transit[t][c]
<1>1. Traffic /\ Books /\ IsFiniteSet(messages)
  BY DEF MoneyInv, FundingInv, Money
<1>2. /\ SumFunction(transit[t]) \in Nat /\ SumFunction(claimable[t]) \in Nat
      /\ SumFunction(replica[t]) \in Nat
  BY <1>1, FundingAssumption, BookTotal DEF Books
<1>3. custody[t] \in Nat /\ stranded[t] \in Nat /\ \A c \in Chains : transit[t][c] \in Nat
  BY <1>1 DEF Books
<1>4. /\ Delivered(t) \in Nat /\ Landed(t) \in Nat /\ Travelling(t) \in Nat
      /\ \A c \in Chains : OnChain(t, c) \in Nat
  BY <1>1, TotalTypes
<1> QED BY <1>2, <1>3, <1>4 DEF MoneyInv, Money, ValueAccounted, SettlementsFunded, Due

(* What is to be shown of a step.                                          *)
LEMMA MoneyShown ==
  ASSUME IsFiniteSet(messages'), \A m \in messages' : Shaped(m),
         \A t \in Tokens :
           /\ custody'[t] + SumFunction(transit'[t])
                = Delivered(t)' + SumFunction(claimable'[t]) + Landed(t)'
                    + Travelling(t)' + SumFunction(replica'[t]) + stranded'[t]
           /\ Delivered(t)' + SumFunction(claimable'[t]) + Landed(t)' <= custody'[t]
           /\ \A c \in Chains : OnChain(t, c)' <= transit'[t][c]
  PROVE  Money'
  BY DEF Money, ValueAccounted, SettlementsFunded, Due

(* A message passed on that stands for the same as before.                 *)
LEMMA RelayMoney ==
  ASSUME MoneyInv, NEW m \in messages, NEW m2 \in Message, m2.request = m.request,
         Shaped(m2), Reply(m, {m2}),
         \A t \in Tokens : Lands(m2, t) = Lands(m, t) /\ Travels(m2, t) = Travels(m, t),
         UNCHANGED <<balances, credits, delivered, stranded>>
  PROVE  Money'
<1>1. Traffic /\ IsFiniteSet(messages) /\ m \in Message
  BY DEF MoneyInv, FundingInv, Money, Traffic
<1>2. \A n \in messages' : Shaped(n)
  BY DEF MoneyInv, Money, Reply
<1>3. ASSUME NEW t \in Tokens, NEW c
      PROVE  /\ IsFiniteSet(messages') /\ Landed(t)' = Landed(t)
             /\ Travelling(t)' = Travelling(t) /\ OnChain(t, c)' = OnChain(t, c)
  <2>1. /\ IsFiniteSet(messages')
        /\ Landed(t)' = Landed(t) - Lands(m, t) + Lands(m2, t)
        /\ Travelling(t)' = Travelling(t) - Travels(m, t) + Travels(m2, t)
        /\ OnChain(t, c)' = OnChain(t, c) - TravelsOn(m, t, c) + TravelsOn(m2, t, c)
    BY <1>1, ReplyTotals
  <2>2. /\ Lands(m2, t) = Lands(m, t) /\ Travels(m2, t) = Travels(m, t)
        /\ TravelsOn(m2, t, c) = TravelsOn(m, t, c)
    BY DEF TravelsOn
  <2>3. /\ Lands(m, t) \in Nat /\ Travels(m, t) \in Nat /\ TravelsOn(m, t, c) \in Nat
        /\ Landed(t) \in Nat /\ Travelling(t) \in Nat /\ OnChain(t, c) \in Nat
    BY <1>1, PartTypes, TotalTypes
  <2> QED BY <2>1, <2>2, <2>3
<1>4. IsFiniteSet(messages')
  BY <1>3, TokenNames
<1>5. /\ UNCHANGED <<transit, custody, claimable, replica, stranded>>
      /\ \A t \in Tokens : Delivered(t)' = Delivered(t)
  BY DEF balances, credits, Delivered
<1> QED BY <1>2, <1>3, <1>4, <1>5, MoneyTerms, MoneyShown

\* An answer of the same leg keeps the shape.
LEMMA AnswerShaped ==
  ASSUME NEW m \in Message, Shaped(m), NEW kind, NEW ok \in BOOLEAN,
         m.kind = "Settlement" => ~m.ok,
         kind = "Settlement" /\ ok => m.next = None
  PROVE  Shaped(Answer(m, kind, ok))
<1> DEFINE m2 == Answer(m, kind, ok)
<1>1. /\ m2.request = m.request /\ m2.prev = m.prev /\ m2.token = m.token
      /\ m2.next = m.next /\ m2.kind = kind /\ m2.ok = ok
  BY DEF Answer, Message
<1> HIDE DEF m2
<1> QED BY <1>1, TokenNames DEF Shaped, m2

LEMMA RelayHandlersMoney ==
  ASSUME MoneyInv, NEW m \in messages,
         BounceTransfer(m) \/ FundResultOk(m) \/ ForwardReceipt(m)
  PROVE  Money'
<1>1. m \in Message /\ Shaped(m) /\ Traffic /\ WellFormed(m) /\ m.ok \in BOOLEAN
  <2>1. Traffic
    BY DEF MoneyInv, FundingInv
  <2>2. m \in Message /\ WellFormed(m)
    BY <2>1, LegTypes
  <2> QED BY <2>1, <2>2 DEF MoneyInv, Money, Message
<1>2. UNCHANGED <<balances, credits, delivered, stranded>>
  BY DEF BounceTransfer, FundResultOk, ForwardReceipt, history
<1>3. ASSUME NEW kind \in {"FundResult", "Transfer", "Receipt", "Settlement"},
             NEW ok \in BOOLEAN, kind = "Settlement" /\ ok => m.next = None,
             m.kind # "Settlement", Reply(m, {Answer(m, kind, ok)}),
             \A t \in Tokens : /\ Lands(Answer(m, kind, ok), t) = Lands(m, t)
                               /\ Travels(Answer(m, kind, ok), t) = Travels(m, t)
      PROVE  Money'
  <2>1. Answer(m, kind, ok) \in Message /\ Answer(m, kind, ok).request = m.request
    BY <1>1, <1>3, AnswerTypes
  <2>2. Shaped(Answer(m, kind, ok))
    BY <1>1, <1>3, AnswerShaped
  <2> DEFINE m2 == Answer(m, kind, ok)
  <2>3. m2 \in Message /\ m2.request = m.request /\ Shaped(m2) /\ Reply(m, {m2})
        /\ \A t \in Tokens : Lands(m2, t) = Lands(m, t) /\ Travels(m2, t) = Travels(m, t)
    BY <2>1, <2>2, <1>3
  <2> HIDE DEF m2
  <2> QED BY <1>2, <2>3, RelayMoney
<1>4. CASE BounceTransfer(m)
  <2>1. m.kind = "Transfer" /\ Reply(m, {Answer(m, "Receipt", FALSE)})
    BY <1>4 DEF BounceTransfer, Receive
  <2>2. \A t \in Tokens : /\ Lands(Answer(m, "Receipt", FALSE), t) = Lands(m, t)
                          /\ Travels(Answer(m, "Receipt", FALSE), t) = Travels(m, t)
    BY <1>1, <2>1 DEF Lands, Travels, Settled, OnTheWay, Answer, Message
  <2> QED BY <1>3, <2>1, <2>2
<1>5. CASE FundResultOk(m)
  <2>1. m.kind = "FundResult" /\ m.ok /\ Reply(m, {Answer(m, "Transfer", TRUE)})
    BY <1>5 DEF FundResultOk, Receive
  <2>2. \A t \in Tokens : /\ Lands(Answer(m, "Transfer", TRUE), t) = Lands(m, t)
                          /\ Travels(Answer(m, "Transfer", TRUE), t) = Travels(m, t)
    BY <1>1, <2>1 DEF Lands, Travels, Settled, OnTheWay, Answer, Message
  <2> QED BY <1>3, <2>1, <2>2
<1>6. CASE ForwardReceipt(m)
  <2>1. m.kind = "Receipt" /\ Reply(m, {Answer(m, "Settlement", m.ok)})
        /\ (m.request.type = "Swap" \/ ~m.ok \/ m.next = None)
    BY <1>6 DEF ForwardReceipt, Receive
  <2>2. m.ok => m.next = None
    BY <1>1, <2>1 DEF WellFormed
  <2>3. \A t \in Tokens : Travels(Answer(m, "Settlement", m.ok), t) = Travels(m, t)
    BY <1>1, <2>1 DEF Travels, OnTheWay, Answer, Message
  <2>4. \A t \in Tokens : Lands(Answer(m, "Settlement", m.ok), t) = Lands(m, t)
    <3> DEFINE m2 == Answer(m, "Settlement", m.ok)
    <3>1. m2.request = m.request /\ m2.prev = m.prev /\ m2.token = m.token
          /\ m2.kind = "Settlement" /\ m2.ok = m.ok
      BY <1>1 DEF Answer, Message
    <3> HIDE DEF m2
    <3>2. m.ok /\ m.request.type = "AddLiquidity" => m.prev = Token0 /\ m.token = Token1
      BY <1>1, <2>1, <2>2, TokenNames DEF Shaped
    <3>3. Settled(m2) = Settled(m)
      BY <2>1, <3>1, <3>2, TokenNames DEF Settled, Tokens
    <3> QED BY <3>1, <3>3 DEF Lands, m2
  <2> QED BY <1>1, <1>3, <2>1, <2>2, <2>3, <2>4
<1> QED BY <1>4, <1>5, <1>6

LEMMA RequestNextLegMoney ==
  ASSUME MoneyInv, NEW m \in messages, RequestNextLeg(m)
  PROVE  Money'
<1> DEFINE m2 == Ask(m.request, m.token, m.next, None)
<1>1. m \in Message /\ Shaped(m)
  BY DEF MoneyInv, Money, FundingInv, Traffic
<1>2. /\ m.kind = "Receipt" /\ m.ok /\ m.request.type = "AddLiquidity" /\ m.next # None
      /\ Reply(m, {m2}) /\ UNCHANGED <<balances, credits, delivered, stranded>>
  BY DEF RequestNextLeg, Successor, Receive, history
<1>3. m.prev = None /\ m.token = Token0 /\ m.next = Token1
  BY <1>1, <1>2 DEF Shaped
<1>4. /\ m2.kind = "RequestFund" /\ m2.request = m.request /\ m2.prev = Token0
      /\ m2.token = Token1 /\ m2.next = None
  BY <1>3 DEF Ask
<1>5. m2 \in Message
  BY <1>1, <1>3, TokenNames DEF Ask, Message
<1> HIDE DEF m2
<1>6. Shaped(m2)
  BY <1>2, <1>4 DEF Shaped
<1>7. Settled(m2) = Settled(m) /\ OnTheWay(m2) = OnTheWay(m)
  BY <1>2, <1>3, <1>4, TokenNames DEF Settled, OnTheWay
<1>8. \A t \in Tokens : Lands(m2, t) = Lands(m, t) /\ Travels(m2, t) = Travels(m, t)
  BY <1>4, <1>7 DEF Lands, Travels
<1> QED BY <1>2, <1>4, <1>5, <1>6, <1>8, RelayMoney

\* What an answer of a leg says of the leg.
LEMMA AnswerFields ==
  ASSUME NEW m \in Message, NEW kind, NEW ok
  PROVE  /\ Answer(m, kind, ok).request = m.request /\ Answer(m, kind, ok).prev = m.prev
         /\ Answer(m, kind, ok).token = m.token /\ Answer(m, kind, ok).next = m.next
         /\ Answer(m, kind, ok).kind = kind /\ Answer(m, kind, ok).ok = ok
  BY DEF Answer, Message

\* The pool's accounts of the users' chains, one entry changed.
LEMMA TransitMoves ==
  ASSUME Books, NEW t \in Tokens, NEW c \in Chains, NEW d \in Int, transit[t][c] + d \in Nat,
         transit' = Give(transit, t, c, d), NEW u \in Tokens
  PROVE  /\ SumFunction(transit'[u]) = SumFunction(transit[u]) + (IF u = t THEN d ELSE 0)
         /\ \A e \in Chains :
              transit'[u][e] = transit[u][e] + (IF e = c THEN IF u = t THEN d ELSE 0 ELSE 0)
<1>1. transit \in [Tokens -> [Chains -> Nat]] /\ IsFiniteSet(Chains)
  BY FundingAssumption DEF Books
<1>2. SumFunction(Give(transit, t, c, d)[u]) = SumFunction(transit[u]) + (IF u = t THEN d ELSE 0)
  BY <1>1, BookMoves
<1>3. \A e \in Chains : transit[u][e] \in Nat
  BY <1>1
<1>4. \A e \in Chains :
        transit'[u][e] = transit[u][e] + (IF e = c THEN IF u = t THEN d ELSE 0 ELSE 0)
  BY <1>1, <1>3 DEF Give
<1> QED BY <1>2, <1>4

LEMMA RequestFundMoney ==
  ASSUME MoneyInv, NEW m \in messages, RequestFund(m)
  PROVE  Money'
<1> DEFINE leg == m.token
           a == m.request.from
           n == Amount(m.request, leg)
           m2 == Answer(m, "FundResult", Funded(m))
<1>1. Traffic /\ Books /\ m \in Message /\ Shaped(m) /\ IsFiniteSet(messages)
  BY DEF MoneyInv, Money, FundingInv, Traffic
<1>2. /\ a \in Accounts /\ ChainOf[a] \in Chains /\ leg \in Tokens /\ n \in Nat
      /\ Funded(m) \in BOOLEAN
  BY <1>1, LegTypes DEF Funded
<1>3. m.kind = "RequestFund" /\ Reply(m, {m2})
      /\ UNCHANGED <<custody, credits, delivered, stranded>>
  BY DEF RequestFund, Receive, history
<1>4. m2 \in Message /\ m2.request = m.request
  BY <1>1, <1>2, AnswerTypes
<1>5. Shaped(m2)
  BY <1>1, <1>2, <1>3, AnswerShaped
<1>6. m2.prev = m.prev /\ m2.token = leg /\ m2.kind = "FundResult" /\ m2.ok = Funded(m)
  BY <1>1, AnswerFields
<1>7. Funded(m) <=> wallet[leg][a] >= n
  BY DEF Funded
<1>8. CASE ~Funded(m)
  <2>1. UNCHANGED <<balances, credits, delivered, stranded>>
    BY <1>3, <1>7, <1>8 DEF RequestFund, balances
  <2>2. Settled(m2) = Settled(m) /\ OnTheWay(m2) = OnTheWay(m)
    BY <1>3, <1>6, <1>8 DEF Settled, OnTheWay
  <2> HIDE DEF m2
  <2>3. \A t \in Tokens : Lands(m2, t) = Lands(m, t) /\ Travels(m2, t) = Travels(m, t)
    BY <1>4, <2>2 DEF Lands, Travels
  <2> QED BY <1>3, <1>4, <1>5, <2>1, <2>3, RelayMoney
<1>9. CASE Funded(m)
  <2>1. transit' = Give(transit, leg, ChainOf[a], n)
    BY <1>7, <1>9 DEF RequestFund
  <2>2. Settled(m2) = Settled(m) /\ OnTheWay(m) = {} /\ OnTheWay(m2) = {leg}
    BY <1>3, <1>6, <1>9 DEF Settled, OnTheWay
  <2> HIDE DEF leg, n, m2, a
  <2>3. \A t \in Tokens :
          /\ Lands(m2, t) = Lands(m, t) /\ Travels(m, t) = 0
          /\ Travels(m2, t) = IF t = leg THEN n ELSE 0
    BY <1>4, <2>2 DEF Lands, Travels, n
  <2>5. \A o \in messages' : Shaped(o)
    BY <1>3, <1>5 DEF MoneyInv, Money, Reply
  <2>6. ASSUME NEW t \in Tokens, NEW c \in Chains
        PROVE  /\ IsFiniteSet(messages')
               /\ custody'[t] + SumFunction(transit'[t])
                    = Delivered(t)' + SumFunction(claimable'[t]) + Landed(t)'
                        + Travelling(t)' + SumFunction(replica'[t]) + stranded'[t]
               /\ Delivered(t)' + SumFunction(claimable'[t]) + Landed(t)' <= custody'[t]
               /\ OnChain(t, c)' <= transit'[t][c]
    <3>1. /\ IsFiniteSet(messages')
          /\ Landed(t)' = Landed(t) - Lands(m, t) + Lands(m2, t)
          /\ Travelling(t)' = Travelling(t) - Travels(m, t) + Travels(m2, t)
          /\ OnChain(t, c)' = OnChain(t, c) - TravelsOn(m, t, c) + TravelsOn(m2, t, c)
      BY <1>1, <1>3, <1>4, ReplyTotals
    <3>2. Lands(m, t) \in Nat
      BY <1>1, PartTypes
    <3> DEFINE gain == IF t = leg THEN n ELSE 0
    <3>3. /\ SumFunction(transit'[t]) = SumFunction(transit[t]) + gain
          /\ transit'[t][c] = transit[t][c] + (IF c = ChainOf[a] THEN gain ELSE 0)
      <4>1. transit[leg][ChainOf[a]] + n \in Nat /\ n \in Int
        BY <1>1, <1>2 DEF Books
      <4> QED BY <1>1, <1>2, <2>1, <4>1, TransitMoves
    <3>4. TravelsOn(m, t, c) = 0 /\ TravelsOn(m2, t, c) = IF c = ChainOf[a] THEN gain ELSE 0
      <4>1. m2.request.from = a /\ Travels(m, t) = 0 /\ Travels(m2, t) = gain
        BY <1>4, <2>3 DEF a
      <4> HIDE DEF gain
      <4> QED BY <4>1, <1>4 DEF TravelsOn
    <3>6. gain \in Nat
      BY <1>2
    <3>7. /\ custody' = custody /\ claimable' = claimable /\ replica' = replica
          /\ stranded' = stranded /\ Delivered(t)' = Delivered(t)
      BY <1>3 DEF credits, Delivered
    <3>8. /\ Landed(t)' = Landed(t)
          /\ Travelling(t)' = Travelling(t) + gain
          /\ OnChain(t, c)' = OnChain(t, c) + IF c = ChainOf[a] THEN gain ELSE 0
      BY <3>1, <3>2, <3>4, <2>3, <3>6, MoneyTerms
    <3> HIDE DEF gain
    <3>9. /\ custody[t] \in Nat /\ SumFunction(transit[t]) \in Nat
         /\ Delivered(t) \in Nat /\ SumFunction(claimable[t]) \in Nat /\ Landed(t) \in Nat
         /\ Travelling(t) \in Nat /\ SumFunction(replica[t]) \in Nat /\ stranded[t] \in Nat
         /\ custody[t] + SumFunction(transit[t])
              = Delivered(t) + SumFunction(claimable[t]) + Landed(t)
                  + Travelling(t) + SumFunction(replica[t]) + stranded[t]
         /\ Delivered(t) + SumFunction(claimable[t]) + Landed(t) <= custody[t]
      BY MoneyTerms
    <3>10. OnChain(t, c) \in Nat /\ transit[t][c] \in Nat /\ OnChain(t, c) <= transit[t][c]
      BY MoneyTerms
    <3>11. OnChain(t, c)' <= transit'[t][c]
      BY <3>3, <3>6, <3>8, <3>10
    <3>12. custody'[t] + SumFunction(transit'[t])
                    = Delivered(t)' + SumFunction(claimable'[t]) + Landed(t)'
                        + Travelling(t)' + SumFunction(replica'[t]) + stranded'[t]
      <4>1. SumFunction(transit'[t]) = SumFunction(transit[t]) + gain
        BY <3>3
      <4> QED BY <4>1, <3>6, <3>7, <3>8, <3>9
    <3>13. Delivered(t)' + SumFunction(claimable'[t]) + Landed(t)' <= custody'[t]
      BY <3>7, <3>8, <3>9
    <3> QED BY <3>1, <3>11, <3>12, <3>13
  <2>7. IsFiniteSet(messages')
    BY <1>2, <2>6
  <2> QED BY <2>5, <2>6, <2>7, <1>2, MoneyShown
<1> QED BY <1>8, <1>9

LEMMA TransferFromApplicationMoney ==
  ASSUME MoneyInv, NEW m \in messages, TransferFromApplication(m)
  PROVE  Money'
<1> DEFINE leg == m.token
           c0 == ChainOf[m.request.from]
           n == Amount(m.request, leg)
<1>1. Traffic /\ Books /\ m \in Message /\ Shaped(m) /\ IsFiniteSet(messages)
  BY DEF MoneyInv, Money, FundingInv, Traffic
<1>2. c0 \in Chains /\ leg \in Tokens /\ n \in Nat
  BY <1>1, LegTypes
<1>3. m.kind = "Transfer" /\ UNCHANGED <<wallet, credits, delivered, stranded>>
  BY DEF TransferFromApplication, Receive, history
<1>4. ASSUME NEW ok \in BOOLEAN
      PROVE  /\ Answer(m, "Receipt", ok) \in Message /\ Shaped(Answer(m, "Receipt", ok))
             /\ Answer(m, "Receipt", ok).request = m.request
             /\ Answer(m, "Receipt", ok).prev = m.prev
             /\ Answer(m, "Receipt", ok).token = leg
             /\ Answer(m, "Receipt", ok).kind = "Receipt" /\ Answer(m, "Receipt", ok).ok = ok
  BY <1>1, <1>3, AnswerTypes, AnswerShaped, AnswerFields
<1>7. CASE ~(transit[leg][c0] >= n)
  <2> DEFINE m2 == Answer(m, "Receipt", FALSE)
  <2>0. /\ m2 \in Message /\ Shaped(m2) /\ m2.request = m.request
        /\ m2.prev = m.prev /\ m2.token = leg /\ m2.kind = "Receipt" /\ m2.ok = FALSE
    BY <1>4
  <2>9. Reply(m, {m2})
    BY <1>7 DEF TransferFromApplication
  <2>1. UNCHANGED <<balances, credits, delivered, stranded>>
    BY <1>3, <1>7 DEF TransferFromApplication, balances
  <2>2. Settled(m2) = Settled(m) /\ OnTheWay(m2) = OnTheWay(m)
    BY <1>3, <2>0 DEF Settled, OnTheWay
  <2> HIDE DEF m2
  <2>3. \A t \in Tokens : Lands(m2, t) = Lands(m, t) /\ Travels(m2, t) = Travels(m, t)
    BY <2>0, <2>2 DEF Lands, Travels
  <2> QED BY <2>0, <2>9, <2>1, <2>3, RelayMoney
<1>8. CASE transit[leg][c0] >= n
  <2> DEFINE m2 == Answer(m, "Receipt", TRUE)
  <2>0. /\ m2 \in Message /\ Shaped(m2) /\ m2.request = m.request
        /\ m2.prev = m.prev /\ m2.token = leg /\ m2.kind = "Receipt" /\ m2.ok = TRUE
    BY <1>4
  <2>9. Reply(m, {m2})
    BY <1>8 DEF TransferFromApplication
  <2>1. /\ transit' = [transit EXCEPT ![leg][c0] = @ - n]
        /\ custody' = [custody EXCEPT ![leg] = @ + n]
    BY <1>8 DEF TransferFromApplication
  <2>2. /\ Settled(m2) = Settled(m) \cup {leg} /\ leg \notin Settled(m)
        /\ OnTheWay(m) = {leg} /\ OnTheWay(m2) = {}
    BY <1>1, <1>3, <2>0, TokenNames DEF Settled, OnTheWay, Shaped
  <2> HIDE DEF leg, n, m2, c0
  <2>3. \A t \in Tokens :
          /\ Lands(m2, t) = IF t = leg THEN n ELSE Lands(m, t)
          /\ t = leg => Lands(m, t) = 0
          /\ Travels(m, t) = IF t = leg THEN n ELSE 0
          /\ Travels(m2, t) = 0
    BY <2>0, <2>2 DEF Lands, Travels, n
  <2>4. transit' = Give(transit, leg, c0, 0 - n)
    <3>1. transit \in [Tokens -> [Chains -> Nat]]
      BY <1>1 DEF Books
    <3>2. transit[leg][c0] - n = transit[leg][c0] + (0 - n)
      BY <3>1, <1>2
    <3> QED BY <2>1, <3>2 DEF Give
  <2>5. \A o \in messages' : Shaped(o)
    BY <2>0, <2>9 DEF MoneyInv, Money, Reply
  <2>6. ASSUME NEW t \in Tokens, NEW c \in Chains
        PROVE  /\ IsFiniteSet(messages')
               /\ custody'[t] + SumFunction(transit'[t])
                    = Delivered(t)' + SumFunction(claimable'[t]) + Landed(t)'
                        + Travelling(t)' + SumFunction(replica'[t]) + stranded'[t]
               /\ Delivered(t)' + SumFunction(claimable'[t]) + Landed(t)' <= custody'[t]
               /\ OnChain(t, c)' <= transit'[t][c]
    <3> DEFINE d == IF t = leg THEN n ELSE 0
    <3>1. /\ IsFiniteSet(messages')
          /\ Landed(t)' = Landed(t) - Lands(m, t) + Lands(m2, t)
          /\ Travelling(t)' = Travelling(t) - Travels(m, t) + Travels(m2, t)
          /\ OnChain(t, c)' = OnChain(t, c) - TravelsOn(m, t, c) + TravelsOn(m2, t, c)
      BY <1>1, <2>0, <2>9, ReplyTotals
    <3>2. Lands(m, t) \in Nat /\ d \in Nat /\ Lands(m2, t) = Lands(m, t) + d
          /\ Travels(m, t) = d /\ Travels(m2, t) = 0
      <4>1. Lands(m, t) \in Nat
        BY <1>1, PartTypes
      <4> QED BY <1>2, <2>3, <4>1
    <3>3. /\ SumFunction(transit'[t]) = SumFunction(transit[t]) - d
          /\ transit'[t][c] = transit[t][c] - (IF c = c0 THEN d ELSE 0)
      <4>1. transit[leg][c0] + (0 - n) \in Nat /\ 0 - n \in Int
        BY <1>1, <1>2, <1>8 DEF Books
      <4>2. /\ SumFunction(transit'[t]) = SumFunction(transit[t]) + (IF t = leg THEN 0 - n ELSE 0)
            /\ transit'[t][c] = transit[t][c] + (IF c = c0 THEN IF t = leg THEN 0 - n ELSE 0 ELSE 0)
        BY <1>1, <1>2, <2>4, <4>1, TransitMoves
      <4>3. SumFunction(transit[t]) \in Nat /\ transit[t][c] \in Nat
        BY MoneyTerms
      <4>4. (IF t = leg THEN 0 - n ELSE 0) = 0 - d
        BY <1>2
      <4>5. SumFunction(transit'[t]) = SumFunction(transit[t]) + (0 - d)
        BY <4>2, <4>4
      <4>6. transit'[t][c] = transit[t][c] + (IF c = c0 THEN 0 - d ELSE 0)
        BY <4>2, <4>4
      <4> HIDE DEF d
      <4> QED BY <3>2, <4>3, <4>5, <4>6
    <3>4. custody'[t] = custody[t] + d
      BY <1>1, <1>2, <2>1 DEF Books
    <3> HIDE DEF d
    <3>5. TravelsOn(m, t, c) = (IF c = c0 THEN d ELSE 0) /\ TravelsOn(m2, t, c) = 0
      BY <2>0, <3>2 DEF TravelsOn, c0
    <3>6. /\ claimable' = claimable /\ replica' = replica
          /\ stranded' = stranded /\ Delivered(t)' = Delivered(t)
      BY <1>3 DEF credits, Delivered
    <3>7. /\ custody[t] \in Nat /\ SumFunction(transit[t]) \in Nat
          /\ Delivered(t) \in Nat /\ SumFunction(claimable[t]) \in Nat /\ Landed(t) \in Nat
          /\ Travelling(t) \in Nat /\ SumFunction(replica[t]) \in Nat /\ stranded[t] \in Nat
          /\ custody[t] + SumFunction(transit[t])
               = Delivered(t) + SumFunction(claimable[t]) + Landed(t)
                   + Travelling(t) + SumFunction(replica[t]) + stranded[t]
          /\ Delivered(t) + SumFunction(claimable[t]) + Landed(t) <= custody[t]
      BY MoneyTerms
    <3>8. OnChain(t, c) \in Nat /\ transit[t][c] \in Nat /\ OnChain(t, c) <= transit[t][c]
      BY MoneyTerms
    <3>9. OnChain(t, c)' <= transit'[t][c]
      BY <3>1, <3>2, <3>3, <3>5, <3>8
    <3>10. Landed(t)' = Landed(t) + d /\ Travelling(t)' = Travelling(t) - d
      BY <3>1, <3>2, <3>7
    <3>11. custody'[t] + SumFunction(transit'[t])
             = Delivered(t)' + SumFunction(claimable'[t]) + Landed(t)'
                 + Travelling(t)' + SumFunction(replica'[t]) + stranded'[t]
      <4>1. SumFunction(transit'[t]) = SumFunction(transit[t]) - d
        BY <3>3
      <4> QED BY <4>1, <3>2, <3>4, <3>6, <3>7, <3>10
    <3>12. Delivered(t)' + SumFunction(claimable'[t]) + Landed(t)' <= custody'[t]
      BY <3>2, <3>4, <3>6, <3>7, <3>10
    <3> QED BY <3>1, <3>9, <3>11, <3>12
  <2>7. IsFiniteSet(messages')
    BY <1>2, <2>6
  <2> QED BY <2>5, <2>6, <2>7, <1>2, MoneyShown
<1> QED BY <1>7, <1>8

\* One more request delivered.
LEMMA DeliveredMoves ==
  ASSUME Traffic, NEW r \in FundRequest, r \notin delivered, delivered' = delivered \cup {r},
         NEW t \in Tokens
  PROVE  Delivered(t)' = Delivered(t) + Amount(r, t)
<1> DEFINE f == [q \in delivered |-> Amount(q, t)]
           after == delivered \cup {r}
           h == [q \in after |-> Amount(q, t)]
<1>1. delivered \subseteq FundRequest /\ IsFiniteSet(delivered)
  BY FS_Subset DEF Traffic, Fresh
<1>2. \A q \in FundRequest : Amount(q, t) \in Int
  BY DEF FundRequest, Amount
<1>3. f \in [delivered -> Int] /\ h \in [after -> Int] /\ h[r] = Amount(r, t)
      /\ \A q \in delivered : h[q] = f[q]
  BY <1>1, <1>2
<1> HIDE DEF f, h
<1>4. SumFunction(h) = SumFunction(f) + h[r]
  BY <1>1, <1>3, SumAdd
<1>5. Delivered(t) = SumFunction(f)
  BY DEF Delivered, f
<1>6. Delivered(t)' = SumFunction(h)
  BY DEF Delivered, h
<1> QED BY <1>3, <1>4, <1>5, <1>6

\* A message consumed for good: what it stood for is delivered, credited or lost.
LEMMA EndMoney ==
  ASSUME MoneyInv, NEW m \in messages, Reply(m, {}), UNCHANGED balances,
         \A t \in Tokens :
           /\ Delivered(t)' \in Nat /\ SumFunction(claimable'[t]) \in Nat
           /\ SumFunction(replica'[t]) \in Nat /\ stranded'[t] \in Nat
           /\ Delivered(t)' + SumFunction(claimable'[t]) + SumFunction(replica'[t]) + stranded'[t]
                = Delivered(t) + SumFunction(claimable[t]) + SumFunction(replica[t]) + stranded[t]
                    + Lands(m, t) + Travels(m, t)
           /\ Delivered(t)' + SumFunction(claimable'[t])
                <= Delivered(t) + SumFunction(claimable[t]) + Lands(m, t)
  PROVE  Money'
<1>1. Traffic /\ m \in Message /\ IsFiniteSet(messages)
  BY DEF MoneyInv, Money, FundingInv, Traffic
<1>2. \A o \in messages' : Shaped(o)
  BY DEF MoneyInv, Money, Reply
<1>3. ASSUME NEW t \in Tokens, NEW c \in Chains
      PROVE  /\ IsFiniteSet(messages')
             /\ custody'[t] + SumFunction(transit'[t])
                  = Delivered(t)' + SumFunction(claimable'[t]) + Landed(t)'
                      + Travelling(t)' + SumFunction(replica'[t]) + stranded'[t]
             /\ Delivered(t)' + SumFunction(claimable'[t]) + Landed(t)' <= custody'[t]
             /\ OnChain(t, c)' <= transit'[t][c]
  <2>1. /\ IsFiniteSet(messages')
        /\ Landed(t)' = Landed(t) - Lands(m, t)
        /\ Travelling(t)' = Travelling(t) - Travels(m, t)
        /\ OnChain(t, c)' = OnChain(t, c) - TravelsOn(m, t, c)
    BY <1>1, EndTotals
  <2>2. Lands(m, t) \in Nat /\ Travels(m, t) \in Nat /\ TravelsOn(m, t, c) \in Nat
    BY <1>1, PartTypes
  <2>3. transit' = transit /\ custody' = custody
    BY DEF balances
  <2>4. /\ custody[t] \in Nat /\ SumFunction(transit[t]) \in Nat
        /\ Delivered(t) \in Nat /\ SumFunction(claimable[t]) \in Nat /\ Landed(t) \in Nat
        /\ Travelling(t) \in Nat /\ SumFunction(replica[t]) \in Nat /\ stranded[t] \in Nat
        /\ custody[t] + SumFunction(transit[t])
             = Delivered(t) + SumFunction(claimable[t]) + Landed(t)
                 + Travelling(t) + SumFunction(replica[t]) + stranded[t]
        /\ Delivered(t) + SumFunction(claimable[t]) + Landed(t) <= custody[t]
    BY MoneyTerms
  <2>5. OnChain(t, c) \in Nat /\ transit[t][c] \in Nat /\ OnChain(t, c) <= transit[t][c]
    BY MoneyTerms
  <2>6. OnChain(t, c)' <= transit'[t][c]
    BY <2>1, <2>2, <2>3, <2>5
  <2>9. /\ Delivered(t)' \in Nat /\ SumFunction(claimable'[t]) \in Nat
        /\ SumFunction(replica'[t]) \in Nat /\ stranded'[t] \in Nat
        /\ Delivered(t)' + SumFunction(claimable'[t]) + SumFunction(replica'[t]) + stranded'[t]
             = Delivered(t) + SumFunction(claimable[t]) + SumFunction(replica[t]) + stranded[t]
                 + Lands(m, t) + Travels(m, t)
        /\ Delivered(t)' + SumFunction(claimable'[t])
             <= Delivered(t) + SumFunction(claimable[t]) + Lands(m, t)
    OBVIOUS
  <2>7. custody'[t] + SumFunction(transit'[t])
          = Delivered(t)' + SumFunction(claimable'[t]) + Landed(t)'
              + Travelling(t)' + SumFunction(replica'[t]) + stranded'[t]
    BY <2>1, <2>2, <2>3, <2>4, <2>9
  <2>8. Delivered(t)' + SumFunction(claimable'[t]) + Landed(t)' <= custody'[t]
    BY <2>1, <2>2, <2>3, <2>4, <2>9
  <2> QED BY <2>1, <2>6, <2>7, <2>8
<1>4. IsFiniteSet(messages')
  BY <1>1, EndTotals, TokenNames
<1>5. Chains # {}
  BY <1>1, LegTypes
<1> QED BY <1>2, <1>3, <1>4, <1>5, MoneyShown

\* A refund is of the leg before, and of no other.
LEMMA RefundMoves ==
  ASSUME Traffic, NEW m \in messages, NEW book \in [Tokens -> [Accounts -> Nat]],
         Prev(m) # None, NEW t \in Tokens
  PROVE  SumFunction(Give(book, Prev(m), m.request.from, Amount(m.request, Prev(m)))[t])
           = SumFunction(book[t]) + (IF t = Prev(m) THEN Amount(m.request, t) ELSE 0)
<1> DEFINE leg == Prev(m)
           a == m.request.from
           n == Amount(m.request, leg)
<1>1. leg \in Tokens /\ a \in Accounts /\ n \in Nat /\ n \in Int
  BY LegTypes
<1>2. t = leg => Amount(m.request, t) = n
  OBVIOUS
<1> HIDE DEF leg, a, n
<1>3. book[leg][a] + n \in Nat
  BY <1>1
<1>4. SumFunction(Give(book, leg, a, n)[t]) = SumFunction(book[t]) + (IF t = leg THEN n ELSE 0)
  BY <1>1, <1>3, FundingAssumption, BookMoves
<1>5. (IF t = leg THEN n ELSE 0) = IF t = leg THEN Amount(m.request, t) ELSE 0
  BY <1>2
<1> QED BY <1>4, <1>5 DEF leg, a, n

\* The amount of the present leg counts as lost.
LEMMA LoseMoves ==
  ASSUME Traffic, Books, NEW m \in messages, NEW t \in Tokens
  PROVE  Lose(m)[t] = stranded[t] + (IF t = m.token THEN Amount(m.request, t) ELSE 0)
<1>1. stranded[t] \in Nat
  BY DEF Books
<1> QED BY <1>1 DEF Books, Lose

\* Totals of the next state are natural numbers.
LEMMA NextTotals ==
  ASSUME FundingInv', NEW t \in Tokens
  PROVE  /\ SumFunction(claimable'[t]) \in Nat /\ SumFunction(replica'[t]) \in Nat
         /\ stranded'[t] \in Nat
<1>1. /\ claimable' \in [Tokens -> [Accounts -> Nat]] /\ replica' \in [Tokens -> [Accounts -> Nat]]
      /\ stranded'[t] \in Nat
  BY DEF FundingInv, Books
<1> QED BY <1>1, FundingAssumption, BookTotal

LEMMA FundResultErrMoney ==
  ASSUME MoneyInv, NEW m \in messages, FundResultErr(m)
  PROVE  Money'
<1>1. Traffic /\ Books /\ m \in Message /\ Shaped(m)
  BY DEF MoneyInv, Money, FundingInv, Traffic
<1>2. /\ m.kind = "FundResult" /\ ~m.ok /\ Reply(m, {})
      /\ UNCHANGED <<balances, claimable, delivered, stranded>>
      /\ replica' = IF Prev(m) = None THEN replica
                    ELSE Give(replica, Prev(m), m.request.from, Amount(m.request, Prev(m)))
  BY DEF FundResultErr, Receive, Fail
<1>3. Prev(m) = m.prev
  BY <1>1, TokenNames DEF Shaped, Prev
<1>4. Settled(m) = (IF Prev(m) = None THEN {} ELSE {Prev(m)}) /\ OnTheWay(m) = {}
  BY <1>2, <1>3 DEF Settled, OnTheWay
<1>5. FundingInv'
  BY FundResultErrKeeps DEF MoneyInv
<1>6. ASSUME NEW t \in Tokens
      PROVE  /\ Delivered(t)' \in Nat /\ SumFunction(claimable'[t]) \in Nat
             /\ SumFunction(replica'[t]) \in Nat /\ stranded'[t] \in Nat
             /\ Delivered(t)' + SumFunction(claimable'[t]) + SumFunction(replica'[t]) + stranded'[t]
                  = Delivered(t) + SumFunction(claimable[t]) + SumFunction(replica[t]) + stranded[t]
                      + Lands(m, t) + Travels(m, t)
             /\ Delivered(t)' + SumFunction(claimable'[t])
                  <= Delivered(t) + SumFunction(claimable[t]) + Lands(m, t)
  <2> DEFINE d == IF t = Prev(m) THEN Amount(m.request, t) ELSE 0
  <2>1. d \in Nat
    BY <1>1, PartTypes
  <2>2. Lands(m, t) = d /\ Travels(m, t) = 0
    BY <1>4, TokenNames DEF Lands, Travels
  <2>3. /\ Delivered(t) \in Nat /\ SumFunction(claimable[t]) \in Nat
        /\ SumFunction(replica[t]) \in Nat /\ stranded[t] \in Nat
    BY MoneyTerms
  <2>4. SumFunction(replica'[t]) = SumFunction(replica[t]) + d
    <3>1. CASE Prev(m) = None
      <4>1. d = 0 /\ replica' = replica
        BY <1>2, <3>1, TokenNames
      <4> HIDE DEF d
      <4> QED BY <2>3, <4>1
    <3>2. CASE Prev(m) # None
      <4>1. replica \in [Tokens -> [Accounts -> Nat]]
        BY <1>1 DEF Books
      <4> QED BY <1>1, <1>2, <3>2, <4>1, RefundMoves
    <3> QED BY <3>1, <3>2
  <2> HIDE DEF d
  <2>5. Delivered(t)' = Delivered(t) /\ claimable' = claimable /\ stranded' = stranded
    BY <1>2 DEF Delivered
  <2> QED BY <1>5, <2>1, <2>2, <2>3, <2>4, <2>5, NextTotals
<1>7. UNCHANGED balances
  BY <1>2
<1> QED BY <1>2, <1>6, <1>7, EndMoney

LEMMA AbortNextLegMoney ==
  ASSUME MoneyInv, NEW m \in messages, AbortNextLeg(m)
  PROVE  Money'
<1>1. Traffic /\ Books /\ m \in Message /\ Shaped(m)
  BY DEF MoneyInv, Money, FundingInv, Traffic
<1>2. /\ m.kind = "Receipt" /\ m.ok /\ m.request.type = "AddLiquidity" /\ m.next # None
      /\ Reply(m, {}) /\ UNCHANGED <<balances, credits, delivered>> /\ stranded' = Lose(m)
  BY DEF AbortNextLeg, Successor, Receive, Fail
<1>3. Settled(m) = {m.token} /\ OnTheWay(m) = {}
  BY <1>1, <1>2 DEF Shaped, Settled, OnTheWay
<1>4. FundingInv'
  BY AbortNextLegKeeps DEF MoneyInv
<1>5. ASSUME NEW t \in Tokens
      PROVE  /\ Delivered(t)' \in Nat /\ SumFunction(claimable'[t]) \in Nat
             /\ SumFunction(replica'[t]) \in Nat /\ stranded'[t] \in Nat
             /\ Delivered(t)' + SumFunction(claimable'[t]) + SumFunction(replica'[t]) + stranded'[t]
                  = Delivered(t) + SumFunction(claimable[t]) + SumFunction(replica[t]) + stranded[t]
                      + Lands(m, t) + Travels(m, t)
             /\ Delivered(t)' + SumFunction(claimable'[t])
                  <= Delivered(t) + SumFunction(claimable[t]) + Lands(m, t)
  <2> DEFINE d == IF t = m.token THEN Amount(m.request, t) ELSE 0
  <2>1. d \in Nat
    BY <1>1, PartTypes
  <2>2. Lands(m, t) = d /\ Travels(m, t) = 0
    BY <1>3 DEF Lands, Travels
  <2>3. stranded'[t] = stranded[t] + d
    BY <1>1, <1>2, LoseMoves
  <2> HIDE DEF d
  <2>4. /\ Delivered(t) \in Nat /\ SumFunction(claimable[t]) \in Nat
        /\ SumFunction(replica[t]) \in Nat /\ stranded[t] \in Nat
    BY MoneyTerms
  <2>5. Delivered(t)' = Delivered(t) /\ claimable' = claimable /\ replica' = replica
    BY <1>2 DEF Delivered, credits
  <2> QED BY <1>4, <2>1, <2>2, <2>3, <2>4, <2>5, NextTotals
<1>6. UNCHANGED balances
  BY <1>2
<1> QED BY <1>2, <1>5, <1>6, EndMoney

LEMMA SettleErrMoney ==
  ASSUME MoneyInv, NEW m \in messages, SettleErr(m)
  PROVE  Money'
<1>1. Traffic /\ Books /\ m \in Message /\ Shaped(m)
  BY DEF MoneyInv, Money, FundingInv, Traffic
<1>2. /\ m.kind = "Settlement" /\ ~m.ok /\ Reply(m, {})
      /\ UNCHANGED <<balances, replica, delivered>> /\ stranded' = Lose(m)
      /\ claimable' = IF Prev(m) = None THEN claimable
                      ELSE Give(claimable, Prev(m), m.request.from, Amount(m.request, Prev(m)))
  BY DEF SettleErr, Receive, Fail
<1>3. Prev(m) = m.prev
  BY <1>1, TokenNames DEF Shaped, Prev
<1>4. Settled(m) = (IF Prev(m) = None THEN {} ELSE {Prev(m)}) /\ OnTheWay(m) = {m.token}
  BY <1>2, <1>3 DEF Settled, OnTheWay
<1>5. FundingInv'
  BY SettleErrKeeps DEF MoneyInv
<1>6. ASSUME NEW t \in Tokens
      PROVE  /\ Delivered(t)' \in Nat /\ SumFunction(claimable'[t]) \in Nat
             /\ SumFunction(replica'[t]) \in Nat /\ stranded'[t] \in Nat
             /\ Delivered(t)' + SumFunction(claimable'[t]) + SumFunction(replica'[t]) + stranded'[t]
                  = Delivered(t) + SumFunction(claimable[t]) + SumFunction(replica[t]) + stranded[t]
                      + Lands(m, t) + Travels(m, t)
             /\ Delivered(t)' + SumFunction(claimable'[t])
                  <= Delivered(t) + SumFunction(claimable[t]) + Lands(m, t)
  <2> DEFINE d == IF t = Prev(m) THEN Amount(m.request, t) ELSE 0
             e == IF t = m.token THEN Amount(m.request, t) ELSE 0
  <2>1. d \in Nat /\ e \in Nat
    BY <1>1, PartTypes
  <2>2. Lands(m, t) = d /\ Travels(m, t) = e
    BY <1>4, TokenNames DEF Lands, Travels
  <2>3. /\ Delivered(t) \in Nat /\ SumFunction(claimable[t]) \in Nat
        /\ SumFunction(replica[t]) \in Nat /\ stranded[t] \in Nat
    BY MoneyTerms
  <2>4. stranded'[t] = stranded[t] + e
    BY <1>1, <1>2, LoseMoves
  <2>5. SumFunction(claimable'[t]) = SumFunction(claimable[t]) + d
    <3>1. CASE Prev(m) = None
      <4>1. d = 0 /\ claimable' = claimable
        BY <1>2, <3>1, TokenNames
      <4> HIDE DEF d
      <4> QED BY <2>3, <4>1
    <3>2. CASE Prev(m) # None
      <4>1. claimable \in [Tokens -> [Accounts -> Nat]]
        BY <1>1 DEF Books
      <4> QED BY <1>1, <1>2, <3>2, <4>1, RefundMoves
    <3> QED BY <3>1, <3>2
  <2> HIDE DEF d, e
  <2>6. Delivered(t)' = Delivered(t) /\ replica' = replica
    BY <1>2 DEF Delivered
  <2> QED BY <1>5, <2>1, <2>2, <2>3, <2>4, <2>5, <2>6, NextTotals
<1>7. UNCHANGED balances
  BY <1>2
<1> QED BY <1>2, <1>6, <1>7, EndMoney

LEMMA SettleOkMoney ==
  ASSUME MoneyInv, NEW m \in messages, SettleOk(m)
  PROVE  Money'
<1>1. Traffic /\ Books /\ m \in Message /\ Shaped(m) /\ WellFormed(m) /\ m.request \in FundRequest
  <2>1. Traffic /\ Books
    BY DEF MoneyInv, FundingInv
  <2>2. m \in Message /\ WellFormed(m) /\ m.request \in FundRequest
    BY <2>1, LegTypes
  <2> QED BY <2>1, <2>2 DEF MoneyInv, Money
<1>2. /\ m.kind = "Settlement" /\ m.ok /\ Reply(m, {})
      /\ UNCHANGED <<balances, credits, stranded>>
  BY DEF SettleOk, Receive, history
<1>3. m.next = None /\ delivered' = delivered \cup {m.request}
  BY <1>1, <1>2 DEF SettleOk, WellFormed
<1>4. m.request \notin delivered
  BY <1>1 DEF Traffic, OneFate
<1>5. FundingInv'
  BY SettleOkKeeps DEF MoneyInv
<1>6. ASSUME NEW t \in Tokens
      PROVE  /\ Delivered(t)' \in Nat /\ SumFunction(claimable'[t]) \in Nat
             /\ SumFunction(replica'[t]) \in Nat /\ stranded'[t] \in Nat
             /\ Delivered(t)' + SumFunction(claimable'[t]) + SumFunction(replica'[t]) + stranded'[t]
                  = Delivered(t) + SumFunction(claimable[t]) + SumFunction(replica[t]) + stranded[t]
                      + Lands(m, t) + Travels(m, t)
             /\ Delivered(t)' + SumFunction(claimable'[t])
                  <= Delivered(t) + SumFunction(claimable[t]) + Lands(m, t)
  <2>1. Amount(m.request, t) \in Nat
    BY <1>1, PartTypes
  <2>2. Lands(m, t) = Amount(m.request, t)
    <3>1. CASE m.request.type = "AddLiquidity"
      BY <1>2, <3>1 DEF Settled, Lands
    <3>2. CASE m.request.type # "AddLiquidity"
      <4>1. m.request.type = "Swap" /\ m.prev = None
            /\ \A u \in Tokens \ {m.token} : Amount(m.request, u) = 0
        BY <1>1, <3>2 DEF Shaped
      <4>2. Settled(m) = {m.token}
        BY <1>2, <3>2, <4>1 DEF Settled
      <4> QED BY <4>1, <4>2 DEF Lands
    <3> QED BY <3>1, <3>2
  <2>3. Travels(m, t) = 0
    BY <1>2 DEF Travels, OnTheWay
  <2>4. Delivered(t)' = Delivered(t) + Amount(m.request, t)
    BY <1>1, <1>3, <1>4, DeliveredMoves
  <2>5. /\ Delivered(t) \in Nat /\ SumFunction(claimable[t]) \in Nat
        /\ SumFunction(replica[t]) \in Nat /\ stranded[t] \in Nat
    BY MoneyTerms
  <2>6. claimable' = claimable /\ replica' = replica /\ stranded' = stranded
    BY <1>2 DEF credits
  <2> QED BY <2>1, <2>2, <2>3, <2>4, <2>5, <2>6
<1>7. UNCHANGED balances
  BY <1>2
<1> QED BY <1>2, <1>6, <1>7, EndMoney

\* The native leg of a deposit is paid from the user's chain to the creator chain.
LEMMA PayNextLegMoney ==
  ASSUME MoneyInv, NEW m \in messages, PayNextLeg(m)
  PROVE  Money'
<1> DEFINE n == Amount(m.request, Token1)
           m2 == FinalSettlement(m)
<1>1. Traffic /\ Books /\ m \in Message /\ Shaped(m) /\ IsFiniteSet(messages)
  BY DEF MoneyInv, Money, FundingInv, Traffic
<1>2. /\ m.kind = "Receipt" /\ m.ok /\ m.request.type = "AddLiquidity" /\ m.next # None
      /\ TransferNative(m.request.from, Amount(m.request, m.next))
      /\ Reply(m, {m2}) /\ UNCHANGED <<transit, credits, delivered, stranded>>
  BY DEF PayNextLeg, Successor, Receive, history
<1>3. m.prev = None /\ m.token = Token0 /\ m.next = Token1
  BY <1>1, <1>2 DEF Shaped
<1>4. /\ m2 \in Message /\ m2.request = m.request /\ m2.prev = None /\ m2.token = Token0
      /\ m2.next = None /\ m2.kind = "Settlement" /\ m2.ok
  BY <1>1, <1>3 DEF FinalSettlement, Answer, Message
<1>5. custody' = [custody EXCEPT ![Token1] = @ + n]
  BY <1>2, <1>3 DEF TransferNative
<1>6. n \in Nat
  BY <1>1, TokenNames, PartTypes
<1> HIDE DEF m2, n
<1>7. Shaped(m2)
  BY <1>2, <1>4 DEF Shaped
<1>8. /\ Settled(m) = {Token0} /\ Settled(m2) = Tokens
      /\ OnTheWay(m) = {} /\ OnTheWay(m2) = {}
  BY <1>2, <1>3, <1>4, TokenNames DEF Settled, OnTheWay, Tokens
<1>9. \A o \in messages' : Shaped(o)
  BY <1>2, <1>7 DEF MoneyInv, Money, Reply
<1>10. ASSUME NEW t \in Tokens, NEW c \in Chains
      PROVE  /\ IsFiniteSet(messages')
             /\ custody'[t] + SumFunction(transit'[t])
                  = Delivered(t)' + SumFunction(claimable'[t]) + Landed(t)'
                      + Travelling(t)' + SumFunction(replica'[t]) + stranded'[t]
             /\ Delivered(t)' + SumFunction(claimable'[t]) + Landed(t)' <= custody'[t]
             /\ OnChain(t, c)' <= transit'[t][c]
  <2> DEFINE d == IF t = Token1 THEN n ELSE 0
  <2>1. /\ IsFiniteSet(messages')
        /\ Landed(t)' = Landed(t) - Lands(m, t) + Lands(m2, t)
        /\ Travelling(t)' = Travelling(t) - Travels(m, t) + Travels(m2, t)
        /\ OnChain(t, c)' = OnChain(t, c) - TravelsOn(m, t, c) + TravelsOn(m2, t, c)
    BY <1>1, <1>2, <1>4, ReplyTotals
  <2>2. Lands(m, t) \in Nat /\ d \in Nat
    BY <1>1, <1>6, PartTypes
  <2>3. Lands(m2, t) = Lands(m, t) + d
    <3>1. CASE t = Token0
      <4>1. Lands(m2, t) = Lands(m, t) /\ d = 0
        BY <1>4, <1>8, <3>1, TokenNames DEF Lands
      <4> HIDE DEF d
      <4> QED BY <2>2, <4>1
    <3>2. CASE t = Token1
      <4>1. Lands(m2, t) = n /\ Lands(m, t) = 0 /\ d = n
        BY <1>4, <1>8, <3>2, TokenNames DEF Lands, n
      <4> HIDE DEF d
      <4> QED BY <1>6, <4>1
    <3> QED BY <3>1, <3>2, TokenNames
  <2>4. /\ Travels(m, t) = 0 /\ Travels(m2, t) = 0
        /\ TravelsOn(m, t, c) = 0 /\ TravelsOn(m2, t, c) = 0
    BY <1>8 DEF Travels, TravelsOn
  <2>5. custody'[t] = custody[t] + d
    BY <1>1, <1>5, <1>6 DEF Books
  <2> HIDE DEF d
  <2>6. /\ transit' = transit /\ claimable' = claimable /\ replica' = replica
        /\ stranded' = stranded /\ Delivered(t)' = Delivered(t)
    BY <1>2 DEF credits, Delivered
  <2>7. /\ custody[t] \in Nat /\ SumFunction(transit[t]) \in Nat
        /\ Delivered(t) \in Nat /\ SumFunction(claimable[t]) \in Nat /\ Landed(t) \in Nat
        /\ Travelling(t) \in Nat /\ SumFunction(replica[t]) \in Nat /\ stranded[t] \in Nat
        /\ custody[t] + SumFunction(transit[t])
             = Delivered(t) + SumFunction(claimable[t]) + Landed(t)
                 + Travelling(t) + SumFunction(replica[t]) + stranded[t]
        /\ Delivered(t) + SumFunction(claimable[t]) + Landed(t) <= custody[t]
    BY MoneyTerms
  <2>8. OnChain(t, c) \in Nat /\ transit[t][c] \in Nat /\ OnChain(t, c) <= transit[t][c]
    BY MoneyTerms
  <2>9. OnChain(t, c)' <= transit'[t][c]
    BY <2>1, <2>4, <2>6, <2>8
  <2>10. Landed(t)' = Landed(t) + d /\ Travelling(t)' = Travelling(t)
    BY <2>1, <2>2, <2>3, <2>4, <2>7
  <2>11. custody'[t] + SumFunction(transit'[t])
           = Delivered(t)' + SumFunction(claimable'[t]) + Landed(t)'
               + Travelling(t)' + SumFunction(replica'[t]) + stranded'[t]
    <3>1. /\ SumFunction(transit'[t]) = SumFunction(transit[t])
          /\ SumFunction(claimable'[t]) = SumFunction(claimable[t])
          /\ SumFunction(replica'[t]) = SumFunction(replica[t]) /\ stranded'[t] = stranded[t]
          /\ Delivered(t)' = Delivered(t)
      BY <2>6
    <3>2. d \in Nat
      BY <2>2
    <3> QED BY <3>1, <3>2, <2>5, <2>7, <2>10
  <2>12. Delivered(t)' + SumFunction(claimable'[t]) + Landed(t)' <= custody'[t]
    BY <2>2, <2>5, <2>6, <2>7, <2>10
  <2> QED BY <2>1, <2>9, <2>11, <2>12
<1>11. Chains # {}
  BY <1>1, LegTypes
<1>12. IsFiniteSet(messages')
  BY <1>10, <1>11, TokenNames
<1> QED BY <1>9, <1>10, <1>11, <1>12, MoneyShown

\* A request of which nothing has been paid yet sets out.
LEMMA AskMoney ==
  ASSUME MoneyInv, NEW m \in Message, Shaped(m), m.kind = "RequestFund", m.prev = None,
         m.request \notin issued, messages' = messages \cup {m},
         UNCHANGED <<balances, credits, delivered, stranded>>
  PROVE  Money'
<1>1. Traffic /\ IsFiniteSet(messages) /\ m \notin messages
  BY DEF MoneyInv, Money, FundingInv, Traffic, Carried
<1>2. \A o \in messages' : Shaped(o)
  BY DEF MoneyInv, Money
<1>3. \A t \in Tokens : Lands(m, t) = 0 /\ Travels(m, t) = 0
  BY DEF Lands, Travels, Settled, OnTheWay
<1>4. ASSUME NEW t \in Tokens, NEW c
      PROVE  /\ IsFiniteSet(messages') /\ Landed(t)' = Landed(t)
             /\ Travelling(t)' = Travelling(t) /\ OnChain(t, c)' = OnChain(t, c)
  BY <1>1, <1>3, IssueTotals
<1>5. /\ UNCHANGED <<transit, custody, claimable, replica, stranded>>
      /\ \A t \in Tokens : Delivered(t)' = Delivered(t)
  BY DEF balances, credits, Delivered
<1>6. IsFiniteSet(messages')
  BY <1>4, TokenNames
<1> QED BY <1>2, <1>4, <1>5, <1>6, MoneyTerms, MoneyShown

\* No request so far has the identity that the next one gets.
LEMMA NextIsFresh ==
  ASSUME Traffic, NEW r, r.id = Cardinality(issued)
  PROVE  r \notin issued
<1>1. IsFiniteSet(issued) /\ Cardinality(issued) \in Nat
  BY FS_CardinalityType DEF Traffic, Fresh
<1>2. \A q \in issued : q.id < Cardinality(issued)
  BY DEF Traffic, Fresh
<1> QED BY <1>1, <1>2

LEMMA SwapMemeMoney ==
  ASSUME MoneyInv, NEW a \in Accounts, NEW n \in Amounts, NEW t \in Tokens,
         SwapMeme(a, t, n)
  PROVE  Money'
<1> DEFINE r == SwapRequest(a, t, n)
           m == Ask(r, None, t, None)
<1>1. Cardinality(issued) \in Nat /\ n \in Nat /\ Traffic
  BY FS_CardinalityType, FundingAssumption DEF MoneyInv, FundingInv, Traffic, Fresh
<1>2. r \in FundRequest /\ r.id = Cardinality(issued) /\ r.type = "Swap"
      /\ \A u \in Tokens \ {t} : Amount(r, u) = 0
  BY <1>1, TokenNames DEF SwapRequest, FundRequest, Amount
<1>3. messages' = messages \cup {m} /\ UNCHANGED <<balances, credits, delivered, stranded>>
  BY DEF SwapMeme, history
<1> HIDE DEF r
<1>4. /\ m \in Message /\ m.request = r /\ m.kind = "RequestFund" /\ m.prev = None
      /\ m.token = t /\ m.next = None
  BY <1>2 DEF Ask, Message
<1> HIDE DEF m
<1>5. Shaped(m)
  BY <1>2, <1>4 DEF Shaped
<1>6. m.request \notin issued
  BY <1>1, <1>2, <1>4, NextIsFresh
<1> QED BY <1>3, <1>4, <1>5, <1>6, AskMoney

LEMMA AddLiquidityMoney ==
  ASSUME MoneyInv, NEW a \in Accounts, NEW n0 \in Amounts, NEW n1 \in Amounts,
         AddLiquidity(a, n0, n1)
  PROVE  Money'
<1> DEFINE r == [id |-> Cardinality(issued), type |-> "AddLiquidity", from |-> a,
                 in0 |-> n0, in1 |-> n1]
           m == Ask(r, None, Token0, Token1)
<1>1. Cardinality(issued) \in Nat /\ n0 \in Nat /\ n1 \in Nat /\ Traffic
  BY FS_CardinalityType, FundingAssumption DEF MoneyInv, FundingInv, Traffic, Fresh
<1>2. r \in FundRequest /\ r.id = Cardinality(issued) /\ r.type = "AddLiquidity"
  BY <1>1 DEF FundRequest
<1>3. messages' = messages \cup {m} /\ UNCHANGED <<balances, credits, delivered, stranded>>
  BY DEF AddLiquidity, history
<1> HIDE DEF r
<1>4. /\ m \in Message /\ m.request = r /\ m.kind = "RequestFund" /\ m.prev = None
      /\ m.token = Token0 /\ m.next = Token1
  BY <1>2, TokenNames DEF Ask, Message
<1> HIDE DEF m
<1>5. Shaped(m)
  BY <1>2, <1>4 DEF Shaped
<1>6. m.request \notin issued
  BY <1>1, <1>2, <1>4, NextIsFresh
<1> QED BY <1>3, <1>4, <1>5, <1>6, AskMoney

\* A native swap is paid for and delivered at once.
LEMMA SwapNativeMoney ==
  ASSUME MoneyInv, NEW a \in Accounts, NEW n \in Amounts, SwapNative(a, n)
  PROVE  Money'
<1> DEFINE r == SwapRequest(a, Token1, n)
<1>1. Cardinality(issued) \in Nat /\ n \in Nat /\ Traffic /\ Books
  BY FS_CardinalityType, FundingAssumption DEF MoneyInv, FundingInv, Traffic, Fresh
<1>2. r \in FundRequest /\ r.id = Cardinality(issued)
      /\ Amount(r, Token0) = 0 /\ Amount(r, Token1) = n
  BY <1>1, TokenNames DEF SwapRequest, FundRequest, Amount
<1>3. /\ delivered' = delivered \cup {r} /\ custody' = [custody EXCEPT ![Token1] = @ + n]
      /\ UNCHANGED <<transit, credits, messages, stranded>>
  BY DEF SwapNative, TransferNative, history
<1> HIDE DEF r
<1>4. r \notin delivered
  BY <1>1, <1>2, NextIsFresh DEF Traffic
<1>5. ASSUME NEW t \in Tokens
      PROVE  /\ custody'[t] + SumFunction(transit'[t])
                  = Delivered(t)' + SumFunction(claimable'[t]) + Landed(t)'
                      + Travelling(t)' + SumFunction(replica'[t]) + stranded'[t]
             /\ Delivered(t)' + SumFunction(claimable'[t]) + Landed(t)' <= custody'[t]
  <2>1. Delivered(t)' = Delivered(t) + Amount(r, t)
    BY <1>1, <1>2, <1>3, <1>4, DeliveredMoves
  <2>2. custody'[t] = custody[t] + Amount(r, t) /\ Amount(r, t) \in Nat
    <3>1. custody \in [Tokens -> Nat]
      BY <1>1 DEF Books
    <3> QED BY <1>1, <1>2, <1>3, <3>1, TokenNames
  <2>3. /\ transit' = transit /\ claimable' = claimable /\ replica' = replica
        /\ stranded' = stranded /\ Landed(t)' = Landed(t) /\ Travelling(t)' = Travelling(t)
    BY <1>3 DEF credits, Landed, Travelling
  <2>4. /\ custody[t] \in Nat /\ SumFunction(transit[t]) \in Nat
        /\ Delivered(t) \in Nat /\ SumFunction(claimable[t]) \in Nat /\ Landed(t) \in Nat
        /\ Travelling(t) \in Nat /\ SumFunction(replica[t]) \in Nat /\ stranded[t] \in Nat
        /\ custody[t] + SumFunction(transit[t])
             = Delivered(t) + SumFunction(claimable[t]) + Landed(t)
                 + Travelling(t) + SumFunction(replica[t]) + stranded[t]
        /\ Delivered(t) + SumFunction(claimable[t]) + Landed(t) <= custody[t]
    BY MoneyTerms
  <2> QED BY <2>1, <2>2, <2>3, <2>4
<1>6. \A t \in Tokens, c \in Chains : OnChain(t, c)' <= transit'[t][c]
  BY <1>3 DEF OnChain, MoneyInv, Money
<1>7. IsFiniteSet(messages') /\ \A o \in messages' : Shaped(o)
  BY <1>3 DEF MoneyInv, Money
<1> QED BY <1>5, <1>6, <1>7, MoneyShown

----------------------------------------------------------------------------
(* The money: every behaviour                                              *)

LEMMA MoneyInit == Init => Money
<1> SUFFICES ASSUME Init PROVE Money
  OBVIOUS
<1>1. \A t \in Tokens : /\ transit[t] \in [Chains -> {0}] /\ claimable[t] \in [Accounts -> {0}]
                        /\ replica[t] \in [Accounts -> {0}]
                        /\ custody[t] = 0 /\ stranded[t] = 0
  BY DEF Init
<1>2. \A t \in Tokens : /\ SumFunction(transit[t]) = 0 /\ SumFunction(claimable[t]) = 0
                        /\ SumFunction(replica[t]) = 0
  BY <1>1, SumZero, FundingAssumption
<1>3. messages = {} /\ delivered = {}
  BY DEF Init
<1>4. ASSUME NEW t \in Tokens
      PROVE  Delivered(t) = 0 /\ Landed(t) = 0 /\ Travelling(t) = 0
  <2>1. /\ DOMAIN [r \in delivered |-> Amount(r, t)] = {}
        /\ DOMAIN [m \in messages |-> Lands(m, t)] = {}
        /\ DOMAIN [m \in messages |-> Travels(m, t)] = {}
    BY <1>3
  <2> QED BY <2>1, SumEmpty DEF Delivered, Landed, Travelling
<1>5. ASSUME NEW t \in Tokens, NEW c \in Chains PROVE OnChain(t, c) = 0 /\ transit[t][c] = 0
  <2>1. DOMAIN [m \in messages |-> TravelsOn(m, t, c)] = {}
    BY <1>3
  <2> QED BY <1>1, <2>1, SumEmpty DEF OnChain
<1>6. IsFiniteSet(messages)
  BY <1>3, FS_EmptySet
<1>7. ValueAccounted /\ SettlementsFunded
  BY <1>1, <1>2, <1>4 DEF ValueAccounted, SettlementsFunded, Due
<1> QED BY <1>3, <1>5, <1>6, <1>7 DEF Money

LEMMA MoneyNext == MoneyInv /\ [Next]_vars => Money'
<1> SUFFICES ASSUME MoneyInv, [Next]_vars PROVE Money'
  OBVIOUS
<1>1. CASE Operate
  BY <1>1, SwapNativeMoney, SwapMemeMoney, AddLiquidityMoney DEF Operate
<1>2. ASSUME NEW m \in messages, Handle(m) PROVE Money'
  <2>1. CASE RequestFund(m)
    BY <2>1, RequestFundMoney
  <2>2. CASE TransferFromApplication(m)
    BY <2>2, TransferFromApplicationMoney
  <2>3. CASE BounceTransfer(m) \/ FundResultOk(m) \/ ForwardReceipt(m)
    BY <2>3, RelayHandlersMoney
  <2>4. CASE FundResultErr(m)
    BY <2>4, FundResultErrMoney
  <2>5. CASE RequestNextLeg(m)
    BY <2>5, RequestNextLegMoney
  <2>6. CASE PayNextLeg(m)
    BY <2>6, PayNextLegMoney
  <2>7. CASE AbortNextLeg(m)
    BY <2>7, AbortNextLegMoney
  <2>8. CASE SettleErr(m)
    BY <2>8, SettleErrMoney
  <2>9. CASE SettleOk(m)
    BY <2>9, SettleOkMoney
  <2> QED
    BY <1>2, <2>1, <2>2, <2>3, <2>4, <2>5, <2>6, <2>7, <2>8, <2>9 DEF Handle
<1>3. CASE UNCHANGED vars
  <2>1. /\ messages' = messages /\ delivered' = delivered /\ transit' = transit
        /\ custody' = custody /\ claimable' = claimable /\ replica' = replica
        /\ stranded' = stranded
    BY <1>3 DEF vars, balances, credits, history
  <2>2. \A t \in Tokens :
          /\ Delivered(t)' = Delivered(t) /\ Landed(t)' = Landed(t)
          /\ Travelling(t)' = Travelling(t) /\ \A c \in Chains : OnChain(t, c)' = OnChain(t, c)
    BY <2>1 DEF Delivered, Landed, Travelling, OnChain
  <2>3. IsFiniteSet(messages') /\ \A o \in messages' : Shaped(o)
    BY <2>1 DEF MoneyInv, Money
  <2> QED BY <2>1, <2>2, <2>3, MoneyTerms, MoneyShown
<1> QED
  BY <1>1, <1>2, <1>3 DEF Next, Deliver

\* What the pool holds of the requests is what they, their messages and the
\* balances it owes account for, in every reachable state.
THEOREM MoneyInvariant == Spec => []MoneyInv
<1>1. Init => MoneyInv
  BY FundingInit, MoneyInit DEF MoneyInv
<1>2. MoneyInv /\ [Next]_vars => MoneyInv'
  BY FundingNext, MoneyNext DEF MoneyInv
<1> QED
  BY <1>1, <1>2, PTL DEF Spec

\* Nothing that users paid is lost without trace on its way to the pool: it is
\* settled, credited, carried by a message, or counted as credited to nobody.
THEOREM ValueSound == Spec => []ValueAccounted
<1>1. MoneyInv => ValueAccounted
  BY DEF MoneyInv, Money
<1> QED
  BY <1>1, MoneyInvariant, PTL

\* Whatever the creator chain settles or credits is in the pool's own account
\* already: no settlement overtakes the payment it reports.
THEOREM SettlementsSound == Spec => []SettlementsFunded
<1>1. MoneyInv => SettlementsFunded
  BY DEF MoneyInv, Money
<1> QED
  BY <1>1, MoneyInvariant, PTL

\* The second transfer of a leg finds what the first one paid, though all users
\* of a chain share the pool's account there and any hop may fail or bounce.
THEOREM TransfersSound == Spec => []TransferFunded
<1>1. MoneyInv => TransferFunded
  <2> SUFFICES ASSUME MoneyInv, NEW m \in messages, m.kind = "Transfer"
               PROVE  transit[m.token][ChainOf[m.request.from]] >= Amount(m.request, m.token)
    BY DEF TransferFunded
  <2> DEFINE leg == m.token
             c == ChainOf[m.request.from]
             f == [o \in messages |-> TravelsOn(o, leg, c)]
  <2>1. Traffic /\ messages \subseteq Message /\ IsFiniteSet(messages) /\ m \in Message
    BY DEF MoneyInv, Money, FundingInv, Traffic
  <2>2. leg \in Tokens /\ c \in Chains /\ Amount(m.request, leg) \in Nat
    BY <2>1, LegTypes
  <2>3. f[m] = Amount(m.request, leg)
    BY DEF TravelsOn, Travels, OnTheWay
  <2>4. OnChain(leg, c) = SumFunction(f)
    BY DEF OnChain
  <2>5. f \in [messages -> Nat]
    BY <2>1, <2>2, PartTypes
  <2> HIDE DEF f, leg, c
  <2>6. f[m] <= SumFunction(f)
    BY <2>1, <2>5, SumBound
  <2>7. OnChain(leg, c) \in Nat /\ transit[leg][c] \in Nat /\ OnChain(leg, c) <= transit[leg][c]
    BY <2>2, MoneyTerms
  <2>8. transit[leg][c] >= Amount(m.request, leg)
    BY <2>2, <2>3, <2>4, <2>6, <2>7
  <2> QED BY <2>8 DEF leg, c
<1> QED
  BY <1>1, MoneyInvariant, PTL
=============================================================================
