--------------------------- MODULE MarketOutputs ---------------------------
(***************************************************************************)
(* Layer 3 of service/kline: what the derivation of the market writes for  *)
(* a batch of normalized pool messages.                                    *)
(*                                                                         *)
(* A new_transaction message becomes a settled trade or a settled          *)
(* liquidity change.  Claims, their receipts and refunds become deltas of  *)
(* claim balances.  What a swap, an added or a removed liquidity owes its  *)
(* owner is only known from the transaction the pool recorded for it: the  *)
(* message and the transaction are paired by content and by block, in      *)
(* whichever batch the second of the two arrives.                          *)
(*                                                                         *)
(* A transaction is a record [id, kind, from, in0, out0, in1, out1,        *)
(* liquidity]; amounts are integers, and every row has a field id.         *)
(***************************************************************************)
EXTENDS NormalizedFacts, Integers

Pool(e) == <<e.target, e.app>>
MessageType(e) == e.payload.type

-----------------------------------------------------------------------------
(* Settled rows.                                                           *)

IsTrade(t) == t.kind \in {"BuyToken0", "SellToken0"}
IsLiquidity(t) == t.kind \in {"AddLiquidity", "RemoveLiquidity"}

(* Out of the event's payload, with the block and chain that ran it.       *)
ExecutionFact(e) ==
    [tx |-> e.payload.transaction, event |-> e.id, pool |-> Pool(e), block |-> e.block]

TradeRow(f) ==
    [id |-> <<f.event, "trade">>, output |-> "settled_trade", pool |-> f.pool,
     owner |-> f.tx.from, tx |-> f.tx.id, kind |-> f.tx.kind,
     in0 |-> f.tx.in0, out0 |-> f.tx.out0, in1 |-> f.tx.in1, out1 |-> f.tx.out1]

LiquidityRow(f, virtual) ==
    LET added == f.tx.kind = "AddLiquidity" IN
    [id |-> <<f.event, "liquidity">>, output |-> "settled_liquidity_change",
     pool |-> f.pool, owner |-> f.tx.from, tx |-> f.tx.id, kind |-> f.tx.kind,
     liquidity |-> f.tx.liquidity, virtual |-> virtual,
     amount0 |-> IF added THEN f.tx.in0 ELSE f.tx.out0,
     amount1 |-> IF added THEN f.tx.in1 ELSE f.tx.out1]

IsNewTransaction(e) == e.status = "observed" /\ MessageType(e) = "new_transaction"

SettledRows(e, virtual) ==
    IF ~IsNewTransaction(e) THEN {}
    ELSE LET f == ExecutionFact(e) IN
         CASE IsTrade(f.tx) -> {TradeRow(f)}
           [] IsLiquidity(f.tx) -> {LiquidityRow(f, virtual)}
           [] OTHER -> {}

-----------------------------------------------------------------------------
(* Claim balances from one message.                                        *)

Delta(e, balance, direction, token, owner, amount, source) ==
    [id |-> <<e.id, source, balance, direction, token, owner>>, event |-> e.id,
     pool |-> Pool(e), token |-> token, owner |-> owner, balance |-> balance,
     direction |-> direction, amount |-> amount, source |-> source]

Diagnostic(e, type, source) ==
    [id |-> <<e.id, type, source>>, event |-> e.id, pool |-> Pool(e), diagnostic |-> type]

Outputs(deltas, diagnostics) == [deltas |-> deltas, diagnostics |-> diagnostics]
Nothing == Outputs({}, {})

TokenOf(token) == IF token = Absent THEN "native" ELSE token

(* A claim of a fungible token waits for the receipt of its transfer.      *)
Claim(e) ==
    LET m == e.payload
        entry(balance, direction) ==
            Delta(e, balance, direction, TokenOf(m.token), m.origin, m.amount, "claim")
    IN  Outputs({entry("claimable", "debit")}
                \union (IF m.token = Absent THEN {} ELSE {entry("claiming", "credit")}), {})

ClaimTransferReceipt(e) ==
    LET m == e.payload
        entry(balance, direction) ==
            Delta(e, balance, direction, TokenOf(m.token), m.owner, m.amount,
                  "claim_transfer_receipt")
    IN  Outputs({entry("claiming", "debit")}
                \union (IF m.failed THEN {entry("claimable", "credit")} ELSE {}), {})

(* What was funded before the leg that failed.                             *)
PrevCredit(e, prev, source) ==
    IF prev = <<>> THEN Nothing
    ELSE Outputs({Delta(e, "claimable", "credit", TokenOf(prev[1].token), prev[1].from,
                        prev[1].amount, source)}, {})

FundResult(e) ==
    IF e.payload.failed /\ e.payload.fund = "AddLiquidity"
    THEN PrevCredit(e, e.payload.prev, "fund_result") ELSE Nothing

AddLiquidityTransferReceipt(e) ==
    IF e.payload.failed
    THEN PrevCredit(e, e.payload.prev, "add_liquidity_transfer_receipt") ELSE Nothing

SwapTransferReceipt(e) ==
    IF e.payload.failed
    THEN Outputs({}, {Diagnostic(e, "swap_transfer_receipt_failure_has_no_claim_delta",
                                 "swap_transfer_receipt")})
    ELSE Nothing

CorrelationDiagnostic == "claim_delta_requires_new_transaction_correlation"

CorrelationRequired(e) ==
    Outputs({}, {Diagnostic(e, CorrelationDiagnostic, MessageType(e))})

ItemOutputs(e) ==
    CASE MessageType(e) = "claim" -> Claim(e)
      [] MessageType(e) = "claim_transfer_receipt" -> ClaimTransferReceipt(e)
      [] MessageType(e) = "fund_result" -> FundResult(e)
      [] MessageType(e) = "add_liquidity_transfer_receipt" -> AddLiquidityTransferReceipt(e)
      [] MessageType(e) = "swap_transfer_receipt" -> SwapTransferReceipt(e)
      [] MessageType(e) \in {"add_liquidity", "remove_liquidity"} -> CorrelationRequired(e)
      [] OTHER -> Nothing

-----------------------------------------------------------------------------
(* The pairing of a message with the transaction recorded for it.          *)

IsCorrelatable(e) ==
    /\ e.status = "observed"
    /\ MessageType(e) \in {"swap", "add_liquidity", "remove_liquidity"}

OriginMatches(e, n) == e.payload.origin = n.payload.transaction.from

SwapMatches(e, t) ==
    IF e.payload.slot = 0
    THEN t.kind = "SellToken0" /\ e.payload.amount = t.in0
    ELSE t.kind = "BuyToken0" /\ e.payload.amount = t.in1

AcceptedWithin(e, t) == t.in0 <= e.payload.in0 /\ t.in1 <= e.payload.in1

ContentMatches(e, t) ==
    CASE MessageType(e) = "swap" -> SwapMatches(e, t)
      [] MessageType(e) = "add_liquidity" -> t.kind = "AddLiquidity" /\ AcceptedWithin(e, t)
      [] MessageType(e) = "remove_liquidity" ->
            t.kind = "RemoveLiquidity" /\ e.payload.liquidity = t.liquidity

(* Mutant: the sender of the message is not compared.                      *)
MatchesAnyone(e, n) ==
    e.app = n.app /\ n.cert = e.block /\ ContentMatches(e, n.payload.transaction)

Matches(e, n) ==
    /\ e.app = n.app
    /\ n.cert = e.block
    /\ OriginMatches(e, n)
    /\ ContentMatches(e, n.payload.transaction)

(* The index of the transaction that executed the message, against the     *)
(* index of the one that sent the record of it.                            *)
SameExecutionPosition(e, n) == e.position = n.tx

Disambiguated(e, matches) ==
    LET positioned == {n \in matches : SameExecutionPosition(e, n)}
    IN  IF Cardinality(matches) > 1 /\ Cardinality(positioned) = 1
        THEN positioned ELSE matches

SlotToken(tokens, slot) ==
    IF slot = 1 /\ tokens[2] = "TLINERA" THEN "native" ELSE tokens[slot + 1]

CorrelatedDelta(e, token, owner, amount, source) ==
    [Delta(e, "claimable", "credit", token, owner, amount, source)
        EXCEPT !.id = Append(@, amount)]

Correlated == {"correlated_swap_new_transaction", "correlated_add_liquidity_new_transaction",
               "correlated_remove_liquidity_new_transaction"}

SwapOutputs(e, t, tokens) ==
    LET slot == IF t.kind = "BuyToken0" THEN 0 ELSE 1
        amount == IF t.kind = "BuyToken0" THEN t.out0 ELSE t.out1
    IN  IF amount > 0
        THEN {CorrelatedDelta(e, SlotToken(tokens, slot), e.payload.to, amount,
                              "correlated_swap_new_transaction")}
        ELSE {}

(* What the pool did not accept of the two amounts goes back.              *)
AddLiquidityOutputs(e, t, tokens) ==
    LET excess == <<e.payload.in0 - t.in0, e.payload.in1 - t.in1>>
    IN  {CorrelatedDelta(e, SlotToken(tokens, slot), e.payload.origin, excess[slot + 1],
                         "correlated_add_liquidity_new_transaction") :
            slot \in {s \in {0, 1} : excess[s + 1] > 0}}

RemoveLiquidityOutputs(e, t, tokens) ==
    LET out == <<t.out0, t.out1>>
    IN  {CorrelatedDelta(e, SlotToken(tokens, slot), e.payload.to, out[slot + 1],
                         "correlated_remove_liquidity_new_transaction") :
            slot \in {s \in {0, 1} : out[s + 1] > 0}}

PoolTokens(catalog, e) == {<<r.token0, r.token1>> : r \in {c \in catalog : c.id = Pool(e)}}

AmbiguousOutputs(e) ==
    IF MessageType(e) = "swap" THEN Nothing
    ELSE Outputs({}, {Diagnostic(e, "ambiguous_new_transaction_correlation", MessageType(e))})

MissingPool(e) ==
    IF MessageType(e) = "swap" THEN Nothing
    ELSE Outputs({}, {Diagnostic(e, "missing_pool_token_metadata", MessageType(e))})

CorrelatedOutputs(e, n, catalog) ==
    IF PoolTokens(catalog, e) = {} THEN MissingPool(e)
    ELSE LET tokens == CHOOSE t \in PoolTokens(catalog, e) : TRUE
             t == n.payload.transaction
         IN  Outputs(CASE MessageType(e) = "swap" -> SwapOutputs(e, t, tokens)
                       [] MessageType(e) = "add_liquidity" -> AddLiquidityOutputs(e, t, tokens)
                       [] MessageType(e) = "remove_liquidity" ->
                            RemoveLiquidityOutputs(e, t, tokens), {})

(* Mutant: only the messages of the batch itself.                          *)
MessagesOfBatch(events, normalized) == {e \in events : IsCorrelatable(e)}

(* What the repository adds to the two sides of the pairing: for the       *)
(* transactions of the batch, the messages of the block that sent them;    *)
(* for its messages, the transactions sent by their block.                 *)
MessagesFor(events, normalized) ==
    {e \in normalized : IsCorrelatable(e) /\ \E n \in events :
        IsNewTransaction(n) /\ n.app = e.app /\ n.cert = e.block}
TransactionsFor(events, normalized) ==
    {n \in normalized : IsNewTransaction(n) /\ \E e \in events :
        IsCorrelatable(e) /\ e.app = n.app /\ n.cert = e.block}

OutputsOfPairing(e, matches, catalog) ==
    CASE matches = {} -> Nothing
      [] Cardinality(matches) = 1 ->
            CorrelatedOutputs(e, CHOOSE n \in matches : TRUE, catalog)
      [] OTHER -> AmbiguousOutputs(e)

Union(outputs) ==
    Outputs(UNION {o.deltas : o \in outputs}, UNION {o.diagnostics : o \in outputs})

(* derive_batch: the outputs of each message that found its transaction.   *)
Pairing(events, normalized, catalog) ==
    LET originals == {e \in events : IsCorrelatable(e)} \union MessagesFor(events, normalized)
        transactions == {n \in events : IsNewTransaction(n)}
                        \union TransactionsFor(events, normalized)
        matches(e) == Disambiguated(e, {n \in transactions : Matches(e, n)})
    IN  [e \in originals |-> OutputsOfPairing(e, matches(e), catalog)]

(* A message that found its transaction no longer waits for it.            *)
WithoutResolved(diagnostics, resolved) ==
    {d \in diagnostics : ~(d.diagnostic = CorrelationDiagnostic /\ d.event \in resolved)}

ClaimOutputs(events, normalized, catalog) ==
    LET pairing == Pairing(events, normalized, catalog)
        resolved == {e.id : e \in {o \in DOMAIN pairing : pairing[o] # Nothing}}
        single == Union({ItemOutputs(e) : e \in events})
    IN  Union({pairing[e] : e \in DOMAIN pairing}
              \union {Outputs(single.deltas, WithoutResolved(single.diagnostics, resolved))})

-----------------------------------------------------------------------------
(* The liquidity a pool is created with is virtual: nobody owns it.  It is *)
(* recognised by the initialize_liquidity message of the sending block.    *)

IsInitialize(e) == e.status = "observed" /\ MessageType(e) = "initialize_liquidity"

InitializesFor(events, normalized) ==
    {e \in events : IsInitialize(e)} \union
    {e \in normalized : IsInitialize(e) /\ \E n \in events :
        IsNewTransaction(n) /\ n.app = e.app /\ n.cert = e.block}

IsVirtual(n, events, normalized) ==
    /\ n.payload.transaction.kind = "AddLiquidity"
    /\ \E e \in InitializesFor(events, normalized) : e.app = n.app /\ n.cert = e.block

SettledOutputs(events, normalized) ==
    UNION {SettledRows(e, IsNewTransaction(e) /\ IsVirtual(e, events, normalized)) : e \in events}

(* Everything one batch of the derivation writes.                          *)
BatchOutputs(events, normalized, catalog) ==
    [settled |-> SettledOutputs(events, normalized)]
    @@ ClaimOutputs(events, normalized, catalog)

CorrelatedEvents(deltas) == {d.event : d \in {c \in deltas : c.source \in Correlated}}

(* What _persist_outputs deletes of the rows written by earlier batches,   *)
(* and the diagnostics it still writes.                                    *)
StaleDiagnostics(diagnostics, events) ==
    {d \in diagnostics : d.event \in events /\
        d.diagnostic \in {CorrelationDiagnostic, "ambiguous_new_transaction_correlation",
                          "missing_pool_token_metadata"}}
StaleDeltas(deltas, events) == {d \in deltas : d.event \in events /\ d.source \in Correlated}
FreshDiagnostics(out) ==
    {d \in out.diagnostics : d.event \notin CorrelatedEvents(out.deltas)}

(* The sum of the deltas, never below zero.                                *)
ClaimBalance(deltas, pool, owner, token) ==
    LET of(direction) == {d \in deltas : d.pool = pool /\ d.owner = owner /\ d.token = token
                              /\ d.balance = "claimable" /\ d.direction = direction}
        total(direction) == MapThenSumSet(LAMBDA d : d.amount, of(direction))
        sum == total("credit") - total("debit")
    IN  IF sum > 0 THEN sum ELSE 0
=============================================================================
