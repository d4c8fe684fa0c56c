--------------------------- MODULE NormalizedFacts ---------------------------
(***************************************************************************)
(* Layer 2 of service/kline: a raw fact is decoded with the decoder of its *)
(* application's type and becomes one normalized event, whose family says  *)
(* what happened.  The pool catalog and the fee receiver history are read  *)
(* off the same events.                                                    *)
(*                                                                         *)
(* A registry maps the known applications to their type.  Bytes decode to  *)
(* themselves: a payload is a record with a field type, and Garbage is     *)
(* what no decoder accepts.  A family is the triple of the prefix, the     *)
(* payload type and the suffix of its name in the code.                    *)
(***************************************************************************)
EXTENDS Naturals, RawBlocks

Garbage == [type |-> "garbage"]

(* What the resolver knows of each type of application: operations, then   *)
(* messages that are recorded whether executed or not, messages recorded   *)
(* or rejected, messages observed or rejected, and events.                 *)
PoolTypes ==
    [requested |-> {"swap", "add_liquidity", "remove_liquidity", "set_fee_to",
                    "set_fee_to_setter", "claim"},
     recorded |-> {"request_fund", "fund_result", "new_transaction"},
     receipts |-> {"add_liquidity_transfer_receipt", "swap_transfer_receipt", "claim",
                   "claim_transfer_receipt"},
     observed |-> {"initialize_liquidity", "swap", "add_liquidity", "remove_liquidity",
                   "set_fee_to", "set_fee_to_setter"},
     executed |-> {"swap_executed", "add_liquidity_executed", "remove_liquidity_executed"}]

SwapTypes ==
    [requested |-> {"initialize_liquidity", "create_pool", "update_pool"},
     recorded |-> {"pool_created", "create_user_pool", "user_pool_created"},
     receipts |-> {},
     observed |-> {"initialize_liquidity", "create_pool", "update_pool"},
     executed |-> {}]

MemeMessages == {"transfer", "transfer_from", "transfer_from_application",
                 "initialize_liquidity", "approve", "transfer_ownership", "mint", "redeem"}
MemeTypes ==
    [requested |-> MemeMessages \union {"creator_chain_id", "mine", "transfer_to_caller"},
     recorded |-> {"liquidity_funded"},
     receipts |-> {},
     observed |-> MemeMessages,
     executed |-> {}]

ProxyOperations ==
    {"propose_add_genesis_miner", "approve_add_genesis_miner", "propose_remove_genesis_miner",
     "approve_remove_genesis_miner", "register_miner", "deregister_miner", "create_meme",
     "propose_add_operator", "approve_add_operator", "propose_ban_operator",
     "approve_ban_operator"}
ProxyTypes ==
    [requested |-> ProxyOperations,
     recorded |-> {"meme_created"},
     receipts |-> {},
     observed |-> ProxyOperations \union {"create_meme_ext"},
     executed |-> {}]

AmsOperations == {"register", "claim", "add_application_type", "update"}
AmsTypes == [requested |-> AmsOperations, recorded |-> AmsOperations,
             receipts |-> {}, observed |-> {}, executed |-> {}]

BlobGatewayTypes == [requested |-> {"blob_gateway_register"},
                     recorded |-> {"blob_gateway_register"},
                     receipts |-> {}, observed |-> {}, executed |-> {}]

KnownTypes == [pool |-> PoolTypes, swap |-> SwapTypes, meme |-> MemeTypes,
               proxy |-> ProxyTypes, ams |-> AmsTypes, blob |-> BlobGatewayTypes]

Unknown(kind, rejected) ==
    <<"application", kind, IF rejected THEN "rejected" ELSE "observed">>

(* Mutant: the kind of the payload is not part of the family.              *)
FamilyOfAnyKind(app, kind, type, rejected) ==
    <<app, type, IF rejected THEN "rejected" ELSE "observed">>

(* The family of a decoded payload.                                        *)
Family(app, kind, type, rejected) ==
    LET known == KnownTypes[app]
    IN  CASE kind = "operation" /\ type \in known.requested -> <<app, type, "requested">>
          [] kind = "message" /\ type \in known.recorded -> <<app, type, "recorded">>
          [] kind = "message" /\ type \in known.receipts ->
                <<app, type, IF rejected THEN "rejected" ELSE "recorded">>
          [] kind = "message" /\ type \in known.observed ->
                <<app, type, IF rejected THEN "message_rejected" ELSE "message_observed">>
          [] kind = "event" /\ type \in known.executed -> <<app, type, "executed">>
          [] OTHER -> Unknown(kind, rejected)

-----------------------------------------------------------------------------
(* Decoding.                                                               *)

Resolve(registry, app) == IF app \in DOMAIN registry THEN registry[app] ELSE Absent

(* The fields an executed event of a pool must have.                       *)
CommonFields == {"transaction_id", "executed_at_micros", "from"}
SwapFields(kind) ==
    CASE kind = "buy_token_0" -> {"amount_1_in", "amount_0_out"}
      [] kind = "sell_token_0" -> {"amount_0_in", "amount_1_out"}
      [] OTHER -> {"trade_type"}
LiquidityFields(kind) ==
    CASE kind = "add_liquidity" -> {"liquidity", "amount_0_in", "amount_1_in"}
      [] kind = "remove_liquidity" -> {"liquidity", "amount_0_out", "amount_1_out"}
      [] OTHER -> {"change_type"}

WellShaped(app, item) ==
    app = "pool" /\ item.kind = "event" /\ item.bytes.type \in PoolTypes.executed =>
        CommonFields \union (IF item.bytes.type = "swap_executed"
                             THEN SwapFields(item.bytes.kind)
                             ELSE LiquidityFields(item.bytes.kind)) \subseteq item.bytes.fields

(* decode_batch, with what the decoder program answers for an item.        *)
DecodeStatus(registry, item) ==
    LET app == Resolve(registry, item.app)
    IN  CASE app = Absent -> "unresolved_application"
          [] app # Absent /\ (item.bytes = Garbage \/ ~WellShaped(app, item)) -> "decode_failed"
          [] OTHER -> "decoded"

EventFamily(registry, item) ==
    CASE DecodeStatus(registry, item) = "unresolved_application" ->
            <<"decode", "any", "unresolved">>
      [] DecodeStatus(registry, item) = "decode_failed" -> <<"decode", "any", "failed">>
      [] OTHER -> Family(registry[item.app], item.kind, item.bytes.type, item.rejected)

EventType(registry, item) ==
    IF DecodeStatus(registry, item) = "decoded" THEN item.bytes.type ELSE item.kind

NormalizationStatus(registry, item) ==
    CASE DecodeStatus(registry, item) # "decoded" -> "decode_failed"
      [] DecodeStatus(registry, item) = "decoded" /\ item.rejected -> "rejected"
      [] OTHER -> "observed"

(* The identity leaves the raw table out.                                  *)
EventId(registry, item) ==
    <<item.fact, EventFamily(registry, item), EventType(registry, item)>>

NormalizedEvent(registry, item) ==
    [id |-> EventId(registry, item), fact |-> item.fact, table |-> item.table,
     app |-> item.app, kind |-> item.kind, family |-> EventFamily(registry, item),
     status |-> NormalizationStatus(registry, item), source |-> item.source,
     target |-> item.target, block |-> item.block, cert |-> item.cert, tx |-> item.tx,
     position |-> item.position, index |-> item.index, payload |-> item.bytes]

NormalizeBatch(registry, items) ==
    {NormalizedEvent(registry, items[n]) : n \in DOMAIN items}

(* INSERT ... ON DUPLICATE KEY UPDATE, on rows with a field id.            *)
Upsert(rows, new) == {r \in rows : \A n \in new : n.id # r.id} \union new

-----------------------------------------------------------------------------
(* The projections written with the events.                                *)

(* A pool the swap application announces; its second token defaults to the *)
(* native one.                                                             *)
CatalogRow(e) ==
    [id |-> e.payload.pool, token0 |-> e.payload.token0,
     token1 |-> IF e.payload.token1 = Absent THEN "TLINERA" ELSE e.payload.token1]

PoolCreated(e) ==
    /\ e.status = "observed"
    /\ e.family \in {<<"swap", "pool_created", "recorded">>,
                     <<"swap", "user_pool_created", "recorded">>}

MaterializeCatalog(catalog, events) ==
    Upsert(catalog, {CatalogRow(e) : e \in {f \in events : PoolCreated(f)}})

(* A pool is its chain and its application.  The announcement of the pool  *)
(* names it, for a set_fee_to it is put together from the event.           *)
PoolOfFeeTo(e) == <<IF e.source # Absent THEN e.source ELSE e.target, e.app>>

FeeToRow(e) ==
    [id |-> e.id,
     pool |-> IF PoolCreated(e) THEN e.payload.pool ELSE PoolOfFeeTo(e),
     account |-> IF PoolCreated(e) THEN e.payload.creator ELSE e.payload.account]

SetsFeeTo(e) == e.status = "observed" /\ e.family = <<"pool", "set_fee_to", "message_observed">>

MaterializeFeeTo(history, events) ==
    Upsert(history, {FeeToRow(e) : e \in {f \in events : SetsFeeTo(f) \/ PoolCreated(f)}})

(* The messages the derivation driver takes.                               *)
MarketTypes == {"new_transaction", "swap", "add_liquidity", "remove_liquidity",
                "initialize_liquidity", "claim", "claim_transfer_receipt", "fund_result",
                "add_liquidity_transfer_receipt", "swap_transfer_receipt"}

IsMarketEvent(e) ==
    /\ e.table = "raw_posted_messages" /\ e.status = "observed"
    /\ e.family[1] = "pool" /\ e.family[2] \in MarketTypes
    /\ e.family[3] \in {"recorded", "message_observed"}
=============================================================================
