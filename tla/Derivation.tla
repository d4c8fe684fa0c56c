----------------------------- MODULE Derivation -----------------------------
(***************************************************************************)
(* The pipeline of service/kline that runs after an ingestion: the raw     *)
(* facts of the blocks are normalized, table by table, and the pool        *)
(* messages among them are settled into trades, liquidity changes and      *)
(* claim balances.  Every statement commits on its own, so a failure or a  *)
(* crash leaves what was written; what a run has read stays in its hands.  *)
(*                                                                         *)
(* Runs take turns here: one run at a time is what the workers of one      *)
(* service do unless a run outlives its timeout.                           *)
(***************************************************************************)
EXTENDS MarketOutputs

CONSTANTS
  Scenarios,   \* functions from a chain to the sequence of its blocks
  Seeded,      \* the registry seeded from the configuration
  Discovered,  \* the applications the discovery service finds
  BatchLimit,  \* rows a batch takes, 100 in the code
  MaxFaults,   \* bound: failures and crashes in a behaviour
  MaxReplays   \* bound: replays an operator asks for

ASSUME BoundsAssumption == BatchLimit \in Nat \ {0} /\ MaxFaults \in Nat /\ MaxReplays \in Nat

VARIABLES
  blocks,      \* the scenario of this behaviour
  store,       \* layer 1: the raw tables and the chain cursors
  registry,    \* application -> type
  cursors,     \* processing_cursors: partition -> [last, status]
  facts,       \* layer 2: [normalized, catalog, feeTo]
  market,      \* layer 3: [trades, changes, deltas, diagnostics]
  due,         \* blocks were ingested since the last run was started
  run,         \* the run in progress
  used,        \* faults and replays so far
  blind,       \* history: a fact was processed before its application or pool was known
  replayed     \* history: layer 3 was last written by a replay of all of layer 2

input == <<blocks, store, registry>>
history == <<used, blind, replayed>>
vars == <<input, due, cursors, facts, market, run, history>>

Partitions == {FactTables[n] : n \in DOMAIN FactTables} \union {"market"}

-----------------------------------------------------------------------------
(* The processing cursors.  Each mark is one row replaced and committed.   *)

LoadCursor(partition) == cursors[partition].last
Marked(partition, last, status) ==
    [cursors EXCEPT ![partition] = [last |-> last, status |-> status]]

MarkAttempt(partition, last) == cursors' = Marked(partition, last, "running")
MarkSuccess(partition, last) == cursors' = Marked(partition, last, "ready")
MarkFailure(partition, last) == cursors' = Marked(partition, last, "error")

-----------------------------------------------------------------------------
(* The tables after ensure_schema, and the idempotent writes.              *)

NoTrades == {}
NoChanges == {}
NoClaims == [deltas |-> {}, diagnostics |-> {}]
NoFacts == [normalized |-> {}, catalog |-> {}, feeTo |-> {}]
EmptyMarket == [trades |-> NoTrades, changes |-> NoChanges] @@ NoClaims

UpsertTrades(trades, settled) ==
    Upsert(trades, {r \in settled : r.output = "settled_trade"})
UpsertChanges(changes, settled) ==
    Upsert(changes, {r \in settled : r.output = "settled_liquidity_change"})
UpsertDeltas(deltas, new) == Upsert(deltas, new)
UpsertDiagnostics(diagnostics, new) == Upsert(diagnostics, new)

-----------------------------------------------------------------------------
(* What a run holds: its stage, the partition it is at, whether it goes on *)
(* until each table is caught up, whether an operator asked for it, the    *)
(* rows it took and what it derived from them.                             *)

Idle == [stage |-> "idle", at |-> 1, whole |-> FALSE, replay |-> FALSE,
         items |-> <<>>, out |-> NoClaims]
Busy == run.stage # "idle"
Working == {"events", "projections", "settle", "stale", "claims", "snapshots"}

Partition == IF run.stage \in {"read", "events", "projections"}
             THEN FactTables[run.at] ELSE "market"

LastOf(items) == items[Len(items)].fact

\* Mutant: a replay goes on from the cursor.
AfterCursor == LoadCursor(Partition)

\* after_sequence of the operator, else the cursor.
After == IF run.replay THEN 0 ELSE LoadCursor(Partition)
Limit == IF run.replay THEN 1000 ELSE BatchLimit

(* A batch shorter than the limit is the last one; the bounded run makes   *)
(* one batch of each table.                                                *)
TableDone == Len(run.items) < Limit \/ ~run.whole

\* What follows in the order of run_all, derivation last.
NextTable == IF run.at < Len(FactTables)
             THEN [Idle EXCEPT !.stage = "read", !.at = run.at + 1, !.whole = run.whole,
                               !.replay = run.replay]
             ELSE [Idle EXCEPT !.stage = "derive", !.whole = run.whole, !.replay = run.replay]

(* list_market_derivation_candidates, in the order of the facts.           *)
MarketPage(after, limit) ==
    LET events == {e \in facts.normalized : IsMarketEvent(e) /\ e.fact > after}
        page == SelectSeq([n \in DOMAIN store.tables.raw_posted_messages |-> n],
                          LAMBDA n : \E e \in events : e.fact = n)
    IN  [n \in 1 .. (IF Len(page) < limit THEN Len(page) ELSE limit) |->
            CHOOSE e \in events : e.fact = page[n]]

-----------------------------------------------------------------------------
Init ==
    /\ blocks \in Scenarios
    /\ store = EmptyStore(DOMAIN blocks)
    /\ registry = Seeded
    /\ cursors = [p \in Partitions |-> [last |-> 0, status |-> "none"]]
    /\ facts = NoFacts
    /\ market = EmptyMarket
    /\ due = FALSE
    /\ run = Idle
    /\ used = [faults |-> 0, replays |-> 0]
    /\ blind = FALSE
    /\ replayed = FALSE

\* The next block of a chain is ingested, during a run too: a step that
\* works on rows already taken commutes with it.
Ingest(c) ==
    /\ run.stage \notin Working
    /\ store.cursor[c] < Len(blocks[c])
    /\ store' = IngestBlock(store, blocks[c][store.cursor[c] + 1])
    /\ due' = TRUE
    /\ UNCHANGED <<blocks, registry, cursors, facts, market, run, history>>

\* The discovery service registers what the swap application lists.
Discover ==
    /\ ~Busy
    /\ \E a \in DOMAIN Discovered \ DOMAIN registry :
          registry' = registry @@ (a :> Discovered[a])
    /\ UNCHANGED <<blocks, store, due, cursors, facts, market, run, history>>

\* The post-ingest pipeline after an ingestion that brought blocks: bounded
\* for a notification, whole for an explicit catch-up.
PipelineStarts(whole) ==
    /\ ~Busy /\ due
    /\ due' = FALSE
    /\ run' = [Idle EXCEPT !.stage = "read", !.whole = whole]
    /\ UNCHANGED <<input, cursors, facts, market, history>>

\* The replay the runtime proposes to the operator of a degraded service,
\* of layer 2 and then of layer 3, each in one batch from the beginning.
\* Bound: once the chains of the instance have no further block.
OperatorReplays ==
    /\ ~Busy
    /\ \A c \in DOMAIN blocks : store.cursor[c] = Len(blocks[c])
    /\ used.replays < MaxReplays
    /\ used' = [used EXCEPT !.replays = @ + 1]
    /\ run' = [Idle EXCEPT !.stage = "read", !.replay = TRUE]
    /\ UNCHANGED <<input, due, cursors, facts, market, blind, replayed>>

\* run_once of the normalization driver, up to the attempt of the worker.
ReadFacts ==
    /\ run.stage = "read"
    /\ LET items == Candidates(store.tables, Partition, After, Limit)
       IN  IF items = <<>>
           THEN run' = NextTable /\ UNCHANGED cursors
           ELSE /\ MarkAttempt(Partition, LastOf(items))
                /\ run' = [run EXCEPT !.stage = "events", !.items = items]
    /\ UNCHANGED <<input, due, facts, market, history>>

\* The batch is decoded and its events upserted.
WriteEvents ==
    /\ run.stage = "events"
    /\ facts' = [facts EXCEPT !.normalized =
                    Upsert(@, NormalizeBatch(registry, run.items))]
    /\ run' = [run EXCEPT !.stage = "projections"]
    /\ blind' = (blind \/ \E n \in DOMAIN run.items : run.items[n].app \notin DOMAIN registry)
    /\ replayed' = FALSE
    /\ UNCHANGED <<input, due, cursors, market, used>>

\* Catalog and fee history of the same events, then the success.
WriteProjections ==
    /\ run.stage = "projections"
    /\ LET events == NormalizeBatch(registry, run.items)
       IN  facts' = [facts EXCEPT !.catalog = MaterializeCatalog(@, events),
                                  !.feeTo = MaterializeFeeTo(@, events)]
    /\ MarkSuccess(Partition, LastOf(run.items))
    /\ run' = IF TableDone THEN NextTable ELSE [run EXCEPT !.stage = "read", !.items = <<>>]
    /\ replayed' = FALSE
    /\ UNCHANGED <<input, due, market, used, blind>>

\* run_once of the derivation driver, up to the attempt.
ReadMarket ==
    /\ run.stage = "derive"
    /\ LET items == MarketPage(After, Limit)
       IN  IF items = <<>>
           THEN run' = Idle /\ UNCHANGED cursors
           ELSE /\ MarkAttempt(Partition, LastOf(items))
                /\ run' = [run EXCEPT !.stage = "settle", !.items = items]
    /\ UNCHANGED <<input, due, facts, market, history>>

Taken == {run.items[n] : n \in DOMAIN run.items}

\* The batch is derived, and its trades and liquidity changes upserted.
WriteSettled ==
    /\ run.stage = "settle"
    /\ LET out == BatchOutputs(Taken, facts.normalized, facts.catalog)
       IN  /\ market' = [market EXCEPT !.trades = UpsertTrades(@, out.settled),
                                       !.changes = UpsertChanges(@, out.settled)]
           /\ run' = [run EXCEPT !.stage = "stale", !.out = out]
    /\ blind' = (blind \/ \E e \in Taken : PoolTokens(facts.catalog, e) = {})
    /\ replayed' = FALSE
    /\ UNCHANGED <<input, due, cursors, facts, used>>

\* Mutant: the rows of an earlier pairing are kept.
KeepStale ==
    /\ run.stage = "stale"
    /\ run' = [run EXCEPT !.stage = "claims"]
    /\ UNCHANGED <<input, due, cursors, facts, market, history>>

\* What earlier batches wrote of the messages paired now is deleted.
DeleteStale ==
    /\ run.stage = "stale"
    /\ LET paired == CorrelatedEvents(run.out.deltas)
       IN  market' = [market EXCEPT !.diagnostics = @ \ StaleDiagnostics(@, paired),
                                    !.deltas = @ \ StaleDeltas(@, paired)]
    /\ run' = [run EXCEPT !.stage = "claims"]
    /\ UNCHANGED <<input, due, cursors, facts, history>>

\* Deltas, then diagnostics; the snapshots follow and fail or not.
WriteClaims ==
    /\ run.stage = "claims"
    /\ market' = [market EXCEPT !.deltas = UpsertDeltas(@, run.out.deltas),
                                !.diagnostics = UpsertDiagnostics(@, FreshDiagnostics(run.out))]
    /\ run' = [run EXCEPT !.stage = "snapshots"]
    /\ UNCHANGED <<input, due, cursors, facts, history>>

Derived ==
    /\ run.stage = "snapshots"
    /\ MarkSuccess(Partition, LastOf(run.items))
    /\ run' = IF TableDone THEN Idle ELSE [run EXCEPT !.stage = "derive", !.items = <<>>,
                                                      !.out = NoClaims]
    /\ replayed' = run.replay
    /\ UNCHANGED <<input, due, facts, market, used, blind>>

\* An exception of the batch: marked, and raised through the pipeline.
Fails ==
    /\ run.stage \in Working
    /\ used.faults < MaxFaults
    /\ used' = [used EXCEPT !.faults = @ + 1]
    /\ MarkFailure(Partition, LastOf(run.items))
    /\ run' = Idle
    /\ replayed' = FALSE
    /\ UNCHANGED <<input, due, facts, market, blind>>

Crash ==
    /\ Busy
    /\ used.faults < MaxFaults
    /\ used' = [used EXCEPT !.faults = @ + 1]
    /\ run' = Idle
    /\ replayed' = FALSE
    /\ UNCHANGED <<input, due, cursors, facts, market, blind>>

Next ==
    \/ \E c \in DOMAIN blocks : Ingest(c)
    \/ Discover
    \/ \E whole \in BOOLEAN : PipelineStarts(whole)
    \/ OperatorReplays
    \/ ReadFacts
    \/ WriteEvents
    \/ WriteProjections
    \/ ReadMarket
    \/ WriteSettled
    \/ DeleteStale
    \/ WriteClaims
    \/ Derived
    \/ Fails
    \/ Crash

Spec == Init /\ [][Next]_vars

-----------------------------------------------------------------------------
(* What the layers should hold: everything in one batch.                   *)

AllOf(partition) ==
    LET items == Candidates(store.tables, partition, 0, Len(store.tables[partition]))
    IN  {items[n] : n \in DOMAIN items}

AllFacts == UNION {AllOf(FactTables[n]) : n \in DOMAIN FactTables}
AllEvents == {NormalizedEvent(registry, f) : f \in AllFacts}
Messages == {e \in AllEvents : IsMarketEvent(e)}

InOneBatch ==
    LET out == BatchOutputs(Messages, AllEvents, MaterializeCatalog({}, AllEvents))
    IN  [trades |-> UpsertTrades({}, out.settled), changes |-> UpsertChanges({}, out.settled),
         deltas |-> out.deltas, diagnostics |-> FreshDiagnostics(out)]

CaughtUp ==
    /\ ~Busy
    /\ \A n \in DOMAIN FactTables :
          \A f \in AllOf(FactTables[n]) : f.fact <= LoadCursor(FactTables[n])
    /\ \A e \in facts.normalized : IsMarketEvent(e) => e.fact <= LoadCursor("market")

\* No message of two identical ones took the place of the other.
Unambiguous ==
    \A e \in {o \in Messages : IsCorrelatable(o)} :
        Cardinality({n \in {m \in Messages : IsNewTransaction(m)} : Matches(e, n)}) <= 1

-----------------------------------------------------------------------------
(* Properties.                                                             *)

\* While nothing failed, every fact behind a cursor of layer 2 has its own
\* event: no two facts of two tables share an identity, and none is jumped
\* over.  Whatever is replayed, no table of either layer has two rows of one
\* identity.
FactsKept ==
    /\ \A e, f \in facts.normalized : e.id = f.id => e = f
    /\ \A t \in {"trades", "changes", "deltas", "diagnostics"} :
          \A r, s \in market[t] : r.id = s.id => r = s
    /\ used.faults = 0 =>
        \A n \in DOMAIN FactTables : \A f \in AllOf(FactTables[n]) :
            (f.fact <= LoadCursor(FactTables[n])
                /\ ~(run.stage \in {"events", "projections"} /\ Partition = FactTables[n]))
            => \E e \in facts.normalized : e.table = f.table /\ e.fact = f.fact

\* Layer 3 does not depend on how the blocks fell into batches, nor on the
\* side of a pairing that came first: without failures, when everything
\* was known in time and no two messages were alike, a service that caught
\* up holds what one batch of everything would have written.
Confluent ==
    (CaughtUp /\ used.faults = 0 /\ ~blind /\ Unambiguous) => market = InOneBatch

\* Whatever was lost, guessed or derived too early: after the replay an
\* operator is told to run, with the applications and the pools known,
\* layer 3 is exact.
Healed ==
    (/\ replayed /\ CaughtUp
     /\ \A f \in AllFacts : f.app \in DOMAIN registry
     /\ \A e \in Messages : PoolTokens(MaterializeCatalog({}, AllEvents), e) # {})
        => market = InOneBatch

\* At no moment is a message credited for more than one transaction, and
\* no claim has more than one debit.
CreditedOnce ==
    \A d, e \in market.deltas :
        (d.event = e.event /\ d.balance = e.balance /\ d.direction = e.direction
            /\ d.token = e.token) => d = e

\* The cursor of a layer says what is fully materialized in it.
CursorMeansMaterialized ==
    \A n \in DOMAIN FactTables : \A f \in AllOf(FactTables[n]) :
        (~Busy /\ f.fact <= LoadCursor(FactTables[n]))
        => \E e \in facts.normalized : e.table = f.table /\ e.fact = f.fact

\* The fee receiver set for a pool is filed under the pool.
FeeToOfItsPool ==
    \A e \in facts.normalized, r \in facts.feeTo, c \in facts.catalog :
        (SetsFeeTo(e) /\ r.id = e.id /\ c.id[2] = e.app) => r.pool = c.id
=============================================================================
