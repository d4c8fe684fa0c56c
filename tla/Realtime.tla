------------------------------ MODULE Realtime ------------------------------
(***************************************************************************)
(* How a settled trade reaches the clients of service/kline's websocket.   *)
(* Blocks of a pool's chain are ingested, their trades settled later by    *)
(* the derivation, which then puts an event into a bounded queue; the      *)
(* finality scheduler puts another when the market watermark leaves a      *)
(* bucket.  One publisher takes what the queue holds, has the payload      *)
(* built by a worker that remembers the last bucket of each stream, and    *)
(* sends it to one connection after the other.  A build may fail, or be    *)
(* given up after a time and its builder replaced; the events are gone     *)
(* then.  Sources: realtime/*.py, subscription.py and the merge of         *)
(* webui-v2/src/stores/kline.                                              *)
(***************************************************************************)
EXTENDS Candles

CONSTANTS
  Clients,       \* the clients of the websocket
  Streams,       \* the streams of a pool, in the order they are built
  Subscribed,    \* the stream each client subscribes to
  MaxQueue,      \* the size of the event queue
  Times,         \* bound: the times of blocks
  MaxTrades,     \* bound: trades
  MaxFaults      \* bound: failures, restarts and clients that leave

ASSUME RealtimeAssumption ==
  /\ Streams \in Seq(STRING) \ {<<>>} /\ IsFiniteSet(Clients)
  /\ Subscribed \in [Clients -> ToSet(Streams)]
  /\ MaxQueue \in Nat \ {0} /\ Times \subseteq Nat /\ IsFiniteSet(Times) /\ Times # {}
  /\ MaxTrades \in 0 .. Len(Prices) /\ MaxFaults \in Nat

VARIABLES
  trades,       \* the times of the pool's trades, by transaction id
  rawTime,      \* MAX(timestamp_ms) of the raw blocks of its chain
  settled,      \* the trades in settled_trades
  sink,         \* derived trades whose events are not yet put
  queue,        \* MarketDataEventQueue
  finalized,    \* the last bucket the scheduler told, -1 for none
  emitted,      \* last_emitted_bucket_starts of the builder, -1 for none
  job,          \* what the publisher is at
  connections,  \* WebSocketManager.connections
  view,         \* the points each client shows
  since,        \* history: what was settled when a client connected
  missed,       \* history: an event or a payload did not reach all
  faults        \* faults so far

market == <<trades, rawTime, settled>>
clients == <<connections, view, since>>
vars == <<market, sink, queue, finalized, emitted, job, clients, missed, faults>>

MaxTime == CHOOSE t \in Times : \A u \in Times : u <= t
Buckets == 0 .. Bucket(MaxTime)
NoPoint == [trades |-> -1, final |-> FALSE]
TradeEvent(i) == [type |-> "settled_trade", id |-> i]
FinalEvent(b) == [type |-> "candle_finalized", id |-> b]
Idle == [phase |-> "idle", events |-> <<>>, built |-> 0, payload |-> <<>>, at |-> 0]
Forgotten == [n \in DOMAIN Streams |-> -1]
Fault == faults < MaxFaults /\ faults' = faults + 1

-----------------------------------------------------------------------------
Init ==
  /\ trades = <<>> /\ rawTime = 0 /\ settled = {}
  /\ sink = {} /\ queue = <<>> /\ finalized = -1 /\ emitted = Forgotten
  /\ job = Idle
  /\ connections = SetToSeq(Clients)
  /\ view = [c \in Clients |-> [b \in Buckets |-> NoPoint]]
  /\ since = [c \in Clients |-> {}]
  /\ missed = FALSE /\ faults = 0

\* A block of the pool's chain is ingested, with a trade or without.
IngestBlock(t, trade) ==
  /\ t >= rawTime /\ (trade \/ t > rawTime)
  /\ rawTime' = t
  /\ trade => Len(trades) < MaxTrades
  /\ trades' = IF trade THEN Append(trades, t) ELSE trades
  /\ UNCHANGED <<settled, sink, queue, finalized, emitted, job, clients, missed, faults>>

\* A batch of trades is settled; one that failed is settled by a later
\* replay, so any of them may come first.
Derive(batch) ==
  /\ sink = {}
  /\ batch # {} /\ batch \subseteq DOMAIN trades \ settled
  /\ settled' = settled \cup batch
  /\ sink' = batch
  /\ UNCHANGED <<trades, rawTime, queue, finalized, emitted, job, clients, missed, faults>>

\* _put_nowait_bounded: a full queue sheds its oldest event.
Put(q, e) == IF Len(q) < MaxQueue THEN Append(q, e) ELSE Append(Tail(q), e)

\* publish_derivation_batch, after the cursor of the derivation moved: the
\* events of a batch in the order of its transactions.
SinkPublishes ==
  /\ \E i \in sink : /\ \A j \in sink : i <= j
                     /\ queue' = Put(queue, TradeEvent(i))
                     /\ sink' = sink \ {i}
  /\ missed' = (missed \/ Len(queue) = MaxQueue)
  /\ UNCHANGED <<market, finalized, emitted, job, clients, faults>>

\* emit_due_events: the bucket before the one of the watermark is final.
EmitDueEvents ==
  LET due == Bucket(MarketWatermark(trades, settled, rawTime)) - 1 IN
  /\ due > finalized
  /\ finalized' = due
  /\ queue' = Put(queue, FinalEvent(due))
  /\ missed' = (missed \/ Len(queue) = MaxQueue)
  /\ UNCHANGED <<market, sink, emitted, job, clients, faults>>

-----------------------------------------------------------------------------
(* The payload of a stream.                                                *)

IdsOf(events, type) == {e.id : e \in {x \in ToSet(events) : x.type = type}}
LastBucket(points) == CHOOSE b \in {p.bucket : p \in ToSet(points)} :
                        \A p \in ToSet(points) : p.bucket <= b

\* Mutant: a trade of a bucket before the last one emitted is skipped.
WithTradeForward(i, done) ==
  LET b == Bucket(trades[i])
      points == Points(trades, settled, rawTime,
                       StartOf(IF done.last = -1 THEN b ELSE done.last), EndOf(b))
  IN  IF b < done.last \/ b \in done.seen \/ points = <<>> THEN done
      ELSE [seen |-> done.seen \cup {b}, last |-> LastBucket(points),
            points |-> done.points \o points]

\* One trade of the loop below: the points from the last bucket emitted to
\* its own, or of its own alone when that is older, once for each bucket.
WithTrade(i, done) ==
  LET b == Bucket(trades[i])
      from == IF done.last = -1 \/ b <= done.last THEN b ELSE done.last
      points == Points(trades, settled, rawTime, StartOf(from), EndOf(b))
  IN  IF b \in done.seen \/ points = <<>> THEN done
      ELSE [seen |-> done.seen \cup {b}, last |-> LastBucket(points),
            points |-> done.points \o points]

\* build_incremental_kline_payload: the settled trades of the events, the
\* newest first.
Incremental(last, ids) ==
  MapThenFoldSet(WithTrade, [seen |-> {}, last |-> last, points |-> <<>>], LAMBDA i : i,
                 LAMBDA S : Earliest(trades, S), ids \cap settled)

\* build_rollover_kline_payload: the points up to the start of the bucket
\* that became final.
Rollover(last, buckets) ==
  LET b == CHOOSE f \in buckets : \A g \in buckets : g <= f
      from == IF last = -1 THEN b ELSE last + 1
  IN  IF buckets = {} \/ b <= last THEN <<>>
      ELSE Points(trades, settled, rawTime, StartOf(from), StartOf(b))

BuildStream(last, events) ==
  LET trade == Incremental(last, IdsOf(events, "settled_trade"))
      over == Rollover(trade.last, IdsOf(events, "candle_finalized"))
  IN  [points |-> trade.points \o over,
       last |-> IF over = <<>> THEN trade.last ELSE LastBucket(over)]

-----------------------------------------------------------------------------
(* The publisher.                                                          *)

TakeEvents ==
  /\ job.phase = "idle" /\ queue # <<>>
  /\ job' = [Idle EXCEPT !.phase = "building", !.events = queue]
  /\ queue' = <<>>
  /\ UNCHANGED <<market, sink, finalized, emitted, clients, missed, faults>>

\* The worker builds the next stream, and remembers its last bucket; the
\* payload of the last is sent.
Build ==
  /\ job.phase = "building"
  /\ \E made \in {BuildStream(emitted[job.built + 1], job.events)} :
       LET payload == Append(job.payload, made.points) IN
       /\ emitted' = [emitted EXCEPT ![job.built + 1] = made.last]
       /\ job' = IF Len(payload) < Len(Streams)
                 THEN [job EXCEPT !.built = @ + 1, !.payload = payload]
                 ELSE [Idle EXCEPT !.phase = "notifying", !.payload = payload, !.at = 1]
  /\ UNCHANGED <<market, sink, queue, finalized, clients, missed, faults>>

\* A query is refused or the worker raises: the events are gone, what the
\* builder remembers stays.
BuildFails ==
  /\ job.phase = "building" /\ Fault
  /\ job' = Idle /\ missed' = TRUE
  /\ UNCHANGED <<market, sink, queue, finalized, emitted, clients>>

\* _reset_executor_after_timeout: the builder is retired with its memory
\* and whatever it still returns is dropped.
BuildTimesOut ==
  /\ job.phase = "building" /\ Fault
  /\ job' = Idle /\ emitted' = Forgotten /\ missed' = TRUE
  /\ UNCHANGED <<market, sink, queue, finalized, clients>>

\* Mutant: the point that comes last is shown.
OverwriteAlways(current, incoming) == TRUE

\* mergePointLists: a final point is not replaced by one that is not, nor
\* one with volume by one without.
ShouldOverwrite(current, incoming) ==
  /\ ~(current.final /\ ~incoming.final)
  /\ ~(current.trades > 0 /\ incoming.trades = 0)

MergePoint(shown, p) ==
  IF ShouldOverwrite(shown[p.bucket], p) THEN [shown EXCEPT ![p.bucket] = p] ELSE shown

Merge(points, incoming) == FoldLeft(MergePoint, points, incoming)

StreamOf(c) == CHOOSE n \in DOMAIN Streams : Streams[n] = Subscribed[c]

\* notify_kline: the loop over the connections awaits each of them.
Notify ==
  /\ job.phase = "notifying"
  /\ \A c \in {connections[n] : n \in {job.at} \cap DOMAIN connections} :
       view' = [view EXCEPT ![c] = Merge(@, job.payload[StreamOf(c)])]
  /\ job.at > Len(connections) => UNCHANGED view
  /\ job' = IF job.at < Len(connections) THEN [job EXCEPT !.at = @ + 1] ELSE Idle
  /\ UNCHANGED <<market, sink, queue, finalized, emitted, connections, since, missed, faults>>

\* send_json raises for a client that is gone: the rest is not sent.
NotifyFails ==
  /\ job.phase = "notifying" /\ job.at <= Len(connections) /\ Fault
  /\ connections' = RemoveAt(connections, job.at)
  /\ view' = [view EXCEPT ![connections[job.at]] = [b \in Buckets |-> NoPoint]]
  /\ job' = Idle /\ missed' = TRUE
  /\ UNCHANGED <<market, sink, queue, finalized, emitted, since>>

-----------------------------------------------------------------------------
Connect(c) ==
  /\ c \notin ToSet(connections)
  /\ connections' = Append(connections, c)
  /\ since' = [since EXCEPT ![c] = settled]
  /\ UNCHANGED <<market, sink, queue, finalized, emitted, job, view, missed, faults>>

\* close, while the publisher may be in its loop over the list: the
\* connections behind the one removed move up under its index.
Disconnect(c) ==
  /\ Fault
  /\ \E n \in DOMAIN connections : /\ connections[n] = c
                                  /\ connections' = RemoveAt(connections, n)
  /\ view' = [view EXCEPT ![c] = [b \in Buckets |-> NoPoint]]
  /\ missed' = (missed \/ job.phase = "notifying")
  /\ UNCHANGED <<market, sink, queue, finalized, emitted, job, since>>

\* The process starts again: only the tables are left.
Restart ==
  /\ Fault
  /\ sink' = {} /\ queue' = <<>> /\ finalized' = -1 /\ emitted' = Forgotten /\ job' = Idle
  /\ connections' = <<>> /\ view' = [c \in Clients |-> [b \in Buckets |-> NoPoint]]
  /\ missed' = TRUE
  /\ UNCHANGED <<market, since>>

Next ==
  \/ \E t \in Times, trade \in BOOLEAN : IngestBlock(t, trade)
  \/ \E batch \in SUBSET (DOMAIN trades \ settled) : Derive(batch)
  \/ SinkPublishes
  \/ EmitDueEvents
  \/ TakeEvents
  \/ Build
  \/ BuildFails
  \/ BuildTimesOut
  \/ Notify
  \/ NotifyFails
  \/ \E c \in Clients : Connect(c) \/ Disconnect(c)
  \/ Restart

\* The derivation's thread and the publisher's task keep running; a build
\* ends, at the latest after build_timeout_seconds.
Spec ==
  /\ Init /\ [][Next]_vars
  /\ WF_vars(SinkPublishes) /\ WF_vars(TakeEvents) /\ WF_vars(Notify)
  /\ []<>(job.phase # "building")

-----------------------------------------------------------------------------
(* Properties.                                                             *)

TradesOf(b) == {i \in settled : Bucket(trades[i]) = b}

\* A candle is the one of the trades of its bucket in the order they were
\* made, although it is folded from the newest to the oldest, and a read of
\* many buckets answers what reads of one bucket each answer: the close an
\* empty bucket repeats does not depend on where the read began.  No bucket
\* is told before the watermark has left it, and a client shows no trade that
\* is not settled and no final point of a bucket the market has not left.
CandlesRight ==
  LET watermark == MarketWatermark(trades, settled, rawTime)
      whole == Points(trades, settled, rawTime, 0, EndOf(Bucket(MaxTime)))
  IN  /\ ToSet(whole) = UNION {ToSet(HttpPoint(trades, settled, rawTime, b)) : b \in Buckets}
      /\ \A m, n \in DOMAIN whole : m < n => whole[m].bucket < whole[n].bucket
      /\ \A p \in ToSet(whole) :
            /\ p.trades = Cardinality(TradesOf(p.bucket))
            /\ p.trades > 0 => /\ p.open = Price(Earliest(trades, TradesOf(p.bucket)))
                               /\ p.close = Price(Latest(trades, TradesOf(p.bucket)))
                               /\ {p.low, p.high} \subseteq {Price(i) : i \in TradesOf(p.bucket)}
                               /\ \A i \in TradesOf(p.bucket) : Price(i) \in p.low .. p.high
      /\ finalized < Bucket(watermark)
      /\ \A n \in DOMAIN Streams : emitted[n] <= Bucket(watermark)
      /\ \A c \in Clients, b \in Buckets :
            /\ view[c][b].trades <= Cardinality(TradesOf(b))
            /\ view[c][b].final => BucketFinal(b, watermark)

\* A trade in the first millisecond of a bucket is the only one the read of
\* a rollover sees (see PushedMatchesHttp).
AtStart(b) == \E i \in DOMAIN trades : trades[i] = StartOf(b)

\* A client that stays connected never sees a candle lose trades or stop
\* being final: the builds are made and sent one after the other, what a
\* retired builder returns is dropped, and the rule of the merge keeps the
\* empty final candle of a rollover from replacing the one with the trades.
NeverBack ==
  [][\A c \in ToSet(connections) \cap ToSet(connections') : \A b \in Buckets :
       ~AtStart(b)' => /\ view'[c][b].trades >= view[c][b].trades
                       /\ view[c][b].final => view'[c][b].final]_vars

\* As long as nothing is shed, refused, given up or interrupted, every
\* candle that gained a trade since a client connected gets to him as it is.
Behind(c, b) ==
  /\ ~missed /\ c \in ToSet(connections) /\ ~AtStart(b)
  /\ TradesOf(b) \ since[c] # {}
  /\ view[c][b].trades # Cardinality(TradesOf(b))

EventuallyCurrent == []<>(\A c \in Clients, b \in Buckets : ~Behind(c, b))

\* A closed bucket is pushed as a read of it answers.
PushedMatchesHttp ==
  [][Len(job'.payload) > Len(job.payload) =>
       \A p \in ToSet(Last(job'.payload)) :
         p.final => <<p>> = HttpPoint(trades, settled, rawTime, p.bucket)]_vars
=============================================================================
