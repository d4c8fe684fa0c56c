------------------------------- MODULE Candles -------------------------------
(***************************************************************************)
(* The candles of one pool and one interval, as service/kline computes     *)
(* them for every read from its settled trades: candle_schema.py and       *)
(* storage/mysql/settled_trade_projection_repo.py.  Nothing is stored: a   *)
(* candle is folded from the rows of its bucket, newest first, and a       *)
(* bucket without trades repeats the close before it once it is final.     *)
(*                                                                         *)
(* trades is the sequence of trade times by transaction id and settled the *)
(* ids that have a row.  The reversed pair differs in its prices only.     *)
(***************************************************************************)
EXTENDS Integers, Sequences, FiniteSets, SequencesExt

CONSTANTS
  BucketMs,   \* the length of a bucket
  Prices      \* the price of each transaction

ASSUME CandlesAssumption == BucketMs \in Nat \ {0} /\ Prices \in Seq(Nat)

Price(i) == Prices[i]

Bucket(t) == t \div BucketMs
StartOf(b) == b * BucketMs
EndOf(b) == StartOf(b) + BucketMs - 1

NoCandle == [trades |-> 0]

\* The order of two trades: by time, then by transaction.
Before(trades, i, j) == trades[i] < trades[j] \/ (trades[i] = trades[j] /\ i < j)
Earliest(trades, S) == CHOOSE i \in S : \A j \in S \ {i} : Before(trades, i, j)
Latest(trades, S) == CHOOSE i \in S : \A j \in S \ {i} : Before(trades, j, i)

Larger(a, b) == IF a > b THEN a ELSE b
Smaller(a, b) == IF a < b THEN a ELSE b

\* Mutant: the candle opens with the row that is read first.
UpdateInReadOrder(trades, candle, i) ==
  IF candle.trades = 0
  THEN [trades |-> 1, open |-> Price(i), high |-> Price(i), low |-> Price(i),
        close |-> Price(i), first |-> i, last |-> i]
  ELSE [candle EXCEPT !.trades = @ + 1, !.high = Larger(@, Price(i)),
                      !.low = Smaller(@, Price(i)), !.close = Price(i), !.last = i]

\* apply_candle_update: the candle with one more trade, in whatever order
\* the trades come; its first and last trade are taken once.
ApplyCandleUpdate(trades, candle, i) ==
  CASE candle.trades = 0 ->
         [trades |-> 1, open |-> Price(i), high |-> Price(i), low |-> Price(i),
          close |-> Price(i), first |-> i, last |-> i]
    [] candle.trades > 0 ->
         IF i \in {candle.first, candle.last} THEN candle
         ELSE LET opens == Before(trades, i, candle.first)
                  closes == Before(trades, candle.last, i)
              IN  [trades |-> candle.trades + 1,
                   open |-> IF opens THEN Price(i) ELSE candle.open,
                   high |-> Larger(candle.high, Price(i)),
                   low |-> Smaller(candle.low, Price(i)),
                   close |-> IF closes THEN Price(i) ELSE candle.close,
                   first |-> IF opens THEN i ELSE candle.first,
                   last |-> IF closes THEN i ELSE candle.last]

\* The rows between two times, and the trade before them.
TradeRows(trades, settled, from, to) == {i \in settled : trades[i] \in from .. to}

PreviousTrade(trades, settled, from) ==
  LET earlier == {i \in settled : trades[i] < from}
  IN  {i \in earlier : \A j \in earlier : i = j \/ Before(trades, j, i)}

\* The latest time anything is known of the pool: of a settled trade or of
\* a raw block of its chain.
MarketWatermark(trades, settled, rawTime) ==
  CHOOSE w \in {0, rawTime} \cup {trades[i] : i \in settled} :
    \A v \in {0, rawTime} \cup {trades[i] : i \in settled} : v <= w

BucketFinal(b, watermark) == watermark > EndOf(b)

\* The rows come newest first, so the earliest is applied last.
CandleOf(trades, rows) ==
  MapThenFoldSet(LAMBDA i, candle : ApplyCandleUpdate(trades, candle, i), NoCandle,
                 LAMBDA i : i, LAMBDA S : Earliest(trades, S), rows)

Point(b, candle, watermark) ==
  [bucket |-> b, open |-> candle.open, high |-> candle.high, low |-> candle.low,
   close |-> candle.close, trades |-> candle.trades, final |-> BucketFinal(b, watermark)]

EmptyPoint(b, close, watermark) ==
  [bucket |-> b, open |-> close, high |-> close, low |-> close, close |-> close,
   trades |-> 0, final |-> BucketFinal(b, watermark)]

\* The points so far and the close before the next bucket, one bucket later.
WithBucket(trades, rows, watermark, done, b) ==
  LET candle == CandleOf(trades, {i \in rows : Bucket(trades[i]) = b}) IN
  CASE candle.trades > 0 ->
         [points |-> Append(done.points, Point(b, candle, watermark)),
          close |-> {candle.close}]
    [] candle.trades = 0 /\ done.close # {} /\ BucketFinal(b, watermark) ->
         [done EXCEPT !.points =
            @ \o SetToSeq({EmptyPoint(b, c, watermark) : c \in done.close})]
    [] OTHER -> done

\* get_candles: the points of the buckets from one time to another, out of
\* the rows between the two times.
Points(trades, settled, rawTime, from, to) ==
  LET rows == TradeRows(trades, settled, from, to)
      watermark == MarketWatermark(trades, settled, rawTime)
  IN  FoldLeft(LAMBDA done, b : WithBucket(trades, rows, watermark, done, b),
               [points |-> <<>>,
                close |-> {Price(i) : i \in PreviousTrade(trades, settled, from)}],
               [n \in 1 .. Bucket(to) - Bucket(from) + 1 |-> Bucket(from) + n - 1]).points

\* What a whole bucket shows: what a read of it alone answers.
HttpPoint(trades, settled, rawTime, b) ==
  Points(trades, settled, rawTime, StartOf(b), EndOf(b))
=============================================================================
