---------------------------- MODULE RealtimeProofs ----------------------------
(***************************************************************************)
(* What a candle is, and that no client of the realtime service goes back, *)
(* for any trades, prices, streams, clients and faults.                    *)
(*                                                                         *)
(* A candle folds its trades from the latest to the earliest.  Each update *)
(* by an earlier trade leaves the candle right (UpdateRight), so the whole *)
(* fold does (CandleRight), in whatever order the trades were settled.  A  *)
(* read goes over its buckets and carries the close of the last one it saw *)
(* (CloseMoves); the points of a read are what each of its buckets shows   *)
(* (ReadGrows, PointsAre), which makes any two reads of a bucket agree.    *)
(*                                                                         *)
(* A payload is built from what the market has at that time.  What a       *)
(* client shows was built before the payload that is under way, so the     *)
(* payload has at least as many trades in each bucket (AheadInv), and a    *)
(* point that is final stays so because the watermark only grows.  The     *)
(* exception is a trade in the first millisecond of a bucket (AtStart): a  *)
(* payload may hold two points of that bucket, read to different ends.     *)
(***************************************************************************)
EXTENDS Realtime, ArithmeticTheorems

----------------------------------------------------------------------------
(* Candles.                                                                *)

\* Trades that have a price and a time.
Timed(ts, S) == S \subseteq DOMAIN Prices /\ \A i \in S : ts[i] \in Nat

\* The trades of a market are finitely many, and each has its price.
LEMMA TimedFinite ==
  ASSUME NEW ts, NEW S, Timed(ts, S)
  PROVE  IsFiniteSet(S) /\ S \subseteq Nat /\ \A i \in S : Price(i) \in Nat
<1>1. DOMAIN Prices = 1 .. Len(Prices) /\ Len(Prices) \in Nat
      /\ \A i \in DOMAIN Prices : Price(i) \in Nat
  BY CandlesAssumption DEF Price
<1>2. IsFiniteSet(1 .. Len(Prices))
  BY <1>1, FS_Interval
<1>3. IsFiniteSet(S)
  BY <1>1, <1>2, FS_Subset DEF Timed
<1> QED BY <1>1, <1>3 DEF Timed

\* Of two trades one is before the other, and not both.
LEMMA BeforeOrders ==
  ASSUME NEW ts, NEW S, Timed(ts, S), NEW i \in S, NEW j \in S
  PROVE  /\ i # j => Before(ts, i, j) \/ Before(ts, j, i)
         /\ ~(Before(ts, i, j) /\ Before(ts, j, i))
         /\ \A k \in S : Before(ts, i, j) /\ Before(ts, j, k) => Before(ts, i, k)
<1>1. \A k \in S : ts[k] \in Nat /\ k \in Nat
  BY TimedFinite DEF Timed
<1> QED BY <1>1 DEF Before

\* The trade before all others is the earliest.
LEMMA EarliestIs ==
  ASSUME NEW ts, NEW S, Timed(ts, S), NEW i \in S, \A j \in S \ {i} : Before(ts, i, j)
  PROVE  Earliest(ts, S) = i
<1>1. Earliest(ts, S) \in S /\ \A j \in S \ {Earliest(ts, S)} : Before(ts, Earliest(ts, S), j)
  BY DEF Earliest
<1> QED BY <1>1, BeforeOrders

\* The trade after all others is the latest.
LEMMA LatestIs ==
  ASSUME NEW ts, NEW S, Timed(ts, S), NEW i \in S, \A j \in S \ {i} : Before(ts, j, i)
  PROVE  Latest(ts, S) = i
<1>1. Latest(ts, S) \in S /\ \A j \in S \ {Latest(ts, S)} : Before(ts, j, Latest(ts, S))
  BY DEF Latest
<1> QED BY <1>1, BeforeOrders

\* Finitely many trades have an earliest: least time, then least number.
LEMMA EarliestFirst ==
  ASSUME NEW ts, NEW S, Timed(ts, S), S # {}
  PROVE  Earliest(ts, S) \in S /\ \A j \in S \ {Earliest(ts, S)} : Before(ts, Earliest(ts, S), j)
<1>1. IsFiniteSet(S) /\ S \subseteq Nat /\ \A i \in S : ts[i] \in Nat
  BY TimedFinite DEF Timed
<1> DEFINE times == {ts[i] : i \in S}
<1>2. IsFiniteSet(times) /\ times # {} /\ times \subseteq Int
  <2>1. IsFiniteSet(times)
    BY <1>1, ImageFinite, Zenon
  <2>2. times \subseteq Int
    BY <1>1
  <2>3. PICK i \in S : TRUE
    OBVIOUS
  <2>4. ts[i] \in times
    BY <2>3
  <2> HIDE DEF times
  <2> QED BY <2>1, <2>2, <2>4
<1>3. PICK t \in times : \A u \in times : t <= u
  <2> HIDE DEF times
  <2> QED BY <1>2, FiniteExtremes
<1> DEFINE ids == {i \in S : ts[i] = t}
<1>4. IsFiniteSet(ids) /\ ids # {} /\ ids \subseteq Int
  BY <1>1, FS_Subset
<1>5. PICK e \in ids : \A i \in ids : e <= i
  <2> HIDE DEF ids
  <2> QED BY <1>4, FiniteExtremes
<1>6. e \in S /\ \A j \in S \ {e} : Before(ts, e, j)
  <2> SUFFICES ASSUME NEW j \in S, j # e PROVE Before(ts, e, j)
    BY <1>5
  <2>1. ts[e] = t /\ e \in Nat /\ j \in Nat /\ t <= ts[j] /\ t \in Nat /\ ts[j] \in Nat
    BY <1>1, <1>3, <1>5
  <2>2. ts[j] = t => e <= j
    BY <1>5
  <2> QED BY <2>1, <2>2 DEF Before
<1> QED BY <1>6 DEF Earliest

\* Finitely many trades have a latest.
LEMMA LatestLast ==
  ASSUME NEW ts, NEW S, Timed(ts, S), S # {}
  PROVE  Latest(ts, S) \in S /\ \A j \in S \ {Latest(ts, S)} : Before(ts, j, Latest(ts, S))
<1>1. IsFiniteSet(S) /\ S \subseteq Nat /\ \A i \in S : ts[i] \in Nat
  BY TimedFinite DEF Timed
<1> DEFINE times == {ts[i] : i \in S}
<1>2. IsFiniteSet(times) /\ times # {} /\ times \subseteq Int
  <2>1. IsFiniteSet(times)
    BY <1>1, ImageFinite, Zenon
  <2>2. times \subseteq Int
    BY <1>1
  <2>3. PICK i \in S : TRUE
    OBVIOUS
  <2>4. ts[i] \in times
    BY <2>3
  <2> HIDE DEF times
  <2> QED BY <2>1, <2>2, <2>4
<1>3. PICK t \in times : \A u \in times : u <= t
  <2> HIDE DEF times
  <2> QED BY <1>2, FiniteExtremes
<1> DEFINE ids == {i \in S : ts[i] = t}
<1>4. IsFiniteSet(ids) /\ ids # {} /\ ids \subseteq Int
  BY <1>1, FS_Subset
<1>5. PICK e \in ids : \A i \in ids : i <= e
  <2> HIDE DEF ids
  <2> QED BY <1>4, FiniteExtremes
<1>6. e \in S /\ \A j \in S \ {e} : Before(ts, j, e)
  <2> SUFFICES ASSUME NEW j \in S, j # e PROVE Before(ts, j, e)
    BY <1>5
  <2>1. ts[e] = t /\ e \in Nat /\ j \in Nat /\ ts[j] <= t /\ t \in Nat /\ ts[j] \in Nat
    BY <1>1, <1>3, <1>5
  <2>2. ts[j] = t => j <= e
    BY <1>5
  <2> QED BY <2>1, <2>2 DEF Before
<1> QED BY <1>6 DEF Latest

\* A candle of some trades, and the one that trades S should have.
Traded == [trades : Nat \ {0}, open : Nat, high : Nat, low : Nat, close : Nat,
           first : DOMAIN Prices, last : DOMAIN Prices]
Candle == Traded \cup {NoCandle}

\* What a candle of the trades S must be.
CandleIs(ts, S, candle) ==
  IF S = {} THEN candle = NoCandle
  ELSE /\ candle \in Traded /\ candle.trades = Cardinality(S)
       /\ candle.first = Earliest(ts, S) /\ candle.last = Latest(ts, S)
       /\ candle.open = Price(candle.first) /\ candle.close = Price(candle.last)
       /\ {candle.low, candle.high} \subseteq {Price(i) : i \in S}
       /\ \A i \in S : candle.low <= Price(i) /\ Price(i) <= candle.high

\* An update of a candle is a candle.
LEMMA UpdateTyped ==
  ASSUME NEW ts, NEW candle \in Candle, NEW i \in DOMAIN Prices
  PROVE  ApplyCandleUpdate(ts, candle, i) \in Candle
<1>1. Price(i) \in Nat
  BY CandlesAssumption DEF Price
<1>2. CASE candle = NoCandle
  <2>1. candle.trades = 0
    BY <1>2 DEF NoCandle
  <2> QED BY <1>1, <2>1 DEF ApplyCandleUpdate, Candle, Traded
<1>3. CASE candle \in Traded
  <2>1. candle.trades > 0 /\ candle.trades # 0 /\ candle.trades + 1 \in Nat \ {0}
    BY <1>3 DEF Traded
  <2>2. CASE i \in {candle.first, candle.last}
    BY <1>3, <2>1, <2>2 DEF ApplyCandleUpdate, Candle
  <2>3. CASE i \notin {candle.first, candle.last}
    BY <1>1, <1>3, <2>1, <2>3 DEF ApplyCandleUpdate, Candle, Traded, Larger, Smaller
  <2> QED BY <2>2, <2>3
<1> QED BY <1>2, <1>3 DEF Candle

\* An earlier trade is applied to the candle of the later ones.
LEMMA UpdateRight ==
  ASSUME NEW ts, NEW S, Timed(ts, S), NEW x \in S, \A j \in S \ {x} : Before(ts, x, j),
         NEW candle, CandleIs(ts, S \ {x}, candle)
  PROVE  CandleIs(ts, S, ApplyCandleUpdate(ts, candle, x))
<1> DEFINE u == S \ {x}
           next == ApplyCandleUpdate(ts, candle, x)
<1>1. /\ IsFiniteSet(S) /\ S \subseteq Nat /\ \A i \in S : Price(i) \in Nat /\ i \in DOMAIN Prices
      /\ Timed(ts, u) /\ S = u \cup {x} /\ x \notin u
  BY TimedFinite DEF Timed
<1>2. Earliest(ts, S) = x
  BY EarliestIs
<1>3. Cardinality(S) = Cardinality(u) + 1 /\ Cardinality(u) \in Nat
  <2>1. IsFiniteSet(u) /\ Cardinality(u) = Cardinality(S) - 1
    BY <1>1, FS_RemoveElement
  <2>2. Cardinality(S) \in Nat /\ Cardinality(u) \in Nat
    BY <1>1, <2>1, FS_CardinalityType
  <2> QED BY <2>1, <2>2
<1>4. CASE u = {}
  <2>1. candle.trades = 0 /\ S = {x}
    <3>1. candle = NoCandle
      BY <1>4 DEF CandleIs
    <3>2. S = {x}
      BY <1>1, <1>4
    <3> QED BY <3>1, <3>2 DEF NoCandle
  <2>2. next = [trades |-> 1, open |-> Price(x), high |-> Price(x), low |-> Price(x),
                close |-> Price(x), first |-> x, last |-> x]
    BY <2>1 DEF ApplyCandleUpdate
  <2>3. Latest(ts, S) = x /\ Cardinality(S) = 1 /\ Cardinality(S) # 0
    <3>1. Cardinality(u) = 0
      BY <1>4, FS_EmptySet
    <3> QED BY <1>3, <2>1, <3>1, LatestIs
  <2> HIDE DEF next
  <2>4. x \in DOMAIN Prices /\ Price(x) \in Nat
    BY <1>1
  <2>5. next \in Traded
    BY <2>2, <2>4 DEF Traded
  <2>6. /\ next.trades = 1 /\ next.first = x /\ next.last = x /\ next.open = Price(x)
        /\ next.close = Price(x) /\ next.low = Price(x) /\ next.high = Price(x)
    BY <2>2
  <2>7. CandleIs(ts, S, next)
    BY <1>2, <2>1, <2>3, <2>4, <2>5, <2>6 DEF CandleIs
  <2> QED BY <2>7 DEF next
<1>5. CASE u # {}
  <2>1. /\ candle \in Traded /\ candle.trades = Cardinality(u)
        /\ candle.first = Earliest(ts, u) /\ candle.last = Latest(ts, u)
        /\ candle.open = Price(candle.first) /\ candle.close = Price(candle.last)
        /\ {candle.low, candle.high} \subseteq {Price(i) : i \in u}
        /\ \A i \in u : candle.low <= Price(i) /\ Price(i) <= candle.high
    BY <1>5 DEF CandleIs
  <2>2. Earliest(ts, u) \in u /\ Latest(ts, u) \in u
    BY <1>1, <1>5, EarliestFirst, LatestLast
  <2>3. /\ x \notin {candle.first, candle.last}
        /\ Before(ts, x, candle.first) /\ ~Before(ts, candle.last, x)
    <3>1. candle.first \in S \ {x} /\ candle.last \in S \ {x}
      BY <2>1, <2>2
    <3>2. Before(ts, x, candle.first) /\ Before(ts, x, candle.last)
      BY <3>1
    <3>3. ~Before(ts, candle.last, x)
      BY <3>1, <3>2, BeforeOrders
    <3> QED BY <3>1, <3>2, <3>3
  <2>4. candle.trades > 0 /\ candle.trades # 0 /\ candle.trades \in Nat
    BY <2>1 DEF Traded
  <2>5. next = [trades |-> candle.trades + 1, open |-> Price(x),
                high |-> Larger(candle.high, Price(x)), low |-> Smaller(candle.low, Price(x)),
                close |-> candle.close, first |-> x, last |-> candle.last]
    BY <2>3, <2>4 DEF ApplyCandleUpdate
  <2>6. Latest(ts, S) = candle.last
    <3>1. \A j \in u \ {candle.last} : Before(ts, j, candle.last)
      BY <1>1, <1>5, <2>1, LatestLast
    <3>2. Before(ts, x, candle.last) /\ candle.last \in S
      BY <1>1, <2>1, <2>2
    <3>3. \A j \in S \ {candle.last} : Before(ts, j, candle.last)
      BY <1>1, <3>1, <3>2
    <3> QED BY <3>2, <3>3, LatestIs
  <2>7. /\ candle.low \in Nat /\ candle.high \in Nat /\ Price(x) \in Nat
        /\ candle.low \in {Price(i) : i \in u} /\ candle.high \in {Price(i) : i \in u}
    BY <1>1, <2>1 DEF Traded
  <2>8. /\ next.low \in {Price(i) : i \in S} /\ next.high \in {Price(i) : i \in S}
        /\ next.low \in Nat /\ next.high \in Nat
        /\ next.low <= candle.low /\ next.low <= Price(x)
        /\ candle.high <= next.high /\ Price(x) <= next.high
    <3> HIDE DEF next
    <3> QED BY <1>1, <2>5, <2>7 DEF Larger, Smaller
  <2>9. \A i \in S : next.low <= Price(i) /\ Price(i) <= next.high
    <3> HIDE DEF next
    <3> SUFFICES ASSUME NEW i \in S PROVE next.low <= Price(i) /\ Price(i) <= next.high
      OBVIOUS
    <3>1. CASE i = x
      BY <2>8, <3>1
    <3>2. CASE i \in u
      BY <1>1, <2>1, <2>7, <2>8, <3>2
    <3> QED BY <1>1, <3>1, <3>2
  <2>10. next \in Traded
    <3> HIDE DEF next
    <3>1. candle.trades + 1 \in Nat \ {0} /\ candle.close \in Nat /\ candle.last \in DOMAIN Prices
          /\ x \in DOMAIN Prices /\ Price(x) \in Nat
      BY <1>1, <2>1, <2>4 DEF Traded
    <3>2. next.high = Larger(candle.high, Price(x)) /\ next.low = Smaller(candle.low, Price(x))
      BY <2>5
    <3> QED BY <2>5, <2>8, <3>1, <3>2 DEF Traded
  <2> HIDE DEF next
  <2>11. /\ next.trades = Cardinality(S) /\ next.first = x /\ next.last = candle.last
         /\ next.open = Price(x) /\ next.close = Price(candle.last)
    BY <1>3, <2>1, <2>5
  <2>12. CandleIs(ts, S, next)
    BY <1>2, <2>6, <2>8, <2>9, <2>10, <2>11 DEF CandleIs
  <2> QED BY <2>12 DEF next
<1> QED BY <1>4, <1>5

\* The candles CandleOf goes through.
CandleRecurrence(g, ts, S) ==
  g = [s \in SUBSET S |-> IF s = {} THEN NoCandle
                          ELSE ApplyCandleUpdate(ts, g[s \ {Earliest(ts, s)}], Earliest(ts, s))]

\* CandleOf goes over its trades from the latest to the earliest.
LEMMA CandleRuns ==
  ASSUME NEW ts, NEW S, Timed(ts, S)
  PROVE  \E g : CandleRecurrence(g, ts, S) /\ CandleOf(ts, S) = g[S]
<1> DEFINE F == [p \in S \X Candle |-> ApplyCandleUpdate(ts, p[2], p[1])]
           ch == [s \in SUBSET S |-> Earliest(ts, s)]
<1>1. NoCandle \in Candle
  BY DEF Candle
<1>2. F \in [S \X Candle -> Candle]
  BY UpdateTyped DEF Timed
<1>3. ASSUME NEW s \in SUBSET S, s # {} PROVE ch[s] \in s
  <2>1. Timed(ts, s)
    BY DEF Timed
  <2> QED BY <1>3, <2>1, EarliestFirst
<1>4. PICK g \in [SUBSET S -> Candle] : Folds(g, S, NoCandle, F, ch)
  <2> HIDE DEF F, ch
  <2> QED BY <1>1, <1>2, <1>3, TimedFinite, FoldExists
<1>5. \A s \in SUBSET S :
        g[s] = IF s = {} THEN NoCandle
               ELSE ApplyCandleUpdate(ts, g[s \ {Earliest(ts, s)}], Earliest(ts, s))
  <2> SUFFICES ASSUME NEW s \in SUBSET S
               PROVE  g[s] = IF s = {} THEN NoCandle
                             ELSE ApplyCandleUpdate(ts, g[s \ {Earliest(ts, s)}], Earliest(ts, s))
    OBVIOUS
  <2>1. CASE s = {}
    BY <1>4, <2>1 DEF Folds
  <2>2. CASE s # {}
    <3>1. ch[s] = Earliest(ts, s) /\ ch[s] \in S /\ g[s \ {ch[s]}] \in Candle
      BY <1>3, <1>4, <2>2
    <3>2. g[s] = F[<<ch[s], g[s \ {ch[s]}]>>]
      <4> HIDE DEF F, ch
      <4> QED BY <1>4, <2>2 DEF Folds
    <3> QED BY <2>2, <3>1, <3>2
  <2> QED BY <2>1, <2>2
<1>6. CandleRecurrence(g, ts, S)
  BY <1>4, <1>5 DEF CandleRecurrence
<1>7. CandleRecurrence(CHOOSE f : CandleRecurrence(f, ts, S), ts, S)
  BY <1>6, Zenon
<1>8. CandleOf(ts, S) = (CHOOSE f : CandleRecurrence(f, ts, S))[S]
  BY DEF CandleOf, MapThenFoldSet, CandleRecurrence
<1> QED BY <1>7, <1>8

\* The candle of some trades: what a read folds from the newest to the oldest
\* is their candle in the order they were made.
THEOREM CandleRight ==
  ASSUME NEW ts, NEW S, Timed(ts, S)
  PROVE  CandleIs(ts, S, CandleOf(ts, S))
<1>1. PICK g : CandleRecurrence(g, ts, S) /\ CandleOf(ts, S) = g[S]
  BY CandleRuns
<1>2. \A s \in SUBSET S :
        /\ IsFiniteSet(s) /\ Cardinality(s) \in Nat /\ Timed(ts, s)
        /\ Cardinality(s) = 0 <=> s = {}
  <2>1. IsFiniteSet(S)
    BY TimedFinite
  <2> QED BY <2>1, FS_Subset, FS_CardinalityType, FS_EmptySet DEF Timed
<1> DEFINE T == {n \in Nat : \A s \in SUBSET S : Cardinality(s) = n => CandleIs(ts, s, g[s])}
<1>3. 0 \in T
  <2> SUFFICES ASSUME NEW s \in SUBSET S, Cardinality(s) = 0 PROVE CandleIs(ts, s, g[s])
    OBVIOUS
  <2>1. s = {} /\ g[s] = NoCandle
    BY <1>1, <1>2 DEF CandleRecurrence
  <2> QED BY <2>1 DEF CandleIs
<1>4. ASSUME NEW n \in Nat, n \in T PROVE n + 1 \in T
  <2> SUFFICES ASSUME NEW s \in SUBSET S, Cardinality(s) = n + 1 PROVE CandleIs(ts, s, g[s])
    OBVIOUS
  <2> DEFINE x == Earliest(ts, s)
  <2>1. s # {} /\ Timed(ts, s) /\ IsFiniteSet(s)
    BY <1>2
  <2>2. x \in s /\ \A j \in s \ {x} : Before(ts, x, j)
    BY <2>1, EarliestFirst
  <2>3. g[s] = ApplyCandleUpdate(ts, g[s \ {x}], x)
    BY <1>1, <2>1 DEF CandleRecurrence
  <2> HIDE DEF x
  <2>4. s \ {x} \in SUBSET S /\ Cardinality(s \ {x}) = n
    BY <2>1, <2>2, FS_RemoveElement
  <2>5. CandleIs(ts, s \ {x}, g[s \ {x}])
    BY <1>4, <2>4
  <2> QED BY <2>1, <2>2, <2>3, <2>5, UpdateRight
<1>5. Cardinality(S) \in T
  <2> HIDE DEF T
  <2>1. Cardinality(S) \in Nat
    BY <1>2
  <2> QED BY <1>3, <1>4, <2>1, SetInduction
<1> QED BY <1>1, <1>5

----------------------------------------------------------------------------
(* The points of a read.                                                   *)

\* A time is in a bucket or after its start, or before its end.
LEMMA BucketSpan ==
  ASSUME NEW t \in Nat, NEW b \in Int
  PROVE  /\ Bucket(t) \in Nat /\ StartOf(b) \in Int /\ EndOf(b) \in Int
         /\ t >= StartOf(b) <=> Bucket(t) >= b
         /\ t <= EndOf(b) <=> Bucket(t) <= b
         /\ t > EndOf(b) <=> Bucket(t) > b
         /\ t < StartOf(b) <=> Bucket(t) < b
<1> DEFINE q == t \div BucketMs
<1>1. BucketMs \in Nat \ {0}
  BY CandlesAssumption
<1>2. q \in Nat /\ q * BucketMs <= t /\ t < q * BucketMs + BucketMs
  BY <1>1
<1> HIDE DEF q
<1>3. ASSUME NEW x \in Int, NEW y \in Int PROVE x <= y => x * BucketMs <= y * BucketMs
  BY <1>1
<1>4. ASSUME NEW x \in Int, NEW y \in Int PROVE x < y => x * BucketMs + BucketMs <= y * BucketMs
  <2>1. (x + 1) * BucketMs = x * BucketMs + BucketMs
    BY <1>1
  <2>2. x < y => x + 1 <= y
    OBVIOUS
  <2> QED BY <1>3, <2>1, <2>2
<1>5. b * BucketMs \in Int /\ q * BucketMs \in Int
  BY <1>1, <1>2
<1>6. q >= b => t >= b * BucketMs
  BY <1>2, <1>3, <1>5
<1>7. q < b => t < b * BucketMs
  BY <1>1, <1>2, <1>4, <1>5
<1>8. q > b => t > b * BucketMs + BucketMs - 1
  BY <1>1, <1>2, <1>4, <1>5
<1>9. q <= b => t <= b * BucketMs + BucketMs - 1
  BY <1>1, <1>2, <1>3, <1>5
<1>10. Bucket(t) = q /\ StartOf(b) = b * BucketMs /\ EndOf(b) = b * BucketMs + BucketMs - 1
  BY DEF Bucket, StartOf, EndOf, q
<1> QED BY <1>1, <1>2, <1>5, <1>6, <1>7, <1>8, <1>9, <1>10

\* The first and the last time of a bucket are in it.
LEMMA BucketEnds ==
  ASSUME NEW b \in Nat
  PROVE  /\ StartOf(b) \in Nat /\ EndOf(b) \in Nat /\ StartOf(b) <= EndOf(b)
         /\ Bucket(StartOf(b)) = b /\ Bucket(EndOf(b)) = b
<1>1. BucketMs \in Nat \ {0} /\ b * BucketMs \in Nat
  BY CandlesAssumption
<1>2. StartOf(b) \in Nat /\ EndOf(b) \in Nat /\ StartOf(b) <= EndOf(b)
  BY <1>1 DEF StartOf, EndOf
<1>3. Bucket(StartOf(b)) \in Nat /\ Bucket(EndOf(b)) \in Nat
  BY <1>2, BucketSpan
<1>4. Bucket(StartOf(b)) >= b /\ Bucket(EndOf(b)) <= b
  BY <1>2, BucketSpan
<1>5. Bucket(StartOf(b)) <= b /\ Bucket(EndOf(b)) >= b
  BY <1>2, BucketSpan
<1> QED BY <1>2, <1>3, <1>4, <1>5

\* Buckets follow the times.
LEMMA BucketsGrow ==
  ASSUME NEW t \in Nat, NEW u \in Nat, t <= u
  PROVE  Bucket(t) <= Bucket(u)
<1>1. Bucket(t) \in Nat /\ StartOf(Bucket(t)) \in Int
  BY BucketSpan
<1>2. t >= StartOf(Bucket(t))
  BY <1>1, BucketSpan
<1>3. u >= StartOf(Bucket(t))
  BY <1>1, <1>2
<1> QED BY <1>1, <1>3, BucketSpan

\* The watermark is one of the times known of the pool and none is later.
LEMMA WatermarkTop ==
  ASSUME NEW ts, NEW S, Timed(ts, S), NEW raw \in Nat
  PROVE  LET w == MarketWatermark(ts, S, raw) IN
         /\ w \in {0, raw} \cup {ts[i] : i \in S} /\ w \in Nat
         /\ raw <= w /\ \A i \in S : ts[i] <= w
<1> DEFINE times == {ts[i] : i \in S}
           known == {0, raw} \cup times
<1>1. IsFiniteSet(times) /\ times \subseteq Nat
  <2>1. IsFiniteSet(times)
    BY TimedFinite, ImageFinite, Zenon
  <2> QED BY <2>1 DEF Timed
<1>2. IsFiniteSet(known) /\ known \subseteq Nat /\ known # {}
  <2>1. IsFiniteSet({0, raw})
    <3>1. IsFiniteSet({} \cup {0}) /\ IsFiniteSet(({} \cup {0}) \cup {raw})
      BY FS_EmptySet, FS_AddElement
    <3>2. ({} \cup {0}) \cup {raw} = {0, raw}
      OBVIOUS
    <3> QED BY <3>1, <3>2
  <2>2. IsFiniteSet({0, raw} \cup times)
    BY <1>1, <2>1, FS_Union
  <2> HIDE DEF times
  <2> QED BY <1>1, <2>2
<1>3. \E m \in known : \A x \in known : x <= m
  <2> HIDE DEF known
  <2>1. known \subseteq Int
    BY <1>2
  <2> QED BY <1>2, <2>1, FiniteExtremes
<1>4. MarketWatermark(ts, S, raw) = CHOOSE m \in known : \A x \in known : x <= m
  BY Zenon DEF MarketWatermark
<1>5. /\ MarketWatermark(ts, S, raw) \in known
      /\ \A x \in known : x <= MarketWatermark(ts, S, raw)
  <2> HIDE DEF known
  <2> QED BY <1>3, <1>4
<1>6. raw \in known /\ \A i \in S : ts[i] \in known
  OBVIOUS
<1> QED BY <1>2, <1>5, <1>6

\* The watermark never goes back while the market grows.
LEMMA WatermarkGrows ==
  ASSUME NEW ts, NEW S, Timed(ts, S), NEW raw \in Nat,
         NEW ts1, NEW S1, Timed(ts1, S1), NEW raw1 \in Nat,
         S \subseteq S1, \A i \in S : ts1[i] = ts[i], raw <= raw1
  PROVE  MarketWatermark(ts, S, raw) <= MarketWatermark(ts1, S1, raw1)
<1> DEFINE w == MarketWatermark(ts, S, raw)
           w1 == MarketWatermark(ts1, S1, raw1)
<1>1. w \in {0, raw} \cup {ts[i] : i \in S} /\ w \in Nat
  BY WatermarkTop
<1>2. w1 \in Nat /\ raw1 <= w1 /\ \A i \in S1 : ts1[i] <= w1
  BY WatermarkTop
<1>7. \A i \in S : ts[i] \in Nat /\ i \in S1 /\ ts1[i] \in Nat
  BY DEF Timed
<1>8. SUFFICES w <= w1
  OBVIOUS
<1> HIDE DEF w, w1
<1>3. CASE w = 0
  BY <1>1, <1>2, <1>3
<1>4. CASE w = raw
  BY <1>1, <1>2, <1>4
<1>5. CASE \E i \in S : w = ts[i]
  BY <1>1, <1>2, <1>5, <1>7
<1> QED BY <1>1, <1>3, <1>4, <1>5

\* A set of one member has one sequence.
LEMMA OneSeq ==
  ASSUME NEW x
  PROVE  SetToSeq({x}) = <<x>>
<1>1. Cardinality({x}) = 1 /\ 1 .. 1 = {1}
  BY FS_Singleton
<1>2. <<x>> \in [1 .. 1 -> {x}] /\ IsInjective(<<x>>)
  BY <1>1 DEF IsInjective
<1>3. \A f \in [1 .. 1 -> {x}] : f = <<x>>
  <2> SUFFICES ASSUME NEW f \in [1 .. 1 -> {x}] PROVE f = <<x>>
    OBVIOUS
  <2>1. f \in Seq({x}) /\ Len(f) = 1 /\ f[1] = x
    OBVIOUS
  <2> QED BY <2>1
<1> QED BY <1>1, <1>2, <1>3 DEF SetToSeq

\* The empty set has the empty sequence.
LEMMA NoSeq == SetToSeq({}) = <<>>
<1>1. Cardinality({}) = 0 /\ 1 .. 0 = {}
  BY FS_EmptySet
<1>2. <<>> \in [1 .. 0 -> {}] /\ IsInjective(<<>>)
  BY <1>1 DEF IsInjective
<1>3. \A f \in [1 .. 0 -> {}] : f = <<>>
  BY <1>1
<1> QED BY <1>1, <1>2, <1>3 DEF SetToSeq

\* The trades of a bucket.
RowsOf(ts, S, b) == {i \in S : Bucket(ts[i]) = b}

\* The last trade before a time is the one CloseBefore reads.
LEMMA PreviousIs ==
  ASSUME NEW ts, NEW S, Timed(ts, S), NEW x,
         NEW e \in S, ts[e] < x, \A j \in S : ts[j] < x /\ j # e => Before(ts, j, e)
  PROVE  PreviousTrade(ts, S, x) = {e}
<1> DEFINE early == {i \in S : ts[i] < x}
           previous == {i \in early : \A j \in early : i = j \/ Before(ts, j, i)}
<1>1. e \in early /\ \A j \in early \ {e} : Before(ts, j, e)
  OBVIOUS
<1>2. e \in previous
  BY <1>1
<1>3. ASSUME NEW i \in previous PROVE i = e
  <2>1. i \in S /\ (i = e \/ Before(ts, e, i)) /\ (i # e => Before(ts, i, e))
    BY <1>1
  <2> QED BY <2>1, BeforeOrders
<1>4. PreviousTrade(ts, S, x) = previous
  BY Zenon DEF PreviousTrade
<1> QED BY <1>2, <1>3, <1>4

\* The close before a bucket: of the latest trade of the bucket before it, if
\* that has any, and else the close before that one.
LEMMA CloseMoves ==
  ASSUME NEW ts, NEW S, Timed(ts, S), NEW b \in Nat
  PROVE  /\ RowsOf(ts, S, b) # {} =>
              PreviousTrade(ts, S, StartOf(b + 1)) = {Latest(ts, RowsOf(ts, S, b))}
         /\ RowsOf(ts, S, b) = {} =>
              PreviousTrade(ts, S, StartOf(b + 1)) = PreviousTrade(ts, S, StartOf(b))
<1> DEFINE R == RowsOf(ts, S, b)
<1>1. \A i \in S : ts[i] \in Nat
  BY DEF Timed
<1>2. \A i \in S : /\ Bucket(ts[i]) \in Nat
                   /\ ts[i] < StartOf(b + 1) <=> Bucket(ts[i]) < b + 1
                   /\ ts[i] < StartOf(b) <=> Bucket(ts[i]) < b
  BY <1>1, BucketSpan
<1>3. ASSUME R # {} PROVE PreviousTrade(ts, S, StartOf(b + 1)) = {Latest(ts, R)}
  <2>1. Timed(ts, R) /\ R \subseteq S
    BY DEF Timed, RowsOf
  <2>2. Latest(ts, R) \in R /\ \A j \in R \ {Latest(ts, R)} : Before(ts, j, Latest(ts, R))
    BY <1>3, <2>1, LatestLast
  <2> DEFINE e == Latest(ts, R)
  <2>3. e \in S /\ Bucket(ts[e]) = b
    BY <2>2 DEF RowsOf
  <2>4. \A j \in R \ {e} : Before(ts, j, e)
    BY <2>2
  <2> HIDE DEF e
  <2>5. ts[e] < StartOf(b + 1)
    BY <1>2, <2>3
  <2>6. ASSUME NEW j \in S, ts[j] < StartOf(b + 1), j # e PROVE Before(ts, j, e)
    <3>1. CASE Bucket(ts[j]) = b
      BY <2>4, <2>6, <3>1 DEF RowsOf
    <3>2. CASE Bucket(ts[j]) < b
      <4>1. ts[j] < StartOf(b) /\ ~(ts[e] < StartOf(b)) /\ StartOf(b) \in Int
            /\ ts[j] \in Nat /\ ts[e] \in Nat
        BY <1>1, <1>2, <2>3, <3>2, BucketSpan
      <4> QED BY <4>1 DEF Before
    <3> QED BY <1>2, <2>6, <3>1, <3>2
  <2>7. PreviousTrade(ts, S, StartOf(b + 1)) = {e}
    BY <2>3, <2>5, <2>6, PreviousIs
  <2> QED BY <2>7 DEF e
<1>4. ASSUME R = {} PROVE PreviousTrade(ts, S, StartOf(b + 1)) = PreviousTrade(ts, S, StartOf(b))
  <2>1. \A i \in S : ts[i] < StartOf(b + 1) <=> ts[i] < StartOf(b)
    BY <1>2, <1>4 DEF RowsOf
  <2>2. {i \in S : ts[i] < StartOf(b + 1)} = {i \in S : ts[i] < StartOf(b)}
    BY <2>1
  <2> QED BY <2>2 DEF PreviousTrade
<1> QED BY <1>3, <1>4

----------------------------------------------------------------------------
\* Points, what a read knows of the close, and a read in progress.
PointRec == [bucket : Nat, open : Nat, high : Nat, low : Nat, close : Nat,
             trades : Nat, final : BOOLEAN]
Closes == {{}} \cup {{n} : n \in Nat}
Partial == [points : Seq(PointRec), close : Closes]

\* What a read makes of a bucket is a point of that bucket.
LEMMA PointTyped ==
  ASSUME NEW b \in Nat, NEW w
  PROVE  /\ \A candle \in Traded : /\ Point(b, candle, w) \in PointRec
                                   /\ Point(b, candle, w).trades = candle.trades
                                   /\ Point(b, candle, w).bucket = b
         /\ \A c \in Nat : /\ EmptyPoint(b, c, w) \in PointRec
                           /\ EmptyPoint(b, c, w).trades = 0
                           /\ EmptyPoint(b, c, w).bucket = b
<1>1. BucketFinal(b, w) \in BOOLEAN
  BY DEF BucketFinal
<1>2. ASSUME NEW candle \in Traded
      PROVE  /\ Point(b, candle, w) \in PointRec
             /\ Point(b, candle, w).trades = candle.trades
             /\ Point(b, candle, w).bucket = b
  <2>1. /\ candle.open \in Nat /\ candle.high \in Nat /\ candle.low \in Nat
        /\ candle.close \in Nat /\ candle.trades \in Nat
    BY DEF Traded
  <2> QED BY <1>1, <2>1 DEF Point, PointRec
<1>3. ASSUME NEW c \in Nat
      PROVE  /\ EmptyPoint(b, c, w) \in PointRec
             /\ EmptyPoint(b, c, w).trades = 0
             /\ EmptyPoint(b, c, w).bucket = b
  BY <1>1 DEF EmptyPoint, PointRec
<1> QED BY <1>2, <1>3

\* What a bucket with the trades R adds to a read.
Extends(ts, R, w, done, b, next) ==
  /\ next \in Partial
  /\ R # {} => /\ next.points = Append(done.points, Point(b, CandleOf(ts, R), w))
               /\ next.close = {Price(Latest(ts, R))}
  /\ R = {} => next.close = done.close
  /\ R = {} /\ BucketFinal(b, w) =>
       \A c \in Nat : done.close = {c} =>
          next.points = Append(done.points, EmptyPoint(b, c, w))
  /\ R = {} /\ (~BucketFinal(b, w) \/ done.close = {}) => next.points = done.points

\* One bucket of a read adds what it shows and moves the close.
LEMMA WithBucketIs ==
  ASSUME NEW ts, NEW rows, Timed(ts, rows), NEW w, NEW done \in Partial, NEW b \in Nat
  PROVE  Extends(ts, RowsOf(ts, rows, b), w, done, b, WithBucket(ts, rows, w, done, b))
<1> DEFINE R == RowsOf(ts, rows, b)
           next == WithBucket(ts, rows, w, done, b)
<1>1. Timed(ts, R) /\ R = {i \in rows : Bucket(ts[i]) = b}
  BY DEF Timed, RowsOf
<1>2. CandleIs(ts, R, CandleOf(ts, R))
  BY <1>1, CandleRight
<1>3. done.points \in Seq(PointRec) /\ done.close \in Closes
  BY DEF Partial
<1> DEFINE candle == CandleOf(ts, R)
<1>4. next = CASE candle.trades > 0 ->
                    [points |-> Append(done.points, Point(b, candle, w)),
                     close |-> {candle.close}]
               [] candle.trades = 0 /\ done.close # {} /\ BucketFinal(b, w) ->
                    [done EXCEPT !.points =
                       @ \o SetToSeq({EmptyPoint(b, c, w) : c \in done.close})]
               [] OTHER -> done
  BY DEF WithBucket, RowsOf
<1>5. CASE R # {}
  <2>1. /\ candle \in Traded /\ candle.trades > 0 /\ candle.close = Price(Latest(ts, R))
        /\ candle.close \in Nat
    <3>1. candle \in Traded /\ candle.close = Price(candle.last) /\ candle.last = Latest(ts, R)
      BY <1>2, <1>5 DEF CandleIs
    <3> QED BY <3>1 DEF Traded
  <2> HIDE DEF candle
  <2>2. ~(candle.trades = 0)
    BY <2>1
  <2>3. next = [points |-> Append(done.points, Point(b, candle, w)), close |-> {candle.close}]
    BY <1>4, <2>1, <2>2
  <2>4. next.points = Append(done.points, Point(b, candle, w)) /\ next.close = {candle.close}
    BY <2>3
  <2>5. Append(done.points, Point(b, candle, w)) \in Seq(PointRec) /\ {candle.close} \in Closes
    BY <1>3, <2>1, PointTyped DEF Closes
  <2>6. next \in Partial
    BY <2>3, <2>5 DEF Partial
  <2>7. /\ next.points = Append(done.points, Point(b, CandleOf(ts, R), w))
        /\ next.close = {Price(Latest(ts, R))}
    BY <2>1, <2>4 DEF candle
  <2> HIDE DEF next, R
  <2>8. /\ next \in Partial
        /\ next.points = Append(done.points, Point(b, CandleOf(ts, R), w))
        /\ next.close = {Price(Latest(ts, R))}
    BY <2>6, <2>7
  <2> QED BY <1>5, <2>8 DEF Extends, next, R
<1>6. CASE R = {}
  <2>1. candle.trades = 0 /\ ~(candle.trades > 0)
    BY <1>2, <1>6 DEF CandleIs, NoCandle
  <2> HIDE DEF candle
  <2>2. CASE done.close # {} /\ BucketFinal(b, w)
    <3>1. PICK c \in Nat : done.close = {c}
      BY <1>3, <2>2 DEF Closes
    <3>2. {EmptyPoint(b, x, w) : x \in done.close} = {EmptyPoint(b, c, w)}
      BY <3>1
    <3>3. SetToSeq({EmptyPoint(b, x, w) : x \in done.close}) = <<EmptyPoint(b, c, w)>>
      BY <3>2, OneSeq
    <3>4. next = [done EXCEPT !.points = @ \o <<EmptyPoint(b, c, w)>>]
      BY <1>4, <2>1, <2>2, <3>3
    <3>5. EmptyPoint(b, c, w) \in PointRec
      BY <3>1, PointTyped
    <3>6. done.points \o <<EmptyPoint(b, c, w)>> = Append(done.points, EmptyPoint(b, c, w))
          /\ Append(done.points, EmptyPoint(b, c, w)) \in Seq(PointRec)
      BY <1>3, <3>5
    <3>7. next.points = Append(done.points, EmptyPoint(b, c, w)) /\ next.close = done.close
          /\ next \in Partial
      <4> HIDE DEF next
      <4>1. done = [points |-> done.points, close |-> done.close]
        BY DEF Partial
      <4>2. next = [points |-> done.points \o <<EmptyPoint(b, c, w)>>, close |-> done.close]
        BY <3>4, <4>1
      <4> QED BY <1>3, <3>6, <4>2 DEF Partial
    <3>8. \A x \in Nat : done.close = {x} => x = c
      BY <3>1
    <3> HIDE DEF next, R
    <3>9. /\ next \in Partial /\ next.close = done.close
          /\ \A x \in Nat : done.close = {x} =>
                next.points = Append(done.points, EmptyPoint(b, x, w))
      BY <3>7, <3>8
    <3> QED BY <1>6, <2>2, <3>9 DEF Extends, next, R
  <2>3. CASE ~(done.close # {} /\ BucketFinal(b, w))
    <3>1. next = done
      BY <1>4, <2>1, <2>3
    <3>2. \A x \in Nat : done.close # {x} \/ ~BucketFinal(b, w)
      BY <2>3
    <3> HIDE DEF next, R
    <3>3. next \in Partial /\ next.close = done.close /\ next.points = done.points
      BY <3>1
    <3> QED BY <1>6, <2>3, <3>2, <3>3 DEF Extends, next, R
  <2> QED BY <2>2, <2>3
<1> QED BY <1>5, <1>6

\* The greatest number up to n is n.
LEMMA MaxPrefix ==
  ASSUME NEW n \in Nat \ {0}
  PROVE  Max(1 .. n) = n /\ (1 .. n) \ {n} = 1 .. n - 1
<1>1. n \in 1 .. n /\ \A y \in 1 .. n : n >= y
  OBVIOUS
<1>2. ASSUME NEW x \in 1 .. n, \A y \in 1 .. n : x >= y PROVE x = n
  <2>1. x >= n /\ x <= n /\ x \in Int
    BY <1>1, <1>2
  <2> QED BY <2>1
<1>3. Max(1 .. n) = n
  BY <1>1, <1>2 DEF Max
<1> QED BY <1>3

\* A nonempty set of indices has its greatest in it.
LEMMA MaxInPrefix ==
  ASSUME NEW n \in Nat, NEW s \in SUBSET (1 .. n), s # {}
  PROVE  Max(s) \in s
<1>1. IsFiniteSet(s) /\ s \subseteq Int
  <2>1. IsFiniteSet(1 .. n)
    BY FS_Interval
  <2>2. IsFiniteSet(s)
    BY <2>1, FS_Subset
  <2> QED BY <2>2
<1>2. PICK m \in s : \A x \in s : x <= m
  BY <1>1, FiniteExtremes
<1>3. \A x \in s : m >= x
  BY <1>1, <1>2
<1> QED BY <1>3 DEF Max

ReadRecurrence(g, ts, rows, w, base, seq) ==
  g = [s \in SUBSET (DOMAIN seq) |->
        IF s = {} THEN base
        ELSE WithBucket(ts, rows, w, g[s \ {Max(s)}], seq[Max(s)])]

\* A read of n buckets from the bucket a on, out of the rows.
ReadOf(ts, rows, w, base, n, a) ==
  FoldLeft(LAMBDA done, b : WithBucket(ts, rows, w, done, b), base,
           [k \in 1 .. n |-> a + k - 1])

ReadSteps(h, ts, rows, w, base, n, a) ==
  /\ h \in [0 .. n -> Partial] /\ h[0] = base
  /\ \A k \in 1 .. n : h[k] = WithBucket(ts, rows, w, h[k - 1], a + k - 1)
  /\ ReadOf(ts, rows, w, base, n, a) = h[n]

\* A read goes over its buckets one after the other.
LEMMA ReadRuns ==
  ASSUME NEW ts, NEW rows, Timed(ts, rows), NEW w, NEW base \in Partial,
         NEW n \in Nat, NEW a \in Nat
  PROVE  \E h : ReadSteps(h, ts, rows, w, base, n, a)
<1> DEFINE seq == [k \in 1 .. n |-> a + k - 1]
           F == [p \in (1 .. n) \X Partial |-> WithBucket(ts, rows, w, p[2], seq[p[1]])]
           ch == [s \in SUBSET (1 .. n) |-> Max(s)]
<1>0. ASSUME NEW done \in Partial, NEW b \in Nat
      PROVE  WithBucket(ts, rows, w, done, b) \in Partial
  BY WithBucketIs DEF Extends
<1>1. DOMAIN seq = 1 .. n /\ \A k \in 1 .. n : seq[k] \in Nat /\ seq[k] = a + k - 1
  OBVIOUS
<1> HIDE DEF seq
<1>2. F \in [(1 .. n) \X Partial -> Partial]
  BY <1>1, <1>0
<1>3. \A s \in SUBSET (1 .. n) : s # {} => ch[s] \in s
  BY MaxInPrefix
<1>4. PICK g \in [SUBSET (1 .. n) -> Partial] : Folds(g, 1 .. n, base, F, ch)
  <2> HIDE DEF F, ch
  <2>1. IsFiniteSet(1 .. n)
    BY FS_Interval
  <2> QED BY <1>2, <1>3, <2>1, FoldExists
<1>5. \A s \in SUBSET (1 .. n) :
        g[s] = IF s = {} THEN base ELSE WithBucket(ts, rows, w, g[s \ {Max(s)}], seq[Max(s)])
  <2> SUFFICES ASSUME NEW s \in SUBSET (1 .. n)
               PROVE  g[s] = IF s = {} THEN base
                             ELSE WithBucket(ts, rows, w, g[s \ {Max(s)}], seq[Max(s)])
    OBVIOUS
  <2>1. CASE s = {}
    BY <1>4, <2>1 DEF Folds
  <2>2. CASE s # {}
    <3>1. ch[s] = Max(s) /\ ch[s] \in 1 .. n /\ g[s \ {ch[s]}] \in Partial
      BY <1>3, <1>4, <2>2
    <3>2. g[s] = F[<<ch[s], g[s \ {ch[s]}]>>]
      <4> HIDE DEF F, ch
      <4> QED BY <1>4, <2>2 DEF Folds
    <3> QED BY <2>2, <3>1, <3>2
  <2> QED BY <2>1, <2>2
<1>6. ReadRecurrence(g, ts, rows, w, base, seq)
  BY <1>1, <1>4, <1>5 DEF ReadRecurrence
<1> DEFINE f == CHOOSE f : ReadRecurrence(f, ts, rows, w, base, seq)
<1>7. ReadRecurrence(f, ts, rows, w, base, seq)
  BY <1>6, Zenon
<1>8. ReadOf(ts, rows, w, base, n, a) = f[1 .. n]
  BY <1>1 DEF ReadOf, FoldLeft, MapThenFoldSet, ReadRecurrence, seq
<1> HIDE DEF f
<1> DEFINE h == [k \in 0 .. n |-> f[1 .. k]]
<1>9. h[0] = base
  <2>1. 1 .. 0 = {} /\ {} \in SUBSET (1 .. n)
    OBVIOUS
  <2> QED BY <1>1, <1>7, <2>1 DEF ReadRecurrence
<1>10. ASSUME NEW k \in 1 .. n PROVE h[k] = WithBucket(ts, rows, w, h[k - 1], a + k - 1)
  <2>1. 1 .. k \in SUBSET (1 .. n) /\ 1 .. k # {} /\ k \in Nat \ {0} /\ k - 1 \in 0 .. n
    OBVIOUS
  <2>2. f[1 .. k] = WithBucket(ts, rows, w, f[(1 .. k) \ {Max(1 .. k)}], seq[Max(1 .. k)])
    BY <1>1, <1>7, <2>1 DEF ReadRecurrence
  <2>3. Max(1 .. k) = k /\ (1 .. k) \ {k} = 1 .. k - 1
    BY <2>1, MaxPrefix
  <2>4. f[1 .. k] = WithBucket(ts, rows, w, f[1 .. k - 1], a + k - 1)
    BY <1>1, <2>2, <2>3
  <2> QED BY <2>1, <2>4
<1>11. h \in [0 .. n -> Partial]
  <2> DEFINE T == {k \in Nat : k <= n => h[k] \in Partial}
  <2>1. 0 \in T
    BY <1>9
  <2>2. ASSUME NEW k \in Nat, k \in T PROVE k + 1 \in T
    <3> SUFFICES ASSUME k + 1 <= n PROVE h[k + 1] \in Partial
      OBVIOUS
    <3> HIDE DEF h
    <3>1. h[k] \in Partial /\ k + 1 \in 1 .. n /\ (k + 1) - 1 = k /\ a + k \in Nat
          /\ a + (k + 1) - 1 = a + k
      BY <2>2
    <3>2. h[k + 1] = WithBucket(ts, rows, w, h[k], a + k)
      BY <1>10, <3>1
    <3> QED BY <1>0, <3>1, <3>2
  <2>3. \A k \in Nat : k \in T
    <3> HIDE DEF T
    <3> QED BY <2>1, <2>2, SetInduction
  <2>4. \A k \in 0 .. n : h[k] \in Partial
    <3> HIDE DEF h
    <3> QED BY <2>3
  <2>5. \E dom : h = [k \in dom |-> h[k]] /\ dom = 0 .. n
    OBVIOUS
  <2> HIDE DEF h
  <2> QED BY <2>4, <2>5
<1>12. h[n] = f[1 .. n]
  OBVIOUS
<1> HIDE DEF h
<1> QED BY <1>8, <1>9, <1>10, <1>11, <1>12 DEF ReadSteps

\* What a read shows of a bucket, of the trades S.
Shown(ts, S, w, b) ==
  IF RowsOf(ts, S, b) # {} THEN {Point(b, CandleOf(ts, RowsOf(ts, S, b)), w)}
  ELSE {EmptyPoint(b, Price(i), w) :
          i \in {j \in PreviousTrade(ts, S, StartOf(b)) : BucketFinal(b, w)}}

PointRight(p, ts, S, w, b) ==
  /\ p \in PointRec /\ p.bucket = b
  /\ p.final = BucketFinal(b, w) /\ (p.final \/ RowsOf(ts, S, b) # {})
  /\ p.trades = Cardinality(RowsOf(ts, S, b))
  /\ RowsOf(ts, S, b) # {} =>
        /\ p.open = Price(Earliest(ts, RowsOf(ts, S, b)))
        /\ p.close = Price(Latest(ts, RowsOf(ts, S, b)))
        /\ {p.low, p.high} \subseteq {Price(i) : i \in RowsOf(ts, S, b)}
        /\ \A i \in RowsOf(ts, S, b) : p.low <= Price(i) /\ Price(i) <= p.high

\* What a read shows of a bucket is right.
LEMMA ShownRight ==
  ASSUME NEW ts, NEW S, Timed(ts, S), NEW w, NEW b \in Nat, NEW p \in Shown(ts, S, w, b)
  PROVE  PointRight(p, ts, S, w, b)
<1> DEFINE R == RowsOf(ts, S, b)
<1>1. Timed(ts, R) /\ R \subseteq S /\ \A i \in S : Price(i) \in Nat
  BY TimedFinite DEF Timed, RowsOf
<1>2. CASE R # {}
  <2>1. CandleIs(ts, R, CandleOf(ts, R))
    BY <1>1, CandleRight
  <2> DEFINE candle == CandleOf(ts, R)
  <2>2. p = Point(b, candle, w)
    BY <1>2 DEF Shown
  <2>3. candle \in Traded
    BY <1>2, <2>1 DEF CandleIs
  <2> HIDE DEF candle
  <2>4. /\ p \in PointRec /\ p.bucket = b /\ p.final = BucketFinal(b, w)
        /\ p.trades = candle.trades /\ p.open = candle.open /\ p.close = candle.close
        /\ p.low = candle.low /\ p.high = candle.high
    <3>1. p \in PointRec
      BY <2>2, <2>3, PointTyped
    <3> QED BY <2>2, <3>1 DEF Point
  <2>5. /\ p.trades = Cardinality(R) /\ p.open = Price(Earliest(ts, R))
        /\ p.close = Price(Latest(ts, R))
        /\ {p.low, p.high} \subseteq {Price(i) : i \in R}
        /\ \A i \in R : p.low <= Price(i) /\ Price(i) <= p.high
    BY <1>2, <2>1, <2>4 DEF CandleIs, candle
  <2> QED BY <1>2, <2>4, <2>5 DEF PointRight
<1>3. CASE R = {}
  <2>1. PICK i \in PreviousTrade(ts, S, StartOf(b)) : /\ BucketFinal(b, w)
                                                      /\ p = EmptyPoint(b, Price(i), w)
    BY <1>3 DEF Shown
  <2>2. i \in S
    BY <2>1 DEF PreviousTrade
  <2>3. p \in PointRec /\ p.bucket = b /\ p.trades = 0
    BY <1>1, <2>1, <2>2, PointTyped
  <2>4. p.final = BucketFinal(b, w) /\ BucketFinal(b, w)
    BY <2>1 DEF EmptyPoint
  <2>5. Cardinality(R) = 0
    BY <1>3, FS_EmptySet
  <2> QED BY <1>3, <2>3, <2>4, <2>5 DEF PointRight
<1> QED BY <1>2, <1>3

\* Points in the order of their buckets.
InOrder(points) == \A m, n \in DOMAIN points : m < n => points[m].bucket < points[n].bucket

\* A point after all others keeps a read in order.
LEMMA AppendGrows ==
  ASSUME NEW D, NEW points \in Seq(D), NEW x
  PROVE  /\ ToSet(Append(points, x)) = ToSet(points) \cup {x}
         /\ InOrder(points) /\ (\A p \in ToSet(points) : p.bucket < x.bucket) =>
              InOrder(Append(points, x))
<1> DEFINE more == Append(points, x)
<1>1. /\ Len(points) \in Nat /\ DOMAIN points = 1 .. Len(points)
      /\ DOMAIN more = 1 .. Len(points) + 1 /\ more[Len(points) + 1] = x
      /\ \A n \in DOMAIN points : more[n] = points[n]
  OBVIOUS
<1> HIDE DEF more
<1>2. ToSet(more) = ToSet(points) \cup {x}
  <2>1. \A n \in DOMAIN more : n \in DOMAIN points \/ n = Len(points) + 1
    BY <1>1
  <2>2. Len(points) + 1 \in DOMAIN more /\ \A n \in DOMAIN points : n \in DOMAIN more
    BY <1>1
  <2>3. ASSUME NEW y \in ToSet(more) PROVE y \in ToSet(points) \cup {x}
    BY <1>1, <2>1 DEF ToSet
  <2>4. ASSUME NEW y \in ToSet(points) \cup {x} PROVE y \in ToSet(more)
    BY <1>1, <2>2 DEF ToSet
  <2> QED BY <2>3, <2>4
<1>3. ASSUME InOrder(points), \A p \in ToSet(points) : p.bucket < x.bucket
      PROVE  InOrder(more)
  <2> SUFFICES ASSUME NEW m \in DOMAIN more, NEW n \in DOMAIN more, m < n
               PROVE  more[m].bucket < more[n].bucket
    BY DEF InOrder
  <2>1. m \in DOMAIN points
    BY <1>1
  <2>2. CASE n \in DOMAIN points
    BY <1>1, <1>3, <2>1, <2>2 DEF InOrder
  <2>3. CASE n = Len(points) + 1
    BY <1>1, <1>3, <2>1, <2>3 DEF ToSet
  <2> QED BY <1>1, <2>2, <2>3
<1> QED BY <1>2, <1>3 DEF more

ReadTo(ts, S, w, a, n, done) ==
  /\ done \in Partial
  /\ done.close = {Price(i) : i \in PreviousTrade(ts, S, StartOf(a + n))}
  /\ \A p : p \in ToSet(done.points) <=> \E b \in a .. a + n - 1 : p \in Shown(ts, S, w, b)
  /\ InOrder(done.points)

\* A read that is right up to a bucket is right with this bucket.
LEMMA ReadGrows ==
  ASSUME NEW ts, NEW S, Timed(ts, S), NEW w, NEW rows, rows \subseteq S,
         NEW a \in Nat, NEW n \in Nat, RowsOf(ts, rows, a + n) = RowsOf(ts, S, a + n),
         NEW done, ReadTo(ts, S, w, a, n, done)
  PROVE  ReadTo(ts, S, w, a, n + 1, WithBucket(ts, rows, w, done, a + n))
<1> DEFINE b == a + n
           R == RowsOf(ts, S, b)
           next == WithBucket(ts, rows, w, done, b)
           close == {Price(i) : i \in PreviousTrade(ts, S, StartOf(b))}
<1>0. Timed(ts, rows) /\ b \in Nat /\ done \in Partial /\ done.points \in Seq(PointRec)
      /\ a + (n + 1) = b + 1 /\ a + (n + 1) - 1 = b
  BY DEF Timed, ReadTo, Partial
<1>1. Extends(ts, R, w, done, b, next)
  <2>1. RowsOf(ts, rows, b) = R
    OBVIOUS
  <2> HIDE DEF b, R
  <2>2. Extends(ts, RowsOf(ts, rows, b), w, done, b, next)
    BY <1>0, WithBucketIs
  <2> QED BY <2>1, <2>2
<1>2. done.close = close
  BY DEF ReadTo
<1>3. next.close = {Price(i) : i \in PreviousTrade(ts, S, StartOf(b + 1))}
  <2>1. CASE R # {}
    <3>1. PreviousTrade(ts, S, StartOf(b + 1)) = {Latest(ts, R)}
      BY <1>0, <2>1, CloseMoves
    <3>2. {Price(i) : i \in {Latest(ts, R)}} = {Price(Latest(ts, R))}
      OBVIOUS
    <3> QED BY <1>1, <2>1, <3>1, <3>2 DEF Extends
  <2>2. CASE R = {}
    <3>1. PreviousTrade(ts, S, StartOf(b + 1)) = PreviousTrade(ts, S, StartOf(b))
      BY <1>0, <2>2, CloseMoves
    <3>2. next.close = close
      BY <1>1, <1>2, <2>2 DEF Extends
    <3> QED BY <3>1, <3>2
  <2> QED BY <2>1, <2>2
<1> HIDE DEF next
<1>4. /\ ToSet(next.points) = ToSet(done.points) \cup Shown(ts, S, w, b)
      /\ \/ next.points = done.points
         \/ \E x \in Shown(ts, S, w, b) : next.points = Append(done.points, x)
  <2>1. CASE R # {}
    <3>1. Shown(ts, S, w, b) = {Point(b, CandleOf(ts, R), w)}
      BY <2>1 DEF Shown
    <3> HIDE DEF R, b
    <3>2. next.points = Append(done.points, Point(b, CandleOf(ts, R), w))
      BY <1>1, <2>1 DEF Extends
    <3>3. ToSet(next.points) = ToSet(done.points) \cup {Point(b, CandleOf(ts, R), w)}
      BY <1>0, <3>2, AppendGrows
    <3> QED BY <3>1, <3>2, <3>3
  <2>2. CASE R = {} /\ BucketFinal(b, w) /\ done.close # {}
    <3>1. PICK c \in Nat : done.close = {c}
      BY <1>0, <2>2 DEF Partial, Closes
    <3>2. Shown(ts, S, w, b) = {EmptyPoint(b, c, w)}
      <4>1. Shown(ts, S, w, b) = {EmptyPoint(b, Price(i), w) : i \in PreviousTrade(ts, S, StartOf(b))}
        BY <2>2 DEF Shown
      <4>2. \A i \in PreviousTrade(ts, S, StartOf(b)) : Price(i) = c
        BY <1>2, <3>1
      <4>3. PICK i \in PreviousTrade(ts, S, StartOf(b)) : Price(i) = c
        BY <1>2, <3>1
      <4> HIDE DEF b
      <4> QED BY <4>1, <4>2, <4>3
    <3> HIDE DEF R, b
    <3>3. next.points = Append(done.points, EmptyPoint(b, c, w))
      BY <1>1, <2>2, <3>1 DEF Extends
    <3>4. ToSet(next.points) = ToSet(done.points) \cup {EmptyPoint(b, c, w)}
      BY <1>0, <3>3, AppendGrows
    <3> QED BY <3>2, <3>3, <3>4
  <2>3. CASE R = {} /\ (~BucketFinal(b, w) \/ done.close = {})
    <3>1. next.points = done.points
      BY <1>1, <2>3 DEF Extends
    <3>2. PreviousTrade(ts, S, StartOf(b)) = {} \/ ~BucketFinal(b, w)
      BY <1>2, <2>3
    <3>3. Shown(ts, S, w, b) = {}
      BY <2>3, <3>2 DEF Shown
    <3> QED BY <3>1, <3>3
  <2> QED BY <2>1, <2>2, <2>3
<1>6. /\ \A p : p \in ToSet(done.points) <=> \E d \in a .. b - 1 : p \in Shown(ts, S, w, d)
      /\ InOrder(done.points)
  BY DEF ReadTo
<1>5. \A p : p \in ToSet(next.points) <=> \E d \in a .. b : p \in Shown(ts, S, w, d)
  <2>1. \A d : d \in a .. b <=> d \in a .. b - 1 \/ d = b
    BY <1>0
  <2>2. ASSUME NEW p
        PROVE  (\E d \in a .. b : p \in Shown(ts, S, w, d)) <=>
                 (\E d \in a .. b - 1 : p \in Shown(ts, S, w, d)) \/ p \in Shown(ts, S, w, b)
    <3> HIDE DEF b
    <3> QED BY <2>1, Zenon
  <2> HIDE DEF b
  <2>3. \A p : p \in ToSet(next.points) <=> p \in ToSet(done.points) \/ p \in Shown(ts, S, w, b)
    BY <1>4
  <2> QED BY <1>6, <2>2, <2>3, Zenon
<1>7. InOrder(next.points)
  <2>1. ASSUME NEW x \in Shown(ts, S, w, b), next.points = Append(done.points, x)
        PROVE  InOrder(next.points)
    <3>1. x.bucket = b
      BY <1>0, ShownRight DEF PointRight
    <3>2. ASSUME NEW p \in ToSet(done.points) PROVE p.bucket < x.bucket
      <4>1. PICK d \in a .. b - 1 : p \in Shown(ts, S, w, d)
        BY <1>6
      <4>2. d \in Nat /\ d < b
        BY <1>0
      <4>3. p.bucket = d
        BY <4>1, <4>2, ShownRight DEF PointRight
      <4> QED BY <3>1, <4>2, <4>3
    <3> QED BY <1>0, <1>6, <2>1, <3>2, AppendGrows
  <2> QED BY <1>4, <1>6, <2>1
<1>8. /\ next \in Partial
      /\ next.close = {Price(i) : i \in PreviousTrade(ts, S, StartOf(a + (n + 1)))}
      /\ \A p : p \in ToSet(next.points) <=>
                  \E d \in a .. a + (n + 1) - 1 : p \in Shown(ts, S, w, d)
      /\ InOrder(next.points)
  BY <1>0, <1>1, <1>3, <1>4, <1>5, <1>6, <1>7 DEF Extends
<1> QED BY <1>8 DEF ReadTo, next

\* The trades up to a time.
Known(ts, S, to) == {i \in S : ts[i] <= to}

\* A read from the start of a bucket shows each bucket by itself, of the
\* trades up to its end.
LEMMA PointsAre ==
  ASSUME NEW ts, NEW S, Timed(ts, S), NEW raw, NEW a \in Nat, NEW to \in Nat, StartOf(a) <= to
  PROVE  /\ Points(ts, S, raw, StartOf(a), to) \in Seq(PointRec)
         /\ InOrder(Points(ts, S, raw, StartOf(a), to))
         /\ \A p : p \in ToSet(Points(ts, S, raw, StartOf(a), to)) <=>
              \E b \in a .. Bucket(to) :
                 p \in Shown(ts, Known(ts, S, to), MarketWatermark(ts, S, raw), b)
<1> DEFINE from == StartOf(a)
           rows == TradeRows(ts, S, from, to)
           w == MarketWatermark(ts, S, raw)
           K == Known(ts, S, to)
           base == [points |-> <<>>, close |-> {Price(i) : i \in PreviousTrade(ts, S, from)}]
           n == Bucket(to) - a + 1
<1>1. /\ Timed(ts, K) /\ Timed(ts, rows) /\ rows \subseteq K
      /\ \A i \in S : ts[i] \in Nat /\ Price(i) \in Nat
  <2>1. \A i \in S : ts[i] \in Nat /\ Price(i) \in Nat
    BY TimedFinite DEF Timed
  <2>2. rows = {i \in S : ts[i] \in from .. to}
    BY DEF TradeRows
  <2>3. from \in Int
    BY BucketEnds
  <2> HIDE DEF rows
  <2> QED BY <2>1, <2>2, <2>3 DEF Timed, Known
<1>2. from \in Nat /\ Bucket(from) = a /\ Bucket(to) \in Nat /\ a <= Bucket(to) /\ n \in Nat
  <2>1. from \in Nat /\ Bucket(from) = a
    BY BucketEnds
  <2>2. Bucket(to) \in Nat /\ a <= Bucket(to)
    BY BucketSpan
  <2> HIDE DEF from
  <2> QED BY <2>1, <2>2
<1>3. PreviousTrade(ts, S, from) = PreviousTrade(ts, K, from)
  <2>1. \A i \in S : ts[i] < from => ts[i] <= to
    BY <1>1, <1>2
  <2>2. {i \in S : ts[i] < from} = {i \in K : ts[i] < from}
    BY <2>1 DEF Known
  <2> QED BY <2>2 DEF PreviousTrade
<1>4. base \in Partial
  <2>1. CASE {i \in S : ts[i] < from} = {}
    <3>1. PreviousTrade(ts, S, from) = {}
      BY <2>1 DEF PreviousTrade
    <3>2. base.close = {}
      BY <3>1
    <3>3. base = [points |-> <<>>, close |-> {}]
      BY <3>2
    <3> HIDE DEF base
    <3>4. <<>> \in Seq(PointRec) /\ {} \in Closes
      BY DEF Closes
    <3> QED BY <3>3, <3>4 DEF Partial
  <2>2. CASE {i \in S : ts[i] < from} # {}
    <3> DEFINE early == {i \in S : ts[i] < from}
               e == Latest(ts, early)
    <3>1. Timed(ts, early)
      BY DEF Timed
    <3>2. e \in early /\ \A j \in early \ {e} : Before(ts, j, e)
      <4> HIDE DEF early
      <4> QED BY <2>2, <3>1, LatestLast DEF early
    <3>3. e \in S /\ ts[e] < from /\ \A j \in S : ts[j] < from /\ j # e => Before(ts, j, e)
      BY <3>2
    <3> HIDE DEF early, e
    <3>4. PreviousTrade(ts, S, from) = {e}
      BY <3>3, PreviousIs
    <3>5. {Price(i) : i \in PreviousTrade(ts, S, from)} = {Price(e)} /\ Price(e) \in Nat
      BY <1>1, <3>3, <3>4
    <3>6. base = [points |-> <<>>, close |-> {Price(e)}]
      BY <3>5
    <3> HIDE DEF base
    <3>7. <<>> \in Seq(PointRec) /\ {Price(e)} \in Closes
      BY <3>5 DEF Closes
    <3> QED BY <3>6, <3>7 DEF Partial
  <2> QED BY <2>1, <2>2
<1>5. Points(ts, S, raw, from, to) = ReadOf(ts, rows, w, base, n, a).points
  <2> HIDE DEF from
  <2> QED BY <1>2 DEF Points, ReadOf
<1>6. PICK h : ReadSteps(h, ts, rows, w, base, n, a)
  <2> HIDE DEF rows, w, base, n
  <2>1. Timed(ts, rows) /\ n \in Nat
    BY <1>1, <1>2
  <2> QED BY <1>4, <2>1, ReadRuns, Zenon
<1> DEFINE T == {k \in Nat : k <= n => ReadTo(ts, K, w, a, k, h[k])}
<1>7. 0 \in T
  <2>0. h[0] = base
    BY <1>6 DEF ReadSteps
  <2>1. /\ h[0] \in Partial /\ a + 0 = a
        /\ h[0].close = {Price(i) : i \in PreviousTrade(ts, K, StartOf(a + 0))}
    BY <1>2, <1>3, <1>4, <2>0
  <2>2. ToSet(h[0].points) = {} /\ InOrder(h[0].points) /\ a .. a + 0 - 1 = {}
    BY <2>0 DEF ToSet, InOrder
  <2> HIDE DEF K, w, n
  <2>3. ReadTo(ts, K, w, a, 0, h[0])
    BY <2>1, <2>2 DEF ReadTo
  <2> QED BY <2>3
<1>8. ASSUME NEW k \in Nat, k \in T PROVE k + 1 \in T
  <2> SUFFICES ASSUME k + 1 <= n PROVE ReadTo(ts, K, w, a, k + 1, h[k + 1])
    OBVIOUS
  <2>1. ReadTo(ts, K, w, a, k, h[k]) /\ k + 1 \in 1 .. n /\ (k + 1) - 1 = k
        /\ a + (k + 1) - 1 = a + k /\ a + k \in Nat /\ a + k <= Bucket(to) /\ a <= a + k
    BY <1>2, <1>8
  <2>2. h[k + 1] = WithBucket(ts, rows, w, h[k], a + k)
    <3> HIDE DEF n, rows, w
    <3> QED BY <1>6, <2>1 DEF ReadSteps
  <2>3. RowsOf(ts, rows, a + k) = RowsOf(ts, K, a + k)
    <3> DEFINE b == a + k
    <3>1. \A i \in S : Bucket(ts[i]) = b => ts[i] >= from
      <4>1. \A t \in Nat : t >= StartOf(a) <=> Bucket(t) >= a
        BY BucketSpan
      <4> QED BY <1>1, <2>1, <4>1
    <3>2. \A i \in S : ts[i] \in from .. to <=> ts[i] >= from /\ ts[i] <= to
      BY <1>1, <1>2
    <3> HIDE DEF b, from
    <3>3. \A i \in S : Bucket(ts[i]) = b => (i \in rows <=> i \in K)
      BY <3>1, <3>2 DEF TradeRows, Known
    <3>4. rows \subseteq S /\ K \subseteq S
      BY DEF TradeRows, Known
    <3> HIDE DEF rows, K
    <3>5. RowsOf(ts, rows, b) = RowsOf(ts, K, b)
      BY <3>3, <3>4 DEF RowsOf
    <3> QED BY <3>5 DEF b
  <2> HIDE DEF rows, K, w, n
  <2>4. ReadTo(ts, K, w, a, k + 1, WithBucket(ts, rows, w, h[k], a + k))
    BY <1>1, <2>1, <2>3, ReadGrows
  <2> QED BY <2>2, <2>4
<1>9. ReadTo(ts, K, w, a, n, h[n])
  <2>1. \A k \in Nat : k \in T
    <3> HIDE DEF T
    <3> QED BY <1>7, <1>8, SetInduction
  <2>2. n \in Nat /\ n <= n
    BY <1>2
  <2> HIDE DEF n, K, w
  <2> QED BY <2>1, <2>2
<1>10. Points(ts, S, raw, from, to) = h[n].points /\ a + n - 1 = Bucket(to)
  BY <1>2, <1>5, <1>6 DEF ReadSteps
<1> HIDE DEF from, K, w, n
<1>11. h[n] \in Partial /\ h[n].points \in Seq(PointRec)
  BY <1>9 DEF ReadTo, Partial
<1>12. /\ Points(ts, S, raw, from, to) \in Seq(PointRec)
       /\ InOrder(Points(ts, S, raw, from, to))
       /\ \A p : p \in ToSet(Points(ts, S, raw, from, to)) <=>
            \E b \in a .. Bucket(to) : p \in Shown(ts, K, w, b)
  BY <1>9, <1>10, <1>11 DEF ReadTo
<1> QED BY <1>12 DEF from, K, w

\* What is known by the end of a bucket is all of it.
LEMMA ShownWhole ==
  ASSUME NEW ts, NEW S, Timed(ts, S), NEW w, NEW b \in Nat, NEW to \in Nat, EndOf(b) <= to
  PROVE  /\ RowsOf(ts, Known(ts, S, to), b) = RowsOf(ts, S, b)
         /\ Shown(ts, Known(ts, S, to), w, b) = Shown(ts, S, w, b)
<1>1. \A i \in S : ts[i] \in Nat
  BY DEF Timed
<1>2. StartOf(b) \in Nat /\ EndOf(b) \in Nat /\ StartOf(b) <= EndOf(b)
  BY BucketEnds
<1>3. \A i \in S : Bucket(ts[i]) = b => ts[i] <= EndOf(b)
  <2>1. \A i \in S : Bucket(ts[i]) \in Nat /\ (ts[i] <= EndOf(b) <=> Bucket(ts[i]) <= b)
    BY <1>1, BucketSpan
  <2> QED BY <2>1
<1>4. \A i \in S : (Bucket(ts[i]) = b => ts[i] <= to) /\ (ts[i] < StartOf(b) => ts[i] <= to)
  BY <1>1, <1>2, <1>3
<1>5. RowsOf(ts, Known(ts, S, to), b) = RowsOf(ts, S, b)
  BY <1>4 DEF RowsOf, Known
<1>6. {i \in S : ts[i] < StartOf(b)} = {i \in Known(ts, S, to) : ts[i] < StartOf(b)}
  BY <1>4 DEF Known
<1>7. PreviousTrade(ts, S, StartOf(b)) = PreviousTrade(ts, Known(ts, S, to), StartOf(b))
  BY <1>6 DEF PreviousTrade
<1> QED BY <1>5, <1>7 DEF Shown

\* A point that no client has to take back: its bucket is one the market has
\* reached, it is final only when the market has left it, and its trades are
\* some of those of the bucket, all of them unless the read ended with the
\* first millisecond of the bucket and saw the trades of that.
FairPoint(p, ts, S, w) ==
  /\ p \in PointRec /\ p.bucket <= Bucket(w)
  /\ p.final => BucketFinal(p.bucket, w)
  /\ p.trades <= Cardinality(RowsOf(ts, S, p.bucket))
  /\ p.trades > 0 /\ (\A i \in S : ts[i] # StartOf(p.bucket)) =>
        p.trades = Cardinality(RowsOf(ts, S, p.bucket))

\* A read between two buckets, whole or up to the start of its last one, shows
\* these buckets only, and nothing the market does not have.
LEMMA PointsFair ==
  ASSUME NEW ts, NEW S, Timed(ts, S), NEW raw \in Nat, NEW a \in Nat, NEW z \in Nat, a <= z,
         NEW to \in {StartOf(z), EndOf(z)},
         NEW p \in ToSet(Points(ts, S, raw, StartOf(a), to))
  PROVE  /\ FairPoint(p, ts, S, MarketWatermark(ts, S, raw))
         /\ p.bucket \in a .. z
<1> DEFINE w == MarketWatermark(ts, S, raw)
           K == Known(ts, S, to)
<1>1. /\ StartOf(z) \in Nat /\ EndOf(z) \in Nat /\ StartOf(z) <= EndOf(z)
      /\ to \in Nat /\ Bucket(to) = z /\ StartOf(a) \in Nat
  BY BucketEnds
<1>2. StartOf(a) <= to
  <2>1. to >= StartOf(a) <=> Bucket(to) >= a
    BY <1>1, BucketSpan
  <2> QED BY <1>1, <2>1
<1>3. PICK b \in a .. z : p \in Shown(ts, K, w, b)
  BY <1>1, <1>2, PointsAre
<1>4. /\ w \in Nat /\ \A i \in S : ts[i] <= w
      /\ \A i \in S : ts[i] \in Nat
  BY WatermarkTop DEF Timed
<1>5. b \in Nat /\ Timed(ts, K) /\ K \subseteq S
  BY DEF Timed, Known
<1> HIDE DEF w
<1>6. PointRight(p, ts, K, w, b)
  <2> HIDE DEF K
  <2> QED BY <1>3, <1>5, ShownRight
<1>7. p \in PointRec /\ p.bucket = b /\ p.final = BucketFinal(b, w)
      /\ p.trades = Cardinality(RowsOf(ts, K, b))
      /\ (p.final \/ RowsOf(ts, K, b) # {})
  BY <1>6 DEF PointRight
<1>8. b <= Bucket(w)
  <2>1. CASE BucketFinal(b, w)
    <3>1. Bucket(w) > b /\ Bucket(w) \in Nat
      BY <1>4, <1>5, <2>1, BucketSpan DEF BucketFinal
    <3> QED BY <1>5, <3>1
  <2>2. CASE RowsOf(ts, K, b) # {}
    <3>1. PICK i \in S : Bucket(ts[i]) = b
      BY <1>5, <2>2 DEF RowsOf
    <3> QED BY <1>4, <3>1, BucketsGrow
  <2> QED BY <1>7, <2>1, <2>2
<1>9. Cardinality(RowsOf(ts, K, b)) <= Cardinality(RowsOf(ts, S, b))
  <2>1. RowsOf(ts, K, b) \subseteq RowsOf(ts, S, b) /\ RowsOf(ts, S, b) \subseteq S
    BY <1>5 DEF RowsOf
  <2>2. IsFiniteSet(RowsOf(ts, S, b))
    BY <2>1, TimedFinite, FS_Subset
  <2> QED BY <2>1, <2>2, FS_Subset
<1>10. ASSUME p.trades > 0, \A i \in S : ts[i] # StartOf(b)
       PROVE  p.trades = Cardinality(RowsOf(ts, S, b))
  <2>1. EndOf(b) <= to => RowsOf(ts, K, b) = RowsOf(ts, S, b)
    BY <1>1, <1>5, ShownWhole
  <2>2. CASE b < z
    <3>1. to > EndOf(b) <=> Bucket(to) > b
      BY <1>1, <1>5, BucketSpan
    <3>2. EndOf(b) \in Nat
      BY <1>5, BucketEnds
    <3> QED BY <1>1, <1>7, <2>1, <2>2, <3>1, <3>2
  <2>3. CASE b = z /\ to = EndOf(z)
    BY <1>1, <1>7, <2>1, <2>3
  <2>4. CASE b = z /\ to = StartOf(z)
    <3>1. ASSUME NEW i \in RowsOf(ts, K, b) PROVE FALSE
      <4>1. i \in S /\ ts[i] <= StartOf(b) /\ Bucket(ts[i]) = b
        BY <2>4, <3>1 DEF RowsOf, Known
      <4>2. ts[i] >= StartOf(b)
        BY <1>4, <1>5, <4>1, BucketSpan
      <4> QED BY <1>1, <1>4, <1>10, <2>4, <4>1, <4>2
    <3>2. RowsOf(ts, K, b) = {}
      BY <3>1
    <3>3. Cardinality(RowsOf(ts, K, b)) = 0
      BY <3>2, FS_EmptySet
    <3> QED BY <1>7, <1>10, <3>3
  <2>5. b \in Int /\ z \in Int /\ b <= z
    BY <1>3
  <2> QED BY <2>2, <2>3, <2>4, <2>5
<1>11. Cardinality(RowsOf(ts, K, b)) = p.trades
  BY <1>7
<1> HIDE DEF K
<1>12. FairPoint(p, ts, S, w) /\ p.bucket \in a .. z
  BY <1>3, <1>7, <1>8, <1>9, <1>10 DEF FairPoint
<1> QED BY <1>12 DEF w

----------------------------------------------------------------------------
(* What is built.                                                          *)

\* The market of a state, its watermark and the points it has.
Watermark == MarketWatermark(trades, settled, rawTime)
Fair == {p \in PointRec : FairPoint(p, trades, settled, Watermark)}
Market == Timed(trades, settled) /\ rawTime \in Nat
Lasts == -1 .. Bucket(Watermark)

\* The last bucket of a payload is the bucket of one of its points.
LEMMA LastBucketIn ==
  ASSUME NEW points \in Seq(PointRec), points # <<>>
  PROVE  \E p \in ToSet(points) : LastBucket(points) = p.bucket
<1> DEFINE n == Len(points)
           buckets == {p.bucket : p \in ToSet(points)}
           f == [k \in 1 .. n |-> points[k].bucket]
<1>1. n \in Nat /\ n # 0 /\ DOMAIN points = 1 .. n /\ \A k \in 1 .. n : points[k] \in PointRec
  OBVIOUS
<1>2. buckets = {f[k] : k \in 1 .. n} /\ buckets \subseteq Int
  <2>1. ASSUME NEW k \in 1 .. n PROVE points[k] \in ToSet(points) /\ f[k] = points[k].bucket
    BY <1>1 DEF ToSet
  <2>2. ASSUME NEW p \in ToSet(points) PROVE \E k \in 1 .. n : p = points[k] /\ p.bucket \in Int
    BY <1>1 DEF ToSet, PointRec
  <2> HIDE DEF n, f
  <2> QED BY <2>1, <2>2
<1>3. IsFiniteSet(buckets) /\ buckets # {}
  <2>1. IsFiniteSet(1 .. n)
    BY <1>1, FS_Interval
  <2>2. IsFiniteSet({f[k] : k \in 1 .. n})
    <3> HIDE DEF f, n
    <3> QED BY <2>1, ImageFinite, Zenon
  <2>3. 1 \in 1 .. n
    BY <1>1
  <2>4. points[1] \in ToSet(points)
    BY <1>1, <2>3 DEF ToSet
  <2> QED BY <1>2, <2>2, <2>4
<1>4. \E m \in buckets : \A x \in buckets : x <= m
  <2> HIDE DEF buckets
  <2> QED BY <1>2, <1>3, FiniteExtremes
<1>5. \E m \in buckets : \A p \in ToSet(points) : p.bucket <= m
  BY <1>4
<1>6. LastBucket(points) \in buckets
  BY <1>5, Zenon DEF LastBucket
<1> QED BY <1>6

\* The points of a read that ends in a bucket the market has reached, and the
\* last of their buckets.
LEMMA FairRead ==
  ASSUME Market, NEW a \in Nat, NEW z \in Nat, a <= z, NEW to \in {StartOf(z), EndOf(z)}
  PROVE  LET points == Points(trades, settled, rawTime, StartOf(a), to) IN
         /\ points \in Seq(Fair)
         /\ points # <<>> => LastBucket(points) \in Lasts
<1> DEFINE points == Points(trades, settled, rawTime, StartOf(a), to)
<1>1. Timed(trades, settled) /\ rawTime \in Nat /\ Watermark \in Nat
  BY WatermarkTop DEF Market, Watermark
<1>2. to \in Nat /\ StartOf(a) <= to
  <2>1. StartOf(z) \in Nat /\ EndOf(z) \in Nat /\ Bucket(to) = z /\ StartOf(a) \in Nat
    BY BucketEnds
  <2>2. to >= StartOf(a) <=> Bucket(to) >= a
    BY <2>1, BucketSpan
  <2> QED BY <2>1, <2>2
<1>3. points \in Seq(PointRec)
  BY <1>1, <1>2, PointsAre
<1>4. ASSUME NEW p \in ToSet(points) PROVE FairPoint(p, trades, settled, Watermark)
  BY <1>1, PointsFair DEF Watermark
<1> HIDE DEF points
<1>5. points \in Seq(Fair)
  <2>1. \A n \in DOMAIN points : points[n] \in ToSet(points)
    BY DEF ToSet
  <2>2. \A n \in 1 .. Len(points) : points[n] \in Fair
    BY <1>3, <1>4, <2>1 DEF Fair
  <2> QED BY <1>3, <2>2
<1>6. ASSUME points # <<>> PROVE LastBucket(points) \in Lasts
  <2>1. PICK p \in ToSet(points) : LastBucket(points) = p.bucket
    BY <1>3, <1>6, LastBucketIn
  <2>2. p.bucket \in Nat /\ p.bucket <= Bucket(Watermark)
    BY <1>4, <2>1 DEF FairPoint, PointRec
  <2>3. Bucket(Watermark) \in Nat
    BY <1>1, BucketSpan
  <2> QED BY <2>1, <2>2, <2>3 DEF Lasts
<1> QED BY <1>5, <1>6 DEF points

\* What a build of a stream has done so far.
Built == [seen : SUBSET Nat, last : Lasts, points : Seq(Fair)]

\* A trade event adds points the market has.
LEMMA WithTradeFair ==
  ASSUME Market, NEW i \in settled, NEW done \in Built
  PROVE  WithTrade(i, done) \in Built
<1> DEFINE b == Bucket(trades[i])
           from == IF done.last = -1 \/ b <= done.last THEN b ELSE done.last
           points == Points(trades, settled, rawTime, StartOf(from), EndOf(b))
<1>1. b \in Nat /\ done.last \in Int /\ -1 <= done.last
  <2>1. trades[i] \in Nat
    BY DEF Market, Timed
  <2>2. b \in Nat
    BY <2>1, BucketSpan
  <2>3. done.last \in Lasts
    BY DEF Built
  <2> QED BY <2>2, <2>3 DEF Lasts
<1>2. from \in Nat /\ from <= b
  <2> HIDE DEF b
  <2> QED BY <1>1
<1> HIDE DEF from, b
<1>3. /\ points \in Seq(Fair)
      /\ points # <<>> => LastBucket(points) \in Lasts
  <2>1. EndOf(b) \in {StartOf(b), EndOf(b)}
    OBVIOUS
  <2> QED BY <1>1, <1>2, <2>1, FairRead
<1>4. WithTrade(i, done) =
        IF b \in done.seen \/ points = <<>> THEN done
        ELSE [seen |-> done.seen \cup {b}, last |-> LastBucket(points),
              points |-> done.points \o points]
  BY DEF WithTrade, b, from
<1> HIDE DEF points
<1>5. done.points \o points \in Seq(Fair) /\ done.seen \cup {b} \in SUBSET Nat
  <2>1. done.points \in Seq(Fair) /\ done.seen \in SUBSET Nat
    BY DEF Built
  <2> QED BY <1>1, <1>3, <2>1
<1> QED BY <1>3, <1>4, <1>5 DEF Built

\* The states the loop over the trade events goes through.
IncrementalRecurrence(g, S, base) ==
  g = [s \in SUBSET S |-> IF s = {} THEN base
                          ELSE WithTrade(Earliest(trades, s), g[s \ {Earliest(trades, s)}])]

\* So do all trade events of a build, in whatever order they are taken.
LEMMA IncrementalFair ==
  ASSUME Market, NEW last \in Lasts, NEW ids
  PROVE  Incremental(last, ids) \in Built
<1> DEFINE S == ids \cap settled
           base == [seen |-> {}, last |-> last, points |-> <<>>]
           F == [p \in S \X Built |-> WithTrade(p[1], p[2])]
           ch == [s \in SUBSET S |-> Earliest(trades, s)]
<1>1. Timed(trades, S) /\ IsFiniteSet(S)
  <2>1. Timed(trades, S)
    BY DEF Market, Timed
  <2> QED BY <2>1, TimedFinite
<1>2. base \in Built
  BY DEF Built
<1>3. F \in [S \X Built -> Built]
  BY WithTradeFair
<1>4. ASSUME NEW s \in SUBSET S, s # {} PROVE ch[s] \in s
  <2>1. Timed(trades, s)
    BY <1>1 DEF Timed
  <2> QED BY <1>4, <2>1, EarliestFirst
<1>5. PICK g \in [SUBSET S -> Built] : Folds(g, S, base, F, ch)
  <2> HIDE DEF F, ch, base, S
  <2> QED BY <1>1, <1>2, <1>3, <1>4, FoldExists
<1>6. \A s \in SUBSET S :
        g[s] = IF s = {} THEN base
               ELSE WithTrade(Earliest(trades, s), g[s \ {Earliest(trades, s)}])
  <2> SUFFICES ASSUME NEW s \in SUBSET S
               PROVE  g[s] = IF s = {} THEN base
                             ELSE WithTrade(Earliest(trades, s), g[s \ {Earliest(trades, s)}])
    OBVIOUS
  <2> HIDE DEF base
  <2>1. CASE s = {}
    BY <1>5, <2>1 DEF Folds
  <2>2. CASE s # {}
    <3>1. ch[s] = Earliest(trades, s) /\ ch[s] \in S /\ g[s \ {ch[s]}] \in Built
      BY <1>4, <1>5, <2>2
    <3>2. g[s] = F[<<ch[s], g[s \ {ch[s]}]>>]
      <4> HIDE DEF F, ch
      <4> QED BY <1>5, <2>2 DEF Folds
    <3> QED BY <2>2, <3>1, <3>2
  <2> QED BY <2>1, <2>2
<1>7. IncrementalRecurrence(g, S, base)
  BY <1>5, <1>6 DEF IncrementalRecurrence
<1> DEFINE f == CHOOSE f : IncrementalRecurrence(f, S, base)
<1>8. IncrementalRecurrence(f, S, base)
  BY <1>7, Zenon
<1>9. Incremental(last, ids) = f[S]
  BY DEF Incremental, MapThenFoldSet, IncrementalRecurrence
<1> HIDE DEF f, base
<1> DEFINE T == {n \in Nat : \A s \in SUBSET S : Cardinality(s) = n => f[s] \in Built}
<1>10. \A s \in SUBSET S : /\ IsFiniteSet(s) /\ Cardinality(s) \in Nat
                           /\ Cardinality(s) = 0 <=> s = {}
  BY <1>1, FS_Subset, FS_CardinalityType, FS_EmptySet
<1>11. 0 \in T
  <2> SUFFICES ASSUME NEW s \in SUBSET S, Cardinality(s) = 0 PROVE f[s] \in Built
    OBVIOUS
  <2>1. s = {} /\ f[s] = base
    BY <1>8, <1>10 DEF IncrementalRecurrence
  <2> QED BY <1>2, <2>1
<1>12. ASSUME NEW n \in Nat, n \in T PROVE n + 1 \in T
  <2> SUFFICES ASSUME NEW s \in SUBSET S, Cardinality(s) = n + 1 PROVE f[s] \in Built
    OBVIOUS
  <2> DEFINE e == Earliest(trades, s)
  <2>1. s # {} /\ IsFiniteSet(s)
    BY <1>10
  <2>2. e \in s /\ ch[s] = e
    BY <1>4, <2>1
  <2>3. f[s] = WithTrade(e, f[s \ {e}])
    BY <1>8, <2>1 DEF IncrementalRecurrence
  <2> HIDE DEF e, ch
  <2>4. s \ {e} \in SUBSET S /\ Cardinality(s \ {e}) = n /\ e \in settled
    <3>1. Cardinality(s \ {e}) = Cardinality(s) - 1
      BY <2>1, <2>2, FS_RemoveElement, ZenonT(40)
    <3> QED BY <2>2, <3>1
  <2>5. f[s \ {e}] \in Built
    BY <1>12, <2>4
  <2> QED BY <2>3, <2>4, <2>5, WithTradeFair
<1>13. Cardinality(S) \in T
  <2> HIDE DEF T
  <2>1. Cardinality(S) \in Nat
    BY <1>10
  <2> QED BY <1>11, <1>12, <2>1, SetInduction
<1> QED BY <1>9, <1>13

\* The events of the queue.
Event == [type : {"settled_trade", "candle_finalized"}, id : Int]

\* The points of the buckets the market has left are points it has.
LEMMA RolloverFair ==
  ASSUME Market, NEW last \in Lasts, NEW buckets, IsFiniteSet(buckets), buckets \subseteq Int
  PROVE  /\ Rollover(last, buckets) \in Seq(Fair)
         /\ Rollover(last, buckets) # <<>> => LastBucket(Rollover(last, buckets)) \in Lasts
<1> DEFINE b == CHOOSE f \in buckets : \A g \in buckets : g <= f
           from == IF last = -1 THEN b ELSE last + 1
           over == Rollover(last, buckets)
<1>1. over = IF buckets = {} \/ b <= last THEN <<>>
             ELSE Points(trades, settled, rawTime, StartOf(from), StartOf(b))
  BY DEF Rollover
<1>2. last \in Int /\ -1 <= last
  BY DEF Lasts
<1>3. CASE buckets = {} \/ b <= last
  BY <1>1, <1>3
<1>4. CASE ~(buckets = {} \/ b <= last)
  <2>1. b \in buckets
    <3>1. \E f \in buckets : \A g \in buckets : g <= f
      BY <1>4, FiniteExtremes
    <3> QED BY <3>1
  <2> HIDE DEF b
  <2>2. b \in Nat /\ from \in Nat /\ from <= b
    <3>1. b \in Int
      BY <2>1
    <3> QED BY <1>2, <1>4, <3>1
  <2> HIDE DEF from
  <2>3. StartOf(b) \in {StartOf(b), EndOf(b)}
    OBVIOUS
  <2> DEFINE points == Points(trades, settled, rawTime, StartOf(from), StartOf(b))
  <2>4. points \in Seq(Fair) /\ (points # <<>> => LastBucket(points) \in Lasts)
    BY <2>2, <2>3, FairRead
  <2> HIDE DEF points
  <2>5. over = points
    BY <1>1, <1>4 DEF points
  <2> QED BY <2>4, <2>5
<1> QED BY <1>3, <1>4

\* The trades of the events are trades.
LEMMA IdsTyped ==
  ASSUME NEW events \in Seq(Event), NEW type
  PROVE  IsFiniteSet(IdsOf(events, type)) /\ IdsOf(events, type) \subseteq Int
<1> DEFINE n == Len(events)
           f == [k \in 1 .. n |-> events[k].id]
           all == {f[k] : k \in 1 .. n}
<1>1. n \in Nat /\ DOMAIN events = 1 .. n /\ \A k \in 1 .. n : events[k] \in Event
  OBVIOUS
<1>2. IsFiniteSet(all)
  <2>1. IsFiniteSet(1 .. n)
    BY <1>1, FS_Interval
  <2> HIDE DEF f, n
  <2> QED BY <2>1, ImageFinite, Zenon
<1>3. all \subseteq Int
  <2>1. \A k \in 1 .. n : f[k] \in Int
    BY <1>1 DEF Event
  <2> HIDE DEF f, n
  <2> QED BY <2>1
<1>4. ASSUME NEW i \in IdsOf(events, type) PROVE i \in all
  <2>1. PICK e \in ToSet(events) : i = e.id
    BY DEF IdsOf
  <2>2. PICK k \in 1 .. n : e = events[k]
    BY <1>1 DEF ToSet
  <2>3. f[k] = i
    BY <2>1, <2>2
  <2> HIDE DEF f, n
  <2> QED BY <2>3
<1>5. IdsOf(events, type) \subseteq all
  <2> HIDE DEF all
  <2> QED BY <1>4
<1> HIDE DEF all
<1> QED BY <1>2, <1>3, <1>5, FS_Subset

\* A payload shows what the market has at the time it is built.
LEMMA BuildFair ==
  ASSUME Market, NEW last \in Lasts, NEW events \in Seq(Event)
  PROVE  /\ BuildStream(last, events).points \in Seq(Fair)
         /\ BuildStream(last, events).last \in Lasts
<1> DEFINE trade == Incremental(last, IdsOf(events, "settled_trade"))
           over == Rollover(trade.last, IdsOf(events, "candle_finalized"))
<1>1. trade \in Built
  BY IncrementalFair
<1>2. trade.last \in Lasts /\ trade.points \in Seq(Fair)
  BY <1>1 DEF Built
<1> HIDE DEF trade
<1>3. over \in Seq(Fair) /\ (over # <<>> => LastBucket(over) \in Lasts)
  <2>1. /\ IsFiniteSet(IdsOf(events, "candle_finalized"))
        /\ IdsOf(events, "candle_finalized") \subseteq Int
    BY IdsTyped
  <2> QED BY <1>2, <2>1, RolloverFair
<1> HIDE DEF over
<1>4. BuildStream(last, events) =
        [points |-> trade.points \o over,
         last |-> IF over = <<>> THEN trade.last ELSE LastBucket(over)]
  BY DEF BuildStream, trade, over
<1>5. trade.points \o over \in Seq(Fair)
  BY <1>2, <1>3
<1> QED BY <1>2, <1>3, <1>4, <1>5

----------------------------------------------------------------------------
(* What a client shows.                                                    *)

\* A point, or none.
AnyPoint == PointRec \cup {NoPoint}

\* A point has a count of trades and a finality.
LEMMA AnyPointTyped ==
  ASSUME NEW x \in AnyPoint
  PROVE  x.trades \in Int /\ x.final \in BOOLEAN
<1>1. CASE x \in PointRec
  BY <1>1 DEF PointRec
<1>2. CASE x = NoPoint
  BY <1>2 DEF NoPoint
<1> QED BY <1>1, <1>2 DEF AnyPoint

\* What the merge of a payload leaves in a bucket.
Safe(points, incoming, shown, b) ==
  /\ shown[b] = points[b] \/ (shown[b] \in ToSet(incoming) /\ shown[b].bucket = b)
  /\ points[b].final => shown[b].final
  /\ (\A p \in ToSet(incoming) :
        p.bucket = b /\ p.trades > 0 => points[b].trades <= p.trades) =>
       points[b].trades <= shown[b].trades

\* What a merge may leave in the place of what is shown.
Merged(points, incoming) ==
  {shown \in [Buckets -> AnyPoint] : \A b \in Buckets : Safe(points, incoming, shown, b)}

\* One point merged: no bucket loses trades, none becomes open again, and
\* what is shown then was shown before or comes from the payload.
LEMMA MergePointSafe ==
  ASSUME NEW points \in [Buckets -> AnyPoint], NEW incoming,
         NEW shown \in Merged(points, incoming),
         NEW p \in ToSet(incoming), p \in PointRec, p.bucket \in Buckets
  PROVE  MergePoint(shown, p) \in Merged(points, incoming)
<1> DEFINE c == p.bucket
           next == MergePoint(shown, p)
<1>1. shown \in [Buckets -> AnyPoint] /\ \A b \in Buckets : Safe(points, incoming, shown, b)
  BY DEF Merged
<1>2. \A x \in AnyPoint : x.trades \in Int /\ x.final \in BOOLEAN
  BY AnyPointTyped
<1>3. CASE ~ShouldOverwrite(shown[c], p)
  BY <1>3 DEF MergePoint
<1>4. CASE ShouldOverwrite(shown[c], p)
  <2>1. next = [shown EXCEPT ![c] = p]
    BY <1>4 DEF MergePoint
  <2> HIDE DEF next
  <2>2. next \in [Buckets -> AnyPoint] /\ next[c] = p
    BY <1>1, <2>1 DEF AnyPoint
  <2>3. ASSUME NEW b \in Buckets PROVE Safe(points, incoming, next, b)
    <3>1. CASE b # c
      <4>1. next[b] = shown[b]
        BY <1>1, <2>1, <3>1
      <4>2. Safe(points, incoming, shown, b)
        BY <1>1
      <4> QED BY <4>1, <4>2 DEF Safe
    <3>2. CASE b = c
      <4>1. Safe(points, incoming, shown, c)
        BY <1>1
      <4>2. /\ points[c].trades \in Int /\ shown[c].trades \in Int /\ p.trades \in Nat
            /\ p.final \in BOOLEAN /\ shown[c].final \in BOOLEAN /\ points[c].final \in BOOLEAN
        BY <1>1, <1>2 DEF PointRec
      <4>3. /\ ~(shown[c].final /\ ~p.final)
            /\ ~(shown[c].trades > 0 /\ p.trades = 0)
        BY <1>4 DEF ShouldOverwrite
      <4>4. points[c].final => next[c].final
        BY <2>2, <4>1, <4>3 DEF Safe
      <4>5. ASSUME \A q \in ToSet(incoming) :
                     q.bucket = c /\ q.trades > 0 => points[c].trades <= q.trades
            PROVE  points[c].trades <= next[c].trades
        <5>1. points[c].trades <= shown[c].trades
          BY <4>1, <4>5 DEF Safe
        <5>2. CASE p.trades > 0
          BY <2>2, <4>5, <5>2
        <5>3. CASE p.trades = 0
          BY <2>2, <4>2, <4>3, <5>1, <5>3
        <5> QED BY <4>2, <5>2, <5>3
      <4> QED BY <2>2, <3>2, <4>4, <4>5 DEF Safe
    <3> QED BY <3>1, <3>2
  <2> QED BY <2>2, <2>3 DEF Merged, next
<1> QED BY <1>3, <1>4

\* The views a payload goes through while it is merged.
MergeRecurrence(g, points, incoming) ==
  g = [s \in SUBSET (DOMAIN incoming) |->
        IF s = {} THEN points ELSE MergePoint(g[s \ {Max(s)}], incoming[Max(s)])]

\* A payload merged keeps what one point merged keeps.
LEMMA MergeSafe ==
  ASSUME NEW points \in [Buckets -> AnyPoint], NEW incoming \in Seq(PointRec),
         \A p \in ToSet(incoming) : p.bucket \in Buckets
  PROVE  Merge(points, incoming) \in Merged(points, incoming)
<1> DEFINE n == Len(incoming)
           D == Merged(points, incoming)
           S == 1 .. n
           F == [p \in S \X D |-> MergePoint(p[2], incoming[p[1]])]
           ch == [s \in SUBSET S |-> Max(s)]
<1>1. /\ n \in Nat /\ DOMAIN incoming = S /\ IsFiniteSet(S)
      /\ \A k \in S : incoming[k] \in ToSet(incoming) /\ incoming[k] \in PointRec
  <2>1. n \in Nat /\ DOMAIN incoming = S /\ \A k \in S : incoming[k] \in PointRec
    OBVIOUS
  <2>2. IsFiniteSet(S)
    BY <2>1, FS_Interval
  <2>3. \A k \in S : incoming[k] \in ToSet(incoming)
    BY <2>1 DEF ToSet
  <2> QED BY <2>1, <2>2, <2>3
<1>2. points \in D
  <2>1. \A b \in Buckets : points[b].trades \in Int
    BY AnyPointTyped
  <2>2. \A b \in Buckets : Safe(points, incoming, points, b)
    BY <2>1 DEF Safe
  <2> QED BY <2>2 DEF Merged
<1>3. ASSUME NEW k \in S, NEW shown \in D PROVE MergePoint(shown, incoming[k]) \in D
  BY <1>1, MergePointSafe
<1>4. ASSUME NEW s \in SUBSET S, s # {} PROVE Max(s) \in s
  BY <1>1, <1>4, MaxInPrefix
<1> HIDE DEF D
<1> DEFINE f == CHOOSE f : MergeRecurrence(f, points, incoming)
<1>5. MergeRecurrence(f, points, incoming)
  <2>1. F \in [S \X D -> D]
    BY <1>3
  <2>2. \A s \in SUBSET S : s # {} => ch[s] \in s
    BY <1>4
  <2>3. PICK g \in [SUBSET S -> D] : Folds(g, S, points, F, ch)
    <3> HIDE DEF F, ch, S
    <3> QED BY <1>1, <1>2, <2>1, <2>2, FoldExists
  <2>4. ASSUME NEW s \in SUBSET S
        PROVE  g[s] = IF s = {} THEN points ELSE MergePoint(g[s \ {Max(s)}], incoming[Max(s)])
    <3> HIDE DEF S
    <3>1. CASE s = {}
      BY <2>3, <3>1 DEF Folds
    <3>2. CASE s # {}
      <4>1. ch[s] = Max(s) /\ ch[s] \in S /\ g[s \ {ch[s]}] \in D
        BY <1>4, <2>3, <3>2
      <4>2. g[s] = F[<<ch[s], g[s \ {ch[s]}]>>]
        <5> HIDE DEF F, ch
        <5> QED BY <2>3, <3>2 DEF Folds
      <4> QED BY <3>2, <4>1, <4>2
    <3> QED BY <3>1, <3>2
  <2>5. MergeRecurrence(g, points, incoming)
    BY <1>1, <2>3, <2>4 DEF MergeRecurrence
  <2> QED BY <2>5, Zenon
<1>6. Merge(points, incoming) = f[S]
  BY <1>1 DEF Merge, FoldLeft, MapThenFoldSet, MergeRecurrence
<1> HIDE DEF f
<1> DEFINE T == {k \in Nat : k <= n => f[1 .. k] \in D}
<1>7. 0 \in T
  <2>1. 1 .. 0 = {} /\ {} \in SUBSET S
    OBVIOUS
  <2>2. f[1 .. 0] = points
    BY <1>1, <1>5, <2>1 DEF MergeRecurrence
  <2> QED BY <1>2, <2>2
<1>8. ASSUME NEW k \in Nat, k \in T PROVE k + 1 \in T
  <2> SUFFICES ASSUME k + 1 <= n PROVE f[1 .. k + 1] \in D
    OBVIOUS
  <2>1. /\ 1 .. k + 1 \in SUBSET S /\ 1 .. k + 1 # {} /\ k + 1 \in S /\ k <= n
        /\ k + 1 \in Nat \ {0} /\ (k + 1) - 1 = k
    <3>1. k + 1 \in 1 .. k + 1 /\ k + 1 \in S /\ \A x \in 1 .. k + 1 : x \in S
      BY <1>1
    <3>2. k <= n /\ k + 1 \in Nat \ {0} /\ (k + 1) - 1 = k
      BY <1>1
    <3> HIDE DEF S, n
    <3> QED BY <3>1, <3>2
  <2>2. Max(1 .. k + 1) = k + 1 /\ (1 .. k + 1) \ {k + 1} = 1 .. k
    BY <2>1, MaxPrefix
  <2>3. f[1 .. k + 1] = MergePoint(f[1 .. k], incoming[k + 1])
    BY <1>1, <1>5, <2>1, <2>2 DEF MergeRecurrence
  <2>4. f[1 .. k] \in D
    BY <1>8, <2>1
  <2> HIDE DEF S
  <2> QED BY <1>3, <2>1, <2>3, <2>4
<1>9. n \in T
  <2> HIDE DEF T
  <2> QED BY <1>1, <1>7, <1>8, SetInduction
<1> QED BY <1>1, <1>6, <1>9 DEF D

\* No member twice.
Distinct(s) == \A m, n \in DOMAIN s : s[m] = s[n] => m = n

\* SetToSeq lists each member once.
LEMMA SetToSeqIs ==
  ASSUME NEW S, IsFiniteSet(S)
  PROVE  SetToSeq(S) \in Seq(S) /\ Distinct(SetToSeq(S))
<1> DEFINE n == Cardinality(S)
<1>1. n \in Nat /\ \E f : f \in Bijection(1 .. n, S)
  BY FS_CardinalityType DEF ExistsBijection
<1>2. PICK f : f \in Bijection(1 .. n, S)
  BY <1>1
<1>3. f \in [1 .. n -> S] /\ IsInjective(f)
  <2> HIDE DEF n
  <2>1. f \in [1 .. n -> S] /\ \A a, b \in 1 .. n : f[a] = f[b] => a = b
    BY <1>2 DEF Bijection, Injection, IsInjective
  <2> QED BY <2>1 DEF IsInjective
<1>4. SetToSeq(S) \in [1 .. n -> S] /\ IsInjective(SetToSeq(S))
  BY <1>3 DEF SetToSeq
<1> HIDE DEF n
<1> QED BY <1>1, <1>4 DEF IsInjective, Distinct

\* Where the members of two sequences are in both together.
LEMMA ConcatAt ==
  ASSUME NEW S, NEW p \in Seq(S), NEW q \in Seq(S), NEW k \in 1 .. Len(p) + Len(q)
  PROVE  (p \o q)[k] = IF k <= Len(p) THEN p[k] ELSE q[k - Len(p)]
  OBVIOUS

\* RemoveAt takes out one connection and leaves the others once each.
LEMMA RemoveAtIs ==
  ASSUME NEW S, NEW s \in Seq(S), NEW n \in DOMAIN s, Distinct(s)
  PROVE  /\ RemoveAt(s, n) \in Seq(S) /\ Distinct(RemoveAt(s, n))
         /\ s[n] \notin ToSet(RemoveAt(s, n))
<1> DEFINE left == RemoveAt(s, n)
           l == Len(s)
<1>1. l \in Nat /\ n \in 1 .. l /\ DOMAIN s = 1 .. l /\ \A k \in 1 .. l : s[k] \in S
  OBVIOUS
<1>2. left = SubSeq(s, 1, n - 1) \o SubSeq(s, n + 1, l)
  BY DEF RemoveAt
<1>3. SubSeq(s, 1, n - 1) \in Seq(S) /\ SubSeq(s, n + 1, l) \in Seq(S)
  BY <1>1
<1>4. left \in Seq(S) /\ Len(left) = l - 1
      /\ \A k \in 1 .. l - 1 : left[k] = IF k < n THEN s[k] ELSE s[k + 1]
  <2> HIDE DEF left
  <2>1. Len(SubSeq(s, 1, n - 1)) = n - 1 /\ Len(SubSeq(s, n + 1, l)) = l - n
    BY <1>1
  <2>2. \A k \in 1 .. n - 1 : SubSeq(s, 1, n - 1)[k] = s[k]
    BY <1>1
  <2>3. \A k \in 1 .. l - n : SubSeq(s, n + 1, l)[k] = s[k + n]
    BY <1>1
  <2> DEFINE p == SubSeq(s, 1, n - 1)
             q == SubSeq(s, n + 1, l)
  <2>7. /\ p \in Seq(S) /\ q \in Seq(S) /\ Len(p) = n - 1 /\ Len(q) = l - n /\ left = p \o q
        /\ \A k \in 1 .. n - 1 : p[k] = s[k]
        /\ \A k \in 1 .. l - n : q[k] = s[k + n]
    BY <1>2, <1>3, <2>1, <2>2, <2>3
  <2> HIDE DEF p, q, l
  <2>4. left \in Seq(S) /\ Len(left) = l - 1
    <3>0. p \in Seq(S) /\ q \in Seq(S)
      BY <2>7
    <3>1. p \o q \in Seq(S)
      BY <3>0
    <3>3. Len(p \o q) = Len(p) + Len(q)
      BY <3>0
    <3>2. n - 1 + (l - n) = l - 1
      BY <1>1
    <3> QED BY <2>7, <3>1, <3>2, <3>3
  <2>5. ASSUME NEW k \in 1 .. l - 1, k < n PROVE left[k] = s[k]
    <3>0. Len(p) = n - 1 /\ Len(q) = l - n /\ l \in Nat /\ n \in 1 .. l
      BY <1>1, <2>7
    <3>1. k \in 1 .. n - 1 /\ k \in 1 .. Len(p) + Len(q) /\ k <= Len(p)
      BY <2>5, <3>0
    <3>2. left = p \o q /\ p \in Seq(S) /\ q \in Seq(S)
      BY <2>7
    <3>3. left[k] = p[k]
      BY <3>1, <3>2, ConcatAt
    <3> QED BY <2>7, <3>1, <3>3
  <2>6. ASSUME NEW k \in 1 .. l - 1, ~(k < n) PROVE left[k] = s[k + 1]
    <3>1. k - (n - 1) \in 1 .. l - n /\ (k - (n - 1)) + n = k + 1 /\ k > n - 1
      BY <1>1, <2>6
    <3>2. left[k] = q[k - (n - 1)]
      <4>1. left = p \o q /\ p \in Seq(S) /\ q \in Seq(S)
        BY <2>7
      <4>2. Len(p) = n - 1 /\ Len(q) = l - n
        BY <2>7
      <4>3. l \in Nat /\ n \in 1 .. l
        BY <1>1
      <4>4. k \in 1 .. Len(p) + Len(q) /\ ~(k <= Len(p))
        BY <2>6, <4>2, <4>3
      <4> QED BY <4>1, <4>2, <4>4, ConcatAt
    <3> QED BY <2>7, <3>1, <3>2
  <2> QED BY <2>4, <2>5, <2>6
<1> HIDE DEF left
<1>5. DOMAIN left = 1 .. l - 1
  BY <1>1, <1>4
<1>6. ASSUME NEW k \in 1 .. l - 1
      PROVE  \E m \in 1 .. l : m # n /\ left[k] = s[m] /\ m = IF k < n THEN k ELSE k + 1
  <2>1. CASE k < n
    BY <1>1, <1>4, <2>1
  <2>2. CASE ~(k < n)
    BY <1>1, <1>4, <2>2
  <2> QED BY <2>1, <2>2
<1>7. Distinct(left)
  <2> SUFFICES ASSUME NEW j \in 1 .. l - 1, NEW k \in 1 .. l - 1, left[j] = left[k]
               PROVE  j = k
    BY <1>5 DEF Distinct
  <2>1. PICK m \in 1 .. l : left[j] = s[m] /\ m = IF j < n THEN j ELSE j + 1
    BY <1>6
  <2>2. PICK p \in 1 .. l : left[k] = s[p] /\ p = IF k < n THEN k ELSE k + 1
    BY <1>6
  <2>3. m = p
    BY <1>1, <2>1, <2>2 DEF Distinct
  <2> QED BY <1>1, <2>1, <2>2, <2>3
<1>8. s[n] \notin ToSet(left)
  <2> SUFFICES ASSUME NEW k \in 1 .. l - 1, left[k] = s[n] PROVE FALSE
    BY <1>5 DEF ToSet
  <2>1. PICK m \in 1 .. l : m # n /\ left[k] = s[m]
    BY <1>6
  <2> QED BY <1>1, <2>1 DEF Distinct
<1> QED BY <1>4, <1>7, <1>8 DEF left

----------------------------------------------------------------------------
(* The invariant.                                                          *)

\* A point the market does not contradict.
SeenPoint(p, ts, S, w) ==
  /\ p \in PointRec /\ p.bucket <= Bucket(w)
  /\ p.final => BucketFinal(p.bucket, w)
  /\ p.trades <= Cardinality(RowsOf(ts, S, p.bucket))

\* The market grows: what was true of a point stays true.
LEMMA SeenStays ==
  ASSUME NEW ts, NEW S, Timed(ts, S), NEW ts1, NEW S1, Timed(ts1, S1),
         S \subseteq S1, \A i \in S : ts1[i] = ts[i],
         NEW w \in Nat, NEW w1 \in Nat, w <= w1, NEW p, SeenPoint(p, ts, S, w)
  PROVE  SeenPoint(p, ts1, S1, w1)
<1>1. p \in PointRec /\ p.bucket \in Nat /\ p.trades \in Nat
  BY DEF SeenPoint, PointRec
<1>2. Bucket(w) \in Nat /\ Bucket(w1) \in Nat /\ Bucket(w) <= Bucket(w1)
  BY BucketsGrow, BucketSpan
<1>3. EndOf(p.bucket) \in Nat
  BY <1>1, BucketEnds
<1>4. RowsOf(ts, S, p.bucket) \subseteq RowsOf(ts1, S1, p.bucket)
  BY DEF RowsOf
<1>5. IsFiniteSet(RowsOf(ts1, S1, p.bucket))
  <2>1. RowsOf(ts1, S1, p.bucket) \subseteq S1
    BY DEF RowsOf
  <2> QED BY <2>1, TimedFinite, FS_Subset
<1>6. Cardinality(RowsOf(ts, S, p.bucket)) <= Cardinality(RowsOf(ts1, S1, p.bucket))
      /\ Cardinality(RowsOf(ts, S, p.bucket)) \in Nat
      /\ Cardinality(RowsOf(ts1, S1, p.bucket)) \in Nat
  BY <1>4, <1>5, FS_Subset, FS_CardinalityType
<1> QED BY <1>1, <1>2, <1>3, <1>6 DEF SeenPoint, BucketFinal

\* The trades are timed, few enough, and the settled ones are among them.
MarketInv ==
  /\ trades \in Seq(Times) /\ Len(trades) <= MaxTrades
  /\ rawTime \in Times \cup {0} /\ settled \subseteq DOMAIN trades

\* The sink and the queue hold events.
QueueInv == sink \subseteq Int /\ queue \in Seq(Event)

\* The job is in one of its phases and has the payloads that phase needs.
JobInv ==
  /\ job \in [phase : {"idle", "building", "notifying"}, events : Seq(Event), built : Nat,
              payload : Seq(Seq(PointRec)), at : Nat]
  /\ job.phase = "building" => job.built = Len(job.payload) /\ job.built < Len(Streams)
  /\ job.phase = "notifying" => Len(job.payload) = Len(Streams) /\ job.at > 0

\* No bucket is announced as final, and none was emitted, that the market is not past.
ToldInv ==
  /\ finalized \in Int /\ finalized < Bucket(Watermark)
  /\ emitted \in [DOMAIN Streams -> Lasts]

\* A point the market has or had.
Seen(p) == SeenPoint(p, trades, settled, Watermark)

\* The payloads hold such points.
PayloadInv == \A n \in DOMAIN job.payload : \A p \in ToSet(job.payload[n]) : Seen(p)

\* The clients show such points, each at its bucket.
ViewInv ==
  /\ view \in [Clients -> [Buckets -> AnyPoint]]
  /\ \A c \in Clients, b \in Buckets :
       view[c][b] = NoPoint \/ (Seen(view[c][b]) /\ view[c][b].bucket = b)

\* Where the market has no trade in the first millisecond of a bucket, the
\* points of a payload with trades have them all at the time they were built:
\* they agree, and no client of the stream shows more.
AheadInv ==
  \A n \in DOMAIN job.payload : \A p \in ToSet(job.payload[n]) :
    p.trades > 0 /\ ~AtStart(p.bucket) =>
      /\ \A c \in Clients : StreamOf(c) = n => view[c][p.bucket].trades <= p.trades
      /\ \A q \in ToSet(job.payload[n]) :
           q.bucket = p.bucket /\ q.trades > 0 => q.trades = p.trades

\* A client has at most one connection.
ConnectedInv == connections \in Seq(Clients) /\ Distinct(connections)

\* The inductive invariant.
RealtimeInv ==
  /\ MarketInv /\ QueueInv /\ JobInv /\ ToldInv
  /\ PayloadInv /\ ViewInv /\ AheadInv /\ ConnectedInv

\* A market has its watermark, and its buckets are among those shown.
LEMMA MarketIs ==
  ASSUME MarketInv
  PROVE  /\ Market /\ Watermark \in Nat /\ Bucket(Watermark) \in Nat
         /\ MaxTime \in Nat /\ Bucket(MaxTime) \in Nat /\ Bucket(Watermark) <= Bucket(MaxTime)
         /\ 0 .. Bucket(Watermark) \subseteq Buckets
<1>1. MaxTime \in Times /\ \A t \in Times : t <= MaxTime
  <2>1. \E t \in Times : \A u \in Times : u <= t
    <3>1. IsFiniteSet(Times) /\ Times # {} /\ Times \subseteq Int
      BY RealtimeAssumption
    <3> QED BY <3>1, FiniteExtremes
  <2> QED BY <2>1 DEF MaxTime
<1>2. MaxTime \in Nat /\ Times \subseteq Nat
  BY <1>1, RealtimeAssumption
<1>3. Timed(trades, settled) /\ rawTime \in Nat /\ \A i \in settled : trades[i] \in Times
  <2>1. /\ Len(trades) \in Nat /\ DOMAIN trades = 1 .. Len(trades)
        /\ Len(trades) <= MaxTrades /\ MaxTrades \in 0 .. Len(Prices)
        /\ \A i \in DOMAIN trades : trades[i] \in Times
    BY RealtimeAssumption DEF MarketInv
  <2>2. DOMAIN Prices = 1 .. Len(Prices) /\ Len(Prices) \in Nat
    BY CandlesAssumption
  <2>3. settled \subseteq DOMAIN Prices
    BY <2>1, <2>2 DEF MarketInv
  <2>4. \A i \in settled : trades[i] \in Times
    BY <2>1 DEF MarketInv
  <2>5. rawTime \in Nat
    BY <1>2 DEF MarketInv
  <2> QED BY <1>2, <2>3, <2>4, <2>5 DEF Timed
<1>4. Watermark \in {0, rawTime} \cup {trades[i] : i \in settled} /\ Watermark \in Nat
  BY <1>3, WatermarkTop DEF Watermark
<1>5. Watermark <= MaxTime
  BY <1>1, <1>2, <1>3, <1>4 DEF MarketInv
<1>6. /\ Bucket(Watermark) \in Nat /\ Bucket(MaxTime) \in Nat
      /\ Bucket(Watermark) <= Bucket(MaxTime)
  BY <1>2, <1>4, <1>5, BucketsGrow, BucketSpan
<1> QED BY <1>2, <1>3, <1>4, <1>6 DEF Market, Buckets

\* A client listens to one of the streams.
LEMMA StreamIs ==
  ASSUME NEW c \in Clients
  PROVE  StreamOf(c) \in DOMAIN Streams
<1>1. Subscribed[c] \in ToSet(Streams)
  BY RealtimeAssumption
<1>2. \E n \in DOMAIN Streams : Streams[n] = Subscribed[c]
  BY <1>1 DEF ToSet
<1> QED BY <1>2 DEF StreamOf

\* A seen point is of a bucket that clients show.
LEMMA SeenInBuckets ==
  ASSUME MarketInv, NEW p, Seen(p)
  PROVE  p \in PointRec /\ p.bucket \in Buckets
<1>1. p \in PointRec /\ p.bucket \in Nat /\ p.bucket <= Bucket(Watermark)
  BY DEF Seen, SeenPoint, PointRec
<1>2. p.bucket \in 0 .. Bucket(Watermark)
  BY <1>1, MarketIs
<1> QED BY <1>1, <1>2, MarketIs

\* Nothing of the market changed.
LEMMA SameMarket ==
  ASSUME UNCHANGED market
  PROVE  /\ Watermark' = Watermark /\ Lasts' = Lasts
         /\ MarketInv' <=> MarketInv
         /\ \A p : Seen(p)' <=> Seen(p)
         /\ \A b : AtStart(b)' <=> AtStart(b)
<1>1. trades' = trades /\ rawTime' = rawTime /\ settled' = settled
  BY DEF market
<1>2. Watermark' = Watermark
  BY <1>1 DEF Watermark
<1>3. Lasts' = Lasts
  BY <1>2 DEF Lasts
<1> QED BY <1>1, <1>2, <1>3 DEF MarketInv, Seen, AtStart

\* The publisher rests.
LEMMA IdleFits ==
  ASSUME job' = Idle
  PROVE  JobInv' /\ PayloadInv' /\ AheadInv'
<1>1. /\ job'.phase = "idle" /\ job'.events = <<>> /\ job'.payload = <<>>
      /\ job' \in [phase : {"idle", "building", "notifying"}, events : Seq(Event), built : Nat,
                   payload : Seq(Seq(PointRec)), at : Nat]
  BY DEF Idle
<1>2. DOMAIN job'.payload = {}
  BY <1>1
<1> QED BY <1>1, <1>2 DEF JobInv, PayloadInv, AheadInv

\* The job and what is shown stay, and nothing of the market changed.
LEMMA JobStays ==
  ASSUME JobInv, PayloadInv, AheadInv, UNCHANGED market, job' = job,
         \A c \in Clients, b \in Buckets :
           view'[c][b].trades \in Int /\ view[c][b].trades \in Int
             /\ view'[c][b].trades <= view[c][b].trades,
         MarketInv
  PROVE  JobInv' /\ PayloadInv' /\ AheadInv'
<1>1. JobInv' /\ PayloadInv'
  BY SameMarket DEF JobInv, PayloadInv
<1>2. AheadInv'
  <2> SUFFICES ASSUME NEW n \in DOMAIN job.payload, NEW p \in ToSet(job.payload[n]),
                      p.trades > 0, ~AtStart(p.bucket)'
               PROVE  /\ \A c \in Clients : StreamOf(c) = n => view'[c][p.bucket].trades <= p.trades
                      /\ \A q \in ToSet(job.payload[n]) :
                           q.bucket = p.bucket /\ q.trades > 0 => q.trades = p.trades
    BY DEF AheadInv
  <2>1. ~AtStart(p.bucket)
    BY SameMarket
  <2>2. /\ \A c \in Clients : StreamOf(c) = n => view[c][p.bucket].trades <= p.trades
        /\ \A q \in ToSet(job.payload[n]) :
             q.bucket = p.bucket /\ q.trades > 0 => q.trades = p.trades
    BY <2>1 DEF AheadInv
  <2>3. p.bucket \in Buckets /\ p.trades \in Int
    <3>1. Seen(p)
      BY DEF PayloadInv
    <3> QED BY <3>1, SeenInBuckets DEF PointRec
  <2> QED BY <2>2, <2>3
<1> QED BY <1>1, <1>2

\* The step of NeverBack.
Forward ==
  \A c \in ToSet(connections) \cap ToSet(connections') : \A b \in Buckets :
    ~AtStart(b)' => /\ view'[c][b].trades >= view[c][b].trades
                    /\ view[c][b].final => view'[c][b].final

\* What a client shows of a bucket is a point or nothing.
LEMMA ViewTyped ==
  ASSUME ViewInv, NEW c \in Clients, NEW b \in Buckets
  PROVE  view[c][b] \in AnyPoint /\ view[c][b].trades \in Int /\ view[c][b].final \in BOOLEAN
<1>1. view[c][b] \in AnyPoint
  BY DEF ViewInv
<1> QED BY <1>1, AnyPointTyped

\* A step that changes no view moves no client back.
LEMMA ViewStays ==
  ASSUME ViewInv, ConnectedInv, view' = view
  PROVE  Forward
<1> SUFFICES ASSUME NEW c \in ToSet(connections), NEW b \in Buckets
             PROVE  view[c][b].trades >= view[c][b].trades
  BY DEF Forward
<1>1. c \in Clients
  BY DEF ToSet, ConnectedInv
<1>2. view[c][b].trades \in Int
  BY <1>1, ViewTyped
<1> QED BY <1>2

\* What is not changed by a step without news of the market.
LEMMA ViewSame ==
  ASSUME ViewInv, view' = view, UNCHANGED market
  PROVE  ViewInv'
BY SameMarket DEF ViewInv

\* A step that leaves the market, the finality and the emitted leaves ToldInv.
LEMMA ToldSame ==
  ASSUME ToldInv, UNCHANGED <<market, finalized, emitted>>
  PROVE  ToldInv'
<1>1. UNCHANGED market /\ finalized' = finalized /\ emitted' = emitted
  OBVIOUS
<1>2. Watermark' = Watermark /\ Lasts' = Lasts
  BY <1>1, SameMarket
<1> QED BY <1>1, <1>2 DEF ToldInv

\* A step that leaves the market, the job and the views leaves what is said of jobs.
LEMMA JobSame ==
  ASSUME RealtimeInv, UNCHANGED market, job' = job, view' = view
  PROVE  JobInv' /\ PayloadInv' /\ AheadInv'
<1>1. \A c \in Clients, b \in Buckets : view[c][b].trades \in Int
  BY ViewTyped DEF RealtimeInv
<1>2. \A c \in Clients, b \in Buckets :
        /\ view'[c][b].trades \in Int /\ view[c][b].trades \in Int
        /\ view'[c][b].trades <= view[c][b].trades
  BY <1>1
<1>3. MarketInv /\ JobInv /\ PayloadInv /\ AheadInv
  BY DEF RealtimeInv
<1> QED BY <1>2, <1>3, JobStays

\* The invariant holds initially.
LEMMA InitInv ==
  ASSUME Init
  PROVE  RealtimeInv
<1>1. /\ trades = <<>> /\ rawTime = 0 /\ settled = {} /\ sink = {} /\ queue = <<>>
      /\ finalized = -1 /\ emitted = Forgotten /\ job = Idle
      /\ connections = SetToSeq(Clients) /\ view = [c \in Clients |-> [b \in Buckets |-> NoPoint]]
  BY DEF Init
<1>2. MarketInv
  <2>1. Len(trades) = 0 /\ trades \in Seq(Times) /\ MaxTrades \in Nat
    BY <1>1, RealtimeAssumption
  <2> QED BY <1>1, <2>1 DEF MarketInv
<1>3. QueueInv
  BY <1>1 DEF QueueInv
<1>4. JobInv /\ PayloadInv /\ AheadInv
  <2>1. /\ job.phase = "idle" /\ job.payload = <<>>
        /\ job \in [phase : {"idle", "building", "notifying"}, events : Seq(Event), built : Nat,
                    payload : Seq(Seq(PointRec)), at : Nat]
    BY <1>1 DEF Idle
  <2>2. DOMAIN job.payload = {}
    BY <2>1
  <2> QED BY <2>1, <2>2 DEF JobInv, PayloadInv, AheadInv
<1>5. Bucket(Watermark) \in Nat
  BY <1>2, MarketIs
<1>6. ToldInv
  BY <1>1, <1>5 DEF ToldInv, Forgotten, Lasts
<1>7. ViewInv
  BY <1>1 DEF ViewInv, AnyPoint
<1>8. ConnectedInv
  <2>1. SetToSeq(Clients) \in Seq(Clients) /\ Distinct(SetToSeq(Clients))
    BY SetToSeqIs, RealtimeAssumption
  <2> QED BY <1>1, <2>1 DEF ConnectedInv
<1> QED BY <1>2, <1>3, <1>4, <1>6, <1>7, <1>8 DEF RealtimeInv

----------------------------------------------------------------------------
(* The market grows.                                                       *)

\* A step that only adds to the market keeps the invariant.
LEMMA MarketGrows ==
  ASSUME RealtimeInv, MarketInv',
         settled \subseteq settled', \A i \in DOMAIN trades : i \in DOMAIN trades' /\ trades'[i] = trades[i],
         rawTime <= rawTime', UNCHANGED <<queue, finalized, emitted, job, view, connections>>,
         sink' \subseteq Int
  PROVE  RealtimeInv' /\ Forward
<1>1. /\ MarketInv /\ QueueInv /\ JobInv /\ ToldInv /\ PayloadInv /\ ViewInv /\ AheadInv
      /\ ConnectedInv
  BY DEF RealtimeInv
<1>2. /\ Timed(trades, settled) /\ rawTime \in Nat /\ Watermark \in Nat
      /\ Bucket(Watermark) \in Nat
  BY <1>1, MarketIs DEF Market
<1>3. /\ Timed(trades', settled') /\ rawTime' \in Nat /\ Watermark' \in Nat
      /\ Bucket(Watermark') \in Nat
  <2>1. MarketInv => Timed(trades, settled) /\ rawTime \in Nat /\ Watermark \in Nat
                      /\ Bucket(Watermark) \in Nat
    BY MarketIs DEF Market
  <2>2. (MarketInv => Timed(trades, settled) /\ rawTime \in Nat /\ Watermark \in Nat
                       /\ Bucket(Watermark) \in Nat)'
    BY MarketIs, PTL DEF Market
  <2> QED BY <2>2
<1>4. \A i \in settled : trades'[i] = trades[i]
  BY <1>1 DEF MarketInv
<1>5. Watermark <= Watermark'
  BY <1>2, <1>3, <1>4, WatermarkGrows DEF Watermark
<1>6. Bucket(Watermark) <= Bucket(Watermark')
  BY <1>2, <1>3, <1>5, BucketsGrow
<1>7. \A p : Seen(p) => Seen(p)'
  BY <1>2, <1>3, <1>4, <1>5, SeenStays DEF Seen
<1>8. ToldInv'
  <2>1. \A l \in Lasts : l \in Lasts'
    BY <1>2, <1>3, <1>6 DEF Lasts
  <2> QED BY <1>1, <1>2, <1>3, <1>6, <2>1 DEF ToldInv
<1>9. \A b : AtStart(b) => AtStart(b)'
  BY DEF AtStart
<1>10. QueueInv' /\ JobInv' /\ ConnectedInv'
  BY <1>1 DEF QueueInv, JobInv, ConnectedInv
<1>11. PayloadInv' /\ ViewInv'
  BY <1>1, <1>7 DEF PayloadInv, ViewInv
<1>12. AheadInv'
  BY <1>1, <1>9 DEF AheadInv
<1>13. Forward
  BY <1>1, ViewStays
<1> QED BY <1>8, <1>10, <1>11, <1>12, <1>13 DEF RealtimeInv

\* A block is ingested.
LEMMA IngestStep ==
  ASSUME RealtimeInv, NEW t \in Times, NEW trade \in BOOLEAN, IngestBlock(t, trade)
  PROVE  RealtimeInv' /\ Forward
<1>1. /\ t >= rawTime /\ rawTime' = t /\ (trade => Len(trades) < MaxTrades)
      /\ trades' = IF trade THEN Append(trades, t) ELSE trades
      /\ UNCHANGED <<settled, sink, queue, finalized, emitted, job, view, connections>>
  BY DEF IngestBlock, clients
<1>2. /\ trades \in Seq(Times) /\ Len(trades) \in Nat /\ Len(trades) <= MaxTrades
      /\ MaxTrades \in Nat /\ rawTime \in Nat /\ t \in Nat /\ settled \subseteq DOMAIN trades
      /\ sink \subseteq Int
  <2>1. MarketInv /\ QueueInv
    BY DEF RealtimeInv
  <2>2. rawTime \in Nat /\ t \in Nat /\ MaxTrades \in Nat
    BY <2>1, RealtimeAssumption DEF MarketInv
  <2> QED BY <2>1, <2>2 DEF MarketInv, QueueInv
<1>3. /\ trades' \in Seq(Times) /\ Len(trades') <= MaxTrades
      /\ \A i \in DOMAIN trades : i \in DOMAIN trades' /\ trades'[i] = trades[i]
  <2>1. CASE trade
    <3>1. trades' = Append(trades, t)
      BY <1>1, <2>1
    <3>2. Append(trades, t) \in Seq(Times) /\ Len(Append(trades, t)) = Len(trades) + 1
      BY <1>2
    <3>3. \A i \in DOMAIN trades : i \in DOMAIN Append(trades, t) /\ Append(trades, t)[i] = trades[i]
      BY <1>2
    <3> QED BY <1>1, <1>2, <2>1, <3>1, <3>2, <3>3
  <2>2. CASE ~trade
    BY <1>1, <1>2, <2>2
  <2> QED BY <2>1, <2>2
<1>4. MarketInv'
  BY <1>1, <1>2, <1>3 DEF MarketInv
<1>5. settled \subseteq settled' /\ rawTime <= rawTime' /\ sink' \subseteq Int
  BY <1>1, <1>2
<1> QED BY <1>1, <1>3, <1>4, <1>5, MarketGrows

\* A batch of trades is settled.
LEMMA DeriveStep ==
  ASSUME RealtimeInv, NEW batch, Derive(batch)
  PROVE  RealtimeInv' /\ Forward
<1>1. /\ batch \subseteq DOMAIN trades \ settled /\ settled' = settled \cup batch /\ sink' = batch
      /\ UNCHANGED <<trades, rawTime, queue, finalized, emitted, job, view, connections>>
  BY DEF Derive, clients
<1>2. MarketInv
  BY DEF RealtimeInv
<1>3. DOMAIN trades \subseteq Int /\ rawTime \in Int
  <2>1. rawTime \in Nat
    BY <1>2, MarketIs DEF Market
  <2> QED BY <1>2, <2>1 DEF MarketInv
<1>4. MarketInv'
  BY <1>1, <1>2 DEF MarketInv
<1>5. settled \subseteq settled' /\ rawTime <= rawTime' /\ sink' \subseteq Int
  BY <1>1, <1>3
<1>6. \A i \in DOMAIN trades : i \in DOMAIN trades' /\ trades'[i] = trades[i]
  BY <1>1
<1> QED BY <1>1, <1>4, <1>5, <1>6, MarketGrows

\* A queue that drops its oldest event is a queue.
LEMMA PutTyped ==
  ASSUME NEW q \in Seq(Event), NEW e \in Event
  PROVE  Put(q, e) \in Seq(Event)
<1>1. MaxQueue \in Nat \ {0} /\ Len(q) \in Nat
  BY RealtimeAssumption
<1>2. CASE Len(q) < MaxQueue
  BY <1>2 DEF Put
<1>3. CASE ~(Len(q) < MaxQueue)
  <2>1. q # <<>>
    BY <1>1, <1>3
  <2>2. Tail(q) \in Seq(Event)
    BY <2>1
  <2> QED BY <1>3, <2>2 DEF Put
<1> QED BY <1>2, <1>3

\* A settled trade is published.
LEMMA SinkStep ==
  ASSUME RealtimeInv, SinkPublishes
  PROVE  RealtimeInv' /\ Forward
<1>1. PICK i \in sink : queue' = Put(queue, TradeEvent(i)) /\ sink' = sink \ {i}
  BY DEF SinkPublishes
<1>2. /\ UNCHANGED market /\ UNCHANGED <<market, finalized, emitted>>
      /\ UNCHANGED <<job, view, connections>>
  BY DEF SinkPublishes, clients
<1>3. QueueInv'
  <2>1. sink \subseteq Int /\ queue \in Seq(Event)
    BY DEF RealtimeInv, QueueInv
  <2>2. TradeEvent(i) \in Event
    BY <2>1 DEF TradeEvent, Event
  <2>3. queue' \in Seq(Event)
    BY <1>1, <2>1, <2>2, PutTyped
  <2> QED BY <1>1, <2>1, <2>3 DEF QueueInv
<1>4. JobInv' /\ PayloadInv' /\ AheadInv' /\ MarketInv' /\ ToldInv' /\ ViewInv'
  BY <1>2, JobSame, SameMarket, ToldSame, ViewSame DEF RealtimeInv
<1>5. ConnectedInv' /\ Forward
  BY <1>2, ViewStays DEF RealtimeInv, ConnectedInv
<1> QED BY <1>3, <1>4, <1>5 DEF RealtimeInv

\* The end of a bucket is published.
LEMMA FinalityStep ==
  ASSUME RealtimeInv, EmitDueEvents
  PROVE  RealtimeInv' /\ Forward
<1> DEFINE due == Bucket(Watermark) - 1
<1>1. finalized' = due /\ queue' = Put(queue, FinalEvent(due))
  BY DEF EmitDueEvents, Watermark
<1>2. UNCHANGED market /\ UNCHANGED <<sink, emitted, job, view, connections>>
  BY DEF EmitDueEvents, clients
<1>3. Bucket(Watermark) \in Nat /\ due \in Int
  BY MarketIs DEF RealtimeInv
<1> HIDE DEF due
<1>4. QueueInv'
  <2>1. sink \subseteq Int /\ queue \in Seq(Event)
    BY DEF RealtimeInv, QueueInv
  <2>2. FinalEvent(due) \in Event
    BY <1>3 DEF FinalEvent, Event
  <2>3. queue' \in Seq(Event)
    BY <1>1, <2>1, <2>2, PutTyped
  <2> QED BY <1>2, <2>1, <2>3 DEF QueueInv
<1>5. ToldInv'
  <2>1. Watermark' = Watermark /\ Lasts' = Lasts
    BY <1>2, SameMarket
  <2>2. emitted \in [DOMAIN Streams -> Lasts]
    BY DEF RealtimeInv, ToldInv
  <2>3. due < Bucket(Watermark)
    BY <1>3 DEF due
  <2> QED BY <1>1, <1>2, <1>3, <2>1, <2>2, <2>3 DEF ToldInv
<1>6. JobInv' /\ PayloadInv' /\ AheadInv' /\ MarketInv' /\ ViewInv'
  BY <1>2, JobSame, SameMarket, ViewSame DEF RealtimeInv
<1>7. ConnectedInv' /\ Forward
  BY <1>2, ViewStays DEF RealtimeInv, ConnectedInv
<1> QED BY <1>4, <1>5, <1>6, <1>7 DEF RealtimeInv

\* The worker takes the events.
LEMMA TakeStep ==
  ASSUME RealtimeInv, TakeEvents
  PROVE  RealtimeInv' /\ Forward
<1>1. job' = [Idle EXCEPT !.phase = "building", !.events = queue] /\ queue' = <<>>
  BY DEF TakeEvents
<1>2. /\ UNCHANGED market /\ UNCHANGED <<market, finalized, emitted>>
      /\ UNCHANGED <<sink, view, connections>>
  BY DEF TakeEvents, clients
<1>3. QueueInv'
  BY <1>1, <1>2 DEF RealtimeInv, QueueInv
<1>4. /\ job' = [phase |-> "building", events |-> queue, built |-> 0, payload |-> <<>>, at |-> 0]
      /\ queue \in Seq(Event)
  BY <1>1 DEF Idle, RealtimeInv, QueueInv
<1>5. JobInv' /\ PayloadInv' /\ AheadInv'
  <2>1. /\ job'.phase = "building" /\ job'.payload = <<>> /\ job'.built = 0
        /\ job' \in [phase : {"idle", "building", "notifying"}, events : Seq(Event), built : Nat,
                     payload : Seq(Seq(PointRec)), at : Nat]
    BY <1>4
  <2>2. DOMAIN job'.payload = {} /\ Len(job'.payload) = 0 /\ Len(Streams) > 0
    BY <2>1, RealtimeAssumption
  <2> QED BY <2>1, <2>2 DEF JobInv, PayloadInv, AheadInv
<1>6. MarketInv' /\ ToldInv' /\ ViewInv'
  BY <1>2, SameMarket, ToldSame, ViewSame DEF RealtimeInv
<1>7. ConnectedInv' /\ Forward
  BY <1>2, ViewStays DEF RealtimeInv, ConnectedInv
<1> QED BY <1>3, <1>5, <1>6, <1>7 DEF RealtimeInv

\* A build fails or is given up.
LEMMA BuildFailsStep ==
  ASSUME RealtimeInv, BuildFails \/ BuildTimesOut
  PROVE  RealtimeInv' /\ Forward
<1>1. /\ job' = Idle /\ UNCHANGED market /\ UNCHANGED <<sink, queue, finalized, view, connections>>
      /\ emitted' = emitted \/ emitted' = Forgotten
  BY DEF BuildFails, BuildTimesOut, clients
<1>2. Watermark' = Watermark /\ Lasts' = Lasts /\ Bucket(Watermark) \in Nat
  BY <1>1, SameMarket, MarketIs DEF RealtimeInv
<1>3. ToldInv'
  <2>1. Forgotten \in [DOMAIN Streams -> Lasts]
    BY <1>2 DEF Forgotten, Lasts
  <2> QED BY <1>1, <1>2, <2>1 DEF RealtimeInv, ToldInv
<1>4. QueueInv' /\ ConnectedInv'
  BY <1>1 DEF RealtimeInv, QueueInv, ConnectedInv
<1>5. JobInv' /\ PayloadInv' /\ AheadInv' /\ MarketInv' /\ ViewInv' /\ Forward
  BY <1>1, IdleFits, SameMarket, ViewSame, ViewStays DEF RealtimeInv
<1> QED BY <1>3, <1>4, <1>5 DEF RealtimeInv

\* The payload of one stream is built.
LEMMA BuildStep ==
  ASSUME RealtimeInv, Build
  PROVE  RealtimeInv' /\ Forward
<1> DEFINE made == BuildStream(emitted[job.built + 1], job.events)
           payload == Append(job.payload, made.points)
           n == Len(job.payload) + 1
<1>1. /\ job.phase = "building"
      /\ emitted' = [emitted EXCEPT ![job.built + 1] = made.last]
      /\ job' = IF Len(payload) < Len(Streams)
                THEN [job EXCEPT !.built = @ + 1, !.payload = payload]
                ELSE [Idle EXCEPT !.phase = "notifying", !.payload = payload, !.at = 1]
  BY DEF Build
<1>2. UNCHANGED market /\ UNCHANGED <<sink, queue, finalized, view, connections>>
  BY DEF Build, clients
<1>3. /\ job \in [phase : {"idle", "building", "notifying"}, events : Seq(Event), built : Nat,
                  payload : Seq(Seq(PointRec)), at : Nat]
      /\ job.built = Len(job.payload) /\ job.built < Len(Streams)
      /\ MarketInv /\ ToldInv /\ ViewInv /\ PayloadInv /\ AheadInv /\ ConnectedInv /\ QueueInv
  BY <1>1 DEF RealtimeInv, JobInv
<1>4. /\ job.payload \in Seq(Seq(PointRec)) /\ Len(job.payload) \in Nat
      /\ job.events \in Seq(Event) /\ Len(Streams) \in Nat
      /\ job.built + 1 \in DOMAIN Streams
  BY <1>3, RealtimeAssumption
<1>5. Market
  BY <1>3, MarketIs
<1>6. made.points \in Seq(Fair) /\ made.last \in Lasts
  <2>1. emitted[job.built + 1] \in Lasts
    BY <1>3, <1>4 DEF ToldInv
  <2> QED BY <1>4, <1>5, <2>1, BuildFair
<1> HIDE DEF made
<1>7. /\ made.points \in Seq(PointRec)
      /\ \A p \in ToSet(made.points) : FairPoint(p, trades, settled, Watermark)
  <2>1. \A k \in DOMAIN made.points : made.points[k] \in Fair
    BY <1>6
  <2>2. \A k \in DOMAIN made.points : made.points[k] \in PointRec
    BY <2>1 DEF Fair
  <2>3. made.points \in Seq(PointRec)
    BY <1>6, <2>2
  <2>4. \A p \in ToSet(made.points) : FairPoint(p, trades, settled, Watermark)
    BY <2>1 DEF ToSet, Fair
  <2> QED BY <2>3, <2>4
<1>8. /\ payload \in Seq(Seq(PointRec)) /\ Len(payload) = n /\ n \in Nat
      /\ DOMAIN payload = DOMAIN job.payload \cup {n}
      /\ payload[n] = made.points /\ \A k \in DOMAIN job.payload : payload[k] = job.payload[k]
  <2>1. payload \in Seq(Seq(PointRec)) /\ Len(payload) = n /\ n \in Nat
    BY <1>4, <1>7
  <2>2. DOMAIN payload = 1 .. n /\ DOMAIN job.payload = 1 .. Len(job.payload)
    BY <1>4, <2>1
  <2>3. 1 .. n = (1 .. Len(job.payload)) \cup {n}
    BY <1>4
  <2>4. payload[n] = made.points /\ \A k \in 1 .. Len(job.payload) : payload[k] = job.payload[k]
    BY <1>4, <1>7
  <2> HIDE DEF payload, n
  <2> QED BY <2>1, <2>2, <2>3, <2>4
<1> HIDE DEF payload
<1>9. job'.payload = payload
  BY <1>1, <1>3 DEF Idle
<1>10. JobInv'
  <2>1. CASE n < Len(Streams)
    <3>1. job' = [job EXCEPT !.built = @ + 1, !.payload = payload]
      BY <1>1, <1>8, <2>1
    <3>2. job' = [phase |-> "building", events |-> job.events, built |-> job.built + 1,
                  payload |-> payload, at |-> job.at]
      BY <1>1, <1>3, <3>1
    <3>3. /\ job' \in [phase : {"idle", "building", "notifying"}, events : Seq(Event), built : Nat,
                       payload : Seq(Seq(PointRec)), at : Nat]
          /\ job'.phase = "building" /\ job'.built = n
      BY <1>3, <1>4, <1>8, <3>2
    <3> QED BY <1>8, <1>9, <2>1, <3>3 DEF JobInv
  <2>2. CASE ~(n < Len(Streams))
    <3>1. job' = [phase |-> "notifying", events |-> <<>>, built |-> 0, payload |-> payload, at |-> 1]
      BY <1>1, <1>8, <2>2 DEF Idle
    <3>2. n = Len(Streams)
      BY <1>3, <1>4, <2>2
    <3>3. /\ job' \in [phase : {"idle", "building", "notifying"}, events : Seq(Event), built : Nat,
                       payload : Seq(Seq(PointRec)), at : Nat]
          /\ job'.phase = "notifying" /\ job'.at = 1
      BY <1>8, <3>1
    <3>4. Len(job'.payload) = Len(Streams)
      BY <1>8, <1>9, <3>2
    <3> HIDE DEF n
    <3> QED BY <3>3, <3>4 DEF JobInv
  <2> QED BY <2>1, <2>2
<1>11. \A p \in ToSet(made.points) : Seen(p)
  BY <1>7 DEF FairPoint, Seen, SeenPoint
<1>12. PayloadInv'
  <2>1. \A k \in DOMAIN payload : \A p \in ToSet(payload[k]) : Seen(p)
    BY <1>3, <1>8, <1>11 DEF PayloadInv
  <2> QED BY <1>2, <1>9, <2>1, SameMarket DEF PayloadInv
<1>13. ASSUME NEW p \in ToSet(made.points), p.trades > 0, ~AtStart(p.bucket)
       PROVE  /\ p.trades = Cardinality(RowsOf(trades, settled, p.bucket))
              /\ \A c \in Clients : view[c][p.bucket].trades <= p.trades
  <2>1. \A i \in settled : trades[i] # StartOf(p.bucket)
    BY <1>3, <1>13 DEF AtStart, MarketInv
  <2>2. p.trades = Cardinality(RowsOf(trades, settled, p.bucket)) /\ p \in PointRec
    BY <1>7, <1>13, <2>1 DEF FairPoint
  <2>3. p.bucket \in Buckets
    BY <1>3, <1>11, SeenInBuckets
  <2>4. ASSUME NEW c \in Clients PROVE view[c][p.bucket].trades <= p.trades
    <3>1. CASE view[c][p.bucket] = NoPoint
      BY <1>13, <2>2, <3>1 DEF NoPoint, PointRec
    <3>2. CASE Seen(view[c][p.bucket]) /\ view[c][p.bucket].bucket = p.bucket
      BY <2>2, <3>2 DEF Seen, SeenPoint
    <3> QED BY <1>3, <2>3, <3>1, <3>2 DEF ViewInv
  <2> QED BY <2>2, <2>4
<1>14. AheadInv'
  <2> SUFFICES ASSUME NEW k \in DOMAIN payload, NEW p \in ToSet(payload[k]),
                      p.trades > 0, ~AtStart(p.bucket)'
               PROVE  /\ \A c \in Clients : StreamOf(c) = k => view[c][p.bucket].trades <= p.trades
                      /\ \A q \in ToSet(payload[k]) :
                           q.bucket = p.bucket /\ q.trades > 0 => q.trades = p.trades
    BY <1>2, <1>9 DEF AheadInv
  <2>1. ~AtStart(p.bucket)
    BY <1>2, SameMarket
  <2>2. CASE k \in DOMAIN job.payload
    BY <1>3, <1>8, <2>1, <2>2 DEF AheadInv
  <2>3. CASE k = n
    BY <1>8, <1>13, <2>1, <2>3
  <2> QED BY <1>8, <2>2, <2>3
<1>15. ToldInv'
  <2>1. emitted' \in [DOMAIN Streams -> Lasts]
    BY <1>1, <1>3, <1>6 DEF ToldInv
  <2> QED BY <1>2, <1>3, <2>1, SameMarket DEF ToldInv
<1>16. MarketInv' /\ ViewInv' /\ Forward
  BY <1>2, <1>3, SameMarket, ViewSame, ViewStays
<1>17. QueueInv' /\ ConnectedInv'
  BY <1>2, <1>3 DEF QueueInv, ConnectedInv
<1> QED BY <1>10, <1>12, <1>14, <1>15, <1>16, <1>17 DEF RealtimeInv

\* A client connects.
LEMMA ConnectStep ==
  ASSUME RealtimeInv, NEW c \in Clients, Connect(c)
  PROVE  RealtimeInv' /\ Forward
<1>1. c \notin ToSet(connections) /\ connections' = Append(connections, c)
  BY DEF Connect
<1>2. /\ UNCHANGED market /\ UNCHANGED <<market, finalized, emitted>>
      /\ UNCHANGED <<sink, queue, job, view>>
  BY DEF Connect
<1>3. connections \in Seq(Clients) /\ Distinct(connections)
  BY DEF RealtimeInv, ConnectedInv
<1>4. ConnectedInv'
  <2>1. /\ connections' \in Seq(Clients)
        /\ Len(connections) \in Nat /\ DOMAIN connections' = 1 .. Len(connections) + 1
        /\ DOMAIN connections = 1 .. Len(connections)
        /\ connections'[Len(connections) + 1] = c
        /\ \A k \in 1 .. Len(connections) : connections'[k] = connections[k]
    BY <1>1, <1>3
  <2>2. \A k \in 1 .. Len(connections) : connections[k] # c
    BY <1>1, <2>1 DEF ToSet
  <2>3. Distinct(connections')
    <3> SUFFICES ASSUME NEW j \in DOMAIN connections', NEW k \in DOMAIN connections',
                        connections'[j] = connections'[k]
                 PROVE  j = k
      BY DEF Distinct
    <3>1. CASE j \in 1 .. Len(connections) /\ k \in 1 .. Len(connections)
      BY <1>3, <2>1, <3>1 DEF Distinct
    <3>2. CASE j = Len(connections) + 1 /\ k = Len(connections) + 1
      BY <3>2
    <3>3. CASE j \in 1 .. Len(connections) /\ k = Len(connections) + 1
      BY <2>1, <2>2, <3>3
    <3>4. CASE k \in 1 .. Len(connections) /\ j = Len(connections) + 1
      BY <2>1, <2>2, <3>4
    <3>5. /\ j \in 1 .. Len(connections) \/ j = Len(connections) + 1
          /\ k \in 1 .. Len(connections) \/ k = Len(connections) + 1
      BY <2>1
    <3> QED BY <3>1, <3>2, <3>3, <3>4, <3>5
  <2> QED BY <2>1, <2>3 DEF ConnectedInv
<1>5. QueueInv'
  BY <1>2 DEF RealtimeInv, QueueInv
<1>6. JobInv' /\ PayloadInv' /\ AheadInv' /\ MarketInv' /\ ToldInv' /\ ViewInv'
  BY <1>2, JobSame, SameMarket, ToldSame, ViewSame DEF RealtimeInv
<1>7. Forward
  BY <1>2, ViewStays DEF RealtimeInv
<1> QED BY <1>4, <1>5, <1>6, <1>7 DEF RealtimeInv

\* The view of a client that forgot.
Blank == [b \in Buckets |-> NoPoint]

\* A client leaves and forgets what it showed.
LEMMA ClientLeaves ==
  ASSUME RealtimeInv, UNCHANGED market, NEW n \in DOMAIN connections,
         connections' = RemoveAt(connections, n),
         view' = [view EXCEPT ![connections[n]] = Blank]
  PROVE  /\ ConnectedInv' /\ ViewInv' /\ Forward
         /\ \A c \in Clients, b \in Buckets :
              /\ view'[c][b].trades \in Int /\ view[c][b].trades \in Int
              /\ view'[c][b].trades <= view[c][b].trades
<1> DEFINE gone == connections[n]
<1>1. connections \in Seq(Clients) /\ Distinct(connections) /\ ViewInv /\ gone \in Clients
  BY DEF RealtimeInv, ConnectedInv
<1>2. /\ connections' \in Seq(Clients) /\ Distinct(connections')
      /\ gone \notin ToSet(connections')
  BY <1>1, RemoveAtIs
<1> HIDE DEF gone
<1>3. view' = [view EXCEPT ![gone] = Blank]
  BY DEF gone
<1>4. /\ view \in [Clients -> [Buckets -> AnyPoint]]
      /\ \A c \in Clients, b \in Buckets :
           view[c][b] = NoPoint \/ (Seen(view[c][b]) /\ view[c][b].bucket = b)
  BY <1>1 DEF ViewInv
<1>5. Blank \in [Buckets -> AnyPoint] /\ \A b \in Buckets : Blank[b] = NoPoint
  BY DEF Blank, AnyPoint
<1>6. /\ view' \in [Clients -> [Buckets -> AnyPoint]]
      /\ \A c \in Clients, b \in Buckets :
           IF c = gone THEN view'[c][b] = NoPoint ELSE view'[c][b] = view[c][b]
  BY <1>1, <1>3, <1>4, <1>5
<1>7. ViewInv'
  <2>1. \A p : Seen(p)' <=> Seen(p)
    BY SameMarket
  <2>2. \A c \in Clients, b \in Buckets :
          view'[c][b] = NoPoint \/ (Seen(view'[c][b]) /\ view'[c][b].bucket = b)
    BY <1>4, <1>6
  <2>3. \A c \in Clients, b \in Buckets :
          view'[c][b] = NoPoint \/ (Seen(view[c][b])' /\ view'[c][b].bucket = b)
    <3> SUFFICES ASSUME NEW c \in Clients, NEW b \in Buckets, view'[c][b] # NoPoint
                 PROVE  Seen(view[c][b])' /\ view'[c][b].bucket = b
      OBVIOUS
    <3>1. SeenPoint(view'[c][b], trades, settled, Watermark) /\ view'[c][b].bucket = b
      BY <2>2 DEF Seen
    <3>2. trades' = trades /\ settled' = settled /\ Watermark' = Watermark
      BY SameMarket DEF market
    <3> QED BY <3>1, <3>2 DEF Seen
  <2> QED BY <1>6, <2>3 DEF ViewInv
<1>8. ASSUME NEW c \in Clients, NEW b \in Buckets
      PROVE  /\ view'[c][b].trades \in Int /\ view[c][b].trades \in Int
             /\ view'[c][b].trades <= view[c][b].trades
  <2>1. view[c][b] \in AnyPoint /\ view[c][b].trades \in Int
    BY <1>1, ViewTyped
  <2>2. view[c][b].trades >= -1
    BY <2>1 DEF AnyPoint, PointRec, NoPoint
  <2>3. NoPoint.trades = -1
    BY DEF NoPoint
  <2> QED BY <1>6, <2>1, <2>2, <2>3
<1>9. Forward
  <2> SUFFICES ASSUME NEW c \in ToSet(connections) \cap ToSet(connections'), NEW b \in Buckets
               PROVE  /\ view'[c][b].trades >= view[c][b].trades
                      /\ view[c][b].final => view'[c][b].final
    BY DEF Forward
  <2>1. c \in Clients /\ c # gone
    BY <1>1, <1>2 DEF ToSet
  <2>2. view'[c][b] = view[c][b] /\ view[c][b].trades \in Int
    BY <1>1, <1>6, <2>1, ViewTyped
  <2> QED BY <2>2
<1> QED BY <1>2, <1>7, <1>8, <1>9 DEF ConnectedInv

\* A client disconnects.
LEMMA DisconnectStep ==
  ASSUME RealtimeInv, NEW c \in Clients, Disconnect(c)
  PROVE  RealtimeInv' /\ Forward
<1>1. PICK n \in DOMAIN connections :
        /\ connections[n] = c /\ connections' = RemoveAt(connections, n)
        /\ view' = [view EXCEPT ![connections[n]] = Blank]
  BY DEF Disconnect, Blank
<1>2. /\ UNCHANGED market /\ UNCHANGED <<market, finalized, emitted>>
      /\ UNCHANGED <<sink, queue, job>>
  BY DEF Disconnect
<1>3. /\ ConnectedInv' /\ ViewInv' /\ Forward
      /\ \A d \in Clients, b \in Buckets :
           /\ view'[d][b].trades \in Int /\ view[d][b].trades \in Int
           /\ view'[d][b].trades <= view[d][b].trades
  BY <1>1, <1>2, ClientLeaves
<1>4. JobInv' /\ PayloadInv' /\ AheadInv'
  BY <1>2, <1>3, JobStays DEF RealtimeInv
<1>5. MarketInv' /\ ToldInv' /\ QueueInv'
  BY <1>2, SameMarket, ToldSame DEF RealtimeInv, QueueInv
<1> QED BY <1>3, <1>4, <1>5 DEF RealtimeInv

\* A connection fails while it is notified.
LEMMA NotifyFailsStep ==
  ASSUME RealtimeInv, NotifyFails
  PROVE  RealtimeInv' /\ Forward
<1>1. /\ job.phase = "notifying" /\ job.at <= Len(connections)
      /\ connections' = RemoveAt(connections, job.at)
      /\ view' = [view EXCEPT ![connections[job.at]] = Blank] /\ job' = Idle
  BY DEF NotifyFails, Blank
<1>2. /\ UNCHANGED market /\ UNCHANGED <<market, finalized, emitted>>
      /\ UNCHANGED <<sink, queue>>
  BY DEF NotifyFails
<1>3. job.at \in DOMAIN connections
  <2>1. job.at \in Nat /\ job.at > 0 /\ connections \in Seq(Clients)
    BY <1>1 DEF RealtimeInv, JobInv, ConnectedInv
  <2> QED BY <1>1, <2>1
<1>4. ConnectedInv' /\ ViewInv' /\ Forward
  BY <1>1, <1>2, <1>3, ClientLeaves
<1>5. JobInv' /\ PayloadInv' /\ AheadInv'
  BY <1>1, IdleFits
<1>6. MarketInv' /\ ToldInv' /\ QueueInv'
  BY <1>2, SameMarket, ToldSame DEF RealtimeInv, QueueInv
<1> QED BY <1>4, <1>5, <1>6 DEF RealtimeInv

\* The service restarts.
LEMMA RestartStep ==
  ASSUME RealtimeInv, Restart
  PROVE  RealtimeInv' /\ Forward
<1>1. /\ sink' = {} /\ queue' = <<>> /\ finalized' = -1 /\ emitted' = Forgotten /\ job' = Idle
      /\ connections' = <<>> /\ view' = [c \in Clients |-> [b \in Buckets |-> NoPoint]]
      /\ UNCHANGED market
  BY DEF Restart
<1>2. Watermark' = Watermark /\ Lasts' = Lasts /\ Bucket(Watermark) \in Nat
  BY <1>1, SameMarket, MarketIs DEF RealtimeInv
<1>3. ToldInv'
  <2>1. Forgotten \in [DOMAIN Streams -> Lasts]
    BY <1>2 DEF Forgotten, Lasts
  <2> QED BY <1>1, <1>2, <2>1 DEF ToldInv
<1>4. QueueInv'
  BY <1>1 DEF QueueInv
<1>5. JobInv' /\ PayloadInv' /\ AheadInv' /\ MarketInv'
  BY <1>1, IdleFits, SameMarket DEF RealtimeInv
<1>6. ViewInv'
  BY <1>1 DEF ViewInv, AnyPoint
<1>7. ConnectedInv' /\ Forward
  BY <1>1 DEF ConnectedInv, Distinct, Forward, ToSet
<1> QED BY <1>3, <1>4, <1>5, <1>6, <1>7 DEF RealtimeInv

\* A connection is notified, and its client merges the payload.
LEMMA NotifyStep ==
  ASSUME RealtimeInv, Notify
  PROVE  RealtimeInv' /\ Forward
<1>1. /\ job.phase = "notifying"
      /\ \A c \in {connections[n] : n \in {job.at} \cap DOMAIN connections} :
           view' = [view EXCEPT ![c] = Merge(@, job.payload[StreamOf(c)])]
      /\ job.at > Len(connections) => view' = view
      /\ job' = IF job.at < Len(connections) THEN [job EXCEPT !.at = @ + 1] ELSE Idle
  BY DEF Notify
<1>2. /\ UNCHANGED market /\ UNCHANGED <<market, finalized, emitted>>
      /\ UNCHANGED <<sink, queue, connections>>
  BY DEF Notify
<1>3. /\ job \in [phase : {"idle", "building", "notifying"}, events : Seq(Event), built : Nat,
                  payload : Seq(Seq(PointRec)), at : Nat]
      /\ Len(job.payload) = Len(Streams) /\ job.at > 0
      /\ MarketInv /\ ToldInv /\ ViewInv /\ PayloadInv /\ AheadInv /\ ConnectedInv /\ QueueInv
  BY <1>1 DEF RealtimeInv, JobInv
<1>4. MarketInv' /\ ToldInv' /\ QueueInv' /\ ConnectedInv'
  BY <1>2, <1>3, SameMarket, ToldSame DEF QueueInv, ConnectedInv
<1>5. JobInv' /\ PayloadInv'
  <2>1. CASE job.at < Len(connections)
    <3>1. job' = [phase |-> "notifying", events |-> job.events, built |-> job.built,
                  payload |-> job.payload, at |-> job.at + 1]
      BY <1>1, <1>3, <2>1
    <3>2. /\ job' \in [phase : {"idle", "building", "notifying"}, events : Seq(Event), built : Nat,
                       payload : Seq(Seq(PointRec)), at : Nat]
          /\ job'.phase = "notifying" /\ job'.at > 0 /\ job'.payload = job.payload
      BY <1>3, <3>1
    <3>3. JobInv'
      BY <1>3, <3>2 DEF JobInv
    <3>4. PayloadInv'
      BY <1>2, <1>3, <3>2, SameMarket DEF PayloadInv
    <3> QED BY <3>3, <3>4
  <2>2. CASE ~(job.at < Len(connections))
    BY <1>1, <2>2, IdleFits
  <2> QED BY <2>1, <2>2
<1>6. CASE job.at \notin DOMAIN connections
  <2>1. job.at > Len(connections) /\ ~(job.at < Len(connections))
    BY <1>3, <1>6 DEF ConnectedInv
  <2>2. view' = view /\ job' = Idle
    BY <1>1, <2>1
  <2>3. AheadInv' /\ ViewInv' /\ Forward
    BY <1>2, <1>3, <2>2, IdleFits, ViewSame, ViewStays
  <2> QED BY <1>4, <1>5, <2>3 DEF RealtimeInv
<1>7. CASE job.at \in DOMAIN connections
  <2> DEFINE c == connections[job.at]
             incoming == job.payload[StreamOf(c)]
             merged == Merge(view[c], incoming)
  <2>1. c \in Clients /\ view' = [view EXCEPT ![c] = merged]
    <3>1. c \in {connections[n] : n \in {job.at} \cap DOMAIN connections}
      BY <1>7
    <3>2. c \in Clients
      BY <1>3, <1>7 DEF ConnectedInv
    <3>3. view' = [view EXCEPT ![c] = Merge(@, job.payload[StreamOf(c)])]
      BY <1>1, <3>1
    <3> QED BY <3>2, <3>3
  <2> HIDE DEF c
  <2>2. StreamOf(c) \in DOMAIN job.payload /\ incoming \in Seq(PointRec)
    <3>1. StreamOf(c) \in DOMAIN Streams
      BY <2>1, StreamIs
    <3>2. DOMAIN Streams = 1 .. Len(Streams) /\ DOMAIN job.payload = 1 .. Len(job.payload)
      BY <1>3, RealtimeAssumption
    <3> QED BY <1>3, <3>1, <3>2
  <2> DEFINE n == StreamOf(c)
  <2> HIDE DEF n
  <2>3. \A p \in ToSet(incoming) : Seen(p) /\ p \in PointRec /\ p.bucket \in Buckets
    <3>1. \A p \in ToSet(incoming) : Seen(p)
      BY <1>3, <2>2 DEF PayloadInv
    <3> QED BY <1>3, <3>1, SeenInBuckets
  <2>4. view[c] \in [Buckets -> AnyPoint] /\ view \in [Clients -> [Buckets -> AnyPoint]]
    BY <1>3, <2>1 DEF ViewInv
  <2>5. merged \in Merged(view[c], incoming)
    BY <2>2, <2>3, <2>4, MergeSafe
  <2>6. merged \in [Buckets -> AnyPoint] /\ \A b \in Buckets : Safe(view[c], incoming, merged, b)
    BY <2>5 DEF Merged
  <2> HIDE DEF merged, incoming
  <2>7. /\ view' \in [Clients -> [Buckets -> AnyPoint]]
        /\ view'[c] = merged /\ \A d \in Clients : d # c => view'[d] = view[d]
    BY <2>1, <2>4, <2>6
  <2>8. \A d \in Clients, b \in Buckets :
          view'[d][b] = NoPoint \/ (Seen(view'[d][b]) /\ view'[d][b].bucket = b)
    <3> SUFFICES ASSUME NEW d \in Clients, NEW b \in Buckets
                 PROVE  view'[d][b] = NoPoint \/ (Seen(view'[d][b]) /\ view'[d][b].bucket = b)
      OBVIOUS
    <3>1. view[d][b] = NoPoint \/ (Seen(view[d][b]) /\ view[d][b].bucket = b)
      BY <1>3 DEF ViewInv
    <3>2. CASE d # c
      BY <2>7, <3>1, <3>2
    <3>3. CASE d = c
      <4>1. merged[b] = view[c][b] \/ (merged[b] \in ToSet(incoming) /\ merged[b].bucket = b)
        BY <2>6 DEF Safe
      <4> QED BY <2>3, <2>7, <3>1, <3>3, <4>1
    <3> QED BY <3>2, <3>3
  <2>9. ViewInv'
    <3> SUFFICES ASSUME NEW d \in Clients, NEW b \in Buckets, view'[d][b] # NoPoint
                 PROVE  Seen(view[d][b])' /\ view'[d][b].bucket = b
      BY <2>7 DEF ViewInv
    <3>1. SeenPoint(view'[d][b], trades, settled, Watermark) /\ view'[d][b].bucket = b
      BY <2>8 DEF Seen
    <3>2. trades' = trades /\ settled' = settled /\ Watermark' = Watermark
      BY <1>2, SameMarket DEF market
    <3> QED BY <3>1, <3>2 DEF Seen
  <2>10. ASSUME NEW p \in ToSet(incoming), p.trades > 0, ~AtStart(p.bucket)
         PROVE  /\ view[c][p.bucket].trades <= p.trades
                /\ \A q \in ToSet(incoming) :
                     q.bucket = p.bucket /\ q.trades > 0 => q.trades = p.trades
    <3>1. incoming = job.payload[n] /\ n \in DOMAIN job.payload /\ StreamOf(c) = n
      BY <2>2 DEF incoming, n
    <3> QED BY <1>3, <2>1, <2>10, <3>1 DEF AheadInv
  <2>11. Forward
    <3> SUFFICES ASSUME NEW d \in ToSet(connections), NEW b \in Buckets, ~AtStart(b)'
                 PROVE  /\ view'[d][b].trades >= view[d][b].trades
                        /\ view[d][b].final => view'[d][b].final
      BY DEF Forward
    <3>1. d \in Clients
      BY <1>3 DEF ToSet, ConnectedInv
    <3>2. view[d][b].trades \in Int /\ ~AtStart(b)
      BY <1>2, <1>3, <3>1, ViewTyped, SameMarket
    <3>3. CASE d # c
      BY <2>7, <3>1, <3>2, <3>3
    <3>4. CASE d = c
      <4>1. \A p \in ToSet(incoming) :
              p.bucket = b /\ p.trades > 0 => view[c][b].trades <= p.trades
        BY <2>10, <3>2
      <4>2. Safe(view[c], incoming, merged, b)
        BY <2>6
      <4>3. view[c][b].trades <= merged[b].trades /\ (view[c][b].final => merged[b].final)
        BY <4>1, <4>2 DEF Safe
      <4>4. merged[b].trades \in Int
        BY <2>6, AnyPointTyped
      <4> QED BY <2>7, <3>2, <3>4, <4>3, <4>4
    <3> QED BY <3>3, <3>4
  <2>12. AheadInv'
    <3>1. CASE job' = Idle
      BY <3>1, IdleFits
    <3>2. CASE job'.payload = job.payload
      <4> SUFFICES ASSUME NEW k \in DOMAIN job.payload, NEW p \in ToSet(job.payload[k]),
                          p.trades > 0, ~AtStart(p.bucket)'
                   PROVE  /\ \A d \in Clients : StreamOf(d) = k =>
                                view'[d][p.bucket].trades <= p.trades
                          /\ \A q \in ToSet(job.payload[k]) :
                               q.bucket = p.bucket /\ q.trades > 0 => q.trades = p.trades
        BY <3>2 DEF AheadInv
      <4>1. ~AtStart(p.bucket)
        BY <1>2, SameMarket
      <4>2. /\ \A d \in Clients : StreamOf(d) = k => view[d][p.bucket].trades <= p.trades
            /\ \A q \in ToSet(job.payload[k]) :
                 q.bucket = p.bucket /\ q.trades > 0 => q.trades = p.trades
        BY <1>3, <4>1 DEF AheadInv
      <4>3. p \in PointRec /\ p.bucket \in Buckets
        <5>1. Seen(p)
          BY <1>3 DEF PayloadInv
        <5> QED BY <1>3, <5>1, SeenInBuckets
      <4>4. ASSUME NEW d \in Clients, StreamOf(d) = k
            PROVE  view'[d][p.bucket].trades <= p.trades
        <5>1. CASE d # c
          BY <2>7, <4>2, <4>4, <5>1
        <5>2. CASE d = c
          <6>1. incoming = job.payload[k]
            BY <4>4, <5>2 DEF incoming
          <6>2. \/ merged[p.bucket] = view[c][p.bucket]
                \/ merged[p.bucket] \in ToSet(incoming) /\ merged[p.bucket].bucket = p.bucket
            BY <2>6, <4>3 DEF Safe
          <6>3. CASE merged[p.bucket] = view[c][p.bucket]
            BY <2>7, <4>2, <4>4, <5>2, <6>3
          <6>4. CASE merged[p.bucket] \in ToSet(incoming) /\ merged[p.bucket].bucket = p.bucket
            <7>1. merged[p.bucket].trades > 0 => merged[p.bucket].trades = p.trades
              BY <4>2, <6>1, <6>4
            <7>2. merged[p.bucket].trades \in Nat /\ p.trades \in Nat
              BY <2>3, <4>3, <6>4 DEF PointRec
            <7> QED BY <2>7, <5>2, <7>1, <7>2
          <6> QED BY <6>2, <6>3, <6>4
        <5> QED BY <5>1, <5>2
      <4> QED BY <4>2, <4>4
    <3>3. job' = Idle \/ job'.payload = job.payload
      BY <1>1, <1>3
    <3> QED BY <3>1, <3>2, <3>3
  <2> QED BY <1>4, <1>5, <2>9, <2>11, <2>12 DEF RealtimeInv
<1> QED BY <1>6, <1>7

\* Every step keeps the invariant and moves no connected client back.
LEMMA NextKeeps ==
  ASSUME RealtimeInv, [Next]_vars
  PROVE  RealtimeInv' /\ Forward
<1>1. CASE UNCHANGED vars
  <2>1. /\ UNCHANGED market /\ UNCHANGED <<market, finalized, emitted>>
        /\ UNCHANGED <<sink, queue, job, view, connections>>
    BY <1>1 DEF vars, clients
  <2>2. JobInv' /\ PayloadInv' /\ AheadInv' /\ MarketInv' /\ ToldInv' /\ ViewInv' /\ Forward
    BY <2>1, JobSame, SameMarket, ToldSame, ViewSame, ViewStays DEF RealtimeInv
  <2>3. QueueInv' /\ ConnectedInv'
    BY <2>1 DEF RealtimeInv, QueueInv, ConnectedInv
  <2> QED BY <2>2, <2>3 DEF RealtimeInv
<1>2. CASE \E t \in Times, trade \in BOOLEAN : IngestBlock(t, trade)
  BY <1>2, IngestStep
<1>3. CASE \E batch \in SUBSET (DOMAIN trades \ settled) : Derive(batch)
  BY <1>3, DeriveStep
<1>4. CASE SinkPublishes
  BY <1>4, SinkStep
<1>5. CASE EmitDueEvents
  BY <1>5, FinalityStep
<1>6. CASE TakeEvents
  BY <1>6, TakeStep
<1>7. CASE Build
  BY <1>7, BuildStep
<1>8. CASE BuildFails \/ BuildTimesOut
  BY <1>8, BuildFailsStep
<1>9. CASE Notify
  BY <1>9, NotifyStep
<1>10. CASE NotifyFails
  BY <1>10, NotifyFailsStep
<1>11. CASE \E c \in Clients : Connect(c) \/ Disconnect(c)
  BY <1>11, ConnectStep, DisconnectStep
<1>12. CASE Restart
  BY <1>12, RestartStep
<1> QED BY <1>1, <1>2, <1>3, <1>4, <1>5, <1>6, <1>7, <1>8, <1>9, <1>10, <1>11, <1>12 DEF Next

\* RealtimeInv holds in every reachable state: what the job carries and what the
\* clients show was in the market, and what is under way is not behind a client.
THEOREM RealtimeInvariant == Spec => []RealtimeInv
<1>1. Init => RealtimeInv
  BY InitInv
<1>2. RealtimeInv /\ [Next]_vars => RealtimeInv'
  BY NextKeeps
<1> QED BY <1>1, <1>2, PTL DEF Spec

\* NeverBack: a point a connected client shows never loses trades and is never open
\* again once it was final, for any streams, clients, times, prices and faults.
THEOREM NeverBackSound == Spec => NeverBack
<1>1. RealtimeInv /\ [Next]_vars =>
        [\A c \in ToSet(connections) \cap ToSet(connections') : \A b \in Buckets :
           ~AtStart(b)' => /\ view'[c][b].trades >= view[c][b].trades
                           /\ view[c][b].final => view'[c][b].final]_vars
  BY NextKeeps DEF Forward
<1> QED BY <1>1, RealtimeInvariant, PTL DEF Spec, NeverBack

\* A read of whole buckets shows of each bucket what it has.
LEMMA WholeRead ==
  ASSUME MarketInv, NEW a \in Nat, NEW z \in Nat, a <= z
  PROVE  LET points == Points(trades, settled, rawTime, StartOf(a), EndOf(z)) IN
         /\ points \in Seq(PointRec) /\ InOrder(points)
         /\ \A p : p \in ToSet(points) <=>
              \E b \in a .. z : p \in Shown(trades, settled, Watermark, b)
<1> DEFINE points == Points(trades, settled, rawTime, StartOf(a), EndOf(z))
           K == Known(trades, settled, EndOf(z))
<1>1. Timed(trades, settled) /\ rawTime \in Nat
  BY MarketIs DEF Market
<1>2. EndOf(z) \in Nat /\ Bucket(EndOf(z)) = z /\ StartOf(a) \in Nat
  BY BucketEnds
<1>3. StartOf(a) <= EndOf(z)
  <2>1. EndOf(z) >= StartOf(a) <=> Bucket(EndOf(z)) >= a
    BY <1>2, BucketSpan
  <2> QED BY <1>2, <2>1
<1>4. /\ points \in Seq(PointRec) /\ InOrder(points)
      /\ \A p : p \in ToSet(points) <=>
           \E b \in a .. z : p \in Shown(trades, K, Watermark, b)
  BY <1>1, <1>2, <1>3, PointsAre DEF Watermark
<1>5. ASSUME NEW b \in a .. z
      PROVE  Shown(trades, K, Watermark, b) = Shown(trades, settled, Watermark, b)
  <2>1. b \in Nat /\ b <= z /\ z \in Int
    OBVIOUS
  <2>2. EndOf(b) <= EndOf(z)
    <3>1. EndOf(b) \in Nat /\ Bucket(EndOf(b)) = b
      BY <2>1, BucketEnds
    <3>2. EndOf(b) <= EndOf(z) <=> Bucket(EndOf(b)) <= z
      BY <3>1, BucketSpan
    <3> QED BY <2>1, <3>1, <3>2
  <2> QED BY <1>1, <1>2, <2>1, <2>2, ShownWhole
<1> HIDE DEF points, K
<1>6. \A p : p \in ToSet(points) <=> \E b \in a .. z : p \in Shown(trades, settled, Watermark, b)
  BY <1>4, <1>5
<1> QED BY <1>4, <1>6 DEF points

\* The read of one bucket shows what this bucket has.
LEMMA HttpIs ==
  ASSUME MarketInv, NEW b \in Nat
  PROVE  ToSet(HttpPoint(trades, settled, rawTime, b)) = Shown(trades, settled, Watermark, b)
<1> DEFINE one == Points(trades, settled, rawTime, StartOf(b), EndOf(b))
<1>1. \A p : p \in ToSet(one) <=> \E d \in b .. b : p \in Shown(trades, settled, Watermark, d)
  BY WholeRead
<1>2. b .. b = {b}
  OBVIOUS
<1> HIDE DEF one
<1>3. \A p : p \in ToSet(one) <=> p \in Shown(trades, settled, Watermark, b)
  BY <1>1, <1>2
<1>4. ToSet(one) = Shown(trades, settled, Watermark, b)
  BY <1>3
<1> QED BY <1>4 DEF HttpPoint, one

\* Every state the invariant allows shows the right candles.
LEMMA InvCandles ==
  ASSUME RealtimeInv
  PROVE  CandlesRight
<1> DEFINE top == Bucket(MaxTime)
           whole == Points(trades, settled, rawTime, 0, EndOf(top))
           shown(b) == Shown(trades, settled, Watermark, b)
<1>1. /\ MarketInv /\ ToldInv /\ ViewInv
      /\ Timed(trades, settled) /\ top \in Nat /\ Buckets = 0 .. top
      /\ \A b \in Buckets : b \in Nat
  BY MarketIs DEF RealtimeInv, Market, Buckets
<1>2. /\ whole \in Seq(PointRec) /\ InOrder(whole)
      /\ \A p : p \in ToSet(whole) <=> \E b \in Buckets : p \in shown(b)
  <2>1. StartOf(0) = 0
    BY CandlesAssumption DEF StartOf
  <2> HIDE DEF top
  <2>2. LET points == Points(trades, settled, rawTime, StartOf(0), EndOf(top)) IN
        /\ points \in Seq(PointRec) /\ InOrder(points)
        /\ \A p : p \in ToSet(points) <=>
             \E b \in 0 .. top : p \in Shown(trades, settled, Watermark, b)
    <3>1. MarketInv /\ 0 \in Nat /\ top \in Nat /\ 0 <= top
      BY <1>1
    <3> QED BY <3>1, WholeRead
  <2> QED BY <1>1, <2>1, <2>2
<1> HIDE DEF top, whole
<1>3. ToSet(whole) = UNION {ToSet(HttpPoint(trades, settled, rawTime, b)) : b \in Buckets}
  <2>1. \A b \in Buckets : ToSet(HttpPoint(trades, settled, rawTime, b)) = shown(b)
    BY <1>1, HttpIs
  <2> HIDE DEF shown
  <2>2. ASSUME NEW p \in ToSet(whole)
        PROVE  \E b \in Buckets : p \in ToSet(HttpPoint(trades, settled, rawTime, b))
    BY <1>2, <2>1
  <2>3. ASSUME NEW b \in Buckets, NEW p \in ToSet(HttpPoint(trades, settled, rawTime, b))
        PROVE  p \in ToSet(whole)
    BY <1>2, <2>1
  <2>4. \A p : p \in ToSet(whole) <=>
                 p \in UNION {ToSet(HttpPoint(trades, settled, rawTime, b)) : b \in Buckets}
    BY <2>2, <2>3, Zenon
  <2> QED BY <2>4, Zenon
<1>4. \A m, n \in DOMAIN whole : m < n => whole[m].bucket < whole[n].bucket
  BY <1>2 DEF InOrder
<1>5. ASSUME NEW p \in ToSet(whole)
      PROVE  /\ p.trades = Cardinality(TradesOf(p.bucket))
             /\ p.trades > 0 => /\ p.open = Price(Earliest(trades, TradesOf(p.bucket)))
                                /\ p.close = Price(Latest(trades, TradesOf(p.bucket)))
                                /\ {p.low, p.high} \subseteq {Price(i) : i \in TradesOf(p.bucket)}
                                /\ \A i \in TradesOf(p.bucket) : Price(i) \in p.low .. p.high
  <2>1. PICK b \in Buckets : p \in shown(b)
    BY <1>2
  <2>2. PointRight(p, trades, settled, Watermark, b)
    BY <1>1, <2>1, ShownRight
  <2>3. p.bucket = b /\ p \in PointRec /\ p.trades = Cardinality(RowsOf(trades, settled, b))
    BY <2>2 DEF PointRight
  <2>4. TradesOf(p.bucket) = RowsOf(trades, settled, b)
    BY <2>3 DEF TradesOf, RowsOf
  <2>5. ASSUME p.trades > 0
        PROVE  /\ p.open = Price(Earliest(trades, TradesOf(p.bucket)))
               /\ p.close = Price(Latest(trades, TradesOf(p.bucket)))
               /\ {p.low, p.high} \subseteq {Price(i) : i \in TradesOf(p.bucket)}
               /\ \A i \in TradesOf(p.bucket) : Price(i) \in p.low .. p.high
    <3>1. RowsOf(trades, settled, b) # {}
      BY <2>3, <2>5, FS_EmptySet
    <3> DEFINE R == RowsOf(trades, settled, b)
    <3>2. /\ p.open = Price(Earliest(trades, R)) /\ p.close = Price(Latest(trades, R))
          /\ {p.low, p.high} \subseteq {Price(i) : i \in R}
          /\ \A i \in R : p.low <= Price(i) /\ Price(i) <= p.high
      BY <2>2, <3>1 DEF PointRight
    <3>3. \A i \in R : Price(i) \in Nat
      BY <1>1, TimedFinite DEF RowsOf
    <3>4. p.low \in Nat /\ p.high \in Nat
      BY <2>3 DEF PointRec
    <3> HIDE DEF R
    <3>5. \A i \in R : Price(i) \in p.low .. p.high
      BY <3>2, <3>3, <3>4
    <3>6. TradesOf(p.bucket) = R
      BY <2>4 DEF R
    <3> QED BY <3>2, <3>5, <3>6
  <2> QED BY <2>3, <2>4, <2>5
<1>6. finalized < Bucket(Watermark) /\ \A n \in DOMAIN Streams : emitted[n] <= Bucket(Watermark)
  <2>1. \A n \in DOMAIN Streams : emitted[n] \in Lasts
    BY <1>1 DEF ToldInv
  <2>2. Bucket(Watermark) \in Nat
    BY <1>1, MarketIs
  <2> QED BY <1>1, <2>1, <2>2 DEF ToldInv, Lasts
<1>7. ASSUME NEW c \in Clients, NEW b \in Buckets
      PROVE  /\ view[c][b].trades <= Cardinality(TradesOf(b))
             /\ view[c][b].final => BucketFinal(b, Watermark)
  <2>1. TradesOf(b) = RowsOf(trades, settled, b)
    BY DEF TradesOf, RowsOf
  <2>2. Cardinality(TradesOf(b)) \in Nat
    <3>1. IsFiniteSet(settled) /\ TradesOf(b) \subseteq settled
      BY <1>1, TimedFinite DEF TradesOf
    <3> QED BY <3>1, FS_Subset, FS_CardinalityType
  <2>3. view[c][b] = NoPoint \/ (Seen(view[c][b]) /\ view[c][b].bucket = b)
    BY <1>1 DEF ViewInv
  <2>4. CASE view[c][b] = NoPoint
    BY <2>2, <2>4 DEF NoPoint
  <2>5. CASE Seen(view[c][b]) /\ view[c][b].bucket = b
    BY <2>1, <2>5 DEF Seen, SeenPoint
  <2> QED BY <2>3, <2>4, <2>5
<1>8. /\ ToSet(whole) = UNION {ToSet(HttpPoint(trades, settled, rawTime, b)) : b \in Buckets}
      /\ \A m, n \in DOMAIN whole : m < n => whole[m].bucket < whole[n].bucket
      /\ \A p \in ToSet(whole) :
            /\ p.trades = Cardinality(TradesOf(p.bucket))
            /\ p.trades > 0 => /\ p.open = Price(Earliest(trades, TradesOf(p.bucket)))
                               /\ p.close = Price(Latest(trades, TradesOf(p.bucket)))
                               /\ {p.low, p.high} \subseteq {Price(i) : i \in TradesOf(p.bucket)}
                               /\ \A i \in TradesOf(p.bucket) : Price(i) \in p.low .. p.high
      /\ finalized < Bucket(Watermark)
      /\ \A n \in DOMAIN Streams : emitted[n] <= Bucket(Watermark)
      /\ \A c \in Clients, b \in Buckets :
            /\ view[c][b].trades <= Cardinality(TradesOf(b))
            /\ view[c][b].final => BucketFinal(b, Watermark)
  BY <1>3, <1>4, <1>5, <1>6, <1>7
<1> QED BY <1>8, Zenon DEF CandlesRight, whole, top, Watermark

\* CandlesRight: every candle read from the settled trades opens, closes and ranges
\* as its trades do, and a read of one bucket agrees with a read of all of them.
THEOREM CandlesRightSound == Spec => []CandlesRight
<1>1. RealtimeInv => CandlesRight
  BY InvCandles
<1> QED BY <1>1, RealtimeInvariant, PTL
==============================================================================
