---------------------------- MODULE MakerProofs ----------------------------
(***************************************************************************)
(* No output of a pool is claimed twice by the maker, and no claim asks    *)
(* for more than is owed, as long as claims are acknowledged and handled   *)
(* in time; and no direction is traded for more than was planned in it.    *)
(* Both for any pools, amounts, windows and faults.                        *)
(*                                                                         *)
(* A task asks for an amount it read earlier.  What it read is still owed  *)
(* because only a claim of the same output lowers it, and such a claim is  *)
(* still waited for (Covered): the task would not have asked.              *)
(*                                                                         *)
(* The slices of a plan are equal (InStep), so what is left of it and what *)
(* a task works at have one direction, and what is pending or left in a    *)
(* direction is covered by what was planned in it and not sent (Backed).   *)
(***************************************************************************)
EXTENDS Maker, ArithmeticTheorems, SequenceTheorems, FiniteSetTheorems, TLAPS

TaskRecord == [at : {"absent", "done", "claim", "ask", "work"}, side : Nat, amount : Nat,
               slice : Int]
Request == [side : Sides, amount : Nat]

TasksTyped ==
  /\ task \in [Pools -> TaskRecord]
  /\ \A p \in Pools : task[p].at \in {"claim", "ask"} => task[p].side \in Sides

MemoryTyped ==
  /\ pending \in [Pools -> [buy : Int, sell : Int]]
  /\ plan \in [Pools -> Seq(Int)]
  /\ waiting \in [Pools -> SUBSET Sides]

ChainTyped ==
  /\ wallet \in [Pools \cup {Native} -> Int]
  /\ claimable \in [Pools -> [Sides -> Nat]]
  /\ claiming \in [Pools -> [Sides -> Nat]]
  /\ swaps \in [Pools -> Seq(Int)]
  /\ claims \in [Pools -> Seq(Request)]

\* A claim under way is waited for, alone and covered, and a task that is
\* about to ask may still do so.
Covered(p, t) ==
  /\ \A n \in DOMAIN claims[p] : claims[p][n].side = t =>
        t \in waiting[p] /\ claims[p][n].amount <= claimable[p][t]
  /\ \A m, n \in DOMAIN claims[p] : claims[p][m].side = t /\ claims[p][n].side = t => m = n
  /\ task[p].at = "ask" /\ task[p].side = t =>
        t \notin waiting[p] /\ task[p].amount <= claimable[p][t]

AllCovered == ~late => \A p \in Pools, t \in Sides : Covered(p, t)

MakerInv == TasksTyped /\ MemoryTyped /\ ChainTyped /\ AllCovered

-----------------------------------------------------------------------------
(* Numbers.                                                                *)

LEMMA SizeNat == ASSUME NEW q \in Int PROVE Size(q) \in Nat
BY DEF Size

LEMMA SignTimes == ASSUME NEW q \in Int, NEW x \in Int PROVE Sign(q) * x \in Int
<1>1. Sign(q) \in {-1, 0, 1}
  BY DEF Sign
<1> QED BY <1>1

LEMMA LeastInt == ASSUME NEW a \in Int, NEW b \in Int PROVE Least(a, b) \in Int
BY DEF Least

LEMMA PercentInt == ASSUME NEW n \in Int, NEW a \in Int PROVE Percent(n, a) \in Int
<1> DEFINE x == n * a
<1>1. x \in Int
  OBVIOUS
<1> HIDE DEF x
<1>2. x \div 100 \in Int
  BY <1>1
<1> QED BY <1>2 DEF Percent, x

\* The slices of a plan are integers.
LEMMA PlanInts == ASSUME NEW q \in Int PROVE BuildMinutePlan(q) \in Seq(Int)
<1> DEFINE size == Size(q)
           estimated == IF size > 4 * OneQuote THEN 4 ELSE CeilDiv(size, OneQuote)
           count == IF estimated < MinSlices THEN MinSlices ELSE Least(estimated, MaxSlices)
<1>1. size \in Nat /\ OneQuote \in Nat \ {0} /\ MinSlices \in Nat \ {0} /\ MaxSlices \in Nat \ {0}
  BY SizeNat, MakerAssumption
<1>2. estimated \in Int
  <2>1. CeilDiv(size, OneQuote) \in Int
    BY <1>1 DEF CeilDiv
  <2> QED BY <2>1
<1>3. count \in Nat \ {0}
  BY <1>1, <1>2 DEF Least
<1> HIDE DEF size, estimated, count
<1>4. size \div count \in Int
  BY <1>1, <1>3
<1>5. Sign(q) * (size \div count) \in Int
  BY <1>4, SignTimes
<1>6. BuildMinutePlan(q) = [n \in 1 .. count |-> Sign(q) * (size \div count)]
  BY DEF BuildMinutePlan, size, estimated, count
<1> QED BY <1>3, <1>5, <1>6

\* So are the trades that are planned.
LEMMA QuoteInts ==
  ASSUME NEW net \in Int, NEW mispricing \in {-1, 0, 1}, NEW signal \in {-1, 1},
         NEW balance \in [Sides -> Int], NEW quote \in DecideTrade(net, mispricing, signal, balance)
  PROVE  quote \in Int /\ NormalizeQuote(net, quote) \in Int
<1>1. ASSUME NEW amount \in Int, NEW direction \in {-1, 0, 1}
      PROVE  QuoteTrade(amount, direction, balance) \in Int
  <2> DEFINE some == IF direction > 0 THEN balance[1] ELSE balance[0]
             least == Least(Least(amount, MaxTrade), Percent(15, some))
  <2>1. some \in Int /\ MaxTrade \in Int
    BY MakerAssumption DEF Sides
  <2> HIDE DEF some
  <2>2. Percent(15, some) \in Int
    BY <2>1, PercentInt
  <2>3. least \in Int
    BY <1>1, <2>1, <2>2, LeastInt
  <2> HIDE DEF least
  <2>4. direction * least \in Int
    BY <1>1, <2>3
  <2> QED BY <2>4 DEF QuoteTrade, least, some
<1>2. quote \in Int
  <2>1. CASE mispricing = 0
    <3>1. ExecutableDirection(ActivityDirection(net, signal), balance) \in {-1, 0, 1}
      BY DEF ExecutableDirection
    <3>2. Activity \in Int
      BY MakerAssumption
    <3> QED BY <1>1, <2>1, <3>1, <3>2 DEF DecideTrade
  <2>2. CASE mispricing # 0
    <3>1. Corrections \subseteq Int
      BY MakerAssumption
    <3> QED BY <1>1, <2>2, <3>1 DEF DecideTrade
  <2> QED BY <2>1, <2>2
<1>3. Size(net) \in Int /\ Size(quote) \in Int /\ ReversePercent \in Int
  BY <1>2, SizeNat, MakerAssumption
<1>4. Least(Size(quote), Percent(ReversePercent, Size(net))) \in Int
  BY <1>3, PercentInt, LeastInt
<1> QED BY <1>2, <1>4, SignTimes DEF NormalizeQuote

LEMMA SentInt ==
  ASSUME NEW quote \in Int, NEW balance \in [Sides -> Int]
  PROVE  Sent(quote, balance) \in Int
<1> DEFINE some == IF quote > 0 THEN balance[1] ELSE balance[0]
<1>1. some \in Int
  BY DEF Sides
<1> HIDE DEF some
<1>2. Percent(30, some) \in Int
  BY <1>1, PercentInt
<1>3. Size(quote) \in Int
  BY SizeNat
<1>4. Least(Size(quote), Percent(30, some)) \in Int
  BY <1>2, <1>3, LeastInt
<1> QED BY <1>4, SignTimes DEF Sent, some

-----------------------------------------------------------------------------
(* Steps that leave the claims alone.                                      *)

LEMMA NothingAsked ==
  ASSUME MakerInv, UNCHANGED <<claims, claimable, waiting, late>>, TasksTyped',
         \A p \in Pools : task'[p].at = "ask" => task'[p] = task[p]
  PROVE  AllCovered'
BY DEF MakerInv, AllCovered, Covered

\* The next token of a task that is done with one.
LEMMA NextTokenTyped ==
  ASSUME TasksTyped, NEW p \in Pools, task[p].at \in {"claim", "ask"}, task' = NextToken(p)
  PROVE  /\ TasksTyped' /\ task'[p].at # "ask"
         /\ \A q \in Pools \ {p} : task'[q] = task[q]
<1> DEFINE at == IF task[p].side = 0 THEN "claim" ELSE "work"
           new == [task[p] EXCEPT !.side = @ + 1, !.amount = 0, !.at = at]
<1>1. task[p] \in TaskRecord /\ task[p].side \in Sides
  BY DEF TasksTyped
<1>2. /\ at \in {"claim", "work"} /\ (task[p].side # 0 => at = "work")
      /\ task[p].side + 1 \in Nat
  BY <1>1 DEF Sides
<1>3. task' = [task EXCEPT ![p] = new]
  BY DEF NextToken, TasksTyped
<1> HIDE DEF at
<1>4. new \in TaskRecord /\ new.at = at /\ new.side = task[p].side + 1
  BY <1>1, <1>2 DEF TaskRecord
<1> HIDE DEF new
<1>5. task'[p] = new /\ (\A q \in Pools \ {p} : task'[q] = task[q])
      /\ task' \in [Pools -> TaskRecord]
  BY <1>3, <1>4 DEF TasksTyped
<1>6. task'[p].at \in {"claim", "ask"} => task'[p].side \in Sides
  BY <1>1, <1>2, <1>4, <1>5 DEF Sides
<1> QED BY <1>2, <1>4, <1>5, <1>6 DEF TasksTyped

\* A task that is over, or a new one of a slice.
LEMMA TaskRecords ==
  /\ Done \in TaskRecord /\ Done.at = "done"
  /\ Absent \in TaskRecord /\ Absent.at = "absent"
  /\ \A slice \in Int : Task(slice) \in TaskRecord /\ Task(slice).at = "claim"
                        /\ Task(slice).side = 0 /\ Task(slice).slice = slice
<1>1. Done \in TaskRecord /\ Done.at = "done" /\ Done.side = 0
  BY DEF Done, TaskRecord
<1>2. Absent \in TaskRecord /\ Absent.at = "absent"
  BY <1>1 DEF Absent, TaskRecord
<1>3. ASSUME NEW slice \in Int
      PROVE  Task(slice) \in TaskRecord /\ Task(slice).at = "claim"
             /\ Task(slice).side = 0 /\ Task(slice).slice = slice
  BY <1>1 DEF Task, TaskRecord
<1> QED BY <1>1, <1>2, <1>3

LEMMA TaskEnds ==
  ASSUME TasksTyped, NEW p \in Pools, task' = [task EXCEPT ![p] = Done]
  PROVE  TasksTyped' /\ \A q \in Pools : task'[q].at = "ask" => task'[q] = task[q]
BY TaskRecords DEF TasksTyped

LEMMA NetInt == ASSUME MemoryTyped, NEW p \in Pools PROVE Net(p) \in Int
BY DEF MemoryTyped, Net

\* A balance as a task reads it.
LEMMA BalanceInts ==
  ASSUME ChainTyped, NEW p \in Pools, NEW balance \in BalancesRead(p)
  PROVE  balance \in [Sides -> Int]
BY DEF ChainTyped, BalancesRead, Sides

\* Phases of a round, failures of its work, and restarts.
LEMMA PhasesKeep ==
  ASSUME MakerInv,
         \/ \E listed \in BOOLEAN : StartRound(listed)
         \/ EndRound
         \/ \E p \in Pools : WorkFails(p)
  PROVE  MakerInv'
<1>1. TasksTyped /\ UNCHANGED <<pending, plan, waiting, wallet, claimable, claiming, swaps, claims, late>>
  BY DEF MakerInv, StartRound, EndRound, WorkFails, chain, history
<1>2. TasksTyped' /\ \A p \in Pools : task'[p].at = "ask" => task'[p] = task[p]
  <2>1. ASSUME NEW listed \in BOOLEAN, StartRound(listed)
        PROVE  TasksTyped' /\ \A p \in Pools : task'[p].at = "ask" => task'[p] = task[p]
    <3>1. task' = [p \in Pools |-> IF listed THEN Task(0) ELSE Absent]
      BY <2>1 DEF StartRound
    <3> QED BY <3>1, TaskRecords DEF TasksTyped, Sides
  <2>2. CASE EndRound
    BY <1>1, <2>2 DEF EndRound, TasksTyped
  <2>3. ASSUME NEW p \in Pools, WorkFails(p)
        PROVE  TasksTyped' /\ \A q \in Pools : task'[q].at = "ask" => task'[q] = task[q]
    BY <1>1, <2>3, TaskEnds DEF WorkFails
  <2> QED BY <2>1, <2>2, <2>3
<1>3. AllCovered'
  BY <1>1, <1>2, NothingAsked
<1> QED BY <1>1, <1>2, <1>3 DEF MakerInv, MemoryTyped, ChainTyped

LEMMA RestartKeeps == ASSUME MakerInv, Restart PROVE MakerInv'
<1>1. /\ task' = [p \in Pools |-> Done] /\ plan' = [p \in Pools |-> <<>>]
      /\ pending' = [p \in Pools |-> [buy |-> 0, sell |-> 0]]
      /\ waiting' = [p \in Pools |-> {}]
      /\ UNCHANGED <<wallet, claimable, claiming, swaps, claims>>
      /\ late' = (late \/ \E p \in Pools : claims[p] # <<>>)
  BY DEF Restart, chain
<1>2. TasksTyped' /\ \A p \in Pools : task'[p].at # "ask"
  BY <1>1, TaskRecords DEF TasksTyped
<1>3. MemoryTyped' /\ ChainTyped'
  BY <1>1 DEF MakerInv, MemoryTyped, ChainTyped
<1>4. ASSUME ~late', NEW p \in Pools, NEW t \in Sides PROVE Covered(p, t)'
  <2>1. claims'[p] = <<>>
    BY <1>1, <1>4
  <2>2. DOMAIN claims'[p] = {}
    BY <2>1
  <2> QED BY <1>2, <2>2 DEF Covered
<1> QED BY <1>2, <1>3, <1>4 DEF MakerInv, AllCovered

LEMMA SlicesKeep ==
  ASSUME MakerInv, NEW finalize \in BOOLEAN, StartSlices(finalize) PROVE MakerInv'
<1> DEFINE plans == IF finalize THEN PrepareSlicePlans ELSE plan
           sliced == {p \in Pools : task[p].at = "done" /\ plans[p] # <<>>}
<1>1. /\ pending' = IF finalize THEN FlushPlan ELSE pending
      /\ plan' = [p \in Pools |-> IF p \in sliced THEN Tail(plans[p]) ELSE plans[p]]
      /\ task' = [p \in Pools |-> IF p \in sliced /\ Head(plans[p]) # 0
                                  THEN Task(Head(plans[p])) ELSE Done]
      /\ UNCHANGED <<waiting, wallet, claimable, claiming, swaps, claims, late>>
  BY DEF StartSlices, chain, history
<1>2. plans \in [Pools -> Seq(Int)]
  <2>1. \A p \in Pools : BuildMinutePlan(Net(p)) \in Seq(Int)
    BY PlanInts, NetInt DEF MakerInv
  <2>2. PrepareSlicePlans \in [Pools -> Seq(Int)]
    BY <2>1 DEF PrepareSlicePlans, MakerInv, MemoryTyped
  <2> QED BY <2>2 DEF MakerInv, MemoryTyped
<1> HIDE DEF plans
<1>3. \A p \in Pools : plans[p] # <<>> => Head(plans[p]) \in Int /\ Tail(plans[p]) \in Seq(Int)
  BY <1>2, HeadTailProperties
<1>4. MemoryTyped'
  <2>1. plan' \in [Pools -> Seq(Int)]
    BY <1>1, <1>2, <1>3
  <2>2. pending' \in [Pools -> [buy : Int, sell : Int]]
    BY <1>1 DEF FlushPlan, MakerInv, MemoryTyped
  <2> QED BY <1>1, <2>1, <2>2 DEF MakerInv, MemoryTyped
<1>5. TasksTyped' /\ \A p \in Pools : task'[p].at # "ask"
  <2>1. ASSUME NEW p \in Pools
        PROVE  /\ task'[p] \in TaskRecord /\ task'[p].at # "ask"
               /\ task'[p].at = "claim" => task'[p].side \in Sides
    <3>1. CASE p \in sliced /\ Head(plans[p]) # 0
      BY <1>1, <1>3, <3>1, TaskRecords DEF Sides
    <3>2. CASE ~(p \in sliced /\ Head(plans[p]) # 0)
      BY <1>1, <3>2, TaskRecords
    <3> QED BY <3>1, <3>2
  <2>2. task' \in [Pools -> TaskRecord]
    BY <1>1, <2>1
  <2> QED BY <2>1, <2>2 DEF TasksTyped
<1>6. AllCovered'
  BY <1>1, <1>5, NothingAsked
<1> QED BY <1>1, <1>4, <1>5, <1>6 DEF MakerInv, ChainTyped

LEMMA PlanKeeps == ASSUME MakerInv, NEW p \in Pools, PlanTrade(p) PROVE MakerInv'
<1>1. /\ task' = [task EXCEPT ![p] = Done]
      /\ UNCHANGED <<plan, waiting, wallet, claimable, claiming, swaps, claims, late>>
  BY DEF PlanTrade, chain
<1>2. TasksTyped' /\ AllCovered'
  BY <1>1, TaskEnds, NothingAsked DEF MakerInv
<1>3. pending' \in [Pools -> [buy : Int, sell : Int]]
  <2>1. ASSUME NEW quote \in Int, QueueTrade(p, quote)
        PROVE  pending' \in [Pools -> [buy : Int, sell : Int]]
    <3>1. pending \in [Pools -> [buy : Int, sell : Int]]
      BY DEF MakerInv, MemoryTyped
    <3>2. CASE pending' = pending
      BY <3>1, <3>2
    <3>3. CASE pending' = [pending EXCEPT ![p].buy = @ + quote]
      BY <3>1, <3>3
    <3>4. CASE pending' = [pending EXCEPT ![p].sell = @ - quote]
      BY <3>1, <3>4
    <3>5. \/ pending' = pending
          \/ pending' = [pending EXCEPT ![p].buy = @ + quote]
          \/ pending' = [pending EXCEPT ![p].sell = @ - quote]
      BY <2>1, Zenon DEF QueueTrade
    <3> QED BY <3>2, <3>3, <3>4, <3>5
  <2>2. PICK balance \in BalancesRead(p) :
          IF balance[1] < Gas THEN UNCHANGED <<pending, open, trades>>
          ELSE \E mispricing \in {-1, 0, 1}, signal \in {-1, 1} :
                 \E quote \in DecideTrade(Net(p), mispricing, signal, balance) :
                   QueueTrade(p, NormalizeQuote(Net(p), quote))
    BY DEF PlanTrade
  <2>3. balance \in [Sides -> Int] /\ Net(p) \in Int
    BY BalanceInts, NetInt DEF MakerInv
  <2>4. CASE pending' = pending
    BY <2>4 DEF MakerInv, MemoryTyped
  <2>5. ASSUME NEW mispricing \in {-1, 0, 1}, NEW signal \in {-1, 1},
               NEW quote \in DecideTrade(Net(p), mispricing, signal, balance),
               QueueTrade(p, NormalizeQuote(Net(p), quote))
        PROVE  pending' \in [Pools -> [buy : Int, sell : Int]]
    <3>1. NormalizeQuote(Net(p), quote) \in Int
      BY <2>3, QuoteInts
    <3> QED BY <2>1, <2>5, <3>1
  <2> QED BY <2>2, <2>4, <2>5
<1> QED BY <1>1, <1>2, <1>3 DEF MakerInv, MemoryTyped, ChainTyped

LEMMA ExecuteKeeps == ASSUME MakerInv, NEW p \in Pools, Execute(p) PROVE MakerInv'
<1>1. /\ task' = [task EXCEPT ![p] = Done]
      /\ UNCHANGED <<pending, plan, waiting, wallet, claimable, claiming, claims, late>>
  BY DEF Execute
<1>2. TasksTyped' /\ AllCovered'
  BY <1>1, TaskEnds, NothingAsked DEF MakerInv
<1>3. swaps' \in [Pools -> Seq(Int)]
  <2>1. ASSUME NEW quote \in Int, SendSwap(p, quote) PROVE swaps' \in [Pools -> Seq(Int)]
    <3>1. swaps \in [Pools -> Seq(Int)] /\ swaps' = [swaps EXCEPT ![p] = Append(@, quote)]
      BY <2>1 DEF MakerInv, ChainTyped, SendSwap
    <3>2. Append(swaps[p], quote) \in Seq(Int)
      BY <3>1, AppendProperties
    <3> QED BY <3>1, <3>2
  <2>2. PICK balance \in BalancesRead(p) :
          LET quote == IF balance[1] < Gas THEN 0 ELSE Sent(task[p].slice, balance) IN
          IF quote = 0 THEN UNCHANGED <<swaps, open>> ELSE SendSwap(p, quote)
    BY DEF Execute
  <2>3. Sent(task[p].slice, balance) \in Int
    BY BalanceInts, SentInt DEF MakerInv, TasksTyped, TaskRecord
  <2>4. swaps' = swaps \/ SendSwap(p, Sent(task[p].slice, balance))
    BY <2>2
  <2> QED BY <2>1, <2>3, <2>4 DEF MakerInv, ChainTyped
<1> QED BY <1>1, <1>2, <1>3 DEF MakerInv, MemoryTyped, ChainTyped

-----------------------------------------------------------------------------
(* Claims.                                                                 *)

\* A token that is passed over, without or with an answer.
LEMMA PassedOver ==
  ASSUME MakerInv, NEW p \in Pools, task[p].at \in {"claim", "ask"}, task' = NextToken(p),
         UNCHANGED <<pending, plan, waiting, wallet, claimable, claiming, swaps, claims, late>>
  PROVE  MakerInv'
<1>1. TasksTyped' /\ \A q \in Pools : task'[q].at = "ask" => task'[q] = task[q]
  BY NextTokenTyped DEF MakerInv
<1>2. AllCovered'
  BY <1>1, NothingAsked
<1> QED BY <1>1, <1>2 DEF MakerInv, MemoryTyped, ChainTyped

\* A task asks for what is owed and not asked for.
LEMMA AskKeeps ==
  ASSUME MakerInv, NEW p \in Pools, ClaimBalances(p) \/ ClaimBalancesFails(p)
  PROVE  MakerInv'
<1> DEFINE t == task[p].side
<1>1. /\ task[p].at = "claim" /\ task[p] \in TaskRecord /\ t \in Sides
      /\ UNCHANGED <<pending, plan, waiting, wallet, claimable, claiming, swaps, claims, late>>
  BY DEF MakerInv, TasksTyped, ClaimBalances, ClaimBalancesFails, chain, history
<1>2. CASE task' = NextToken(p)
  BY <1>1, <1>2, PassedOver
<1>3. CASE Due(p, t) /\ task' = [task EXCEPT ![p].at = "ask", ![p].amount = claimable[p][t]]
  <2> DEFINE new == [task[p] EXCEPT !.at = "ask", !.amount = claimable[p][t]]
  <2>1. claimable[p][t] \in Nat
    BY <1>1 DEF MakerInv, ChainTyped
  <2>2. /\ new \in TaskRecord /\ new.at = "ask" /\ new.side = t
        /\ new.amount = claimable[p][t]
    BY <1>1, <2>1 DEF TaskRecord
  <2>3. task' = [task EXCEPT ![p] = new]
    BY <1>3 DEF MakerInv, TasksTyped
  <2> HIDE DEF new
  <2>4. task' \in [Pools -> TaskRecord] /\ task'[p] = new /\ \A q \in Pools \ {p} : task'[q] = task[q]
    BY <2>2, <2>3 DEF MakerInv, TasksTyped
  <2>5. TasksTyped'
    BY <1>1, <2>2, <2>4 DEF MakerInv, TasksTyped
  <2>6. ASSUME ~late', NEW q \in Pools, NEW u \in Sides PROVE Covered(q, u)'
    <3>1. Covered(q, u)
      BY <1>1, <2>6 DEF MakerInv, AllCovered
    <3>2. task'[q].at = "ask" /\ task'[q].side = u =>
            u \notin waiting[q] /\ task'[q].amount <= claimable[q][u]
      <4>1. CASE q = p
        BY <1>3, <2>1, <2>2, <2>4, <4>1 DEF Due
      <4>2. CASE q # p
        BY <2>4, <3>1, <4>2 DEF Covered
      <4> QED BY <4>1, <4>2
    <3> QED BY <1>1, <3>1, <3>2 DEF Covered
  <2> QED BY <1>1, <2>5, <2>6 DEF MakerInv, AllCovered, MemoryTyped, ChainTyped
<1> QED BY <1>1, <1>2, <1>3 DEF ClaimBalances, ClaimBalancesFails

\* What a request adds to the claims of its pool.
LEMMA ClaimAdded ==
  ASSUME MakerInv, NEW p \in Pools, task[p].at = "ask", SendClaim(p)
  PROVE  /\ claims' \in [Pools -> Seq(Request)]
         /\ \A q \in Pools \ {p} : claims'[q] = claims[q]
         /\ DOMAIN claims'[p] = 1 .. Len(claims[p]) + 1 /\ DOMAIN claims[p] = 1 .. Len(claims[p])
         /\ Len(claims[p]) \in Nat
         /\ \A n \in DOMAIN claims[p] : claims'[p][n] = claims[p][n]
         /\ claims'[p][Len(claims[p]) + 1].side = task[p].side
         /\ claims'[p][Len(claims[p]) + 1].amount = task[p].amount
<1> DEFINE e == [side |-> task[p].side, amount |-> task[p].amount]
<1>1. e \in Request /\ e.side = task[p].side /\ e.amount = task[p].amount
  BY DEF MakerInv, TasksTyped, TaskRecord, Request
<1>2. claims \in [Pools -> Seq(Request)] /\ claims' = [claims EXCEPT ![p] = Append(@, e)]
  BY DEF MakerInv, ChainTyped, SendClaim
<1> HIDE DEF e
<1>3. /\ claims[p] \in Seq(Request) /\ claims'[p] = Append(claims[p], e)
      /\ \A q \in Pools \ {p} : claims'[q] = claims[q]
  BY <1>2
<1>4. /\ Append(claims[p], e) \in Seq(Request) /\ Len(Append(claims[p], e)) = Len(claims[p]) + 1
      /\ \A i \in 1 .. Len(claims[p]) : Append(claims[p], e)[i] = claims[p][i]
      /\ Append(claims[p], e)[Len(claims[p]) + 1] = e
  BY <1>1, <1>3, AppendProperties
<1>5. /\ DOMAIN claims[p] = 1 .. Len(claims[p]) /\ Len(claims[p]) \in Nat
      /\ DOMAIN Append(claims[p], e) = 1 .. Len(claims[p]) + 1
  BY <1>3, <1>4
<1>6. claims' \in [Pools -> Seq(Request)]
  BY <1>2, <1>3, <1>4
<1> QED BY <1>1, <1>3, <1>4, <1>5, <1>6

\* An acknowledged claim is waited for.
LEMMA ClaimKeeps == ASSUME MakerInv, NEW p \in Pools, Claim(p) PROVE MakerInv'
<1> DEFINE t == task[p].side
           new == Len(claims[p]) + 1
<1>1. /\ task[p].at = "ask" /\ t \in Sides /\ task' = NextToken(p) /\ SendClaim(p)
      /\ waiting' = [waiting EXCEPT ![p] = @ \cup {t}]
      /\ UNCHANGED <<pending, plan, wallet, claimable, claiming, swaps, late>>
  BY DEF MakerInv, TasksTyped, Claim, history
<1>2. /\ TasksTyped' /\ task'[p].at # "ask"
      /\ \A q \in Pools \ {p} : task'[q] = task[q]
  BY <1>1, NextTokenTyped DEF MakerInv
<1>3. /\ waiting' \in [Pools -> SUBSET Sides] /\ waiting'[p] = waiting[p] \cup {t}
      /\ \A q \in Pools \ {p} : waiting'[q] = waiting[q]
  BY <1>1 DEF MakerInv, MemoryTyped
<1>4. /\ claims' \in [Pools -> Seq(Request)]
      /\ \A q \in Pools \ {p} : claims'[q] = claims[q]
      /\ DOMAIN claims'[p] = 1 .. new /\ DOMAIN claims[p] = 1 .. Len(claims[p])
      /\ Len(claims[p]) \in Nat
      /\ \A n \in DOMAIN claims[p] : claims'[p][n] = claims[p][n]
      /\ claims'[p][new].side = t /\ claims'[p][new].amount = task[p].amount
  BY <1>1, ClaimAdded
<1> HIDE DEF new
<1>5. \A n \in DOMAIN claims'[p] : n = new \/ n \in DOMAIN claims[p]
  BY <1>4 DEF new
<1>6. ASSUME ~late', NEW q \in Pools, NEW u \in Sides PROVE Covered(q, u)'
  <2>1. Covered(q, u) /\ Covered(p, t)
    BY <1>1, <1>6 DEF MakerInv, AllCovered
  <2>2. CASE q # p
    BY <1>1, <1>2, <1>3, <1>4, <2>1, <2>2, ZenonT(40) DEF Covered
  <2>3. CASE q = p
    <3>1. t \notin waiting[p] /\ task[p].amount <= claimable[p][t]
      BY <1>1, <2>1 DEF Covered
    <3>2. \A n \in DOMAIN claims[p] : claims[p][n].side # t
      BY <2>1, <3>1 DEF Covered
    <3>3. ASSUME NEW n \in DOMAIN claims'[p], claims'[p][n].side = u
          PROVE  u \in waiting'[p] /\ claims'[p][n].amount <= claimable[p][u]
      BY <1>3, <1>4, <1>5, <2>1, <2>3, <3>1, <3>3 DEF Covered
    <3>4. ASSUME NEW m \in DOMAIN claims'[p], NEW n \in DOMAIN claims'[p],
                 claims'[p][m].side = u, claims'[p][n].side = u
          PROVE  m = n
      <4>1. CASE u = t
        BY <1>4, <1>5, <3>2, <3>4, <4>1
      <4>2. CASE u # t
        BY <1>4, <1>5, <2>1, <2>3, <3>4, <4>2 DEF Covered
      <4> QED BY <4>1, <4>2
    <3> QED BY <1>1, <1>2, <2>3, <3>3, <3>4 DEF Covered
  <2> QED BY <2>2, <2>3
<1> QED BY <1>1, <1>2, <1>3, <1>4, <1>6 DEF MakerInv, MemoryTyped, ChainTyped, AllCovered

\* A claim that is not acknowledged may have been sent all the same.
LEMMA ClaimFailsKeeps ==
  ASSUME MakerInv, NEW p \in Pools, NEW sent \in BOOLEAN, ClaimFails(p, sent) PROVE MakerInv'
<1>1. /\ task[p].at = "ask" /\ task' = NextToken(p)
      /\ UNCHANGED <<pending, plan, waiting, wallet, claimable, claiming, swaps>>
      /\ IF sent THEN SendClaim(p) /\ late' = TRUE ELSE UNCHANGED <<claims, late>>
  BY DEF ClaimFails
<1>2. CASE ~sent
  BY <1>1, <1>2, PassedOver
<1>3. CASE sent
  <2>1. claims' \in [Pools -> Seq(Request)]
    BY <1>1, <1>3, ClaimAdded
  <2>2. TasksTyped'
    BY <1>1, NextTokenTyped DEF MakerInv
  <2> QED BY <1>1, <1>3, <2>1, <2>2 DEF MakerInv, MemoryTyped, ChainTyped, AllCovered
<1> QED BY <1>2, <1>3

\* The retry time is over for a claim that its pool has handled, or was late.
LEMMA RetryKeeps ==
  ASSUME MakerInv, NEW p \in Pools, NEW t \in Sides, RetryDue(p, t) PROVE MakerInv'
<1>1. /\ waiting' = [waiting EXCEPT ![p] = @ \ {t}]
      /\ UNCHANGED <<task, pending, plan, wallet, claimable, claiming, swaps, claims>>
  BY DEF RetryDue, chain
<1>2. /\ waiting' \in [Pools -> SUBSET Sides] /\ waiting'[p] = waiting[p] \ {t}
      /\ \A q \in Pools \ {p} : waiting'[q] = waiting[q]
  BY <1>1 DEF MakerInv, MemoryTyped
<1>3. late' \/ (late' = late /\ \A n \in DOMAIN claims[p] : claims[p][n].side # t)
  BY DEF RetryDue, ToSet
<1>4. ASSUME ~late', NEW q \in Pools, NEW u \in Sides PROVE Covered(q, u)'
  <2>1. Covered(q, u)
    BY <1>3, <1>4 DEF MakerInv, AllCovered
  <2>2. CASE q # p
    BY <1>1, <1>2, <2>1, <2>2 DEF Covered
  <2>3. CASE q = p /\ u = t
    BY <1>1, <1>2, <1>3, <1>4, <2>1, <2>3 DEF Covered
  <2>4. CASE q = p /\ u # t
    BY <1>1, <1>2, <2>1, <2>4 DEF Covered
  <2> QED BY <2>2, <2>3, <2>4
<1> QED BY <1>1, <1>2, <1>4 DEF MakerInv, TasksTyped, MemoryTyped, ChainTyped, AllCovered

-----------------------------------------------------------------------------
(* The pools' chains.                                                      *)

\* More is owed and nothing else of a claim changes.
LEMMA MoreOwed ==
  ASSUME MakerInv, UNCHANGED <<task, waiting, claims, late>>,
         claimable' \in [Pools -> [Sides -> Nat]],
         \A p \in Pools, t \in Sides : claimable'[p][t] >= claimable[p][t]
  PROVE  AllCovered'
<1>1. ASSUME ~late', NEW p \in Pools, NEW t \in Sides PROVE Covered(p, t)'
  <2>1. Covered(p, t)
    BY <1>1 DEF MakerInv, AllCovered
  <2>2. claimable[p][t] \in Nat /\ claimable'[p][t] \in Nat /\ claimable'[p][t] >= claimable[p][t]
    BY DEF MakerInv, ChainTyped
  <2>3. ASSUME NEW n \in DOMAIN claims[p] PROVE claims[p][n].amount \in Nat
    <3>1. claims[p] \in Seq(Request)
      BY DEF MakerInv, ChainTyped
    <3>2. claims[p][n] \in Request
      BY <3>1
    <3> QED BY <3>2 DEF Request
  <2>4. task[p].amount \in Nat
    BY DEF MakerInv, TasksTyped, TaskRecord
  <2> QED BY <2>1, <2>2, <2>3, <2>4 DEF Covered
<1> QED BY <1>1 DEF AllCovered

\* A function of two arguments with one value changed.
LEMMA OneChanged ==
  ASSUME NEW f \in [Pools -> [Sides -> Nat]], NEW p \in Pools, NEW t \in Sides, NEW x \in Nat,
         NEW g, g = [f EXCEPT ![p][t] = x]
  PROVE  /\ g \in [Pools -> [Sides -> Nat]] /\ g[p][t] = x
         /\ \A q \in Pools, u \in Sides : q # p \/ u # t => g[q][u] = f[q][u]
OBVIOUS

LEMMA PoolSwapsKeeps == ASSUME MakerInv, NEW p \in Pools, PoolSwaps(p) PROVE MakerInv'
<1> DEFINE quote == Head(swaps[p])
           paid == TokenOf(p, IF quote > 0 THEN 1 ELSE 0)
           out == IF quote > 0 THEN 0 ELSE 1
<1>1. /\ swaps[p] # <<>> /\ swaps' = [swaps EXCEPT ![p] = Tail(@)]
      /\ UNCHANGED <<stage, task, pending, plan, waiting, claiming, claims, late>>
      /\ \/ UNCHANGED <<wallet, claimable>>
         \/ /\ wallet' = [wallet EXCEPT ![paid] = @ - Size(quote)]
            /\ claimable' = [claimable EXCEPT ![p][out] = @ + Size(quote)]
  BY DEF PoolSwaps, memory, history
<1>2. quote \in Int /\ Tail(swaps[p]) \in Seq(Int)
  BY <1>1, HeadTailProperties DEF MakerInv, ChainTyped
<1>3. swaps' \in [Pools -> Seq(Int)]
  BY <1>1, <1>2 DEF MakerInv, ChainTyped
<1>4. Size(quote) \in Nat /\ out \in Sides /\ paid \in Pools \cup {Native}
  BY <1>2, SizeNat DEF TokenOf, Sides
<1> HIDE DEF quote, paid, out
<1>5. /\ wallet' \in [Pools \cup {Native} -> Int]
      /\ claimable' \in [Pools -> [Sides -> Nat]]
      /\ \A q \in Pools, t \in Sides : claimable'[q][t] >= claimable[q][t]
  <2>1. /\ wallet \in [Pools \cup {Native} -> Int] /\ claimable \in [Pools -> [Sides -> Nat]]
        /\ \A q \in Pools, t \in Sides : claimable[q][t] \in Nat
    BY DEF MakerInv, ChainTyped
  <2>2. CASE UNCHANGED <<wallet, claimable>>
    BY <2>1, <2>2
  <2>3. CASE /\ wallet' = [wallet EXCEPT ![paid] = @ - Size(quote)]
             /\ claimable' = [claimable EXCEPT ![p][out] = @ + Size(quote)]
    <3>1. wallet[paid] - Size(quote) \in Int
      BY <1>4, <2>1
    <3>2. wallet' \in [Pools \cup {Native} -> Int]
      BY <1>4, <2>1, <2>3, <3>1
    <3> DEFINE x == claimable[p][out] + Size(quote)
    <3>3. x \in Nat /\ x >= claimable[p][out] /\ claimable' = [claimable EXCEPT ![p][out] = x]
      BY <1>4, <2>1, <2>3
    <3> HIDE DEF x
    <3>4. /\ claimable' \in [Pools -> [Sides -> Nat]] /\ claimable'[p][out] = x
          /\ \A q \in Pools, u \in Sides : q # p \/ u # out => claimable'[q][u] = claimable[q][u]
      BY <1>4, <2>1, <3>3, OneChanged
    <3>5. ASSUME NEW q \in Pools, NEW t \in Sides PROVE claimable'[q][t] >= claimable[q][t]
      BY <2>1, <3>3, <3>4
    <3> QED BY <3>2, <3>4, <3>5
  <2> QED BY <1>1, <2>2, <2>3
<1>6. AllCovered'
  BY <1>1, <1>5, MoreOwed
<1> QED BY <1>1, <1>3, <1>5, <1>6 DEF MakerInv, TasksTyped, MemoryTyped, ChainTyped

\* The claim that lowers what is owed is the only one of its output, and no
\* task is about to ask for it.
LEMMA PoolClaimsKeeps == ASSUME MakerInv, NEW p \in Pools, PoolClaims(p) PROVE MakerInv'
<1> DEFINE m == Head(claims[p])
<1>1. /\ claims[p] # <<>> /\ claims' = [claims EXCEPT ![p] = Tail(@)]
      /\ UNCHANGED <<stage, task, pending, plan, waiting, wallet, swaps, late>>
      /\ \/ UNCHANGED <<claimable, claiming>>
         \/ /\ claimable[p][m.side] >= m.amount
            /\ claimable' = [claimable EXCEPT ![p][m.side] = @ - m.amount]
            /\ claiming' = [claiming EXCEPT ![p][m.side] = @ + m.amount]
  <2>1. ~(claimable[p][m.side] < m.amount) => claimable[p][m.side] >= m.amount
    <3>1. m \in Request
      BY HeadTailProperties DEF MakerInv, ChainTyped, PoolClaims
    <3>2. m.side \in Sides /\ m.amount \in Nat
      BY <3>1 DEF Request
    <3> HIDE DEF m
    <3>3. claimable[p][m.side] \in Nat
      BY <3>2 DEF MakerInv, ChainTyped
    <3> QED BY <3>2, <3>3
  <2> QED BY <2>1 DEF PoolClaims, memory, history
<1>2. /\ m \in Request /\ Tail(claims[p]) \in Seq(Request) /\ m = claims[p][1]
      /\ Len(Tail(claims[p])) = Len(claims[p]) - 1 /\ Len(claims[p]) \in Nat
      /\ 1 \in DOMAIN claims[p]
      /\ \A i \in 1 .. Len(Tail(claims[p])) : Tail(claims[p])[i] = claims[p][i + 1]
  <2>1. claims[p] \in Seq(Request) /\ claims[p] # <<>>
    BY <1>1 DEF MakerInv, ChainTyped
  <2>2. Len(claims[p]) \in Nat \ {0} /\ DOMAIN claims[p] = 1 .. Len(claims[p])
    BY <2>1, EmptySeq
  <2> QED BY <2>1, <2>2, HeadTailProperties
<1>3. m.side \in Sides /\ m.amount \in Nat
  BY <1>2 DEF Request
<1> HIDE DEF m
<1>4. /\ claims' \in [Pools -> Seq(Request)] /\ claims'[p] = Tail(claims[p])
      /\ \A q \in Pools \ {p} : claims'[q] = claims[q]
  BY <1>1, <1>2 DEF MakerInv, ChainTyped
<1>5. \A n \in DOMAIN claims'[p] : /\ n + 1 \in DOMAIN claims[p] /\ n + 1 # 1
                                   /\ claims'[p][n] = claims[p][n + 1]
  <2>1. DOMAIN claims[p] = 1 .. Len(claims[p]) /\ DOMAIN Tail(claims[p]) = 1 .. Len(claims[p]) - 1
    BY <1>2 DEF MakerInv, ChainTyped
  <2> QED BY <1>2, <1>4, <2>1
<1>6. /\ claimable \in [Pools -> [Sides -> Nat]] /\ claiming \in [Pools -> [Sides -> Nat]]
      /\ claimable[p][m.side] \in Nat /\ claiming[p][m.side] \in Nat
  BY <1>3 DEF MakerInv, ChainTyped
<1>7. /\ claimable' \in [Pools -> [Sides -> Nat]] /\ claiming' \in [Pools -> [Sides -> Nat]]
      /\ \A q \in Pools, u \in Sides : q # p \/ u # m.side => claimable'[q][u] = claimable[q][u]
  <2>1. CASE UNCHANGED <<claimable, claiming>>
    BY <1>6, <2>1
  <2>2. CASE /\ claimable[p][m.side] >= m.amount
             /\ claimable' = [claimable EXCEPT ![p][m.side] = @ - m.amount]
             /\ claiming' = [claiming EXCEPT ![p][m.side] = @ + m.amount]
    <3> DEFINE x == claimable[p][m.side] - m.amount
               y == claiming[p][m.side] + m.amount
    <3>1. x \in Nat /\ y \in Nat
      BY <1>3, <1>6, <2>2
    <3>2. /\ claimable' = [claimable EXCEPT ![p][m.side] = x]
          /\ claiming' = [claiming EXCEPT ![p][m.side] = y]
      BY <2>2
    <3> HIDE DEF x, y
    <3> QED BY <1>3, <1>6, <3>1, <3>2, OneChanged
  <2> QED BY <1>1, <2>1, <2>2
<1>8. ASSUME ~late', NEW q \in Pools, NEW u \in Sides PROVE Covered(q, u)'
  <2>1. Covered(q, u) /\ Covered(p, m.side)
    BY <1>1, <1>3, <1>8 DEF MakerInv, AllCovered
  <2>2. CASE q # p
    BY <1>1, <1>4, <1>7, <2>1, <2>2 DEF Covered
  <2>3. CASE q = p /\ u # m.side
    <3>1. \A n, k \in DOMAIN claims'[p] : claims'[p][n].side = u /\ claims'[p][k].side = u => n = k
      <4>1. ASSUME NEW n \in DOMAIN claims'[p], NEW k \in DOMAIN claims'[p],
                   claims'[p][n].side = u, claims'[p][k].side = u
            PROVE  n = k
        <5>1. n + 1 = k + 1
          BY <1>5, <2>1, <2>3, <4>1 DEF Covered
        <5>2. n \in Int /\ k \in Int
          BY <1>4 DEF MakerInv, ChainTyped
        <5> QED BY <5>1, <5>2
      <4> QED BY <4>1
    <3> QED BY <1>1, <1>5, <1>7, <2>1, <2>3, <3>1 DEF Covered
  <2>4. CASE q = p /\ u = m.side
    <3>1. m.side \in waiting[p] /\ \A n \in DOMAIN claims'[p] : claims'[p][n].side # m.side
      BY <1>2, <1>5, <2>1 DEF Covered
    <3>2. ~(task[p].at = "ask" /\ task[p].side = m.side)
      BY <2>1, <3>1 DEF Covered
    <3> QED BY <1>1, <2>4, <3>1, <3>2 DEF Covered
  <2> QED BY <2>2, <2>3, <2>4
<1> QED BY <1>1, <1>4, <1>7, <1>8 DEF MakerInv, TasksTyped, MemoryTyped, ChainTyped, AllCovered

\* What a claim transfers arrives, or is owed again.
LEMMA TransferKeeps ==
  ASSUME MakerInv, NEW p \in Pools, NEW t \in Sides, ClaimPaid(p, t) \/ ClaimBounces(p, t)
  PROVE  MakerInv'
<1>1. /\ UNCHANGED <<stage, task, pending, plan, waiting, swaps, claims, late>>
      /\ claiming' = [claiming EXCEPT ![p][t] = 0]
  BY DEF ClaimPaid, ClaimBounces, memory, history
<1>2. /\ claimable \in [Pools -> [Sides -> Nat]] /\ claiming \in [Pools -> [Sides -> Nat]]
      /\ claimable[p][t] \in Nat /\ claiming[p][t] \in Nat
      /\ \A q \in Pools, u \in Sides : claimable[q][u] \in Nat
      /\ wallet \in [Pools \cup {Native} -> Int]
  BY DEF MakerInv, ChainTyped
<1>3. claiming' \in [Pools -> [Sides -> Nat]]
  BY <1>1, <1>2, OneChanged
<1>4. CASE ClaimPaid(p, t)
  <2> DEFINE token == TokenOf(p, t)
  <2>1. wallet' = [wallet EXCEPT ![token] = @ + claiming[p][t]] /\ claimable' = claimable
    BY <1>4 DEF ClaimPaid
  <2>2. token \in Pools \cup {Native}
    BY DEF TokenOf
  <2> HIDE DEF token
  <2>3. wallet' \in [Pools \cup {Native} -> Int]
    BY <1>2, <2>1, <2>2
  <2>4. AllCovered'
    BY <1>1, <1>2, <2>1, MoreOwed
  <2> QED BY <1>1, <1>3, <2>1, <2>3, <2>4 DEF MakerInv, TasksTyped, MemoryTyped, ChainTyped
<1>5. CASE ClaimBounces(p, t)
  <2> DEFINE x == claimable[p][t] + claiming[p][t]
  <2>1. wallet' = wallet /\ claimable' = [claimable EXCEPT ![p][t] = x]
    BY <1>5 DEF ClaimBounces
  <2>2. x \in Nat /\ x >= claimable[p][t]
    BY <1>2
  <2> HIDE DEF x
  <2>3. /\ claimable' \in [Pools -> [Sides -> Nat]] /\ claimable'[p][t] = x
        /\ \A q \in Pools, u \in Sides : q # p \/ u # t => claimable'[q][u] = claimable[q][u]
    BY <1>2, <2>1, <2>2, OneChanged
  <2>4. ASSUME NEW q \in Pools, NEW u \in Sides PROVE claimable'[q][u] >= claimable[q][u]
    BY <1>2, <2>2, <2>3
  <2>5. AllCovered'
    BY <1>1, <2>3, <2>4, MoreOwed
  <2> QED BY <1>1, <1>3, <2>1, <2>3, <2>5 DEF MakerInv, TasksTyped, MemoryTyped, ChainTyped
<1> QED BY <1>4, <1>5

-----------------------------------------------------------------------------
(* The specification.                                                      *)

LEMMA MakerInit == Init => MakerInv
<1> SUFFICES ASSUME Init PROVE MakerInv
  OBVIOUS
<1>1. /\ task = [p \in Pools |-> Done]
      /\ pending = [p \in Pools |-> [buy |-> 0, sell |-> 0]]
      /\ plan = [p \in Pools |-> <<>>] /\ waiting = [p \in Pools |-> {}]
      /\ wallet = [t \in Pools \cup {Native} |-> Wealth]
      /\ claimable = [p \in Pools |-> [t \in Sides |-> 0]] /\ claiming = claimable
      /\ swaps = [p \in Pools |-> <<>>] /\ claims = swaps
  BY DEF Init
<1>2. TasksTyped /\ \A p \in Pools : task[p].at # "ask"
  BY <1>1, TaskRecords DEF TasksTyped
<1>3. MemoryTyped /\ ChainTyped
  BY <1>1, MakerAssumption DEF MemoryTyped, ChainTyped
<1>4. ASSUME NEW p \in Pools, NEW t \in Sides PROVE Covered(p, t)
  <2>1. DOMAIN claims[p] = {}
    BY <1>1
  <2> QED BY <1>2, <2>1 DEF Covered
<1> QED BY <1>2, <1>3, <1>4 DEF MakerInv, AllCovered

LEMMA MakerStep == MakerInv /\ [Next]_vars => MakerInv'
<1> SUFFICES ASSUME MakerInv, [Next]_vars PROVE MakerInv'
  OBVIOUS
<1>1. CASE \E listed \in BOOLEAN : StartRound(listed)
  BY <1>1, PhasesKeep
<1>2. CASE \E finalize \in BOOLEAN : StartSlices(finalize)
  BY <1>2, SlicesKeep
<1>3. CASE EndRound
  BY <1>3, PhasesKeep
<1>4. CASE Restart
  BY <1>4, RestartKeeps
<1>5. ASSUME NEW p \in Pools, Step(p) PROVE MakerInv'
  BY <1>5, AskKeeps, ClaimKeeps, PlanKeeps, ExecuteKeeps DEF Step
<1>6. ASSUME NEW p \in Pools, Chain(p) PROVE MakerInv'
  BY <1>6, PoolSwapsKeeps, PoolClaimsKeeps, TransferKeeps DEF Chain
<1>7. ASSUME NEW p \in Pools, ClaimBalancesFails(p) PROVE MakerInv'
  BY <1>7, AskKeeps
<1>8. ASSUME NEW p \in Pools, NEW sent \in BOOLEAN, ClaimFails(p, sent) PROVE MakerInv'
  BY <1>8, ClaimFailsKeeps
<1>9. ASSUME NEW p \in Pools, WorkFails(p) PROVE MakerInv'
  BY <1>9, PhasesKeep
<1>10. ASSUME NEW p \in Pools, NEW t \in Sides, RetryDue(p, t) \/ ClaimBounces(p, t)
       PROVE  MakerInv'
  BY <1>10, RetryKeeps, TransferKeeps
<1>11. CASE UNCHANGED vars
  BY <1>11 DEF vars, memory, chain, history, MakerInv, TasksTyped, MemoryTyped, ChainTyped,
               AllCovered, Covered
<1> QED BY <1>1, <1>2, <1>3, <1>4, <1>5, <1>6, <1>7, <1>8, <1>9, <1>10, <1>11 DEF Next

\* The maker's tasks, memory and requests are typed, and as long as claims
\* are acknowledged and handled in time, a claim on its way to a pool is the
\* only one of its output, is waited for and is owed, and a task that is about
\* to ask (claim_pool_outputs) may still do so.
THEOREM MakerInvariant == Spec => []MakerInv
BY MakerInit, MakerStep, PTL DEF Spec

LEMMA CoveredClaims == MakerInv => ClaimsCovered
<1> SUFFICES ASSUME MakerInv, ~late, NEW p \in Pools, NEW t \in Sides
             PROVE  /\ \A m \in ToSet(claims[p]) : m.side = t => m.amount <= claimable[p][t]
                    /\ Cardinality({n \in DOMAIN claims[p] : claims[p][n].side = t}) <= 1
  BY DEF ClaimsCovered
<1>1. Covered(p, t)
  BY DEF MakerInv, AllCovered
<1>2. \A m \in ToSet(claims[p]) : m.side = t => m.amount <= claimable[p][t]
  BY <1>1 DEF ToSet, Covered
<1> DEFINE same == {n \in DOMAIN claims[p] : claims[p][n].side = t}
<1>3. Cardinality(same) <= 1
  <2>1. CASE same = {}
    BY <2>1, FS_EmptySet
  <2>2. CASE same # {}
    <3>1. PICK n \in same : TRUE
      BY <2>2
    <3>2. same = {n}
      BY <1>1, <3>1 DEF Covered
    <3> HIDE DEF same
    <3>3. Cardinality({n}) = 1
      BY FS_Singleton
    <3> QED BY <3>2, <3>3
  <2> QED BY <2>1, <2>2
<1> QED BY <1>2, <1>3

\* No output is claimed twice, although two tasks of a round ask for it, and
\* a claim of a balance that was read before the request is never refused, as
\* long as claims are acknowledged and handled within claim_retry_secs.
THEOREM ClaimsCoveredSound == Spec => []ClaimsCovered
BY MakerInvariant, CoveredClaims, PTL

-----------------------------------------------------------------------------
(* What is traded.                                                         *)

Left(p) == SumOf(plan[p]) + Working(p)

\* The slices of a plan are equal, the one a task works at is one of them,
\* and what is left was planned and not sent.
InStep(p) ==
  /\ \A i, j \in DOMAIN plan[p] : plan[p][i] = plan[p][j]
  /\ Working(p) # 0 => \A i \in DOMAIN plan[p] : plan[p][i] = Working(p)
Backed(p) ==
  /\ pending[p].buy + Buys(Left(p)) <= open[p].buy
  /\ pending[p].sell + Sells(Left(p)) <= open[p].sell
OneWay(p) == ReversePercent = 0 => pending[p].buy = 0 \/ pending[p].sell = 0
Traded(p) == InStep(p) /\ Backed(p) /\ OneWay(p)

TradesTyped ==
  /\ wallet \in [Pools \cup {Native} -> Nat]
  /\ pending \in [Pools -> [buy : Nat, sell : Nat]]
  /\ open \in [Pools -> [buy : Int, sell : Int]]

TradingInv == TradesTyped /\ \A p \in Pools : Traded(p)

\* A number of slices, of one direction.
LEMMA SameSide ==
  ASSUME NEW n \in Nat, NEW w \in Int
  PROVE  /\ n * w \in Int /\ (w >= 0 => n * w >= 0) /\ (w <= 0 => n * w <= 0)
         /\ w * (n * w) >= 0
<1>1. n * w \in Int
  OBVIOUS
<1>2. w >= 0 => n * w >= 0
  OBVIOUS
<1>3. w <= 0 => n * w <= 0
  OBVIOUS
<1> DEFINE x == n * w
<1>4. x \in Int /\ (w >= 0 => x >= 0) /\ (w <= 0 => x <= 0)
  BY <1>1, <1>2, <1>3
<1> HIDE DEF x
<1>5. w * x >= 0
  <2>1. CASE w >= 0 /\ x >= 0
    BY <1>4, <2>1
  <2>2. CASE w <= 0 /\ x <= 0
    BY <1>4, <2>2
  <2> QED BY <1>4, <2>1, <2>2
<1> QED BY <1>4, <1>5 DEF x

LEMMA SlicesSum ==
  ASSUME NEW s \in Seq(Int), NEW v \in Int, \A i \in DOMAIN s : s[i] = v
  PROVE  SumOf(s) = Len(s) * v
<1>1. DOMAIN s = 1 .. Len(s) /\ Len(s) \in Nat /\ s \in [1 .. Len(s) -> {v}]
  OBVIOUS
<1>2. IsFiniteSet(1 .. Len(s)) /\ Cardinality(1 .. Len(s)) = Len(s)
  BY <1>1, FS_Interval, SMTT(40)
<1>3. SumFunction(s) = Cardinality(1 .. Len(s)) * v
  BY <1>1, <1>2, SumSame
<1> QED BY <1>2, <1>3 DEF SumOf

\* A plan's next slice is taken.
LEMMA SliceTaken ==
  ASSUME NEW s \in Seq(Int), s # <<>>, \A i, j \in DOMAIN s : s[i] = s[j]
  PROVE  /\ Head(s) \in Int /\ Tail(s) \in Seq(Int)
         /\ \A i \in DOMAIN Tail(s) : Tail(s)[i] = Head(s)
         /\ SumOf(s) = SumOf(Tail(s)) + Head(s) /\ SumOf(Tail(s)) \in Int
<1> DEFINE v == Head(s)
           t == Tail(s)
<1>1. /\ v \in Int /\ t \in Seq(Int) /\ Len(t) = Len(s) - 1 /\ v = s[1]
      /\ \A i \in 1 .. Len(t) : t[i] = s[i + 1]
      /\ DOMAIN s = 1 .. Len(s) /\ DOMAIN t = 1 .. Len(t) /\ Len(s) \in Nat \ {0} /\ Len(t) \in Nat
  BY HeadTailProperties, EmptySeq
<1> HIDE DEF v, t
<1>2. \A i \in DOMAIN s : s[i] = v
  <2>1. 1 \in DOMAIN s
    BY <1>1
  <2> QED BY <1>1, <2>1
<1>3. \A i \in DOMAIN t : t[i] = v
  <2>1. ASSUME NEW i \in DOMAIN t PROVE i + 1 \in DOMAIN s /\ t[i] = s[i + 1]
    BY <1>1, SMTT(40)
  <2> QED BY <1>2, <2>1
<1>4. SumOf(s) = Len(s) * v /\ SumOf(t) = Len(t) * v
  BY <1>1, <1>2, <1>3, SlicesSum
<1>5. \A n \in Nat : (n + 1) * v = n * v + v /\ n * v \in Int
  BY <1>1
<1>6. Len(s) = Len(t) + 1
  BY <1>1
<1> QED BY <1>1, <1>3, <1>4, <1>5, <1>6 DEF v, t

\* What is left of a plan has the direction of its slices.
LEMMA LeftTyped ==
  ASSUME MakerInv, NEW p \in Pools, InStep(p)
  PROVE  /\ Working(p) \in Int /\ SumOf(plan[p]) \in Int /\ Left(p) \in Int
         /\ Working(p) * SumOf(plan[p]) >= 0
         /\ Working(p) > 0 => SumOf(plan[p]) >= 0
         /\ Working(p) < 0 => SumOf(plan[p]) <= 0
<1> DEFINE s == plan[p]
           w == Working(p)
           sum == SumOf(plan[p])
<1>1. s \in Seq(Int) /\ Len(s) \in Nat /\ w \in Int
  BY DEF MakerInv, MemoryTyped, TasksTyped, TaskRecord, Working
<1>2. CASE w # 0
  <2>1. sum = Len(s) * w
    BY <1>1, <1>2, SlicesSum DEF InStep
  <2> HIDE DEF s, w, sum
  <2>2. sum \in Int /\ (w >= 0 => sum >= 0) /\ (w <= 0 => sum <= 0) /\ w * sum >= 0
    BY <1>1, <2>1, SameSide
  <2> QED BY <1>1, <2>2 DEF Left, s, w, sum
<1>3. CASE w = 0
  <2>1. sum \in Int
    <3>1. CASE s = <<>>
      <4>1. \A i \in DOMAIN s : s[i] = 0
        BY <3>1
      <4>2. sum = Len(s) * 0
        BY <1>1, <4>1, SlicesSum
      <4> HIDE DEF s, sum
      <4> QED BY <1>1, <4>2
    <3>2. CASE s # <<>>
      <4>1. SumOf(s) = SumOf(Tail(s)) + Head(s) /\ SumOf(Tail(s)) \in Int /\ Head(s) \in Int
        BY <1>1, <3>2, SliceTaken DEF InStep
      <4> QED BY <4>1
    <3> QED BY <3>1, <3>2
  <2> HIDE DEF sum, w
  <2>2. w * sum = 0
    BY <1>3, <2>1
  <2> QED BY <1>1, <1>3, <2>1, <2>2 DEF Left, w, sum
<1> QED BY <1>2, <1>3

\* The slices of a window are worth at most what it planned.
LEMMA PlanWorth ==
  ASSUME NEW q \in Int
  PROVE  LET s == BuildMinutePlan(q)
         IN  /\ s \in Seq(Int) /\ \A i, j \in DOMAIN s : s[i] = s[j]
             /\ SumOf(s) \in Int
             /\ (q >= 0 => 0 <= SumOf(s) /\ SumOf(s) <= q)
             /\ (q <= 0 => q <= SumOf(s) /\ SumOf(s) <= 0)
<1> DEFINE size == Size(q)
           estimated == IF size > 4 * OneQuote THEN 4 ELSE CeilDiv(size, OneQuote)
           count == IF estimated < MinSlices THEN MinSlices ELSE Least(estimated, MaxSlices)
           slice == size \div count
           s == BuildMinutePlan(q)
<1>1. size \in Nat /\ OneQuote \in Nat \ {0} /\ MinSlices \in Nat \ {0} /\ MaxSlices \in Nat \ {0}
      /\ (q >= 0 => size = q) /\ (q <= 0 => size = -q)
  BY MakerAssumption DEF Size
<1>2. estimated \in Int
  <2>1. CeilDiv(size, OneQuote) \in Int
    BY <1>1 DEF CeilDiv
  <2> QED BY <2>1
<1>3. count \in Nat \ {0}
  BY <1>1, <1>2 DEF Least
<1> HIDE DEF size, estimated, count
<1>4. slice \in Nat /\ count * slice <= size
  BY <1>1, <1>3
<1>5. s = [n \in 1 .. count |-> Sign(q) * slice]
  BY DEF BuildMinutePlan, size, estimated, count
<1> HIDE DEF slice, s
<1>6. Sign(q) \in {-1, 0, 1} /\ Sign(q) * slice \in Int
  BY <1>4 DEF Sign
<1> DEFINE v == Sign(q) * slice
<1>7. s \in Seq(Int) /\ Len(s) = count /\ DOMAIN s = 1 .. count /\ \A i \in DOMAIN s : s[i] = v
  BY <1>3, <1>5, <1>6
<1>8. SumOf(s) = count * v
  <2> HIDE DEF v
  <2>1. v \in Int
    BY <1>6 DEF v
  <2> QED BY <1>7, <2>1, SlicesSum
<1> DEFINE total == count * slice
<1>9. total \in Nat /\ total <= size
  BY <1>3, <1>4
<1>10. (q > 0 => count * v = total) /\ (q < 0 => count * v = -total) /\ (q = 0 => count * v = 0)
  <2>1. CASE q > 0
    <3>1. v = slice
      BY <1>4, <2>1 DEF Sign
    <3> QED BY <2>1, <3>1
  <2>2. CASE q < 0
    <3>1. v = -slice
      BY <1>4, <2>2 DEF Sign
    <3> HIDE DEF v
    <3>2. count * v = -total
      BY <1>3, <1>4, <3>1
    <3> QED BY <2>2, <3>2
  <2>3. CASE q = 0
    <3>1. v = 0
      BY <1>4, <2>3 DEF Sign
    <3> HIDE DEF v
    <3>2. count * v = 0
      BY <1>3, <3>1
    <3> QED BY <2>3, <3>2
  <2> QED BY <2>1, <2>2, <2>3
<1> DEFINE sum == SumOf(s)
<1>11. /\ sum \in Int
       /\ (q >= 0 => 0 <= sum /\ sum <= q)
       /\ (q <= 0 => q <= sum /\ sum <= 0)
  <2>1. (q > 0 => sum = total) /\ (q < 0 => sum = -total) /\ (q = 0 => sum = 0)
    BY <1>8, <1>10
  <2> HIDE DEF sum, total
  <2> QED BY <1>1, <1>9, <2>1
<1> QED BY <1>7, <1>11 DEF s

\* What is sent of a slice.
LEMMA SentWithin ==
  ASSUME NEW w \in Int, NEW balance \in [Sides -> Nat]
  PROVE  /\ Sent(w, balance) \in Int
         /\ w >= 0 => 0 <= Sent(w, balance) /\ Sent(w, balance) <= w
         /\ w <= 0 => w <= Sent(w, balance) /\ Sent(w, balance) <= 0
<1> DEFINE some == IF w > 0 THEN balance[1] ELSE balance[0]
           part == Percent(30, some)
           least == Least(Size(w), part)
<1>1. some \in Nat
  BY DEF Sides
<1> HIDE DEF some
<1>2. part \in Nat
  <2> DEFINE x == 30 * some
  <2>1. x \in Nat
    BY <1>1
  <2> HIDE DEF x
  <2>2. x \div 100 \in Nat
    BY <2>1
  <2> QED BY <2>2 DEF Percent, x
<1> HIDE DEF part
<1>3. least \in Nat /\ (w >= 0 => least <= w) /\ (w <= 0 => least <= -w)
  BY <1>2 DEF Least, Size
<1>4. Sent(w, balance) = Sign(w) * least
  BY DEF Sent, least, part, some
<1> HIDE DEF least
<1>5. CASE w > 0
  BY <1>3, <1>4, <1>5 DEF Sign
<1>6. CASE w < 0
  BY <1>3, <1>4, <1>6 DEF Sign
<1>7. CASE w = 0
  BY <1>3, <1>4, <1>7 DEF Sign
<1> QED BY <1>5, <1>6, <1>7

LEMMA Nearer ==
  ASSUME NEW a \in Int, NEW b \in Int, (0 <= a /\ a <= b) \/ (b <= a /\ a <= 0)
  PROVE  Buys(a) <= Buys(b) /\ Sells(a) <= Sells(b)
BY DEF Buys, Sells

\* A window that may not turn keeps its direction.
LEMMA WindowKept ==
  ASSUME NEW net \in Int, NEW quote \in Int, ReversePercent = 0
  PROVE  net * NormalizeQuote(net, quote) >= 0
<1>1. CASE net * quote >= 0
  BY <1>1 DEF NormalizeQuote
<1>2. CASE ~(net * quote >= 0)
  <2>1. Size(net) \in Nat /\ Size(quote) \in Nat
    BY SizeNat
  <2>2. Percent(ReversePercent, Size(net)) = 0
    <3>1. ReversePercent * Size(net) = 0
      BY <2>1
    <3> QED BY <3>1 DEF Percent
  <2>3. Least(Size(quote), 0) = 0
    BY <2>1 DEF Least
  <2>4. Sign(quote) * 0 = 0
    BY DEF Sign
  <2>5. NormalizeQuote(net, quote) = 0
    BY <1>2, <2>2, <2>3, <2>4 DEF NormalizeQuote
  <2> QED BY <2>5
<1> QED BY <1>1, <1>2

LEMMA SidesNat ==
  \A q \in Int : Buys(q) \in Nat /\ Sells(q) \in Nat
BY DEF Buys, Sells

\* A task that goes on, or is done with its slice.
LEMMA TradedKept ==
  ASSUME MakerInv, TradesTyped, NEW p \in Pools, Traded(p),
         plan'[p] = plan[p], pending'[p] = pending[p], open'[p] = open[p],
         Working(p)' \in {Working(p), 0}
  PROVE  Traded(p)'
<1> DEFINE w == Working(p)
           sum == SumOf(plan[p])
<1>1. /\ w \in Int /\ sum \in Int /\ Left(p) = sum + w
      /\ (w > 0 => sum >= 0) /\ (w < 0 => sum <= 0)
  BY LeftTyped DEF Traded, Left
<1>2. Left(p)' = sum + Working(p)'
  BY DEF Left
<1>3. InStep(p)' /\ OneWay(p)'
  BY DEF Traded, InStep, OneWay
<1>4. Backed(p)'
  <2>1. CASE Working(p)' = w
    <3>1. Left(p)' = Left(p)
      BY <1>1, <1>2, <2>1
    <3> QED BY <3>1 DEF Traded, Backed
  <2>2. CASE Working(p)' = 0
    <3>1. Left(p)' = sum
      BY <1>1, <1>2, <2>2
    <3> HIDE DEF w, sum
    <3>2. Left(p) \in Int /\ ((0 <= sum /\ sum <= Left(p)) \/ (Left(p) <= sum /\ sum <= 0))
      BY <1>1
    <3>3. Buys(sum) <= Buys(Left(p)) /\ Sells(sum) <= Sells(Left(p))
      BY <1>1, <3>2, Nearer
    <3>4. /\ Buys(sum) \in Nat /\ Sells(sum) \in Nat /\ Buys(Left(p)) \in Nat /\ Sells(Left(p)) \in Nat
          /\ pending[p].buy \in Nat /\ pending[p].sell \in Nat
          /\ open[p].buy \in Int /\ open[p].sell \in Int
      BY <1>1, <3>2, SidesNat DEF TradesTyped
    <3>5. /\ pending[p].buy + Buys(Left(p)) <= open[p].buy
          /\ pending[p].sell + Sells(Left(p)) <= open[p].sell
      BY DEF Traded, Backed
    <3>6. /\ pending[p].buy + Buys(sum) <= open[p].buy
          /\ pending[p].sell + Sells(sum) <= open[p].sell
      BY <3>3, <3>4, <3>5
    <3> QED BY <3>1, <3>6 DEF Backed
  <2> QED BY <2>1, <2>2
<1> QED BY <1>3, <1>4 DEF Traded

\* A step that plans and sends nothing.
LEMMA NothingTraded ==
  ASSUME MakerInv, TradingInv, UNCHANGED <<plan, pending, open>>,
         wallet' \in [Pools \cup {Native} -> Nat],
         \A p \in Pools : Working(p)' \in {Working(p), 0}
  PROVE  TradingInv'
<1>1. TradesTyped'
  BY DEF TradingInv, TradesTyped
<1>2. ASSUME NEW p \in Pools PROVE Traded(p)'
  BY <1>2, TradedKept DEF TradingInv
<1> QED BY <1>1, <1>2 DEF TradingInv

LEMMA WorkingKept ==
  ASSUME MakerInv, NEW p \in Pools, stage' = stage,
         \/ task' = task
         \/ task' = [task EXCEPT ![p] = Done]
         \/ task[p].at \in {"claim", "ask"} /\ task' = NextToken(p)
         \/ /\ task[p].at = "claim"
            /\ task' = [task EXCEPT ![p].at = "ask", ![p].amount = claimable[p][task[p].side]]
  PROVE  \A q \in Pools : Working(q)' \in {Working(q), 0}
<1>1. task \in [Pools -> TaskRecord]
  BY DEF MakerInv, TasksTyped
<1>2. CASE task' = task
  BY <1>2 DEF Working
<1>3. CASE task' = [task EXCEPT ![p] = Done]
  BY <1>1, <1>3, TaskRecords DEF Working
<1>4. CASE task[p].at \in {"claim", "ask"} /\ task' = NextToken(p)
  <2> DEFINE at == IF task[p].side = 0 THEN "claim" ELSE "work"
             new == [task[p] EXCEPT !.side = @ + 1, !.amount = 0, !.at = at]
  <2>1. task' = [task EXCEPT ![p] = new] /\ at \in {"claim", "work"}
    BY <1>1, <1>4 DEF NextToken
  <2> HIDE DEF at
  <2>2. new.slice = task[p].slice /\ new.at = at
    BY <1>1 DEF TaskRecord
  <2> HIDE DEF new
  <2>3. task'[p] = new /\ \A q \in Pools \ {p} : task'[q] = task[q]
    BY <1>1, <2>1
  <2>4. ASSUME NEW q \in Pools PROVE Working(q)' = Working(q)
    BY <1>4, <2>1, <2>2, <2>3 DEF Working
  <2> QED BY <2>4
<1>5. CASE /\ task[p].at = "claim"
           /\ task' = [task EXCEPT ![p].at = "ask", ![p].amount = claimable[p][task[p].side]]
  <2> DEFINE new == [task[p] EXCEPT !.at = "ask", !.amount = claimable[p][task[p].side]]
  <2>1. task' = [task EXCEPT ![p] = new]
    BY <1>1, <1>5
  <2>2. new.slice = task[p].slice /\ new.at = "ask"
    BY <1>1 DEF TaskRecord
  <2> HIDE DEF new
  <2>3. task'[p] = new /\ \A q \in Pools \ {p} : task'[q] = task[q]
    BY <1>1, <2>1
  <2>4. ASSUME NEW q \in Pools PROVE Working(q)' = Working(q)
    <3>1. task[p].at = "claim"
      BY <1>5
    <3>2. CASE q = p
      BY <2>2, <2>3, <3>1, <3>2 DEF Working
    <3>3. CASE q # p
      BY <2>3, <3>3 DEF Working
    <3> QED BY <3>2, <3>3
  <2> QED BY <2>4
<1> QED BY <1>2, <1>3, <1>4, <1>5

\* Phases, claims, failures and retries.
LEMMA MemoryTrades ==
  ASSUME MakerInv, TradingInv, NEW p \in Pools,
         \/ ClaimBalances(p) \/ ClaimBalancesFails(p) \/ Claim(p)
         \/ \E sent \in BOOLEAN : ClaimFails(p, sent)
         \/ \E t \in Sides : RetryDue(p, t)
         \/ WorkFails(p)
  PROVE  TradingInv'
<1>1. UNCHANGED <<stage, plan, pending, open, wallet>>
  BY DEF ClaimBalances, ClaimBalancesFails, Claim, ClaimFails, RetryDue, WorkFails, chain, history
<1>2. \/ task' = task
      \/ task' = [task EXCEPT ![p] = Done]
      \/ task[p].at \in {"claim", "ask"} /\ task' = NextToken(p)
      \/ /\ task[p].at = "claim"
         /\ task' = [task EXCEPT ![p].at = "ask", ![p].amount = claimable[p][task[p].side]]
  BY Zenon DEF ClaimBalances, ClaimBalancesFails, Claim, ClaimFails, RetryDue, WorkFails
<1>3. \A q \in Pools : Working(q)' \in {Working(q), 0}
  BY <1>1, <1>2, WorkingKept
<1>4. wallet' \in [Pools \cup {Native} -> Nat]
  BY <1>1 DEF TradingInv, TradesTyped
<1> QED BY <1>1, <1>3, <1>4, NothingTraded

LEMMA RoundTrades ==
  ASSUME MakerInv, TradingInv, (\E listed \in BOOLEAN : StartRound(listed)) \/ EndRound
  PROVE  TradingInv'
<1>1. UNCHANGED <<plan, pending, open, wallet>> /\ stage' # "slices"
  BY DEF StartRound, EndRound, chain, history
<1>2. \A q \in Pools : Working(q)' = 0
  BY <1>1 DEF Working
<1>3. wallet' \in [Pools \cup {Native} -> Nat]
  BY <1>1 DEF TradingInv, TradesTyped
<1> QED BY <1>1, <1>2, <1>3, NothingTraded

\* The chains take from a wallet what it has.
LEMMA ChainTrades ==
  ASSUME MakerInv, TradingInv, NEW p \in Pools,
         PoolSwaps(p) \/ PoolClaims(p) \/ \E t \in Sides : ClaimPaid(p, t) \/ ClaimBounces(p, t)
  PROVE  TradingInv'
<1>1. UNCHANGED <<stage, task, plan, pending, open>>
  BY DEF PoolSwaps, PoolClaims, ClaimPaid, ClaimBounces, memory, history
<1>2. wallet \in [Pools \cup {Native} -> Nat] /\ swaps \in [Pools -> Seq(Int)]
      /\ claiming \in [Pools -> [Sides -> Nat]]
  BY DEF MakerInv, ChainTyped, TradingInv, TradesTyped
<1>3. wallet' \in [Pools \cup {Native} -> Nat]
  <2>1. CASE PoolSwaps(p)
    <3> DEFINE quote == Head(swaps[p])
               paid == TokenOf(p, IF quote > 0 THEN 1 ELSE 0)
               x == wallet[paid] - Size(quote)
    <3>1. quote \in Int
      BY <1>2, <2>1, HeadTailProperties DEF PoolSwaps
    <3>2. Size(quote) \in Nat /\ paid \in Pools \cup {Native}
      BY <3>1, SizeNat DEF TokenOf
    <3>3. \/ wallet' = wallet
          \/ ~(wallet[paid] < Size(quote)) /\ wallet' = [wallet EXCEPT ![paid] = x]
      BY <2>1 DEF PoolSwaps
    <3> HIDE DEF quote, paid
    <3>4. ~(wallet[paid] < Size(quote)) => x \in Nat
      BY <1>2, <3>2
    <3> HIDE DEF x
    <3> QED BY <1>2, <3>2, <3>3, <3>4
  <2>2. CASE PoolClaims(p)
    BY <1>2, <2>2 DEF PoolClaims
  <2>3. ASSUME NEW t \in Sides, ClaimPaid(p, t) PROVE wallet' \in [Pools \cup {Native} -> Nat]
    <3> DEFINE token == TokenOf(p, t)
               x == wallet[token] + claiming[p][t]
    <3>1. token \in Pools \cup {Native} /\ wallet' = [wallet EXCEPT ![token] = x]
      BY <2>3 DEF ClaimPaid, TokenOf
    <3> HIDE DEF token
    <3>2. x \in Nat
      BY <1>2, <3>1
    <3> HIDE DEF x
    <3> QED BY <1>2, <3>1, <3>2
  <2>4. ASSUME NEW t \in Sides, ClaimBounces(p, t) PROVE wallet' \in [Pools \cup {Native} -> Nat]
    BY <1>2, <2>4 DEF ClaimBounces
  <2> QED BY <2>1, <2>2, <2>3, <2>4
<1>4. \A q \in Pools : Working(q)' \in {Working(q), 0}
  BY <1>1 DEF Working
<1> QED BY <1>1, <1>3, <1>4, NothingTraded

\* What a window plans is pending and open.
LEMMA PlanTrades == ASSUME MakerInv, TradingInv, NEW p \in Pools, PlanTrade(p) PROVE TradingInv'
<1> DEFINE net == Net(p)
<1>1. /\ stage = "trade" /\ UNCHANGED <<stage, plan, wallet>>
      /\ task' = [task EXCEPT ![p] = Done]
  BY DEF PlanTrade, chain
<1>2. /\ pending \in [Pools -> [buy : Nat, sell : Nat]] /\ open \in [Pools -> [buy : Int, sell : Int]]
      /\ \A q \in Pools : Traded(q) /\ Working(q) = 0 /\ Working(q)' = 0
  BY <1>1 DEF TradingInv, TradesTyped, Working
<1>3. net \in Int /\ net = pending[p].buy - pending[p].sell
  BY NetInt DEF MakerInv, Net
<1> HIDE DEF net
<1>4. CASE UNCHANGED <<pending, open>>
  <2>1. wallet' \in [Pools \cup {Native} -> Nat]
    BY <1>1 DEF TradingInv, TradesTyped
  <2> QED BY <1>1, <1>2, <1>4, <2>1, NothingTraded
<1>5. ASSUME NEW quote \in Int, quote # 0, QueueTrade(p, quote),
             ReversePercent = 0 => net * quote >= 0
      PROVE  TradingInv'
  <2> DEFINE buy == Buys(quote)
             sell == Sells(quote)
             planned == [buy |-> pending[p].buy + buy, sell |-> pending[p].sell + sell]
             opened == [buy |-> open[p].buy + buy, sell |-> open[p].sell + sell]
  <2>1. /\ buy \in Nat /\ sell \in Nat
        /\ quote > 0 => buy = quote /\ sell = 0
        /\ ~(quote > 0) => buy = 0 /\ sell = -quote
    BY <1>5 DEF Buys, Sells
  <2>2. /\ pending[p] \in [buy : Nat, sell : Nat] /\ open[p] \in [buy : Int, sell : Int]
        /\ pending[p].buy \in Nat /\ pending[p].sell \in Nat
        /\ open[p].buy \in Int /\ open[p].sell \in Int
    BY <1>2
  <2> HIDE DEF buy, sell
  <2>3. pending' = [pending EXCEPT ![p] = planned] /\ open' = [open EXCEPT ![p] = opened]
    <3>1. CASE quote > 0
      <4>1. pending' = [pending EXCEPT ![p].buy = @ + quote] /\ open' = [open EXCEPT ![p].buy = @ + quote]
        BY <1>5, <3>1 DEF QueueTrade
      <4>2. /\ [pending[p] EXCEPT !.buy = @ + quote] = planned
            /\ [open[p] EXCEPT !.buy = @ + quote] = opened
        BY <2>1, <2>2, <3>1
      <4> QED BY <1>2, <4>1, <4>2
    <3>2. CASE ~(quote > 0)
      <4>1. pending' = [pending EXCEPT ![p].sell = @ - quote] /\ open' = [open EXCEPT ![p].sell = @ - quote]
        BY <1>5, <3>2 DEF QueueTrade
      <4>2. /\ [pending[p] EXCEPT !.sell = @ - quote] = planned
            /\ [open[p] EXCEPT !.sell = @ - quote] = opened
        BY <1>5, <2>1, <2>2, <3>2
      <4> QED BY <1>2, <4>1, <4>2
    <3> QED BY <3>1, <3>2
  <2>4. planned \in [buy : Nat, sell : Nat] /\ opened \in [buy : Int, sell : Int]
    BY <2>1, <2>2
  <2>5. /\ planned.buy = pending[p].buy + buy /\ planned.sell = pending[p].sell + sell
        /\ opened.buy = open[p].buy + buy /\ opened.sell = open[p].sell + sell
    OBVIOUS
  <2> HIDE DEF planned, opened
  <2>6. /\ pending'[p] = planned /\ open'[p] = opened
        /\ \A q \in Pools \ {p} : pending'[q] = pending[q] /\ open'[q] = open[q]
        /\ pending' \in [Pools -> [buy : Nat, sell : Nat]]
        /\ open' \in [Pools -> [buy : Int, sell : Int]]
    BY <1>2, <2>3, <2>4
  <2>7. TradesTyped'
    BY <1>1, <2>6 DEF TradingInv, TradesTyped
  <2>8. ASSUME NEW q \in Pools, q # p PROVE Traded(q)'
    BY <1>1, <1>2, <2>6, <2>8, TradedKept DEF TradingInv
  <2>9. Traded(p)'
    <3>1. InStep(p)'
      BY <1>1, <1>2 DEF Traded, InStep
    <3>2. Backed(p)'
      <4>1. Left(p)' = Left(p) /\ Left(p) \in Int
        BY <1>1, <1>2, LeftTyped DEF Traded, Left
      <4>2. Buys(Left(p)) \in Nat /\ Sells(Left(p)) \in Nat
        BY <4>1, SidesNat
      <4>3. /\ pending[p].buy + Buys(Left(p)) <= open[p].buy
            /\ pending[p].sell + Sells(Left(p)) <= open[p].sell
        BY <1>2 DEF Traded, Backed
      <4>4. /\ planned.buy + Buys(Left(p)) <= opened.buy
            /\ planned.sell + Sells(Left(p)) <= opened.sell
        BY <2>1, <2>2, <2>5, <4>2, <4>3
      <4> QED BY <2>6, <4>1, <4>4 DEF Backed
    <3>3. OneWay(p)'
      <4>1. ASSUME ReversePercent = 0 PROVE planned.buy = 0 \/ planned.sell = 0
        <5>1. pending[p].buy = 0 \/ pending[p].sell = 0
          BY <1>2, <4>1 DEF Traded, OneWay
        <5>2. CASE quote > 0
          <6>1. net >= 0
            BY <1>3, <1>5, <4>1, <5>2
          <6> QED BY <1>3, <2>1, <2>2, <2>5, <5>1, <5>2, <6>1
        <5>3. CASE quote < 0
          <6>1. net <= 0
            BY <1>3, <1>5, <4>1, <5>3
          <6> QED BY <1>3, <2>1, <2>2, <2>5, <5>1, <5>3, <6>1
        <5> QED BY <1>5, <5>2, <5>3
      <4> QED BY <2>6, <4>1 DEF OneWay
    <3> QED BY <3>1, <3>2, <3>3 DEF Traded
  <2> QED BY <2>7, <2>8, <2>9 DEF TradingInv
<1>6. PICK balance \in BalancesRead(p) :
        IF balance[1] < Gas THEN UNCHANGED <<pending, open, trades>>
        ELSE \E mispricing \in {-1, 0, 1}, signal \in {-1, 1} :
               \E quote \in DecideTrade(net, mispricing, signal, balance) :
                 QueueTrade(p, NormalizeQuote(net, quote))
  BY DEF PlanTrade, net
<1>7. balance \in [Sides -> Int]
  BY BalanceInts DEF MakerInv
<1>8. ASSUME NEW mispricing \in {-1, 0, 1}, NEW signal \in {-1, 1},
             NEW quote \in DecideTrade(net, mispricing, signal, balance),
             QueueTrade(p, NormalizeQuote(net, quote))
      PROVE  TradingInv'
  <2> DEFINE q == NormalizeQuote(net, quote)
  <2>1. quote \in Int /\ q \in Int
    BY <1>3, <1>7, QuoteInts
  <2>2. ReversePercent = 0 => net * q >= 0
    BY <1>3, <2>1, WindowKept
  <2> HIDE DEF q
  <2>3. CASE q = 0
    <3>1. UNCHANGED <<pending, open>>
      BY <1>8, <2>3 DEF QueueTrade, q
    <3> QED BY <1>4, <3>1
  <2>4. CASE q # 0
    <3>1. QueueTrade(p, q)
      BY <1>8 DEF q
    <3> QED BY <1>5, <2>1, <2>2, <2>4, <3>1
  <2> QED BY <2>3, <2>4
<1> QED BY <1>4, <1>6, <1>8

\* What is sent of a slice is no longer to be sent.
LEMMA ExecuteTrades == ASSUME MakerInv, TradingInv, NEW p \in Pools, Execute(p) PROVE TradingInv'
<1> DEFINE w == Working(p)
           sum == SumOf(plan[p])
<1>1. /\ stage = "slices" /\ task[p].at = "work" /\ task' = [task EXCEPT ![p] = Done]
      /\ UNCHANGED <<stage, pending, plan, wallet>>
  BY DEF Execute
<1>2. \A q \in Pools : Working(q)' \in {Working(q), 0}
  BY <1>1, WorkingKept
<1>3. Working(p)' = 0 /\ w = task[p].slice
  <2>1. task'[p] = Done
    BY <1>1 DEF MakerInv, TasksTyped
  <2> QED BY <1>1, <2>1, TaskRecords DEF Working
<1>4. wallet' \in [Pools \cup {Native} -> Nat]
  BY <1>1 DEF TradingInv, TradesTyped
<1>5. PICK balance \in BalancesRead(p) :
        LET quote == IF balance[1] < Gas THEN 0 ELSE Sent(w, balance) IN
        IF quote = 0 THEN UNCHANGED <<swaps, open>> ELSE SendSwap(p, quote)
  BY <1>3 DEF Execute
<1>6. balance \in [Sides -> Nat]
  BY DEF BalancesRead, TradingInv, TradesTyped, Sides
<1>7. /\ w \in Int /\ sum \in Int /\ Left(p) = sum + w
      /\ (w > 0 => sum >= 0) /\ (w < 0 => sum <= 0)
  BY LeftTyped DEF TradingInv, Traded, Left
<1>8. Left(p)' = sum
  BY <1>1, <1>3, <1>7 DEF Left
<1> DEFINE quote == IF balance[1] < Gas THEN 0 ELSE Sent(w, balance)
<1> HIDE DEF w, sum
<1>9. /\ quote \in Int
      /\ w >= 0 => 0 <= quote /\ quote <= w
      /\ w <= 0 => w <= quote /\ quote <= 0
  BY <1>6, <1>7, SentWithin
<1>10. IF quote = 0 THEN UNCHANGED <<swaps, open>> ELSE SendSwap(p, quote)
  BY <1>5
<1> HIDE DEF quote
<1>11. CASE open' = open
  BY <1>1, <1>2, <1>4, <1>11, NothingTraded
<1>12. CASE quote # 0 /\ SendSwap(p, quote)
  <2> DEFINE opened == [buy |-> open[p].buy - Buys(quote), sell |-> open[p].sell - Sells(quote)]
  <2>1. open \in [Pools -> [buy : Int, sell : Int]] /\ pending \in [Pools -> [buy : Nat, sell : Nat]]
        /\ open[p] \in [buy : Int, sell : Int] /\ open[p].buy \in Int /\ open[p].sell \in Int
        /\ pending[p].buy \in Nat /\ pending[p].sell \in Nat
    BY DEF TradingInv, TradesTyped
  <2>2. open' = [open EXCEPT ![p] = opened]
    <3>1. CASE quote > 0
      <4>1. open' = [open EXCEPT ![p].buy = @ - quote]
        BY <1>12, <3>1 DEF SendSwap
      <4>2. [open[p] EXCEPT !.buy = @ - quote] = opened
        BY <1>9, <2>1, <3>1 DEF Buys, Sells
      <4> QED BY <2>1, <4>1, <4>2
    <3>2. CASE ~(quote > 0)
      <4>1. open' = [open EXCEPT ![p].sell = @ + quote]
        BY <1>12, <3>2 DEF SendSwap
      <4>2. [open[p] EXCEPT !.sell = @ + quote] = opened
        BY <1>9, <1>12, <2>1, <3>2 DEF Buys, Sells
      <4> QED BY <2>1, <4>1, <4>2
    <3> QED BY <3>1, <3>2
  <2>3. Buys(quote) \in Nat /\ Sells(quote) \in Nat
    BY <1>9, SidesNat
  <2>4. /\ opened \in [buy : Int, sell : Int]
        /\ opened.buy = open[p].buy - Buys(quote) /\ opened.sell = open[p].sell - Sells(quote)
    BY <2>1, <2>3
  <2> HIDE DEF opened
  <2>5. /\ open'[p] = opened /\ open' \in [Pools -> [buy : Int, sell : Int]]
        /\ \A q \in Pools \ {p} : open'[q] = open[q]
    BY <2>1, <2>2, <2>4
  <2>6. TradesTyped'
    BY <1>1, <1>4, <2>5 DEF TradingInv, TradesTyped
  <2>7. ASSUME NEW q \in Pools, q # p PROVE Traded(q)'
    BY <1>1, <1>2, <2>5, <2>7, TradedKept DEF TradingInv
  <2>8. Traded(p)'
    <3>1. InStep(p)' /\ OneWay(p)'
      BY <1>1, <1>3 DEF TradingInv, Traded, InStep, OneWay
    <3>2. /\ pending[p].buy + Buys(sum + w) <= open[p].buy
          /\ pending[p].sell + Sells(sum + w) <= open[p].sell
      BY <1>7 DEF TradingInv, Traded, Backed
    <3>3. Buys(sum) + Buys(quote) <= Buys(sum + w) /\ Sells(sum) + Sells(quote) <= Sells(sum + w)
      BY <1>7, <1>9 DEF Buys, Sells
    <3>4. /\ Buys(sum) \in Nat /\ Sells(sum) \in Nat /\ sum + w \in Int
          /\ Buys(sum + w) \in Nat /\ Sells(sum + w) \in Nat
      BY <1>7, SidesNat
    <3>5. /\ pending[p].buy + Buys(sum) <= opened.buy
          /\ pending[p].sell + Sells(sum) <= opened.sell
      BY <2>1, <2>3, <2>4, <3>2, <3>3, <3>4
    <3>6. Backed(p)'
      BY <1>1, <1>8, <2>5, <3>5 DEF Backed
    <3> QED BY <3>1, <3>6 DEF Traded
  <2> QED BY <2>6, <2>7, <2>8 DEF TradingInv
<1> QED BY <1>10, <1>11, <1>12

LEMMA EmptyPlan == SumOf(<<>>) = 0
<1> DEFINE s == <<>>
           v == 0
<1>1. s \in Seq(Int) /\ Len(s) = 0 /\ v \in Int /\ \A i \in DOMAIN s : s[i] = v
  OBVIOUS
<1> HIDE DEF s, v
<1>2. SumOf(s) = Len(s) * v
  BY <1>1, SlicesSum
<1> QED BY <1>1, <1>2 DEF s, v

LEMMA RestartTrades == ASSUME MakerInv, TradingInv, Restart PROVE TradingInv'
<1>1. /\ stage' = "sleep" /\ pending' = [p \in Pools |-> [buy |-> 0, sell |-> 0]]
      /\ plan' = [p \in Pools |-> <<>>] /\ UNCHANGED <<open, wallet>>
  BY DEF Restart, chain
<1>2. TradesTyped'
  BY <1>1 DEF TradingInv, TradesTyped
<1>3. ASSUME NEW p \in Pools PROVE Traded(p)'
  <2>1. /\ plan'[p] = <<>> /\ Working(p)' = 0 /\ pending'[p].buy = 0 /\ pending'[p].sell = 0
        /\ open'[p] = open[p]
    BY <1>1 DEF Working
  <2>2. open[p].buy \in Nat /\ open[p].sell \in Nat
    <3>1. /\ pending[p].buy + Buys(Left(p)) <= open[p].buy
          /\ pending[p].sell + Sells(Left(p)) <= open[p].sell
          /\ Left(p) \in Int
      BY LeftTyped DEF TradingInv, Traded, Backed
    <3>2. /\ pending[p].buy \in Nat /\ pending[p].sell \in Nat
          /\ open[p].buy \in Int /\ open[p].sell \in Int
          /\ Buys(Left(p)) \in Nat /\ Sells(Left(p)) \in Nat
      BY <3>1, SidesNat DEF TradingInv, TradesTyped
    <3> QED BY <3>1, <3>2
  <2>3. Left(p)' = 0 /\ Buys(0) = 0 /\ Sells(0) = 0
    BY <2>1, EmptyPlan DEF Left, Buys, Sells
  <2>4. Backed(p)'
    BY <2>1, <2>2, <2>3 DEF Backed
  <2>5. InStep(p)' /\ OneWay(p)'
    BY <2>1 DEF InStep, OneWay
  <2> QED BY <2>4, <2>5 DEF Traded
<1> QED BY <1>2, <1>3 DEF TradingInv

\* A window that is over becomes slices worth at most what it planned; a
\* window that goes on, or planned nothing net, leaves its plan.
LEMMA SlicesTrades ==
  ASSUME MakerInv, TradingInv, NEW finalize \in BOOLEAN, StartSlices(finalize)
  PROVE  TradingInv'
<1> DEFINE plans == IF finalize THEN PrepareSlicePlans ELSE plan
           sliced == {p \in Pools : task[p].at = "done" /\ plans[p] # <<>>}
<1>1. /\ stage = "trade" /\ stage' = "slices"
      /\ pending' = IF finalize THEN FlushPlan ELSE pending
      /\ plan' = [p \in Pools |-> IF p \in sliced THEN Tail(plans[p]) ELSE plans[p]]
      /\ task' = [p \in Pools |-> IF p \in sliced /\ Head(plans[p]) # 0
                                  THEN Task(Head(plans[p])) ELSE Done]
      /\ UNCHANGED <<open, wallet>>
  BY DEF StartSlices, chain, history
<1>2. /\ pending \in [Pools -> [buy : Nat, sell : Nat]] /\ open \in [Pools -> [buy : Int, sell : Int]]
      /\ plan \in [Pools -> Seq(Int)]
      /\ pending' \in [Pools -> [buy : Nat, sell : Nat]]
      /\ \A p \in Pools : pending'[p] = IF finalize THEN [buy |-> 0, sell |-> 0] ELSE pending[p]
  <2>1. /\ pending \in [Pools -> [buy : Nat, sell : Nat]] /\ open \in [Pools -> [buy : Int, sell : Int]]
        /\ plan \in [Pools -> Seq(Int)]
    BY DEF MakerInv, MemoryTyped, TradingInv, TradesTyped
  <2> QED BY <1>1, <2>1 DEF FlushPlan
<1>3. TradesTyped'
  BY <1>1, <1>2 DEF TradingInv, TradesTyped
<1> HIDE DEF plans
<1>4. ASSUME NEW p \in Pools
      PROVE  /\ plans[p] \in Seq(Int) /\ SumOf(plans[p]) \in Int
             /\ \A i, j \in DOMAIN plans[p] : plans[p][i] = plans[p][j]
             /\ pending'[p].buy + Buys(SumOf(plans[p])) <= open[p].buy
             /\ pending'[p].sell + Sells(SumOf(plans[p])) <= open[p].sell
  <2> DEFINE sum == SumOf(plan[p])
             net == Net(p)
             worth == SumOf(BuildMinutePlan(net))
  <2>1. Working(p) = 0 /\ Left(p) = sum /\ sum \in Int
    BY <1>1, LeftTyped DEF Working, Left, TradingInv, Traded
  <2>2. /\ pending[p].buy + Buys(sum) <= open[p].buy
        /\ pending[p].sell + Sells(sum) <= open[p].sell
    BY <2>1 DEF TradingInv, Traded, Backed
  <2>3. /\ pending[p].buy \in Nat /\ pending[p].sell \in Nat
        /\ open[p].buy \in Int /\ open[p].sell \in Int
        /\ net = pending[p].buy - pending[p].sell /\ net \in Int
    BY <1>2 DEF Net
  <2>4. Buys(sum) \in Nat /\ Sells(sum) \in Nat
    BY <2>1, SidesNat
  <2>5. CASE plans[p] = plan[p]
    <3>1. /\ pending'[p].buy \in Nat /\ pending'[p].buy <= pending[p].buy
          /\ pending'[p].sell \in Nat /\ pending'[p].sell <= pending[p].sell
      <4>1. CASE finalize
        BY <1>2, <2>3, <4>1
      <4>2. CASE ~finalize
        BY <1>2, <2>3, <4>2
      <4> QED BY <4>1, <4>2
    <3>2. /\ pending'[p].buy + Buys(sum) <= open[p].buy
          /\ pending'[p].sell + Sells(sum) <= open[p].sell
      BY <2>2, <2>3, <2>4, <3>1
    <3> QED BY <1>2, <2>1, <2>5, <3>2 DEF TradingInv, Traded, InStep
  <2>6. CASE finalize /\ plans[p] = BuildMinutePlan(net)
    <3>1. /\ plans[p] \in Seq(Int) /\ \A i, j \in DOMAIN plans[p] : plans[p][i] = plans[p][j]
          /\ worth \in Int /\ worth = SumOf(plans[p])
          /\ net >= 0 => 0 <= worth /\ worth <= net
          /\ net <= 0 => net <= worth /\ worth <= 0
      <4> DEFINE t == BuildMinutePlan(net)
      <4> HIDE DEF net
      <4>1. /\ t \in Seq(Int) /\ \A i, j \in DOMAIN t : t[i] = t[j]
            /\ SumOf(t) \in Int
            /\ net >= 0 => 0 <= SumOf(t) /\ SumOf(t) <= net
            /\ net <= 0 => net <= SumOf(t) /\ SumOf(t) <= 0
        BY <2>3, PlanWorth, Zenon
      <4> HIDE DEF t
      <4>2. plans[p] = t /\ worth = SumOf(t)
        BY <2>6 DEF t
      <4> HIDE DEF worth
      <4> QED BY <4>1, <4>2
    <3> HIDE DEF net, worth
    <3>2. Buys(worth) <= Buys(net) /\ Sells(worth) <= Sells(net)
      BY <2>3, <3>1, Nearer
    <3>3. Buys(net) <= pending[p].buy /\ Sells(net) <= pending[p].sell
      BY <2>3 DEF Buys, Sells
    <3>4. /\ Buys(net) \in Nat /\ Sells(net) \in Nat /\ Buys(worth) \in Nat /\ Sells(worth) \in Nat
      BY <2>3, <3>1, SidesNat
    <3>5. pending'[p].buy = 0 /\ pending'[p].sell = 0
      BY <1>2, <2>6
    <3>6. /\ 0 + Buys(worth) <= open[p].buy
          /\ 0 + Sells(worth) <= open[p].sell
      BY <2>2, <2>3, <2>4, <3>2, <3>3, <3>4
    <3> QED BY <3>1, <3>5, <3>6
  <2>7. plans[p] = plan[p] \/ (finalize /\ plans[p] = BuildMinutePlan(net))
    BY DEF plans, PrepareSlicePlans
  <2> QED BY <2>5, <2>6, <2>7
<1>5. ASSUME NEW p \in Pools
      PROVE  InStep(p)' /\ Left(p)' = SumOf(plans[p])
  <2> DEFINE s == plans[p]
  <2>1. s \in Seq(Int) /\ SumOf(s) \in Int /\ \A i, j \in DOMAIN s : s[i] = s[j]
    BY <1>4
  <2> HIDE DEF s
  <2>2. CASE p \in sliced
    <3>1. s # <<>> /\ plan'[p] = Tail(s)
      BY <1>1, <2>2 DEF s
    <3>2. /\ Head(s) \in Int /\ \A i \in DOMAIN Tail(s) : Tail(s)[i] = Head(s)
          /\ SumOf(s) = SumOf(Tail(s)) + Head(s) /\ SumOf(Tail(s)) \in Int
      BY <2>1, <3>1, SliceTaken
    <3>3. Working(p)' = Head(s)
      <4>1. task'[p] = IF Head(s) # 0 THEN Task(Head(s)) ELSE Done
        BY <1>1, <2>2 DEF s
      <4>2. CASE Head(s) # 0
        BY <1>1, <3>2, <4>1, <4>2, TaskRecords DEF Working
      <4>3. CASE Head(s) = 0
        BY <1>1, <4>1, <4>3, TaskRecords DEF Working
      <4> QED BY <4>2, <4>3
    <3>4. Left(p)' = SumOf(Tail(s)) + Head(s)
      BY <3>1, <3>3 DEF Left
    <3>5. InStep(p)'
      BY <3>1, <3>2, <3>3 DEF InStep
    <3> QED BY <3>2, <3>4, <3>5 DEF s
  <2>3. CASE p \notin sliced
    <3>1. plan'[p] = s /\ Working(p)' = 0
      BY <1>1, <2>3, TaskRecords DEF s, Working
    <3>2. Left(p)' = SumOf(s) + 0
      BY <3>1 DEF Left
    <3> QED BY <2>1, <3>1, <3>2 DEF InStep, s
  <2> QED BY <2>2, <2>3
<1>6. ASSUME NEW p \in Pools PROVE Backed(p)' /\ OneWay(p)'
  <2>1. Backed(p)'
    BY <1>1, <1>4, <1>5 DEF Backed
  <2>2. OneWay(p)'
    BY <1>2 DEF OneWay, TradingInv, Traded
  <2> QED BY <2>1, <2>2
<1> QED BY <1>3, <1>5, <1>6 DEF TradingInv, Traded

LEMMA TradingInit == Init => TradingInv
<1> SUFFICES ASSUME Init PROVE TradingInv
  OBVIOUS
<1>1. /\ stage = "sleep" /\ pending = [p \in Pools |-> [buy |-> 0, sell |-> 0]]
      /\ plan = [p \in Pools |-> <<>>] /\ wallet = [t \in Pools \cup {Native} |-> Wealth]
      /\ open = pending
  BY DEF Init
<1>2. TradesTyped
  BY <1>1, MakerAssumption DEF TradesTyped
<1>3. ASSUME NEW p \in Pools PROVE Traded(p)
  <2>1. plan[p] = <<>> /\ Working(p) = 0 /\ pending[p].buy = 0 /\ pending[p].sell = 0
        /\ open[p] = pending[p]
    BY <1>1 DEF Working
  <2>2. Left(p) = 0 /\ Buys(0) = 0 /\ Sells(0) = 0
    BY <2>1, EmptyPlan DEF Left, Buys, Sells
  <2>3. Backed(p)
    BY <2>1, <2>2 DEF Backed
  <2>4. InStep(p) /\ OneWay(p)
    BY <2>1 DEF InStep, OneWay
  <2> QED BY <2>3, <2>4 DEF Traded
<1> QED BY <1>2, <1>3 DEF TradingInv

LEMMA TradingStep == MakerInv /\ TradingInv /\ [Next]_vars => TradingInv'
<1> SUFFICES ASSUME MakerInv, TradingInv, [Next]_vars PROVE TradingInv'
  OBVIOUS
<1>1. CASE (\E listed \in BOOLEAN : StartRound(listed)) \/ EndRound
  BY <1>1, RoundTrades
<1>2. CASE \E finalize \in BOOLEAN : StartSlices(finalize)
  BY <1>2, SlicesTrades
<1>3. CASE Restart
  BY <1>3, RestartTrades
<1>4. ASSUME NEW p \in Pools, Step(p) PROVE TradingInv'
  BY <1>4, MemoryTrades, PlanTrades, ExecuteTrades DEF Step
<1>5. ASSUME NEW p \in Pools, Chain(p) PROVE TradingInv'
  BY <1>5, ChainTrades DEF Chain
<1>6. ASSUME NEW p \in Pools,
             \/ ClaimBalancesFails(p) \/ WorkFails(p)
             \/ \E sent \in BOOLEAN : ClaimFails(p, sent)
             \/ \E t \in Sides : RetryDue(p, t)
      PROVE  TradingInv'
  BY <1>6, MemoryTrades
<1>7. ASSUME NEW p \in Pools, \E t \in Sides : ClaimBounces(p, t) PROVE TradingInv'
  BY <1>7, ChainTrades
<1>8. CASE UNCHANGED vars
  BY <1>8 DEF vars, memory, chain, history, TradingInv, TradesTyped, Traded, InStep, Backed, OneWay,
              Left, Working
<1> QED BY <1>1, <1>2, <1>3, <1>4, <1>5, <1>6, <1>7, <1>8 DEF Next

\* What is pending and what is left of the slices was planned and is not yet
\* sent, in each direction, and the slices of a plan are equal.
THEOREM TradingInvariant == Spec => []TradingInv
BY MakerInvariant, TradingInit, TradingStep, PTL DEF Spec

LEMMA TradesBacked == MakerInv /\ TradingInv => NotOvertraded
<1> SUFFICES ASSUME MakerInv, TradingInv, NEW p \in Pools
             PROVE  LET left == SumOf(plan[p]) + Working(p)
                    IN  /\ Working(p) * SumOf(plan[p]) >= 0
                        /\ pending[p].buy + Buys(left) <= open[p].buy
                        /\ pending[p].sell + Sells(left) <= open[p].sell
                        /\ ReversePercent = 0 => pending[p].buy = 0 \/ pending[p].sell = 0
  BY DEF NotOvertraded
<1>1. Traded(p)
  BY DEF TradingInv
<1> QED BY <1>1, LeftTyped DEF Traded, Backed, Left, OneWay

\* No direction is traded for more than was planned in it, through windows
\* that end, plans that are replaced, slices that fail, are cut to a balance
\* or are sent without an answer, and restarts (queue_trade, flush_plan,
\* prepare_slice_plans, execute_pending_in_pool).
THEOREM NotOvertradedSound == Spec => []NotOvertraded
BY MakerInvariant, TradingInvariant, TradesBacked, PTL

=============================================================================
