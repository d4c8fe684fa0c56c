-------------------------------- MODULE Maker --------------------------------
(***************************************************************************)
(* The market maker of service/kline: trader.py with its execution policy, *)
(* inventory controller and minute scheduler, and the requests of swap.py. *)
(* A round lists the pools, lets a task per pool claim what the pool owes  *)
(* the maker and plan a trade, turns what a window has planned into slices *)
(* when the window is over, and lets a task per pool claim again and send  *)
(* the next slice.  A request is answered, refused, or carried out without *)
(* an answer; the pools' chains handle what they are sent some time later. *)
(*                                                                         *)
(* Amounts are worth in the quote token, so that prices are left out: a    *)
(* trade is positive when it buys token_0.  The signals of the reference   *)
(* price engine, and with them the bias that only shifts them, may be any. *)
(***************************************************************************)
EXTENDS Integers, Sequences, FiniteSets, SequencesExt

CONSTANTS
  Pools,             \* the pools the router lists
  Native,            \* the quote token of every pool
  Wealth,            \* what the maker has of each token
  Gas,               \* what a trade needs of the native token
  Activity,          \* activity_notional_ratio of the reserve
  Corrections,       \* what it takes to move a pool to a target price
  MaxTrade,          \* the least of max_trade_ratio and max_correction_notional_ratio
  MaxPending,        \* max_pending_notional_ratio
  MaxInventoryBias,  \* max_inventory_bias_ratio
  ReversePercent,    \* max_reverse_window_fraction
  OneQuote,          \* 1.0 of the quote token
  MinSlices, MaxSlices,
  MaxTrades,         \* bound: trades that are queued
  MaxFaults          \* bound: requests that fail, bounces and restarts

ASSUME MakerAssumption ==
  /\ {Wealth, Gas, Activity, MaxTrade, MaxPending, MaxTrades, MaxFaults} \subseteq Nat
  /\ Corrections \subseteq Nat /\ ReversePercent \in 0 .. 100 /\ Native \notin Pools
  /\ {MaxInventoryBias, OneQuote, MinSlices, MaxSlices} \subseteq Nat \ {0}
  /\ MinSlices <= MaxSlices

VARIABLES
  stage,      \* what the round is at
  task,       \* the task of each pool
  pending,    \* pending_buy_quote_notional and pending_sell_quote_notional
  plan,       \* the slices left of active_minute_plans
  waiting,    \* the claims of the last claim_retry_secs: pending_claims
  wallet,     \* the maker's balances, by token
  claimable, claiming,  \* what each pool owes the maker and is paying
  swaps, claims,        \* requests on their way to each pool
  open,       \* history: what was planned and not yet sent, by direction
  late,       \* history: a claim was not acknowledged, or not handled in time
  trades, faults        \* trades queued and faults so far

memory == <<stage, task, pending, plan, waiting>>
chain == <<wallet, claimable, claiming, swaps, claims>>
history == <<open, late, trades>>
vars == <<memory, chain, history, faults>>

Sides == {0, 1}
TokenOf(p, t) == IF t = 0 THEN p ELSE Native
Fault == faults < MaxFaults /\ faults' = faults + 1
Least(a, b) == IF a < b THEN a ELSE b
Size(q) == IF q < 0 THEN -q ELSE q
Sign(q) == IF q < 0 THEN -1 ELSE IF q = 0 THEN 0 ELSE 1

Done == [at |-> "done", side |-> 0, amount |-> 0, slice |-> 0]
Absent == [Done EXCEPT !.at = "absent"]
Task(slice) == [Done EXCEPT !.at = "claim", !.slice = slice]
AllDone == \A p \in Pools : task[p].at \in {"done", "absent"}

-----------------------------------------------------------------------------
Init ==
  /\ stage = "sleep" /\ task = [p \in Pools |-> Done]
  /\ pending = [p \in Pools |-> [buy |-> 0, sell |-> 0]]
  /\ plan = [p \in Pools |-> <<>>]
  /\ waiting = [p \in Pools |-> {}]
  /\ wallet = [t \in Pools \cup {Native} |-> Wealth]
  /\ claimable = [p \in Pools |-> [t \in Sides |-> 0]] /\ claiming = claimable
  /\ swaps = [p \in Pools |-> <<>>] /\ claims = swaps
  /\ open = pending /\ late = FALSE
  /\ trades = 0 /\ faults = 0

\* get_pools: the pools, or none when the query fails.
StartRound(listed) ==
  /\ stage = "sleep"
  /\ IF listed THEN UNCHANGED faults ELSE Fault
  /\ stage' = "trade"
  /\ task' = [p \in Pools |-> IF listed THEN Task(0) ELSE Absent]
  /\ UNCHANGED <<pending, plan, waiting, chain, history>>

-----------------------------------------------------------------------------
(* claim_pool_outputs: one token after the other.                          *)

NextToken(p) == [task EXCEPT ![p].side = @ + 1, ![p].amount = 0,
                             ![p].at = IF task[p].side = 0 THEN "claim" ELSE "work"]

\* Mutant: pending_claims is not asked.
DueWhatever(p, t) == TRUE

\* A claim of less than claim_retry_secs ago is waited for.
Due(p, t) == t \notin waiting[p]

ClaimBalances(p) ==
  LET t == task[p].side IN
  /\ task[p].at = "claim"
  /\ task' = IF Due(p, t) /\ claimable[p][t] > 0 /\ claiming[p][t] = 0
             THEN [task EXCEPT ![p].at = "ask", ![p].amount = claimable[p][t]]
             ELSE NextToken(p)
  /\ UNCHANGED <<stage, pending, plan, waiting, chain, history, faults>>

\* The query fails and both balances count as zero.
ClaimBalancesFails(p) ==
  /\ task[p].at = "claim" /\ Fault
  /\ task' = NextToken(p)
  /\ UNCHANGED <<stage, pending, plan, waiting, chain, history>>

SendClaim(p) ==
  claims' = [claims EXCEPT ![p] = Append(@, [side |-> task[p].side, amount |-> task[p].amount])]

\* The claim of what was read before the request.
Claim(p) ==
  /\ task[p].at = "ask"
  /\ SendClaim(p)
  /\ waiting' = [waiting EXCEPT ![p] = @ \cup {task[p].side}]
  /\ task' = NextToken(p)
  /\ UNCHANGED <<stage, pending, plan, wallet, claimable, claiming, swaps, history, faults>>

\* The request is refused, or it is carried out and its answer lost: both
\* look the same to the maker.
ClaimFails(p, sent) ==
  /\ task[p].at = "ask" /\ Fault
  /\ IF sent THEN SendClaim(p) /\ late' = TRUE ELSE UNCHANGED <<claims, late>>
  /\ task' = NextToken(p)
  /\ UNCHANGED <<stage, pending, plan, waiting, wallet, claimable, claiming, swaps,
                 open, trades>>

\* Mutant: a claim is remembered for good.
NeverAgain(p, t) == FALSE
Expires(p, t) == t \in waiting[p]

\* claim_retry_secs are over; that a claim has not reached its pool by then
\* is a fault.
RetryDue(p, t) ==
  /\ Expires(p, t)
  /\ waiting' = [waiting EXCEPT ![p] = @ \ {t}]
  /\ IF \E m \in ToSet(claims[p]) : m.side = t THEN Fault /\ late' = TRUE
     ELSE UNCHANGED <<late, faults>>
  /\ UNCHANGED <<stage, task, pending, plan, chain, open, trades>>

-----------------------------------------------------------------------------
(* MakerExecutionPolicy.                                                   *)

Net(p) == pending[p].buy - pending[p].sell
Percent(n, amount) == (n * amount) \div 100

\* Against the pending trades when they are too many.
ActivityDirection(net, signal) ==
  IF Size(net) >= MaxInventoryBias THEN -Sign(net) ELSE signal

\* The other way when there is nothing to trade with.
ExecutableDirection(wanted, balance) ==
  CASE wanted > 0 /\ balance[1] > 0 -> 1
    [] wanted < 0 /\ balance[0] > 0 -> -1
    [] balance[1] > 0 -> 1
    [] balance[0] > 0 -> -1
    [] OTHER -> 0

\* At most max_trade_ratio of the reserve and 15 percent of the balance.
QuoteTrade(amount, direction, balance) ==
  direction * Least(Least(amount, MaxTrade),
                    Percent(15, IF direction > 0 THEN balance[1] ELSE balance[0]))

\* decide_trade: the trades it may return; 0 is none.
DecideTrade(net, mispricing, signal, balance) ==
  CASE mispricing = 0 ->
         {QuoteTrade(Activity, ExecutableDirection(ActivityDirection(net, signal), balance), balance)}
    [] mispricing # 0 ->
         IF mispricing * net > MaxPending THEN {0}
         ELSE {QuoteTrade(c, mispricing, balance) : c \in Corrections}

\* normalize_quote_for_window: a window keeps its direction.
NormalizeQuote(net, quote) ==
  IF net * quote >= 0 THEN quote
  ELSE Sign(quote) * Least(Size(quote), Percent(ReversePercent, Size(net)))

\* queue_trade
QueueTrade(p, quote) ==
  LET Queued(q) == IF quote > 0 THEN [q EXCEPT ![p].buy = @ + quote]
                                ELSE [q EXCEPT ![p].sell = @ - quote]
  IN  IF quote = 0 THEN UNCHANGED <<pending, open, trades>>
      ELSE /\ trades < MaxTrades
           /\ pending' = Queued(pending) /\ open' = Queued(open)
           /\ trades' = trades + 1

\* The balances a task reads; the native balance reads as zero when the
\* wallet does not answer.
BalancesRead(p) ==
  {[t \in Sides |-> IF t = 0 THEN wallet[p] ELSE native] : native \in {0, wallet[Native]}}

\* plan_trade_in_pool
PlanTrade(p) ==
  /\ stage = "trade" /\ task[p].at = "work"
  /\ \E balance \in BalancesRead(p) :
       IF balance[1] < Gas THEN UNCHANGED <<pending, open, trades>>
       ELSE \E mispricing \in {-1, 0, 1}, signal \in {-1, 1} :
              \E quote \in DecideTrade(Net(p), mispricing, signal, balance) :
                QueueTrade(p, NormalizeQuote(Net(p), quote))
  /\ task' = [task EXCEPT ![p] = Done]
  /\ UNCHANGED <<stage, plan, waiting, chain, late, faults>>

-----------------------------------------------------------------------------
(* Windows and slices.                                                     *)

CeilDiv(a, b) == (a + b - 1) \div b

\* build_minute_plan: equal slices, more of them for a larger trade.
BuildMinutePlan(quote) ==
  LET size == Size(quote)
      estimated == IF size > 4 * OneQuote THEN 4 ELSE CeilDiv(size, OneQuote)
      count == IF estimated < MinSlices THEN MinSlices ELSE Least(estimated, MaxSlices)
  IN  [n \in 1 .. count |-> Sign(quote) * (size \div count)]

\* Mutant: what was planned stays pending.
KeepPending == pending

\* flush_plan: what a window planned is taken out of it.
FlushPlan == [p \in Pools |-> [buy |-> 0, sell |-> 0]]

\* prepare_slice_plans: a new plan replaces what is left of the last one;
\* without a new one the last goes on.
PrepareSlicePlans ==
  [p \in Pools |-> IF Net(p) = 0 THEN plan[p] ELSE BuildMinutePlan(Net(p))]

\* The end of trade() until its second gather: the window is over or not,
\* and each listed pool gets its next slice.
StartSlices(finalize) ==
  LET plans == IF finalize THEN PrepareSlicePlans ELSE plan
      sliced == {p \in Pools : task[p].at = "done" /\ plans[p] # <<>>}
  IN  /\ stage = "trade" /\ AllDone
      /\ pending' = IF finalize THEN FlushPlan ELSE pending
      /\ plan' = [p \in Pools |-> IF p \in sliced THEN Tail(plans[p]) ELSE plans[p]]
      /\ task' = [p \in Pools |-> IF p \in sliced /\ Head(plans[p]) # 0
                                  THEN Task(Head(plans[p])) ELSE Done]
      /\ stage' = "slices"
      /\ UNCHANGED <<waiting, chain, history, faults>>

\* At most 30 percent of the balance is sent.
Sent(quote, balance) ==
  Sign(quote) * Least(Size(quote), Percent(30, IF quote > 0 THEN balance[1] ELSE balance[0]))

SendSwap(p, quote) ==
  /\ swaps' = [swaps EXCEPT ![p] = Append(@, quote)]
  /\ open' = IF quote > 0 THEN [open EXCEPT ![p].buy = @ - quote]
                          ELSE [open EXCEPT ![p].sell = @ + quote]

\* execute_pending_in_pool; whether the answer arrives matters to the bias
\* only, and a slice is not sent again.
Execute(p) ==
  /\ stage = "slices" /\ task[p].at = "work"
  /\ \E balance \in BalancesRead(p) :
       LET quote == IF balance[1] < Gas THEN 0 ELSE Sent(task[p].slice, balance) IN
       IF quote = 0 THEN UNCHANGED <<swaps, open>> ELSE SendSwap(p, quote)
  /\ task' = [task EXCEPT ![p] = Done]
  /\ UNCHANGED <<stage, pending, plan, waiting, wallet, claimable, claiming, claims,
                 late, trades, faults>>

\* The request is refused, or a balance or a chain id is missing and the
\* task ends with an exception.
WorkFails(p) ==
  /\ task[p].at = "work" /\ Fault
  /\ task' = [task EXCEPT ![p] = Done]
  /\ UNCHANGED <<stage, pending, plan, waiting, chain, history>>

\* The tasks of all pools are done; run sleeps until the next round.
EndRound ==
  /\ stage = "slices" /\ AllDone
  /\ stage' = "sleep"
  /\ UNCHANGED <<task, pending, plan, waiting, chain, history, faults>>

\* The process ends, also when a failure cannot be written to the database,
\* and starts again with an empty memory.
Restart ==
  /\ Fault
  /\ stage' = "sleep" /\ task' = [p \in Pools |-> Done]
  /\ pending' = [p \in Pools |-> [buy |-> 0, sell |-> 0]]
  /\ plan' = [p \in Pools |-> <<>>] /\ waiting' = [p \in Pools |-> {}]
  /\ late' = (late \/ \E p \in Pools : claims[p] # <<>>)
  /\ UNCHANGED <<chain, open, trades>>
-----------------------------------------------------------------------------
(* The pools' chains.                                                      *)

\* A swap is paid by what the wallet still has, and its output owed; it is
\* refunded otherwise.
PoolSwaps(p) ==
  /\ swaps[p] # <<>>
  /\ LET quote == Head(swaps[p])
         paid == TokenOf(p, IF quote > 0 THEN 1 ELSE 0)
         out == IF quote > 0 THEN 0 ELSE 1
     IN  IF wallet[paid] < Size(quote) THEN UNCHANGED <<wallet, claimable>>
         ELSE /\ wallet' = [wallet EXCEPT ![paid] = @ - Size(quote)]
              /\ claimable' = [claimable EXCEPT ![p][out] = @ + Size(quote)]
  /\ swaps' = [swaps EXCEPT ![p] = Tail(@)]
  /\ UNCHANGED <<memory, claiming, claims, history, faults>>

\* A claim of more than is owed is refused.
PoolClaims(p) ==
  /\ claims[p] # <<>>
  /\ LET m == Head(claims[p]) IN
     IF claimable[p][m.side] < m.amount THEN UNCHANGED <<claimable, claiming>>
     ELSE /\ claimable' = [claimable EXCEPT ![p][m.side] = @ - m.amount]
          /\ claiming' = [claiming EXCEPT ![p][m.side] = @ + m.amount]
  /\ claims' = [claims EXCEPT ![p] = Tail(@)]
  /\ UNCHANGED <<memory, wallet, swaps, history, faults>>

ClaimPaid(p, t) ==
  /\ claiming[p][t] > 0
  /\ claiming' = [claiming EXCEPT ![p][t] = 0]
  /\ wallet' = [wallet EXCEPT ![TokenOf(p, t)] = @ + claiming[p][t]]
  /\ UNCHANGED <<memory, claimable, swaps, claims, history, faults>>

\* The transfer of a claim bounces and is owed again.
ClaimBounces(p, t) ==
  /\ claiming[p][t] > 0 /\ Fault
  /\ claiming' = [claiming EXCEPT ![p][t] = 0]
  /\ claimable' = [claimable EXCEPT ![p][t] = @ + claiming[p][t]]
  /\ UNCHANGED <<memory, wallet, swaps, claims, history>>

Step(p) ==
  \/ ClaimBalances(p)
  \/ Claim(p)
  \/ PlanTrade(p)
  \/ Execute(p)

Chain(p) ==
  \/ PoolSwaps(p)
  \/ PoolClaims(p)
  \/ \E t \in Sides : ClaimPaid(p, t)

Next ==
  \/ \E listed \in BOOLEAN : StartRound(listed)
  \/ \E finalize \in BOOLEAN : StartSlices(finalize)
  \/ EndRound
  \/ Restart
  \/ \E p \in Pools :
        \/ Step(p)
        \/ Chain(p)
        \/ ClaimBalancesFails(p)
        \/ \E sent \in BOOLEAN : ClaimFails(p, sent)
        \/ WorkFails(p)
        \/ \E t \in Sides : RetryDue(p, t) \/ ClaimBounces(p, t)

\* The rounds go on, the retry time passes, and the chains handle what they
\* are sent.
Spec ==
  /\ Init /\ [][Next]_vars
  /\ WF_vars(StartRound(TRUE)) /\ WF_vars(\E finalize \in BOOLEAN : StartSlices(finalize))
  /\ WF_vars(EndRound)
  /\ \A p \in Pools :
       /\ WF_vars(Step(p)) /\ WF_vars(Chain(p))
       /\ \A t \in Sides : WF_vars(RetryDue(p, t))

-----------------------------------------------------------------------------
(* Properties.                                                             *)

SumOf(slices) == SumFunction(slices)
Buys(quote) == IF quote > 0 THEN quote ELSE 0
Sells(quote) == IF quote < 0 THEN -quote ELSE 0
Working(p) == IF stage = "slices" /\ task[p].at \in {"claim", "ask", "work"} THEN task[p].slice ELSE 0

\* What is still to be sent in each direction, of this window or the last,
\* was planned and has not been sent, through plans that are replaced, slices
\* that fail and restarts; and a window that may not turn keeps its direction.
NotOvertraded ==
  \A p \in Pools :
    LET left == SumOf(plan[p]) + Working(p) IN
    /\ Working(p) * SumOf(plan[p]) >= 0
    /\ pending[p].buy + Buys(left) <= open[p].buy
    /\ pending[p].sell + Sells(left) <= open[p].sell
    /\ ReversePercent = 0 => pending[p].buy = 0 \/ pending[p].sell = 0

\* As long as claims are acknowledged and handled within claim_retry_secs,
\* the claims on their way to a pool are covered by what it owes: no output
\* is claimed twice although two tasks of a round ask for it, and a claim of
\* a balance that was read earlier is never refused.
ClaimsCovered ==
  ~late => \A p \in Pools, t \in Sides :
             /\ \A m \in ToSet(claims[p]) : m.side = t => m.amount <= claimable[p][t]
             /\ Cardinality({n \in DOMAIN claims[p] : claims[p][n].side = t}) <= 1

\* What a pool owes the maker gets to it, although queries and claims fail,
\* answers are lost, transfers bounce and the process starts again.
OutputsPaid ==
  \A p \in Pools, t \in Sides :
    claimable[p][t] > 0 ~> claimable[p][t] = 0 /\ claiming[p][t] = 0
=============================================================================
