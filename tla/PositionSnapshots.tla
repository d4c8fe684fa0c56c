-------------------------- MODULE PositionSnapshots --------------------------
(***************************************************************************)
(* The pool and position snapshots of service/kline.  The transactions of  *)
(* one pool are settled batch by batch; after each batch the snapshot of   *)
(* every position it changes and then that of the pool are brought up to   *)
(* date from the rows of the batch alone, and the queries answer from the  *)
(* snapshots.  Each snapshot is committed by itself, an exception while    *)
(* they are written is swallowed, and a restart repairs positions only.    *)
(*                                                                         *)
(* The pool itself is followed with AmmMath, which is what its contract    *)
(* computes; the rest of its ledger is in PoolLedger.                      *)
(***************************************************************************)
EXTENDS PoolHistory, FiniteSets

CONSTANTS
  Owners,           \* who deposits and removes
  Creator,          \* who opens the pool and receives its protocol fee
  Opening,          \* what the pool opens with, of each token
  Amounts,          \* what a swap pays and a deposit offers
  MaxTransactions,  \* bound: transactions of the pool
  MaxFaults,        \* bound: failures and crashes
  MaxReplays        \* bound: replays an operator asks for

ASSUME SnapshotsAssumption ==
  /\ IsFiniteSet(Owners) /\ Creator \in Owners /\ Opening \in Nat \ {0} /\ Amounts \subseteq Nat \ {0}
  /\ MaxTransactions \in Nat \ {0} /\ MaxFaults \in Nat /\ MaxReplays \in Nat

VARIABLES
  pool,     \* on the chain: reserves, supply, k_last and the shares
  rows,     \* the transactions it announced, by transaction id
  settled,  \* those in settled_trades and settled_liquidity_changes
  cursor,   \* of the market derivation
  poolRow,  \* pool_state_v2
  posRow,   \* position_state_v2
  up,       \* the service runs
  used,     \* faults and replays so far
  applied,  \* history: the transactions the pool snapshot went through
  taken     \* history: the same of each position snapshot

chainVars == <<pool, rows>>
tables == <<settled, cursor, poolRow, posRow>>
histories == <<applied, taken>>
vars == <<chainVars, tables, up, used, histories>>

-----------------------------------------------------------------------------
(* The pool on its chain.                                                  *)

Announce(kind, owner, in0, out0, in1, out1, liquidity, virtual) ==
  rows' = Append(rows, [id |-> Len(rows) + 1, kind |-> kind, owner |-> owner, in0 |-> in0,
                        out0 |-> out0, in1 |-> in1, out1 |-> out1, liquidity |-> liquidity,
                        virtual |-> virtual])

Open(virtual) ==
  LET supply == ISqrt(Opening * Opening) IN
  /\ pool = [r0 |-> Opening, r1 |-> Opening, supply |-> supply, kLast |-> supply,
             shares |-> [o \in Owners |-> IF o = Creator THEN supply ELSE 0]]
  /\ rows = <<[id |-> 1, kind |-> "AddLiquidity", owner |-> Creator, in0 |-> Opening,
               out0 |-> 0, in1 |-> Opening, out1 |-> 0, liquidity |-> supply,
               virtual |-> virtual]>>

\* The fee due is minted to the receiver before liquidity changes.
WithFee ==
  LET fee == FeeShare(pool.supply, pool.r0, pool.r1, pool.kLast)
  IN  [pool EXCEPT !.supply = @ + fee, !.shares[Creator] = @ + fee]

AddLiquidity(o, want0, want1) ==
  /\ Len(rows) < MaxTransactions
  /\ \E p \in {WithFee}, pair \in {OptimalPair(pool.r0, pool.r1, want0, want1, 0, 0)} :
       LET minted == SharesFor(p.supply, p.r0, p.r1, pair[1], pair[2]) IN
       /\ pair # NoPair /\ minted > 0
       /\ pool' = [p EXCEPT !.r0 = @ + pair[1], !.r1 = @ + pair[2], !.supply = @ + minted,
                            !.kLast = ISqrt((p.r0 + pair[1]) * (p.r1 + pair[2])),
                            !.shares[o] = @ + minted]
       /\ Announce("AddLiquidity", o, pair[1], 0, pair[2], 0, minted, FALSE)
  /\ UNCHANGED <<tables, up, used, histories>>

RemoveLiquidity(o, liquidity) ==
  /\ Len(rows) < MaxTransactions
  /\ liquidity \in 1 .. pool.shares[o]
  /\ \E p \in {WithFee} :
       LET out0 == PayoutFor(liquidity, p.supply, p.r0)
           out1 == PayoutFor(liquidity, p.supply, p.r1)
       IN  /\ out0 > 0 /\ out1 > 0
           /\ pool' = [p EXCEPT !.r0 = @ - out0, !.r1 = @ - out1, !.supply = @ - liquidity,
                                !.kLast = ISqrt((p.r0 - out0) * (p.r1 - out1)),
                                !.shares[o] = @ - liquidity]
           /\ Announce("RemoveLiquidity", o, 0, out0, 0, out1, liquidity, FALSE)
  /\ UNCHANGED <<tables, up, used, histories>>

Swap(o, kind, amount) ==
  LET buys == kind = "BuyToken0"
      out == IF buys THEN AmountOut(pool.r1, pool.r0, amount)
             ELSE AmountOut(pool.r0, pool.r1, amount)
  IN  /\ Len(rows) < MaxTransactions
      /\ pool.r0 > 0 /\ pool.r1 > 0 /\ out > 0
      /\ pool' = IF buys THEN [pool EXCEPT !.r0 = @ - out, !.r1 = @ + amount]
                 ELSE [pool EXCEPT !.r0 = @ + amount, !.r1 = @ - out]
      /\ IF buys THEN Announce(kind, o, 0, out, amount, 0, 0, FALSE)
         ELSE Announce(kind, o, amount, 0, 0, out, 0, FALSE)
      /\ UNCHANGED <<tables, up, used, histories>>

-----------------------------------------------------------------------------
(* Position snapshots.  A batch is the set of the ids of its rows, which   *)
(* are taken in the order of their ids.                                    *)

Through(step(_, _), base, list, ids) ==
  LET Taken(s, t) == IF t.id \in ids THEN step(s, t) ELSE s IN FoldLeft(Taken, base, list)

NoPosition == [status |-> "none", liquidity |-> 0, basis |-> "none", basisTx |-> 0, last |-> 0]

\* get_position_state: the row of a closed position is not found, and the
\* position starts anew.
GetPositionState(row) == IF row.status = "active" THEN row ELSE NoPosition

\* The first, virtual, deposit is nobody's position.
IsPositionLiquidity(t) == ~IsTrade(t) /\ ~t.virtual

\* Mutant: a removal of more than the position holds empties it.
NeverOverRemove(s, t) == FALSE

IsOverRemove(s, t) ==
  t.kind = "RemoveLiquidity" /\ (s.liquidity <= 0 \/ t.liquidity > s.liquidity)

RecordSkippedRemove(s, t) ==
  [s EXCEPT !.last = t.id, !.status = IF @ = "none" THEN "active" ELSE @]

ApplyPositionState(s, t) ==
  LET running == s.liquidity + (IF t.kind = "AddLiquidity" THEN t.liquidity ELSE -t.liquidity)
  IN  [status |-> IF running > 0 THEN "active" ELSE "closed", liquidity |-> NonNegative(running),
       basis |-> t.kind, basisTx |-> t.id, last |-> t.id]

AlreadyApplied(s, t) == t.id <= s.last

StepPosition(s, t) ==
  IF AlreadyApplied(s, t) THEN s
  ELSE IF IsOverRemove(s, t) THEN RecordSkippedRemove(s, t) ELSE ApplyPositionState(s, t)

PositionsOf(o, batch) == {i \in batch : IsPositionLiquidity(rows[i]) /\ rows[i].owner = o}

PositionAfter(row, batch) == Through(StepPosition, GetPositionState(row), rows, batch)

OwnersOf(batch) == {rows[i].owner : i \in {j \in batch : IsPositionLiquidity(rows[j])}}

\* _recorded_position_rows and _aggregate_positions: what rows of one owner
\* add up to.
NoAnswer == [liquidity |-> 0, status |-> "none", opened |-> 0]
AddUp(p, t) ==
  CASE t.kind = "AddLiquidity" ->
         [p EXCEPT !.liquidity = @ + t.liquidity, !.status = "active",
                   !.opened = IF @ = 0 THEN t.id ELSE @]
    [] t.kind = "RemoveLiquidity" ->
         IF p.liquidity <= 0 \/ t.liquidity > p.liquidity THEN p
         ELSE [p EXCEPT !.liquidity = @ - t.liquidity,
                        !.status = IF t.liquidity = p.liquidity THEN "closed" ELSE "active"]
Recorded(list, ids) == Through(AddUp, NoAnswer, list, ids)

\* What of the rows taken so far a position that starts anew still stands
\* for: those before its new rows, if it was empty there.
Kept(o, new) ==
  LET before == {i \in taken[o] : \A n \in new : i < n}
  IN  IF Recorded(rows, before).liquidity = 0 THEN before ELSE {}

\* The replacements of some owners, out of the batch.
ReplacePositions(batch, owners) ==
  /\ posRow' = [o \in Owners |-> IF o \in owners THEN PositionAfter(posRow[o], PositionsOf(o, batch))
                                 ELSE posRow[o]]
  /\ taken' = [o \in Owners |->
                 LET known == GetPositionState(posRow[o])
                     new == {i \in PositionsOf(o, batch) : ~AlreadyApplied(known, rows[i])}
                 IN  CASE o \notin owners -> taken[o]
                       [] o \in owners /\ known.status = "active" -> taken[o] \cup new
                       [] o \in owners /\ known.status # "active" -> Kept(o, new) \cup new]

-----------------------------------------------------------------------------
(* The pool snapshot.                                                      *)

StepPool(s, t) == IF AlreadyApplied(s, t) THEN s ELSE ApplyPoolState(s, t)

UpsertPoolState(batch) ==
  /\ poolRow' = Through(StepPool, poolRow, rows, batch)
  /\ applied' = applied \cup {i \in batch : ~AlreadyApplied(poolRow, rows[i])}

-----------------------------------------------------------------------------
Init ==
  /\ \E virtual \in BOOLEAN : Open(virtual)
  /\ settled = {} /\ cursor = 0
  /\ poolRow = NoPoolState
  /\ posRow = [o \in Owners |-> NoPosition]
  /\ up = TRUE /\ used = [faults |-> 0, replays |-> 0]
  /\ applied = {} /\ taken = [o \in Owners |-> {}]

\* The rows of the next batch: what came since the cursor, or everything
\* for a replay.  A batch takes far more rows than the instance has.
Batch(after) == after + 1 .. Len(rows)
Settle(batch) == settled' = settled \cup batch
Fault == used.faults < MaxFaults /\ used' = [used EXCEPT !.faults = @ + 1]

\* A batch is settled and the snapshots follow.
Materialize(after) ==
  /\ up /\ after < Len(rows)
  /\ Settle(Batch(after))
  /\ ReplacePositions(Batch(after), OwnersOf(Batch(after)))
  /\ UpsertPoolState(Batch(after))
  /\ cursor' = Len(rows)
  /\ UNCHANGED <<chainVars, up>>

MaterializeBatch == Materialize(cursor) /\ UNCHANGED used

OperatorReplays ==
  /\ used.replays < MaxReplays
  /\ used' = [used EXCEPT !.replays = @ + 1]
  /\ Materialize(0)

\* Some positions are replaced, in the order of the first row each has in
\* the batch, then an exception: it is swallowed and the batch counts as
\* done.
SnapshotsDegrade(n) ==
  /\ up /\ cursor < Len(rows)
  /\ Fault
  /\ Settle(Batch(cursor))
  /\ ReplacePositions(Batch(cursor), OwnersOf(cursor + 1 .. n))
  /\ cursor' = Len(rows)
  /\ UNCHANGED <<chainVars, poolRow, up, applied>>

\* The batch fails before it is settled; the cursor moves over it.
DerivationFails ==
  /\ up /\ cursor < Len(rows)
  /\ Fault
  /\ cursor' = Len(rows)
  /\ UNCHANGED <<chainVars, settled, poolRow, posRow, up, histories>>

\* The process dies after a batch is settled and some positions replaced.
CrashInBatch(n) ==
  /\ up /\ cursor < Len(rows)
  /\ Fault
  /\ Settle(Batch(cursor))
  /\ ReplacePositions(Batch(cursor), OwnersOf(cursor + 1 .. n))
  /\ up' = FALSE
  /\ UNCHANGED <<chainVars, cursor, poolRow, applied>>

Crash ==
  /\ up /\ Fault
  /\ up' = FALSE
  /\ UNCHANGED <<chainVars, tables, histories>>

\* list_position_snapshot_gap_changes: the settled rows beyond the
\* transaction the position is at, active or closed.
GapChanges ==
  {i \in settled : IsPositionLiquidity(rows[i]) /\ i > posRow[rows[i].owner].last}

\* Startup repairs the positions, not the pool.
Restart ==
  /\ ~up
  /\ up' = TRUE
  /\ ReplacePositions(GapChanges, OwnersOf(GapChanges))
  /\ UNCHANGED <<chainVars, settled, cursor, poolRow, used, applied>>

Next ==
  \/ \E o \in Owners, amount \in Amounts : AddLiquidity(o, amount, amount)
  \/ \E o \in Owners :
        \/ RemoveLiquidity(o, pool.shares[o] \div 2)
        \/ RemoveLiquidity(o, pool.shares[o])
  \/ \E kind \in Trades, amount \in Amounts : Swap(Creator, kind, amount)
  \/ MaterializeBatch
  \/ OperatorReplays
  \/ \E n \in cursor .. Len(rows) : SnapshotsDegrade(n)
  \/ DerivationFails
  \/ \E n \in cursor .. Len(rows) : CrashInBatch(n)
  \/ Crash
  \/ Restart

Spec == Init /\ [][Next]_vars

-----------------------------------------------------------------------------
(* The queries.                                                            *)

PositionIds(o) == PositionsOf(o, settled)

\* What the positions query says of the settled rows.
RecordedPosition(o) == Recorded(rows, PositionIds(o))

\* What the position could be redeemed for.
Redeemable(liquidity) ==
  <<RoundDiv(liquidity * poolRow.r0, poolRow.supply),
    RoundDiv(liquidity * poolRow.r1, poolRow.supply)>>

\* is_eligible.  The payload of an incremental snapshot claims that its
\* basis opens the round and that no trade lies between basis and fee-free
\* basis, so only the order of the two is left to compare.
FastPathEligible(o) ==
  LET answer == RecordedPosition(o) IN
  /\ posRow[o].status # "none" /\ poolRow.supply > 0
  /\ posRow[o].status = answer.status
  /\ posRow[o].basis # "none"
  /\ posRow[o].basis = "AddLiquidity" => answer.opened <= posRow[o].basisTx
  /\ posRow[o].basisTx <= poolRow.freeBasis

\* The principal the fast path reports, none when it would exceed what can
\* be redeemed.
FastPrincipal(o) ==
  LET liquidity == RecordedPosition(o).liquidity
      whole == Redeemable(liquidity)
      part == <<(liquidity * poolRow.free0) \div poolRow.supply,
                (liquidity * poolRow.free1) \div poolRow.supply>>
  IN  IF poolRow.last = posRow[o].basisTx THEN whole
      ELSE IF part[1] > whole[1] \/ part[2] > whole[2] THEN NoPrincipal
      ELSE part

-----------------------------------------------------------------------------
(* What the properties compare with.                                       *)

NothingMissing == applied = 1 .. poolRow.last
UpToDate == settled = 1 .. Len(rows) /\ poolRow.last = Len(rows) /\ NothingMissing
TradesIn(from, to) == {i \in from .. to : IsTrade(rows[i])}
NeverRemoved(o) == \A i \in DOMAIN rows : rows[i].kind = "RemoveLiquidity" => rows[i].owner # o
Virtual(o) == IF o = Creator /\ rows[1].virtual THEN rows[1].liquidity ELSE 0

SamePool(s) ==
  s.r0 = pool.r0 /\ s.r1 = pool.r1 /\ s.supply = pool.supply /\ s.kLast = pool.kLast

\* The round of a position: since its last deposit on an empty position.
PositionBefore(o, id) ==
  LET Step(at, t) ==
        LET next == IF t.kind = "AddLiquidity" THEN at.liquidity + t.liquidity
                    ELSE IF t.liquidity > at.liquidity THEN at.liquidity
                    ELSE at.liquidity - t.liquidity
        IN  [liquidity |-> next, since |-> IF at.liquidity = 0 THEN t.id ELSE at.since]
  IN  Through(Step, [liquidity |-> 0, since |-> id], rows, {i \in PositionIds(o) : i < id})

Simulated(o) ==
  LET basis == posRow[o].basisTx
      round == PositionBefore(o, basis)
      opens == round.liquidity = 0
      from == IF opens THEN basis ELSE round.since
  IN  SimulatePrincipal(rows, RecordedStates(rows), basis, posRow[o].liquidity, opens,
                        Cardinality(TradesIn(from, basis)))

Near(a, b) == a[1] - b[1] \in 0 .. 1 /\ a[2] - b[2] \in 0 .. 1

-----------------------------------------------------------------------------
(* Properties.                                                             *)

\* The incremental snapshot, the rebuild from the history and the checked
\* reconstruction all arrive at the pool the contract holds, fee due
\* included; without a failure nothing is missing from the snapshot, and
\* whatever is replayed it went through settled trades only, through each once.
SnapshotIsPool ==
  /\ applied \subseteq settled /\ poolRow.last \in {0} \cup applied
  /\ poolRow.swaps = Cardinality({i \in applied : IsTrade(rows[i])})
  /\ NothingMissing /\ poolRow.last = Len(rows) =>
        /\ SamePool(poolRow)
        /\ poolRow.pending = FeeShare(pool.supply, pool.r0, pool.r1, pool.kLast)
        /\ BuildPoolState(rows) = poolRow
        /\ Reconstruct(rows) = [states |-> RecordedStates(rows), blockers |-> {}]
        /\ SamePool(LastState(RecordedStates(rows)))
  /\ used.faults = 0 => applied = 1 .. cursor

\* The snapshot of a position, the positions query and the shares on the
\* chain agree: the receiver of the fee holds its fee shares besides, as
\* long as it removed nothing.  Without a failure no change of a position
\* is missing.  A skipped removal leaves a status of its own.
PositionsAgree ==
  \A o \in Owners :
    LET answer == RecordedPosition(o) IN
    /\ taken[o] \subseteq PositionIds(o) /\ posRow[o].last \in {0} \cup taken[o]
    /\ taken[o] = PositionIds(o) =>
          /\ posRow[o].liquidity = answer.liquidity
          /\ posRow[o].basis # "none" => posRow[o].status = answer.status
    /\ used.faults = 0 => taken[o] = PositionIds(o)
    /\ settled = 1 .. Len(rows) =>
          /\ o # Creator => pool.shares[o] = answer.liquidity
          /\ NeverRemoved(o) => pool.shares[o] = answer.liquidity + Virtual(o)
                                                    + OwnedFees(o, Creator, rows)

\* The principal of the fast path is the one of the simulation of the whole
\* history, when no trade lies between the basis of the position and that
\* of the fee-free reserves; the position whose basis is the last
\* transaction is rounded to the nearest.
PrincipalAgrees ==
  \A o \in Owners :
    LET simulated == Simulated(o)
        fast == FastPrincipal(o)
    IN  (/\ UpToDate /\ taken[o] = PositionIds(o)
         /\ FastPathEligible(o) /\ posRow[o].liquidity > 0
         /\ TradesIn(posRow[o].basisTx, poolRow.freeBasis) = {}
         /\ fast # NoPrincipal /\ simulated # NoPrincipal)
        => IF poolRow.last = posRow[o].basisTx THEN Near(fast, simulated) ELSE fast = simulated

\* A replay by the operator rebuilds the snapshots.
ReplayRebuilds ==
  [][OperatorReplays => applied' = 1 .. Len(rows)
                        /\ \A o \in Owners : taken'[o] = PositionIds(o)']_vars
=============================================================================
