--------------------------- MODULE ChainIngestion ---------------------------
(***************************************************************************)
(* Layer 1 of service/kline: blocks of the tracked chains are fetched one  *)
(* height at a time and stored with the raw facts they carry.              *)
(*                                                                         *)
(* The actors are the asyncio tasks of the process (one worker per chain   *)
(* of the ChainEventProcessor, and catch-ups an operator asks for, which   *)
(* take no lock), and the threads that run the post-ingest pipeline.  A    *)
(* task runs without interruption between two awaits, so an action is what *)
(* happens from one await to the next: the answer to a fetch, the wake-up  *)
(* after the pipeline, the end of a sleep.                                 *)
(*                                                                         *)
(* A block is one row: the children stored in the same transaction (the    *)
(* bundles, messages, operations, events and oracle responses) are part of *)
(* it, and what a replay can find different in them is the row's body.     *)
(* Layers 2 and 3 appear here only as the position of their cursor; module *)
(* Derivation has the detail.                                              *)
(***************************************************************************)
EXTENDS Integers, FiniteSetsExt

CONSTANTS
    Chains,         \* the chains of the network
    Configured,     \* those of config.catch_up_chain_ids
    Admin,          \* the catch-up an operator starts
    Top,            \* bound: highest block each chain produces
    MaxBlocks,      \* max_blocks_per_chain
    Batch,          \* batch_limit of the normalization driver
    Slots,          \* bound: pipeline threads alive or waited for at once
    MaxNotices,     \* bound: notifications
    MaxFaults,      \* bound: failed fetches, writes and pipeline runs
    MaxTimeouts,    \* bound: timeouts of a task or of the pipeline
    MaxRewinds,     \* bound: replays an operator prepares
    MaxTroubles     \* bound: faults, timeouts and replays together

ASSUME ChainsAssumption == Admin \notin Chains /\ Configured \subseteq Chains
ASSUME BoundsAssumption ==
    /\ Top \in [Chains -> Nat \union {-1}] /\ MaxBlocks \in Nat \ {0} /\ Batch \in Nat \ {0}
    /\ {MaxNotices, MaxFaults, MaxTimeouts, MaxRewinds, MaxTroubles} \subseteq Nat
    /\ Slots \subseteq Nat \ {0}

None == 0                       \* no future, no thread
Null == -1                      \* last_finalized_height IS NULL
Heights == UNION {0 .. Top[c] : c \in Chains}
Jobs == Chains \union {Admin}
Bodies == {"rehash", "rebody"}  \* what a replay finds different in a block

VARIABLES
    tip,        \* highest block the node has of each chain
    tracked,    \* chains the processor accepts and the listener follows
    cursor,     \* rows of chain_cursors
    raw,        \* rows of raw_blocks with their children
    nextId,     \* AUTO_INCREMENT of the raw tables
    anomalies,  \* rows of ingestion_anomalies
    derived,    \* last_sequence of the normalization cursor
    pending,    \* _pending_counts
    job,        \* where each task stands in ingest_until_caught_up
    future,     \* _post_ingest_future
    thread,     \* the pipeline threads
    heard,      \* history: tip of a chain at its last notification
    gaveUp,     \* history: a timed-out worker stopped with nothing pending
    used        \* notices, faults, timeouts and rewinds so far

dbVars == <<cursor, raw, nextId, anomalies, derived>>
loopVars == <<pending, job, future, thread>>
vars == <<tip, tracked, dbVars, loopVars, heard, gaveUp, used>>

Idle == [pc |-> "idle", chain |-> Admin, behind |-> FALSE, got |-> 0, base |-> Null,
         own |-> None, caught |-> FALSE]

Init ==
    /\ tip = [c \in Chains |-> Null]
    /\ tracked = Configured
    /\ cursor = [c \in Chains |-> [last |-> Null, status |-> "none"]]
    /\ raw = {} /\ nextId = 1 /\ anomalies = {} /\ derived = 0
    /\ pending = [c \in Chains |-> 0]
    /\ job = [j \in Jobs |-> Idle]
    /\ future = None
    /\ thread = [i \in Slots |-> "unused"]
    /\ heard = [c \in Chains |-> Null]
    /\ gaveUp = [c \in Chains |-> FALSE]
    /\ used = [notices |-> 0, faults |-> 0, timeouts |-> 0, rewinds |-> 0]

Troubles == used.faults + used.timeouts + used.rewinds
Spend(what, bound) ==
    /\ used[what] < bound
    /\ what # "notices" => Troubles < MaxTroubles
    /\ used' = [used EXCEPT ![what] = @ + 1]

-----------------------------------------------------------------------------
(* The rows.                                                               *)

RowsAt(c, h) == {r \in raw : r.chain = c /\ r.height = h}
RowsAfter(n) == {r \in raw : r.id > n}

(* The rows one run of the normalization driver takes: the first Batch by  *)
(* id after the cursor.                                                    *)
NextBatch(n) ==
    {r \in RowsAfter(n) : Cardinality({s \in RowsAfter(n) : s.id < r.id}) < Batch}
EndOfBatch(n) == Max({n} \union {r.id : r \in NextBatch(n)})

(* mark_attempt and mark_failure write the status of a cursor, never its   *)
(* height.                                                                 *)
AttemptMovesCursor(k) == [last |-> k.last + 1, status |-> "syncing"]
Attempt(k) == [k EXCEPT !.status = "syncing"]
Failure(k) == [k EXCEPT !.status = "error"]

-----------------------------------------------------------------------------
(* The loop of ingest_until_caught_up.  Its operators take the row of      *)
(* chain_cursors that the step has written so far.                         *)

(* ingest_next up to its await: the cursor is read, the attempt on the     *)
(* next height is written, and the block is asked for.                     *)
Fetch(j, c, k, got) ==
    /\ job' = [job EXCEPT ![j] = [pc |-> "fetch", chain |-> c, base |-> k.last,
                                  behind |-> k.last < tip[c], got |-> got, own |-> None,
                                  caught |-> FALSE]]
    /\ cursor' = [cursor EXCEPT ![c] = Attempt(k)]

(* Mutant: the count is reset when the run is over.                        *)
RunEndsForgetsNotices(j, k) ==
    /\ job' = [job EXCEPT ![j] = Idle]
    /\ cursor' = [cursor EXCEPT ![job[j].chain] = k]
    /\ pending' = IF j = Admin THEN pending ELSE [pending EXCEPT ![j] = 0]

(* The run is over.  The worker of a chain starts the next one at once     *)
(* when a notification arrived meanwhile, otherwise its task ends.         *)
RunEnds(j, k) ==
    \/ /\ j # Admin
       /\ pending[j] > 0
       /\ pending' = [pending EXCEPT ![j] = 0]
       /\ Fetch(j, j, k, 0)
    \/ /\ j # Admin => pending[j] = 0
       /\ job' = [job EXCEPT ![j] = Idle]
       /\ cursor' = [cursor EXCEPT ![job[j].chain] = k]
       /\ UNCHANGED pending

(* Mutant: no retry.                                                       *)
RunFallsShortForGood(j, k) ==
    /\ cursor' = [cursor EXCEPT ![job[j].chain] = k]
    /\ job' = [job EXCEPT ![j] = Idle]
    /\ UNCHANGED pending

(* The run failed or did not catch up: a worker sleeps and tries again,    *)
(* the caller of an operator's run gets the result.                        *)
RunFallsShort(j, k) ==
    /\ cursor' = [cursor EXCEPT ![job[j].chain] = k]
    /\ job' = [job EXCEPT ![j] = IF j = Admin THEN Idle
                                 ELSE [Idle EXCEPT !.pc = "sleep", !.chain = j]]
    /\ UNCHANGED pending

RunResult(j, k, caught) == IF caught THEN RunEnds(j, k) ELSE RunFallsShort(j, k)

InFlight == future # None /\ thread[future] = "running"
Free(i) == thread[i] # "running" /\ i # future /\ \A j \in Jobs : job[j].own # i
FreeSlot == {i \in Slots : Free(i) /\ \A k \in Slots : Free(k) => i <= k}

(* Mutant: a skipped pipeline counts as caught up.                         *)
LoopEndsSkipping(j, k, got, caught) ==
    \/ (got = 0 \/ InFlight) /\ RunResult(j, k, caught) /\ UNCHANGED <<future, thread>>
    \/ /\ got > 0 /\ ~InFlight
       /\ \E i \in FreeSlot :
            /\ thread' = [thread EXCEPT ![i] = "running"]
            /\ future' = i
            /\ job' = [job EXCEPT ![j] = [Idle EXCEPT !.pc = "post", !.own = i,
                      !.chain = job[j].chain, !.base = job[j].base, !.caught = caught]]
       /\ cursor' = [cursor EXCEPT ![job[j].chain] = k]
       /\ UNCHANGED pending

(* After the loop: when blocks were taken the pipeline runs on a thread,   *)
(* unless one still runs.                                                  *)
LoopEnds(j, k, got, caught) ==
    \/ got = 0 /\ RunResult(j, k, caught) /\ UNCHANGED <<future, thread>>
    \/ got > 0 /\ InFlight /\ RunFallsShort(j, k) /\ UNCHANGED <<future, thread>>
    \/ /\ got > 0 /\ ~InFlight
       /\ \E i \in FreeSlot :
            /\ thread' = [thread EXCEPT ![i] = "running"]
            /\ future' = i
            /\ job' = [job EXCEPT ![j] = [Idle EXCEPT !.pc = "post", !.own = i,
                      !.chain = job[j].chain, !.base = job[j].base, !.caught = caught]]
       /\ cursor' = [cursor EXCEPT ![job[j].chain] = k]
       /\ UNCHANGED pending

(* A height at or below the cursor was stored by another task meanwhile;   *)
(* otherwise the block, its children and the cursor are written in one     *)
(* transaction, where rows that are there already are left alone.          *)
AlreadyFinalized(c, h) == h <= cursor[c].last

IngestBlock(c, h) ==
    IF AlreadyFinalized(c, h) \/ RowsAt(c, h) # {}
    THEN UNCHANGED <<raw, nextId>>
    ELSE /\ raw' = raw \union {[chain |-> c, height |-> h, id |-> nextId]}
         /\ nextId' = nextId + 1

Stored(k, h) == IF h <= k.last THEN k ELSE [last |-> h, status |-> "idle"]

(* The block is there: it is stored, and the loop asks for the next one    *)
(* until it has taken max_blocks.                                          *)
BlockFetched(j) ==
    LET c == job[j].chain
        h == job[j].base + 1
        got == job[j].got + 1
    IN  /\ job[j].pc = "fetch"
        /\ h <= tip[c]
        /\ IngestBlock(c, h)
        /\ IF got < MaxBlocks
           THEN Fetch(j, c, Stored(cursor[c], h), got) /\ UNCHANGED <<pending, future, thread>>
           ELSE LoopEnds(j, Stored(cursor[c], h), got, FALSE)
        /\ UNCHANGED <<tip, tracked, anomalies, derived, heard, gaveUp, used>>

(* BlockNotAvailableError ends the loop.  The answer may be older than the *)
(* tip: it is the node's when the request was served.                      *)
BlockNotAvailable(j) ==
    /\ job[j].pc = "fetch"
    /\ ~job[j].behind
    /\ LoopEnds(j, cursor[job[j].chain], job[j].got, TRUE)
    /\ UNCHANGED <<tip, tracked, raw, nextId, anomalies, derived, heard, gaveUp, used>>

(* The fetch, the parser or a statement of ingest_block fails: the         *)
(* transaction is rolled back and the failure is recorded.  Blocks this    *)
(* run took before get no pipeline run.                                    *)
IngestFails(j) ==
    LET c == job[j].chain IN
    /\ job[j].pc = "fetch"
    /\ Spend("faults", MaxFaults)
    /\ RunFallsShort(j, Failure(cursor[c]))
    /\ UNCHANGED <<tip, tracked, raw, nextId, anomalies, derived, future, thread, heard,
                   gaveUp>>

(* A replayed height whose block or children differ from the stored rows:  *)
(* nothing is written but the anomaly, and the run fails.                  *)
ReplayConflicts(j, body) ==
    LET c == job[j].chain
        h == job[j].base + 1
    IN  /\ job[j].pc = "fetch"
        /\ ~AlreadyFinalized(c, h) /\ RowsAt(c, h) # {}
        /\ Spend("faults", MaxFaults)
        /\ anomalies' = anomalies \union {[kind |-> body, chain |-> c, height |-> h]}
        /\ RunFallsShort(j, Failure(cursor[c]))
        /\ UNCHANGED <<tip, tracked, raw, nextId, derived, future, thread, heard, gaveUp>>

-----------------------------------------------------------------------------
(* The post-ingest pipeline on its thread, and the task that waits for it. *)

(* The result of a thread is kept while a task waits for it.               *)
ThreadEnds(i, result) ==
    thread' = [thread EXCEPT ![i] =
                 IF \E j \in Jobs : job[j].own = i THEN result ELSE "unused"]

PipelineRuns(i) ==
    /\ thread[i] = "running"
    /\ derived' = EndOfBatch(derived)
    /\ ThreadEnds(i, IF Cardinality(NextBatch(derived)) < Batch
                     THEN "caughtUp" ELSE "behind")
    /\ UNCHANGED <<tip, tracked, cursor, raw, nextId, anomalies, pending, job,
                   future, heard, gaveUp, used>>

(* The pipeline raises: its cursor may have moved already.                 *)
PipelineFails(i) ==
    /\ thread[i] = "running"
    /\ Spend("faults", MaxFaults)
    /\ derived' \in {derived, EndOfBatch(derived)}
    /\ ThreadEnds(i, "failed")
    /\ UNCHANGED <<tip, tracked, cursor, raw, nextId, anomalies, pending, job,
                   future, heard, gaveUp>>

(* The finally clause forgets whatever future is stored, once it is done.  *)
ForgetDone == future' = IF InFlight THEN future ELSE None

PipelineAwaited(j) ==
    LET result == thread[job[j].own] IN
    /\ job[j].pc = "post"
    /\ result # "running"
    /\ ForgetDone
    /\ RunResult(j, cursor[job[j].chain], job[j].caught /\ result = "caughtUp")
    /\ thread' = [thread EXCEPT ![job[j].own] = "unused"]
    /\ UNCHANGED <<tip, tracked, raw, nextId, anomalies, derived, heard, gaveUp, used>>

(* wait_for gives up on the pipeline: the executor is replaced, but the    *)
(* thread runs on.                                                         *)
PipelineTimesOut(j) ==
    /\ job[j].pc = "post"
    /\ thread[job[j].own] = "running"
    /\ Spend("timeouts", MaxTimeouts)
    /\ future' = None
    /\ RunFallsShort(j, cursor[job[j].chain])
    /\ UNCHANGED <<tip, tracked, raw, nextId, anomalies, derived, thread, heard, gaveUp>>

(* task_timeout_seconds: the run of a worker is cancelled where it awaits. *)
(* A timed-out run is not tried again.                                     *)
TaskTimesOut(c) ==
    /\ job[c].pc \in {"fetch", "post"}
    /\ Spend("timeouts", MaxTimeouts)
    /\ future' = IF job[c].pc = "post" THEN None ELSE future
    /\ thread' = [i \in Slots |-> IF i = job[c].own /\ thread[i] # "running"
                                 THEN "unused" ELSE thread[i]]
    /\ RunEnds(c, cursor[c])
    /\ gaveUp' = [gaveUp EXCEPT ![c] = pending[c] = 0]
    /\ UNCHANGED <<tip, tracked, raw, nextId, anomalies, derived, heard>>

(* retry_delay_seconds are over: the worker counts itself pending and      *)
(* loops.                                                                  *)
Retry(c) ==
    /\ job[c].pc = "sleep"
    /\ pending' = [pending EXCEPT ![c] = 0]
    /\ Fetch(c, c, cursor[c], 0)
    /\ UNCHANGED <<tip, tracked, raw, nextId, anomalies, derived, future, thread,
                   heard, gaveUp, used>>

-----------------------------------------------------------------------------
(* What starts a run.                                                      *)

(* on_chain_notification and on_subscription_reconnect: the registry is    *)
(* refreshed, which may add chains, and the chain is enqueued.             *)
ChainNotification(c, found) ==
    /\ c \in tracked
    /\ Spend("notices", MaxNotices)
    /\ tracked' = tracked \union found
    /\ pending' = [pending EXCEPT ![c] = @ + 1]
    /\ job' = [job EXCEPT ![c].pc = IF @ = "idle" THEN "ready" ELSE @]
    /\ heard' = [heard EXCEPT ![c] = tip[c]]
    /\ gaveUp' = [gaveUp EXCEPT ![c] = FALSE]
    /\ UNCHANGED <<tip, dbVars, future, thread>>

WorkerStarts(c) ==
    /\ job[c].pc = "ready"
    /\ pending' = [pending EXCEPT ![c] = 0]
    /\ Fetch(c, c, cursor[c], 0)
    /\ UNCHANGED <<tip, tracked, raw, nextId, anomalies, derived, future, thread,
                   heard, gaveUp, used>>

(* run_catch_up of an operator, and the catch-up at startup: the same      *)
(* loop, outside the worker of the chain and its lock.                     *)
AdminCatchUp(c) ==
    /\ job[Admin].pc = "idle"
    /\ c \in tracked
    /\ Fetch(Admin, c, cursor[c], 0)
    /\ UNCHANGED <<tip, tracked, raw, nextId, anomalies, derived, pending, future,
                   thread, heard, gaveUp, used>>

-----------------------------------------------------------------------------
(* The surroundings.                                                       *)

BlockFinalized(c) ==
    /\ tip[c] < Top[c]
    /\ tip' = [tip EXCEPT ![c] = @ + 1]
    /\ UNCHANGED <<tracked, dbVars, loopVars, heard, gaveUp, used>>

(* The process stops: the database is all it keeps.                        *)
Stop ==
    /\ tracked' = Configured
    /\ pending' = [c \in Chains |-> 0]
    /\ job' = [j \in Jobs |-> Idle]
    /\ future' = None
    /\ thread' = [i \in Slots |-> "unused"]
    /\ heard' = [c \in Chains |-> Null]
    /\ gaveUp' = [c \in Chains |-> FALSE]
    /\ UNCHANGED <<tip, raw, nextId, anomalies, derived>>

Restart ==
    /\ Spend("faults", MaxFaults)
    /\ Stop
    /\ UNCHANGED cursor

(* An operator sets the cursor of a chain back while the service is down,  *)
(* to replay its blocks.                                                   *)
RewindCursor(c, h) ==
    /\ h < cursor[c].last
    /\ Spend("rewinds", MaxRewinds)
    /\ cursor' = [cursor EXCEPT ![c].last = h]
    /\ Stop

TaskStep(j) ==
    \/ BlockFetched(j)
    \/ BlockNotAvailable(j)
    \/ PipelineAwaited(j)
    \/ j # Admin /\ (WorkerStarts(j) \/ Retry(j))

Next ==
    \/ \E j \in Jobs : \/ BlockFetched(j) \/ BlockNotAvailable(j)
                       \/ PipelineAwaited(j) \/ IngestFails(j) \/ PipelineTimesOut(j)
    \/ \E j \in Jobs, body \in Bodies : ReplayConflicts(j, body)
    \/ \E i \in Slots : PipelineRuns(i) \/ PipelineFails(i)
    \/ \E c \in Chains : \/ TaskTimesOut(c) \/ Retry(c) \/ WorkerStarts(c)
                         \/ AdminCatchUp(c) \/ BlockFinalized(c)
    \/ \E c \in Chains, found \in SUBSET (Chains \ tracked) : ChainNotification(c, found)
    \/ \E c \in Chains : \E h \in Null .. Top[c] : RewindCursor(c, h)
    \/ Restart

Spec == Init /\ [][Next]_vars

(* The event loop resumes a task whose await is over, an awaited request   *)
(* is answered, and a running thread gets on.                              *)
FairSpec ==
    /\ Spec
    /\ \A j \in Jobs : WF_vars(TaskStep(j))
    /\ \A i \in Slots : WF_vars(PipelineRuns(i))

-----------------------------------------------------------------------------
(* Properties.                                                             *)

(* The heights stored of a chain are 0 up to some height at or above its   *)
(* cursor, each in one row, and the ids the later layers read by follow    *)
(* the heights: whatever tasks fetched a chain at the same time, whatever  *)
(* failed, and however often the cursor was set back.                      *)
RawHeights(c) == {r.height : r \in {s \in raw : s.chain = c}}
RawComplete ==
    /\ \A c \in Chains :
        /\ 0 .. cursor[c].last \subseteq RawHeights(c)
        /\ \A h \in RawHeights(c) : 0 .. h \subseteq RawHeights(c)
    /\ \A r, s \in raw : r.chain = s.chain => (r.height < s.height <=> r.id < s.id)

(* A notified block is stored or a task of its chain is at work, unless a  *)
(* timeout ended the task: a notification that arrives while the worker is *)
(* busy is not lost.                                                       *)
Lagging(c) == heard[c] > cursor[c].last /\ ~gaveUp[c]
WakeupKept == \A c \in Chains : Lagging(c) => job[c].pc # "idle"

(* A worker that goes to rest after a run that took blocks leaves none of  *)
(* the blocks it has seen behind the normalization cursor: a run that      *)
(* skipped the pipeline, or left it behind, does not count as caught up.   *)
TookBlocks(j) == job[j].pc = "post" \/ (job[j].pc = "fetch" /\ job[j].got > 0)
RestMeansDerived ==
    [][\A c \in Chains :
          TookBlocks(c) /\ job'[c].pc = "idle" /\ used' = used =>
              \A r \in raw : r.chain = c /\ r.height <= job[c].base => r.id <= derived]_vars

(* A notified block is stored in the end, unless a timeout ended the task. *)
NoticeIngested == \A c \in Chains : Lagging(c) ~> ~Lagging(c)

=============================================================================
