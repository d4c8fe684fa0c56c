------------------------ MODULE ChainIngestionProofs ------------------------
(***************************************************************************)
(* The raw blocks of a chain have no gap, for any chains, any number of    *)
(* tasks that fetch at the same time, failures, timeouts, restarts and     *)
(* rewound cursors.                                                        *)
(*                                                                         *)
(* A task stores the height after the cursor it read before its await.     *)
(* Others may have moved the cursor since, but never back while the        *)
(* process lives (Followed): the height is either stored already or the    *)
(* one after the cursor.                                                   *)
(*                                                                         *)
(* No notice is lost (Answered): a task that rests has heard of nothing    *)
(* above its cursor.  And a worker that rests after it took blocks has     *)
(* them derived (Waiting): a thread's result is read by the task that      *)
(* started it, and a batch that is not full leaves no row behind.          *)
(***************************************************************************)
EXTENDS ChainIngestion, FiniteSetTheorems, WellFoundedInduction, TLAPS

Position == Nat \cup {Null}
CursorRow == [last : Position, status : {"none", "syncing", "idle", "error"}]
RawRow == [chain : Chains, height : Nat, id : Nat]
JobRecord == [pc : {"idle", "ready", "fetch", "post", "sleep"}, chain : Jobs,
              base : Position, behind : BOOLEAN, got : Nat, own : Nat, caught : BOOLEAN]

\* At work: between the first await of a run and its end.
AtWork(j) == job[j].pc \in {"fetch", "post"}

CursorsTyped == tip \in [Chains -> Position] /\ cursor \in [Chains -> CursorRow]

\* A worker works on its own chain, and the cursor a task read is not ahead
\* of the one stored now.
Followed ==
  /\ job \in [Jobs -> JobRecord]
  /\ \A j \in Jobs : AtWork(j) => job[j].chain \in Chains /\ (j # Admin => job[j].chain = j)
  /\ \A j \in Jobs : job[j].pc = "fetch" => job[j].base <= cursor[job[j].chain].last

RowsTyped == raw \subseteq RawRow /\ nextId \in Nat /\ \A r \in raw : r.id < nextId

IngestionInv == CursorsTyped /\ Followed /\ RowsTyped /\ RawComplete

\* What a step of a run does to the cursor of its chain and to the tasks.
CursorAt(c, last) ==
  /\ cursor' \in [Chains -> CursorRow]
  /\ cursor'[c].last = last
  /\ \A d \in Chains \ {c} : cursor'[d].last = cursor[d].last
  /\ Followed'

-----------------------------------------------------------------------------
(* The steps of a run.                                                     *)

\* The attempt on the next height leaves the tasks behind the cursor.
LEMMA FetchMoves ==
  ASSUME CursorsTyped, Followed,
         NEW j \in Jobs, NEW c \in Chains, NEW k \in CursorRow, NEW got \in Nat,
         j # Admin => c = j, k.last >= cursor[c].last, Fetch(j, c, k, got)
  PROVE  CursorAt(c, k.last)
<1> DEFINE task == [pc |-> "fetch", chain |-> c, base |-> k.last,
                    behind |-> k.last < tip[c], got |-> got, own |-> None,
                    caught |-> FALSE]
<1>1. cursor' = [cursor EXCEPT ![c] = Attempt(k)] /\ job' = [job EXCEPT ![j] = task]
  BY DEF Fetch
<1>2. Attempt(k) \in CursorRow /\ Attempt(k).last = k.last
  BY DEF Attempt, CursorRow
<1>3. /\ cursor' \in [Chains -> CursorRow] /\ cursor'[c].last = k.last
      /\ \A d \in Chains \ {c} : cursor'[d].last = cursor[d].last
  BY <1>1, <1>2 DEF CursorsTyped
<1>4. task \in JobRecord
  BY DEF JobRecord, CursorRow, Jobs, None
<1> HIDE DEF task
<1>5. job' \in [Jobs -> JobRecord] /\ job'[j] = task
      /\ \A i \in Jobs \ {j} : job'[i] = job[i]
  BY <1>1, <1>4 DEF Followed
<1>6. task.pc = "fetch" /\ task.chain = c /\ task.base = k.last
  BY DEF task
<1>7. ASSUME NEW i \in Jobs, AtWork(i)'
      PROVE  job'[i].chain \in Chains /\ (i # Admin => job'[i].chain = i)
  BY <1>5, <1>6, <1>7 DEF Followed, AtWork
<1>8. ASSUME NEW i \in Jobs, job'[i].pc = "fetch"
      PROVE  job'[i].base <= cursor'[job'[i].chain].last
  <2>1. CASE i = j
    <3>1. job'[i].base = k.last /\ job'[i].chain = c
      BY <1>5, <1>6, <2>1
    <3>2. k.last \in Int
      BY DEF CursorRow, Position, Null
    <3> QED BY <1>3, <3>1, <3>2
  <2>2. CASE i # j
    <3>1. job'[i] = job[i] /\ job[i].chain \in Chains /\ job[i].base <= cursor[job[i].chain].last
      BY <1>5, <1>8, <2>2 DEF Followed, AtWork
    <3>2. cursor[job[i].chain].last <= cursor'[job[i].chain].last
      <4>1. cursor[job[i].chain].last \in Int
        BY <3>1 DEF CursorsTyped, CursorRow, Position, Null
      <4>2. CASE job[i].chain = c
        BY <1>3, <4>2
      <4>3. CASE job[i].chain # c
        BY <1>3, <3>1, <4>1, <4>3
      <4> QED BY <4>2, <4>3
    <3>3. job[i].base \in Int
      BY DEF Followed, JobRecord, Position, Null
    <3> QED BY <1>3, <3>1, <3>2, <3>3, SMTT(40) DEF CursorsTyped, CursorRow, Position, Null
  <2> QED BY <2>1, <2>2
<1> QED BY <1>3, <1>5, <1>7, <1>8 DEF CursorAt, Followed, AtWork

\* A task that ends, sleeps or waits for its pipeline is behind no cursor.
LEMMA TaskLeaves ==
  ASSUME CursorsTyped, Followed,
         NEW j \in Jobs, NEW c \in Chains, NEW k \in CursorRow, NEW task \in JobRecord,
         task.pc # "fetch",
         task.pc = "post" => task.chain \in Chains /\ (j # Admin => task.chain = j),
         k.last >= cursor[c].last,
         cursor' = [cursor EXCEPT ![c] = k], job' = [job EXCEPT ![j] = task]
  PROVE  CursorAt(c, k.last)
<1>1. /\ cursor' \in [Chains -> CursorRow] /\ cursor'[c].last = k.last
      /\ \A d \in Chains \ {c} : cursor'[d].last = cursor[d].last
  BY DEF CursorsTyped
<1>2. job' \in [Jobs -> JobRecord] /\ job'[j] = task
      /\ \A i \in Jobs \ {j} : job'[i] = job[i]
  BY DEF Followed
<1>3. ASSUME NEW i \in Jobs, AtWork(i)'
      PROVE  job'[i].chain \in Chains /\ (i # Admin => job'[i].chain = i)
  BY <1>2, <1>3 DEF Followed, AtWork
<1>4. ASSUME NEW i \in Jobs, job'[i].pc = "fetch"
      PROVE  job'[i].base <= cursor'[job'[i].chain].last
  <2>1. i # j /\ job'[i] = job[i] /\ job[i].chain \in Chains
        /\ job[i].base <= cursor[job[i].chain].last
    BY <1>2, <1>4 DEF Followed, AtWork
  <2>2. cursor[job[i].chain].last <= cursor'[job[i].chain].last
    BY <1>1, <2>1 DEF CursorsTyped, CursorRow, Position, Null
  <2>3. job[i].base \in Int
    BY DEF Followed, JobRecord, Position, Null
  <2> QED BY <1>1, <2>1, <2>2, <2>3 DEF CursorsTyped, CursorRow, Position, Null
<1> QED BY <1>1, <1>2, <1>3, <1>4 DEF CursorAt, Followed, AtWork

LEMMA IdleRecord ==
  Idle \in JobRecord /\ Idle.pc = "idle"
BY DEF Idle, JobRecord, Jobs, None, Position

\* However a run ends, only its chain's cursor is written.
LEMMA RunResultMoves ==
  ASSUME CursorsTyped, Followed,
         NEW j \in Jobs, AtWork(j), NEW k \in CursorRow, NEW caught,
         k.last >= cursor[job[j].chain].last, RunResult(j, k, caught)
  PROVE  CursorAt(job[j].chain, k.last)
<1> DEFINE c == job[j].chain
<1>1. c \in Chains /\ (j # Admin => c = j)
  BY DEF Followed
<1>2. CASE RunFallsShort(j, k)
  <2> DEFINE task == IF j = Admin THEN Idle ELSE [Idle EXCEPT !.pc = "sleep", !.chain = j]
  <2>1. task \in JobRecord /\ task.pc \notin {"fetch", "post"}
    BY DEF Idle, JobRecord, Jobs, None, Position
  <2>2. cursor' = [cursor EXCEPT ![c] = k] /\ job' = [job EXCEPT ![j] = task]
    BY <1>2 DEF RunFallsShort
  <2> HIDE DEF task
  <2> QED BY <1>1, <2>1, <2>2, TaskLeaves
<1>3. CASE RunEnds(j, k)
  <2>1. CASE j # Admin /\ Fetch(j, j, k, 0)
    BY <1>1, <2>1, FetchMoves
  <2>2. CASE job' = [job EXCEPT ![j] = Idle] /\ cursor' = [cursor EXCEPT ![c] = k]
    BY <1>1, <2>2, IdleRecord, TaskLeaves
  <2> QED BY <1>3, <2>1, <2>2 DEF RunEnds
<1> QED BY <1>2, <1>3 DEF RunResult

\* The same of the end of the loop, whether the pipeline is started or not.
LEMMA LoopEndsMoves ==
  ASSUME CursorsTyped, Followed,
         NEW j \in Jobs, AtWork(j), NEW k \in CursorRow, NEW got \in Nat, NEW caught \in BOOLEAN,
         k.last >= cursor[job[j].chain].last, LoopEnds(j, k, got, caught)
  PROVE  CursorAt(job[j].chain, k.last)
<1> DEFINE c == job[j].chain
<1>1. c \in Chains /\ (j # Admin => c = j) /\ job[j] \in JobRecord
  BY DEF Followed
<1>2. CASE RunResult(j, k, caught)
  BY <1>2, RunResultMoves
<1>3. CASE RunFallsShort(j, k)
  <2>1. RunResult(j, k, FALSE)
    BY <1>3 DEF RunResult
  <2> QED BY <2>1, RunResultMoves
<1>4. ASSUME NEW i \in FreeSlot,
             job' = [job EXCEPT ![j] = [Idle EXCEPT !.pc = "post", !.own = i,
                       !.chain = job[j].chain, !.base = job[j].base, !.caught = caught]],
             cursor' = [cursor EXCEPT ![c] = k]
      PROVE  CursorAt(c, k.last)
  <2> DEFINE task == [Idle EXCEPT !.pc = "post", !.own = i, !.chain = job[j].chain,
                                  !.base = job[j].base, !.caught = caught]
  <2>1. i \in Nat
    BY BoundsAssumption DEF FreeSlot
  <2>2. task \in JobRecord /\ task.pc = "post" /\ task.chain = c
    BY <1>1, <2>1 DEF Idle, JobRecord, Jobs, None
  <2>3. k.last >= cursor[c].last /\ job' = [job EXCEPT ![j] = task]
    BY <1>4
  <2> HIDE DEF task, c
  <2> QED BY <1>1, <1>4, <2>2, <2>3, TaskLeaves
<1> QED BY <1>2, <1>3, <1>4 DEF LoopEnds

-----------------------------------------------------------------------------
(* The rows.                                                               *)

\* A step that stores nothing and leaves every cursor where it is.
LEMMA NothingStored ==
  ASSUME IngestionInv, NEW c \in Chains, CursorAt(c, cursor[c].last),
         tip' \in [Chains -> Position], UNCHANGED <<raw, nextId>>
  PROVE  IngestionInv'
<1>1. \A d \in Chains : cursor'[d].last = cursor[d].last
  BY DEF CursorAt
<1>2. CursorsTyped' /\ Followed' /\ RowsTyped'
  BY DEF CursorAt, CursorsTyped, IngestionInv, RowsTyped
<1>3. RawComplete'
  BY <1>1 DEF IngestionInv, RawComplete, RawHeights
<1> QED BY <1>2, <1>3 DEF IngestionInv

\* The next height after the cursor is stored, or found stored.
LEMMA BlockStored ==
  ASSUME IngestionInv, NEW c \in Chains, NEW h \in Nat, h <= cursor[c].last + 1,
         IngestBlock(c, h), CursorAt(c, Stored(cursor[c], h).last), UNCHANGED tip
  PROVE  IngestionInv'
<1> DEFINE n == cursor[c].last
<1>1. n \in Position
  BY DEF IngestionInv, CursorsTyped, CursorRow
<1>2. CASE h <= n
  <2>1. Stored(cursor[c], h).last = n /\ raw' = raw /\ nextId' = nextId
    BY <1>2 DEF Stored, IngestBlock, AlreadyFinalized
  <2>2. tip' \in [Chains -> Position]
    BY DEF IngestionInv, CursorsTyped
  <2> QED BY <2>1, <2>2, NothingStored
<1>3. CASE ~(h <= n)
  <2>1. h = n + 1 /\ Stored(cursor[c], h).last = h
    BY <1>1, <1>3 DEF Stored, Position, Null
  <2>2. /\ cursor'[c].last = h
        /\ \A d \in Chains \ {c} : cursor'[d].last = cursor[d].last
        /\ CursorsTyped' /\ Followed'
    BY <2>1 DEF CursorAt, IngestionInv, CursorsTyped
  <2> DEFINE new == [chain |-> c, height |-> h, id |-> nextId]
  <2>3. \/ /\ raw' = raw /\ nextId' = nextId
           /\ \E r \in raw : r.chain = c /\ r.height = h
        \/ /\ raw' = raw \cup {new} /\ nextId' = nextId + 1
           /\ \A r \in raw : ~(r.chain = c /\ r.height = h)
    BY <1>3 DEF IngestBlock, AlreadyFinalized, RowsAt
  <2>4. new \in RawRow /\ new.chain = c /\ new.height = h /\ new.id = nextId
    BY DEF IngestionInv, RowsTyped, RawRow
  <2>5. /\ raw \subseteq RawRow /\ nextId \in Nat /\ \A r \in raw : r.id < nextId
        /\ \A d \in Chains :
             /\ 0 .. cursor[d].last \subseteq RawHeights(d)
             /\ \A g \in RawHeights(d) : 0 .. g \subseteq RawHeights(d)
        /\ \A r, s \in raw : r.chain = s.chain => (r.height < s.height <=> r.id < s.id)
    BY DEF IngestionInv, RowsTyped, RawComplete
  <2> HIDE DEF new
  <2>6. RowsTyped'
    BY <2>3, <2>4, <2>5 DEF RowsTyped, RawRow
  <2>7. /\ \A d \in Chains \ {c} : RawHeights(d)' = RawHeights(d)
        /\ RawHeights(c)' = RawHeights(c) \cup {h}
    BY <2>3, <2>4 DEF RawHeights
  <2>8. 0 .. h \subseteq RawHeights(c)'
    BY <1>1, <2>1, <2>5, <2>7 DEF Position, Null
  <2>9. ASSUME NEW d \in Chains
        PROVE  /\ 0 .. cursor'[d].last \subseteq RawHeights(d)'
               /\ \A g \in RawHeights(d)' : 0 .. g \subseteq RawHeights(d)'
    <3>1. CASE d = c
      BY <2>2, <2>5, <2>7, <2>8, <3>1
    <3>2. CASE d # c
      BY <2>2, <2>5, <2>7, <3>2
    <3> QED BY <3>1, <3>2
  <2>10. ASSUME NEW r \in raw', NEW s \in raw', r.chain = s.chain
         PROVE  r.height < s.height <=> r.id < s.id
    <3>1. CASE r \in raw /\ s \in raw
      BY <2>5, <2>10, <3>1
    <3>2. CASE raw' = raw \cup {new} /\ \A q \in raw : ~(q.chain = c /\ q.height = h)
      <4>1. ASSUME NEW q \in raw, q.chain = c
            PROVE  q.height \in Nat /\ q.height < h /\ q.id \in Nat /\ q.id < nextId
        <5>1. q.height \in Nat /\ q.id \in Nat /\ q.id < nextId
          BY <2>5 DEF RawRow
        <5>2. q.height \in RawHeights(c)
          BY <4>1 DEF RawHeights
        <5>3. h \notin RawHeights(c)
          BY <3>2 DEF RawHeights
        <5>4. h \notin 0 .. q.height
          BY <2>5, <5>2, <5>3
        <5> QED BY <5>1, <5>4
      <4>2. CASE r = new /\ s = new
        BY <2>4, <2>5, <4>2
      <4>3. CASE r = new /\ s \in raw
        BY <2>4, <2>5, <2>10, <4>1, <4>3
      <4>4. CASE r \in raw /\ s = new
        BY <2>4, <2>5, <2>10, <4>1, <4>4
      <4> QED BY <2>10, <3>1, <3>2, <4>2, <4>3, <4>4
    <3> QED BY <2>3, <2>10, <3>1, <3>2
  <2> QED BY <2>2, <2>6, <2>9, <2>10 DEF IngestionInv, RawComplete
<1> QED BY <1>2, <1>3

-----------------------------------------------------------------------------
(* The actions.                                                            *)

LEMMA InitIngestion == Init => IngestionInv
<1> SUFFICES ASSUME Init PROVE IngestionInv
  OBVIOUS
<1>1. CursorsTyped
  BY DEF Init, CursorsTyped, CursorRow, Position
<1>2. Followed
  BY IdleRecord DEF Init, Followed, AtWork
<1>3. RowsTyped /\ RawComplete
  BY DEF Init, RowsTyped, RawComplete, RawHeights, Null
<1> QED BY <1>1, <1>2, <1>3 DEF IngestionInv

\* An answered fetch.
LEMMA BlockFetchedKeeps ==
  ASSUME IngestionInv, NEW j \in Jobs, BlockFetched(j)
  PROVE  IngestionInv'
<1> DEFINE c == job[j].chain
           h == job[j].base + 1
           k == Stored(cursor[c], h)
<1>1. CursorsTyped /\ Followed /\ job[j] \in JobRecord /\ AtWork(j)
  BY DEF IngestionInv, Followed, BlockFetched, AtWork
<1>2. c \in Chains /\ (j # Admin => c = j) /\ job[j].base <= cursor[c].last
  BY <1>1 DEF Followed, BlockFetched
<1>3. cursor[c] \in CursorRow /\ h \in Nat /\ h <= cursor[c].last + 1
  BY <1>1, <1>2 DEF CursorsTyped, JobRecord, CursorRow, Position, Null
<1>4. k \in CursorRow /\ k.last >= cursor[c].last
  BY <1>3 DEF Stored, CursorRow, Position, Null
<1>5. IngestBlock(c, h) /\ UNCHANGED tip
  BY DEF BlockFetched
<1>6. job[j].got + 1 \in Nat
  BY <1>1 DEF JobRecord
<1>7. \/ Fetch(j, c, k, job[j].got + 1)
      \/ LoopEnds(j, k, job[j].got + 1, FALSE)
  BY DEF BlockFetched
<1>8. CursorAt(c, k.last)
  <2> HIDE DEF k
  <2>1. CASE Fetch(j, c, k, job[j].got + 1)
    BY <1>1, <1>2, <1>4, <1>6, <2>1, FetchMoves
  <2>2. CASE LoopEnds(j, k, job[j].got + 1, FALSE)
    BY <1>1, <1>4, <1>6, <2>2, LoopEndsMoves
  <2> QED BY <1>7, <2>1, <2>2
<1> QED BY <1>2, <1>3, <1>5, <1>8, BlockStored

\* The other ends of a run: they store nothing.
LEMMA RunsKeep ==
  ASSUME IngestionInv, NEW j \in Jobs,
         \/ BlockNotAvailable(j) \/ IngestFails(j) \/ PipelineAwaited(j)
         \/ PipelineTimesOut(j) \/ \E body \in Bodies : ReplayConflicts(j, body)
         \/ j \in Chains /\ TaskTimesOut(j)
  PROVE  IngestionInv'
<1> DEFINE c == job[j].chain
<1>1. CursorsTyped /\ Followed /\ job[j] \in JobRecord
  BY DEF IngestionInv, Followed
<1>2. AtWork(j) /\ UNCHANGED <<tip, raw, nextId>>
  BY DEF BlockNotAvailable, IngestFails, PipelineAwaited, PipelineTimesOut, ReplayConflicts,
         TaskTimesOut, AtWork
<1>3. c \in Chains /\ (j # Admin => c = j) /\ cursor[c] \in CursorRow
  BY <1>1, <1>2 DEF Followed, CursorsTyped
<1>4. /\ Failure(cursor[c]) \in CursorRow /\ Failure(cursor[c]).last = cursor[c].last
      /\ cursor[c].last >= cursor[c].last
  BY <1>3 DEF Failure, CursorRow, Position, Null
<1>5. CursorAt(c, cursor[c].last)
  <2>1. CASE BlockNotAvailable(j)
    <3>1. LoopEnds(j, cursor[c], job[j].got, TRUE) /\ job[j].got \in Nat
      BY <1>1, <2>1 DEF BlockNotAvailable, JobRecord
    <3> QED BY <1>1, <1>2, <1>3, <1>4, <3>1, LoopEndsMoves
  <2>2. CASE RunFallsShort(j, Failure(cursor[c]))
    <3>1. RunResult(j, Failure(cursor[c]), FALSE)
      BY <2>2 DEF RunResult
    <3> QED BY <1>1, <1>2, <1>4, <3>1, RunResultMoves
  <2>3. CASE RunFallsShort(j, cursor[c])
    <3>1. RunResult(j, cursor[c], FALSE)
      BY <2>3 DEF RunResult
    <3> QED BY <1>1, <1>2, <1>3, <1>4, <3>1, RunResultMoves
  <2>4. CASE RunEnds(j, cursor[c])
    <3>1. RunResult(j, cursor[c], TRUE)
      BY <2>4 DEF RunResult
    <3> QED BY <1>1, <1>2, <1>3, <1>4, <3>1, RunResultMoves
  <2>5. CASE PipelineAwaited(j)
    <3>1. PICK caught : RunResult(j, cursor[c], caught)
      BY <2>5 DEF PipelineAwaited
    <3> QED BY <1>1, <1>2, <1>3, <1>4, <3>1, RunResultMoves
  <2>6. CASE j \in Chains /\ TaskTimesOut(j)
    <3>1. RunEnds(j, cursor[j]) /\ c = j
      BY <1>3, <2>6, ChainsAssumption DEF TaskTimesOut
    <3> QED BY <2>4, <3>1
  <2> QED BY <2>1, <2>2, <2>3, <2>5, <2>6
          DEF IngestFails, PipelineTimesOut, ReplayConflicts
<1>6. tip' \in [Chains -> Position]
  BY <1>1, <1>2 DEF CursorsTyped
<1> QED BY <1>2, <1>3, <1>5, <1>6, NothingStored

\* What starts a run.
LEMMA StartsKeep ==
  ASSUME IngestionInv, NEW c \in Chains,
         Retry(c) \/ WorkerStarts(c) \/ AdminCatchUp(c)
  PROVE  IngestionInv'
<1>1. CursorsTyped /\ Followed /\ cursor[c] \in CursorRow
  BY DEF IngestionInv, CursorsTyped
<1>2. /\ \E j \in {c, Admin} : Fetch(j, c, cursor[c], 0)
      /\ UNCHANGED <<tip, raw, nextId>>
  BY DEF Retry, WorkerStarts, AdminCatchUp
<1>3. cursor[c].last >= cursor[c].last
  BY <1>1 DEF CursorRow, Position, Null
<1>4. CursorAt(c, cursor[c].last)
  <2>1. PICK j \in {c, Admin} : Fetch(j, c, cursor[c], 0)
    BY <1>2
  <2>2. j \in Jobs /\ (j # Admin => c = j)
    BY <2>1 DEF Jobs
  <2> QED BY <1>1, <1>3, <2>1, <2>2, FetchMoves
<1>5. tip' \in [Chains -> Position]
  BY <1>1, <1>2 DEF CursorsTyped
<1> QED BY <1>2, <1>4, <1>5, NothingStored

\* A notification only wakes an idle task.
LEMMA NotificationKeeps ==
  ASSUME IngestionInv, NEW c \in Chains, NEW found, ChainNotification(c, found)
  PROVE  IngestionInv'
<1>1. CursorsTyped /\ Followed /\ c \in Jobs
  BY DEF IngestionInv, Jobs
<1>2. /\ job' = [job EXCEPT ![c].pc = IF @ = "idle" THEN "ready" ELSE @]
      /\ UNCHANGED <<tip, cursor, raw, nextId>>
  BY DEF ChainNotification, dbVars
<1>3. job[c] \in JobRecord
  BY <1>1 DEF Followed
<1> DEFINE task == [job[c] EXCEPT !.pc = IF job[c].pc = "idle" THEN "ready" ELSE job[c].pc]
<1>4. /\ task \in JobRecord
      /\ task.pc = IF job[c].pc = "idle" THEN "ready" ELSE job[c].pc
      /\ task.chain = job[c].chain /\ task.base = job[c].base
  BY <1>3 DEF JobRecord
<1>5. job' = [job EXCEPT ![c] = task]
  BY <1>1, <1>2 DEF Followed
<1> HIDE DEF task
<1>6. /\ job' \in [Jobs -> JobRecord] /\ job'[c] = task
      /\ \A i \in Jobs \ {c} : job'[i] = job[i]
  BY <1>1, <1>4, <1>5 DEF Followed
<1>7. ASSUME NEW i \in Jobs, AtWork(i)'
      PROVE  /\ AtWork(i) /\ job'[i].pc = job[i].pc
             /\ job'[i].chain = job[i].chain /\ job'[i].base = job[i].base
  BY <1>4, <1>6, <1>7 DEF AtWork
<1>8. Followed'
  BY <1>1, <1>2, <1>6, <1>7 DEF Followed, AtWork
<1>9. CursorAt(c, cursor[c].last) /\ tip' \in [Chains -> Position]
  BY <1>1, <1>2, <1>8 DEF CursorAt, CursorsTyped
<1> QED BY <1>2, <1>9, NothingStored

\* The process stops, and an operator may set a cursor back.
LEMMA StopKeeps ==
  ASSUME IngestionInv, Restart \/ \E c \in Chains : \E h \in Null .. Top[c] : RewindCursor(c, h)
  PROVE  IngestionInv'
<1>1. CursorsTyped /\ RowsTyped /\ RawComplete
  BY DEF IngestionInv
<1>2. /\ job' = [j \in Jobs |-> Idle] /\ tip' = tip /\ raw' = raw /\ nextId' = nextId
  BY DEF Restart, RewindCursor, Stop
<1>3. Followed'
  BY <1>2, IdleRecord DEF Followed, AtWork
<1>4. CursorsTyped' /\ \A d \in Chains : cursor'[d].last <= cursor[d].last
  <2>1. CASE Restart
    BY <1>1, <1>2, <2>1 DEF Restart, CursorsTyped, CursorRow, Position, Null
  <2>2. ASSUME NEW c \in Chains, NEW h \in Null .. Top[c], RewindCursor(c, h)
        PROVE  CursorsTyped' /\ \A d \in Chains : cursor'[d].last <= cursor[d].last
    <3>1. cursor' = [cursor EXCEPT ![c].last = h] /\ h < cursor[c].last
      BY <2>2 DEF RewindCursor
    <3>2. h \in Position
      BY BoundsAssumption DEF Position, Null
    <3>3. [cursor[c] EXCEPT !.last = h] \in CursorRow /\ [cursor[c] EXCEPT !.last = h].last = h
      BY <1>1, <3>2 DEF CursorsTyped, CursorRow
    <3>4. /\ cursor' \in [Chains -> CursorRow] /\ cursor'[c].last = h
          /\ \A d \in Chains \ {c} : cursor'[d] = cursor[d]
      BY <1>1, <3>1, <3>3 DEF CursorsTyped
    <3> QED BY <1>1, <1>2, <3>1, <3>2, <3>4 DEF CursorsTyped, CursorRow, Position, Null
  <2> QED BY <2>1, <2>2
<1>5. \A d \in Chains : 0 .. cursor'[d].last \subseteq 0 .. cursor[d].last
  BY <1>1, <1>4 DEF CursorsTyped, CursorRow, Position, Null
<1>6. RowsTyped' /\ RawComplete'
  BY <1>1, <1>2, <1>5 DEF RowsTyped, RawComplete, RawHeights
<1> QED BY <1>3, <1>4, <1>6 DEF IngestionInv

\* Steps of the pipeline threads and of the network.
LEMMA OthersKeep ==
  ASSUME IngestionInv,
         \/ \E i \in Slots : PipelineRuns(i) \/ PipelineFails(i)
         \/ \E c \in Chains : BlockFinalized(c)
         \/ UNCHANGED vars
  PROVE  IngestionInv'
<1>1. UNCHANGED <<cursor, raw, nextId, job>>
  BY DEF PipelineRuns, PipelineFails, BlockFinalized, dbVars, loopVars, vars
<1>2. tip' \in [Chains -> Position]
  <2>1. CASE tip' = tip
    BY <2>1 DEF IngestionInv, CursorsTyped
  <2>2. ASSUME NEW c \in Chains, tip' = [tip EXCEPT ![c] = @ + 1]
        PROVE  tip' \in [Chains -> Position]
    BY <2>2 DEF IngestionInv, CursorsTyped, Position, Null
  <2> QED BY <2>1, <2>2 DEF PipelineRuns, PipelineFails, BlockFinalized, vars
<1> QED BY <1>1, <1>2
        DEF IngestionInv, CursorsTyped, Followed, AtWork, RowsTyped, RawComplete, RawHeights

-----------------------------------------------------------------------------
LEMMA IngestionStep ==
  ASSUME IngestionInv, [Next]_vars
  PROVE  IngestionInv'
<1>1. ASSUME NEW j \in Jobs, BlockFetched(j) PROVE IngestionInv'
  BY <1>1, BlockFetchedKeeps
<1>2. ASSUME NEW j \in Jobs,
             \/ BlockNotAvailable(j) \/ IngestFails(j) \/ PipelineAwaited(j)
             \/ PipelineTimesOut(j) \/ \E body \in Bodies : ReplayConflicts(j, body)
             \/ j \in Chains /\ TaskTimesOut(j)
      PROVE  IngestionInv'
  BY <1>2, RunsKeep
<1>3. ASSUME NEW c \in Chains, Retry(c) \/ WorkerStarts(c) \/ AdminCatchUp(c)
      PROVE  IngestionInv'
  BY <1>3, StartsKeep
<1>4. ASSUME NEW c \in Chains, NEW found, ChainNotification(c, found) PROVE IngestionInv'
  BY <1>4, NotificationKeeps
<1>5. CASE Restart \/ \E c \in Chains : \E h \in Null .. Top[c] : RewindCursor(c, h)
  BY <1>5, StopKeeps
<1>6. CASE \/ \E i \in Slots : PipelineRuns(i) \/ PipelineFails(i)
           \/ \E c \in Chains : BlockFinalized(c)
           \/ UNCHANGED vars
  BY <1>6, OthersKeep
<1>7. Chains \subseteq Jobs
  BY DEF Jobs
<1> QED BY <1>1, <1>2, <1>3, <1>4, <1>5, <1>6, <1>7 DEF Next

\* The inductive invariant of the ingestion.
THEOREM IngestionInvariant == Spec => []IngestionInv
<1>1. Init => IngestionInv
  BY InitIngestion
<1>2. IngestionInv /\ [Next]_vars => IngestionInv'
  BY IngestionStep
<1> QED BY <1>1, <1>2, PTL DEF Spec

\* No height of a chain is skipped and the rows follow the heights, however
\* many tasks fetch at once, fail, time out or start again.
THEOREM RawCompleteSound == Spec => []RawComplete
<1>1. IngestionInv => RawComplete
  BY DEF IngestionInv
<1> QED BY <1>1, IngestionInvariant, PTL

-----------------------------------------------------------------------------
(* Notifications.  The number counted while a task is busy is what tells   *)
(* it, at the end of a run that caught up, whether the tip it saw at its   *)
(* last fetch was the newest it was told of.                               *)

\* A task that may rest, or will if nothing more is counted, has stored
\* what its chain was notified of.
Answered(c) ==
  (\/ job[c].pc = "idle" /\ ~gaveUp[c]
   \/ /\ pending[c] = 0
      /\ \/ job[c].pc = "fetch" /\ ~job[c].behind
         \/ job[c].pc = "post" /\ job[c].caught)
  => heard[c] <= cursor[c].last

NoticesTyped ==
  /\ heard \in [Chains -> Position] /\ pending \in [Chains -> Nat]
  /\ gaveUp \in [Chains -> BOOLEAN]
  /\ \A c \in Chains : heard[c] <= tip[c]

WakeInv == IngestionInv /\ NoticesTyped /\ \A c \in Chains : Answered(c)

\* What a step of one task leaves to the others.
StepOf(j) ==
  /\ \A d \in Chains : cursor'[d].last >= cursor[d].last
  /\ \A d \in Chains \ {j} : job'[d] = job[d] /\ pending'[d] = pending[d]
  /\ pending' \in [Chains -> Nat]
  /\ j \in Chains => Answered(j)'

\* The cursors of a state that satisfies the invariant are integers.
LEMMA CursorsInt ==
  ASSUME IngestionInv, NEW c \in Chains
  PROVE  cursor[c] \in CursorRow /\ cursor[c].last \in Int /\ tip[c] \in Int
BY DEF IngestionInv, CursorsTyped, CursorRow, Position, Null

\* A chain whose task does not move keeps what it had stored.
LEMMA UnmovedAnswered ==
  ASSUME WakeInv, IngestionInv', NEW c \in Chains,
         job'[c] = job[c], pending'[c] = pending[c], heard'[c] = heard[c],
         gaveUp'[c] = gaveUp[c], cursor'[c].last >= cursor[c].last
  PROVE  Answered(c)'
<1>1. cursor[c].last \in Int /\ cursor'[c].last \in Int /\ heard[c] \in Int
  BY CursorsInt DEF WakeInv, NoticesTyped, IngestionInv, CursorsTyped, CursorRow, Position, Null
<1>2. Answered(c)
  BY DEF WakeInv
<1> QED BY <1>1, <1>2 DEF Answered

LEMMA StepAnswers ==
  ASSUME WakeInv, IngestionInv', NEW j \in Jobs, StepOf(j), UNCHANGED <<tip, heard>>,
         gaveUp' \in [Chains -> BOOLEAN], \A c \in Chains \ {j} : gaveUp'[c] = gaveUp[c]
  PROVE  WakeInv'
<1>1. NoticesTyped'
  BY DEF WakeInv, NoticesTyped, StepOf
<1>2. ASSUME NEW c \in Chains PROVE Answered(c)'
  <2>1. CASE c = j
    BY <2>1 DEF StepOf
  <2>2. CASE c # j
    BY <2>2, UnmovedAnswered DEF StepOf
  <2> QED BY <2>1, <2>2
<1> QED BY <1>1, <1>2 DEF WakeInv

\* The tip is compared with the cursor at the fetch, after all notices.
LEMMA FetchAnswers ==
  ASSUME WakeInv, NEW j \in Jobs, NEW c \in Chains, NEW k \in CursorRow, NEW got,
         j # Admin => c = j, k.last >= cursor[c].last, Fetch(j, c, k, got), heard' = heard,
         pending' = pending \/ (j \in Chains /\ pending' = [pending EXCEPT ![j] = 0])
  PROVE  StepOf(j)
<1>1. Attempt(k) \in CursorRow /\ Attempt(k).last = k.last
  BY DEF Attempt, CursorRow
<1>2. /\ cursor'[c].last = k.last
      /\ \A d \in Chains \ {c} : cursor'[d] = cursor[d]
  BY <1>1 DEF Fetch, WakeInv, IngestionInv, CursorsTyped
<1>3. \A d \in Chains : cursor'[d].last >= cursor[d].last
  BY <1>2, CursorsInt DEF WakeInv
<1>4. /\ \A d \in Chains \ {j} : job'[d] = job[d] /\ pending'[d] = pending[d]
      /\ pending' \in [Chains -> Nat]
  BY DEF Fetch, WakeInv, NoticesTyped, IngestionInv, Followed, Jobs
<1>5. ASSUME j \in Chains PROVE Answered(j)'
  <2>1. c = j
    BY <1>5, ChainsAssumption
  <2>2. job'[j].pc = "fetch" /\ (~job'[j].behind => ~(k.last < tip[j]))
    BY <2>1 DEF Fetch, WakeInv, IngestionInv, Followed
  <2>3. heard[j] <= tip[j] /\ heard[j] \in Int /\ tip[j] \in Int /\ k.last \in Int
    BY <1>5 DEF WakeInv, NoticesTyped, IngestionInv, CursorsTyped, CursorRow, Position, Null
  <2>4. ~job'[j].behind => heard[j] <= cursor'[j].last
    BY <1>2, <2>1, <2>2, <2>3
  <2> QED BY <2>2, <2>4 DEF Answered
<1> QED BY <1>3, <1>4, <1>5 DEF StepOf

\* A task that leaves its run for another stage.
LEMMA LeaveAnswers ==
  ASSUME WakeInv, NEW j \in Jobs, NEW c \in Chains, NEW k \in CursorRow, NEW task \in JobRecord,
         j # Admin => c = j, k.last >= cursor[c].last,
         cursor' = [cursor EXCEPT ![c] = k], job' = [job EXCEPT ![j] = task],
         UNCHANGED <<heard, pending>>, task.pc # "fetch",
         j \in Chains => \/ task.pc \notin {"idle", "post"}
                         \/ task.pc = "idle" /\ gaveUp'[j]
                         \/ task.pc = "post" /\ ~(task.caught /\ pending[j] = 0)
                         \/ heard[j] <= k.last
  PROVE  StepOf(j)
<1>1. /\ cursor'[c].last = k.last
      /\ \A d \in Chains \ {c} : cursor'[d] = cursor[d]
  BY DEF WakeInv, IngestionInv, CursorsTyped
<1>2. \A d \in Chains : cursor'[d].last >= cursor[d].last
  BY <1>1, CursorsInt DEF WakeInv
<1>3. /\ \A d \in Chains \ {j} : job'[d] = job[d] /\ pending'[d] = pending[d]
      /\ pending' \in [Chains -> Nat] /\ job'[j] = task
  BY DEF WakeInv, NoticesTyped, IngestionInv, Followed, Jobs
<1>4. ASSUME j \in Chains PROVE Answered(j)'
  <2>1. c = j
    BY <1>4, ChainsAssumption
  <2> QED BY <1>1, <1>3, <1>4, <2>1 DEF Answered
<1> QED BY <1>2, <1>3, <1>4 DEF StepOf

LEMMA RunAnswers ==
  ASSUME WakeInv, NEW j \in Jobs, AtWork(j), NEW k \in CursorRow, NEW caught,
         k.last >= cursor[job[j].chain].last, RunResult(j, k, caught), heard' = heard,
         j \in Chains /\ caught /\ pending[j] = 0 => gaveUp'[j] \/ heard[j] <= k.last
  PROVE  StepOf(j)
<1> DEFINE c == job[j].chain
<1>1. c \in Chains /\ (j # Admin => c = j)
  BY DEF WakeInv, IngestionInv, Followed
<1>2. CASE RunFallsShort(j, k)
  <2> DEFINE task == IF j = Admin THEN Idle ELSE [Idle EXCEPT !.pc = "sleep", !.chain = j]
  <2>1. task \in JobRecord /\ task.pc # "fetch" /\ (j # Admin => task.pc = "sleep")
    BY DEF Idle, JobRecord, Jobs, None, Position
  <2>2. /\ cursor' = [cursor EXCEPT ![c] = k] /\ job' = [job EXCEPT ![j] = task]
        /\ pending' = pending
    BY <1>2 DEF RunFallsShort
  <2>3. j \in Chains => task.pc \notin {"idle", "post"}
    BY <2>1, ChainsAssumption
  <2> HIDE DEF task
  <2> QED BY <1>1, <2>1, <2>2, <2>3, LeaveAnswers
<1>3. CASE caught /\ RunEnds(j, k)
  <2>1. CASE j # Admin /\ pending' = [pending EXCEPT ![j] = 0] /\ Fetch(j, j, k, 0)
    <3>1. j \in Chains /\ c = j
      BY <1>1, <2>1
    <3> QED BY <2>1, <3>1, FetchAnswers
  <2>2. CASE /\ j # Admin => pending[j] = 0
             /\ job' = [job EXCEPT ![j] = Idle] /\ cursor' = [cursor EXCEPT ![c] = k]
             /\ pending' = pending
    <3>1. j \in Chains => gaveUp'[j] \/ heard[j] <= k.last
      BY <1>3, <2>2, ChainsAssumption
    <3> QED BY <1>1, <2>2, <3>1, IdleRecord, LeaveAnswers
  <2> QED BY <1>3, <2>1, <2>2 DEF RunEnds
<1> QED BY <1>2, <1>3 DEF RunResult

LEMMA LoopAnswers ==
  ASSUME WakeInv, NEW j \in Jobs, AtWork(j), NEW k \in CursorRow, NEW got,
         NEW caught \in BOOLEAN,
         k.last >= cursor[job[j].chain].last, LoopEnds(j, k, got, caught), heard' = heard,
         j \in Chains /\ caught /\ pending[j] = 0 => heard[j] <= k.last
  PROVE  StepOf(j)
<1> DEFINE c == job[j].chain
<1>1. c \in Chains /\ (j # Admin => c = j) /\ job[j] \in JobRecord
  BY DEF WakeInv, IngestionInv, Followed
<1>2. CASE RunResult(j, k, caught)
  BY <1>2, RunAnswers
<1>3. CASE RunFallsShort(j, k)
  <2>1. RunResult(j, k, FALSE)
    BY <1>3 DEF RunResult
  <2> QED BY <2>1, RunAnswers
<1>4. ASSUME NEW i \in FreeSlot,
             job' = [job EXCEPT ![j] = [Idle EXCEPT !.pc = "post", !.own = i,
                       !.chain = job[j].chain, !.base = job[j].base, !.caught = caught]],
             cursor' = [cursor EXCEPT ![c] = k], pending' = pending
      PROVE  StepOf(j)
  <2> DEFINE task == [Idle EXCEPT !.pc = "post", !.own = i, !.chain = job[j].chain,
                                  !.base = job[j].base, !.caught = caught]
  <2>1. i \in Nat
    BY BoundsAssumption DEF FreeSlot
  <2>2. task \in JobRecord /\ task.pc = "post" /\ task.caught = caught
    BY <1>1, <2>1 DEF Idle, JobRecord, Jobs, None
  <2>3. k.last >= cursor[c].last /\ job' = [job EXCEPT ![j] = task]
    BY <1>4
  <2> HIDE DEF task, c
  <2>4. j \in Chains => \/ task.pc = "post" /\ ~(task.caught /\ pending[j] = 0)
                        \/ heard[j] <= k.last
    BY <2>2
  <2>5. UNCHANGED <<heard, pending>> /\ task.pc # "fetch"
    BY <1>4, <2>2
  <2> QED BY <1>1, <1>4, <2>2, <2>3, <2>4, <2>5, LeaveAnswers
<1> QED BY <1>2, <1>3, <1>4 DEF LoopEnds

\* An answered fetch: the run goes on, or ends without having caught up.
LEMMA BlockFetchedAnswers ==
  ASSUME WakeInv, IngestionInv', NEW j \in Jobs, BlockFetched(j)
  PROVE  WakeInv'
<1> DEFINE c == job[j].chain
           h == job[j].base + 1
           k == Stored(cursor[c], h)
<1>1. c \in Chains /\ (j # Admin => c = j) /\ AtWork(j) /\ job[j] \in JobRecord
  BY DEF WakeInv, IngestionInv, Followed, BlockFetched, AtWork
<1>2. cursor[c] \in CursorRow /\ h \in Nat
  BY <1>1 DEF WakeInv, IngestionInv, CursorsTyped, BlockFetched, JobRecord, Position, Null
<1>3. k \in CursorRow /\ k.last >= cursor[c].last
  BY <1>2 DEF Stored, CursorRow, Position, Null
<1>4. \/ Fetch(j, c, k, job[j].got + 1) /\ pending' = pending
      \/ LoopEnds(j, k, job[j].got + 1, FALSE)
  BY DEF BlockFetched
<1>5. UNCHANGED <<tip, heard, gaveUp>>
  BY DEF BlockFetched
<1>6. StepOf(j)
  <2> HIDE DEF k
  <2>1. CASE Fetch(j, c, k, job[j].got + 1) /\ pending' = pending
    BY <1>1, <1>3, <1>5, <2>1, FetchAnswers
  <2>2. CASE LoopEnds(j, k, job[j].got + 1, FALSE)
    BY <1>1, <1>3, <1>5, <2>2, LoopAnswers
  <2> QED BY <1>4, <2>1, <2>2
<1> QED BY <1>5, <1>6, StepAnswers DEF WakeInv, NoticesTyped

\* The other ends of a run.  One that caught up saw the tip.
LEMMA RunsAnswer ==
  ASSUME WakeInv, IngestionInv', NEW j \in Jobs,
         \/ BlockNotAvailable(j) \/ IngestFails(j) \/ PipelineAwaited(j)
         \/ PipelineTimesOut(j) \/ \E body \in Bodies : ReplayConflicts(j, body)
         \/ j \in Chains /\ TaskTimesOut(j)
  PROVE  WakeInv'
<1> DEFINE c == job[j].chain
<1>1. AtWork(j) /\ UNCHANGED <<tip, heard>>
  BY DEF BlockNotAvailable, IngestFails, PipelineAwaited, PipelineTimesOut, ReplayConflicts,
         TaskTimesOut, AtWork
<1>2. /\ c \in Chains /\ (j # Admin => c = j) /\ cursor[c] \in CursorRow
      /\ job[j] \in JobRecord /\ cursor[c].last \in Int
  BY <1>1, CursorsInt DEF WakeInv, IngestionInv, Followed
<1>3. /\ Failure(cursor[c]) \in CursorRow /\ Failure(cursor[c]).last = cursor[c].last
      /\ cursor[c].last >= cursor[c].last
  BY <1>2 DEF Failure, CursorRow
<1>4. j \in Chains => c = j /\ Answered(j)
  BY <1>2, ChainsAssumption DEF WakeInv
<1>5. gaveUp' \in [Chains -> BOOLEAN] /\ \A d \in Chains \ {j} : gaveUp'[d] = gaveUp[d]
  BY DEF WakeInv, NoticesTyped, BlockNotAvailable, IngestFails, PipelineAwaited,
         PipelineTimesOut, ReplayConflicts, TaskTimesOut
<1>6. StepOf(j)
  <2>1. CASE BlockNotAvailable(j)
    <3>1. LoopEnds(j, cursor[c], job[j].got, TRUE)
      BY <2>1 DEF BlockNotAvailable
    <3>2. j \in Chains /\ pending[j] = 0 => heard[j] <= cursor[c].last
      BY <1>4, <2>1 DEF BlockNotAvailable, Answered
    <3> QED BY <1>1, <1>2, <1>3, <3>1, <3>2, LoopAnswers
  <2>2. CASE RunFallsShort(j, Failure(cursor[c]))
    <3>1. RunResult(j, Failure(cursor[c]), FALSE)
      BY <2>2 DEF RunResult
    <3> QED BY <1>1, <1>3, <3>1, RunAnswers
  <2>3. CASE RunFallsShort(j, cursor[c])
    <3>1. RunResult(j, cursor[c], FALSE)
      BY <2>3 DEF RunResult
    <3> QED BY <1>1, <1>2, <1>3, <3>1, RunAnswers
  <2>4. CASE PipelineAwaited(j)
    <3> DEFINE caught == job[j].caught /\ thread[job[j].own] = "caughtUp"
    <3>1. RunResult(j, cursor[c], caught)
      BY <2>4 DEF PipelineAwaited
    <3>2. j \in Chains /\ caught /\ pending[j] = 0 => heard[j] <= cursor[c].last
      BY <1>4, <2>4 DEF PipelineAwaited, Answered
    <3> HIDE DEF caught
    <3> QED BY <1>1, <1>2, <1>3, <3>1, <3>2, RunAnswers
  <2>5. CASE j \in Chains /\ TaskTimesOut(j)
    <3>1. RunResult(j, cursor[c], TRUE)
      BY <1>4, <2>5 DEF TaskTimesOut, RunResult
    <3>2. pending[j] = 0 => gaveUp'[j]
      BY <2>5 DEF TaskTimesOut, WakeInv, NoticesTyped
    <3> QED BY <1>1, <1>2, <1>3, <3>1, <3>2, RunAnswers
  <2> QED BY <2>1, <2>2, <2>3, <2>4, <2>5
          DEF IngestFails, PipelineTimesOut, ReplayConflicts
<1> QED BY <1>1, <1>5, <1>6, StepAnswers

\* What starts a run.
LEMMA StartsAnswer ==
  ASSUME WakeInv, IngestionInv', NEW c \in Chains,
         Retry(c) \/ WorkerStarts(c) \/ AdminCatchUp(c)
  PROVE  WakeInv'
<1>1. cursor[c] \in CursorRow /\ cursor[c].last >= cursor[c].last
  BY CursorsInt DEF WakeInv
<1>2. UNCHANGED <<tip, heard, gaveUp>> /\ c \in Jobs /\ Admin \in Jobs
  BY DEF Retry, WorkerStarts, AdminCatchUp, Jobs
<1>3. CASE Retry(c) \/ WorkerStarts(c)
  <2>1. Fetch(c, c, cursor[c], 0) /\ pending' = [pending EXCEPT ![c] = 0]
    BY <1>3 DEF Retry, WorkerStarts
  <2>2. StepOf(c)
    BY <1>1, <1>2, <2>1, FetchAnswers
  <2> QED BY <1>2, <2>2, StepAnswers DEF WakeInv, NoticesTyped
<1>4. CASE AdminCatchUp(c)
  <2>1. Fetch(Admin, c, cursor[c], 0) /\ pending' = pending
    BY <1>4 DEF AdminCatchUp
  <2>2. StepOf(Admin)
    BY <1>1, <1>2, <2>1, FetchAnswers
  <2> QED BY <1>2, <2>2, StepAnswers DEF WakeInv, NoticesTyped
<1> QED BY <1>3, <1>4

\* A notice is counted, and wakes the task that rests.
LEMMA NotificationAnswers ==
  ASSUME WakeInv, IngestionInv', NEW c \in Chains, NEW found, ChainNotification(c, found)
  PROVE  WakeInv'
<1>1. /\ pending' = [pending EXCEPT ![c] = @ + 1]
      /\ job' = [job EXCEPT ![c].pc = IF @ = "idle" THEN "ready" ELSE @]
      /\ heard' = [heard EXCEPT ![c] = tip[c]]
      /\ gaveUp' = [gaveUp EXCEPT ![c] = FALSE]
      /\ UNCHANGED <<tip, cursor>>
  BY DEF ChainNotification, dbVars
<1>2. job \in [Jobs -> JobRecord] /\ c \in Jobs /\ \A d \in Chains : d \in Jobs
  BY DEF WakeInv, IngestionInv, Followed, Jobs
<1>3. job'[c].pc # "idle" /\ \A d \in Chains \ {c} : job'[d] = job[d]
  BY <1>1, <1>2 DEF JobRecord
<1>4. tip[c] \in Position /\ tip[c] \in Int
  BY CursorsInt DEF WakeInv, IngestionInv, CursorsTyped
<1>5. NoticesTyped'
  BY <1>1, <1>4 DEF WakeInv, NoticesTyped
<1>6. ASSUME NEW d \in Chains PROVE Answered(d)'
  <2>1. CASE d = c
    <3>1. pending'[c] # 0
      BY <1>1 DEF WakeInv, NoticesTyped
    <3> QED BY <1>3, <2>1, <3>1 DEF Answered
  <2>2. CASE d # c
    <3>1. /\ pending'[d] = pending[d] /\ heard'[d] = heard[d] /\ gaveUp'[d] = gaveUp[d]
          /\ cursor'[d].last >= cursor[d].last
      BY <1>1, <2>2, CursorsInt DEF WakeInv, NoticesTyped
    <3> QED BY <1>3, <2>2, <3>1, UnmovedAnswered
  <2> QED BY <2>1, <2>2
<1> QED BY <1>5, <1>6 DEF WakeInv

\* The process stops: nobody was notified.
LEMMA StopAnswers ==
  ASSUME WakeInv, IngestionInv', Restart \/ \E c \in Chains : \E h \in Null .. Top[c] : RewindCursor(c, h)
  PROVE  WakeInv'
<1>1. /\ pending' = [c \in Chains |-> 0] /\ heard' = [c \in Chains |-> Null]
      /\ gaveUp' = [c \in Chains |-> FALSE]
  BY DEF Restart, RewindCursor, Stop
<1>2. \A c \in Chains : /\ cursor'[c].last \in Position
                        /\ tip'[c] \in Position /\ heard'[c] = Null
  BY <1>1 DEF IngestionInv, CursorsTyped, CursorRow
<1>3. NoticesTyped'
  BY <1>1, <1>2 DEF NoticesTyped, Position, Null
<1>4. \A c \in Chains : Answered(c)'
  BY <1>2 DEF Answered, Position, Null
<1> QED BY <1>3, <1>4 DEF WakeInv

LEMMA OthersAnswer ==
  ASSUME WakeInv, IngestionInv',
         \/ \E i \in Slots : PipelineRuns(i) \/ PipelineFails(i)
         \/ \E c \in Chains : BlockFinalized(c)
         \/ UNCHANGED vars
  PROVE  WakeInv'
<1>1. UNCHANGED <<cursor, job, pending, heard, gaveUp>>
  BY DEF PipelineRuns, PipelineFails, BlockFinalized, dbVars, loopVars, vars
<1>2. \A c \in Chains : tip'[c] >= tip[c]
  <2>1. CASE tip' = tip
    BY <2>1, CursorsInt DEF WakeInv
  <2>2. ASSUME NEW c \in Chains, tip' = [tip EXCEPT ![c] = @ + 1]
        PROVE  \A d \in Chains : tip'[d] >= tip[d]
    BY <2>2, CursorsInt DEF WakeInv, IngestionInv, CursorsTyped
  <2> QED BY <2>1, <2>2 DEF PipelineRuns, PipelineFails, BlockFinalized, vars
<1>3. NoticesTyped'
  <2>1. \A c \in Chains : tip[c] \in Int /\ tip'[c] \in Int /\ heard[c] \in Int /\ heard[c] <= tip[c]
    BY DEF WakeInv, NoticesTyped, IngestionInv, CursorsTyped, Position, Null
  <2>2. \A c \in Chains : heard[c] <= tip'[c]
    BY <1>2, <2>1
  <2> QED BY <1>1, <2>2 DEF WakeInv, NoticesTyped
<1> QED BY <1>1, <1>3 DEF WakeInv, Answered

LEMMA InitAnswered == Init => WakeInv
<1> SUFFICES ASSUME Init PROVE WakeInv
  OBVIOUS
<1>1. NoticesTyped
  BY DEF Init, NoticesTyped, Position, Null
<1>2. \A c \in Chains : Answered(c)
  BY DEF Init, Answered, Null
<1> QED BY <1>1, <1>2, InitIngestion DEF WakeInv

\* A notified block is stored or its chain's task at work, unless a timeout
\* ended the task, for any number of notices, chains and faults.
THEOREM WakeupKeptSound == Spec => []WakeupKept
<1>1. Init => WakeInv
  BY InitAnswered
<1>2. WakeInv /\ [Next]_vars => WakeInv'
  <2> SUFFICES ASSUME WakeInv, [Next]_vars PROVE WakeInv'
    OBVIOUS
  <2>1. IngestionInv'
    BY IngestionStep DEF WakeInv
  <2>2. ASSUME NEW j \in Jobs, BlockFetched(j) PROVE WakeInv'
    BY <2>1, <2>2, BlockFetchedAnswers
  <2>3. ASSUME NEW j \in Jobs,
               \/ BlockNotAvailable(j) \/ IngestFails(j) \/ PipelineAwaited(j)
               \/ PipelineTimesOut(j) \/ \E body \in Bodies : ReplayConflicts(j, body)
               \/ j \in Chains /\ TaskTimesOut(j)
        PROVE  WakeInv'
    BY <2>1, <2>3, RunsAnswer
  <2>4. ASSUME NEW c \in Chains, Retry(c) \/ WorkerStarts(c) \/ AdminCatchUp(c)
        PROVE  WakeInv'
    BY <2>1, <2>4, StartsAnswer
  <2>5. ASSUME NEW c \in Chains, NEW found, ChainNotification(c, found) PROVE WakeInv'
    BY <2>1, <2>5, NotificationAnswers
  <2>6. CASE Restart \/ \E c \in Chains : \E h \in Null .. Top[c] : RewindCursor(c, h)
    BY <2>1, <2>6, StopAnswers
  <2>7. CASE \/ \E i \in Slots : PipelineRuns(i) \/ PipelineFails(i)
             \/ \E c \in Chains : BlockFinalized(c)
             \/ UNCHANGED vars
    BY <2>1, <2>7, OthersAnswer
  <2>8. Chains \subseteq Jobs
    BY DEF Jobs
  <2> QED BY <2>2, <2>3, <2>4, <2>5, <2>6, <2>7, <2>8 DEF Next
<1>3. WakeInv => WakeupKept
  <2> SUFFICES ASSUME WakeInv, NEW c \in Chains, Lagging(c), job[c].pc = "idle" PROVE FALSE
    BY DEF WakeupKept
  <2>1. heard[c] <= cursor[c].last
    BY DEF WakeInv, Answered, Lagging
  <2>2. heard[c] \in Int /\ cursor[c].last \in Int
    BY CursorsInt DEF WakeInv, NoticesTyped, Position, Null
  <2> QED BY <2>1, <2>2 DEF Lagging
<1> QED BY <1>1, <1>2, <1>3, PTL DEF Spec

-----------------------------------------------------------------------------
(* Rest.  A pipeline that ends with less than a batch has taken every row, *)
(* so what its task had seen stored before is derived; and only the task   *)
(* that started a thread reads its result.                                 *)

Results == {"unused", "running", "caughtUp", "behind", "failed"}

\* A thread works for one task at most, the one that waits for it.
Owned ==
  /\ thread \in [Slots -> Results]
  /\ \A j \in Jobs : IF job[j].pc = "post" THEN job[j].own \in Slots ELSE job[j].own = None
  /\ \A i, j \in Jobs : job[i].own = job[j].own /\ job[i].own # None => i = j

\* What a task had seen stored when it started its pipeline is still there,
\* and is derived once the pipeline caught up.
Seen(j) == 0 .. job[j].base \subseteq RawHeights(job[j].chain)
Reached(j) ==
  thread[job[j].own] = "caughtUp" =>
    \A r \in raw : r.chain = job[j].chain /\ r.height <= job[j].base => r.id <= derived
Waiting(j) == job[j].pc = "post" => Seen(j) /\ Reached(j)

CountsTyped ==
  /\ used \in [notices : Nat, faults : Nat, timeouts : Nat, rewinds : Nat]
  /\ derived \in Nat /\ IsFiniteSet(raw)

RestInv == IngestionInv /\ CountsTyped /\ Owned /\ \A j \in Jobs : Waiting(j)

LEMMA NumbersWellFounded == IsWellFoundedOn({p \in Nat \X Nat : p[1] < p[2]}, Nat)
BY NatLessThanWellFounded, Zenon DEF OpToRel

\* A set of numbers below a bound has a greatest one.
LEMMA GreatestExists ==
  ASSUME NEW S \in SUBSET Nat, S # {}, NEW b \in Nat, \A x \in S : x < b
  PROVE  Max(S) \in S /\ \A x \in S : x <= Max(S)
<1> DEFINE Less == {p \in Nat \X Nat : p[1] < p[2]}
           T == {b - x : x \in S}
<1>1. IsWellFoundedOn(Less, Nat)
  BY NumbersWellFounded, Zenon DEF Less
<1>2. T \subseteq Nat /\ T # {}
  <2>1. ASSUME NEW x \in S PROVE b - x \in Nat
    BY x \in Nat /\ x < b
  <2>2. T \subseteq Nat
    BY <2>1
  <2>3. PICK x \in S : TRUE
    OBVIOUS
  <2>4. b - x \in T
    BY <2>3
  <2> QED BY <2>2, <2>4
<1>3. PICK t \in T : \A u \in T : ~ (<<u, t>> \in Less)
  BY <1>1, <1>2, WFMin
<1>4. PICK m \in S : t = b - m
  OBVIOUS
<1>5. ASSUME NEW x \in S PROVE m >= x
  <2>1. b - x \in T /\ b - x \in Nat /\ t \in Nat
    BY <1>2
  <2>2. ~(b - x < t)
    BY <1>3, <2>1
  <2> QED BY <1>4, <2>1, <2>2
<1>6. Max(S) \in S /\ \A x \in S : Max(S) >= x
  BY <1>4, <1>5, Zenon DEF Max
<1> QED BY <1>6

\* The end of a batch, and of the rows when the batch is not full.
LEMMA BatchEnds ==
  ASSUME RowsTyped, CountsTyped
  PROVE  /\ EndOfBatch(derived) \in Nat /\ EndOfBatch(derived) >= derived
         /\ Cardinality(NextBatch(derived)) < Batch => \A r \in raw : r.id <= EndOfBatch(derived)
<1> DEFINE n == derived
           batch == NextBatch(n)
           rows == RowsAfter(n)
           ids == {n} \cup {r.id : r \in batch}
           b == n + nextId + 1
<1>1. /\ n \in Nat /\ nextId \in Nat /\ raw \subseteq RawRow /\ IsFiniteSet(raw)
      /\ \A r \in raw : r.id \in Nat /\ r.id < nextId
  BY DEF RowsTyped, RawRow, CountsTyped
<1>2. rows \subseteq raw /\ batch \subseteq rows /\ \A r \in raw : r.id > n => r \in rows
  BY DEF RowsAfter, NextBatch
<1>3. batch = {r \in rows : Cardinality({s \in rows : s.id < r.id}) < Batch}
  BY DEF NextBatch
<1> HIDE DEF n, rows, batch
<1>4. ids \in SUBSET Nat /\ ids # {} /\ b \in Nat /\ \A x \in ids : x < b
  BY <1>1, <1>2
<1> HIDE DEF b
<1>5. Max(ids) \in ids /\ \A x \in ids : x <= Max(ids)
  <2> HIDE DEF ids
  <2> QED BY <1>4, GreatestExists
<1>6. EndOfBatch(n) = Max(ids)
  BY DEF EndOfBatch, batch
<1>7. EndOfBatch(n) \in Nat /\ EndOfBatch(n) >= n /\ \A r \in batch : r.id <= EndOfBatch(n)
  BY <1>1, <1>4, <1>5, <1>6
<1>8. ASSUME Cardinality(batch) < Batch PROVE rows \subseteq batch
  <2> DEFINE rest == rows \ batch
             left == {r.id : r \in rest}
             Less == {p \in Nat \X Nat : p[1] < p[2]}
  <2>1. SUFFICES ASSUME rest # {} PROVE FALSE
    OBVIOUS
  <2>2. IsWellFoundedOn(Less, Nat)
    BY NumbersWellFounded, Zenon DEF Less
  <2>3. left \subseteq Nat /\ left # {}
    BY <1>1, <1>2, <2>1
  <2>4. PICK t \in left : \A u \in left : ~ (<<u, t>> \in Less)
    BY <2>2, <2>3, WFMin
  <2>5. PICK r \in rest : t = r.id
    OBVIOUS
  <2> DEFINE below == {s \in rows : s.id < r.id}
  <2>6. below \subseteq batch
    <3>1. SUFFICES ASSUME NEW s \in rows, s.id < r.id, s \notin batch PROVE FALSE
      OBVIOUS
    <3>2. s.id \in left /\ s.id \in Nat /\ t \in Nat
      BY <1>1, <1>2, <2>3, <3>1
    <3>3. ~(s.id < t)
      BY <2>4, <3>2
    <3> QED BY <2>5, <3>1, <3>3
  <2>7. IsFiniteSet(batch)
    BY <1>1, <1>2, FS_Subset
  <2>8. Cardinality(below) <= Cardinality(batch) /\ Cardinality(below) \in Nat
        /\ Cardinality(batch) \in Nat
    <3> HIDE DEF below
    <3>1. IsFiniteSet(below)
      BY <2>6, <2>7, FS_Subset
    <3> QED BY <2>6, <2>7, <3>1, FS_Subset, FS_CardinalityType
  <2>9. Cardinality(below) < Batch
    BY <1>8, <2>8, BoundsAssumption
  <2>10. r \in batch
    BY <1>3, <2>9
  <2> QED BY <2>10
<1>9. Cardinality(batch) < Batch => \A r \in raw : r.id <= EndOfBatch(n)
  <2> SUFFICES ASSUME Cardinality(batch) < Batch, NEW r \in raw PROVE r.id <= EndOfBatch(n)
    OBVIOUS
  <2>1. CASE r.id > n
    BY <1>2, <1>7, <1>8, <2>1
  <2>2. CASE ~(r.id > n)
    BY <1>1, <1>7, <2>2
  <2> QED BY <2>1, <2>2
<1> QED BY <1>7, <1>9 DEF n, batch

\* A task that waits for no pipeline, one that goes on waiting, and one that
\* starts to wait.
Off(i) == job'[i].pc # "post" /\ job'[i].own = None
WaitsOn(i) ==
  /\ job[i].pc = "post" /\ job'[i].pc = "post" /\ job'[i].own = job[i].own
  /\ job'[i].chain = job[i].chain /\ job'[i].base = job[i].base
  /\ thread'[job[i].own] = "caughtUp" =>
       thread[job[i].own] = "caughtUp" \/ \A r \in raw' : r.id <= derived'
StartsWait(i) ==
  /\ job[i].pc = "fetch" /\ job'[i].pc = "post"
  /\ job'[i].chain = job[i].chain /\ job'[i].base = job[i].base
  /\ job'[i].own \in FreeSlot /\ thread' = [thread EXCEPT ![job'[i].own] = "running"]
RowsGrow == raw \subseteq raw' /\ \A r \in raw' \ raw : r.height \notin RawHeights(r.chain)
OthersStay(j) == \A i \in Jobs \ {j} : job'[i] = job[i]

LEMMA FetchSaw ==
  ASSUME IngestionInv, NEW j \in Jobs, job[j].pc = "fetch"
  PROVE  Seen(j)
<1>1. job[j].chain \in Chains /\ job[j].base <= cursor[job[j].chain].last /\ job[j].base \in Int
  BY DEF IngestionInv, Followed, AtWork, JobRecord, Position, Null
<1>2. cursor[job[j].chain].last \in Int /\ 0 .. cursor[job[j].chain].last \subseteq RawHeights(job[j].chain)
  BY <1>1 DEF IngestionInv, CursorsTyped, CursorRow, Position, Null, RawComplete
<1> QED BY <1>1, <1>2 DEF Seen

\* What a task has seen is not changed by the rows others store.
LEMMA SeenStays ==
  ASSUME RowsGrow, IngestionInv', derived \in Nat, derived' \in Nat, derived' >= derived,
         RowsTyped, NEW i \in Jobs, job[i] \in JobRecord, Seen(i),
         job'[i].chain = job[i].chain, job'[i].base = job[i].base
  PROVE  /\ Seen(i)'
         /\ (\A r \in raw : r.chain = job[i].chain /\ r.height <= job[i].base => r.id <= derived)
              => (\A r \in raw' : r.chain = job[i].chain /\ r.height <= job[i].base => r.id <= derived')
<1>1. job[i].base \in Int
  BY DEF JobRecord, Position, Null
<1>2. Seen(i)'
  BY DEF RowsGrow, Seen, RawHeights
<1>3. ASSUME NEW r \in raw', r \notin raw, r.chain = job[i].chain PROVE ~(r.height <= job[i].base)
  <2>1. r.height \in Nat
    BY DEF IngestionInv, RowsTyped, RawRow
  <2>2. r.height \notin RawHeights(job[i].chain)
    BY <1>3 DEF RowsGrow
  <2> QED BY <1>1, <2>1, <2>2 DEF Seen
<1>4. \A r \in raw : r.id \in Nat
  BY DEF RowsTyped, RawRow
<1> QED BY <1>2, <1>3, <1>4

LEMMA RestKept ==
  ASSUME RestInv, IngestionInv', CountsTyped', RowsGrow, derived' >= derived,
         thread' \in [Slots -> Results], NEW j \in Jobs, StartsWait(j) \/ WaitsOn(j) \/ Off(j),
         \A i \in Jobs \ {j} : WaitsOn(i) \/ Off(i)
  PROVE  RestInv'
<1>1. derived \in Nat /\ derived' \in Nat /\ RowsTyped /\ \A i \in Jobs : job[i] \in JobRecord
  BY DEF RestInv, CountsTyped, IngestionInv, Followed
<1>2. None \notin Slots /\ FreeSlot \subseteq Slots
  BY BoundsAssumption DEF None, FreeSlot
<1>3. \A i \in Jobs : IF job[i].pc = "post" THEN job[i].own \in Slots ELSE job[i].own = None
  BY DEF RestInv, Owned
<1>4. \A i, k \in Jobs : job[i].own = job[k].own /\ job[i].own # None => i = k
  BY DEF RestInv, Owned
<1>5. StartsWait(j) => /\ job'[j].own \in Slots /\ thread'[job'[j].own] = "running"
                       /\ \A i \in Jobs : job[i].own # job'[j].own
  <2> HAVE StartsWait(j)
  <2>1. /\ job'[j].own \in FreeSlot /\ thread' = [thread EXCEPT ![job'[j].own] = "running"]
        /\ thread \in [Slots -> Results]
    BY DEF StartsWait, RestInv, Owned
  <2>2. Free(job'[j].own)
    BY <2>1 DEF FreeSlot
  <2> QED BY <1>2, <2>1, <2>2 DEF Free
<1>6. \A i \in Jobs : WaitsOn(i) \/ Off(i) \/ (i = j /\ StartsWait(j))
  OBVIOUS
<1>7. ASSUME NEW i \in Jobs
      PROVE  IF job'[i].pc = "post" THEN job'[i].own \in Slots ELSE job'[i].own = None
  <2>1. CASE WaitsOn(i)
    BY <1>3, <2>1 DEF WaitsOn
  <2>2. CASE Off(i)
    BY <2>2 DEF Off
  <2>3. CASE i = j /\ StartsWait(j)
    BY <1>5, <2>3 DEF StartsWait
  <2> QED BY <1>6, <2>1, <2>2, <2>3
<1>8. ASSUME NEW i \in Jobs, NEW k \in Jobs, job'[i].own = job'[k].own, job'[i].own # None
      PROVE  i = k
  <2>1. ~Off(i) /\ ~Off(k)
    BY <1>8 DEF Off
  <2>2. CASE WaitsOn(i) /\ WaitsOn(k)
    BY <1>4, <1>8, <2>2 DEF WaitsOn
  <2>3. CASE WaitsOn(i) /\ k = j /\ StartsWait(j)
    BY <1>5, <1>8, <2>3 DEF WaitsOn
  <2>4. CASE WaitsOn(k) /\ i = j /\ StartsWait(j)
    BY <1>5, <1>8, <2>4 DEF WaitsOn
  <2> QED BY <1>6, <2>1, <2>2, <2>3, <2>4
<1>9. Owned'
  BY <1>7, <1>8 DEF Owned
<1>10. ASSUME NEW i \in Jobs, job'[i].pc = "post" PROVE Seen(i)' /\ Reached(i)'
  <2>1. CASE WaitsOn(i)
    <3>1. /\ Seen(i) /\ Reached(i) /\ job'[i].chain = job[i].chain /\ job'[i].base = job[i].base
          /\ job'[i].own = job[i].own
      BY <2>1 DEF RestInv, Waiting, WaitsOn
    <3>2. /\ Seen(i)'
          /\ (\A r \in raw : r.chain = job[i].chain /\ r.height <= job[i].base => r.id <= derived)
              => (\A r \in raw' : r.chain = job[i].chain /\ r.height <= job[i].base => r.id <= derived')
      BY <1>1, <3>1, SeenStays
    <3>3. Reached(i)'
      BY <2>1, <3>1, <3>2 DEF WaitsOn, Reached
    <3> QED BY <3>2, <3>3
  <2>2. CASE i = j /\ StartsWait(j)
    <3>1. /\ Seen(i) /\ job'[i].chain = job[i].chain /\ job'[i].base = job[i].base
      BY <2>2, FetchSaw DEF RestInv, StartsWait
    <3>2. Seen(i)'
      BY <1>1, <3>1, SeenStays
    <3>3. Reached(i)'
      BY <1>5, <2>2 DEF Reached
    <3> QED BY <3>2, <3>3
  <2> QED BY <1>6, <1>10, <2>1, <2>2 DEF Off
<1> QED BY <1>9, <1>10 DEF RestInv, Waiting

\* A step of one task: it leaves its await, or starts to wait.
LEMMA TaskKeeps ==
  ASSUME RestInv, IngestionInv', CountsTyped', RowsGrow, derived' = derived,
         NEW j \in Jobs, OthersStay(j),
         \/ StartsWait(j)
         \/ Off(j) /\ thread' \in [Slots -> Results] /\ \A s \in Slots : thread'[s] \in {thread[s], "unused"}
  PROVE  RestInv'
<1>1. derived' >= derived /\ thread \in [Slots -> Results]
  BY DEF RestInv, CountsTyped, Owned
<1>2. thread' \in [Slots -> Results]
  <2>1. CASE StartsWait(j)
    <3>1. job'[j].own \in Slots /\ thread' = [thread EXCEPT ![job'[j].own] = "running"]
      BY <2>1 DEF StartsWait, FreeSlot
    <3> QED BY <1>1, <3>1 DEF Results
  <2> QED BY <2>1
<1>3. ASSUME NEW i \in Jobs \ {j} PROVE WaitsOn(i) \/ Off(i)
  <2>1. job'[i] = job[i]
    BY DEF OthersStay
  <2>2. IF job[i].pc = "post" THEN job[i].own \in Slots ELSE job[i].own = None
    BY DEF RestInv, Owned
  <2>3. CASE job[i].pc # "post"
    BY <2>1, <2>2, <2>3 DEF Off
  <2>4. CASE job[i].pc = "post"
    <3>1. thread'[job[i].own] = "caughtUp" => thread[job[i].own] = "caughtUp"
      <4>1. CASE StartsWait(j)
        <5>1. job'[j].own \in Slots /\ Free(job'[j].own) /\ thread' = [thread EXCEPT ![job'[j].own] = "running"]
          BY <4>1 DEF StartsWait, FreeSlot
        <5>2. job[i].own # job'[j].own
          BY <5>1 DEF Free
        <5> QED BY <1>1, <2>2, <2>4, <5>1, <5>2
      <4>2. CASE \A s \in Slots : thread'[s] \in {thread[s], "unused"}
        <5>1. thread'[job[i].own] \in {thread[job[i].own], "unused"}
          BY <2>2, <2>4, <4>2
        <5> QED BY <5>1
      <4> QED BY <4>1, <4>2
    <3> QED BY <2>1, <2>4, <3>1 DEF WaitsOn
  <2> QED BY <2>3, <2>4
<1> QED BY <1>1, <1>2, <1>3, RestKept

\* However a run ends, its task lets go of the pipeline, and a worker that
\* does not count as caught up goes to sleep.
LEMMA RunLetsGo ==
  ASSUME Followed, NEW j \in Jobs, NEW k, NEW caught, RunResult(j, k, caught)
  PROVE  Off(j) /\ OthersStay(j) /\ (j # Admin /\ job'[j].pc = "idle" => caught)
<1>1. job \in [Jobs -> JobRecord]
  BY DEF Followed
<1>2. CASE RunFallsShort(j, k)
  <2> DEFINE task == IF j = Admin THEN Idle ELSE [Idle EXCEPT !.pc = "sleep", !.chain = j]
  <2>1. task.pc # "post" /\ task.own = None /\ (j # Admin => task.pc = "sleep")
    BY DEF Idle
  <2>2. job' = [job EXCEPT ![j] = task]
    BY <1>2 DEF RunFallsShort
  <2> HIDE DEF task
  <2>3. job'[j] = task /\ OthersStay(j)
    BY <1>1, <2>2 DEF OthersStay
  <2> QED BY <2>1, <2>3 DEF Off
<1>3. CASE caught /\ RunEnds(j, k)
  <2>1. CASE Fetch(j, j, k, 0)
    BY <1>1, <1>3, <2>1 DEF Fetch, Off, OthersStay
  <2>2. CASE job' = [job EXCEPT ![j] = Idle]
    BY <1>1, <1>3, <2>2 DEF Idle, Off, OthersStay
  <2> QED BY <1>3, <2>1, <2>2 DEF RunEnds
<1> QED BY <1>2, <1>3 DEF RunResult

LEMMA LoopLetsGo ==
  ASSUME Followed, NEW j \in Jobs, job[j].pc = "fetch", NEW k, NEW got \in Nat,
         NEW caught \in BOOLEAN, LoopEnds(j, k, got, caught)
  PROVE  /\ OthersStay(j) /\ ((Off(j) /\ thread' = thread) \/ StartsWait(j))
         /\ j # Admin /\ got > 0 => job'[j].pc # "idle"
<1>1. job \in [Jobs -> JobRecord]
  BY DEF Followed
<1>2. CASE got = 0 /\ RunResult(j, k, caught) /\ thread' = thread
  BY <1>2, RunLetsGo
<1>3. CASE RunFallsShort(j, k) /\ thread' = thread
  <2>1. RunResult(j, k, FALSE)
    BY <1>3 DEF RunResult
  <2> QED BY <1>3, <2>1, RunLetsGo
<1>4. ASSUME NEW i \in FreeSlot, thread' = [thread EXCEPT ![i] = "running"],
             job' = [job EXCEPT ![j] = [Idle EXCEPT !.pc = "post", !.own = i,
                       !.chain = job[j].chain, !.base = job[j].base, !.caught = caught]]
      PROVE  OthersStay(j) /\ StartsWait(j) /\ job'[j].pc # "idle"
  <2> DEFINE task == [Idle EXCEPT !.pc = "post", !.own = i, !.chain = job[j].chain,
                                  !.base = job[j].base, !.caught = caught]
  <2>1. /\ task.pc = "post" /\ task.own = i /\ task.chain = job[j].chain
        /\ task.base = job[j].base
    BY DEF Idle
  <2>2. job' = [job EXCEPT ![j] = task]
    BY <1>4
  <2> HIDE DEF task
  <2>3. job'[j] = task /\ OthersStay(j)
    BY <1>1, <2>2 DEF OthersStay
  <2> QED BY <1>4, <2>1, <2>3 DEF StartsWait
<1> QED BY <1>2, <1>3, <1>4 DEF LoopEnds

LEMMA SpendTyped ==
  ASSUME CountsTyped, NEW what \in {"notices", "faults", "timeouts", "rewinds"}, NEW bound,
         Spend(what, bound)
  PROVE  used' \in [notices : Nat, faults : Nat, timeouts : Nat, rewinds : Nat] /\ used' # used
<1>1. used[what] \in Nat
  BY DEF CountsTyped
<1>2. used' = [used EXCEPT ![what] = used[what] + 1]
  BY DEF Spend
<1>3. used'[what] = used[what] + 1
  BY <1>2 DEF CountsTyped
<1>4. used' # used
  BY <1>1, <1>3
<1> QED BY <1>1, <1>2, <1>4 DEF CountsTyped

\* An answered fetch adds a row of a height nobody had.
LEMMA BlockFetchedRests ==
  ASSUME RestInv, IngestionInv', NEW j \in Jobs, BlockFetched(j)
  PROVE  RestInv' /\ (j # Admin => job'[j].pc # "idle") /\ OthersStay(j)
<1> DEFINE c == job[j].chain
           h == job[j].base + 1
           k == Stored(cursor[c], h)
           got == job[j].got + 1
<1>1. Followed /\ job[j] \in JobRecord /\ job[j].pc = "fetch" /\ CountsTyped
  BY DEF RestInv, IngestionInv, Followed, BlockFetched
<1>2. got \in Nat /\ got > 0
  BY <1>1 DEF JobRecord
<1>3. \/ Fetch(j, c, k, got) /\ thread' = thread
      \/ LoopEnds(j, k, got, FALSE)
  BY DEF BlockFetched
<1>4. UNCHANGED <<derived, used>> /\ IngestBlock(c, h)
  BY DEF BlockFetched
<1>5. RowsGrow /\ IsFiniteSet(raw')
  <2>1. CASE raw' = raw
    BY <1>1, <2>1 DEF RowsGrow, CountsTyped
  <2>2. CASE raw' = raw \cup {[chain |-> c, height |-> h, id |-> nextId]} /\ RowsAt(c, h) = {}
    <3>1. h \notin RawHeights(c)
      BY <2>2 DEF RowsAt, RawHeights
    <3>2. RowsGrow
      BY <2>2, <3>1 DEF RowsGrow
    <3> QED BY <1>1, <2>2, <3>2, FS_AddElement DEF CountsTyped
  <2> QED BY <1>4, <2>1, <2>2 DEF IngestBlock
<1>6. CountsTyped'
  BY <1>1, <1>4, <1>5 DEF CountsTyped
<1>7. /\ OthersStay(j) /\ ((Off(j) /\ thread' = thread) \/ StartsWait(j))
      /\ j # Admin => job'[j].pc # "idle"
  <2> HIDE DEF got, k
  <2>1. CASE Fetch(j, c, k, got) /\ thread' = thread
    BY <1>1, <2>1 DEF Fetch, Off, OthersStay, Followed
  <2>2. CASE LoopEnds(j, k, got, FALSE)
    BY <1>1, <1>2, <2>2, LoopLetsGo
  <2> QED BY <1>3, <2>1, <2>2
<1>8. thread \in [Slots -> Results]
  BY DEF RestInv, Owned
<1> QED BY <1>4, <1>5, <1>6, <1>7, <1>8, TaskKeeps

\* The other steps of a task.
LEMMA TasksRest ==
  ASSUME RestInv, IngestionInv', NEW j \in Jobs,
         \/ BlockNotAvailable(j) \/ IngestFails(j) \/ PipelineAwaited(j)
         \/ PipelineTimesOut(j) \/ \E body \in Bodies : ReplayConflicts(j, body)
         \/ j \in Chains /\ (TaskTimesOut(j) \/ Retry(j) \/ WorkerStarts(j))
         \/ j = Admin /\ \E c \in Chains : AdminCatchUp(c)
  PROVE  RestInv' /\ OthersStay(j)
<1>1. Followed /\ job[j] \in JobRecord /\ CountsTyped /\ thread \in [Slots -> Results]
  BY DEF RestInv, IngestionInv, Followed, Owned
<1>2. derived' = derived /\ raw' = raw
  BY DEF BlockNotAvailable, IngestFails, PipelineAwaited, PipelineTimesOut, ReplayConflicts,
         TaskTimesOut, Retry, WorkerStarts, AdminCatchUp
<1>3. CountsTyped' /\ RowsGrow
  <2>1. used' = used \/ \E what \in {"faults", "timeouts"}, bound \in {MaxFaults, MaxTimeouts} : Spend(what, bound)
    BY DEF BlockNotAvailable, IngestFails, PipelineAwaited, PipelineTimesOut, ReplayConflicts,
         TaskTimesOut, Retry, WorkerStarts, AdminCatchUp
  <2>2. used' \in [notices : Nat, faults : Nat, timeouts : Nat, rewinds : Nat]
    BY <1>1, <2>1, SpendTyped DEF CountsTyped
  <2> QED BY <1>1, <1>2, <2>2 DEF CountsTyped, RowsGrow
<1>4. /\ OthersStay(j)
      /\ \/ StartsWait(j)
         \/ Off(j) /\ thread' \in [Slots -> Results] /\ \A s \in Slots : thread'[s] \in {thread[s], "unused"}
  <2>1. CASE BlockNotAvailable(j)
    <3>1. LoopEnds(j, cursor[job[j].chain], job[j].got, TRUE) /\ job[j].pc = "fetch" /\ job[j].got \in Nat
      BY <1>1, <2>1 DEF BlockNotAvailable, JobRecord
    <3> QED BY <1>1, <3>1, LoopLetsGo
  <2>2. ASSUME NEW k, RunFallsShort(j, k), thread' = thread PROVE Off(j) /\ OthersStay(j)
    <3>1. RunResult(j, k, FALSE)
      BY <2>2 DEF RunResult
    <3> QED BY <1>1, <3>1, RunLetsGo
  <2>3. CASE \/ IngestFails(j) \/ PipelineTimesOut(j)
             \/ \E body \in Bodies : ReplayConflicts(j, body)
    <3>1. thread' = thread /\ \E k : RunFallsShort(j, k)
      BY <2>3 DEF IngestFails, PipelineTimesOut, ReplayConflicts
    <3> QED BY <1>1, <2>2, <3>1
  <2>4. CASE PipelineAwaited(j)
    <3>1. PICK caught : RunResult(j, cursor[job[j].chain], caught)
      BY <2>4 DEF PipelineAwaited
    <3>2. thread' = [thread EXCEPT ![job[j].own] = "unused"]
      BY <2>4 DEF PipelineAwaited
    <3> QED BY <1>1, <3>1, <3>2, RunLetsGo DEF Results
  <2>5. CASE j \in Chains /\ TaskTimesOut(j)
    <3>1. RunResult(j, cursor[j], TRUE)
      BY <2>5 DEF TaskTimesOut, RunResult
    <3>2. thread' = [i \in Slots |-> IF i = job[j].own /\ thread[i] # "running"
                                 THEN "unused" ELSE thread[i]]
      BY <2>5 DEF TaskTimesOut
    <3> QED BY <1>1, <3>1, <3>2, RunLetsGo DEF Results
  <2>6. CASE \/ j \in Chains /\ (Retry(j) \/ WorkerStarts(j))
             \/ j = Admin /\ \E c \in Chains : AdminCatchUp(c)
    <3>1. thread' = thread /\ \E c, k : Fetch(j, c, k, 0)
      BY <2>6 DEF Retry, WorkerStarts, AdminCatchUp
    <3> QED BY <1>1, <3>1 DEF Fetch, Off, OthersStay, Followed
  <2> QED BY <2>1, <2>3, <2>4, <2>5, <2>6
<1> QED BY <1>2, <1>3, <1>4, TaskKeeps

\* A run of the pipeline moves the cursor to the end of a batch, and says that
\* it caught up only when the batch held every row left.
LEMMA PipelineRests ==
  ASSUME RestInv, IngestionInv', NEW s \in Slots, PipelineRuns(s) \/ PipelineFails(s)
  PROVE  RestInv'
<1>1. /\ CountsTyped /\ RowsTyped /\ thread \in [Slots -> Results]
      /\ \A i \in Jobs : IF job[i].pc = "post" THEN job[i].own \in Slots ELSE job[i].own = None
  BY DEF RestInv, IngestionInv, Owned
<1>2. raw' = raw /\ job' = job /\ derived' \in {derived, EndOfBatch(derived)}
  BY DEF PipelineRuns, PipelineFails
<1>3. /\ EndOfBatch(derived) \in Nat /\ EndOfBatch(derived) >= derived
      /\ Cardinality(NextBatch(derived)) < Batch => \A r \in raw : r.id <= EndOfBatch(derived)
  BY <1>1, BatchEnds
<1>4. CountsTyped' /\ derived' >= derived /\ RowsGrow
  <2>1. used' = used \/ Spend("faults", MaxFaults)
    BY DEF PipelineRuns, PipelineFails
  <2>2. used' \in [notices : Nat, faults : Nat, timeouts : Nat, rewinds : Nat]
    BY <1>1, <2>1, SpendTyped DEF CountsTyped
  <2> QED BY <1>1, <1>2, <1>3, <2>2 DEF CountsTyped, RowsGrow
<1>5. PICK result \in {"caughtUp", "behind", "failed", "unused"} :
        /\ thread' = [thread EXCEPT ![s] = result]
        /\ result = "caughtUp" => \A r \in raw' : r.id <= derived'
  <2>1. CASE PipelineRuns(s)
    <3>1. derived' = EndOfBatch(derived)
      BY <2>1 DEF PipelineRuns
    <3>2. ThreadEnds(s, IF Cardinality(NextBatch(derived)) < Batch THEN "caughtUp" ELSE "behind")
      BY <2>1 DEF PipelineRuns
    <3> QED BY <1>2, <1>3, <3>1, <3>2 DEF ThreadEnds
  <2>2. CASE PipelineFails(s)
    BY <2>2 DEF PipelineFails, ThreadEnds
  <2> QED BY <2>1, <2>2
<1>6. thread' \in [Slots -> Results]
  BY <1>1, <1>5 DEF Results
<1>7. \A i \in Jobs : WaitsOn(i) \/ Off(i)
  <2> SUFFICES ASSUME NEW i \in Jobs PROVE WaitsOn(i) \/ Off(i)
    OBVIOUS
  <2>1. CASE job[i].pc # "post"
    BY <1>1, <1>2, <2>1 DEF Off
  <2>2. CASE job[i].pc = "post"
    <3>1. job[i].own \in Slots
      BY <1>1, <2>2
    <3>2. thread'[job[i].own] = "caughtUp" =>
            thread[job[i].own] = "caughtUp" \/ \A r \in raw' : r.id <= derived'
      <4>1. CASE job[i].own = s
        BY <1>1, <1>5, <4>1
      <4>2. CASE job[i].own # s
        BY <1>1, <1>5, <3>1, <4>2
      <4> QED BY <4>1, <4>2
    <3> QED BY <1>2, <2>2, <3>2 DEF WaitsOn
  <2> QED BY <2>1, <2>2
<1>8. Admin \in Jobs
  BY DEF Jobs
<1> QED BY <1>4, <1>6, <1>7, <1>8, RestKept

\* A notice touches no task that waits; a stop leaves none.
LEMMA NotificationRests ==
  ASSUME RestInv, IngestionInv', NEW c \in Chains, NEW found, ChainNotification(c, found)
  PROVE  RestInv'
<1>1. /\ CountsTyped /\ job \in [Jobs -> JobRecord] /\ c \in Jobs
      /\ \A i \in Jobs : job[i].pc # "post" => job[i].own = None
      /\ thread \in [Slots -> Results]
  BY DEF RestInv, IngestionInv, Followed, Owned, Jobs
<1>2. /\ raw' = raw /\ derived' = derived /\ thread' = thread /\ Spend("notices", MaxNotices)
      /\ job' = [job EXCEPT ![c].pc = IF @ = "idle" THEN "ready" ELSE @]
  BY DEF ChainNotification, dbVars
<1>3. CountsTyped' /\ RowsGrow /\ derived' >= derived
  BY <1>1, <1>2, SpendTyped DEF CountsTyped, RowsGrow
<1>4. ASSUME NEW i \in Jobs
      PROVE  /\ job'[i].own = job[i].own /\ job'[i].chain = job[i].chain
             /\ job'[i].base = job[i].base /\ (job'[i].pc = "post" <=> job[i].pc = "post")
  <2>1. CASE i = c
    BY <1>1, <1>2, <2>1 DEF JobRecord
  <2>2. CASE i # c
    BY <1>1, <1>2, <2>2
  <2> QED BY <2>1, <2>2
<1>5. \A i \in Jobs : WaitsOn(i) \/ Off(i)
  BY <1>1, <1>2, <1>4 DEF WaitsOn, Off
<1>6. thread' \in [Slots -> Results]
  BY <1>1, <1>2
<1> QED BY <1>1, <1>3, <1>5, <1>6, RestKept

LEMMA StopRests ==
  ASSUME RestInv, IngestionInv', Restart \/ \E c \in Chains : \E h \in Null .. Top[c] : RewindCursor(c, h)
  PROVE  RestInv' /\ used' # used
<1>1. CountsTyped
  BY DEF RestInv
<1>2. /\ raw' = raw /\ derived' = derived /\ thread' = [i \in Slots |-> "unused"]
      /\ job' = [j \in Jobs |-> Idle]
      /\ \E what \in {"faults", "rewinds"}, bound \in {MaxFaults, MaxRewinds} : Spend(what, bound)
  BY DEF Restart, RewindCursor, Stop
<1>3. used' \in [notices : Nat, faults : Nat, timeouts : Nat, rewinds : Nat] /\ used' # used
  BY <1>1, <1>2, SpendTyped
<1>4. CountsTyped' /\ RowsGrow /\ derived' >= derived
  BY <1>1, <1>2, <1>3 DEF CountsTyped, RowsGrow
<1>5. \A i \in Jobs : Off(i)
  BY <1>2 DEF Off, Idle
<1>6. thread' \in [Slots -> Results] /\ Admin \in Jobs
  BY <1>2 DEF Results, Jobs
<1> QED BY <1>3, <1>4, <1>5, <1>6, RestKept

LEMMA UntouchedRests ==
  ASSUME RestInv, IngestionInv', UNCHANGED <<raw, derived, job, thread, used>>
  PROVE  RestInv'
BY DEF RestInv, CountsTyped, Owned, Waiting, Seen, Reached, RawHeights

LEMMA InitRests == Init => RestInv
<1> SUFFICES ASSUME Init PROVE RestInv
  OBVIOUS
<1>1. CountsTyped
  BY FS_EmptySet DEF Init, CountsTyped
<1>2. \A j \in Jobs : job[j].pc = "idle" /\ job[j].own = None
  BY DEF Init, Idle
<1>3. Owned
  BY <1>2 DEF Init, Owned, Results
<1> QED BY <1>1, <1>2, <1>3, InitIngestion DEF RestInv, Waiting

LEMMA RestStep == RestInv /\ [Next]_vars => RestInv'
<1> SUFFICES ASSUME RestInv, [Next]_vars PROVE RestInv'
  OBVIOUS
<1>1. IngestionInv'
  BY IngestionStep DEF RestInv
<1>2. Chains \subseteq Jobs /\ Admin \in Jobs
  BY DEF Jobs
<1>3. ASSUME NEW j \in Jobs, BlockFetched(j) PROVE RestInv'
  BY <1>1, <1>3, BlockFetchedRests
<1>4. ASSUME NEW j \in Jobs,
             \/ BlockNotAvailable(j) \/ IngestFails(j) \/ PipelineAwaited(j)
             \/ PipelineTimesOut(j) \/ \E body \in Bodies : ReplayConflicts(j, body)
             \/ j \in Chains /\ (TaskTimesOut(j) \/ Retry(j) \/ WorkerStarts(j))
             \/ j = Admin /\ \E c \in Chains : AdminCatchUp(c)
      PROVE  RestInv'
  BY <1>1, <1>4, TasksRest
<1>5. ASSUME NEW s \in Slots, PipelineRuns(s) \/ PipelineFails(s) PROVE RestInv'
  BY <1>1, <1>5, PipelineRests
<1>6. ASSUME NEW c \in Chains, NEW found, ChainNotification(c, found) PROVE RestInv'
  BY <1>1, <1>6, NotificationRests
<1>7. CASE Restart \/ \E c \in Chains : \E h \in Null .. Top[c] : RewindCursor(c, h)
  BY <1>1, <1>7, StopRests
<1>8. CASE (\E c \in Chains : BlockFinalized(c)) \/ UNCHANGED vars
  <2>1. UNCHANGED <<raw, derived, job, thread, used>>
    BY <1>8 DEF BlockFinalized, vars, dbVars, loopVars
  <2> QED BY <1>1, <2>1, UntouchedRests
<1> QED BY <1>2, <1>3, <1>4, <1>5, <1>6, <1>7, <1>8 DEF Next

\* No task reads the result of a pipeline another one started, and a pipeline
\* that caught up has derived every block its task had seen stored.
THEOREM RestInvariant == Spec => []RestInv
BY InitRests, RestStep, PTL DEF Spec

\* A worker that goes to rest after a run that took blocks leaves none of the
\* blocks it has seen behind the normalization cursor, for any number of tasks
\* and pipeline threads, and any order in which they end.
THEOREM RestMeansDerivedSound == Spec => RestMeansDerived
<1> DEFINE Rested == \A c \in Chains :
             TookBlocks(c) /\ job'[c].pc = "idle" /\ used' = used =>
                \A r \in raw : r.chain = c /\ r.height <= job[c].base => r.id <= derived
<1>1. RestInv /\ RestInv' /\ [Next]_vars => Rested
  <2> SUFFICES ASSUME RestInv, RestInv', [Next]_vars,
                      NEW c \in Chains, TookBlocks(c), job'[c].pc = "idle", used' = used
               PROVE  \A r \in raw : r.chain = c /\ r.height <= job[c].base => r.id <= derived
    OBVIOUS
  <2>1. /\ c \in Jobs /\ c # Admin /\ Followed /\ CountsTyped /\ IngestionInv'
        /\ job[c].pc \in {"fetch", "post"} /\ Chains \subseteq Jobs /\ Admin \in Jobs
    BY ChainsAssumption DEF Jobs, RestInv, IngestionInv, TookBlocks
  <2>2. job'[c] # job[c]
    BY <2>1
  <2>3. ASSUME NEW what \in {"notices", "faults", "timeouts", "rewinds"}, NEW bound,
               Spend(what, bound)
        PROVE  FALSE
    BY <2>1, <2>3, SpendTyped
  <2>4. ASSUME NEW j \in Jobs, BlockFetched(j) PROVE FALSE
    <3>1. (j # Admin => job'[j].pc # "idle") /\ OthersStay(j)
      BY <2>1, <2>4, BlockFetchedRests
    <3> QED BY <2>1, <2>2, <3>1 DEF OthersStay
  <2>5. ASSUME NEW j \in Jobs, BlockNotAvailable(j) PROVE FALSE
    <3>1. OthersStay(j)
      BY <2>1, <2>5, TasksRest
    <3>2. j = c
      BY <2>1, <2>2, <3>1 DEF OthersStay
    <3>3. job[c].pc = "fetch" /\ job[c].got > 0 /\ job[c].got \in Nat
      BY <2>1, <2>5, <3>2 DEF BlockNotAvailable, TookBlocks, Followed, JobRecord
    <3>4. LoopEnds(c, cursor[job[c].chain], job[c].got, TRUE)
      BY <2>5, <3>2 DEF BlockNotAvailable
    <3> QED BY <2>1, <3>3, <3>4, LoopLetsGo
  <2>6. ASSUME NEW j \in Jobs, PipelineAwaited(j)
        PROVE  \A r \in raw : r.chain = c /\ r.height <= job[c].base => r.id <= derived
    <3>1. OthersStay(j)
      BY <2>1, <2>6, TasksRest
    <3>2. j = c
      BY <2>1, <2>2, <3>1 DEF OthersStay
    <3>3. job[c].pc = "post" /\ job[c].chain = c /\ Reached(c)
      BY <2>1, <2>6, <3>2 DEF PipelineAwaited, RestInv, Waiting, Followed, AtWork
    <3> DEFINE caught == job[c].caught /\ thread[job[c].own] = "caughtUp"
    <3>4. RunResult(c, cursor[job[c].chain], caught)
      BY <2>6, <3>2 DEF PipelineAwaited
    <3>5. caught
      <4> HIDE DEF caught
      <4> QED BY <2>1, <3>4, RunLetsGo
    <3> QED BY <3>3, <3>5 DEF Reached
  <2>7. ASSUME NEW j \in Jobs,
               \/ IngestFails(j) \/ PipelineTimesOut(j)
               \/ \E body \in Bodies : ReplayConflicts(j, body)
               \/ j \in Chains /\ TaskTimesOut(j)
        PROVE  FALSE
    BY <2>3, <2>7 DEF IngestFails, PipelineTimesOut, ReplayConflicts, TaskTimesOut
  <2>8. ASSUME NEW d \in Chains, Retry(d) \/ WorkerStarts(d) PROVE FALSE
    <3>1. OthersStay(d)
      BY <2>1, <2>8, TasksRest
    <3>2. d = c
      BY <2>1, <2>2, <3>1 DEF OthersStay
    <3> QED BY <2>1, <2>8, <3>2 DEF Retry, WorkerStarts
  <2>9. ASSUME NEW d \in Chains, AdminCatchUp(d) PROVE FALSE
    <3>1. OthersStay(Admin)
      BY <2>1, <2>9, TasksRest
    <3> QED BY <2>1, <2>2, <3>1 DEF OthersStay
  <2>10. ASSUME NEW d \in Chains, NEW found, ChainNotification(d, found) PROVE FALSE
    BY <2>3, <2>10 DEF ChainNotification
  <2>11. CASE Restart \/ \E d \in Chains : \E h \in Null .. Top[d] : RewindCursor(d, h)
    BY <2>1, <2>11, StopRests
  <2>12. CASE \/ \E s \in Slots : PipelineRuns(s) \/ PipelineFails(s)
              \/ \E d \in Chains : BlockFinalized(d)
              \/ UNCHANGED vars
    <3>1. job' = job
      BY <2>12 DEF PipelineRuns, PipelineFails, BlockFinalized, vars, loopVars
    <3> QED BY <2>2, <3>1
  <2> QED BY <2>1, <2>4, <2>5, <2>6, <2>7, <2>8, <2>9, <2>10, <2>11, <2>12 DEF Next
<1>2. RestInv /\ RestInv' /\ [Next]_vars => [Rested]_vars
  BY <1>1
<1> HIDE DEF Rested
<1>3. Spec => [][Rested]_vars
  BY <1>2, RestInvariant, PTL DEF Spec
<1> QED BY <1>3 DEF Rested, RestMeansDerived

=============================================================================
