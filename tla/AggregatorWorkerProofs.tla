----------------------- MODULE AggregatorWorkerProofs -----------------------
(***************************************************************************)
(* Worker threads, the callers of stop() and rebuild-aggregates commands   *)
(* are drainers like any other: every behaviour of AggregatorWorker is one *)
(* of Drain, so what DrainProofs proves holds for every number of          *)
(* processes and commands and whatever fails.                              *)
(*                                                                         *)
(* One process whose thread is always joined never has two drains at once: *)
(* Turns says where the thread and the closer may be in each phase.  Then  *)
(* nothing is overtaken, no update is lost, and the columns only move      *)
(* forward.  Owes follows stop(): what the log held when it was called is  *)
(* in the columns, or the closer has it before it still.                   *)
(***************************************************************************)
EXTENDS AggregatorWorker, DrainProofs

LEMMA OwnDrainers ==
  ASSUME NEW p \in Procs
  PROVE  Thread(p) \in Drainers /\ Closer(p) \in Drainers
BY DrainersAssumption DEF Thread, Closer

\* A step of the workers, seen by the tables and the drains.
LEMMA WorkerStepRefines == [WNext]_allVars => [Next]_vars
<1> SUFFICES ASSUME [WNext]_allVars PROVE [Next]_vars
  OBVIOUS
<1>1. ASSUME NEW p \in Procs,
             \/ Instrument(p) \/ ThreadExit(p) \/ StopRequested(p) \/ Close(p)
      PROVE  UNCHANGED vars
  BY <1>1 DEF Instrument, ThreadExit, StopRequested, Close
<1>2. ASSUME NEW p \in Procs, Agent(p)
      PROVE  Next
  BY <1>2 DEF Agent, Next
<1>3. ASSUME NEW p \in Procs, Tick(p) \/ FinalDrain(p)
      PROVE  Next
  BY <1>3, OwnDrainers DEF Tick, FinalDrain, Next
<1>4. ASSUME NEW p \in Procs, ThreadStep(p) \/ CloserStep(p)
      PROVE  Next
  BY <1>4, OwnDrainers DEF ThreadStep, CloserStep, Next
<1>5. ASSUME NEW p \in Procs, ThreadOnClosed(p) \/ Kill(p)
      PROVE  Next
  <2>1. \E D \in SUBSET Drainers : Abort(D)
    <3>1. CASE ThreadOnClosed(p)
      <4>1. Abort({Thread(p)}) /\ {Thread(p)} \in SUBSET Drainers
        BY <3>1, OwnDrainers DEF ThreadOnClosed, Raise
      <4>2. QED BY <4>1
    <3>2. CASE Kill(p)
      <4>1. Abort({Thread(p), Closer(p)})
            /\ {Thread(p), Closer(p)} \in SUBSET Drainers
        BY <3>2, OwnDrainers DEF Kill
      <4>2. QED BY <4>1
    <3>3. QED BY <1>5, <3>1, <3>2
  <2>2. QED BY <2>1 DEF Next
<1>6. ASSUME NEW q \in Rebuilders, Rebuild(q) \/ RebuildStep(q)
      PROVE  Next
  <2>1. q \in Drainers
    BY DrainersAssumption
  <2>2. QED BY <1>6, <2>1 DEF Rebuild, RebuildStep, Next
<1>7. ASSUME NEW d \in Drainers, DbError(d)
      PROVE  Next
  <2>1. Abort({d}) /\ {d} \in SUBSET Drainers
    BY <1>7 DEF DbError, Raise
  <2>2. QED BY <2>1 DEF Next
<1>8. CASE UNCHANGED allVars
  BY <1>8 DEF allVars
<1>9. QED BY <1>1, <1>2, <1>3, <1>4, <1>5, <1>6, <1>7, <1>8 DEF WNext

\* Every behaviour of the processes is a behaviour of Drain.
THEOREM ProcessesDrain == WSpec => Spec
<1>1. WInit => Init
  BY DEF WInit
<1>2. QED BY <1>1, WorkerStepRefines, PTL DEF WSpec, Spec

\* Whatever processes share the database and whatever fails, the columns of a
\* run are the projection of rows of its own log (claim-and-project,
\* aggregator.py:8).
THEOREM WorkerTotalsFromLog == WSpec => []TotalsFromLog
  BY ProcessesDrain, TotalsAlwaysFromLog, PTL

\* Whatever processes share the database and whatever fails, a clean run that
\* nobody is projecting shows its whole log, unless a claim on it was given up
\* or a newer write was overtaken.
THEOREM WorkerLossCharacterised == WSpec => []LostOnlyIfOrphanedOrOvertaken
  BY ProcessesDrain, LossCharacterised, PTL
-----------------------------------------------------------------------------
\* One instrumented process, whose join of the worker thread waits until the
\* thread is gone: the instance the remaining theorems are about.  Threads and
\* callers of stop() then take turns.
OneWorker ==
  /\ \A p, q \in Procs : p = q
  /\ Rebuilders = {}
  /\ "join_timeout" \notin Faults

WorkerTypeOK ==
  /\ phase \in [Procs -> {"down", "up", "joining", "closing"}]
  /\ alive \in [Procs -> BOOLEAN]
  /\ owed \in [Procs -> SUBSET EventPool]

Turns ==
  \A p \in Procs :
    /\ alive[p] => phase[p] \in {"up", "joining"}
    /\ pc[Thread(p)] # "idle" => alive[p]
    /\ pc[Closer(p)] # "idle" => phase[p] = "closing"

TurnsInv ==
  /\ WorkerTypeOK
  /\ Turns
  /\ ReadsAhead
  /\ overtaken = {}

LEMMA OwnersOfOne ==
  ASSUME OneWorker, NEW p \in Procs
  PROVE  /\ Drainers = {Thread(p), Closer(p)}
         /\ Thread(p) # Closer(p)
         /\ Procs = {p}
<1>1. Procs = {p} /\ Rebuilders = {}
  BY DEF OneWorker
<1>2. Drainers = {p} \X {"thread", "closer"}
  BY <1>1, DrainersAssumption
<1>3. QED BY <1>1, <1>2 DEF Thread, Closer

\* A thread drains while it is alive, the caller of stop() once it is not.
LEMMA TurnsAlone ==
  ASSUME OneWorker, Turns
  PROVE  Alone
<1> SUFFICES ASSUME NEW d \in Drainers, NEW e \in Drainers,
                    pc[d] # "idle", pc[e] # "idle"
             PROVE  d = e
  BY DEF Alone
<1>1. PICK p \in Procs : TRUE
  BY DrainersAssumption DEF OneWorker
<1>2. Drainers = {Thread(p), Closer(p)}
  BY OwnersOfOne
<1>3. ~(pc[Thread(p)] # "idle" /\ pc[Closer(p)] # "idle")
  BY DEF Turns
<1>4. QED BY <1>2, <1>3

LEMMA TurnsInit == WInit => TurnsInv
  BY OwnDrainers
     DEF WInit, Init, TurnsInv, WorkerTypeOK, Turns, ReadsAhead

\* The steps of a process take turns as well.
LEMMA TurnsStep ==
  ASSUME OneWorker, IInv, WorkerTypeOK, Turns, [WNext]_allVars
  PROVE  WorkerTypeOK' /\ Turns'
<1>0. TypeOK
  BY DEF IInv
<1>1. CASE UNCHANGED allVars
  BY <1>1 DEF allVars, vars, drainVars, workerVars, WorkerTypeOK, Turns
<1>2. ASSUME NEW p \in Procs, Agent(p)
      PROVE  WorkerTypeOK' /\ Turns'
  BY <1>2 DEF Agent, Write, drainVars, workerVars, WorkerTypeOK, Turns
<1>3. ASSUME NEW p \in Procs,
             \/ Instrument(p) \/ ThreadExit(p) \/ StopRequested(p) \/ Close(p)
      PROVE  WorkerTypeOK' /\ Turns'
  <2>1. pc' = pc /\ Procs = {p}
    BY <1>3, OwnersOfOne
       DEF Instrument, ThreadExit, StopRequested, Close, vars, drainVars
  <2>2. CASE Instrument(p)
    BY <2>1, <2>2 DEF Instrument, WorkerTypeOK, Turns
  <2>3. CASE ThreadExit(p)
    BY <2>1, <2>3 DEF ThreadExit, WorkerTypeOK, Turns
  <2>4. CASE StopRequested(p)
    BY <1>0, <2>1, <2>4
       DEF StopRequested, WorkerTypeOK, Turns, TypeOK, StoreTypeOK
  <2>5. CASE Close(p)
    BY <2>1, <2>5 DEF Close, WorkerTypeOK, Turns
  <2>6. QED BY <1>3, <2>2, <2>3, <2>4, <2>5
<1>4. ASSUME NEW p \in Procs, Tick(p) \/ FinalDrain(p)
      PROVE  WorkerTypeOK' /\ Turns'
  <2>1. /\ Procs = {p} /\ Thread(p) # Closer(p)
        /\ Thread(p) \in Drainers /\ Closer(p) \in Drainers
    BY OwnersOfOne, OwnDrainers
  <2>2. CASE Tick(p)
    <3>1. /\ alive[p] /\ UNCHANGED <<phase, alive, owed>>
          /\ pc' = [pc EXCEPT ![Thread(p)] = "poll"]
      BY <2>2 DEF Tick, BeginDrain, workerVars
    <3>2. QED BY <1>0, <2>1, <3>1 DEF WorkerTypeOK, Turns, TypeOK
  <2>3. CASE FinalDrain(p)
    <3>1. /\ phase' = [phase EXCEPT ![p] = "closing"] /\ ~alive[p]
          /\ UNCHANGED <<alive, owed>>
          /\ pc' = [pc EXCEPT ![Closer(p)] = "poll"]
      BY <2>3 DEF FinalDrain, BeginDrain, OneWorker
    <3>2. QED BY <1>0, <2>1, <3>1 DEF WorkerTypeOK, Turns, TypeOK
  <2>4. QED BY <1>4, <2>2, <2>3
<1>5. ASSUME NEW p \in Procs, ThreadStep(p) \/ CloserStep(p)
      PROVE  WorkerTypeOK' /\ Turns'
  <2>1. /\ Procs = {p} /\ UNCHANGED <<phase, alive, owed>>
        /\ Thread(p) \in Drainers /\ Closer(p) \in Drainers
    BY <1>5, OwnersOfOne, OwnDrainers DEF ThreadStep, CloserStep, workerVars
  <2>2. \A q \in Procs : /\ pc'[Thread(q)] # "idle" => pc[Thread(q)] # "idle"
                         /\ pc'[Closer(q)] # "idle" => pc[Closer(q)] # "idle"
    <3>1. PICK d \in Drainers : DrainStep(d)
      BY <1>5, <2>1 DEF ThreadStep, CloserStep
    <3>2. \A h \in Drainers : pc'[h] # "idle" => pc[h] # "idle"
      BY <1>0, <3>1, DrainerBusy, DrainFrame
    <3>3. QED BY <2>1, <3>2
  <2>3. QED BY <2>1, <2>2 DEF WorkerTypeOK, Turns
<1>6. ASSUME NEW p \in Procs, ThreadOnClosed(p) \/ Kill(p)
      PROVE  WorkerTypeOK' /\ Turns'
  <2>1. /\ Procs = {p} /\ Drainers = {Thread(p), Closer(p)}
    BY OwnersOfOne
  <2>2. CASE ThreadOnClosed(p)
    <3>1. /\ UNCHANGED <<phase, alive, owed>>
          /\ \A d \in Drainers : pc'[d] # "idle" => pc[d] # "idle"
      BY <2>2 DEF ThreadOnClosed, Raise, Abort, workerVars
    <3>2. QED BY <2>1, <3>1 DEF WorkerTypeOK, Turns
  <2>3. CASE Kill(p)
    <3>1. /\ phase' = [phase EXCEPT ![p] = "down"]
          /\ alive' = [alive EXCEPT ![p] = FALSE]
          /\ owed' = [owed EXCEPT ![p] = {}]
          /\ \A d \in Drainers : pc'[d] = "idle"
      BY <2>1, <2>3 DEF Kill, Abort
    <3>2. QED BY <2>1, <3>1 DEF WorkerTypeOK, Turns
  <2>4. QED BY <1>6, <2>2, <2>3
<1>7. ASSUME NEW d \in Drainers, DbError(d)
      PROVE  WorkerTypeOK' /\ Turns'
  <2>1. /\ UNCHANGED <<phase, alive, owed>>
        /\ \A h \in Drainers : pc'[h] # "idle" => pc[h] # "idle"
    BY <1>7 DEF DbError, Raise, Abort, workerVars
  <2>2. QED BY <2>1, OwnDrainers DEF WorkerTypeOK, Turns
<1>8. QED BY <1>1, <1>2, <1>3, <1>4, <1>5, <1>6, <1>7 DEF WNext, OneWorker

\* With one worker whose thread is joined, whatever call of the storage fails and
\* wherever the process dies, drains take turns.
THEOREM TurnsInductive == ASSUME OneWorker PROVE WSpec => [](IInv /\ TurnsInv)
<1>1. IInv /\ TurnsInv /\ [WNext]_allVars => TurnsInv'
  BY TurnsStep, TurnsAlone, WorkerStepRefines, AloneAhead DEF TurnsInv
<1>2. WSpec => []IInv
  BY ProcessesDrain, Inductive, PTL
<1>3. QED BY <1>1, <1>2, TurnsInit, PTL DEF WSpec

\* claim_clean's "Lost updates are impossible by construction" (sqlite.py:462) for
\* one worker: a clean run nobody is projecting, and whose claim was not given
\* up, shows its whole log.
THEOREM OneWorkerLosesNothing == ASSUME OneWorker PROVE WSpec => []NoLostUpdate
<1>1. IInv /\ TurnsInv => NoLostUpdate
  BY DEF TurnsInv, IInv, Caught, HeldWhole, TotalsFromLog, NoLostUpdate,
         Claimed, Fresh
<1>2. QED BY <1>1, TurnsInductive, PTL

\* One worker implements the materialised view of MaterializedTotals: across
\* starts, stops, failures and deaths the columns show a part of the log that
\* only grows.
THEOREM OneWorkerImplementsView == ASSUME OneWorker PROVE WSpec => ImplementsView
<1>1. WInit => View!Init
  BY DEF WInit, Init, StoreInit, View!Init, View!NoTotals, NoTotals
<1>2. IInv /\ TurnsInv /\ [WNext]_allVars => [View!Next]_<<events, basis, totals>>
  BY WorkerStepRefines, TurnsAlone, AloneRefines DEF TurnsInv
<1>3. QED BY <1>1, <1>2, TurnsInductive, PTL DEF WSpec, ImplementsView, View!Spec
-----------------------------------------------------------------------------
\* The final drain.  A row stop() owes is counted, given up with its run, or
\* still ahead of the caller of stop(): the next batch is to be read, its run
\* is in the batch, or the caller has claimed its run and read it, or is to
\* read it.
Ahead(p, e) ==
  LET c == Closer(p) IN
  \/ pc[c] = "poll"
  \/ pc[c] \in {"batch", "claimed", "projected"} /\ (full[c] \/ e.run \in batch[c])
  \/ /\ cur[c] = e.run
     /\ pc[c] = "claimed" \/ (pc[c] = "projected" /\ e \in snap[c])

Counted(e) == e \in basis[e.run] \/ e.run \in orphaned

Owes ==
  \A p \in Procs :
    /\ owed[p] \subseteq events
    /\ phase[p] \in {"closing", "down"} =>
         \A e \in owed[p] : Counted(e) \/ Ahead(p, e)

\* A clean run, when the caller of stop() drains alone.
LEMMA CleanIsCounted ==
  ASSUME IInv, Alone, overtaken = {}, NEW p \in Procs, pc[Closer(p)] # "idle",
         pc[Closer(p)] \notin {"claimed", "projected"},
         NEW e \in events, ~dirty[e.run]
  PROVE  Counted(e)
<1>1. TypeOK /\ Closer(p) \in Drainers /\ e.run \in Runs /\ e \in Log(e.run)
  BY OwnDrainers, EventPoolAssumption DEF IInv, TypeOK, StoreTypeOK, Log
<1>2. \A d \in Drainers : cur[d] = NoRun
  BY <1>1 DEF IInv, HoldsBetweenClaimAndWrite, Alone
<1>3. ~HeldWhole(e.run)
  BY <1>1, <1>2, NoRunAssumption DEF HeldWhole
<1>4. QED BY <1>1, <1>3 DEF IInv, Caught, Counted

LEMMA CloserOwes ==
  ASSUME IInv, ReadsAhead, Alone, overtaken = {}, NEW p \in Procs,
         DrainStep(Closer(p)), NEW e \in events, Counted(e) \/ Ahead(p, e)
  PROVE  Counted(e)' \/ Ahead(p, e)'
<1> DEFINE c == Closer(p)
           r == e.run
<1>0. /\ TypeOK /\ c \in Drainers /\ e \in EventPool /\ r \in Runs
      /\ e \in Log(r) /\ pc[c] # "idle"
  BY OwnDrainers, EventPoolAssumption, DrainerBusy
     DEF IInv, TypeOK, StoreTypeOK, Log
<1>1. CASE Poll(c)
  <2> DEFINE ids == ReadDirty(BatchSize)
  <2>1. /\ pc[c] = "poll" /\ UNCHANGED <<basis, orphaned>>
        /\ batch' = [batch EXCEPT ![c] = ids]
        /\ full' = [full EXCEPT ![c] = Cardinality(ids) >= BatchSize]
        /\ pc' = [pc EXCEPT ![c] = IF ids = {} THEN "idle" ELSE "batch"]
    BY <1>1 DEF Poll, historyVars
  <2>2. CASE dirty[r]
    <3>1. r \in DirtyRows
      BY <1>0, <2>2 DEF IInv, AbsentIsClean, DirtyRows, Rows
    <3>2. ids # {}
      BY <3>1, EmptyBatchIsAll
    <3>3. pc'[c] = "batch" /\ batch'[c] = ids
      BY <1>0, <2>1, <3>2 DEF TypeOK
    <3>4. CASE r \in ids
      BY <3>3, <3>4 DEF Ahead
    <3>5. CASE r \notin ids
      <4>1. ~(Cardinality(ids) < BatchSize)
        BY <3>1, <3>5, ShortBatchIsAll
      <4>2. IsFiniteSet(ids)
        BY RunsAssumption, FS_Subset DEF ReadDirty, DirtyRows, Rows
      <4>3. Cardinality(ids) \in Nat
        BY <4>2, FS_CardinalityType
      <4>4. Cardinality(ids) >= BatchSize
        BY <4>1, <4>3, BatchSizeAssumption
      <4>5. full'[c]
        BY <1>0, <2>1, <4>4 DEF TypeOK
      <4>6. QED BY <3>3, <4>5 DEF Ahead
    <3>6. QED BY <3>4, <3>5
  <2>3. CASE ~dirty[r]
    <3>1. Counted(e)
      BY <1>0, <2>1, <2>3, CleanIsCounted
    <3>2. QED BY <2>1, <3>1 DEF Counted
  <2>4. QED BY <2>2, <2>3
<1>2. CASE Claim(c)
  <2>1. PICK q \in Runs :
          /\ pc[c] = "batch" /\ q \in batch[c]
          /\ batch' = [batch EXCEPT ![c] = @ \ {q}]
          /\ pc' = [pc EXCEPT ![c] = "claimed"]
          /\ cur' = [cur EXCEPT ![c] = q]
          /\ orphaned' = orphaned \ {q}
          /\ UNCHANGED <<full, basis>>
    BY <1>2 DEF Claim, NextRun
  <2>2. CASE q = r
    BY <1>0, <2>1, <2>2 DEF Ahead, TypeOK
  <2>3. CASE q # r
    BY <1>0, <2>1, <2>3 DEF Counted, Ahead, TypeOK
  <2>4. QED BY <2>2, <2>3
<1>3. CASE Skip(c)
  <2>1. PICK q \in Runs :
          /\ pc[c] = "batch" /\ ~dirty[q]
          /\ batch' = [batch EXCEPT ![c] = @ \ {q}]
          /\ UNCHANGED <<pc, full, cur, snap, basis, orphaned>>
    BY <1>3 DEF Skip, NextRun, historyVars
  <2>2. CASE q = r
    <3>1. Counted(e)
      BY <1>0, <2>1, <2>2, CleanIsCounted
    <3>2. QED BY <2>1, <3>1 DEF Counted
  <2>3. CASE q # r
    BY <1>0, <2>1, <2>3 DEF Counted, Ahead, TypeOK
  <2>4. QED BY <2>2, <2>3
<1>4. CASE ReadEvents(c)
  <2>1. /\ pc[c] = "claimed"
        /\ pc' = [pc EXCEPT ![c] = "projected"]
        /\ snap' = [snap EXCEPT ![c] = Log(cur[c])]
        /\ UNCHANGED <<batch, full, cur, basis, orphaned>>
    BY <1>4 DEF ReadEvents, historyVars
  <2>2. QED BY <1>0, <2>1 DEF Counted, Ahead, TypeOK
<1>5. CASE WriteBack(c)
  <2>1. /\ pc[c] = "projected"
        /\ pc' = [pc EXCEPT ![c] = "batch"]
        /\ basis' = [basis EXCEPT ![cur[c]] = snap[c]]
        /\ UNCHANGED <<batch, full, orphaned>>
    BY <1>5 DEF WriteBack
  <2>2. basis[cur[c]] \subseteq snap[c]
    BY <1>0, <2>1 DEF ReadsAhead
  <2>3. CASE cur[c] = r
    BY <1>0, <2>1, <2>2, <2>3 DEF Counted, Ahead, TypeOK
  <2>4. CASE cur[c] # r
    BY <1>0, <2>1, <2>4 DEF Counted, Ahead, TypeOK
  <2>5. QED BY <2>3, <2>4
<1>6. CASE EndBatch(c)
  <2>1. /\ pc[c] = "batch" /\ batch[c] = {}
        /\ pc' = [pc EXCEPT ![c] = IF full[c] THEN "poll" ELSE "idle"]
        /\ UNCHANGED <<basis, orphaned>>
    BY <1>6 DEF EndBatch, historyVars
  <2>2. QED BY <1>0, <2>1 DEF Counted, Ahead, TypeOK
<1>7. QED BY <1>1, <1>2, <1>3, <1>4, <1>5, <1>6 DEF DrainStep

LEMMA OwesInit == WInit => Owes
  BY DEF WInit, Owes

LEMMA OwesStep ==
  ASSUME OneWorker, "db_error" \notin Faults, IInv, TurnsInv, Owes,
         [WNext]_allVars
  PROVE  Owes'
<1>0. /\ TypeOK /\ WorkerTypeOK /\ Turns /\ ReadsAhead /\ Alone
      /\ overtaken = {}
  BY TurnsAlone DEF IInv, TurnsInv
<1>1. CASE UNCHANGED allVars
  BY <1>1 DEF allVars, vars, storeVars, drainVars, historyVars, workerVars, Owes,
              Counted, Ahead
<1>2. ASSUME NEW p \in Procs, Agent(p)
      PROVE  Owes'
  <2>1. /\ UNCHANGED <<pc, batch, full, cur, snap, basis, orphaned, phase, owed>>
        /\ events \subseteq events'
    BY <1>2 DEF Agent, Write, StartRun, EndRun, InsertEvent, drainVars,
                historyVars, workerVars
  <2>2. QED BY <2>1 DEF Owes, Counted, Ahead
<1>3. ASSUME NEW p \in Procs,
             \/ Instrument(p) \/ ThreadExit(p) \/ StopRequested(p) \/ Close(p)
      PROVE  Owes'
  <2>1. /\ UNCHANGED <<events, pc, batch, full, cur, snap, basis, orphaned>>
        /\ Procs = {p}
    BY <1>3, OwnersOfOne DEF Instrument, ThreadExit, StopRequested, Close, vars,
                             storeVars, drainVars, historyVars
  <2>2. CASE Instrument(p)
    BY <1>0, <2>1, <2>2 DEF Instrument, Owes, WorkerTypeOK
  <2>3. CASE ThreadExit(p)
    BY <2>1, <2>3 DEF ThreadExit, Owes, Counted, Ahead
  <2>4. CASE StopRequested(p)
    BY <1>0, <2>1, <2>4 DEF StopRequested, Owes, WorkerTypeOK
  <2>5. CASE Close(p)
    <3>1. /\ phase[p] = "closing" /\ phase' = [phase EXCEPT ![p] = "down"]
          /\ UNCHANGED owed
      BY <2>5 DEF Close
    <3>2. QED BY <1>0, <2>1, <3>1 DEF Owes, Counted, Ahead, WorkerTypeOK
  <2>6. QED BY <1>3, <2>2, <2>3, <2>4, <2>5
<1>4. ASSUME NEW p \in Procs, Tick(p)
      PROVE  Owes'
  <2>1. /\ Procs = {p} /\ phase[p] \in {"up", "joining"}
        /\ UNCHANGED <<events, phase, owed>>
    BY <1>0, <1>4, OwnersOfOne DEF Tick, Turns, storeVars, workerVars
  <2>2. QED BY <2>1 DEF Owes
<1>5. ASSUME NEW p \in Procs, FinalDrain(p)
      PROVE  Owes'
  <2>1. /\ Procs = {p} /\ UNCHANGED <<events, owed>>
        /\ pc'[Closer(p)] = "poll"
    BY <1>0, <1>5, OwnersOfOne, OwnDrainers
       DEF FinalDrain, BeginDrain, storeVars, TypeOK
  <2>2. QED BY <2>1 DEF Owes, Ahead
<1>6. ASSUME NEW p \in Procs, ThreadStep(p)
      PROVE  Owes'
  <2>1. /\ Procs = {p} /\ UNCHANGED <<events, phase, owed>>
    BY <1>6, OwnersOfOne
       DEF ThreadStep, DrainStep, Poll, Claim, ClaimClean, Skip, ReadEvents,
           WriteBack, WriteTotals, EndBatch, storeVars, workerVars
  <2>2. phase[p] \in {"up", "joining"}
    BY <1>0, <1>6, OwnDrainers, DrainerBusy DEF ThreadStep, Turns
  <2>3. QED BY <2>1, <2>2 DEF Owes
<1>7. ASSUME NEW p \in Procs, CloserStep(p)
      PROVE  Owes'
  <2>1. /\ Procs = {p} /\ UNCHANGED <<events, phase, owed>>
    BY <1>7, OwnersOfOne
       DEF CloserStep, DrainStep, Poll, Claim, ClaimClean, Skip, ReadEvents,
           WriteBack, WriteTotals, EndBatch, storeVars, workerVars
  <2>2. DrainStep(Closer(p))
    BY <1>7 DEF CloserStep
  <2>3. \A e \in owed[p] : /\ e \in events
                           /\ Counted(e) \/ Ahead(p, e)
                                => Counted(e)' \/ Ahead(p, e)'
    BY <1>0, <2>2, CloserOwes DEF Owes
  <2>4. QED BY <2>1, <2>3 DEF Owes
<1>8. ASSUME NEW p \in Procs, ThreadOnClosed(p)
      PROVE  FALSE
  BY <1>0, <1>8 DEF ThreadOnClosed, Open, Raise, Turns
<1>9. ASSUME NEW p \in Procs, Kill(p)
      PROVE  Owes'
  <2>1. Procs = {p} /\ owed'[p] = {}
    BY <1>0, <1>9, OwnersOfOne DEF Kill, WorkerTypeOK
  <2>2. QED BY <2>1 DEF Owes
<1>10. ASSUME NEW d \in Drainers, DbError(d)
       PROVE  FALSE
  BY <1>10 DEF DbError
<1>11. QED
  BY <1>1, <1>2, <1>3, <1>4, <1>5, <1>6, <1>7, <1>8, <1>9, <1>10
     DEF WNext, OneWorker

\* stop()'s "one final pass so events that arrived just before stop are
\* reflected" (aggregator.py:236), for any log, any batch limit and any number of
\* starts and deaths: a stop whose storage calls all return, called with a
\* thread that is joined, leaves no row of the log out of the columns.
THEOREM StopReflectsTheLog ==
  ASSUME OneWorker, "db_error" \notin Faults
  PROVE  WSpec => []StopReflects
<1>1. IInv /\ TurnsInv /\ Owes /\ [WNext]_allVars => Owes'
  BY OwesStep
<1>2. TurnsInv /\ Owes => StopReflects
  <2> SUFFICES ASSUME TurnsInv, Owes, NEW p \in Procs, phase[p] = "down",
                      NEW e \in owed[p]
               PROVE  e \in basis[e.run] \/ e.run \in orphaned
    BY DEF StopReflects
  <2>1. pc[Closer(p)] = "idle"
    BY DEF TurnsInv, Turns
  <2>2. Counted(e) \/ Ahead(p, e)
    BY DEF Owes
  <2>3. QED BY <2>1, <2>2 DEF Counted, Ahead
<1>3. QED BY <1>1, <1>2, TurnsInductive, OwesInit, PTL DEF WSpec
=============================================================================
