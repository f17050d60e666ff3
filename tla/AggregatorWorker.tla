-------------------------- MODULE AggregatorWorker --------------------------
(***************************************************************************)
(* The in-process aggregator of SQLite deployments.  Every instrumented    *)
(* process runs a worker thread that drains on an interval; stop() signals *)
(* the thread, joins it for at most its timeout, and drains once more on   *)
(* the caller's thread; instrument.shutdown then closes the storage.       *)
(* `inkfoot rebuild-aggregates` is another process on the same database:   *)
(* it marks every run dirty and drains once.                               *)
(*                                                                         *)
(* A process p drains through two drainers: <<p, "thread">> and            *)
(* <<p, "closer">>, the caller of stop().                                  *)
(***************************************************************************)
EXTENDS Drain

CONSTANTS
  Procs,       \* the instrumented processes that share the database
  Rebuilders,  \* rebuild-aggregates commands, each run at most once
  Faults,      \* what may go wrong: a subset of FaultKinds
  MaxStarts    \* how often instrument() is called, over all processes

FaultKinds == {"db_error", "kill", "join_timeout"}

Thread(p) == <<p, "thread">>
Closer(p) == <<p, "closer">>

ASSUME FaultsAssumption == Faults \subseteq FaultKinds
ASSUME DrainersAssumption ==
  Drainers = (Procs \X {"thread", "closer"}) \union Rebuilders

VARIABLES
  phase,    \* "down", "up", "joining" and "closing" within stop(), of a process
  alive,    \* whether its worker thread runs
  stop,     \* its stop event
  rebuilt,  \* the rebuild-aggregates commands that have started
  starts,   \* instrument() calls so far
  owed      \* history: the rows stop() found in the log when it was called

workerVars == <<phase, alive, stop, rebuilt, starts, owed>>
allVars == <<vars, workerVars>>

WInit ==
  /\ Init
  /\ phase = [p \in Procs |-> "down"]
  /\ alive = [p \in Procs |-> FALSE]
  /\ stop = [p \in Procs |-> FALSE]
  /\ rebuilt = {}
  /\ starts = 0
  /\ owed = [p \in Procs |-> {}]

\* The storage of p answers between instrument() and close().
Open(p) == phase[p] # "down"

-----------------------------------------------------------------------------
\* The agent: shims stay installed until the storage is closed.

Agent(p) ==
  /\ Open(p)
  /\ Write
  /\ UNCHANGED workerVars

\* instrument(): connect the storage, start a worker.  A process instruments
\* again only once the thread of its last worker is gone.
Instrument(p) ==
  /\ phase[p] = "down"
  /\ ~alive[p]
  /\ starts < MaxStarts
  /\ starts' = starts + 1
  /\ phase' = [phase EXCEPT ![p] = "up"]
  /\ alive' = [alive EXCEPT ![p] = TRUE]
  /\ stop' = [stop EXCEPT ![p] = FALSE]
  /\ owed' = [owed EXCEPT ![p] = {}]
  /\ UNCHANGED <<vars, rebuilt>>

-----------------------------------------------------------------------------
\* The worker thread: _run.

Tick(p) ==
  /\ alive[p]
  /\ ~stop[p]
  /\ BeginDrain(Thread(p))
  /\ UNCHANGED <<storeVars, workerVars>>

ThreadStep(p) ==
  /\ Open(p)
  /\ DrainStep(Thread(p))
  /\ UNCHANGED workerVars

\* The loop tests the stop event only between two drains.
ThreadExit(p) ==
  /\ alive[p]
  /\ stop[p]
  /\ pc[Thread(p)] = "idle"
  /\ alive' = [alive EXCEPT ![p] = FALSE]
  /\ UNCHANGED <<vars, phase, stop, rebuilt, starts, owed>>

\* The storage was closed under a thread still draining: its next call raises.
ThreadOnClosed(p) ==
  /\ ~Open(p)
  /\ Raise(Thread(p))
  /\ UNCHANGED workerVars

-----------------------------------------------------------------------------
\* shutdown(): stop() and close().

StopRequested(p) ==
  /\ phase[p] = "up"
  /\ phase' = [phase EXCEPT ![p] = "joining"]
  /\ stop' = [stop EXCEPT ![p] = TRUE]
  /\ owed' = [owed EXCEPT ![p] = events]
  /\ UNCHANGED <<vars, alive, rebuilt, starts>>

\* Mutant: stop() does not drain.
FinalDrainSkipped(p) ==
  /\ phase[p] = "joining"
  /\ ~alive[p]
  /\ phase' = [phase EXCEPT ![p] = "closing"]
  /\ UNCHANGED <<vars, alive, stop, rebuilt, starts, owed>>

\* join returns, because the thread ended or because of its timeout.
FinalDrain(p) ==
  /\ phase[p] = "joining"
  /\ ~alive[p] \/ "join_timeout" \in Faults
  /\ phase' = [phase EXCEPT ![p] = "closing"]
  /\ BeginDrain(Closer(p))
  /\ UNCHANGED <<storeVars, alive, stop, rebuilt, starts, owed>>

CloserStep(p) ==
  /\ Open(p)
  /\ DrainStep(Closer(p))
  /\ UNCHANGED workerVars

Close(p) ==
  /\ phase[p] = "closing"
  /\ pc[Closer(p)] = "idle"
  /\ phase' = [phase EXCEPT ![p] = "down"]
  /\ UNCHANGED <<vars, alive, stop, rebuilt, starts, owed>>

-----------------------------------------------------------------------------
\* rebuild-aggregates.

Rebuild(q) ==
  /\ q \notin rebuilt
  /\ rebuilt' = rebuilt \union {q}
  /\ MarkAllDirty
  /\ BeginDrain(q)
  /\ UNCHANGED <<phase, alive, stop, starts, owed>>

RebuildStep(q) ==
  /\ DrainStep(q)
  /\ UNCHANGED workerVars

-----------------------------------------------------------------------------
\* What goes wrong.

DbError(d) ==
  /\ "db_error" \in Faults
  /\ Raise(d)
  /\ UNCHANGED workerVars

Kill(p) ==
  /\ "kill" \in Faults
  /\ Open(p)
  /\ Abort({Thread(p), Closer(p)})
  /\ phase' = [phase EXCEPT ![p] = "down"]
  /\ alive' = [alive EXCEPT ![p] = FALSE]
  /\ owed' = [owed EXCEPT ![p] = {}]
  /\ UNCHANGED <<stop, rebuilt, starts>>

-----------------------------------------------------------------------------
WNext ==
  \/ \E p \in Procs :
       \/ Agent(p)
       \/ Instrument(p)
       \/ Tick(p)
       \/ ThreadStep(p)
       \/ ThreadExit(p)
       \/ ThreadOnClosed(p)
       \/ StopRequested(p)
       \/ FinalDrain(p)
       \/ CloserStep(p)
       \/ Close(p)
       \/ Kill(p)
  \/ \E q \in Rebuilders : Rebuild(q) \/ RebuildStep(q)
  \/ \E d \in Drainers : DbError(d)

WSpec == WInit /\ [][WNext]_allVars

\* Threads are scheduled; nothing forces an agent to write or to shut down.
Fairness ==
  \A p \in Procs :
    /\ WF_allVars(Tick(p))
    /\ WF_allVars(ThreadStep(p))
    /\ WF_allVars(ThreadExit(p))
    /\ WF_allVars(FinalDrain(p))
    /\ WF_allVars(CloserStep(p))

FairSpec == WSpec /\ Fairness

-----------------------------------------------------------------------------
\* stop() drains "one final pass so events that arrived just before stop are
\* reflected" (aggregator.py:236): once the storage is closed, every row the
\* log held when stop() was called is counted, unless a claim on its run was
\* given up.
StopReflects ==
  \A p \in Procs :
    phase[p] = "down" =>
      \A e \in owed[p] : e \in basis[e.run] \/ e.run \in orphaned

\* Every row is eventually counted as long as a worker stays up: neither an
\* interleaving of inserts with the drain nor the batch limit makes the
\* drain miss a row forever.  Only a run whose claim a killed process took
\* along may stay behind.
EventuallyCounted ==
  \A e \in EventPool :
    e \in events ~> \/ e \in basis[e.run]
                    \/ e.run \in orphaned
                    \/ \A p \in Procs : phase[p] # "up"
=============================================================================
