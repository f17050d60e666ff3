------------------------- MODULE PostgresAggregator -------------------------
(***************************************************************************)
(* The aggregator of Postgres deployments: agents only write, and any      *)
(* number of `inkfoot aggregator-worker` processes sweep.  A worker takes  *)
(* a session-level advisory lock on a connection of its own, drains, beats *)
(* its heart and unlocks.  The drain goes through the storage's pool, so   *)
(* nothing ties it to the session that holds the lock.                     *)
(***************************************************************************)
EXTENDS Drain

CONSTANTS
  Nobody,     \* the value of holder when the lock is free
  DeadSession, \* the holder when its process died and the server does not know
  Faults,     \* what may go wrong: a subset of FaultKinds
  MaxStarts,  \* how often a worker is started, over all workers
  MaxFaults   \* how many faults happen, over all kinds

FaultKinds == {"db_error", "kill", "session_loss"}

ASSUME FaultsAssumption == Faults \subseteq FaultKinds
ASSUME HolderAssumption ==
  Nobody \notin Drainers /\ DeadSession \notin Drainers /\ Nobody # DeadSession
ASSUME BoundsAssumption == MaxStarts \in Nat /\ MaxFaults \in Nat

VARIABLES
  stage,   \* where each worker is in run_forever and sweep_once
  once,    \* whether it was started with --once
  stop,    \* its stop event
  conn,    \* its lock session: "none", "open", or "cut" when the server has
           \* ended it and the worker has not used it since
  holder,  \* the session that holds the advisory lock
  beat,    \* the heartbeat row: "none", or "fresh" or "stale" for --health
  starts,  \* workers started so far
  faults   \* faults so far

workerVars == <<stage, once, stop, conn, holder, beat, starts, faults>>
allVars == <<vars, workerVars>>

Workers == Drainers

PInit ==
  /\ Init
  /\ stage = [w \in Workers |-> "off"]
  /\ once = [w \in Workers |-> FALSE]
  /\ stop = [w \in Workers |-> FALSE]
  /\ conn = [w \in Workers |-> "none"]
  /\ holder = Nobody
  /\ beat = "none"
  /\ starts = 0
  /\ faults = 0

At(w, s) == stage[w] = s
Goto(w, s) == stage' = [stage EXCEPT ![w] = s]
Session(w, c) == conn' = [conn EXCEPT ![w] = c]

Fault(kind) ==
  /\ kind \in Faults
  /\ faults < MaxFaults
  /\ faults' = faults + 1

-----------------------------------------------------------------------------
Agent == Write /\ UNCHANGED workerVars

\* The command: connect, then sweep once or loop.
Start(w) ==
  /\ At(w, "off")
  /\ starts < MaxStarts
  /\ starts' = starts + 1
  /\ Session(w, "open")
  /\ stop' = [stop EXCEPT ![w] = FALSE]
  /\ \E o \in BOOLEAN :
       /\ once' = [once EXCEPT ![w] = o]
       /\ Goto(w, IF o THEN "locking" ELSE "top")
  /\ UNCHANGED <<vars, holder, beat, faults>>

\* SIGTERM or SIGINT; with --once no handler is installed.
Stop(w) ==
  /\ ~At(w, "off")
  /\ ~once[w]
  /\ stop' = [stop EXCEPT ![w] = TRUE]
  /\ UNCHANGED <<vars, stage, once, conn, holder, beat, starts, faults>>

-----------------------------------------------------------------------------
\* run_forever and sweep_once.

\* connect() sees only a session that the worker itself closed.
Tick(w) ==
  /\ At(w, "top")
  /\ ~stop[w]
  /\ Session(w, IF conn[w] = "none" THEN "open" ELSE conn[w])
  /\ Goto(w, "locking")
  /\ UNCHANGED <<vars, once, stop, holder, beat, starts, faults>>

Exit(w) ==
  /\ At(w, "top")
  /\ stop[w]
  /\ Session(w, "none")
  /\ Goto(w, "off")
  /\ UNCHANGED <<vars, once, stop, holder, beat, starts, faults>>

\* Mutant: the result of _try_lock is ignored.
AcquireAnyway(w) ==
  /\ At(w, "locking")
  /\ conn[w] = "open"
  /\ holder' = w
  /\ BeginDrain(w)
  /\ Goto(w, "sweeping")
  /\ UNCHANGED <<storeVars, once, stop, conn, beat, starts, faults>>

\* _try_lock returns True.  It returns False while another session holds the
\* lock, and the worker asks again.
Acquire(w) ==
  /\ At(w, "locking")
  /\ conn[w] = "open"
  /\ holder = Nobody
  /\ holder' = w
  /\ BeginDrain(w)
  /\ Goto(w, "sweeping")
  /\ UNCHANGED <<storeVars, once, stop, conn, beat, starts, faults>>

\* The stop event is tested only after an attempt that failed.
GiveUp(w) ==
  /\ At(w, "locking")
  /\ conn[w] = "open"
  /\ holder # Nobody
  /\ stop[w]
  /\ Goto(w, "top")
  /\ UNCHANGED <<vars, once, stop, conn, holder, beat, starts, faults>>

\* Mutant: run_forever keeps the session that failed.
LockRaisesAgain(w) ==
  /\ At(w, "locking")
  /\ conn[w] = "cut"
  /\ Goto(w, IF once[w] THEN "off" ELSE "top")
  /\ UNCHANGED <<vars, once, stop, conn, holder, beat, starts, faults>>

\* _try_lock raises: run_forever closes the session, --once ends the command.
LockRaises(w) ==
  /\ At(w, "locking")
  /\ conn[w] = "cut"
  /\ Session(w, "none")
  /\ Goto(w, IF once[w] THEN "off" ELSE "top")
  /\ UNCHANGED <<vars, once, stop, holder, beat, starts, faults>>

SweepStep(w) ==
  /\ At(w, "sweeping")
  /\ DrainStep(w)
  /\ UNCHANGED workerVars

\* Mutant: the upsert of the heartbeat does nothing on conflict.
HeartbeatOnce(w) ==
  /\ At(w, "sweeping")
  /\ pc[w] = "idle"
  /\ Goto(w, "unlocking")
  /\ beat' = IF beat = "none" THEN "fresh" ELSE beat
  /\ UNCHANGED <<vars, once, stop, conn, holder, starts, faults>>

\* drain_once has returned; the heartbeat is written or its failure swallowed.
Heartbeat(w) ==
  /\ At(w, "sweeping")
  /\ pc[w] = "idle"
  /\ Goto(w, "unlocking")
  /\ \/ beat' = "fresh" /\ UNCHANGED faults
     \/ Fault("db_error") /\ UNCHANGED beat
  /\ UNCHANGED <<vars, once, stop, conn, holder, starts>>

\* The finally clause.  On a cut session the unlock raises, which is swallowed
\* and leaves the connection closed; an exception out of the drain closes it too.
Unlock(w) ==
  /\ stage[w] \in {"unlocking", "failing"}
  /\ holder' = IF conn[w] = "open" THEN Nobody ELSE holder
  /\ Session(w, IF At(w, "failing") \/ conn[w] = "cut" \/ once[w]
                THEN "none" ELSE conn[w])
  /\ Goto(w, IF once[w] THEN "off" ELSE "top")
  /\ UNCHANGED <<vars, once, stop, beat, starts, faults>>

WorkerStep(w) ==
  \/ Tick(w)
  \/ Exit(w)
  \/ Acquire(w)
  \/ GiveUp(w)
  \/ LockRaises(w)
  \/ SweepStep(w)
  \/ Heartbeat(w)
  \/ Unlock(w)

-----------------------------------------------------------------------------
\* What goes wrong, and the server and the clock.

DbError(w) ==
  /\ Fault("db_error")
  /\ At(w, "sweeping")
  /\ Raise(w)
  /\ Goto(w, "failing")
  /\ UNCHANGED <<once, stop, conn, holder, beat, starts>>

Kill(w) ==
  /\ Fault("kill")
  /\ ~At(w, "off")
  /\ Abort({w})
  /\ Goto(w, "off")
  /\ Session(w, "none")
  /\ holder' = IF holder = w THEN DeadSession ELSE holder
  /\ UNCHANGED <<once, stop, beat, starts>>

\* The server drops the session of a process that is gone, and its lock.
Reap ==
  /\ holder = DeadSession
  /\ holder' = Nobody
  /\ UNCHANGED <<vars, stage, once, stop, conn, beat, starts, faults>>

\* The server drops the session of a live worker (a network blip, an idle
\* timeout, pg_terminate_backend), and its lock.
SessionLoss(w) ==
  /\ Fault("session_loss")
  /\ conn[w] = "open"
  /\ Session(w, "cut")
  /\ holder' = IF holder = w THEN Nobody ELSE holder
  /\ UNCHANGED <<vars, stage, once, stop, beat, starts>>

\* max_age_s pass without a heartbeat.
Age ==
  /\ beat = "fresh"
  /\ beat' = "stale"
  /\ UNCHANGED <<vars, stage, once, stop, conn, holder, starts, faults>>

PNext ==
  \/ Agent
  \/ Reap
  \/ Age
  \/ \E w \in Workers :
       \/ Start(w)
       \/ Stop(w)
       \/ WorkerStep(w)
       \/ DbError(w)
       \/ Kill(w)
       \/ SessionLoss(w)

PSpec == PInit /\ [][PNext]_allVars

\* A started worker is scheduled, and the server notices a dead client.
Fairness ==
  /\ \A w \in Workers : WF_allVars(WorkerStep(w))
  /\ WF_allVars(Reap)

FairSpec == PSpec /\ Fairness

-----------------------------------------------------------------------------
Sweeping(w) == stage[w] = "sweeping"

\* "exactly one worker sweeps at a time" (docs/concepts/postgres.md:98).
OneSweeper ==
  \A v, w \in Workers : Sweeping(v) /\ Sweeping(w) => v = w

\* A worker left to itself: it is up, loops, and nobody asked it to stop.
Serving(w) == ~At(w, "off") /\ ~once[w] /\ ~stop[w]

\* Fail-over: while some worker serves, every row is counted in the end, or
\* its run is orphaned or overtaken, whichever worker dies, fails or loses its
\* session, and wherever in its sweep it does.
EventuallyCounted ==
  \A e \in EventPool :
    e \in events ~> \/ e \in basis[e.run]
                    \/ e.run \in orphaned \union overtaken
                    \/ \A w \in Workers : ~Serving(w)

\* "an idle-but-healthy worker stays green" (docs/concepts/postgres.md:107):
\* while some worker serves, the probe turns green again after every time it
\* was not, fail-over included.
HealthRecovers ==
  beat # "fresh" ~> beat = "fresh" \/ \A w \in Workers : ~Serving(w)
=============================================================================
