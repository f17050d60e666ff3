---------------------- MODULE PostgresAggregatorProofs ----------------------
(***************************************************************************)
(* The advisory lock makes the drain safe: for every number of workers and *)
(* runs, and whatever workers fail or die, as long as the server never     *)
(* drops the lock session of a live worker.                                *)
(*                                                                         *)
(* Every step of the workers is a step of Drain or leaves its variables    *)
(* alone, so the invariant of DrainProofs holds here too.  LockInv adds    *)
(* that whoever is between _try_lock and _unlock holds the lock on an open *)
(* session, that a drain runs only there, and, since one drain runs at a   *)
(* time, that what a drainer has read contains what the columns count.     *)
(***************************************************************************)
EXTENDS PostgresAggregator, DrainProofs

NoSessionLoss == "session_loss" \notin Faults

Critical == {"sweeping", "unlocking", "failing"}

WorkerTypeOK ==
  /\ stage \in [Workers -> {"off", "top", "locking"} \union Critical]
  /\ conn \in [Workers -> {"none", "open"}]

LockHeld == \A w \in Workers : stage[w] \in Critical =>
                                 holder = w /\ conn[w] = "open"

DrainsInSweep == \A w \in Workers : pc[w] # "idle" => stage[w] = "sweeping"

LockInv ==
  /\ WorkerTypeOK
  /\ LockHeld
  /\ DrainsInSweep
  /\ ReadsAhead
  /\ overtaken = {}

-----------------------------------------------------------------------------
\* A step of the workers, seen by the tables and the drains.
LEMMA StepRefines == [PNext]_allVars => [Next]_vars
<1> SUFFICES ASSUME [PNext]_allVars PROVE [Next]_vars
  OBVIOUS
<1>1. CASE Agent
  BY <1>1 DEF Agent, Next
<1>2. CASE Reap \/ Age
  BY <1>2 DEF Reap, Age
<1>3. ASSUME NEW w \in Workers, Start(w) \/ Stop(w) \/ SessionLoss(w)
      PROVE  UNCHANGED vars
  BY <1>3 DEF Start, Stop, SessionLoss
<1>4. ASSUME NEW w \in Workers, WorkerStep(w)
      PROVE  [Next]_vars
  <2>1. CASE Acquire(w)
    BY <2>1 DEF Acquire, Next, Workers
  <2>2. CASE SweepStep(w)
    BY <2>2 DEF SweepStep, Next, Workers
  <2>3. CASE Tick(w) \/ Exit(w) \/ GiveUp(w) \/ LockRaises(w)
             \/ Heartbeat(w) \/ Unlock(w)
    BY <2>3 DEF Tick, Exit, GiveUp, LockRaises, Heartbeat, Unlock
  <2>4. QED BY <1>4, <2>1, <2>2, <2>3 DEF WorkerStep
<1>5. ASSUME NEW w \in Workers, DbError(w) \/ Kill(w)
      PROVE  Next
  <2>1. Abort({w}) /\ {w} \in SUBSET Drainers
    BY <1>5 DEF DbError, Kill, Raise, Workers
  <2>2. QED BY <2>1 DEF Next
<1>6. CASE UNCHANGED allVars
  BY <1>6 DEF allVars
<1>7. QED BY <1>1, <1>2, <1>3, <1>4, <1>5, <1>6 DEF PNext

\* Whatever the workers do, lock or no lock, is a behaviour of Drain: all that
\* DrainProofs proves holds of them.
THEOREM WorkersDrain == PSpec => Spec
<1>1. PInit => Init
  BY DEF PInit
<1>2. QED BY <1>1, StepRefines, PTL DEF PSpec, Spec

-----------------------------------------------------------------------------
\* Nobody has started.
LEMMA LockInit == PInit => LockInv
  BY DEF PInit, Init, LockInv, WorkerTypeOK, LockHeld, DrainsInSweep,
         ReadsAhead, Critical, Workers

\* A step that leaves the drains and the tables alone keeps what LockInv says
\* of them.
LEMMA CalmDrain ==
  ASSUME LockInv, UNCHANGED vars
  PROVE  ReadsAhead' /\ overtaken' = {} /\ pc' = pc
BY DEF LockInv, ReadsAhead, vars, drainVars, historyVars

\* The steps of the loop around the drain, the server's and the clock's.
LEMMA LoopStep ==
  ASSUME NoSessionLoss, IInv, LockInv,
         \/ Reap \/ Age
         \/ \E w \in Workers : \/ Start(w) \/ Stop(w) \/ Tick(w) \/ Exit(w)
                               \/ GiveUp(w) \/ LockRaises(w) \/ Heartbeat(w)
                               \/ Unlock(w) \/ SessionLoss(w)
  PROVE  LockInv'
<1>0. WorkerTypeOK /\ LockHeld /\ DrainsInSweep
  BY DEF LockInv
<1>1. CASE Reap \/ Age
  <2>1. UNCHANGED <<vars, stage, conn>>
    BY <1>1 DEF Reap, Age
  <2>2. \A w \in Workers : holder = w => holder' = w
    BY <1>1, HolderAssumption DEF Reap, Age, Workers
  <2>3. WorkerTypeOK' /\ LockHeld'
    BY <1>0, <2>1, <2>2 DEF WorkerTypeOK, LockHeld
  <2>4. DrainsInSweep'
    BY <1>0, <2>1, CalmDrain DEF DrainsInSweep
  <2>5. QED BY <2>1, <2>3, <2>4, CalmDrain DEF LockInv
<1>2. ASSUME NEW w \in Workers,
             \/ Start(w) \/ Stop(w) \/ Tick(w) \/ Exit(w) \/ GiveUp(w)
             \/ LockRaises(w) \/ Heartbeat(w)
      PROVE  LockInv'
  <2>1. UNCHANGED vars /\ holder' = holder
    BY <1>2 DEF Start, Stop, Tick, Exit, GiveUp, LockRaises, Heartbeat
  <2>2. \/ /\ stage[w] \notin Critical
           /\ \E s \in {"off", "top", "locking"} :
                stage' = [stage EXCEPT ![w] = s]
           /\ \E c \in {"none", "open"} : conn' = [conn EXCEPT ![w] = c]
        \/ UNCHANGED <<stage, conn>>
        \/ /\ stage[w] = "sweeping" /\ pc[w] = "idle"
           /\ stage' = [stage EXCEPT ![w] = "unlocking"]
           /\ UNCHANGED conn
    <3>1. CASE Start(w)
      BY <3>1 DEF Start, At, Goto, Session, Critical
    <3>2. CASE Stop(w)
      BY <3>2 DEF Stop
    <3>3. CASE Tick(w)
      BY <3>3, <1>0 DEF Tick, At, Goto, Session, Critical, WorkerTypeOK
    <3>4. CASE Exit(w)
      BY <3>4 DEF Exit, At, Goto, Session, Critical
    <3>5. CASE GiveUp(w)
      <4>1. conn' = [conn EXCEPT ![w] = conn[w]] /\ conn[w] = "open"
        BY <3>5, <1>0 DEF GiveUp, WorkerTypeOK
      <4>2. QED BY <4>1, <3>5 DEF GiveUp, At, Goto, Critical
    <3>6. CASE LockRaises(w)
      BY <3>6 DEF LockRaises, At, Goto, Session, Critical
    <3>7. CASE Heartbeat(w)
      BY <3>7 DEF Heartbeat, At, Goto
    <3>8. QED BY <1>2, <3>1, <3>2, <3>3, <3>4, <3>5, <3>6, <3>7
  <2>3. WorkerTypeOK'
    BY <1>0, <2>2 DEF WorkerTypeOK, Critical
  <2>4. LockHeld'
    BY <1>0, <2>1, <2>2 DEF WorkerTypeOK, LockHeld, Critical
  <2>5. DrainsInSweep'
    BY <1>0, <2>1, <2>2, CalmDrain DEF WorkerTypeOK, DrainsInSweep, Critical
  <2>6. QED BY <2>1, <2>3, <2>4, <2>5, CalmDrain DEF LockInv
<1>3. ASSUME NEW w \in Workers, Unlock(w)
      PROVE  LockInv'
  <2>1. stage[w] \in {"unlocking", "failing"} /\ holder = w /\ conn[w] = "open"
    BY <1>0, <1>3 DEF Unlock, LockHeld, Critical
  <2>2. \A v \in Workers \ {w} : stage[v] \notin Critical
    BY <1>0, <2>1 DEF LockHeld
  <2>3. /\ UNCHANGED vars
        /\ \E s \in {"off", "top"} : stage' = [stage EXCEPT ![w] = s]
        /\ \E c \in {"none", "open"} : conn' = [conn EXCEPT ![w] = c]
    BY <1>3, <2>1 DEF Unlock, Goto, Session
  <2>4. WorkerTypeOK' /\ LockHeld'
    BY <1>0, <2>2, <2>3 DEF WorkerTypeOK, LockHeld, Critical
  <2>5. DrainsInSweep'
    BY <1>0, <2>1, <2>3, CalmDrain DEF DrainsInSweep, WorkerTypeOK
  <2>6. QED BY <2>3, <2>4, <2>5, CalmDrain DEF LockInv
<1>4. ASSUME NEW w \in Workers, SessionLoss(w)
      PROVE  FALSE
  BY <1>4 DEF SessionLoss, Fault, NoSessionLoss
<1>5. QED BY <1>1, <1>2, <1>3, <1>4

\* Whoever drains is in a sweep, and holds the lock: there is one.
LEMMA LockAlone == ASSUME LockInv PROVE Alone
BY DEF LockInv, Alone, DrainsInSweep, LockHeld, Critical, Workers

\* A drain step of the one sweeper.
LEMMA SweepLock ==
  ASSUME IInv, LockInv, NEW w \in Workers, SweepStep(w)
  PROVE  LockInv'
<1>0. /\ TypeOK /\ w \in Drainers /\ DrainStep(w) /\ stage[w] = "sweeping"
      /\ UNCHANGED <<stage, conn, holder>>
      /\ WorkerTypeOK /\ LockHeld /\ DrainsInSweep /\ ReadsAhead
      /\ overtaken = {}
  BY DEF IInv, LockInv, SweepStep, Workers, At, workerVars
<1>1. \A v \in Workers \ {w} : pc[v] = "idle" /\ pc'[v] = "idle"
  <2>1. \A v \in Workers \ {w} : stage[v] # "sweeping"
    BY <1>0 DEF LockHeld, Critical
  <2>2. QED BY <1>0, <2>1, DrainFrame DEF DrainsInSweep, Workers
<1>2. WorkerTypeOK' /\ LockHeld'
  BY <1>0 DEF WorkerTypeOK, LockHeld
<1>3. DrainsInSweep'
  BY <1>0, <1>1 DEF DrainsInSweep
<1>4. ReadsAhead' /\ overtaken' = {}
  <2>1. Next
    BY <1>0 DEF Next
  <2>2. QED BY <2>1, <1>0, LockAlone, AloneAhead
<1>5. QED BY <1>2, <1>3, <1>4 DEF LockInv

\* The lock is taken, a sweep begins.
LEMMA AcquireLock ==
  ASSUME IInv, LockInv, NEW w \in Workers, Acquire(w)
  PROVE  LockInv'
<1>0. /\ TypeOK /\ WorkerTypeOK /\ LockHeld /\ DrainsInSweep /\ ReadsAhead
      /\ conn[w] = "open" /\ holder = Nobody /\ holder' = w /\ conn' = conn
      /\ stage' = [stage EXCEPT ![w] = "sweeping"]
      /\ pc' = [pc EXCEPT ![w] = "poll"]
      /\ UNCHANGED <<cur, snap, basis, overtaken>>
      /\ overtaken = {}
  BY DEF IInv, LockInv, Acquire, BeginDrain, Goto, historyVars
<1>1. \A v \in Workers : stage[v] \notin Critical
  BY <1>0, HolderAssumption DEF LockHeld, Workers
<1>2. WorkerTypeOK' /\ LockHeld'
  BY <1>0, <1>1 DEF WorkerTypeOK, LockHeld, Critical
<1>3. DrainsInSweep' /\ ReadsAhead'
  BY <1>0 DEF DrainsInSweep, ReadsAhead, WorkerTypeOK, TypeOK, Workers
<1>4. QED BY <1>0, <1>2, <1>3 DEF LockInv

\* A drain fails or its process dies, with its lock.
LEMMA AbortLock ==
  ASSUME IInv, LockInv, NEW w \in Workers, DbError(w) \/ Kill(w)
  PROVE  LockInv'
<1>0. /\ WorkerTypeOK /\ LockHeld /\ DrainsInSweep /\ ReadsAhead
      /\ overtaken = {} /\ Abort({w})
  BY DEF LockInv, DbError, Kill, Raise
<1>1. /\ pc' = [d \in Drainers |-> IF d = w THEN "idle" ELSE pc[d]]
      /\ \A v \in Drainers \ {w} : cur'[v] = cur[v] /\ snap'[v] = snap[v]
      /\ UNCHANGED <<basis, overtaken>>
  BY <1>0 DEF Abort
<1>2. ReadsAhead' /\ overtaken' = {}
  BY <1>0, <1>1 DEF ReadsAhead, Workers
<1>3. CASE DbError(w)
  <2>1. /\ stage[w] = "sweeping"
        /\ stage' = [stage EXCEPT ![w] = "failing"]
        /\ UNCHANGED <<conn, holder>>
    BY <1>3 DEF DbError, At, Goto
  <2>2. WorkerTypeOK' /\ LockHeld'
    BY <1>0, <2>1 DEF WorkerTypeOK, LockHeld, Critical
  <2>3. DrainsInSweep'
    BY <1>0, <1>1, <2>1 DEF DrainsInSweep, WorkerTypeOK, Workers
  <2>4. QED BY <1>2, <2>2, <2>3 DEF LockInv
<1>4. CASE Kill(w)
  <2>1. /\ stage' = [stage EXCEPT ![w] = "off"]
        /\ conn' = [conn EXCEPT ![w] = "none"]
        /\ holder # w => holder' = holder
    BY <1>4 DEF Kill, Goto, Session
  <2>2. WorkerTypeOK' /\ LockHeld'
    BY <1>0, <2>1 DEF WorkerTypeOK, LockHeld, Critical
  <2>3. DrainsInSweep'
    BY <1>0, <1>1, <2>1 DEF DrainsInSweep, WorkerTypeOK, Workers
  <2>4. QED BY <1>2, <2>2, <2>3 DEF LockInv
<1>5. QED BY <1>3, <1>4

\* An agent writes: the drains and the lock are out of its reach.
LEMMA AgentLock ==
  ASSUME LockInv, Agent
  PROVE  LockInv'
BY DEF LockInv, Agent, Write, WorkerTypeOK, LockHeld, DrainsInSweep,
       ReadsAhead, workerVars, drainVars, historyVars

LEMMA LockIdle ==
  ASSUME LockInv, UNCHANGED allVars
  PROVE  LockInv'
BY DEF LockInv, allVars, WorkerTypeOK, LockHeld, DrainsInSweep, ReadsAhead,
       vars, workerVars, drainVars, historyVars

-----------------------------------------------------------------------------
\* LockInv is invariant as long as no live worker loses its session.
THEOREM LockInductive ==
  ASSUME NoSessionLoss PROVE PSpec => [](IInv /\ LockInv)
<1>1. IInv /\ LockInv /\ [PNext]_allVars => LockInv'
  <2> SUFFICES ASSUME IInv, LockInv, [PNext]_allVars PROVE LockInv'
    OBVIOUS
  <2>1. CASE UNCHANGED allVars
    BY <2>1, LockIdle
  <2>2. CASE PNext
    BY <2>2, NoSessionLoss, LoopStep, SweepLock, AcquireLock, AbortLock,
       AgentLock DEF PNext, WorkerStep
  <2>3. QED BY <2>1, <2>2
<1>2. PSpec => []IInv
  BY WorkersDrain, Inductive, PTL
<1>3. QED BY <1>1, <1>2, LockInit, PTL DEF PSpec

\* At most one worker sweeps at a time (postgres.md:98): for any number of
\* workers that fail and die, unless the server ends the session of a live one.
THEOREM MutualExclusion ==
  ASSUME NoSessionLoss PROVE PSpec => []OneSweeper
<1>1. LockInv => OneSweeper
  BY DEF LockInv, LockHeld, OneSweeper, Sweeping, Critical
<1>2. QED BY <1>1, LockInductive, PTL

\* Under the lock no update is lost: a clean run nobody is projecting, and
\* whose claim was not given up, shows its whole log.
THEOREM LockPreventsLoss ==
  ASSUME NoSessionLoss PROVE PSpec => []NoLostUpdate
<1>1. IInv /\ LockInv => NoLostUpdate
  BY DEF LockInv, IInv, Caught, HeldWhole, TotalsFromLog, NoLostUpdate,
         Claimed, Fresh
<1>2. QED BY <1>1, LockInductive, PTL

\* Under the lock no step makes the columns of a run forget a row they count.
THEOREM LockedTotalsMoveForward ==
  ASSUME NoSessionLoss PROVE PSpec => TotalsMoveForward
<1>1. IInv /\ LockInv /\ [PNext]_allVars
        => [\A r \in Runs : basis[r] \subseteq basis'[r]]_vars
  BY StepRefines, LockAlone, AloneAhead DEF LockInv
<1>2. QED BY <1>1, LockInductive, PTL DEF PSpec, TotalsMoveForward

\* Under the lock the workers implement the materialised view of
\* MaterializedTotals: the columns show a part of the log that only grows.
THEOREM LockedImplementsView ==
  ASSUME NoSessionLoss PROVE PSpec => ImplementsView
<1>1. PInit => View!Init
  BY DEF PInit, Init, StoreInit, View!Init, View!NoTotals, NoTotals
<1>2. IInv /\ LockInv /\ [PNext]_allVars => [View!Next]_<<events, basis, totals>>
  BY StepRefines, LockAlone, AloneRefines DEF LockInv
<1>3. QED BY <1>1, <1>2, LockInductive, PTL DEF PSpec, ImplementsView, View!Spec
=============================================================================
