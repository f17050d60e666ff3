------------------------------- MODULE Drain -------------------------------
(***************************************************************************)
(* AggregatorWorker.drain_once, run by any number of drainers against one  *)
(* store: read a batch of dirty runs, then for each run claim it, read its *)
(* log, and write its totals, each call a transaction of its own.  A call  *)
(* may raise; the exception leaves drain_once and the rest of the batch.   *)
(*                                                                         *)
(* basis, orphaned and overtaken are history variables: they are never     *)
(* read by a guard and say what the code forgets.                          *)
(***************************************************************************)
EXTENDS RunStore

CONSTANTS
  Drainers,   \* the threads and processes that may run drain_once
  BatchSize,  \* the limit drain_once gives to read_dirty
  NoRun       \* the value of cur when a drainer has claimed nothing

ASSUME BatchSizeAssumption == BatchSize \in Nat \ {0}
ASSUME NoRunAssumption == NoRun \notin Runs

VARIABLES
  pc,         \* the next storage call of each drainer
  batch,      \* the run ids of the current batch not yet visited
  full,       \* whether that batch was as long as the limit
  cur,        \* the run claimed by each drainer
  snap,       \* the events each drainer read after its claim
  basis,      \* the events the columns of each run were computed from
  orphaned,   \* runs a drainer claimed and gave up on, until the next claim
  overtaken   \* runs whose newer totals were overwritten by older ones, until
              \* the next claim

drainVars == <<pc, batch, full, cur, snap>>
historyVars == <<basis, orphaned, overtaken>>
vars == <<storeVars, drainVars, historyVars>>

Init ==
  /\ StoreInit
  /\ pc = [d \in Drainers |-> "idle"]
  /\ batch = [d \in Drainers |-> {}]
  /\ full = [d \in Drainers |-> FALSE]
  /\ cur = [d \in Drainers |-> NoRun]
  /\ snap = [d \in Drainers |-> {}]
  /\ basis = [r \in Runs |-> {}]
  /\ orphaned = {}
  /\ overtaken = {}

-----------------------------------------------------------------------------
\* Writers: agent threads and processes.

Write ==
  /\ \/ \E r \in Runs : StartRun(r)
     \/ \E r \in Runs, s \in {"complete", "error"} : EndRun(r, s)
     \/ \E e \in EventPool : InsertEvent(e)
  /\ UNCHANGED <<drainVars, historyVars>>

-----------------------------------------------------------------------------
\* drain_once, call by call.

BeginDrain(d) ==
  /\ pc[d] = "idle"
  /\ pc' = [pc EXCEPT ![d] = "poll"]
  /\ UNCHANGED <<batch, full, cur, snap, historyVars>>

\* An empty batch ends the sweep.
Poll(d) ==
  /\ pc[d] = "poll"
  /\ LET ids == ReadDirty(BatchSize) IN
       /\ batch' = [batch EXCEPT ![d] = ids]
       /\ full' = [full EXCEPT ![d] = Cardinality(ids) >= BatchSize]
       /\ pc' = [pc EXCEPT ![d] = IF ids = {} THEN "idle" ELSE "batch"]
  /\ UNCHANGED <<storeVars, cur, snap, historyVars>>

\* The oldest run id of the batch is next.
NextRun(d, r) ==
  /\ pc[d] = "batch"
  /\ r \in batch[d]
  /\ \A q \in batch[d] : r <= q
  /\ batch' = [batch EXCEPT ![d] = @ \ {r}]

Claim(d) ==
  \E r \in Runs :
    /\ NextRun(d, r)
    /\ ClaimClean(r)
    /\ pc' = [pc EXCEPT ![d] = "claimed"]
    /\ cur' = [cur EXCEPT ![d] = r]
    /\ orphaned' = orphaned \ {r}
    /\ overtaken' = overtaken \ {r}
    /\ UNCHANGED <<full, snap, basis>>

\* Another drainer took the row first.
Skip(d) ==
  \E r \in Runs :
    /\ NextRun(d, r)
    /\ ~dirty[r]
    /\ UNCHANGED <<storeVars, pc, full, cur, snap, historyVars>>

\* Mutant: the query has no WHERE run_id.
ReadEventsOfAll(d) ==
  /\ pc[d] = "claimed"
  /\ pc' = [pc EXCEPT ![d] = "projected"]
  /\ snap' = [snap EXCEPT ![d] = events]
  /\ UNCHANGED <<storeVars, batch, full, cur, historyVars>>

ReadEvents(d) ==
  /\ pc[d] = "claimed"
  /\ pc' = [pc EXCEPT ![d] = "projected"]
  /\ snap' = [snap EXCEPT ![d] = Log(cur[d])]
  /\ UNCHANGED <<storeVars, batch, full, cur, historyVars>>

WriteBack(d) ==
  /\ pc[d] = "projected"
  /\ WriteTotals(cur[d], ProjectRunTotals(snap[d]))
  /\ pc' = [pc EXCEPT ![d] = "batch"]
  /\ cur' = [cur EXCEPT ![d] = NoRun]
  /\ snap' = [snap EXCEPT ![d] = {}]
  /\ basis' = [basis EXCEPT ![cur[d]] = snap[d]]
  /\ overtaken' = IF basis[cur[d]] \subseteq snap[d]
                  THEN overtaken ELSE overtaken \union {cur[d]}
  /\ UNCHANGED <<batch, full, orphaned>>

\* A batch as long as the limit is followed by another one.
EndBatch(d) ==
  /\ pc[d] = "batch"
  /\ batch[d] = {}
  /\ pc' = [pc EXCEPT ![d] = IF full[d] THEN "poll" ELSE "idle"]
  /\ UNCHANGED <<storeVars, batch, full, cur, snap, historyVars>>

DrainStep(d) ==
  \/ Poll(d)
  \/ Claim(d)
  \/ Skip(d)
  \/ ReadEvents(d)
  \/ WriteBack(d)
  \/ EndBatch(d)

\* The drainers of D stop where they are: an exception out of a storage call,
\* whose transaction rolls back, or the death of their process.
Abort(D) ==
  /\ pc' = [d \in Drainers |-> IF d \in D THEN "idle" ELSE pc[d]]
  /\ batch' = [d \in Drainers |-> IF d \in D THEN {} ELSE batch[d]]
  /\ cur' = [d \in Drainers |-> IF d \in D THEN NoRun ELSE cur[d]]
  /\ snap' = [d \in Drainers |-> IF d \in D THEN {} ELSE snap[d]]
  /\ orphaned' = orphaned \union ({cur[d] : d \in D} \ {NoRun})
  /\ UNCHANGED <<storeVars, full, basis, overtaken>>

\* An exception needs a storage call, or the projection, to raise it.
Raise(d) ==
  /\ \/ pc[d] \in {"poll", "claimed", "projected"}
     \/ pc[d] = "batch" /\ batch[d] # {}
  /\ Abort({d})

\* A sweep starts as it is, or after mark_all_dirty (rebuild-aggregates).
Next ==
  \/ Write
  \/ \E d \in Drainers : BeginDrain(d) /\ (UNCHANGED storeVars \/ MarkAllDirty)
  \/ \E d \in Drainers : DrainStep(d)
  \/ \E D \in SUBSET Drainers : Abort(D)

Spec == Init /\ [][Next]_vars

-----------------------------------------------------------------------------
\* The claim of r has happened and its write has not.
Claimed(r) == \E d \in Drainers : cur[d] = r

\* The columns of r say what its log says.
Fresh(r) == totals[r] = ProjectRunTotals(Log(r))

\* The variables hold what the columns and the locals of drain_once can hold.
TypeOK ==
  /\ StoreTypeOK
  /\ pc \in [Drainers -> {"idle", "poll", "batch", "claimed", "projected"}]
  /\ batch \in [Drainers -> SUBSET Runs]
  /\ full \in [Drainers -> BOOLEAN]
  /\ cur \in [Drainers -> Runs \union {NoRun}]
  /\ snap \in [Drainers -> SUBSET EventPool]
  /\ basis \in [Runs -> SUBSET EventPool]
  /\ orphaned \subseteq Runs
  /\ overtaken \subseteq Runs

\* The columns of a run are always the projection of rows of its own log: no
\* torn, foreign or invented total is ever written (the claim-and-project
\* sequence of aggregator.py, whatever drainers and failures interleave).
TotalsFromLog ==
  \A r \in Runs :
    /\ basis[r] \subseteq Log(r)
    /\ totals[r] = ProjectRunTotals(basis[r])

\* An update is lost in two ways only: a drainer gave up between claim and
\* write, or an older write overtook a newer one.  Any other clean run that
\* nobody is projecting shows its whole log.  Any number of drainers, any
\* failures.
LostOnlyIfOrphanedOrOvertaken ==
  \A r \in Runs :
    \/ dirty[r]
    \/ Claimed(r)
    \/ r \in orphaned
    \/ r \in overtaken
    \/ Fresh(r)

\* claim_clean's claim ("Lost updates are impossible by construction",
\* sqlite.py:462), leaving failures aside: a clean run nobody is projecting
\* shows its whole log.
NoLostUpdate ==
  \A r \in Runs : dirty[r] \/ Claimed(r) \/ r \in orphaned \/ Fresh(r)

\* The worker's claim that "Events are never lost" and "the next pass always
\* converges" (aggregator.py:18), failures included: a clean run that nobody
\* is projecting shows its whole log.
NothingLostOnFailure ==
  \A r \in Runs : dirty[r] \/ Claimed(r) \/ r \in overtaken \/ Fresh(r)

\* No step of the system makes the columns of a run forget a row they already
\* counted.
TotalsMoveForward ==
  [][\A r \in Runs : basis[r] \subseteq basis'[r]]_vars

\* What drains is an implementation of the materialised view of MaterializedTotals
\* ("The event log is the source of truth; the projection is recomputable").
View == INSTANCE MaterializedTotals WITH view <- basis
ImplementsView == View!Spec
=============================================================================
