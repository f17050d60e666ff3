---------------------------- MODULE DrainProofs ----------------------------
(***************************************************************************)
(* What drain_once guarantees for every set of runs, events and drainers,  *)
(* every batch size and every failure.                                     *)
(*                                                                         *)
(* The inductive invariant adds to TypeOK what ties the locals of a        *)
(* drainer to the tables: a drainer holds a run exactly between claim and  *)
(* write; what it read is part of that run's log; a run with no row is not *)
(* dirty.  Its core is Caught: a run that is clean, and neither orphaned   *)
(* nor overtaken, has its whole log in its columns or in the hands of a    *)
(* drainer that claimed it and has read it all, or not read it yet.        *)
(***************************************************************************)
EXTENDS Drain, FiniteSetTheorems, WellFoundedInduction, TLAPS

HoldsBetweenClaimAndWrite ==
  \A d \in Drainers : cur[d] # NoRun <=> pc[d] \in {"claimed", "projected"}

SnapFromLog ==
  \A d \in Drainers : pc[d] = "projected" => snap[d] \subseteq Log(cur[d])

AbsentIsClean == \A r \in Runs : dirty[r] => status[r] # "absent"

HeldWhole(r) ==
  \E d \in Drainers :
    /\ cur[d] = r
    /\ pc[d] = "claimed" \/ (pc[d] = "projected" /\ snap[d] = Log(r))

Caught ==
  \A r \in Runs :
    \/ dirty[r]
    \/ r \in orphaned
    \/ r \in overtaken
    \/ basis[r] = Log(r)
    \/ HeldWhole(r)

IInv ==
  /\ TypeOK
  /\ HoldsBetweenClaimAndWrite
  /\ SnapFromLog
  /\ AbsentIsClean
  /\ TotalsFromLog
  /\ Caught

-----------------------------------------------------------------------------
\* The loop of project_run_totals never runs on an empty log: it returns the
\* defaults of the columns.
LEMMA EmptyLog == ProjectRunTotals({}) = NoTotals
<1> DEFINE Step(it) ==
             [s \in SUBSET {} |->
                IF s = {} THEN NoTotals
                ELSE Tally(it[s \ {LastInSequence(s)}], LastInSequence(s))]
<1> DEFINE iter == CHOOSE it : it = Step(it)
<1>1. [s \in SUBSET {} |-> NoTotals] = Step([s \in SUBSET {} |-> NoTotals])
  OBVIOUS
<1>2. iter = Step(iter)
  <2> HIDE DEF Step
  <2> QED BY <1>1
<1>3. iter[{}] = NoTotals
  <2> HIDE DEF iter
  <2> QED BY <1>2
<1>4. QED BY <1>3 DEF ProjectRunTotals, MapThenFoldSet

\* The initial database satisfies the invariant.
LEMMA InitInv == Init => IInv
<1> SUFFICES ASSUME Init PROVE IInv
  OBVIOUS
<1> USE DEF Init, StoreInit
<1>1. TypeOK
  BY EmptyLog, NoRunAssumption DEF TypeOK, StoreTypeOK, Statuses
<1>2. HoldsBetweenClaimAndWrite /\ SnapFromLog /\ AbsentIsClean
  BY DEF HoldsBetweenClaimAndWrite, SnapFromLog, AbsentIsClean
<1>3. TotalsFromLog /\ Caught
  BY EmptyLog DEF TotalsFromLog, Caught, Log
<1>4. QED BY <1>1, <1>2, <1>3 DEF IInv

-----------------------------------------------------------------------------
\* A writer's transaction.
LEMMA WriteInv == IInv /\ Write => IInv'
<1> SUFFICES ASSUME IInv, Write PROVE IInv'
  OBVIOUS
<1>0. TypeOK /\ UNCHANGED <<drainVars, historyVars>>
  BY DEF IInv, Write
<1>1. CASE \E r \in Runs, s \in Statuses \ {"absent"} :
             /\ status' = [status EXCEPT ![r] = s]
             /\ UNCHANGED <<events, dirty, totals>>
  <2>1. PICK r \in Runs, s \in Statuses \ {"absent"} :
           /\ status' = [status EXCEPT ![r] = s]
           /\ UNCHANGED <<events, dirty, totals>>
    BY <1>1
  <2>2. \A q \in Runs : Log(q)' = Log(q) /\ (HeldWhole(q)' <=> HeldWhole(q))
    BY <2>1, <1>0 DEF Log, HeldWhole, drainVars
  <2>3. TypeOK'
    BY <2>1, <1>0 DEF TypeOK, StoreTypeOK, Statuses, drainVars, historyVars
  <2>4. HoldsBetweenClaimAndWrite' /\ SnapFromLog'
    BY <2>1, <1>0 DEF IInv, HoldsBetweenClaimAndWrite, SnapFromLog, Log,
                      drainVars
  <2>5. AbsentIsClean'
    BY <2>1, <1>0 DEF IInv, AbsentIsClean, TypeOK, StoreTypeOK
  <2>6. TotalsFromLog' /\ Caught'
    BY <2>1, <2>2, <1>0 DEF IInv, TotalsFromLog, Caught, historyVars
  <2>7. QED BY <2>3, <2>4, <2>5, <2>6 DEF IInv
<1>2. CASE \E e \in EventPool : InsertEvent(e)
  <2>1. PICK e \in EventPool : InsertEvent(e)
    BY <1>2
  <2>2. e.run \in Runs
    BY EventPoolAssumption
  <2>3. \A q \in Runs : Log(q) \subseteq Log(q)'
    BY <2>1 DEF InsertEvent, Log
  <2>4. \A q \in Runs : q # e.run => Log(q)' = Log(q)
    BY <2>1 DEF InsertEvent, Log
  <2>5. TypeOK'
    BY <2>1, <2>2, <1>0
       DEF TypeOK, StoreTypeOK, InsertEvent, drainVars, historyVars
  <2>6. HoldsBetweenClaimAndWrite'
    BY <1>0 DEF IInv, HoldsBetweenClaimAndWrite, drainVars
  <2>7. SnapFromLog'
    BY <2>1, <1>0 DEF IInv, SnapFromLog, Log, InsertEvent, drainVars
  <2>8. AbsentIsClean'
    BY <2>1, <2>2, <1>0 DEF IInv, AbsentIsClean, InsertEvent, TypeOK, StoreTypeOK
  <2>9. TotalsFromLog'
    BY <2>1, <2>3, <1>0 DEF IInv, TotalsFromLog, InsertEvent, historyVars
  <2>10. Caught'
    <3> SUFFICES ASSUME NEW q \in Runs, ~dirty[q]'
                 PROVE q \in orphaned' \/ q \in overtaken'
                       \/ basis[q]' = Log(q)' \/ HeldWhole(q)'
      BY DEF Caught
    <3>1. q # e.run /\ ~dirty[q]
      BY <2>1, <2>2, <1>0 DEF InsertEvent, TypeOK, StoreTypeOK
    <3>2. HeldWhole(q) => HeldWhole(q)'
      BY <3>1, <2>4, <1>0 DEF HeldWhole, drainVars
    <3>3. QED
      BY <3>1, <3>2, <2>4, <1>0 DEF IInv, Caught, historyVars
  <2>11. QED BY <2>5, <2>6, <2>7, <2>8, <2>9, <2>10 DEF IInv
<1>3. QED BY <1>1, <1>2 DEF Write, StartRun, EndRun, Statuses

-----------------------------------------------------------------------------
\* A sweep starts, after mark_all_dirty or not.
LEMMA BeginInv ==
  ASSUME IInv, NEW d \in Drainers, BeginDrain(d),
         UNCHANGED storeVars \/ MarkAllDirty
  PROVE  IInv'
<1>0. /\ TypeOK /\ pc[d] = "idle"
      /\ pc' = [pc EXCEPT ![d] = "poll"]
      /\ UNCHANGED <<status, events, totals, cur, snap, historyVars>>
  BY DEF IInv, BeginDrain, MarkAllDirty, storeVars
<1>1. \A q \in Runs : /\ dirty[q] => dirty[q]'
                      /\ dirty[q]' => status[q]' # "absent"
  BY DEF IInv, AbsentIsClean, MarkAllDirty, storeVars
<1>2. \A q \in Runs : Log(q)' = Log(q)
  BY <1>0 DEF Log
<1>3. \A q \in Runs : HeldWhole(q) => HeldWhole(q)'
  BY <1>0, <1>2 DEF HeldWhole, TypeOK
<1>4. TypeOK'
  BY <1>0 DEF TypeOK, StoreTypeOK, BeginDrain, MarkAllDirty, storeVars,
              historyVars
<1>5. HoldsBetweenClaimAndWrite' /\ AbsentIsClean'
  BY <1>0, <1>1 DEF IInv, HoldsBetweenClaimAndWrite, AbsentIsClean, TypeOK
<1>6. SnapFromLog'
  BY <1>0 DEF IInv, SnapFromLog, Log, TypeOK
<1>7. TotalsFromLog' /\ Caught'
  BY <1>0, <1>1, <1>2, <1>3 DEF IInv, TotalsFromLog, Caught, historyVars
<1>8. QED BY <1>4, <1>5, <1>6, <1>7 DEF IInv

\* read_dirty, a claim that comes too late, the end of a batch: no table and no
\* claim changes.
LEMMA QuietInv ==
  ASSUME IInv, NEW d \in Drainers, Poll(d) \/ Skip(d) \/ EndBatch(d)
  PROVE  IInv'
<1>0. /\ TypeOK
      /\ pc[d] \in {"poll", "batch"}
      /\ \E v \in {"poll", "batch", "idle"} : pc' = [pc EXCEPT ![d] = v]
      /\ \E B \in SUBSET Runs : batch' = [batch EXCEPT ![d] = B]
      /\ \E b \in BOOLEAN : full' = [full EXCEPT ![d] = b]
      /\ UNCHANGED <<storeVars, cur, snap, historyVars>>
  <2>1. CASE Poll(d)
    <3> DEFINE ids == ReadDirty(BatchSize)
    <3>1. /\ pc[d] = "poll"
          /\ batch' = [batch EXCEPT ![d] = ids]
          /\ full' = [full EXCEPT ![d] = Cardinality(ids) >= BatchSize]
          /\ pc' = [pc EXCEPT ![d] = IF ids = {} THEN "idle" ELSE "batch"]
          /\ UNCHANGED <<storeVars, cur, snap, historyVars>>
      BY <2>1 DEF Poll
    <3>2. ids \in SUBSET Runs
      BY DEF ReadDirty, DirtyRows, Rows
    <3>3. (Cardinality(ids) >= BatchSize) \in BOOLEAN
      OBVIOUS
    <3> HIDE DEF ids
    <3>4. QED BY <3>1, <3>2, <3>3 DEF IInv
  <2>2. CASE Skip(d)
    BY <2>2, ZenonT(40) DEF Skip, NextRun, IInv, TypeOK
  <2>3. CASE EndBatch(d)
    BY <2>3 DEF EndBatch, IInv, TypeOK
  <2>4. QED BY <2>1, <2>2, <2>3
<1>1. \A q \in Runs : Log(q)' = Log(q)
  BY <1>0 DEF Log, storeVars
<1>2. \A q \in Runs : HeldWhole(q) => HeldWhole(q)'
  BY <1>0, <1>1 DEF HeldWhole, TypeOK
<1>3. TypeOK'
  BY <1>0 DEF TypeOK, StoreTypeOK, storeVars, historyVars
<1>4. HoldsBetweenClaimAndWrite' /\ AbsentIsClean' /\ SnapFromLog'
  BY <1>0 DEF IInv, HoldsBetweenClaimAndWrite, AbsentIsClean, SnapFromLog, Log,
              TypeOK, storeVars
<1>5. TotalsFromLog' /\ Caught'
  BY <1>0, <1>1, <1>2 DEF IInv, TotalsFromLog, Caught, storeVars, historyVars
<1>6. QED BY <1>3, <1>4, <1>5 DEF IInv

\* The claim puts the run in the hands of d.
LEMMA ClaimInv ==
  ASSUME IInv, NEW d \in Drainers, Claim(d)
  PROVE  IInv'
<1>1. PICK r \in Runs :
        /\ NextRun(d, r)
        /\ ClaimClean(r)
        /\ pc' = [pc EXCEPT ![d] = "claimed"]
        /\ cur' = [cur EXCEPT ![d] = r]
        /\ orphaned' = orphaned \ {r}
        /\ overtaken' = overtaken \ {r}
        /\ UNCHANGED <<full, snap, basis>>
  BY DEF Claim
<1>2. TypeOK /\ pc[d] = "batch" /\ cur[d] = NoRun
  BY <1>1 DEF IInv, NextRun, HoldsBetweenClaimAndWrite
<1>3. \A q \in Runs : Log(q)' = Log(q)
  BY <1>1 DEF Log, ClaimClean
<1>4. HeldWhole(r)'
  BY <1>1, <1>2 DEF HeldWhole, TypeOK
<1>5. \A q \in Runs : HeldWhole(q) => HeldWhole(q)'
  BY <1>1, <1>2, <1>3, NoRunAssumption DEF HeldWhole, TypeOK
<1>6. TypeOK'
  BY <1>1, <1>2 DEF TypeOK, StoreTypeOK, ClaimClean, NextRun
<1>7. HoldsBetweenClaimAndWrite'
  BY <1>1, <1>2, NoRunAssumption DEF IInv, HoldsBetweenClaimAndWrite, TypeOK
<1>8. AbsentIsClean'
  BY <1>1, <1>2 DEF IInv, AbsentIsClean, ClaimClean, TypeOK, StoreTypeOK
<1>9. SnapFromLog'
  BY <1>1, <1>2 DEF IInv, SnapFromLog, Log, ClaimClean, TypeOK
<1>10. TotalsFromLog'
  BY <1>1, <1>3 DEF IInv, TotalsFromLog, ClaimClean
<1>11. Caught'
  <2> SUFFICES ASSUME NEW q \in Runs, q # r, ~dirty[q]'
               PROVE q \in orphaned' \/ q \in overtaken'
                     \/ basis[q]' = Log(q)' \/ HeldWhole(q)'
    BY <1>4 DEF Caught
  <2>1. ~dirty[q]
    BY <1>1, <1>2 DEF ClaimClean, TypeOK, StoreTypeOK
  <2>2. QED BY <2>1, <1>1, <1>3, <1>5 DEF IInv, Caught
<1>12. QED BY <1>6, <1>7, <1>8, <1>9, <1>10, <1>11 DEF IInv

\* The read takes the whole log as it is now.
LEMMA ReadInv ==
  ASSUME IInv, NEW d \in Drainers, ReadEvents(d)
  PROVE  IInv'
<1>0. /\ TypeOK
      /\ pc[d] = "claimed"
      /\ cur[d] \in Runs
      /\ pc' = [pc EXCEPT ![d] = "projected"]
      /\ snap' = [snap EXCEPT ![d] = Log(cur[d])]
      /\ UNCHANGED <<storeVars, batch, full, cur, historyVars>>
  BY DEF IInv, ReadEvents, HoldsBetweenClaimAndWrite, TypeOK
<1>1. \A q : Log(q)' = Log(q) /\ Log(q) \subseteq EventPool
  BY <1>0 DEF Log, storeVars, TypeOK, StoreTypeOK
<1>2. \A q \in Runs : HeldWhole(q) => HeldWhole(q)'
  <2> SUFFICES ASSUME NEW q \in Runs, NEW h \in Drainers, cur[h] = q,
                      pc[h] = "claimed"
                      \/ (pc[h] = "projected" /\ snap[h] = Log(q))
               PROVE  HeldWhole(q)'
    BY DEF HeldWhole
  <2>1. cur'[h] = q /\ pc'[h] \in {"claimed", "projected"}
    BY <1>0 DEF TypeOK
  <2>2. pc'[h] = "projected" => snap'[h] = Log(q)'
    BY <1>0, <1>1 DEF TypeOK
  <2>3. QED BY <2>1, <2>2 DEF HeldWhole
<1>3. TypeOK'
  BY <1>0, <1>1 DEF TypeOK, StoreTypeOK, storeVars, historyVars
<1>4. HoldsBetweenClaimAndWrite' /\ AbsentIsClean'
  BY <1>0 DEF IInv, HoldsBetweenClaimAndWrite, AbsentIsClean, TypeOK, storeVars
<1>5. SnapFromLog'
  BY <1>0, <1>1 DEF IInv, SnapFromLog, TypeOK
<1>6. TotalsFromLog' /\ Caught'
  BY <1>0, <1>1, <1>2 DEF IInv, TotalsFromLog, Caught, storeVars, historyVars
<1>7. QED BY <1>3, <1>4, <1>5, <1>6 DEF IInv

\* The write either leaves the run with its whole log, or leaves it to another
\* holder, or marks it overtaken.
LEMMA WriteBackInv ==
  ASSUME IInv, NEW d \in Drainers, WriteBack(d)
  PROVE  IInv'
<1> DEFINE r == cur[d]
<1>0. /\ TypeOK
      /\ pc[d] = "projected"
      /\ r \in Runs
      /\ snap[d] \subseteq Log(r)
      /\ snap[d] \in SUBSET EventPool
  BY DEF IInv, WriteBack, HoldsBetweenClaimAndWrite, SnapFromLog, TypeOK
<1>1. /\ totals' = [totals EXCEPT ![r] = ProjectRunTotals(snap[d])]
      /\ pc' = [pc EXCEPT ![d] = "batch"]
      /\ cur' = [cur EXCEPT ![d] = NoRun]
      /\ snap' = [snap EXCEPT ![d] = {}]
      /\ basis' = [basis EXCEPT ![r] = snap[d]]
      /\ overtaken' = IF basis[r] \subseteq snap[d]
                      THEN overtaken ELSE overtaken \union {r}
      /\ UNCHANGED <<status, events, dirty, batch, full, orphaned>>
  BY DEF WriteBack, WriteTotals
<1>2. \A q \in Runs : Log(q)' = Log(q)
  BY <1>1 DEF Log
<1>3. TypeOK'
  BY <1>0, <1>1 DEF TypeOK, StoreTypeOK
<1>4. HoldsBetweenClaimAndWrite' /\ AbsentIsClean'
  BY <1>0, <1>1 DEF IInv, HoldsBetweenClaimAndWrite, AbsentIsClean, TypeOK
<1>5. SnapFromLog'
  BY <1>0, <1>1 DEF IInv, SnapFromLog, Log, TypeOK
<1>6. TotalsFromLog'
  <2> SUFFICES ASSUME NEW q \in Runs
               PROVE  basis'[q] \subseteq Log(q)'
                      /\ totals'[q] = ProjectRunTotals(basis'[q])
    BY DEF TotalsFromLog
  <2>1. CASE q = r
    BY <2>1, <1>0, <1>1, <1>2 DEF TypeOK, StoreTypeOK
  <2>2. CASE q # r
    BY <2>2, <1>0, <1>1, <1>2 DEF TypeOK, StoreTypeOK, IInv, TotalsFromLog
  <2>3. QED BY <2>1, <2>2
<1>7. \A q \in Runs, h \in Drainers \ {d} :
        /\ cur'[h] = cur[h] /\ pc'[h] = pc[h] /\ snap'[h] = snap[h]
  BY <1>1 DEF TypeOK
<1>8. ASSUME NEW q \in Runs, ~dirty'[q], q \notin orphaned',
             q \notin overtaken'
      PROVE  basis'[q] = Log(q)' \/ HeldWhole(q)'
  <2>1. ~dirty[q] /\ q \notin orphaned /\ q \notin overtaken
    BY <1>1, <1>8
  <2>2. basis[q] = Log(q) \/ HeldWhole(q)
    BY <2>1 DEF IInv, Caught
  <2>3. CASE basis[q] = Log(q) /\ q = r
    <3>1. basis[r] \subseteq snap[d]
      BY <1>1, <1>8, <2>3
    <3>2. snap[d] = Log(r)
      BY <3>1, <1>0, <2>3
    <3>3. QED BY <3>2, <2>3, <1>0, <1>1, <1>2 DEF TypeOK
  <2>4. CASE basis[q] = Log(q) /\ q # r
    BY <2>4, <1>0, <1>1, <1>2 DEF TypeOK
  <2>5. CASE HeldWhole(q)
    <3>1. PICK h \in Drainers :
            /\ cur[h] = q
            /\ pc[h] = "claimed" \/ (pc[h] = "projected" /\ snap[h] = Log(q))
      BY <2>5 DEF HeldWhole
    <3>2. CASE h = d
      BY <3>1, <3>2, <1>0, <1>1, <1>2 DEF TypeOK
    <3>3. CASE h # d
      <4>1. HeldWhole(q)'
        BY <3>1, <3>3, <1>2, <1>7 DEF HeldWhole
      <4>2. QED BY <4>1
    <3>4. QED BY <3>2, <3>3
  <2>6. QED BY <2>2, <2>3, <2>4, <2>5
<1>9. Caught'
  BY <1>8 DEF Caught
<1>10. QED BY <1>3, <1>4, <1>5, <1>6, <1>9 DEF IInv

\* An exception or a death orphans the runs it leaves claimed.
LEMMA AbortInv ==
  ASSUME IInv, NEW D \in SUBSET Drainers, Abort(D)
  PROVE  IInv'
<1>0. /\ TypeOK
      /\ pc' = [d \in Drainers |-> IF d \in D THEN "idle" ELSE pc[d]]
      /\ batch' = [d \in Drainers |-> IF d \in D THEN {} ELSE batch[d]]
      /\ cur' = [d \in Drainers |-> IF d \in D THEN NoRun ELSE cur[d]]
      /\ snap' = [d \in Drainers |-> IF d \in D THEN {} ELSE snap[d]]
      /\ orphaned' = orphaned \union ({cur[d] : d \in D} \ {NoRun})
      /\ UNCHANGED <<storeVars, full, basis, overtaken>>
  BY DEF IInv, Abort
<1>1. \A q : Log(q)' = Log(q)
  BY <1>0 DEF Log, storeVars
<1>2. TypeOK'
  <2>1. orphaned' \subseteq Runs
    BY <1>0 DEF TypeOK
  <2>2. /\ pc' \in [Drainers -> {"idle", "poll", "batch", "claimed", "projected"}]
        /\ batch' \in [Drainers -> SUBSET Runs]
        /\ cur' \in [Drainers -> Runs \union {NoRun}]
        /\ snap' \in [Drainers -> SUBSET EventPool]
    BY <1>0 DEF TypeOK
  <2>3. QED BY <2>1, <2>2, <1>0 DEF TypeOK, StoreTypeOK, storeVars
<1>3. HoldsBetweenClaimAndWrite' /\ AbsentIsClean'
  BY <1>0 DEF IInv, HoldsBetweenClaimAndWrite, AbsentIsClean, storeVars
<1>4. SnapFromLog'
  BY <1>0, <1>1 DEF IInv, SnapFromLog
<1>5. TotalsFromLog'
  BY <1>0, <1>1 DEF IInv, TotalsFromLog, storeVars
<1>6. \A q \in Runs : HeldWhole(q) => HeldWhole(q)' \/ q \in orphaned'
  <2> SUFFICES ASSUME NEW q \in Runs, NEW h \in Drainers, cur[h] = q,
                      pc[h] = "claimed"
                      \/ (pc[h] = "projected" /\ snap[h] = Log(q))
               PROVE  HeldWhole(q)' \/ q \in orphaned'
    BY DEF HeldWhole
  <2>1. CASE h \in D
    BY <2>1, <1>0, NoRunAssumption
  <2>2. CASE h \notin D
    <3>1. cur'[h] = q /\ pc'[h] = pc[h] /\ snap'[h] = snap[h]
      BY <2>2, <1>0
    <3>2. QED BY <3>1, <1>1 DEF HeldWhole
  <2>3. QED BY <2>1, <2>2
<1>7. Caught'
  BY <1>0, <1>1, <1>6 DEF IInv, Caught, storeVars
<1>8. QED BY <1>2, <1>3, <1>4, <1>5, <1>7 DEF IInv

\* A step that changes nothing.
LEMMA StutterInv == IInv /\ UNCHANGED vars => IInv'
<1> SUFFICES ASSUME IInv, UNCHANGED vars PROVE IInv'
  OBVIOUS
<1>0. UNCHANGED <<status, events, dirty, totals, pc, batch, full, cur, snap,
                  basis, orphaned, overtaken>>
  BY DEF vars, storeVars, drainVars, historyVars
<1>1. TypeOK'
  BY <1>0 DEF IInv, TypeOK, StoreTypeOK
<1>2. HoldsBetweenClaimAndWrite' /\ AbsentIsClean' /\ SnapFromLog'
  BY <1>0 DEF IInv, HoldsBetweenClaimAndWrite, AbsentIsClean, SnapFromLog, Log
<1>3. TotalsFromLog' /\ Caught'
  BY <1>0 DEF IInv, TotalsFromLog, Caught, Log, HeldWhole
<1>4. QED BY <1>1, <1>2, <1>3 DEF IInv

-----------------------------------------------------------------------------
\* What a drainer that is alone does, as the lock of Postgres or a single process
\* makes it.  What it has read contains what the columns count.
ReadsAhead ==
  \A d \in Drainers : pc[d] = "projected" => basis[cur[d]] \subseteq snap[d]

Alone == \A d, e \in Drainers : pc[d] # "idle" /\ pc[e] # "idle" => d = e

\* A set of run ids has an oldest one.
LEMMA Oldest ==
  ASSUME NEW T \in SUBSET Nat, T # {}
  PROVE  \E x \in T : \A y \in T : x <= y
<1> DEFINE Younger == {ss \in Nat \X Nat : ss[1] < ss[2]}
<1>1. IsWellFoundedOn(Younger, Nat)
  BY NatLessThanWellFounded DEF OpToRel
<1> HIDE DEF Younger
<1>2. \E x \in T : \A y \in T : ~(<<y, x>> \in Younger)
  BY <1>1, WFMin
<1>3. \A x, y \in T : ~(<<y, x>> \in Younger) => x <= y
  BY DEF Younger
<1>4. QED BY <1>2, <1>3

\* A batch shorter than its limit holds every dirty run: the sweep that ends on it
\* has left none out.
LEMMA ShortBatchIsAll ==
  ASSUME Cardinality(ReadDirty(BatchSize)) < BatchSize
  PROVE  ReadDirty(BatchSize) = DirtyRows
<1> DEFINE ids == ReadDirty(BatchSize)
           Before(r) == {q \in DirtyRows : q < r}
<1>1. ids \subseteq DirtyRows /\ DirtyRows \subseteq Runs
  BY DEF ReadDirty, DirtyRows, Rows
<1>2. SUFFICES ASSUME DirtyRows \ ids # {} PROVE FALSE
  BY <1>1
<1>3. DirtyRows \ ids \in SUBSET Nat
  BY <1>1, RunsAssumption
<1>4. PICK x \in DirtyRows \ ids : \A y \in DirtyRows \ ids : x <= y
  BY <1>2, <1>3, Oldest
<1>5. IsFiniteSet(ids) /\ IsFiniteSet(Before(x))
  BY <1>1, RunsAssumption, FS_Subset
<1>6. Before(x) \subseteq ids
  <2> SUFFICES ASSUME NEW y \in DirtyRows, y < x, y \notin ids PROVE FALSE
    OBVIOUS
  <2>1. x \in Nat /\ y \in Nat
    BY <1>1, <1>4, RunsAssumption
  <2>2. x <= y
    BY <1>4
  <2> HIDE DEF ids
  <2>3. QED BY <2>1, <2>2
<1>7. Cardinality(Before(x)) <= Cardinality(ids)
  BY <1>5, <1>6, FS_Subset
<1>8. ~(Cardinality(Before(x)) < BatchSize)
  BY <1>4 DEF ReadDirty
<1>9. Cardinality(ids) \in Nat /\ Cardinality(Before(x)) \in Nat
  BY <1>5, FS_CardinalityType
<1>10. QED BY <1>7, <1>8, <1>9, BatchSizeAssumption

LEMMA EmptyBatchIsAll ==
  ASSUME ReadDirty(BatchSize) = {}
  PROVE  DirtyRows = {}
BY ShortBatchIsAll, FS_EmptySet, BatchSizeAssumption

\* The locals of the other drainers are out of reach of a drain step, and only
\* its write touches a basis.
LEMMA DrainFrame ==
  ASSUME TypeOK, NEW d \in Drainers, DrainStep(d)
  PROVE  /\ \A h \in Drainers \ {d} :
               pc'[h] = pc[h] /\ cur'[h] = cur[h] /\ snap'[h] = snap[h]
         /\ pc'[d] = "projected" =>
              /\ snap'[d] = Log(cur[d])
              /\ cur'[d] = cur[d]
         /\ pc[d] = "projected" => pc'[d] = "batch" /\ WriteBack(d)
         /\ pc[d] # "projected" => UNCHANGED basis
         /\ pc[d] # "projected" => overtaken' \subseteq overtaken
<1>1. CASE Poll(d)
  BY <1>1 DEF Poll, TypeOK, historyVars
<1>2. CASE Claim(d)
  BY <1>2 DEF Claim, NextRun, TypeOK
<1>3. CASE Skip(d)
  BY <1>3 DEF Skip, NextRun, TypeOK, historyVars
<1>4. CASE ReadEvents(d)
  BY <1>4 DEF ReadEvents, TypeOK, historyVars
<1>5. CASE WriteBack(d)
  BY <1>5 DEF WriteBack, TypeOK
<1>6. CASE EndBatch(d)
  BY <1>6 DEF EndBatch, TypeOK, historyVars
<1>7. QED BY <1>1, <1>2, <1>3, <1>4, <1>5, <1>6 DEF DrainStep

LEMMA DrainerBusy ==
  ASSUME NEW d \in Drainers, DrainStep(d) PROVE pc[d] # "idle"
BY DEF DrainStep, Poll, Claim, Skip, NextRun, ReadEvents, WriteBack, EndBatch

\* A drainer that is alone overtakes nobody, and the columns forget nothing.
LEMMA AloneAhead ==
  ASSUME IInv, ReadsAhead, Alone, overtaken = {}, [Next]_vars
  PROVE  /\ ReadsAhead' /\ overtaken' = {}
         /\ \A r \in Runs : basis[r] \subseteq basis'[r]
<1>0. TypeOK BY DEF IInv
<1>1. CASE Write
  BY <1>1 DEF Write, ReadsAhead, drainVars, historyVars
<1>2. ASSUME NEW d \in Drainers, BeginDrain(d)
      PROVE  ReadsAhead' /\ overtaken' = {} /\ UNCHANGED basis
  BY <1>0, <1>2 DEF BeginDrain, ReadsAhead, historyVars, TypeOK
<1>3. ASSUME NEW d \in Drainers, DrainStep(d)
      PROVE  /\ ReadsAhead' /\ overtaken' = {}
             /\ \A r \in Runs : basis[r] \subseteq basis'[r]
  <2>1. pc[d] # "idle" /\ \A e \in Drainers \ {d} : pc[e] = "idle" /\ pc'[e] = "idle"
    BY <1>0, <1>3, DrainerBusy, DrainFrame DEF Alone
  <2>2. ASSUME pc'[d] = "projected"
        PROVE  basis'[cur'[d]] \subseteq snap'[d]
    <3>1. pc[d] # "projected" /\ UNCHANGED basis
      BY <1>0, <1>3, <2>2, DrainFrame
    <3>2. snap'[d] = Log(cur[d]) /\ cur'[d] = cur[d]
      BY <1>0, <1>3, <2>2, DrainFrame
    <3>3. pc[d] = "claimed"
      BY <1>0, <1>3, <2>2, <3>1
         DEF DrainStep, Poll, Claim, Skip, NextRun, ReadEvents, WriteBack,
             EndBatch, TypeOK
    <3>4. cur[d] \in Runs
      BY <1>0, <3>3 DEF IInv, HoldsBetweenClaimAndWrite, TypeOK
    <3>5. QED BY <3>1, <3>2, <3>4 DEF IInv, TotalsFromLog
  <2>3. ReadsAhead'
    BY <2>1, <2>2 DEF ReadsAhead
  <2>4. CASE pc[d] = "projected"
    <3>1. WriteBack(d) /\ basis[cur[d]] \subseteq snap[d]
      BY <1>0, <1>3, <2>4, DrainFrame DEF ReadsAhead
    <3>2. QED BY <1>0, <2>3, <3>1 DEF WriteBack, TypeOK
  <2>5. CASE pc[d] # "projected"
    BY <1>0, <1>3, <2>3, <2>5, DrainFrame
  <2>6. QED BY <2>4, <2>5
<1>4. ASSUME NEW D \in SUBSET Drainers, Abort(D)
      PROVE  ReadsAhead' /\ overtaken' = {} /\ UNCHANGED basis
  BY <1>4 DEF Abort, ReadsAhead
<1>5. CASE UNCHANGED vars
  BY <1>5 DEF vars, ReadsAhead, drainVars, historyVars
<1>6. QED BY <1>1, <1>2, <1>3, <1>4, <1>5 DEF Next

\* And so the columns are the view of MaterializedTotals.
LEMMA AloneRefines ==
  ASSUME IInv, ReadsAhead, Alone, overtaken = {}, [Next]_vars
  PROVE  [View!Next]_<<events, basis, totals>>
<1>0. TypeOK BY DEF IInv
<1>1. CASE Write
  <2>1. CASE \E e \in EventPool : InsertEvent(e)
    BY <1>1, <2>1 DEF InsertEvent, Write, historyVars, View!Next, View!Append
  <2>2. CASE ~\E e \in EventPool : InsertEvent(e)
    BY <1>1, <2>2 DEF Write, StartRun, EndRun, historyVars
  <2>3. QED BY <2>1, <2>2
<1>2. ASSUME NEW d \in Drainers,
             BeginDrain(d) /\ (UNCHANGED storeVars \/ MarkAllDirty)
      PROVE  UNCHANGED <<events, basis, totals>>
  BY <1>2 DEF BeginDrain, MarkAllDirty, storeVars, historyVars
<1>3. ASSUME NEW d \in Drainers, DrainStep(d)
      PROVE  [View!Next]_<<events, basis, totals>>
  <2>1. CASE WriteBack(d)
    <3>1. cur[d] \in Runs /\ basis[cur[d]] \subseteq snap[d]
      BY <1>0, <2>1 DEF WriteBack, IInv, HoldsBetweenClaimAndWrite, TypeOK, ReadsAhead
    <3>2. snap[d] \in SUBSET {e \in events : e.run = cur[d]}
      BY <2>1 DEF WriteBack, IInv, SnapFromLog, Log
    <3>3. basis' = [basis EXCEPT ![cur[d]] = @ \union snap[d]] /\ basis'[cur[d]] = snap[d]
      BY <1>0, <2>1, <3>1 DEF WriteBack, TypeOK
    <3>4. View!Refresh(cur[d], snap[d])
      <4>1. View!ProjectRunTotals(snap[d]) = ProjectRunTotals(snap[d])
        BY DEF View!MapThenFoldSet, MapThenFoldSet, View!ProjectRunTotals,
               ProjectRunTotals, View!Tally, Tally,
               View!LastInSequence, LastInSequence, View!NoTotals, NoTotals,
               View!BilledTokens, BilledTokens, View!BilledCost, BilledCost,
               View!CoerceInt, CoerceInt
      <4>2. totals' = [totals EXCEPT ![cur[d]] = ProjectRunTotals(snap[d])] /\ UNCHANGED events
        BY <2>1 DEF WriteBack, WriteTotals
      <4>3. QED BY <3>3, <4>1, <4>2 DEF View!Refresh
    <3>5. QED BY <3>1, <3>2, <3>4 DEF View!Next
  <2>2. CASE ~WriteBack(d)
    BY <1>3, <2>2
    DEF DrainStep, Poll, Claim, ClaimClean, Skip, ReadEvents, EndBatch, storeVars,
        historyVars
  <2>3. QED BY <2>1, <2>2
<1>4. ASSUME NEW D \in SUBSET Drainers, Abort(D)
      PROVE  UNCHANGED <<events, basis, totals>>
  BY <1>4 DEF Abort, storeVars
<1>5. CASE UNCHANGED vars
  BY <1>5 DEF vars, storeVars, historyVars
<1>6. QED BY <1>1, <1>2, <1>3, <1>4, <1>5 DEF Next

-----------------------------------------------------------------------------
\* The invariant is inductive.
THEOREM Inductive == Spec => []IInv
<1>1. IInv /\ [Next]_vars => IInv'
  <2> SUFFICES ASSUME IInv, [Next]_vars PROVE IInv'
    OBVIOUS
  <2>1. CASE Write
    BY <2>1, WriteInv
  <2>2. CASE \E d \in Drainers :
               BeginDrain(d) /\ (UNCHANGED storeVars \/ MarkAllDirty)
    BY <2>2, BeginInv
  <2>3. CASE \E d \in Drainers : DrainStep(d)
    BY <2>3, QuietInv, ClaimInv, ReadInv, WriteBackInv DEF DrainStep
  <2>4. CASE \E D \in SUBSET Drainers : Abort(D)
    BY <2>4, AbortInv
  <2>5. CASE UNCHANGED vars
    BY <2>5, StutterInv
  <2>6. QED BY <2>1, <2>2, <2>3, <2>4, <2>5 DEF Next
<1>2. QED BY <1>1, InitInv, PTL DEF Spec

\* Every variable of the store and of the drainers keeps its type.
THEOREM TypeCorrect == Spec => []TypeOK
<1>1. IInv => TypeOK
  BY DEF IInv
<1>2. QED BY <1>1, Inductive, PTL

\* For any number of drainers and any failures the columns of a run are the
\* projection of rows of its own log.
THEOREM TotalsAlwaysFromLog == Spec => []TotalsFromLog
<1>1. IInv => TotalsFromLog
  BY DEF IInv
<1>2. QED BY <1>1, Inductive, PTL

\* For any number of drainers, a clean run nobody is projecting shows its whole
\* log, unless a claim on it was given up or a newer write was overtaken.
THEOREM LossCharacterised == Spec => []LostOnlyIfOrphanedOrOvertaken
<1>1. IInv => LostOnlyIfOrphanedOrOvertaken
  BY DEF IInv, Caught, HeldWhole, TotalsFromLog, LostOnlyIfOrphanedOrOvertaken,
         Claimed, Fresh
<1>2. QED BY <1>1, Inductive, PTL
=============================================================================
