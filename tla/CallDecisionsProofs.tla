------------------------- MODULE CallDecisionsProofs -------------------------
(***************************************************************************)
(* Of ContractEnforcement, BlockKeepsRefusing, RefusalRecorded and         *)
(* LadderHolds, for any runs, threads, ladder, ceilings and costs; of      *)
(* LazyToolExposure, ExposureExplained, for any tools and threads; of      *)
(* CheapSummariser, SummarisedAsAgreed, for any agents and threads; of     *)
(* ObservationPolicies, MarkersReachTheirCall and WarnedInTimeAndOnce, for *)
(* any line-ups of policies, requests and threads.                         *)
(*                                                                         *)
(* The accounting of an open run only grows, so a rung that an estimate    *)
(* has reached stays within its reach, and above a block rung there are    *)
(* block rungs only: what was refused once is refused again.  A rung that  *)
(* is marked, or that a call was told is marked, has left a trace, and a   *)
(* trace lasts: the thread that is about to insert the event inserts it or *)
(* fails to.  The bounds of LadderHolds count the threads: those whose     *)
(* call was let through against the calls and the money of its run, those  *)
(* that are to insert an event against the events of its rung.             *)
(*                                                                         *)
(* The summariser's invariant follows each call: a question marked as      *)
(* asked is being answered by a thread of the run, or its answer has been  *)
(* acted upon (the task is disabled), or the run is pardoned.              *)
(*                                                                         *)
(* A marker that a cache resource is new was left by a call that goes on,  *)
(* or by one that failed and is booked as an orphan; calls of a run that   *)
(* are under way at once know of each other.  So a call that finds the     *)
(* marker of another was beside it, or came after one that failed.         *)
(*                                                                         *)
(* A call that began when its run was over budget has had the run warned,  *)
(* or still has the budget policy before it.  What a policy has said it    *)
(* remembers, in the same step, so that it is not said again; and a run    *)
(* has paid for no more calls than have gone out and owe it nothing more.  *)
(***************************************************************************)
EXTENDS CallDecisions, FiniteSetTheorems, WellFoundedInduction, TLAPS

\* The log of r has the event of rung s, will have it, or failed to get it.
Trace(r, s) ==
  \/ events[r][s.at_percent] > 0
  \/ s.at_percent \in unrecorded[r]
  \/ \E t \in Threads : At(t, "emitting") /\ call[t].run = r /\ call[t].step = s

\* Only open runs are tracked, and a new run has no refused calls behind it.
PhasesAgree ==
  \A r \in Runs :
    /\ phase[r] = "open" <=> r \in tracked
    /\ phase[r] = "new" => refused[r] = {}

\* A rung that is marked has left a trace.
FiredTraced ==
  \A r \in Runs, s \in Ladder : s.at_percent \in fired[r] => Trace(r, s)

\* So has a block rung of a run that had a call refused.
RefusalTraced ==
  \A r \in Runs : refused[r] # {} =>
    \E s \in Ladder : s.action = "block" /\ Trace(r, s)

\* What was refused would be refused now.
RefusalStands ==
  \A r \in tracked : \A e \in refused[r] :
    \E s \in Reached(spent[r] + e, calls[r] + 1) : s.action = "block"

\* Of a call under way: where it can be,
CallPlaced(t) ==
  /\ phase[call[t].run] # "new"
  /\ call[t].stage \in {"deciding", "emitting"} => call[t].step # NoStep
  /\ call[t].stage = "emitting" => call[t].emit
  /\ call[t].stage = "calling" => ~Blocks(call[t])

\* the rung it found marked, or has been to insert, has left a trace,
CallTraced(t) ==
  call[t].step # NoStep /\ (~call[t].emit \/ call[t].stage \in {"acting", "calling"})
    => Trace(call[t].run, call[t].step)

\* the rung it found is still within the reach of its estimate,
CallInReach(t) ==
  call[t].step # NoStep /\ call[t].run \in tracked =>
    call[t].step \in Reached(spent[call[t].run] + call[t].estimate,
                             calls[call[t].run] + 1)

\* and it is going to be refused if one no dearer was refused before it began.
CallRefused(t) ==
  BlockIsLast =>
    \A e \in call[t].after : e <= call[t].estimate => Blocks(call[t])

CallOK(t) ==
  call[t] # NoCall =>
    CallPlaced(t) /\ CallTraced(t) /\ CallInReach(t) /\ CallRefused(t)

CInv ==
  /\ TypeOK
  /\ PhasesAgree
  /\ FiredTraced
  /\ RefusalTraced
  /\ RefusalStands
  /\ \A t \in Threads : CallOK(t)

-----------------------------------------------------------------------------
\* The ladder.

\* A set of natural numbers has a least element.
LEMMA Least ==
  ASSUME NEW T \in SUBSET Nat, T # {}
  PROVE  \E x \in T : \A y \in T : x <= y
<1> DEFINE R == {ss \in Nat \X Nat : ss[1] < ss[2]}
<1>1. IsWellFoundedOn(R, Nat)
  BY NatLessThanWellFounded DEF OpToRel
<1> HIDE DEF R
<1>2. \E x \in T : \A y \in T : ~(<<y, x>> \in R)
  BY <1>1, WFMin
<1>3. \A x, y \in T : ~(<<y, x>> \in R) => x <= y
  BY DEF R
<1> QED
  BY <1>2, <1>3

\* StepFor finds the most severe of the rungs reached.
LEMMA StepForMostSevere ==
  ASSUME NEW x \in Nat, NEW n \in Nat, Reached(x, n) # {}
  PROVE  /\ StepFor(x, n) \in Reached(x, n)
         /\ \A u \in Reached(x, n) : u.at_percent <= StepFor(x, n).at_percent
<1> DEFINE Steps == Reached(x, n)
           T == {100 - s.at_percent : s \in Steps}
<1>1. \A s \in Steps : s \in Ladder /\ s.at_percent \in 1 .. 100
  BY LadderAssumption DEF Reached
<1> HIDE DEF Steps
<1>2. T \in SUBSET Nat /\ T # {}
  BY <1>1 DEF Steps
<1>3. PICK d \in T : \A y \in T : d <= y
  BY <1>2, Least
<1>4. PICK s \in Steps : d = 100 - s.at_percent
  OBVIOUS
<1>5. \A u \in Steps : u.at_percent <= s.at_percent
  <2> SUFFICES ASSUME NEW u \in Steps PROVE u.at_percent <= s.at_percent
    OBVIOUS
  <2>1. 100 - u.at_percent \in T
    OBVIOUS
  <2>2. 100 - s.at_percent <= 100 - u.at_percent
    BY <2>1, <1>3, <1>4
  <2>3. s.at_percent \in 1 .. 100 /\ u.at_percent \in 1 .. 100
    BY <1>1
  <2> QED
    BY <2>2, <2>3, SMTT(30)
<1> QED
  BY <1>5 DEF StepFor, Steps

LEMMA StepForType ==
  ASSUME NEW x \in Nat, NEW n \in Nat
  PROVE  /\ StepFor(x, n) \in Ladder \union {NoStep}
         /\ StepFor(x, n) # NoStep => StepFor(x, n) \in Reached(x, n)
<1>1. Reached(x, n) \subseteq Ladder
  BY DEF Reached
<1>2. CASE Reached(x, n) = {}
  BY <1>2 DEF StepFor
<1>3. CASE Reached(x, n) # {}
  BY <1>1, <1>3, StepForMostSevere
<1> QED
  BY <1>2, <1>3

\* What a projection has reached, a higher one has reached.
LEMMA ReachedGrows ==
  ASSUME NEW x \in Nat, NEW y \in Nat, x <= y,
         NEW n \in Nat, NEW m \in Nat, n <= m
  PROVE  Reached(x, n) \subseteq Reached(y, m)
<1>1. \A s \in Ladder : s.at_percent \in Nat
  BY LadderAssumption
<1>2. \A c \in Nat, p \in Nat :
        /\ Consumed(c, x, p) => Consumed(c, y, p)
        /\ Consumed(c, n, p) => Consumed(c, m, p)
  <2> SUFFICES ASSUME NEW c \in Nat, NEW p \in Nat
               PROVE  /\ Consumed(c, x, p) => Consumed(c, y, p)
                      /\ Consumed(c, n, p) => Consumed(c, m, p)
    OBVIOUS
  <2> DEFINE q == p * c
  <2>1. q \in Int
    OBVIOUS
  <2> HIDE DEF q
  <2>2. (x * 100 >= q => y * 100 >= q) /\ (n * 100 >= q => m * 100 >= q)
    BY <2>1
  <2> QED
    BY <2>2 DEF Consumed, q
<1> QED
  BY <1>1, <1>2, CeilingsAssumption DEF Reached

\* Where a block rung is reached, the step found blocks.
LEMMA BlockReached ==
  ASSUME BlockIsLast, NEW x \in Nat, NEW n \in Nat,
         NEW s \in Reached(x, n), s.action = "block"
  PROVE  StepFor(x, n) # NoStep /\ StepFor(x, n).action = "block"
<1> DEFINE u == StepFor(x, n)
<1>1. u \in Reached(x, n) /\ s.at_percent <= u.at_percent
  BY StepForMostSevere
<1>2. u \in Ladder /\ s \in Ladder
  BY <1>1 DEF Reached
<1> HIDE DEF u
<1>3. s.at_percent \in Nat /\ u.at_percent \in Nat
  BY <1>2, LadderAssumption
<1>4. s.at_percent = u.at_percent \/ s.at_percent < u.at_percent
  BY <1>1, <1>3
<1>5. u.action = "block"
  BY <1>2, <1>4, LadderAssumption DEF BlockIsLast
<1>6. u # NoStep
  BY <1>2, LadderAssumption
<1> QED
  BY <1>5, <1>6 DEF u

-----------------------------------------------------------------------------
\* Types.

\* A thread's call is replaced, and the other threads' calls are not.
LEMMA CallSet ==
  ASSUME TypeOK, NEW t \in Threads, NEW c \in CallRecord \union {NoCall},
         call' = [call EXCEPT ![t] = c]
  PROVE  /\ call' \in [Threads -> CallRecord \union {NoCall}]
         /\ call'[t] = c
         /\ \A u \in Threads : u # t => call'[u] = call[u]
<1>1. call \in [Threads -> CallRecord \union {NoCall}]
  BY DEF TypeOK
<1> QED
  BY <1>1

\* What is known of a call under way.
LEMMA CallTyped ==
  ASSUME TypeOK, NEW t \in Threads, call[t] # NoCall
  PROVE  /\ call[t] \in CallRecord
         /\ call[t].run \in Runs
         /\ call[t].estimate \in 0 .. MaxCost
         /\ call[t].estimate \in Nat
         /\ call[t].step \in Ladder \union {NoStep}
         /\ call[t].after \in SUBSET (0 .. MaxCost)
<1>1. call[t] \in CallRecord
  BY DEF TypeOK
<1> QED
  BY <1>1, CostsAssumption DEF CallRecord

\* A call that goes on to its next stage keeps what it has found.
LEMMA CallMoves ==
  ASSUME TypeOK, NEW t \in Threads, call[t] # NoCall,
         NEW stage \in Stages, NEW model \in {"asked", "cheap"},
         call' = [call EXCEPT ![t].stage = stage, ![t].model = model]
  PROVE  /\ call' \in [Threads -> CallRecord \union {NoCall}]
         /\ call'[t] # NoCall
         /\ call'[t].run = call[t].run
         /\ call'[t].estimate = call[t].estimate
         /\ call'[t].step = call[t].step
         /\ call'[t].emit = call[t].emit
         /\ call'[t].after = call[t].after
         /\ call'[t].stage = stage
         /\ \A u \in Threads : u # t => call'[u] = call[u]
<1> DEFINE c == [call[t] EXCEPT !.stage = stage, !.model = model]
<1>1. call[t] \in CallRecord
  BY CallTyped
<1>2. /\ c \in CallRecord
      /\ c.run = call[t].run /\ c.estimate = call[t].estimate
      /\ c.step = call[t].step /\ c.emit = call[t].emit
      /\ c.after = call[t].after /\ c.stage = stage
  BY <1>1 DEF CallRecord
<1>3. c # NoCall
  BY <1>2, NoCallAssumption
<1>4. call' = [call EXCEPT ![t] = c]
  BY DEF TypeOK
<1> HIDE DEF c
<1>5. /\ call' \in [Threads -> CallRecord \union {NoCall}]
      /\ call'[t] = c
      /\ \A u \in Threads : u # t => call'[u] = call[u]
  BY <1>2, <1>4, CallSet
<1> QED
  BY <1>2, <1>3, <1>5

LEMMA GotoMoves ==
  ASSUME TypeOK, NEW t \in Threads, call[t] # NoCall,
         NEW stage \in Stages, Goto(t, stage)
  PROVE  /\ call' \in [Threads -> CallRecord \union {NoCall}]
         /\ call'[t] # NoCall
         /\ call'[t].run = call[t].run
         /\ call'[t].estimate = call[t].estimate
         /\ call'[t].step = call[t].step
         /\ call'[t].emit = call[t].emit
         /\ call'[t].after = call[t].after
         /\ call'[t].stage = stage
         /\ \A u \in Threads : u # t => call'[u] = call[u]
<1> DEFINE m == call[t].model
<1>1. call[t] \in CallRecord
  BY CallTyped
<1>2. m \in {"asked", "cheap"}
  BY <1>1 DEF CallRecord
<1>3. call' = [call EXCEPT ![t].stage = stage, ![t].model = m]
  BY <1>1 DEF Goto, TypeOK, CallRecord
<1> HIDE DEF m
<1> QED
  BY <1>2, <1>3, CallMoves

-----------------------------------------------------------------------------
\* What a step owes the calls and the refusals it does not touch.

\* No trace is lost.
TracesLast == \A r \in Runs, s \in Ladder : Trace(r, s) => Trace(r, s)'

\* The accounting of a run that is tracked has only grown, and it was tracked
\* before unless it is new.
AccountsGrow ==
  /\ \A r \in Runs : phase[r] # "new" => phase'[r] # "new"
  /\ \A r \in tracked' :
       \/ phase[r] = "new"
       \/ r \in tracked /\ spent[r] <= spent'[r] /\ calls[r] <= calls'[r]

\* A trace lasts when events only accumulate and every thread that was about to
\* insert one still is, or has left a trace.
LEMMA TraceLasts ==
  ASSUME \A r \in Runs, s \in Ladder :
           events[r][s.at_percent] > 0 => events'[r][s.at_percent] > 0,
         \A r \in Runs : unrecorded[r] \subseteq unrecorded'[r],
         \A t \in Threads, r \in Runs, s \in Ladder :
           At(t, "emitting") /\ call[t].run = r /\ call[t].step = s =>
             call'[t] = call[t] \/ Trace(r, s)'
  PROVE  TracesLast
<1> SUFFICES ASSUME NEW r \in Runs, NEW s \in Ladder, Trace(r, s)
             PROVE  Trace(r, s)'
  BY DEF TracesLast
<1>1. CASE events[r][s.at_percent] > 0
  BY <1>1 DEF Trace
<1>2. CASE s.at_percent \in unrecorded[r]
  BY <1>2 DEF Trace
<1>3. CASE \E t \in Threads :
             At(t, "emitting") /\ call[t].run = r /\ call[t].step = s
  <2>1. PICK t \in Threads :
          At(t, "emitting") /\ call[t].run = r /\ call[t].step = s
    BY <1>3
  <2>2. CASE call'[t] = call[t]
    BY <2>1, <2>2 DEF Trace, At
  <2>3. CASE Trace(r, s)'
    BY <2>3
  <2> QED
    BY <2>1, <2>2, <2>3
<1> QED
  BY <1>1, <1>2, <1>3 DEF Trace

\* A call that a step leaves alone stays as the invariant has it.
LEMMA CallKept ==
  ASSUME CInv, TypeOK', TracesLast, AccountsGrow,
         NEW t \in Threads, call'[t] = call[t]
  PROVE  CallOK(t)'
<1> SUFFICES ASSUME call[t] # NoCall PROVE CallOK(t)'
  BY DEF CallOK
<1>1. /\ CallPlaced(t) /\ CallTraced(t) /\ CallInReach(t) /\ CallRefused(t)
      /\ TypeOK
  BY DEF CInv, CallOK
<1> DEFINE c == call[t]
<1>2. c.run \in Runs /\ c.estimate \in Nat /\ c.step \in Ladder \union {NoStep}
  BY <1>1, CallTyped
<1>3. CallPlaced(t)'
  BY <1>1, <1>2 DEF CallPlaced, AccountsGrow, Blocks
<1>4. CallTraced(t)'
  <2>1. CASE c.step # NoStep /\ (~c.emit \/ c.stage \in {"acting", "calling"})
    <3>1. PICK r \in Runs, s \in Ladder : r = c.run /\ s = c.step
      BY <1>2, <2>1
    <3>2. Trace(r, s)
      BY <1>1, <2>1, <3>1 DEF CallTraced
    <3>3. Trace(r, s)'
      BY <3>2 DEF TracesLast
    <3>4. call'[t].run = r /\ call'[t].step = s
      BY <3>1
    <3> QED
      BY <3>3, <3>4 DEF CallTraced, Trace
  <2>2. CASE ~(c.step # NoStep /\ (~c.emit \/ c.stage \in {"acting", "calling"}))
    BY <2>2 DEF CallTraced
  <2> QED
    BY <2>1, <2>2
<1>5. CallInReach(t)'
  <2>1. SUFFICES ASSUME c.step # NoStep, c.run \in tracked'
                 PROVE  c.step \in Reached(spent'[c.run] + c.estimate, calls'[c.run] + 1)
    BY DEF CallInReach, Reached, Consumed
  <2>2. /\ c.run \in tracked
        /\ spent[c.run] <= spent'[c.run] /\ calls[c.run] <= calls'[c.run]
    BY <1>1, <1>2, <2>1 DEF CallPlaced, AccountsGrow
  <2>3. c.step \in Reached(spent[c.run] + c.estimate, calls[c.run] + 1)
    BY <1>1, <2>1, <2>2 DEF CallInReach
  <2>4. /\ spent[c.run] \in Nat /\ calls[c.run] \in Nat
        /\ spent'[c.run] \in Nat /\ calls'[c.run] \in Nat
    BY <1>1, <1>2 DEF TypeOK
  <2> DEFINE x == spent[c.run] + c.estimate
             y == spent'[c.run] + c.estimate
             n == calls[c.run] + 1
             m == calls'[c.run] + 1
  <2>5. x \in Nat /\ y \in Nat /\ x <= y /\ n \in Nat /\ m \in Nat /\ n <= m
    BY <1>2, <2>2, <2>4
  <2>6. c.step \in Reached(x, n)
    BY <2>3
  <2> HIDE DEF x, y, n, m
  <2>7. c.step \in Reached(y, m)
    BY <2>5, <2>6, ReachedGrows
  <2> QED
    BY <2>7 DEF y, m
<1>6. CallRefused(t)'
  BY <1>1 DEF CallRefused, Blocks
<1> QED
  BY <1>3, <1>4, <1>5, <1>6 DEF CallOK

\* The refusals behind a step still stand after it.
LEMMA RefusalsKept ==
  ASSUME CInv, TypeOK', TracesLast, AccountsGrow, refused' = refused
  PROVE  RefusalTraced' /\ RefusalStands'
<1>1. RefusalTraced'
  BY DEF CInv, RefusalTraced, TracesLast
<1>2. ASSUME NEW r \in tracked', NEW e \in refused[r]
      PROVE  \E s \in Reached(spent'[r] + e, calls'[r] + 1) : s.action = "block"
  <2>1. r \in Runs
    BY DEF TypeOK
  <2>2. r \in tracked /\ spent[r] <= spent'[r] /\ calls[r] <= calls'[r]
    BY <1>2, <2>1 DEF CInv, PhasesAgree, AccountsGrow
  <2>3. PICK s \in Reached(spent[r] + e, calls[r] + 1) : s.action = "block"
    BY <2>2 DEF CInv, RefusalStands
  <2>4. /\ spent[r] \in Nat /\ calls[r] \in Nat
        /\ spent'[r] \in Nat /\ calls'[r] \in Nat /\ e \in Nat
    BY <2>1, CostsAssumption DEF CInv, TypeOK
  <2> DEFINE x == spent[r] + e
             y == spent'[r] + e
             n == calls[r] + 1
             m == calls'[r] + 1
  <2>5. x \in Nat /\ y \in Nat /\ x <= y /\ n \in Nat /\ m \in Nat /\ n <= m
    BY <2>2, <2>4
  <2>6. s \in Reached(x, n)
    BY <2>3
  <2> HIDE DEF x, y, n, m
  <2>7. s \in Reached(y, m)
    BY <2>5, <2>6, ReachedGrows
  <2> QED
    BY <2>3, <2>7 DEF y, m
<1>3. RefusalStands'
  BY <1>2 DEF RefusalStands, Reached, Consumed
<1> QED
  BY <1>1, <1>3

\* A step that marks no rung leaves every marked one with its trace.
LEMMA MarksKept ==
  ASSUME CInv, TracesLast, \A r \in Runs : fired'[r] \subseteq fired[r]
  PROVE  FiredTraced'
BY DEF CInv, FiredTraced, TracesLast

-----------------------------------------------------------------------------
\* One lemma per action.

LEMMA InitOK == Init => CInv
<1> SUFFICES ASSUME Init PROVE CInv
  OBVIOUS
<1>1. TypeOK
  BY DEF Init, TypeOK
<1>2. PhasesAgree /\ FiredTraced /\ RefusalTraced /\ RefusalStands
  BY DEF Init, PhasesAgree, FiredTraced, RefusalTraced, RefusalStands
<1>3. \A t \in Threads : CallOK(t)
  BY DEF Init, CallOK
<1> QED
  BY <1>1, <1>2, <1>3 DEF CInv

\* What the steps that leave every call and every history alone owe.
LEMMA CallsAlone ==
  ASSUME CInv, TypeOK', AccountsGrow,
         UNCHANGED <<call, events, historyVars>>,
         \A r \in Runs : fired'[r] \subseteq fired[r]
  PROVE  FiredTraced' /\ RefusalTraced' /\ RefusalStands' /\ \A t \in Threads : CallOK(t)'
<1>1. TracesLast
  BY DEF TracesLast, Trace, At, historyVars
<1>2. call' = call /\ refused' = refused
  BY DEF historyVars
<1> QED
  BY <1>1, <1>2, MarksKept, RefusalsKept, CallKept

LEMMA StartRunStep ==
  ASSUME CInv, NEW r \in Runs, StartRun(r)
  PROVE  CInv'
<1>1. TypeOK /\ PhasesAgree
  BY DEF CInv
<1>2. TypeOK'
  BY <1>1 DEF StartRun, TypeOK, historyVars
<1>3. PhasesAgree'
  BY <1>1 DEF StartRun, TypeOK, PhasesAgree, historyVars
<1>4. AccountsGrow
  <2>1. \A q \in Runs : phase[q] # "new" => phase'[q] # "new"
    BY <1>1 DEF StartRun, TypeOK
  <2>2. ASSUME NEW q \in tracked'
        PROVE  \/ phase[q] = "new"
               \/ q \in tracked /\ spent[q] <= spent'[q] /\ calls[q] <= calls'[q]
    <3>1. q = r \/ q \in tracked
      BY DEF StartRun
    <3>2. spent' = spent /\ calls' = calls /\ phase[r] = "new"
      BY DEF StartRun
    <3>3. q \in Runs
      BY <3>1, <1>1 DEF TypeOK
    <3>4. spent[q] \in Nat /\ calls[q] \in Nat
      BY <1>1, <3>3 DEF TypeOK
    <3> QED
      BY <3>1, <3>2, <3>4
  <2> QED
    BY <2>1, <2>2 DEF AccountsGrow
<1>5. UNCHANGED <<call, events, historyVars>> /\ fired' = fired
  BY DEF StartRun
<1>6. FiredTraced' /\ RefusalTraced' /\ RefusalStands' /\ \A t \in Threads : CallOK(t)'
  BY <1>2, <1>4, <1>5, CallsAlone
<1> QED
  BY <1>2, <1>3, <1>6 DEF CInv

LEMMA EndRunStep ==
  ASSUME CInv, NEW r \in Runs, EndRun(r)
  PROVE  CInv'
<1>1. TypeOK /\ PhasesAgree
  BY DEF CInv
<1>2. TypeOK'
  BY <1>1 DEF EndRun, TypeOK, historyVars
<1>3. PhasesAgree'
  BY <1>1 DEF EndRun, TypeOK, PhasesAgree, historyVars
<1>4. AccountsGrow
  <2>1. \A q \in Runs : phase[q] # "new" => phase'[q] # "new"
    BY <1>1 DEF EndRun, TypeOK
  <2>2. ASSUME NEW q \in tracked'
        PROVE  q \in tracked /\ spent[q] <= spent'[q] /\ calls[q] <= calls'[q]
    <3>1. q # r /\ q \in tracked
      BY DEF EndRun
    <3>2. q \in Runs
      BY <3>1, <1>1 DEF TypeOK
    <3>3. /\ spent'[q] = spent[q] /\ calls'[q] = calls[q]
          /\ spent[q] \in Nat /\ calls[q] \in Nat
      BY <1>1, <3>1, <3>2 DEF EndRun, TypeOK
    <3> QED
      BY <3>1, <3>3
  <2> QED
    BY <2>1, <2>2 DEF AccountsGrow
<1>5. /\ UNCHANGED <<call, events, historyVars>>
      /\ \A q \in Runs : fired'[q] \subseteq fired[q]
  BY <1>1 DEF EndRun, TypeOK
<1>6. FiredTraced' /\ RefusalTraced' /\ RefusalStands' /\ \A t \in Threads : CallOK(t)'
  BY <1>2, <1>4, <1>5, CallsAlone
<1> QED
  BY <1>2, <1>3, <1>6 DEF CInv

LEMMA HelperCallStep ==
  ASSUME CInv, NEW t \in Threads, NEW r \in Runs, HelperCall(t, r)
  PROVE  CInv'
<1>1. TypeOK /\ PhasesAgree
  BY DEF CInv
<1>2. PICK cost \in 0 .. CheapCost : spent' = [spent EXCEPT ![r] = @ + cost]
  BY DEF HelperCall
<1>3. cost \in Nat /\ spent[r] \in Nat /\ spent[r] + cost \in Nat
  BY <1>1, CostsAssumption DEF TypeOK
<1>4. attempts' \in Nat /\ spent' \in [Runs -> Nat]
  BY <1>1, <1>2, <1>3 DEF HelperCall, TypeOK
<1>5. UNCHANGED <<phase, tracked, calls, fired, call, events, historyVars>>
  BY DEF HelperCall
<1>6. TypeOK'
  BY <1>1, <1>4, <1>5 DEF TypeOK, historyVars
<1>7. PhasesAgree'
  BY <1>1, <1>5 DEF PhasesAgree, historyVars
<1>8. AccountsGrow
  <2>1. ASSUME NEW q \in tracked
        PROVE  spent[q] <= spent'[q] /\ calls[q] <= calls'[q]
    <3>1. q \in Runs /\ spent[q] \in Nat /\ calls[q] \in Nat
      BY <1>1 DEF TypeOK
    <3>2. spent'[q] = spent[q] \/ (q = r /\ spent'[q] = spent[r] + cost)
      BY <1>1, <1>2, <3>1 DEF TypeOK
    <3> QED
      BY <1>3, <1>5, <3>1, <3>2
  <2> QED
    BY <1>5, <2>1 DEF AccountsGrow
<1>9. FiredTraced' /\ RefusalTraced' /\ RefusalStands' /\ \A u \in Threads : CallOK(u)'
  BY <1>5, <1>6, <1>8, CallsAlone
<1> QED
  BY <1>6, <1>7, <1>9 DEF CInv

\* What the steps of one thread owe when they refuse nothing.
LEMMA OneCall ==
  ASSUME CInv, TypeOK', AccountsGrow, TracesLast, refused' = refused,
         NEW t \in Threads, CallOK(t)',
         \A u \in Threads : u # t => call'[u] = call[u]
  PROVE  RefusalTraced' /\ RefusalStands' /\ \A u \in Threads : CallOK(u)'
<1>1. ASSUME NEW u \in Threads PROVE CallOK(u)'
  BY CallKept
<1> QED
  BY <1>1, RefusalsKept

\* What the steps owe that leave the accounting as it is.
LEMMA AccountsAlone ==
  ASSUME CInv, UNCHANGED <<phase, tracked, calls, spent>>
  PROVE  AccountsGrow
<1>1. \A q \in tracked : q \in Runs /\ spent[q] \in Nat /\ calls[q] \in Nat
  BY DEF CInv, TypeOK
<1> QED
  BY <1>1 DEF AccountsGrow

\* A thread that is not about to insert an event may move on: no trace is lost.
LEMMA Moved ==
  ASSUME NEW t \in Threads, ~At(t, "emitting"),
         \A u \in Threads : u # t => call'[u] = call[u],
         events' = events, unrecorded' = unrecorded
  PROVE  TracesLast
BY TraceLasts

LEMMA ProviderErrorStep ==
  ASSUME CInv, NEW t \in Threads, ProviderError(t)
  PROVE  CInv'
<1>1. TypeOK /\ PhasesAgree
  BY DEF CInv
<1>2. /\ call' \in [Threads -> CallRecord \union {NoCall}]
      /\ call'[t] = NoCall
      /\ \A u \in Threads : u # t => call'[u] = call[u]
  BY <1>1, CallSet DEF ProviderError
<1>3. UNCHANGED <<phase, tracked, calls, spent, fired, events, attempts, made, paid,
                  refused, unrecorded>>
  BY DEF ProviderError, accountVars, historyVars
<1>4. TypeOK' /\ PhasesAgree'
  BY <1>1, <1>2, <1>3 DEF TypeOK, PhasesAgree
<1>5. ~At(t, "emitting")
  BY DEF ProviderError, At
<1>6. TracesLast /\ AccountsGrow
  BY <1>2, <1>3, <1>5, Moved, AccountsAlone
<1>7. CallOK(t)'
  BY <1>2 DEF CallOK
<1>8. FiredTraced'
  BY <1>3, <1>6, MarksKept
<1>9. RefusalTraced' /\ RefusalStands' /\ \A u \in Threads : CallOK(u)'
  BY <1>2, <1>3, <1>4, <1>6, <1>7, OneCall
<1> QED
  BY <1>4, <1>8, <1>9 DEF CInv

LEMMA RecordCallStep ==
  ASSUME CInv, NEW t \in Threads, RecordCall(t)
  PROVE  CInv'
<1> DEFINE c == call[t]
<1>1. TypeOK /\ PhasesAgree /\ c # NoCall /\ c.stage = "calling"
  BY DEF CInv, RecordCall, At
<1>2. c.run \in Runs
  BY <1>1, CallTyped
<1>3. PICK cost \in 0 .. MaxCost :
        /\ spent' = [spent EXCEPT ![c.run] = IF c.run \in tracked THEN @ + cost ELSE @]
        /\ paid' = [paid EXCEPT ![c.run] = @ + cost]
  <2>1. PICK cost \in 0 .. (IF c.model = "cheap" THEN CheapCost ELSE MaxCost) :
          /\ spent' = [spent EXCEPT ![c.run] = IF c.run \in tracked THEN @ + cost ELSE @]
          /\ paid' = [paid EXCEPT ![c.run] = @ + cost]
    BY DEF RecordCall
  <2>2. cost \in 0 .. MaxCost
    BY CostsAssumption
  <2> QED
    BY <2>1, <2>2
<1>4. /\ calls' = [calls EXCEPT ![c.run] = IF c.run \in tracked THEN @ + 1 ELSE @]
      /\ made' = [made EXCEPT ![c.run] = @ + 1]
      /\ call' = [call EXCEPT ![t] = NoCall]
      /\ UNCHANGED <<phase, tracked, fired, events, attempts, refused, unrecorded>>
  BY DEF RecordCall
<1>5. /\ cost \in Nat /\ spent[c.run] \in Nat /\ paid[c.run] \in Nat
      /\ calls[c.run] \in Nat /\ made[c.run] \in Nat
  BY <1>1, <1>2, CostsAssumption DEF TypeOK
<1>6. /\ call' \in [Threads -> CallRecord \union {NoCall}]
      /\ call'[t] = NoCall
      /\ \A u \in Threads : u # t => call'[u] = call[u]
  BY <1>1, <1>4, CallSet
<1>7. /\ spent' \in [Runs -> Nat] /\ paid' \in [Runs -> Nat]
      /\ calls' \in [Runs -> Nat] /\ made' \in [Runs -> Nat]
  <2>1. /\ spent[c.run] + cost \in Nat /\ paid[c.run] + cost \in Nat
        /\ calls[c.run] + 1 \in Nat /\ made[c.run] + 1 \in Nat
    BY <1>5
  <2>2. /\ spent \in [Runs -> Nat] /\ paid \in [Runs -> Nat]
        /\ calls \in [Runs -> Nat] /\ made \in [Runs -> Nat]
    BY <1>1 DEF TypeOK
  <2> HIDE DEF c
  <2>3. spent' \in [Runs -> Nat]
    BY <1>3, <2>1, <2>2
  <2>4. paid' \in [Runs -> Nat]
    BY <1>3, <2>1, <2>2
  <2>5. calls' \in [Runs -> Nat] /\ made' \in [Runs -> Nat]
    BY <1>4, <2>1, <2>2
  <2> QED
    BY <2>3, <2>4, <2>5
<1>8. TypeOK' /\ PhasesAgree'
  BY <1>1, <1>4, <1>6, <1>7 DEF TypeOK, PhasesAgree
<1>9. AccountsGrow
  <2>1. ASSUME NEW q \in tracked
        PROVE  spent[q] <= spent'[q] /\ calls[q] <= calls'[q]
    <3>1. q \in Runs /\ spent[q] \in Nat /\ calls[q] \in Nat
      BY <1>1 DEF TypeOK
    <3>2. CASE q = c.run
      BY <1>1, <1>3, <1>4, <1>5, <3>1, <3>2 DEF TypeOK
    <3>3. CASE q # c.run
      <4>1. spent'[q] = spent[q] /\ calls'[q] = calls[q]
        BY <1>1, <1>3, <1>4, <3>1, <3>3 DEF TypeOK
      <4> QED
        BY <3>1, <4>1
    <3> QED
      BY <3>2, <3>3
  <2> QED
    BY <1>4, <2>1 DEF AccountsGrow
<1>10. TracesLast
  <2>1. ~At(t, "emitting")
    BY <1>1 DEF At
  <2> QED
    BY <1>4, <1>6, <2>1, Moved
<1>11. CallOK(t)'
  BY <1>6 DEF CallOK
<1>12. FiredTraced'
  BY <1>4, <1>10, MarksKept
<1>13. RefusalTraced' /\ RefusalStands' /\ \A u \in Threads : CallOK(u)'
  BY <1>4, <1>6, <1>8, <1>9, <1>10, <1>11, OneCall
<1> QED
  BY <1>8, <1>12, <1>13 DEF CInv

LEMMA ProceedStep ==
  ASSUME CInv, NEW t \in Threads, Proceed(t)
  PROVE  CInv'
<1> DEFINE c == call[t]
           model == IF Switches(c) THEN "cheap" ELSE c.model
<1>1. /\ TypeOK /\ PhasesAgree /\ c # NoCall /\ c.stage = "acting"
      /\ CallPlaced(t) /\ CallTraced(t) /\ CallInReach(t) /\ CallRefused(t)
      /\ ~Blocks(c)
  BY DEF CInv, CallOK, Proceed, At
<1>2. c \in CallRecord
  BY <1>1, CallTyped
<1>3. model \in {"asked", "cheap"} /\ "calling" \in Stages
  BY <1>2 DEF CallRecord, Stages
<1>4. /\ call' = [call EXCEPT ![t].stage = "calling", ![t].model = model]
      /\ UNCHANGED <<phase, tracked, calls, spent, fired, events, attempts, made, paid,
                     refused, unrecorded>>
  BY <1>1, <1>2 DEF Proceed, accountVars, historyVars, TypeOK, CallRecord
<1> HIDE DEF model
<1>5. /\ call' \in [Threads -> CallRecord \union {NoCall}]
      /\ call'[t] # NoCall
      /\ call'[t].run = c.run /\ call'[t].estimate = c.estimate
      /\ call'[t].step = c.step /\ call'[t].emit = c.emit
      /\ call'[t].after = c.after /\ call'[t].stage = "calling"
      /\ \A u \in Threads : u # t => call'[u] = call[u]
  BY <1>1, <1>3, <1>4, CallMoves
<1>6. TypeOK' /\ PhasesAgree'
  BY <1>1, <1>4, <1>5 DEF TypeOK, PhasesAgree
<1>7. TracesLast /\ AccountsGrow
  <2>1. ~At(t, "emitting")
    BY <1>1 DEF At
  <2> QED
    BY <1>4, <1>5, <2>1, Moved, AccountsAlone
<1>8. CallOK(t)'
  <2>1. CallPlaced(t)'
    BY <1>1, <1>4, <1>5 DEF CallPlaced, Blocks
  <2>2. CallTraced(t)'
    <3>1. CASE c.step # NoStep
      <4>1. PICK r \in Runs, s \in Ladder : r = c.run /\ s = c.step
        BY <1>1, <3>1, CallTyped
      <4>2. Trace(r, s)'
        BY <1>1, <1>7, <3>1, <4>1 DEF CallTraced, TracesLast
      <4> QED
        BY <1>5, <4>1, <4>2 DEF CallTraced, Trace
    <3>2. CASE c.step = NoStep
      BY <1>5, <3>2 DEF CallTraced
    <3> QED
      BY <3>1, <3>2
  <2>3. CallInReach(t)'
    BY <1>1, <1>4, <1>5 DEF CallInReach, Reached, Consumed
  <2>4. CallRefused(t)'
    BY <1>1, <1>5 DEF CallRefused, Blocks
  <2> QED
    BY <2>1, <2>2, <2>3, <2>4 DEF CallOK
<1>9. FiredTraced'
  BY <1>4, <1>7, MarksKept
<1>10. RefusalTraced' /\ RefusalStands' /\ \A u \in Threads : CallOK(u)'
  BY <1>4, <1>5, <1>6, <1>7, <1>8, OneCall
<1> QED
  BY <1>6, <1>9, <1>10 DEF CInv

LEMMA MarkStep ==
  ASSUME CInv, NEW t \in Threads, Mark(t)
  PROVE  CInv'
<1> DEFINE c == call[t]
           stage == IF c.emit THEN "emitting" ELSE "acting"
<1>1. /\ TypeOK /\ PhasesAgree /\ FiredTraced /\ c # NoCall /\ c.stage = "deciding"
      /\ CallPlaced(t) /\ CallTraced(t) /\ CallInReach(t) /\ CallRefused(t)
  BY DEF CInv, CallOK, Mark, At
<1>2. stage \in Stages /\ Goto(t, stage)
  BY DEF Mark, Stages
<1> HIDE DEF stage
<1>3. /\ call' \in [Threads -> CallRecord \union {NoCall}]
      /\ call'[t] # NoCall
      /\ call'[t].run = c.run /\ call'[t].estimate = c.estimate
      /\ call'[t].step = c.step /\ call'[t].emit = c.emit
      /\ call'[t].after = c.after /\ call'[t].stage = stage
      /\ \A u \in Threads : u # t => call'[u] = call[u]
  BY <1>1, <1>2, GotoMoves
<1>4. /\ fired' = IF c.emit /\ c.run \in tracked
                  THEN [fired EXCEPT ![c.run] = @ \union {c.step.at_percent}]
                  ELSE fired
      /\ UNCHANGED <<phase, tracked, calls, spent, events, attempts, made, paid, refused,
                     unrecorded>>
  BY DEF Mark, historyVars
<1>5. PICK r \in Runs, s \in Ladder : r = c.run /\ s = c.step
  BY <1>1, CallTyped DEF CallPlaced
<1>6. s.at_percent \in Percents
  BY DEF Percents
<1>7. fired' \in [Runs -> SUBSET Percents]
  <2>1. fired \in [Runs -> SUBSET Percents]
    BY <1>1 DEF TypeOK
  <2>2. fired' = fired \/ fired' = [fired EXCEPT ![r] = @ \union {s.at_percent}]
    BY <1>4, <1>5
  <2> QED
    BY <1>6, <2>1, <2>2
<1>8. TypeOK' /\ PhasesAgree'
  BY <1>1, <1>3, <1>4, <1>7 DEF TypeOK, PhasesAgree
<1>9. TracesLast /\ AccountsGrow
  <2>1. ~At(t, "emitting")
    BY <1>1 DEF At
  <2> QED
    BY <1>3, <1>4, <2>1, Moved, AccountsAlone
<1>10. CallOK(t)'
  <2>1. CallPlaced(t)'
    BY <1>1, <1>3, <1>4 DEF CallPlaced, stage
  <2>2. CallTraced(t)'
    <3>1. CASE c.emit
      BY <1>3, <3>1 DEF CallTraced, stage
    <3>2. CASE ~c.emit
      <4>1. Trace(r, s)
        BY <1>1, <1>5, <3>2, LadderAssumption DEF CallTraced
      <4>2. Trace(r, s)'
        BY <1>9, <4>1 DEF TracesLast
      <4> QED
        BY <1>3, <1>5, <4>2 DEF CallTraced, Trace
    <3> QED
      BY <3>1, <3>2
  <2>3. CallInReach(t)'
    BY <1>1, <1>3, <1>4 DEF CallInReach, Reached, Consumed
  <2>4. CallRefused(t)'
    BY <1>1, <1>3 DEF CallRefused, Blocks
  <2> QED
    BY <2>1, <2>2, <2>3, <2>4 DEF CallOK
<1>11. FiredTraced'
  <2> SUFFICES ASSUME NEW q \in Runs, NEW u \in Ladder, u.at_percent \in fired'[q]
               PROVE  Trace(q, u)'
    BY DEF FiredTraced
  <2>1. CASE u.at_percent \in fired[q]
    BY <1>1, <1>9, <2>1 DEF FiredTraced, TracesLast
  <2>2. CASE u.at_percent \notin fired[q]
    <3>1. c.emit /\ q = r /\ u.at_percent = s.at_percent
      BY <1>1, <1>4, <1>5, <2>2 DEF TypeOK
    <3>2. u = s
      BY <3>1, LadderAssumption
    <3>3. call'[t].stage = "emitting"
      BY <1>3, <3>1 DEF stage
    <3> QED
      BY <1>3, <1>5, <3>1, <3>2, <3>3 DEF Trace, At
  <2> QED
    BY <2>1, <2>2
<1>12. RefusalTraced' /\ RefusalStands' /\ \A u \in Threads : CallOK(u)'
  BY <1>3, <1>4, <1>8, <1>9, <1>10, OneCall
<1> QED
  BY <1>8, <1>11, <1>12 DEF CInv

LEMMA EmitViolationStep ==
  ASSUME CInv, NEW t \in Threads, EmitViolation(t)
  PROVE  CInv'
<1> DEFINE c == call[t]
<1>1. /\ TypeOK /\ PhasesAgree /\ c # NoCall /\ c.stage = "emitting"
      /\ CallPlaced(t) /\ CallInReach(t) /\ CallRefused(t)
  BY DEF CInv, CallOK, EmitViolation, At
<1>2. "acting" \in Stages /\ Goto(t, "acting")
  BY DEF EmitViolation, Stages
<1>3. /\ call' \in [Threads -> CallRecord \union {NoCall}]
      /\ call'[t] # NoCall
      /\ call'[t].run = c.run /\ call'[t].estimate = c.estimate
      /\ call'[t].step = c.step /\ call'[t].emit = c.emit
      /\ call'[t].after = c.after /\ call'[t].stage = "acting"
      /\ \A u \in Threads : u # t => call'[u] = call[u]
  BY <1>1, <1>2, GotoMoves
<1>4. PICK r \in Runs, s \in Ladder : r = c.run /\ s = c.step
  BY <1>1, CallTyped DEF CallPlaced
<1>5. UNCHANGED <<phase, tracked, calls, spent, fired, attempts, made, paid, refused>>
  BY DEF EmitViolation, accountVars
<1>6. \/ /\ events' = [events EXCEPT ![r][s.at_percent] = @ + 1]
         /\ unrecorded' = unrecorded
      \/ /\ unrecorded' = [unrecorded EXCEPT ![r] = @ \union {s.at_percent}]
         /\ events' = events
  BY <1>4 DEF EmitViolation
<1> DEFINE p == s.at_percent
<1>7. p \in Percents
  BY DEF Percents
<1>8. events \in [Runs -> [Percents -> Nat]] /\ unrecorded \in [Runs -> SUBSET Percents]
  BY <1>1 DEF TypeOK
<1> HIDE DEF c, p
<1>9. /\ events' \in [Runs -> [Percents -> Nat]]
      /\ unrecorded' \in [Runs -> SUBSET Percents]
      /\ events'[r][p] > 0 \/ p \in unrecorded'[r]
      /\ \A q \in Runs, k \in Percents : events[q][k] > 0 => events'[q][k] > 0
      /\ \A q \in Runs : unrecorded[q] \subseteq unrecorded'[q]
  <2>1. CASE events' = [events EXCEPT ![r][p] = @ + 1] /\ unrecorded' = unrecorded
    <3>1. events[r] \in [Percents -> Nat] /\ events[r][p] + 1 \in Nat \ {0}
      BY <1>7, <1>8
    <3>2. [events[r] EXCEPT ![p] = @ + 1] \in [Percents -> Nat]
      BY <1>7, <3>1
    <3>3. events' = [events EXCEPT ![r] = [events[r] EXCEPT ![p] = @ + 1]]
      BY <2>1
    <3>4. events' \in [Runs -> [Percents -> Nat]]
      BY <1>8, <3>2, <3>3
    <3>5. events'[r][p] > 0
      BY <1>7, <1>8, <2>1, <3>1
    <3>6. ASSUME NEW q \in Runs, NEW k \in Percents, events[q][k] > 0
          PROVE  events'[q][k] > 0
      <4>1. CASE q = r /\ k = p
        BY <3>5, <4>1
      <4>2. CASE ~(q = r /\ k = p)
        <5>1. events'[q][k] = events[q][k]
          BY <1>7, <1>8, <2>1, <4>2
        <5> QED
          BY <3>6, <5>1
      <4> QED
        BY <4>1, <4>2
    <3> QED
      BY <1>8, <2>1, <3>4, <3>5, <3>6
  <2>2. CASE unrecorded' = [unrecorded EXCEPT ![r] = @ \union {p}] /\ events' = events
    BY <1>7, <1>8, <2>2
  <2> QED
    BY <1>6, <2>1, <2>2 DEF p
<1>10. TypeOK' /\ PhasesAgree'
  BY <1>1, <1>3, <1>5, <1>9 DEF TypeOK, PhasesAgree
<1>11. Trace(r, s)'
  BY <1>9 DEF Trace, p
<1>12. TracesLast
  <2>1. \A u \in Threads, q \in Runs, k \in Ladder :
          At(u, "emitting") /\ call[u].run = q /\ call[u].step = k =>
            call'[u] = call[u] \/ Trace(q, k)'
    BY <1>3, <1>4, <1>11 DEF c
  <2>2. \A q \in Runs, k \in Ladder :
          events[q][k.at_percent] > 0 => events'[q][k.at_percent] > 0
    BY <1>9 DEF Percents
  <2> QED
    BY <1>9, <2>1, <2>2, TraceLasts
<1>13. AccountsGrow
  BY <1>5, AccountsAlone
<1>14. CallOK(t)'
  <2>1. CallPlaced(t)'
    BY <1>1, <1>3, <1>5 DEF CallPlaced, c
  <2>2. CallTraced(t)'
    BY <1>3, <1>4, <1>11 DEF CallTraced, Trace
  <2>3. CallInReach(t)'
    BY <1>1, <1>3, <1>5 DEF CallInReach, Reached, Consumed, c
  <2>4. CallRefused(t)'
    BY <1>1, <1>3 DEF CallRefused, Blocks, c
  <2> QED
    BY <2>1, <2>2, <2>3, <2>4 DEF CallOK
<1>15. FiredTraced'
  BY <1>5, <1>12, MarksKept
<1>16. RefusalTraced' /\ RefusalStands' /\ \A u \in Threads : CallOK(u)'
  BY <1>3, <1>5, <1>10, <1>12, <1>13, <1>14, OneCall
<1> QED
  BY <1>10, <1>15, <1>16 DEF CInv

LEMMA RefuseStep ==
  ASSUME CInv, NEW t \in Threads, Refuse(t)
  PROVE  CInv'
<1> DEFINE c == call[t]
<1>1. /\ TypeOK /\ PhasesAgree /\ RefusalTraced /\ RefusalStands
      /\ c # NoCall /\ c.stage = "acting" /\ Blocks(c)
      /\ CallPlaced(t) /\ CallTraced(t) /\ CallInReach(t)
  BY DEF CInv, CallOK, Refuse, At
<1>2. /\ call' \in [Threads -> CallRecord \union {NoCall}]
      /\ call'[t] = NoCall
      /\ \A u \in Threads : u # t => call'[u] = call[u]
  BY <1>1, CallSet DEF Refuse
<1>3. /\ refused' = [refused EXCEPT ![c.run] = @ \union {c.estimate}]
      /\ UNCHANGED <<phase, tracked, calls, spent, fired, events, attempts, made, paid,
                     unrecorded>>
  BY DEF Refuse, accountVars
<1>4. PICK r \in Runs, s \in Ladder, e \in 0 .. MaxCost :
        r = c.run /\ s = c.step /\ e = c.estimate
  BY <1>1, CallTyped DEF Blocks
<1> HIDE DEF c
<1>5. refused \in [Runs -> SUBSET (0 .. MaxCost)]
  BY <1>1 DEF TypeOK
<1>6. /\ refused' = [refused EXCEPT ![r] = @ \union {e}]
      /\ refused' \in [Runs -> SUBSET (0 .. MaxCost)]
  BY <1>3, <1>4, <1>5
<1>7. TypeOK'
  BY <1>1, <1>2, <1>3, <1>6 DEF TypeOK
<1>8. PhasesAgree'
  <2>1. phase[r] # "new"
    BY <1>1, <1>4 DEF CallPlaced, c
  <2> QED
    BY <1>1, <1>3, <1>5, <1>6, <2>1 DEF PhasesAgree
<1>9. TracesLast /\ AccountsGrow
  <2>1. ~At(t, "emitting")
    BY <1>1 DEF At, c
  <2> QED
    BY <1>2, <1>3, <2>1, Moved, AccountsAlone
<1>10. FiredTraced'
  BY <1>3, <1>9, MarksKept
<1>11. RefusalTraced'
  <2> SUFFICES ASSUME NEW q \in Runs, refused'[q] # {}
               PROVE  \E u \in Ladder : u.action = "block" /\ Trace(q, u)'
    BY DEF RefusalTraced
  <2>1. CASE q = r
    <3>1. Trace(r, s) /\ s.action = "block"
      BY <1>1, <1>4 DEF CallTraced, Blocks, c
    <3> QED
      BY <1>9, <2>1, <3>1 DEF TracesLast
  <2>2. CASE q # r
    <3>1. refused[q] # {}
      BY <1>5, <1>6, <2>2
    <3> QED
      BY <1>1, <1>9, <3>1 DEF RefusalTraced, TracesLast
  <2> QED
    BY <2>1, <2>2
<1>12. RefusalStands'
  <2>1. ASSUME NEW q \in tracked, NEW x \in refused'[q]
        PROVE  \E u \in Reached(spent[q] + x, calls[q] + 1) : u.action = "block"
    <3>1. q \in Runs
      BY <1>1 DEF TypeOK
    <3>2. CASE x \in refused[q]
      BY <1>1, <3>2 DEF RefusalStands
    <3>3. CASE x \notin refused[q]
      <4>1. q = r /\ x = e
        BY <1>5, <1>6, <3>1, <3>3
      <4>2. s \in Reached(spent[r] + e, calls[r] + 1)
        BY <1>1, <1>4, <4>1 DEF CallInReach, Blocks, c
      <4>3. s.action = "block"
        BY <1>1, <1>4 DEF Blocks
      <4> QED
        BY <4>1, <4>2, <4>3
    <3> QED
      BY <3>2, <3>3
  <2> QED
    BY <1>3, <2>1 DEF RefusalStands, Reached, Consumed
<1>13. ASSUME NEW u \in Threads PROVE CallOK(u)'
  <2>1. CASE u = t
    BY <1>2, <2>1 DEF CallOK
  <2>2. CASE u # t
    BY <1>2, <1>7, <1>9, <2>2, CallKept
  <2> QED
    BY <2>1, <2>2
<1> QED
  BY <1>7, <1>8, <1>10, <1>11, <1>12, <1>13 DEF CInv

LEMMA BeginCallStep ==
  ASSUME CInv, NEW t \in Threads, NEW r \in Runs, BeginCall(t, r)
  PROVE  CInv'
<1>1. /\ TypeOK /\ PhasesAgree /\ FiredTraced /\ RefusalStands
      /\ phase[r] = "open" /\ call[t] = NoCall /\ r \in tracked
  BY DEF CInv, BeginCall, PhasesAgree
<1>2. PICK estimate \in 0 .. MaxCost :
        LET step == StepFor(spent[r] + estimate, calls[r] + 1) IN
          call' = [call EXCEPT ![t] =
            [run |-> r, estimate |-> estimate, step |-> step,
             emit |-> step # NoStep /\ step.at_percent \notin fired[r],
             stage |-> IF step = NoStep THEN "acting" ELSE "deciding",
             model |-> "asked", after |-> refused[r]]]
  BY DEF BeginCall
<1> DEFINE x == spent[r] + estimate
           n == calls[r] + 1
           step == StepFor(x, n)
           emit == step # NoStep /\ step.at_percent \notin fired[r]
           stage == IF step = NoStep THEN "acting" ELSE "deciding"
           c == [run |-> r, estimate |-> estimate, step |-> step, emit |-> emit,
                 stage |-> stage, model |-> "asked", after |-> refused[r]]
<1>3. call' = [call EXCEPT ![t] = c]
  BY <1>2
<1>4. x \in Nat /\ n \in Nat /\ estimate \in Nat
  BY <1>1, CostsAssumption DEF TypeOK
<1> HIDE DEF x, n
<1>5. /\ step \in Ladder \union {NoStep}
      /\ step # NoStep => step \in Reached(x, n)
  BY <1>4, StepForType
<1> HIDE DEF step
<1>6. emit \in BOOLEAN /\ stage \in Stages /\ refused[r] \in SUBSET (0 .. MaxCost)
  BY <1>1 DEF Stages, TypeOK
<1>7. /\ c \in CallRecord
      /\ c.run = r /\ c.estimate = estimate /\ c.step = step /\ c.emit = emit
      /\ c.stage = stage /\ c.after = refused[r]
  BY <1>5, <1>6 DEF CallRecord
<1> HIDE DEF c
<1>8. /\ call' \in [Threads -> CallRecord \union {NoCall}]
      /\ call'[t] = c
      /\ \A u \in Threads : u # t => call'[u] = call[u]
  BY <1>1, <1>3, <1>7, CallSet
<1>9. /\ attempts' = attempts + 1 /\ tracked' = tracked
      /\ UNCHANGED <<phase, calls, spent, fired, events, made, paid, refused, unrecorded>>
  BY <1>1 DEF BeginCall, historyVars
<1>10. TypeOK' /\ PhasesAgree'
  BY <1>1, <1>8, <1>9 DEF TypeOK, PhasesAgree
<1>11. TracesLast /\ AccountsGrow
  <2>1. ~At(t, "emitting")
    BY <1>1 DEF At
  <2> QED
    BY <1>8, <1>9, <2>1, Moved, AccountsAlone
<1>12. CallOK(t)'
  <2>1. CallPlaced(t)'
    BY <1>1, <1>7, <1>8, <1>9 DEF CallPlaced, stage
  <2>2. CallTraced(t)'
    <3>1. CASE step # NoStep /\ ~emit
      <4>1. step \in Ladder /\ Trace(r, step)
        BY <1>1, <1>5, <3>1 DEF FiredTraced, emit
      <4>2. PICK s \in Ladder : s = step
        BY <4>1
      <4>3. Trace(r, s)'
        BY <1>11, <4>1, <4>2 DEF TracesLast
      <4> QED
        BY <1>7, <1>8, <4>2, <4>3 DEF CallTraced, Trace
    <3>2. CASE step = NoStep \/ emit
      BY <1>7, <1>8, <3>2 DEF CallTraced, stage, emit
    <3> QED
      BY <3>1, <3>2
  <2>3. CallInReach(t)'
    BY <1>5, <1>7, <1>8, <1>9 DEF CallInReach, x, n
  <2>4. CallRefused(t)'
    <3> SUFFICES ASSUME BlockIsLast, NEW e \in refused[r], e <= estimate
                 PROVE  step # NoStep /\ step.action = "block"
      BY <1>7, <1>8 DEF CallRefused, Blocks, BlockIsLast
    <3>1. PICK s \in Reached(spent[r] + e, n) : s.action = "block"
      BY <1>1 DEF RefusalStands, n
    <3>2. spent[r] \in Nat /\ e \in Nat
      BY <1>1, <1>6, CostsAssumption DEF TypeOK
    <3>3. spent[r] + e \in Nat /\ spent[r] + e <= x
      BY <1>4, <3>2 DEF x
    <3>4. s \in Reached(x, n)
      <4> DEFINE y == spent[r] + e
      <4>1. y \in Nat /\ y <= x /\ s \in Reached(y, n) /\ n <= n
        BY <1>4, <3>1, <3>3
      <4> HIDE DEF y
      <4> QED
        BY <1>4, <4>1, ReachedGrows
    <3> QED
      BY <1>4, <3>1, <3>4, BlockReached DEF step
  <2> QED
    BY <2>1, <2>2, <2>3, <2>4 DEF CallOK
<1>13. FiredTraced'
  BY <1>9, <1>11, MarksKept
<1>14. RefusalTraced' /\ RefusalStands' /\ \A u \in Threads : CallOK(u)'
  BY <1>8, <1>9, <1>10, <1>11, <1>12, OneCall
<1> QED
  BY <1>10, <1>13, <1>14 DEF CInv

LEMMA StutterStep ==
  ASSUME CInv, UNCHANGED vars
  PROVE  CInv'
<1>1. UNCHANGED <<phase, tracked, calls, spent, fired, call, events, attempts, made,
                  paid, refused, unrecorded>>
  BY DEF vars, accountVars, historyVars
<1>2. TypeOK' /\ PhasesAgree'
  BY <1>1 DEF CInv, TypeOK, PhasesAgree
<1>3. AccountsGrow
  BY <1>1, AccountsAlone
<1>4. FiredTraced' /\ RefusalTraced' /\ RefusalStands' /\ \A t \in Threads : CallOK(t)'
  BY <1>1, <1>2, <1>3, CallsAlone DEF historyVars
<1> QED
  BY <1>2, <1>4 DEF CInv

-----------------------------------------------------------------------------
\* CInv is an invariant, and implies what the runs check.
THEOREM Invariant == Spec => []CInv
<1>1. Init => CInv
  BY InitOK
<1>2. CInv /\ [Next]_vars => CInv'
  <2> SUFFICES ASSUME CInv, [Next]_vars PROVE CInv'
    OBVIOUS
  <2>1. ASSUME NEW r \in Runs, StartRun(r) \/ EndRun(r)
        PROVE  CInv'
    BY <2>1, StartRunStep, EndRunStep
  <2>2. ASSUME NEW t \in Threads, NEW r \in Runs, BeginCall(t, r) \/ HelperCall(t, r)
        PROVE  CInv'
    BY <2>2, BeginCallStep, HelperCallStep
  <2>3. ASSUME NEW t \in Threads,
               Mark(t) \/ EmitViolation(t) \/ Proceed(t) \/ Refuse(t)
                 \/ RecordCall(t) \/ ProviderError(t)
        PROVE  CInv'
    BY <2>3, MarkStep, EmitViolationStep, ProceedStep, RefuseStep, RecordCallStep,
       ProviderErrorStep
  <2>4. CASE UNCHANGED vars
    BY <2>4, StutterStep
  <2> QED
    BY <2>1, <2>2, <2>3, <2>4 DEF Next
<1> QED
  BY <1>1, <1>2, PTL DEF Spec

\* The accounting and the calls under way always hold values of their types.
THEOREM TypeCorrect == Spec => []TypeOK
<1>1. CInv => TypeOK
  BY DEF CInv
<1> QED
  BY <1>1, Invariant, PTL

\* The enforcer refuses no call without a trace in the log of its run: the event
\* of a block rung is there, is about to be inserted, or its insert failed.
THEOREM RefusalsRecorded == Spec => []RefusalRecorded
<1>1. CInv => RefusalRecorded
  BY DEF CInv, RefusalTraced, RefusalRecorded, Trace
<1> QED
  BY <1>1, Invariant, PTL

\* Once enforce_before_call has refused a call of a run, it lets through none
\* that begins later and is estimated to cost as much, whatever its threads do,
\* when no softer rung lies above a block rung.
THEOREM BlocksKeepRefusing == Spec => []BlockKeepsRefusing
<1>1. CInv => BlockKeepsRefusing
  <2> SUFFICES ASSUME CInv, NEW t \in Threads, BlockIsLast, At(t, "calling"),
                      NEW e \in call[t].after
               PROVE  call[t].estimate < e
    BY DEF BlockKeepsRefusing
  <2>1. TypeOK /\ call[t] # NoCall /\ CallRefused(t)
    BY DEF CInv, CallOK, At
  <2>2. ~Blocks(call[t])
    BY <2>1 DEF CInv, CallOK, CallPlaced, At
  <2>3. ~(e <= call[t].estimate)
    BY <2>1, <2>2 DEF CallRefused
  <2>4. e \in Nat /\ call[t].estimate \in Nat
    BY <2>1, CallTyped, CostsAssumption
  <2> QED
    BY <2>3, <2>4
<1> QED
  BY <1>1, Invariant, PTL

-----------------------------------------------------------------------------
\* The ladder's bounds.  A thread whose call was let through counts against the
\* calls of its run before it is answered, and a thread that is to insert an event
\* counts against the events before it does.

\* The calls of r that will reach the SDK or have reached it.
Live(r) == {t \in Threads : call[t] # NoCall /\ call[t].run = r /\ ~Blocks(call[t])}

\* The threads that are going to insert an event of rung p for r.
Announcing(r, p) ==
  {t \in Threads : /\ call[t] # NoCall /\ call[t].run = r /\ call[t].emit
                   /\ call[t].stage \in {"deciding", "emitting"}
                   /\ call[t].step.at_percent = p}

\* What the enforcer knows of a run is what became of its calls, until the run is over.
Accounted ==
  \A r \in Runs : phase[r] # "over" =>
    /\ made[r] = calls[r]
    /\ paid[r] <= spent[r]
    /\ \A p \in Percents : events[r][p] > 0 => p \in fired[r]

MarkedFirst ==
  \A t \in Threads : At(t, "emitting") /\ phase[call[t].run] # "over" =>
    call[t].step.at_percent \in fired[call[t].run]

CallsKept ==
  \A r \in Runs, s \in Ladder :
    BlockIsLast /\ s.action = "block" /\ MaxLlmCalls # 0 =>
      (made[r] + Cardinality(Live(r)) - (Cardinality(Threads) - 1)) * 100
        < s.at_percent * MaxLlmCalls

SpendKept ==
  \A r \in Runs, s \in Ladder :
    BlockIsLast /\ s.action = "block" /\ MaxNanodollars # 0 =>
      (paid[r] + Cardinality(Live(r)) * MaxCost - Cardinality(Threads) * MaxCost) * 100
        < s.at_percent * MaxNanodollars

EventsKept ==
  \A r \in Runs, p \in Percents :
    events[r][p] + Cardinality(Announcing(r, p)) <= Cardinality(Threads)

LInv == CInv /\ Accounted /\ MarkedFirst /\ CallsKept /\ SpendKept /\ EventsKept

\* What a step does to the calls of r: nothing is let through that was not before;
\* a call is answered; or one is let through where no block rung is reached.
Admitted(r) ==
  BlockIsLast =>
    \A s \in Ladder : s.action = "block" =>
      /\ ~Consumed(MaxLlmCalls, made[r] + 1, s.at_percent)
      /\ ~Consumed(MaxNanodollars, paid[r], s.at_percent)

Progress(r) ==
  \/ made'[r] = made[r] /\ paid'[r] = paid[r] /\ Live(r)' \subseteq Live(r)
  \/ \E t \in Live(r) : /\ Live(r)' = Live(r) \ {t}
                        /\ made'[r] = made[r] + 1
                        /\ paid'[r] <= paid[r] + MaxCost
  \/ made'[r] = made[r] /\ paid'[r] = paid[r] /\ Admitted(r)

\* And to the events of its rung p: nobody is to insert one who was not before; one
\* is inserted; or there is none yet and nobody knows of it.
Announcement(r, p) ==
  \/ events'[r][p] = events[r][p] /\ Announcing(r, p)' \subseteq Announcing(r, p)
  \/ \E t \in Announcing(r, p) : /\ Announcing(r, p)' = Announcing(r, p) \ {t}
                                 /\ events'[r][p] <= events[r][p] + 1
  \/ events'[r][p] = 0

LStep ==
  /\ Accounted' /\ MarkedFirst'
  /\ \A r \in Runs : Progress(r)
  /\ \A r \in Runs, p \in Percents : Announcement(r, p)

\* There are no more calls of a run under way than there are threads.
LEMMA ThreadsCounted ==
  /\ IsFiniteSet(Threads) /\ Cardinality(Threads) \in Nat \ {0}
  /\ \A T \in SUBSET Threads :
       /\ IsFiniteSet(T) /\ Cardinality(T) \in Nat
       /\ Cardinality(T) <= Cardinality(Threads)
<1>1. IsFiniteSet(Threads) /\ Cardinality(Threads) \in Nat /\ Cardinality(Threads) # 0
  BY ThreadsAssumption, FS_CardinalityType, FS_EmptySet
<1>2. ASSUME NEW T \in SUBSET Threads
      PROVE  /\ IsFiniteSet(T) /\ Cardinality(T) \in Nat
             /\ Cardinality(T) <= Cardinality(Threads)
  BY <1>1, <1>2, FS_Subset, FS_CardinalityType
<1> QED
  BY <1>1, <1>2

LEMMA LiveCounted ==
  ASSUME NEW r
  PROVE  /\ Live(r) \in SUBSET Threads /\ Live(r)' \in SUBSET Threads
         /\ \A p : /\ Announcing(r, p) \in SUBSET Threads
                   /\ Announcing(r, p)' \in SUBSET Threads
BY DEF Live, Announcing

\* A step that leaves every call alone, but for one that is dropped or goes on to a
\* later stage, lets no call through and lets nobody announce anything.
Onward(t) ==
  /\ \A u \in Threads : u # t => call'[u] = call[u]
  /\ \/ call'[t] = NoCall \/ call'[t] = call[t]
     \/ /\ call[t] # NoCall /\ call'[t].run = call[t].run /\ call'[t].step = call[t].step
        /\ call'[t].emit = call[t].emit
        /\ \/ call[t].stage = "deciding" /\ call[t].emit /\ call'[t].stage = "emitting"
           \/ call'[t].stage \in {"acting", "calling"}

LEMMA NobodyNew ==
  ASSUME NEW t \in Threads, Onward(t), NEW r
  PROVE  Live(r)' \subseteq Live(r) /\ \A p : Announcing(r, p)' \subseteq Announcing(r, p)
<1>1. ASSUME NEW u \in Live(r)' PROVE u \in Live(r)
  <2>1. CASE u = t
    BY <1>1, <2>1 DEF Onward, Live, Blocks
  <2>2. CASE u # t
    BY <1>1, <2>2 DEF Onward, Live, Blocks
  <2> QED
    BY <2>1, <2>2
<1>2. ASSUME NEW p, NEW u \in Announcing(r, p)' PROVE u \in Announcing(r, p)
  <2>1. CASE u = t
    BY <1>2, <2>1 DEF Onward, Announcing
  <2>2. CASE u # t
    BY <1>2, <2>2 DEF Onward, Announcing
  <2> QED
    BY <2>1, <2>2
<1> QED
  BY <1>1, <1>2

\* What the steps owe that only move a call on.
LEMMA OnwardStep ==
  ASSUME LInv, NEW t \in Threads, Onward(t), ~At(t, "emitting")', fired' = fired,
         UNCHANGED <<phase, calls, spent, events, made, paid>>
  PROVE  LStep
<1>1. \A r \in Runs : Progress(r)
  BY NobodyNew DEF Progress
<1>2. \A r \in Runs, p \in Percents : Announcement(r, p)
  BY NobodyNew DEF Announcement
<1>3. Accounted'
  BY DEF LInv, Accounted
<1>4. MarkedFirst'
  <2> SUFFICES ASSUME NEW u \in Threads, At(u, "emitting")', phase[call'[u].run] # "over"
               PROVE  call'[u].step.at_percent \in fired[call'[u].run]
    BY DEF MarkedFirst
  <2>1. call'[u] = call[u]
    BY DEF Onward
  <2> QED
    BY <2>1 DEF LInv, MarkedFirst, At
<1> QED
  BY <1>1, <1>2, <1>3, <1>4 DEF LStep

\* What the steps owe that leave every call alone.
LEMMA StillStep ==
  ASSUME LInv, call' = call, events' = events, made' = made, paid' = paid, Accounted',
         \A r \in Runs : phase'[r] # "over" => phase[r] # "over" /\ fired'[r] = fired[r]
  PROVE  LStep
<1>1. \A r : Live(r)' = Live(r) /\ \A p : Announcing(r, p)' = Announcing(r, p)
  BY DEF Live, Announcing, Blocks
<1>2. MarkedFirst'
  <2> SUFFICES ASSUME NEW u \in Threads, At(u, "emitting"), phase'[call[u].run] # "over"
               PROVE  call[u].step.at_percent \in fired'[call[u].run]
    BY DEF MarkedFirst, At
  <2>1. call[u].run \in Runs
    BY CallTyped DEF LInv, CInv, At
  <2> QED
    BY <2>1 DEF LInv, MarkedFirst
<1> QED
  BY <1>1, <1>2 DEF LStep, Progress, Announcement

LEMMA RunsOnward ==
  ASSUME LInv, NEW r \in Runs, StartRun(r) \/ EndRun(r)
  PROVE  LStep
<1>1. TypeOK
  BY DEF LInv, CInv
<1>2. call' = call /\ events' = events /\ made' = made /\ paid' = paid
  BY DEF StartRun, EndRun, historyVars
<1>3. \A q \in Runs : phase'[q] # "over" =>
        phase[q] # "over" /\ fired'[q] = fired[q] /\ calls'[q] = calls[q] /\ spent'[q] = spent[q]
  BY <1>1 DEF StartRun, EndRun, TypeOK
<1>4. Accounted'
  BY <1>2, <1>3 DEF LInv, Accounted
<1> QED
  BY <1>2, <1>3, <1>4, StillStep

LEMMA HelperOnward ==
  ASSUME LInv, NEW t \in Threads, NEW r \in Runs, HelperCall(t, r)
  PROVE  LStep
<1>1. TypeOK
  BY DEF LInv, CInv
<1>2. PICK cost \in 0 .. CheapCost : spent' = [spent EXCEPT ![r] = @ + cost]
  BY DEF HelperCall
<1>3. UNCHANGED <<phase, calls, fired, call, events, made, paid>>
  BY DEF HelperCall, historyVars
<1>4. \A q \in Runs : spent[q] \in Nat /\ paid[q] \in Nat /\ spent[q] <= spent'[q]
                      /\ spent'[q] \in Nat
  BY <1>1, <1>2, CostsAssumption DEF TypeOK
<1>5. \A q \in Runs : paid[q] <= spent[q] => paid[q] <= spent'[q]
  BY <1>4
<1>6. Accounted'
  BY <1>3, <1>5 DEF LInv, Accounted
<1> QED
  BY <1>3, <1>6, StillStep

LEMMA ErrorOnward ==
  ASSUME LInv, NEW t \in Threads, ProviderError(t) \/ Refuse(t)
  PROVE  LStep
<1>1. TypeOK
  BY DEF LInv, CInv
<1>2. call'[t] = NoCall /\ \A u \in Threads : u # t => call'[u] = call[u]
  BY <1>1, CallSet DEF ProviderError, Refuse
<1>3. Onward(t) /\ ~At(t, "emitting")'
  BY <1>2 DEF Onward, At
<1>4. UNCHANGED <<phase, calls, spent, fired, events, made, paid>>
  BY DEF ProviderError, Refuse, accountVars, historyVars
<1> QED
  BY <1>3, <1>4, OnwardStep

LEMMA ProceedOnward ==
  ASSUME LInv, NEW t \in Threads, Proceed(t)
  PROVE  LStep
<1> DEFINE c == call[t]
           model == IF Switches(c) THEN "cheap" ELSE c.model
<1>1. TypeOK /\ c # NoCall
  BY DEF LInv, CInv, Proceed, At
<1>2. c \in CallRecord
  BY <1>1, CallTyped
<1>3. model \in {"asked", "cheap"} /\ "calling" \in Stages
  BY <1>2 DEF CallRecord, Stages
<1>4. /\ call' = [call EXCEPT ![t].stage = "calling", ![t].model = model]
      /\ UNCHANGED <<phase, calls, spent, fired, events, made, paid>>
  BY <1>1, <1>2 DEF Proceed, accountVars, historyVars, TypeOK, CallRecord
<1> HIDE DEF model
<1>5. /\ call'[t] # NoCall
      /\ call'[t].run = c.run /\ call'[t].step = c.step /\ call'[t].emit = c.emit
      /\ call'[t].stage = "calling"
      /\ \A u \in Threads : u # t => call'[u] = call[u]
  BY <1>1, <1>3, <1>4, CallMoves
<1>6. Onward(t) /\ ~At(t, "emitting")'
  BY <1>1, <1>5 DEF Onward, At
<1> QED
  BY <1>4, <1>6, OnwardStep

LEMMA MarkOnward ==
  ASSUME LInv, NEW t \in Threads, Mark(t)
  PROVE  LStep
<1> DEFINE c == call[t]
           stage == IF c.emit THEN "emitting" ELSE "acting"
<1>1. TypeOK /\ c # NoCall /\ c.stage = "deciding" /\ PhasesAgree /\ CallPlaced(t)
  BY DEF LInv, CInv, Mark, At, CallOK
<1>2. stage \in Stages /\ Goto(t, stage)
  BY DEF Mark, Stages
<1> HIDE DEF stage
<1>3. /\ call'[t] # NoCall
      /\ call'[t].run = c.run /\ call'[t].step = c.step /\ call'[t].emit = c.emit
      /\ call'[t].stage = stage
      /\ \A u \in Threads : u # t => call'[u] = call[u]
  BY <1>1, <1>2, GotoMoves
<1>4. /\ fired' = IF c.emit /\ c.run \in tracked
                  THEN [fired EXCEPT ![c.run] = @ \union {c.step.at_percent}]
                  ELSE fired
      /\ UNCHANGED <<phase, tracked, calls, spent, events, made, paid>>
  BY DEF Mark, historyVars
<1>5. c.run \in Runs
  BY <1>1, CallTyped
<1>6. Onward(t)
  BY <1>1, <1>3 DEF Onward, stage
<1>7. \A r \in Runs : fired[r] \subseteq fired'[r]
  BY <1>1, <1>4, <1>5 DEF TypeOK
<1>8. Accounted'
  BY <1>4, <1>7 DEF LInv, Accounted
<1>9. MarkedFirst'
  <2> SUFFICES ASSUME NEW u \in Threads, At(u, "emitting")', phase[call'[u].run] # "over"
               PROVE  call'[u].step.at_percent \in fired'[call'[u].run]
    BY <1>4 DEF MarkedFirst
  <2>1. CASE u = t
    <3>1. c.emit /\ phase[c.run] # "over"
      BY <1>3, <2>1 DEF At, stage
    <3>2. phase[c.run] = "open" /\ c.run \in tracked
      BY <1>1, <1>5, <3>1 DEF CallPlaced, PhasesAgree, TypeOK
    <3>3. fired' = [fired EXCEPT ![c.run] = @ \union {c.step.at_percent}]
      BY <1>4, <3>1, <3>2
    <3> QED
      BY <1>1, <1>3, <1>5, <2>1, <3>3 DEF TypeOK
  <2>2. CASE u # t
    <3>1. call'[u] = call[u]
      BY <1>3, <2>2
    <3>2. call[u].run \in Runs
      BY <1>1, <3>1, CallTyped DEF At
    <3> QED
      BY <1>7, <3>1, <3>2 DEF LInv, MarkedFirst, At
  <2> QED
    BY <2>1, <2>2
<1>10. \A r \in Runs : Progress(r)
  BY <1>4, <1>6, NobodyNew DEF Progress
<1>11. \A r \in Runs, p \in Percents : Announcement(r, p)
  BY <1>4, <1>6, NobodyNew DEF Announcement
<1> QED
  BY <1>8, <1>9, <1>10, <1>11 DEF LStep

LEMMA EmitOnward ==
  ASSUME LInv, NEW t \in Threads, EmitViolation(t)
  PROVE  LStep
<1> DEFINE c == call[t]
<1>1. /\ TypeOK /\ c # NoCall /\ c.stage = "emitting" /\ CallPlaced(t)
      /\ Accounted /\ MarkedFirst
  BY DEF LInv, CInv, CallOK, EmitViolation, At
<1>2. "acting" \in Stages /\ Goto(t, "acting")
  BY DEF EmitViolation, Stages
<1>3. /\ call'[t] # NoCall
      /\ call'[t].run = c.run /\ call'[t].step = c.step /\ call'[t].emit = c.emit
      /\ call'[t].stage = "acting"
      /\ \A u \in Threads : u # t => call'[u] = call[u]
  BY <1>1, <1>2, GotoMoves
<1>4. UNCHANGED <<phase, calls, spent, fired, made, paid>>
  BY DEF EmitViolation, accountVars
<1>5. Onward(t) /\ ~At(t, "emitting")'
  BY <1>1, <1>3 DEF Onward, At
<1>6. CASE events' = events
  BY <1>4, <1>5, <1>6, OnwardStep
<1>7. CASE events' = [events EXCEPT ![c.run][c.step.at_percent] = @ + 1]
  <2>1. PICK r \in Runs, p \in Percents :
          /\ r = c.run /\ p = c.step.at_percent /\ events' = [events EXCEPT ![r][p] = @ + 1]
    BY <1>1, <1>7, CallTyped DEF CallPlaced, Percents
  <2>2. /\ events \in [Runs -> [Percents -> Nat]]
        /\ events'[r][p] = events[r][p] + 1
        /\ \A q \in Runs, k \in Percents : q # r \/ k # p => events'[q][k] = events[q][k]
    BY <1>1, <2>1 DEF TypeOK
  <2>3. phase[r] # "over" => p \in fired[r]
    BY <1>1, <2>1 DEF MarkedFirst, At
  <2>4. Accounted'
    <3>1. ASSUME NEW q \in Runs, phase[q] # "over", NEW k \in Percents, events'[q][k] > 0
          PROVE  k \in fired[q]
      BY <1>1, <2>2, <2>3, <3>1 DEF Accounted
    <3> QED
      BY <1>1, <1>4, <3>1 DEF Accounted
  <2>5. MarkedFirst'
    <3> SUFFICES ASSUME NEW u \in Threads, At(u, "emitting")', phase[call'[u].run] # "over"
                 PROVE  call'[u].step.at_percent \in fired[call'[u].run]
      BY <1>4 DEF MarkedFirst
    <3>1. u # t
      BY <1>5
    <3> QED
      BY <1>1, <1>3, <3>1 DEF MarkedFirst, At
  <2>6. \A q \in Runs : Progress(q)
    BY <1>4, <1>5, NobodyNew DEF Progress
  <2>7. ASSUME NEW q \in Runs, NEW k \in Percents
        PROVE  Announcement(q, k)
    <3>1. CASE q = r /\ k = p
      <4>1. c.emit
        BY <1>1 DEF CallPlaced
      <4>2. t \in Announcing(r, p)
        BY <1>1, <2>1, <4>1 DEF Announcing
      <4>3. Announcing(r, p)' \subseteq Announcing(r, p) /\ t \notin Announcing(r, p)'
        BY <1>3, <1>5, NobodyNew DEF Announcing
      <4>4. ASSUME NEW u \in Announcing(r, p), u # t PROVE u \in Announcing(r, p)'
        BY <1>3, <4>4 DEF Announcing
      <4>5. Announcing(r, p)' = Announcing(r, p) \ {t}
        BY <4>3, <4>4
      <4> QED
        BY <2>2, <3>1, <4>2, <4>5 DEF Announcement
    <3>2. CASE ~(q = r /\ k = p)
      BY <1>5, <2>2, <3>2, NobodyNew DEF Announcement
    <3> QED
      BY <3>1, <3>2
  <2> QED
    BY <2>4, <2>5, <2>6, <2>7 DEF LStep
<1> QED
  BY <1>6, <1>7 DEF EmitViolation

LEMMA RecordOnward ==
  ASSUME LInv, NEW t \in Threads, RecordCall(t)
  PROVE  LStep
<1>1. /\ TypeOK /\ PhasesAgree /\ call[t] # NoCall /\ call[t].stage = "calling"
      /\ CallPlaced(t) /\ Accounted /\ MarkedFirst
  BY DEF LInv, CInv, CallOK, RecordCall, At
<1>2. PICK r \in Runs : r = call[t].run
  BY <1>1, CallTyped
<1>3. PICK cost \in 0 .. MaxCost :
        /\ spent' = [spent EXCEPT ![r] = IF r \in tracked THEN @ + cost ELSE @]
        /\ paid' = [paid EXCEPT ![r] = @ + cost]
  <2>1. PICK cost \in 0 .. (IF call[t].model = "cheap" THEN CheapCost ELSE MaxCost) :
          /\ spent' = [spent EXCEPT ![r] = IF r \in tracked THEN @ + cost ELSE @]
          /\ paid' = [paid EXCEPT ![r] = @ + cost]
    BY <1>2 DEF RecordCall
  <2>2. cost \in 0 .. MaxCost
    BY CostsAssumption
  <2> QED
    BY <2>1, <2>2
<1>4. /\ calls' = [calls EXCEPT ![r] = IF r \in tracked THEN @ + 1 ELSE @]
      /\ made' = [made EXCEPT ![r] = @ + 1]
      /\ call' = [call EXCEPT ![t] = NoCall]
      /\ UNCHANGED <<phase, tracked, fired, events>>
  BY <1>2 DEF RecordCall
<1>5. call'[t] = NoCall /\ \A u \in Threads : u # t => call'[u] = call[u]
  BY <1>1, <1>4, CallSet
<1>6. Onward(t) /\ ~At(t, "emitting")'
  BY <1>5 DEF Onward, At
<1>7. /\ made'[r] = made[r] + 1 /\ paid'[r] = paid[r] + cost
      /\ r \in tracked => calls'[r] = calls[r] + 1 /\ spent'[r] = spent[r] + cost
      /\ \A q \in Runs : q # r => /\ made'[q] = made[q] /\ paid'[q] = paid[q]
                                  /\ calls'[q] = calls[q] /\ spent'[q] = spent[q]
  BY <1>1, <1>2, <1>3, <1>4 DEF TypeOK
<1>8. /\ made[r] \in Nat /\ paid[r] \in Nat /\ calls[r] \in Nat /\ spent[r] \in Nat
      /\ cost \in Nat /\ cost <= MaxCost /\ MaxCost \in Nat
  BY <1>1, <1>2, CostsAssumption DEF TypeOK
<1>9. phase[r] # "over" => r \in tracked
  BY <1>1, <1>2 DEF CallPlaced, PhasesAgree, TypeOK
<1>11. Accounted'
  <2> SUFFICES ASSUME NEW q \in Runs, phase[q] # "over"
               PROVE  made'[q] = calls'[q] /\ paid'[q] <= spent'[q]
    BY <1>1, <1>4 DEF Accounted
  <2>1. made[q] = calls[q] /\ paid[q] <= spent[q]
    BY <1>1 DEF Accounted
  <2>2. CASE q = r
    BY <1>7, <1>8, <1>9, <2>1, <2>2
  <2>3. CASE q # r
    BY <1>7, <2>1, <2>3
  <2> QED
    BY <2>2, <2>3
<1>12. MarkedFirst'
  <2> SUFFICES ASSUME NEW u \in Threads, At(u, "emitting")', phase[call'[u].run] # "over"
               PROVE  call'[u].step.at_percent \in fired[call'[u].run]
    BY <1>4 DEF MarkedFirst
  <2>1. u # t
    BY <1>6
  <2> QED
    BY <1>1, <1>5, <2>1 DEF MarkedFirst, At
<1>13. ASSUME NEW q \in Runs PROVE Progress(q)
  <2>1. CASE q = r
    <3>1. t \in Live(r)
      BY <1>1, <1>2 DEF CallPlaced, Live
    <3>2. Live(r)' \subseteq Live(r) /\ t \notin Live(r)'
      BY <1>5, <1>6, NobodyNew DEF Live
    <3>3. ASSUME NEW u \in Live(r), u # t PROVE u \in Live(r)'
      BY <1>5, <3>3 DEF Live, Blocks
    <3>4. Live(r)' = Live(r) \ {t}
      BY <3>2, <3>3
    <3>5. paid'[r] <= paid[r] + MaxCost
      BY <1>7, <1>8
    <3> QED
      BY <1>7, <2>1, <3>1, <3>4, <3>5 DEF Progress
  <2>2. CASE q # r
    BY <1>6, <1>7, <2>2, NobodyNew DEF Progress
  <2> QED
    BY <2>1, <2>2
<1>14. \A q \in Runs, p \in Percents : Announcement(q, p)
  BY <1>4, <1>6, NobodyNew DEF Announcement
<1> QED
  BY <1>11, <1>12, <1>13, <1>14 DEF LStep

\* A call that is let through finds the run's answered calls and what they cost
\* below every block rung, and one that is to insert an event finds none.
LEMMA BeginOnward ==
  ASSUME LInv, NEW t \in Threads, NEW r \in Runs, BeginCall(t, r)
  PROVE  LStep
<1>1. /\ TypeOK /\ PhasesAgree /\ Accounted /\ MarkedFirst
      /\ phase[r] = "open" /\ call[t] = NoCall
  BY DEF LInv, CInv, BeginCall
<1>2. PICK estimate \in 0 .. MaxCost :
        LET step == StepFor(spent[r] + estimate, calls[r] + 1) IN
          call' = [call EXCEPT ![t] =
            [run |-> r, estimate |-> estimate, step |-> step,
             emit |-> step # NoStep /\ step.at_percent \notin fired[r],
             stage |-> IF step = NoStep THEN "acting" ELSE "deciding",
             model |-> "asked", after |-> refused[r]]]
  BY DEF BeginCall
<1> DEFINE x == spent[r] + estimate
           n == calls[r] + 1
           step == StepFor(x, n)
           emit == step # NoStep /\ step.at_percent \notin fired[r]
           stage == IF step = NoStep THEN "acting" ELSE "deciding"
           c == [run |-> r, estimate |-> estimate, step |-> step, emit |-> emit,
                 stage |-> stage, model |-> "asked", after |-> refused[r]]
<1>3. call' = [call EXCEPT ![t] = c]
  BY <1>2
<1>4. /\ x \in Nat /\ n \in Nat /\ spent[r] <= x
      /\ spent[r] \in Nat /\ calls[r] \in Nat
  BY <1>1, CostsAssumption DEF TypeOK
<1>5. made[r] = calls[r] /\ paid[r] <= spent[r] /\ paid[r] \in Nat
  BY <1>1 DEF Accounted, TypeOK
<1>6. paid[r] \in Nat /\ paid[r] <= x /\ n = made[r] + 1
  BY <1>4, <1>5
<1> HIDE DEF x, n
<1>7. step \in Ladder \union {NoStep}
  BY <1>4, StepForType
<1>8. Admitted(r) \/ (step # NoStep /\ step.action = "block")
  <2> SUFFICES ASSUME BlockIsLast, NEW s \in Ladder, s.action = "block",
                      Consumed(MaxLlmCalls, made[r] + 1, s.at_percent)
                        \/ Consumed(MaxNanodollars, paid[r], s.at_percent)
               PROVE  step # NoStep /\ step.action = "block"
    BY DEF Admitted
  <2>1. s \in Reached(paid[r], n)
    BY <1>6 DEF Reached
  <2>2. s \in Reached(x, n)
    <3>1. n <= n
      BY <1>4
    <3> QED
      BY <1>4, <1>6, <2>1, <3>1, ReachedGrows
  <2> QED
    BY <1>4, <2>2, BlockReached
<1> HIDE DEF step
<1>9. emit \in BOOLEAN /\ stage \in Stages /\ refused[r] \in SUBSET (0 .. MaxCost)
  BY <1>1 DEF Stages, TypeOK
<1>10. /\ c \in CallRecord
       /\ c.run = r /\ c.step = step /\ c.emit = emit /\ c.stage = stage
  BY <1>7, <1>9 DEF CallRecord
<1> HIDE DEF c
<1>11. /\ call'[t] = c
       /\ \A u \in Threads : u # t => call'[u] = call[u]
  BY <1>1, <1>3, <1>10, CallSet
<1>12. UNCHANGED <<phase, calls, spent, fired, events, made, paid>>
  BY DEF BeginCall, historyVars
<1>13. Accounted'
  BY <1>1, <1>12 DEF Accounted
<1>14. MarkedFirst'
  <2> SUFFICES ASSUME NEW u \in Threads, At(u, "emitting")', phase[call'[u].run] # "over"
               PROVE  call'[u].step.at_percent \in fired[call'[u].run]
    BY <1>12 DEF MarkedFirst
  <2>1. u # t
    BY <1>10, <1>11 DEF At, stage
  <2> QED
    BY <1>1, <1>11, <2>1 DEF MarkedFirst, At
<1>15. ASSUME NEW q \in Runs PROVE Progress(q)
  <2>1. CASE q = r /\ Admitted(r)
    BY <1>12, <2>1 DEF Progress
  <2>2. CASE q # r \/ ~Admitted(r)
    <3> SUFFICES ASSUME NEW u \in Live(q)' PROVE u \in Live(q)
      BY <1>12 DEF Progress
    <3>1. u # t
      BY <1>8, <1>10, <1>11, <2>2 DEF Live, Blocks
    <3> QED
      BY <1>11, <3>1 DEF Live, Blocks
  <2> QED
    BY <2>1, <2>2
<1>16. ASSUME NEW q \in Runs, NEW p \in Percents PROVE Announcement(q, p)
  <2>1. CASE q = r /\ p \notin fired[r]
    <3>1. ~(events[r][p] > 0)
      BY <1>1, <2>1 DEF Accounted
    <3>2. events[r][p] \in Nat
      BY <1>1 DEF TypeOK
    <3> QED
      BY <1>12, <2>1, <3>1, <3>2 DEF Announcement
  <2>2. CASE q # r \/ p \in fired[r]
    <3> SUFFICES ASSUME NEW u \in Announcing(q, p)' PROVE u \in Announcing(q, p)
      BY <1>12 DEF Announcement
    <3>1. u # t
      BY <1>10, <1>11, <2>2 DEF Announcing, emit
    <3> QED
      BY <1>11, <3>1 DEF Announcing
  <2> QED
    BY <2>1, <2>2
<1> QED
  BY <1>13, <1>14, <1>15, <1>16 DEF LStep

LEMMA StutterOnward ==
  ASSUME LInv, UNCHANGED vars
  PROVE  LStep
<1>1. UNCHANGED <<phase, calls, spent, fired, call, events, made, paid>>
  BY DEF vars, accountVars, historyVars
<1>2. Accounted'
  BY <1>1 DEF LInv, Accounted
<1> QED
  BY <1>1, <1>2, StillStep

LEMMA NextOnward ==
  ASSUME LInv, [Next]_vars
  PROVE  LStep
<1>1. ASSUME NEW r \in Runs, StartRun(r) \/ EndRun(r)
      PROVE  LStep
  BY <1>1, RunsOnward
<1>2. ASSUME NEW t \in Threads, NEW r \in Runs, BeginCall(t, r) \/ HelperCall(t, r)
      PROVE  LStep
  BY <1>2, BeginOnward, HelperOnward
<1>3. ASSUME NEW t \in Threads,
             Mark(t) \/ EmitViolation(t) \/ Proceed(t) \/ Refuse(t)
               \/ RecordCall(t) \/ ProviderError(t)
      PROVE  LStep
  BY <1>3, MarkOnward, EmitOnward, ProceedOnward, ErrorOnward, RecordOnward
<1> QED
  BY <1>1, <1>2, <1>3, StutterOnward DEF Next

-----------------------------------------------------------------------------
\* The arithmetic of the bounds.

\* A call answered takes its thread out of the calls under way, a call let through
\* puts at most all the threads there.
LEMMA CallsStep ==
  ASSUME LInv, TypeOK', LStep
  PROVE  CallsKept'
<1> SUFFICES ASSUME NEW r \in Runs, NEW s \in Ladder,
                    BlockIsLast, s.action = "block", MaxLlmCalls # 0
             PROVE  (made'[r] + Cardinality(Live(r)') - (Cardinality(Threads) - 1)) * 100
                      < s.at_percent * MaxLlmCalls
  BY DEF CallsKept
<1> DEFINE m == made[r]
           l == Cardinality(Live(r))
           k == Cardinality(Live(r)')
           N == Cardinality(Threads)
           B == s.at_percent * MaxLlmCalls
<1>1. B \in Nat /\ MaxLlmCalls \in Nat
  BY LadderAssumption, CeilingsAssumption
<1>2. (m + l - (N - 1)) * 100 < B
  BY DEF LInv, CallsKept
<1>3. m \in Nat /\ l \in Nat /\ N \in Nat \ {0} /\ IsFiniteSet(Live(r))
  BY LiveCounted, ThreadsCounted DEF LInv, CInv, TypeOK
<1>4. k \in Nat /\ k <= N
  BY LiveCounted, ThreadsCounted
<1>5. Progress(r)
  BY DEF LStep
<1>6. CASE made'[r] = m /\ Live(r)' \subseteq Live(r)
  <2>1. k <= l
    BY <1>3, <1>6, FS_Subset
  <2> HIDE DEF m, l, k, N, B
  <2>2. (m + k - (N - 1)) * 100 < B
    BY <1>1, <1>2, <1>3, <1>4, <2>1
  <2> QED
    BY <1>6, <2>2 DEF m, k, N, B
<1>7. CASE \E t \in Live(r) : Live(r)' = Live(r) \ {t} /\ made'[r] = m + 1
  <2>1. k = l - 1
    BY <1>3, <1>7, FS_RemoveElement
  <2> HIDE DEF m, l, k, N, B
  <2>2. ((m + 1) + k - (N - 1)) * 100 < B
    BY <1>1, <1>2, <1>3, <1>4, <2>1
  <2> QED
    BY <1>7, <2>2 DEF m, k, N, B
<1>8. CASE made'[r] = m /\ Admitted(r)
  <2>1. ~((m + 1) * 100 >= B)
    BY <1>8 DEF Admitted, Consumed
  <2> HIDE DEF m, l, k, N, B
  <2>2. (m + k - (N - 1)) * 100 < B
    BY <1>1, <1>3, <1>4, <2>1
  <2> QED
    BY <1>8, <2>2 DEF m, k, N, B
<1> QED
  BY <1>5, <1>6, <1>7, <1>8 DEF Progress

LEMMA SpendStep ==
  ASSUME LInv, TypeOK', LStep
  PROVE  SpendKept'
<1> SUFFICES ASSUME NEW r \in Runs, NEW s \in Ladder,
                    BlockIsLast, s.action = "block", MaxNanodollars # 0
             PROVE  (paid'[r] + Cardinality(Live(r)') * MaxCost
                       - Cardinality(Threads) * MaxCost) * 100
                      < s.at_percent * MaxNanodollars
  BY DEF SpendKept
<1> DEFINE m == paid[r]
           j == paid'[r]
           l == Cardinality(Live(r))
           k == Cardinality(Live(r)')
           N == Cardinality(Threads)
           B == s.at_percent * MaxNanodollars
           lc == l * MaxCost
           kc == k * MaxCost
           Nc == N * MaxCost
<1>1. B \in Nat /\ MaxNanodollars \in Nat /\ MaxCost \in Nat
  BY LadderAssumption, CeilingsAssumption, CostsAssumption
<1>2. (m + lc - Nc) * 100 < B
  BY DEF LInv, SpendKept
<1>3. /\ m \in Nat /\ j \in Nat /\ l \in Nat /\ N \in Nat /\ IsFiniteSet(Live(r))
  BY LiveCounted, ThreadsCounted DEF LInv, CInv, TypeOK
<1>4. k \in Nat /\ k <= N
  BY LiveCounted, ThreadsCounted
<1>5. Progress(r)
  BY DEF LStep
<1>6. lc \in Nat /\ kc \in Nat /\ Nc \in Nat /\ kc <= Nc
  <2> HIDE DEF l, k, N
  <2> QED
    BY <1>1, <1>3, <1>4
<1>7. CASE j = m /\ Live(r)' \subseteq Live(r)
  <2>1. k <= l
    BY <1>3, <1>7, FS_Subset
  <2>2. kc <= lc
    <3> HIDE DEF l, k
    <3> QED
      BY <1>1, <1>3, <1>4, <2>1
  <2> HIDE DEF m, j, lc, kc, Nc, B
  <2>3. (j + kc - Nc) * 100 < B
    BY <1>1, <1>2, <1>3, <1>6, <1>7, <2>2
  <2> QED
    BY <2>3 DEF j, kc, Nc, B
<1>8. CASE \E t \in Live(r) : Live(r)' = Live(r) \ {t} /\ j <= m + MaxCost
  <2>1. l = k + 1 /\ j <= m + MaxCost
    <3>1. k = l - 1 /\ j <= m + MaxCost
      BY <1>3, <1>8, FS_RemoveElement
    <3> HIDE DEF k, l, j, m
    <3> QED
      BY <1>3, <1>4, <3>1
  <2>2. lc = kc + MaxCost
    <3> HIDE DEF l, k
    <3> QED
      BY <1>1, <1>3, <1>4, <2>1
  <2> HIDE DEF m, j, lc, kc, Nc, B
  <2>3. (j + kc - Nc) * 100 < B
    BY <1>1, <1>2, <1>3, <1>6, <2>1, <2>2
  <2> QED
    BY <2>3 DEF j, kc, Nc, B
<1>9. CASE j = m /\ Admitted(r)
  <2>1. ~(m * 100 >= B)
    BY <1>9 DEF Admitted, Consumed
  <2> HIDE DEF m, j, lc, kc, Nc, B
  <2>2. (j + kc - Nc) * 100 < B
    BY <1>1, <1>3, <1>6, <1>9, <2>1
  <2> QED
    BY <2>2 DEF j, kc, Nc, B
<1> QED
  BY <1>5, <1>7, <1>8, <1>9 DEF Progress

LEMMA EventsStep ==
  ASSUME LInv, TypeOK', LStep
  PROVE  EventsKept'
<1> SUFFICES ASSUME NEW r \in Runs, NEW p \in Percents
             PROVE  events'[r][p] + Cardinality(Announcing(r, p)') <= Cardinality(Threads)
  BY DEF EventsKept
<1> DEFINE e == events[r][p]
           f == events'[r][p]
           l == Cardinality(Announcing(r, p))
           k == Cardinality(Announcing(r, p)')
           N == Cardinality(Threads)
<1>1. e \in Nat /\ f \in Nat
  BY DEF LInv, CInv, TypeOK
<1>2. /\ l \in Nat /\ N \in Nat /\ IsFiniteSet(Announcing(r, p))
      /\ e + l <= N
  BY LiveCounted, ThreadsCounted DEF LInv, EventsKept
<1>3. k \in Nat /\ k <= N
  BY LiveCounted, ThreadsCounted
<1>4. CASE f = e /\ Announcing(r, p)' \subseteq Announcing(r, p)
  <2>1. k <= l
    BY <1>2, <1>4, FS_Subset
  <2> HIDE DEF e, f, l, k, N
  <2>2. f + k <= N
    BY <1>1, <1>2, <1>3, <1>4, <2>1
  <2> QED
    BY <2>2 DEF f, k, N
<1>5. CASE \E t \in Announcing(r, p) :
             Announcing(r, p)' = Announcing(r, p) \ {t} /\ f <= e + 1
  <2>1. k = l - 1 /\ f <= e + 1
    BY <1>2, <1>5, FS_RemoveElement
  <2> HIDE DEF e, f, l, k, N
  <2>2. f + k <= N
    BY <1>1, <1>2, <1>3, <2>1
  <2> QED
    BY <2>2 DEF f, k, N
<1>6. CASE f = 0
  <2> HIDE DEF f, k, N
  <2>1. f + k <= N
    BY <1>3, <1>6
  <2> QED
    BY <2>1 DEF f, k, N
<1> QED
  BY <1>4, <1>5, <1>6 DEF LStep, Announcement

LEMMA InitCounted == Init => LInv
<1> SUFFICES ASSUME Init PROVE LInv
  OBVIOUS
<1>1. CInv
  BY InitOK
<1>2. Accounted /\ MarkedFirst
  BY DEF Init, Accounted, MarkedFirst, At
<1>3. ASSUME NEW r \in Runs
      PROVE  /\ Live(r) = {} /\ Cardinality(Live(r)) = 0
             /\ \A p : Announcing(r, p) = {} /\ Cardinality(Announcing(r, p)) = 0
  <2>1. Live(r) = {} /\ \A p : Announcing(r, p) = {}
    BY DEF Init, Live, Announcing
  <2> QED
    BY <2>1, FS_EmptySet
<1>4. \A s \in Ladder : s.at_percent \in 1 .. 100
  BY LadderAssumption
<1>5. Cardinality(Threads) \in Nat \ {0}
  BY ThreadsCounted
<1>6. CallsKept
  <2> SUFFICES ASSUME NEW r \in Runs, NEW s \in Ladder, MaxLlmCalls # 0
               PROVE  (made[r] + Cardinality(Live(r)) - (Cardinality(Threads) - 1)) * 100
                        < s.at_percent * MaxLlmCalls
    BY DEF CallsKept
  <2> DEFINE B == s.at_percent * MaxLlmCalls
             N == Cardinality(Threads)
  <2>1. B \in Nat /\ B > 0
    BY <1>4, CeilingsAssumption
  <2>2. made[r] = 0 /\ Cardinality(Live(r)) = 0
    BY <1>3 DEF Init
  <2> HIDE DEF B, N
  <2>3. (0 + 0 - (N - 1)) * 100 < B
    BY <1>5, <2>1 DEF N
  <2> QED
    BY <2>2, <2>3 DEF B, N
<1>7. SpendKept
  <2> SUFFICES ASSUME NEW r \in Runs, NEW s \in Ladder, MaxNanodollars # 0
               PROVE  (paid[r] + Cardinality(Live(r)) * MaxCost
                         - Cardinality(Threads) * MaxCost) * 100
                        < s.at_percent * MaxNanodollars
    BY DEF SpendKept
  <2> DEFINE B == s.at_percent * MaxNanodollars
             Nc == Cardinality(Threads) * MaxCost
  <2>1. B \in Nat /\ B > 0 /\ Nc \in Nat
    BY <1>4, <1>5, CeilingsAssumption, CostsAssumption
  <2>2. paid[r] = 0 /\ Cardinality(Live(r)) * MaxCost = 0
    BY <1>3, CostsAssumption DEF Init
  <2> HIDE DEF B, Nc
  <2>3. (0 + 0 - Nc) * 100 < B
    BY <2>1
  <2> QED
    BY <2>2, <2>3 DEF B, Nc
<1>8. EventsKept
  BY <1>3, <1>5 DEF EventsKept, Init
<1> QED
  BY <1>1, <1>2, <1>6, <1>7, <1>8 DEF LInv

\* enforce_before_call and record_call bound the calls and the money of a run, and
\* how often a rung is recorded, but for one call of every thread that may have read
\* the accounting before it was brought up to date.
THEOREM LadderAlwaysHolds == Spec => []LadderHolds
<1>1. LInv /\ CInv' /\ [Next]_vars => LInv'
  <2> SUFFICES ASSUME LInv, CInv', [Next]_vars PROVE LInv'
    OBVIOUS
  <2>1. LStep /\ TypeOK'
    BY NextOnward DEF CInv
  <2>2. CallsKept' /\ SpendKept' /\ EventsKept'
    BY <2>1, CallsStep, SpendStep, EventsStep
  <2> QED
    BY <2>1, <2>2 DEF LInv, LStep
<1>2. LInv => LadderHolds
  <2> SUFFICES ASSUME LInv PROVE LadderHolds
    OBVIOUS
  <2>1. ASSUME NEW r \in Runs
        PROVE  /\ Cardinality(InFlight(r)) \in Nat
               /\ Cardinality(InFlight(r)) <= Cardinality(Live(r))
    <3>1. InFlight(r) \subseteq Live(r)
      BY DEF InFlight, Live, At, LInv, CInv, CallOK, CallPlaced
    <3> QED
      BY <3>1, LiveCounted, ThreadsCounted, FS_Subset, FS_CardinalityType
  <2>2. CallsBounded
    <3> SUFFICES ASSUME NEW r \in Runs, NEW s \in Ladder,
                        BlockIsLast, s.action = "block", MaxLlmCalls # 0
                 PROVE  (made[r] + Cardinality(InFlight(r)) - (Cardinality(Threads) - 1)) * 100
                          < s.at_percent * MaxLlmCalls
      BY DEF CallsBounded
    <3> DEFINE B == s.at_percent * MaxLlmCalls
               N == Cardinality(Threads)
               l == Cardinality(Live(r))
               i == Cardinality(InFlight(r))
    <3>1. (made[r] + l - (N - 1)) * 100 < B
      BY DEF LInv, CallsKept
    <3>2. /\ B \in Nat /\ N \in Nat /\ l \in Nat /\ made[r] \in Nat
          /\ i \in Nat /\ i <= l
      <4>1. B \in Nat
        BY LadderAssumption, CeilingsAssumption
      <4>2. N \in Nat /\ l \in Nat /\ i \in Nat /\ i <= l
        BY <2>1, LiveCounted, ThreadsCounted
      <4>3. made[r] \in Nat
        BY DEF LInv, CInv, TypeOK
      <4> QED
        BY <4>1, <4>2, <4>3
    <3> HIDE DEF B, N, l, i
    <3>3. (made[r] + i - (N - 1)) * 100 < B
      BY <3>1, <3>2
    <3> QED
      BY <3>3 DEF B, N, i
  <2>3. SpendBounded
    <3> SUFFICES ASSUME NEW r \in Runs, NEW s \in Ladder,
                        BlockIsLast, s.action = "block", MaxNanodollars # 0
                 PROVE  (paid[r] - Cardinality(Threads) * MaxCost) * 100
                          < s.at_percent * MaxNanodollars
      BY DEF SpendBounded
    <3> DEFINE B == s.at_percent * MaxNanodollars
               Nc == Cardinality(Threads) * MaxCost
               lc == Cardinality(Live(r)) * MaxCost
    <3>1. (paid[r] + lc - Nc) * 100 < B
      BY DEF LInv, SpendKept
    <3>2. B \in Nat /\ Nc \in Nat /\ lc \in Nat /\ paid[r] \in Nat
      <4>1. B \in Nat
        BY LadderAssumption, CeilingsAssumption
      <4>2. Cardinality(Threads) \in Nat /\ Cardinality(Live(r)) \in Nat
        BY LiveCounted, ThreadsCounted
      <4>3. Nc \in Nat /\ lc \in Nat
        BY <4>2, CostsAssumption
      <4>4. paid[r] \in Nat
        BY DEF LInv, CInv, TypeOK
      <4> QED
        BY <4>1, <4>3, <4>4
    <3> HIDE DEF B, Nc, lc
    <3>3. (paid[r] - Nc) * 100 < B
      BY <3>1, <3>2
    <3> QED
      BY <3>3 DEF B, Nc
  <2>4. RungRecordedOncePerThread
    <3> SUFFICES ASSUME NEW r \in Runs, NEW p \in Percents
                 PROVE  events[r][p] <= Cardinality(Threads)
      BY DEF RungRecordedOncePerThread
    <3>1. events[r][p] + Cardinality(Announcing(r, p)) <= Cardinality(Threads)
      BY DEF LInv, EventsKept
    <3>2. /\ events[r][p] \in Nat /\ Cardinality(Announcing(r, p)) \in Nat
          /\ Cardinality(Threads) \in Nat
      BY LiveCounted, ThreadsCounted DEF LInv, CInv, TypeOK
    <3> QED
      BY <3>1, <3>2
  <2> QED
    BY <2>2, <2>3, <2>4 DEF LadderHolds
<1> QED
  BY <1>1, <1>2, InitCounted, Invariant, PTL DEF Spec

\* Beside the policies, which share none of its state, the enforcer does what it
\* does alone (contracts/runtime.py:92, policy/registry.py:55-96).
THEOREM EnforcerAmongPolicies ==
  DecisionsSpec => [](TypeOK /\ LadderHolds /\ RefusalRecorded /\ BlockKeepsRefusing)
<1>1. DecisionsInit => Init
  BY DEF DecisionsInit
<1>2. [DecisionsNext]_decisionVars => [Next]_vars
  BY DEF DecisionsNext, decisionVars
<1>3. DecisionsSpec => Spec
  BY <1>1, <1>2, PTL DEF DecisionsSpec, Spec
<1> QED
  BY <1>3, TypeCorrect, LadderAlwaysHolds, RefusalsRecorded, BlocksKeepRefusing, PTL

-----------------------------------------------------------------------------
\* Narrowing of tools.

ToolsGiven == L!ToolsAssumption /\ L!StaleAssumption

RequestType ==
  [turn : Nat, offered : SUBSET Tools, mentioned : SUBSET Tools, sent : SUBSET Tools,
   notes : SUBSET [kind : {"dropped", "restored"}, tools : SUBSET Tools, turn : Nat]]

ToolTypes ==
  /\ turn \in 0..MaxTurns
  /\ lastRelevant \in [Tools -> Nat] /\ calledAt \in [Tools -> Nat]
  /\ dropped \subseteq Tools
  /\ request \in [Threads -> RequestType]

\* No turn is yet to come.
InThePast ==
  /\ \A n \in Tools : calledAt[n] <= lastRelevant[n] /\ lastRelevant[n] <= turn
  /\ \A t \in Threads : request[t].turn <= turn
  /\ \A f \in L!Decided : f.turn \in 1..turn /\ f.kind \in {"dropped", "restored"}
  /\ silent \subseteq 1..turn

NeverWithheld ==
  /\ dropped \intersect (Core \union Unnamed) = {}
  /\ \A t \in Threads : request[t].sent \subseteq request[t].offered

\* Tool n is withheld at a turn: a drop is on record since when it was not restored
\* and no full list has gone out.
WithheldSince(n, at) ==
  \E d \in L!Decided :
    /\ d.kind = "dropped" /\ n \in d.tools /\ d.turn <= at
    /\ ~L!Between("restored", n, d.turn, at)
    /\ silent \intersect (d.turn..at) = {}

\* Since drop d of tool n its episode has ended.
EpisodeOver(d, n, at) ==
  L!Between("restored", n, d.turn, at) \/ silent \intersect (d.turn..at) # {}

ExposureInv ==
  /\ ToolTypes /\ InThePast /\ NeverWithheld
  /\ L!RelevantToolSent /\ L!WithheldIsExplained /\ L!DropsAreEpisodes
  /\ \A n \in dropped : WithheldSince(n, turn)
  /\ \A d \in L!Decided : \A n \in d.tools :
       d.kind = "dropped" => n \in dropped \/ EpisodeOver(d, n, turn)

-----------------------------------------------------------------------------
LEMMA ToolsInitial == ASSUME ToolsGiven PROVE L!Init => ExposureInv
<1> SUFFICES ASSUME L!Init PROVE ExposureInv OBVIOUS
<1>1. L!Idle \in RequestType BY Zenon DEF L!Idle, RequestType
<1>2. \A t \in Threads : request[t] = L!Idle BY DEF L!Init
<1>3. L!Decided = {} BY <1>2 DEF L!Init, L!Decided, L!Idle
<1>4. ToolTypes BY <1>1, SMT DEF ToolsGiven, L!StaleAssumption, L!Init, ToolTypes
<1>5. InThePast BY <1>2, <1>3, SMT DEF L!Init, InThePast, L!Idle
<1>6. NeverWithheld BY <1>2 DEF L!Init, NeverWithheld, L!Idle
<1>7. QED
  BY <1>2, <1>3, <1>4, <1>5, <1>6
  DEF L!Init, ExposureInv, L!RelevantToolSent, L!WithheldIsExplained, L!DropsAreEpisodes

\* What only moves events from the threads to the log, and ends requests, changes
\* nothing about what was decided.
LEMMA NothingNarrowed ==
  ASSUME ExposureInv, L!Decided' = L!Decided, UNCHANGED <<turn, dropped, silent>>,
         NEW t \in Threads, NEW q \in RequestType,
         request' = [request EXCEPT ![t] = q],
         q = L!Idle \/ /\ request[t] # L!Idle
                       /\ q.turn = request[t].turn /\ q.offered = request[t].offered
                       /\ q.mentioned = request[t].mentioned /\ q.sent = request[t].sent
  PROVE  /\ L!WithheldIsExplained' /\ L!DropsAreEpisodes' /\ NeverWithheld'
         /\ \A n \in dropped' : WithheldSince(n, turn)'
         /\ \A d \in L!Decided' : \A n \in d.tools :
              d.kind = "dropped" => n \in dropped' \/ EpisodeOver(d, n, turn)'
<1>1. /\ \A u \in Threads : request'[u] = IF u = t THEN q ELSE request[u]
      /\ L!Idle.sent = {} /\ L!Idle.offered = {}
  BY DEF ExposureInv, ToolTypes, L!Idle
<1>2. \A n, a, b : L!Between("restored", n, a, b)' <=> L!Between("restored", n, a, b)
  BY DEF L!Between
<1>3. L!WithheldIsExplained'
  BY <1>1, <1>2 DEF ExposureInv, L!WithheldIsExplained
<1>4. L!DropsAreEpisodes'
  BY <1>2 DEF ExposureInv, L!DropsAreEpisodes
<1>5. NeverWithheld'
  BY <1>1 DEF ExposureInv, NeverWithheld
<1>6. QED BY <1>2, <1>3, <1>4, <1>5 DEF ExposureInv, WithheldSince, EpisodeOver

LEMMA NoteWritten ==
  ASSUME ExposureInv, NEW t \in Threads, L!WriteNote(t) PROVE ExposureInv'
<1> DEFINE q(n) == [request[t] EXCEPT !.notes = @ \ {n}]
<1>1. PICK n \in request[t].notes :
        /\ facts' = facts \union {n}
        /\ request' = [request EXCEPT ![t].notes = @ \ {n}]
        /\ UNCHANGED <<turn, lastRelevant, dropped, silent, calledAt>>
  BY DEF L!WriteNote
<1>2. request[t] \in RequestType BY DEF ExposureInv, ToolTypes
<1>3. /\ q(n) \in RequestType
      /\ q(n).turn = request[t].turn /\ q(n).offered = request[t].offered
      /\ q(n).mentioned = request[t].mentioned /\ q(n).sent = request[t].sent
      /\ q(n).notes = request[t].notes \ {n}
  <2>1. request[t].notes \ {n} \in SUBSET [kind : {"dropped", "restored"}, tools : SUBSET Tools,
                                          turn : Nat]
    BY <1>2, Zenon DEF RequestType
  <2>2. QED BY <1>2, <2>1, Zenon DEF RequestType
<1>4. request' = [request EXCEPT ![t] = q(n)] BY <1>1
<1>5. request[t] # L!Idle BY <1>1 DEF L!Idle
<1> HIDE DEF q
<1>6. \A u \in Threads : request'[u] = IF u = t THEN q(n) ELSE request[u]
  BY <1>4 DEF ExposureInv, ToolTypes
<1>7. L!Decided' = L!Decided
  BY <1>1, <1>3, <1>6 DEF L!Decided
<1>8. ToolTypes' BY <1>1, <1>3, <1>4 DEF ExposureInv, ToolTypes
<1>9. InThePast' BY <1>1, <1>3, <1>6, <1>7 DEF ExposureInv, InThePast
<1>10. L!RelevantToolSent' BY <1>1, <1>3, <1>5, <1>6 DEF ExposureInv, L!RelevantToolSent
<1>11. QED BY <1>1, <1>3, <1>4, <1>5, <1>7, <1>8, <1>9, <1>10, NothingNarrowed DEF ExposureInv

LEMMA CallAnswered ==
  ASSUME ExposureInv, NEW t \in Threads, NEW called \in SUBSET Tools, L!Answer(t, called)
  PROVE  ExposureInv'
<1>1. /\ lastRelevant' = [n \in Tools |-> IF n \in called \ Unnamed THEN turn ELSE lastRelevant[n]]
      /\ calledAt' = [n \in Tools |-> IF n \in called \ Unnamed THEN turn ELSE calledAt[n]]
      /\ request' = [request EXCEPT ![t] = L!Idle]
      /\ request[t].notes = {} /\ UNCHANGED <<turn, dropped, facts, silent>>
  BY DEF L!Answer
<1>2. L!Idle \in RequestType /\ L!Idle.notes = {} /\ L!Idle.turn = 0
  BY Zenon DEF L!Idle, RequestType
<1>3. \A u \in Threads : request'[u] = IF u = t THEN L!Idle ELSE request[u]
  BY <1>1 DEF ExposureInv, ToolTypes
<1>4. L!Decided' = L!Decided BY <1>1, <1>2, <1>3 DEF L!Decided
<1>5. turn \in Nat BY SMT DEF ExposureInv, ToolTypes
<1>6. ToolTypes' BY <1>1, <1>2, <1>5 DEF ExposureInv, ToolTypes
<1>7. InThePast' BY <1>1, <1>2, <1>3, <1>4, <1>5, SMT DEF ExposureInv, InThePast, ToolTypes
<1>8. L!RelevantToolSent'
  <2> SUFFICES ASSUME NEW u \in Threads, request'[u] # L!Idle
               PROVE /\ request'[u].sent # {}
                     /\ \A n \in request'[u].offered :
                          \/ n \in Core \union Unnamed \union request'[u].mentioned
                          \/ calledAt'[n] > 0 /\ calledAt'[n] < request'[u].turn
                               /\ request'[u].turn - calledAt'[n] <= Stale
                          => n \in request'[u].sent
    BY DEF L!RelevantToolSent
  <2>1. u # t /\ request'[u] = request[u] BY <1>3
  <2>2. request[u].turn \in Nat /\ request[u].offered \subseteq Tools
    BY DEF ExposureInv, ToolTypes, RequestType
  <2>3. \A n \in Tools : calledAt'[n] < request[u].turn => calledAt'[n] = calledAt[n]
    BY <1>1, <1>5, <2>2, SMT DEF ExposureInv, InThePast
  <2>4. QED BY <2>1, <2>2, <2>3 DEF ExposureInv, L!RelevantToolSent
<1>9. /\ L!WithheldIsExplained' /\ L!DropsAreEpisodes' /\ NeverWithheld'
      /\ \A n \in dropped' : WithheldSince(n, turn)'
      /\ \A d \in L!Decided' : \A n \in d.tools :
           d.kind = "dropped" => n \in dropped' \/ EpisodeOver(d, n, turn)'
  BY <1>1, <1>2, <1>4, NothingNarrowed
<1>10. QED BY <1>6, <1>7, <1>8, <1>9 DEF ExposureInv

-----------------------------------------------------------------------------
LEMMA RequestNarrowed ==
  ASSUME ToolsGiven, ExposureInv, NEW t \in Threads, NEW offered \in (SUBSET Tools) \ {{}},
         NEW mentioned \in SUBSET (offered \ Unnamed), L!Narrow(t, offered, mentioned)
  PROVE  ExposureInv'
<1> DEFINE at == turn + 1
           relevance == L!Relevance(offered, mentioned, at)
           kept == L!Kept(offered, relevance, at)
           drops == (offered \ kept) \ dropped
           back == kept \intersect dropped
           new == IF kept = {} THEN {}
                  ELSE L!Note("dropped", drops, at) \union L!Note("restored", back, at)
           q == [turn |-> at, offered |-> offered, mentioned |-> mentioned,
                 sent |-> IF kept = {} THEN offered ELSE kept, notes |-> new]
<1>1. /\ request[t] = L!Idle /\ turn < MaxTurns /\ turn' = at
      /\ lastRelevant' = relevance /\ dropped' = L!Withheld(offered, kept)
      /\ silent' = IF kept = {} THEN silent \union {at} ELSE silent
      /\ request' = [request EXCEPT ![t] = q]
      /\ UNCHANGED <<facts, calledAt>>
  BY DEF L!Narrow
<1>2. turn \in Nat /\ at \in Nat /\ at \in 0..MaxTurns
  BY <1>1, SMT DEF ToolsGiven, L!StaleAssumption, ExposureInv, ToolTypes
<1>3. /\ relevance \in [Tools -> Nat]
      /\ \A n \in Tools : lastRelevant[n] <= relevance[n] /\ relevance[n] <= at
      /\ \A n \in mentioned : relevance[n] = at
  BY <1>2, SMT DEF L!Relevance, ExposureInv, ToolTypes, InThePast
<1>4. /\ kept \subseteq offered
      /\ (Core \union Unnamed \union mentioned) \intersect offered \subseteq kept
  BY <1>2, <1>3, SMT DEF L!Kept, ToolsGiven, L!StaleAssumption
<1>5. /\ \A f \in new : /\ f \in [kind : {"dropped", "restored"}, tools : SUBSET Tools, turn : Nat]
                        /\ f.turn = at
                        /\ f.kind = "dropped" => f.tools = drops
                        /\ f.kind = "restored" => f.tools = back
      /\ kept # {} /\ drops # {} => \E f \in new : f.kind = "dropped" /\ f.tools = drops
      /\ kept # {} /\ back # {} => \E f \in new : f.kind = "restored" /\ f.tools = back
  <2> DEFINE D == [kind |-> "dropped", tools |-> drops, turn |-> at]
             R == [kind |-> "restored", tools |-> back, turn |-> at]
  <2>1. drops \subseteq Tools /\ back \subseteq Tools BY <1>4
  <2>2. \A kind \in {"dropped", "restored"} : \A tools \in SUBSET Tools : \A f :
          f \in L!Note(kind, tools, at) <=>
            tools # {} /\ f = [kind |-> kind, tools |-> tools, turn |-> at]
    BY DEF L!Note
  <2> HIDE DEF drops, back, kept
  <2>3. \A f : f \in new <=>
          /\ kept # {}
          /\ \/ drops # {} /\ f = [kind |-> "dropped", tools |-> drops, turn |-> at]
             \/ back # {} /\ f = [kind |-> "restored", tools |-> back, turn |-> at]
    BY <2>1, <2>2 DEF new
  <2> HIDE DEF new
  <2>4. /\ D \in [kind : {"dropped", "restored"}, tools : SUBSET Tools, turn : Nat]
        /\ R \in [kind : {"dropped", "restored"}, tools : SUBSET Tools, turn : Nat]
        /\ D.kind = "dropped" /\ D.tools = drops /\ D.turn = at
        /\ R.kind = "restored" /\ R.tools = back /\ R.turn = at
    BY <1>2, <2>1
  <2>5. \A f \in new : f = D \/ f = R BY <2>3
  <2>6. (kept # {} /\ drops # {} => D \in new) /\ (kept # {} /\ back # {} => R \in new)
    BY <2>3
  <2> HIDE DEF D, R
  <2>7. QED BY <2>4, <2>5, <2>6
<1>6. dropped' = IF kept = {} THEN {} ELSE (dropped \ kept) \union (offered \ kept)
  BY <1>1 DEF L!Withheld
<1>7. q \in RequestType
  <2>1. /\ new \in SUBSET [kind : {"dropped", "restored"}, tools : SUBSET Tools, turn : Nat]
        /\ (IF kept = {} THEN offered ELSE kept) \in SUBSET Tools
    BY <1>4, <1>5
  <2>2. QED BY <1>2, <2>1, Zenon DEF RequestType
<1>8. /\ q.turn = at /\ q.offered = offered /\ q.mentioned = mentioned /\ q.notes = new
      /\ q.sent = IF kept = {} THEN offered ELSE kept
  OBVIOUS
<1> HIDE DEF q, new, drops, back, kept, relevance
<1>9. \A u \in Threads : request'[u] = IF u = t THEN q ELSE request[u]
  BY <1>1 DEF ExposureInv, ToolTypes
<1>10. L!Decided' = L!Decided \union new
  BY <1>1, <1>8, <1>9 DEF L!Decided, L!Idle
<1>11. /\ \A d \in L!Decided : d.turn \in 1..turn /\ d.kind \in {"dropped", "restored"}
       /\ silent \subseteq 1..turn
  BY DEF ExposureInv, InThePast
\* The new events are of this turn, which nobody has seen yet.
<1>12. \A n, a : \A b \in 0..turn :
         /\ L!Between("restored", n, a, b)' <=> L!Between("restored", n, a, b)
         /\ silent' \intersect (a..b) = silent \intersect (a..b)
  <2> SUFFICES ASSUME NEW n, NEW a, NEW b \in 0..turn
               PROVE /\ L!Between("restored", n, a, b)' <=> L!Between("restored", n, a, b)
                     /\ silent' \intersect (a..b) = silent \intersect (a..b)
    OBVIOUS
  <2>1. at \notin a..b BY <1>2, SMT
  <2>2. QED BY <1>1, <1>5, <1>10, <2>1 DEF L!Between
<1>13. ToolTypes'
  BY <1>1, <1>2, <1>3, <1>4, <1>6, <1>7 DEF ExposureInv, ToolTypes
<1>14. InThePast'
  <2>1. \A n \in Tools : calledAt'[n] <= lastRelevant'[n] /\ lastRelevant'[n] <= turn'
    BY <1>1, <1>2, <1>3, SMT DEF ExposureInv, ToolTypes, InThePast
  <2>2. \A u \in Threads : request'[u].turn <= turn'
    BY <1>1, <1>2, <1>8, <1>9, SMT DEF ExposureInv, ToolTypes, InThePast, RequestType
  <2>3. \A f \in L!Decided' : f.turn \in 1..turn' /\ f.kind \in {"dropped", "restored"}
    BY <1>1, <1>2, <1>5, <1>10, <1>11, SMT
  <2>4. silent' \subseteq 1..turn'
    BY <1>1, <1>2, <1>11, SMT
  <2>5. QED BY <2>1, <2>2, <2>3, <2>4 DEF InThePast
<1>15. NeverWithheld'
  BY <1>4, <1>6, <1>8, <1>9 DEF ExposureInv, NeverWithheld
<1>16. L!RelevantToolSent'
  <2>1. offered # {} /\ q.sent # {} BY <1>8
  <2>2. ASSUME NEW n \in offered, calledAt[n] > 0, at - calledAt[n] <= Stale PROVE n \in kept
    BY <1>2, <1>3, <2>2, SMT
    DEF kept, L!Kept, ExposureInv, ToolTypes, InThePast, ToolsGiven, L!StaleAssumption
  <2>3. \A n \in q.offered :
          \/ n \in Core \union Unnamed \union q.mentioned
          \/ calledAt[n] > 0 /\ q.turn - calledAt[n] <= Stale
          => n \in q.sent
    BY <1>4, <1>8, <2>2
  <2> SUFFICES ASSUME NEW u \in Threads, request'[u] # L!Idle
               PROVE /\ request'[u].sent # {}
                     /\ \A n \in request'[u].offered :
                          \/ n \in Core \union Unnamed \union request'[u].mentioned
                          \/ calledAt'[n] > 0 /\ calledAt'[n] < request'[u].turn
                               /\ request'[u].turn - calledAt'[n] <= Stale
                          => n \in request'[u].sent
    BY DEF L!RelevantToolSent
  <2>4. CASE u = t BY <1>1, <1>9, <2>1, <2>3, <2>4
  <2>5. CASE u # t BY <1>1, <1>9, <2>5 DEF ExposureInv, L!RelevantToolSent
  <2>6. QED BY <2>4, <2>5
\* Why each tool is withheld that is withheld now.
<1>17. ASSUME NEW n \in dropped' PROVE WithheldSince(n, turn)'
  <2>1. kept # {} /\ n \notin kept /\ silent' = silent BY <1>1, <1>6, <1>17
  <2>2. CASE n \in dropped
    <3>1. PICK d \in L!Decided :
            /\ d.kind = "dropped" /\ n \in d.tools /\ d.turn <= turn
            /\ ~L!Between("restored", n, d.turn, turn)
            /\ silent \intersect (d.turn..turn) = {}
      BY <2>2 DEF ExposureInv, WithheldSince
    <3>2. d.turn \in 1..turn BY <1>11
    <3>3. ~L!Between("restored", n, d.turn, turn)'
      BY <1>5, <1>10, <1>11, <2>1, <3>1, <3>2, SMT DEF L!Between, back
    <3>4. silent' \intersect (d.turn..at) = {}
      BY <1>2, <1>11, <2>1, <3>1, <3>2, SMT
    <3>5. QED BY <1>1, <1>2, <1>10, <3>1, <3>2, <3>3, <3>4 DEF WithheldSince
  <2>3. CASE n \notin dropped
    <3>1. PICK e \in new : e.kind = "dropped" /\ e.tools = drops
      BY <1>4, <1>5, <1>6, <1>17, <2>1, <2>3 DEF drops
    <3>2. n \in e.tools /\ e.turn = at BY <1>5, <1>6, <1>17, <2>1, <2>3, <3>1 DEF drops
    <3>3. ~L!Between("restored", n, turn, turn)'
      <4>1. \A f \in L!Decided' : f.turn \in at..at => f \in new
        BY <1>2, <1>10, <1>11, SMT
      <4>2. \A f \in new : f.kind = "restored" => n \notin f.tools BY <1>5, <2>3 DEF back
      <4>3. QED BY <1>1, <4>1, <4>2 DEF L!Between
    <3>4. silent' \intersect (at..at) = {}
      BY <1>2, <1>11, <2>1, SMT
    <3>5. QED BY <1>1, <1>2, <1>10, <3>1, <3>2, <3>3, <3>4 DEF WithheldSince
  <2>4. QED BY <2>2, <2>3
\* What explained an earlier request still does.
<1>18. ASSUME NEW u \in Threads, request'[u] # L!Idle,
              NEW n \in request'[u].offered \ request'[u].sent
       PROVE  WithheldSince(n, request[u].turn)' \/ (u = t /\ WithheldSince(n, turn)')
  <2>1. CASE u = t
    BY <1>4, <1>6, <1>8, <1>9, <1>17, <1>18, <2>1
  <2>2. CASE u # t
    <3>1. request'[u] = request[u] /\ request[u].turn \in 0..turn
      BY <1>9, <2>2 DEF ExposureInv, ToolTypes, RequestType, InThePast
    <3>2. WithheldSince(n, request[u].turn)
      BY <1>18, <3>1 DEF ExposureInv, L!WithheldIsExplained, WithheldSince
    <3>3. PICK d \in L!Decided :
            /\ d.kind = "dropped" /\ n \in d.tools /\ d.turn <= request[u].turn
            /\ ~L!Between("restored", n, d.turn, request[u].turn)
            /\ silent \intersect (d.turn..request[u].turn) = {}
      BY <3>2 DEF WithheldSince
    <3>4. /\ ~L!Between("restored", n, d.turn, request[u].turn)'
          /\ silent' \intersect (d.turn..request[u].turn) = {}
      BY <1>12, <3>1, <3>3 DEF L!Between
    <3>5. QED BY <1>1, <1>10, <3>1, <3>3, <3>4 DEF WithheldSince
  <2>3. QED BY <2>1, <2>2
<1>19. L!WithheldIsExplained'
  BY <1>1, <1>8, <1>9, <1>18 DEF L!WithheldIsExplained, WithheldSince
\* The episodes that were over, and those that this turn ends.
<1>20. ASSUME NEW d \in L!Decided, NEW n, NEW b \in 0..turn, EpisodeOver(d, n, b)
       PROVE  EpisodeOver(d, n, turn)'
  <2>1. EpisodeOver(d, n, b)' BY <1>12, <1>20 DEF EpisodeOver
  <2>2. d.turn..b \subseteq d.turn..at BY <1>2, <1>11, <1>20, SMT
  <2>3. QED BY <1>1, <2>1, <2>2 DEF EpisodeOver, L!Between
<1>21. ASSUME NEW d \in L!Decided, NEW n \in d.tools, d.kind = "dropped", n \notin dropped'
       PROVE  EpisodeOver(d, n, turn)'
  <2>1. CASE n \notin dropped BY <1>2, <1>20, <1>21, <2>1, turn \in 0..turn DEF ExposureInv
  <2>2. CASE n \in dropped /\ kept = {}
    <3>1. at \in silent' /\ at \in d.turn..at BY <1>1, <1>2, <1>11, <1>21, <2>2, SMT
    <3>2. QED BY <1>1, <3>1 DEF EpisodeOver
  <2>3. CASE n \in dropped /\ kept # {}
    <3>1. n \in back BY <1>6, <1>21, <2>3 DEF back
    <3>2. PICK f \in new : f.kind = "restored" /\ f.tools = back BY <1>5, <2>3, <3>1
    <3>3. f \in L!Decided' /\ n \in f.tools /\ f.turn = at BY <1>5, <1>10, <3>1, <3>2
    <3>4. at \in d.turn..at BY <1>2, <1>11, <1>21, SMT
    <3>5. QED BY <1>1, <3>2, <3>3, <3>4 DEF EpisodeOver, L!Between
  <2>4. QED BY <2>1, <2>2, <2>3
<1>22. \A d \in L!Decided' : \A n \in d.tools :
         d.kind = "dropped" => n \in dropped' \/ EpisodeOver(d, n, turn)'
  <2> SUFFICES ASSUME NEW d \in L!Decided', NEW n \in d.tools, d.kind = "dropped", n \notin dropped'
               PROVE  EpisodeOver(d, n, turn)'
    BY <1>1
  <2>1. CASE d \in L!Decided BY <1>21, <2>1
  <2>2. CASE d \in new
    BY <1>4, <1>5, <1>6, <2>2 DEF drops, new, L!Note
  <2>3. QED BY <1>10, <2>1, <2>2
<1>23. L!DropsAreEpisodes'
  <2> SUFFICES ASSUME NEW d \in L!Decided', NEW e \in L!Decided',
                      NEW n \in d.tools \intersect e.tools,
                      d.kind = "dropped", e.kind = "dropped", d.turn < e.turn
               PROVE  EpisodeOver(d, n, e.turn)'
    BY DEF L!DropsAreEpisodes, EpisodeOver
  <2>1. CASE d \in L!Decided /\ e \in L!Decided
    <3>1. EpisodeOver(d, n, e.turn) BY <2>1 DEF ExposureInv, L!DropsAreEpisodes, EpisodeOver
    <3>2. e.turn \in 0..turn BY <1>2, <1>11, <2>1, SMT
    <3>3. QED BY <1>12, <3>1, <3>2 DEF EpisodeOver
  <2>2. CASE d \in L!Decided /\ e \in new
    <3>1. e.turn = at /\ n \notin dropped BY <1>5, <2>2 DEF drops
    <3>2. EpisodeOver(d, n, turn) BY <2>2, <3>1 DEF ExposureInv
    <3>3. QED BY <1>1, <1>2, <1>20, <2>2, <3>1, <3>2, turn \in 0..turn
  <2>3. CASE d \in new
    BY <1>2, <1>5, <1>10, <1>11, <2>3, SMT
  <2>4. QED BY <1>10, <2>1, <2>2, <2>3
<1>24. QED BY <1>13, <1>14, <1>15, <1>16, <1>17, <1>19, <1>22, <1>23 DEF ExposureInv

LEMMA ExposureStep == ASSUME ToolsGiven, ExposureInv, [L!Next]_L!vars PROVE ExposureInv'
<1>1. CASE UNCHANGED L!vars
  BY <1>1
  DEF L!vars, ExposureInv, ToolTypes, InThePast, NeverWithheld, L!RelevantToolSent,
      L!WithheldIsExplained,
      L!DropsAreEpisodes, WithheldSince, EpisodeOver, L!Between, L!Decided
<1>2. CASE L!Next
  BY <1>2, RequestNarrowed, NoteWritten, CallAnswered DEF L!Next
<1>3. QED BY <1>1, <1>2

\* Whatever the threads of a run ask at the same time, no request loses a tool the
\* agent needs, the events explain what each request was sent without, and a drop
\* episode has one event (policy/lazy_tool_exposure.py:21-23, 221-290).
THEOREM ExposureAlwaysExplained == DecisionsSpec => []ExposureExplained
<1>1. ToolsGiven BY ToolsAssumption DEF ToolsGiven
<1>2. DecisionsInit => ExposureInv BY <1>1, ToolsInitial DEF DecisionsInit
<1>3. [DecisionsNext]_decisionVars => [L!Next]_L!vars
  BY DEF DecisionsNext, decisionVars, toolState, L!vars
<1>4. ExposureInv /\ [L!Next]_L!vars => ExposureInv' BY <1>1, ExposureStep
<1>5. ExposureInv => ExposureExplained
  <2> SUFFICES ASSUME ExposureInv PROVE L!TypeOK
    BY DEF ExposureInv, ExposureExplained, L!ExposureExplained
  <2>1. lastRelevant \in [Tools -> 0..MaxTurns]
    BY <1>1, SMT DEF ExposureInv, ToolTypes, InThePast, ToolsGiven, L!StaleAssumption
  <2>2. QED BY <2>1 DEF ExposureInv, ToolTypes, InThePast, NeverWithheld, L!TypeOK
<1>6. QED BY <1>2, <1>3, <1>4, <1>5, PTL DEF DecisionsSpec
-----------------------------------------------------------------------------
\* CheapSummariser.

SStations ==
  {"idle", "task", "memo", "tags", "scan", "gate", "mark", "history", "assign", "next",
   "model"}
Triggers ==
  [pc : SStations, task : {None, "task", "none"}, todo : SUBSET Results,
   one : Results \union {None}, off : BOOLEAN, asked : BOOLEAN, worse : BOOLEAN]

SummaryTypes ==
  /\ agent \in Agents /\ killTags \subseteq TaskRuns /\ disabled \in BOOLEAN
  /\ task \in [TaskRuns -> {None, "task", "none"}]
  /\ branch \in [TaskRuns -> {None, "control", "treatment"}]
  /\ cache \subseteq Results /\ begun \in 0..MaxSummaries
  /\ trigger \in [Threads -> Triggers]
  /\ replaced \in [Results -> Nat]
  /\ sends \in [TaskRuns -> SUBSET {"raw", "summary"}]

Misread(r) == <<r, "misread">> \in excused
Raced(x) == <<x, "raced">> \in excused
\* Why what was thrown before a run's trigger need not stop the trigger's call.
Pardoned(r) == \E why \in {"misread", "unscanned", "unread", "enabled"} : <<r, why>> \in excused
Of(t) == agent.home[t]
Stopped(r) == disabled \/ Pardoned(r)

\* A result has one summary, or two threads met it at once.
SummaryOnce ==
  \A x \in Results :
    /\ replaced[x] > 0 => x \in cache
    /\ replaced[x] > 1 => Raced(x)
    /\ \A t \in Threads :
         S!At(t, "model") /\ trigger[t].one = x =>
           /\ replaced[x] > 0 => Raced(x)
           /\ \A u \in Threads \ {t} : S!At(u, "model") /\ trigger[u].one = x => Raced(x)

\* What a run's branch says of what its calls sent.
BranchTells ==
  \A r \in TaskRuns :
    /\ task[r] = "none" => Misread(r)
    /\ ~agent.abMode => branch[r] = None
    /\ agent.abMode /\ "summary" \in sends[r] => branch[r] = "treatment" \/ Misread(r)

\* A question that is marked as asked has been answered, or a thread is at it.
Answered(r, checked, at) ==
  r \in checked =>
    \/ \E u \in Threads : Of(u) = r /\ S!At(u, at)
    \/ Stopped(r)

Asks == {"task", "memo", "tags"}
Looks == Asks \union {"scan", "gate", "mark"}
Rewrites == {"next", "model"}

\* What a call that is under way knows of its run, and what stops it.
Watched(t) ==
  LET c == trigger[t]
      r == Of(t)
  IN /\ c.pc = "model" <=> c.one # None
     /\ c.task = "none" => Misread(r)
     /\ c.pc \notin {"idle", "task"} => c.task # None
     /\ c.pc \in {"mark", "history", "assign"} => agent.abMode /\ c.task = "task"
     /\ c.off => disabled
     /\ c.worse => agent.abMode /\ S!DropTooLarge(past)
     /\ c.asked => r \in killTags
     /\ c.asked /\ c.pc \in Asks => Answered(r, tagChecked, "scan")
     /\ c.asked /\ c.pc \in {"gate", "mark", "history", "assign"} => Stopped(r)
     /\ c.worse /\ c.pc \in Looks => Answered(r, regChecked, "history")
     /\ c.worse /\ c.pc = "assign" => Stopped(r)
     /\ c.off /\ c.pc \in Rewrites => Misread(r)
     /\ (c.asked \/ c.worse) /\ c.pc \in Rewrites => Pardoned(r)
     /\ agent.abMode /\ c.pc \in Rewrites => branch[r] = "treatment" \/ Misread(r)

SummaryInv == SummaryTypes /\ SummaryOnce /\ BranchTells /\ \A t \in Threads : Watched(t)

SummaryGiven == S!AgentsAssumption /\ S!NoneAssumption /\ S!BoundsAssumption

\* A run's switches are not forgotten, its questions not left without an answer.
SwitchesKept ==
  /\ agent' = agent /\ excused \subseteq excused' /\ killTags \subseteq killTags'
  /\ \A r \in TaskRuns :
       /\ Stopped(r) => Stopped(r)'
       /\ r \in killTags /\ Answered(r, tagChecked, "scan") => Answered(r, tagChecked, "scan")'
       /\ S!DropTooLarge(past) /\ Answered(r, regChecked, "history")
            => Answered(r, regChecked, "history")'
       /\ branch[r] = "treatment" => branch'[r] = "treatment"

SameCall(t) ==
  /\ trigger'[t].pc = trigger[t].pc /\ trigger'[t].task = trigger[t].task
  /\ trigger'[t].one = trigger[t].one /\ trigger'[t].asked = trigger[t].asked
  /\ trigger'[t].off => trigger[t].off /\ disabled'
  /\ trigger'[t].worse => trigger[t].worse /\ S!DropTooLarge(past)'

LEMMA HomeGiven ==
  ASSUME SummaryGiven, SummaryTypes
  PROVE  /\ \A t \in Threads : Of(t) \in TaskRuns
         /\ agent.abMode \in BOOLEAN
  BY DEF SummaryGiven, SummaryTypes, S!AgentsAssumption, Of

LEMMA ExcusesLast ==
  ASSUME excused \subseteq excused', NEW r
  PROVE  /\ Misread(r) => Misread(r)'
         /\ Pardoned(r) => Pardoned(r)'
         /\ Raced(r) => Raced(r)'
  BY DEF Misread, Pardoned, Raced

LEMMA StillWatched ==
  ASSUME SummaryGiven, SummaryInv, SwitchesKept, NEW t \in Threads, SameCall(t)
  PROVE  Watched(t)'
<1> DEFINE r == Of(t)
<1>1. r \in TaskRuns /\ r' = r BY HomeGiven DEF SummaryInv, SwitchesKept, Of
<1>2. /\ Misread(r) => Misread(r)'
      /\ Pardoned(r) => Pardoned(r)'
  BY <1>1 DEF SwitchesKept, Misread, Pardoned
<1>3. Watched(t) BY DEF SummaryInv
<1>4. /\ Stopped(r) => Stopped(r)'
      /\ r \in killTags /\ Answered(r, tagChecked, "scan") => Answered(r, tagChecked, "scan")'
      /\ S!DropTooLarge(past) /\ Answered(r, regChecked, "history")
           => Answered(r, regChecked, "history")'
      /\ branch[r] = "treatment" => branch'[r] = "treatment"
  BY <1>1 DEF SwitchesKept
<1> HIDE DEF r
<1>5. trigger'[t].worse => trigger[t].worse /\ S!DropTooLarge(past)' BY DEF SameCall
<1>6. trigger'[t].off => trigger[t].off /\ disabled' BY DEF SameCall
<1>7. Misread(Of(t))' = Misread(r)' BY DEF r
<1> QED BY <1>1, <1>2, <1>3, <1>4, <1>5, <1>6 DEF Watched, SameCall, SwitchesKept, r

LEMMA AllWatched ==
  ASSUME SummaryGiven, SummaryInv, SwitchesKept, NEW t \in Threads, past' = past,
         disabled => disabled', \A u \in Threads \ {t} : trigger'[u] = trigger[u], Watched(t)'
  PROVE  \A u \in Threads : Watched(u)'
<1> SUFFICES ASSUME NEW u \in Threads, u # t PROVE Watched(u)' OBVIOUS
<1>1. Watched(u) BY DEF SummaryInv
<1>2. SameCall(u) BY <1>1 DEF SameCall, Watched, S!DropTooLarge, S!Comparable
<1> QED BY <1>2, StillWatched

LEMMA OnceKept ==
  ASSUME SummaryInv, excused \subseteq excused', UNCHANGED <<cache, replaced>>,
         \A u \in Threads : trigger'[u].pc = "model" =>
           trigger[u].pc = "model" /\ trigger'[u].one = trigger[u].one
  PROVE  SummaryOnce'
  BY DEF SummaryInv, SummaryOnce, Raced, S!At

LEMMA TellsKept ==
  ASSUME SummaryInv, agent' = agent, excused \subseteq excused', UNCHANGED <<task, branch>>,
         \A r \in TaskRuns : "summary" \in sends'[r] => "summary" \in sends[r]
  PROVE  BranchTells'
  BY DEF SummaryInv, BranchTells, Misread

\* What the run's threads are asking, and have asked, is as it was.
LEMMA NothingAsked ==
  ASSUME UNCHANGED <<agent, killTags, disabled, past, tagChecked, regChecked, branch>>,
         excused \subseteq excused',
         \A u \in Threads : \A at \in {"scan", "history"} :
           trigger[u].pc = at => trigger'[u].pc = at
  PROVE  SwitchesKept
<1>1. ASSUME NEW r \in TaskRuns
      PROVE  /\ Stopped(r) => Stopped(r)'
             /\ Answered(r, tagChecked, "scan") => Answered(r, tagChecked, "scan")'
             /\ Answered(r, regChecked, "history") => Answered(r, regChecked, "history")'
  <2>1. Stopped(r) => Stopped(r)' BY DEF Stopped, Pardoned
  <2>2. ASSUME NEW u \in Threads
        PROVE  /\ Of(u)' = Of(u)
               /\ S!At(u, "scan") => S!At(u, "scan")'
               /\ S!At(u, "history") => S!At(u, "history")'
    BY DEF Of, S!At
  <2>3. QED BY <2>1, <2>2 DEF Answered
<1> QED BY <1>1 DEF SwitchesKept

\* What a thread knows of its run goes on to hold.
LEMMA OwnRunKept ==
  ASSUME SummaryGiven, SummaryInv, SwitchesKept, NEW t \in Threads, past' = past
  PROVE  /\ Of(t) \in TaskRuns /\ Of(t)' = Of(t)
         /\ Stopped(Of(t)) => Stopped(Of(t))'
         /\ Misread(Of(t)) => Misread(Of(t))'
         /\ Pardoned(Of(t)) => Pardoned(Of(t))'
         /\ Of(t) \in killTags /\ Answered(Of(t), tagChecked, "scan")
              => Answered(Of(t), tagChecked, "scan")'
         /\ S!DropTooLarge(past) /\ Answered(Of(t), regChecked, "history")
              => Answered(Of(t), regChecked, "history")'
         /\ S!DropTooLarge(past)' = S!DropTooLarge(past)
<1>1. Of(t) \in TaskRuns /\ Of(t)' = Of(t)
  BY HomeGiven DEF SummaryInv, SwitchesKept, Of
<1>2. PICK r \in TaskRuns : r = Of(t) BY <1>1
<1>3. /\ Stopped(r) => Stopped(r)'
      /\ Misread(r) => Misread(r)'
      /\ Pardoned(r) => Pardoned(r)'
      /\ r \in killTags /\ Answered(r, tagChecked, "scan") => Answered(r, tagChecked, "scan")'
      /\ S!DropTooLarge(past) /\ Answered(r, regChecked, "history")
           => Answered(r, regChecked, "history")'
  BY ExcusesLast DEF SwitchesKept
<1>4. S!DropTooLarge(past)' = S!DropTooLarge(past) BY DEF S!DropTooLarge, S!Comparable
<1> QED BY <1>1, <1>2, <1>3, <1>4

LEMMA ReadTaskStep ==
  ASSUME SummaryGiven, SummaryInv, NEW t \in Threads, S!ReadTask(t) PROVE SummaryInv'
<1> DEFINE r == Of(t)
<1>1. r \in TaskRuns /\ S!Run(t) = r BY HomeGiven DEF SummaryInv, Of, S!Run
<1>2. PICK pc \in {"tags", "memo"}, name \in {"task", "none"} :
        /\ trigger' = [trigger EXCEPT ![t].pc = pc, ![t].task = name]
        /\ name = "none" => Misread(r)'
        /\ excused \subseteq excused'
  <2>1. CASE task[r] # None
    <3>1. task[r] \in {"task", "none"} BY <1>1, <2>1 DEF SummaryInv, SummaryTypes
    <3>2. task[r] = "none" => Misread(r) BY <1>1 DEF SummaryInv, BranchTells
    <3>3. QED BY <1>1, <2>1, <3>1, <3>2 DEF S!ReadTask, Misread, S!switchVars, Of
  <2>2. CASE task[r] = None
    BY <1>1, <2>2 DEF S!ReadTask, Misread, S!switchVars, Of, S!Excuse
  <2>3. QED BY <2>1, <2>2
<1>3. /\ trigger' \in [Threads -> Triggers]
      /\ \A u \in Threads \ {t} : trigger'[u] = trigger[u]
      /\ trigger'[t] = [trigger[t] EXCEPT !.pc = pc, !.task = name]
  <2>1. trigger \in [Threads -> Triggers] BY DEF SummaryInv, SummaryTypes
  <2>2. [trigger[t] EXCEPT !.pc = pc, !.task = name] \in Triggers
    BY <2>1 DEF Triggers, SStations
  <2>3. QED BY <1>2, <2>1, <2>2
<1>4. /\ trigger'[t].pc = pc /\ trigger'[t].task = name
      /\ trigger'[t].one = trigger[t].one /\ trigger'[t].asked = trigger[t].asked
      /\ trigger'[t].off = trigger[t].off /\ trigger'[t].worse = trigger[t].worse
  BY <1>3 DEF SummaryInv, SummaryTypes, Triggers
<1>5. /\ trigger[t].pc = "task"
      /\ UNCHANGED <<agent, killTags, disabled, past, task, tagChecked, regChecked, branch,
                     cache, begun, replaced, sends>>
  BY DEF S!ReadTask, S!At, S!switchVars, S!memos, S!countVars
<1>6. SwitchesKept BY <1>2, <1>3, <1>4, <1>5, NothingAsked
<1>7. Watched(t)'
  <2>1. Watched(t) BY DEF SummaryInv
  <2>2. None # "task" /\ None # "none" BY DEF SummaryGiven, S!NoneAssumption
  <2>3. QED
    BY <1>2, <1>4, <1>5, <1>6, <2>1, <2>2, OwnRunKept DEF Watched, Asks, Looks, Rewrites
<1> QED
  <2>1. SummaryTypes' BY <1>3, <1>5 DEF SummaryInv, SummaryTypes
  <2>2. SummaryOnce' BY <1>2, <1>3, <1>4, <1>5, OnceKept
  <2>3. BranchTells' BY <1>2, <1>5, TellsKept
  <2>4. \A u \in Threads : Watched(u)' BY <1>3, <1>5, <1>6, <1>7, AllWatched
  <2>5. QED BY <2>1, <2>2, <2>3, <2>4 DEF SummaryInv

LEMMA ThreadGoes ==
  ASSUME SummaryInv, NEW t \in Threads, NEW pc \in SStations, S!Goto(t, pc)
  PROVE  /\ trigger' \in [Threads -> Triggers]
         /\ \A u \in Threads \ {t} : trigger'[u] = trigger[u]
         /\ trigger'[t].pc = pc
         /\ trigger'[t].task = trigger[t].task /\ trigger'[t].one = trigger[t].one
         /\ trigger'[t].todo = trigger[t].todo /\ trigger'[t].asked = trigger[t].asked
         /\ trigger'[t].off = trigger[t].off /\ trigger'[t].worse = trigger[t].worse
<1>1. trigger \in [Threads -> Triggers] BY DEF SummaryInv, SummaryTypes
<1>2. [trigger[t] EXCEPT !.pc = pc] \in Triggers BY <1>1 DEF Triggers, SStations
<1>3. /\ trigger' \in [Threads -> Triggers]
      /\ \A u \in Threads \ {t} : trigger'[u] = trigger[u]
      /\ trigger'[t] = [trigger[t] EXCEPT !.pc = pc]
  BY <1>1, <1>2 DEF S!Goto
<1> QED BY <1>1, <1>3 DEF Triggers

\* A call that is let through is over, and nothing is asked of it any more.
LEMMA CallEnds ==
  ASSUME SummaryGiven, SummaryInv, NEW t \in Threads,
         trigger' = [trigger EXCEPT ![t] = S!Idle]
  PROVE  /\ trigger' \in [Threads -> Triggers]
         /\ \A u \in Threads \ {t} : trigger'[u] = trigger[u]
         /\ trigger'[t].pc = "idle"
         /\ Watched(t)'
<1>1. trigger \in [Threads -> Triggers] BY DEF SummaryInv, SummaryTypes
<1>2. S!Idle \in Triggers BY DEF S!Idle, Triggers, SStations
<1>3. /\ trigger' \in [Threads -> Triggers]
      /\ \A u \in Threads \ {t} : trigger'[u] = trigger[u]
      /\ trigger'[t] = S!Idle
  BY <1>1, <1>2
<1>4. None # "none" /\ None # "task" BY DEF SummaryGiven, S!NoneAssumption
<1>5. Watched(t)' BY <1>3, <1>4 DEF Watched, S!Idle, Asks, Looks, Rewrites
<1> QED BY <1>3, <1>5 DEF S!Idle

LEMMA MemoTaskStep ==
  ASSUME SummaryGiven, SummaryInv, NEW t \in Threads, S!MemoTask(t) PROVE SummaryInv'
<1>1. Of(t) \in TaskRuns /\ S!Run(t) = Of(t) /\ Of(t)' = Of(t)
  BY HomeGiven DEF SummaryInv, Of, S!Run, S!MemoTask, S!switchVars
<1>2. /\ trigger[t].pc = "memo" /\ S!Goto(t, "tags")
      /\ task' = [task EXCEPT ![Of(t)] = trigger[t].task]
      /\ UNCHANGED <<agent, killTags, disabled, past, tagChecked, regChecked, branch, cache,
                     begun, replaced, sends, excused>>
  BY <1>1 DEF S!MemoTask, S!At, S!switchVars, S!countVars, S!historyVars
<1>3. /\ trigger' \in [Threads -> Triggers] /\ trigger'[t].pc = "tags"
      /\ \A u \in Threads \ {t} : trigger'[u] = trigger[u]
      /\ trigger'[t].task = trigger[t].task /\ trigger'[t].one = trigger[t].one
      /\ trigger'[t].todo = trigger[t].todo /\ trigger'[t].asked = trigger[t].asked
      /\ trigger'[t].off = trigger[t].off /\ trigger'[t].worse = trigger[t].worse
  BY <1>2, ThreadGoes DEF SStations
<1>4. SwitchesKept BY <1>2, <1>3, NothingAsked
<1>5. Watched(t) BY DEF SummaryInv
<1>6. Watched(t)' BY <1>2, <1>3, <1>4, <1>5, OwnRunKept DEF Watched, Asks, Looks, Rewrites
<1>7. trigger[t].task \in {None, "task", "none"} BY DEF SummaryInv, SummaryTypes, Triggers
<1>8. SummaryTypes' BY <1>1, <1>2, <1>3, <1>7 DEF SummaryInv, SummaryTypes
<1>9. SummaryOnce' BY <1>2, <1>3, OnceKept
<1>10. BranchTells'
  <2> SUFFICES ASSUME NEW r \in TaskRuns, task'[r] = "none" PROVE Misread(r)
    BY <1>2 DEF SummaryInv, BranchTells, Misread
  <2>1. CASE r = Of(t)
    BY <1>1, <1>2, <1>5, <2>1 DEF Watched, SummaryInv, SummaryTypes
  <2>2. CASE r # Of(t) BY <1>1, <1>2, <2>2 DEF SummaryInv, SummaryTypes, BranchTells
  <2>3. QED BY <2>1, <2>2
<1> QED
  <2>1. \A u \in Threads : Watched(u)' BY <1>2, <1>3, <1>4, <1>6, AllWatched
  <2>2. QED BY <1>8, <1>9, <1>10, <2>1 DEF SummaryInv

\* A question that a thread is about to ask, or that another one has asked, is
\* asked of its own run alone; the other runs' are as they were.
LEMMA MarkTagsStep ==
  ASSUME SummaryGiven, SummaryInv, NEW t \in Threads, S!MarkTags(t) PROVE SummaryInv'
<1>1. Of(t) \in TaskRuns /\ S!Run(t) = Of(t) /\ Of(t)' = Of(t)
  BY HomeGiven DEF SummaryInv, Of, S!Run, S!MarkTags, S!switchVars
<1>2. /\ trigger[t].pc = "tags"
      /\ tagChecked' = tagChecked \union {Of(t)}
      /\ UNCHANGED <<agent, killTags, disabled, past, task, regChecked, branch, cache,
                     begun, replaced, sends, excused>>
  BY <1>1 DEF S!MarkTags, S!At, S!switchVars, S!countVars, S!historyVars
<1>3. PICK pc \in {"gate", "scan"}, asked \in BOOLEAN :
        /\ trigger' = [trigger EXCEPT ![t].pc = pc, ![t].asked = asked]
        /\ pc = "gate" => Of(t) \in tagChecked \/ trigger[t].task = "none"
        /\ asked => trigger[t].asked /\ ~S!Asking(t, "scan")
  <2>1. PICK pc \in {"gate", "scan"} :
          pc = IF Of(t) \in tagChecked \/ trigger[t].task = "none" THEN "gate" ELSE "scan"
    OBVIOUS
  <2>2. PICK asked \in BOOLEAN : asked = (trigger[t].asked /\ ~S!Asking(t, "scan"))
    OBVIOUS
  <2>3. trigger' = [trigger EXCEPT ![t].pc = pc, ![t].asked = asked]
    <3>1. trigger' = [trigger EXCEPT ![t].pc = pc,
                                     ![t].asked = @ /\ ~S!Asking(t, "scan")]
      BY <1>1, <2>1 DEF S!MarkTags
    <3>2. trigger \in [Threads -> Triggers] BY DEF SummaryInv, SummaryTypes
    <3>3. QED BY <2>2, <3>1, <3>2 DEF Triggers
  <2>4. QED BY <2>1, <2>2, <2>3
<1>4. /\ trigger' \in [Threads -> Triggers]
      /\ \A u \in Threads \ {t} : trigger'[u] = trigger[u]
      /\ trigger'[t] = [trigger[t] EXCEPT !.pc = pc, !.asked = asked]
  <2>1. trigger \in [Threads -> Triggers] BY DEF SummaryInv, SummaryTypes
  <2>2. [trigger[t] EXCEPT !.pc = pc, !.asked = asked] \in Triggers
    BY <2>1 DEF Triggers, SStations
  <2>3. QED BY <1>3, <2>1, <2>2
<1>5. /\ trigger'[t].pc = pc /\ trigger'[t].task = trigger[t].task
      /\ trigger'[t].one = trigger[t].one /\ trigger'[t].asked = asked
      /\ trigger'[t].off = trigger[t].off /\ trigger'[t].worse = trigger[t].worse
  BY <1>4 DEF SummaryInv, SummaryTypes, Triggers
<1>6. Watched(t) BY DEF SummaryInv
<1>7. trigger[t].task = "none" => Stopped(Of(t))
  BY <1>6 DEF Watched, Stopped, Pardoned, Misread
<1>8. SwitchesKept
  <2>1. ASSUME NEW r \in TaskRuns
        PROVE  /\ Stopped(r) => Stopped(r)'
               /\ Answered(r, regChecked, "history") => Answered(r, regChecked, "history")'
    BY <1>2, <1>4, <1>5 DEF Stopped, Pardoned, Answered, S!At, Of
  <2>2. ASSUME NEW r \in TaskRuns, Answered(r, tagChecked, "scan"), r \in tagChecked'
        PROVE  (\E u \in Threads : Of(u)' = r /\ S!At(u, "scan")') \/ Stopped(r)'
    <3>1. CASE r \in tagChecked
      BY <1>2, <1>4, <2>1, <2>2, <3>1 DEF Answered, S!At, Of
    <3>2. CASE r \notin tagChecked
      <4>1. r = Of(t) BY <1>2, <2>2, <3>2
      <4>2. CASE pc = "scan" BY <1>1, <1>5, <4>1, <4>2 DEF S!At
      <4>3. CASE pc = "gate" BY <1>3, <1>7, <2>1, <3>2, <4>1, <4>3
      <4>4. QED BY <4>2, <4>3
    <3>3. QED BY <3>1, <3>2
  <2>3. ASSUME NEW r \in TaskRuns, Answered(r, tagChecked, "scan")
        PROVE  Answered(r, tagChecked, "scan")'
    BY <2>2, <2>3 DEF Answered
  <2>4. QED BY <1>2, <2>1, <2>3 DEF SwitchesKept
<1>9. pc = "gate" /\ asked => Stopped(Of(t))
  <2>1. SUFFICES ASSUME pc = "gate", asked, Of(t) \in tagChecked PROVE Stopped(Of(t))
    BY <1>3, <1>7
  <2>2. Answered(Of(t), tagChecked, "scan") BY <1>2, <1>3, <1>6, <2>1 DEF Watched, Asks
  <2>3. ~\E u \in Threads : Of(u) = Of(t) /\ S!At(u, "scan")
    BY <1>2, <1>3, <2>1 DEF S!Asking, S!At, S!Run, Of
  <2>4. QED BY <2>1, <2>2, <2>3 DEF Answered
<1>10. Watched(t)'
  BY <1>2, <1>3, <1>5, <1>6, <1>8, <1>9, OwnRunKept DEF Watched, Asks, Looks, Rewrites
<1> QED
  <2>1. SummaryTypes' BY <1>2, <1>4 DEF SummaryInv, SummaryTypes
  <2>2. SummaryOnce' BY <1>2, <1>4, <1>5, OnceKept
  <2>3. BranchTells' BY <1>2, TellsKept
  <2>4. \A u \in Threads : Watched(u)' BY <1>2, <1>4, <1>8, <1>10, AllWatched
  <2>5. QED BY <2>1, <2>2, <2>3, <2>4 DEF SummaryInv

LEMMA ScanTagsStep ==
  ASSUME SummaryGiven, SummaryInv, NEW t \in Threads, S!ScanTags(t) PROVE SummaryInv'
<1>1. Of(t) \in TaskRuns /\ S!Run(t) = Of(t) /\ Of(t)' = Of(t)
  BY HomeGiven DEF SummaryInv, Of, S!Run, S!ScanTags
<1>2. /\ trigger[t].pc = "scan" /\ S!Goto(t, "gate")
      /\ UNCHANGED <<agent, killTags, past, task, tagChecked, regChecked, branch, cache,
                     begun, replaced, sends>>
      /\ excused \subseteq excused' /\ disabled' \in BOOLEAN
      /\ disabled => disabled'
      /\ Of(t) \in killTags => Stopped(Of(t))'
  <2>1. CASE disabled' = (disabled \/ Of(t) \in killTags) /\ UNCHANGED excused
    BY <1>1, <2>1 DEF S!ScanTags, S!At, S!memos, S!countVars, Stopped
  <2>2. CASE S!Excuse(t, "unscanned") /\ UNCHANGED disabled
    BY <1>1, <2>2
    DEF S!ScanTags, S!At, S!memos, S!countVars, Stopped, Pardoned, S!Excuse, SummaryInv,
        SummaryTypes
  <2>3. QED BY <1>1, <2>1, <2>2 DEF S!ScanTags
<1>3. /\ trigger' \in [Threads -> Triggers] /\ trigger'[t].pc = "gate"
      /\ \A u \in Threads \ {t} : trigger'[u] = trigger[u]
      /\ trigger'[t].task = trigger[t].task /\ trigger'[t].one = trigger[t].one
      /\ trigger'[t].todo = trigger[t].todo /\ trigger'[t].asked = trigger[t].asked
      /\ trigger'[t].off = trigger[t].off /\ trigger'[t].worse = trigger[t].worse
  BY <1>2, ThreadGoes DEF SStations
<1>4. SwitchesKept
  <2>1. ASSUME NEW r \in TaskRuns
        PROVE  /\ Stopped(r) => Stopped(r)'
               /\ Answered(r, regChecked, "history") => Answered(r, regChecked, "history")'
    BY <1>2, <1>3 DEF Stopped, Pardoned, Answered, S!At, Of
  <2>2. ASSUME NEW r \in TaskRuns, r \in killTags, Answered(r, tagChecked, "scan"),
               r \in tagChecked
        PROVE  (\E u \in Threads : Of(u)' = r /\ S!At(u, "scan")') \/ Stopped(r)'
    <3>1. CASE Stopped(r) BY <2>1, <3>1
    <3>2. CASE \E u \in Threads : Of(u) = r /\ S!At(u, "scan")
      <4>1. PICK u \in Threads : Of(u) = r /\ S!At(u, "scan") BY <3>2
      <4>2. CASE u = t BY <1>1, <1>2, <2>2, <4>1, <4>2 DEF Stopped, Pardoned
      <4>3. CASE u # t BY <1>2, <1>3, <4>1, <4>3 DEF S!At, Of
      <4>4. QED BY <4>2, <4>3
    <3>3. QED BY <2>2, <3>1, <3>2 DEF Answered
  <2>3. ASSUME NEW r \in TaskRuns, r \in killTags, Answered(r, tagChecked, "scan")
        PROVE  Answered(r, tagChecked, "scan")'
    BY <1>2, <2>2, <2>3 DEF Answered
  <2>4. QED BY <1>2, <2>1, <2>3 DEF SwitchesKept
<1>5. Watched(t) BY DEF SummaryInv
<1>6. Watched(t)'
  BY <1>1, <1>2, <1>3, <1>4, <1>5, OwnRunKept DEF Watched, Asks, Looks, Rewrites
<1> QED
  <2>1. SummaryTypes' BY <1>2, <1>3 DEF SummaryInv, SummaryTypes
  <2>2. SummaryOnce' BY <1>2, <1>3, OnceKept
  <2>3. BranchTells' BY <1>2, TellsKept
  <2>4. \A u \in Threads : Watched(u)' BY <1>2, <1>3, <1>4, <1>6, AllWatched
  <2>5. QED BY <2>1, <2>2, <2>3, <2>4 DEF SummaryInv

\* A call is let through as it is: only what it sends is noted.
LEMMA SentRaw ==
  ASSUME SummaryGiven, SummaryInv, NEW t \in Threads, S!SendRaw(t),
         UNCHANGED <<agent, killTags, disabled, past, task, tagChecked, regChecked, branch,
                     cache, begun, replaced, excused>>,
         trigger[t].pc \notin {"scan", "history"}
  PROVE  SummaryInv'
<1>1. /\ trigger' \in [Threads -> Triggers]
      /\ \A u \in Threads \ {t} : trigger'[u] = trigger[u]
      /\ trigger'[t].pc = "idle"
      /\ Watched(t)'
  BY CallEnds DEF S!SendRaw
<1>2. SwitchesKept BY <1>1, NothingAsked
<1>3. Of(t) \in TaskRuns /\ S!Run(t) = Of(t) BY HomeGiven DEF SummaryInv, Of, S!Run
<1>4. SummaryTypes' BY <1>1, <1>3 DEF SummaryInv, SummaryTypes, S!SendRaw
<1>5. SummaryOnce' BY <1>1, OnceKept
<1>6. \A r \in TaskRuns : "summary" \in sends'[r] => "summary" \in sends[r]
  BY <1>3 DEF SummaryInv, SummaryTypes, S!SendRaw
<1>7. BranchTells' BY <1>6, TellsKept
<1>8. \A u \in Threads : Watched(u)' BY <1>1, <1>2, AllWatched
<1> QED BY <1>4, <1>5, <1>7, <1>8 DEF SummaryInv

LEMMA GateStep ==
  ASSUME SummaryGiven, SummaryInv, NEW t \in Threads, S!Gate(t) PROVE SummaryInv'
<1>1. /\ trigger[t].pc = "gate"
      /\ UNCHANGED <<agent, killTags, disabled, past, task, tagChecked, regChecked, branch,
                     cache, begun, replaced, excused>>
  BY DEF S!Gate, S!At, S!switchVars, S!memos, S!countVars
<1>2. CASE S!Off(t)
  BY <1>1, <1>2, SentRaw DEF S!Gate
<1>3. CASE ~S!Off(t)
  <2>1. PICK pc \in {"mark", "next"} :
          /\ S!Goto(t, pc) /\ UNCHANGED sends
          /\ pc = "mark" => agent.abMode /\ trigger[t].task = "task"
          /\ pc = "next" => ~agent.abMode \/ trigger[t].task # "task"
    BY <1>3 DEF S!Gate
  <2>2. /\ trigger' \in [Threads -> Triggers] /\ trigger'[t].pc = pc
        /\ \A u \in Threads \ {t} : trigger'[u] = trigger[u]
        /\ trigger'[t].task = trigger[t].task /\ trigger'[t].one = trigger[t].one
        /\ trigger'[t].todo = trigger[t].todo /\ trigger'[t].asked = trigger[t].asked
        /\ trigger'[t].off = trigger[t].off /\ trigger'[t].worse = trigger[t].worse
    BY <2>1, ThreadGoes DEF SStations
  <2>3. SwitchesKept BY <1>1, <2>2, NothingAsked
  <2>4. Watched(t) BY DEF SummaryInv
  <2>5. trigger[t].task \in {None, "task", "none"}
    BY DEF SummaryInv, SummaryTypes, Triggers
  <2>6. /\ trigger[t].task # "task" => Misread(Of(t)) /\ Pardoned(Of(t))
        /\ trigger[t].task = "task" => ~disabled
        /\ Stopped(Of(t)) /\ ~disabled => Pardoned(Of(t))
    BY <1>1, <1>3, <2>4, <2>5 DEF Watched, S!Off, Misread, Pardoned, Stopped
  <2>7. Watched(t)'
    BY <1>1, <2>1, <2>2, <2>3, <2>4, <2>5, <2>6, OwnRunKept DEF Watched, Asks, Looks, Rewrites
  <2>8. SummaryTypes' BY <1>1, <2>1, <2>2 DEF SummaryInv, SummaryTypes
  <2>9. SummaryOnce' BY <1>1, <2>2, OnceKept
  <2>10. BranchTells' BY <1>1, <2>1, TellsKept
  <2>11. \A u \in Threads : Watched(u)' BY <1>1, <2>2, <2>3, <2>7, AllWatched
  <2>12. QED BY <2>8, <2>9, <2>10, <2>11 DEF SummaryInv
<1> QED BY <1>2, <1>3

LEMMA MarkRegressionStep ==
  ASSUME SummaryGiven, SummaryInv, NEW t \in Threads, S!MarkRegression(t) PROVE SummaryInv'
<1>1. Of(t) \in TaskRuns /\ S!Run(t) = Of(t) /\ Of(t)' = Of(t)
  BY HomeGiven DEF SummaryInv, Of, S!Run, S!MarkRegression, S!switchVars
<1>2. /\ trigger[t].pc = "mark"
      /\ regChecked' = regChecked \union {Of(t)}
      /\ UNCHANGED <<agent, killTags, disabled, past, task, tagChecked, branch, cache,
                     begun, replaced, sends, excused>>
  BY <1>1 DEF S!MarkRegression, S!At, S!switchVars, S!countVars, S!historyVars
<1>3. PICK pc \in {"assign", "history"}, worse \in BOOLEAN :
        /\ trigger' = [trigger EXCEPT ![t].pc = pc, ![t].worse = worse]
        /\ pc = "assign" => Of(t) \in regChecked
        /\ worse => trigger[t].worse /\ ~S!Asking(t, "history")
  <2>1. PICK pc \in {"assign", "history"} :
          pc = IF Of(t) \in regChecked THEN "assign" ELSE "history"
    OBVIOUS
  <2>2. PICK worse \in BOOLEAN : worse = (trigger[t].worse /\ ~S!Asking(t, "history"))
    OBVIOUS
  <2>3. trigger' = [trigger EXCEPT ![t].pc = pc, ![t].worse = worse]
    <3>1. trigger' = [trigger EXCEPT ![t].pc = pc,
                                     ![t].worse = @ /\ ~S!Asking(t, "history")]
      BY <1>1, <2>1 DEF S!MarkRegression
    <3>2. trigger \in [Threads -> Triggers] BY DEF SummaryInv, SummaryTypes
    <3>3. QED BY <2>2, <3>1, <3>2 DEF Triggers
  <2>4. QED BY <2>1, <2>2, <2>3
<1>4. /\ trigger' \in [Threads -> Triggers]
      /\ \A u \in Threads \ {t} : trigger'[u] = trigger[u]
      /\ trigger'[t] = [trigger[t] EXCEPT !.pc = pc, !.worse = worse]
  <2>1. trigger \in [Threads -> Triggers] BY DEF SummaryInv, SummaryTypes
  <2>2. [trigger[t] EXCEPT !.pc = pc, !.worse = worse] \in Triggers
    BY <2>1 DEF Triggers, SStations
  <2>3. QED BY <1>3, <2>1, <2>2
<1>5. /\ trigger'[t].pc = pc /\ trigger'[t].task = trigger[t].task
      /\ trigger'[t].one = trigger[t].one /\ trigger'[t].asked = trigger[t].asked
      /\ trigger'[t].off = trigger[t].off /\ trigger'[t].worse = worse
  BY <1>4 DEF SummaryInv, SummaryTypes, Triggers
<1>6. Watched(t) BY DEF SummaryInv
<1>8. SwitchesKept
  <2>1. ASSUME NEW r \in TaskRuns
        PROVE  /\ Stopped(r) => Stopped(r)'
               /\ Answered(r, tagChecked, "scan") => Answered(r, tagChecked, "scan")'
    BY <1>2, <1>4, <1>5 DEF Stopped, Pardoned, Answered, S!At, Of
  <2>2. ASSUME NEW r \in TaskRuns, Answered(r, regChecked, "history"), r \in regChecked'
        PROVE  (\E u \in Threads : Of(u)' = r /\ S!At(u, "history")') \/ Stopped(r)'
    <3>1. CASE r \in regChecked
      BY <1>2, <1>4, <2>1, <2>2, <3>1 DEF Answered, S!At, Of
    <3>2. CASE r \notin regChecked
      <4>1. r = Of(t) BY <1>2, <2>2, <3>2
      <4>2. CASE pc = "history" BY <1>1, <1>5, <4>1, <4>2 DEF S!At
      <4>3. CASE pc = "assign" BY <1>3, <3>2, <4>1, <4>3
      <4>4. QED BY <4>2, <4>3
    <3>3. QED BY <3>1, <3>2
  <2>3. ASSUME NEW r \in TaskRuns, Answered(r, regChecked, "history")
        PROVE  Answered(r, regChecked, "history")'
    BY <2>2, <2>3 DEF Answered
  <2>4. QED BY <1>2, <2>1, <2>3 DEF SwitchesKept
<1>9. pc = "assign" /\ worse => Stopped(Of(t))
  <2>1. SUFFICES ASSUME pc = "assign", worse, Of(t) \in regChecked PROVE Stopped(Of(t))
    BY <1>3
  <2>2. Answered(Of(t), regChecked, "history") BY <1>2, <1>3, <1>6, <2>1 DEF Watched, Looks, Asks
  <2>3. ~\E u \in Threads : Of(u) = Of(t) /\ S!At(u, "history")
    BY <1>2, <1>3, <2>1 DEF S!Asking, S!At, S!Run, Of
  <2>4. QED BY <2>1, <2>2, <2>3 DEF Answered
<1>10. Watched(t)'
  BY <1>2, <1>3, <1>5, <1>6, <1>8, <1>9, OwnRunKept DEF Watched, Asks, Looks, Rewrites
<1> QED
  <2>1. SummaryTypes' BY <1>2, <1>4 DEF SummaryInv, SummaryTypes
  <2>2. SummaryOnce' BY <1>2, <1>4, <1>5, OnceKept
  <2>3. BranchTells' BY <1>2, TellsKept
  <2>4. \A u \in Threads : Watched(u)' BY <1>2, <1>4, <1>8, <1>10, AllWatched
  <2>5. QED BY <2>1, <2>2, <2>3, <2>4 DEF SummaryInv

LEMMA CheckRegressionStep ==
  ASSUME SummaryGiven, SummaryInv, NEW t \in Threads, S!CheckRegression(t) PROVE SummaryInv'
<1>1. Of(t) \in TaskRuns /\ S!Run(t) = Of(t) /\ Of(t)' = Of(t)
  BY HomeGiven DEF SummaryInv, Of, S!Run, S!CheckRegression
<1>2. /\ trigger[t].pc = "history" /\ S!Goto(t, "assign")
      /\ UNCHANGED <<agent, killTags, past, task, regChecked, tagChecked, branch, cache,
                     begun, replaced, sends>>
      /\ excused \subseteq excused' /\ disabled' \in BOOLEAN
      /\ disabled => disabled'
      /\ S!DropTooLarge(past) => Stopped(Of(t))'
  <2>1. CASE disabled' = (disabled \/ S!DropTooLarge(past)) /\ UNCHANGED excused
    BY <1>1, <2>1 DEF S!CheckRegression, S!At, S!memos, S!countVars, Stopped
  <2>2. CASE S!Excuse(t, "unread") /\ UNCHANGED disabled
    BY <1>1, <2>2
    DEF S!CheckRegression, S!At, S!memos, S!countVars, Stopped, Pardoned, S!Excuse, SummaryInv,
        SummaryTypes
  <2>3. QED BY <1>1, <2>1, <2>2 DEF S!CheckRegression
<1>3. /\ trigger' \in [Threads -> Triggers] /\ trigger'[t].pc = "assign"
      /\ \A u \in Threads \ {t} : trigger'[u] = trigger[u]
      /\ trigger'[t].task = trigger[t].task /\ trigger'[t].one = trigger[t].one
      /\ trigger'[t].todo = trigger[t].todo /\ trigger'[t].asked = trigger[t].asked
      /\ trigger'[t].off = trigger[t].off /\ trigger'[t].worse = trigger[t].worse
  BY <1>2, ThreadGoes DEF SStations
<1>4. SwitchesKept
  <2>1. ASSUME NEW r \in TaskRuns
        PROVE  /\ Stopped(r) => Stopped(r)'
               /\ Answered(r, tagChecked, "scan") => Answered(r, tagChecked, "scan")'
    BY <1>2, <1>3 DEF Stopped, Pardoned, Answered, S!At, Of
  <2>2. ASSUME NEW r \in TaskRuns, S!DropTooLarge(past), Answered(r, regChecked, "history"),
               r \in regChecked
        PROVE  (\E u \in Threads : Of(u)' = r /\ S!At(u, "history")') \/ Stopped(r)'
    <3>1. CASE Stopped(r) BY <2>1, <3>1
    <3>2. CASE \E u \in Threads : Of(u) = r /\ S!At(u, "history")
      <4>1. PICK u \in Threads : Of(u) = r /\ S!At(u, "history") BY <3>2
      <4>2. CASE u = t BY <1>1, <1>2, <2>2, <4>1, <4>2 DEF Stopped, Pardoned
      <4>3. CASE u # t BY <1>2, <1>3, <4>1, <4>3 DEF S!At, Of
      <4>4. QED BY <4>2, <4>3
    <3>3. QED BY <2>2, <3>1, <3>2 DEF Answered
  <2>3. ASSUME NEW r \in TaskRuns, S!DropTooLarge(past), Answered(r, regChecked, "history")
        PROVE  Answered(r, regChecked, "history")'
    BY <1>2, <2>2, <2>3 DEF Answered
  <2>4. QED BY <1>2, <2>1, <2>3 DEF SwitchesKept
<1>5. Watched(t) BY DEF SummaryInv
<1>6. Watched(t)'
  BY <1>1, <1>2, <1>3, <1>4, <1>5, OwnRunKept DEF Watched, Asks, Looks, Rewrites
<1> QED
  <2>1. SummaryTypes' BY <1>2, <1>3 DEF SummaryInv, SummaryTypes
  <2>2. SummaryOnce' BY <1>2, <1>3, OnceKept
  <2>3. BranchTells' BY <1>2, TellsKept
  <2>4. \A u \in Threads : Watched(u)' BY <1>2, <1>3, <1>4, <1>6, AllWatched
  <2>5. QED BY <2>1, <2>2, <2>3, <2>4 DEF SummaryInv

\* What a run's branch is, once it has one, it stays.
LEMMA AssignBranchStep ==
  ASSUME SummaryGiven, SummaryInv, NEW t \in Threads, NEW b \in {"control", "treatment"},
         S!AssignBranch(t, b)
  PROVE  SummaryInv'
<1>1. Of(t) \in TaskRuns /\ S!Run(t) = Of(t) BY HomeGiven DEF SummaryInv, Of, S!Run
<1>2. /\ trigger[t].pc = "assign"
      /\ UNCHANGED <<agent, killTags, disabled, past, task, tagChecked, regChecked, cache,
                     begun, replaced, excused>>
  BY DEF S!AssignBranch, S!At, S!switchVars, S!countVars
<1>3. CASE S!Off(t)
  BY <1>2, <1>3, SentRaw DEF S!AssignBranch
<1>4. CASE ~S!Off(t)
  <2>1. /\ branch[Of(t)] # None => b = branch[Of(t)]
        /\ branch' = [branch EXCEPT ![Of(t)] = b]
        /\ b = "control" => S!SendRaw(t)
        /\ b = "treatment" => S!Goto(t, "next") /\ UNCHANGED sends
    BY <1>1, <1>4 DEF S!AssignBranch
  <2>2. PICK r \in TaskRuns : r = Of(t) BY <1>1
  <2>3. branch \in [TaskRuns -> {None, "control", "treatment"}] BY DEF SummaryInv, SummaryTypes
  <2>4. /\ branch' \in [TaskRuns -> {None, "control", "treatment"}] /\ branch'[r] = b
        /\ \A q \in TaskRuns : q # r => branch'[q] = branch[q]
        /\ \A q \in TaskRuns : branch[q] # None => branch'[q] = branch[q]
    BY <2>1, <2>2, <2>3
  <2>5. None # "treatment" /\ None # "none" /\ None # "task"
    BY DEF SummaryGiven, S!NoneAssumption
  <2>6. Watched(t) BY DEF SummaryInv
  <2>7. agent.abMode /\ trigger[t].task = "task" /\ ~disabled
    BY <1>2, <1>4, <2>6 DEF Watched, S!Off
  <2>8. /\ trigger' \in [Threads -> Triggers] /\ trigger'[t].pc \in {"idle", "next"}
        /\ \A u \in Threads \ {t} : trigger'[u] = trigger[u]
    <3>1. CASE b = "control" BY <2>1, <3>1, CallEnds DEF S!SendRaw
    <3>2. CASE b = "treatment" BY <2>1, <3>2, ThreadGoes DEF SStations
    <3>3. QED BY <3>1, <3>2
  <2>9. SwitchesKept
    <3>1. ASSUME NEW q \in TaskRuns
          PROVE  /\ Stopped(q) => Stopped(q)'
                 /\ Answered(q, tagChecked, "scan") => Answered(q, tagChecked, "scan")'
                 /\ Answered(q, regChecked, "history") => Answered(q, regChecked, "history")'
      BY <1>2, <2>8 DEF Stopped, Pardoned, Answered, S!At, Of
    <3>2. QED BY <1>2, <2>4, <2>5, <3>1 DEF SwitchesKept
  <2>10. Watched(t)'
    <3>1. CASE b = "control" BY <2>1, <3>1, CallEnds DEF S!SendRaw
    <3>2. CASE b = "treatment"
      <4>1. /\ trigger'[t].pc = "next"
            /\ trigger'[t].task = trigger[t].task /\ trigger'[t].one = trigger[t].one
            /\ trigger'[t].asked = trigger[t].asked
            /\ trigger'[t].off = trigger[t].off /\ trigger'[t].worse = trigger[t].worse
        BY <2>1, <3>2, ThreadGoes DEF SStations
      <4>2. Stopped(Of(t)) => Pardoned(Of(t)) BY <2>7 DEF Stopped
      <4>3. branch'[Of(t)'] = "treatment" BY <2>2, <2>4, <2>9, <3>2, OwnRunKept, <1>2
      <4>4. QED
        BY <1>2, <2>5, <2>6, <2>7, <2>9, <4>1, <4>2, <4>3, OwnRunKept
        DEF Watched, Asks, Looks, Rewrites
    <3>3. QED BY <3>1, <3>2
  <2>11. sends' \in [TaskRuns -> SUBSET {"raw", "summary"}]
         /\ \A q \in TaskRuns : "summary" \in sends'[q] => "summary" \in sends[q]
    <3>1. sends \in [TaskRuns -> SUBSET {"raw", "summary"}] BY DEF SummaryInv, SummaryTypes
    <3>2. CASE b = "control" BY <1>1, <2>1, <3>1, <3>2 DEF S!SendRaw
    <3>3. CASE b = "treatment" BY <2>1, <3>1, <3>3
    <3>4. QED BY <3>2, <3>3
  <2>12. SummaryTypes' BY <1>2, <2>4, <2>8, <2>11 DEF SummaryInv, SummaryTypes
  <2>13. SummaryOnce' BY <1>2, <2>8, OnceKept
  <2>14. BranchTells'
    <3> SUFFICES ASSUME NEW q \in TaskRuns
                 PROVE  /\ task[q] = "none" => Misread(q)
                        /\ "summary" \in sends[q] => branch'[q] = "treatment" \/ Misread(q)
      BY <1>2, <2>7, <2>11 DEF BranchTells, Misread
    <3>1. /\ task[q] = "none" => Misread(q)
          /\ "summary" \in sends[q] => branch[q] = "treatment" \/ Misread(q)
      BY <2>7 DEF SummaryInv, BranchTells
    <3>2. QED BY <2>4, <2>5, <3>1
  <2>15. \A u \in Threads : Watched(u)' BY <1>2, <2>8, <2>9, <2>10, AllWatched
  <2>16. QED BY <2>12, <2>13, <2>14, <2>15 DEF SummaryInv
<1> QED BY <1>3, <1>4

LEMMA SendSummariesStep ==
  ASSUME SummaryGiven, SummaryInv, NEW t \in Threads, S!SendSummaries(t) PROVE SummaryInv'
<1>1. Of(t) \in TaskRuns /\ S!Run(t) = Of(t) BY HomeGiven DEF SummaryInv, Of, S!Run
<1>2. /\ trigger[t].pc = "next" /\ trigger' = [trigger EXCEPT ![t] = S!Idle]
      /\ sends' = [sends EXCEPT ![Of(t)] = @ \union {"summary"}]
      /\ UNCHANGED <<agent, killTags, disabled, past, task, tagChecked, regChecked, branch,
                     cache, begun, replaced, excused>>
  BY <1>1 DEF S!SendSummaries, S!At, S!switchVars, S!memos, S!countVars
<1>3. /\ trigger' \in [Threads -> Triggers]
      /\ \A u \in Threads \ {t} : trigger'[u] = trigger[u]
      /\ trigger'[t].pc = "idle"
      /\ Watched(t)'
  BY <1>2, CallEnds
<1>4. SwitchesKept BY <1>2, <1>3, NothingAsked
<1>5. SummaryTypes' BY <1>1, <1>2, <1>3 DEF SummaryInv, SummaryTypes
<1>6. SummaryOnce' BY <1>2, <1>3, OnceKept
<1>7. BranchTells'
  <2>1. Watched(t) BY DEF SummaryInv
  <2>2. agent.abMode => branch[Of(t)] = "treatment" \/ Misread(Of(t))
    BY <1>2, <2>1 DEF Watched, Rewrites
  <2>3. ASSUME NEW q \in TaskRuns, agent.abMode, "summary" \in sends'[q]
        PROVE  branch[q] = "treatment" \/ Misread(q)
    BY <1>1, <1>2, <2>2, <2>3 DEF SummaryInv, SummaryTypes, BranchTells
  <2>4. QED BY <1>2, <2>3 DEF SummaryInv, BranchTells, Misread
<1>8. \A u \in Threads : Watched(u)' BY <1>2, <1>3, <1>4, AllWatched
<1> QED BY <1>5, <1>6, <1>7, <1>8 DEF SummaryInv

LEMMA ReplaceStep ==
  ASSUME SummaryGiven, SummaryInv, NEW t \in Threads, NEW x \in Results, S!Replace(t, x)
  PROVE  SummaryInv'
<1>1. /\ trigger[t].pc = "next"
      /\ UNCHANGED <<agent, killTags, disabled, past, task, tagChecked, regChecked, branch,
                     cache, begun, replaced, sends>>
  BY DEF S!Replace, S!At, S!switchVars, S!memos, S!countVars
<1>2. trigger \in [Threads -> Triggers] BY DEF SummaryInv, SummaryTypes
<1>3. x # None BY DEF SummaryGiven, S!NoneAssumption
<1>4. PICK o \in Triggers :
        /\ trigger' = [trigger EXCEPT ![t] = o]
        /\ o.task = trigger[t].task /\ o.asked = trigger[t].asked
        /\ o.off = trigger[t].off /\ o.worse = trigger[t].worse
        /\ \/ o.pc = "next" /\ o.one = trigger[t].one /\ UNCHANGED excused
           \/ /\ o.pc = "model" /\ o.one = x /\ x \notin cache
              /\ excused \subseteq excused'
              /\ \A u \in Threads : S!At(u, "model") /\ trigger[u].one = x => Raced(x)'
  <2>1. CASE x \in cache
    <3> DEFINE o == [trigger[t] EXCEPT !.todo = @ \ {x}]
    <3>1. o \in Triggers BY <1>2 DEF Triggers
    <3>2. trigger' = [trigger EXCEPT ![t] = o] /\ UNCHANGED excused
      BY <1>2, <2>1 DEF S!Replace
    <3>3. /\ o.pc = trigger[t].pc /\ o.one = trigger[t].one
          /\ o.task = trigger[t].task /\ o.asked = trigger[t].asked
          /\ o.off = trigger[t].off /\ o.worse = trigger[t].worse
      BY <1>2 DEF Triggers
    <3> HIDE DEF o
    <3>4. QED BY <1>1, <3>1, <3>2, <3>3
  <2>2. CASE x \notin cache
    <3> DEFINE o == [trigger[t] EXCEPT !.pc = "model", !.one = x]
    <3>1. o \in Triggers BY <1>2 DEF Triggers, SStations
    <3>2. trigger' = [trigger EXCEPT ![t] = o]
      BY <1>2, <2>2 DEF S!Replace
    <3>3. /\ o.pc = "model" /\ o.one = x
          /\ o.task = trigger[t].task /\ o.asked = trigger[t].asked
          /\ o.off = trigger[t].off /\ o.worse = trigger[t].worse
      BY <1>2 DEF Triggers
    <3>4. /\ excused \subseteq excused'
          /\ \A u \in Threads : S!At(u, "model") /\ trigger[u].one = x => Raced(x)'
      BY <2>2 DEF S!Replace, Raced
    <3> HIDE DEF o
    <3>5. QED BY <2>2, <3>1, <3>2, <3>3, <3>4
  <2>3. QED BY <2>1, <2>2
<1>5. /\ trigger' \in [Threads -> Triggers] /\ trigger'[t] = o
      /\ \A u \in Threads \ {t} : trigger'[u] = trigger[u]
  BY <1>2, <1>4
<1>6. excused \subseteq excused' BY <1>4
<1>7. SwitchesKept BY <1>1, <1>4, <1>5, <1>6, NothingAsked
<1>8. Watched(t) BY DEF SummaryInv
<1>9. Watched(t)'
  BY <1>1, <1>3, <1>4, <1>5, <1>7, <1>8, OwnRunKept DEF Watched, Asks, Looks, Rewrites
<1>10. SummaryOnce'
  <2>1. CASE o.pc = "next" BY <1>1, <1>4, <1>5, <1>6, <2>1, OnceKept
  <2>2. CASE o.pc = "model"
    <3> SUFFICES ASSUME NEW y \in Results
                 PROVE  /\ replaced[y] > 0 => y \in cache
                        /\ replaced[y] > 1 => Raced(y)'
                        /\ \A u \in Threads :
                             trigger'[u].pc = "model" /\ trigger'[u].one = y =>
                               /\ replaced[y] > 0 => Raced(y)'
                               /\ \A v \in Threads \ {u} :
                                    trigger'[v].pc = "model" /\ trigger'[v].one = y
                                      => Raced(y)'
      BY <1>1 DEF SummaryOnce, S!At
    <3>1. /\ replaced[y] > 0 => y \in cache
          /\ replaced[y] > 1 => Raced(y)
          /\ \A u \in Threads :
               trigger[u].pc = "model" /\ trigger[u].one = y =>
                 /\ replaced[y] > 0 => Raced(y)
                 /\ \A v \in Threads \ {u} :
                      trigger[v].pc = "model" /\ trigger[v].one = y => Raced(y)
      BY DEF SummaryInv, SummaryOnce, S!At
    <3>2. Raced(y) => Raced(y)' BY <1>6 DEF Raced
    <3>3. CASE y # x BY <1>4, <1>5, <2>2, <3>1, <3>2, <3>3
    <3>4. CASE y = x
      <4>1. o.one = x /\ x \notin cache BY <1>4, <2>2
      <4>2. \A u \in Threads : trigger[u].pc = "model" /\ trigger[u].one = y => Raced(y)'
        BY <1>4, <2>2, <3>4 DEF S!At
      <4>3. ~(replaced[y] > 0) BY <3>1, <3>4, <4>1
      <4>4. QED BY <1>5, <3>1, <3>2, <3>4, <4>1, <4>2, <4>3
    <3>5. QED BY <3>3, <3>4
  <2>3. QED BY <1>4, <2>1, <2>2
<1> QED
  <2>1. SummaryTypes' BY <1>1, <1>5 DEF SummaryInv, SummaryTypes
  <2>2. BranchTells' BY <1>1, <1>6, TellsKept
  <2>3. \A u \in Threads : Watched(u)' BY <1>1, <1>5, <1>7, <1>9, AllWatched
  <2>4. QED BY <1>10, <2>1, <2>2, <2>3 DEF SummaryInv

LEMMA HelperAnswersStep ==
  ASSUME SummaryGiven, SummaryInv, NEW t \in Threads, S!HelperAnswers(t) PROVE SummaryInv'
<1>1. /\ trigger[t].pc = "model"
      /\ cache' = cache \union {trigger[t].one}
      /\ replaced' = [replaced EXCEPT ![trigger[t].one] = @ + 1]
      /\ UNCHANGED <<agent, killTags, disabled, past, task, tagChecked, regChecked, branch,
                     begun, sends, excused>>
  BY DEF S!HelperAnswers, S!At, S!switchVars, S!historyVars
<1>2. trigger \in [Threads -> Triggers] BY DEF SummaryInv, SummaryTypes
<1>3. Watched(t) BY DEF SummaryInv
<1>4. PICK x \in Results : x = trigger[t].one BY <1>1, <1>2, <1>3 DEF Watched, Triggers
<1>5. PICK o \in Triggers :
        /\ trigger' = [trigger EXCEPT ![t] = o]
        /\ o.pc = "next" /\ o.one = None
        /\ o.task = trigger[t].task /\ o.asked = trigger[t].asked
        /\ o.off = trigger[t].off /\ o.worse = trigger[t].worse
  <2> DEFINE o == [trigger[t] EXCEPT !.pc = "next", !.todo = @ \ {x}, !.one = None]
  <2>1. o \in Triggers BY <1>2 DEF Triggers, SStations
  <2>2. trigger' = [trigger EXCEPT ![t] = o]
    <3>1. trigger' = [trigger EXCEPT ![t].pc = "next", ![t].todo = @ \ {x}, ![t].one = None]
      BY <1>4 DEF S!HelperAnswers
    <3>2. QED BY <1>2, <3>1
  <2>3. /\ o.pc = "next" /\ o.one = None
        /\ o.task = trigger[t].task /\ o.asked = trigger[t].asked
        /\ o.off = trigger[t].off /\ o.worse = trigger[t].worse
    BY <1>2 DEF Triggers
  <2> HIDE DEF o
  <2>4. QED BY <2>1, <2>2, <2>3
<1>6. /\ trigger' \in [Threads -> Triggers] /\ trigger'[t] = o
      /\ \A u \in Threads \ {t} : trigger'[u] = trigger[u]
  BY <1>2, <1>5
<1>7. SwitchesKept BY <1>1, <1>5, <1>6, NothingAsked
<1>8. Watched(t)'
  BY <1>1, <1>3, <1>5, <1>6, <1>7, OwnRunKept DEF Watched, Asks, Looks, Rewrites
<1>9. replaced \in [Results -> Nat] BY DEF SummaryInv, SummaryTypes
<1>10. replaced' \in [Results -> Nat] /\ replaced'[x] = replaced[x] + 1
       /\ \A y \in Results : y # x => replaced'[y] = replaced[y]
  BY <1>1, <1>4, <1>9
<1>11. SummaryOnce'
  <2> SUFFICES ASSUME NEW y \in Results
               PROVE  /\ replaced'[y] > 0 => y \in cache'
                      /\ replaced'[y] > 1 => Raced(y)
                      /\ \A u \in Threads :
                           trigger'[u].pc = "model" /\ trigger'[u].one = y =>
                             /\ replaced'[y] > 0 => Raced(y)
                             /\ \A v \in Threads \ {u} :
                                  trigger'[v].pc = "model" /\ trigger'[v].one = y => Raced(y)
    BY <1>1 DEF SummaryOnce, S!At, Raced
  <2>1. /\ replaced[y] > 0 => y \in cache
        /\ replaced[y] > 1 => Raced(y)
        /\ \A u \in Threads :
             trigger[u].pc = "model" /\ trigger[u].one = y =>
               /\ replaced[y] > 0 => Raced(y)
               /\ \A v \in Threads \ {u} :
                    trigger[v].pc = "model" /\ trigger[v].one = y => Raced(y)
    BY DEF SummaryInv, SummaryOnce, S!At
  <2>2. CASE y # x BY <1>1, <1>4, <1>5, <1>6, <1>10, <2>1, <2>2
  <2>3. CASE y = x
    <3>1. y \in cache' BY <1>1, <1>4, <2>3
    <3>2. replaced'[y] > 1 => Raced(y) BY <1>1, <1>4, <1>9, <1>10, <2>1, <2>3
    <3>3. \A u \in Threads : trigger'[u].pc = "model" /\ trigger'[u].one = y => Raced(y)
      BY <1>1, <1>4, <1>5, <1>6, <2>1, <2>3
    <3>4. QED BY <3>1, <3>2, <3>3
  <2>4. QED BY <2>2, <2>3
<1> QED
  <2>1. SummaryTypes' BY <1>1, <1>4, <1>6, <1>10 DEF SummaryInv, SummaryTypes
  <2>2. BranchTells' BY <1>1, TellsKept
  <2>3. \A u \in Threads : Watched(u)' BY <1>1, <1>6, <1>7, <1>8, AllWatched
  <2>4. QED BY <1>11, <2>1, <2>2, <2>3 DEF SummaryInv

LEMMA BeginSummary ==
  ASSUME SummaryGiven, SummaryInv, NEW t \in Threads, NEW results \in SUBSET Results,
         S!BeginCall(t, results)
  PROVE  SummaryInv'
<1>1. Of(t) \in TaskRuns /\ S!Run(t) = Of(t) /\ agent.abMode \in BOOLEAN
  BY HomeGiven DEF SummaryInv, Of, S!Run
<1>2. /\ trigger[t].pc = "idle" /\ begun < MaxSummaries /\ begun' = begun + 1
      /\ UNCHANGED <<agent, killTags, disabled, past, task, tagChecked, regChecked, branch,
                     cache, replaced, sends, excused>>
  BY DEF S!BeginCall, S!At, S!switchVars, S!memos, S!historyVars
<1>3. trigger \in [Threads -> Triggers] /\ disabled \in BOOLEAN /\ begun \in 0..MaxSummaries
  BY DEF SummaryInv, SummaryTypes
<1>4. PICK asked \in BOOLEAN, worse \in BOOLEAN :
        /\ asked = (Of(t) \in killTags /\ Of(t) \notin tagChecked)
        /\ worse = (agent.abMode /\ S!DropTooLarge(past) /\ Of(t) \notin regChecked)
  OBVIOUS
<1>5. PICK o \in Triggers :
        /\ trigger' = [trigger EXCEPT ![t] = o]
        /\ o.pc = "task" /\ o.one = None /\ o.task = None
        /\ o.off = disabled /\ o.asked = asked /\ o.worse = worse
  <2> DEFINE o == [S!Idle EXCEPT !.pc = "task", !.todo = results, !.off = disabled,
                                 !.asked = asked, !.worse = worse]
  <2>1. o \in Triggers BY <1>3 DEF Triggers, SStations, S!Idle
  <2>2. trigger' = [trigger EXCEPT ![t] = o] BY <1>1, <1>4 DEF S!BeginCall
  <2>3. /\ o.pc = "task" /\ o.one = None /\ o.task = None
        /\ o.off = disabled /\ o.asked = asked /\ o.worse = worse
    BY DEF S!Idle
  <2> HIDE DEF o
  <2>4. QED BY <2>1, <2>2, <2>3
<1>6. /\ trigger' \in [Threads -> Triggers] /\ trigger'[t] = o
      /\ \A u \in Threads \ {t} : trigger'[u] = trigger[u]
  BY <1>3, <1>5
<1>7. SwitchesKept BY <1>2, <1>5, <1>6, NothingAsked
<1>8. None # "none" /\ None # "task" BY DEF SummaryGiven, S!NoneAssumption
<1>9. Watched(t)'
  <2>1. asked => Of(t) \in killTags /\ Of(t) \notin tagChecked BY <1>4
  <2>2. worse => agent.abMode /\ S!DropTooLarge(past) /\ Of(t) \notin regChecked BY <1>4
  <2>3. S!DropTooLarge(past)' = S!DropTooLarge(past)
    BY <1>2 DEF S!DropTooLarge, S!Comparable
  <2>4. Of(t)' = Of(t) BY <1>2 DEF Of
  <2>5. QED
    BY <1>2, <1>5, <1>6, <1>8, <2>1, <2>2, <2>3, <2>4
    DEF Watched, Answered, Asks, Looks, Rewrites
<1> QED
  <2>1. begun' \in 0..MaxSummaries
    BY <1>2, <1>3 DEF SummaryGiven, S!BoundsAssumption
  <2>2. SummaryTypes' BY <1>2, <1>6, <2>1 DEF SummaryInv, SummaryTypes
  <2>3. SummaryOnce' BY <1>2, <1>5, <1>6, OnceKept
  <2>4. BranchTells' BY <1>2, TellsKept
  <2>5. \A u \in Threads : Watched(u)' BY <1>2, <1>6, <1>7, <1>9, AllWatched
  <2>6. QED BY <2>2, <2>3, <2>4, <2>5 DEF SummaryInv

LEMMA TagStep ==
  ASSUME SummaryGiven, SummaryInv, NEW r \in TaskRuns, S!Tag(r) PROVE SummaryInv'
<1>1. /\ killTags' = killTags \union {r}
      /\ UNCHANGED <<agent, disabled, past, task, tagChecked, regChecked, branch, cache,
                     trigger, begun, replaced, sends, excused>>
  BY DEF S!Tag, S!memos, S!countVars, S!historyVars
<1>2. SwitchesKept BY <1>1 DEF SwitchesKept, Stopped, Pardoned, Answered, S!At, Of
<1>3. ASSUME NEW t \in Threads PROVE Watched(t)'
  <2>1. Watched(t) BY DEF SummaryInv
  <2>2. SameCall(t) BY <1>1, <2>1 DEF SameCall, Watched, S!DropTooLarge, S!Comparable
  <2>3. QED BY <1>2, <2>2, StillWatched
<1>4. SummaryTypes' BY <1>1 DEF SummaryInv, SummaryTypes
<1>5. SummaryOnce' BY <1>1, OnceKept
<1>6. BranchTells' BY <1>1, TellsKept
<1> QED BY <1>3, <1>4, <1>5, <1>6 DEF SummaryInv

LEMMA EnableStep ==
  ASSUME SummaryGiven, SummaryInv, S!Enable PROVE SummaryInv'
<1>1. /\ disabled' = FALSE
      /\ trigger' = [t \in Threads |-> [trigger[t] EXCEPT !.off = FALSE]]
      /\ excused' = excused \union {<<r, "enabled">> : r \in TaskRuns}
      /\ UNCHANGED <<agent, killTags, past, task, tagChecked, regChecked, branch, cache,
                     begun, replaced, sends>>
  BY DEF S!Enable, S!memos, S!countVars
<1>2. trigger \in [Threads -> Triggers] BY DEF SummaryInv, SummaryTypes
<1>3. trigger' \in [Threads -> Triggers]
  <2>1. \A t \in Threads : [trigger[t] EXCEPT !.off = FALSE] \in Triggers
    BY <1>2 DEF Triggers
  <2>2. QED BY <1>1, <2>1
<1>4. ASSUME NEW t \in Threads
      PROVE  /\ trigger'[t].pc = trigger[t].pc /\ trigger'[t].task = trigger[t].task
             /\ trigger'[t].one = trigger[t].one /\ trigger'[t].asked = trigger[t].asked
             /\ trigger'[t].off = FALSE /\ trigger'[t].worse = trigger[t].worse
  BY <1>1, <1>2 DEF Triggers
<1>5. excused \subseteq excused' /\ \A r \in TaskRuns : Pardoned(r)'
  BY <1>1 DEF Pardoned
<1>6. SwitchesKept BY <1>1, <1>5 DEF SwitchesKept, Stopped, Answered
<1>7. ASSUME NEW t \in Threads PROVE Watched(t)'
  <2>1. Watched(t) BY DEF SummaryInv
  <2>2. SameCall(t) BY <1>1, <1>4, <2>1 DEF SameCall, Watched, S!DropTooLarge, S!Comparable
  <2>3. QED BY <1>6, <2>2, StillWatched
<1>8. SummaryTypes' BY <1>1, <1>3 DEF SummaryInv, SummaryTypes
<1>9. SummaryOnce' BY <1>1, <1>4, <1>5, OnceKept
<1>10. BranchTells' BY <1>1, <1>5, TellsKept
<1> QED BY <1>7, <1>8, <1>9, <1>10 DEF SummaryInv

LEMMA PastRunStep ==
  ASSUME SummaryGiven, SummaryInv,
         NEW b \in {"control", "treatment"}, NEW s \in BOOLEAN, S!PastRun(b, s)
  PROVE  SummaryInv'
<1>1. UNCHANGED <<agent, killTags, disabled, task, tagChecked, regChecked, branch, cache,
                  begun, replaced, sends, excused>>
  BY DEF S!PastRun, S!memos, S!countVars, S!historyVars
<1>2. PICK large \in BOOLEAN : large = S!DropTooLarge(past')
  BY DEF S!DropTooLarge
<1>3. trigger' = [t \in Threads |-> [trigger[t] EXCEPT !.worse = @ /\ large]]
  BY <1>2 DEF S!PastRun
<1>4. trigger \in [Threads -> Triggers] BY DEF SummaryInv, SummaryTypes
<1>5. ASSUME NEW t \in Threads
      PROVE  /\ trigger'[t] \in Triggers
             /\ trigger'[t].pc = trigger[t].pc /\ trigger'[t].task = trigger[t].task
             /\ trigger'[t].one = trigger[t].one /\ trigger'[t].asked = trigger[t].asked
             /\ trigger'[t].off = trigger[t].off
             /\ trigger'[t].worse => trigger[t].worse /\ large
  <2>1. PICK worse \in BOOLEAN : worse = (trigger[t].worse /\ large) OBVIOUS
  <2>2. trigger'[t] = [trigger[t] EXCEPT !.worse = worse] BY <1>3, <1>4, <2>1 DEF Triggers
  <2>3. [trigger[t] EXCEPT !.worse = worse] \in Triggers BY <1>4 DEF Triggers
  <2>4. QED BY <1>4, <2>1, <2>2, <2>3 DEF Triggers
<1>6. trigger' \in [Threads -> Triggers] BY <1>3, <1>5
<1>7. large => S!DropTooLarge(past)' BY <1>2 DEF S!DropTooLarge, S!Comparable
<1>8. agent' = agent /\ excused \subseteq excused' BY <1>1
<1>9. ASSUME NEW t \in Threads PROVE Watched(t)'
  <2>1. Watched(t) BY DEF SummaryInv
  <2>2. Of(t)' = Of(t) BY <1>1 DEF Of
  <2>3. /\ Misread(Of(t))' = Misread(Of(t)) /\ Pardoned(Of(t))' = Pardoned(Of(t))
        /\ Stopped(Of(t))' = Stopped(Of(t))
    BY <1>1, <2>2 DEF Misread, Pardoned, Stopped
  <2>4. /\ Answered(Of(t), tagChecked, "scan") => Answered(Of(t), tagChecked, "scan")'
        /\ Answered(Of(t), regChecked, "history") => Answered(Of(t), regChecked, "history")'
    <3>1. \A u \in Threads : /\ Of(u)' = Of(u)
                             /\ S!At(u, "scan") => S!At(u, "scan")'
                             /\ S!At(u, "history") => S!At(u, "history")'
      BY <1>1, <1>5 DEF Of, S!At
    <3>2. QED BY <1>1, <2>2, <2>3, <3>1 DEF Answered
  <2>5. trigger'[t].worse => trigger[t].worse /\ S!DropTooLarge(past)' BY <1>5, <1>7
  <2>6. QED
    BY <1>1, <1>5, <2>1, <2>2, <2>3, <2>4, <2>5 DEF Watched, Asks, Looks, Rewrites
<1>10. SummaryTypes' BY <1>1, <1>6 DEF SummaryInv, SummaryTypes
<1>11. SummaryOnce' BY <1>1, <1>5, <1>8, OnceKept
<1>12. BranchTells' BY <1>1, <1>8, TellsKept
<1> QED BY <1>9, <1>10, <1>11, <1>12 DEF SummaryInv

LEMMA SummaryInitial == ASSUME SummaryGiven PROVE S!Init => SummaryInv
<1> SUFFICES ASSUME S!Init PROVE SummaryInv OBVIOUS
<1>1. /\ None # "task" /\ None # "none" /\ None # "control" /\ None # "treatment"
      /\ MaxSummaries \in Nat
  BY DEF SummaryGiven, S!NoneAssumption, S!BoundsAssumption
<1>2. S!Idle \in Triggers BY DEF S!Idle, Triggers, SStations
<1>3. SummaryTypes
  <2>1. trigger \in [Threads -> Triggers] BY <1>2 DEF S!Init
  <2>2. begun \in 0..MaxSummaries BY <1>1, SMT DEF S!Init
  <2>3. /\ task \in [TaskRuns -> {None, "task", "none"}]
        /\ branch \in [TaskRuns -> {None, "control", "treatment"}]
        /\ replaced \in [Results -> Nat]
        /\ sends \in [TaskRuns -> SUBSET {"raw", "summary"}]
    BY DEF S!Init
  <2>4. QED BY <2>1, <2>2, <2>3 DEF S!Init, SummaryTypes
<1>4. SummaryOnce BY DEF S!Init, SummaryOnce, S!At, S!Idle
<1>5. BranchTells BY <1>1 DEF S!Init, BranchTells
<1>6. ASSUME NEW t \in Threads PROVE Watched(t)
  BY <1>1 DEF S!Init, Watched, S!Idle, Asks, Looks, Rewrites
<1> QED BY <1>3, <1>4, <1>5, <1>6 DEF SummaryInv

LEMMA SummaryStep == ASSUME SummaryGiven, SummaryInv, [S!Next]_S!vars PROVE SummaryInv'
<1>1. CASE UNCHANGED S!vars
  BY <1>1, SMTT(30)
  DEF S!vars, S!switchVars, S!memos, S!countVars, S!historyVars, SummaryInv, SummaryTypes,
      SummaryOnce, BranchTells, Watched, Answered, Stopped, Pardoned, Misread, Raced, Of,
      S!At, S!DropTooLarge, S!Comparable
<1>2. CASE S!Next
  BY <1>2, TagStep, EnableStep, PastRunStep, BeginSummary, ReadTaskStep, MemoTaskStep,
     MarkTagsStep, ScanTagsStep, GateStep, MarkRegressionStep, CheckRegressionStep,
     AssignBranchStep, ReplaceStep, HelperAnswersStep, SendSummariesStep
  DEF S!Next
<1> QED BY <1>1, <1>2

\* Whatever the threads of a policy do at once, a result has one summary unless two
\* met it at the same time, no run sends summaries under the control branch, and a
\* switch thrown before a run's first trigger stops that trigger, but for failed
\* reads and other threads (policy/cheap_summariser.py:404-432, 479-519, 561-648).
THEOREM SummariesAlwaysAgreed == DecisionsSpec => []SummarisedAsAgreed
<1>1. SummaryGiven BY SummariserAssumption DEF SummaryGiven
<1>2. DecisionsInit => SummaryInv BY <1>1, SummaryInitial DEF DecisionsInit
<1>3. [DecisionsNext]_decisionVars => [S!Next]_S!vars
  BY DEF DecisionsNext, decisionVars, summariserState, S!vars, S!switchVars, S!memos,
         S!countVars, S!historyVars
<1>4. SummaryInv /\ [DecisionsNext]_decisionVars => SummaryInv' BY <1>1, <1>3, SummaryStep
<1>5. SummaryInv => SummarisedAsAgreed
  <2> SUFFICES ASSUME SummaryInv PROVE SummarisedAsAgreed OBVIOUS
  <2>1. S!TypeOK
    BY DEF SummaryInv, SummaryTypes, SummaryOnce, Watched, S!TypeOK
  <2>2. S!SummarisedOnce BY DEF SummaryInv, SummaryOnce, S!SummarisedOnce, Raced
  <2>3. S!BranchNotMixed
    <3>1. None # "control" BY <1>1 DEF SummaryGiven, S!NoneAssumption
    <3>2. QED BY <3>1 DEF SummaryInv, BranchTells, S!BranchNotMixed, Misread
  <2>4. S!DisabledSendsRaw
    BY DEF SummaryInv, Watched, S!DisabledSendsRaw, Misread, Rewrites, Of, S!Run
  <2>5. S!FirstTriggerHonoursSwitches
    BY DEF SummaryInv, Watched, S!FirstTriggerHonoursSwitches, Pardoned, Rewrites, Of, S!Run
  <2>6. QED BY <2>1, <2>2, <2>3, <2>4, <2>5 DEF SummarisedAsAgreed
<1> QED BY <1>2, <1>4, <1>5, PTL DEF DecisionsSpec

-----------------------------------------------------------------------------
\* ObservationPolicies.

Phases == {"idle", "before", "creating", "storing", "answered", "read", "after"}
Asked == UNION {l.asks : l \in LineUps}
Dispatches ==
  [pc : Phases, req : Asked \union {None}, todo : Seq(P!Policies), stamp : Nat \union {None},
   bound : BOOLEAN, creator : BOOLEAN, saw : BOOLEAN, took : Nat, over : BOOLEAN,
   shared : BOOLEAN]
Entries ==
  [run : P!AgentRuns, what : {"booked", "orphan"}, creator : BOOLEAN, shared : BOOLEAN]

PolicyTypes ==
  /\ now \in Nat /\ home \in Homes /\ lineUp \in LineUps
  /\ registered \in Seq(P!Policies)
  /\ dispatch \in [Threads -> Dispatches]
  /\ creation \in [P!AgentRuns -> BOOLEAN]
  /\ retrieved \in [P!AgentRuns -> Nat]
  /\ tagged \in [P!AgentRuns -> Nat] /\ lifted \in [P!AgentRuns -> Nat]
  /\ booked \in Seq(Entries)

\* Calls of a run that are under way at once know of each other.
Together ==
  \A t, u \in Threads :
    /\ t # u /\ home[t] = home[u]
    /\ dispatch[t].pc # "idle" /\ dispatch[u].pc # "idle"
    => dispatch[t].shared

\* A creator's call has a resource, and creates no other.
CreatorHasResource ==
  \A t \in Threads : dispatch[t].creator =>
    /\ dispatch[t].pc \notin {"idle", "creating", "storing"}
    /\ dispatch[t].req.prefix \in resources

\* A resource is created within a hook.
WithinHook ==
  \A t \in Threads :
    dispatch[t].pc \in {"creating", "storing"} => dispatch[t].todo # <<>>

Orphaned(r) == \E i \in DOMAIN booked : booked[i].what = "orphan" /\ booked[i].run = r

\* A marker was left by a creator whose call goes on, or by one that failed.
MarkerHasCreator ==
  \A r \in P!AgentRuns : creation[r] =>
    \/ \E t \in Threads : /\ home[t] = r /\ dispatch[t].creator
                          /\ dispatch[t].pc \in {"before", "answered", "read"}
    \/ Orphaned(r)

MarkerSeen ==
  \A t \in Threads :
    dispatch[t].pc = "read" /\ dispatch[t].saw /\ ~dispatch[t].creator =>
      dispatch[t].shared \/ Orphaned(home[t])

\* In a run of one thread, nobody tags between its reading and its clearing.
Alone(t) == \A u \in Threads : home[u] = home[t] => u = t
TokensAccounted ==
  \A t \in Threads : Alone(t) =>
    /\ tagged[home[t]] = retrieved[home[t]] + lifted[home[t]]
    /\ dispatch[t].pc = "read" => dispatch[t].took = retrieved[home[t]]

PolicyInv ==
  /\ PolicyTypes /\ Together /\ CreatorHasResource /\ WithinHook /\ MarkerHasCreator
  /\ MarkerSeen
  /\ TokensAccounted /\ P!CreationBookedByCreator

PoliciesGiven == P!LineUpsAssumption /\ P!BoundsAssumption

LEMMA RunOfThread ==
  ASSUME PolicyTypes
  PROVE  \A t \in Threads : home[t] \in P!AgentRuns
  BY DEF PolicyTypes, P!AgentRuns

\* What the policies register, and when, concerns no marker.
MarkersAlone ==
  UNCHANGED <<home, lineUp, creation, retrieved, tagged, lifted, booked>>

LEMMA ThreadSet ==
  ASSUME PolicyTypes, NEW t \in Threads, NEW o \in Dispatches,
         dispatch' = [dispatch EXCEPT ![t] = o]
  PROVE  /\ dispatch' \in [Threads -> Dispatches] /\ dispatch'[t] = o
         /\ \A u \in Threads \ {t} : dispatch'[u] = dispatch[u]
  BY DEF PolicyTypes

\* A call that goes on with what it knew of the markers disturbs nothing.
LEMMA CallGoes ==
  ASSUME PolicyInv, NEW t \in Threads, NEW o \in Dispatches, MarkersAlone,
         UNCHANGED <<now, registered>>, resources \subseteq resources',
         dispatch' = [dispatch EXCEPT ![t] = o],
         dispatch[t].pc # "idle", o.pc # "idle",
         o.req = dispatch[t].req, o.creator = dispatch[t].creator,
         o.shared = dispatch[t].shared,
         o.creator => o.pc \notin {"creating", "storing"},
         o.pc \in {"creating", "storing"} => o.todo # <<>>,
         o.creator /\ dispatch[t].pc \in {"before", "answered", "read"}
           => o.pc \in {"before", "answered", "read"},
         o.pc = "read" => /\ dispatch[t].pc = "read" /\ o.saw = dispatch[t].saw
                          /\ o.took = dispatch[t].took
  PROVE  PolicyInv'
<1>1. /\ dispatch' \in [Threads -> Dispatches] /\ dispatch'[t] = o
      /\ \A u \in Threads \ {t} : dispatch'[u] = dispatch[u]
  BY ThreadSet DEF PolicyInv
<1>2. PolicyTypes' BY <1>1 DEF PolicyInv, PolicyTypes, MarkersAlone
<1>3. Together' BY <1>1 DEF PolicyInv, Together, MarkersAlone
<1>4. CreatorHasResource' BY <1>1 DEF PolicyInv, CreatorHasResource
<1>5. \A r : Orphaned(r)' = Orphaned(r) BY DEF Orphaned, MarkersAlone
<1>6. MarkerHasCreator'
  <2> SUFFICES ASSUME NEW r \in P!AgentRuns, creation[r]
               PROVE  (\E u \in Threads : /\ home[u] = r /\ dispatch'[u].creator
                                          /\ dispatch'[u].pc \in {"before", "answered", "read"})
                      \/ Orphaned(r)
    BY <1>5 DEF MarkerHasCreator, MarkersAlone
  <2>1. (\E u \in Threads : /\ home[u] = r /\ dispatch[u].creator
                            /\ dispatch[u].pc \in {"before", "answered", "read"})
        \/ Orphaned(r)
    BY DEF PolicyInv, MarkerHasCreator
  <2>2. QED BY <1>1, <2>1
<1>7. MarkerSeen'
  <2>1. \A u \in Threads : Orphaned(home[u])' = Orphaned(home[u])
    BY <1>5 DEF MarkersAlone, Orphaned
  <2>2. QED BY <1>1, <2>1 DEF PolicyInv, MarkerSeen, MarkersAlone
<1>8. TokensAccounted' BY <1>1 DEF PolicyInv, TokensAccounted, Alone, MarkersAlone
<1>9. P!CreationBookedByCreator' BY DEF PolicyInv, P!CreationBookedByCreator, MarkersAlone
<1>10. WithinHook' BY <1>1 DEF PolicyInv, WithinHook
<1> QED BY <1>2, <1>3, <1>4, <1>6, <1>7, <1>8, <1>9, <1>10 DEF PolicyInv

LEMMA RestOfQueue == \A s \in Seq(P!Policies) : s # <<>> => Tail(s) \in Seq(P!Policies)
  OBVIOUS

LEMMA PastTyped ==
  ASSUME NEW c \in Dispatches, c.todo # <<>>
  PROVE  /\ P!Past(c) \in Dispatches
         /\ P!Past(c).pc = c.pc /\ P!Past(c).req = c.req /\ P!Past(c).creator = c.creator
         /\ P!Past(c).shared = c.shared /\ P!Past(c).saw = c.saw /\ P!Past(c).took = c.took
<1>1. PICK todo \in Seq(P!Policies) : todo = Tail(c.todo) BY RestOfQueue DEF Dispatches
<1>2. P!Past(c) = [c EXCEPT !.todo = todo, !.stamp = None] BY <1>1 DEF P!Past
<1>3. [c EXCEPT !.todo = todo, !.stamp = None] \in Dispatches BY DEF Dispatches
<1> QED BY <1>2, <1>3 DEF Dispatches

\* A hook of the call has been run, and nothing noted of the call.
LEMMA HookDone ==
  ASSUME PolicyInv, NEW t \in Threads, MarkersAlone, UNCHANGED <<now, registered, resources>>,
         dispatch[t].pc \in {"before", "after"}, dispatch[t].todo # <<>>, P!Next_(t)
  PROVE  PolicyInv'
<1>1. dispatch[t] \in Dispatches BY DEF PolicyInv, PolicyTypes
<1>2. PICK o \in Dispatches :
        /\ o = P!Past(dispatch[t]) /\ o.pc = dispatch[t].pc /\ o.req = dispatch[t].req
        /\ o.creator = dispatch[t].creator /\ o.shared = dispatch[t].shared
        /\ o.saw = dispatch[t].saw /\ o.took = dispatch[t].took
  BY <1>1, PastTyped
<1>3. dispatch' = [dispatch EXCEPT ![t] = o] BY <1>2 DEF P!Next_
<1>4. dispatch[t].creator => dispatch[t].pc \notin {"creating", "storing"}
  BY DEF PolicyInv, CreatorHasResource
<1> QED BY <1>2, <1>3, <1>4, CallGoes

LEMMA HookStep ==
  ASSUME PolicyInv, NEW t \in Threads,
         \/ P!Custom(t) \/ P!BudgetBefore(t) \/ P!BudgetAfter(t)
         \/ P!ThrottleBefore(t) \/ P!ThrottleAfter(t)
         \/ P!PlacerBefore(t) \/ P!PlacerAfter(t)
  PROVE  PolicyInv'
<1>1. P!Next_(t) /\ dispatch[t].pc \in {"before", "after"} /\ dispatch[t].todo # <<>>
  BY DEF P!Custom, P!BudgetBefore, P!BudgetAfter, P!ThrottleBefore, P!ThrottleAfter,
         P!PlacerBefore, P!PlacerAfter, P!Hook, P!Allow
<1>2. MarkersAlone /\ UNCHANGED <<now, registered, resources>>
  BY DEF P!Custom, P!BudgetBefore, P!BudgetAfter, P!ThrottleBefore, P!ThrottleAfter,
         P!PlacerBefore, P!PlacerAfter, MarkersAlone, P!settingVars, P!policyVars,
         P!placerVars, P!markerVars
<1> QED BY <1>1, <1>2, HookDone

LEMMA ClockStep ==
  ASSUME PolicyInv, NEW t \in Threads, P!ThrottleClock(t) PROVE PolicyInv'
<1>1. dispatch[t] \in Dispatches /\ now \in Nat BY DEF PolicyInv, PolicyTypes
<1>2. PICK o \in Dispatches :
        /\ dispatch' = [dispatch EXCEPT ![t] = o]
        /\ o.pc = dispatch[t].pc /\ o.req = dispatch[t].req
        /\ o.creator = dispatch[t].creator /\ o.shared = dispatch[t].shared
        /\ o.saw = dispatch[t].saw /\ o.took = dispatch[t].took
  <2> DEFINE o == [dispatch[t] EXCEPT !.stamp = now]
  <2>1. o \in Dispatches BY <1>1 DEF Dispatches
  <2>2. dispatch' = [dispatch EXCEPT ![t] = o]
    BY DEF P!ThrottleClock, PolicyInv, PolicyTypes
  <2>3. /\ o.pc = dispatch[t].pc /\ o.req = dispatch[t].req
        /\ o.creator = dispatch[t].creator /\ o.shared = dispatch[t].shared
        /\ o.saw = dispatch[t].saw /\ o.took = dispatch[t].took
    BY <1>1 DEF Dispatches
  <2> HIDE DEF o
  <2>4. QED BY <2>1, <2>2, <2>3
<1>3. dispatch[t].pc = "before" /\ MarkersAlone /\ UNCHANGED <<now, registered, resources>>
  BY DEF P!ThrottleClock, P!Hook, MarkersAlone, P!settingVars, P!policyVars, P!placerVars,
         P!markerVars
<1> QED BY <1>2, <1>3, CallGoes

LEMMA LookUpStep ==
  ASSUME PolicyInv, NEW t \in Threads, P!LookUpResource(t) PROVE PolicyInv'
<1>1. dispatch[t] \in Dispatches BY DEF PolicyInv, PolicyTypes
<1>2. /\ dispatch[t].pc = "before" /\ dispatch[t].todo # <<>>
      /\ MarkersAlone /\ UNCHANGED <<now, registered, resources>>
  BY DEF P!LookUpResource, P!Hook, MarkersAlone, P!settingVars, P!markerVars
<1>3. PICK c \in Dispatches :
        /\ c = P!Past(dispatch[t]) /\ c.pc = dispatch[t].pc /\ c.req = dispatch[t].req
        /\ c.creator = dispatch[t].creator /\ c.shared = dispatch[t].shared
  BY <1>1, <1>2, PastTyped
<1>4. CASE P!Next_(t) BY <1>2, <1>4, HookDone
<1>5. CASE dispatch' = [dispatch EXCEPT ![t] = [P!Past(@) EXCEPT !.bound = TRUE]]
  <2> DEFINE o == [c EXCEPT !.bound = TRUE]
  <2>1. o \in Dispatches BY <1>3 DEF Dispatches
  <2>2. dispatch' = [dispatch EXCEPT ![t] = o] BY <1>3, <1>5
  <2>3. /\ o.pc = c.pc /\ o.req = c.req /\ o.creator = c.creator /\ o.shared = c.shared
    BY <1>3 DEF Dispatches
  <2> HIDE DEF o
  <2>4. QED BY <1>2, <1>3, <2>1, <2>2, <2>3, CallGoes
<1>6. CASE /\ dispatch[t].req.prefix \notin resources
           /\ dispatch' = [dispatch EXCEPT ![t].pc = "creating"]
  <2> DEFINE o == [dispatch[t] EXCEPT !.pc = "creating"]
  <2>1. o \in Dispatches BY <1>1 DEF Dispatches, Phases
  <2>2. dispatch' = [dispatch EXCEPT ![t] = o] BY <1>6 DEF PolicyInv, PolicyTypes
  <2>3. /\ o.pc = "creating" /\ o.req = dispatch[t].req /\ o.todo = dispatch[t].todo
        /\ o.creator = dispatch[t].creator /\ o.shared = dispatch[t].shared
    BY <1>1 DEF Dispatches
  <2>4. ~dispatch[t].creator BY <1>6 DEF PolicyInv, CreatorHasResource
  <2> HIDE DEF o
  <2>5. QED BY <1>2, <2>1, <2>2, <2>3, <2>4, CallGoes
<1>7. QED BY <1>4, <1>5, <1>6 DEF P!LookUpResource

LEMMA CreateStep ==
  ASSUME PolicyInv, NEW t \in Threads, P!CreateResource(t)
  PROVE  PolicyInv'
<1>1. dispatch[t] \in Dispatches BY DEF PolicyInv, PolicyTypes
<1>2. /\ dispatch[t].pc = "creating"
      /\ MarkersAlone /\ UNCHANGED <<now, registered, resources>>
  BY DEF P!CreateResource, MarkersAlone, P!settingVars, P!markerVars
<1>3. ~dispatch[t].creator /\ dispatch[t].todo # <<>>
  BY <1>2 DEF PolicyInv, CreatorHasResource, WithinHook
<1>4. CASE dispatch' = [dispatch EXCEPT ![t].pc = "storing"]
  <2> DEFINE o == [dispatch[t] EXCEPT !.pc = "storing"]
  <2>1. o \in Dispatches BY <1>1 DEF Dispatches, Phases
  <2>2. dispatch' = [dispatch EXCEPT ![t] = o] BY <1>4 DEF PolicyInv, PolicyTypes
  <2>3. /\ o.pc = "storing" /\ o.req = dispatch[t].req /\ o.todo = dispatch[t].todo
        /\ o.creator = dispatch[t].creator /\ o.shared = dispatch[t].shared
    BY <1>1 DEF Dispatches
  <2> HIDE DEF o
  <2>4. QED BY <1>2, <1>3, <2>1, <2>2, <2>3, CallGoes
<1>5. CASE dispatch' = [dispatch EXCEPT ![t] = [P!Past(@) EXCEPT !.pc = "before"]]
  <2>1. PICK c \in Dispatches :
          /\ c = P!Past(dispatch[t]) /\ c.req = dispatch[t].req
          /\ c.creator = dispatch[t].creator /\ c.shared = dispatch[t].shared
    BY <1>1, <1>3, PastTyped
  <2> DEFINE o == [c EXCEPT !.pc = "before"]
  <2>2. o \in Dispatches BY <2>1 DEF Dispatches, Phases
  <2>3. dispatch' = [dispatch EXCEPT ![t] = o] BY <1>5, <2>1
  <2>4. /\ o.pc = "before" /\ o.req = c.req /\ o.creator = c.creator /\ o.shared = c.shared
    BY <2>1 DEF Dispatches
  <2> HIDE DEF o
  <2>5. QED BY <1>2, <1>3, <2>1, <2>2, <2>3, <2>4, CallGoes
<1> QED BY <1>4, <1>5 DEF P!CreateResource

\* The creator leaves the marker, and holds it until its translator clears it.
LEMMA StoreStep ==
  ASSUME PolicyInv, NEW t \in Threads, P!StoreResource(t)
  PROVE  PolicyInv'
<1>1. dispatch[t] \in Dispatches /\ home[t] \in P!AgentRuns
  BY RunOfThread DEF PolicyInv, PolicyTypes
<1>2. /\ dispatch[t].pc = "storing"
      /\ UNCHANGED <<now, lineUp, home, registered, retrieved, booked, tagged, lifted>>
  BY DEF P!StoreResource, P!settingVars
<1>3. PICK key : key = dispatch[t].req.prefix OBVIOUS
<1>4. PICK first \in BOOLEAN : first = (key \notin resources) OBVIOUS
<1>5. resources' = resources \union {key} BY <1>3 DEF P!StoreResource
<1>6. creation' = [creation EXCEPT ![home[t]] = @ \/ first]
  BY <1>3, <1>4 DEF P!StoreResource
<1>7. PICK o \in Dispatches :
        /\ dispatch' = [dispatch EXCEPT ![t] = o]
        /\ o.pc = "before" /\ o.req = dispatch[t].req /\ o.creator = first
        /\ o.shared = dispatch[t].shared
  <2>1. PICK c \in Dispatches :
          /\ c = P!Past(dispatch[t]) /\ c.req = dispatch[t].req /\ c.shared = dispatch[t].shared
    <3>1. dispatch[t].todo # <<>> BY <1>2 DEF PolicyInv, WithinHook
    <3>2. QED BY <1>1, <3>1, PastTyped
  <2> DEFINE o == [c EXCEPT !.pc = "before", !.bound = TRUE, !.creator = first]
  <2>2. o \in Dispatches BY <2>1 DEF Dispatches, Phases
  <2>3. dispatch' = [dispatch EXCEPT ![t] = o] BY <1>3, <1>4, <2>1 DEF P!StoreResource
  <2>4. /\ o.pc = "before" /\ o.req = c.req /\ o.creator = first /\ o.shared = c.shared
    BY <2>1 DEF Dispatches
  <2> HIDE DEF o
  <2>5. QED BY <2>1, <2>2, <2>3, <2>4
<1>8. /\ dispatch' \in [Threads -> Dispatches] /\ dispatch'[t] = o
      /\ \A u \in Threads \ {t} : dispatch'[u] = dispatch[u]
  BY <1>7, ThreadSet DEF PolicyInv
<1>9. ~dispatch[t].creator BY <1>2 DEF PolicyInv, CreatorHasResource
<1>10. creation \in [P!AgentRuns -> BOOLEAN] BY DEF PolicyInv, PolicyTypes
<1>11. /\ creation' \in [P!AgentRuns -> BOOLEAN]
       /\ creation'[home[t]] => creation[home[t]] \/ first
       /\ \A r \in P!AgentRuns : r # home[t] => creation'[r] = creation[r]
  <2>1. PICK b \in BOOLEAN : b = (creation[home[t]] \/ first) OBVIOUS
  <2>2. creation' = [creation EXCEPT ![home[t]] = b] BY <1>1, <1>6, <1>10, <2>1
  <2>3. QED BY <1>1, <1>10, <2>1, <2>2
<1>12. PolicyTypes' BY <1>2, <1>8, <1>11 DEF PolicyInv, PolicyTypes
<1>13. Together' BY <1>2, <1>7, <1>8 DEF PolicyInv, Together
<1>14. CreatorHasResource' BY <1>3, <1>5, <1>7, <1>8 DEF PolicyInv, CreatorHasResource
<1>15. \A r : Orphaned(r)' = Orphaned(r) BY <1>2 DEF Orphaned
<1>16. MarkerHasCreator'
  <2> SUFFICES ASSUME NEW r \in P!AgentRuns, creation'[r]
               PROVE  (\E u \in Threads : /\ home[u] = r /\ dispatch'[u].creator
                                          /\ dispatch'[u].pc \in {"before", "answered", "read"})
                      \/ Orphaned(r)
    BY <1>2, <1>15 DEF MarkerHasCreator
  <2>1. CASE creation[r]
    <3>1. (\E u \in Threads : /\ home[u] = r /\ dispatch[u].creator
                              /\ dispatch[u].pc \in {"before", "answered", "read"})
          \/ Orphaned(r)
      BY <2>1 DEF PolicyInv, MarkerHasCreator
    <3>2. QED BY <1>8, <1>9, <3>1
  <2>2. CASE r = home[t] /\ first BY <1>7, <1>8, <2>2
  <2>3. QED BY <1>11, <2>1, <2>2
<1>17. MarkerSeen'
  <2>1. \A u \in Threads : Orphaned(home[u])' = Orphaned(home[u]) BY <1>2 DEF Orphaned
  <2>2. QED BY <1>2, <1>7, <1>8, <2>1 DEF PolicyInv, MarkerSeen
<1>18. TokensAccounted' BY <1>2, <1>7, <1>8 DEF PolicyInv, TokensAccounted, Alone
<1>19. P!CreationBookedByCreator' BY <1>2 DEF PolicyInv, P!CreationBookedByCreator
<1>20. WithinHook' BY <1>7, <1>8 DEF PolicyInv, WithinHook
<1> QED
  BY <1>12, <1>13, <1>14, <1>16, <1>17, <1>18, <1>19, <1>20 DEF PolicyInv

\* An entry is written at the end.
LEMMA EntryWritten ==
  ASSUME booked \in Seq(Entries), P!CreationBookedByCreator, NEW e \in Entries,
         booked' = Append(booked, e),
         e.what = "booked" /\ ~e.creator => e.shared \/ Orphaned(e.run)
  PROVE  /\ booked' \in Seq(Entries) /\ P!CreationBookedByCreator'
         /\ \A r : Orphaned(r) => Orphaned(r)'
         /\ e.what = "orphan" => Orphaned(e.run)'
<1>1. /\ booked' \in Seq(Entries) /\ Len(booked) \in Nat
      /\ DOMAIN booked = 1..Len(booked) /\ DOMAIN booked' = 1..(Len(booked) + 1)
      /\ \A i \in 1..Len(booked) : booked'[i] = booked[i]
      /\ booked'[Len(booked) + 1] = e
  OBVIOUS
<1>2. \A r : Orphaned(r) => Orphaned(r)' BY <1>1 DEF Orphaned
<1>3. e.what = "orphan" => Orphaned(e.run)'
  <2>1. Len(booked) + 1 \in DOMAIN booked' BY <1>1
  <2>2. QED BY <1>1, <2>1 DEF Orphaned
<1>4. P!CreationBookedByCreator'
  <2> SUFFICES ASSUME NEW i \in DOMAIN booked',
                      booked'[i].what = "booked", ~booked'[i].creator, ~booked'[i].shared
               PROVE  \E j \in 1..(i - 1) :
                        booked'[j].what = "orphan" /\ booked'[j].run = booked'[i].run
    BY DEF P!CreationBookedByCreator
  <2>1. CASE i \in 1..Len(booked)
    <3>1. PICK j \in 1..(i - 1) : booked[j].what = "orphan" /\ booked[j].run = booked[i].run
      BY <1>1, <2>1 DEF P!CreationBookedByCreator
    <3>2. j \in 1..Len(booked) BY <1>1, <2>1
    <3>3. QED BY <1>1, <2>1, <3>1, <3>2
  <2>2. CASE i = Len(booked) + 1
    <3>1. PICK j \in 1..Len(booked) : booked[j].what = "orphan" /\ booked[j].run = e.run
      BY <1>1, <2>2 DEF Orphaned
    <3>2. j \in 1..(i - 1) BY <1>1, <2>2
    <3>3. QED BY <1>1, <2>2, <3>1, <3>2
  <2>3. QED BY <1>1, <2>1, <2>2
<1> QED BY <1>1, <1>2, <1>3, <1>4

LEMMA IdleTyped ==
  P!Idle \in Dispatches /\ P!Idle.pc = "idle" /\ P!Idle.creator = FALSE /\ P!Idle.saw = FALSE
<1>1. <<>> \in Seq(P!Policies) OBVIOUS
<1>2. 0 \in Nat OBVIOUS
<1>3. "idle" \in Phases BY DEF Phases
<1>4. P!Idle \in Dispatches BY <1>1, <1>2, <1>3, Zenon DEF P!Idle, Dispatches
<1> QED BY <1>4 DEF P!Idle

LEMMA BeginDispatch ==
  ASSUME PolicyInv, NEW t \in Threads, NEW q \in lineUp.asks, P!BeginCall(t, q) PROVE PolicyInv'
<1>1. /\ dispatch[t].pc = "idle" /\ MarkersAlone /\ UNCHANGED <<now, registered, resources>>
  BY DEF P!BeginCall, MarkersAlone, P!settingVars, P!policyVars, P!placerVars, P!markerVars
<1>2. PICK over \in BOOLEAN : over = (totals[home[t]] > MaxNd /\ P!Has("budget")) OBVIOUS
<1>3. PICK shared \in BOOLEAN : shared = (P!Beside(t) # {}) OBVIOUS
<1>4. dispatch \in [Threads -> Dispatches] /\ registered \in Seq(P!Policies) /\ q \in Asked
  BY DEF PolicyInv, PolicyTypes, Asked
<1>5. PICK o \in Dispatches :
        /\ o = [P!Idle EXCEPT !.pc = "before", !.req = q, !.todo = registered, !.over = over,
                              !.shared = shared]
        /\ o.pc = "before" /\ ~o.creator /\ ~o.saw /\ o.shared = shared
  <2> DEFINE o == [P!Idle EXCEPT !.pc = "before", !.req = q, !.todo = registered,
                                 !.over = over, !.shared = shared]
  <2>1. /\ o \in Dispatches
        /\ o.pc = "before" /\ o.creator = P!Idle.creator /\ o.saw = P!Idle.saw
        /\ o.shared = shared
    BY <1>4, IdleTyped DEF Dispatches, Phases
  <2> HIDE DEF o
  <2>2. ~o.creator /\ ~o.saw BY <2>1, IdleTyped
  <2>3. o = [P!Idle EXCEPT !.pc = "before", !.req = q, !.todo = registered, !.over = over,
                           !.shared = shared]
    BY DEF o
  <2>4. QED BY <2>1, <2>2, <2>3
<1>6. dispatch' = [u \in Threads |->
        IF u = t THEN o
        ELSE IF u \in P!Beside(t) THEN [dispatch[u] EXCEPT !.shared = TRUE] ELSE dispatch[u]]
  BY <1>2, <1>3, <1>5 DEF P!BeginCall
<1>7. ASSUME NEW u \in Threads, u # t
      PROVE  /\ dispatch'[u] \in Dispatches
             /\ dispatch'[u].pc = dispatch[u].pc /\ dispatch'[u].req = dispatch[u].req
             /\ dispatch'[u].todo = dispatch[u].todo
             /\ dispatch'[u].creator = dispatch[u].creator
             /\ dispatch'[u].saw = dispatch[u].saw /\ dispatch'[u].took = dispatch[u].took
             /\ dispatch[u].shared => dispatch'[u].shared
             /\ u \in P!Beside(t) => dispatch'[u].shared
  <2>1. dispatch[u] \in Dispatches BY <1>4
  <2>2. [dispatch[u] EXCEPT !.shared = TRUE] \in Dispatches BY <2>1 DEF Dispatches
  <2>3. CASE u \in P!Beside(t)
    <3>1. dispatch'[u] = [dispatch[u] EXCEPT !.shared = TRUE] BY <1>6, <1>7, <2>3
    <3>2. QED BY <2>1, <2>2, <2>3, <3>1 DEF Dispatches
  <2>4. CASE u \notin P!Beside(t)
    <3>1. dispatch'[u] = dispatch[u] BY <1>6, <1>7, <2>4
    <3>2. QED BY <2>1, <2>4, <3>1
  <2>5. QED BY <2>3, <2>4
<1>8. dispatch'[t] = o /\ dispatch' \in [Threads -> Dispatches]
  <2>1. dispatch'[t] = o BY <1>6
  <2>2. \A u \in Threads : dispatch'[u] \in Dispatches BY <1>7, <2>1
  <2>3. QED BY <1>6, <2>1, <2>2
<1>9. PolicyTypes' BY <1>1, <1>8 DEF PolicyInv, PolicyTypes, MarkersAlone
<1>10. Together'
  <2> SUFFICES ASSUME NEW u \in Threads, NEW v \in Threads, u # v, home[u] = home[v],
                      dispatch'[u].pc # "idle", dispatch'[v].pc # "idle"
               PROVE  dispatch'[u].shared
    BY <1>1 DEF Together, MarkersAlone
  <2>1. CASE u = t
    <3>1. v \in P!Beside(t) BY <1>7, <2>1 DEF P!Beside, P!InRun
    <3>2. QED BY <1>3, <1>5, <1>8, <2>1, <3>1
  <2>2. CASE v = t
    <3>1. u \in P!Beside(t) BY <1>7, <2>2 DEF P!Beside, P!InRun
    <3>2. QED BY <1>7, <2>2, <3>1
  <2>3. CASE u # t /\ v # t BY <1>7, <2>3 DEF PolicyInv, Together
  <2>4. QED BY <2>1, <2>2, <2>3
<1>11. CreatorHasResource' BY <1>1, <1>5, <1>7, <1>8, ZenonT(40) DEF PolicyInv, CreatorHasResource
<1>12. WithinHook' BY <1>5, <1>7, <1>8 DEF PolicyInv, WithinHook
<1>13. \A r : Orphaned(r)' = Orphaned(r) BY <1>1 DEF Orphaned, MarkersAlone
<1>14. MarkerHasCreator'
  <2> SUFFICES ASSUME NEW r \in P!AgentRuns, creation[r]
               PROVE  (\E u \in Threads : /\ home[u] = r /\ dispatch'[u].creator
                                          /\ dispatch'[u].pc \in {"before", "answered", "read"})
                      \/ Orphaned(r)
    BY <1>1, <1>13 DEF MarkerHasCreator, MarkersAlone
  <2>1. (\E u \in Threads : /\ home[u] = r /\ dispatch[u].creator
                            /\ dispatch[u].pc \in {"before", "answered", "read"})
        \/ Orphaned(r)
    BY DEF PolicyInv, MarkerHasCreator
  <2>2. QED BY <1>1, <1>7, <2>1
<1>15. MarkerSeen'
  <2>1. \A u \in Threads : Orphaned(home[u])' = Orphaned(home[u])
    BY <1>1 DEF Orphaned, MarkersAlone
  <2>2. QED BY <1>1, <1>5, <1>7, <1>8, <2>1, ZenonT(40) DEF PolicyInv, MarkerSeen, MarkersAlone
<1>16. TokensAccounted'
  BY <1>1, <1>5, <1>7, <1>8, ZenonT(40) DEF PolicyInv, TokensAccounted, Alone, MarkersAlone
<1>17. P!CreationBookedByCreator'
  BY <1>1 DEF PolicyInv, P!CreationBookedByCreator, MarkersAlone
<1> QED
  BY <1>9, <1>10, <1>11, <1>12, <1>14, <1>15, <1>16, <1>17 DEF PolicyInv

\* A call is over; a creator's, if its marker was not cleared, leaves an orphan.
LEMMA CallOver ==
  ASSUME PolicyInv, NEW t \in Threads, dispatch' = [dispatch EXCEPT ![t] = P!Idle],
         UNCHANGED <<now, lineUp, home, registered, resources, creation, retrieved, tagged,
                     lifted>>,
         booked' \in Seq(Entries), P!CreationBookedByCreator',
         \A r : Orphaned(r) => Orphaned(r)',
         dispatch[t].creator => dispatch[t].pc = "after" \/ Orphaned(home[t])'
  PROVE  PolicyInv'
<1>1. PICK o \in Dispatches : o = P!Idle /\ o.pc = "idle" /\ ~o.creator
  BY IdleTyped
<1>2. /\ dispatch' \in [Threads -> Dispatches] /\ dispatch'[t] = o
      /\ \A u \in Threads \ {t} : dispatch'[u] = dispatch[u]
  BY <1>1, ThreadSet DEF PolicyInv
<1>3. PolicyTypes' BY <1>2 DEF PolicyInv, PolicyTypes
<1>4. Together' BY <1>1, <1>2 DEF PolicyInv, Together
<1>5. CreatorHasResource' BY <1>1, <1>2 DEF PolicyInv, CreatorHasResource
<1>6. WithinHook' BY <1>1, <1>2 DEF PolicyInv, WithinHook
<1>7. MarkerHasCreator'
  <2> SUFFICES ASSUME NEW r \in P!AgentRuns, creation[r], ~Orphaned(r)'
               PROVE  \E u \in Threads : /\ home[u] = r /\ dispatch'[u].creator
                                         /\ dispatch'[u].pc \in {"before", "answered", "read"}
    BY DEF MarkerHasCreator
  <2>1. PICK u \in Threads : /\ home[u] = r /\ dispatch[u].creator
                             /\ dispatch[u].pc \in {"before", "answered", "read"}
    BY DEF PolicyInv, MarkerHasCreator
  <2>2. u # t BY <2>1 DEF Orphaned
  <2>3. QED BY <1>2, <2>1, <2>2
<1>8. MarkerSeen'
  <2>1. \A u \in Threads : Orphaned(home[u]) => Orphaned(home[u])' BY DEF Orphaned
  <2>2. QED BY <1>1, <1>2, <2>1 DEF PolicyInv, MarkerSeen
<1>9. TokensAccounted' BY <1>1, <1>2 DEF PolicyInv, TokensAccounted, Alone
<1> QED BY <1>3, <1>4, <1>5, <1>6, <1>7, <1>8, <1>9 DEF PolicyInv

LEMMA EndStep ==
  ASSUME PolicyInv, NEW t \in Threads, P!EndCall(t) PROVE PolicyInv'
<1>1. /\ dispatch[t].pc = "after" /\ dispatch' = [dispatch EXCEPT ![t] = P!Idle]
      /\ UNCHANGED <<now, lineUp, home, registered, resources, creation, retrieved, tagged,
                     lifted, booked>>
  BY DEF P!EndCall, P!settingVars, P!policyVars, P!placerVars, P!markerVars
<1>2. booked' \in Seq(Entries) /\ P!CreationBookedByCreator'
  BY <1>1 DEF PolicyInv, PolicyTypes, P!CreationBookedByCreator
<1>3. \A r : Orphaned(r) => Orphaned(r)' BY <1>1 DEF Orphaned
<1> QED BY <1>1, <1>2, <1>3, CallOver

LEMMA ProviderStep ==
  ASSUME PolicyInv, NEW t \in Threads, P!Provider(t) PROVE PolicyInv'
<1>1. /\ dispatch[t].pc = "before"
      /\ UNCHANGED <<now, lineUp, home, registered, resources, creation, retrieved, tagged,
                     lifted>>
  BY DEF P!Provider, P!settingVars, P!policyVars, P!placerVars
<1>2. dispatch[t] \in Dispatches /\ home[t] \in P!AgentRuns
  BY RunOfThread DEF PolicyInv, PolicyTypes
<1>3. CASE /\ dispatch' = [dispatch EXCEPT ![t].pc = "answered",
                                           ![t].bound = @ /\ ~dispatch[t].req.override]
           /\ UNCHANGED booked
  <2>1. PICK bound \in BOOLEAN : bound = (dispatch[t].bound /\ ~dispatch[t].req.override)
    OBVIOUS
  <2> DEFINE o == [dispatch[t] EXCEPT !.pc = "answered", !.bound = bound]
  <2>2. o \in Dispatches BY <1>2 DEF Dispatches, Phases
  <2>3. dispatch' = [dispatch EXCEPT ![t] = o]
    BY <1>2, <1>3, <2>1 DEF PolicyInv, PolicyTypes, Dispatches
  <2>4. /\ o.pc = "answered" /\ o.req = dispatch[t].req
        /\ o.creator = dispatch[t].creator /\ o.shared = dispatch[t].shared
    BY <1>2 DEF Dispatches
  <2> HIDE DEF o
  <2>5. QED BY <1>1, <1>3, <2>2, <2>3, <2>4, CallGoes DEF MarkersAlone
<1>4. CASE /\ dispatch' = [dispatch EXCEPT ![t] = P!Idle]
           /\ booked' = IF dispatch[t].creator
                        THEN Append(booked, [run |-> home[t], what |-> "orphan",
                                             creator |-> TRUE, shared |-> dispatch[t].shared])
                        ELSE booked
  <2>1. CASE dispatch[t].creator
    <3>1. PICK e \in Entries :
            /\ e.run = home[t] /\ e.what = "orphan"
            /\ booked' = Append(booked, e)
      <4> DEFINE e == [run |-> home[t], what |-> "orphan", creator |-> TRUE,
                       shared |-> dispatch[t].shared]
      <4>1. e \in Entries BY <1>2 DEF Entries, Dispatches
      <4>2. booked' = Append(booked, e) BY <1>4, <2>1
      <4>3. e.run = home[t] /\ e.what = "orphan" OBVIOUS
      <4> HIDE DEF e
      <4>4. QED BY <4>1, <4>2, <4>3
    <3>2. /\ booked' \in Seq(Entries) /\ P!CreationBookedByCreator'
          /\ \A r : Orphaned(r) => Orphaned(r)'
          /\ Orphaned(e.run)'
      BY <3>1, EntryWritten DEF PolicyInv, PolicyTypes
    <3>3. Orphaned(home[t])' BY <1>1, <3>1, <3>2 DEF Orphaned
    <3>4. QED BY <1>1, <1>4, <3>2, <3>3, CallOver
  <2>2. CASE ~dispatch[t].creator
    <3>1. booked' = booked BY <1>4, <2>2
    <3>2. booked' \in Seq(Entries) /\ P!CreationBookedByCreator'
      BY <1>1, <3>1 DEF PolicyInv, PolicyTypes, P!CreationBookedByCreator
    <3>3. \A r : Orphaned(r) => Orphaned(r)' BY <3>1 DEF Orphaned
    <3>4. QED BY <1>1, <1>4, <2>2, <3>2, <3>3, CallOver
  <2>3. QED BY <2>1, <2>2
<1>5. QED BY <1>3, <1>4 DEF P!Provider

\* A marker that is seen was left by this call, by one beside it, or is an orphan's.
LEMMA ReadStep ==
  ASSUME PolicyInv, NEW t \in Threads, P!ReadMarkers(t) PROVE PolicyInv'
<1>1. /\ dispatch[t].pc = "answered" /\ MarkersAlone /\ UNCHANGED <<now, registered, resources>>
  BY DEF P!ReadMarkers, MarkersAlone, P!settingVars, P!policyVars, P!placerVars, P!markerVars
<1>2. /\ dispatch[t] \in Dispatches /\ home[t] \in P!AgentRuns
      /\ creation[home[t]] \in BOOLEAN /\ retrieved[home[t]] \in Nat
  BY RunOfThread DEF PolicyInv, PolicyTypes
<1>3. PICK o \in Dispatches :
        /\ dispatch' = [dispatch EXCEPT ![t] = o]
        /\ o.pc = "read" /\ o.req = dispatch[t].req /\ o.creator = dispatch[t].creator
        /\ o.shared = dispatch[t].shared /\ o.saw = creation[home[t]]
        /\ o.took = retrieved[home[t]]
  <2> DEFINE o == [dispatch[t] EXCEPT !.pc = "read", !.saw = creation[home[t]],
                                      !.took = retrieved[home[t]]]
  <2>1. o \in Dispatches BY <1>2 DEF Dispatches, Phases
  <2>2. dispatch' = [dispatch EXCEPT ![t] = o]
    BY <1>2 DEF P!ReadMarkers, PolicyInv, PolicyTypes, Dispatches
  <2>3. /\ o.pc = "read" /\ o.req = dispatch[t].req /\ o.creator = dispatch[t].creator
        /\ o.shared = dispatch[t].shared /\ o.saw = creation[home[t]]
        /\ o.took = retrieved[home[t]]
    BY <1>2 DEF Dispatches
  <2> HIDE DEF o
  <2>4. QED BY <2>1, <2>2, <2>3
<1>4. /\ dispatch' \in [Threads -> Dispatches] /\ dispatch'[t] = o
      /\ \A u \in Threads \ {t} : dispatch'[u] = dispatch[u]
  BY <1>3, ThreadSet DEF PolicyInv
<1>5. creation[home[t]] /\ ~dispatch[t].creator => dispatch[t].shared \/ Orphaned(home[t])
  <2> SUFFICES ASSUME creation[home[t]], ~dispatch[t].creator, ~Orphaned(home[t])
               PROVE  dispatch[t].shared
    OBVIOUS
  <2>1. PICK u \in Threads : /\ home[u] = home[t] /\ dispatch[u].creator
                             /\ dispatch[u].pc \in {"before", "answered", "read"}
    BY <1>2 DEF PolicyInv, MarkerHasCreator
  <2>2. QED BY <1>1, <2>1 DEF PolicyInv, Together
<1>6. PolicyTypes' BY <1>1, <1>4 DEF PolicyInv, PolicyTypes, MarkersAlone
<1>7. Together' BY <1>1, <1>3, <1>4 DEF PolicyInv, Together, MarkersAlone
<1>8. CreatorHasResource' BY <1>1, <1>3, <1>4 DEF PolicyInv, CreatorHasResource
<1>9. WithinHook' BY <1>3, <1>4 DEF PolicyInv, WithinHook
<1>10. \A r : Orphaned(r)' = Orphaned(r) BY <1>1 DEF Orphaned, MarkersAlone
<1>11. MarkerHasCreator'
  <2> SUFFICES ASSUME NEW r \in P!AgentRuns, creation[r]
               PROVE  (\E u \in Threads : /\ home[u] = r /\ dispatch'[u].creator
                                          /\ dispatch'[u].pc \in {"before", "answered", "read"})
                      \/ Orphaned(r)
    BY <1>1, <1>10 DEF MarkerHasCreator, MarkersAlone
  <2>1. (\E u \in Threads : /\ home[u] = r /\ dispatch[u].creator
                            /\ dispatch[u].pc \in {"before", "answered", "read"})
        \/ Orphaned(r)
    BY DEF PolicyInv, MarkerHasCreator
  <2>2. QED BY <1>3, <1>4, <2>1
<1>12. MarkerSeen'
  <2>1. \A u \in Threads : Orphaned(home[u])' = Orphaned(home[u])
    BY <1>1 DEF Orphaned, MarkersAlone
  <2>2. QED BY <1>1, <1>3, <1>4, <1>5, <2>1 DEF PolicyInv, MarkerSeen, MarkersAlone
<1>13. TokensAccounted'
  BY <1>1, <1>3, <1>4 DEF PolicyInv, TokensAccounted, Alone, MarkersAlone
<1>14. P!CreationBookedByCreator'
  BY <1>1 DEF PolicyInv, P!CreationBookedByCreator, MarkersAlone
<1> QED BY <1>6, <1>7, <1>8, <1>9, <1>11, <1>12, <1>13, <1>14 DEF PolicyInv

\* The marker is cleared, whoever left it, and the tokens lifted go with it.
LEMMA ClearStep ==
  ASSUME PolicyInv, NEW t \in Threads, P!ClearMarkers(t) PROVE PolicyInv'
<1>1. /\ dispatch[t].pc = "read"
      /\ creation' = [creation EXCEPT ![home[t]] = FALSE]
      /\ retrieved' = [retrieved EXCEPT ![home[t]] = 0]
      /\ lifted' = [lifted EXCEPT ![home[t]] = @ + dispatch[t].took]
      /\ UNCHANGED <<now, lineUp, home, registered, resources, tagged>>
  BY DEF P!ClearMarkers, P!Book, P!settingVars, P!policyVars, P!placerVars
<1>2. /\ dispatch[t] \in Dispatches /\ home[t] \in P!AgentRuns
      /\ registered \in Seq(P!Policies) /\ dispatch[t].took \in Nat
  BY RunOfThread DEF PolicyInv, PolicyTypes, Dispatches
<1>3. PICK o \in Dispatches :
        /\ dispatch' = [dispatch EXCEPT ![t] = o]
        /\ o.pc = "after" /\ o.req = dispatch[t].req /\ o.creator = dispatch[t].creator
        /\ o.shared = dispatch[t].shared
  <2> DEFINE o == [dispatch[t] EXCEPT !.pc = "after", !.todo = registered]
  <2>1. o \in Dispatches BY <1>2 DEF Dispatches, Phases
  <2>2. dispatch' = [dispatch EXCEPT ![t] = o]
    BY <1>2 DEF P!ClearMarkers, PolicyInv, PolicyTypes
  <2>3. /\ o.pc = "after" /\ o.req = dispatch[t].req /\ o.creator = dispatch[t].creator
        /\ o.shared = dispatch[t].shared
    BY <1>2 DEF Dispatches
  <2> HIDE DEF o
  <2>4. QED BY <2>1, <2>2, <2>3
<1>4. /\ dispatch' \in [Threads -> Dispatches] /\ dispatch'[t] = o
      /\ \A u \in Threads \ {t} : dispatch'[u] = dispatch[u]
  BY <1>3, ThreadSet DEF PolicyInv
<1>5. /\ booked' \in Seq(Entries) /\ P!CreationBookedByCreator'
      /\ \A r : Orphaned(r) => Orphaned(r)'
  <2>1. CASE dispatch[t].saw /\ dispatch[t].bound
    <3>1. PICK e \in Entries :
            /\ e.run = home[t] /\ e.creator = dispatch[t].creator
            /\ e.shared = dispatch[t].shared
            /\ booked' = Append(booked, e)
      <4> DEFINE e == [run |-> home[t], what |-> "booked", creator |-> dispatch[t].creator,
                       shared |-> dispatch[t].shared]
      <4>1. e \in Entries BY <1>2 DEF Entries, Dispatches
      <4>2. booked' = Append(booked, e) BY <2>1 DEF P!ClearMarkers, P!Book
      <4>3. e.run = home[t] /\ e.creator = dispatch[t].creator /\ e.shared = dispatch[t].shared
        OBVIOUS
      <4> HIDE DEF e
      <4>4. QED BY <4>1, <4>2, <4>3
    <3>2. ~e.creator => e.shared \/ Orphaned(e.run)
      BY <1>1, <2>1, <3>1 DEF PolicyInv, MarkerSeen
    <3>3. QED BY <3>1, <3>2, EntryWritten DEF PolicyInv, PolicyTypes
  <2>2. CASE ~(dispatch[t].saw /\ dispatch[t].bound)
    <3>1. booked' = booked BY <2>2 DEF P!ClearMarkers, P!Book
    <3>2. QED BY <1>1, <3>1 DEF PolicyInv, PolicyTypes, P!CreationBookedByCreator, Orphaned
  <2>3. QED BY <2>1, <2>2
<1>6. PolicyTypes'
  <2>1. /\ creation' \in [P!AgentRuns -> BOOLEAN] /\ retrieved' \in [P!AgentRuns -> Nat]
        /\ lifted' \in [P!AgentRuns -> Nat]
    BY <1>1, <1>2 DEF PolicyInv, PolicyTypes
  <2>2. QED BY <1>1, <1>4, <1>5, <2>1 DEF PolicyInv, PolicyTypes
<1>7. Together' BY <1>1, <1>3, <1>4 DEF PolicyInv, Together
<1>8. CreatorHasResource' BY <1>1, <1>3, <1>4 DEF PolicyInv, CreatorHasResource
<1>9. WithinHook' BY <1>3, <1>4 DEF PolicyInv, WithinHook
<1>10. MarkerHasCreator'
  <2> SUFFICES ASSUME NEW r \in P!AgentRuns, creation'[r], ~Orphaned(r)'
               PROVE  \E u \in Threads : /\ home[u] = r /\ dispatch'[u].creator
                                         /\ dispatch'[u].pc \in {"before", "answered", "read"}
    BY <1>1 DEF MarkerHasCreator
  <2>1. r # home[t] /\ creation[r] BY <1>1, <1>2 DEF PolicyInv, PolicyTypes
  <2>2. PICK u \in Threads : /\ home[u] = r /\ dispatch[u].creator
                             /\ dispatch[u].pc \in {"before", "answered", "read"}
    BY <1>5, <2>1 DEF PolicyInv, MarkerHasCreator
  <2>3. QED BY <1>4, <2>1, <2>2
<1>11. MarkerSeen'
  <2>1. \A u \in Threads : Orphaned(home[u]) => Orphaned(home[u])'
    <3>1. ASSUME NEW u \in Threads PROVE Orphaned(home[u]) => Orphaned(home[u])'
      <4>1. PICK r : r = home[u] OBVIOUS
      <4>2. Orphaned(r) => Orphaned(r)' BY <1>5
      <4>3. Orphaned(home[u])' = Orphaned(r)' BY <1>1, <4>1 DEF Orphaned
      <4>4. QED BY <4>1, <4>2, <4>3
    <3>2. QED BY <3>1
  <2>2. QED BY <1>1, <1>3, <1>4, <2>1 DEF PolicyInv, MarkerSeen
<1>12. TokensAccounted'
  <2> SUFFICES ASSUME NEW u \in Threads, Alone(u)
               PROVE  /\ tagged[home[u]] = retrieved'[home[u]] + lifted'[home[u]]
                      /\ dispatch'[u].pc = "read" => dispatch'[u].took = retrieved'[home[u]]
    BY <1>1 DEF TokensAccounted, Alone
  <2>1. /\ tagged[home[u]] = retrieved[home[u]] + lifted[home[u]]
        /\ dispatch[u].pc = "read" => dispatch[u].took = retrieved[home[u]]
    BY DEF PolicyInv, TokensAccounted
  <2>2. /\ home[u] \in P!AgentRuns
        /\ retrieved[home[u]] \in Nat /\ lifted[home[u]] \in Nat
    BY RunOfThread DEF PolicyInv, PolicyTypes
  <2>3. CASE u = t
    BY <1>1, <1>2, <1>3, <1>4, <2>1, <2>2, <2>3 DEF PolicyInv, PolicyTypes
  <2>4. CASE u # t
    <3>1. home[u] # home[t] BY <2>4 DEF Alone
    <3>2. QED BY <1>1, <1>4, <2>1, <2>2, <2>4, <3>1 DEF PolicyInv, PolicyTypes
  <2>5. QED BY <2>3, <2>4
<1> QED BY <1>5, <1>6, <1>7, <1>8, <1>9, <1>10, <1>11, <1>12 DEF PolicyInv

LEMMA TaggingStep ==
  ASSUME PolicyInv, NEW t \in Threads, P!TagRetrieval(t) PROVE PolicyInv'
<1>1. /\ dispatch[t].pc = "idle"
      /\ retrieved' = [retrieved EXCEPT ![home[t]] = @ + 1]
      /\ tagged' = [tagged EXCEPT ![home[t]] = @ + 1]
      /\ UNCHANGED <<now, lineUp, home, registered, dispatch, resources, creation, booked,
                     lifted>>
  BY DEF P!TagRetrieval, P!settingVars, P!policyVars, P!placerVars
<1>2. home[t] \in P!AgentRuns BY RunOfThread DEF PolicyInv
<1>3. PolicyTypes' BY <1>1, <1>2, SMTT(30) DEF PolicyInv, PolicyTypes
<1>4. Together' /\ CreatorHasResource' /\ WithinHook' /\ P!CreationBookedByCreator'
  BY <1>1 DEF PolicyInv, Together, CreatorHasResource, WithinHook, P!CreationBookedByCreator
<1>5. MarkerHasCreator' /\ MarkerSeen'
  BY <1>1 DEF PolicyInv, MarkerHasCreator, MarkerSeen, Orphaned
<1>6. TokensAccounted'
  <2> SUFFICES ASSUME NEW u \in Threads, Alone(u)
               PROVE  /\ tagged'[home[u]] = retrieved'[home[u]] + lifted[home[u]]
                      /\ dispatch[u].pc = "read" => dispatch[u].took = retrieved'[home[u]]
    BY <1>1 DEF TokensAccounted, Alone
  <2>1. /\ tagged[home[u]] = retrieved[home[u]] + lifted[home[u]]
        /\ dispatch[u].pc = "read" => dispatch[u].took = retrieved[home[u]]
    BY DEF PolicyInv, TokensAccounted
  <2>2. /\ home[u] \in P!AgentRuns /\ tagged[home[u]] \in Nat
        /\ retrieved[home[u]] \in Nat /\ lifted[home[u]] \in Nat
    BY RunOfThread DEF PolicyInv, PolicyTypes
  <2>3. CASE u = t BY <1>1, <2>1, <2>2, <2>3 DEF PolicyInv, PolicyTypes
  <2>4. CASE u # t
    <3>1. home[u] # home[t] BY <2>4 DEF Alone
    <3>2. QED BY <1>1, <2>1, <2>2, <3>1 DEF PolicyInv, PolicyTypes
  <2>5. QED BY <2>3, <2>4
<1> QED BY <1>3, <1>4, <1>5, <1>6 DEF PolicyInv

\* Time passes, a policy is registered, or nothing happens.
LEMMA AsideStep ==
  ASSUME PolicyInv, MarkersAlone, UNCHANGED <<dispatch, resources>>,
         now' \in Nat, registered' \in Seq(P!Policies)
  PROVE  PolicyInv'
<1>1. PolicyTypes' BY DEF PolicyInv, PolicyTypes, MarkersAlone
<1>2. Together' /\ CreatorHasResource' /\ WithinHook' /\ P!CreationBookedByCreator'
  BY DEF PolicyInv, Together, CreatorHasResource, WithinHook, P!CreationBookedByCreator,
         MarkersAlone
<1>3. MarkerHasCreator' /\ MarkerSeen'
  BY DEF PolicyInv, MarkerHasCreator, MarkerSeen, Orphaned, MarkersAlone
<1>4. TokensAccounted' BY DEF PolicyInv, TokensAccounted, Alone, MarkersAlone
<1> QED BY <1>1, <1>2, <1>3, <1>4 DEF PolicyInv

LEMMA PoliciesInitial == ASSUME PoliciesGiven PROVE P!Init => PolicyInv
<1> SUFFICES ASSUME P!Init PROVE PolicyInv OBVIOUS
<1>1. PolicyTypes
  <2>1. lineUp \in LineUps /\ registered \in Seq(P!Policies)
    BY DEF P!Init, PoliciesGiven, P!LineUpsAssumption
  <2>2. dispatch \in [Threads -> Dispatches] BY IdleTyped DEF P!Init
  <2>3. booked \in Seq(Entries) BY DEF P!Init
  <2>4. /\ creation \in [P!AgentRuns -> BOOLEAN] /\ retrieved \in [P!AgentRuns -> Nat]
        /\ tagged \in [P!AgentRuns -> Nat] /\ lifted \in [P!AgentRuns -> Nat]
        /\ now \in Nat /\ home \in Homes
    BY DEF P!Init
  <2>5. QED BY <2>1, <2>2, <2>3, <2>4 DEF PolicyTypes
<1>2. \A t \in Threads : dispatch[t] = P!Idle BY DEF P!Init
<1>3. Together /\ CreatorHasResource /\ WithinHook /\ MarkerSeen
  BY <1>2, IdleTyped DEF Together, CreatorHasResource, WithinHook, MarkerSeen
<1>4. MarkerHasCreator BY DEF P!Init, MarkerHasCreator
<1>5. P!CreationBookedByCreator BY DEF P!Init, P!CreationBookedByCreator
<1>6. TokensAccounted
  BY <1>1, <1>2, IdleTyped, RunOfThread DEF P!Init, TokensAccounted
<1> QED BY <1>1, <1>3, <1>4, <1>5, <1>6 DEF PolicyInv

LEMMA PoliciesStep == ASSUME PoliciesGiven, PolicyInv, [P!Next]_P!vars PROVE PolicyInv'
<1>1. CASE UNCHANGED P!vars
  BY <1>1, AsideStep
  DEF P!vars, P!settingVars, P!policyVars, P!placerVars, P!markerVars, MarkersAlone,
      PolicyInv, PolicyTypes
<1>2. CASE P!Tick
  <2>1. now' \in Nat /\ registered' \in Seq(P!Policies)
    BY <1>2 DEF P!Tick, PolicyInv, PolicyTypes
  <2>2. MarkersAlone /\ UNCHANGED <<dispatch, resources>>
    BY <1>2 DEF P!Tick, P!policyVars, P!placerVars, P!markerVars, MarkersAlone
  <2>3. QED BY <2>1, <2>2, AsideStep
<1>3. ASSUME NEW p \in Late, P!Register(p) PROVE PolicyInv'
  <2>1. p \in P!Policies BY DEF PoliciesGiven, P!LineUpsAssumption
  <2>2. registered \in Seq(P!Policies) /\ now \in Nat BY DEF PolicyInv, PolicyTypes
  <2>3. registered' \in Seq(P!Policies) /\ now' \in Nat
    BY <1>3, <2>1, <2>2 DEF P!Register, P!settingVars
  <2>4. MarkersAlone /\ UNCHANGED <<dispatch, resources>>
    BY <1>3 DEF P!Register, P!settingVars, P!policyVars, P!placerVars, P!markerVars, MarkersAlone
  <2>5. QED BY <2>3, <2>4, AsideStep
<1>4. ASSUME NEW t \in Threads, NEW q \in lineUp.asks, P!BeginCall(t, q) PROVE PolicyInv'
  BY <1>4, BeginDispatch
<1>5. ASSUME NEW t \in Threads,
             \/ P!Custom(t) \/ P!BudgetBefore(t) \/ P!BudgetAfter(t)
             \/ P!ThrottleBefore(t) \/ P!ThrottleAfter(t)
             \/ P!PlacerBefore(t) \/ P!PlacerAfter(t)
      PROVE  PolicyInv'
  BY <1>5, HookStep
<1>6. ASSUME NEW t \in Threads,
             \/ P!ThrottleClock(t) \/ P!LookUpResource(t) \/ P!CreateResource(t)
             \/ P!StoreResource(t) \/ P!TagRetrieval(t) \/ P!Provider(t)
             \/ P!ReadMarkers(t) \/ P!ClearMarkers(t) \/ P!EndCall(t)
      PROVE  PolicyInv'
  BY <1>6, ClockStep, LookUpStep, CreateStep, StoreStep, TaggingStep, ProviderStep, ReadStep,
     ClearStep, EndStep
<1> QED BY <1>1, <1>2, <1>3, <1>4, <1>5, <1>6 DEF P!Next

\* For any agents, policies and requests, the one-time write of a cache resource is
\* booked on its creator's call, but for calls made beside it and creators that
\* failed, and in a run of one thread every tagged token is lifted into one ledger
\* or waits (normalise/gemini.py:296-320, normalise/anthropic.py:265).
THEOREM MarkersAlwaysReachTheirCall == DecisionsSpec => []MarkersReachTheirCall
<1>1. PoliciesGiven BY PoliciesAssumption DEF PoliciesGiven
<1>2. DecisionsInit => PolicyInv BY <1>1, PoliciesInitial DEF DecisionsInit
<1>3. [DecisionsNext]_decisionVars => [P!Next]_P!vars
  BY DEF DecisionsNext, decisionVars, policyState, P!vars, P!settingVars, P!policyVars,
         P!budgetVars, P!throttleVars, P!placerVars, P!markerVars
<1>4. PolicyInv /\ [DecisionsNext]_decisionVars => PolicyInv' BY <1>1, <1>3, PoliciesStep
<1>5. PolicyInv => MarkersReachTheirCall
  BY DEF PolicyInv, TokensAccounted, Alone, MarkersReachTheirCall, P!RetrievedLiftedOnce,
         P!InRun
<1> QED BY <1>2, <1>4, <1>5, PTL DEF DecisionsSpec

-----------------------------------------------------------------------------
\* What the policies remember, and what has been said of it.

Advice == {"system", "tools", "cache_resource"}
Topics == {None} \union Nat \union (SUBSET Advice) \union {q.prefix : q \in Asked}
Warnings ==
  [run : P!AgentRuns,
   kind : {"budget_warning", "retry_throttle", "cache_control_advice", "cache_resource_created"},
   about : Topics]

WatchTypes ==
  /\ now \in 0..lineUp.clock /\ dispatched \in 0..MaxPolicyCalls
  /\ totals \in [P!AgentRuns -> Nat]
  /\ warned \subseteq P!AgentRuns /\ bursts \subseteq P!AgentRuns
  /\ retries \in [P!AgentRuns -> Seq(0..lineUp.clock)]
  /\ advised \in [P!AgentRuns -> SUBSET Advice]
  /\ decisions \in Seq(Warnings)

\* A policy object is asked once by each call.
Once(s) == \A i, j \in DOMAIN s : s[i] = s[j] => i = j
Lists(s, p) == \E i \in DOMAIN s : s[i] = p

\* A call that began over the budget has its warning, or still asks for one.
Follows(t) ==
  /\ Once(dispatch[t].todo)
  /\ dispatch[t].stamp \in (0..lineUp.clock) \union {None}
  /\ dispatch[t].pc # "idle" => dispatch[t].req \in lineUp.asks
  /\ dispatch[t].pc \in {"creating", "storing"} =>
       dispatch[t].todo # <<>> /\ Head(dispatch[t].todo) = "placer"
  /\ dispatch[t].pc # "idle" /\ dispatch[t].over =>
       /\ totals[home[t]] > MaxNd
       /\ \/ home[t] \in warned
          \/ /\ dispatch[t].pc \in {"before", "creating", "storing"}
             /\ Lists(dispatch[t].todo, "budget")

\* What was said is remembered, and what is remembered of a budget was said.
Remembered ==
  /\ \A i \in DOMAIN decisions :
       LET d == decisions[i] IN
         /\ d.kind = "budget_warning" => d.run \in warned
         /\ d.kind = "cache_control_advice" => d.about \subseteq advised[d.run]
         /\ d.kind = "cache_resource_created" => d.about \in resources
  /\ \A r \in warned : \E i \in DOMAIN decisions :
       decisions[i].run = r /\ decisions[i].kind = "budget_warning"

\* The calls a run has paid for, and those that may still add their price.
Owing(r) ==
  {t \in Threads :
     /\ home[t] = r /\ dispatch[t].pc # "idle"
     /\ dispatch[t].pc = "after" => Lists(dispatch[t].todo, "budget")}
Paid(r) ==
  \E n \in Nat : totals[r] = n * Cost /\ n + Cardinality(Owing(r)) <= dispatched

WatchInv ==
  /\ WatchTypes /\ Once(registered) /\ \A t \in Threads : Follows(t)
  /\ Remembered /\ P!WarnedOnce /\ P!WindowHoldsOnlyRecent
  /\ \A r \in P!AgentRuns : Paid(r)

WatchGiven ==
  /\ P!RequestsAssumption /\ P!LineUpsAssumption /\ P!BoundsAssumption
  /\ IsFiniteSet(Threads)

LEMMA AfterHead ==
  ASSUME NEW s \in Seq(P!Policies), s # <<>>, Once(s)
  PROVE  /\ Once(Tail(s)) /\ ~Lists(Tail(s), Head(s))
         /\ \A p : Lists(s, p) <=> p = Head(s) \/ Lists(Tail(s), p)
<1>1. /\ Len(s) \in Nat \ {0} /\ DOMAIN s = 1..Len(s) /\ Head(s) = s[1]
      /\ Tail(s) \in Seq(P!Policies) /\ Len(Tail(s)) = Len(s) - 1
      /\ DOMAIN Tail(s) = 1..(Len(s) - 1)
      /\ \A i \in 1..(Len(s) - 1) : Tail(s)[i] = s[i + 1]
  OBVIOUS
<1>2. Once(Tail(s))
  <2> SUFFICES ASSUME NEW i \in DOMAIN Tail(s), NEW j \in DOMAIN Tail(s), Tail(s)[i] = Tail(s)[j]
               PROVE  i = j
    BY DEF Once
  <2>1. i + 1 \in DOMAIN s /\ j + 1 \in DOMAIN s /\ s[i + 1] = s[j + 1] BY <1>1
  <2>2. i + 1 = j + 1 BY <2>1 DEF Once
  <2>3. QED BY <1>1, <2>2
<1>3. ~Lists(Tail(s), Head(s))
  <2> SUFFICES ASSUME NEW i \in DOMAIN Tail(s), Tail(s)[i] = Head(s) PROVE FALSE
    BY DEF Lists
  <2>1. i + 1 \in DOMAIN s /\ 1 \in DOMAIN s /\ s[i + 1] = s[1] BY <1>1
  <2>2. i + 1 = 1 BY <2>1 DEF Once
  <2>3. QED BY <1>1, <2>2
<1>4. ASSUME NEW p PROVE Lists(s, p) <=> p = Head(s) \/ Lists(Tail(s), p)
  <2>1. ASSUME NEW i \in DOMAIN s, s[i] = p, p # Head(s) PROVE Lists(Tail(s), p)
    <3>1. i # 1 /\ i - 1 \in 1..(Len(s) - 1) /\ (i - 1) + 1 = i BY <1>1, <2>1
    <3>2. Tail(s)[i - 1] = p BY <1>1, <2>1, <3>1
    <3>3. QED BY <1>1, <3>1, <3>2 DEF Lists
  <2>2. ASSUME NEW i \in DOMAIN Tail(s), Tail(s)[i] = p PROVE Lists(s, p)
    <3>1. i + 1 \in DOMAIN s /\ s[i + 1] = p BY <1>1, <2>2
    <3>2. QED BY <3>1 DEF Lists
  <2>3. p = Head(s) => Lists(s, p)
    <3>1. 1 \in DOMAIN s BY <1>1
    <3>2. QED BY <1>1, <3>1 DEF Lists
  <2>4. QED BY <2>1, <2>2, <2>3 DEF Lists
<1> QED BY <1>2, <1>3, <1>4

\* The calls of the others, and the books of the budget, go on.
Forward(t) ==
  /\ UNCHANGED <<home, lineUp>>
  /\ \A u \in Threads \ {t} :
       /\ dispatch'[u].pc = dispatch[u].pc /\ dispatch'[u].req = dispatch[u].req
       /\ dispatch'[u].todo = dispatch[u].todo /\ dispatch'[u].stamp = dispatch[u].stamp
       /\ dispatch'[u].over = dispatch[u].over
  /\ \A r \in P!AgentRuns : totals'[r] \in Nat /\ totals'[r] >= totals[r]
  /\ warned \subseteq warned'

LEMMA OthersFollow ==
  ASSUME WatchInv, PolicyInv, WatchGiven, NEW t \in Threads, Forward(t)
  PROVE  \A u \in Threads \ {t} : Follows(u)'
<1> SUFFICES ASSUME NEW u \in Threads, u # t PROVE Follows(u)' OBVIOUS
<1>1. Follows(u) BY DEF WatchInv
<1>2. /\ home[u] \in P!AgentRuns /\ totals[home[u]] \in Nat
      /\ totals'[home[u]] \in Nat /\ totals'[home[u]] >= totals[home[u]]
      /\ MaxNd \in Nat
  BY RunOfThread DEF PolicyInv, WatchInv, WatchTypes, Forward, WatchGiven, P!BoundsAssumption
<1>3. /\ dispatch'[u].pc = dispatch[u].pc /\ dispatch'[u].req = dispatch[u].req
      /\ dispatch'[u].todo = dispatch[u].todo /\ dispatch'[u].stamp = dispatch[u].stamp
      /\ dispatch'[u].over = dispatch[u].over
      /\ home' = home /\ lineUp' = lineUp /\ warned \subseteq warned'
  BY DEF Forward
<1>4. (dispatch[u].pc # "idle" /\ dispatch[u].over)
        => totals'[home[u]] > MaxNd
  BY <1>1, <1>2 DEF Follows
<1> QED BY <1>1, <1>3, <1>4 DEF Follows

\* Who owes no more than before.
LEMMA OwingLess ==
  ASSUME NEW t \in Threads, Forward(t),
         dispatch'[t].pc # "idle" => dispatch[t].pc # "idle",
         dispatch'[t].pc = "after" /\ Lists(dispatch'[t].todo, "budget") /\ dispatch[t].pc = "after"
           => Lists(dispatch[t].todo, "budget"),
         dispatch[t].pc = "after" => dispatch'[t].pc \in {"after", "idle"}
  PROVE  \A r : Owing(r)' \subseteq Owing(r)
<1> SUFFICES ASSUME NEW r, NEW u \in Owing(r)' PROVE u \in Owing(r) OBVIOUS
<1>1. /\ u \in Threads /\ home[u] = r /\ dispatch'[u].pc # "idle"
      /\ dispatch'[u].pc = "after" => Lists(dispatch'[u].todo, "budget")
  BY DEF Owing, Forward
<1>2. CASE u = t BY <1>1, <1>2 DEF Owing
<1>3. CASE u # t BY <1>1, <1>3 DEF Owing, Forward
<1> QED BY <1>2, <1>3

LEMMA OwingFinite ==
  ASSUME WatchGiven, NEW r
  PROVE  /\ IsFiniteSet(Owing(r)) /\ Cardinality(Owing(r)) \in Nat
         /\ \A some : some \subseteq Owing(r) =>
              /\ IsFiniteSet(some) /\ Cardinality(some) \in Nat
              /\ Cardinality(some) <= Cardinality(Owing(r))
<1>1. Owing(r) \subseteq Threads BY DEF Owing
<1>2. IsFiniteSet(Owing(r)) BY <1>1, FS_Subset DEF WatchGiven
<1> QED BY <1>2, FS_Subset, FS_CardinalityType

LEMMA PaidOn ==
  ASSUME WatchInv, WatchGiven, UNCHANGED <<totals, dispatched>>, \A r : Owing(r)' \subseteq Owing(r)
  PROVE  \A r \in P!AgentRuns : Paid(r)'
<1> SUFFICES ASSUME NEW r \in P!AgentRuns PROVE Paid(r)' OBVIOUS
<1>1. PICK n \in Nat : totals[r] = n * Cost /\ n + Cardinality(Owing(r)) <= dispatched
  BY DEF WatchInv, Paid
<1>2. PICK still : still = Owing(r)' OBVIOUS
<1>3. /\ Cardinality(still) \in Nat /\ Cardinality(Owing(r)) \in Nat
      /\ Cardinality(still) <= Cardinality(Owing(r))
  BY <1>2, OwingFinite
<1>4. dispatched \in Nat BY DEF WatchInv, WatchTypes, WatchGiven, P!BoundsAssumption
<1>5. n + Cardinality(still) <= dispatched BY <1>1, <1>3, <1>4
<1>6. totals'[r] = n * Cost /\ n + Cardinality(Owing(r)') <= dispatched'
  BY <1>1, <1>2, <1>5
<1> QED BY <1>6 DEF Paid

\* The call is done with the hook it was in.
Popped(t) ==
  /\ dispatch[t].pc \in {"before", "creating", "storing", "after"} /\ dispatch[t].todo # <<>>
  /\ dispatch'[t].pc = IF dispatch[t].pc = "after" THEN "after" ELSE "before"
  /\ dispatch'[t].todo = Tail(dispatch[t].todo) /\ dispatch'[t].stamp = None
  /\ dispatch'[t].req = dispatch[t].req /\ dispatch'[t].over = dispatch[t].over
  /\ \A u \in Threads \ {t} : dispatch'[u] = dispatch[u]

LEMMA PopsHook ==
  ASSUME PolicyInv, NEW t \in Threads, dispatch[t].pc \in {"before", "after"},
         dispatch[t].todo # <<>>, P!Next_(t)
  PROVE  Popped(t)
<1>1. dispatch[t] \in Dispatches BY DEF PolicyInv, PolicyTypes
<1>2. PICK o \in Dispatches :
        o = P!Past(dispatch[t]) /\ o.pc = dispatch[t].pc /\ o.req = dispatch[t].req
  BY <1>1, PastTyped
<1>3. PICK todo : todo = Tail(dispatch[t].todo) OBVIOUS
<1>4. o = [dispatch[t] EXCEPT !.todo = todo, !.stamp = None] BY <1>2, <1>3 DEF P!Past
<1>5. o.todo = todo /\ o.stamp = None /\ o.over = dispatch[t].over
  BY <1>1, <1>4 DEF Dispatches
<1>6. dispatch' = [dispatch EXCEPT ![t] = o] BY <1>2 DEF P!Next_
<1>7. dispatch'[t] = o /\ \A u \in Threads \ {t} : dispatch'[u] = dispatch[u]
  BY <1>6, ThreadSet DEF PolicyInv
<1> QED BY <1>2, <1>3, <1>5, <1>7 DEF Popped

LEMMA PopsPlacer ==
  ASSUME PolicyInv, NEW t \in Threads, dispatch[t].pc \in {"before", "creating", "storing"},
         dispatch[t].todo # <<>>, NEW bound \in BOOLEAN, NEW creator \in BOOLEAN,
         dispatch' = [dispatch EXCEPT ![t] = [P!Past(@) EXCEPT !.pc = "before", !.bound = bound,
                                                               !.creator = creator]]
  PROVE  Popped(t)
<1>1. dispatch[t] \in Dispatches BY DEF PolicyInv, PolicyTypes
<1>2. PICK c \in Dispatches : c = P!Past(dispatch[t]) /\ c.req = dispatch[t].req
  BY <1>1, PastTyped
<1>3. PICK todo : todo = Tail(dispatch[t].todo) OBVIOUS
<1>4. c = [dispatch[t] EXCEPT !.todo = todo, !.stamp = None] BY <1>2, <1>3 DEF P!Past
<1>5. c.todo = todo /\ c.stamp = None /\ c.over = dispatch[t].over
  BY <1>1, <1>4 DEF Dispatches
<1>6. PICK o : o = [c EXCEPT !.pc = "before", !.bound = bound, !.creator = creator] OBVIOUS
<1>7. o \in Dispatches BY <1>6 DEF Dispatches, Phases
<1>8. o.pc = "before" /\ o.todo = c.todo /\ o.stamp = c.stamp /\ o.req = c.req /\ o.over = c.over
  BY <1>6 DEF Dispatches
<1>9. dispatch' = [dispatch EXCEPT ![t] = o] BY <1>2, <1>6
<1>10. dispatch'[t] = o /\ \A u \in Threads \ {t} : dispatch'[u] = dispatch[u]
  BY <1>7, <1>9, ThreadSet DEF PolicyInv
<1> QED BY <1>2, <1>3, <1>5, <1>8, <1>10 DEF Popped

LEMMA PoppedFollows ==
  ASSUME WatchInv, PolicyInv, WatchGiven, NEW t \in Threads, Forward(t), Popped(t),
         dispatch[t].pc = "before" /\ Head(dispatch[t].todo) = "budget" /\ totals[home[t]] > MaxNd
           => home[t] \in warned'
  PROVE  /\ \A u \in Threads : Follows(u)'
         /\ \A r : Owing(r)' \subseteq Owing(r)
<1>1. dispatch[t] \in Dispatches /\ Follows(t) BY DEF PolicyInv, PolicyTypes, WatchInv
<1>2. PICK s \in Seq(P!Policies) : s = dispatch[t].todo BY <1>1 DEF Dispatches
<1>3. PICK rest : rest = Tail(s) OBVIOUS
<1>4. /\ s # <<>> /\ Once(s) /\ Once(rest) /\ ~Lists(rest, Head(s))
      /\ \A p : Lists(s, p) <=> p = Head(s) \/ Lists(rest, p)
  BY <1>1, <1>2, <1>3, AfterHead DEF Follows, Popped
<1>5. /\ dispatch'[t].pc = IF dispatch[t].pc = "after" THEN "after" ELSE "before"
      /\ dispatch'[t].todo = rest /\ dispatch'[t].stamp = None
      /\ dispatch'[t].req = dispatch[t].req /\ dispatch'[t].over = dispatch[t].over
      /\ dispatch[t].pc \in {"before", "creating", "storing", "after"}
  BY <1>2, <1>3 DEF Popped
<1>6. /\ home[t] \in P!AgentRuns /\ totals[home[t]] \in Nat
      /\ totals'[home[t]] \in Nat /\ totals'[home[t]] >= totals[home[t]]
      /\ MaxNd \in Nat /\ home' = home /\ lineUp' = lineUp /\ warned \subseteq warned'
  BY RunOfThread DEF PolicyInv, WatchInv, WatchTypes, Forward, WatchGiven, P!BoundsAssumption
<1>7. ASSUME dispatch[t].over
      PROVE  /\ totals'[home[t]] > MaxNd
             /\ \/ home[t] \in warned'
                \/ dispatch[t].pc # "after" /\ Lists(rest, "budget")
  <2>1. totals[home[t]] > MaxNd /\ totals'[home[t]] > MaxNd
    BY <1>1, <1>5, <1>6, <1>7 DEF Follows
  <2>2. CASE home[t] \in warned BY <1>6, <2>1, <2>2
  <2>3. CASE dispatch[t].pc # "after" /\ Lists(s, "budget")
    <3>1. CASE Head(s) = "budget"
      <4>1. dispatch[t].pc = "before" BY <1>1, <1>2, <1>5, <2>3, <3>1 DEF Follows
      <4>2. QED BY <1>2, <2>1, <3>1, <4>1
    <3>2. CASE Lists(rest, "budget") BY <2>1, <2>3, <3>2
    <3>3. QED BY <1>4, <2>3, <3>1, <3>2
  <2>4. QED BY <1>1, <1>2, <1>5, <1>7, <2>2, <2>3 DEF Follows
<1>8. Follows(t)' BY <1>1, <1>4, <1>5, <1>6, <1>7 DEF Follows
<1>9. \A r : Owing(r)' \subseteq Owing(r) BY <1>2, <1>4, <1>5, OwingLess
<1> QED BY <1>8, <1>9, OthersFollow

\* A step that lists no policy anew and pops none.
LEMMA PhaseFollows ==
  ASSUME WatchInv, PolicyInv, WatchGiven, NEW t \in Threads, Forward(t),
         dispatch[t].pc # "idle", dispatch[t].pc # "after",
         dispatch'[t].pc \in {"before", "creating", "storing", "answered", "read"},
         dispatch'[t].req = dispatch[t].req, dispatch'[t].todo = dispatch[t].todo,
         dispatch'[t].over = dispatch[t].over,
         dispatch'[t].stamp \in (0..lineUp.clock) \union {None},
         dispatch'[t].pc \in {"creating", "storing"} =>
           dispatch[t].todo # <<>> /\ Head(dispatch[t].todo) = "placer",
         dispatch'[t].pc \in {"answered", "read"} =>
           dispatch[t].todo = <<>> \/ dispatch[t].pc = "answered"
  PROVE  /\ \A u \in Threads : Follows(u)'
         /\ \A r : Owing(r)' \subseteq Owing(r)
<1>1. Follows(t) BY DEF WatchInv
<1>2. /\ home[t] \in P!AgentRuns /\ totals[home[t]] \in Nat
      /\ totals'[home[t]] \in Nat /\ totals'[home[t]] >= totals[home[t]]
      /\ MaxNd \in Nat /\ home' = home /\ lineUp' = lineUp /\ warned \subseteq warned'
  BY RunOfThread DEF PolicyInv, WatchInv, WatchTypes, Forward, WatchGiven, P!BoundsAssumption
<1>3. ASSUME dispatch[t].over
      PROVE  /\ totals'[home[t]] > MaxNd
             /\ \/ home[t] \in warned'
                \/ /\ dispatch'[t].pc \in {"before", "creating", "storing"}
                   /\ Lists(dispatch[t].todo, "budget")
  <2>1. ~Lists(<<>>, "budget") BY DEF Lists
  <2>2. totals'[home[t]] > MaxNd BY <1>1, <1>2, <1>3 DEF Follows
  <2>3. QED BY <1>1, <1>2, <1>3, <2>1, <2>2 DEF Follows
<1>4. Follows(t)' BY <1>1, <1>2, <1>3 DEF Follows
<1>5. \A r : Owing(r)' \subseteq Owing(r) BY OwingLess
<1> QED BY <1>4, <1>5, OthersFollow

\* A call fails or is over.
LEMMA IdleFollows ==
  ASSUME WatchInv, PolicyInv, WatchGiven, NEW t \in Threads, Forward(t), dispatch'[t] = P!Idle
  PROVE  /\ \A u \in Threads : Follows(u)'
         /\ \A r : Owing(r)' \subseteq Owing(r)
<1>1. P!Idle.pc = "idle" /\ P!Idle.todo = <<>> /\ P!Idle.stamp = None BY DEF P!Idle
<1>2. Once(<<>>) BY DEF Once
<1>3. dispatch'[t].pc = "idle" /\ dispatch'[t].todo = <<>> /\ dispatch'[t].stamp = None
  BY <1>1
<1>4. Follows(t)' BY <1>2, <1>3 DEF Follows
<1>5. \A r : Owing(r)' \subseteq Owing(r) BY <1>3, OwingLess
<1> QED BY <1>4, <1>5, OthersFollow

\* Nothing new is said.
LEMMA NothingSaid ==
  ASSUME WatchInv, UNCHANGED <<decisions, warned>>, resources \subseteq resources',
         \A r \in P!AgentRuns : advised[r] \subseteq advised'[r]
  PROVE  Remembered' /\ P!WarnedOnce' /\ decisions' \in Seq(Warnings)
<1>1. decisions \in Seq(Warnings) /\ Remembered /\ P!WarnedOnce BY DEF WatchInv, WatchTypes
<1>2. \A i \in DOMAIN decisions : decisions[i].run \in P!AgentRuns
  <2>1. \A i \in DOMAIN decisions : decisions[i] \in Warnings BY <1>1
  <2>2. \A x \in Warnings : x.run \in P!AgentRuns BY DEF Warnings
  <2>3. QED BY <2>1, <2>2
<1>3. Remembered' BY <1>1, <1>2 DEF Remembered
<1>4. P!WarnedOnce' BY <1>1 DEF P!WarnedOnce
<1> QED BY <1>1, <1>3, <1>4

\* Something is said that was not remembered, and is.
LEMMA OnceSaid ==
  ASSUME WatchInv, NEW d \in Warnings, decisions' = Append(decisions, d),
         resources \subseteq resources', \A r \in P!AgentRuns : advised[r] \subseteq advised'[r],
         warned' = IF d.kind = "budget_warning" THEN warned \union {d.run} ELSE warned,
         d.kind = "budget_warning" => d.run \notin warned,
         d.kind = "cache_control_advice" =>
           d.about \subseteq advised'[d.run] /\ d.about \intersect advised[d.run] = {},
         d.kind = "cache_resource_created" => d.about \in resources' \ resources
  PROVE  Remembered' /\ P!WarnedOnce' /\ decisions' \in Seq(Warnings)
<1>1. decisions \in Seq(Warnings) /\ Remembered /\ P!WarnedOnce BY DEF WatchInv, WatchTypes
<1>2. /\ decisions' \in Seq(Warnings) /\ Len(decisions) \in Nat
      /\ DOMAIN decisions = 1..Len(decisions) /\ DOMAIN decisions' = 1..(Len(decisions) + 1)
      /\ \A i \in 1..Len(decisions) : decisions'[i] = decisions[i]
      /\ decisions'[Len(decisions) + 1] = d
  BY <1>1
<1>3. \A i \in DOMAIN decisions : decisions[i].run \in P!AgentRuns
  <2>1. \A i \in DOMAIN decisions : decisions[i] \in Warnings BY <1>1
  <2>2. \A x \in Warnings : x.run \in P!AgentRuns BY DEF Warnings
  <2>3. QED BY <2>1, <2>2
<1>4. PICK n \in Nat : n = Len(decisions) BY <1>2
<1>5. \A i \in DOMAIN decisions' : i \in 1..n \/ i = n + 1 BY <1>2, <1>4
<1>6. n + 1 \in DOMAIN decisions' /\ 1..n \subseteq DOMAIN decisions' BY <1>2, <1>4
<1>7. Remembered'
  <2>1. ASSUME NEW i \in DOMAIN decisions'
        PROVE  /\ decisions'[i].kind = "budget_warning" => decisions'[i].run \in warned'
               /\ decisions'[i].kind = "cache_control_advice" =>
                    decisions'[i].about \subseteq advised'[decisions'[i].run]
               /\ decisions'[i].kind = "cache_resource_created" =>
                    decisions'[i].about \in resources'
    <3>1. CASE i = n + 1 BY <1>2, <1>4, <3>1
    <3>2. CASE i \in 1..n
      <4>1. i \in DOMAIN decisions /\ decisions'[i] = decisions[i] BY <1>2, <1>4, <3>2
      <4>2. QED BY <1>1, <1>3, <4>1 DEF Remembered
    <3>3. QED BY <1>5, <3>1, <3>2
  <2>2. ASSUME NEW r \in warned'
        PROVE  \E i \in DOMAIN decisions' :
                 decisions'[i].run = r /\ decisions'[i].kind = "budget_warning"
    <3>1. CASE r \in warned
      <4>1. PICK i \in DOMAIN decisions :
              decisions[i].run = r /\ decisions[i].kind = "budget_warning"
        BY <1>1, <3>1 DEF Remembered
      <4>2. QED BY <1>2, <1>4, <1>6, <4>1
    <3>2. CASE r = d.run /\ d.kind = "budget_warning" BY <1>2, <1>4, <1>6, <3>2
    <3>3. QED BY <3>1, <3>2
  <2>3. QED BY <2>1, <2>2 DEF Remembered
<1>8. P!WarnedOnce'
  <2> DEFINE Apart(x, y) ==
        x.kind = y.kind =>
          CASE x.kind = "budget_warning" -> x.run # y.run
            [] x.kind = "cache_control_advice" ->
                 x.run # y.run \/ x.about \intersect y.about = {}
            [] x.kind = "cache_resource_created" -> x.about # y.about
            [] OTHER -> TRUE
  <2>1. ASSUME NEW i \in 1..n PROVE Apart(decisions[i], d) /\ Apart(d, decisions[i])
    <3>1. PICK x : x = decisions[i] OBVIOUS
    <3>2. /\ x.kind = "budget_warning" => x.run \in warned
          /\ x.kind = "cache_control_advice" => x.about \subseteq advised[x.run]
          /\ x.kind = "cache_resource_created" => x.about \in resources
      BY <1>1, <1>2, <1>4, <3>1 DEF Remembered
    <3>3. Apart(x, d) /\ Apart(d, x) BY <3>2
    <3>4. QED BY <3>1, <3>3
  <2>2. ASSUME NEW i \in DOMAIN decisions', NEW j \in DOMAIN decisions', i # j
        PROVE  Apart(decisions'[i], decisions'[j])
    <3>1. CASE i \in 1..n /\ j \in 1..n
      <4>1. Apart(decisions[i], decisions[j]) BY <1>1, <1>2, <1>4, <2>2, <3>1 DEF P!WarnedOnce
      <4>2. QED BY <1>2, <1>4, <3>1, <4>1
    <3>2. CASE i \in 1..n /\ j = n + 1 BY <1>2, <1>4, <2>1, <3>2
    <3>3. CASE j \in 1..n /\ i = n + 1 BY <1>2, <1>4, <2>1, <3>3
    <3>4. QED BY <1>5, <2>2, <3>1, <3>2, <3>3
  <2>3. QED BY <2>2 DEF P!WarnedOnce
<1> QED BY <1>2, <1>7, <1>8

LEMMA Advising ==
  ASSUME WatchInv, PolicyInv, NEW t \in Threads, NEW blocks \in SUBSET Advice,
         P!Advise(t, blocks), UNCHANGED <<warned, resources>>
  PROVE  /\ Remembered' /\ P!WarnedOnce' /\ decisions' \in Seq(Warnings)
         /\ advised' \in [P!AgentRuns -> SUBSET Advice]
<1>1. home[t] \in P!AgentRuns /\ advised \in [P!AgentRuns -> SUBSET Advice]
  BY RunOfThread DEF PolicyInv, WatchInv, WatchTypes
<1>2. advised' = [advised EXCEPT ![home[t]] = @ \union blocks] BY DEF P!Advise
<1>3. /\ advised' \in [P!AgentRuns -> SUBSET Advice]
      /\ advised'[home[t]] = advised[home[t]] \union blocks
      /\ \A r \in P!AgentRuns : advised[r] \subseteq advised'[r]
  BY <1>1, <1>2
<1>4. CASE UNCHANGED decisions BY <1>3, <1>4, NothingSaid
<1>5. CASE P!Warn(t, "cache_control_advice", blocks \ advised[home[t]])
  <2>1. PICK fresh \in SUBSET Advice : fresh = blocks \ advised[home[t]] OBVIOUS
  <2>2. PICK d : d = [run |-> home[t], kind |-> "cache_control_advice", about |-> fresh] OBVIOUS
  <2>3. d \in Warnings BY <1>1, <2>2 DEF Warnings, Topics
  <2>4. decisions' = Append(decisions, d) BY <1>5, <2>1, <2>2 DEF P!Warn
  <2>5. /\ d.kind = "cache_control_advice" /\ d.run = home[t] /\ d.about = fresh
    BY <2>2
  <2>6. fresh \subseteq advised'[home[t]] /\ fresh \intersect advised[home[t]] = {}
    BY <1>3, <2>1
  <2>7. QED BY <1>3, <2>3, <2>4, <2>5, <2>6, OnceSaid
<1> QED BY <1>3, <1>4, <1>5 DEF P!Advise

LEMMA SameCardinality == \A set : P!Cardinality(set) = Cardinality(set)
  BY Zenon DEF P!Cardinality, Cardinality

\* The window of a run, whose first entry is in it.
LEMMA WindowKept ==
  ASSUME NEW clock \in Nat, NEW s \in Seq(0..clock), s # <<>>, NEW start \in Int,
         s[Len(s)] >= start
  PROVE  /\ P!Expire(s, start) \in Seq(0..clock) /\ P!Expire(s, start) # <<>>
         /\ P!Expire(s, start)[1] >= start
         /\ P!Expire(s, start)[Len(P!Expire(s, start))] = s[Len(s)]
<1>1. PICK n \in Nat : n = Len(s) /\ n > 0 /\ DOMAIN s = 1..n
  OBVIOUS
<1> DEFINE kept == {i \in DOMAIN s : \E j \in 1..i : s[j] >= start}
           live == {i \in DOMAIN s : s[i] >= start}
<1>2. live \subseteq Nat /\ n \in live BY <1>1
<1>3. PICK first \in live : \A i \in live : first <= i
  BY <1>2, Least
<1>4. /\ first \in Nat /\ first \in 1..n /\ s[first] >= start
      /\ \A i \in DOMAIN s : s[i] >= start => first <= i
  BY <1>1, <1>3
<1>5. kept = first..n
  <2>1. ASSUME NEW i \in kept PROVE i \in first..n
    <3>1. PICK j \in 1..i : s[j] >= start BY <2>1
    <3>2. i \in 1..n /\ j \in DOMAIN s /\ j <= i BY <1>1, <2>1, <3>1
    <3>3. QED BY <1>4, <3>1, <3>2
  <2>2. ASSUME NEW i \in first..n PROVE i \in kept
    <3>1. i \in DOMAIN s /\ first \in 1..i BY <1>1, <1>4
    <3>2. QED BY <1>4, <3>1
  <2>3. QED BY <2>1, <2>2
<1>6. Cardinality(first..n) = n - first + 1 BY <1>4, FS_Interval
<1>7. P!Expire(s, start) = SubSeq(s, n - Cardinality(kept) + 1, n)
  <2>1. P!Expire(s, start) = SubSeq(s, Len(s) - P!Cardinality(kept) + 1, Len(s))
    BY Zenon DEF P!Expire
  <2>2. QED BY <1>1, <2>1, SameCardinality
<1> HIDE DEF kept, live
<1>8. n - Cardinality(kept) + 1 = first BY <1>4, <1>5, <1>6
<1>9. PICK w : w = SubSeq(s, first, n) OBVIOUS
<1>10. PICK m \in Nat : m = n - first + 1 /\ m > 0 /\ first + m - 1 = n BY <1>4
<1>11. /\ w \in Seq(0..clock) /\ Len(w) = m
       /\ \A i \in 1..m : w[i] = s[first + i - 1]
  <2>1. w \in Seq(0..clock) BY <1>1, <1>4, <1>9
  <2>2. Len(w) = m /\ \A i \in 1..m : w[i] = s[first + i - 1]
    BY <1>1, <1>4, <1>9, <1>10, SMTT(30)
  <2>3. QED BY <2>1, <2>2
<1>12. w # <<>> /\ w[1] = s[first] /\ w[m] = s[n]
  <2>1. w[1] = s[first + 1 - 1] /\ w[m] = s[first + m - 1] BY <1>10, <1>11
  <2>2. first + 1 - 1 = first BY <1>4
  <2>3. QED BY <1>10, <1>11, <2>1, <2>2
<1> QED BY <1>1, <1>4, <1>7, <1>8, <1>9, <1>11, <1>12

\* What is left to show of a step that pays nothing.
LEMMA WatchKept ==
  ASSUME WatchInv, WatchGiven,
         \A u \in Threads : Follows(u)', \A r : Owing(r)' \subseteq Owing(r),
         UNCHANGED <<now, lineUp, registered, dispatched, totals>>,
         warned' \subseteq P!AgentRuns, bursts' \subseteq P!AgentRuns,
         retries' \in [P!AgentRuns -> Seq(0..lineUp.clock)],
         advised' \in [P!AgentRuns -> SUBSET Advice],
         Remembered', P!WarnedOnce', decisions' \in Seq(Warnings), P!WindowHoldsOnlyRecent'
  PROVE  WatchInv'
<1>1. WatchTypes' BY DEF WatchInv, WatchTypes
<1>2. Once(registered)' BY DEF WatchInv
<1>3. \A r \in P!AgentRuns : Paid(r)' BY PaidOn
<1> QED BY <1>1, <1>2, <1>3 DEF WatchInv

LEMMA WindowStays ==
  ASSUME WatchInv, UNCHANGED retries PROVE P!WindowHoldsOnlyRecent'
  BY DEF WatchInv, P!WindowHoldsOnlyRecent, P!Sorted

LEMMA QuietHook ==
  ASSUME WatchInv, PolicyInv, WatchGiven, NEW t \in Threads, Popped(t),
         dispatch[t].pc = "after" \/ Head(dispatch[t].todo) # "budget",
         UNCHANGED <<now, lineUp, home, registered, dispatched, totals, warned, bursts, retries,
                     advised, resources, decisions>>
  PROVE  WatchInv'
<1>1. WatchTypes BY DEF WatchInv
<1>2. Forward(t) BY <1>1 DEF Forward, Popped, WatchTypes
<1>3. (\A u \in Threads : Follows(u)') /\ \A r : Owing(r)' \subseteq Owing(r)
  BY <1>2, PoppedFollows
<1>4. Remembered' /\ P!WarnedOnce' /\ decisions' \in Seq(Warnings) BY NothingSaid
<1> QED BY <1>1, <1>3, <1>4, WindowStays, WatchKept DEF WatchTypes

LEMMA QuietHooks ==
  ASSUME WatchInv, PolicyInv, WatchGiven, NEW t \in Threads,
         P!Custom(t) \/ P!ThrottleAfter(t) \/ P!PlacerAfter(t)
  PROVE  WatchInv'
<1>1. /\ P!Next_(t) /\ dispatch[t].pc \in {"before", "after"} /\ dispatch[t].todo # <<>>
      /\ dispatch[t].pc = "after" \/ Head(dispatch[t].todo) # "budget"
  BY DEF P!Custom, P!ThrottleAfter, P!PlacerAfter, P!Hook, P!Allow
<1>2. UNCHANGED <<now, lineUp, home, registered, dispatched, totals, warned, bursts, retries,
                  advised, resources, decisions>>
  BY DEF P!Custom, P!ThrottleAfter, P!PlacerAfter, P!Allow, P!settingVars, P!policyVars,
         P!budgetVars, P!throttleVars, P!placerVars
<1> QED BY <1>1, <1>2, PopsHook, QuietHook

LEMMA BudgetHook ==
  ASSUME WatchInv, PolicyInv, WatchGiven, NEW t \in Threads, P!BudgetBefore(t)
  PROVE  WatchInv'
<1>1. WatchTypes /\ home[t] \in P!AgentRuns
  BY RunOfThread DEF WatchInv, PolicyInv
<1>2. /\ P!Next_(t) /\ dispatch[t].pc = "before" /\ dispatch[t].todo # <<>>
  BY DEF P!BudgetBefore, P!Hook, P!Allow
<1>3. UNCHANGED <<now, lineUp, home, registered, dispatched, totals, bursts, retries,
                  advised, resources>>
  BY DEF P!BudgetBefore, P!settingVars, P!throttleVars, P!placerVars
<1>4. Popped(t) BY <1>2, PopsHook
<1>5. /\ warned \subseteq warned' /\ warned' \subseteq P!AgentRuns
      /\ totals[home[t]] > MaxNd => home[t] \in warned'
  BY <1>1 DEF P!BudgetBefore, WatchTypes
<1>6. Forward(t) BY <1>1, <1>3, <1>4, <1>5 DEF Forward, Popped, WatchTypes
<1>7. (\A u \in Threads : Follows(u)') /\ \A r : Owing(r)' \subseteq Owing(r)
  BY <1>4, <1>5, <1>6, PoppedFollows
<1>8. Remembered' /\ P!WarnedOnce' /\ decisions' \in Seq(Warnings)
  <2>1. CASE UNCHANGED <<decisions, warned>> BY <1>3, <2>1, NothingSaid
  <2>2. CASE /\ home[t] \notin warned /\ warned' = warned \union {home[t]}
             /\ P!Warn(t, "budget_warning", None)
    <3>1. PICK d : d = [run |-> home[t], kind |-> "budget_warning", about |-> None] OBVIOUS
    <3>2. d \in Warnings BY <1>1, <3>1 DEF Warnings, Topics
    <3>3. decisions' = Append(decisions, d) BY <2>2, <3>1 DEF P!Warn
    <3>4. d.kind = "budget_warning" /\ d.run = home[t] BY <3>1
    <3>5. QED BY <1>3, <2>2, <3>2, <3>3, <3>4, OnceSaid
  <2>3. QED BY <2>1, <2>2 DEF P!BudgetBefore, P!Allow
<1> QED BY <1>1, <1>3, <1>5, <1>7, <1>8, WindowStays, WatchKept DEF WatchTypes

\* The price of a call is paid by one who owed it.
LEMMA PaysHook ==
  ASSUME WatchInv, PolicyInv, WatchGiven, NEW t \in Threads, P!BudgetAfter(t)
  PROVE  WatchInv'
<1>1. WatchTypes /\ home[t] \in P!AgentRuns /\ Cost \in Nat
  BY RunOfThread DEF WatchInv, PolicyInv, WatchGiven, P!BoundsAssumption
<1>2. /\ P!Next_(t) /\ dispatch[t].pc = "after" /\ dispatch[t].todo # <<>>
      /\ Head(dispatch[t].todo) = "budget"
  BY DEF P!BudgetAfter, P!Hook, P!Allow
<1>3. /\ UNCHANGED <<now, lineUp, home, registered, dispatched, warned, bursts, retries,
                     advised, resources, decisions>>
      /\ totals' = [totals EXCEPT ![home[t]] = @ + Cost]
  BY DEF P!BudgetAfter, P!Allow, P!settingVars, P!throttleVars, P!placerVars
<1>4. Popped(t) BY <1>2, PopsHook
<1>5. /\ totals' \in [P!AgentRuns -> Nat] /\ totals'[home[t]] = totals[home[t]] + Cost
      /\ \A r \in P!AgentRuns : r # home[t] => totals'[r] = totals[r]
      /\ \A r \in P!AgentRuns : totals'[r] \in Nat /\ totals'[r] >= totals[r]
  BY <1>1, <1>3 DEF WatchTypes
<1>6. Forward(t) BY <1>3, <1>4, <1>5 DEF Forward, Popped
<1>7. (\A u \in Threads : Follows(u)') /\ \A r : Owing(r)' \subseteq Owing(r)
  BY <1>2, <1>4, <1>6, PoppedFollows
<1>8. Remembered' /\ P!WarnedOnce' /\ decisions' \in Seq(Warnings)
  BY <1>3, NothingSaid
<1>9. WatchTypes' BY <1>1, <1>3, <1>5 DEF WatchTypes
<1>10. t \in Owing(home[t]) /\ t \notin Owing(home[t])'
  <2>1. dispatch[t] \in Dispatches /\ Follows(t) BY DEF PolicyInv, PolicyTypes, WatchInv
  <2>2. PICK s \in Seq(P!Policies) : s = dispatch[t].todo BY <2>1 DEF Dispatches
  <2>3. Lists(s, "budget") /\ ~Lists(Tail(s), "budget")
    BY <1>2, <2>1, <2>2, AfterHead DEF Follows
  <2>4. dispatch'[t].pc = "after" /\ dispatch'[t].todo = Tail(s)
    BY <1>2, <1>4, <2>2 DEF Popped
  <2>5. QED BY <1>2, <2>2, <2>3, <2>4 DEF Owing
<1>11. ASSUME NEW r \in P!AgentRuns PROVE Paid(r)'
  <2>1. PICK n \in Nat : totals[r] = n * Cost /\ n + Cardinality(Owing(r)) <= dispatched
    BY DEF WatchInv, Paid
  <2>2. PICK still : still = Owing(r)' OBVIOUS
  <2>3. /\ still \subseteq Owing(r) /\ Cardinality(still) \in Nat /\ Cardinality(Owing(r)) \in Nat
        /\ Cardinality(still) <= Cardinality(Owing(r)) /\ IsFiniteSet(still)
    BY <1>7, <2>2, OwingFinite
  <2>4. dispatched \in Nat BY <1>1 DEF WatchTypes, WatchGiven, P!BoundsAssumption
  <2>5. CASE r = home[t]
    <3>1. Cardinality(still \union {t}) = Cardinality(still) + 1
      <4>1. t \notin still BY <1>3, <1>10, <2>2, <2>5 DEF Owing
      <4>2. QED BY <2>3, <4>1, FS_AddElement
    <3>2. still \union {t} \subseteq Owing(r) BY <1>10, <2>3, <2>5
    <3>3. Cardinality(still) + 1 <= Cardinality(Owing(r)) BY <3>1, <3>2, OwingFinite
    <3>4. (n + 1) + Cardinality(still) <= dispatched /\ n + 1 \in Nat BY <2>1, <2>3, <2>4, <3>3
    <3>5. totals'[r] = (n + 1) * Cost BY <1>1, <1>5, <2>1, <2>5
    <3>6. QED BY <1>3, <2>2, <3>4, <3>5 DEF Paid
  <2>6. CASE r # home[t]
    <3>1. n + Cardinality(still) <= dispatched BY <2>1, <2>3, <2>4
    <3>2. QED BY <1>3, <1>5, <2>1, <2>2, <2>6, <3>1 DEF Paid
  <2>7. QED BY <2>5, <2>6
<1>12. Once(registered)' BY <1>3 DEF WatchInv
<1> QED BY <1>3, <1>7, <1>8, <1>9, <1>11, <1>12, WindowStays DEF WatchInv

LEMMA ThrottleClockRead ==
  ASSUME WatchInv, PolicyInv, WatchGiven, NEW t \in Threads, P!ThrottleClock(t)
  PROVE  WatchInv'
<1>1. WatchTypes /\ dispatch[t] \in Dispatches BY DEF WatchInv, PolicyInv, PolicyTypes
<1>2. dispatch[t].pc = "before" BY DEF P!ThrottleClock, P!Hook
<1>3. UNCHANGED <<now, lineUp, home, registered, dispatched, totals, warned, bursts, retries,
                  advised, resources, decisions>>
  BY DEF P!ThrottleClock, P!settingVars, P!policyVars, P!budgetVars, P!throttleVars, P!placerVars
<1>4. /\ dispatch'[t].pc = "before" /\ dispatch'[t].req = dispatch[t].req
      /\ dispatch'[t].todo = dispatch[t].todo /\ dispatch'[t].over = dispatch[t].over
      /\ dispatch'[t].stamp = now
      /\ \A u \in Threads \ {t} : dispatch'[u] = dispatch[u]
  <2>1. PICK o : o = [dispatch[t] EXCEPT !.stamp = now] OBVIOUS
  <2>2. dispatch' = [dispatch EXCEPT ![t] = o]
    BY <2>1 DEF P!ThrottleClock, PolicyInv, PolicyTypes
  <2>3. /\ o.pc = dispatch[t].pc /\ o.req = dispatch[t].req /\ o.todo = dispatch[t].todo
        /\ o.over = dispatch[t].over /\ o.stamp = now
    BY <1>1, <2>1 DEF Dispatches
  <2>4. dispatch'[t] = o /\ \A u \in Threads \ {t} : dispatch'[u] = dispatch[u]
    BY <2>2 DEF PolicyInv, PolicyTypes
  <2>5. QED BY <1>2, <2>3, <2>4
<1>5. Forward(t) BY <1>1, <1>3, <1>4 DEF Forward, WatchTypes
<1>6. now \in 0..lineUp.clock BY <1>1 DEF WatchTypes
<1>7. (\A u \in Threads : Follows(u)') /\ \A r : Owing(r)' \subseteq Owing(r)
  BY <1>2, <1>4, <1>5, <1>6, PhaseFollows
<1>8. Remembered' /\ P!WarnedOnce' /\ decisions' \in Seq(Warnings)
  BY <1>3, NothingSaid
<1> QED BY <1>1, <1>3, <1>7, <1>8, WindowStays, WatchKept DEF WatchTypes

\* A window that is in order begins with its oldest entry.
LEMMA WindowRecent ==
  ASSUME WatchInv, PolicyInv, WatchGiven, NEW r \in P!AgentRuns, NEW w \in Seq(0..lineUp.clock),
         w # <<>>, w[1] >= w[Len(w)] - Window, retries' = [retries EXCEPT ![r] = w]
  PROVE  P!WindowHoldsOnlyRecent'
<1> SUFFICES ASSUME NEW q \in P!AgentRuns, P!Sorted(retries'[q]), NEW i \in DOMAIN retries'[q]
             PROVE  retries'[q][i] >= retries'[q][Len(retries'[q])] - Window
  BY DEF P!WindowHoldsOnlyRecent, P!Sorted
<1>1. retries \in [P!AgentRuns -> Seq(0..lineUp.clock)] BY DEF WatchInv, WatchTypes
<1>2. CASE q # r
  BY <1>1, <1>2 DEF WatchInv, P!WindowHoldsOnlyRecent
<1>3. CASE q = r
  <2>1. retries'[q] = w BY <1>1, <1>3
  <2>2. PICK n \in Nat : n = Len(w) /\ n > 0 /\ DOMAIN w = 1..n OBVIOUS
  <2>3. lineUp.clock \in Nat /\ Window \in Nat
    BY DEF PolicyInv, PolicyTypes, WatchGiven, P!LineUpsAssumption, P!BoundsAssumption
  <2>4. i \in 1..n /\ 1 \in 1..n /\ n \in 1..n BY <2>1, <2>2
  <2>5. w[i] \in 0..lineUp.clock /\ w[1] \in 0..lineUp.clock /\ w[n] \in 0..lineUp.clock
    <3>1. PICK T : T = 0..lineUp.clock OBVIOUS
    <3>2. w \in Seq(T) BY <3>1
    <3>3. w[i] \in T /\ w[1] \in T /\ w[n] \in T BY <2>2, <2>4, <3>2
    <3>4. QED BY <3>1, <3>3
  <2>6. w[1] <= w[i]
    <3>1. CASE i = 1 BY <2>3, <2>5, <3>1
    <3>2. CASE i # 1 BY <2>1, <2>2, <2>4, <3>2 DEF P!Sorted
    <3>3. QED BY <3>1, <3>2
  <2>7. QED BY <2>1, <2>2, <2>3, <2>5, <2>6
<1> QED BY <1>2, <1>3

LEMMA ThrottleHook ==
  ASSUME WatchInv, PolicyInv, WatchGiven, NEW t \in Threads, P!ThrottleBefore(t)
  PROVE  WatchInv'
<1>1. WatchTypes /\ home[t] \in P!AgentRuns /\ lineUp.clock \in Nat /\ Window \in Nat
  BY RunOfThread DEF WatchInv, PolicyInv, PolicyTypes, WatchGiven, P!LineUpsAssumption,
                     P!BoundsAssumption
<1>2. /\ P!Next_(t) /\ dispatch[t].pc = "before" /\ dispatch[t].todo # <<>>
      /\ Head(dispatch[t].todo) = "throttle"
  BY DEF P!ThrottleBefore, P!Hook, P!Allow
<1>3. UNCHANGED <<now, lineUp, home, registered, dispatched, totals, warned, advised, resources>>
  BY DEF P!ThrottleBefore, P!settingVars, P!budgetVars, P!placerVars
<1>4. Popped(t) BY <1>2, PopsHook
<1>5. Forward(t) BY <1>1, <1>3, <1>4 DEF Forward, Popped, WatchTypes
<1>6. (\A u \in Threads : Follows(u)') /\ \A r : Owing(r)' \subseteq Owing(r)
  BY <1>2, <1>4, <1>5, PoppedFollows
<1>7. bursts' \subseteq P!AgentRuns BY <1>1 DEF P!ThrottleBefore, WatchTypes
<1>8. PICK w : w = P!Expire(Append(retries[home[t]], dispatch[t].stamp),
                            dispatch[t].stamp - Window)
  OBVIOUS
<1>9. ASSUME dispatch[t].req.retry
      PROVE  w \in Seq(0..lineUp.clock) /\ w # <<>> /\ w[1] >= w[Len(w)] - Window
  <2>1. PICK stamp \in 0..lineUp.clock : stamp = dispatch[t].stamp
    BY <1>9 DEF P!ThrottleBefore, WatchInv, Follows
  <2>2. PICK s : s = Append(retries[home[t]], stamp) OBVIOUS
  <2>3. s \in Seq(0..lineUp.clock) /\ s # <<>> /\ s[Len(s)] = stamp
    <3>1. PICK seen \in Seq(0..lineUp.clock) : seen = retries[home[t]]
      BY <1>1 DEF WatchTypes
    <3>2. QED BY <2>2, <3>1
  <2>4. PICK start \in Int : start = stamp - Window BY <1>1
  <2>5. s[Len(s)] >= start BY <1>1, <2>3, <2>4
  <2>6. /\ P!Expire(s, start) \in Seq(0..lineUp.clock) /\ P!Expire(s, start) # <<>>
        /\ P!Expire(s, start)[1] >= start
        /\ P!Expire(s, start)[Len(P!Expire(s, start))] = s[Len(s)]
    <3>1. PICK clock \in Nat : clock = lineUp.clock BY <1>1
    <3>2. s \in Seq(0..clock) BY <2>3, <3>1
    <3>3. QED BY <2>3, <2>5, <3>1, <3>2, WindowKept
  <2>7. w = P!Expire(s, start) BY <1>8, <2>1, <2>2, <2>4
  <2>8. QED BY <2>3, <2>4, <2>6, <2>7
<1>10. /\ retries' \in [P!AgentRuns -> Seq(0..lineUp.clock)]
       /\ P!WindowHoldsOnlyRecent'
  <2>1. CASE UNCHANGED retries BY <1>1, <1>3, <2>1, WindowStays DEF WatchTypes
  <2>2. CASE dispatch[t].req.retry /\ retries' = [retries EXCEPT ![home[t]] = w]
    <3>1. retries' \in [P!AgentRuns -> Seq(0..lineUp.clock)]
      BY <1>1, <1>9, <2>2 DEF WatchTypes
    <3>2. QED BY <1>1, <1>9, <2>2, <3>1, WindowRecent
  <2>3. QED BY <1>8, <2>1, <2>2 DEF P!ThrottleBefore
<1>11. Remembered' /\ P!WarnedOnce' /\ decisions' \in Seq(Warnings)
  <2>1. CASE UNCHANGED decisions BY <1>3, <2>1, NothingSaid
  <2>2. CASE dispatch[t].req.retry /\ P!Warn(t, "retry_throttle", Len(w))
    <3>1. Len(w) \in Nat BY <1>9, <2>2
    <3>2. PICK d : d = [run |-> home[t], kind |-> "retry_throttle", about |-> Len(w)] OBVIOUS
    <3>3. d \in Warnings BY <1>1, <3>1, <3>2 DEF Warnings, Topics
    <3>4. decisions' = Append(decisions, d) BY <2>2, <3>2 DEF P!Warn
    <3>5. d.kind = "retry_throttle" BY <3>2
    <3>6. QED BY <1>3, <3>3, <3>4, <3>5, OnceSaid
  <2>3. QED BY <1>8, <2>1, <2>2 DEF P!ThrottleBefore, P!Allow
<1>12. warned' \subseteq P!AgentRuns /\ advised' \in [P!AgentRuns -> SUBSET Advice]
  BY <1>1, <1>3 DEF WatchTypes
<1> QED BY <1>3, <1>6, <1>7, <1>10, <1>11, <1>12, WatchKept

LEMMA PlacerHook ==
  ASSUME WatchInv, PolicyInv, WatchGiven, NEW t \in Threads, P!PlacerBefore(t)
  PROVE  WatchInv'
<1>1. WatchTypes /\ Follows(t) BY DEF WatchInv
<1>2. /\ P!Next_(t) /\ dispatch[t].pc = "before" /\ dispatch[t].todo # <<>>
      /\ Head(dispatch[t].todo) = "placer"
  BY DEF P!PlacerBefore, P!Hook, P!Allow
<1>3. UNCHANGED <<now, lineUp, home, registered, dispatched, totals, warned, bursts, retries,
                  resources>>
  BY DEF P!PlacerBefore, P!settingVars, P!budgetVars, P!throttleVars
<1>4. Popped(t) BY <1>2, PopsHook
<1>5. CASE UNCHANGED <<decisions, advised>> BY <1>2, <1>3, <1>4, <1>5, QuietHook
<1>6. CASE P!Advise(t, dispatch[t].req.unmarked)
  <2>1. dispatch[t].req.unmarked \in SUBSET Advice
    BY <1>1, <1>2 DEF Follows, PolicyInv, PolicyTypes, WatchGiven, P!RequestsAssumption, Advice
  <2>2. /\ Remembered' /\ P!WarnedOnce' /\ decisions' \in Seq(Warnings)
        /\ advised' \in [P!AgentRuns -> SUBSET Advice]
    BY <1>3, <1>6, <2>1, Advising
  <2>3. Forward(t) BY <1>1, <1>3, <1>4 DEF Forward, Popped, WatchTypes
  <2>4. (\A u \in Threads : Follows(u)') /\ \A r : Owing(r)' \subseteq Owing(r)
    BY <1>2, <1>4, <2>3, PoppedFollows
  <2>5. QED BY <1>1, <1>3, <2>2, <2>4, WindowStays, WatchKept DEF WatchTypes
<1> QED BY <1>5, <1>6 DEF P!PlacerBefore, P!Allow

LEMMA PhaseSet ==
  ASSUME PolicyInv, NEW t \in Threads, NEW p \in Phases, dispatch' = [dispatch EXCEPT ![t].pc = p]
  PROVE  /\ dispatch'[t].pc = p /\ dispatch'[t].req = dispatch[t].req
         /\ dispatch'[t].todo = dispatch[t].todo /\ dispatch'[t].over = dispatch[t].over
         /\ dispatch'[t].stamp = dispatch[t].stamp
         /\ \A u \in Threads \ {t} : dispatch'[u] = dispatch[u]
<1>1. dispatch[t] \in Dispatches BY DEF PolicyInv, PolicyTypes
<1>2. PICK o : o = [dispatch[t] EXCEPT !.pc = p] OBVIOUS
<1>3. dispatch' = [dispatch EXCEPT ![t] = o]
  BY <1>2 DEF PolicyInv, PolicyTypes
<1>4. /\ o.pc = p /\ o.req = dispatch[t].req /\ o.todo = dispatch[t].todo
      /\ o.over = dispatch[t].over /\ o.stamp = dispatch[t].stamp
  BY <1>1, <1>2 DEF Dispatches
<1>5. dispatch'[t] = o /\ \A u \in Threads \ {t} : dispatch'[u] = dispatch[u]
  BY <1>3 DEF PolicyInv, PolicyTypes
<1> QED BY <1>4, <1>5

\* A call goes on with the hooks it has.
LEMMA PhasePassed ==
  ASSUME WatchInv, PolicyInv, WatchGiven, NEW t \in Threads,
         dispatch[t].pc # "idle", dispatch[t].pc # "after",
         dispatch'[t].pc \in {"creating", "storing", "answered", "read"},
         dispatch'[t].req = dispatch[t].req, dispatch'[t].todo = dispatch[t].todo,
         dispatch'[t].over = dispatch[t].over, dispatch'[t].stamp = dispatch[t].stamp,
         \A u \in Threads \ {t} : dispatch'[u] = dispatch[u],
         dispatch'[t].pc \in {"creating", "storing"} =>
           dispatch[t].todo # <<>> /\ Head(dispatch[t].todo) = "placer",
         dispatch'[t].pc \in {"answered", "read"} =>
           dispatch[t].todo = <<>> \/ dispatch[t].pc = "answered",
         UNCHANGED <<now, lineUp, home, registered, dispatched, totals, warned, bursts, retries,
                     advised, resources, decisions>>
  PROVE  WatchInv'
<1>1. WatchTypes /\ Follows(t) BY DEF WatchInv
<1>2. Forward(t) BY <1>1 DEF Forward, WatchTypes
<1>3. dispatch'[t].stamp \in (0..lineUp.clock) \union {None} BY <1>1 DEF Follows
<1>4. (\A u \in Threads : Follows(u)') /\ \A r : Owing(r)' \subseteq Owing(r)
  BY <1>2, <1>3, PhaseFollows
<1>5. Remembered' /\ P!WarnedOnce' /\ decisions' \in Seq(Warnings) BY NothingSaid
<1> QED BY <1>1, <1>4, <1>5, WindowStays, WatchKept DEF WatchTypes

\* The placer advises instead of creating a resource.
LEMMA AdvisedOfResource ==
  ASSUME WatchInv, PolicyInv, WatchGiven, NEW t \in Threads, Popped(t),
         Head(dispatch[t].todo) = "placer", P!Advise(t, {"cache_resource"}),
         UNCHANGED <<now, lineUp, home, registered, dispatched, totals, warned, bursts, retries,
                     resources>>
  PROVE  WatchInv'
<1>1. WatchTypes BY DEF WatchInv
<1>2. {"cache_resource"} \in SUBSET Advice BY DEF Advice
<1>3. /\ Remembered' /\ P!WarnedOnce' /\ decisions' \in Seq(Warnings)
      /\ advised' \in [P!AgentRuns -> SUBSET Advice]
  BY <1>2, Advising
<1>4. Forward(t) BY <1>1 DEF Forward, Popped, WatchTypes
<1>5. (\A u \in Threads : Follows(u)') /\ \A r : Owing(r)' \subseteq Owing(r)
  BY <1>4, PoppedFollows
<1> QED BY <1>1, <1>3, <1>5, WindowStays, WatchKept DEF WatchTypes

LEMMA ResourceLookedUp ==
  ASSUME WatchInv, PolicyInv, WatchGiven, NEW t \in Threads, P!LookUpResource(t)
  PROVE  WatchInv'
<1>1. dispatch[t] \in Dispatches BY DEF PolicyInv, PolicyTypes
<1>2. /\ dispatch[t].pc = "before" /\ dispatch[t].todo # <<>> /\ Head(dispatch[t].todo) = "placer"
  BY DEF P!LookUpResource, P!Hook
<1>3. UNCHANGED <<now, lineUp, home, registered, dispatched, totals, warned, bursts, retries,
                  resources>>
  BY DEF P!LookUpResource, P!settingVars, P!budgetVars, P!throttleVars
<1>4. CASE /\ dispatch' = [dispatch EXCEPT ![t] = [P!Past(@) EXCEPT !.bound = TRUE]]
           /\ UNCHANGED <<advised, decisions>>
  <2>1. PICK c \in Dispatches :
          c = P!Past(dispatch[t]) /\ c.pc = "before" /\ c.creator = dispatch[t].creator
    BY <1>1, <1>2, PastTyped
  <2>2. dispatch[t].creator \in BOOLEAN BY <1>1 DEF Dispatches
  <2>3. [c EXCEPT !.bound = TRUE]
          = [c EXCEPT !.pc = "before", !.bound = TRUE, !.creator = dispatch[t].creator]
    BY <2>1 DEF Dispatches
  <2>4. dispatch' = [dispatch EXCEPT ![t] = [P!Past(@) EXCEPT
                       !.pc = "before", !.bound = TRUE, !.creator = dispatch[t].creator]]
    BY <1>4, <2>1, <2>3
  <2>5. Popped(t) BY <1>2, <2>2, <2>4, PopsPlacer
  <2>6. QED BY <1>2, <1>3, <1>4, <2>5, QuietHook
<1>5. CASE P!Advise(t, {"cache_resource"}) /\ P!Next_(t)
  <2>1. Popped(t) BY <1>2, <1>5, PopsHook
  <2>2. QED BY <1>2, <1>3, <1>5, <2>1, AdvisedOfResource
<1>6. CASE /\ dispatch' = [dispatch EXCEPT ![t].pc = "creating"]
           /\ UNCHANGED <<advised, decisions>>
  <2>1. "creating" \in Phases BY DEF Phases
  <2>2. QED BY <1>2, <1>3, <1>6, <2>1, PhaseSet, PhasePassed
<1> QED BY <1>4, <1>5, <1>6 DEF P!LookUpResource

LEMMA ResourceCreated ==
  ASSUME WatchInv, PolicyInv, WatchGiven, NEW t \in Threads, P!CreateResource(t)
  PROVE  WatchInv'
<1>1. dispatch[t] \in Dispatches BY DEF PolicyInv, PolicyTypes
<1>2. /\ dispatch[t].pc = "creating"
      /\ UNCHANGED <<now, lineUp, home, registered, dispatched, totals, warned, bursts, retries,
                     resources>>
  BY DEF P!CreateResource, P!settingVars, P!budgetVars, P!throttleVars
<1>3. dispatch[t].todo # <<>> /\ Head(dispatch[t].todo) = "placer"
  BY <1>2 DEF WatchInv, Follows
<1>4. CASE /\ dispatch' = [dispatch EXCEPT ![t].pc = "storing"]
           /\ UNCHANGED <<advised, decisions>>
  <2>1. "storing" \in Phases BY DEF Phases
  <2>2. QED BY <1>2, <1>3, <1>4, <2>1, PhaseSet, PhasePassed
<1>5. CASE /\ dispatch' = [dispatch EXCEPT ![t] = [P!Past(@) EXCEPT !.pc = "before"]]
           /\ P!Advise(t, {"cache_resource"})
  <2>1. PICK c \in Dispatches : c = P!Past(dispatch[t]) BY <1>1, <1>3, PastTyped
  <2>2. c.bound \in BOOLEAN /\ c.creator \in BOOLEAN BY <2>1 DEF Dispatches
  <2>3. [c EXCEPT !.pc = "before"]
          = [c EXCEPT !.pc = "before", !.bound = c.bound, !.creator = c.creator]
    BY <2>1 DEF Dispatches
  <2>4. dispatch' = [dispatch EXCEPT ![t] = [P!Past(@) EXCEPT
                       !.pc = "before", !.bound = c.bound, !.creator = c.creator]]
    BY <1>5, <2>1, <2>3
  <2>5. Popped(t) BY <1>2, <1>3, <2>2, <2>4, PopsPlacer
  <2>6. QED BY <1>2, <1>3, <1>5, <2>5, AdvisedOfResource
<1> QED BY <1>4, <1>5 DEF P!CreateResource

LEMMA ResourceStored ==
  ASSUME WatchInv, PolicyInv, WatchGiven, NEW t \in Threads, P!StoreResource(t)
  PROVE  WatchInv'
<1>1. WatchTypes /\ Follows(t) /\ home[t] \in P!AgentRuns
  BY RunOfThread DEF WatchInv, PolicyInv
<1>2. /\ dispatch[t].pc = "storing"
      /\ UNCHANGED <<now, lineUp, home, registered, dispatched, totals, warned, bursts, retries,
                     advised>>
  BY DEF P!StoreResource, P!settingVars, P!budgetVars, P!throttleVars
<1>3. dispatch[t].todo # <<>> /\ Head(dispatch[t].todo) = "placer"
  BY <1>1, <1>2 DEF Follows
<1>4. PICK key : key = dispatch[t].req.prefix OBVIOUS
<1>5. PICK first \in BOOLEAN : first = (key \notin resources) OBVIOUS
<1>6. /\ resources' = resources \union {key}
      /\ IF first THEN P!Warn(t, "cache_resource_created", key) ELSE UNCHANGED decisions
      /\ dispatch' = [dispatch EXCEPT ![t] = [P!Past(@) EXCEPT
                        !.pc = "before", !.bound = TRUE, !.creator = first]]
  BY <1>4, <1>5 DEF P!StoreResource
<1>7. Popped(t) BY <1>2, <1>3, <1>6, PopsPlacer
<1>8. Forward(t) BY <1>1, <1>2, <1>7 DEF Forward, Popped, WatchTypes
<1>9. (\A u \in Threads : Follows(u)') /\ \A r : Owing(r)' \subseteq Owing(r)
  BY <1>3, <1>7, <1>8, PoppedFollows
<1>10. Remembered' /\ P!WarnedOnce' /\ decisions' \in Seq(Warnings)
  <2>1. CASE UNCHANGED decisions BY <1>2, <1>6, <2>1, NothingSaid
  <2>2. CASE first
    <3>1. dispatch[t].req \in Asked
      BY <1>1, <1>2 DEF Follows, PolicyInv, PolicyTypes, Asked
    <3>2. PICK d : d = [run |-> home[t], kind |-> "cache_resource_created", about |-> key]
      OBVIOUS
    <3>3. d \in Warnings
      <4>1. key \in Topics BY <1>4, <3>1 DEF Topics
      <4>2. QED BY <1>1, <3>2, <4>1 DEF Warnings
    <3>4. decisions' = Append(decisions, d) BY <1>6, <2>2, <3>2 DEF P!Warn
    <3>5. d.kind = "cache_resource_created" /\ d.about = key BY <3>2
    <3>6. QED BY <1>2, <1>5, <1>6, <2>2, <3>3, <3>4, <3>5, OnceSaid
  <2>3. QED BY <1>6, <2>1, <2>2
<1> QED BY <1>1, <1>2, <1>9, <1>10, WindowStays, WatchKept DEF WatchTypes

LEMMA RetrievalTagged ==
  ASSUME WatchInv, PolicyInv, WatchGiven, NEW t \in Threads, P!TagRetrieval(t)
  PROVE  WatchInv'
<1>1. UNCHANGED <<now, lineUp, home, registered, dispatch, dispatched, totals, warned, bursts,
                  retries, advised, resources, decisions>>
  BY DEF P!TagRetrieval, P!settingVars, P!policyVars, P!budgetVars, P!throttleVars,
         P!placerVars
<1>2. WatchTypes BY DEF WatchInv
<1>3. ASSUME NEW u \in Threads PROVE Follows(u)'
  <2>1. Follows(u) BY DEF WatchInv
  <2>2. QED BY <1>1, <2>1 DEF Follows
<1>4. \A r : Owing(r)' \subseteq Owing(r) BY <1>1 DEF Owing
<1>5. Remembered' /\ P!WarnedOnce' /\ decisions' \in Seq(Warnings) BY <1>1, NothingSaid
<1> QED BY <1>1, <1>2, <1>3, <1>4, <1>5, WindowStays, WatchKept DEF WatchTypes

LEMMA DispatchEnds ==
  ASSUME WatchInv, PolicyInv, WatchGiven, NEW t \in Threads,
         dispatch'[t] = P!Idle, \A u \in Threads \ {t} : dispatch'[u] = dispatch[u],
         UNCHANGED <<now, lineUp, home, registered, dispatched, totals, warned, bursts, retries,
                     advised, resources, decisions>>
  PROVE  WatchInv'
<1>1. WatchTypes BY DEF WatchInv
<1>2. Forward(t) BY <1>1 DEF Forward, WatchTypes
<1>3. (\A u \in Threads : Follows(u)') /\ \A r : Owing(r)' \subseteq Owing(r)
  BY <1>2, IdleFollows
<1>4. Remembered' /\ P!WarnedOnce' /\ decisions' \in Seq(Warnings) BY NothingSaid
<1> QED BY <1>1, <1>3, <1>4, WindowStays, WatchKept DEF WatchTypes

LEMMA ProviderAnswers ==
  ASSUME WatchInv, PolicyInv, WatchGiven, NEW t \in Threads, P!Provider(t)
  PROVE  WatchInv'
<1>1. dispatch[t] \in Dispatches BY DEF PolicyInv, PolicyTypes
<1>2. /\ dispatch[t].pc = "before" /\ dispatch[t].todo = <<>>
      /\ UNCHANGED <<now, lineUp, home, registered, dispatched, totals, warned, bursts, retries,
                     advised, resources, decisions>>
  BY DEF P!Provider, P!settingVars, P!policyVars, P!budgetVars, P!throttleVars, P!placerVars
<1>3. CASE dispatch' = [dispatch EXCEPT ![t].pc = "answered",
                          ![t].bound = @ /\ ~dispatch[t].req.override]
  <2>1. PICK bound \in BOOLEAN : bound = (dispatch[t].bound /\ ~dispatch[t].req.override)
    OBVIOUS
  <2>2. PICK o : o = [dispatch[t] EXCEPT !.pc = "answered", !.bound = bound] OBVIOUS
  <2>3. dispatch' = [dispatch EXCEPT ![t] = o]
    BY <1>1, <1>3, <2>1, <2>2 DEF PolicyInv, PolicyTypes, Dispatches
  <2>4. /\ o.pc = "answered" /\ o.req = dispatch[t].req /\ o.todo = dispatch[t].todo
        /\ o.over = dispatch[t].over /\ o.stamp = dispatch[t].stamp
    BY <1>1, <2>2 DEF Dispatches
  <2>5. dispatch'[t] = o /\ \A u \in Threads \ {t} : dispatch'[u] = dispatch[u]
    BY <2>3 DEF PolicyInv, PolicyTypes
  <2>6. QED BY <1>2, <2>4, <2>5, PhasePassed
<1>4. CASE dispatch' = [dispatch EXCEPT ![t] = P!Idle]
  <2>1. dispatch'[t] = P!Idle /\ \A u \in Threads \ {t} : dispatch'[u] = dispatch[u]
    BY <1>4 DEF PolicyInv, PolicyTypes
  <2>2. QED BY <1>2, <2>1, DispatchEnds
<1> QED BY <1>3, <1>4 DEF P!Provider

LEMMA MarkersRead ==
  ASSUME WatchInv, PolicyInv, WatchGiven, NEW t \in Threads, P!ReadMarkers(t)
  PROVE  WatchInv'
<1>1. dispatch[t] \in Dispatches BY DEF PolicyInv, PolicyTypes
<1>2. /\ dispatch[t].pc = "answered"
      /\ UNCHANGED <<now, lineUp, home, registered, dispatched, totals, warned, bursts, retries,
                     advised, resources, decisions>>
  BY DEF P!ReadMarkers, P!settingVars, P!policyVars, P!budgetVars, P!throttleVars, P!placerVars
<1>3. PICK o : o = [dispatch[t] EXCEPT !.pc = "read", !.saw = creation[home[t]],
                                       !.took = retrieved[home[t]]]
  OBVIOUS
<1>4. dispatch' = [dispatch EXCEPT ![t] = o]
  BY <1>1, <1>3 DEF P!ReadMarkers, PolicyInv, PolicyTypes, Dispatches
<1>5. /\ o.pc = "read" /\ o.req = dispatch[t].req /\ o.todo = dispatch[t].todo
      /\ o.over = dispatch[t].over /\ o.stamp = dispatch[t].stamp
  BY <1>1, <1>3 DEF Dispatches
<1>6. dispatch'[t] = o /\ \A u \in Threads \ {t} : dispatch'[u] = dispatch[u]
  BY <1>4 DEF PolicyInv, PolicyTypes
<1> QED BY <1>2, <1>5, <1>6, PhasePassed

\* The hooks after a call are those registered by then.
LEMMA MarkersCleared ==
  ASSUME WatchInv, PolicyInv, WatchGiven, NEW t \in Threads, P!ClearMarkers(t)
  PROVE  WatchInv'
<1>1. WatchTypes /\ Follows(t) /\ Once(registered) /\ dispatch[t] \in Dispatches
  BY DEF WatchInv, PolicyInv, PolicyTypes
<1>2. /\ dispatch[t].pc = "read"
      /\ UNCHANGED <<now, lineUp, home, registered, dispatched, totals, warned, bursts, retries,
                     advised, resources, decisions>>
  BY DEF P!ClearMarkers, P!settingVars, P!policyVars, P!budgetVars, P!throttleVars,
         P!placerVars
<1>3. PICK o : o = [dispatch[t] EXCEPT !.pc = "after", !.todo = registered] OBVIOUS
<1>4. dispatch' = [dispatch EXCEPT ![t] = o]
  BY <1>1, <1>3 DEF P!ClearMarkers, PolicyInv, PolicyTypes, Dispatches
<1>5. /\ o.pc = "after" /\ o.req = dispatch[t].req /\ o.todo = registered
      /\ o.over = dispatch[t].over /\ o.stamp = dispatch[t].stamp
  BY <1>1, <1>3 DEF Dispatches
<1>6. dispatch'[t] = o /\ \A u \in Threads \ {t} : dispatch'[u] = dispatch[u]
  BY <1>4 DEF PolicyInv, PolicyTypes
<1>7. Forward(t) BY <1>1, <1>2, <1>6 DEF Forward, WatchTypes
<1>8. Follows(t)' BY <1>1, <1>2, <1>5, <1>6 DEF Follows
<1>9. \A u \in Threads : Follows(u)' BY <1>7, <1>8, OthersFollow
<1>10. \A r : Owing(r)' \subseteq Owing(r) BY <1>2, <1>5, <1>6, <1>7, OwingLess
<1>11. Remembered' /\ P!WarnedOnce' /\ decisions' \in Seq(Warnings) BY <1>2, NothingSaid
<1> QED BY <1>1, <1>2, <1>9, <1>10, <1>11, WindowStays, WatchKept DEF WatchTypes

LEMMA DispatchOver ==
  ASSUME WatchInv, PolicyInv, WatchGiven, NEW t \in Threads, P!EndCall(t)
  PROVE  WatchInv'
<1>1. UNCHANGED <<now, lineUp, home, registered, dispatched, totals, warned, bursts, retries,
                  advised, resources, decisions>>
  BY DEF P!EndCall, P!settingVars, P!policyVars, P!budgetVars, P!throttleVars, P!placerVars
<1>2. dispatch'[t] = P!Idle /\ \A u \in Threads \ {t} : dispatch'[u] = dispatch[u]
  BY DEF P!EndCall, PolicyInv, PolicyTypes
<1> QED BY <1>1, <1>2, DispatchEnds

\* A call that begins owes its price, and asks of the budget it is over.
LEMMA CallBegins ==
  ASSUME WatchInv, PolicyInv, WatchGiven, NEW t \in Threads, NEW q \in lineUp.asks,
         P!BeginCall(t, q)
  PROVE  WatchInv'
<1>1. /\ WatchTypes /\ Once(registered) /\ dispatch \in [Threads -> Dispatches]
      /\ registered \in Seq(P!Policies) /\ q \in Asked
  BY DEF WatchInv, PolicyInv, PolicyTypes, Asked
<1>2. /\ dispatch[t].pc = "idle" /\ dispatched < MaxPolicyCalls /\ dispatched' = dispatched + 1
      /\ UNCHANGED <<now, lineUp, home, registered, totals, warned, bursts, retries, advised,
                     resources, decisions>>
  BY DEF P!BeginCall, P!settingVars, P!policyVars, P!budgetVars, P!throttleVars, P!placerVars
<1>3. PICK over \in BOOLEAN : over = (totals[home[t]] > MaxNd /\ P!Has("budget")) OBVIOUS
<1>4. PICK shared \in BOOLEAN : shared = (P!Beside(t) # {}) OBVIOUS
<1>5. PICK o : o = [P!Idle EXCEPT !.pc = "before", !.req = q, !.todo = registered, !.over = over,
                                  !.shared = shared]
  OBVIOUS
<1>6. /\ o.pc = "before" /\ o.req = q /\ o.todo = registered /\ o.over = over /\ o.stamp = None
  BY <1>5 DEF P!Idle
<1>7. dispatch' = [u \in Threads |->
        IF u = t THEN o
        ELSE IF u \in P!Beside(t) THEN [dispatch[u] EXCEPT !.shared = TRUE]
        ELSE dispatch[u]]
  BY <1>3, <1>4, <1>5 DEF P!BeginCall
<1>8. dispatch'[t] = o BY <1>7
<1>9. ASSUME NEW u \in Threads \ {t}
      PROVE  /\ dispatch'[u].pc = dispatch[u].pc /\ dispatch'[u].req = dispatch[u].req
             /\ dispatch'[u].todo = dispatch[u].todo /\ dispatch'[u].stamp = dispatch[u].stamp
             /\ dispatch'[u].over = dispatch[u].over
  <2>1. dispatch[u] \in Dispatches BY <1>1
  <2>2. dispatch'[u] = dispatch[u] \/ dispatch'[u] = [dispatch[u] EXCEPT !.shared = TRUE]
    BY <1>7
  <2>3. PICK c : c = [dispatch[u] EXCEPT !.shared = TRUE] OBVIOUS
  <2>4. /\ c.pc = dispatch[u].pc /\ c.req = dispatch[u].req /\ c.todo = dispatch[u].todo
        /\ c.stamp = dispatch[u].stamp /\ c.over = dispatch[u].over
    BY <2>1, <2>3 DEF Dispatches
  <2>5. QED BY <2>2, <2>3, <2>4
<1>10. Forward(t) BY <1>1, <1>2, <1>9 DEF Forward, WatchTypes
<1>11. Follows(t)'
  <2>1. P!Has("budget") => Lists(registered, "budget") BY DEF P!Has, Lists
  <2>2. QED BY <1>1, <1>2, <1>3, <1>6, <1>8, <2>1 DEF Follows
<1>12. \A u \in Threads : Follows(u)' BY <1>10, <1>11, OthersFollow
<1>13. ASSUME NEW r PROVE Owing(r)' \subseteq Owing(r) \union {t}
  <2>1. ASSUME NEW u \in Owing(r)', u # t PROVE u \in Owing(r)
    BY <1>2, <1>9, <2>1 DEF Owing
  <2>2. QED BY <2>1
<1>14. ASSUME NEW r \in P!AgentRuns PROVE Paid(r)'
  <2>1. PICK n \in Nat : totals[r] = n * Cost /\ n + Cardinality(Owing(r)) <= dispatched
    BY DEF WatchInv, Paid
  <2>2. PICK still : still = Owing(r)' OBVIOUS
  <2>3. IsFiniteSet(Owing(r)) /\ Cardinality(Owing(r)) \in Nat BY OwingFinite
  <2>4. /\ IsFiniteSet(Owing(r) \union {t}) /\ Cardinality(Owing(r) \union {t}) \in Nat
        /\ Cardinality(Owing(r) \union {t}) <= Cardinality(Owing(r)) + 1
    <3>1. PICK T : T = Owing(r) OBVIOUS
    <3>2. IsFiniteSet(T) /\ Cardinality(T) \in Nat BY <2>3, <3>1
    <3>3. /\ IsFiniteSet(T \union {t})
          /\ Cardinality(T \union {t}) = IF t \in T THEN Cardinality(T) ELSE Cardinality(T) + 1
      BY <3>2, FS_AddElement
    <3>4. QED BY <3>1, <3>2, <3>3
  <2>5. Cardinality(still) \in Nat /\ Cardinality(still) <= Cardinality(Owing(r) \union {t})
    <3>1. still \subseteq Owing(r) \union {t} BY <1>13, <2>2
    <3>2. QED BY <2>4, <3>1, FS_Subset, FS_CardinalityType
  <2>6. dispatched \in Nat BY <1>1 DEF WatchTypes, WatchGiven, P!BoundsAssumption
  <2>7. n + Cardinality(still) <= dispatched + 1 BY <2>1, <2>3, <2>4, <2>5, <2>6
  <2>8. QED BY <1>2, <2>1, <2>2, <2>7 DEF Paid
<1>15. WatchTypes'
  <2>1. dispatched + 1 \in 0..MaxPolicyCalls
    BY <1>1, <1>2 DEF WatchTypes, WatchGiven, P!BoundsAssumption
  <2>2. QED BY <1>1, <1>2, <2>1 DEF WatchTypes
<1>16. Remembered' /\ P!WarnedOnce' BY <1>2, NothingSaid
<1> QED BY <1>1, <1>2, <1>12, <1>14, <1>15, <1>16, WindowStays DEF WatchInv

\* Time passes, a policy is registered, or nothing happens.
LEMMA WatchAside ==
  ASSUME WatchInv, WatchGiven, UNCHANGED <<lineUp, home, dispatch, dispatched, totals, warned,
           bursts, retries, advised, resources, decisions>>,
         now' \in 0..lineUp.clock, Once(registered)'
  PROVE  WatchInv'
<1>1. WatchTypes' BY DEF WatchInv, WatchTypes
<1>2. ASSUME NEW u \in Threads PROVE Follows(u)'
  <2>1. Follows(u) BY DEF WatchInv
  <2>2. QED BY <2>1 DEF Follows
<1>3. \A r : Owing(r)' \subseteq Owing(r) BY DEF Owing
<1>4. Remembered' /\ P!WarnedOnce' BY NothingSaid
<1> QED BY <1>1, <1>2, <1>3, <1>4, WindowStays, PaidOn DEF WatchInv

LEMMA RegistersOnce ==
  ASSUME WatchInv, PolicyInv, WatchGiven, NEW p \in P!Policies, P!Register(p)
  PROVE  Once(registered)'
<1>1. registered \in Seq(P!Policies) /\ Once(registered) BY DEF PolicyInv, PolicyTypes, WatchInv
<1>2. CASE P!Has(p) BY <1>1, <1>2 DEF P!Register, Once
<1>3. CASE ~P!Has(p)
  <2>1. PICK n \in Nat : n = Len(registered) /\ DOMAIN registered = 1..n BY <1>1
  <2>2. /\ DOMAIN registered' = 1..(n + 1) /\ registered'[n + 1] = p
        /\ \A i \in 1..n : registered'[i] = registered[i] /\ registered[i] # p
    BY <1>1, <1>3, <2>1 DEF P!Register, P!Has
  <2>3. ASSUME NEW i \in 1..(n + 1), NEW j \in 1..(n + 1), registered'[i] = registered'[j]
        PROVE  i = j
    <3>1. (i \in 1..n \/ i = n + 1) /\ (j \in 1..n \/ j = n + 1) BY <2>1
    <3>2. QED BY <1>1, <2>1, <2>2, <2>3, <3>1 DEF Once
  <2>4. QED BY <2>2, <2>3 DEF Once
<1> QED BY <1>2, <1>3

LEMMA WatchInitial == ASSUME WatchGiven, P!Init PROVE WatchInv
<1>1. lineUp \in LineUps /\ registered = lineUp.policies /\ lineUp.clock \in Nat
  BY DEF P!Init, WatchGiven, P!LineUpsAssumption
<1>2. Once(registered) BY <1>1 DEF WatchGiven, P!LineUpsAssumption, Once
<1>3. MaxPolicyCalls \in Nat BY DEF WatchGiven, P!BoundsAssumption
<1>4. WatchTypes
  <2>1. retries \in [P!AgentRuns -> Seq(0..lineUp.clock)] BY DEF P!Init
  <2>2. decisions \in Seq(Warnings) BY DEF P!Init
  <2>3. QED BY <1>1, <1>3, <2>1, <2>2 DEF P!Init, WatchTypes
<1>5. ASSUME NEW t \in Threads PROVE Follows(t)
  <2>1. dispatch[t] = P!Idle BY DEF P!Init
  <2>2. P!Idle.pc = "idle" /\ P!Idle.todo = <<>> /\ P!Idle.stamp = None BY DEF P!Idle
  <2>3. QED BY <2>1, <2>2 DEF Follows, Once
<1>6. Remembered /\ P!WarnedOnce BY DEF P!Init, Remembered, P!WarnedOnce
<1>7. P!WindowHoldsOnlyRecent BY DEF P!Init, P!WindowHoldsOnlyRecent
<1>8. ASSUME NEW r \in P!AgentRuns PROVE Paid(r)
  <2>1. ASSUME NEW t \in Threads PROVE dispatch[t].pc = "idle" BY DEF P!Init, P!Idle
  <2>2. Owing(r) = {} BY <2>1 DEF Owing
  <2>3. Cardinality(Owing(r)) = 0 BY <2>2, FS_EmptySet
  <2>4. totals[r] = 0 /\ dispatched = 0 /\ Cost \in Nat
    BY DEF P!Init, WatchGiven, P!BoundsAssumption
  <2>5. totals[r] = 0 * Cost /\ 0 + Cardinality(Owing(r)) <= dispatched BY <2>3, <2>4
  <2>6. QED BY <2>5 DEF Paid
<1> QED BY <1>2, <1>4, <1>5, <1>6, <1>7, <1>8 DEF WatchInv

LEMMA WatchStep ==
  ASSUME WatchGiven, PolicyInv, WatchInv, [P!Next]_P!vars PROVE WatchInv'
<1>1. now \in 0..lineUp.clock /\ Once(registered) /\ lineUp.clock \in Nat
  BY DEF WatchInv, WatchTypes, PolicyInv, PolicyTypes, WatchGiven, P!LineUpsAssumption
<1>2. CASE UNCHANGED P!vars
  BY <1>1, <1>2, WatchAside
  DEF P!vars, P!settingVars, P!policyVars, P!budgetVars, P!throttleVars, P!placerVars, Once
<1>3. CASE P!Tick
  BY <1>1, <1>3, WatchAside
  DEF P!Tick, P!policyVars, P!budgetVars, P!throttleVars, P!placerVars, Once
<1>4. ASSUME NEW p \in Late, P!Register(p) PROVE WatchInv'
  <2>1. p \in P!Policies BY DEF WatchGiven, P!LineUpsAssumption
  <2>2. Once(registered)' BY <1>4, <2>1, RegistersOnce
  <2>3. UNCHANGED <<now, lineUp, home, dispatch, dispatched, totals, warned, bursts, retries,
                    advised, resources, decisions>>
    BY <1>4 DEF P!Register, P!settingVars, P!policyVars, P!budgetVars, P!throttleVars,
                P!placerVars
  <2>4. QED BY <1>1, <2>2, <2>3, WatchAside
<1>5. ASSUME NEW t \in Threads, NEW q \in lineUp.asks, P!BeginCall(t, q) PROVE WatchInv'
  BY <1>5, CallBegins
<1>6. ASSUME NEW t \in Threads,
             \/ P!Custom(t) \/ P!BudgetBefore(t) \/ P!BudgetAfter(t)
             \/ P!ThrottleClock(t) \/ P!ThrottleBefore(t) \/ P!ThrottleAfter(t)
             \/ P!PlacerBefore(t) \/ P!PlacerAfter(t)
      PROVE  WatchInv'
  BY <1>6, QuietHooks, BudgetHook, PaysHook, ThrottleClockRead, ThrottleHook, PlacerHook
<1>7. ASSUME NEW t \in Threads,
             \/ P!LookUpResource(t) \/ P!CreateResource(t) \/ P!StoreResource(t)
             \/ P!TagRetrieval(t) \/ P!Provider(t) \/ P!ReadMarkers(t) \/ P!ClearMarkers(t)
             \/ P!EndCall(t)
      PROVE  WatchInv'
  BY <1>7, ResourceLookedUp, ResourceCreated, ResourceStored, RetrievalTagged,
     ProviderAnswers, MarkersRead, MarkersCleared, DispatchOver
<1> QED BY <1>2, <1>3, <1>4, <1>5, <1>6, <1>7 DEF P!Next

\* What a run has paid is bounded by the calls there may be.
LEMMA PaidBounded ==
  ASSUME WatchGiven, WatchInv, NEW r \in P!AgentRuns
  PROVE  totals[r] \in 0..(MaxPolicyCalls * Cost)
<1>1. PICK n \in Nat : totals[r] = n * Cost /\ n + Cardinality(Owing(r)) <= dispatched
  BY DEF WatchInv, Paid
<1>2. /\ Cardinality(Owing(r)) \in Nat /\ dispatched \in 0..MaxPolicyCalls
      /\ MaxPolicyCalls \in Nat /\ Cost \in Nat /\ totals[r] \in Nat
  BY OwingFinite DEF WatchInv, WatchTypes, WatchGiven, P!BoundsAssumption
<1>3. n <= MaxPolicyCalls BY <1>1, <1>2
<1>4. PICK k \in Nat : MaxPolicyCalls = n + k
  <2>1. MaxPolicyCalls - n \in Nat BY <1>2, <1>3
  <2>2. MaxPolicyCalls = n + (MaxPolicyCalls - n) BY <1>2
  <2>3. QED BY <2>1, <2>2
<1>5. MaxPolicyCalls * Cost = n * Cost + k * Cost /\ k * Cost \in Nat BY <1>2, <1>4
<1>6. n * Cost \in Nat BY <1>1, <1>2
<1> QED BY <1>1, <1>2, <1>5, <1>6

\* For any line-ups, requests and threads: a call that begins over the budget goes out
\* after its run was warned, every warning, advice and new resource is reported once,
\* and a throttle's window, where it is in order, holds its own retries only
\* (policy/budget_cap.py:77-102, policy/retry_throttle.py:77-83,
\* policy/cache_control_placer.py:178-184, providers/gemini.py:234-239).
THEOREM WarnedAlwaysInTimeAndOnce == DecisionsSpec => []WarnedInTimeAndOnce
<1>1. WatchGiven /\ PoliciesGiven
  BY PoliciesAssumption, ThreadsAssumption DEF WatchGiven, PoliciesGiven
<1>2. DecisionsInit => PolicyInv /\ WatchInv
  BY <1>1, PoliciesInitial, WatchInitial DEF DecisionsInit
<1>3. [DecisionsNext]_decisionVars => [P!Next]_P!vars
  BY DEF DecisionsNext, decisionVars, policyState, P!vars, P!settingVars, P!policyVars,
         P!budgetVars, P!throttleVars, P!placerVars, P!markerVars
<1>4. PolicyInv /\ WatchInv /\ [DecisionsNext]_decisionVars => (PolicyInv /\ WatchInv)'
  BY <1>1, <1>3, PoliciesStep, WatchStep
<1>5. PolicyInv /\ WatchInv => WarnedInTimeAndOnce
  <2> SUFFICES ASSUME PolicyInv, WatchInv PROVE WarnedInTimeAndOnce OBVIOUS
  <2>1. P!TypeOK
    <3>1. \A i \in DOMAIN registered : registered[i] \in P!Policies
      BY DEF PolicyInv, PolicyTypes
    <3>2. ASSUME NEW t \in Threads
          PROVE  dispatch[t].pc \in {"idle", "before", "creating", "storing", "answered", "read",
                                     "after"}
      <4>1. dispatch[t] \in Dispatches BY DEF PolicyInv, PolicyTypes
      <4>2. QED BY <4>1 DEF Dispatches, Phases
    <3>3. ASSUME NEW r \in P!AgentRuns
          PROVE  /\ totals[r] \in 0..(MaxPolicyCalls * Cost)
                 /\ retries[r] \in Seq(0..lineUp.clock)
                 /\ advised[r] \subseteq {"system", "tools", "cache_resource"}
                 /\ creation[r] \in BOOLEAN
      BY <1>1, PaidBounded DEF WatchInv, WatchTypes, PolicyInv, PolicyTypes, Advice
    <3>4. now \in 0..lineUp.clock /\ home \in Homes /\ dispatched \in 0..MaxPolicyCalls
          /\ warned \subseteq P!AgentRuns /\ bursts \subseteq P!AgentRuns
      BY DEF WatchInv, WatchTypes, PolicyInv, PolicyTypes
    <3>5. QED BY <3>1, <3>2, <3>3, <3>4 DEF P!TypeOK
  <2>2. P!BreachReported
    <3> SUFFICES ASSUME NEW t \in Threads, dispatch[t].pc \in {"answered", "read", "after"},
                        dispatch[t].over
                 PROVE  \E i \in DOMAIN decisions :
                          decisions[i].run = home[t] /\ decisions[i].kind = "budget_warning"
      BY DEF P!BreachReported
    <3>1. home[t] \in warned BY DEF WatchInv, Follows
    <3>2. QED BY <3>1 DEF WatchInv, Remembered
  <2>3. QED BY <2>1, <2>2 DEF WatchInv, WarnedInTimeAndOnce
<1> QED BY <1>2, <1>4, <1>5, PTL DEF DecisionsSpec

=============================================================================
