------------------------ MODULE ContractEnforcement ------------------------
(***************************************************************************)
(* ContractEnforcer and its wiring into the call path: the runs of one     *)
(* contracted task, whose agents call from several threads.  A call reads  *)
(* the run's accounting under the lock, finds the rung of the degrade      *)
(* ladder its projection has reached, marks the rung under the lock again, *)
(* records the violation, and is allowed, switched to the cheap model or   *)
(* refused; when the SDK returns, its actual cost is added under the lock. *)
(*                                                                         *)
(* The projection is a function of what the call read and of its request,  *)
(* so the rung is found in the step that reads.  Percentages are exact     *)
(* here and floating point in the code.                                    *)
(***************************************************************************)
EXTENDS Integers, FiniteSets

CONSTANTS
  Runs, Threads,
  Ladder,          \* the degrade steps: records [at_percent, action]
  MaxNanodollars,  \* the budget's ceilings; 0 where the contract sets none
  MaxLlmCalls,
  MaxCost,         \* a call's cost is at most this, estimated or billed,
  CheapCost,       \* and at most this on the cheap model
  NoCall, NoStep,
  Faults,          \* what may go wrong
  MaxAttempts      \* bound: calls begun, over all runs

FaultKinds == {"db_error", "provider_error"}
Actions == {"warn", "switch_to_cheap_model", "block"}

ASSUME LadderAssumption ==
  /\ Ladder \subseteq [at_percent : 1 .. 100, action : Actions]
  /\ \A s, u \in Ladder : s.at_percent = u.at_percent => s = u
  /\ NoStep \notin Ladder
ASSUME CeilingsAssumption == MaxNanodollars \in Nat /\ MaxLlmCalls \in Nat
ASSUME CostsAssumption ==
  MaxCost \in Nat /\ CheapCost \in Nat /\ CheapCost <= MaxCost
ASSUME ThreadsAssumption == IsFiniteSet(Threads) /\ Threads # {}
ASSUME ContractFaultsAssumption == Faults \subseteq FaultKinds

\* What a call remembers while it is under way.
Stages == {"deciding", "emitting", "acting", "calling"}
CallRecord ==
  [run : Runs, estimate : 0 .. MaxCost, step : Ladder \union {NoStep},
   emit : BOOLEAN, stage : Stages, model : {"asked", "cheap"},
   after : SUBSET (0 .. MaxCost)]

ASSUME NoCallAssumption == NoCall \notin CallRecord

VARIABLES
  phase,      \* "new", "open" or "over", of a run
  tracked,    \* the keys of _runs
  calls,      \* call_count, spent_nanodollars and fired_percents of each run;
  spent,      \* they are initial again when the run is not tracked
  fired,
  call,       \* the call of each thread, NoCall between calls
  events,     \* how many contract_violation events a run has for each rung
  attempts,   \* calls begun
  made,       \* history: the run's calls the SDK answered,
  paid,       \* what they cost,
  refused,    \* the estimates of the refused ones,
  unrecorded  \* and the rungs whose event could not be inserted

accountVars == <<tracked, calls, spent, fired>>
historyVars == <<made, paid, refused, unrecorded>>
vars == <<phase, accountVars, call, events, attempts, historyVars>>

Percents == {s.at_percent : s \in Ladder}

Init ==
  /\ phase = [r \in Runs |-> "new"]
  /\ tracked = {}
  /\ calls = [r \in Runs |-> 0]
  /\ spent = [r \in Runs |-> 0]
  /\ fired = [r \in Runs |-> {}]
  /\ call = [t \in Threads |-> NoCall]
  /\ events = [r \in Runs |-> [p \in Percents |-> 0]]
  /\ attempts = 0
  /\ made = [r \in Runs |-> 0]
  /\ paid = [r \in Runs |-> 0]
  /\ refused = [r \in Runs |-> {}]
  /\ unrecorded = [r \in Runs |-> {}]

-----------------------------------------------------------------------------
Consumed(ceiling, projected, percent) ==
  ceiling # 0 /\ projected * 100 >= percent * ceiling

\* Whichever dimension is most consumed drives the decision, so a rung is
\* reached when either has reached it.
Reached(spend, n) ==
  {s \in Ladder : \/ Consumed(MaxNanodollars, spend, s.at_percent)
                  \/ Consumed(MaxLlmCalls, n, s.at_percent)}

\* The most severe rung reached.
StepFor(spend, n) ==
  IF Reached(spend, n) = {} THEN NoStep
  ELSE CHOOSE s \in Reached(spend, n) :
         \A u \in Reached(spend, n) : u.at_percent <= s.at_percent

-----------------------------------------------------------------------------
\* on_run_start and on_run_end.

StartRun(r) ==
  /\ phase[r] = "new"
  /\ phase' = [phase EXCEPT ![r] = "open"]
  /\ tracked' = tracked \union {r}
  /\ UNCHANGED <<calls, spent, fired, call, events, attempts, historyVars>>

\* Calls of the run may still be under way.
EndRun(r) ==
  /\ phase[r] = "open"
  /\ phase' = [phase EXCEPT ![r] = "over"]
  /\ tracked' = tracked \ {r}
  /\ calls' = [calls EXCEPT ![r] = 0]
  /\ spent' = [spent EXCEPT ![r] = 0]
  /\ fired' = [fired EXCEPT ![r] = {}]
  /\ UNCHANGED <<call, events, attempts, historyVars>>

-----------------------------------------------------------------------------
\* enforce_before_call.

At(t, stage) == call[t] # NoCall /\ call[t].stage = stage
Goto(t, stage) == call' = [call EXCEPT ![t].stage = stage]

\* Mutant: any rung that fired keeps the others from being recorded.
BeginCallOneEvent(t, r) ==
  /\ phase[r] = "open"
  /\ call[t] = NoCall
  /\ attempts < MaxAttempts
  /\ attempts' = attempts + 1
  /\ tracked' = tracked \union {r}
  /\ \E estimate \in 0 .. MaxCost :
       LET step == StepFor(spent[r] + estimate, calls[r] + 1) IN
         call' = [call EXCEPT ![t] =
           [run |-> r, estimate |-> estimate, step |-> step,
            emit |-> step # NoStep /\ fired[r] = {},
            stage |-> IF step = NoStep THEN "acting" ELSE "deciding",
            model |-> "asked", after |-> refused[r]]]
  /\ UNCHANGED <<phase, calls, spent, fired, events, historyVars>>

\* before_call, first half: what the call reads under the lock, and the rung it
\* finds afterwards.  The request's size and the running average of the task's
\* outputs make the estimate.
BeginCall(t, r) ==
  /\ phase[r] = "open"
  /\ call[t] = NoCall
  /\ attempts < MaxAttempts
  /\ attempts' = attempts + 1
  /\ tracked' = tracked \union {r}
  /\ \E estimate \in 0 .. MaxCost :
       LET step == StepFor(spent[r] + estimate, calls[r] + 1) IN
         call' = [call EXCEPT ![t] =
           [run |-> r, estimate |-> estimate, step |-> step,
            emit |-> step # NoStep /\ step.at_percent \notin fired[r],
            stage |-> IF step = NoStep THEN "acting" ELSE "deciding",
            model |-> "asked", after |-> refused[r]]]
  /\ UNCHANGED <<phase, calls, spent, fired, events, historyVars>>

\* Mutant: the percentage the calls have reached is stored, not the rung's.
MarkReached(t) ==
  LET c == call[t] IN
    /\ At(t, "deciding")
    /\ Goto(t, IF c.emit THEN "emitting" ELSE "acting")
    /\ fired' = IF c.emit /\ c.run \in tracked
                THEN [fired EXCEPT ![c.run] =
                        @ \union {(calls[c.run] * 100) \div MaxLlmCalls}]
                ELSE fired
    /\ UNCHANGED <<phase, tracked, calls, spent, events, attempts, historyVars>>

\* before_call, second half: a rung it found unfired is marked, if the run is
\* still there.
Mark(t) ==
  LET c == call[t] IN
    /\ At(t, "deciding")
    /\ Goto(t, IF c.emit THEN "emitting" ELSE "acting")
    /\ fired' = IF c.emit /\ c.run \in tracked
                THEN [fired EXCEPT ![c.run] = @ \union {c.step.at_percent}]
                ELSE fired
    /\ UNCHANGED <<phase, tracked, calls, spent, events, attempts, historyVars>>

\* _emit_violations: a failing insert is logged and forgotten.
EmitViolation(t) ==
  LET c == call[t] IN
    /\ At(t, "emitting")
    /\ Goto(t, "acting")
    /\ \/ /\ events' = [events EXCEPT ![c.run][c.step.at_percent] = @ + 1]
          /\ UNCHANGED unrecorded
       \/ /\ "db_error" \in Faults
          /\ unrecorded' = [unrecorded EXCEPT ![c.run] =
                              @ \union {c.step.at_percent}]
          /\ UNCHANGED events
    /\ UNCHANGED <<phase, accountVars, attempts, made, paid, refused>>

Blocks(c) == c.step # NoStep /\ c.step.action = "block"
Switches(c) == c.step # NoStep /\ c.step.action = "switch_to_cheap_model"

\* Mutant: a block refuses once, as it is recorded once.
ProceedUnlessNew(t) ==
  /\ At(t, "acting")
  /\ ~(Blocks(call[t]) /\ call[t].emit)
  /\ call' = [call EXCEPT ![t].stage = "calling",
                          ![t].model = IF Switches(call[t]) THEN "cheap" ELSE @]
  /\ UNCHANGED <<phase, accountVars, events, attempts, historyVars>>

Proceed(t) ==
  /\ At(t, "acting")
  /\ ~Blocks(call[t])
  /\ call' = [call EXCEPT ![t].stage = "calling",
                          ![t].model = IF Switches(call[t]) THEN "cheap" ELSE @]
  /\ UNCHANGED <<phase, accountVars, events, attempts, historyVars>>

\* PolicyBlocked.
Refuse(t) ==
  LET c == call[t] IN
    /\ At(t, "acting")
    /\ Blocks(c)
    /\ call' = [call EXCEPT ![t] = NoCall]
    /\ refused' = [refused EXCEPT ![c.run] = @ \union {c.estimate}]
    /\ UNCHANGED <<phase, accountVars, events, attempts, made, paid, unrecorded>>

-----------------------------------------------------------------------------
\* The SDK call and record_call.

\* Mutant: the last call's cost instead of the sum.
RecordCallLast(t) ==
  LET c == call[t] IN
    /\ At(t, "calling")
    /\ \E cost \in 0 .. (IF c.model = "cheap" THEN CheapCost ELSE MaxCost) :
         /\ spent' = [spent EXCEPT ![c.run] = IF c.run \in tracked THEN cost ELSE @]
         /\ paid' = [paid EXCEPT ![c.run] = @ + cost]
    /\ calls' = [calls EXCEPT ![c.run] = IF c.run \in tracked THEN @ + 1 ELSE @]
    /\ made' = [made EXCEPT ![c.run] = @ + 1]
    /\ call' = [call EXCEPT ![t] = NoCall]
    /\ UNCHANGED <<phase, tracked, fired, events, attempts, refused, unrecorded>>

\* A call that outlives its run finds nothing to add to.
RecordCall(t) ==
  LET c == call[t] IN
    /\ At(t, "calling")
    /\ \E cost \in 0 .. (IF c.model = "cheap" THEN CheapCost ELSE MaxCost) :
         /\ spent' = [spent EXCEPT ![c.run] =
                        IF c.run \in tracked THEN @ + cost ELSE @]
         /\ paid' = [paid EXCEPT ![c.run] = @ + cost]
    /\ calls' = [calls EXCEPT ![c.run] = IF c.run \in tracked THEN @ + 1 ELSE @]
    /\ made' = [made EXCEPT ![c.run] = @ + 1]
    /\ call' = [call EXCEPT ![t] = NoCall]
    /\ UNCHANGED <<phase, tracked, fired, events, attempts, refused, unrecorded>>

\* The SDK raises: the error path does not come by record_call.
ProviderError(t) ==
  /\ "provider_error" \in Faults
  /\ At(t, "calling")
  /\ call' = [call EXCEPT ![t] = NoCall]
  /\ UNCHANGED <<phase, accountVars, events, attempts, historyVars>>

\* A policy's own call is not enforced; its cost is added and it is not counted.
HelperCall(t, r) ==
  /\ phase[r] = "open"
  /\ call[t] = NoCall
  /\ attempts < MaxAttempts
  /\ attempts' = attempts + 1
  /\ \E cost \in 0 .. CheapCost : spent' = [spent EXCEPT ![r] = @ + cost]
  /\ UNCHANGED <<phase, tracked, calls, fired, call, events, historyVars>>

-----------------------------------------------------------------------------
Next ==
  \/ \E r \in Runs : StartRun(r) \/ EndRun(r)
  \/ \E t \in Threads :
       \/ \E r \in Runs : BeginCall(t, r) \/ HelperCall(t, r)
       \/ Mark(t)
       \/ EmitViolation(t)
       \/ Proceed(t)
       \/ Refuse(t)
       \/ RecordCall(t)
       \/ ProviderError(t)

Spec == Init /\ [][Next]_vars

-----------------------------------------------------------------------------
\* The accounting, the calls and the histories hold values of their types.
TypeOK ==
  /\ phase \in [Runs -> {"new", "open", "over"}]
  /\ tracked \subseteq Runs
  /\ calls \in [Runs -> Nat]
  /\ spent \in [Runs -> Nat]
  /\ fired \in [Runs -> SUBSET Percents]
  /\ call \in [Threads -> CallRecord \union {NoCall}]
  /\ events \in [Runs -> [Percents -> Nat]]
  /\ attempts \in Nat
  /\ made \in [Runs -> Nat]
  /\ paid \in [Runs -> Nat]
  /\ refused \in [Runs -> SUBSET (0 .. MaxCost)]
  /\ unrecorded \in [Runs -> SUBSET Percents]

InFlight(r) == {t \in Threads : At(t, "calling") /\ call[t].run = r}

\* No softer rung lies above a block rung.  The loader accepts ladders that break
\* this, and then the softer rung decides.
BlockIsLast ==
  \A s, u \in Ladder :
    s.action = "block" /\ s.at_percent < u.at_percent => u.action = "block"

\* A ladder that ends in a block bounds the calls of a run: the SDK is asked
\* fewer times than the block rung's share of max_llm_calls, plus one for every
\* other thread that may have read the accounting before it was brought up to
\* date.  With one thread the call that would reach the rung is never made.
CallsBounded ==
  \A r \in Runs, s \in Ladder :
    BlockIsLast /\ s.action = "block" /\ MaxLlmCalls # 0 =>
      (made[r] + Cardinality(InFlight(r)) - (Cardinality(Threads) - 1)) * 100
        < s.at_percent * MaxLlmCalls

\* The same of the money: what a run's enforced calls cost exceeds the block
\* rung's share of max_nanodollars by less than one call of every thread.
SpendBounded ==
  \A r \in Runs, s \in Ladder :
    BlockIsLast /\ s.action = "block" /\ MaxNanodollars # 0 =>
      (paid[r] - Cardinality(Threads) * MaxCost) * 100
        < s.at_percent * MaxNanodollars

\* "Each ladder rung emits its event once per run" (contracts/enforcer.py:220),
\* as far as that holds: at most once for every thread that calls at once.
RungRecordedOncePerThread ==
  \A r \in Runs, p \in Percents : events[r][p] <= Cardinality(Threads)

\* The ladder bounds the calls and the money of a run but for one call of every
\* thread, which is how often each rung is recorded at most
\* (contracts/enforcer.py:220-330).
LadderHolds == CallsBounded /\ SpendBounded /\ RungRecordedOncePerThread

\* No call is refused without a trace: the log of its run has the event of a
\* block rung, or is about to get it from another thread, or its insert failed.
RefusalRecorded ==
  \A r \in Runs : refused[r] # {} =>
    \E s \in Ladder :
      /\ s.action = "block"
      /\ \/ events[r][s.at_percent] > 0
         \/ s.at_percent \in unrecorded[r]
         \/ \E t \in Threads : At(t, "emitting") /\ call[t].run = r
                               /\ call[t].step = s

\* "a block, however, must keep refusing every subsequent call"
\* (contracts/enforcer.py:220), as far as that holds: after a refusal no call
\* that is estimated to cost as much gets through, for as long as the run lasts.
BlockKeepsRefusing ==
  \A t \in Threads : BlockIsLast /\ At(t, "calling") =>
    \A refusal \in call[t].after : call[t].estimate < refusal
=============================================================================
