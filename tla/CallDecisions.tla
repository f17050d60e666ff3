---------------------------- MODULE CallDecisions ----------------------------
(***************************************************************************)
(* What is decided before a call: the contract enforcer, the policies that *)
(* watch, LazyToolExposure and CheapSummariser.  The four share no state,  *)
(* whatever the order the registry calls them in, so a behaviour follows   *)
(* one of them, chosen at its start, and the others stay as they began.    *)
(***************************************************************************)
EXTENDS ContractEnforcement, Sequences

CONSTANTS
  None,
  Homes, LineUps, Late, MaxNd, Cost, Window, MaxRetries, PolicyFaults, MaxPolicyCalls,
  Tools, Core, Unnamed, Stale, MaxTurns,
  TaskRuns, Results, Agents, Threshold, MinRuns, SummariserFaults, MaxSummaries

VARIABLES
  component,
  now, lineUp, home, registered, dispatch, dispatched, totals, warned, retries,
  bursts, advised, resources, failed, creation, retrieved, decisions, booked,
  tagged, lifted,
  turn, lastRelevant, dropped, request, facts, silent, calledAt,
  agent, killTags, disabled, task, tagChecked, regChecked, branch, past, cache,
  trigger, begun, replaced, sends, excused

policyState ==
  <<now, lineUp, home, registered, dispatch, dispatched, totals, warned, retries,
    bursts, advised, resources, failed, creation, retrieved, decisions, booked,
    tagged, lifted>>
toolState == <<turn, lastRelevant, dropped, request, facts, silent, calledAt>>
summariserState ==
  <<agent, killTags, disabled, task, tagChecked, regChecked, branch, past, cache,
    trigger, begun, replaced, sends, excused>>
decisionVars == <<component, vars, policyState, toolState, summariserState>>

-----------------------------------------------------------------------------
P == INSTANCE ObservationPolicies WITH Faults <- PolicyFaults, MaxCalls <- MaxPolicyCalls
L == INSTANCE LazyToolExposure
S == INSTANCE CheapSummariser
       WITH Runs <- TaskRuns, Faults <- SummariserFaults, MaxCalls <- MaxSummaries

ASSUME PoliciesAssumption ==
  P!RequestsAssumption /\ P!LineUpsAssumption /\ P!BoundsAssumption
ASSUME ToolsAssumption == L!ToolsAssumption /\ L!StaleAssumption
ASSUME SummariserAssumption ==
  S!AgentsAssumption /\ S!NoneAssumption /\ S!BoundsAssumption

-----------------------------------------------------------------------------
\* The components that a behaviour does not follow need but one initial state.
AnyOf(T) == CHOOSE x \in T : TRUE

DecisionsInit ==
  /\ component \in {"contract", "policies", "tools", "summariser"}
  /\ Init /\ P!Init /\ L!Init /\ S!Init
  /\ component # "policies" => home = AnyOf(Homes) /\ lineUp = AnyOf(LineUps)
  /\ component # "summariser" => agent = AnyOf(Agents)

DecisionsNext ==
  /\ UNCHANGED component
  /\ \/ component = "contract" /\ Next
        /\ UNCHANGED <<policyState, toolState, summariserState>>
     \/ component = "policies" /\ P!Next
        /\ UNCHANGED <<vars, toolState, summariserState>>
     \/ component = "tools" /\ L!Next
        /\ UNCHANGED <<vars, policyState, summariserState>>
     \/ component = "summariser" /\ S!Next
        /\ UNCHANGED <<vars, policyState, toolState>>

DecisionsSpec == DecisionsInit /\ [][DecisionsNext]_decisionVars

-----------------------------------------------------------------------------
\* A budget is warned of before the next call goes out, once, each piece of advice
\* and each new cache resource is reported once, whatever the threads race on, and
\* the retries a throttle counts are of its window (policy/budget_cap.py:77,
\* policy/cache_control_placer.py:178, providers/gemini.py:234,
\* policy/retry_throttle.py:80).
WarnedInTimeAndOnce == P!TypeOK /\ P!BreachReported /\ P!WarnedOnce /\ P!WindowHoldsOnlyRecent

\* What a policy or a tag leaves for the translator of the next call is booked on
\* the call it is about, once (normalise/gemini.py:296-320).
MarkersReachTheirCall == P!CreationBookedByCreator /\ P!RetrievedLiftedOnce

\* Narrowing never takes a tool the agent needs, and the events alone tell what was
\* withheld when, an episode at a time (policy/lazy_tool_exposure.py:21-23, 221-290).
ExposureExplained == L!ExposureExplained

\* Each result is summarised once, no run mixes the branches of the experiment, and
\* the switches that were thrown before a call stop it
\* (policy/cheap_summariser.py:404-432, 479-519, 561-648).
SummarisedAsAgreed ==
  /\ S!TypeOK /\ S!SummarisedOnce /\ S!BranchNotMixed
  /\ S!DisabledSendsRaw /\ S!FirstTriggerHonoursSwitches
=============================================================================
