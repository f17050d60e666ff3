------------------------------ MODULE CallPath ------------------------------
(***************************************************************************)
(* What becomes of a call: CallRecording, which writes its event, and      *)
(* OtelExport, which sends events on.  The exporter sees events only when  *)
(* they have been written and never answers the layers that wrote them:    *)
(* the two share no state, and a behaviour follows one of them, chosen at  *)
(* its start.                                                              *)
(***************************************************************************)
EXTENDS OtelExport

CONSTANTS Calls, Runs, Ambient, None, Shapes, IdLimit, Habits, CallFaults

VARIABLES component, active, over, call, ids, errs, log, lost, forgotten

callState == <<active, over, call, ids, errs, log, lost, forgotten>>

C == INSTANCE CallRecording WITH Faults <- CallFaults

ASSUME CallsAssumption == C!ShapesAssumption /\ C!LimitsAssumption /\ C!NoneAssumption

-----------------------------------------------------------------------------
OfExport(step) == component = "export" /\ step /\ UNCHANGED <<component, callState>>
OfCalls(step) == component = "calls" /\ step /\ UNCHANGED <<component, vars>>

PathInit == component \in {"export", "calls"} /\ Init /\ C!Init
PathNext == OfExport(Next) \/ OfCalls(C!Next)
pathVars == <<component, vars, callState>>

\* The fairness of both (OtelExport's Fairness, CallRecording's FairSpec).
PathSpec ==
  /\ PathInit /\ [][PathNext]_pathVars
  /\ WF_pathVars(OfExport(ThreadStep)) /\ WF_pathVars(OfExport(StopperStep))
  /\ \A c \in Calls : WF_pathVars(OfCalls(C!Collect(c)))

-----------------------------------------------------------------------------
\* Every event the hook was given is in one place, and what is posted is posted in
\* order (otel/export.py:172-330).
DeliveredOnceInOrder == TypeOK /\ EachEventInOnePlace /\ DeliveredInOrder

\* A call that several layers see is counted once, but where the code's memory of it
\* cannot tell (langchain/handler.py:264, shims/_emit.py:158), and a call or a warning
\* that is in no event was kept out of the log by a fault (shims/anthropic.py:215,
\* shims/_emit.py:534).
CountedOnceUnless ==
  C!TypeOK /\ C!CountedTwiceOnlyIf /\ C!UncountedOnlyIf /\ C!WarnLostOnlyIf

\* The handler's event never stands in for a shim's, and a shim's output is
\* estimated only when the stream had not told (shims/_streaming.py:35, 406-484).
RicherRowWins == C!RicherRowWins /\ C!EstimatedOnlyIfUnread

\* A stream nobody holds is recorded all the same (shims/_streaming.py:576).
AbandonedIsRecorded == C!AbandonedIsRecorded
=============================================================================
