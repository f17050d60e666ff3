------------------------- MODULE MaterializedTotals -------------------------
(***************************************************************************)
(* What the store promises the readers of runs.total_* and runs.outcome,   *)
(* with no aggregator in sight: the columns of a run are the projection of *)
(* a part of its log (the view), the view only grows, and rows reach the   *)
(* log at any time.  "The event log is the source of truth; the projection *)
(* is recomputable."                                                       *)
(***************************************************************************)
EXTENDS Projection

CONSTANTS Runs, EventPool

VARIABLES
  events,   \* the log
  view,     \* the rows of each run that its columns reflect
  totals    \* the columns

Init ==
  /\ events = {}
  /\ view = [r \in Runs |-> {}]
  /\ totals = [r \in Runs |-> NoTotals]

Append(e) ==
  /\ e \notin events
  /\ events' = events \union {e}
  /\ UNCHANGED <<view, totals>>

\* The columns of r come to reflect the rows more as well.
Refresh(r, more) ==
  /\ view' = [view EXCEPT ![r] = @ \union more]
  /\ totals' = [totals EXCEPT ![r] = ProjectRunTotals(view'[r])]
  /\ UNCHANGED events

Next ==
  \/ \E e \in EventPool : Append(e)
  \/ \E r \in Runs : \E more \in SUBSET {e \in events : e.run = r} :
       Refresh(r, more)

Spec == Init /\ [][Next]_<<events, view, totals>>
=============================================================================
