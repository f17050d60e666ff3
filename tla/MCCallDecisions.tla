--------------------------- MODULE MCCallDecisions ---------------------------
(***************************************************************************)
(* Small instances of what is decided before a call, for TLC.  The         *)
(* contract has a run, two threads, three rungs, ceilings that either the  *)
(* calls or the money reach first; LazyToolExposure has a tool and a core  *)
(* one and a window of one turn.                                           *)
(***************************************************************************)
EXTENDS CallDecisions

CONSTANTS t1, t2, r1, r2

MCLadder ==
  {[at_percent |-> 50, action |-> "warn"],
   [at_percent |-> 75, action |-> "switch_to_cheap_model"],
   [at_percent |-> 100, action |-> "block"]}

-----------------------------------------------------------------------------
\* Agents of two threads, in one run or two: a budget beside a policy that
\* raises, with tagged retrievals; retries; advice; a cache resource.

SameRun == [t \in Threads |-> r1]
OwnRun == [t \in Threads |-> IF t = t1 THEN r1 ELSE r2]
MCHomes == {SameRun, OwnRun}

Ask(style, retry, unmarked, prefix, override) ==
  [style |-> style, retry |-> retry, unmarked |-> unmarked, prefix |-> prefix,
   override |-> override]

LineUp(policies, asks, clock, tags) ==
  [policies |-> policies, asks |-> asks, clock |-> clock, tags |-> tags]

MCLineUps ==
  {LineUp(<<"budget", "custom">>, {Ask("automatic", FALSE, {}, None, FALSE)}, 0, 2),
   LineUp(<<"throttle">>, {Ask("automatic", retry, {}, None, FALSE) : retry \in BOOLEAN},
          2, 0),
   LineUp(<<"placer">>, {Ask("explicit_marker", FALSE, {"system"}, None, FALSE),
                         Ask("explicit_marker", FALSE, {"system", "tools"}, None, FALSE)},
          0, 0),
   LineUp(<<"placer">>, {Ask("cache_resource", FALSE, {}, "prefix", override) :
                           override \in BOOLEAN}, 0, 0)}

\* One long result; an agent with the tag, and two whose task has a control run
\* that succeeded, so that one failure with summaries is a regression.
OneControl ==
  [b \in {"control", "treatment"} |->
     IF b = "control" THEN [runs |-> 1, successes |-> 1]
     ELSE [runs |-> 0, successes |-> 0]]
NoRuns == [b \in {"control", "treatment"} |-> [runs |-> 0, successes |-> 0]]

MCAgents ==
  {[home |-> SameRun, abMode |-> FALSE, tags |-> TRUE, past |-> NoRuns],
   [home |-> SameRun, abMode |-> TRUE, tags |-> FALSE, past |-> OneControl],
   [home |-> OwnRun, abMode |-> TRUE, tags |-> FALSE, past |-> OneControl]}
=============================================================================
