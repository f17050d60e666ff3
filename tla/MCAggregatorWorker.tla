------------------------- MODULE MCAggregatorWorker -------------------------
(***************************************************************************)
(* Small instances of AggregatorWorker for TLC.                            *)
(***************************************************************************)
EXTENDS AggregatorWorker

Bill(tokens, cost) ==
  [ledger |-> tokens, flat |-> Absent, estimated |-> cost, alias |-> Absent,
   outcome |-> Absent, quality |-> Absent]

Claims(outcome) ==
  [ledger |-> Absent, flat |-> Absent, estimated |-> Absent,
   alias |-> Absent, outcome |-> outcome, quality |-> Absent]

Row(r, n, k, p) == [run |-> r, sequence |-> n, kind |-> k, payload |-> p]

\* Two runs, one with a call and an outcome, the other with one call.
MCRuns == {1, 2}
MCEventPool ==
  {Row(1, 1, "llm_call", Bill(2, 30)),
   Row(1, 2, "outcome", Claims("failure")),
   Row(2, 1, "llm_call", Bill(5, 70))}

\* Two rows of one run, for the instances with two processes.
MCOneRun == {1}
MCTwoRows ==
  {Row(1, 1, "llm_call", Bill(2, 30)), Row(1, 2, "outcome", Claims("success"))}

MCDrainers == (Procs \X {"thread", "closer"}) \union Rebuilders
=============================================================================
