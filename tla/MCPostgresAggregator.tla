------------------------ MODULE MCPostgresAggregator ------------------------
(***************************************************************************)
(* Small instances of PostgresAggregator for TLC: two workers and one run  *)
(* whose two rows are worth telling apart.                                 *)
(***************************************************************************)
EXTENDS PostgresAggregator

Bill(tokens, cost, outcome) ==
  [ledger |-> tokens, flat |-> Absent, estimated |-> cost, alias |-> Absent,
   outcome |-> outcome, quality |-> Absent]

MCRuns == {1}
MCEventPool ==
  {[run |-> 1, sequence |-> 1, kind |-> "llm_call",
    payload |-> Bill(2, 30, Absent)],
   [run |-> 1, sequence |-> 2, kind |-> "outcome",
    payload |-> Bill(Absent, Absent, "success")]}
=============================================================================
