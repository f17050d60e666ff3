-------------------------- MODULE ProjectionCheck --------------------------
(***************************************************************************)
(* project_run_totals against what the columns of runs are said to mean.   *)
(* The log of one run grows a row at a time, in any order of sequence, and *)
(* after every row the projection of the whole log is compared with sums   *)
(* and a maximum taken over the set of rows, with no loop.                 *)
(***************************************************************************)
EXTENDS Projection, Functions

CONSTANT Pool   \* the rows the log may get

\* What a key of a payload holds is a number, or nothing that counts.
ASSUME PoolAssumption ==
  \A e \in Pool : /\ e.sequence \in Nat
                  /\ e.payload # Unparseable =>
                       \A key \in {"ledger", "flat", "estimated", "alias"} :
                         e.payload[key] \in Int \union {Absent}

\* The run's own process writes the verdicts, each with the next of its numbers
\* (_run_lifecycle.py:177).
ASSUME VerdictsAssumption ==
  \A e, f \in Pool :
    e.kind = "outcome" /\ f.kind = "outcome" /\ e.sequence = f.sequence => e = f

VARIABLE log

Init == log = {}

AddRow(e) ==
  /\ e \notin log
  /\ log' = log \union {e}

Next == \E e \in Pool : AddRow(e)

Spec == Init /\ [][Next]_log

-----------------------------------------------------------------------------
Totals == ProjectRunTotals(log)

\* The rows that bill the run.
Billed == {e \in log : e.kind # "embedding_call" /\ e.payload # Unparseable}

\* What the payloads of the rows hold under a key, added up.
SumOf(key, rows) == SumFunction([e \in rows |-> e.payload[key]])

\* The rows that say how the run ended.
Verdicts == {e \in Billed : e.kind = "outcome" /\ e.payload.outcome # Absent}

\* Every billed row counts once, whatever else is in the log and wherever it is:
\* the nested ledger before the flat field, estimated_nanodollars before its
\* alias; embeddings and unreadable rows count nothing (aggregator.py:61,131).
CountsEveryCallOnce ==
  /\ Totals.tokens =
       SumOf("ledger", {e \in Billed : e.payload.ledger # Absent})
       + SumOf("flat", {e \in Billed : e.payload.ledger = Absent /\ e.payload.flat # Absent})
  /\ Totals.nanodollars =
       SumOf("estimated", {e \in Billed : e.payload.estimated # Absent})
       + SumOf("alias", {e \in Billed : e.payload.estimated = Absent
                                       /\ e.payload.alias # Absent})

\* A row e that arrives changes the outcome only when it is a verdict that no
\* verdict follows in sequence, and no row withdraws a verdict.
OutcomeMovesTo(e) ==
  LET before == ProjectRunTotals(log).outcome
      after  == ProjectRunTotals(log').outcome
  IN  /\ before # after =>
           /\ e \in Verdicts'
           /\ after = e.payload.outcome
           /\ \A f \in Verdicts : f.sequence < e.sequence
      /\ before # Absent => after # Absent

\* "the *last* by sequence wins" (aggregator.py:148), whichever arrived last.
OutcomeFollowsSequence == [][\A e \in log' \ log : OutcomeMovesTo(e)]_log

\* The quality score of the last verdict is recorded in runs.quality_score "by
\* the background aggregator" (docs/concepts/tracking-runs.md:112).
QualityRecorded ==
  \A e \in Verdicts :
    (\A f \in Verdicts : f.sequence <= e.sequence)
      => Totals.quality = e.payload.quality
=============================================================================
