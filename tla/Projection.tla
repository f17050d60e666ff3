----------------------------- MODULE Projection -----------------------------
(***************************************************************************)
(* What the projection columns of a run are computed to from its event     *)
(* log: project_run_totals of inkfoot/storage/aggregator.py.               *)
(*                                                                         *)
(* An event is a record [run, sequence, kind, payload].  A payload is      *)
(* Unparseable (payload_json that json.loads rejects) or a record          *)
(*   [ledger, flat, estimated, alias, outcome, quality]                    *)
(* where each field is what the JSON object holds under that key:          *)
(*   ledger    - the token count read from the nested ledger               *)
(*   flat      - the token count of a payload older than the ledger        *)
(*   estimated - estimated_nanodollars,   alias - nanodollars              *)
(*   outcome   - the claimed outcome,         quality - its quality_score  *)
(* and Absent when it holds nothing, or nothing of the right type.  The    *)
(* four token columns are summed alike, so one column, tokens, stands for  *)
(* them.                                                                   *)
(***************************************************************************)
EXTENDS Integers, Folds

CONSTANTS
  Absent,       \* nothing, or nothing usable, under a key of a payload
  Unparseable   \* a payload that is not JSON

\* The defaults of the columns; quality_score is in no totals dict, so it keeps
\* its default.
NoTotals == [tokens |-> 0, nanodollars |-> 0, outcome |-> Absent,
             quality |-> Absent]

\* _coerce_int: whatever is not an int counts as 0.
CoerceInt(v) == IF v = Absent THEN 0 ELSE v

\* Mutant: the flat field is added to the nested ledger.
BilledTokensTwice(p) == CoerceInt(p.ledger) + CoerceInt(p.flat)

\* _billed_from_payload: the nested ledger hides the flat token field; the
\* cost alias counts only when estimated_nanodollars is not an int.
BilledTokens(p) ==
  IF p.ledger # Absent THEN p.ledger ELSE CoerceInt(p.flat)

BilledCost(p) ==
  IF p.estimated # Absent THEN p.estimated ELSE CoerceInt(p.alias)

\* One turn of the loop of project_run_totals.
Tally(sums, e) ==
  IF e.kind = "embedding_call" \/ e.payload = Unparseable
  THEN sums
  ELSE [sums EXCEPT
          !.tokens = @ + BilledTokens(e.payload),
          !.nanodollars = @ + BilledCost(e.payload),
          !.outcome = IF e.kind = "outcome" /\ e.payload.outcome # Absent
                      THEN e.payload.outcome ELSE @]

\* Mutant: ORDER BY sequence DESC.
FirstInSequence(rows) ==
  CHOOSE e \in rows : \A f \in rows : e.sequence <= f.sequence

\* iter_events yields the rows of a run ORDER BY sequence; the sequence
\* numbers of the rows are taken to be distinct.
LastInSequence(rows) ==
  CHOOSE e \in rows : \A f \in rows : f.sequence <= e.sequence

\* project_run_totals of the log rows: the loop's turns in sequence order, the
\* last one outermost.
ProjectRunTotals(rows) ==
  MapThenFoldSet(LAMBDA e, sums : Tally(sums, e), NoTotals,
                 LAMBDA e : e, LastInSequence, rows)
=============================================================================
