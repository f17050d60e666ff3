---------------------------- MODULE MCLogClients ----------------------------
(***************************************************************************)
(* A small instance of each of the log's clients, for TLC.                 *)
(***************************************************************************)
EXTENDS LogClients

Nothing == [ledger |-> Absent, flat |-> Absent, estimated |-> Absent,
            alias |-> Absent, outcome |-> Absent, quality |-> Absent]

Row(n, k, p) == [run |-> 1, sequence |-> n, kind |-> k, payload |-> p]

\* The shapes of payload a log holds: the production ledger, the flat payload older
\* than it, both at once, an embedding, a row that is not JSON, and verdicts with and
\* without a usable outcome.
MCPool ==
  {Row(1, "llm_call", [Nothing EXCEPT !.ledger = 2, !.estimated = 30]),
   Row(2, "llm_call", [Nothing EXCEPT !.flat = 3, !.alias = 50]),
   Row(3, "outcome", [Nothing EXCEPT !.outcome = "failure", !.quality = 1]),
   Row(4, "embedding_call", [Nothing EXCEPT !.flat = 9, !.estimated = 90]),
   Row(5, "llm_call", Unparseable),
   Row(6, "outcome", [Nothing EXCEPT !.outcome = "success", !.quality = 2]),
   Row(7, "llm_call", [Nothing EXCEPT !.ledger = 0, !.flat = 7,
                                      !.estimated = 0, !.alias = 5]),
   Row(8, "outcome", Nothing),
   Row(9, "llm_call", [Nothing EXCEPT !.ledger = 4, !.alias = 11])}

-----------------------------------------------------------------------------
\* Spans of one trace with and without a run of their own, without a key, with a
\* sequence, of a run without a row, and one that is not about a model.
Span(id, response, own, hint) ==
  [id |-> id, response |-> response, genai |-> TRUE, own |-> own, inherited |-> None,
   trace |-> <<"trace">>, hint |-> hint]
MCKnown == <<"known", 0>>
MCKnownRuns == {MCKnown}
MCSpans ==
  [named |-> Span("s1", "r1", None, None), child |-> Span("s2", None, None, None),
   other |-> [Span("s3", None, None, None) EXCEPT !.trace = <<"another">>],
   told |-> Span("s4", None, MCKnown, 1), untold |-> Span("s5", None, MCKnown, None),
   inherits |-> [Span("s6", "r6", None, None) EXCEPT !.inherited = MCKnown],
   keyless |-> Span(None, None, None, None), gone |-> Span("s7", None, <<"gone", 0>>, None),
   plain |-> [Span("s8", None, None, None) EXCEPT !.genai = FALSE]]

Sends(spans) ==
  [path |-> "traces", type |-> "json", length |-> 1, wellFormed |-> TRUE, spans |-> spans]

MCRequests ==
  {Sends(<<MCSpans.named, MCSpans.child>>),
   Sends(<<MCSpans.child, MCSpans.other, MCSpans.named>>),
   Sends(<<MCSpans.told, MCSpans.inherits>>), Sends(<<MCSpans.untold>>),
   Sends(<<MCSpans.plain, MCSpans.keyless, MCSpans.gone>>),
   [Sends(<<>>) EXCEPT !.path = "other"], [Sends(<<>>) EXCEPT !.type = "protobuf"],
   [Sends(<<>>) EXCEPT !.length = 2], [Sends(<<>>) EXCEPT !.wellFormed = FALSE]}

\* Two runs, the first of two events, of which one has replay content.
MCRunOf == [e \in EventIds |-> IF e = 3 THEN 2 ELSE 1]
=============================================================================
