----------------------------- MODULE MCCallPath -----------------------------
(***************************************************************************)
(* Small instances of the path of a call, for TLC.  The exporter has two   *)
(* spans and two logs through a queue and batches of two: they overflow    *)
(* the queue and fill a batch.                                             *)
(***************************************************************************)
EXTENDS CallPath

CONSTANTS k1, k2

MCFour ==
  {[id |-> 1, kind |-> "llm_call"], [id |-> 2, kind |-> "llm_call"],
   [id |-> 3, kind |-> "outcome"], [id |-> 4, kind |-> "outcome"]}

-----------------------------------------------------------------------------
\* Two calls, in and out of one run.

Shape(provider, layers, mode, hasId, chunks, warns) ==
  [provider |-> provider, layers |-> layers, mode |-> mode, hasId |-> hasId,
   chunks |-> chunks, warns |-> warns]

Both == {"shim", "handler"}

\* k1 is of every kind a shim tells apart; k2 pushes its id out of the memory.
MCShapes ==
  [c \in {k1, k2} |->
     IF c = k2 THEN {Shape("anthropic", {"shim"}, "plain", TRUE, <<>>, FALSE)} ELSE
     {Shape("anthropic", Both, "plain", TRUE, <<>>, TRUE),
      Shape("anthropic", Both, "helper", TRUE,
            <<"message_start", "message_delta">>, FALSE),
      Shape("openai", Both, "stream", FALSE, <<"anonymous", "delta", "usage">>, TRUE),
      Shape("openai_responses", {"shim"}, "stream", TRUE,
            <<"response.created", "response.completed">>, FALSE),
      Shape("gemini", Both, "stream", FALSE, <<>>, FALSE)}]
=============================================================================
