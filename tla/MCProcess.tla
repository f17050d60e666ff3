------------------------------ MODULE MCProcess ------------------------------
(***************************************************************************)
(* Small instances of what a process sets up and takes down, for TLC.      *)
(***************************************************************************)
EXTENDS Process

CONSTANTS p1, p2, c1, c2

MCTwoProcesses == [c \in Contexts |-> IF c = c1 THEN p1 ELSE p2]

MCPatched == <<"anthropic", "openai">>

Plainly == [replay |-> FALSE, exports |-> FALSE, ingest |-> FALSE, external |-> TRUE,
            custom |-> "none"]
MCOptions ==
  {[Plainly EXCEPT !.exports = TRUE, !.external = FALSE, !.ingest = TRUE],
   [Plainly EXCEPT !.replay = TRUE],
   [Plainly EXCEPT !.replay = TRUE, !.custom = "restores"],
   [Plainly EXCEPT !.replay = TRUE, !.custom = "raises"]}

Turn(kind, parts) == [kind |-> kind, parts |-> parts, loose |-> FALSE]
MCConversations ==
  LET question == Turn("human", {"text"})
      picture == Turn("human", {"text", "image"})
      calling == Turn("ai", {"text", "call"})
      result == Turn("tool", {"result"})
      mixed == Turn("human", {"text", "result"})
      loose == [question EXCEPT !.loose = TRUE]
  IN {<<question>>, <<question, calling, result>>, <<picture, calling, question>>,
      <<question, calling, mixed>>, <<question, calling, result, calling, question>>,
      <<loose, calling, loose>>}
MCBlocks == {<<>>, <<<<1, 2>>>>, <<<<1, 3>>, <<4>>>>, <<<<5>>>>}
MCRequests ==
  {[blocks |-> blocks, turns |-> turns,
    tools |-> IF Len(turns) = 1 THEN {"function", "callable"} ELSE {"function"}] :
     blocks \in MCBlocks, turns \in MCConversations}
MCBills ==
  {[cached |-> 0, writes |-> FALSE, reasoning |-> 1, answer |-> 2],
   [cached |-> 2, writes |-> FALSE, reasoning |-> 0, answer |-> 1],
   [cached |-> 2, writes |-> TRUE, reasoning |-> 0, answer |-> 1]}

MCRates == [input |-> 10, read |-> 1, write |-> 12, output |-> 50]
=============================================================================
