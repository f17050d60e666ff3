--------------------------- MODULE EmbeddingCapture ---------------------------
(***************************************************************************)
(* Two layers that see one embedding call: the shim of the OpenAI SDK and  *)
(* the wrappers of LangChain's embedding methods.  Context variables keep  *)
(* them from counting it twice: how deep in wrapped methods a call is, and *)
(* whether the SDK's shim has recorded since the outermost began.  A task  *)
(* that a method starts works on a copy of them.                           *)
(*                                                                         *)
(* What the application does is one step after the other: it enters and    *)
(* leaves a wrapped method, forks and joins a task, asks a provider        *)
(* through the OpenAI SDK ("raw") or through another client ("other").     *)
(***************************************************************************)
EXTENDS Integers, SequencesExt

CONSTANTS
  EmbedFaults,
  MaxEmbedSteps  \* methods, tasks and requests

EmbedAssumption == EmbedFaults \subseteq {"db_error", "provider_error"}

VARIABLES
  layers,    \* which shims are installed
  context,   \* _embed_depth and _raw_embedding_captured of the task at work
  open,      \* the methods entered and the tasks forked, innermost last, each with
             \* the context before it
  raising,
  steps,
  events,    \* embedding_call events: who wrote them and what requests they count
  asked,     \* history: the requests that were answered, by which client, in which
             \* outermost method, and whether in a task of that method
  methods,   \* history: the outermost methods so far
  lost,      \* history: requests in events whose insert failed,
  raised     \* and those of outermost methods that raised

vars == <<layers, context, open, raising, steps, events, asked, methods, lost, raised>>

Init ==
  /\ layers \in SUBSET {"raw", "langchain"}
  /\ context = [depth |-> 0, captured |-> FALSE]
  /\ open = <<>> /\ raising = FALSE /\ steps = 0
  /\ events = {} /\ asked = <<>> /\ methods = 0 /\ lost = {} /\ raised = {}

InMethod == \E k \in DOMAIN open : open[k].kind = "method"
InTask ==
  \E j, k \in DOMAIN open : j < k /\ open[j].kind = "method" /\ open[k].kind = "task"
Asked(m) == {i \in DOMAIN asked : asked[i].method = m}

Begin == ~raising /\ steps < MaxEmbedSteps /\ steps' = steps + 1

\* The tokens of the two variables, or what a joined task goes back to.
Opened(kind) == open' = Append(open, [kind |-> kind, context |-> context])

\* What is raised may be caught wherever it arrives, and is not seen beyond the agent.
Closed(kind) ==
  /\ open # <<>> /\ Last(open).kind = kind
  /\ open' = Front(open)
  /\ raising' \in {FALSE, raising /\ Len(open) > 1}

\* emit_embedding_call, which safely_run keeps from raising.
Record(layer, requests) ==
  \/ events' = events \union {[layer |-> layer, requests |-> requests]} /\ UNCHANGED lost
  \/ /\ "db_error" \in EmbedFaults
     /\ lost' = lost \union requests /\ UNCHANGED events

-----------------------------------------------------------------------------
\* The wrapper of a method before the method: only the outermost resets the signal.
\* (Where LangChain is not wrapped nobody looks at these variables.)
EnterWith(captured) ==
  /\ Begin /\ Opened("method")
  /\ context' = [depth |-> context.depth + 1, captured |-> captured]
  /\ methods' = IF InMethod THEN methods ELSE methods + 1
  /\ UNCHANGED <<layers, raising, events, asked, lost, raised>>

\* Mutant: the signal of the calls before is not reset.
EnterAsIs == EnterWith(context.captured)

Enter == EnterWith(context.depth # 0 /\ context.captured)

\* And after it, raising or not: the tokens are put back, and the outermost records
\* what the SDK's shim has not.
Exit ==
  LET before == Last(open).context
      outermost == before.depth = 0
  IN /\ Closed("method")
     /\ context' = IF outermost THEN before
                   ELSE [before EXCEPT !.captured = context.captured]
     /\ IF outermost /\ ~raising /\ ~context.captured /\ "langchain" \in layers
        THEN Record("langchain", Asked(methods))
        ELSE UNCHANGED <<events, lost>>
     /\ raised' = IF raising /\ ~InMethod' THEN raised \union Asked(methods) ELSE raised
     /\ UNCHANGED <<layers, steps, asked, methods>>

\* A task starts with a copy of the context, and is awaited.
Fork ==
  /\ Begin /\ Opened("task")
  /\ UNCHANGED <<layers, context, raising, events, asked, methods, lost, raised>>

Join ==
  /\ Closed("task")
  /\ context' = Last(open).context
  /\ UNCHANGED <<layers, steps, events, asked, methods, lost, raised>>

Answered(client) ==
  /\ Begin
  /\ asked' = Append(asked, [client |-> client, task |-> InTask,
                             method |-> IF InMethod THEN methods ELSE 0])
  /\ UNCHANGED <<layers, open, raising, methods, raised>>

\* The SDK's wrapper: it signals, then records.
AskRaw ==
  /\ Answered("raw")
  /\ IF "raw" \in layers
     THEN Record("raw", {Len(asked) + 1}) /\ context' = [context EXCEPT !.captured = TRUE]
     ELSE UNCHANGED <<events, lost, context>>

AskOther == Answered("other") /\ UNCHANGED <<context, events, lost>>

Fail ==
  /\ "provider_error" \in EmbedFaults
  /\ open # <<>>
  /\ Begin /\ raising' = TRUE
  /\ UNCHANGED <<layers, context, open, events, asked, methods, lost, raised>>

Next == Enter \/ Exit \/ Fork \/ Join \/ AskRaw \/ AskOther \/ Fail

Spec == Init /\ [][Next]_vars

-----------------------------------------------------------------------------
\* A request is in two events only if its method asked it in a task: the copy of
\* the signal it set is gone when the method looks (shims/_emit.py:258-262,
\* langchain/embeddings.py:162-182).
EmbeddedAtMostOnce ==
  \A d, e \in events : d # e => \A i \in d.requests \intersect e.requests : asked[i].task

\* Its outermost method, if any, is over.
Over(i) == InMethod => asked[i].method # methods

\* The SDK's shim has spoken for the outermost method m, where m looks.
Signalled(m) ==
  "raw" \in layers /\ \E j \in Asked(m) : asked[j].client = "raw" /\ ~asked[j].task

\* An answered request that nobody was still to record is in no event only if no
\* layer saw it, its insert failed, its method raised, or the same method also
\* asked through the SDK, whose shim then speaks for all the method asked.
UncountedOnlyIf ==
  \A i \in DOMAIN asked :
    Over(i) /\ (\A e \in events : i \notin e.requests) =>
      \/ /\ asked[i].client = "raw" => "raw" \notin layers
         /\ asked[i].method # 0 => "langchain" \notin layers
      \/ i \in lost \union raised
      \/ asked[i].method # 0 /\ Signalled(asked[i].method)

EmbeddedOnce == EmbeddedAtMostOnce /\ UncountedOnlyIf
=============================================================================
