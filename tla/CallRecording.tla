---------------------------- MODULE CallRecording ----------------------------
(***************************************************************************)
(* How one LLM call becomes one event although several layers see it: the  *)
(* shim around the provider's SDK, the observer that rides along with a    *)
(* streamed answer, and the LangChain handler above both.  Each layer asks *)
(* a per-run memory of response ids (or of exceptions) whether the call    *)
(* has been recorded, remembers it, and then writes; the observer claims   *)
(* the id when a chunk first shows it and writes when the stream ends.     *)
(*                                                                         *)
(* The calls of one agent context are modelled, several of which may be    *)
(* open at a time; the layers of a call run on the context's own thread.   *)
(* Sequence numbers are RunLifecycle's subject, ledgers Attribution's.     *)
(***************************************************************************)
EXTENDS Integers, Sequences, FiniteSets

CONSTANTS
  Calls,
  Runs,      \* explicit runs, each entered at most once
  Ambient,   \* the run of calls made outside any
  None,
  Shapes,    \* the kinds of call the agent may make of each call
  IdLimit,   \* _EMITTED_RESPONSE_IDS_PER_RUN
  Habits,    \* "outlives": a call may go on when its run has ended
  Faults     \* what may go wrong

FaultKinds == {"db_error", "translate", "cancel", "drift"}

\* What a probe tells apart in a provider's stream.
ChunksOf(provider) ==
  CASE provider = "anthropic" -> {"message_start", "delta", "message_delta"}
    [] provider = "openai" -> {"anonymous", "delta", "usage"}
    [] OTHER -> {"response.created", "delta", "response.completed"}

ShapesAssumption ==
  \A c \in Calls : \A s \in Shapes[c] :
    /\ s.provider \in {"anthropic", "openai", "openai_responses", "gemini"}
    /\ s.layers \in {{"shim"}, {"handler"}, {"shim", "handler"}}
    /\ s.mode \in {"plain", "stream", "helper"}
    /\ s.hasId \in BOOLEAN    \* the finished answer carries an id
    /\ s.chunks \in Seq(ChunksOf(s.provider))
    /\ s.warns \in BOOLEAN    \* a policy warns of the request
LimitsAssumption ==
  IdLimit \in Nat \ {0} /\ Faults \subseteq FaultKinds /\ Habits \subseteq {"outlives"}

AllRuns == Runs \union {Ambient}

NoneAssumption == None \notin AllRuns

VARIABLES
  active,   \* the ContextVar: the run the context is in, or None
  over,     \* the runs that have ended
  call,     \* per call, what the layers remember of it
  ids,      \* _emitted_response_ids: per run, calls whose id is remembered
  errs,     \* _emitted_error_keys: per run, calls whose exception is
  log,      \* the events, in the order they were written
  lost,     \* history: <<call, what>> that a fault kept from being written
  forgotten \* history: calls whose id or exception was remembered and dropped

vars == <<active, over, call, ids, errs, log, lost, forgotten>>

NoProbe == [id |-> FALSE, usage |-> FALSE]
NewCall == [shape |-> None, stage |-> "new", run |-> None, warn |-> FALSE,
            pos |-> 0, probe |-> NoProbe, claim |-> "none", cancelled |-> FALSE,
            refused |-> FALSE, observed |-> FALSE, told |-> FALSE]

Init ==
  /\ active = None
  /\ over = {}
  /\ call = [c \in Calls |-> NewCall]
  /\ ids = [r \in AllRuns |-> <<>>]
  /\ errs = [r \in AllRuns |-> <<>>]
  /\ log = <<>>
  /\ lost = {}
  /\ forgotten = {}

Elements(s) == {s[i] : i \in DOMAIN s}

\* ensure_active_run.
CurrentRun == IF active = None THEN Ambient ELSE active

-----------------------------------------------------------------------------
\* The four shims: which answers each hands to a stream observer, and what its
\* probe reads off a chunk.  Gemini's shim records a streamed answer as if it
\* were finished, and only Anthropic's wraps a context-manager helper.

AnthropicShim(mode) == mode \in {"stream", "helper"}
OpenAIShim(mode) == mode = "stream"
OpenAIResponsesShim(mode) == mode = "stream"
GeminiShim(mode) == FALSE

Observes(s) ==
  CASE s.provider = "anthropic" -> AnthropicShim(s.mode)
    [] s.provider = "openai" -> OpenAIShim(s.mode)
    [] s.provider = "openai_responses" -> OpenAIResponsesShim(s.mode)
    [] s.provider = "gemini" -> GeminiShim(s.mode)

AnthropicProbe(p, chunk) ==
  [id |-> p.id \/ chunk = "message_start", usage |-> p.usage \/ chunk = "message_delta"]

\* Every chunk has the id, but for those of servers that send none; the last one
\* has the usage when the caller has set include_usage.
ChatProbe(p, chunk) ==
  [id |-> p.id \/ chunk # "anonymous", usage |-> p.usage \/ chunk = "usage"]

ResponsesProbe(p, chunk) ==
  [id |-> p.id \/ chunk \in {"response.created", "response.completed"},
   usage |-> p.usage \/ chunk = "response.completed"]

Observe(s, p, chunk) ==
  CASE s.provider = "anthropic" -> AnthropicProbe(p, chunk)
    [] s.provider = "openai" -> ChatProbe(p, chunk)
    [] OTHER -> ResponsesProbe(p, chunk)

-----------------------------------------------------------------------------
\* The memories, and the write of what a layer has to say.

\* _record_emitted_response_id: most recent last, the oldest dropped.
Without(seen, c) ==
  IF c \in Elements(seen)
  THEN LET i == CHOOSE k \in DOMAIN seen : seen[k] = c
       IN  SubSeq(seen, 1, i - 1) \o SubSeq(seen, i + 1, Len(seen))
  ELSE seen

Remember(seen, c) ==
  LET moved == Append(Without(seen, c), c)
  IN IF Len(moved) > IdLimit THEN Tail(moved) ELSE moved

\* _record_emitted_error; its limit of 200 is not met.
RememberError(seen, c) == IF c \in Elements(seen) THEN seen ELSE Append(seen, c)

\* What two memories have forgotten by becoming new ones.
Forgets(newIds, newErrs) ==
  forgotten' = forgotten
    \union (UNION {Elements(ids[r]) \ Elements(newIds[r]) : r \in AllRuns})
    \union (UNION {Elements(errs[r]) \ Elements(newErrs[r]) : r \in AllRuns})

\* Each insert is isolated: it may fail alone.
Try(rows) == {rows} \union (IF "db_error" \in Faults THEN {<<>>} ELSE {})

\* An event, then the policy rows of its call, of which there is one at most.
Insert(row, warnings) ==
  \E first \in Try(<<row>>), second \in Try(warnings) :
    /\ log' = log \o (first \o second)
    /\ lost' = lost \union
         {<<x.call, x.what>> :
            x \in (Elements(<<row>> \o warnings) \ Elements(first \o second))}

Row(c, layer, r, what, estimated) ==
  [call |-> c, layer |-> layer, run |-> r, what |-> what, estimated |-> estimated]

\* _emit_policy_events: the decisions the shim's policies made before the call.
PolicyRows(c, layer, r) ==
  IF layer = "shim" /\ call[c].warn THEN <<Row(c, layer, r, "warn", FALSE)>> ELSE <<>>

\* Nothing is written of a call: its memory entry, if any, is kept.
Silent == UNCHANGED <<log, lost>>

\* Mutant: the id is looked up and not asked of the memory.
EmitAlways(c, layer, r, dedup, estimated) ==
  /\ ids' = IF dedup THEN [ids EXCEPT ![r] = Remember(@, c)] ELSE ids
  /\ errs' = errs
  /\ Forgets(ids', errs)
  /\ Insert(Row(c, layer, r, "ok", estimated), PolicyRows(c, layer, r))

\* emit_llm_call.  `dedup` is whether there is an id to ask for; a translator that
\* raises drops the call after its id has been remembered.
Emit(c, layer, r, dedup, estimated) ==
  /\ ids' = IF dedup THEN [ids EXCEPT ![r] = Remember(@, c)] ELSE ids
  /\ errs' = errs
  /\ Forgets(ids', errs)
  /\ IF dedup /\ c \in Elements(ids[r])
     THEN Silent
     ELSE \/ Insert(Row(c, layer, r, "ok", estimated), PolicyRows(c, layer, r))
          \/ /\ "translate" \in Faults
             /\ lost' = lost \union {<<c, "ok">>, <<c, "warn">>}
             /\ UNCHANGED log

\* emit_llm_call_error.
EmitError(c, layer, r) ==
  /\ errs' = [errs EXCEPT ![r] = RememberError(@, c)]
  /\ UNCHANGED <<ids, forgotten>>
  /\ IF c \in Elements(errs[r])
     THEN Silent
     ELSE Insert(Row(c, layer, r, "error", FALSE), PolicyRows(c, layer, r))

\* A layer without a call context, or whose work was interrupted, does nothing.
Nothing == UNCHANGED <<ids, errs, log, lost, forgotten>>

-----------------------------------------------------------------------------
\* Runs.

Finished(c) ==
  /\ call[c].stage \in {"new", "over", "raised"}
  /\ call[c].stage = "new" \/ call[c].told

EnterRun(r) ==
  /\ active = None
  /\ r \notin over
  /\ active' = r
  /\ UNCHANGED <<over, call, ids, errs, log, lost, forgotten>>

\* _release_run_state forgets what the run's calls have been recorded.
LeaveRun ==
  /\ active # None
  /\ "outlives" \in Habits \/ \A c \in Calls : Finished(c)
  /\ active' = None
  /\ over' = over \union {active}
  /\ ids' = [ids EXCEPT ![active] = <<>>]
  /\ errs' = [errs EXCEPT ![active] = <<>>]
  /\ Forgets(ids', errs')
  /\ UNCHANGED <<call, log, lost>>

-----------------------------------------------------------------------------
\* The shim, up to the answer of the SDK.

Hooked(c) == call[c].run # None

\* _before, then enforce_before_call, which may refuse.  The handler is called
\* before and keeps nothing that decides anything.
Begin(c) ==
  /\ call[c].stage = "new"
  /\ \E s \in Shapes[c], failed, refused \in BOOLEAN :
       LET hooked == "shim" \in s.layers /\ ~failed IN
         /\ failed => "db_error" \in Faults /\ "shim" \in s.layers
         /\ refused => hooked
         /\ call' = [call EXCEPT
              ![c] = [NewCall EXCEPT
                        !.shape = s, !.refused = refused,
                        !.warn = hooked /\ s.warns,
                        !.run = IF hooked THEN CurrentRun ELSE None,
                        !.told = "handler" \notin s.layers,
                        !.stage = IF refused THEN "raised" ELSE "out"]]
         /\ lost' = IF failed THEN lost \union {<<c, "ok">>} ELSE lost
  /\ UNCHANGED <<active, over, ids, errs, log, forgotten>>

\* The SDK returns an answer that the shim records at once.
Answer(c) ==
  /\ call[c].stage = "out"
  /\ ~(Hooked(c) /\ Observes(call[c].shape))
  /\ call' = [call EXCEPT ![c].stage = "over"]
  /\ IF Hooked(c) THEN Emit(c, "shim", call[c].run, call[c].shape.hasId, FALSE)
                  ELSE Nothing
  /\ UNCHANGED <<active, over>>

\* It returns a stream, which the caller gets inside an observer; or, for the
\* helper, an object the observer cannot be put into.
Open(c) ==
  /\ call[c].stage = "out"
  /\ Hooked(c) /\ Observes(call[c].shape)
  /\ \/ call' = [call EXCEPT ![c].stage = "open", ![c].observed = TRUE] /\ UNCHANGED lost
     \/ /\ "drift" \in Faults /\ call[c].shape.mode = "helper"
        /\ call' = [call EXCEPT ![c].stage = "over"]
        /\ lost' = lost \union {<<c, "ok">>, <<c, "warn">>}
  /\ UNCHANGED <<active, over, ids, errs, log, forgotten>>

\* The SDK raises.  The helper sends its request outside the shim's `try`.
Fail(c) ==
  /\ call[c].stage = "out"
  /\ call' = [call EXCEPT ![c].stage = "raised"]
  /\ IF Hooked(c) /\ call[c].shape.mode # "helper"
     THEN EmitError(c, "shim", call[c].run) ELSE Nothing
  /\ UNCHANGED <<active, over>>

\* A BaseException, such as a cancelled task, passes the shim unseen.
Cancel(c) ==
  /\ "cancel" \in Faults
  /\ call[c].stage = "out"
  /\ call' = [call EXCEPT ![c].stage = "raised", ![c].cancelled = TRUE]
  /\ Nothing
  /\ UNCHANGED <<active, over>>

-----------------------------------------------------------------------------
\* The stream observer and its recorder.

Claimed(c, probe) ==
  IF call[c].claim # "none" \/ ~probe.id THEN call[c].claim
  ELSE IF c \in Elements(ids[call[c].run]) THEN "lost" ELSE "won"

\* Mutant: the id is not claimed before the stream is closed.
ChunkUnclaimed(c) ==
  LET s == call[c].shape IN
    /\ call[c].stage = "open"
    /\ call[c].pos < Len(s.chunks)
    /\ call' = [call EXCEPT
         ![c].pos = @ + 1,
         ![c].probe = Observe(s, @, s.chunks[call[c].pos + 1])]
    /\ UNCHANGED <<active, over, ids, errs, log, lost, forgotten>>

\* __next__: the probe sees the chunk, and the recorder claims the id once.
Chunk(c) ==
  LET s == call[c].shape
      r == call[c].run
      probe == Observe(s, call[c].probe, s.chunks[call[c].pos + 1])
  IN /\ call[c].stage = "open"
     /\ call[c].pos < Len(s.chunks)
     /\ call' = [call EXCEPT ![c].pos = @ + 1, ![c].probe = probe,
                             ![c].claim = Claimed(c, probe)]
     /\ ids' = IF call[c].claim = "none" /\ probe.id
               THEN [ids EXCEPT ![r] = Remember(@, c)] ELSE ids
     /\ Forgets(ids', errs)
     /\ UNCHANGED <<active, over, errs, log, lost>>

\* _StreamRecorder.finalise; an unclaimed stream has shown no id.
Finalise(c) ==
  /\ call' = [call EXCEPT ![c].stage = "over"]
  /\ IF call[c].claim = "lost" THEN Nothing
     ELSE Emit(c, "shim", call[c].run, FALSE, ~call[c].probe.usage)
  /\ UNCHANGED <<active, over>>

\* The iterator is exhausted, or the caller closes it or leaves its `with` block.
Close(c) ==
  /\ call[c].stage = "open"
  /\ Finalise(c)

\* The caller lets go of an open stream, with or without an exception of its own;
\* _finalise runs when the observer is collected.
Abandon(c) ==
  /\ call[c].stage = "open"
  /\ \E cancelled \in BOOLEAN :
       /\ cancelled => "cancel" \in Faults
       /\ call' = [call EXCEPT ![c].stage = "dropped", ![c].cancelled = cancelled]
  /\ UNCHANGED <<active, over, ids, errs, log, lost, forgotten>>

\* Mutant: no finaliser.
CollectSilently(c) ==
  /\ call[c].stage = "dropped"
  /\ call' = [call EXCEPT ![c].stage = "over"]
  /\ Nothing
  /\ UNCHANGED <<active, over>>

Collect(c) ==
  /\ call[c].stage = "dropped"
  /\ Finalise(c)

\* The provider fails in mid-stream: an error event, whatever the claim.
StreamFail(c) ==
  /\ call[c].stage = "open"
  /\ call' = [call EXCEPT ![c].stage = "raised"]
  /\ EmitError(c, "shim", call[c].run)
  /\ UNCHANGED <<active, over>>

-----------------------------------------------------------------------------
\* The LangChain handler, which resolves the run anew when the call has ended.

\* The handler sees the id that the answer, or a chunk it was given, carried.
HandlerSeesId(c) ==
  IF call[c].shape.mode = "plain" \/ ~call[c].observed THEN call[c].shape.hasId
  ELSE call[c].probe.id

\* on_llm_end: after the last chunk, before or after the stream is closed.
HandlerEnd(c) ==
  /\ ~call[c].told
  /\ \/ call[c].stage = "over" /\ ~call[c].cancelled
     \/ call[c].stage = "open" /\ call[c].pos = Len(call[c].shape.chunks)
  /\ call' = [call EXCEPT ![c].told = TRUE]
  /\ Emit(c, "handler", CurrentRun, HandlerSeesId(c), FALSE)
  /\ UNCHANGED <<active, over>>

\* on_llm_error: the exception, or one that has it as cause or context.
HandlerError(c) ==
  /\ ~call[c].told
  /\ call[c].stage = "raised" \/ call[c].cancelled
  /\ call' = [call EXCEPT ![c].told = TRUE]
  /\ EmitError(c, "handler", CurrentRun)
  /\ UNCHANGED <<active, over>>

\* Either callback gets no call context.
HandlerFails(c) ==
  /\ "db_error" \in Faults
  /\ ~call[c].told
  /\ call[c].stage \in {"over", "raised"}
  /\ call' = [call EXCEPT ![c].told = TRUE]
  /\ lost' = lost \union {<<c, "ok">>}
  /\ UNCHANGED <<active, over, ids, errs, log, forgotten>>

-----------------------------------------------------------------------------
Next ==
  \/ \E r \in Runs : EnterRun(r)
  \/ LeaveRun
  \/ \E c \in Calls :
       \/ Begin(c)
       \/ Answer(c)
       \/ Open(c)
       \/ Fail(c)
       \/ Cancel(c)
       \/ Chunk(c)
       \/ Close(c)
       \/ Abandon(c)
       \/ Collect(c)
       \/ StreamFail(c)
       \/ HandlerEnd(c)
       \/ HandlerError(c)
       \/ HandlerFails(c)

Spec == Init /\ [][Next]_vars

\* An observer nothing refers to is collected; callers and providers owe nothing.
FairSpec == Spec /\ \A c \in Calls : WF_vars(Collect(c))
-----------------------------------------------------------------------------
Shown == {"new", "out", "open", "dropped", "over", "raised"}
RowType == [call : Calls, layer : {"shim", "handler"}, run : AllRuns,
            what : {"ok", "error", "warn"}, estimated : BOOLEAN]

\* The memories hold calls without repetition and within their limit.
TypeOK ==
  /\ active \in Runs \union {None}
  /\ over \subseteq Runs
  /\ \A c \in Calls : /\ call[c].stage \in Shown
                      /\ call[c].shape \in Shapes[c] \union {None}
                      /\ call[c].run \in AllRuns \union {None}
                      /\ call[c].claim \in {"none", "won", "lost"}
  /\ \A r \in AllRuns : /\ ids[r] \in Seq(Calls) /\ errs[r] \in Seq(Calls)
                        /\ Len(ids[r]) <= IdLimit
                        /\ \A i, j \in DOMAIN ids[r] : ids[r][i] = ids[r][j] => i = j
  /\ log \in Seq(RowType)
  /\ forgotten \subseteq Calls

\* The events that count c as a call.
CallRows(c) == {i \in DOMAIN log : log[i].call = c /\ log[i].what # "warn"}

\* "the provider response id keeps the ledger single-entry"
\* (langchain/handler.py:20): a call is counted twice only if the layers filed it
\* under different runs, no id was shown, the memory of it was dropped in
\* between, or an interrupt went past the shim and was reported by the handler.
CountedTwiceOnlyIf ==
  \A c \in Calls : \A i, j \in CallRows(c) : i # j =>
    \/ log[i].run # log[j].run
    \/ ~HandlerSeesId(c)
    \/ c \in forgotten
    \/ call[c].cancelled

\* No layer is told of it: the caller was refused or interrupted, or the helper's
\* request failed, and there is no handler.
Unseen(c) ==
  /\ "handler" \notin call[c].shape.layers
  /\ call[c].stage = "raised"
  /\ call[c].refused \/ call[c].cancelled \/ call[c].shape.mode = "helper"

\* A failure is recorded "instead of a silent gap" (shims/anthropic.py:215): when
\* all layers are done with a call it is in the log, or a fault kept it out.  A
\* layer whose write fails keeps the next layer from writing.
UncountedOnlyIf ==
  \A c \in Calls :
    call[c].stage # "new" /\ Finished(c) /\ CallRows(c) = {} =>
      <<c, "ok">> \in lost \/ <<c, "error">> \in lost \/ Unseen(c)

\* The shim has a context and, if the answer is a stream, an observer around it.
Captures(c) ==
  Hooked(c) /\ (Observes(call[c].shape) => call[c].observed)

\* The observer claims the id "always before the handler can run"
\* (shims/_streaming.py:35), so that the handler's thinner event never stands in
\* for one the shim would have written.
RicherRowWins ==
  \A i \in DOMAIN log :
    LET c == log[i].call IN
      log[i].layer = "handler" /\ log[i].what = "ok" /\ Captures(c) =>
        \/ log[i].run # call[c].run
        \/ ~HandlerSeesId(c)
        \/ c \in forgotten

\* "any policy warn decision is recorded regardless of whether the SDK succeeded"
\* (shims/_emit.py:534): unless the call was refused or interrupted, the helper's
\* request failed, or a fault kept the row out.
WarnLostOnlyIf ==
  \A c \in Calls :
    /\ call[c].stage \in {"over", "raised"} /\ call[c].warn
    /\ ~\E i \in DOMAIN log : log[i].call = c /\ log[i].what = "warn"
    => \/ <<c, "warn">> \in lost
       \/ call[c].stage = "raised"
          /\ (call[c].refused \/ call[c].cancelled \/ call[c].shape.mode = "helper")

\* An output is estimated only if the caller left the stream before the chunk that
\* carries the usage, or no chunk does (_StreamProbe.estimation_flags).
UsageChunks == {"message_delta", "usage", "response.completed"}
EstimatedOnlyIfUnread ==
  \A i \in DOMAIN log : log[i].estimated =>
    LET c == log[i].call IN
      \A k \in 1..call[c].pos : call[c].shape.chunks[k] \notin UsageChunks

\* A stream nobody holds is recorded all the same (_StreamedCallObserver.__del__).
AbandonedIsRecorded ==
  \A c \in Calls :
    call[c].stage = "dropped" ~>
      CallRows(c) # {} \/ <<c, "ok">> \in lost
=============================================================================
