------------------------------ MODULE Attribution ------------------------------
(***************************************************************************)
(* The causal token ledger of a run's calls.  Each API surface has a       *)
(* translator, which splits the request by cause and takes the usage from  *)
(* the response.  Three things are kept between the calls of a run: the    *)
(* prefix its system blocks have had in common, the tokens tagged as       *)
(* retrieved, and the mark of a cache resource just created.               *)
(*                                                                         *)
(* A token is a part of the request, so that a category is the set of the  *)
(* parts it counts: <<i, "text">> is the text of turn i.  Only the system  *)
(* blocks, whose words are compared, are sequences of words.               *)
(***************************************************************************)
EXTENDS Integers, FiniteSets, SequencesExt

CONSTANTS
  Requests, \* what is asked: system blocks, turns, tools
  Bills,    \* what providers charge for: tokens cached, reasoning, output
  Rates,    \* PriceRow: nanodollars per token
  MaxTagged, MaxCalls, \* bounds of the instance
  None

\* The words of the system blocks.
Words ==
  UNION {UNION {{r.blocks[i][k] : k \in DOMAIN r.blocks[i]} : i \in DOMAIN r.blocks} :
           r \in Requests}

\* What a tool says is its result, never a text of the conversation.
AttributionAssumption ==
  /\ \A r \in Requests :
       /\ r.blocks \in Seq(Seq(Words)) /\ IsFiniteSet(r.tools)
       /\ r.turns \in Seq([kind : {"human", "ai", "tool"}, loose : BOOLEAN,
                           parts : SUBSET {"text", "result", "image", "call"}])
       /\ \A i \in DOMAIN r.turns :
            r.turns[i].kind = "tool" => "text" \notin r.turns[i].parts
  /\ Bills \subseteq [cached : Nat, writes : BOOLEAN, reasoning : Nat, answer : Nat]
  /\ {Rates.input, Rates.read, Rates.write, Rates.output} \subseteq Nat

VARIABLES
  prefix,    \* stable_system_prefix
  pending,   \* pending_retrieved_context_tokens
  created,   \* pending_cache_resource_creation
  seen,      \* history: the system blocks since the prefix was last empty
  done,      \* calls so far
  last       \* the call whose row is not yet inserted: request, split and ledger

vars == <<prefix, pending, created, seen, done, last>>

Init ==
  /\ prefix = <<>> /\ pending = 0 /\ created = FALSE
  /\ seen = {} /\ done = 0 /\ last = None

-----------------------------------------------------------------------------
Item(turns, i, role) == [role |-> role, parts |-> {i} \X turns[i].parts]

\* How a surface puts the turns: Anthropic's tool results are blocks of user
\* messages, the other forms have a role or, without one, an item for them.
AnthropicItems(turns) ==
  [i \in DOMAIN turns |->
     Item(turns, i, IF turns[i].kind = "ai" THEN "assistant" ELSE "user")]

Roles == [human |-> "user", ai |-> "assistant", tool |-> "tool"]
OpenAIItems(turns) == [i \in DOMAIN turns |-> Item(turns, i, Roles[turns[i].kind])]

ResponsesItems(turns) ==
  [i \in DOMAIN turns |->
     Item(turns, i, IF turns[i].kind = "tool" THEN "none" ELSE Roles[turns[i].kind])]

\* The message list a LangChain model was called with.
LangChainItems(turns) == OpenAIItems(turns)

\* Gemini's as Anthropic's, but what has no content dict around it is gathered in
\* one user content at the end.
GeminiItems(turns) ==
  LET items == AnthropicItems(turns)
      loose == {i \in DOMAIN turns : turns[i].loose}
      dicts == DOMAIN turns \ loose
      Nth(k) == CHOOSE i \in dicts : Cardinality({j \in dicts : j <= i}) = k
  IN IF loose = {} THEN items
     ELSE Append([k \in 1..Cardinality(dicts) |-> items[Nth(k)]],
                 [role |-> "user", parts |-> UNION {items[i].parts : i \in loose}])

Items(surface, turns) ==
  CASE surface = "anthropic" -> AnthropicItems(turns)
    [] surface = "openai"    -> OpenAIItems(turns)
    [] surface = "responses" -> ResponsesItems(turns)
    [] surface = "gemini"    -> GeminiItems(turns)
    [] surface = "langchain" -> LangChainItems(turns)

\* The system block: Chat Completions has its first system message only.
System(surface, blocks) ==
  IF surface = "openai"
  THEN IF blocks = <<>> THEN <<>> ELSE Head(blocks)
  ELSE FlattenSeq(blocks)

-----------------------------------------------------------------------------
PartsOf(items, kinds, at) ==
  {p \in UNION {items[i].parts : i \in at \intersect DOMAIN items} : p[2] \in kinds}

LastUser(items) ==
  LET users == {i \in DOMAIN items : items[i].role = "user"} IN
  IF users = {} THEN 0 ELSE Max(users)

\* Mutant: the current user turn is part of what came before.
MemoryOfAll(items) ==
  PartsOf(items, {"text"},
          {i \in DOMAIN items : items[i].role \in {"user", "assistant"}})

Memory(items) ==
  PartsOf(items, {"text"},
          {i \in DOMAIN items : items[i].role \in {"user", "assistant"}} \ {LastUser(items)})

Split(surface, turns) ==
  LET items == Items(surface, turns)
  IN [user   |-> PartsOf(items, {"text"}, {LastUser(items)}),
      result |-> PartsOf(items, {"result"}, DOMAIN items),
      memory |-> Memory(items)]

\* Mutant: of what the two have in common only the lengths are looked at.
UpdateShorter(current, block) ==
  IF current = <<>> THEN block
  ELSE IF Len(current) <= Len(block) THEN current ELSE block

\* update_stable_prefix: an empty prefix takes the whole block.
UpdateStablePrefix(current, block) ==
  IF current = <<>> THEN block ELSE LongestCommonPrefix({current, block})

-----------------------------------------------------------------------------
Tokens(request) ==
  Len(FlattenSeq(request.blocks)) + Cardinality(request.tools)
    + Cardinality(UNION {{i} \X request.turns[i].parts : i \in DOMAIN request.turns})

\* What the provider charges for: OpenAI bills no cache writes, Gemini bills one
\* for the call that a cache resource was created for.
Charge(surface, request, bill) ==
  LET cached == Min({bill.cached, Tokens(request)})
      written == CASE surface \in {"openai", "responses"} -> FALSE
                   [] surface = "gemini" -> created
                   [] OTHER -> bill.writes
  IN [fresh     |-> Tokens(request) - cached,
      read      |-> IF written THEN 0 ELSE cached,
      written   |-> IF written THEN cached ELSE 0,
      reasoning |-> bill.reasoning, answer |-> bill.answer]

\* And what the response says of it, in the terms of its API.
Prompt(c) == c.fresh + c.read + c.written
Report(surface, c) ==
  CASE surface = "anthropic" ->
         [input_tokens |-> c.fresh, cache_read_input_tokens |-> c.read,
          cache_creation_input_tokens |-> c.written,
          output_tokens |-> c.answer + c.reasoning, thinking_tokens |-> c.reasoning]
    [] surface = "gemini" ->
         [prompt_token_count |-> Prompt(c), cached_content_token_count |-> c.read + c.written,
          candidates_token_count |-> c.answer, thoughts_token_count |-> c.reasoning]
    [] OTHER ->
         [input_tokens |-> Prompt(c), cached_tokens |-> c.read,
          cache_creation |-> c.written, output_tokens |-> c.answer + c.reasoning,
          reasoning_tokens |-> c.reasoning]

NoUsage == [read |-> 0, created |-> 0, reasoning |-> 0, output |-> 0]

AnthropicUsage(u) ==
  [read |-> u.cache_read_input_tokens, created |-> u.cache_creation_input_tokens,
   reasoning |-> u.thinking_tokens, output |-> u.output_tokens]

OpenAIUsage(u) ==
  [read |-> u.cached_tokens, created |-> 0,
   reasoning |-> u.reasoning_tokens, output |-> u.output_tokens]

ResponsesUsage(u) == OpenAIUsage(u)

\* Mutant: thinking is not part of the output.
GeminiUsageVisible(u) ==
  [read |-> u.cached_content_token_count, created |-> 0,
   reasoning |-> u.thoughts_token_count, output |-> u.candidates_token_count]

\* The translator moves what a new cache resource holds from read to created.
GeminiUsage(u) ==
  LET cached == u.cached_content_token_count IN
  [read |-> IF created THEN 0 ELSE cached, created |-> IF created THEN cached ELSE 0,
   reasoning |-> u.thoughts_token_count,
   output |-> u.candidates_token_count + u.thoughts_token_count]

\* usage_metadata, or the prompt and completion counts of older integrations.
LangChainUsage(u, how) ==
  IF how = "counts" THEN [NoUsage EXCEPT !.output = u.output_tokens]
  ELSE [read |-> u.cached_tokens, created |-> u.cache_creation,
        reasoning |-> u.reasoning_tokens, output |-> u.output_tokens]

-----------------------------------------------------------------------------
\* Those of the eleven that a translator fills; three stay 0 in every call.
Causes == {"system_static", "system_dynamic", "user_input", "tool_schema",
           "tool_result", "retrieved_context", "memory", "reasoning"}

InputTotal(ledger) ==
  ledger.system_static + ledger.system_dynamic + ledger.user_input + ledger.tool_schema
    + ledger.tool_result + ledger.retrieved_context + ledger.memory + ledger.reasoning

Estimate(ledger) ==
  Max({0, InputTotal(ledger) - ledger.cache_read - ledger.cache_creation}) * Rates.input
    + ledger.cache_read * Rates.read + ledger.cache_creation * Rates.write
    + ledger.output * Rates.output

EstimatePerCategory(ledger) ==
  [name \in DOMAIN ledger |->
     ledger[name] * CASE name \in Causes -> Rates.input
                      [] name = "cache_read" -> Rates.read
                      [] name = "cache_creation" -> Rates.write
                      [] name = "output" -> Rates.output]

\* What all translators do with what theirs found.
Translate(surface, request, bill, how, usage) ==
  LET block == System(surface, request.blocks)
      static == UpdateStablePrefix(prefix, block)
      split == Split(surface, request.turns)
      \* Gemini's callables have no schema to count.
      schemas == request.tools \ {"callable"}
  IN /\ last = None /\ done < MaxCalls /\ done' = done + 1
     /\ prefix' = static /\ pending' = 0
     /\ seen' = (IF prefix = <<>> THEN {} ELSE seen) \union {block}
     /\ last' =
          [surface |-> surface, request |-> request, how |-> how, split |-> split,
           static |-> static, charge |-> Charge(surface, request, bill),
           ledger |->
             [system_static |-> Len(static), system_dynamic |-> Len(block) - Len(static),
              user_input |-> Cardinality(split.user), tool_schema |-> Cardinality(schemas),
              tool_result |-> Cardinality(split.result), memory |-> Cardinality(split.memory),
              retrieved_context |-> pending, reasoning |-> usage.reasoning,
              cache_read |-> usage.read, cache_creation |-> usage.created,
              output |-> usage.output]]

\* The forms only some APIs know.
Mixed(request) ==
  \E i \in DOMAIN request.turns :
    request.turns[i].kind = "human" /\ "result" \in request.turns[i].parts
Loose(request) == \E i \in DOMAIN request.turns : request.turns[i].loose

Reported(surface, request, bill) == Report(surface, Charge(surface, request, bill))

AnthropicCall(request, bill, how) ==
  /\ ~Loose(request) /\ "callable" \notin request.tools
  /\ how \in {"usage", "nothing"}
  /\ LET u == Reported("anthropic", request, bill) IN
       Translate("anthropic", request, bill, how,
                 IF how = "nothing" THEN NoUsage ELSE AnthropicUsage(u))
  /\ UNCHANGED created

OpenAICall(request, bill, how) ==
  /\ ~Loose(request) /\ ~Mixed(request) /\ "callable" \notin request.tools
  /\ how \in {"usage", "nothing"}
  /\ LET u == Reported("openai", request, bill) IN
       Translate("openai", request, bill, how,
                 IF how = "nothing" THEN NoUsage ELSE OpenAIUsage(u))
  /\ UNCHANGED created

ResponsesCall(request, bill, how) ==
  /\ ~Loose(request) /\ ~Mixed(request) /\ "callable" \notin request.tools
  /\ how \in {"usage", "nothing"}
  /\ LET u == Reported("responses", request, bill) IN
       Translate("responses", request, bill, how,
                 IF how = "nothing" THEN NoUsage ELSE ResponsesUsage(u))
  /\ UNCHANGED created

GeminiCall(request, bill, how) ==
  /\ how \in {"usage", "nothing"}
  /\ LET u == Reported("gemini", request, bill) IN
       Translate("gemini", request, bill, how,
                 IF how = "nothing" THEN NoUsage ELSE GeminiUsage(u))
  /\ created' = FALSE

LangChainCall(request, bill, how) ==
  /\ ~Loose(request) /\ "callable" \notin request.tools
  /\ LET u == Reported("langchain", request, bill) IN
       Translate("langchain", request, bill, how,
                 IF how = "nothing" THEN NoUsage ELSE LangChainUsage(u, how))
  /\ UNCHANGED created

\* The call's row is inserted.
Record == last # None /\ last' = None /\ UNCHANGED <<prefix, pending, created, seen, done>>

\* tag_retrieval, and the policy that creates a cache resource.
TagRetrieval ==
  /\ last = None /\ pending < MaxTagged /\ pending' = pending + 1
  /\ UNCHANGED <<prefix, created, seen, done, last>>

CreateResource ==
  /\ last = None /\ ~created /\ created' = TRUE
  /\ UNCHANGED <<prefix, pending, seen, done, last>>

Next ==
  \/ TagRetrieval \/ CreateResource \/ Record
  \/ \E request \in Requests, bill \in Bills, how \in {"usage", "counts", "nothing"} :
       \/ AnthropicCall(request, bill, how) \/ OpenAICall(request, bill, how)
       \/ ResponsesCall(request, bill, how) \/ GeminiCall(request, bill, how)
       \/ LangChainCall(request, bill, how)

Spec == Init /\ [][Next]_vars

-----------------------------------------------------------------------------
\* Every text and tool result of a request is in one category, whichever API it is
\* put in, and the words of its system block in one of two; the blocks after the
\* first are in none on Chat Completions.
AttributedOnce ==
  last # None =>
    LET s == last.split
        turns == last.request.turns
    IN /\ s.user \union s.result \union s.memory =
            UNION {{i} \X (turns[i].parts \intersect {"text", "result"}) : i \in DOMAIN turns}
       /\ s.user \intersect s.result = {} /\ s.user \intersect s.memory = {}
       /\ s.result \intersect s.memory = {}
       /\ last.ledger.system_static + last.ledger.system_dynamic =
            Len(IF last.surface = "openai" /\ last.request.blocks # <<>>
                THEN Head(last.request.blocks) ELSE FlattenSeq(last.request.blocks))

\* The question that a tool's answer follows is part of the memory where the answer
\* is in a user message of its own, and the user's input elsewhere: the two layers
\* that may record a call disagree in that case and no other
\* (docs/concepts/langchain-integration.md:42-64).
ToolTurn(turns) ==
  \E i \in DOMAIN turns :
    turns[i].kind = "tool" /\ \A j \in DOMAIN turns : j > i => turns[j].kind # "human"

LayersAgree ==
  last # None /\ ~Loose(last.request) =>
    LET turns == last.request.turns
        other == Split("langchain", turns)
    IN \/ last.split = other
       \/ /\ last.surface \in {"anthropic", "gemini"} /\ ToolTurn(turns)
          /\ last.split.user = {}
          /\ last.split.memory = other.memory \union other.user

\* What is counted as the static part of a system block is at the head of every
\* block since the last that had nothing in common with those before it.
StaticIsShared ==
  last # None => \A block \in seen : IsPrefix(last.static, block)

\* "The prefix can only shorten - never grow - across the run"
\* (docs/concepts/causal-token-ledger.md:95, normalise/__init__.py:212).
PrefixNeverGrows ==
  [][done > 0 => Len(prefix') <= Len(prefix)]_vars

\* The estimate exceeds the provider's charge by no more than what the input total
\* has twice, retrieved text that is also in a turn and reasoning that is output,
\* and falls short of it by no more than what no category counts; the categories
\* add up to more than it, by the cached tokens at the price of fresh ones
\* (pricing.py:143-311).
Uncounted(c) ==
  LET turns == c.request.turns IN
  Cardinality(UNION {{i} \X (turns[i].parts \intersect {"image", "call"}) : i \in DOMAIN turns})
    + Cardinality(c.request.tools \intersect {"callable"})
    + Len(FlattenSeq(c.request.blocks)) - c.ledger.system_static - c.ledger.system_dynamic

Charged(c) ==
  c.fresh * Rates.input + c.read * Rates.read + c.written * Rates.write
    + (c.answer + c.reasoning) * Rates.output

BillExplained ==
  last # None /\ last.how = "usage" =>
    LET ledger == last.ledger
        off == Estimate(ledger) - Charged(last.charge)
        split == EstimatePerCategory(ledger)
    IN /\ off <= Rates.input * (ledger.retrieved_context + ledger.reasoning)
       /\ off >= - Rates.input * Uncounted(last)
       /\ InputTotal(split) + split.cache_read + split.cache_creation + split.output
            - Estimate(ledger) =
            Rates.input * Min({InputTotal(ledger), ledger.cache_read + ledger.cache_creation})
=============================================================================
