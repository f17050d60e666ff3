------------------------------ MODULE OtelIngest ------------------------------
(***************************************************************************)
(* The OTLP/JSON receiver.  Each request of a collector is handled by a    *)
(* thread of its own; its spans are handled one after the other: a span    *)
(* that is not about a model is skipped, one whose key the dedup memory    *)
(* holds is dismissed, and another is filed under the run it names or the  *)
(* run made up for its trace, numbered, and inserted.  What goes wrong     *)
(* with a span is counted and the request answered all the same, so that a *)
(* collector sends again only what it got no answer for.                   *)
(*                                                                         *)
(* Collectors may send any request at any time, again or for the first     *)
(* time.  What the payload of a span says of the call is left out.         *)
(***************************************************************************)
EXTENDS Integers, SequencesExt

CONSTANTS
  Handlers,   \* the threads of the HTTP server
  Requests,   \* what collectors send
  Known,      \* runs whose row the store has
  None,
  MaxBytes,   \* _MAX_INGEST_BYTES
  DedupMax,   \* _DEDUP_CACHE_MAX
  TraceMax,   \* _TRACE_TO_RUN_MAX
  IngestFaults,
  MaxPosts    \* bound of the instance

\* A span's key is its id and the answer's, None where it has neither; `own` and
\* `inherited` are the run that its attributes, or its resource's, name.
RequestsAssumption ==
  \A q \in Requests :
    /\ q.path \in {"traces", "other"} /\ q.type \in {"json", "protobuf", "text"}
    /\ q.length \in Int /\ q.wellFormed \in BOOLEAN
    /\ q.spans \in Seq({q.spans[i] : i \in DOMAIN q.spans})
    /\ \A i \in DOMAIN q.spans :
         q.spans[i].genai \in BOOLEAN /\ q.spans[i].hint \in Nat \union {None}
LimitsAssumption ==
  /\ {DedupMax, TraceMax} \subseteq Nat \ {0} /\ {MaxBytes, MaxPosts} \subseteq Nat
  /\ IngestFaults \subseteq {"db_error"}

VARIABLES
  listening,
  closed,     \* the storage behind it
  handler,    \* per thread, the request it is handling
  posts,
  seen,       \* _DedupCache._seen, the oldest first
  traceRun,   \* trace_to_run, the oldest first: pairs <<trace, run>>
  minted,     \* runs made up
  runRows,    \* runs with a row
  counters,   \* _sequence_counters
  ingested,   \* the events inserted: [span, run, sequence]
  rejected,   \* history: keys whose insert failed,
  dismissed,  \* keys taken for duplicates,
  evicted     \* keys and traces that a memory has let go

serverVars == <<listening, closed, posts>>
memoryVars == <<seen, traceRun, minted, counters>>
storeVars == <<runRows, ingested>>
noteVars == <<rejected, dismissed, evicted>>
vars == <<serverVars, handler, memoryVars, storeVars, noteVars>>

Idle == [pc |-> "idle", todo |-> <<>>, run |-> None, sequence |-> 0]
MadeUp(n) == <<"run", n>>
AllRuns == Known \union {MadeUp(n) : n \in 1..minted}

Init ==
  /\ listening = TRUE
  /\ closed = FALSE
  /\ handler = [t \in Handlers |-> Idle]
  /\ posts = 0
  /\ seen = <<>>
  /\ traceRun = <<>>
  /\ minted = 0
  /\ runRows = Known
  /\ counters = [r \in {} |-> 0]
  /\ ingested = <<>>
  /\ rejected = {} /\ dismissed = {} /\ evicted = {}

-----------------------------------------------------------------------------
\* do_POST: the status a request is answered with before its spans are read.
Status(q) ==
  CASE q.path # "traces" -> 404
    [] q.path = "traces" /\ q.type # "json" -> 415
    [] q.path = "traces" /\ q.type = "json" /\ q.length > MaxBytes -> 413
    [] OTHER -> IF q.length < 0 \/ ~q.wellFormed THEN 400 ELSE 200

Post(t, q) ==
  /\ listening /\ handler[t].pc = "idle" /\ posts < MaxPosts
  /\ posts' = posts + 1
  /\ handler' = [handler EXCEPT ![t] =
       IF Status(q) = 200 THEN [Idle EXCEPT !.pc = "span", !.todo = q.spans] ELSE Idle]
  /\ UNCHANGED <<listening, closed, memoryVars, storeVars, noteVars>>

Span(t) == Head(handler[t].todo)
Key(s) == <<s.id, s.response>>
Keyless(s) == s.id = None /\ s.response = None
At(t, pc) == handler[t].pc = pc /\ (pc = "span" => handler[t].todo # <<>>)

Onward(t) == [handler EXCEPT ![t].pc = "span", ![t].todo = Tail(@)]

Skip(t) ==
  /\ At(t, "span") /\ ~Span(t).genai
  /\ handler' = Onward(t)
  /\ UNCHANGED <<serverVars, memoryVars, storeVars, noteVars>>

Members(s) == {s[i] : i \in DOMAIN s}
\* move_to_end, of a dictionary, begins by taking the entry out.
Without(s, x) ==
  IF x \in Members(s) THEN RemoveAt(s, CHOOSE i \in DOMAIN s : s[i] = x) ELSE s
Bounded(s, limit) == IF Len(s) > limit THEN Tail(s) ELSE s

\* Mutant: a key is remembered when its span has been inserted.
SeeOrAddLate(t) ==
  LET s == Span(t) IN
    /\ At(t, "span") /\ s.genai
    /\ IF Key(s) \in Members(seen) /\ Key(s) \in {Key(ingested[i].span) : i \in DOMAIN ingested}
       THEN handler' = Onward(t)
       ELSE handler' = [handler EXCEPT ![t].pc = "resolve"]
    /\ seen' = Bounded(Append(Without(seen, Key(s)), Key(s)), DedupMax)
    /\ UNCHANGED <<serverVars, traceRun, minted, counters, storeVars, noteVars>>

\* _DedupCache.see_or_add, under its lock: a key is touched or remembered.
SeeOrAdd(t) ==
  LET s == Span(t) IN
    /\ At(t, "span") /\ s.genai
    /\ seen' = IF Keyless(s) THEN seen
               ELSE Bounded(Append(Without(seen, Key(s)), Key(s)), DedupMax)
    /\ evicted' = evicted \union (Members(seen) \ Members(seen'))
    /\ IF ~Keyless(s) /\ Key(s) \in Members(seen)
       THEN handler' = Onward(t) /\ dismissed' = dismissed \union {Key(s)}
       ELSE handler' = [handler EXCEPT ![t].pc = "resolve"] /\ UNCHANGED dismissed
    /\ UNCHANGED <<serverVars, traceRun, minted, counters, storeVars, rejected>>

\* The span's own attributes overlay its resource's.
Explicit(s) == IF s.own # None THEN s.own ELSE s.inherited

\* _resolve_run, under a lock of its own.
ResolveRun(t) ==
  LET s == Span(t)
      known == {p \in Members(traceRun) : p[1] = s.trace}
  IN /\ At(t, "resolve")
     /\ \/ /\ Explicit(s) # None
           /\ handler' = [handler EXCEPT ![t].pc = "number", ![t].run = Explicit(s)]
           /\ UNCHANGED <<traceRun, minted>>
        \/ /\ Explicit(s) = None
           /\ \E pair \in IF known = {} THEN {<<s.trace, MadeUp(minted + 1)>>} ELSE known :
                /\ traceRun' = Bounded(Append(Without(traceRun, pair), pair), TraceMax)
                /\ handler' = [handler EXCEPT ![t].pc = "start", ![t].run = pair[2]]
           /\ minted' = IF known = {} THEN minted + 1 ELSE minted
     /\ evicted' = evicted \union {p[1] : p \in Members(traceRun) \ Members(traceRun')}
     /\ UNCHANGED <<serverVars, seen, counters, storeVars, rejected, dismissed>>

\* start_run of a made-up run; that it is there already, or fails, is ignored.
StartRow(t) ==
  /\ At(t, "start")
  /\ \/ ~closed /\ runRows' = runRows \union {handler[t].run}
     \/ ("db_error" \in IngestFaults \/ closed) /\ UNCHANGED runRows
  /\ handler' = [handler EXCEPT ![t].pc = "number"]
  /\ UNCHANGED <<serverVars, memoryVars, ingested, noteVars>>

Count(r) == IF r \in DOMAIN counters THEN counters[r] ELSE 0

\* The sequence the span tells, or else _next_sequence.
Number(t) ==
  LET r == handler[t].run
      next == Count(r) + 1
  IN /\ At(t, "number")
     /\ IF Span(t).hint # None
        THEN /\ handler' = [handler EXCEPT ![t].pc = "insert", ![t].sequence = Span(t).hint]
             /\ UNCHANGED counters
        ELSE /\ handler' = [handler EXCEPT ![t].pc = "insert", ![t].sequence = next]
             /\ counters' = [q \in DOMAIN counters \union {r} |->
                               IF q = r THEN next ELSE counters[q]]
     /\ UNCHANGED <<serverVars, seen, traceRun, minted, storeVars, noteVars>>

\* insert_event, which the foreign key refuses when the run has no row.
Insert(t) ==
  /\ At(t, "insert")
  /\ \/ /\ ~closed /\ handler[t].run \in runRows
        /\ ingested' = Append(ingested, [span |-> Span(t), run |-> handler[t].run,
                                         sequence |-> handler[t].sequence])
        /\ UNCHANGED rejected
     \/ /\ closed \/ handler[t].run \notin runRows \/ "db_error" \in IngestFaults
        /\ rejected' = rejected \union {Key(Span(t))}
        /\ UNCHANGED ingested
  /\ handler' = Onward(t)
  /\ UNCHANGED <<serverVars, memoryVars, runRows, dismissed, evicted>>

\* 200, whatever became of the spans.
Answer(t) ==
  /\ handler[t].pc = "span" /\ handler[t].todo = <<>>
  /\ handler' = [handler EXCEPT ![t] = Idle]
  /\ UNCHANGED <<serverVars, memoryVars, storeVars, noteVars>>

\* stop() ends the accepting of requests and waits for none; shutdown() then
\* closes the storage.
Stop ==
  /\ listening
  /\ listening' = FALSE
  /\ UNCHANGED <<closed, posts, handler, memoryVars, storeVars, noteVars>>

CloseStorage ==
  /\ ~listening /\ ~closed
  /\ closed' = TRUE
  /\ UNCHANGED <<listening, posts, handler, memoryVars, storeVars, noteVars>>

Next ==
  \/ Stop \/ CloseStorage
  \/ \E t \in Handlers :
       \/ \E q \in Requests : Post(t, q)
       \/ Skip(t) \/ SeeOrAdd(t) \/ ResolveRun(t) \/ StartRow(t)
       \/ Number(t) \/ Insert(t) \/ Answer(t)

Spec == Init /\ [][Next]_vars

-----------------------------------------------------------------------------
\* A span that is sent again, or by two collectors at once, is one event, unless
\* its key had left the memory or it has none (otel/ingest.py:13-18, 163-175).
IngestedOnce ==
  \A i, j \in DOMAIN ingested :
    i # j /\ Key(ingested[i].span) = Key(ingested[j].span) =>
      Keyless(ingested[i].span) \/ Key(ingested[i].span) \in evicted

InHand(k) == \E t \in Handlers : handler[t].todo # <<>> /\ Key(Span(t)) = k
                                 /\ handler[t].pc # "span"

\* A key is remembered before its span is inserted, so what is dismissed as a
\* duplicate may be the retry of a span that failed: then, and only then, no
\* event ever tells of it (otel/ingest.py:344-368).
DismissedOnlyIfRecorded ==
  \A k \in dismissed :
    \/ \E i \in DOMAIN ingested : Key(ingested[i].span) = k
    \/ k \in rejected
    \/ InHand(k)

\* The spans of a trace that name no run are in one run, whichever threads handle
\* them, as long as the trace is remembered (otel/ingest.py:586-600).
TraceIsOneRun ==
  \A i, j \in DOMAIN ingested :
    LET a == ingested[i].span
        b == ingested[j].span
    IN Explicit(a) = None /\ Explicit(b) = None /\ a.trace = b.trace =>
         ingested[i].run = ingested[j].run \/ a.trace \in evicted

\* Two events of a run have the same sequence only if a span told its own
\* (otel/ingest.py:629-634): replays order by it.
SequenceClashOnlyIfTold ==
  \A i, j \in DOMAIN ingested :
    i # j /\ ingested[i].run = ingested[j].run
      /\ ingested[i].sequence = ingested[j].sequence =>
        ingested[i].span.hint # None \/ ingested[j].span.hint # None
=============================================================================
