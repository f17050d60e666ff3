-------------------------- MODULE LazyToolExposure --------------------------
(***************************************************************************)
(* LazyToolExposure narrows the tools a request of a run offers to those   *)
(* that were relevant in the last turns: a tool is relevant when it is     *)
(* first offered, mentioned in the last user or assistant text, or called  *)
(* by an answer.  The threads of the run share one turn counter.  A turn   *)
(* is decided under the policy's lock, and its events are written when the *)
(* lock has been released.                                                 *)
(***************************************************************************)
EXTENDS Integers, FiniteSets

CONSTANTS
  Threads,
  Tools,
  Core,      \* core_tools, and tools tagged inkfoot_core
  Unnamed,   \* tools whose name cannot be read
  Stale,     \* stale_after_turns
  MaxTurns   \* bound of the instance

ToolsAssumption == Core \subseteq Tools /\ Unnamed \subseteq Tools
StaleAssumption == Stale \in Nat \ {0} /\ MaxTurns \in Nat

VARIABLES
  turn,
  lastRelevant,  \* per tool, the turn it was last relevant in, 0 before any
  dropped,       \* tools withheld from the last request that offered them
  request,          \* per thread: its turn, what it offers, sends, must write
  facts,         \* the events written, each with its turn
  silent,        \* history: turns on which a full list went out unnarrowed
  calledAt       \* history: per tool, the last turn an answer called it in

vars == <<turn, lastRelevant, dropped, request, facts, silent, calledAt>>

Idle == [turn |-> 0, offered |-> {}, mentioned |-> {}, sent |-> {}, notes |-> {}]

Init ==
  /\ turn = 0
  /\ lastRelevant = [n \in Tools |-> 0]
  /\ dropped = {}
  /\ request = [t \in Threads |-> Idle]
  /\ facts = {}
  /\ silent = {}
  /\ calledAt = [n \in Tools |-> 0]

Note(kind, tools, at) ==
  IF tools = {} THEN {} ELSE {[kind |-> kind, tools |-> tools, turn |-> at]}

\* When each tool was last relevant, once a request of turn `at` is read.
Relevance(offered, mentioned, at) ==
  [n \in Tools |-> IF n \in offered \ Unnamed /\ (n \in mentioned \/ lastRelevant[n] = 0)
                   THEN at ELSE lastRelevant[n]]

\* Mutant: the window is a turn too short for a tool nobody mentions.
KeptShort(offered, relevance, at) ==
  {n \in offered : n \in Unnamed \union Core \/ at - relevance[n] < Stale}

Kept(offered, relevance, at) ==
  {n \in offered : n \in Unnamed \union Core \/ at - relevance[n] <= Stale}

\* An empty list is never sent: the full one goes out, and nothing is withheld.
Withheld(offered, kept) ==
  IF kept = {} THEN {} ELSE (dropped \ kept) \union (offered \ kept)

\* before_call, for a request that offers tools.
Narrow(t, offered, mentioned) ==
  LET at == turn + 1
      relevance == Relevance(offered, mentioned, at)
      kept == Kept(offered, relevance, at)
  IN /\ request[t] = Idle /\ turn < MaxTurns
     /\ turn' = at
     /\ lastRelevant' = relevance
     /\ dropped' = Withheld(offered, kept)
     /\ silent' = IF kept = {} THEN silent \union {at} ELSE silent
     /\ request' = [request EXCEPT ![t] =
          [turn |-> at, offered |-> offered, mentioned |-> mentioned,
           sent |-> IF kept = {} THEN offered ELSE kept,
           notes |-> IF kept = {} THEN {}
                     ELSE Note("dropped", (offered \ kept) \ dropped, at)
                            \union Note("restored", kept \intersect dropped, at)]]
     /\ UNCHANGED <<facts, calledAt>>

\* emit_policy_event, one row at a time; a failed insert is logged and ignored,
\* which is CallRecording's subject.
WriteNote(t) ==
  \E n \in request[t].notes :
    /\ n.kind = "restored" => \A m \in request[t].notes : m.kind = "restored"
    /\ facts' = facts \union {n}
    /\ request' = [request EXCEPT ![t].notes = @ \ {n}]
    /\ UNCHANGED <<turn, lastRelevant, dropped, silent, calledAt>>

\* after_call: the tools the answer calls are relevant in the current turn,
\* which is a later one than the request's when another thread has begun one.
\* A call that fails calls no tools.
Answer(t, called) ==
  /\ request[t] # Idle /\ request[t].notes = {} /\ called \subseteq request[t].sent
  /\ lastRelevant' = [n \in Tools |->
       IF n \in called \ Unnamed THEN turn ELSE lastRelevant[n]]
  /\ calledAt' = [n \in Tools |-> IF n \in called \ Unnamed THEN turn ELSE calledAt[n]]
  /\ request' = [request EXCEPT ![t] = Idle]
  /\ UNCHANGED <<turn, dropped, facts, silent>>

Next ==
  \E t \in Threads :
    \/ \E offered \in (SUBSET Tools) \ {{}} :
         \E mentioned \in SUBSET (offered \ Unnamed) : Narrow(t, offered, mentioned)
    \/ WriteNote(t)
    \/ \E called \in SUBSET Tools : Answer(t, called)

Spec == Init /\ [][Next]_vars

-----------------------------------------------------------------------------
\* What has been decided, written or about to be.
Decided == facts \union UNION {request[t].notes : t \in Threads}

TypeOK ==
  /\ turn \in 0..MaxTurns
  /\ lastRelevant \in [Tools -> 0..MaxTurns]
  /\ dropped \subseteq Tools \ (Core \union Unnamed)
  /\ \A t \in Threads : request[t].sent \subseteq request[t].offered
  /\ \A f \in Decided : f.kind \in {"dropped", "restored"} /\ f.turn \in 1..turn

\* No request loses a tool the agent needs now: a core tool, one its last texts
\* mention, one an answer called within the window, whoever's answer it was;
\* and no list becomes empty (lazy_tool_exposure.py docstring, "dropping a tool
\* never removes knowledge"; Narrow and Answer interleave over the threads).
RelevantToolSent ==
  \A t \in Threads : request[t] # Idle =>
    /\ request[t].sent # {}
    /\ \A n \in request[t].offered :
         \/ n \in Core \union Unnamed \union request[t].mentioned
         \/ calledAt[n] > 0 /\ calledAt[n] < request[t].turn
              /\ request[t].turn - calledAt[n] <= Stale
         => n \in request[t].sent

Between(kind, n, a, b) == \E f \in Decided : f.kind = kind /\ n \in f.tools /\ f.turn \in a..b

\* The events alone say which tools a request was sent without: each has a
\* drop event, of this turn or before, since when it has not been restored and
\* no full list has gone out.
WithheldIsExplained ==
  \A t \in Threads : request[t] # Idle =>
    \A n \in request[t].offered \ request[t].sent :
      \E d \in Decided :
        /\ d.kind = "dropped" /\ n \in d.tools /\ d.turn <= request[t].turn
        /\ ~Between("restored", n, d.turn, request[t].turn)
        /\ silent \intersect (d.turn..request[t].turn) = {}

\* A drop episode has one event: between two drops of a tool it came back, with
\* an event or, unannounced, in a full list ("once per tool per drop episode",
\* lazy_tool_exposure.py:21-23).
DropsAreEpisodes ==
  \A d, e \in Decided : \A n \in d.tools \intersect e.tools :
    d.kind = "dropped" /\ e.kind = "dropped" /\ d.turn < e.turn =>
      Between("restored", n, d.turn, e.turn) \/ silent \intersect (d.turn..e.turn) # {}

\* Narrowing never takes a tool the agent needs, and the events alone tell what was
\* withheld when, an episode at a time (policy/lazy_tool_exposure.py:21-23, 221-290).
ExposureExplained ==
  TypeOK /\ RelevantToolSent /\ WithheldIsExplained /\ DropsAreEpisodes
=============================================================================
