------------------------ MODULE ObservationPolicies ------------------------
(***************************************************************************)
(* The policies that only watch: BudgetCap, RetryThrottle and              *)
(* CacheControlPlacer, dispatched around every LLM call of the process by  *)
(* the registry.  A call takes a snapshot of the registered policies, runs *)
(* their before_call hooks in order, goes to the provider, is translated,  *)
(* and runs their after_call hooks.  The threads of an agent make calls at *)
(* the same time, in the same run or not; the policies' state is shared,   *)
(* under a lock of each policy, and so are the markers a policy or a tag   *)
(* leaves for the translator of the next call of the run.                  *)
(*                                                                         *)
(* Decisions are followed up to the list handed to the shim: writing them  *)
(* is CallRecording's subject.  The clock counts seconds.                  *)
(***************************************************************************)
EXTENDS Integers, Sequences, FiniteSets

CONSTANTS
  Threads,
  Homes,       \* which run each thread works for: the ways an agent fans out
  LineUps,     \* the agents: the policies registered, what their calls ask, and
               \* how far the clock and the tags of each are followed
  Late,        \* policies registered while calls are in flight
  None,
  MaxNd,       \* BudgetCap.max_nd
  Cost,        \* the price of a call
  Window,      \* RetryThrottle.window_s
  MaxRetries,  \* RetryThrottle.max
  Faults,
  MaxCalls     \* bound of the instance

Policies == {"budget", "throttle", "placer", "custom"}
AgentRuns == UNION {{home[t] : t \in Threads} : home \in Homes}

\* What a request is to a policy: the style of its provider's cache, whether a
\* policy before has stamped it a retry, its large unmarked blocks, the prefix
\* a cache resource is keyed on (None when too small), and whether the call
\* passes its own tools.
RequestsAssumption ==
  \A l \in LineUps : \A q \in l.asks :
    /\ q.style \in {"explicit_marker", "cache_resource", "automatic", "none"}
    /\ q.retry \in BOOLEAN
    /\ q.unmarked \subseteq {"system", "tools"}
    /\ q.override \in BOOLEAN
\* The registry keeps an object once, however often it is added.
LineUpsAssumption ==
  /\ Late \subseteq Policies
  /\ \A l \in LineUps :
       /\ l.policies \in Seq(Policies)
       /\ \A i, j \in DOMAIN l.policies : l.policies[i] = l.policies[j] => i = j
       /\ l.clock \in Nat /\ l.tags \in Nat
BoundsAssumption ==
  /\ {MaxNd, Cost, MaxCalls} \subseteq Nat
  /\ {Window, MaxRetries} \subseteq Nat \ {0}
  /\ Faults \subseteq {"provider_error", "create_error", "raise"}

VARIABLES
  now,
  lineUp,      \* the agent of this behaviour
  home,        \* the run of each thread
  registered,  \* PolicyRegistry._policies
  dispatch,        \* per thread, the call it is making
  dispatched,   \* calls made so far
  totals,      \* BudgetCap._totals
  warned,      \* BudgetCap._fired
  retries,     \* RetryThrottle._events: per run, the times of retries
  bursts,      \* RetryThrottle._fired
  advised,     \* CacheControlPlacer._fired
  resources,   \* GeminiCacheManager._resources: prefixes with a resource
  failed,      \* GeminiCacheManager._failed
  creation,    \* pending_cache_resource_creation, per run
  retrieved,   \* pending_retrieved_context_tokens, per run
  decisions,   \* history: the warnings, in the order they were decided
  booked,      \* history: the creations booked, and those never booked
  tagged,      \* history: per run, tokens tagged as retrieved
  lifted       \* history: per run, tokens lifted into ledgers

settingVars == <<now, lineUp, home>>
budgetVars == <<totals, warned>>
throttleVars == <<retries, bursts>>
placerVars == <<advised, resources, failed>>
policyVars == <<budgetVars, throttleVars, placerVars>>
markerVars == <<creation, retrieved, booked, tagged, lifted>>
vars == <<settingVars, registered, dispatch, dispatched, policyVars, markerVars,
          decisions>>

Idle == [pc |-> "idle", req |-> None, todo |-> <<>>, stamp |-> None,
           bound |-> FALSE, creator |-> FALSE, saw |-> FALSE, took |-> 0,
           over |-> FALSE, shared |-> FALSE]

Init ==
  /\ now = 0
  /\ home \in Homes
  /\ lineUp \in LineUps
  /\ registered = lineUp.policies
  /\ dispatch = [t \in Threads |-> Idle]
  /\ dispatched = 0
  /\ totals = [r \in AgentRuns |-> 0]
  /\ warned = {}
  /\ retries = [r \in AgentRuns |-> <<>>]
  /\ bursts = {}
  /\ advised = [r \in AgentRuns |-> {}]
  /\ resources = {}
  /\ failed = {}
  /\ creation = [r \in AgentRuns |-> FALSE]
  /\ retrieved = [r \in AgentRuns |-> 0]
  /\ decisions = <<>>
  /\ booked = <<>>
  /\ tagged = [r \in AgentRuns |-> 0]
  /\ lifted = [r \in AgentRuns |-> 0]

Has(p) == \E i \in DOMAIN registered : registered[i] = p

Tick ==
  /\ now < lineUp.clock
  /\ now' = now + 1
  /\ UNCHANGED <<lineUp, home, registered, dispatch, dispatched, policyVars,
                 markerVars, decisions>>

\* _Registry.add, of a policy object that may be registered already.
Register(p) ==
  /\ dispatched > 0
  /\ registered' = IF Has(p) THEN registered ELSE Append(registered, p)
  /\ UNCHANGED <<settingVars, dispatch, dispatched, policyVars, markerVars,
                 decisions>>

-----------------------------------------------------------------------------
\* The dispatch.

InRun(t) == {u \in Threads : home[u] = home[t]}
Beside(t) == {u \in InRun(t) \ {t} : dispatch[u].pc # "idle"}

\* _Registry.__iter__: the hooks of a call run over a snapshot.
BeginCall(t, q) ==
  /\ dispatch[t].pc = "idle"
  /\ dispatched < MaxCalls
  /\ dispatched' = dispatched + 1
  /\ dispatch' = [u \in Threads |->
       IF u = t THEN [Idle EXCEPT !.pc = "before", !.req = q, !.todo = registered,
                                    !.over = totals[home[t]] > MaxNd /\ Has("budget"),
                                    !.shared = Beside(t) # {}]
       ELSE IF u \in Beside(t) THEN [dispatch[u] EXCEPT !.shared = TRUE]
       ELSE dispatch[u]]
  /\ UNCHANGED <<settingVars, registered, policyVars, markerVars, decisions>>

Hook(t, pc, policy) ==
  dispatch[t].pc = pc /\ dispatch[t].todo # <<>> /\ Head(dispatch[t].todo) = policy

\* The call with its first hook done.
Past(c) == [c EXCEPT !.todo = Tail(@), !.stamp = None]
Next_(t) == dispatch' = [dispatch EXCEPT ![t] = Past(@)]

Warn(t, kind, about) ==
  decisions' = Append(decisions, [run |-> home[t], kind |-> kind, about |-> about])

Allow(t) == Next_(t) /\ UNCHANGED decisions

\* A hook that raises counts as an allow and stops no other hook: what a
\* policy of the user's own does is not known, but for that.
Custom(t) ==
  /\ Hook(t, "before", "custom") \/ Hook(t, "after", "custom")
  /\ "raise" \in Faults
  /\ Allow(t)
  /\ UNCHANGED <<settingVars, registered, dispatched, policyVars, markerVars>>

-----------------------------------------------------------------------------
\* BudgetCap.

BudgetBefore(t) ==
  /\ Hook(t, "before", "budget")
  /\ LET r == home[t] IN
       IF totals[r] > MaxNd /\ r \notin warned
       THEN /\ warned' = warned \union {r}
            /\ Warn(t, "budget_warning", None)
            /\ Next_(t)
       ELSE Allow(t) /\ UNCHANGED warned
  /\ UNCHANGED <<settingVars, registered, dispatched, totals, throttleVars,
                 placerVars, markerVars>>

BudgetAfter(t) ==
  /\ Hook(t, "after", "budget")
  /\ totals' = [totals EXCEPT ![home[t]] = @ + Cost]
  /\ Allow(t)
  /\ UNCHANGED <<settingVars, registered, dispatched, warned, throttleVars,
                 placerVars, markerVars>>

-----------------------------------------------------------------------------
\* RetryThrottle.

\* The clock is read before the lock is taken.
ThrottleClock(t) ==
  /\ Hook(t, "before", "throttle")
  /\ dispatch[t].req.retry /\ dispatch[t].stamp = None
  /\ dispatch' = [dispatch EXCEPT ![t].stamp = now]
  /\ UNCHANGED <<settingVars, registered, dispatched, policyVars, markerVars,
                 decisions>>

\* Entries are dropped from the front up to the first that is in the window.
Expire(s, start) ==
  LET kept == {i \in DOMAIN s : \E j \in 1..i : s[j] >= start}
  IN SubSeq(s, Len(s) - Cardinality(kept) + 1, Len(s))

ThrottleBefore(t) ==
  /\ Hook(t, "before", "throttle")
  /\ LET r == home[t]
         live == Expire(Append(retries[r], dispatch[t].stamp), dispatch[t].stamp - Window)
     IN IF ~dispatch[t].req.retry
        THEN bursts' = bursts \ {r} /\ Allow(t) /\ UNCHANGED retries
        ELSE /\ dispatch[t].stamp # None
             /\ retries' = [retries EXCEPT ![r] = live]
             /\ IF Len(live) > MaxRetries /\ r \notin bursts
                THEN /\ bursts' = bursts \union {r}
                     /\ Warn(t, "retry_throttle", Len(live))
                     /\ Next_(t)
                ELSE Allow(t) /\ UNCHANGED bursts
  /\ UNCHANGED <<settingVars, registered, dispatched, budgetVars, placerVars,
                 markerVars>>

\* The counts per cause it keeps are read by nobody else.
ThrottleAfter(t) ==
  /\ Hook(t, "after", "throttle")
  /\ Allow(t)
  /\ UNCHANGED <<settingVars, registered, dispatched, policyVars, markerVars>>

-----------------------------------------------------------------------------
\* CacheControlPlacer.

\* Advise of those blocks the run has not been advised of.
Advise(t, blocks) ==
  LET r == home[t]
      fresh == blocks \ advised[r]
  IN /\ advised' = [advised EXCEPT ![r] = @ \union blocks]
     /\ IF fresh = {} THEN UNCHANGED decisions
        ELSE Warn(t, "cache_control_advice", fresh)

\* The arms that touch no cache resource, and a prefix too small for one.
PlacerBefore(t) ==
  /\ Hook(t, "before", "placer")
  /\ dispatch[t].req.style # "cache_resource" \/ dispatch[t].req.prefix = None
  /\ IF dispatch[t].req.style = "explicit_marker"
     THEN Advise(t, dispatch[t].req.unmarked) /\ Next_(t)
     ELSE Allow(t) /\ UNCHANGED advised
  /\ UNCHANGED <<settingVars, registered, dispatched, budgetVars, throttleVars,
                 resources, failed, markerVars>>

\* get_or_create: a resource is reused, a failure is remembered, and otherwise
\* the lock is left to create one.
LookUpResource(t) ==
  /\ Hook(t, "before", "placer")
  /\ dispatch[t].req.style = "cache_resource" /\ dispatch[t].req.prefix # None
  /\ LET key == dispatch[t].req.prefix IN
       CASE key \in resources ->
              /\ dispatch' = [dispatch EXCEPT ![t] = [Past(@) EXCEPT !.bound = TRUE]]
              /\ UNCHANGED <<advised, decisions>>
         [] key \notin resources /\ key \in failed ->
              Advise(t, {"cache_resource"}) /\ Next_(t)
         [] OTHER ->
              /\ dispatch' = [dispatch EXCEPT ![t].pc = "creating"]
              /\ UNCHANGED <<advised, decisions>>
  /\ UNCHANGED <<settingVars, registered, dispatched, budgetVars, throttleVars,
                 resources, failed, markerVars>>

CreateResource(t) ==
  /\ dispatch[t].pc = "creating"
  /\ \/ /\ dispatch' = [dispatch EXCEPT ![t].pc = "storing"]
        /\ UNCHANGED <<failed, advised, decisions>>
     \/ /\ "create_error" \in Faults
        /\ failed' = failed \union {dispatch[t].req.prefix}
        /\ Advise(t, {"cache_resource"})
        /\ dispatch' = [dispatch EXCEPT ![t] = [Past(@) EXCEPT !.pc = "before"]]
  /\ UNCHANGED <<settingVars, registered, dispatched, budgetVars, throttleVars,
                 resources, markerVars>>

\* Mutant: the second of two racing creators overwrites the first one's.
StoreResourceAnyway(t) ==
  /\ dispatch[t].pc = "storing"
  /\ resources' = resources \union {dispatch[t].req.prefix}
  /\ creation' = [creation EXCEPT ![home[t]] = TRUE]
  /\ Warn(t, "cache_resource_created", dispatch[t].req.prefix)
  /\ dispatch' = [dispatch EXCEPT ![t] = [Past(@) EXCEPT !.pc = "before", !.bound = TRUE,
                                                 !.creator = TRUE]]
  /\ UNCHANGED <<settingVars, registered, dispatched, budgetVars, throttleVars,
                 advised, failed, retrieved, booked, tagged, lifted>>

\* The one who stores the resource leaves the marker for its dispatch's translator.
StoreResource(t) ==
  /\ dispatch[t].pc = "storing"
  /\ LET key == dispatch[t].req.prefix
         first == key \notin resources
     IN /\ resources' = resources \union {key}
        /\ creation' = [creation EXCEPT ![home[t]] = @ \/ first]
        /\ IF first THEN Warn(t, "cache_resource_created", key) ELSE UNCHANGED decisions
        /\ dispatch' = [dispatch EXCEPT ![t] = [Past(@) EXCEPT !.pc = "before", !.bound = TRUE,
                                                       !.creator = first]]
  /\ UNCHANGED <<settingVars, registered, dispatched, budgetVars, throttleVars,
                 advised, failed, retrieved, booked, tagged, lifted>>

-----------------------------------------------------------------------------
\* The call itself, and the markers its translator takes.

\* Tokens the agent tags for the next call of the run.
TagRetrieval(t) ==
  /\ dispatch[t].pc = "idle"
  /\ tagged[home[t]] < lineUp.tags
  /\ retrieved' = [retrieved EXCEPT ![home[t]] = @ + 1]
  /\ tagged' = [tagged EXCEPT ![home[t]] = @ + 1]
  /\ UNCHANGED <<settingVars, registered, dispatch, dispatched, policyVars,
                 creation, decisions, booked, lifted>>

\* A call that fails is not translated and runs no after_call hook.
Provider(t) ==
  /\ dispatch[t].pc = "before" /\ dispatch[t].todo = <<>>
  /\ \/ /\ dispatch' = [dispatch EXCEPT ![t].pc = "answered",
                                ![t].bound = @ /\ ~dispatch[t].req.override]
        /\ UNCHANGED booked
     \/ /\ "provider_error" \in Faults
        /\ dispatch' = [dispatch EXCEPT ![t] = Idle]
        /\ booked' = IF dispatch[t].creator
                     THEN Append(booked, [run |-> home[t], what |-> "orphan",
                                          creator |-> TRUE, shared |-> dispatch[t].shared])
                     ELSE booked
  /\ UNCHANGED <<settingVars, registered, dispatched, policyVars, creation,
                 retrieved, decisions, tagged, lifted>>

ReadMarkers(t) ==
  /\ dispatch[t].pc = "answered"
  /\ dispatch' = [dispatch EXCEPT ![t].pc = "read", ![t].saw = creation[home[t]],
                          ![t].took = retrieved[home[t]]]
  /\ UNCHANGED <<settingVars, registered, dispatched, policyVars, markerVars,
                 decisions>>

\* What the translator makes of the markers it has read.
Book(t) ==
  /\ booked' = IF dispatch[t].saw /\ dispatch[t].bound
               THEN Append(booked, [run |-> home[t], what |-> "booked",
                                    creator |-> dispatch[t].creator, shared |-> dispatch[t].shared])
               ELSE booked
  /\ lifted' = [lifted EXCEPT ![home[t]] = @ + dispatch[t].took]

\* Mutant: the markers are left for the next call.
ClearMarkersNot(t) ==
  /\ dispatch[t].pc = "read"
  /\ Book(t)
  /\ dispatch' = [dispatch EXCEPT ![t].pc = "after", ![t].todo = registered]
  /\ UNCHANGED <<settingVars, registered, dispatched, policyVars, creation,
                 retrieved, decisions, tagged>>

\* The tokens a resource served are its creation if the marker was there.
ClearMarkers(t) ==
  /\ dispatch[t].pc = "read"
  /\ creation' = [creation EXCEPT ![home[t]] = FALSE]
  /\ retrieved' = [retrieved EXCEPT ![home[t]] = 0]
  /\ Book(t)
  /\ dispatch' = [dispatch EXCEPT ![t].pc = "after", ![t].todo = registered]
  /\ UNCHANGED <<settingVars, registered, dispatched, policyVars, decisions,
                 tagged>>

PlacerAfter(t) ==
  /\ Hook(t, "after", "placer")
  /\ Allow(t)
  /\ UNCHANGED <<settingVars, registered, dispatched, policyVars, markerVars>>

EndCall(t) ==
  /\ dispatch[t].pc = "after" /\ dispatch[t].todo = <<>>
  /\ dispatch' = [dispatch EXCEPT ![t] = Idle]
  /\ UNCHANGED <<settingVars, registered, dispatched, policyVars, markerVars,
                 decisions>>

Next ==
  \/ Tick
  \/ \E p \in Late : Register(p)
  \/ \E t \in Threads :
       \/ \E q \in lineUp.asks : BeginCall(t, q)
       \/ Custom(t) \/ BudgetBefore(t) \/ BudgetAfter(t)
       \/ ThrottleClock(t) \/ ThrottleBefore(t) \/ ThrottleAfter(t)
       \/ PlacerBefore(t) \/ LookUpResource(t) \/ CreateResource(t)
       \/ StoreResource(t) \/ PlacerAfter(t)
       \/ TagRetrieval(t) \/ Provider(t) \/ ReadMarkers(t) \/ ClearMarkers(t)
       \/ EndCall(t)

Spec == Init /\ [][Next]_vars

-----------------------------------------------------------------------------
TypeOK ==
  /\ now \in 0..lineUp.clock /\ home \in Homes /\ dispatched \in 0..MaxCalls
  /\ \A i \in DOMAIN registered : registered[i] \in Policies
  /\ \A t \in Threads :
       dispatch[t].pc \in {"idle", "before", "creating", "storing", "answered", "read", "after"}
  /\ warned \subseteq AgentRuns /\ bursts \subseteq AgentRuns
  /\ \A r \in AgentRuns :
       /\ totals[r] \in 0..(MaxCalls * Cost)
       /\ retries[r] \in Seq(0..lineUp.clock)
       /\ advised[r] \subseteq {"system", "tools", "cache_resource"}
       /\ creation[r] \in BOOLEAN

\* A call that begins when its run is over the budget does not reach the
\* provider before the run has been warned, whichever thread's hook does it
\* (budget_cap.py:77-102).
BreachReported ==
  \A t \in Threads :
    dispatch[t].pc \in {"answered", "read", "after"} /\ dispatch[t].over =>
      \E i \in DOMAIN decisions :
        decisions[i].run = home[t] /\ decisions[i].kind = "budget_warning"

\* A run is warned once of its budget and advised once of each block, and each
\* cache resource is reported as created once in the process, whatever the
\* threads race on (budget_cap.py:86, cache_control_placer.py:178-184,
\* providers/gemini.py:234-239).
WarnedOnce ==
  \A i, j \in DOMAIN decisions :
    i # j /\ decisions[i].kind = decisions[j].kind =>
      CASE decisions[i].kind = "budget_warning" -> decisions[i].run # decisions[j].run
        [] decisions[i].kind = "cache_control_advice" ->
             decisions[i].run # decisions[j].run
               \/ decisions[i].about \intersect decisions[j].about = {}
        [] decisions[i].kind = "cache_resource_created" ->
             decisions[i].about # decisions[j].about
        [] OTHER -> TRUE

Sorted(s) == \A i, j \in DOMAIN s : i < j => s[i] <= s[j]

\* The window of a run holds no retry older than itself, unless two threads
\* took the lock in another order than they read the clock: an old entry
\* behind a newer one outlives its window (retry_throttle.py:77-83).
WindowHoldsOnlyRecent ==
  \A r \in AgentRuns :
    Sorted(retries[r]) =>
      \A i \in DOMAIN retries[r] : retries[r][i] >= retries[r][Len(retries[r])] - Window

\* The one-time write of a cache resource is booked on the call that created
\* it, unless a call of the run was made beside it or a creator's call had
\* failed and left its marker (normalise/gemini.py:305-315).
CreationBookedByCreator ==
  \A i \in DOMAIN booked :
    booked[i].what = "booked" /\ ~booked[i].creator =>
      \/ booked[i].shared
      \/ \E j \in 1..(i - 1) : booked[j].what = "orphan" /\ booked[j].run = booked[i].run

\* In a run of a single thread every token tagged as retrieved is lifted into
\* exactly one ledger or waits for the next call (normalise/anthropic.py:265).
RetrievedLiftedOnce ==
  \A t \in Threads :
    (\A u \in InRun(t) : u = t) => tagged[home[t]] = retrieved[home[t]] + lifted[home[t]]

=============================================================================
