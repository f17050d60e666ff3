---------------------------- MODULE RunLifecycle ----------------------------
(***************************************************************************)
(* The lifecycle of runs: agent_run handles, the ContextVar that names the *)
(* current run, the ambient run, the per-run sequence counters, calls that *)
(* are attributed when they begin and recorded when they end, and the      *)
(* shutdown hook that flips abandoned runs.  Processes share one database; *)
(* a context is a thread or an asyncio task of one of them.                *)
(*                                                                         *)
(* A handle starts at most one run, so a run is named by its handle, and   *)
(* the ambient run of a process by the process.  A process that is killed  *)
(* stays dead: its restart is another process.                             *)
(***************************************************************************)
EXTENDS Integers, Sequences, FiniteSets

CONSTANTS
  Procs, Contexts, Handles,
  ProcOf,     \* the process of each context
  None,       \* no run
  Habits,     \* what the agent's code does with runs, beyond nested `with`
              \* blocks whose calls end before they do
  Faults,     \* what may go wrong
  MaxStarts,  \* instrument() calls per process
  MaxEmits    \* calls, tags and repeated end()s, over all contexts

HabitKinds == {"overlap",      \* handles of a context end in any order
               "late_call",    \* a call outlives its run, as a stream may
               "active_shutdown"}  \* shutdown() overlaps runs and calls
FaultKinds == {"db_error", "kill"}

ASSUME HabitsAssumption == Habits \subseteq HabitKinds /\ Faults \subseteq FaultKinds
ASSUME ContextsAssumption == ProcOf \in [Contexts -> Procs]
ASSUME NamesAssumption ==
  Handles \intersect Procs = {} /\ None \notin Handles \union Procs

Runs == Handles \union Procs

VARIABLES
  status,   \* runs.status, "absent" when there is no row
  rows,     \* the event rows of each run in the order they were inserted
  process,  \* "new", "on" after instrument(), "marking" within shutdown(),
            \* "off" after it, "dead" when killed
  starts,   \* instrument() calls of each process
  counter,  \* _sequence_counters of each process
  todo,     \* the running rows shutdown() found and has not marked yet
  current,  \* the ContextVar of each context
  inflight, \* the run of the call in flight in each context
  handle,   \* how far each handle is
  home,     \* the context a handle was started in
  prior,    \* the run its ContextVar token restores
  emits,    \* calls, tags and repeated end()s so far
  inherited \* history: runs of dead processes that were running when a process
            \* last called instrument(), but for those it failed to mark

dbVars == <<status, rows>>
memVars == <<counter, current, inflight>>
handleVars == <<handle, home, prior>>
boundVars == <<starts, emits>>
vars == <<dbVars, process, todo, memVars, handleVars, boundVars, inherited>>

Init ==
  /\ status = [r \in Runs |-> "absent"]
  /\ rows = [r \in Runs |-> <<>>]
  /\ process = [p \in Procs |-> "new"]
  /\ starts = [p \in Procs |-> 0]
  /\ counter = [p \in Procs |-> [r \in Runs |-> 0]]
  /\ todo = [p \in Procs |-> {}]
  /\ current = [c \in Contexts |-> None]
  /\ inflight = [c \in Contexts |-> None]
  /\ handle = [h \in Handles |-> "new"]
  /\ home = [h \in Handles |-> None]
  /\ prior = [h \in Handles |-> None]
  /\ emits = 0
  /\ inherited = [p \in Procs |-> {}]

\* _STORAGE is set from instrument() to the end of shutdown().
Open(p) == process[p] \in {"on", "marking"}

\* A context runs one lifecycle call at a time.
InLifecycleCall(c) ==
  \E h \in Handles : home[h] = c /\ handle[h] \in {"starting", "ending"}

\* Context c may do something: its process has a storage and, unless shutdown()
\* may come while agents work, is not shutting down.
Live(c) ==
  \/ process[ProcOf[c]] = "on"
  \/ process[ProcOf[c]] = "marking" /\ "active_shutdown" \in Habits

\* The process that started r; None while r is unstarted.
Owner(r) == IF r \in Procs THEN r
            ELSE IF home[r] = None THEN None ELSE ProcOf[home[r]]

\* The effect of end_run(r, s) on the row.
Flip(r, s) == status' = [status EXCEPT ![r] = s]

\* Mutant: the counter is not stored back.
EmitUncounted(p, r, kind, by) ==
  /\ rows' = [rows EXCEPT ![r] =
                Append(@, [sequence |-> counter[p][r] + 1, kind |-> kind,
                           by |-> by])]
  /\ UNCHANGED counter

\* _emit_event: the next number of the process's own counter, and the insert
\* (two threads may insert in the other order; the numbers are the same).
Emit(p, r, kind, by) ==
  LET n == counter[p][r] + 1 IN
    /\ counter' = [counter EXCEPT ![p][r] = n]
    /\ rows' = [rows EXCEPT ![r] = Append(@, [sequence |-> n, kind |-> kind,
                                              by |-> by])]

\* The insert raises: the number is used up.
EmitRaises(p, r) ==
  /\ "db_error" \in Faults
  /\ counter' = [counter EXCEPT ![p][r] = @ + 1]
  /\ UNCHANGED rows

-----------------------------------------------------------------------------
\* instrument().

Instrument(p) ==
  /\ process[p] \in {"new", "off"}
  /\ starts[p] < MaxStarts
  /\ starts' = [starts EXCEPT ![p] = @ + 1]
  /\ process' = [process EXCEPT ![p] = "on"]
  /\ inherited' = [inherited EXCEPT ![p] =
       {r \in Runs : /\ status[r] = "running"
                     /\ Owner(r) # None /\ process[Owner(r)] = "dead"}]
  /\ UNCHANGED <<dbVars, todo, memVars, handleVars, emits>>

-----------------------------------------------------------------------------
\* _RunHandle.start: the row, then the ContextVar, then the run_start event.

Start(h, c) ==
  /\ handle[h] = "new"
  /\ Live(c) /\ ~InLifecycleCall(c)
  /\ Flip(h, "running")
  /\ handle' = [handle EXCEPT ![h] = "starting"]
  /\ home' = [home EXCEPT ![h] = c]
  /\ prior' = [prior EXCEPT ![h] = current[c]]
  /\ current' = [current EXCEPT ![c] = h]
  /\ UNCHANGED <<rows, process, todo, counter, inflight, boundVars, inherited>>

Started(h) ==
  /\ handle[h] = "starting"
  /\ Live(home[h])
  /\ Emit(ProcOf[home[h]], h, "run_start", "handle")
  /\ handle' = [handle EXCEPT ![h] = "open"]
  /\ UNCHANGED <<status, process, todo, current, inflight, home, prior,
                 boundVars, inherited>>

\* The agent may call end(): unless it overlaps handles, those started inside
\* this one are done, or raised and were given up.
MayEnd(h) ==
  /\ handle[h] = "open"
  /\ Live(home[h]) /\ ~InLifecycleCall(home[h])
  /\ "overlap" \in Habits
     \/ \A g \in Handles :
          home[g] = home[h] /\ prior[g] = h => handle[g] \in {"ended", "lost"}
  /\ "late_call" \in Habits \/ \A c \in Contexts : inflight[c] # h

\* _RunHandle.end: the run_end event, then the row, then the ContextVar and
\* the in-memory state.
End(h) ==
  /\ MayEnd(h)
  /\ Emit(ProcOf[home[h]], h, "run_end", "handle")
  /\ handle' = [handle EXCEPT ![h] = "ending"]
  /\ UNCHANGED <<status, process, todo, current, inflight, home, prior,
                 boundVars, inherited>>

\* _reset_current_run restores what the token remembers, whatever is current
\* now; _release_run_state then forgets the counter.
Ended(h) ==
  LET p == ProcOf[home[h]] IN
    /\ handle[h] = "ending"
    /\ Live(home[h])
    /\ \E s \in {"complete", "error"} : Flip(h, s)
    /\ current' = [current EXCEPT ![home[h]] = prior[h]]
    /\ counter' = [counter EXCEPT ![p][h] = 0]
    /\ handle' = [handle EXCEPT ![h] = "ended"]
    /\ UNCHANGED <<rows, process, todo, inflight, home, prior, boundVars,
                   inherited>>

\* The insert of start() raises into the agent, which gets no handle.
StartRaises(h) ==
  /\ handle[h] = "starting"
  /\ Live(home[h])
  /\ EmitRaises(ProcOf[home[h]], h)
  /\ handle' = [handle EXCEPT ![h] = "lost"]
  /\ UNCHANGED <<status, process, todo, current, inflight, home, prior,
                 boundVars, inherited>>

\* The insert or the update of end() raises into the agent, which may call
\* end() again or give the handle up, as the end of a `with` block does.
EndRaises(h) ==
  /\ \/ MayEnd(h) /\ EmitRaises(ProcOf[home[h]], h)
     \/ /\ "db_error" \in Faults
        /\ handle[h] = "ending" /\ Live(home[h])
        /\ UNCHANGED <<rows, counter>>
  /\ \/ handle' = [handle EXCEPT ![h] = "lost"] /\ UNCHANGED emits
     \/ /\ emits < MaxEmits
        /\ emits' = emits + 1
        /\ handle' = [handle EXCEPT ![h] = "open"]
  /\ UNCHANGED <<status, process, todo, current, inflight, home, prior, starts,
                 inherited>>

-----------------------------------------------------------------------------
\* set_outcome, tag, checkpoint; and calls through the shims.

\* Without an active run they raise NoActiveRun; and the insert may raise.
Tag(c) ==
  /\ Live(c) /\ ~InLifecycleCall(c)
  /\ emits < MaxEmits
  /\ current[c] # None
  /\ \/ Emit(ProcOf[c], current[c], "outcome", "agent")
     \/ EmitRaises(ProcOf[c], current[c])
  /\ emits' = emits + 1
  /\ UNCHANGED <<status, process, todo, current, inflight, handleVars, starts,
                 inherited>>

\* build_call_context: the run is resolved before the call.  Without a current
\* run it is the ambient one, started when first needed and never ended.
BeginCall(c) ==
  LET p == ProcOf[c] IN
    /\ Live(c) /\ ~InLifecycleCall(c)
    /\ emits < MaxEmits
    /\ inflight[c] = None
    /\ emits' = emits + 1
    /\ \/ /\ current[c] # None
          /\ inflight' = [inflight EXCEPT ![c] = current[c]]
          /\ UNCHANGED status
       \/ /\ current[c] = None
          /\ inflight' = [inflight EXCEPT ![c] = p]
          /\ IF status[p] = "absent" THEN Flip(p, "running") ELSE UNCHANGED status
    /\ UNCHANGED <<rows, process, todo, counter, current, handleVars, starts,
                   inherited>>

\* emit_llm_call, into the run the call began in.
EndCall(c) ==
  /\ Live(c)
  /\ inflight[c] # None
  /\ Emit(ProcOf[c], inflight[c], "llm_call", "agent")
  /\ inflight' = [inflight EXCEPT ![c] = None]
  /\ UNCHANGED <<status, process, todo, current, handleVars, boundVars, inherited>>

\* The insert raises, because the storage fails or is closed: it is isolated, the
\* call is not recorded, and the number is used up.
EndCallUnrecorded(c) ==
  LET p == ProcOf[c] IN
    /\ \/ process[p] = "off"
       \/ "db_error" \in Faults /\ Live(c)
    /\ inflight[c] # None
    /\ counter' = [counter EXCEPT ![p][inflight[c]] = @ + 1]
    /\ inflight' = [inflight EXCEPT ![c] = None]
    /\ UNCHANGED <<dbVars, process, todo, current, handleVars, boundVars,
                   inherited>>

-----------------------------------------------------------------------------
\* shutdown(): _mark_abandoned_runs, then the storage is closed.

\* Mutant: only the rows the process started itself.
ShutdownOwnRuns(p) ==
  /\ process[p] = "on"
  /\ \/ "active_shutdown" \in Habits
     \/ \A c \in Contexts : ProcOf[c] = p =>
          inflight[c] = None /\ ~InLifecycleCall(c)
  /\ process' = [process EXCEPT ![p] = "marking"]
  /\ todo' = [todo EXCEPT ![p] = {r \in Runs : status[r] = "running"
                                              /\ Owner(r) = p}]
  /\ UNCHANGED <<dbVars, memVars, handleVars, boundVars, inherited>>

\* find_runs_with_status("running"): every running row of the database.
Shutdown(p) ==
  /\ process[p] = "on"
  /\ \/ "active_shutdown" \in Habits
     \/ \A c \in Contexts : ProcOf[c] = p =>
          inflight[c] = None /\ ~InLifecycleCall(c)
  /\ process' = [process EXCEPT ![p] = "marking"]
  /\ todo' = [todo EXCEPT ![p] = {r \in Runs : status[r] = "running"}]
  /\ UNCHANGED <<dbVars, memVars, handleVars, boundVars, inherited>>

Logged(r, n) ==
  rows' = [rows EXCEPT ![r] =
             Append(@, [sequence |-> n, kind |-> "run_end", by |-> "abandoned"])]

\* Mutant: the row is flipped, no run_end event.
MarkAbandonedSilently(p, r) ==
  /\ process[p] = "marking"
  /\ r \in todo[p]
  /\ todo' = [todo EXCEPT ![p] = @ \ {r}]
  /\ Flip(r, "error")
  /\ counter' = [counter EXCEPT ![p][r] = 0]
  /\ UNCHANGED <<rows, process, current, inflight, handleVars, boundVars,
                 inherited>>

\* One turn of its loop, whatever the status of the row has become.
MarkAbandoned(p, r) ==
  /\ process[p] = "marking"
  /\ r \in todo[p]
  /\ todo' = [todo EXCEPT ![p] = @ \ {r}]
  /\ Logged(r, counter[p][r] + 1)
  /\ Flip(r, "error")
  /\ counter' = [counter EXCEPT ![p][r] = 0]
  /\ UNCHANGED <<process, current, inflight, handleVars, boundVars, inherited>>

\* The insert or the update for one run raises, which is logged, and the loop
\* goes on.
MarkFails(p, r) ==
  /\ "db_error" \in Faults
  /\ process[p] = "marking"
  /\ r \in todo[p]
  /\ todo' = [todo EXCEPT ![p] = @ \ {r}]
  /\ \/ UNCHANGED rows
     \/ Logged(r, counter[p][r] + 1)
  /\ counter' = [counter EXCEPT ![p][r] = 0]
  /\ inherited' = [inherited EXCEPT ![p] = @ \ {r}]
  /\ UNCHANGED <<status, process, current, inflight, handleVars, boundVars>>

Close(p) ==
  /\ process[p] = "marking"
  /\ todo[p] = {}
  /\ process' = [process EXCEPT ![p] = "off"]
  /\ UNCHANGED <<dbVars, todo, memVars, handleVars, boundVars, inherited>>

Kill(p) ==
  /\ "kill" \in Faults
  /\ Open(p)
  /\ process' = [process EXCEPT ![p] = "dead"]
  /\ todo' = [todo EXCEPT ![p] = {}]
  /\ counter' = [counter EXCEPT ![p] = [r \in Runs |-> 0]]
  /\ current' = [c \in Contexts |-> IF ProcOf[c] = p THEN None ELSE current[c]]
  /\ inflight' = [c \in Contexts |-> IF ProcOf[c] = p THEN None ELSE inflight[c]]
  /\ handle' = [h \in Handles |->
       IF Owner(h) = p /\ handle[h] # "ended" THEN "lost" ELSE handle[h]]
  /\ UNCHANGED <<dbVars, home, prior, boundVars, inherited>>

-----------------------------------------------------------------------------
Next ==
  \/ \E p \in Procs :
       \/ Instrument(p)
       \/ Shutdown(p)
       \/ \E r \in Runs : MarkAbandoned(p, r) \/ MarkFails(p, r)
       \/ Close(p)
       \/ Kill(p)
  \/ \E h \in Handles :
       \/ \E c \in Contexts : Start(h, c)
       \/ Started(h)
       \/ End(h)
       \/ Ended(h)
       \/ StartRaises(h)
       \/ EndRaises(h)
  \/ \E c \in Contexts : Tag(c) \/ BeginCall(c) \/ EndCall(c) \/ EndCallUnrecorded(c)

Spec == Init /\ [][Next]_vars

-----------------------------------------------------------------------------
Kinds == {"run_start", "run_end", "outcome", "llm_call"}
EventRow == [sequence : Nat \ {0}, kind : Kinds, by : {"handle", "agent", "abandoned"}]

\* The tables and the in-memory maps hold values of their types.
TypeOK ==
  /\ status \in [Runs -> {"absent", "running", "complete", "error"}]
  /\ rows \in [Runs -> Seq(EventRow)]
  /\ process \in [Procs -> {"new", "on", "marking", "off", "dead"}]
  /\ counter \in [Procs -> [Runs -> Nat]]
  /\ todo \in [Procs -> SUBSET Runs]
  /\ current \in [Contexts -> Runs \union {None}]
  /\ inflight \in [Contexts -> Runs \union {None}]
  /\ handle \in [Handles -> {"new", "starting", "open", "ending", "ended", "lost"}]
  /\ home \in [Handles -> Contexts \union {None}]
  /\ prior \in [Handles -> Runs \union {None}]

\* The row never gets ahead of the log: a run that is over has a run_end event
\* that says so, whichever process ended it and whatever was killed half-way.
EndIsLogged ==
  \A r \in Runs : status[r] \in {"complete", "error"} =>
    \E i \in DOMAIN rows[r] : rows[r][i].kind = "run_end"

\* The sequence counter "guarantees event ordering within a run"
\* (shims/_emit.py:41): no two rows of a run have the same number.
SequencesDistinct ==
  \A r \in Runs : \A i, j \in DOMAIN rows[r] :
    rows[r][i].sequence = rows[r][j].sequence => i = j

\* "The ContextVar token machinery handles correct restoration on exit"
\* (_run_lifecycle.py:17): a context whose handles have all ended has no
\* current run, so that its next call is not recorded in a run that is over.
PointerRestored ==
  \A c \in Contexts :
    (\A h \in Handles : home[h] = c => handle[h] = "ended") => current[c] = None

\* A run is abandoned by "process exit without exit" (_run_lifecycle.py:31): a
\* run its live process will still end is not marked as abandoned.
OnlyDeadRunsAbandoned ==
  \A h \in Handles :
    (\E i \in DOMAIN rows[h] : rows[h][i].by = "abandoned")
      => ~(handle[h] \in {"open", "ending"} /\ process[Owner(h)] = "on")

\* A run that was running when its process died "is auto-flipped [..] the next
\* time Inkfoot starts up" (docs/concepts/storage.md:132).  The code does not
\* keep this promise (README, "Deviations").
FlippedAtStartup ==
  \A p \in Procs : process[p] = "on" =>
    \A r \in inherited[p] : status[r] # "running"

\* What the code does instead: it is flipped by the time the process that found
\* it when it started has shut down, unless marking that very run failed.
FlippedAtShutdown ==
  \A p \in Procs : process[p] = "off" =>
    \A r \in inherited[p] : status[r] # "running"
=============================================================================
