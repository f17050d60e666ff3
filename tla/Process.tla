------------------------------- MODULE Process -------------------------------
(***************************************************************************)
(* What a process sets up and takes down: the runs of several processes,   *)
(* those of one whose handles are nested, instrument() and shutdown(), the *)
(* layers that see embedding calls, and the ledgers of the calls.  A       *)
(* behaviour follows one of these, chosen at its start, and the others     *)
(* stay as they began.                                                     *)
(***************************************************************************)
EXTENDS RunLifecycle, Sequences

CONSTANTS
  NestedProc, NestedHandles, MaxNestedEmits,
  Patched, AppCalls, Options, MaxAttempts,
  EmbedFaults, MaxEmbedSteps,
  Requests, Bills, Rates, MaxTagged, MaxCalls

VARIABLES
  component,
  doing, instrumented, attempts, failed, captureMode, opened, hooks, running,
  inUse, registry, enforcer, handler, sdk, shims, othersSaved, meddled, call,
  contents,
  layers, context, open, raising, steps, events, asked, methods, lost, raised,
  prefix, pending, created, seen, done, last

instrumentState ==
  <<doing, instrumented, attempts, failed, captureMode, opened, hooks, running,
    inUse, registry, enforcer, handler, sdk, shims, othersSaved, meddled, call,
    contents>>
embeddingState ==
  <<layers, context, open, raising, steps, events, asked, methods, lost, raised>>
ledgerState == <<prefix, pending, created, seen, done, last>>
processVars == <<component, vars, instrumentState, embeddingState, ledgerState>>

-----------------------------------------------------------------------------
\* Handles used as nested `with` blocks, in the contexts of one process, and
\* nothing else that agents do or that fails.
L == INSTANCE RunLifecycle
       WITH Procs <- {NestedProc}, Handles <- NestedHandles,
            ProcOf <- [c \in Contexts |-> NestedProc],
            Habits <- {}, Faults <- {}, MaxStarts <- 1, MaxEmits <- MaxNestedEmits

N == INSTANCE Instrumentation
E == INSTANCE EmbeddingCapture
A == INSTANCE Attribution

ASSUME NestedAssumption == L!NamesAssumption
ASSUME OptionsAssumption == N!OptionsAssumption
ASSUME EmbedAssumption == E!EmbedAssumption
ASSUME AttributionAssumption == A!AttributionAssumption

-----------------------------------------------------------------------------
\* The components that a behaviour does not follow need but one initial state.
ProcessInit ==
  /\ component \in {"runs", "nested", "instrument", "embeddings", "ledger"}
  /\ IF component = "nested" THEN L!Init ELSE Init
  /\ N!Init /\ E!Init /\ A!Init
  /\ component # "embeddings" => layers = {}

ProcessNext ==
  /\ UNCHANGED component
  /\ \/ component = "runs" /\ Next /\ UNCHANGED <<instrumentState, embeddingState, ledgerState>>
     \/ component = "nested" /\ L!Next
        /\ UNCHANGED <<instrumentState, embeddingState, ledgerState>>
     \/ component = "instrument" /\ N!Next /\ UNCHANGED <<vars, embeddingState, ledgerState>>
     \/ component = "embeddings" /\ E!Next /\ UNCHANGED <<vars, instrumentState, ledgerState>>
     \/ component = "ledger" /\ A!Next
        /\ UNCHANGED <<vars, instrumentState, embeddingState>>

ProcessSpec == ProcessInit /\ [][ProcessNext]_processVars

-----------------------------------------------------------------------------
\* The row of a run never gets ahead of its log, whichever process ended the run
\* and whatever was killed half-way (_run_lifecycle.py:433-474, 724-785).
EndsAreLogged == component # "nested" => EndIsLogged

\* A run that a process inherited is over by the time the process has shut down,
\* unless marking that run failed (_run_lifecycle.py:724-785).
InheritedAreFlipped == component # "nested" => FlippedAtShutdown

\* Where handles nest, the event rows of a run have different numbers and a handle
\* that ends puts back the run that was current when it started
\* (shims/_emit.py:58-76, _run_lifecycle.py:464).
NestedRunsStayApart ==
  component = "nested" => L!TypeOK /\ L!SequencesDistinct /\ L!PointerRestored

\* Shutdown leaves the process as it was before it was instrumented
\* (_instrument.py:335-429).
ShutdownLeavesNothing == N!ShutdownLeavesNothing

\* An instrumented process records each call once, in a storage that is open, with
\* everything it was asked for running (_instrument.py:149-322).
InstrumentedIsWhole == N!InstrumentedIsWhole

\* Replay content passes the regex floor (storage/redaction.py:219-263).
ContentPassesFloor == N!ContentPassesFloor

\* An embedding request that both layers see is recorded once
\* (langchain/embeddings.py:155-211, shims/_emit.py:242-291).
EmbeddedOnce == E!EmbeddedOnce

\* Each part of a request is in one category of the ledger, the same for both
\* layers but in a tool's turn (normalise/anthropic.py:95-201).
AttributedOnce == A!AttributedOnce /\ A!LayersAgree

\* The static part of a system block is shared by the run's blocks
\* (normalise/__init__.py:206-243).
StaticIsShared == A!StaticIsShared

\* And it only gets shorter (normalise/__init__.py:212).
PrefixNeverGrows == A!PrefixNeverGrows

\* The estimate differs from the charge by what is counted twice or not at all
\* (pricing.py:143-311).
BillExplained == A!BillExplained
=============================================================================
