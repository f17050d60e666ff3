---------------------------- MODULE ProcessProofs ----------------------------
(***************************************************************************)
(* What a process keeps from the moment it is set up, for any processes,   *)
(* contexts, handles, options, requests and steps of the application.      *)
(*                                                                         *)
(* Runs: what RunLifecycleProofs proves, of the composition.  instrument() *)
(* and shutdown(): what there is was set up by the attempt of now, which   *)
(* has it in use, or by one that raised; a surface that nobody else has    *)
(* touched is bare, or has one wrapper and the shim that will take it      *)
(* away; and how far each of the two is says what is there already.        *)
(* Embeddings: the depth says whether a method is under way, the method's  *)
(* own task holds the signal when it looks, and what each layer has done   *)
(* with a request once its method is over.  Ledgers: how a surface lays a  *)
(* conversation out, what the call recorded last counts and was charged,   *)
(* and that the static prefix is at the head of every block it is said of. *)
(***************************************************************************)
EXTENDS Process, RunLifecycleProofs, FiniteSetTheorems, SequenceTheorems,
        WellFoundedInduction

LP == INSTANCE RunLifecycleProofs
        WITH Procs <- {NestedProc}, Handles <- NestedHandles,
             ProcOf <- [c \in Contexts |-> NestedProc],
             Habits <- {}, Faults <- {}, MaxStarts <- 1, MaxEmits <- MaxNestedEmits

-----------------------------------------------------------------------------
\* Runs that nest, and those that do not.

\* A behaviour that is not of nested handles is one of the runs, or stutters.
LEMMA RunsAreRuns == ProcessSpec => component = "nested" \/ Spec
<1>1. ProcessInit => component = "nested" \/ Init
  BY DEF ProcessInit
<1>2. ~(component = "nested") /\ [ProcessNext]_processVars => [Next]_vars
  BY DEF ProcessNext, processVars
<1>3. ~(component = "nested") /\ [ProcessNext]_processVars => (~(component = "nested"))'
  BY DEF ProcessNext, processVars
<1>4. QED BY <1>1, <1>2, <1>3, PTL DEF ProcessSpec, Spec

\* The behaviour that is follows one component throughout.
LEMMA ComponentKept == ProcessSpec /\ component = "nested" => [](component = "nested")
<1>1. component = "nested" /\ [ProcessNext]_processVars => (component = "nested")'
  BY DEF ProcessNext, processVars
<1>2. QED BY <1>1, PTL DEF ProcessSpec

\* A run that is over has a run_end event that says so, whatever agents do, whatever
\* fails and whoever is killed half-way (_run_lifecycle.py:433-474, 724-785).
THEOREM EndsAlwaysLogged == ProcessSpec => []EndsAreLogged
<1>1. component = "nested" \/ EndIsLogged => EndsAreLogged
  BY DEF EndsAreLogged
<1>2. QED BY <1>1, RunsAreRuns, ComponentKept, EndAlwaysLogged, PTL

\* "Find every status='running' row at shutdown and flip it" (_run_lifecycle.py:725):
\* a run that a process inherited is over once that process has shut down, unless
\* marking that very run failed.
THEOREM InheritedAlwaysFlipped == ProcessSpec => []InheritedAreFlipped
<1>1. component = "nested" \/ FlippedAtShutdown => InheritedAreFlipped
  BY DEF InheritedAreFlipped
<1>2. QED BY <1>1, RunsAreRuns, ComponentKept, InheritedRunsFlipped, PTL

\* Where handles nest, events of a run have different numbers and the pointer is put
\* back (shims/_emit.py:58-76, _run_lifecycle.py:464), for any contexts and handles.
THEOREM NestedAlwaysApart == ProcessSpec => []NestedRunsStayApart
<1>1. L!Init => LP!Init
  BY DEF L!Init, LP!Init, L!Runs, LP!Runs
<1>2. L!Next => LP!Next
  BY DEF L!Next, LP!Next, L!Open, LP!Open, L!InLifecycleCall, LP!InLifecycleCall,
         L!Live, LP!Live, L!Owner, LP!Owner, L!Flip, LP!Flip, L!Emit, LP!Emit,
         L!EmitRaises, LP!EmitRaises, L!Instrument, LP!Instrument, L!Start, LP!Start,
         L!Started, LP!Started, L!MayEnd, LP!MayEnd, L!End, LP!End, L!Ended, LP!Ended,
         L!StartRaises, LP!StartRaises, L!EndRaises, LP!EndRaises, L!Tag, LP!Tag,
         L!BeginCall, LP!BeginCall, L!EndCall, LP!EndCall, L!EndCallUnrecorded,
         LP!EndCallUnrecorded, L!Shutdown, LP!Shutdown, L!Logged, LP!Logged,
         L!MarkAbandoned, LP!MarkAbandoned, L!MarkFails, LP!MarkFails, L!Close,
         LP!Close, L!Kill, LP!Kill, L!Runs, LP!Runs, L!dbVars, LP!dbVars, L!memVars,
         LP!memVars, L!handleVars, LP!handleVars, L!boundVars, LP!boundVars, L!vars,
         LP!vars
<1>3. LP!TypeOK /\ LP!SequencesDistinct /\ LP!PointerRestored
        => L!TypeOK /\ L!SequencesDistinct /\ L!PointerRestored
  BY DEF L!TypeOK, LP!TypeOK, L!SequencesDistinct, LP!SequencesDistinct,
         L!PointerRestored, LP!PointerRestored, L!Runs, LP!Runs, L!EventRow,
         LP!EventRow, L!Kinds, LP!Kinds
<1>4. vars = LP!vars /\ vars' = LP!vars'
  BY DEF vars, LP!vars, dbVars, LP!dbVars, memVars, LP!memVars, handleVars, LP!handleVars,
         boundVars, LP!boundVars
<1>5. LP!Spec => [](LP!TypeOK /\ LP!SequencesDistinct /\ LP!PointerRestored)
  <2>1. LP!NestedOnce
    BY DEF LP!NestedOnce
  <2>2. QED BY <2>1, NestedAssumption, LP!NestedRunsApart DEF L!NamesAssumption
<1>6. ProcessInit => ~(component = "nested") \/ LP!Init
  BY <1>1 DEF ProcessInit
<1>7. component = "nested" /\ [ProcessNext]_processVars => [LP!Next]_LP!vars
  BY <1>2, <1>4 DEF ProcessNext, processVars
<1>8. ~(component = "nested") => NestedRunsStayApart
  BY DEF NestedRunsStayApart
<1>9. LP!TypeOK /\ LP!SequencesDistinct /\ LP!PointerRestored => NestedRunsStayApart
  BY <1>3 DEF NestedRunsStayApart
<1>10. ~(component = "nested") /\ [ProcessNext]_processVars => ~(component = "nested")'
  BY DEF ProcessNext, processVars
<1>11. QED BY <1>5, <1>6, <1>7, <1>8, <1>9, <1>10, ComponentKept, PTL DEF ProcessSpec, LP!Spec

-----------------------------------------------------------------------------
\* instrument() and shutdown() (Instrumentation).

\* The steps of instrument() before it patches an SDK, and all of them; of shutdown().
BeforeShims == {"connect", "hook", "export", "policies", "contracts"}
SettingUp == BeforeShims \union {"shims", "worker", "ingest"}
TakingDown == {"stop_export", "stop_worker", "deactivate", "unshim", "close"}

\* The attempts that may have patched something, and what a call may go through.
Patching == IF doing.pc \in BeforeShims THEN attempts - 1 ELSE attempts
Layers == {N!Wraps, N!Plain} \union (1..Patching)
Kept == failed \union {attempts}
ThreadKinds == {"worker", "exporter", "ingest"}
Shims == [surface : N!SDKs, original : Seq(Layers), wrapped : BOOLEAN]
AppCall == [surface : N!SDKs, stack : Seq(Layers), over : BOOLEAN]

Stations == {"idle"} \union SettingUp \union TakingDown
Places == [pc : Stations, left : Seq(N!SDKs), options : Options \union {None}]

FlagTypes ==
  /\ doing \in Places
  /\ doing.pc \in SettingUp => doing.options \in Options
  /\ instrumented \in BOOLEAN /\ handler \in BOOLEAN
  /\ attempts \in 0..MaxAttempts /\ failed \subseteq 1..attempts
  /\ captureMode \in {"metadata", "replay"}
  /\ DOMAIN hooks = 1..MaxAttempts
  /\ opened \subseteq 1..attempts
  /\ running \subseteq ThreadKinds \X (1..attempts)
  /\ inUse \in [N!Kinds -> (1..attempts) \union {None}]
  /\ registry \in Seq(1..attempts)

StackTypes ==
  /\ sdk \in [N!SDKs -> Seq(Layers)] /\ shims \in Seq(Shims)
  /\ othersSaved \in [N!SDKs -> Seq(Layers) \union {None}]
  /\ call \in [AppCalls -> AppCall \union {None}]

Up == doing.pc = "idle" /\ instrumented

\* What there is was set up by the attempt of now or by one that raised, and of the
\* attempt of now by what is in use.
OfAnAttempt ==
  /\ opened \subseteq Kept
  /\ attempts \in opened => inUse["storage"] = attempts \/ doing.pc \in {"hook", "export"}
  /\ \A t \in running : t[2] \in Kept /\ (t[2] = attempts => inUse[t[1]] = attempts)
  /\ \A k \in ThreadKinds : inUse[k] # None => <<k, inUse[k]>> \in running
  /\ \A i \in DOMAIN registry : registry[i] \in Kept

\* A surface that no one else has touched has one wrapper at most, and the shim that
\* will take it away.
WrappedBy(s, i) == shims[i].surface = s /\ shims[i].wrapped
Bare(s) == sdk[s] = <<>> /\ \A i \in DOMAIN shims : ~WrappedBy(s, i)
Wrapped(s) ==
  /\ \E n \in Kept : sdk[s] = <<n>>
  /\ \E i \in DOMAIN shims : WrappedBy(s, i) /\ shims[i].original = <<>>
  /\ \A i, j \in DOMAIN shims : WrappedBy(s, i) /\ WrappedBy(s, j) => i = j
SurfacesApart ==
  \A s \in N!SDKs \ meddled : othersSaved[s] = None /\ (Bare(s) \/ Wrapped(s))

\* How far instrument() is,
SetUpSoFar ==
  /\ doing.pc \in SettingUp => ~instrumented
  /\ doing.pc \in SettingUp \/ instrumented => attempts \in (1..MaxAttempts) \ failed
  /\ doing.pc = "connect" => attempts \notin opened
  /\ doing.pc \in SettingUp \ {"connect"} \/ Up => attempts \in opened
  /\ doing.pc \in SettingUp \ {"connect", "hook", "export"} \/ Up => inUse["storage"] = attempts
  /\ doing.pc \in {"shims", "worker", "ingest"} \/ Up => enforcer = attempts
  /\ doing.pc \in {"worker", "ingest"} \/ Up => handler
  /\ doing.pc \in BeforeShims => doing.left = Patched
  /\ doing.pc \in {"shims", "worker", "ingest"} \/ Up =>
       \A s \in N!SDKs \ meddled :
         Wrapped(s) \/ (doing.pc = "shims" /\ \E i \in DOMAIN doing.left : doing.left[i] = s)

\* and shutdown().
TakenDownSoFar ==
  /\ doing.pc \in TakingDown => inUse["ingest"] = None
  /\ doing.pc \in TakingDown \ {"stop_export"} => inUse["exporter"] = None
  /\ doing.pc \in {"deactivate", "unshim", "close"} => inUse["worker"] = None
  /\ doing.pc \in {"unshim", "close"} => ~handler
  /\ doing.pc = "close" => shims = <<>> /\ registry = <<>> /\ enforcer = None

\* A process is at rest after its attempt but when that raised, and then has nothing
\* until the next attempt comes to its storage.
Rested ==
  /\ doing.pc = "idle" /\ ~instrumented /\ attempts \notin failed => inUse["storage"] = None
  /\ /\ doing.pc \in {"idle", "connect", "hook", "export"}
     /\ ~instrumented /\ inUse["storage"] = None
     => /\ \A k \in ThreadKinds : inUse[k] = None
        /\ registry = <<>> /\ enforcer = None /\ ~handler /\ shims = <<>>

\* The storage of the attempt of now has the hook that its mode asks for.
HookFits ==
  attempts \in opened \ failed /\ doing.pc # "hook" =>
    \E custom \in N!CustomHooks : hooks[attempts] = N!ResolveHook(captureMode, custom)

InstrumentInv ==
  /\ FlagTypes /\ StackTypes /\ OfAnAttempt /\ SurfacesApart /\ SetUpSoFar /\ TakenDownSoFar
  /\ Rested /\ HookFits /\ N!ContentPassesFloor

-----------------------------------------------------------------------------
InstrumentGiven == N!OptionsAssumption

LEMMA PatchedIs == ASSUME InstrumentGiven PROVE Patched \in Seq(N!SDKs)
BY DEF InstrumentGiven, N!OptionsAssumption, N!SDKs

\* What was a layer is one.
LEMMA LayersStay ==
  ASSUME FlagTypes, StackTypes, FlagTypes', Patching <= Patching',
         UNCHANGED <<sdk, shims, othersSaved, call>>
  PROVE  StackTypes'
<1>1. Layers \subseteq Layers'
  <2>1. attempts \in Int /\ attempts' \in Int
    BY DEF FlagTypes
  <2>2. Patching \in Int /\ Patching' \in Int
    BY <2>1 DEF Patching
  <2> QED BY <2>2 DEF Layers, N!Wraps, N!Plain
<1>2. Seq(Layers) \subseteq Seq(Layers')
  BY <1>1
<1>3. Shims \subseteq Shims' /\ AppCall \subseteq AppCall'
  BY <1>2 DEF Shims, AppCall
<1>4. Seq(Shims) \subseteq Seq(Shims')
  BY <1>3
<1> QED BY <1>2, <1>3, <1>4 DEF StackTypes

LEMMA SurfacesStay ==
  ASSUME SurfacesApart, Kept \subseteq Kept', UNCHANGED <<sdk, shims, othersSaved, meddled>>
  PROVE  SurfacesApart' /\ \A s \in N!SDKs : Wrapped(s) => Wrapped(s)'
BY DEF SurfacesApart, Bare, Wrapped, WrappedBy

LEMMA Going ==
  ASSUME NEW p \in Stations, doing \in Places, N!Go(p)
  PROVE  /\ doing' \in Places /\ doing'.pc = p
         /\ doing'.left = doing.left /\ doing'.options = doing.options
<1>1. doing = [pc |-> doing.pc, left |-> doing.left, options |-> doing.options]
  BY DEF Places
<1>2. doing' = [pc |-> p, left |-> doing.left, options |-> doing.options]
  BY <1>1 DEF N!Go
<1> QED BY <1>2 DEF Places

LEMMA Raising ==
  ASSUME N!Raise
  PROVE  doing' \in Places /\ doing'.pc = "idle" /\ failed' = failed \union {attempts}
<1>1. <<>> \in Seq(N!SDKs) /\ "idle" \in Stations
  BY DEF Stations
<1> QED BY <1>1 DEF N!Raise, N!Idle, Places

LEMMA ConnectStep == ASSUME InstrumentInv, N!Connect PROVE InstrumentInv'
<1> USE DEF InstrumentInv
<1>0. /\ doing \in Places /\ doing.pc = "connect" /\ doing' \in Places
      /\ \/ /\ doing'.pc = "hook" /\ doing'.left = doing.left /\ doing'.options = doing.options
            /\ opened' = opened \union {attempts} /\ failed' = failed
         \/ doing'.pc = "idle" /\ failed' = failed \union {attempts} /\ opened' = opened
      /\ UNCHANGED <<instrumented, attempts, captureMode, hooks, running, inUse, registry,
                     enforcer, handler, sdk, shims, othersSaved, meddled, call, contents>>
  <2>1. "hook" \in Stations
    BY DEF Stations, SettingUp, BeforeShims
  <2> QED BY <2>1, Going, Raising
          DEF N!Connect, N!At, FlagTypes, N!threadVars, N!gateVars, N!sdkVars, N!appVars
<1>1. FlagTypes'
  <2>1. attempts \in 0..MaxAttempts /\ attempts \in 1..attempts
    BY <1>0 DEF FlagTypes, SetUpSoFar, SettingUp, BeforeShims
  <2>2. failed' \subseteq 1..attempts /\ opened' \subseteq 1..attempts
    BY <1>0, <2>1 DEF FlagTypes
  <2> QED BY <1>0, <2>2 DEF FlagTypes, SettingUp, BeforeShims
<1>2. StackTypes'
  BY <1>0, <1>1, LayersStay DEF Patching, BeforeShims, FlagTypes
<1>4. SurfacesApart' /\ \A s \in N!SDKs : Wrapped(s) => Wrapped(s)'
  BY <1>0, SurfacesStay DEF Kept
<1>5. OfAnAttempt'
  BY <1>0 DEF OfAnAttempt, FlagTypes, Kept, SetUpSoFar, SettingUp, BeforeShims
<1>6. SetUpSoFar'
  BY <1>0, <1>4 DEF SetUpSoFar, SettingUp, BeforeShims, Up
<1>7. TakenDownSoFar' /\ Rested'
  BY <1>0 DEF TakenDownSoFar, Rested, SetUpSoFar, SettingUp, BeforeShims, TakingDown
<1>8. HookFits' /\ N!ContentPassesFloor'
  BY <1>0 DEF HookFits, SetUpSoFar, SettingUp, BeforeShims, N!ContentPassesFloor
<1> QED BY <1>1, <1>2, <1>4, <1>5, <1>6, <1>7, <1>8

\* What a step that leaves the SDKs alone keeps.
LEMMA AsideFromSDKs ==
  ASSUME FlagTypes, StackTypes, SurfacesApart, FlagTypes',
         attempts' = attempts, failed \subseteq failed',
         doing'.pc \in BeforeShims => doing.pc \in BeforeShims,
         UNCHANGED <<sdk, shims, othersSaved, meddled, call>>
  PROVE  StackTypes' /\ SurfacesApart' /\ \A s \in N!SDKs : Wrapped(s) => Wrapped(s)'
<1>1. Patching <= Patching'
  BY DEF Patching, FlagTypes
<1>2. Kept \subseteq Kept'
  BY DEF Kept
<1> QED BY <1>1, <1>2, LayersStay, SurfacesStay

LEMMA HookStep ==
  ASSUME InstrumentGiven, InstrumentInv, N!SetHook PROVE InstrumentInv'
<1> USE DEF InstrumentInv
<1>0. /\ doing \in Places /\ doing.pc = "hook" /\ doing' \in Places
      /\ doing'.pc = "export" /\ doing'.left = doing.left /\ doing'.options = doing.options
      /\ hooks' = [hooks EXCEPT ![attempts] = N!ResolveHook(captureMode, doing.options.custom)]
      /\ UNCHANGED <<instrumented, attempts, failed, captureMode, opened, running, inUse,
                     registry, enforcer, handler, sdk, shims, othersSaved, meddled, call,
                     contents>>
  <2>1. "export" \in Stations
    BY DEF Stations, SettingUp, BeforeShims
  <2> QED BY <2>1, Going
          DEF N!SetHook, N!At, FlagTypes, N!Given, N!threadVars, N!gateVars,
              N!sdkVars, N!appVars
<1>1. FlagTypes'
  BY <1>0 DEF FlagTypes, SettingUp, BeforeShims
<1>2. StackTypes' /\ SurfacesApart' /\ \A s \in N!SDKs : Wrapped(s) => Wrapped(s)'
  BY <1>0, <1>1, AsideFromSDKs DEF BeforeShims
<1>3. OfAnAttempt'
  BY <1>0 DEF OfAnAttempt, Kept
<1>4. SetUpSoFar'
  BY <1>0, <1>2 DEF SetUpSoFar, SettingUp, BeforeShims, Up
<1>5. TakenDownSoFar' /\ Rested'
  BY <1>0 DEF TakenDownSoFar, Rested, SetUpSoFar, SettingUp, BeforeShims, TakingDown
<1>6. HookFits'
  <2>1. attempts \in 1..MaxAttempts /\ DOMAIN hooks = 1..MaxAttempts
    BY <1>0 DEF SetUpSoFar, SettingUp, BeforeShims, FlagTypes
  <2>2. hooks'[attempts] = N!ResolveHook(captureMode, doing.options.custom)
    BY <1>0, <2>1 DEF FlagTypes
  <2>3. doing.options.custom \in N!CustomHooks
    BY <1>0 DEF FlagTypes, SettingUp, BeforeShims, InstrumentGiven, N!OptionsAssumption
  <2> QED BY <1>0, <2>2, <2>3 DEF HookFits
<1>7. N!ContentPassesFloor'
  BY <1>0 DEF N!ContentPassesFloor
<1> QED BY <1>1, <1>2, <1>3, <1>4, <1>5, <1>6, <1>7

LEMMA ExportStep ==
  ASSUME InstrumentInv, N!StartExport PROVE InstrumentInv'
<1> USE DEF InstrumentInv
<1>0. /\ doing \in Places /\ doing.pc = "export" /\ doing' \in Places
      /\ doing'.pc = "policies" /\ doing'.left = doing.left /\ doing'.options = doing.options
      /\ inUse' = [inUse EXCEPT !["storage"] = attempts,
                                !["exporter"] = IF doing.options.exports THEN attempts ELSE @]
      /\ running' = IF doing.options.exports THEN running \union {<<"exporter", attempts>>}
                    ELSE running
      /\ UNCHANGED <<instrumented, attempts, failed, captureMode, opened, hooks,
                     registry, enforcer, handler, sdk, shims, othersSaved, meddled, call,
                     contents>>
  <2>1. "policies" \in Stations
    BY DEF Stations, SettingUp, BeforeShims
  <2> QED BY <2>1, Going
          DEF N!StartExport, N!At, FlagTypes, N!Given, N!gateVars, N!sdkVars, N!appVars
<1>a. attempts \in 1..attempts /\ attempts \in 1..MaxAttempts /\ attempts \notin failed
  BY <1>0 DEF SetUpSoFar, SettingUp, BeforeShims, FlagTypes
<1>b. /\ inUse' \in [N!Kinds -> (1..attempts) \union {None}]
      /\ inUse'["storage"] = attempts
      /\ \A k \in ThreadKinds :
           \/ inUse'[k] = inUse[k]
           \/ inUse'[k] = attempts /\ <<k, attempts>> \in running'
  BY <1>0, <1>a DEF FlagTypes, ThreadKinds, N!Kinds
<1>c. /\ running' \subseteq ThreadKinds \X (1..attempts) /\ running \subseteq running'
      /\ \A t \in running' : t \in running \/ (t[2] = attempts /\ inUse'[t[1]] = attempts)
  BY <1>0, <1>a DEF FlagTypes, ThreadKinds, N!Kinds
<1>1. FlagTypes'
  BY <1>0, <1>b, <1>c DEF FlagTypes, SettingUp, BeforeShims
<1>2. StackTypes' /\ SurfacesApart' /\ \A s \in N!SDKs : Wrapped(s) => Wrapped(s)'
  BY <1>0, <1>1, AsideFromSDKs DEF BeforeShims
<1>3. OfAnAttempt'
  BY <1>0, <1>a, <1>b, <1>c DEF OfAnAttempt, Kept, FlagTypes
<1>4. SetUpSoFar'
  BY <1>0, <1>2, <1>b DEF SetUpSoFar, SettingUp, BeforeShims, Up
<1>5. TakenDownSoFar' /\ Rested'
  BY <1>0 DEF TakenDownSoFar, Rested, SetUpSoFar, SettingUp, BeforeShims, TakingDown
<1>6. HookFits' /\ N!ContentPassesFloor'
  BY <1>0 DEF HookFits, N!ContentPassesFloor
<1> QED BY <1>1, <1>2, <1>3, <1>4, <1>5, <1>6

LEMMA PoliciesRegistered ==
  ASSUME InstrumentGiven, InstrumentInv, N!RegisterPolicies PROVE InstrumentInv'
<1> USE DEF InstrumentInv
<1>0. /\ doing \in Places /\ doing.pc = "policies" /\ doing' \in Places
      /\ \/ /\ doing'.pc = "contracts" /\ doing'.left = doing.left
            /\ doing'.options = doing.options /\ failed' = failed
            /\ registry' = registry \o <<attempts, attempts>>
         \/ /\ doing'.pc = "idle" /\ failed' = failed \union {attempts}
            /\ registry' = Append(registry, attempts)
      /\ UNCHANGED <<instrumented, attempts, captureMode, opened, hooks, running, inUse,
                     enforcer, handler, sdk, shims, othersSaved, meddled, call, contents>>
  <2>1. "contracts" \in Stations
    BY DEF Stations, SettingUp, BeforeShims
  <2> QED BY <2>1, Going, Raising
          DEF N!RegisterPolicies, N!At, FlagTypes, N!threadVars, N!sdkVars, N!appVars
<1>a. attempts \in 1..attempts /\ attempts \in 1..MaxAttempts /\ attempts \notin failed
  BY <1>0 DEF SetUpSoFar, SettingUp, BeforeShims, FlagTypes
<1>b. registry' \in Seq(1..attempts) /\ \A i \in DOMAIN registry' : registry'[i] \in Kept
  <2>1. registry \in Seq(1..attempts) /\ \A i \in DOMAIN registry : registry[i] \in Kept
    BY DEF FlagTypes, OfAnAttempt
  <2>2. attempts \in Kept
    BY DEF Kept
  <2>3. CASE registry' = Append(registry, attempts)
    BY <1>a, <2>1, <2>2, <2>3
  <2>4. CASE registry' = registry \o <<attempts, attempts>>
    <3>1. registry' \in Seq(1..attempts) /\ Len(registry') = Len(registry) + 2
      BY <1>a, <2>1, <2>4
    <3>2. \A i \in 1..(Len(registry) + 2) :
            registry'[i] = IF i <= Len(registry) THEN registry[i] ELSE attempts
      BY <1>a, <2>1, <2>4
    <3> QED BY <2>1, <2>2, <3>1, <3>2
  <2> QED BY <1>0, <2>3, <2>4
<1>1. FlagTypes'
  <2>1. failed' \subseteq 1..attempts
    BY <1>0, <1>a DEF FlagTypes
  <2> QED BY <1>0, <2>1, <1>b DEF FlagTypes, SettingUp, BeforeShims
<1>2. StackTypes' /\ SurfacesApart' /\ \A s \in N!SDKs : Wrapped(s) => Wrapped(s)'
  BY <1>0, <1>1, AsideFromSDKs DEF BeforeShims
<1>3. OfAnAttempt'
  BY <1>0, <1>b DEF OfAnAttempt, Kept
<1>4. SetUpSoFar'
  BY <1>0, <1>2 DEF SetUpSoFar, SettingUp, BeforeShims, Up
<1>5. TakenDownSoFar' /\ Rested'
  <2>1. inUse["storage"] # None
    BY <1>0, <1>a DEF SetUpSoFar, SettingUp, BeforeShims, InstrumentGiven, N!OptionsAssumption
  <2> QED BY <1>0, <2>1
         DEF TakenDownSoFar, Rested, SetUpSoFar, SettingUp, BeforeShims, TakingDown
<1>6. HookFits' /\ N!ContentPassesFloor'
  BY <1>0 DEF HookFits, N!ContentPassesFloor
<1> QED BY <1>1, <1>2, <1>3, <1>4, <1>5, <1>6

LEMMA ContractsLoaded ==
  ASSUME InstrumentGiven, InstrumentInv, N!LoadContracts PROVE InstrumentInv'
<1> USE DEF InstrumentInv
<1>0. /\ doing \in Places /\ doing.pc = "contracts" /\ doing' \in Places
      /\ \/ /\ doing'.pc = "shims" /\ doing'.left = doing.left
            /\ doing'.options = doing.options /\ failed' = failed
            /\ enforcer' = attempts
         \/ /\ doing'.pc = "idle" /\ failed' = failed \union {attempts}
            /\ enforcer' = enforcer
      /\ UNCHANGED <<instrumented, attempts, captureMode, opened, hooks, running, inUse,
                     registry, handler, sdk, shims, othersSaved, meddled, call, contents>>
  <2>1. "shims" \in Stations
    BY DEF Stations, SettingUp, BeforeShims
  <2> QED BY <2>1, Going, Raising
          DEF N!LoadContracts, N!At, FlagTypes, N!threadVars, N!sdkVars, N!appVars
<1>a. attempts \in 1..attempts /\ attempts \in 1..MaxAttempts /\ attempts \notin failed
  BY <1>0 DEF SetUpSoFar, SettingUp, BeforeShims, FlagTypes
<1>1. FlagTypes'
  <2>1. failed' \subseteq 1..attempts
    BY <1>0, <1>a DEF FlagTypes
  <2> QED BY <1>0, <2>1 DEF FlagTypes, SettingUp, BeforeShims
<1>2. StackTypes' /\ SurfacesApart' /\ \A s \in N!SDKs : Wrapped(s) => Wrapped(s)'
  BY <1>0, <1>1, AsideFromSDKs DEF BeforeShims
<1>3. OfAnAttempt'
  BY <1>0 DEF OfAnAttempt, Kept
<1>4. SetUpSoFar'
  <2>1. \A s \in N!SDKs : \E i \in DOMAIN doing.left : doing.left[i] = s
    BY <1>0 DEF SetUpSoFar, BeforeShims, N!SDKs
  <2> QED BY <1>0, <1>2, <2>1 DEF SetUpSoFar, SettingUp, BeforeShims, Up
<1>5. TakenDownSoFar' /\ Rested'
  <2>1. inUse["storage"] # None
    BY <1>0, <1>a DEF SetUpSoFar, SettingUp, BeforeShims, InstrumentGiven, N!OptionsAssumption
  <2> QED BY <1>0, <2>1
         DEF TakenDownSoFar, Rested, SetUpSoFar, SettingUp, BeforeShims, TakingDown
<1>6. HookFits' /\ N!ContentPassesFloor'
  BY <1>0 DEF HookFits, N!ContentPassesFloor
<1> QED BY <1>1, <1>2, <1>3, <1>4, <1>5, <1>6

LEMMA HandlerActivated ==
  ASSUME InstrumentGiven, InstrumentInv, N!ActivateHandler PROVE InstrumentInv'
<1> USE DEF InstrumentInv
<1>0. /\ doing \in Places /\ doing.pc = "shims" /\ doing' \in Places /\ doing.left = <<>>
      /\ doing'.pc = "worker" /\ doing'.left = doing.left /\ doing'.options = doing.options
      /\ handler' = TRUE
      /\ UNCHANGED <<instrumented, attempts, failed, captureMode, opened, hooks, running,
                     inUse, registry, enforcer, sdk, shims, othersSaved, meddled, call,
                     contents>>
  <2>1. "worker" \in Stations
    BY DEF Stations, SettingUp, BeforeShims
  <2> QED BY <2>1, Going
          DEF N!ActivateHandler, N!At, FlagTypes, N!threadVars, N!sdkVars, N!appVars
<1>1. FlagTypes'
  BY <1>0 DEF FlagTypes, SettingUp, BeforeShims
<1>2. StackTypes' /\ SurfacesApart' /\ \A s \in N!SDKs : Wrapped(s) => Wrapped(s)'
  BY <1>0, <1>1, AsideFromSDKs DEF BeforeShims
<1>3. OfAnAttempt'
  BY <1>0 DEF OfAnAttempt, Kept
<1>4. SetUpSoFar'
  BY <1>0, <1>2 DEF SetUpSoFar, SettingUp, BeforeShims, Up
<1>5. TakenDownSoFar' /\ Rested'
  BY <1>0 DEF TakenDownSoFar, Rested, SetUpSoFar, SettingUp, BeforeShims, TakingDown
<1>6. HookFits' /\ N!ContentPassesFloor'
  BY <1>0 DEF HookFits, N!ContentPassesFloor
<1> QED BY <1>1, <1>2, <1>3, <1>4, <1>5, <1>6

LEMMA WorkerStarted ==
  ASSUME InstrumentInv, N!StartWorker PROVE InstrumentInv'
<1> USE DEF InstrumentInv
<1>0. /\ doing \in Places /\ doing.pc = "worker" /\ doing' \in Places
      /\ doing'.pc = "ingest" /\ doing'.left = doing.left /\ doing'.options = doing.options
      /\ \/ UNCHANGED <<running, inUse>>
         \/ /\ running' = running \union {<<"worker", attempts>>}
            /\ inUse' = [inUse EXCEPT !["worker"] = attempts]
      /\ UNCHANGED <<instrumented, attempts, failed, captureMode, opened, hooks,
                     registry, enforcer, handler, sdk, shims, othersSaved, meddled, call,
                     contents>>
  <2>1. "ingest" \in Stations
    BY DEF Stations, SettingUp, BeforeShims
  <2> QED BY <2>1, Going
          DEF N!StartWorker, N!At, FlagTypes, N!Given, N!gateVars, N!sdkVars, N!appVars
<1>a. attempts \in 1..attempts /\ attempts \in 1..MaxAttempts /\ attempts \notin failed
  BY <1>0 DEF SetUpSoFar, SettingUp, BeforeShims, FlagTypes
<1>b. /\ inUse' \in [N!Kinds -> (1..attempts) \union {None}]
      /\ inUse'["storage"] = inUse["storage"]
      /\ \A k \in ThreadKinds :
           \/ inUse'[k] = inUse[k]
           \/ inUse'[k] = attempts /\ <<k, attempts>> \in running'
  BY <1>0, <1>a DEF FlagTypes, ThreadKinds, N!Kinds
<1>c. /\ running' \subseteq ThreadKinds \X (1..attempts) /\ running \subseteq running'
      /\ \A t \in running' : t \in running \/ (t[2] = attempts /\ inUse'[t[1]] = attempts)
  BY <1>0, <1>a DEF FlagTypes, ThreadKinds, N!Kinds
<1>1. FlagTypes'
  BY <1>0, <1>b, <1>c DEF FlagTypes, SettingUp, BeforeShims
<1>2. StackTypes' /\ SurfacesApart' /\ \A s \in N!SDKs : Wrapped(s) => Wrapped(s)'
  BY <1>0, <1>1, AsideFromSDKs DEF BeforeShims
<1>3. OfAnAttempt'
  BY <1>0, <1>a, <1>b, <1>c DEF OfAnAttempt, Kept, FlagTypes
<1>4. SetUpSoFar'
  BY <1>0, <1>2, <1>b DEF SetUpSoFar, SettingUp, BeforeShims, Up
<1>5. TakenDownSoFar' /\ Rested'
  BY <1>0 DEF TakenDownSoFar, Rested, SetUpSoFar, SettingUp, BeforeShims, TakingDown
<1>6. HookFits' /\ N!ContentPassesFloor'
  BY <1>0 DEF HookFits, N!ContentPassesFloor
<1> QED BY <1>1, <1>2, <1>3, <1>4, <1>5, <1>6

LEMMA IngestStarted ==
  ASSUME InstrumentGiven, InstrumentInv, N!StartIngest PROVE InstrumentInv'
<1> USE DEF InstrumentInv
<1>0. /\ doing \in Places /\ doing.pc = "ingest" /\ doing' \in Places
      /\ doing'.pc = "idle"
      /\ \/ /\ instrumented' = TRUE /\ failed' = failed
            /\ \/ UNCHANGED <<running, inUse>>
               \/ /\ running' = running \union {<<"ingest", attempts>>}
                  /\ inUse' = [inUse EXCEPT !["ingest"] = attempts]
         \/ /\ failed' = failed \union {attempts}
            /\ UNCHANGED <<instrumented, running, inUse>>
      /\ UNCHANGED <<attempts, captureMode, opened, hooks,
                     registry, enforcer, handler, sdk, shims, othersSaved, meddled, call,
                     contents>>
  <2>1. N!Idle \in Places /\ N!Idle.pc = "idle"
    BY DEF N!Idle, Places, Stations
  <2> QED BY <2>1, Raising
          DEF N!StartIngest, N!At, FlagTypes, N!Given, N!threadVars, N!gateVars,
              N!sdkVars, N!appVars
<1>a. /\ attempts \in 1..attempts /\ attempts \in 1..MaxAttempts /\ attempts \notin failed
      /\ ~instrumented
  BY <1>0 DEF SetUpSoFar, SettingUp, BeforeShims, FlagTypes
<1>b. /\ inUse' \in [N!Kinds -> (1..attempts) \union {None}]
      /\ inUse'["storage"] = inUse["storage"]
      /\ \A k \in ThreadKinds :
           \/ inUse'[k] = inUse[k]
           \/ inUse'[k] = attempts /\ <<k, attempts>> \in running'
  BY <1>0, <1>a DEF FlagTypes, ThreadKinds, N!Kinds
<1>c. /\ running' \subseteq ThreadKinds \X (1..attempts) /\ running \subseteq running'
      /\ \A t \in running' : t \in running \/ (t[2] = attempts /\ inUse'[t[1]] = attempts)
  BY <1>0, <1>a DEF FlagTypes, ThreadKinds, N!Kinds
<1>1. FlagTypes'
  <2>1. failed' \subseteq 1..attempts /\ instrumented' \in BOOLEAN
    BY <1>0, <1>a DEF FlagTypes
  <2> QED BY <1>0, <2>1, <1>b, <1>c DEF FlagTypes, SettingUp, BeforeShims
<1>2. StackTypes' /\ SurfacesApart' /\ \A s \in N!SDKs : Wrapped(s) => Wrapped(s)'
  BY <1>0, <1>1, AsideFromSDKs DEF BeforeShims
<1>3. OfAnAttempt'
  BY <1>0, <1>a, <1>b, <1>c DEF OfAnAttempt, Kept, FlagTypes
<1>4. SetUpSoFar'
  BY <1>0, <1>2, <1>a, <1>b DEF SetUpSoFar, SettingUp, BeforeShims, Up
<1>5. TakenDownSoFar' /\ Rested'
  <2>1. inUse["storage"] # None
    BY <1>0, <1>a DEF SetUpSoFar, SettingUp, BeforeShims, InstrumentGiven, N!OptionsAssumption
  <2> QED BY <1>0, <1>a, <1>b, <2>1
         DEF TakenDownSoFar, Rested, SetUpSoFar, SettingUp, BeforeShims, TakingDown
<1>6. HookFits' /\ N!ContentPassesFloor'
  BY <1>0 DEF HookFits, N!ContentPassesFloor
<1> QED BY <1>1, <1>2, <1>3, <1>4, <1>5, <1>6

LEMMA ThreadStopped ==
  ASSUME InstrumentGiven, InstrumentInv,
         NEW kind \in ThreadKinds, NEW pc \in Stations, NEW next \in Stations,
         N!StopThread(kind, pc, next),
         \/ kind = "ingest" /\ pc = "idle" /\ next = "stop_export"
         \/ kind = "exporter" /\ pc = "stop_export" /\ next = "stop_worker"
         \/ kind = "worker" /\ pc = "stop_worker" /\ next = "deactivate"
  PROVE  InstrumentInv'
<1> USE DEF InstrumentInv
<1>0. /\ doing \in Places /\ doing.pc = pc /\ doing' \in Places
      /\ doing'.pc = next /\ doing'.left = doing.left /\ doing'.options = doing.options
      /\ running' = running \ {<<kind, inUse[kind]>>}
      /\ inUse' = [inUse EXCEPT ![kind] = None]
      /\ UNCHANGED <<instrumented, attempts, failed, captureMode, opened, hooks,
                     registry, enforcer, handler, sdk, shims, othersSaved, meddled, call,
                     contents>>
  BY Going DEF N!StopThread, N!At, FlagTypes, N!gateVars, N!sdkVars, N!appVars
<1>a. None \notin 1..attempts
  BY DEF FlagTypes, InstrumentGiven, N!OptionsAssumption
<1>b. /\ inUse' \in [N!Kinds -> (1..attempts) \union {None}]
      /\ inUse'["storage"] = inUse["storage"] /\ inUse'[kind] = None
      /\ \A k \in ThreadKinds \ {kind} : inUse'[k] = inUse[k]
  BY <1>0 DEF FlagTypes, ThreadKinds, N!Kinds
<1>c. /\ running' \subseteq running
      /\ \A t \in running' : t[1] = kind => t[2] # inUse[kind]
      /\ \A t \in running : t \in running' \/ t[1] = kind
  BY <1>0 DEF FlagTypes, ThreadKinds
<1>1. FlagTypes'
  BY <1>0, <1>b, <1>c DEF FlagTypes, SettingUp, BeforeShims
<1>2. StackTypes' /\ SurfacesApart' /\ \A s \in N!SDKs : Wrapped(s) => Wrapped(s)'
  BY <1>0, <1>1, AsideFromSDKs DEF BeforeShims
<1>3. OfAnAttempt'
  <2>1. \A t \in running' : t[2] \in Kept' /\ (t[2] = attempts => inUse'[t[1]] = attempts)
    BY <1>0, <1>b, <1>c DEF OfAnAttempt, Kept, FlagTypes, ThreadKinds
  <2>2. \A k \in ThreadKinds : inUse'[k] # None => <<k, inUse'[k]>> \in running'
    BY <1>0, <1>b, <1>c DEF OfAnAttempt
  <2> QED BY <1>0, <1>b, <2>1, <2>2 DEF OfAnAttempt, Kept, ThreadKinds
<1>4. SetUpSoFar'
  BY <1>0, <1>2, <1>b DEF SetUpSoFar, SettingUp, BeforeShims, Up
<1>5. TakenDownSoFar' /\ Rested'
  BY <1>0, <1>b DEF TakenDownSoFar, Rested, SettingUp, BeforeShims, TakingDown, ThreadKinds
<1>6. HookFits' /\ N!ContentPassesFloor'
  BY <1>0 DEF HookFits, N!ContentPassesFloor
<1> QED BY <1>1, <1>2, <1>3, <1>4, <1>5, <1>6

LEMMA HandlerDeactivated ==
  ASSUME InstrumentInv, N!DeactivateHandler PROVE InstrumentInv'
<1> USE DEF InstrumentInv
<1>0. /\ doing \in Places /\ doing.pc = "deactivate" /\ doing' \in Places
      /\ doing'.pc = "unshim" /\ doing'.left = doing.left /\ doing'.options = doing.options
      /\ handler' = FALSE
      /\ UNCHANGED <<instrumented, attempts, failed, captureMode, opened, hooks, running,
                     inUse, registry, enforcer, sdk, shims, othersSaved, meddled, call,
                     contents>>
  <2>1. "unshim" \in Stations
    BY DEF Stations, TakingDown
  <2> QED BY <2>1, Going
          DEF N!DeactivateHandler, N!At, FlagTypes, N!threadVars, N!sdkVars, N!appVars
<1>1. FlagTypes'
  BY <1>0 DEF FlagTypes, SettingUp, BeforeShims
<1>2. StackTypes' /\ SurfacesApart' /\ \A s \in N!SDKs : Wrapped(s) => Wrapped(s)'
  BY <1>0, <1>1, AsideFromSDKs DEF BeforeShims
<1>3. OfAnAttempt'
  BY <1>0 DEF OfAnAttempt, Kept
<1>4. SetUpSoFar'
  BY <1>0, <1>2 DEF SetUpSoFar, SettingUp, BeforeShims, Up
<1>5. TakenDownSoFar' /\ Rested'
  BY <1>0 DEF TakenDownSoFar, Rested, SettingUp, BeforeShims, TakingDown
<1>6. HookFits' /\ N!ContentPassesFloor'
  BY <1>0 DEF HookFits, N!ContentPassesFloor
<1> QED BY <1>1, <1>2, <1>3, <1>4, <1>5, <1>6

LEMMA GatesCleared ==
  ASSUME InstrumentInv, N!ClearGates PROVE InstrumentInv'
<1> USE DEF InstrumentInv
<1>0. /\ doing \in Places /\ doing.pc = "unshim" /\ doing' \in Places /\ shims = <<>>
      /\ doing'.pc = "close" /\ doing'.left = doing.left /\ doing'.options = doing.options
      /\ registry' = <<>> /\ enforcer' = None
      /\ UNCHANGED <<instrumented, attempts, failed, captureMode, opened, hooks, running,
                     inUse, handler, sdk, shims, othersSaved, meddled, call, contents>>
  <2>1. "close" \in Stations
    BY DEF Stations, TakingDown
  <2> QED BY <2>1, Going
          DEF N!ClearGates, N!At, FlagTypes, N!threadVars, N!sdkVars, N!appVars
<1>1. FlagTypes'
  BY <1>0 DEF FlagTypes, SettingUp, BeforeShims
<1>2. StackTypes' /\ SurfacesApart' /\ \A s \in N!SDKs : Wrapped(s) => Wrapped(s)'
  BY <1>0, <1>1, AsideFromSDKs DEF BeforeShims
<1>3. OfAnAttempt'
  BY <1>0 DEF OfAnAttempt, Kept
<1>4. SetUpSoFar'
  BY <1>0, <1>2 DEF SetUpSoFar, SettingUp, BeforeShims, Up
<1>5. TakenDownSoFar' /\ Rested'
  BY <1>0 DEF TakenDownSoFar, Rested, SettingUp, BeforeShims, TakingDown
<1>6. HookFits' /\ N!ContentPassesFloor'
  BY <1>0 DEF HookFits, N!ContentPassesFloor
<1> QED BY <1>1, <1>2, <1>3, <1>4, <1>5, <1>6

LEMMA StorageClosed ==
  ASSUME InstrumentGiven, InstrumentInv, N!CloseStorage PROVE InstrumentInv'
<1> USE DEF InstrumentInv
<1>0. /\ doing.pc = "close" /\ doing' \in Places /\ doing'.pc = "idle"
      /\ opened' = opened \ {inUse["storage"]}
      /\ inUse' = [inUse EXCEPT !["storage"] = None]
      /\ captureMode' = "metadata" /\ instrumented' = FALSE
      /\ UNCHANGED <<attempts, failed, hooks, running, registry, enforcer, handler, sdk,
                     shims, othersSaved, meddled, call, contents>>
  <2>1. N!Idle \in Places /\ N!Idle.pc = "idle"
    BY DEF N!Idle, Places, Stations
  <2> QED BY <2>1 DEF N!CloseStorage, N!At, N!gateVars, N!sdkVars, N!appVars
<1>a. None \notin 1..attempts
  BY DEF FlagTypes, InstrumentGiven, N!OptionsAssumption
<1>b. /\ inUse' \in [N!Kinds -> (1..attempts) \union {None}]
      /\ inUse'["storage"] = None
      /\ \A k \in ThreadKinds : inUse'[k] = inUse[k] /\ inUse[k] = None
  BY <1>0 DEF FlagTypes, ThreadKinds, N!Kinds, TakenDownSoFar, TakingDown
<1>c. attempts \notin opened'
  BY <1>0 DEF OfAnAttempt
<1>1. FlagTypes'
  BY <1>0, <1>b DEF FlagTypes, SettingUp, BeforeShims
<1>2. StackTypes' /\ SurfacesApart' /\ \A s \in N!SDKs : Wrapped(s) => Wrapped(s)'
  BY <1>0, <1>1, AsideFromSDKs DEF BeforeShims
<1>3. OfAnAttempt'
  BY <1>0, <1>b, <1>c DEF OfAnAttempt, Kept, FlagTypes
<1>4. SetUpSoFar'
  BY <1>0 DEF SetUpSoFar, SettingUp, BeforeShims, Up
<1>5. TakenDownSoFar' /\ Rested'
  BY <1>0, <1>b DEF TakenDownSoFar, Rested, SettingUp, BeforeShims, TakingDown
<1>6. HookFits' /\ N!ContentPassesFloor'
  BY <1>0, <1>c DEF HookFits, N!ContentPassesFloor
<1> QED BY <1>1, <1>2, <1>3, <1>4, <1>5, <1>6

\* The floor comes last, and what it has seen is not a secret.
LEMMA FloorMasks ==
  ASSUME NEW body PROVE N!Hook(body, "floor") # "secret"
BY DEF N!Hook, N!Floor

LEMMA LatestOf ==
  ASSUME NEW n \in Nat, NEW s \in SUBSET (1..n), n \in s
  PROVE  N!Max(s) = n
<1>1. \A y \in s : n >= y
  OBVIOUS
<1>2. \A x \in s : (\A y \in s : x >= y) => x = n
  OBVIOUS
<1> QED BY <1>1, <1>2 DEF N!Max

\* The last of one hook or two has the last word.
LEMMA LastHook ==
  ASSUME NEW hs, NEW n \in {1, 2}, hs = (IF n = 1 THEN <<"floor">> ELSE <<hs[1], "floor">>)
  PROVE  N!Redact(hs, "secret") # "secret"
<1> DEFINE S == DOMAIN hs
           Fold(g) == [s \in SUBSET S |->
                         IF s = {} THEN "secret" ELSE N!Hook(g[s \ {N!Max(s)}], hs[N!Max(s)])]
           it == CHOOSE g : g = Fold(g)
<1>1. N!Redact(hs, "secret") = it[S]
  BY DEF N!Redact, N!FoldLeft, N!MapThenFoldSet
<1>2. S = 1..n /\ hs[n] = "floor"
  <2>1. CASE n = 1 BY <2>1
  <2>2. CASE n = 2
    <3>1. PICK a : a = hs[1] OBVIOUS
    <3>2. hs = <<a, "floor">> BY <2>2, <3>1
    <3> QED BY <2>2, <3>2
  <2> QED BY <2>1, <2>2
<1>3. \E g : g = Fold(g)
  <2> DEFINE h == N!Hook("secret", hs[1])
             G(s) == IF s = {} THEN "secret" ELSE IF s = {1} THEN h
                     ELSE IF s = {2} THEN N!Hook("secret", hs[2]) ELSE N!Hook(h, hs[2])
             g == [s \in SUBSET S |-> G(s)]
  <2>1. ASSUME NEW s \in SUBSET S
        PROVE  G(s) = IF s = {} THEN "secret" ELSE N!Hook(g[s \ {N!Max(s)}], hs[N!Max(s)])
    <3>1. CASE s = {} BY <3>1
    <3>2. CASE s = {1}
      <4>1. N!Max(s) = 1 BY <3>2, LatestOf
      <4>2. s \ {1} = {} BY <3>2
      <4> QED BY <3>2, <4>1, <4>2
    <3>3. CASE s = {2}
      <4>1. N!Max(s) = 2 BY <3>3, LatestOf
      <4>2. s \ {2} = {} /\ s # {1} /\ s # {} BY <3>3
      <4> QED BY <3>3, <4>1, <4>2
    <3>4. CASE s = {1, 2}
      <4>1. N!Max(s) = 2 BY <3>4, LatestOf
      <4>2. s \ {2} = {1} /\ {1} \in SUBSET S /\ s # {1} /\ s # {2} BY <1>2, <3>4
      <4> QED BY <3>4, <4>1, <4>2
    <3>5. s = {} \/ s = {1} \/ s = {2} \/ s = {1, 2}
      <4>1. s \subseteq {1, 2} BY <1>2
      <4>2. CASE 1 \in s /\ 2 \in s BY <4>1, <4>2
      <4>3. CASE 1 \in s /\ 2 \notin s BY <4>1, <4>3
      <4>4. CASE 1 \notin s /\ 2 \in s BY <4>1, <4>4
      <4>5. CASE 1 \notin s /\ 2 \notin s BY <4>1, <4>5
      <4> QED BY <4>2, <4>3, <4>4, <4>5
    <3> QED BY <3>1, <3>2, <3>3, <3>4, <3>5
  <2>2. g = Fold(g)
    BY <2>1
  <2> QED BY <2>2
<1>4. it = Fold(it)
  BY <1>3
<1>5. it[S] = N!Hook(it[S \ {N!Max(S)}], hs[N!Max(S)])
  <2> HIDE DEF it
  <2>1. S \in SUBSET S /\ S # {}
    BY <1>2
  <2>2. Fold(it)[S] = N!Hook(it[S \ {N!Max(S)}], hs[N!Max(S)])
    BY <2>1
  <2> QED BY <1>4, <2>2
<1>6. N!Max(S) = n
  BY <1>2, LatestOf
<1> QED BY <1>1, <1>2, <1>5, <1>6, FloorMasks

LEMMA ReplayMasked ==
  ASSUME NEW custom \in N!CustomHooks
  PROVE  N!Redact(N!ResolveHook("replay", custom), "secret") # "secret"
<1>1. CASE custom = "none"
  BY <1>1, LastHook DEF N!ResolveHook
<1>2. CASE custom # "none"
  <2>1. PICK hs : hs = <<custom, "floor">> OBVIOUS
  <2> QED BY <1>2, <2>1, LastHook DEF N!ResolveHook
<1> QED BY <1>1, <1>2

LEMMA AttemptBegun ==
  ASSUME InstrumentGiven, InstrumentInv, NEW o \in Options, N!Begin(o) PROVE InstrumentInv'
<1> USE DEF InstrumentInv
<1>0. /\ doing.pc = "idle" /\ ~instrumented /\ attempts < MaxAttempts
      /\ doing' \in Places /\ doing'.pc = "connect" /\ doing'.left = Patched
      /\ doing'.options = o
      /\ attempts' = attempts + 1
      /\ captureMode' \in {"metadata", "replay"}
      /\ UNCHANGED <<instrumented, failed, opened, hooks, running, inUse, registry, enforcer,
                     handler, sdk, shims, othersSaved, meddled, call, contents>>
  <2>1. Patched \in Seq(N!SDKs) /\ "connect" \in Stations
    BY PatchedIs DEF Stations, SettingUp, BeforeShims
  <2> QED BY <2>1 DEF N!Begin, N!At, Places, N!threadVars, N!gateVars, N!sdkVars, N!appVars
<1>a. attempts \in Nat /\ attempts' \in 1..MaxAttempts /\ 1..attempts \subseteq 1..attempts'
  BY <1>0 DEF FlagTypes, InstrumentGiven, N!OptionsAssumption
<1>b. None \notin 1..attempts
  BY DEF FlagTypes, InstrumentGiven, N!OptionsAssumption
<1>c. attempts \notin failed =>
        /\ \A k \in ThreadKinds : inUse[k] = None
        /\ inUse["storage"] = None /\ registry = <<>> /\ shims = <<>>
  BY <1>0 DEF Rested
<1>1. FlagTypes'
  <2>1. Seq(1..attempts) \subseteq Seq(1..attempts')
    BY <1>a
  <2>2. registry' \in Seq(1..attempts')
    BY <1>0, <2>1 DEF FlagTypes
  <2>3. /\ failed' \subseteq 1..attempts' /\ opened' \subseteq 1..attempts'
        /\ running' \subseteq ThreadKinds \X (1..attempts')
    BY <1>0, <1>a DEF FlagTypes
  <2>4. inUse' \in [N!Kinds -> (1..attempts') \union {None}]
    BY <1>0, <1>a DEF FlagTypes
  <2>5. attempts' \in 0..MaxAttempts
    BY <1>a
  <2> QED BY <1>0, <2>2, <2>3, <2>4, <2>5 DEF FlagTypes, SettingUp, BeforeShims
<1>2. StackTypes'
  <2>1. Patching <= Patching'
    BY <1>0, <1>a DEF Patching, BeforeShims
  <2> QED BY <1>0, <1>1, <2>1, LayersStay
<1>3. OfAnAttempt'
  <2>1. opened' \subseteq Kept' /\ attempts' \notin opened'
    BY <1>0, <1>a, <1>b, <1>c DEF OfAnAttempt, Kept, FlagTypes
  <2>2. \A t \in running' : t[2] \in Kept' /\ t[2] # attempts'
    <3> SUFFICES ASSUME NEW t \in running PROVE t[2] \in failed /\ t[2] # attempts'
      BY <1>0 DEF Kept
    <3>1. t[1] \in ThreadKinds /\ t[2] \in 1..attempts
      BY DEF FlagTypes
    <3>2. t[2] \in Kept /\ (t[2] = attempts => inUse[t[1]] = attempts)
      BY DEF OfAnAttempt
    <3> QED BY <1>0, <1>a, <1>b, <1>c, <3>1, <3>2 DEF Kept
  <2>3. \A i \in DOMAIN registry' : registry'[i] \in Kept'
    BY <1>0, <1>c DEF OfAnAttempt, Kept
  <2> QED BY <1>0, <2>1, <2>2, <2>3 DEF OfAnAttempt
<1>4. SurfacesApart'
  <2> SUFFICES ASSUME NEW s \in N!SDKs \ meddled
               PROVE  othersSaved[s] = None /\ (Bare(s) \/ Wrapped(s))'
    BY <1>0 DEF SurfacesApart
  <2>1. CASE Bare(s)
    BY <1>0, <2>1 DEF SurfacesApart, Bare, WrappedBy
  <2>2. CASE Wrapped(s)
    <3>1. attempts \in failed
      BY <1>c, <2>2 DEF Wrapped, WrappedBy
    <3>2. \A n \in Kept : n \in Kept'
      BY <1>0, <3>1 DEF Kept
    <3> QED BY <1>0, <2>2, <3>2 DEF SurfacesApart, Wrapped, WrappedBy
  <2> QED BY <2>1, <2>2 DEF SurfacesApart
<1>5. SetUpSoFar'
  <2>1. attempts' \notin failed' /\ attempts' \notin opened'
    BY <1>0, <1>a DEF FlagTypes
  <2> QED BY <1>0, <1>a, <2>1 DEF SetUpSoFar, SettingUp, BeforeShims, Up
<1>6. TakenDownSoFar' /\ Rested'
  BY <1>0 DEF TakenDownSoFar, Rested, SettingUp, BeforeShims, TakingDown
<1>7. HookFits' /\ N!ContentPassesFloor'
  BY <1>0, <1>a DEF HookFits, N!ContentPassesFloor, FlagTypes
<1> QED BY <1>1, <1>2, <1>3, <1>4, <1>5, <1>6, <1>7

\* What is left alone when the SDKs change hands.
LEMMA AsideFromFlags ==
  ASSUME InstrumentInv, doing'.pc = doing.pc,
         UNCHANGED <<instrumented, attempts, failed, captureMode, opened, hooks, running, inUse,
                     registry, enforcer, handler>>
  PROVE  OfAnAttempt' /\ HookFits'
BY DEF InstrumentInv, OfAnAttempt, HookFits, Kept

LEMMA ShimInstalled ==
  ASSUME InstrumentGiven, InstrumentInv, NEW s \in N!SDKs, N!InstallShim(s) PROVE InstrumentInv'
<1> USE DEF InstrumentInv
<1> DEFINE shim == [surface |-> s, original |-> sdk[s], wrapped |-> ~N!Marked(s)]
<1>0. /\ doing.pc = "shims" /\ doing.left # <<>> /\ s = Head(doing.left)
      /\ doing' \in Places /\ doing'.pc = "shims" /\ doing'.left = Tail(doing.left)
      /\ doing'.options = doing.options
      /\ shims' = Append(shims, shim)
      /\ sdk' = IF N!Marked(s) THEN sdk ELSE [sdk EXCEPT ![s] = Append(@, attempts)]
      /\ UNCHANGED <<instrumented, attempts, failed, captureMode, opened, hooks, running,
                     inUse, registry, enforcer, handler, othersSaved, meddled, call, contents>>
  <2>1. doing = [pc |-> doing.pc, left |-> doing.left, options |-> doing.options]
    BY DEF FlagTypes, Places
  <2>2. doing' = [pc |-> doing.pc, left |-> Tail(doing.left), options |-> doing.options]
    BY <2>1 DEF N!InstallShim
  <2>3. doing.left # <<>> /\ Tail(doing.left) \in Seq(N!SDKs)
    BY DEF N!InstallShim, FlagTypes, Places
  <2>4. doing' \in Places
    BY <2>2, <2>3 DEF FlagTypes, Places
  <2> QED BY <2>2, <2>4 DEF N!InstallShim, N!At, N!threadVars, N!gateVars, N!appVars
<1>a. attempts \in 1..attempts /\ attempts \in 1..MaxAttempts
  BY <1>0 DEF SetUpSoFar, SettingUp, BeforeShims, FlagTypes
<1>1. FlagTypes'
  BY <1>0 DEF FlagTypes, SettingUp, BeforeShims
<1>b. Layers' = Layers /\ attempts \in Layers /\ Shims' = Shims /\ AppCall' = AppCall
  BY <1>0, <1>a DEF Layers, Patching, BeforeShims, Shims, AppCall
<1>c. /\ DOMAIN shims' = 1..(Len(shims) + 1)
      /\ DOMAIN shims = 1..Len(shims) /\ Len(shims) \in Nat
      /\ \A i \in DOMAIN shims : shims'[i] = shims[i]
      /\ shims'[Len(shims) + 1] = shim
  BY <1>0 DEF StackTypes
<1>2. StackTypes'
  <2>1. sdk' \in [N!SDKs -> Seq(Layers)]
    BY <1>0, <1>b DEF StackTypes
  <2>2. shim \in Shims
    BY DEF StackTypes, Shims, N!Marked
  <2> HIDE DEF shim
  <2>3. shims' \in Seq(Shims)
    BY <1>0, <2>2 DEF StackTypes
  <2> QED BY <1>0, <1>b, <2>1, <2>3 DEF StackTypes
<1>3. \A u \in N!SDKs \ meddled : u # s => Bare(u)' = Bare(u) /\ Wrapped(u)' = Wrapped(u)
  <2> SUFFICES ASSUME NEW u \in N!SDKs \ meddled, u # s
               PROVE  Bare(u)' = Bare(u) /\ Wrapped(u)' = Wrapped(u)
    OBVIOUS
  <2>1. sdk'[u] = sdk[u]
    BY <1>0 DEF StackTypes
  <2>2. /\ \A i \in DOMAIN shims : i \in DOMAIN shims' /\ shims'[i] = shims[i]
        /\ \A i \in DOMAIN shims' : i \in DOMAIN shims \/ shims'[i].surface # u
    BY <1>c
  <2>3. Kept' = Kept
    BY <1>0 DEF Kept
  <2> QED BY <2>1, <2>2, <2>3 DEF Bare, Wrapped, WrappedBy
<1>4. s \notin meddled => Wrapped(s)'
  <2> SUFFICES ASSUME s \notin meddled PROVE Wrapped(s)'
    OBVIOUS
  <2>1. CASE Bare(s)
    <3>1. ~N!Marked(s)
      BY <2>1 DEF Bare, N!Marked, N!Ours
    <3>2. sdk'[s] = <<attempts>> /\ shim.wrapped /\ shim.original = <<>> /\ shim.surface = s
      <4>1. sdk' = [sdk EXCEPT ![s] = Append(@, attempts)] /\ sdk[s] = <<>>
        BY <1>0, <2>1, <3>1 DEF Bare
      <4>2. sdk'[s] = Append(<<>>, attempts)
        BY <4>1 DEF StackTypes
      <4>3. Append(<<>>, attempts) = <<attempts>>
        OBVIOUS
      <4> QED BY <3>1, <4>1, <4>2, <4>3
    <3>3. attempts \in Kept'
      BY <1>0 DEF Kept
    <3>4. PICK k : k = Len(shims) + 1
      OBVIOUS
    <3>5. k \in DOMAIN shims' /\ shims'[k] = shim
      BY <1>c, <3>4
    <3>6. \A i \in DOMAIN shims' : WrappedBy(s, i)' => i = k
      BY <1>c, <2>1, <3>4 DEF Bare, WrappedBy
    <3> HIDE DEF shim
    <3>7. WrappedBy(s, k)' /\ shims'[k].original = <<>>
      BY <3>2, <3>5 DEF WrappedBy
    <3> QED BY <3>2, <3>3, <3>5, <3>6, <3>7 DEF Wrapped
  <2>2. CASE Wrapped(s)
    <3>1. PICK n \in Kept : sdk[s] = <<n>>
      BY <2>2 DEF Wrapped
    <3>2. n \in 1..MaxAttempts
      <4>1. n \in failed \/ n = attempts BY <3>1 DEF Kept
      <4>2. failed \subseteq 1..attempts /\ MaxAttempts \in Nat
        BY DEF FlagTypes, InstrumentGiven, N!OptionsAssumption
      <4>3. attempts \in Nat /\ attempts <= MaxAttempts BY <1>a, <4>2
      <4>4. CASE n \in failed
        <5>1. n \in 1..attempts BY <4>2, <4>4
        <5> QED BY <4>2, <4>3, <5>1
      <4> QED BY <1>a, <4>1, <4>4
    <3>3. N!Marked(s)
      BY <3>1, <3>2 DEF N!Marked, N!Ours, N!Plain
    <3>4. sdk' = sdk /\ ~shim.wrapped /\ Kept' = Kept
      BY <1>0, <3>3 DEF Kept
    <3>5. /\ \A i \in DOMAIN shims : i \in DOMAIN shims' /\ shims'[i] = shims[i]
          /\ \A i \in DOMAIN shims' : i \in DOMAIN shims \/ ~shims'[i].wrapped
      BY <1>c, <3>4
    <3> QED BY <2>2, <3>4, <3>5 DEF Wrapped, WrappedBy
  <2> QED BY <2>1, <2>2 DEF SurfacesApart
<1>5. SurfacesApart'
  BY <1>0, <1>3, <1>4 DEF SurfacesApart
<1>6. SetUpSoFar'
  <2>1. \A u \in N!SDKs \ meddled :
          Wrapped(u)' \/ \E i \in DOMAIN Tail(doing.left) : Tail(doing.left)[i] = u
    <3> SUFFICES ASSUME NEW u \in N!SDKs \ meddled, u # s
                 PROVE Wrapped(u)' \/ \E i \in DOMAIN Tail(doing.left) : Tail(doing.left)[i] = u
      BY <1>4
    <3>1. CASE Wrapped(u) BY <1>3, <3>1
    <3>2. CASE \E i \in DOMAIN doing.left : doing.left[i] = u
      <4>1. PICK i \in DOMAIN doing.left : doing.left[i] = u BY <3>2
      <4>2. doing.left \in Seq(N!SDKs) BY DEF FlagTypes, Places
      <4>3. i # 1 BY <1>0, <4>1
      <4>4. i - 1 \in DOMAIN Tail(doing.left) /\ Tail(doing.left)[i - 1] = u
        BY <1>0, <4>1, <4>2, <4>3
      <4> QED BY <4>4
    <3> QED BY <1>0, <3>1, <3>2 DEF SetUpSoFar
  <2> QED BY <1>0, <2>1 DEF SetUpSoFar, SettingUp, BeforeShims, Up
<1>7. TakenDownSoFar' /\ Rested'
  BY <1>0 DEF TakenDownSoFar, Rested, SettingUp, BeforeShims, TakingDown
<1>8. OfAnAttempt' /\ HookFits' /\ N!ContentPassesFloor'
  BY <1>0, AsideFromFlags DEF N!ContentPassesFloor
<1> QED BY <1>1, <1>2, <1>5, <1>6, <1>7, <1>8

LEMMA ShimUninstalled ==
  ASSUME InstrumentInv, N!Uninstall PROVE InstrumentInv'
<1> USE DEF InstrumentInv
<1> DEFINE n == Len(shims)
           shim == shims[n]
<1>0. /\ doing.pc = "unshim" /\ shims # <<>>
      /\ shims' = SubSeq(shims, 1, n - 1)
      /\ sdk' = IF shim.wrapped THEN [sdk EXCEPT ![shim.surface] = shim.original] ELSE sdk
      /\ UNCHANGED <<doing, instrumented, attempts, failed, captureMode, opened, hooks, running,
                     inUse, registry, enforcer, handler, othersSaved, meddled, call, contents>>
  BY DEF N!Uninstall, N!At, N!threadVars, N!gateVars, N!appVars
<1>a. /\ shims \in Seq(Shims) /\ n \in Nat \ {0} /\ n \in DOMAIN shims /\ DOMAIN shims = 1..n
      /\ shim \in Shims
  BY <1>0 DEF StackTypes
<1>b. /\ DOMAIN shims' = 1..(n - 1) /\ shims' \in Seq(Shims)
      /\ \A i \in 1..(n - 1) : i \in DOMAIN shims /\ shims'[i] = shims[i]
  BY <1>0, <1>a
<1> HIDE DEF n
<1>1. FlagTypes'
  BY <1>0 DEF FlagTypes, SettingUp, BeforeShims
<1>2. StackTypes'
  <2>1. Layers' = Layers /\ Shims' = Shims /\ AppCall' = AppCall
    BY <1>0 DEF Layers, Patching, BeforeShims, Shims, AppCall
  <2>2. sdk' \in [N!SDKs -> Seq(Layers)]
    BY <1>0, <1>a DEF StackTypes, Shims
  <2> QED BY <1>0, <1>b, <2>1, <2>2 DEF StackTypes
<1>3. SurfacesApart'
  <2> SUFFICES ASSUME NEW u \in N!SDKs \ meddled PROVE (Bare(u) \/ Wrapped(u))'
    BY <1>0 DEF SurfacesApart
  <2>1. Kept' = Kept
    BY <1>0 DEF Kept
  <2>2. CASE WrappedBy(u, n)
    <3>1. Wrapped(u)
      BY <1>a, <2>2 DEF SurfacesApart, Bare
    <3>2. shim.original = <<>> /\ shim.surface = u /\ shim.wrapped
      BY <1>a, <2>2, <3>1 DEF Wrapped, WrappedBy
    <3>3. sdk'[u] = <<>>
      BY <1>0, <3>2 DEF StackTypes
    <3>4. \A i \in 1..(n - 1) : ~WrappedBy(u, i)
      BY <1>a, <2>2, <3>1 DEF Wrapped
    <3> QED BY <1>b, <3>3, <3>4 DEF Bare, WrappedBy
  <2>3. CASE ~WrappedBy(u, n)
    <3>1. sdk'[u] = sdk[u]
      BY <1>0, <1>a, <2>3 DEF StackTypes, WrappedBy, Shims
    <3>2. \A i \in DOMAIN shims : WrappedBy(u, i) => i \in 1..(n - 1)
      BY <1>a, <2>3
    <3>3. \A i \in 1..(n - 1) : WrappedBy(u, i)' = WrappedBy(u, i)
      BY <1>b DEF WrappedBy
    <3>4. Bare(u) => Bare(u)'
      BY <1>b, <3>1, <3>3 DEF Bare
    <3>5. Wrapped(u) => Wrapped(u)'
      BY <1>b, <2>1, <3>1, <3>2, <3>3 DEF Wrapped
    <3> QED BY <3>4, <3>5 DEF SurfacesApart
  <2> QED BY <2>2, <2>3
<1>4. SetUpSoFar'
  BY <1>0 DEF SetUpSoFar, SettingUp, BeforeShims, Up
<1>5. TakenDownSoFar' /\ Rested'
  BY <1>0 DEF TakenDownSoFar, Rested
<1>6. OfAnAttempt' /\ HookFits' /\ N!ContentPassesFloor'
  BY <1>0, AsideFromFlags DEF N!ContentPassesFloor
<1> QED BY <1>1, <1>2, <1>3, <1>4, <1>5, <1>6

LEMMA SurfacePatched ==
  ASSUME InstrumentInv, NEW s \in N!SDKs,
         N!PutBack(s) \/ \E other \in {N!Wraps, N!Plain} : N!PatchOver(s, other)
  PROVE  InstrumentInv'
<1> USE DEF InstrumentInv
<1>0. /\ \/ /\ othersSaved[s] # None /\ meddled' = meddled
            /\ sdk' = [sdk EXCEPT ![s] = othersSaved[s]]
            /\ othersSaved' = [othersSaved EXCEPT ![s] = None]
         \/ /\ meddled' = meddled \union {s}
            /\ \E other \in {N!Wraps, N!Plain} : sdk' = [sdk EXCEPT ![s] = Append(@, other)]
            /\ othersSaved' = [othersSaved EXCEPT ![s] = sdk[s]]
      /\ UNCHANGED <<doing, instrumented, attempts, failed, captureMode, opened, hooks, running,
                     inUse, registry, enforcer, handler, shims, call, contents>>
  BY DEF N!PutBack, N!PatchOver, N!threadVars, N!gateVars
<1>1. FlagTypes'
  BY <1>0 DEF FlagTypes
<1>2. StackTypes'
  <2>1. Layers' = Layers /\ Shims' = Shims /\ AppCall' = AppCall
    BY <1>0 DEF Layers, Patching, Shims, AppCall
  <2>2. /\ sdk[s] \in Seq(Layers)
        /\ \A other \in {N!Wraps, N!Plain} : Append(sdk[s], other) \in Seq(Layers)
    BY DEF StackTypes, Layers
  <2>3. othersSaved[s] # None => othersSaved[s] \in Seq(Layers)
    BY DEF StackTypes
  <2>4. sdk' \in [N!SDKs -> Seq(Layers)]
    BY <1>0, <2>2, <2>3 DEF StackTypes
  <2>5. othersSaved' \in [N!SDKs -> Seq(Layers) \union {None}]
    BY <1>0, <2>2 DEF StackTypes
  <2> QED BY <1>0, <2>1, <2>4, <2>5 DEF StackTypes
<1>3. s \in meddled' /\ meddled \subseteq meddled'
  BY <1>0 DEF SurfacesApart
<1>4. \A u \in N!SDKs \ meddled' :
        othersSaved'[u] = othersSaved[u] /\ Bare(u)' = Bare(u) /\ Wrapped(u)' = Wrapped(u)
  <2> SUFFICES ASSUME NEW u \in N!SDKs, u # s
               PROVE  /\ othersSaved'[u] = othersSaved[u]
                      /\ Bare(u)' = Bare(u) /\ Wrapped(u)' = Wrapped(u)
    BY <1>3
  <2>1. sdk'[u] = sdk[u] /\ othersSaved'[u] = othersSaved[u]
    BY <1>0 DEF StackTypes
  <2> QED BY <1>0, <2>1 DEF Bare, Wrapped, WrappedBy, Kept
<1>5. SurfacesApart'
  BY <1>3, <1>4 DEF SurfacesApart
<1>6. SetUpSoFar'
  BY <1>0, <1>3, <1>4 DEF SetUpSoFar, Up
<1>7. TakenDownSoFar' /\ Rested'
  BY <1>0 DEF TakenDownSoFar, Rested
<1>8. OfAnAttempt' /\ HookFits' /\ N!ContentPassesFloor'
  BY <1>0, AsideFromFlags DEF N!ContentPassesFloor
<1> QED BY <1>1, <1>2, <1>5, <1>6, <1>7, <1>8

\* Calls of the application change nothing but what is stored.
LEMMA CallsAside ==
  ASSUME InstrumentInv, call' \in [AppCalls -> AppCall \union {None}],
         UNCHANGED <<doing, instrumented, attempts, failed, captureMode, opened, hooks, running,
                     inUse, registry, enforcer, handler, sdk, shims, othersSaved, meddled>>
  PROVE  /\ FlagTypes' /\ StackTypes' /\ OfAnAttempt' /\ SurfacesApart' /\ SetUpSoFar'
         /\ TakenDownSoFar' /\ Rested' /\ HookFits'
<1> USE DEF InstrumentInv
<1>1. FlagTypes' /\ TakenDownSoFar' /\ Rested' /\ OfAnAttempt' /\ HookFits'
  BY AsideFromFlags DEF FlagTypes, TakenDownSoFar, Rested
<1>2. StackTypes'
  <2>1. Layers' = Layers /\ Shims' = Shims /\ AppCall' = AppCall
    BY DEF Layers, Patching, Shims, AppCall
  <2> QED BY <2>1 DEF StackTypes
<1>3. SurfacesApart' /\ SetUpSoFar'
  BY DEF SurfacesApart, SetUpSoFar, Up, Bare, Wrapped, WrappedBy, Kept
<1> QED BY <1>1, <1>2, <1>3

LEMMA CallDispatched ==
  ASSUME InstrumentInv, NEW c \in AppCalls, NEW s \in N!SDKs, N!Dispatch(c, s)
  PROVE  InstrumentInv'
<1>1. [surface |-> s, stack |-> sdk[s], over |-> FALSE] \in AppCall
  BY DEF InstrumentInv, StackTypes, AppCall
<1>2. call' \in [AppCalls -> AppCall \union {None}]
  BY <1>1 DEF InstrumentInv, StackTypes, N!Dispatch
<1> QED BY <1>2, CallsAside
        DEF InstrumentInv, N!Dispatch, N!threadVars, N!gateVars, N!sdkVars, N!ContentPassesFloor

LEMMA CallAnswered ==
  ASSUME InstrumentInv, NEW c \in AppCalls, N!Answer(c) PROVE InstrumentInv'
<1> USE DEF InstrumentInv
<1>1. call[c] \in AppCall
  BY DEF StackTypes, N!Answer
<1>2. [call[c] EXCEPT !.over = TRUE] \in AppCall
  BY <1>1 DEF AppCall
<1>3. call' \in [AppCalls -> AppCall \union {None}]
  BY <1>2 DEF StackTypes, N!Answer
<1>4. /\ FlagTypes' /\ StackTypes' /\ OfAnAttempt' /\ SurfacesApart' /\ SetUpSoFar'
      /\ TakenDownSoFar' /\ Rested' /\ HookFits'
  BY <1>3, CallsAside DEF N!Answer, N!threadVars, N!gateVars, N!sdkVars
<1>5. ASSUME NEW r \in contents' \ contents, r.content = "secret" PROVE r.storage \in failed
  <2>1. PICK n \in N!Ours(call[c].stack) :
          /\ n \in opened /\ r.storage = n
          /\ r.content = IF captureMode = "replay" THEN N!Redact(hooks[n], "secret") ELSE "none"
    BY <1>5 DEF N!Answer
  <2>2. SUFFICES ASSUME n \notin failed PROVE FALSE
    BY <2>1
  <2>3. n = attempts
    BY <2>1, <2>2 DEF OfAnAttempt, Kept
  <2>4. doing.pc # "hook"
    <3>1. n \in Layers /\ n \in 1..MaxAttempts
      BY <1>1, <2>1 DEF N!Ours, AppCall
    <3>2. attempts <= Patching
      BY <2>3, <3>1 DEF Layers, N!Wraps, N!Plain, FlagTypes
    <3> QED BY <3>2 DEF Patching, BeforeShims, FlagTypes
  <2>5. PICK custom \in N!CustomHooks : hooks[n] = N!ResolveHook(captureMode, custom)
    BY <2>1, <2>2, <2>3, <2>4 DEF HookFits
  <2>6. captureMode = "replay" /\ N!Redact(hooks[n], "secret") = "secret"
    BY <1>5, <2>1
  <2> QED BY <2>5, <2>6, ReplayMasked
<1>6. N!ContentPassesFloor'
  BY <1>5 DEF N!ContentPassesFloor, N!Answer
<1> QED BY <1>4, <1>6

LEMMA InstrumentInitial == ASSUME InstrumentGiven, N!Init PROVE InstrumentInv
<1> USE DEF N!Init
<1>1. doing \in Places /\ doing.pc = "idle"
  BY DEF N!Idle, Places, Stations
<1>2. FlagTypes
  <2>1. attempts \in 0..MaxAttempts /\ attempts = 0
    BY DEF InstrumentGiven, N!OptionsAssumption
  <2>2. /\ failed \subseteq 1..attempts /\ opened \subseteq 1..attempts
        /\ running \subseteq ThreadKinds \X (1..attempts)
    OBVIOUS
  <2>3. inUse \in [N!Kinds -> (1..attempts) \union {None}] /\ registry \in Seq(1..attempts)
    OBVIOUS
  <2>4. DOMAIN hooks = 1..MaxAttempts
    OBVIOUS
  <2> QED BY <1>1, <2>1, <2>2, <2>3, <2>4 DEF FlagTypes, SettingUp, BeforeShims
<1>3. StackTypes
  BY DEF StackTypes
<1>4. OfAnAttempt /\ SurfacesApart
  BY DEF OfAnAttempt, SurfacesApart, Bare, N!Kinds, ThreadKinds
<1>5. SetUpSoFar /\ TakenDownSoFar /\ Rested
  BY <1>1 DEF SetUpSoFar, TakenDownSoFar, Rested, SettingUp, TakingDown, BeforeShims, Up,
              N!Kinds, ThreadKinds
<1>6. HookFits /\ N!ContentPassesFloor
  BY DEF HookFits, N!ContentPassesFloor
<1> QED BY <1>2, <1>3, <1>4, <1>5, <1>6 DEF InstrumentInv

LEMMA InstrumentationStep ==
  ASSUME InstrumentGiven, InstrumentInv, [N!Next]_N!vars PROVE InstrumentInv'
<1>1. CASE UNCHANGED N!vars
  <2>1. N!ContentPassesFloor'
    BY <1>1 DEF InstrumentInv, N!ContentPassesFloor, N!vars, N!appVars
  <2>2. call' \in [AppCalls -> AppCall \union {None}]
    BY <1>1 DEF InstrumentInv, StackTypes, N!vars, N!appVars
  <2> QED BY <1>1, <2>1, <2>2, CallsAside
          DEF InstrumentInv, N!vars, N!appVars, N!threadVars, N!gateVars, N!sdkVars
<1>2. ASSUME NEW o \in Options, N!Begin(o) PROVE InstrumentInv'
  BY <1>2, AttemptBegun
<1>3. ASSUME N!Connect \/ N!SetHook \/ N!StartExport \/ N!RegisterPolicies \/ N!LoadContracts
      PROVE  InstrumentInv'
  BY <1>3, ConnectStep, HookStep, ExportStep, PoliciesRegistered, ContractsLoaded
<1>4. ASSUME N!ActivateHandler \/ N!StartWorker \/ N!StartIngest PROVE InstrumentInv'
  BY <1>4, HandlerActivated, WorkerStarted, IngestStarted
<1>5. ASSUME N!StopIngest \/ N!StopExport \/ N!StopWorker PROVE InstrumentInv'
  <2>1. /\ {"ingest", "exporter", "worker"} \subseteq ThreadKinds
        /\ {"idle", "stop_export", "stop_worker", "deactivate"} \subseteq Stations
    BY DEF ThreadKinds, Stations, TakingDown
  <2> QED BY <1>5, <2>1, ThreadStopped DEF N!StopIngest, N!StopExport, N!StopWorker
<1>6. ASSUME N!DeactivateHandler \/ N!Uninstall \/ N!ClearGates \/ N!CloseStorage
      PROVE  InstrumentInv'
  BY <1>6, HandlerDeactivated, ShimUninstalled, GatesCleared, StorageClosed
<1>7. ASSUME NEW s \in N!SDKs,
             \/ N!InstallShim(s) \/ N!PutBack(s)
             \/ \E other \in {N!Wraps, N!Plain} : N!PatchOver(s, other)
      PROVE  InstrumentInv'
  BY <1>7, ShimInstalled, SurfacePatched
<1>8. ASSUME NEW c \in AppCalls, N!Answer(c) \/ \E s \in N!SDKs : N!Dispatch(c, s)
      PROVE  InstrumentInv'
  BY <1>8, CallDispatched, CallAnswered
<1> QED BY <1>1, <1>2, <1>3, <1>4, <1>5, <1>6, <1>7, <1>8 DEF N!Next

LEMMA InstrumentInductive == ProcessSpec => []InstrumentInv
<1>1. ProcessInit => InstrumentInv
  BY InstrumentInitial, OptionsAssumption DEF ProcessInit, InstrumentGiven
<1>2. [ProcessNext]_processVars => [N!Next]_N!vars
  BY DEF ProcessNext, processVars, instrumentState, N!vars, N!threadVars, N!gateVars, N!sdkVars,
         N!appVars
<1>3. InstrumentInv /\ [ProcessNext]_processVars => InstrumentInv'
  BY <1>2, InstrumentationStep, OptionsAssumption DEF InstrumentGiven
<1> QED BY <1>1, <1>3, PTL DEF ProcessSpec

\* shutdown() is the "reverse of instrument" (_instrument.py:335-429): once it has ended,
\* what runs, is open or is over an SDK is of an attempt that raised and was tried
\* again, or of another library; for any options, SDKs, attempts and failures.
THEOREM ShutdownAlwaysLeavesNothing == ProcessSpec => []ShutdownLeavesNothing
<1>1. ASSUME InstrumentInv, N!AtRest PROVE N!ShutdownLeavesNothing
  <2> USE <1>1 DEF InstrumentInv
  <2>1. /\ doing.pc = "idle" /\ ~instrumented /\ inUse["storage"] = None
        /\ \A k \in ThreadKinds : inUse[k] = None
        /\ registry = <<>> /\ enforcer = None /\ ~handler /\ shims = <<>>
    BY DEF N!AtRest, N!At, Rested
  <2>2. None \notin 1..attempts
    BY OptionsAssumption DEF FlagTypes, N!OptionsAssumption
  <2>3. attempts \notin opened /\ opened \subseteq failed
    BY <2>1, <2>2 DEF OfAnAttempt, Kept, FlagTypes
  <2>4. \A t \in running : t[2] # attempts /\ t[2] \in failed
    <3> SUFFICES ASSUME NEW t \in running PROVE t[2] # attempts /\ t[2] \in failed
      OBVIOUS
    <3>1. t[1] \in ThreadKinds /\ t[2] \in 1..attempts
      BY DEF FlagTypes
    <3>2. t[2] \in Kept /\ (t[2] = attempts => inUse[t[1]] = attempts)
      BY DEF OfAnAttempt
    <3> QED BY <2>1, <2>2, <3>1, <3>2 DEF Kept
  <2>5. ASSUME NEW s \in N!SDKs, s \notin meddled PROVE N!Ours(sdk[s]) = {}
    <3>1. sdk[s] = <<>>
      BY <2>1, <2>5 DEF SurfacesApart, Bare, Wrapped
    <3> QED BY <3>1 DEF N!Ours
  <2> QED BY <2>1, <2>3, <2>4, <2>5 DEF N!ShutdownLeavesNothing
<1>2. InstrumentInv => ShutdownLeavesNothing
  BY <1>1 DEF ShutdownLeavesNothing, N!ShutdownLeavesNothing
<1> QED BY <1>2, InstrumentInductive, PTL

\* While a process is instrumented what instrument() set up is there, and every
\* surface no other library has touched has one wrapper, which records once in a storage
\* of this attempt or of one that raised (_instrument.py:149-322, _shim_install.py).
THEOREM InstrumentedAlwaysWhole == ProcessSpec => []InstrumentedIsWhole
<1>1. ASSUME InstrumentInv, Up PROVE N!InstrumentedIsWhole
  <2> USE <1>1 DEF InstrumentInv
  <2>1. /\ inUse["storage"] \in opened /\ enforcer = attempts /\ handler
        /\ attempts \in 1..MaxAttempts
        /\ \A s \in N!SDKs \ meddled : Wrapped(s)
    BY DEF SetUpSoFar, Up, SettingUp, BeforeShims
  <2>2. \A k \in N!Kinds \ {"storage"} : inUse[k] # None => <<k, inUse[k]>> \in running
    BY DEF OfAnAttempt, N!Kinds, ThreadKinds
  <2>3. Kept \subseteq 1..MaxAttempts
    <3>1. failed \subseteq 1..attempts /\ MaxAttempts \in Nat
      BY OptionsAssumption DEF FlagTypes, N!OptionsAssumption
    <3>2. 1..attempts \subseteq 1..MaxAttempts
      BY <2>1, <3>1
    <3> QED BY <2>1, <3>1, <3>2 DEF Kept
  <2>4. ASSUME NEW s \in N!SDKs \ meddled
        PROVE  \E n \in {attempts} \union failed : N!Ours(sdk[s]) = {n}
    <3>1. PICK n \in Kept : sdk[s] = <<n>>
      BY <2>1 DEF Wrapped
    <3>2. N!Ours(sdk[s]) = {n}
      BY <2>3, <3>1 DEF N!Ours
    <3> QED BY <3>1, <3>2 DEF Kept
  <2>5. \A n \in N!Ours(registry) : n = attempts \/ n \in failed
    BY DEF OfAnAttempt, Kept, N!Ours
  <2> QED BY <2>1, <2>2, <2>4, <2>5 DEF N!InstrumentedIsWhole
<1>2. InstrumentInv => InstrumentedIsWhole
  BY <1>1 DEF InstrumentedIsWhole, N!InstrumentedIsWhole, Up, N!At
<1> QED BY <1>2, InstrumentInductive, PTL

\* A hook "can mask more but never less than the floor" (_instrument.py:121-129,
\* storage/redaction.py:219-263), for any options, calls and interleavings: content
\* that has not been masked is in a storage that a failed attempt left only.
THEOREM ContentAlwaysPassesFloor == ProcessSpec => []ContentPassesFloor
<1>1. InstrumentInv => ContentPassesFloor
  BY DEF InstrumentInv, ContentPassesFloor
<1> QED BY <1>1, InstrumentInductive, PTL

-----------------------------------------------------------------------------
\* Embeddings.

EmbedContext == [depth : Nat, captured : BOOLEAN]
Entry == [kind : {"method", "task"}, context : EmbedContext]
Request == [client : {"raw", "other"}, task : BOOLEAN, method : Nat]
EmbedEvent == [layer : {"raw", "langchain"}, requests : SUBSET Nat]

EmbedTypes ==
  /\ context \in EmbedContext /\ open \in Seq(Entry)
  /\ asked \in Seq(Request) /\ events \subseteq EmbedEvent
  /\ methods \in Nat /\ (E!InMethod => methods # 0)
  /\ \A i \in DOMAIN asked : asked[i].method <= methods

\* Entry k is in a method, and the depth says so.
Under(k) == \E j \in DOMAIN open : j < k /\ open[j].kind = "method"
DepthsTell ==
  /\ context.depth # 0 <=> E!InMethod
  /\ \A k \in DOMAIN open : open[k].context.depth # 0 <=> Under(k)

\* The method under way looks at the signal in its own task: the one at work, or the
\* one in which the first of its tasks was forked.
Branch(k) ==
  /\ open[k].kind = "task" /\ Under(k)
  /\ \A j \in DOMAIN open : j < k /\ open[j].kind = "task" => ~Under(j)
SignalTells ==
  /\ E!InMethod /\ ~E!InTask => (context.captured <=> E!Signalled(methods))
  /\ \A k \in DOMAIN open : Branch(k) => (open[k].context.captured <=> E!Signalled(methods))

\* LangChain's events are of methods that are over and were not signalled.
Finished(m) == E!InMethod => m # methods
EventsTell ==
  \A e \in events :
    \/ /\ e.layer = "raw" /\ "raw" \in layers
       /\ \E i \in DOMAIN asked : asked[i].client = "raw" /\ e.requests = {i}
    \/ /\ e.layer = "langchain"
       /\ \E m \in 1..methods : e.requests = E!Asked(m) /\ Finished(m) /\ ~E!Signalled(m)

\* What the two layers have done with request i.
Told(i) == i \in lost \/ \E e \in events : i \in e.requests
RequestsTold ==
  \A i \in DOMAIN asked :
    /\ asked[i].client = "raw" /\ "raw" \in layers => Told(i)
    /\ asked[i].method # 0 /\ Finished(asked[i].method) /\ "langchain" \in layers =>
         Told(i) \/ i \in raised \/ E!Signalled(asked[i].method)

EmbedInv == EmbedTypes /\ DepthsTell /\ SignalTells /\ EventsTell /\ RequestsTold

\* A method or a task begins.
LEMMA EntryPushed ==
  ASSUME open \in Seq(Entry), NEW x \in Entry, open' = Append(open, x)
  PROVE  /\ open' \in Seq(Entry) /\ (E!InTask => E!InMethod)
         /\ \A k \in DOMAIN open' : (k \in DOMAIN open /\ open'[k] = open[k])
                                    \/ (k \notin DOMAIN open /\ open'[k] = x)
         /\ \A k \in DOMAIN open : (Under(k)' <=> Under(k)) /\ (Branch(k)' <=> Branch(k))
         /\ \A k \in DOMAIN open' \ DOMAIN open :
              /\ Under(k)' <=> E!InMethod
              /\ Branch(k)' <=> x.kind = "task" /\ E!InMethod /\ ~E!InTask
         /\ E!InMethod' <=> E!InMethod \/ x.kind = "method"
         /\ E!InTask' <=> E!InTask \/ (x.kind = "task" /\ E!InMethod)
<1>1. PICK o \in Seq(Entry) : o = Append(open, x)
  <2>1. Append(open, x) \in Seq(Entry) OBVIOUS
  <2> QED BY <2>1
<1>2. /\ Len(open) \in Nat /\ DOMAIN open = 1..Len(open) /\ DOMAIN o = 1..(Len(open) + 1)
      /\ \A k \in 1..Len(open) : o[k] = open[k]
      /\ o[Len(open) + 1] = x
  BY <1>1
<1>3. /\ \A k \in DOMAIN open : k \in DOMAIN o /\ o[k] = open[k] /\ k < Len(open) + 1
      /\ \A k \in DOMAIN o : k \in DOMAIN open \/ k = Len(open) + 1
      /\ Len(open) + 1 \notin DOMAIN open /\ Len(open) + 1 \in DOMAIN o
      /\ \A j \in DOMAIN o, k \in DOMAIN open : j < k => j \in DOMAIN open
  BY <1>2
<1>0. PICK n : n = Len(open) + 1 OBVIOUS
<1>4. /\ \A k \in DOMAIN open : k \in DOMAIN o /\ o[k] = open[k] /\ k < n
      /\ \A k \in DOMAIN o : k \in DOMAIN open \/ k = n
      /\ n \notin DOMAIN open /\ n \in DOMAIN o /\ o[n] = x
      /\ \A j \in DOMAIN o, k \in DOMAIN open : j < k => j \in DOMAIN open
      /\ \A j \in DOMAIN o : j < n => j \in DOMAIN open
      /\ open' = o
  BY <1>0, <1>1, <1>2, <1>3
<1>5. \A k \in DOMAIN open : Under(k)' <=> Under(k) BY <1>4 DEF Under
<1>6. Under(n)' <=> E!InMethod BY <1>4 DEF Under, E!InMethod
<1>7. /\ E!InMethod' <=> E!InMethod \/ x.kind = "method"
      /\ E!InTask <=> \E k \in DOMAIN open : open[k].kind = "task" /\ Under(k)
      /\ E!InTask' <=> \E k \in DOMAIN o : o[k].kind = "task" /\ Under(k)'
  BY <1>4 DEF E!InMethod, E!InTask, Under
<1>8. E!InTask' <=> E!InTask \/ (x.kind = "task" /\ E!InMethod)
  BY <1>4, <1>5, <1>6, <1>7
<1>9. \A k \in DOMAIN open : Branch(k)' <=> Branch(k) BY <1>4, <1>5 DEF Branch
<1>10. Branch(n)' <=> x.kind = "task" /\ E!InMethod /\ ~E!InTask
  BY <1>4, <1>5, <1>6, <1>7 DEF Branch
<1>11. E!InTask => E!InMethod BY DEF E!InTask, E!InMethod
<1>12. \A k \in DOMAIN open' : k \in DOMAIN open \/ k = n BY <1>4
<1>13. open' \in Seq(Entry) BY <1>4
<1> QED BY <1>4, <1>5, <1>6, <1>7, <1>8, <1>9, <1>10, <1>11, <1>12, <1>13

\* The innermost one ends.
LEMMA EntryPopped ==
  ASSUME open \in Seq(Entry), open # <<>>, open' = E!Front(open)
  PROVE  \E n \in DOMAIN open :
         /\ open[n] \in Entry /\ open[n] = E!Last(open)
         /\ open' \in Seq(Entry)
         /\ \A k \in DOMAIN open' : k \in DOMAIN open /\ open'[k] = open[k] /\ k # n
         /\ \A k \in DOMAIN open' : (Under(k)' <=> Under(k)) /\ (Branch(k)' <=> Branch(k))
         /\ E!InMethod' <=> Under(n)
         /\ E!InMethod <=> Under(n) \/ open[n].kind = "method"
         /\ E!InTask <=> E!InTask' \/ (open[n].kind = "task" /\ Under(n))
         /\ Branch(n) <=> open[n].kind = "task" /\ Under(n) /\ ~E!InTask'
         /\ E!InTask' => E!InMethod'
<1>1. PICK o \in Seq(Entry) : o = SubSeq(open, 1, Len(open) - 1)
  <2>1. SubSeq(open, 1, Len(open) - 1) \in Seq(Entry) OBVIOUS
  <2> QED BY <2>1
<1>2. /\ Len(open) \in Nat \ {0} /\ DOMAIN open = 1..Len(open)
      /\ DOMAIN o = 1..(Len(open) - 1)
      /\ \A k \in 1..(Len(open) - 1) : o[k] = open[k]
  BY <1>1
<1> DEFINE n == Len(open)
<1>3. /\ n \in DOMAIN open /\ open[n] = E!Last(open) /\ open' = o
      /\ \A k \in DOMAIN o : k \in DOMAIN open /\ o[k] = open[k] /\ k # n /\ k < n
      /\ \A k \in DOMAIN open : k \in DOMAIN o \/ k = n
      /\ \A k \in DOMAIN open : ~(n < k) /\ ~(k < k)
      /\ \A j \in DOMAIN open, k \in DOMAIN o : j < k => j \in DOMAIN o
  BY <1>1, <1>2 DEF E!Last, E!Front
<1> HIDE DEF n
<1>4. open[n] \in Entry BY <1>3
<1>5. \A k \in DOMAIN o : Under(k)' <=> Under(k) BY <1>3 DEF Under
<1>6. E!InMethod' <=> Under(n) BY <1>3 DEF Under, E!InMethod
<1>7. /\ E!InMethod <=> Under(n) \/ open[n].kind = "method"
      /\ E!InTask <=> \E k \in DOMAIN open : open[k].kind = "task" /\ Under(k)
      /\ E!InTask' <=> \E k \in DOMAIN o : o[k].kind = "task" /\ Under(k)'
  BY <1>3 DEF E!InMethod, E!InTask, Under
<1>8. E!InTask <=> E!InTask' \/ (open[n].kind = "task" /\ Under(n))
  BY <1>3, <1>5, <1>7
<1>9. \A k \in DOMAIN o : Branch(k)' <=> Branch(k) BY <1>3, <1>5 DEF Branch
<1>10. Branch(n) <=> open[n].kind = "task" /\ Under(n) /\ ~E!InTask'
  BY <1>3, <1>5, <1>7 DEF Branch
<1>11. E!InTask' => E!InMethod' BY <1>3 DEF E!InTask, E!InMethod
<1> QED BY <1>3, <1>4, <1>5, <1>6, <1>7, <1>8, <1>9, <1>10, <1>11

\* A request is answered.
LEMMA RequestAnswered ==
  ASSUME EmbedTypes, NEW r \in Request, r.method <= methods, asked' = Append(asked, r),
         layers' = layers
  PROVE  LET n == Len(asked) + 1 IN
         /\ asked' \in Seq(Request) /\ n \in Nat /\ n \notin DOMAIN asked
         /\ n \in DOMAIN asked' /\ asked'[n] = r
         /\ \A i \in DOMAIN asked : i \in DOMAIN asked' /\ asked'[i] = asked[i]
         /\ \A i \in DOMAIN asked' : i \in DOMAIN asked \/ i = n
         /\ \A i \in DOMAIN asked' : asked'[i].method <= methods
         /\ \A m : m # r.method => E!Asked(m)' = E!Asked(m)
         /\ \A m : E!Signalled(m)' <=>
              E!Signalled(m) \/ ("raw" \in layers /\ r.client = "raw" /\ ~r.task /\ r.method = m)
<1> DEFINE n == Len(asked) + 1
<1>1. PICK s \in Seq(Request) : s = Append(asked, r)
  <2>1. Append(asked, r) \in Seq(Request) BY DEF EmbedTypes
  <2> QED BY <2>1
<1>2. /\ n \in Nat /\ n \notin DOMAIN asked /\ n \in DOMAIN s /\ s[n] = r
      /\ \A i \in DOMAIN asked : i \in DOMAIN s /\ s[i] = asked[i]
      /\ \A i \in DOMAIN s : i \in DOMAIN asked \/ i = n
  <2>1. asked \in Seq(Request) BY DEF EmbedTypes
  <2>2. /\ Len(asked) \in Nat /\ DOMAIN asked = 1..Len(asked)
        /\ DOMAIN s = 1..(Len(asked) + 1) /\ s[n] = r
        /\ \A i \in 1..Len(asked) : s[i] = asked[i]
    BY <1>1, <2>1
  <2> QED BY <2>2
<1> HIDE DEF n
<1>3. \A i \in DOMAIN s : s[i].method <= methods BY <1>2 DEF EmbedTypes
<1>4. ASSUME NEW m, m # r.method PROVE E!Asked(m)' = E!Asked(m)
  BY <1>1, <1>2, <1>4 DEF E!Asked
<1>5. ASSUME NEW m
      PROVE  E!Signalled(m)' <=> E!Signalled(m)
               \/ ("raw" \in layers /\ r.client = "raw" /\ ~r.task /\ r.method = m)
  BY <1>1, <1>2 DEF E!Signalled, E!Asked
<1> QED BY <1>1, <1>2, <1>3, <1>4, <1>5 DEF n

LEMMA RequestsStay ==
  ASSUME UNCHANGED <<asked, layers>>, NEW m
  PROVE  E!Asked(m)' = E!Asked(m) /\ (E!Signalled(m)' <=> E!Signalled(m))
BY DEF E!Asked, E!Signalled

LEMMA EmbedQuiet ==
  ASSUME EmbedInv,
         UNCHANGED <<layers, context, open, events, asked, methods, lost, raised>>
  PROVE  EmbedInv'
<1>1. /\ E!InMethod' <=> E!InMethod
      /\ E!InTask' <=> E!InTask
  BY DEF E!InMethod, E!InTask
<1>2. \A k : (Under(k)' <=> Under(k)) /\ (Branch(k)' <=> Branch(k)) BY DEF Under, Branch
<1>3. \A m : /\ E!Asked(m)' = E!Asked(m)
             /\ E!Signalled(m)' <=> E!Signalled(m)
             /\ Finished(m)' <=> Finished(m)
  BY <1>1, RequestsStay DEF Finished
<1>4. EmbedTypes' BY <1>1 DEF EmbedInv, EmbedTypes
<1>5. DepthsTell' BY <1>1, <1>2 DEF EmbedInv, DepthsTell
<1>6. SignalTells' BY <1>1, <1>2, <1>3 DEF EmbedInv, SignalTells
<1>7. EventsTell' BY <1>3 DEF EmbedInv, EventsTell
<1>8. RequestsTold' BY <1>3 DEF EmbedInv, RequestsTold, Told
<1> QED BY <1>4, <1>5, <1>6, <1>7, <1>8 DEF EmbedInv

LEMMA MethodEntered == ASSUME EmbedInv, E!Enter PROVE EmbedInv'
<1> DEFINE x == [kind |-> "method", context |-> context]
<1>1. /\ open' = Append(open, x)
      /\ context' = [depth |-> context.depth + 1,
                     captured |-> context.depth # 0 /\ context.captured]
      /\ methods' = IF E!InMethod THEN methods ELSE methods + 1
      /\ UNCHANGED <<layers, events, asked, lost, raised>>
  BY DEF E!Enter, E!EnterWith, E!Opened
<1>2. /\ x \in Entry /\ x.kind = "method" /\ x.context = context
      /\ open \in Seq(Entry) /\ context \in EmbedContext /\ methods \in Nat
  BY DEF EmbedInv, EmbedTypes, Entry
<1> HIDE DEF x
<1>3. /\ open' \in Seq(Entry) /\ (E!InTask => E!InMethod)
      /\ \A k \in DOMAIN open' : (k \in DOMAIN open /\ open'[k] = open[k])
                                 \/ (k \notin DOMAIN open /\ open'[k] = x)
      /\ \A k \in DOMAIN open : (Under(k)' <=> Under(k)) /\ (Branch(k)' <=> Branch(k))
      /\ \A k \in DOMAIN open' \ DOMAIN open :
           (Under(k)' <=> E!InMethod) /\ ~Branch(k)'
      /\ E!InMethod'
      /\ E!InTask' <=> E!InTask
  BY <1>1, <1>2, EntryPushed
<1>4. /\ context' \in EmbedContext /\ context'.depth # 0
      /\ context'.captured <=> context.depth # 0 /\ context.captured
  <2>1. PICK d \in Nat : d = context.depth + 1 /\ d # 0 BY <1>2 DEF EmbedContext
  <2>2. PICK b \in BOOLEAN : b <=> context.depth # 0 /\ context.captured OBVIOUS
  <2>3. b = (context.depth # 0 /\ context.captured) BY <2>2
  <2>4. context' = [depth |-> d, captured |-> b] BY <1>1, <2>1, <2>3, Zenon
  <2>5. context'.depth = d /\ context'.captured = b BY <2>4
  <2>6. context' \in EmbedContext BY <2>4 DEF EmbedContext
  <2> QED BY <2>1, <2>2, <2>5, <2>6
<1>5. context.depth # 0 <=> E!InMethod BY DEF EmbedInv, DepthsTell
<1>6. \A m : E!Asked(m)' = E!Asked(m) /\ (E!Signalled(m)' <=> E!Signalled(m))
  BY <1>1, RequestsStay
<1>7. EmbedTypes'
  <2>1. \A i \in DOMAIN asked : asked[i].method \in Nat /\ asked[i].method <= methods
    <3>1. asked \in Seq(Request) BY DEF EmbedInv, EmbedTypes
    <3>2. \A i \in DOMAIN asked : asked[i] \in Request BY <3>1
    <3>3. \A r \in Request : r.method \in Nat BY DEF Request
    <3> QED BY <3>2, <3>3 DEF EmbedInv, EmbedTypes
  <2>2. methods' \in Nat \ {0} /\ methods <= methods'
    BY <1>1, <1>2 DEF EmbedInv, EmbedTypes
  <2>3. \A i \in DOMAIN asked : asked[i].method <= methods'
    BY <1>2, <2>1, <2>2
  <2> QED BY <1>1, <1>3, <1>4, <2>2, <2>3 DEF EmbedInv, EmbedTypes
<1>8. DepthsTell'
  <2>1. \A k \in DOMAIN open : open[k].context.depth # 0 <=> Under(k)
    BY DEF EmbedInv, DepthsTell
  <2>2. ASSUME NEW k \in DOMAIN open' PROVE open'[k].context.depth # 0 <=> Under(k)'
    <3>1. CASE k \in DOMAIN open BY <1>3, <2>1, <3>1
    <3>2. CASE k \notin DOMAIN open BY <1>2, <1>3, <1>5, <3>2
    <3> QED BY <3>1, <3>2
  <2> QED BY <1>3, <1>4, <2>2 DEF DepthsTell
<1>9. SignalTells'
  <2>1. CASE E!InMethod
    <3>1. methods' = methods BY <1>1, <2>1
    <3>2. E!InMethod' /\ ~E!InTask' => (context'.captured <=> E!Signalled(methods)')
      BY <1>3, <1>4, <1>5, <1>6, <2>1, <3>1 DEF EmbedInv, SignalTells
    <3>3. ASSUME NEW k \in DOMAIN open', Branch(k)'
          PROVE  open'[k].context.captured <=> E!Signalled(methods)
      BY <1>3, <3>3 DEF EmbedInv, SignalTells
    <3> QED BY <1>6, <3>1, <3>2, <3>3 DEF SignalTells, E!Signalled, E!Asked
  <2>2. CASE ~E!InMethod
    <3>1. methods' = methods + 1 /\ ~E!Signalled(methods + 1)
      BY <1>1, <1>2, <2>2 DEF EmbedInv, EmbedTypes, E!Signalled, E!Asked
    <3>2. ~context'.captured BY <1>4, <1>5, <2>2
    <3>3. ASSUME NEW k \in DOMAIN open' PROVE ~Branch(k)'
      <4>1. CASE k \in DOMAIN open
        <5>1. ~Under(k) BY <2>2 DEF Under, E!InMethod
        <5> QED BY <1>3, <4>1, <5>1 DEF Branch
      <4>2. CASE k \notin DOMAIN open BY <1>3, <4>2
      <4> QED BY <4>1, <4>2
    <3>4. ~E!Signalled(methods)' BY <1>1, <3>1 DEF E!Signalled, E!Asked
    <3> QED BY <3>2, <3>3, <3>4 DEF SignalTells
  <2> QED BY <2>1, <2>2
<1>10. EventsTell'
  <2>1. ASSUME NEW m \in 1..methods, Finished(m) PROVE m \in 1..methods' /\ Finished(m)'
    BY <1>1, <1>2, <2>1 DEF Finished
  <2> QED BY <1>1, <1>6, <2>1 DEF EmbedInv, EventsTell
<1>11. RequestsTold'
  <2>1. \A i \in DOMAIN asked : Told(i)' <=> Told(i) BY <1>1 DEF Told
  <2>2. \A i \in DOMAIN asked : Finished(asked[i].method)' => Finished(asked[i].method)
    BY <1>1, <1>3 DEF Finished
  <2>3. \A i \in DOMAIN asked : E!Signalled(asked[i].method) => E!Signalled(asked[i].method)'
    BY <1>1 DEF E!Signalled, E!Asked
  <2> QED BY <1>1, <2>1, <2>2, <2>3 DEF EmbedInv, RequestsTold
<1> QED BY <1>7, <1>8, <1>9, <1>10, <1>11 DEF EmbedInv

LEMMA TaskForked == ASSUME EmbedInv, E!Fork PROVE EmbedInv'
<1> DEFINE x == [kind |-> "task", context |-> context]
<1>1. /\ open' = Append(open, x)
      /\ UNCHANGED <<layers, context, events, asked, methods, lost, raised>>
  BY DEF E!Fork, E!Opened
<1>2. /\ x \in Entry /\ x.kind = "task" /\ x.context = context
      /\ open \in Seq(Entry) /\ context \in EmbedContext /\ methods \in Nat
  BY DEF EmbedInv, EmbedTypes, Entry
<1> HIDE DEF x
<1>3. /\ open' \in Seq(Entry) /\ (E!InTask => E!InMethod)
      /\ \A k \in DOMAIN open' : (k \in DOMAIN open /\ open'[k] = open[k])
                                 \/ (k \notin DOMAIN open /\ open'[k] = x)
      /\ \A k \in DOMAIN open : (Under(k)' <=> Under(k)) /\ (Branch(k)' <=> Branch(k))
      /\ \A k \in DOMAIN open' \ DOMAIN open :
           (Under(k)' <=> E!InMethod) /\ (Branch(k)' <=> E!InMethod /\ ~E!InTask)
      /\ E!InMethod' <=> E!InMethod
      /\ E!InTask' <=> E!InMethod
  BY <1>1, <1>2, EntryPushed
<1>4. \A m : /\ E!Asked(m)' = E!Asked(m)
             /\ E!Signalled(m)' <=> E!Signalled(m)
             /\ Finished(m)' <=> Finished(m)
  BY <1>1, <1>3, RequestsStay DEF Finished
<1>5. EmbedTypes' BY <1>1, <1>3 DEF EmbedInv, EmbedTypes
<1>6. DepthsTell'
  <2>1. /\ context.depth # 0 <=> E!InMethod
        /\ \A k \in DOMAIN open : open[k].context.depth # 0 <=> Under(k)
    BY DEF EmbedInv, DepthsTell
  <2>2. ASSUME NEW k \in DOMAIN open' PROVE open'[k].context.depth # 0 <=> Under(k)'
    <3>1. CASE k \in DOMAIN open BY <1>3, <2>1, <3>1
    <3>2. CASE k \notin DOMAIN open BY <1>2, <1>3, <2>1, <3>2
    <3> QED BY <3>1, <3>2
  <2> QED BY <1>1, <1>3, <2>1, <2>2 DEF DepthsTell
<1>7. SignalTells'
  <2>1. ASSUME NEW k \in DOMAIN open', Branch(k)'
        PROVE  open'[k].context.captured <=> E!Signalled(methods)
    <3>1. CASE k \in DOMAIN open BY <1>3, <2>1, <3>1 DEF EmbedInv, SignalTells
    <3>2. CASE k \notin DOMAIN open BY <1>2, <1>3, <2>1, <3>2 DEF EmbedInv, SignalTells
    <3> QED BY <3>1, <3>2
  <2>2. E!Signalled(methods)' <=> E!Signalled(methods) BY <1>1 DEF E!Signalled, E!Asked
  <2> QED BY <1>3, <2>1, <2>2 DEF SignalTells
<1>8. EventsTell' BY <1>1, <1>4 DEF EmbedInv, EventsTell
<1>9. RequestsTold' BY <1>1, <1>4 DEF EmbedInv, RequestsTold, Told
<1> QED BY <1>5, <1>6, <1>7, <1>8, <1>9 DEF EmbedInv

LEMMA TaskJoined == ASSUME EmbedInv, E!Join PROVE EmbedInv'
<1>1. /\ open # <<>> /\ E!Last(open).kind = "task" /\ open' = E!Front(open)
      /\ context' = E!Last(open).context
      /\ UNCHANGED <<layers, events, asked, methods, lost, raised>>
  BY DEF E!Join, E!Closed
<1>2. open \in Seq(Entry) BY DEF EmbedInv, EmbedTypes
<1>3. PICK n \in DOMAIN open :
         /\ open[n] \in Entry /\ open[n] = E!Last(open)
         /\ open' \in Seq(Entry)
         /\ \A k \in DOMAIN open' : k \in DOMAIN open /\ open'[k] = open[k] /\ k # n
         /\ \A k \in DOMAIN open' : (Under(k)' <=> Under(k)) /\ (Branch(k)' <=> Branch(k))
         /\ E!InMethod' <=> Under(n)
         /\ E!InMethod <=> Under(n)
         /\ Branch(n) <=> Under(n) /\ ~E!InTask'
  BY <1>1, <1>2, EntryPopped
<1>4. \A m : /\ E!Asked(m)' = E!Asked(m)
             /\ E!Signalled(m)' <=> E!Signalled(m)
             /\ Finished(m)' <=> Finished(m)
  BY <1>1, <1>3, RequestsStay DEF Finished
<1>5. EmbedTypes' BY <1>1, <1>3 DEF EmbedInv, EmbedTypes, Entry
<1>6. DepthsTell' BY <1>1, <1>3 DEF EmbedInv, DepthsTell
<1>7. SignalTells'
  <2>1. E!Signalled(methods)' <=> E!Signalled(methods) BY <1>1 DEF E!Signalled, E!Asked
  <2> QED BY <1>1, <1>3, <2>1 DEF EmbedInv, SignalTells
<1>8. EventsTell' BY <1>1, <1>4 DEF EmbedInv, EventsTell
<1>9. RequestsTold' BY <1>1, <1>4 DEF EmbedInv, RequestsTold, Told
<1> QED BY <1>5, <1>6, <1>7, <1>8, <1>9 DEF EmbedInv

LEMMA MethodLeft == ASSUME EmbedInv, E!Exit PROVE EmbedInv'
<1> DEFINE before == E!Last(open).context
           outermost == before.depth = 0
<1>1. /\ open # <<>> /\ E!Last(open).kind = "method" /\ open' = E!Front(open)
      /\ context' = IF outermost THEN before
                    ELSE [before EXCEPT !.captured = context.captured]
      /\ IF outermost /\ ~raising /\ ~context.captured /\ "langchain" \in layers
         THEN E!Record("langchain", E!Asked(methods))
         ELSE UNCHANGED <<events, lost>>
      /\ raised' = IF raising /\ ~E!InMethod' THEN raised \union E!Asked(methods) ELSE raised
      /\ UNCHANGED <<layers, asked, methods>>
  BY DEF E!Exit, E!Closed
<1>2. open \in Seq(Entry) /\ context \in EmbedContext /\ methods \in Nat
  BY DEF EmbedInv, EmbedTypes
<1>3. PICK n \in DOMAIN open :
         /\ open[n] \in Entry /\ open[n] = E!Last(open)
         /\ open' \in Seq(Entry)
         /\ \A k \in DOMAIN open' : k \in DOMAIN open /\ open'[k] = open[k] /\ k # n
         /\ \A k \in DOMAIN open' : (Under(k)' <=> Under(k)) /\ (Branch(k)' <=> Branch(k))
         /\ E!InMethod' <=> Under(n)
         /\ E!InMethod
         /\ E!InTask <=> E!InTask'
         /\ E!InTask' => E!InMethod'
  BY <1>1, <1>2, EntryPopped
<1>4. /\ before \in EmbedContext /\ methods # 0
      /\ outermost <=> ~E!InMethod'
  <2>1. before = open[n].context /\ open[n].context \in EmbedContext
    BY <1>3 DEF Entry
  <2>2. open[n].context.depth # 0 <=> Under(n) BY DEF EmbedInv, DepthsTell
  <2> QED BY <1>3, <2>1, <2>2 DEF EmbedInv, EmbedTypes
<1> HIDE DEF before
<1>5. /\ context' \in EmbedContext /\ context'.depth = before.depth
      /\ ~outermost => context'.captured = context.captured
  <2>1. CASE outermost BY <1>1, <1>4, <2>1
  <2>2. CASE ~outermost BY <1>1, <1>2, <1>4, <2>2 DEF EmbedContext
  <2> QED BY <2>1, <2>2
<1>6. \A m : E!Asked(m)' = E!Asked(m) /\ (E!Signalled(m)' <=> E!Signalled(m))
  BY <1>1, RequestsStay
<1>7. E!Signalled(methods)' <=> E!Signalled(methods) BY <1>1 DEF E!Signalled, E!Asked
<1>8. outermost => (context.captured <=> E!Signalled(methods))
  BY <1>3, <1>4 DEF EmbedInv, SignalTells
<1>9. \A i \in DOMAIN asked : i \in Nat
  <2>1. asked \in Seq(Request) BY DEF EmbedInv, EmbedTypes
  <2> QED BY <2>1
<1>10. /\ events \subseteq events' /\ lost \subseteq lost' /\ raised \subseteq raised'
       /\ \A e \in events' \ events :
            /\ e = [layer |-> "langchain", requests |-> E!Asked(methods)]
            /\ outermost /\ ~context.captured
       /\ outermost /\ "langchain" \in layers /\ ~context.captured =>
            \A i \in E!Asked(methods) :
              i \in lost' \/ i \in raised' \/ \E e \in events' : i \in e.requests
  <2>1. raised \subseteq raised' BY <1>1
  <2>2. CASE outermost /\ ~raising /\ ~context.captured /\ "langchain" \in layers
    <3>1. E!Record("langchain", E!Asked(methods)) BY <1>1, <2>2
    <3>2. PICK e : e = [layer |-> "langchain", requests |-> E!Asked(methods)] OBVIOUS
    <3>3. e.requests = E!Asked(methods) BY <3>2
    <3>4. CASE events' = events \union {e} /\ lost' = lost
      BY <2>1, <2>2, <3>2, <3>3, <3>4
    <3>5. CASE events' = events /\ lost' = lost \union E!Asked(methods)
      BY <2>1, <3>5
    <3> QED BY <3>1, <3>2, <3>4, <3>5 DEF E!Record
  <2>3. CASE ~(outermost /\ ~raising /\ ~context.captured /\ "langchain" \in layers)
    <3>1. events' = events /\ lost' = lost BY <1>1, <2>3
    <3>2. outermost /\ "langchain" \in layers /\ ~context.captured =>
            raised' = raised \union E!Asked(methods)
      BY <1>1, <1>4, <2>3
    <3> QED BY <2>1, <3>1, <3>2
  <2> QED BY <2>2, <2>3
<1>11. EmbedTypes'
  <2>1. [layer |-> "langchain", requests |-> E!Asked(methods)] \in EmbedEvent
    BY <1>9 DEF EmbedEvent, E!Asked
  <2>2. events' \subseteq EmbedEvent BY <1>10, <2>1 DEF EmbedInv, EmbedTypes
  <2> QED BY <1>1, <1>3, <1>4, <1>5, <2>2 DEF EmbedInv, EmbedTypes
<1>12. DepthsTell' BY <1>3, <1>4, <1>5 DEF EmbedInv, DepthsTell
<1>13. SignalTells'
  <2>1. E!InMethod' /\ ~E!InTask' => (context'.captured <=> E!Signalled(methods)')
    BY <1>3, <1>4, <1>5, <1>7 DEF EmbedInv, SignalTells
  <2>2. ASSUME NEW k \in DOMAIN open', Branch(k)'
        PROVE  open'[k].context.captured <=> E!Signalled(methods)
    BY <1>3, <2>2 DEF EmbedInv, SignalTells
  <2> QED BY <1>7, <2>1, <2>2 DEF SignalTells
<1>14. \A m : Finished(m) => Finished(m)'
  BY <1>1, <1>3 DEF Finished
<1>15. EventsTell'
  <2>1. ASSUME NEW e \in events
        PROVE  \/ /\ e.layer = "raw" /\ "raw" \in layers'
                  /\ \E i \in DOMAIN asked' : asked'[i].client = "raw" /\ e.requests = {i}
               \/ /\ e.layer = "langchain"
                  /\ \E m \in 1..methods' :
                       e.requests = E!Asked(m)' /\ Finished(m)' /\ ~E!Signalled(m)'
    BY <1>1, <1>6, <1>14 DEF EmbedInv, EventsTell
  <2>2. ASSUME NEW e \in events', e \notin events
        PROVE  /\ e.layer = "langchain"
               /\ \E m \in 1..methods' :
                    e.requests = E!Asked(m)' /\ Finished(m)' /\ ~E!Signalled(m)'
    <3>1. e.layer = "langchain" /\ e.requests = E!Asked(methods) /\ outermost
          /\ ~context.captured
      BY <1>10, <2>2
    <3>2. PICK m \in 1..methods : m = methods BY <1>2, <1>4
    <3>3. E!Asked(m)' = E!Asked(methods) /\ Finished(m)' /\ ~E!Signalled(m)'
      BY <1>4, <1>6, <1>8, <3>1, <3>2 DEF Finished
    <3> QED BY <1>1, <3>1, <3>3
  <2> QED BY <2>1, <2>2 DEF EventsTell
<1>16. RequestsTold'
  <2>1. \A i \in DOMAIN asked : Told(i) => Told(i)' BY <1>10 DEF Told
  <2>2. ASSUME NEW i \in DOMAIN asked, asked[i].method # 0, Finished(asked[i].method)',
               "langchain" \in layers
        PROVE  Told(i)' \/ i \in raised' \/ E!Signalled(asked[i].method)
    <3>1. CASE Finished(asked[i].method)
      BY <1>10, <2>1, <2>2, <3>1 DEF EmbedInv, RequestsTold
    <3>2. CASE ~Finished(asked[i].method)
      <4>1. asked[i].method = methods /\ i \in E!Asked(methods) BY <3>2 DEF Finished, E!Asked
      <4>2. outermost BY <1>1, <1>4, <2>2, <4>1 DEF Finished
      <4> QED BY <1>8, <1>10, <2>2, <4>1, <4>2 DEF Told
    <3> QED BY <3>1, <3>2
  <2>3. \A i \in DOMAIN asked : E!Signalled(asked[i].method)' <=> E!Signalled(asked[i].method)
    BY <1>1 DEF E!Signalled, E!Asked
  <2>4. \A i \in DOMAIN asked : asked[i].client = "raw" /\ "raw" \in layers => Told(i)'
    BY <2>1 DEF EmbedInv, RequestsTold
  <2> QED BY <1>1, <2>2, <2>3, <2>4 DEF RequestsTold
<1> QED BY <1>11, <1>12, <1>13, <1>15, <1>16 DEF EmbedInv

\* A request is answered, and what the SDK's shim does of it.
LEMMA RequestNoted ==
  ASSUME EmbedInv, NEW client \in {"raw", "other"}, E!Answered(client),
         context' \in EmbedContext, context'.depth = context.depth,
         context'.captured <=> context.captured \/ (client = "raw" /\ "raw" \in layers),
         events \subseteq events', lost \subseteq lost',
         \A e \in events' \ events :
           /\ e = [layer |-> "raw", requests |-> {Len(asked) + 1}]
           /\ client = "raw" /\ "raw" \in layers,
         client = "raw" /\ "raw" \in layers =>
           Len(asked) + 1 \in lost' \/ \E e \in events' : Len(asked) + 1 \in e.requests
  PROVE  EmbedInv'
<1> DEFINE r == [client |-> client, task |-> E!InTask,
                 method |-> IF E!InMethod THEN methods ELSE 0]
<1>1. asked' = Append(asked, r) /\ UNCHANGED <<layers, open, methods, raised>>
  BY DEF E!Answered
<1>2. PICK t \in BOOLEAN : t <=> E!InTask OBVIOUS
<1>3. /\ r \in Request /\ r.client = client
      /\ r.task <=> E!InTask
      /\ r.method = IF E!InMethod THEN methods ELSE 0
      /\ r.method <= methods
  <2>1. E!InTask = t BY <1>2
  <2>2. PICK m \in Nat : m = (IF E!InMethod THEN methods ELSE 0) /\ m <= methods
    BY DEF EmbedInv, EmbedTypes
  <2>3. r = [client |-> client, task |-> t, method |-> m] BY <2>1, <2>2, Zenon
  <2> HIDE DEF r
  <2>4. r.client = client /\ r.task = t /\ r.method = m /\ r \in Request
    BY <2>3 DEF Request
  <2> QED BY <1>2, <2>2, <2>4
<1> HIDE DEF r
<1>4. PICK n : n = Len(asked) + 1 OBVIOUS
<1>5. /\ asked' \in Seq(Request) /\ n \in Nat /\ n \notin DOMAIN asked
      /\ n \in DOMAIN asked' /\ asked'[n] = r
      /\ \A i \in DOMAIN asked : i \in DOMAIN asked' /\ asked'[i] = asked[i]
      /\ \A i \in DOMAIN asked' : i \in DOMAIN asked \/ i = n
      /\ \A i \in DOMAIN asked' : asked'[i].method <= methods
      /\ \A m : m # r.method => E!Asked(m)' = E!Asked(m)
      /\ \A m : E!Signalled(m)' <=>
           E!Signalled(m) \/ ("raw" \in layers /\ r.client = "raw" /\ ~r.task /\ r.method = m)
  BY <1>1, <1>3, <1>4, RequestAnswered DEF EmbedInv
<1>6. /\ E!InMethod' <=> E!InMethod
      /\ E!InTask' <=> E!InTask
      /\ E!InTask <=> \E k \in DOMAIN open : open[k].kind = "task" /\ Under(k)
  BY <1>1 DEF E!InMethod, E!InTask, Under
<1>7. \A k : (Under(k)' <=> Under(k)) /\ (Branch(k)' <=> Branch(k))
  BY <1>1 DEF Under, Branch
<1>8. \A m : Finished(m)' <=> Finished(m) BY <1>1, <1>6 DEF Finished
<1>9. EmbedTypes'
  <2>1. [layer |-> "raw", requests |-> {n}] \in EmbedEvent BY <1>5 DEF EmbedEvent
  <2>2. events' \subseteq EmbedEvent BY <1>4, <2>1 DEF EmbedInv, EmbedTypes
  <2> QED BY <1>1, <1>5, <1>6, <2>2 DEF EmbedInv, EmbedTypes
<1>10. DepthsTell' BY <1>1, <1>6, <1>7 DEF EmbedInv, DepthsTell
<1>11. E!Signalled(methods)' <=> \E m : m = methods /\ E!Signalled(m)'
  BY <1>1 DEF E!Signalled, E!Asked
<1>12. SignalTells'
  <2>1. ASSUME E!InMethod, ~E!InTask PROVE context'.captured <=> E!Signalled(methods)'
    BY <1>3, <1>5, <1>11, <2>1 DEF EmbedInv, SignalTells
  <2>2. ASSUME NEW k \in DOMAIN open, Branch(k)
        PROVE  open[k].context.captured <=> E!Signalled(methods)'
    <3>1. E!InTask BY <1>6, <2>2 DEF Branch
    <3> QED BY <1>3, <1>5, <1>11, <2>2, <3>1 DEF EmbedInv, SignalTells
  <2> QED BY <1>1, <1>6, <1>7, <2>1, <2>2 DEF SignalTells
<1>13. \A m \in 1..methods : Finished(m) => m # r.method BY <1>3 DEF Finished
<1>14. EventsTell'
  <2>1. ASSUME NEW e \in events
        PROVE  \/ /\ e.layer = "raw" /\ "raw" \in layers'
                  /\ \E i \in DOMAIN asked' : asked'[i].client = "raw" /\ e.requests = {i}
               \/ /\ e.layer = "langchain"
                  /\ \E m \in 1..methods' :
                       e.requests = E!Asked(m)' /\ Finished(m)' /\ ~E!Signalled(m)'
    <3>1. CASE /\ e.layer = "raw" /\ "raw" \in layers
               /\ \E i \in DOMAIN asked : asked[i].client = "raw" /\ e.requests = {i}
      BY <1>1, <1>5, <3>1
    <3>2. CASE /\ e.layer = "langchain"
               /\ \E m \in 1..methods :
                    e.requests = E!Asked(m) /\ Finished(m) /\ ~E!Signalled(m)
      BY <1>1, <1>5, <1>8, <1>13, <3>2
    <3> QED BY <3>1, <3>2 DEF EmbedInv, EventsTell
  <2>2. ASSUME NEW e \in events', e \notin events
        PROVE  /\ e.layer = "raw" /\ "raw" \in layers'
               /\ \E i \in DOMAIN asked' : asked'[i].client = "raw" /\ e.requests = {i}
    <3>1. e = [layer |-> "raw", requests |-> {n}] /\ client = "raw" /\ "raw" \in layers
      BY <1>4, <2>2
    <3>2. e.layer = "raw" /\ e.requests = {n} BY <3>1
    <3> QED BY <1>1, <1>3, <1>5, <3>1, <3>2
  <2> QED BY <2>1, <2>2 DEF EventsTell
<1>15. RequestsTold'
  <2>1. \A i \in DOMAIN asked : Told(i) => Told(i)' BY DEF Told
  <2>2. client = "raw" /\ "raw" \in layers => Told(n)' BY <1>4 DEF Told
  <2>3. ASSUME NEW i \in DOMAIN asked', asked'[i].client = "raw", "raw" \in layers
        PROVE  Told(i)'
    BY <1>3, <1>5, <2>1, <2>2, <2>3 DEF EmbedInv, RequestsTold
  <2>4. ASSUME NEW i \in DOMAIN asked', NEW m, m = asked'[i].method, m # 0, Finished(m),
               "langchain" \in layers
        PROVE  Told(i)' \/ i \in raised' \/ E!Signalled(m)'
    <3>1. i # n BY <1>3, <1>5, <2>4 DEF Finished
    <3> QED BY <1>1, <1>5, <2>1, <2>4, <3>1 DEF EmbedInv, RequestsTold
  <2>5. \A i \in DOMAIN asked' :
          /\ Finished(asked[i].method)' <=> Finished(asked'[i].method)
          /\ E!Signalled(asked[i].method)' <=>
               \E m : m = asked'[i].method /\ E!Signalled(m)'
    BY <1>1, <1>6 DEF Finished, E!Signalled, E!Asked
  <2> QED BY <1>1, <2>3, <2>4, <2>5 DEF RequestsTold
<1> QED BY <1>9, <1>10, <1>12, <1>14, <1>15 DEF EmbedInv

LEMMA RawAsked == ASSUME EmbedInv, E!AskRaw PROVE EmbedInv'
<1>1. E!Answered("raw") BY DEF E!AskRaw
<1>2. context \in EmbedContext BY DEF EmbedInv, EmbedTypes
<1>3. CASE "raw" \notin layers
  <2>1. UNCHANGED <<context, events, lost>> BY <1>3 DEF E!AskRaw
  <2> QED BY <1>1, <1>2, <1>3, <2>1, RequestNoted
<1>4. CASE "raw" \in layers
  <2>1. /\ E!Record("raw", {Len(asked) + 1})
        /\ context' = [context EXCEPT !.captured = TRUE]
    BY <1>4 DEF E!AskRaw
  <2>2. context' \in EmbedContext /\ context'.depth = context.depth /\ context'.captured
    BY <1>2, <2>1 DEF EmbedContext
  <2>3. PICK e : e = [layer |-> "raw", requests |-> {Len(asked) + 1}] OBVIOUS
  <2>4. Len(asked) + 1 \in e.requests BY <2>3
  <2>5. CASE events' = events \union {e} /\ lost' = lost
    BY <1>1, <1>4, <2>2, <2>3, <2>4, <2>5, RequestNoted
  <2>6. CASE events' = events /\ lost' = lost \union {Len(asked) + 1}
    BY <1>1, <1>4, <2>2, <2>6, RequestNoted
  <2> QED BY <2>1, <2>3, <2>5, <2>6 DEF E!Record
<1> QED BY <1>3, <1>4

LEMMA OtherAsked == ASSUME EmbedInv, E!AskOther PROVE EmbedInv'
<1>1. E!Answered("other") /\ UNCHANGED <<context, events, lost>> BY DEF E!AskOther
<1>2. context \in EmbedContext BY DEF EmbedInv, EmbedTypes
<1> QED BY <1>1, <1>2, RequestNoted

LEMMA EmbedInitial == ASSUME E!Init PROVE EmbedInv
<1>1. EmbedTypes
  <2>1. context \in EmbedContext BY DEF E!Init, EmbedContext
  <2> QED BY <2>1 DEF E!Init, EmbedTypes, E!InMethod
<1>2. DepthsTell BY DEF E!Init, DepthsTell, E!InMethod
<1>3. SignalTells BY DEF E!Init, SignalTells, E!InMethod
<1>4. EventsTell /\ RequestsTold BY DEF E!Init, EventsTell, RequestsTold
<1> QED BY <1>1, <1>2, <1>3, <1>4 DEF EmbedInv

LEMMA EmbedStep == ASSUME EmbedInv, [E!Next]_E!vars PROVE EmbedInv'
<1>1. CASE E!Enter BY <1>1, MethodEntered
<1>2. CASE E!Exit BY <1>2, MethodLeft
<1>3. CASE E!Fork BY <1>3, TaskForked
<1>4. CASE E!Join BY <1>4, TaskJoined
<1>5. CASE E!AskRaw BY <1>5, RawAsked
<1>6. CASE E!AskOther BY <1>6, OtherAsked
<1>7. CASE E!Fail BY <1>7, EmbedQuiet DEF E!Fail
<1>8. CASE UNCHANGED E!vars BY <1>8, EmbedQuiet DEF E!vars
<1> QED BY <1>1, <1>2, <1>3, <1>4, <1>5, <1>6, <1>7, <1>8 DEF E!Next

LEMMA EmbedInductive == ProcessSpec => []EmbedInv
<1>1. ProcessInit => EmbedInv BY EmbedInitial DEF ProcessInit
<1>2. [ProcessNext]_processVars => [E!Next]_E!vars
  BY DEF ProcessNext, processVars, embeddingState, E!vars
<1>3. EmbedInv /\ [ProcessNext]_processVars => EmbedInv' BY <1>2, EmbedStep
<1> QED BY <1>1, <1>3, PTL DEF ProcessSpec

\* "skips its own emit if the raw shim already captured the call" (shims/_emit.py:246-250,
\* langchain/embeddings.py:155-211), for any steps of the application: however its methods,
\* tasks, requests and errors nest, a request that is counted twice was asked in a
\* task, and one that is not counted was kept out by a fault, by the layers there are, or
\* by the SDK's shim, which spoke for its method.
THEOREM EmbeddedAlwaysOnce == ProcessSpec => []EmbeddedOnce
<1>1. ASSUME EmbedInv PROVE E!EmbeddedAtMostOnce
  <2> SUFFICES ASSUME NEW d \in events, NEW e \in events, d # e,
                      NEW i \in d.requests \intersect e.requests
               PROVE  asked[i].task
    BY DEF E!EmbeddedAtMostOnce
  <2>1. events \subseteq EmbedEvent BY <1>1 DEF EmbedInv, EmbedTypes
  <2>2. d.layer # e.layer \/ d.requests # e.requests BY <2>1 DEF EmbedEvent
  <2>3. ASSUME NEW a \in events, NEW b \in events, a.layer = "raw", b.layer = "langchain",
               i \in a.requests, i \in b.requests
        PROVE  asked[i].task
    <3>1. "raw" \in layers /\ asked[i].client = "raw"
      BY <1>1, <2>3 DEF EmbedInv, EventsTell
    <3>2. PICK m \in 1..methods : i \in E!Asked(m) /\ ~E!Signalled(m)
      BY <1>1, <2>3 DEF EmbedInv, EventsTell
    <3> QED BY <3>1, <3>2 DEF E!Signalled
  <2>4. CASE d.layer = "raw" /\ e.layer = "raw"
    BY <1>1, <2>2, <2>4 DEF EmbedInv, EventsTell
  <2>5. CASE d.layer = "langchain" /\ e.layer = "langchain"
    <3>1. PICK l \in 1..methods : d.requests = E!Asked(l)
      BY <1>1, <2>5 DEF EmbedInv, EventsTell
    <3>2. PICK m \in 1..methods : e.requests = E!Asked(m)
      BY <1>1, <2>5 DEF EmbedInv, EventsTell
    <3>3. l = m BY <3>1, <3>2 DEF E!Asked
    <3> QED BY <2>2, <2>5, <3>1, <3>2, <3>3
  <2> QED BY <1>1, <2>3, <2>4, <2>5 DEF EmbedInv, EventsTell
<1>2. ASSUME EmbedInv PROVE E!UncountedOnlyIf
  <2> SUFFICES ASSUME NEW i \in DOMAIN asked, E!Over(i),
                      \A e \in events : i \notin e.requests
               PROVE  \/ /\ asked[i].client = "raw" => "raw" \notin layers
                         /\ asked[i].method # 0 => "langchain" \notin layers
                      \/ i \in lost \union raised
                      \/ asked[i].method # 0 /\ E!Signalled(asked[i].method)
    BY DEF E!UncountedOnlyIf
  <2>1. Finished(asked[i].method) BY DEF E!Over, Finished
  <2>2. Told(i) => i \in lost BY DEF Told
  <2> QED BY <1>2, <2>1, <2>2 DEF EmbedInv, RequestsTold
<1>3. EmbedInv => EmbeddedOnce BY <1>1, <1>2 DEF EmbeddedOnce, E!EmbeddedOnce
<1> QED BY <1>3, EmbedInductive, PTL

-----------------------------------------------------------------------------
\* Numbers and finite sets.

\* What holds of 0 and of the number after each it holds of, holds of every number.
LEMMA EveryNumber ==
  ASSUME NEW Good \in SUBSET Nat, 0 \in Good, \A n \in Good : n + 1 \in Good
  PROVE  \A n \in Nat : n \in Good
<1> DEFINE bad == Nat \ Good
<1> SUFFICES ASSUME bad # {} PROVE FALSE OBVIOUS
<1>1. bad \subseteq Nat OBVIOUS
<1> HIDE DEF bad
<1>2. PICK m \in bad : \A n \in bad : <<n, m>> \notin OpToRel(<, Nat)
  BY <1>1, NatLessThanWellFounded, WFMin
<1>3. m \in Nat /\ m # 0 /\ m \notin Good BY DEF bad
<1>4. m - 1 \in Nat /\ <<m - 1, m>> \in OpToRel(<, Nat) BY <1>3 DEF OpToRel
<1>5. m - 1 \in Good BY <1>2, <1>4 DEF bad
<1>6. (m - 1) + 1 = m BY <1>3
<1> QED BY <1>3, <1>5, <1>6

\* The members of a finite set of numbers have the ranks 1 to its size, in order.
RankIn(S, i) == Cardinality({j \in S : j <= i})

\* Every rank from 1 to the size is one member's, and a larger member's is larger.
LEMMA RanksEnumerate ==
  ASSUME NEW S \in SUBSET Nat, IsFiniteSet(S)
  PROVE  /\ Cardinality(S) \in Nat
         /\ \A i \in S : RankIn(S, i) \in 1..Cardinality(S)
         /\ \A i, j \in S : i < j => RankIn(S, i) < RankIn(S, j)
         /\ \A k \in 1..Cardinality(S) : \E i \in S : RankIn(S, i) = k
<1> DEFINE UpTo(i) == {j \in S : j <= i}
           n == Cardinality(S)
           rank == [i \in S |-> Cardinality(UpTo(i))]
<1>1. n \in Nat BY FS_CardinalityType
<1>2. ASSUME NEW i \in S PROVE IsFiniteSet(UpTo(i)) /\ Cardinality(UpTo(i)) \in 1..n
  <2>1. UpTo(i) \in SUBSET S /\ i \in UpTo(i) OBVIOUS
  <2> HIDE DEF UpTo
  <2>2. IsFiniteSet(UpTo(i)) /\ Cardinality(UpTo(i)) <= n BY <2>1, FS_Subset
  <2>3. Cardinality(UpTo(i)) \in Nat /\ Cardinality(UpTo(i)) # 0
    BY <2>1, <2>2, FS_CardinalityType, FS_EmptySet
  <2> QED BY <1>1, <2>2, <2>3
<1>3. ASSUME NEW i \in S, NEW j \in S, i < j
      PROVE  Cardinality(UpTo(i)) < Cardinality(UpTo(j))
  <2>1. UpTo(i) \in SUBSET UpTo(j) /\ j \in UpTo(j) /\ j \notin UpTo(i)
    <3>1. i \in Nat /\ j \in Nat OBVIOUS
    <3>2. \A m \in S : m <= i => m <= j BY <1>3, <3>1
    <3>3. ~(j <= i) /\ j <= j BY <1>3, <3>1
    <3> QED BY <3>2, <3>3
  <2>2. IsFiniteSet(UpTo(j)) /\ Cardinality(UpTo(i)) \in Nat /\ Cardinality(UpTo(j)) \in Nat
    BY <1>1, <1>2
  <2> HIDE DEF UpTo
  <2>3. /\ Cardinality(UpTo(i)) <= Cardinality(UpTo(j))
        /\ Cardinality(UpTo(j)) = Cardinality(UpTo(i)) => UpTo(j) = UpTo(i)
    BY <2>1, <2>2, FS_Subset
  <2> QED BY <2>1, <2>2, <2>3
<1>4. \A i \in S : RankIn(S, i) = Cardinality(UpTo(i)) BY DEF RankIn
<1> HIDE DEF UpTo
<1>5. rank \in Surjection(S, 1..n)
  <2>1. rank \in [S -> 1..n] BY <1>2
  <2>2. ASSUME NEW i \in S, NEW j \in S, rank[i] = rank[j] PROVE i = j
    <3>1. Cardinality(UpTo(i)) = Cardinality(UpTo(j)) /\ Cardinality(UpTo(i)) \in Nat
      BY <1>1, <1>2, <2>2
    <3>2. ~(i < j) /\ ~(j < i) BY <1>3, <3>1
    <3> QED BY <3>2
  <2>3. rank \in Injection(S, 1..n) BY <2>1, <2>2 DEF Injection, IsInjective
  <2>4. IsFiniteSet(1..n) /\ Cardinality(1..n) = n BY <1>1, FS_Interval
  <2> QED BY <2>3, <2>4, FS_Injection
<1>6. \A k \in 1..n : \E i \in S : Cardinality(UpTo(i)) = k BY <1>5 DEF Surjection
<1> QED BY <1>1, <1>2, <1>3, <1>4, <1>6

\* A finite set of numbers that is not empty has a largest.
LEMMA FiniteHasLargest ==
  ASSUME NEW S \in SUBSET Nat, IsFiniteSet(S), S # {}
  PROVE  \E i \in S : \A j \in S : j <= i
<1>1. Cardinality(S) \in Nat /\ Cardinality(S) # 0 BY FS_CardinalityType, FS_EmptySet
<1>2. PICK i \in S : RankIn(S, i) = Cardinality(S)
  <2>1. Cardinality(S) \in 1..Cardinality(S) BY <1>1
  <2> QED BY <2>1, RanksEnumerate
<1>3. ASSUME NEW j \in S PROVE j <= i
  <2>1. RankIn(S, j) \in 1..Cardinality(S) BY RanksEnumerate
  <2>2. ~(i < j) BY <1>1, <1>2, <2>1, RanksEnumerate
  <2> QED BY <2>2
<1> QED BY <1>3

-----------------------------------------------------------------------------
\* Sequences of words: the block that is common, and the blocks in one.

\* The head of a sequence.
LEMMA PrefixMeans ==
  ASSUME NEW W, NEW s \in Seq(W), NEW t \in Seq(W)
  PROVE  A!IsPrefix(s, t) <=> Len(s) <= Len(t) /\ \A k \in 1..Len(s) : s[k] = t[k]
<1>1. Len(s) \in Nat /\ Len(t) \in Nat OBVIOUS
<1>2. SubSeq(s, 1, Len(s)) = [k \in 1..Len(s) |-> s[k]] OBVIOUS
<1>3. ASSUME Len(s) <= Len(t) PROVE SubSeq(t, 1, Len(s)) = [k \in 1..Len(s) |-> t[k]]
  BY <1>1, <1>3
<1> QED BY <1>1, <1>2, <1>3 DEF A!IsPrefix

\* What two blocks have in common is at the head of both.
LEMMA CommonIsHead ==
  ASSUME NEW W, NEW s \in Seq(W), NEW t \in Seq(W)
  PROVE  LET common == A!LongestCommonPrefix({s, t})
         IN  common \in Seq(W) /\ A!IsPrefix(common, s) /\ A!IsPrefix(common, t)
<1> DEFINE all == A!CommonPrefixes({s, t})
<1>1. \A p \in all : /\ p \in Seq(W) /\ Len(p) \in Nat
                     /\ A!IsPrefix(p, s) /\ A!IsPrefix(p, t) /\ Len(p) <= Len(s)
  <2> SUFFICES ASSUME NEW p \in all
               PROVE  p \in Seq(W) /\ A!IsPrefix(p, s) /\ A!IsPrefix(p, t)
    BY DEF A!IsPrefix
  <2>1. A!IsPrefix(p, s) /\ A!IsPrefix(p, t) BY DEF A!CommonPrefixes
  <2>2. PICK u \in {s, t} : p \in A!Prefixes(u) BY DEF A!CommonPrefixes
  <2>3. u \in Seq(W) OBVIOUS
  <2>4. PICK l \in 0..Len(u) : p = SubSeq(u, 1, l) BY <2>2 DEF A!Prefixes
  <2>5. p \in Seq(W) BY <2>3, <2>4, SubSeqProperties
  <2> QED BY <2>1, <2>5
<1>2. all # {}
  <2>1. SubSeq(s, 1, 0) = <<>> OBVIOUS
  <2>2. <<>> \in A!Prefixes(s)
    <3>1. 0 \in 0..Len(s) OBVIOUS
    <3> QED BY <2>1, <3>1 DEF A!Prefixes
  <2>3. \A u \in {s, t} : A!IsPrefix(<<>>, u)
    <3> SUFFICES ASSUME NEW u \in Seq(W) PROVE A!IsPrefix(<<>>, u) OBVIOUS
    <3>1. <<>> \in Seq(W) /\ Len(<<>>) = 0 /\ Len(u) \in Nat OBVIOUS
    <3>2. Len(<<>>) <= Len(u) /\ \A k \in 1..Len(<<>>) : <<>>[k] = u[k] BY <3>1
    <3> QED BY <3>1, <3>2, PrefixMeans
  <2> QED BY <2>2, <2>3 DEF A!CommonPrefixes
<1> HIDE DEF all
<1>3. \E p \in all : \A q \in all : Len(q) <= Len(p)
  <2> DEFINE short == {Len(s) - Len(p) : p \in all}
  <2>1. Len(s) \in Nat OBVIOUS
  <2>2. short \subseteq Nat /\ short # {} BY <1>1, <1>2, <2>1
  <2>3. PICK m \in short : \A n \in short : <<n, m>> \notin OpToRel(<, Nat)
    <3> HIDE DEF short
    <3> QED BY <2>2, NatLessThanWellFounded, WFMin
  <2>4. PICK p \in all : m = Len(s) - Len(p) OBVIOUS
  <2>5. ASSUME NEW q \in all PROVE Len(q) <= Len(p)
    <3>1. Len(s) - Len(q) \in short OBVIOUS
    <3>2. PICK n \in short : n = Len(s) - Len(q) BY <3>1
    <3>3. ~(n < m) /\ n \in Nat /\ m \in Nat
      <4>1. n \in Nat /\ m \in Nat BY <2>2
      <4> HIDE DEF short
      <4> QED BY <2>3, <4>1 DEF OpToRel
    <3>4. Len(p) \in Nat /\ Len(q) \in Nat BY <1>1
    <3> HIDE DEF short
    <3> QED BY <2>1, <2>4, <3>2, <3>3, <3>4
  <2> QED BY <2>5
<1>4. A!LongestCommonPrefix({s, t}) \in all BY <1>3 DEF A!LongestCommonPrefix, all
<1> QED BY <1>1, <1>4

\* The head of the head is the head.
LEMMA PrefixOfPrefix ==
  ASSUME NEW W, NEW s \in Seq(W), NEW t \in Seq(W), NEW u \in Seq(W),
         A!IsPrefix(s, t), A!IsPrefix(t, u)
  PROVE  A!IsPrefix(s, u)
<1>1. Len(s) \in Nat /\ Len(t) \in Nat /\ Len(u) \in Nat OBVIOUS
<1>2. Len(s) <= Len(t) /\ \A k \in 1..Len(s) : s[k] = t[k] BY PrefixMeans
<1>3. Len(t) <= Len(u) /\ \A k \in 1..Len(t) : t[k] = u[k] BY PrefixMeans
<1>4. \A k \in 1..Len(s) : k \in 1..Len(t) BY <1>1, <1>2
<1> QED BY <1>1, <1>2, <1>3, <1>4, PrefixMeans

\* Blocks put one behind another are a block, no shorter than the first.
LEMMA FlattenIs ==
  ASSUME NEW W, NEW seqs \in Seq(Seq(W))
  PROVE  /\ A!FlattenSeq(seqs) \in Seq(W)
         /\ seqs # <<>> => Len(seqs[1]) <= Len(A!FlattenSeq(seqs))
<1>1. Len(seqs) \in Nat /\ \A i \in 1..Len(seqs) : seqs[i] \in Seq(W) OBVIOUS
<1> DEFINE Turn(f) == [i \in 1..Len(seqs) |-> IF i = 1 THEN seqs[i] ELSE f[i - 1] \o seqs[i]]
           flatten == CHOOSE f : f = Turn(f)
           FoldsTo(f, n) == \A i \in 1..n : f[i] = IF i = 1 THEN seqs[i] ELSE f[i - 1] \o seqs[i]
           reached == {n \in Nat : n <= Len(seqs) => \E f \in [1..n -> Seq(W)] : FoldsTo(f, n)}
<1>2. CASE Len(seqs) = 0
  <2>1. seqs = <<>> BY <1>2
  <2>2. A!FlattenSeq(seqs) = seqs BY <1>2 DEF A!FlattenSeq
  <2>3. <<>> \in Seq(W) OBVIOUS
  <2> QED BY <2>1, <2>2, <2>3
<1>3. CASE Len(seqs) # 0
  <2>1. A!FlattenSeq(seqs) = flatten[Len(seqs)] BY <1>3 DEF A!FlattenSeq
  <2>2. 0 \in reached
    <3>1. [i \in 1..0 |-> <<>>] \in [1..0 -> Seq(W)] OBVIOUS
    <3>2. FoldsTo([i \in 1..0 |-> <<>>], 0) OBVIOUS
    <3> QED BY <3>1, <3>2
  <2>3. ASSUME NEW n \in reached PROVE n + 1 \in reached
    <3>1. n \in Nat OBVIOUS
    <3>2. SUFFICES ASSUME n + 1 <= Len(seqs)
                   PROVE  \E f \in [1..(n + 1) -> Seq(W)] : FoldsTo(f, n + 1)
      <4>1. n + 1 \in Nat BY <3>1
      <4> HIDE DEF FoldsTo
      <4> QED BY <4>1
    <3>3. PICK f \in [1..n -> Seq(W)] : FoldsTo(f, n)
      <4>1. n <= Len(seqs) BY <1>1, <3>1, <3>2
      <4> HIDE DEF FoldsTo
      <4> QED BY <4>1
    <3> DEFINE g == [i \in 1..(n + 1) |->
                       IF i = 1 THEN seqs[i] ELSE f[i - 1] \o seqs[i]]
    <3>4. \A i \in 1..(n + 1) : i # 1 => i - 1 \in 1..n BY <3>1
    <3>5. g \in [1..(n + 1) -> Seq(W)]
      <4>1. ASSUME NEW i \in 1..(n + 1), i # 1 PROVE f[i - 1] \o seqs[i] \in Seq(W)
        <5>1. f[i - 1] \in Seq(W) BY <3>4, <4>1
        <5>2. seqs[i] \in Seq(W) BY <1>1, <3>1, <3>2
        <5> QED BY <5>1, <5>2, ConcatProperties
      <4>2. seqs[1] \in Seq(W) BY <1>1, <3>1, <3>2
      <4> QED BY <4>1, <4>2
    <3>6. \A i \in 1..n : g[i] = f[i]
      <4>1. \A i \in 1..n : i \in 1..(n + 1) BY <3>1
      <4> QED BY <3>3, <4>1
    <3>7. FoldsTo(g, n + 1) BY <3>1, <3>4, <3>6
    <3> HIDE DEF g, FoldsTo
    <3> QED BY <3>5, <3>7
  <2>4. Len(seqs) \in reached
    <3>1. reached \in SUBSET Nat OBVIOUS
    <3> HIDE DEF reached
    <3> QED BY <1>1, <2>2, <2>3, <3>1, EveryNumber
  <2>5. PICK f \in [1..Len(seqs) -> Seq(W)] : FoldsTo(f, Len(seqs)) BY <1>1, <2>4
  <2>6. f = Turn(f)
    <3>1. f = [i \in 1..Len(seqs) |-> f[i]] OBVIOUS
    <3> QED BY <2>5, <3>1
  <2>7. flatten = Turn(flatten) BY <2>6
  <2> HIDE DEF flatten
  <2>8. FoldsTo(flatten, Len(seqs)) BY <2>7
  <2> DEFINE Good == {n \in Nat : n + 1 <= Len(seqs) =>
                        /\ flatten[n + 1] \in Seq(W) /\ Len(seqs[1]) <= Len(flatten[n + 1])}
  <2>9. 0 \in Good
    <3>1. 1 \in 1..Len(seqs) /\ seqs[1] \in Seq(W) BY <1>1, <1>3
    <3>2. flatten[1] = seqs[1] BY <2>8, <3>1
    <3> QED BY <3>1, <3>2
  <2>10. ASSUME NEW n \in Good PROVE n + 1 \in Good
    <3>1. n \in Nat OBVIOUS
    <3>2. SUFFICES ASSUME n + 2 <= Len(seqs)
                   PROVE  /\ flatten[n + 2] \in Seq(W)
                          /\ Len(seqs[1]) <= Len(flatten[n + 2])
      BY <3>1
    <3>3. flatten[n + 1] \in Seq(W) /\ Len(seqs[1]) <= Len(flatten[n + 1])
      BY <1>1, <3>1, <3>2
    <3>4. seqs[n + 2] \in Seq(W) /\ seqs[1] \in Seq(W) BY <1>1, <3>1, <3>2
    <3>5. flatten[n + 2] = flatten[n + 1] \o seqs[n + 2]
      <4>1. n + 2 \in 1..Len(seqs) /\ n + 2 # 1 /\ (n + 2) - 1 = n + 1 BY <1>1, <3>1, <3>2
      <4> QED BY <2>8, <4>1
    <3>6. PICK u \in Seq(W) : u = flatten[n + 1] BY <3>3
    <3>7. PICK v \in Seq(W) : v = seqs[n + 2] BY <3>4
    <3>8. u \o v \in Seq(W) /\ Len(u \o v) = Len(u) + Len(v) BY ConcatProperties
    <3>9. Len(u) \in Nat /\ Len(v) \in Nat /\ Len(seqs[1]) \in Nat BY <3>4
    <3>10. Len(seqs[1]) <= Len(u \o v) BY <3>3, <3>6, <3>8, <3>9
    <3> QED BY <3>5, <3>6, <3>7, <3>8, <3>10
  <2>11. \A n \in Nat : n \in Good
    <3>1. Good \in SUBSET Nat OBVIOUS
    <3> HIDE DEF Good
    <3> QED BY <2>9, <2>10, <3>1, EveryNumber
  <2>12. Len(seqs) - 1 \in Good /\ (Len(seqs) - 1) + 1 = Len(seqs)
    <3>1. Len(seqs) - 1 \in Nat /\ (Len(seqs) - 1) + 1 = Len(seqs) BY <1>1, <1>3
    <3> HIDE DEF Good
    <3> QED BY <2>11, <3>1
  <2>13. flatten[Len(seqs)] \in Seq(W) /\ Len(seqs[1]) <= Len(flatten[Len(seqs)])
    BY <1>1, <2>12
  <2> QED BY <2>1, <2>13
<1> QED BY <1>2, <1>3

-----------------------------------------------------------------------------
\* A conversation, as each surface lays it out and as it is split.

\* What a turn of a request may be.
TurnType ==
  [kind : {"human", "ai", "tool"}, loose : BOOLEAN,
   parts : SUBSET {"text", "result", "image", "call"}]

\* The parts of a conversation of the kinds given.
PartsIn(turns, kinds) == UNION {{i} \X (turns[i].parts \intersect kinds) : i \in DOMAIN turns}
AnyKind == {"text", "result", "image", "call"}

\* A part is a turn's and of one of the kinds.
LEMMA PartMeans ==
  ASSUME NEW turns \in Seq(TurnType), NEW kinds, NEW p
  PROVE  p \in PartsIn(turns, kinds) <=>
           \E i \in DOMAIN turns, x \in kinds : x \in turns[i].parts /\ p = <<i, x>>
BY DEF PartsIn

\* A part taken from some of the items is of one of them and of one of the kinds.
LEMMA PartsOfMeans ==
  ASSUME NEW items, NEW kinds, NEW at, NEW p
  PROVE  p \in A!PartsOf(items, kinds, at) <=>
           p[2] \in kinds /\ \E k \in at : k \in DOMAIN items /\ p \in items[k].parts
BY DEF A!PartsOf

\* The items hold each part of the turns once, and no text but where one speaks.
Arranges(items, turns) ==
  /\ \E n \in Nat : DOMAIN items = 1..n
  /\ \A p : (\E k \in DOMAIN items : p \in items[k].parts) <=> p \in PartsIn(turns, AnyKind)
  /\ \A k, l \in DOMAIN items : k # l => items[k].parts \intersect items[l].parts = {}
  /\ \A k \in DOMAIN items :
       items[k].role \notin {"user", "assistant"} => \A p \in items[k].parts : p[2] # "text"

\* The module's size of a set is the library's.
LEMMA SameSize == ASSUME NEW S PROVE A!Cardinality(S) = Cardinality(S)
BY DEF A!Cardinality, Cardinality

\* The last item of a set of items of a user.
LEMMA LastUserIs ==
  ASSUME NEW items, NEW n \in Nat, DOMAIN items = 1..n
  PROVE  /\ (\A k \in DOMAIN items : items[k].role # "user") => A!LastUser(items) = 0
         /\ (\E k \in DOMAIN items : items[k].role = "user") =>
              /\ A!LastUser(items) \in DOMAIN items
              /\ items[A!LastUser(items)].role = "user"
              /\ \A k \in DOMAIN items : items[k].role = "user" => k <= A!LastUser(items)
<1> DEFINE users == {k \in DOMAIN items : items[k].role = "user"}
<1>1. users = {} => A!LastUser(items) = 0 BY DEF A!LastUser
<1>2. users # {} => A!LastUser(items) = A!Max(users) BY DEF A!LastUser
<1>3. ASSUME users # {} PROVE A!Max(users) \in users /\ \A k \in users : k <= A!Max(users)
  <2>1. users \in SUBSET (1..n) OBVIOUS
  <2>2. IsFiniteSet(1..n) BY FS_Interval
  <2> HIDE DEF users
  <2>3. IsFiniteSet(users) /\ users \in SUBSET Nat
    <3>1. IsFiniteSet(users) BY <2>1, <2>2, FS_Subset
    <3>2. \A k \in users : k \in Nat BY <2>1
    <3> QED BY <3>1, <3>2
  <2>4. \E i \in users : \A j \in users : j <= i BY <1>3, <2>3, FiniteHasLargest
  <2>5. \E i \in users : \A j \in users : i >= j BY <2>3, <2>4
  <2>6. A!Max(users) \in users /\ \A j \in users : A!Max(users) >= j
    BY <2>5 DEF A!Max
  <2> QED BY <2>3, <2>6
<1> QED BY <1>1, <1>2, <1>3

\* A split of arranged items puts each text and each result in one category.
LEMMA SplitOnce ==
  ASSUME NEW turns \in Seq(TurnType), NEW surface,
         Arranges(A!Items(surface, turns), turns)
  PROVE  LET s == A!Split(surface, turns)
         IN  /\ s.user \union s.result \union s.memory = PartsIn(turns, {"text", "result"})
             /\ s.user \intersect s.result = {} /\ s.user \intersect s.memory = {}
             /\ s.result \intersect s.memory = {}
<1> DEFINE items == A!Items(surface, turns)
           speaking == {k \in DOMAIN items : items[k].role \in {"user", "assistant"}}
           user == A!PartsOf(items, {"text"}, {A!LastUser(items)})
           result == A!PartsOf(items, {"result"}, DOMAIN items)
           memory == A!PartsOf(items, {"text"}, speaking \ {A!LastUser(items)})
<1>1. /\ A!Split(surface, turns).user = user /\ A!Split(surface, turns).result = result
      /\ A!Split(surface, turns).memory = memory
  BY DEF A!Split, A!Memory
<1>2. \A k : k \in speaking <=> k \in DOMAIN items /\ items[k].role \in {"user", "assistant"}
  OBVIOUS
<1>3. Arranges(items, turns) OBVIOUS
<1> HIDE DEF items, speaking
<1>4. /\ \A p : p \in user <=> /\ p[2] = "text" /\ A!LastUser(items) \in DOMAIN items
                               /\ p \in items[A!LastUser(items)].parts
      /\ \A p : p \in result <=> p[2] = "result" /\ \E k \in DOMAIN items : p \in items[k].parts
      /\ \A p : p \in memory <=>
           /\ p[2] = "text"
           /\ \E k \in DOMAIN items : /\ k \in speaking /\ k # A!LastUser(items)
                                      /\ p \in items[k].parts
  <2>1. ASSUME NEW p
        PROVE  /\ p \in user <=> /\ p[2] = "text" /\ A!LastUser(items) \in DOMAIN items
                                 /\ p \in items[A!LastUser(items)].parts
               /\ p \in result <=> p[2] = "result" /\ \E k \in DOMAIN items : p \in items[k].parts
               /\ p \in memory <=>
                    /\ p[2] = "text"
                    /\ \E k \in DOMAIN items : /\ k \in speaking /\ k # A!LastUser(items)
                                               /\ p \in items[k].parts
    BY PartsOfMeans
  <2> QED BY <2>1
<1> HIDE DEF user, result, memory
<1>5. ASSUME NEW p \in PartsIn(turns, {"text", "result"})
      PROVE  p \in user \union result \union memory
  <2>1. PICK i \in DOMAIN turns, x \in {"text", "result"} : x \in turns[i].parts /\ p = <<i, x>>
    BY PartMeans
  <2>2. p \in PartsIn(turns, AnyKind) BY <2>1, PartMeans DEF AnyKind
  <2>3. PICK k \in DOMAIN items : p \in items[k].parts BY <1>3, <2>2 DEF Arranges
  <2>4. CASE x = "result" BY <1>4, <2>1, <2>3, <2>4
  <2>5. CASE x = "text"
    <3>1. k \in speaking BY <1>2, <1>3, <2>1, <2>3, <2>5 DEF Arranges
    <3> QED BY <1>4, <2>1, <2>3, <2>5, <3>1
  <2> QED BY <2>1, <2>4, <2>5
<1>6. ASSUME NEW p \in user \union result \union memory
      PROVE  p \in PartsIn(turns, {"text", "result"})
  <2>1. (\E k \in DOMAIN items : p \in items[k].parts) /\ p[2] \in {"text", "result"} BY <1>4
  <2>2. p \in PartsIn(turns, AnyKind) BY <1>3, <2>1 DEF Arranges
  <2>3. PICK i \in DOMAIN turns, x \in AnyKind : x \in turns[i].parts /\ p = <<i, x>>
    BY <2>2, PartMeans
  <2> QED BY <2>1, <2>3, PartMeans
<1>7. user \intersect memory = {} BY <1>3, <1>4 DEF Arranges
<1>8. user \intersect result = {} /\ result \intersect memory = {} BY <1>4
<1> QED BY <1>1, <1>5, <1>6, <1>7, <1>8

\* One item for each turn, in place.
LEMMA OneItemEach ==
  ASSUME NEW turns \in Seq(TurnType), NEW items, DOMAIN items = DOMAIN turns,
         \A i \in DOMAIN turns :
           /\ items[i].parts = {i} \X turns[i].parts
           /\ items[i].role \in {"user", "assistant"} \/ "text" \notin turns[i].parts
  PROVE  Arranges(items, turns)
<1>1. \A i \in DOMAIN turns : turns[i].parts \subseteq AnyKind
  <2>1. \A i \in DOMAIN turns : turns[i] \in TurnType OBVIOUS
  <2> QED BY <2>1 DEF TurnType, AnyKind
<1>2. DOMAIN turns = 1..Len(turns) /\ Len(turns) \in Nat OBVIOUS
<1>3. ASSUME NEW p
      PROVE  (\E k \in DOMAIN items : p \in items[k].parts) <=> p \in PartsIn(turns, AnyKind)
  <2>1. \A i \in DOMAIN turns :
          p \in items[i].parts <=> \E x \in AnyKind : x \in turns[i].parts /\ p = <<i, x>>
    BY <1>1
  <2> QED BY <2>1, PartMeans
<1>4. \A k, l \in DOMAIN items : k # l => items[k].parts \intersect items[l].parts = {}
  OBVIOUS
<1>5. ASSUME NEW k \in DOMAIN items, items[k].role \notin {"user", "assistant"},
             NEW p \in items[k].parts
      PROVE  p[2] # "text"
  BY <1>5
<1> QED BY <1>2, <1>3, <1>4, <1>5 DEF Arranges

\* The turn of a tool holds what the tool returned, and no text of its own.
ToolsSayResults(turns) ==
  \A i \in DOMAIN turns : turns[i].kind = "tool" => "text" \notin turns[i].parts

\* The surfaces a call may be recorded on.
Surfaces == {"anthropic", "openai", "responses", "gemini", "langchain"}

\* What a turn becomes on the surfaces that keep it in place.
InPlace(items, turns, tool) ==
  /\ DOMAIN items = DOMAIN turns
  /\ \A i \in DOMAIN turns :
       /\ items[i].parts = {i} \X turns[i].parts
       /\ items[i].role = IF turns[i].kind = "ai" THEN "assistant"
                          ELSE IF turns[i].kind = "tool" THEN tool ELSE "user"

\* What a turn is.
LEMMA KindsAre ==
  ASSUME NEW turns \in Seq(TurnType), NEW i \in DOMAIN turns
  PROVE  turns[i].kind \in {"human", "ai", "tool"} /\ turns[i].parts \subseteq AnyKind
         /\ turns[i].loose \in BOOLEAN
<1>1. turns[i] \in TurnType OBVIOUS
<1> QED BY <1>1 DEF TurnType, AnyKind

\* All surfaces but one keep every turn in place.
LEMMA ItemsInPlace ==
  ASSUME NEW turns \in Seq(TurnType)
  PROVE  /\ InPlace(A!AnthropicItems(turns), turns, "user")
         /\ InPlace(A!OpenAIItems(turns), turns, "tool")
         /\ InPlace(A!ResponsesItems(turns), turns, "none")
         /\ InPlace(A!LangChainItems(turns), turns, "tool")
<1>1. InPlace(A!AnthropicItems(turns), turns, "user")
  BY KindsAre DEF InPlace, A!AnthropicItems, A!Item
<1>2. InPlace(A!OpenAIItems(turns), turns, "tool")
  BY KindsAre DEF InPlace, A!OpenAIItems, A!Item, A!Roles
<1>3. InPlace(A!ResponsesItems(turns), turns, "none")
  BY KindsAre DEF InPlace, A!ResponsesItems, A!Item, A!Roles
<1>4. InPlace(A!LangChainItems(turns), turns, "tool") BY <1>2 DEF A!LangChainItems
<1> QED BY <1>1, <1>2, <1>3, <1>4

\* Turns kept in place are arranged.
LEMMA InPlaceArranges ==
  ASSUME NEW turns \in Seq(TurnType), ToolsSayResults(turns), NEW items,
         NEW tool, InPlace(items, turns, tool)
  PROVE  Arranges(items, turns)
<1>1. \A i \in DOMAIN turns :
        items[i].role \in {"user", "assistant"} \/ "text" \notin turns[i].parts
  BY KindsAre DEF InPlace, ToolsSayResults
<1>2. DOMAIN items = DOMAIN turns /\ \A i \in DOMAIN turns : items[i].parts = {i} \X turns[i].parts
  BY DEF InPlace
<1> QED BY <1>1, <1>2, OneItemEach

\* Gemini's contents, where some have no dict around them: the dicts by rank, and a
\* last content of what is left.
LEMMA LooseArranged ==
  ASSUME NEW turns \in Seq(TurnType), ToolsSayResults(turns),
         {i \in DOMAIN turns : turns[i].loose} # {}
  PROVE  Arranges(A!GeminiItems(turns), turns)
<1> DEFINE placed == A!AnthropicItems(turns)
           loose == {i \in DOMAIN turns : turns[i].loose}
           dicts == DOMAIN turns \ loose
           Nth(k) == CHOOSE i \in dicts : A!Cardinality({j \in dicts : j <= i}) = k
           n == A!Cardinality(dicts)
           wrapped == [k \in 1..n |-> placed[Nth(k)]]
           rest == [role |-> "user", parts |-> UNION {placed[i].parts : i \in loose}]
           items == Append(wrapped, rest)
<1>1. A!GeminiItems(turns) = items BY DEF A!GeminiItems
<1>2. InPlace(placed, turns, "user") BY ItemsInPlace
<1>3. DOMAIN turns = 1..Len(turns) /\ Len(turns) \in Nat OBVIOUS
<1>4. loose \subseteq DOMAIN turns OBVIOUS
<1> HIDE DEF loose, placed
<1>5. dicts \in SUBSET Nat /\ IsFiniteSet(dicts)
  <2>1. dicts \in SUBSET (1..Len(turns)) BY <1>3
  <2>2. IsFiniteSet(1..Len(turns)) BY <1>3, FS_Interval
  <2>3. \A i \in dicts : i \in Nat BY <1>3
  <2> HIDE DEF dicts
  <2> QED BY <2>1, <2>2, <2>3, FS_Subset
<1>6. \A i \in DOMAIN turns : i \in dicts <=> i \notin loose OBVIOUS
<1>7. dicts \subseteq DOMAIN turns OBVIOUS
<1> HIDE DEF dicts
<1>8. /\ n \in Nat
      /\ \A i, j \in dicts : i < j => RankIn(dicts, i) < RankIn(dicts, j)
      /\ \A i \in dicts : RankIn(dicts, i) \in 1..n
      /\ \A k \in 1..n : \E i \in dicts : RankIn(dicts, i) = k
  <2>1. n = Cardinality(dicts) BY SameSize
  <2> HIDE DEF n
  <2> QED BY <1>5, <2>1, RanksEnumerate
<1>9. \A i : A!Cardinality({j \in dicts : j <= i}) = RankIn(dicts, i)
  BY SameSize DEF RankIn
<1>10. \A k \in 1..n : Nth(k) \in dicts /\ RankIn(dicts, Nth(k)) = k BY <1>8, <1>9
<1>11. \A i \in dicts : RankIn(dicts, i) \in 1..n /\ Nth(RankIn(dicts, i)) = i
  <2>1. ASSUME NEW i \in dicts PROVE Nth(RankIn(dicts, i)) = i
    <3>1. PICK j \in dicts : j = Nth(RankIn(dicts, i)) /\ RankIn(dicts, j) = RankIn(dicts, i)
      BY <1>8, <1>10
    <3>2. RankIn(dicts, i) \in Nat /\ i \in Nat /\ j \in Nat BY <1>5, <1>8
    <3>3. ~(i < j) /\ ~(j < i) BY <1>8, <3>1, <3>2
    <3> QED BY <3>1, <3>2, <3>3
  <2> QED BY <1>8, <2>1
<1> HIDE DEF Nth, n
<1>12. /\ DOMAIN items = 1..(n + 1) /\ items[n + 1] = rest
       /\ \A k \in 1..n : items[k] = placed[Nth(k)]
  <2> DEFINE Any == {placed[Nth(k)] : k \in 1..n} \union {rest}
  <2>1. wrapped \in [1..n -> Any] /\ rest \in Any OBVIOUS
  <2>2. wrapped \in Seq(Any) /\ Len(wrapped) = n BY <1>8, <2>1
  <2>3. \A k \in 1..n : wrapped[k] = placed[Nth(k)] OBVIOUS
  <2> HIDE DEF wrapped, rest, Any
  <2>4. /\ items \in Seq(Any) /\ Len(items) = Len(wrapped) + 1
        /\ \A k \in 1..Len(wrapped) : items[k] = wrapped[k]
        /\ items[Len(wrapped) + 1] = rest
    BY <2>1, <2>2, AppendProperties
  <2>5. DOMAIN items = 1..Len(items) BY <2>4
  <2> QED BY <2>2, <2>3, <2>4, <2>5
<1> HIDE DEF items
<1>13. rest.role = "user"
       /\ \A p : p \in rest.parts <=> \E i \in loose : p \in placed[i].parts
  OBVIOUS
<1> HIDE DEF rest, wrapped
<1>14. \A i \in DOMAIN turns : placed[i].parts = {i} \X turns[i].parts
                               /\ placed[i].role \in {"user", "assistant"}
  BY <1>2, KindsAre DEF InPlace
<1>15. \A k \in 1..(n + 1) : k \in 1..n \/ k = n + 1 BY <1>8
<1>16. ASSUME NEW p
       PROVE  (\E k \in DOMAIN items : p \in items[k].parts) <=> p \in PartsIn(turns, AnyKind)
  <2>1. ASSUME NEW k \in DOMAIN items, p \in items[k].parts
        PROVE  \E i \in DOMAIN turns : p \in placed[i].parts
    BY <1>4, <1>7, <1>10, <1>12, <1>13, <1>15, <2>1
  <2>2. ASSUME NEW i \in DOMAIN turns, p \in placed[i].parts
        PROVE  \E k \in DOMAIN items : p \in items[k].parts
    <3>1. CASE i \in loose
      <4>1. n + 1 \in DOMAIN items BY <1>8, <1>12
      <4> QED BY <1>12, <1>13, <2>2, <3>1, <4>1
    <3>2. CASE i \in dicts
      <4>1. RankIn(dicts, i) \in 1..n /\ items[RankIn(dicts, i)] = placed[i]
        BY <1>11, <1>12, <3>2
      <4>2. RankIn(dicts, i) \in DOMAIN items BY <1>8, <1>12, <4>1
      <4> QED BY <2>2, <4>1, <4>2
    <3> QED BY <1>6, <3>1, <3>2
  <2>3. p \in PartsIn(turns, AnyKind) <=> \E i \in DOMAIN turns : p \in placed[i].parts
    <3>1. \A i \in DOMAIN turns :
            p \in placed[i].parts <=> \E x \in AnyKind : x \in turns[i].parts /\ p = <<i, x>>
      BY <1>14, KindsAre
    <3> QED BY <3>1, PartMeans
  <2> QED BY <2>1, <2>2, <2>3
<1>17. \A i, j \in DOMAIN turns : i # j => placed[i].parts \intersect placed[j].parts = {}
  BY <1>14
<1>18. \A k, l \in 1..n : k # l => items[k].parts \intersect items[l].parts = {}
  <2>1. ASSUME NEW k \in 1..n, NEW l \in 1..n, k # l PROVE Nth(k) # Nth(l) BY <1>10, <2>1
  <2> QED BY <1>7, <1>10, <1>12, <1>17, <2>1
<1>19. \A k \in 1..n : items[k].parts \intersect items[n + 1].parts = {}
  <2>1. ASSUME NEW k \in 1..n, NEW i \in loose
        PROVE  placed[Nth(k)].parts \intersect placed[i].parts = {}
    BY <1>4, <1>6, <1>7, <1>10, <1>17
  <2> QED BY <1>12, <1>13, <2>1
<1>20. \A k, l \in DOMAIN items : k # l => items[k].parts \intersect items[l].parts = {}
  BY <1>12, <1>15, <1>18, <1>19
<1>21. \A k \in DOMAIN items : items[k].role \in {"user", "assistant"}
  BY <1>7, <1>10, <1>12, <1>13, <1>14, <1>15
<1>22. n + 1 \in Nat BY <1>8
<1> QED BY <1>1, <1>12, <1>16, <1>20, <1>21, <1>22 DEF Arranges

\* Every surface arranges the turns.
LEMMA ItemsArranged ==
  ASSUME NEW turns \in Seq(TurnType), ToolsSayResults(turns), NEW surface \in Surfaces
  PROVE  Arranges(A!Items(surface, turns), turns)
<1>1. /\ Arranges(A!AnthropicItems(turns), turns) /\ Arranges(A!OpenAIItems(turns), turns)
      /\ Arranges(A!ResponsesItems(turns), turns) /\ Arranges(A!LangChainItems(turns), turns)
  BY ItemsInPlace, InPlaceArranges
<1>2. Arranges(A!GeminiItems(turns), turns)
  <2>1. CASE {i \in DOMAIN turns : turns[i].loose} = {}
    <3>1. A!GeminiItems(turns) = A!AnthropicItems(turns) BY <2>1 DEF A!GeminiItems
    <3> QED BY <1>1, <3>1
  <2> QED BY <2>1, LooseArranged
<1> QED BY <1>1, <1>2 DEF Surfaces, A!Items

\* The texts of some of the turns, and the results of all.
Texts(turns, at) == {<<i, "text">> : i \in {j \in at \intersect DOMAIN turns :
                                              "text" \in turns[j].parts}}
Results(turns) == {<<i, "result">> : i \in {j \in DOMAIN turns : "result" \in turns[j].parts}}

\* Where turns stay in place, a split is told by where the final user is.
LEMMA InPlaceSplit ==
  ASSUME NEW turns \in Seq(TurnType), ToolsSayResults(turns), NEW surface, NEW tool,
         InPlace(A!Items(surface, turns), turns, tool)
  PROVE  A!Split(surface, turns) =
           [user |-> Texts(turns, {A!LastUser(A!Items(surface, turns))}),
            result |-> Results(turns),
            memory |-> Texts(turns, DOMAIN turns \ {A!LastUser(A!Items(surface, turns))})]
<1> DEFINE items == A!Items(surface, turns)
           speaking == {k \in DOMAIN items : items[k].role \in {"user", "assistant"}}
           u == A!LastUser(items)
<1>1. A!Split(surface, turns) =
        [user |-> A!PartsOf(items, {"text"}, {u}),
         result |-> A!PartsOf(items, {"result"}, DOMAIN items),
         memory |-> A!PartsOf(items, {"text"}, speaking \ {u})]
  BY DEF A!Split, A!Memory
<1>2. InPlace(items, turns, tool) OBVIOUS
<1>3. \A k : k \in speaking <=> k \in DOMAIN items /\ items[k].role \in {"user", "assistant"}
  OBVIOUS
<1> HIDE DEF items, speaking, u
<1>4. \A i \in DOMAIN turns : "text" \in turns[i].parts => i \in speaking
  BY <1>2, <1>3, KindsAre DEF InPlace, ToolsSayResults
<1>5. ASSUME NEW x \in {"text", "result"}, NEW at, NEW p
      PROVE  p \in A!PartsOf(items, {x}, at) <=>
               \E i \in at : i \in DOMAIN turns /\ x \in turns[i].parts /\ p = <<i, x>>
  <2>1. \A i \in DOMAIN turns : p \in items[i].parts <=>
          \E y \in turns[i].parts : p = <<i, y>>
    BY <1>2 DEF InPlace
  <2>2. DOMAIN items = DOMAIN turns BY <1>2 DEF InPlace
  <2> QED BY <2>1, <2>2, PartsOfMeans
<1>6. A!PartsOf(items, {"text"}, {u}) = Texts(turns, {u}) BY <1>5 DEF Texts
<1>7. A!PartsOf(items, {"result"}, DOMAIN items) = Results(turns)
  <2>1. DOMAIN items = DOMAIN turns BY <1>2 DEF InPlace
  <2> QED BY <1>5, <2>1 DEF Results
<1>8. A!PartsOf(items, {"text"}, speaking \ {u}) = Texts(turns, DOMAIN turns \ {u})
  <2>1. DOMAIN items = DOMAIN turns BY <1>2 DEF InPlace
  <2> QED BY <1>3, <1>4, <1>5, <2>1 DEF Texts
<1> QED BY <1>1, <1>6, <1>7, <1>8 DEF items, u

\* The two layers split a call alike but where a tool's turn ends it.
LEMMA SplitsAgree ==
  ASSUME NEW turns \in Seq(TurnType), ToolsSayResults(turns), NEW surface \in Surfaces,
         ~(\E i \in DOMAIN turns : turns[i].loose)
  PROVE  LET mine == A!Split(surface, turns)
             other == A!Split("langchain", turns)
         IN  \/ mine = other
             \/ /\ surface \in {"anthropic", "gemini"} /\ A!ToolTurn(turns)
                /\ mine.user = {} /\ mine.memory = other.memory \union other.user
<1> DEFINE Last(items) == A!LastUser(items)
           theirs == A!Items("langchain", turns)
           items == A!Items(surface, turns)
<1>1. theirs = A!LangChainItems(turns) /\ InPlace(theirs, turns, "tool")
  BY ItemsInPlace DEF A!Items
<1>2. PICK tool \in {"user", "tool", "none"} :
        /\ InPlace(items, turns, tool)
        /\ tool = "user" => surface \in {"anthropic", "gemini"}
  <2>1. CASE surface = "gemini"
    <3>1. A!GeminiItems(turns) = A!AnthropicItems(turns) BY DEF A!GeminiItems
    <3>2. items = A!GeminiItems(turns) BY <2>1 DEF A!Items
    <3> QED BY <2>1, <3>1, <3>2, ItemsInPlace
  <2>2. CASE surface = "anthropic"
    <3>1. items = A!AnthropicItems(turns) BY <2>2 DEF A!Items
    <3> QED BY <2>2, <3>1, ItemsInPlace
  <2>3. CASE surface = "openai"
    <3>1. items = A!OpenAIItems(turns) BY <2>3 DEF A!Items
    <3> QED BY <3>1, ItemsInPlace
  <2>4. CASE surface = "responses"
    <3>1. items = A!ResponsesItems(turns) BY <2>4 DEF A!Items
    <3> QED BY <3>1, ItemsInPlace
  <2>5. CASE surface = "langchain" BY <1>1, <2>5
  <2> QED BY <2>1, <2>2, <2>3, <2>4, <2>5 DEF Surfaces
<1>3. A!Split(surface, turns) =
        [user |-> Texts(turns, {Last(items)}), result |-> Results(turns),
         memory |-> Texts(turns, DOMAIN turns \ {Last(items)})]
  BY <1>2, InPlaceSplit
<1>4. A!Split("langchain", turns) =
        [user |-> Texts(turns, {Last(theirs)}), result |-> Results(turns),
         memory |-> Texts(turns, DOMAIN turns \ {Last(theirs)})]
  BY <1>1, InPlaceSplit
<1> HIDE DEF items, theirs
<1>5. PICK n \in Nat : DOMAIN turns = 1..n
  <2>1. DOMAIN turns = 1..Len(turns) /\ Len(turns) \in Nat OBVIOUS
  <2> QED BY <2>1
<1>6. DOMAIN items = 1..n /\ DOMAIN theirs = 1..n BY <1>1, <1>2, <1>5 DEF InPlace
<1>7. CASE tool # "user"
  <2>1. \A i \in 1..n : items[i].role = "user" <=> theirs[i].role = "user"
    BY <1>1, <1>2, <1>5, <1>7, KindsAre DEF InPlace
  <2>2. {i \in DOMAIN items : items[i].role = "user"} =
          {i \in DOMAIN theirs : theirs[i].role = "user"}
    BY <1>6, <2>1
  <2>3. Last(items) = Last(theirs) BY <2>2 DEF A!LastUser
  <2> QED BY <1>3, <1>4, <2>3
<1>8. CASE tool = "user"
  <2>1. \A i \in 1..n : /\ items[i].role = "user" <=> turns[i].kind # "ai"
                        /\ theirs[i].role = "user" <=> turns[i].kind = "human"
    BY <1>1, <1>2, <1>5, <1>8, KindsAre DEF InPlace
  <2>2. CASE \A i \in 1..n : turns[i].kind = "ai"
    <3>1. Last(items) = 0 /\ Last(theirs) = 0 BY <1>6, <2>1, <2>2, LastUserIs
    <3> QED BY <1>3, <1>4, <3>1
  <2>3. CASE \E i \in 1..n : turns[i].kind # "ai"
    <3>1. PICK final \in 1..n : /\ final = Last(items) /\ turns[final].kind # "ai"
                               /\ \A k \in 1..n : turns[k].kind # "ai" => k <= final
      BY <1>6, <2>1, <2>3, LastUserIs
    <3>2. CASE turns[final].kind = "human"
      <4>1. PICK l \in 1..n : /\ l = Last(theirs) /\ turns[l].kind = "human"
                              /\ \A k \in 1..n : turns[k].kind = "human" => k <= l
        BY <1>6, <2>1, <3>2, LastUserIs
      <4>2. l <= final /\ final <= l BY <3>1, <3>2, <4>1
      <4>3. l = final BY <4>2
      <4> QED BY <1>3, <1>4, <3>1, <4>1, <4>3
    <3>3. CASE turns[final].kind = "tool"
      <4>1. A!ToolTurn(turns)
        <5>1. \A j \in DOMAIN turns : j > final => turns[j].kind # "human" BY <1>5, <3>1
        <5> QED BY <1>5, <3>3, <5>1 DEF A!ToolTurn
      <4>2. "text" \notin turns[final].parts BY <1>5, <3>3 DEF ToolsSayResults
      <4>3. Texts(turns, {final}) = {} BY <4>2 DEF Texts
      <4>4. Texts(turns, DOMAIN turns \ {final}) =
              Texts(turns, DOMAIN turns \ {Last(theirs)}) \union Texts(turns, {Last(theirs)})
        BY <4>2 DEF Texts
      <4>5. surface \in {"anthropic", "gemini"} BY <1>2, <1>8
      <4>6. /\ A!Split(surface, turns).user = Texts(turns, {final})
            /\ A!Split(surface, turns).memory = Texts(turns, DOMAIN turns \ {final})
        BY <1>3, <3>1
      <4>7. /\ A!Split("langchain", turns).user = Texts(turns, {Last(theirs)})
            /\ A!Split("langchain", turns).memory = Texts(turns, DOMAIN turns \ {Last(theirs)})
        BY <1>4
      <4> QED BY <4>1, <4>3, <4>4, <4>5, <4>6, <4>7
    <3> QED BY <1>5, <3>1, <3>2, <3>3, KindsAre
  <2> QED BY <2>2, <2>3
<1> QED BY <1>7, <1>8

-----------------------------------------------------------------------------
\* What a request comes to, and what it is charged.

\* What is assumed of a request.
LEMMA RequestIs ==
  ASSUME A!AttributionAssumption, NEW r \in Requests
  PROVE  /\ r.blocks \in Seq(Seq(A!Words)) /\ r.turns \in Seq(TurnType)
         /\ ToolsSayResults(r.turns) /\ IsFiniteSet(r.tools)
<1>1. /\ r.blocks \in Seq(Seq(A!Words)) /\ r.turns \in Seq(TurnType) /\ ToolsSayResults(r.turns)
  BY DEF A!AttributionAssumption, TurnType, ToolsSayResults
<1>2. A!IsFiniteSet(r.tools) BY DEF A!AttributionAssumption
<1>3. IsFiniteSet(r.tools) BY <1>2 DEF A!IsFiniteSet, IsFiniteSet
<1> QED BY <1>1, <1>3

\* The system block of a surface: all the blocks in one, or the first where there is one field.
LEMMA SystemIs ==
  ASSUME NEW W, NEW blocks \in Seq(Seq(W)), NEW surface
  PROVE  /\ A!System(surface, blocks) \in Seq(W)
         /\ Len(A!System(surface, blocks)) <= Len(A!FlattenSeq(blocks))
         /\ A!System(surface, blocks) =
              IF surface = "openai" /\ blocks # <<>> THEN Head(blocks) ELSE A!FlattenSeq(blocks)
<1>1. /\ A!FlattenSeq(blocks) \in Seq(W) /\ Len(A!FlattenSeq(blocks)) \in Nat
      /\ blocks # <<>> => Len(blocks[1]) <= Len(A!FlattenSeq(blocks))
  BY FlattenIs
<1>2. CASE surface = "openai" /\ blocks = <<>>
  <2>1. A!FlattenSeq(blocks) = <<>> BY <1>2 DEF A!FlattenSeq
  <2> QED BY <1>1, <1>2, <2>1 DEF A!System
<1>3. CASE surface = "openai" /\ blocks # <<>>
  <2>1. Head(blocks) = blocks[1] /\ Head(blocks) \in Seq(W) BY <1>3
  <2> QED BY <1>1, <1>3, <2>1 DEF A!System
<1>4. CASE surface # "openai" BY <1>1, <1>4 DEF A!System
<1> QED BY <1>2, <1>3, <1>4

\* A finite set falls into two.
LEMMA SizeOfTwo ==
  ASSUME NEW S, NEW T, NEW R, IsFiniteSet(R), R = S \union T, S \intersect T = {}
  PROVE  /\ IsFiniteSet(S) /\ IsFiniteSet(T)
         /\ A!Cardinality(S) \in Nat /\ A!Cardinality(T) \in Nat
         /\ A!Cardinality(R) = A!Cardinality(S) + A!Cardinality(T)
<1>1. IsFiniteSet(S) /\ IsFiniteSet(T)
  <2>1. S \subseteq R /\ T \subseteq R OBVIOUS
  <2> QED BY <2>1, FS_Subset
<1>2. Cardinality(S) \in Nat /\ Cardinality(T) \in Nat BY <1>1, FS_CardinalityType
<1>3. Cardinality(S \union T) =
        Cardinality(S) + Cardinality(T) - Cardinality(S \intersect T)
  BY <1>1, FS_Union
<1>4. Cardinality(S \intersect T) = 0 BY FS_EmptySet
<1> QED BY <1>1, <1>2, <1>3, <1>4, SameSize

\* A conversation has finitely many parts.
LEMMA PartsFinite ==
  ASSUME NEW turns \in Seq(TurnType), NEW kinds \in SUBSET AnyKind
  PROVE  IsFiniteSet(PartsIn(turns, kinds))
<1>1. DOMAIN turns = 1..Len(turns) /\ Len(turns) \in Nat OBVIOUS
<1>2. IsFiniteSet(1..Len(turns)) BY <1>1, FS_Interval
<1>3. IsFiniteSet(AnyKind)
  <2>1. /\ IsFiniteSet({"text"}) /\ IsFiniteSet({"result"})
        /\ IsFiniteSet({"image"}) /\ IsFiniteSet({"call"})
    BY FS_Singleton
  <2>2. IsFiniteSet({"text"} \union {"result"}) /\ IsFiniteSet({"image"} \union {"call"})
    BY <2>1, FS_Union
  <2>3. IsFiniteSet(({"text"} \union {"result"}) \union ({"image"} \union {"call"}))
    BY <2>2, FS_Union
  <2>4. AnyKind = ({"text"} \union {"result"}) \union ({"image"} \union {"call"})
    BY DEF AnyKind
  <2> QED BY <2>3, <2>4
<1>4. IsFiniteSet((1..Len(turns)) \X AnyKind) BY <1>2, <1>3, FS_Product
<1>5. PartsIn(turns, kinds) \subseteq (1..Len(turns)) \X AnyKind
  <2>1. ASSUME NEW p \in PartsIn(turns, kinds) PROVE p \in (1..Len(turns)) \X AnyKind
    BY <1>1, PartMeans
  <2> QED BY <2>1
<1> QED BY <1>4, <1>5, FS_Subset

\* The tokens of a request are those of its categories and those of none.
Media(turns) == PartsIn(turns, {"image", "call"})

\* They are those of the system blocks, the tools, and each part of the turns.
LEMMA TokensAre ==
  ASSUME A!AttributionAssumption, NEW r \in Requests, NEW surface \in Surfaces
  PROVE  LET s == A!Split(surface, r.turns)
         IN  /\ A!Tokens(r) \in Nat /\ Len(A!FlattenSeq(r.blocks)) \in Nat
             /\ A!Cardinality(s.user) \in Nat /\ A!Cardinality(s.result) \in Nat
             /\ A!Cardinality(s.memory) \in Nat /\ A!Cardinality(Media(r.turns)) \in Nat
             /\ A!Cardinality(r.tools \ {"callable"}) \in Nat
             /\ A!Cardinality(r.tools \intersect {"callable"}) \in Nat
             /\ A!Tokens(r) =
                  Len(A!FlattenSeq(r.blocks))
                    + A!Cardinality(r.tools \ {"callable"})
                    + A!Cardinality(r.tools \intersect {"callable"})
                    + A!Cardinality(s.user) + A!Cardinality(s.result)
                    + A!Cardinality(s.memory) + A!Cardinality(Media(r.turns))
<1>1. /\ r.blocks \in Seq(Seq(A!Words)) /\ r.turns \in Seq(TurnType)
      /\ ToolsSayResults(r.turns) /\ IsFiniteSet(r.tools)
  BY RequestIs
<1>2. PICK user, result, memory :
        /\ A!Split(surface, r.turns).user = user /\ A!Split(surface, r.turns).result = result
        /\ A!Split(surface, r.turns).memory = memory
        /\ user \union result \union memory = PartsIn(r.turns, {"text", "result"})
        /\ user \intersect result = {} /\ user \intersect memory = {}
        /\ result \intersect memory = {}
  <2>1. Arranges(A!Items(surface, r.turns), r.turns) BY <1>1, ItemsArranged
  <2> QED BY <1>1, <2>1, SplitOnce
<1>3. UNION {{i} \X r.turns[i].parts : i \in DOMAIN r.turns} = PartsIn(r.turns, AnyKind)
  <2>1. \A i \in DOMAIN r.turns : r.turns[i].parts \intersect AnyKind = r.turns[i].parts
    BY <1>1, KindsAre
  <2> QED BY <2>1 DEF PartsIn
<1> DEFINE said == PartsIn(r.turns, {"text", "result"})
           media == PartsIn(r.turns, {"image", "call"})
           all == PartsIn(r.turns, AnyKind)
<1>4. all = said \union media /\ said \intersect media = {}
  <2>1. ASSUME NEW p PROVE p \in all <=> p \in said \/ p \in media
    BY <1>1, PartMeans DEF AnyKind
  <2>2. ASSUME NEW p \in said, p \in media PROVE FALSE
    <3>1. PICK x \in {"text", "result"} : p[2] = x BY <1>1, PartMeans
    <3>2. PICK y \in {"image", "call"} : p[2] = y BY <1>1, <2>2, PartMeans
    <3> QED BY <3>1, <3>2
  <2> HIDE DEF all, said, media
  <2> QED BY <2>1, <2>2
<1>5. IsFiniteSet(all) /\ IsFiniteSet(said) BY <1>1, PartsFinite DEF AnyKind
<1> HIDE DEF all, said, media
<1>6. /\ A!Cardinality(said) \in Nat /\ A!Cardinality(media) \in Nat
      /\ A!Cardinality(all) = A!Cardinality(said) + A!Cardinality(media)
  BY <1>4, <1>5, SizeOfTwo
<1>7. /\ IsFiniteSet(user \union result)
      /\ A!Cardinality(user \union result) \in Nat /\ A!Cardinality(memory) \in Nat
      /\ A!Cardinality(said) = A!Cardinality(user \union result) + A!Cardinality(memory)
  <2>1. said = (user \union result) \union memory BY <1>2 DEF said
  <2>2. (user \union result) \intersect memory = {} BY <1>2
  <2> QED BY <1>5, <2>1, <2>2, SizeOfTwo
<1>8. /\ A!Cardinality(user) \in Nat /\ A!Cardinality(result) \in Nat
      /\ A!Cardinality(user \union result) = A!Cardinality(user) + A!Cardinality(result)
  BY <1>2, <1>7, SizeOfTwo
<1>9. /\ A!Cardinality(r.tools \ {"callable"}) \in Nat
      /\ A!Cardinality(r.tools \intersect {"callable"}) \in Nat
      /\ A!Cardinality(r.tools) = A!Cardinality(r.tools \ {"callable"})
                                    + A!Cardinality(r.tools \intersect {"callable"})
  <2>1. PICK S, T : S = r.tools \ {"callable"} /\ T = r.tools \intersect {"callable"} OBVIOUS
  <2>2. r.tools = S \union T /\ S \intersect T = {} BY <2>1
  <2>3. /\ A!Cardinality(S) \in Nat /\ A!Cardinality(T) \in Nat
        /\ A!Cardinality(r.tools) = A!Cardinality(S) + A!Cardinality(T)
    BY <1>1, <2>2, SizeOfTwo
  <2> QED BY <2>1, <2>3
<1>10. A!Tokens(r) = Len(A!FlattenSeq(r.blocks)) + A!Cardinality(r.tools) + A!Cardinality(all)
  BY <1>3 DEF A!Tokens, all
<1>11. Len(A!FlattenSeq(r.blocks)) \in Nat
  <2>1. A!FlattenSeq(r.blocks) \in Seq(A!Words) BY <1>1, FlattenIs
  <2> QED BY <2>1
<1>12. media = Media(r.turns) BY DEF media, Media
<1>13. PICK f, a, b, u, t, m, x \in Nat :
         /\ f = Len(A!FlattenSeq(r.blocks)) /\ a = A!Cardinality(r.tools \ {"callable"})
         /\ b = A!Cardinality(r.tools \intersect {"callable"})
         /\ u = A!Cardinality(user) /\ t = A!Cardinality(result)
         /\ m = A!Cardinality(memory) /\ x = A!Cardinality(media)
  BY <1>6, <1>7, <1>8, <1>9, <1>11
<1>14. A!Cardinality(r.tools) = a + b BY <1>9, <1>13
<1>15. A!Cardinality(all) = ((u + t) + m) + x BY <1>6, <1>7, <1>8, <1>13
<1>16. A!Tokens(r) = f + (a + b) + (((u + t) + m) + x) BY <1>10, <1>13, <1>14, <1>15
<1>17. A!Tokens(r) = f + a + b + u + t + m + x /\ A!Tokens(r) \in Nat BY <1>16
<1> QED BY <1>2, <1>12, <1>13, <1>17

\* What is billed is the tokens of the request and the output.
ChargeAdds(c, tokens) ==
  /\ c.fresh \in Nat /\ c.read \in Nat /\ c.written \in Nat
  /\ c.reasoning \in Nat /\ c.answer \in Nat
  /\ c.fresh + c.read + c.written = tokens

\* The cached tokens are read or written, which of the two the surface says.
LEMMA ChargeIs ==
  ASSUME A!AttributionAssumption, NEW r \in Requests, NEW bill \in Bills,
         NEW surface \in Surfaces, created \in BOOLEAN
  PROVE  /\ ChargeAdds(A!Charge(surface, r, bill), A!Tokens(r))
         /\ surface \in {"openai", "responses"} => A!Charge(surface, r, bill).written = 0
         /\ surface = "gemini" =>
              /\ created => A!Charge(surface, r, bill).read = 0
              /\ ~created => A!Charge(surface, r, bill).written = 0
<1>1. bill.cached \in Nat /\ bill.writes \in BOOLEAN /\ bill.reasoning \in Nat
      /\ bill.answer \in Nat
  BY DEF A!AttributionAssumption
<1>2. A!Tokens(r) \in Nat BY TokensAre
<1>3. PICK cached \in Nat : cached = A!Min({bill.cached, A!Tokens(r)}) /\ cached <= A!Tokens(r)
  <2>1. \E x \in {bill.cached, A!Tokens(r)} : \A y \in {bill.cached, A!Tokens(r)} : x <= y
    BY <1>1, <1>2
  <2> QED BY <1>1, <1>2, <2>1 DEF A!Min
<1>4. PICK written \in BOOLEAN :
        /\ written = CASE surface \in {"openai", "responses"} -> FALSE
                       [] surface = "gemini" -> created
                       [] OTHER -> bill.writes
        /\ surface \in {"openai", "responses"} => ~written
        /\ surface = "gemini" => (written <=> created)
  BY <1>1 DEF Surfaces
<1>5. A!Charge(surface, r, bill) =
        [fresh |-> A!Tokens(r) - cached, read |-> IF written THEN 0 ELSE cached,
         written |-> IF written THEN cached ELSE 0,
         reasoning |-> bill.reasoning, answer |-> bill.answer]
  BY <1>3, <1>4 DEF A!Charge
<1> QED BY <1>1, <1>2, <1>3, <1>4, <1>5 DEF ChargeAdds

-----------------------------------------------------------------------------
\* The ledgers of the calls.

\* What a response's usage says of a charge.
UsageTells(u, c) ==
  /\ u.read = c.read /\ u.created = c.written /\ u.reasoning = c.reasoning
  /\ u.output = c.answer + c.reasoning

\* The call that is to be recorded: its split is its surface's, and its ledger counts
\* that split, its system block and, when the response told, its charge.
CallTold(c) ==
  /\ c.request \in Requests /\ c.surface \in Surfaces /\ c.static \in Seq(A!Words)
  /\ c.split = A!Split(c.surface, c.request.turns)
  /\ ChargeAdds(c.charge, A!Tokens(c.request))
  /\ DOMAIN c.ledger = A!Causes \union {"cache_read", "cache_creation", "output"}
  /\ c.ledger.system_static = Len(c.static)
  /\ c.ledger.system_dynamic =
       Len(A!System(c.surface, c.request.blocks)) - Len(c.static)
  /\ c.ledger.user_input = A!Cardinality(c.split.user)
  /\ c.ledger.tool_schema = A!Cardinality(c.request.tools \ {"callable"})
  /\ c.ledger.tool_result = A!Cardinality(c.split.result)
  /\ c.ledger.memory = A!Cardinality(c.split.memory)
  /\ c.ledger.retrieved_context \in Nat
  /\ c.how = "usage" =>
       /\ c.ledger.cache_read = c.charge.read /\ c.ledger.cache_creation = c.charge.written
       /\ c.ledger.reasoning = c.charge.reasoning
       /\ c.ledger.output = c.charge.answer + c.charge.reasoning

\* The prefix is at the head of every block seen since it was last empty.
LedgerInv ==
  /\ prefix \in Seq(A!Words) /\ seen \subseteq Seq(A!Words)
  /\ \A block \in seen : A!IsPrefix(prefix, block)
  /\ pending \in Nat /\ created \in BOOLEAN
  /\ last # None => CallTold(last) /\ last.static = prefix

\* The static prefix is at the head of the block and, once there is one, only shrinks.
LEMMA PrefixUpdated ==
  ASSUME NEW W, NEW before \in Seq(W), NEW block \in Seq(W)
  PROVE  LET static == A!UpdateStablePrefix(before, block)
         IN  /\ static \in Seq(W) /\ A!IsPrefix(static, block)
             /\ before # <<>> => A!IsPrefix(static, before)
<1>1. CASE before = <<>>
  <2>1. A!IsPrefix(block, block) BY PrefixMeans
  <2> QED BY <1>1, <2>1 DEF A!UpdateStablePrefix
<1>2. CASE before # <<>> BY <1>2, CommonIsHead DEF A!UpdateStablePrefix
<1> QED BY <1>1, <1>2

\* Whatever a surface makes of the request and the response, the call is told.
LEMMA TranslateKeeps ==
  ASSUME A!AttributionAssumption, LedgerInv, NEW r \in Requests, NEW bill \in Bills,
         NEW surface \in Surfaces, NEW how, NEW usage,
         A!Translate(surface, r, bill, how, usage), created' \in BOOLEAN,
         how = "usage" => UsageTells(usage, A!Charge(surface, r, bill))
  PROVE  LedgerInv'
<1> DEFINE block == A!System(surface, r.blocks)
           static == A!UpdateStablePrefix(prefix, block)
           split == A!Split(surface, r.turns)
<1>1. block \in Seq(A!Words) BY RequestIs, SystemIs
<1>2. /\ static \in Seq(A!Words) /\ A!IsPrefix(static, block)
      /\ prefix # <<>> => A!IsPrefix(static, prefix)
  BY <1>1, PrefixUpdated DEF LedgerInv
<1>3. PICK c :
        /\ c = [surface |-> surface, request |-> r, how |-> how, split |-> split,
                static |-> static, charge |-> A!Charge(surface, r, bill),
                ledger |->
                  [system_static |-> Len(static), system_dynamic |-> Len(block) - Len(static),
                   user_input |-> A!Cardinality(split.user),
                   tool_schema |-> A!Cardinality(r.tools \ {"callable"}),
                   tool_result |-> A!Cardinality(split.result),
                   memory |-> A!Cardinality(split.memory),
                   retrieved_context |-> pending, reasoning |-> usage.reasoning,
                   cache_read |-> usage.read, cache_creation |-> usage.created,
                   output |-> usage.output]]
        /\ last' = c /\ prefix' = static /\ pending' = 0
        /\ seen' = (IF prefix = <<>> THEN {} ELSE seen) \union {block}
  BY DEF A!Translate
<1> HIDE DEF block, static, split
<1>4. CallTold(c)
  <2>1. ChargeAdds(c.charge, A!Tokens(c.request)) BY <1>3, ChargeIs DEF LedgerInv
  <2>2. /\ c.request \in Requests /\ c.surface \in Surfaces /\ c.static \in Seq(A!Words)
        /\ c.split = A!Split(c.surface, c.request.turns)
    BY <1>2, <1>3 DEF split
  <2>3. PICK l :
          /\ l = c.ledger
          /\ l = [system_static |-> Len(static), system_dynamic |-> Len(block) - Len(static),
                  user_input |-> A!Cardinality(split.user),
                  tool_schema |-> A!Cardinality(r.tools \ {"callable"}),
                  tool_result |-> A!Cardinality(split.result),
                  memory |-> A!Cardinality(split.memory),
                  retrieved_context |-> pending, reasoning |-> usage.reasoning,
                  cache_read |-> usage.read, cache_creation |-> usage.created,
                  output |-> usage.output]
    BY <1>3
  <2>4. DOMAIN l = A!Causes \union {"cache_read", "cache_creation", "output"}
    BY <2>3 DEF A!Causes
  <2>5. /\ l.system_static = Len(static) /\ l.system_dynamic = Len(block) - Len(static)
        /\ l.user_input = A!Cardinality(split.user)
        /\ l.tool_schema = A!Cardinality(r.tools \ {"callable"})
        /\ l.tool_result = A!Cardinality(split.result)
        /\ l.memory = A!Cardinality(split.memory) /\ l.retrieved_context \in Nat
        /\ l.reasoning = usage.reasoning /\ l.cache_read = usage.read
        /\ l.cache_creation = usage.created /\ l.output = usage.output
    BY <2>3 DEF LedgerInv
  <2>6. /\ c.surface = surface /\ c.request = r /\ c.how = how /\ c.split = split
        /\ c.static = static /\ c.charge = A!Charge(surface, r, bill)
    BY <1>3
  <2>7. Len(block) = Len(A!System(c.surface, c.request.blocks)) BY <2>6 DEF block
  <2>8. how = "usage" => UsageTells(usage, c.charge) BY <2>6
  <2> QED BY <2>1, <2>2, <2>3, <2>4, <2>5, <2>6, <2>7, <2>8 DEF CallTold, UsageTells
<1>5. ASSUME NEW b \in seen' PROVE b \in Seq(A!Words) /\ A!IsPrefix(static, b)
  <2>1. CASE b = block BY <1>1, <1>2, <2>1
  <2>2. CASE b # block
    <3>1. prefix # <<>> /\ b \in seen BY <1>3, <2>2
    <3>2. b \in Seq(A!Words) /\ A!IsPrefix(prefix, b) /\ prefix \in Seq(A!Words)
      BY <3>1 DEF LedgerInv
    <3> QED BY <1>2, <3>1, <3>2, PrefixOfPrefix
  <2> QED BY <2>1, <2>2
<1>6. c.static = static BY <1>3
<1>7. 0 \in Nat OBVIOUS
<1> QED BY <1>2, <1>3, <1>4, <1>5, <1>6, <1>7 DEF LedgerInv

\* What each provider's usage block and its translator tell of a charge.
LEMMA AnthropicTells ==
  ASSUME NEW c
  PROVE  UsageTells(A!AnthropicUsage(A!Report("anthropic", c)), c)
BY DEF UsageTells, A!AnthropicUsage, A!Report

\* OpenAI writes no cache it charges for.
LEMMA OpenAITells ==
  ASSUME NEW c, NEW tokens, ChargeAdds(c, tokens), c.written = 0,
         NEW surface \in {"openai", "responses"}
  PROVE  UsageTells(A!OpenAIUsage(A!Report(surface, c)), c)
BY DEF ChargeAdds, UsageTells, A!OpenAIUsage, A!Report

\* What Gemini has cached is charged as written when the call created it, else as read.
LEMMA GeminiTells ==
  ASSUME NEW c, NEW tokens, ChargeAdds(c, tokens), created => c.read = 0,
         ~created => c.written = 0
  PROVE  UsageTells(A!GeminiUsage(A!Report("gemini", c)), c)
BY DEF ChargeAdds, UsageTells, A!GeminiUsage, A!Report

\* The handler's usage_metadata tells all of it.
LEMMA LangChainTells ==
  ASSUME NEW c
  PROVE  UsageTells(A!LangChainUsage(A!Report("langchain", c), "usage"), c)
BY DEF UsageTells, A!LangChainUsage, A!Report

\* A step, a call of any surface among them, keeps what the ledgers tell.
LEMMA LedgerStep ==
  ASSUME A!AttributionAssumption, LedgerInv, [A!Next]_(A!vars)
  PROVE  LedgerInv'
<1>1. CASE UNCHANGED A!vars
  <2>1. /\ prefix' = prefix /\ pending' = pending /\ created' = created
        /\ seen' = seen /\ last' = last
    BY <1>1 DEF A!vars
  <2> QED BY <2>1 DEF LedgerInv
<1>2. CASE A!TagRetrieval
  <2>1. /\ prefix' = prefix /\ pending' = pending + 1 /\ created' = created
        /\ seen' = seen /\ last' = last
    BY <1>2 DEF A!TagRetrieval
  <2>2. pending' \in Nat BY <2>1 DEF LedgerInv
  <2> QED BY <2>1, <2>2 DEF LedgerInv
<1>3. CASE A!CreateResource
  <2>1. /\ prefix' = prefix /\ pending' = pending /\ created' = TRUE
        /\ seen' = seen /\ last' = last
    BY <1>3 DEF A!CreateResource
  <2> QED BY <2>1 DEF LedgerInv
<1>4. CASE A!Record
  <2>1. /\ prefix' = prefix /\ pending' = pending /\ created' = created
        /\ seen' = seen /\ last' = None
    BY <1>4 DEF A!Record
  <2> QED BY <2>1 DEF LedgerInv
<1>5. ASSUME NEW r \in Requests, NEW bill \in Bills, NEW how \in {"usage", "counts", "nothing"}
      PROVE  /\ A!AnthropicCall(r, bill, how) => LedgerInv'
             /\ A!OpenAICall(r, bill, how) => LedgerInv'
             /\ A!ResponsesCall(r, bill, how) => LedgerInv'
             /\ A!GeminiCall(r, bill, how) => LedgerInv'
             /\ A!LangChainCall(r, bill, how) => LedgerInv'
  <2>1. created \in BOOLEAN BY DEF LedgerInv
  <2>2. ASSUME A!AnthropicCall(r, bill, how) PROVE LedgerInv'
    <3> DEFINE c == A!Charge("anthropic", r, bill)
               usage == IF how = "nothing" THEN A!NoUsage
                        ELSE A!AnthropicUsage(A!Report("anthropic", c))
    <3>1. "anthropic" \in Surfaces BY DEF Surfaces
    <3>2. A!Translate("anthropic", r, bill, how, usage) /\ created' = created
      BY <2>2 DEF A!AnthropicCall, A!Reported
    <3> HIDE DEF c
    <3>4. UsageTells(A!AnthropicUsage(A!Report("anthropic", c)), c) BY AnthropicTells
    <3>5. how = "usage" => UsageTells(usage, c) BY <3>4
    <3> HIDE DEF usage
    <3> QED BY <2>1, <3>1, <3>2, <3>5, TranslateKeeps DEF c
  <2>3. ASSUME A!OpenAICall(r, bill, how) PROVE LedgerInv'
    <3> DEFINE c == A!Charge("openai", r, bill)
               usage == IF how = "nothing" THEN A!NoUsage
                        ELSE A!OpenAIUsage(A!Report("openai", c))
    <3>1. "openai" \in Surfaces BY DEF Surfaces
    <3>2. A!Translate("openai", r, bill, how, usage) /\ created' = created
      BY <2>3 DEF A!OpenAICall, A!Reported
    <3>3. ChargeAdds(c, A!Tokens(r)) /\ c.written = 0 BY <2>1, <3>1, ChargeIs
    <3> HIDE DEF c
    <3>4. UsageTells(A!OpenAIUsage(A!Report("openai", c)), c) BY <3>3, OpenAITells
    <3>5. how = "usage" => UsageTells(usage, c) BY <3>4
    <3> HIDE DEF usage
    <3> QED BY <2>1, <3>1, <3>2, <3>5, TranslateKeeps DEF c
  <2>4. ASSUME A!ResponsesCall(r, bill, how) PROVE LedgerInv'
    <3> DEFINE c == A!Charge("responses", r, bill)
               usage == IF how = "nothing" THEN A!NoUsage
                        ELSE A!OpenAIUsage(A!Report("responses", c))
    <3>1. "responses" \in Surfaces BY DEF Surfaces
    <3>2. A!Translate("responses", r, bill, how, usage) /\ created' = created
      BY <2>4 DEF A!ResponsesCall, A!Reported, A!ResponsesUsage
    <3>3. ChargeAdds(c, A!Tokens(r)) /\ c.written = 0 BY <2>1, <3>1, ChargeIs
    <3> HIDE DEF c
    <3>4. UsageTells(A!OpenAIUsage(A!Report("responses", c)), c) BY <3>3, OpenAITells
    <3>5. how = "usage" => UsageTells(usage, c) BY <3>4
    <3> HIDE DEF usage
    <3> QED BY <2>1, <3>1, <3>2, <3>5, TranslateKeeps DEF c
  <2>5. ASSUME A!GeminiCall(r, bill, how) PROVE LedgerInv'
    <3> DEFINE c == A!Charge("gemini", r, bill)
               usage == IF how = "nothing" THEN A!NoUsage
                        ELSE A!GeminiUsage(A!Report("gemini", c))
    <3>1. "gemini" \in Surfaces BY DEF Surfaces
    <3>2. A!Translate("gemini", r, bill, how, usage) /\ created' = FALSE
      BY <2>5 DEF A!GeminiCall, A!Reported
    <3>3. /\ ChargeAdds(c, A!Tokens(r))
          /\ created => c.read = 0
          /\ ~created => c.written = 0
      BY <2>1, <3>1, ChargeIs
    <3> HIDE DEF c
    <3>4. UsageTells(A!GeminiUsage(A!Report("gemini", c)), c) BY <3>3, GeminiTells
    <3>5. how = "usage" => UsageTells(usage, c) BY <3>4
    <3> HIDE DEF usage
    <3> QED BY <2>1, <3>1, <3>2, <3>5, TranslateKeeps DEF c
  <2>6. ASSUME A!LangChainCall(r, bill, how) PROVE LedgerInv'
    <3> DEFINE c == A!Charge("langchain", r, bill)
               usage == IF how = "nothing" THEN A!NoUsage
                        ELSE A!LangChainUsage(A!Report("langchain", c), how)
    <3>1. "langchain" \in Surfaces BY DEF Surfaces
    <3>2. A!Translate("langchain", r, bill, how, usage) /\ created' = created
      BY <2>6 DEF A!LangChainCall, A!Reported
    <3> HIDE DEF c
    <3>4. UsageTells(A!LangChainUsage(A!Report("langchain", c), "usage"), c)
      BY LangChainTells
    <3>5. how = "usage" => UsageTells(usage, c) BY <3>4
    <3> HIDE DEF usage
    <3> QED BY <2>1, <3>1, <3>2, <3>5, TranslateKeeps DEF c
  <2> QED BY <2>2, <2>3, <2>4, <2>5, <2>6
<1> QED BY <1>1, <1>2, <1>3, <1>4, <1>5 DEF A!Next

\* Before any call nothing is told.
LEMMA LedgerInitial == A!Init => LedgerInv
<1> SUFFICES ASSUME A!Init PROVE LedgerInv OBVIOUS
<1>1. prefix = <<>> /\ pending = 0 /\ created = FALSE /\ seen = {} /\ last = None
  BY DEF A!Init
<1>2. <<>> \in Seq(A!Words) OBVIOUS
<1> QED BY <1>1, <1>2 DEF LedgerInv

\* It always holds, whichever component of the process moves.
LEMMA LedgerInductive == ProcessSpec => []LedgerInv
<1>1. ProcessInit => LedgerInv BY LedgerInitial DEF ProcessInit
<1>2. [ProcessNext]_processVars => [A!Next]_(A!vars)
  BY DEF ProcessNext, processVars, ledgerState, A!vars
<1>3. LedgerInv /\ [A!Next]_(A!vars) => LedgerInv'
  BY LedgerStep, AttributionAssumption
<1>4. QED BY <1>1, <1>2, <1>3, PTL DEF ProcessSpec

\* What is static is at the head of every block seen.
LEMMA StaticShared == ASSUME LedgerInv PROVE A!StaticIsShared
BY DEF LedgerInv, A!StaticIsShared

\* The call told has every text and result in one category, as its other layer would.
LEMMA CallAttributed ==
  ASSUME A!AttributionAssumption, LedgerInv
  PROVE  A!AttributedOnce /\ A!LayersAgree
<1>1. ASSUME last # None PROVE A!AttributedOnce /\ A!LayersAgree
  <2>1. CallTold(last) BY <1>1 DEF LedgerInv
  <2> DEFINE r == last.request
             s == last.split
  <2>2. /\ r \in Requests /\ last.surface \in Surfaces
        /\ s = A!Split(last.surface, r.turns)
    BY <2>1 DEF CallTold
  <2>3. /\ r.blocks \in Seq(Seq(A!Words)) /\ r.turns \in Seq(TurnType)
        /\ ToolsSayResults(r.turns)
    BY <2>2, RequestIs
  <2>4. Arranges(A!Items(last.surface, r.turns), r.turns) BY <2>2, <2>3, ItemsArranged
  <2>5. /\ s.user \union s.result \union s.memory = PartsIn(r.turns, {"text", "result"})
        /\ s.user \intersect s.result = {} /\ s.user \intersect s.memory = {}
        /\ s.result \intersect s.memory = {}
    BY <2>2, <2>3, <2>4, SplitOnce
  <2>6. last.ledger.system_static + last.ledger.system_dynamic =
          Len(IF last.surface = "openai" /\ r.blocks # <<>>
              THEN Head(r.blocks) ELSE A!FlattenSeq(r.blocks))
    <3>1. PICK block \in Seq(A!Words) :
            /\ block = A!System(last.surface, r.blocks)
            /\ block = IF last.surface = "openai" /\ r.blocks # <<>>
                       THEN Head(r.blocks) ELSE A!FlattenSeq(r.blocks)
      BY <2>3, SystemIs
    <3>2. last.ledger.system_static = Len(last.static)
          /\ last.ledger.system_dynamic = Len(block) - Len(last.static)
          /\ last.static \in Seq(A!Words)
      BY <2>1, <3>1 DEF CallTold
    <3>3. Len(last.static) \in Nat /\ Len(block) \in Nat BY <3>2
    <3> QED BY <3>1, <3>2, <3>3
  <2>7. A!AttributedOnce BY <2>5, <2>6 DEF A!AttributedOnce, PartsIn
  <2>8. A!LayersAgree
    <3> SUFFICES ASSUME ~A!Loose(r)
                 PROVE  LET other == A!Split("langchain", r.turns)
                        IN  \/ s = other
                            \/ /\ last.surface \in {"anthropic", "gemini"}
                               /\ A!ToolTurn(r.turns) /\ s.user = {}
                               /\ s.memory = other.memory \union other.user
      BY DEF A!LayersAgree
    <3>1. ~(\E i \in DOMAIN r.turns : r.turns[i].loose) BY DEF A!Loose
    <3> QED BY <2>2, <2>3, <3>1, SplitsAgree
  <2> QED BY <2>7, <2>8
<1>2. ASSUME ~(last # None) PROVE A!AttributedOnce /\ A!LayersAgree
  BY <1>2 DEF A!AttributedOnce, A!LayersAgree
<1> QED BY <1>1, <1>2

\* At a price that is not negative, more tokens do not come to less.
LEMMA LargerProduct ==
  ASSUME NEW a \in Int, NEW b \in Int, NEW rate \in Nat, a <= b
  PROVE  a * rate <= b * rate
OBVIOUS

\* The tokens counted, those billed, and what makes the difference.
TokensAdd(total, cached, fresh, twice, missed, billed) ==
  /\ total \in Int /\ cached \in Nat /\ fresh \in Nat /\ twice \in Nat /\ missed \in Nat
  /\ total - (fresh + cached) = twice - missed
  /\ billed \in Int /\ billed = A!Max({0, total - cached})

\* What they come to at a price.
PricesAdd(total, cached, fresh, twice, missed, billed, rate) ==
  /\ billed * rate - fresh * rate <= rate * twice
  /\ billed * rate - fresh * rate >= - rate * missed
  /\ total * rate - billed * rate = rate * A!Min({total, cached})

\* The tokens add up, so the prices do.
LEMMA BillAdds ==
  ASSUME NEW total, NEW cached, NEW fresh, NEW twice, NEW missed, NEW billed,
         TokensAdd(total, cached, fresh, twice, missed, billed), NEW rate \in Nat
  PROVE  PricesAdd(total, cached, fresh, twice, missed, billed, rate)
<1>0. /\ total \in Int /\ cached \in Nat /\ fresh \in Nat /\ twice \in Nat /\ missed \in Nat
      /\ total - (fresh + cached) = twice - missed
      /\ billed \in Int /\ billed = A!Max({0, total - cached})
  BY DEF TokensAdd
<1>1. /\ total - cached <= 0 => billed = 0
      /\ total - cached > 0 => billed = total - cached
  <2>1. \E x \in {0, total - cached} : \A y \in {0, total - cached} : x >= y BY <1>0
  <2>2. billed \in {0, total - cached} /\ \A y \in {0, total - cached} : billed >= y
    BY <1>0, <2>1 DEF A!Max
  <2> QED BY <1>0, <2>2
<1>2. /\ total <= cached => A!Min({total, cached}) = total
      /\ total > cached => A!Min({total, cached}) = cached
  <2>1. \E x \in {total, cached} : \A y \in {total, cached} : x <= y BY <1>0
  <2>2. A!Min({total, cached}) \in {total, cached}
        /\ \A y \in {total, cached} : A!Min({total, cached}) <= y
    BY <2>1 DEF A!Min
  <2> QED BY <1>0, <2>2
<1>3. billed - fresh <= twice /\ -missed <= billed - fresh BY <1>0, <1>1
<1>4. (billed - fresh) * rate <= twice * rate BY <1>0, <1>3, LargerProduct
<1>5. (-missed) * rate <= (billed - fresh) * rate BY <1>0, <1>3, LargerProduct
<1>6. total - billed = A!Min({total, cached}) BY <1>0, <1>1, <1>2
<1>7. (total - billed) * rate = total * rate - billed * rate BY <1>0
<1>8. (billed - fresh) * rate = billed * rate - fresh * rate BY <1>0
<1>9. /\ twice * rate = rate * twice /\ (-missed) * rate = - rate * missed
      /\ (total - billed) * rate = rate * (total - billed)
  BY <1>0
<1> QED BY <1>0, <1>4, <1>5, <1>6, <1>7, <1>8, <1>9 DEF PricesAdd

\* The estimate of a call and what it was billed.
LEMMA CallExplained ==
  ASSUME A!AttributionAssumption, LedgerInv
  PROVE  A!BillExplained
<1> SUFFICES ASSUME last # None, last.how = "usage" PROVE A!BillExplained
  BY DEF A!BillExplained
<1>1. CallTold(last) BY DEF LedgerInv
<1> DEFINE r == last.request
           ledger == last.ledger
           charge == last.charge
           block == A!System(last.surface, r.blocks)
           whole == A!FlattenSeq(r.blocks)
           outside == A!Cardinality(Media(r.turns))
           callables == A!Cardinality(r.tools \intersect {"callable"})
<1>2. /\ r \in Requests /\ last.surface \in Surfaces
      /\ last.split = A!Split(last.surface, r.turns)
      /\ last.static \in Seq(A!Words)
  BY <1>1 DEF CallTold
<1>3. r.blocks \in Seq(Seq(A!Words)) BY <1>2, RequestIs
<1>4. block \in Seq(A!Words) /\ Len(block) <= Len(whole) BY <1>3, SystemIs
<1>5. PICK st, b, f \in Nat :
        st = Len(last.static) /\ b = Len(block) /\ f = Len(whole) /\ b <= f
  <2>1. whole \in Seq(A!Words) BY <1>3, FlattenIs
  <2>2. Len(last.static) \in Nat /\ Len(block) \in Nat /\ Len(whole) \in Nat
    BY <1>2, <1>4, <2>1
  <2> QED BY <1>4, <2>2
<1>6. PICK u, t, m, sc, x, k \in Nat :
        /\ u = A!Cardinality(last.split.user) /\ t = A!Cardinality(last.split.result)
        /\ m = A!Cardinality(last.split.memory)
        /\ sc = A!Cardinality(r.tools \ {"callable"}) /\ k = callables /\ x = outside
        /\ A!Tokens(r) = f + sc + k + u + t + m + x
  <2>1. /\ A!Cardinality(last.split.user) \in Nat /\ A!Cardinality(last.split.result) \in Nat
        /\ A!Cardinality(last.split.memory) \in Nat /\ outside \in Nat
        /\ A!Cardinality(r.tools \ {"callable"}) \in Nat /\ callables \in Nat
        /\ A!Tokens(r) =
             Len(whole) + A!Cardinality(r.tools \ {"callable"}) + callables
               + A!Cardinality(last.split.user) + A!Cardinality(last.split.result)
               + A!Cardinality(last.split.memory) + outside
    BY <1>2, TokensAre
  <2> QED BY <1>5, <2>1
<1>7. PICK fr, re, wr, rs, an \in Nat :
        /\ fr = charge.fresh /\ re = charge.read /\ wr = charge.written
        /\ rs = charge.reasoning /\ an = charge.answer
        /\ fr + re + wr = A!Tokens(r)
  <2>1. ChargeAdds(charge, A!Tokens(r)) BY <1>1 DEF CallTold
  <2>2. /\ charge.fresh \in Nat /\ charge.read \in Nat /\ charge.written \in Nat
        /\ charge.reasoning \in Nat /\ charge.answer \in Nat
        /\ charge.fresh + charge.read + charge.written = A!Tokens(r)
    BY <2>1 DEF ChargeAdds
  <2> HIDE DEF charge, r
  <2> QED BY <2>2
<1>8. PICK rc \in Nat : rc = ledger.retrieved_context BY <1>1 DEF CallTold
<1>9. /\ ledger.system_static = st /\ ledger.system_dynamic = b - st
      /\ ledger.user_input = u /\ ledger.tool_schema = sc /\ ledger.tool_result = t
      /\ ledger.memory = m /\ ledger.retrieved_context = rc
      /\ ledger.cache_read = re /\ ledger.cache_creation = wr
      /\ ledger.reasoning = rs /\ ledger.output = an + rs
  BY <1>1, <1>5, <1>6, <1>7, <1>8 DEF CallTold
<1>10. DOMAIN ledger = A!Causes \union {"cache_read", "cache_creation", "output"}
  BY <1>1 DEF CallTold
<1>11. PICK pi, pr, pw, po \in Nat :
         pi = Rates.input /\ pr = Rates.read /\ pw = Rates.write /\ po = Rates.output
  BY DEF A!AttributionAssumption
<1>12. A!Uncounted(last) = x + k + f - st - (b - st)
  <2>1. Media(r.turns) =
          UNION {{i} \X (r.turns[i].parts \intersect {"image", "call"}) : i \in DOMAIN r.turns}
    BY DEF Media, PartsIn
  <2> QED BY <1>5, <1>6, <1>9, <2>1 DEF A!Uncounted
<1> DEFINE total == st + (b - st) + u + sc + t + rc + m + rs
           cached == re + wr
           billed == A!Max({0, total - re - wr})
           missed == x + k + (f - b)
           split == A!EstimatePerCategory(ledger)
<1>13. A!InputTotal(ledger) = total BY <1>9 DEF A!InputTotal
<1>14. A!Charged(charge) = fr * pi + re * pr + wr * pw + (an + rs) * po
  BY <1>7, <1>11 DEF A!Charged
<1>15. A!Estimate(ledger) = billed * pi + re * pr + wr * pw + (an + rs) * po
  BY <1>9, <1>11, <1>13 DEF A!Estimate
<1>16. /\ split["system_static"] = st * pi /\ split["system_dynamic"] = (b - st) * pi
       /\ split["user_input"] = u * pi /\ split["tool_schema"] = sc * pi
       /\ split["tool_result"] = t * pi /\ split["retrieved_context"] = rc * pi
       /\ split["memory"] = m * pi /\ split["reasoning"] = rs * pi
       /\ split["cache_read"] = re * pr /\ split["cache_creation"] = wr * pw
       /\ split["output"] = (an + rs) * po
  BY <1>9, <1>10, <1>11 DEF A!EstimatePerCategory, A!Causes
<1>17. A!InputTotal(split) = total * pi
  <2>1. A!InputTotal(split) =
          st * pi + (b - st) * pi + u * pi + sc * pi + t * pi + rc * pi + m * pi + rs * pi
    BY <1>16 DEF A!InputTotal
  <2>2. st * pi + (b - st) * pi + u * pi + sc * pi + t * pi + rc * pi + m * pi + rs * pi =
          total * pi
    OBVIOUS
  <2> QED BY <2>1, <2>2
<1>18. /\ total \in Int /\ cached \in Nat /\ missed \in Nat /\ total - re - wr = total - cached
       /\ total - (fr + cached) = (rc + rs) - missed
  <2>1. fr + re + wr = f + sc + k + u + t + m + x BY <1>6, <1>7
  <2>2. missed \in Nat BY <1>5
  <2> QED BY <2>1, <2>2
<1>19. billed \in Int
  <2>1. \E y \in {0, total - re - wr} : \A z \in {0, total - re - wr} : y >= z BY <1>18
  <2>2. billed \in {0, total - re - wr} BY <2>1 DEF A!Max
  <2> QED BY <1>18, <2>2
<1> HIDE DEF split
<1>20. PICK all, paid, reused, gone, dup \in Int :
         /\ all = total /\ paid = billed /\ reused = cached /\ gone = missed /\ dup = rc + rs
  BY <1>18, <1>19
<1>21. /\ paid * pi - fr * pi <= pi * dup
       /\ paid * pi - fr * pi >= - pi * gone
       /\ all * pi - paid * pi = pi * A!Min({all, reused})
  <2>1. reused \in Nat /\ gone \in Nat /\ dup \in Nat BY <1>18, <1>20
  <2>2. all - (fr + reused) = dup - gone /\ paid = A!Max({0, all - reused})
    BY <1>18, <1>20
  <2>3. TokensAdd(all, reused, fr, dup, gone, paid) BY <2>1, <2>2 DEF TokensAdd
  <2>4. PricesAdd(all, reused, fr, dup, gone, paid, pi) BY <2>3, BillAdds
  <2> QED BY <2>4 DEF PricesAdd
<1>22. A!Estimate(ledger) - A!Charged(charge) = paid * pi - fr * pi
  <2>1. PICK a, c, d, e, h \in Int :
          /\ a = paid * pi /\ c = fr * pi /\ d = re * pr /\ e = wr * pw /\ h = (an + rs) * po
    BY <1>20
  <2>2. A!Estimate(ledger) = a + d + e + h /\ A!Charged(charge) = c + d + e + h
    BY <1>14, <1>15, <1>20, <2>1
  <2> QED BY <2>1, <2>2
<1>23. A!InputTotal(split) + split.cache_read + split.cache_creation + split.output
         - A!Estimate(ledger) = all * pi - paid * pi
  <2>1. PICK a, c, d, e, h \in Int :
          /\ a = paid * pi /\ c = all * pi /\ d = re * pr /\ e = wr * pw /\ h = (an + rs) * po
    BY <1>20
  <2>2. A!Estimate(ledger) = a + d + e + h BY <1>15, <1>20, <2>1
  <2>3. A!InputTotal(split) = c /\ split.cache_read = d /\ split.cache_creation = e
        /\ split.output = h
    BY <1>16, <1>17, <1>20, <2>1
  <2> QED BY <2>1, <2>2, <2>3
<1>24. A!Uncounted(last) = gone BY <1>5, <1>12, <1>20
<1>25. /\ dup = ledger.retrieved_context + ledger.reasoning
       /\ reused = ledger.cache_read + ledger.cache_creation /\ all = A!InputTotal(ledger)
  BY <1>9, <1>13, <1>20
<1> QED BY <1>11, <1>21, <1>22, <1>23, <1>24, <1>25 DEF A!BillExplained, split

\* On whichever surface a request is sent, its texts and results are in one category
\* each and the words of its system block in one of two, and the layer that records a
\* call makes no difference but where a tool's turn ends it (normalise/anthropic.py:95-201,
\* normalise/langchain.py:190-240).
THEOREM CallsAlwaysAttributedOnce == ProcessSpec => []AttributedOnce
<1>1. LedgerInv => AttributedOnce
  BY CallAttributed, AttributionAssumption DEF AttributedOnce
<1>2. QED BY <1>1, LedgerInductive, PTL

\* Whatever system blocks a run's calls have, what is counted as static is at the head
\* of every block since the last that had nothing in common (normalise/__init__.py:206-243).
THEOREM StaticAlwaysShared == ProcessSpec => []StaticIsShared
<1>1. LedgerInv => StaticIsShared BY StaticShared DEF StaticIsShared
<1>2. QED BY <1>1, LedgerInductive, PTL

\* For any requests, bills and prices, the estimate of a call differs from its charge by
\* what is counted twice or not at all, and from its split by the cached tokens
\* (pricing.py:143-311).
THEOREM BillsAlwaysExplained == ProcessSpec => []BillExplained
<1>1. LedgerInv => BillExplained
  BY CallExplained, AttributionAssumption DEF BillExplained
<1>2. QED BY <1>1, LedgerInductive, PTL
=============================================================================
