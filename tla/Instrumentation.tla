--------------------------- MODULE Instrumentation ---------------------------
(***************************************************************************)
(* instrument() and shutdown().  A lock admits one of them at a time; the  *)
(* calls of other threads, and other libraries that patch the same SDKs,   *)
(* come between their steps.  instrument() may raise at several of them,   *)
(* and undoes nothing: the process is then not instrumented but has what   *)
(* the attempt had set up, and a later attempt replaces the references to  *)
(* it.  Each attempt has a number, and what it sets up is known by that.   *)
(***************************************************************************)
EXTENDS Integers, Redaction

CONSTANTS
  Patched,     \* the call surfaces, in the order they are patched
  AppCalls,    \* calls that the application makes
  Options,     \* what instrument() may be given
  MaxAttempts, \* bound of the instance
  None

OptionsAssumption ==
  /\ Patched \in Seq({Patched[i] : i \in DOMAIN Patched})
  /\ \A o \in Options :
       /\ {o.replay, o.exports, o.ingest, o.external} \subseteq BOOLEAN
       /\ o.custom \in CustomHooks
  /\ MaxAttempts \in Nat /\ None \notin 1..MaxAttempts

\* What another library puts over an SDK: with functools.wraps, which copies our
\* mark along, or without.  Ours are the attempts' numbers.
Wraps == 0
Plain == -1

VARIABLES
  doing,         \* instrument() or shutdown() under way: pc, attempt, options, left
  instrumented,
  attempts,
  failed,        \* history: attempts that raised
  captureMode,
  opened,        \* storages not closed yet
  hooks,         \* per storage, its redaction hook
  running,       \* threads: <<kind, attempt>>
  inUse,       \* _STORAGE, _WORKER, _OTEL_EXPORTER, _OTEL_INGEST
  registry,      \* whose policies are registered
  enforcer,
  handler,       \* the LangChain handler is active
  sdk,           \* per surface, what was put over it, the innermost first
  shims,         \* _installed: per shim its surface and the original it saved
  othersSaved,   \* per surface, what another library found there
  meddled,       \* history: surfaces another library has put something over
  call,          \* per call, what its wrapper is
  contents       \* rows of calls: storage, mode, content

threadVars == <<running, inUse>>
gateVars == <<registry, enforcer, handler>>
sdkVars == <<sdk, shims>>
appVars == <<othersSaved, meddled, call, contents>>
vars == <<doing, instrumented, attempts, failed, captureMode, opened, hooks,
          threadVars, gateVars, sdkVars, appVars>>

SDKs == {Patched[i] : i \in DOMAIN Patched}
Kinds == {"storage", "worker", "exporter", "ingest"}
Idle == [pc |-> "idle", left |-> <<>>, options |-> None]

Init ==
  /\ doing = Idle
  /\ instrumented = FALSE /\ attempts = 0 /\ failed = {}
  /\ captureMode = "metadata"
  /\ opened = {} /\ hooks = [n \in 1..MaxAttempts |-> <<>>]
  /\ running = {} /\ inUse = [k \in Kinds |-> None]
  /\ registry = <<>> /\ enforcer = None /\ handler = FALSE
  /\ sdk = [s \in SDKs |-> <<>>] /\ shims = <<>>
  /\ othersSaved = [s \in SDKs |-> None] /\ meddled = {}
  /\ call = [c \in AppCalls |-> None] /\ contents = {}

At(pc) == doing.pc = pc
Go(pc) == doing' = [doing EXCEPT !.pc = pc]
Given == doing.options

\* The attempt raises: nothing is undone.
Raise ==
  /\ doing' = Idle
  /\ failed' = failed \union {attempts}

-----------------------------------------------------------------------------
\* instrument().  A second call while instrumented does nothing.
Begin(o) ==
  /\ At("idle") /\ ~instrumented /\ attempts < MaxAttempts
  /\ doing' = [pc |-> "connect", left |-> Patched, options |-> o]
  /\ attempts' = attempts + 1
  /\ captureMode' = IF o.replay THEN "replay" ELSE "metadata"
  /\ UNCHANGED <<instrumented, failed, opened, hooks, threadVars, gateVars, sdkVars, appVars>>

\* A store that cannot be opened goes with the attempt.
Connect ==
  /\ At("connect")
  /\ \/ Go("hook") /\ opened' = opened \union {attempts} /\ UNCHANGED failed
     \/ Raise /\ UNCHANGED opened
  /\ UNCHANGED <<instrumented, attempts, captureMode, hooks, threadVars, gateVars,
                 sdkVars, appVars>>

\* Mutant: the floor is composed in the place of the custom hook only.
SetHookCustom ==
  /\ At("hook") /\ Go("export")
  /\ hooks' = [hooks EXCEPT ![attempts] =
       IF Given.custom = "none" THEN ResolveHook(captureMode, "none") ELSE <<Given.custom>>]
  /\ UNCHANGED <<instrumented, attempts, failed, captureMode, opened, threadVars,
                 gateVars, sdkVars, appVars>>

SetHook ==
  /\ At("hook") /\ Go("export")
  /\ hooks' = [hooks EXCEPT ![attempts] = ResolveHook(captureMode, Given.custom)]
  /\ UNCHANGED <<instrumented, attempts, failed, captureMode, opened, threadVars,
                 gateVars, sdkVars, appVars>>

StartExport ==
  /\ At("export") /\ Go("policies")
  /\ running' = IF Given.exports THEN running \union {<<"exporter", attempts>>} ELSE running
  /\ inUse' = [inUse EXCEPT !["storage"] = attempts,
                                !["exporter"] = IF Given.exports THEN attempts ELSE @]
  /\ UNCHANGED <<instrumented, attempts, failed, captureMode, opened, hooks, gateVars,
                 sdkVars, appVars>>

\* register_policies adds them one by one until one is not supported.
RegisterPolicies ==
  /\ At("policies")
  /\ \/ Go("contracts") /\ registry' = registry \o <<attempts, attempts>> /\ UNCHANGED failed
     \/ Raise /\ registry' = Append(registry, attempts)
  /\ UNCHANGED <<instrumented, attempts, captureMode, opened, hooks, threadVars,
                 enforcer, handler, sdkVars, appVars>>

LoadContracts ==
  /\ At("contracts")
  /\ \/ Go("shims") /\ enforcer' = attempts /\ UNCHANGED failed
     \/ Raise /\ UNCHANGED enforcer
  /\ UNCHANGED <<instrumented, attempts, captureMode, opened, hooks, threadVars,
                 registry, handler, sdkVars, appVars>>

Ours(stack) == {stack[i] : i \in DOMAIN stack} \intersect (1..MaxAttempts)

\* __inkfoot_shim__, ours or copied from ours.
Marked(s) == Ours(sdk[s]) # {} /\ sdk[s][Len(sdk[s])] # Plain

\* Mutant: a surface that is patched already is patched again.
InstallShimAgain(s) ==
  /\ At("shims") /\ doing.left # <<>> /\ s = Head(doing.left)
  /\ doing' = [doing EXCEPT !.left = Tail(@)]
  /\ shims' = Append(shims, [surface |-> s, original |-> sdk[s], wrapped |-> TRUE])
  /\ sdk' = [sdk EXCEPT ![s] = Append(@, attempts)]
  /\ UNCHANGED <<instrumented, attempts, failed, captureMode, opened, hooks,
                 threadVars, gateVars, appVars>>

\* install(): a surface that has the mark is left as it is.
InstallShim(s) ==
  /\ At("shims") /\ doing.left # <<>> /\ s = Head(doing.left)
  /\ doing' = [doing EXCEPT !.left = Tail(@)]
  /\ shims' = Append(shims, [surface |-> s, original |-> sdk[s], wrapped |-> ~Marked(s)])
  /\ sdk' = IF Marked(s) THEN sdk ELSE [sdk EXCEPT ![s] = Append(@, attempts)]
  /\ UNCHANGED <<instrumented, attempts, failed, captureMode, opened, hooks,
                 threadVars, gateVars, appVars>>

ActivateHandler ==
  /\ At("shims") /\ doing.left = <<>> /\ Go("worker")
  /\ handler' = TRUE
  /\ UNCHANGED <<instrumented, attempts, failed, captureMode, opened, hooks,
                 threadVars, registry, enforcer, sdkVars, appVars>>

StartWorker ==
  /\ At("worker") /\ Go("ingest")
  /\ running' = IF Given.external THEN running ELSE running \union {<<"worker", attempts>>}
  /\ inUse' = IF Given.external THEN inUse ELSE [inUse EXCEPT !["worker"] = attempts]
  /\ UNCHANGED <<instrumented, attempts, failed, captureMode, opened, hooks, gateVars,
                 sdkVars, appVars>>

\* The port may be taken.
StartIngest ==
  /\ At("ingest")
  /\ \/ /\ doing' = Idle /\ instrumented' = TRUE
        /\ running' = IF Given.ingest THEN running \union {<<"ingest", attempts>>} ELSE running
        /\ inUse' = IF Given.ingest THEN [inUse EXCEPT !["ingest"] = attempts] ELSE inUse
        /\ UNCHANGED failed
     \/ Given.ingest /\ Raise /\ UNCHANGED <<instrumented, threadVars>>
  /\ UNCHANGED <<attempts, captureMode, opened, hooks, gateVars, sdkVars, appVars>>

-----------------------------------------------------------------------------
\* shutdown(), which may be called at any time, at exit in the end.
StopThread(kind, pc, next) ==
  /\ At(pc) /\ Go(next)
  /\ running' = running \ {<<kind, inUse[kind]>>}
  /\ inUse' = [inUse EXCEPT ![kind] = None]
  /\ UNCHANGED <<instrumented, attempts, failed, captureMode, opened, hooks, gateVars,
                 sdkVars, appVars>>

StopIngest == StopThread("ingest", "idle", "stop_export")
StopExport == StopThread("exporter", "stop_export", "stop_worker")
StopWorker == StopThread("worker", "stop_worker", "deactivate")

DeactivateHandler ==
  /\ At("deactivate") /\ Go("unshim")
  /\ handler' = FALSE
  /\ UNCHANGED <<instrumented, attempts, failed, captureMode, opened, hooks,
                 threadVars, registry, enforcer, sdkVars, appVars>>

\* uninstall_shims: the last installed first, the original put back.
Uninstall ==
  LET shim == shims[Len(shims)] IN
    /\ At("unshim") /\ shims # <<>>
    /\ shims' = SubSeq(shims, 1, Len(shims) - 1)
    /\ sdk' = IF shim.wrapped THEN [sdk EXCEPT ![shim.surface] = shim.original] ELSE sdk
    /\ UNCHANGED <<doing, instrumented, attempts, failed, captureMode, opened, hooks,
                   threadVars, gateVars, appVars>>

\* Mutant: the policies stay registered.
ClearGatesButPolicies ==
  /\ At("unshim") /\ shims = <<>> /\ Go("close")
  /\ enforcer' = None
  /\ UNCHANGED <<instrumented, attempts, failed, captureMode, opened, hooks,
                 threadVars, registry, handler, sdkVars, appVars>>

ClearGates ==
  /\ At("unshim") /\ shims = <<>> /\ Go("close")
  /\ registry' = <<>> /\ enforcer' = None
  /\ UNCHANGED <<instrumented, attempts, failed, captureMode, opened, hooks,
                 threadVars, handler, sdkVars, appVars>>

CloseStorage ==
  /\ At("close")
  /\ doing' = Idle
  /\ opened' = opened \ {inUse["storage"]}
  /\ inUse' = [inUse EXCEPT !["storage"] = None]
  /\ captureMode' = "metadata" /\ instrumented' = FALSE
  /\ UNCHANGED <<attempts, failed, hooks, running, gateVars, sdkVars, appVars>>

-----------------------------------------------------------------------------
\* Another library puts a wrapper of its own over a surface, and takes it away by
\* putting back what it found.
PatchOver(s, other) ==
  /\ s \notin meddled
  /\ othersSaved' = [othersSaved EXCEPT ![s] = sdk[s]]
  /\ sdk' = [sdk EXCEPT ![s] = Append(@, other)]
  /\ meddled' = meddled \union {s}
  /\ UNCHANGED <<doing, instrumented, attempts, failed, captureMode, opened, hooks,
                 threadVars, gateVars, shims, call, contents>>

PutBack(s) ==
  /\ othersSaved[s] # None
  /\ sdk' = [sdk EXCEPT ![s] = othersSaved[s]]
  /\ othersSaved' = [othersSaved EXCEPT ![s] = None]
  /\ UNCHANGED <<doing, instrumented, attempts, failed, captureMode, opened, hooks,
                 threadVars, gateVars, shims, meddled, call, contents>>

\* A call goes through what is over its surface when it is made.
Dispatch(c, s) ==
  /\ call[c] = None
  /\ call' = [call EXCEPT ![c] = [surface |-> s, stack |-> sdk[s], over |-> FALSE]]
  /\ UNCHANGED <<doing, instrumented, attempts, failed, captureMode, opened, hooks,
                 threadVars, gateVars, sdkVars, othersSaved, meddled, contents>>

\* One of its wrappers records it, by the mode of now, in the storage it was made
\* with, unless that is closed; the response id keeps an outer one from doing so.
Answer(c) ==
  /\ call[c] # None /\ ~call[c].over
  /\ call' = [call EXCEPT ![c].over = TRUE]
  /\ \/ /\ Ours(call[c].stack) = {}
        /\ UNCHANGED contents
     \/ \E n \in Ours(call[c].stack) :
          /\ \A m \in Ours(call[c].stack) : n <= m
          /\ contents' = IF n \notin opened THEN contents
                         ELSE contents \union
                                {[call |-> c, storage |-> n,
                                  content |-> IF captureMode = "replay"
                                              THEN Redact(hooks[n], "secret") ELSE "none"]}
  /\ UNCHANGED <<doing, instrumented, attempts, failed, captureMode, opened, hooks,
                 threadVars, gateVars, sdkVars, othersSaved, meddled>>

Next ==
  \/ \E o \in Options : Begin(o)
  \/ Connect \/ SetHook \/ StartExport \/ RegisterPolicies \/ LoadContracts
  \/ ActivateHandler \/ StartWorker \/ StartIngest
  \/ StopIngest \/ StopExport \/ StopWorker \/ DeactivateHandler
  \/ Uninstall \/ ClearGates \/ CloseStorage
  \/ \E s \in SDKs :
       \/ InstallShim(s) \/ PutBack(s)
       \/ \E other \in {Wraps, Plain} : PatchOver(s, other)
       \/ \E c \in AppCalls : Dispatch(c, s)
  \/ \E c \in AppCalls : Answer(c)

Spec == Init /\ [][Next]_vars

-----------------------------------------------------------------------------
AtRest == At("idle") /\ ~instrumented /\ inUse["storage"] = None

\* Once shutdown() has ended, nothing runs, is open, gates a call or is over an
\* SDK that the process has not got from an attempt that raised and was tried
\* again, or from another library (_instrument.py:335-429).
ShutdownLeavesNothing ==
  AtRest =>
    /\ {t[2] : t \in running} \union opened \subseteq failed
    /\ attempts \notin {t[2] : t \in running} \union opened
    /\ registry = <<>> /\ enforcer = None /\ ~handler
    /\ \A s \in SDKs : Ours(sdk[s]) # {} => s \in meddled

\* While the process is instrumented every surface records, once, and what
\* instrument() set up is there; it records in a storage other than the one in
\* use only if an earlier attempt had raised after it had patched the surface.
InstrumentedIsWhole ==
  instrumented /\ At("idle") =>
    /\ inUse["storage"] \in opened
    /\ \A k \in Kinds \ {"storage"} : inUse[k] # None => <<k, inUse[k]>> \in running
    /\ enforcer = attempts /\ handler
    /\ \A s \in SDKs \ meddled : \E n \in {attempts} \union failed : Ours(sdk[s]) = {n}
    /\ \A n \in Ours(registry) : n = attempts \/ n \in failed

\* Replay content passes the regex floor before it is stored, whatever hook it was
\* composed with, unless the storage is that of an attempt that raised
\* (_instrument.py:121-129, storage/redaction.py:219-263).
ContentPassesFloor ==
  \A r \in contents : r.content = "secret" => r.storage \in failed
=============================================================================
