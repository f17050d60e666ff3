----------------------------- MODULE OtelExport -----------------------------
(***************************************************************************)
(* OTLPExporter: agent threads hand each inserted event to a bounded       *)
(* queue, a background thread batches them and posts them to a collector,  *)
(* and stop() ends the thread and posts what is left in the queue.         *)
(*                                                                         *)
(* An event is a record [id, kind].  "llm_call" events are posted as       *)
(* traces, "outcome" events (smells likewise) as logs, and all others,     *)
(* those whose payload cannot be built into a span included, not at all.   *)
(***************************************************************************)
EXTENDS Integers, SequencesExt

CONSTANTS
  Events,     \* the events the agents insert
  Sentinel,   \* what stop() puts into the queue
  Capacity,   \* queue_capacity
  BatchSize,  \* batch_size
  Faults      \* what may go wrong: a subset of FaultKinds

FaultKinds == {"collector_down", "join_timeout"}

ASSUME FaultsAssumption == Faults \subseteq FaultKinds
ASSUME SizesAssumption == Capacity \in Nat \ {0} /\ BatchSize \in Nat \ {0}
ASSUME SentinelAssumption == Sentinel \notin Events

VARIABLES
  queue,      \* the bounded queue
  thread,     \* where _run_loop is
  batch,      \* its local batch
  last,       \* it has met the sentinel
  stop,       \* the stop event
  stopper,    \* where the caller of stop() is
  leftovers,  \* what it took from the queue in _flush_remaining
  delivered,  \* what the collector accepted, in order
  failed,     \* what it refused
  dropped,    \* what found the queue full
  accepted,   \* history: what the queue took, in order
  owed,       \* history: accepted when stop() was called
  gaveUp      \* history: join() timed out

threadVars == <<thread, batch, last>>
stopperVars == <<stop, stopper, leftovers, owed, gaveUp>>
collectorVars == <<delivered, failed>>
agentVars == <<dropped, accepted>>
vars == <<queue, threadVars, stopperVars, collectorVars, agentVars>>

Init ==
  /\ queue = <<>>
  /\ thread = "new"
  /\ batch = <<>>
  /\ last = FALSE
  /\ stop = FALSE
  /\ stopper = "none"
  /\ leftovers = <<>>
  /\ delivered = <<>>
  /\ failed = {}
  /\ dropped = {}
  /\ accepted = <<>>
  /\ owed = {}
  /\ gaveUp = FALSE

-----------------------------------------------------------------------------
\* enqueue_event never blocks.  The tap stays in place after stop().
Enqueue(e) ==
  /\ e \notin dropped \union ToSet(accepted)
  /\ IF Len(queue) < Capacity
     THEN /\ queue' = Append(queue, e)
          /\ accepted' = Append(accepted, e)
          /\ UNCHANGED dropped
     ELSE /\ dropped' = dropped \union {e}
          /\ UNCHANGED <<queue, accepted>>
  /\ UNCHANGED <<threadVars, stopperVars, collectorVars>>

\* What is built of a kind, in the order of the events: SelectSeq by rank, which the
\* provers can unfold.
Exported(kind, es) ==
  LET chosen == {i \in DOMAIN es : es[i].kind = kind}
      Rank(i) == Cardinality({j \in chosen : j <= i})
  IN  [k \in 1..Cardinality(chosen) |-> es[CHOOSE i \in chosen : Rank(i) = k]]

\* _send: one request, accepted or refused as a whole, and not repeated.
Send(kind, es) ==
  LET body == Exported(kind, es) IN
    \/ /\ delivered' = delivered \o body
       /\ UNCHANGED failed
    \/ /\ "collector_down" \in Faults
       /\ failed' = failed \union ToSet(body)
       /\ UNCHANGED delivered

-----------------------------------------------------------------------------
\* The background thread.

Start ==
  /\ thread = "new"
  /\ thread' = "top"
  /\ UNCHANGED <<queue, batch, last, stopperVars, collectorVars, agentVars>>

\* while not self._stop.is_set()
TestStop ==
  /\ thread = "top"
  /\ thread' = IF stop THEN "done" ELSE "get"
  /\ UNCHANGED <<queue, batch, last, stopperVars, collectorVars, agentVars>>

GetItem ==
  /\ thread = "get"
  /\ queue # <<>>
  /\ Head(queue) # Sentinel
  /\ queue' = Tail(queue)
  /\ batch' = Append(batch, Head(queue))
  /\ thread' = IF Len(batch) + 1 >= BatchSize THEN "traces" ELSE "top"
  /\ UNCHANGED <<last, stopperVars, collectorVars, agentVars>>

GetSentinel ==
  /\ thread = "get"
  /\ queue # <<>>
  /\ Head(queue) = Sentinel
  /\ queue' = Tail(queue)
  /\ last' = TRUE
  /\ thread' = IF batch = <<>> THEN "done" ELSE "traces"
  /\ UNCHANGED <<batch, stopperVars, collectorVars, agentVars>>

\* Mutant: only a full batch is flushed.
GetNothingIdle ==
  /\ thread = "get"
  /\ queue = <<>>
  /\ thread' = "top"
  /\ UNCHANGED <<queue, batch, last, stopperVars, collectorVars, agentVars>>

\* queue.Empty: the interval has passed.
GetNothing ==
  /\ thread = "get"
  /\ queue = <<>>
  /\ thread' = IF batch = <<>> THEN "top" ELSE "traces"
  /\ UNCHANGED <<queue, batch, last, stopperVars, collectorVars, agentVars>>

\* _flush: the spans, then the logs.
FlushTraces ==
  /\ thread = "traces"
  /\ Send("llm_call", batch)
  /\ thread' = "logs"
  /\ UNCHANGED <<queue, batch, last, stopperVars, agentVars>>

FlushLogs ==
  /\ thread = "logs"
  /\ Send("outcome", batch)
  /\ batch' = <<>>
  /\ thread' = IF last THEN "done" ELSE "top"
  /\ UNCHANGED <<queue, last, stopperVars, agentVars>>

ThreadStep ==
  TestStop \/ GetItem \/ GetSentinel \/ GetNothing \/ FlushTraces \/ FlushLogs

-----------------------------------------------------------------------------
\* stop().

StopRequested ==
  /\ stopper = "none"
  /\ thread # "new"
  /\ stop' = TRUE
  /\ stopper' = "waking"
  /\ owed' = ToSet(accepted)
  /\ UNCHANGED <<queue, threadVars, leftovers, gaveUp, collectorVars, agentVars>>

\* put_nowait(None): a full queue needs no waking.
Wake ==
  /\ stopper = "waking"
  /\ queue' = IF Len(queue) < Capacity THEN Append(queue, Sentinel) ELSE queue
  /\ stopper' = "joining"
  /\ UNCHANGED <<threadVars, stop, leftovers, owed, gaveUp, collectorVars,
                 agentVars>>

\* Mutant: stop() does not wait for the thread.
JoinNot ==
  /\ stopper = "joining"
  /\ stopper' = "taking"
  /\ UNCHANGED <<queue, threadVars, stop, leftovers, owed, gaveUp, collectorVars,
                 agentVars>>

Join ==
  /\ stopper = "joining"
  /\ thread = "done" \/ "join_timeout" \in Faults
  /\ stopper' = "taking"
  /\ gaveUp' = (thread # "done")
  /\ UNCHANGED <<queue, threadVars, stop, leftovers, owed, collectorVars, agentVars>>

\* _flush_remaining.
TakeLeftover ==
  /\ stopper = "taking"
  /\ queue # <<>>
  /\ queue' = Tail(queue)
  /\ leftovers' = IF Head(queue) = Sentinel THEN leftovers
                  ELSE Append(leftovers, Head(queue))
  /\ UNCHANGED <<threadVars, stop, stopper, owed, gaveUp, collectorVars, agentVars>>

TakenAll ==
  /\ stopper = "taking"
  /\ queue = <<>>
  /\ stopper' = IF leftovers = <<>> THEN "stopped" ELSE "traces"
  /\ UNCHANGED <<queue, threadVars, stop, leftovers, owed, gaveUp, collectorVars,
                 agentVars>>

LeftoverTraces ==
  /\ stopper = "traces"
  /\ Send("llm_call", leftovers)
  /\ stopper' = "logs"
  /\ UNCHANGED <<queue, threadVars, stop, leftovers, owed, gaveUp, agentVars>>

LeftoverLogs ==
  /\ stopper = "logs"
  /\ Send("outcome", leftovers)
  /\ leftovers' = <<>>
  /\ stopper' = "stopped"
  /\ UNCHANGED <<queue, threadVars, stop, owed, gaveUp, agentVars>>

StopperStep ==
  Wake \/ Join \/ TakeLeftover \/ TakenAll \/ LeftoverTraces \/ LeftoverLogs

-----------------------------------------------------------------------------
Next ==
  \/ \E e \in Events : Enqueue(e)
  \/ Start
  \/ ThreadStep
  \/ StopRequested
  \/ StopperStep

Spec == Init /\ [][Next]_vars

\* Both threads are scheduled; join() returns because it has a timeout.
Fairness == WF_vars(ThreadStep) /\ WF_vars(StopperStep)

FairSpec == Spec /\ Fairness

-----------------------------------------------------------------------------
\* The events that are posted at all.
Posted(e) == e.kind \in {"llm_call", "outcome"}

\* The variables hold values of their types, and the queue keeps to its bound.
TypeOK ==
  /\ queue \in Seq(Events \union {Sentinel}) /\ Len(queue) <= Capacity
  /\ thread \in {"new", "top", "get", "traces", "logs", "done"}
  /\ batch \in Seq(Events) /\ Len(batch) <= BatchSize
  /\ last \in BOOLEAN
  /\ stop \in BOOLEAN
  /\ stopper \in {"none", "waking", "joining", "taking", "traces", "logs", "stopped"}
  /\ leftovers \in Seq(Events)
  /\ delivered \in Seq(Events)
  /\ failed \subseteq Events
  /\ dropped \subseteq Events
  /\ owed \subseteq Events
  /\ gaveUp \in BOOLEAN

Answered(e) == e \in ToSet(delivered) \union failed

\* Where e is held: waiting in the queue, taken and its request not yet answered, or
\* answered.
Places(e) ==
  LET At(name, s) == {<<name, i>> : i \in {k \in DOMAIN s : s[k] = e}}
      Asked(at) == at = "logs" /\ e.kind = "llm_call"
  IN  At("queue", queue)
      \union (IF Asked(thread) THEN {} ELSE At("batch", batch))
      \union (IF Asked(stopper) THEN {} ELSE At("leftovers", leftovers))
      \union At("delivered", delivered)
      \union (IF e \in failed THEN {<<"failed", 0>>} ELSE {})

\* The two threads that take from the queue never both post an event, and no
\* event slips out between queue, batch and collector: what the queue took is in
\* exactly one place, even while stop() overlaps a flush that outlives the
\* join.  (A batch the thread leaves behind still counts as a place.)
EachEventInOnePlace ==
  \A e \in ToSet(accepted) : Posted(e) => \E p \in Places(e) : Places(e) = {p}

\* The row of d was inserted before that of e.
Before(d, e) == \E i, j \in DOMAIN accepted : i < j /\ accepted[i] = d /\ accepted[j] = e

\* As long as join() waits for the thread, the collector gets the spans, and the
\* logs, in the order in which their rows were inserted, those dropped at a full
\* queue or refused by the collector left out.
DeliveredInOrder ==
  ~gaveUp =>
    \A i, j \in DOMAIN delivered :
      i < j /\ delivered[i].kind = delivered[j].kind => Before(delivered[i], delivered[j])

\* "an explicit stop() doesn't silently lose events the agent already produced"
\* (otel/export.py:150): once stop() has returned, the collector has been asked
\* to take every event the queue had taken before.  The code does not keep this
\* promise: a batch the thread has begun is left behind (README, "Deviations").
StopDrains ==
  stopper = "stopped" => \A e \in owed : Posted(e) => Answered(e)

\* Sparse or heavy traffic, failing collector or not: what the queue takes is
\* posted, unless the exporter is stopped or was never started.
EventuallyPosted ==
  \A e \in Events :
    (e \in ToSet(accepted) /\ Posted(e)) ~> (Answered(e) \/ stop \/ thread = "new")
=============================================================================
