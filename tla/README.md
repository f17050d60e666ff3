# InkFoot: a TLA+ verification project

InkFoot instruments LLM agents. Shims around provider SDKs record every call of
an agent in an event log (SQLite or Postgres), a background aggregator projects
the log onto the columns of the `runs` table, an exporter mirrors events to an
OpenTelemetry collector, and token contracts and policies watch, change or
refuse calls while they happen. Most of this runs inside the agent's own process,
on the agent's threads, next to daemon threads of InkFoot's own, on a database
that other processes share. This directory holds TLA+ models of the parts where
order, concurrency and failure decide what is right, TLC configurations that
check them, and TLAPS proofs about them. Source paths below are relative to
`src/inkfoot/` unless they begin with `docs/`.

How to run it:

    tlc -config agg_worker.cfg MCAggregatorWorker.tla    # see the table of runs
    tlapm DrainProofs.tla                                # each *Proofs module

## 1. The system and its parts

| Component | State it keeps | Operations | Talks to |
|---|---|---|---|
| Storage (`storage/sqlite.py`, `storage/postgres.py`) | tables `runs` (status, dirty flag, projection columns) and `events`; replay contents | `start_run`, `end_run`, `insert_event`, `read_dirty`, `claim_clean`, `write_totals`, `mark_all_dirty`, queries; each one transaction | everyone; the only state processes share |
| Projection (`storage/aggregator.py:52-187`) | none | `project_run_totals` | storage rows in, column values out |
| In-process aggregator (`storage/aggregator.py`, `cli/rebuild_aggregates.py`) | a thread, a stop event | `_run` loop, `drain_once`, `stop`; the rebuild command | storage only, racing writers and other drainers |
| Postgres aggregator (`storage/postgres_aggregator.py`, `cli/aggregator_worker.py`) | a lock session, a heartbeat row, a stop event | `run_forever`, `sweep_once`, signals, `--once`, `--health` | the advisory lock on one connection, the drain on others |
| Run lifecycle (`_run_lifecycle.py`, `_run_context.py`) | a ContextVar, in-memory run states, sequence counters, the ambient run | `agent_run` / `Run.start` / `end`, `set_outcome`, `tag`, `checkpoint`, `ensure_active_run`, `_mark_abandoned_runs` | storage; shims ask it for the current run |
| instrument / shutdown (`_instrument.py`, `_shim_install.py`) | module globals, the patched SDKs, atexit and signal hooks | `instrument`, `shutdown`, one patch and its undoing per SDK | starts and stops all the others in a fixed order; other libraries patch the same SDKs |
| Redaction (`storage/redaction.py`) | the hook of a storage | `resolve_redaction_hook`, `compose`, `apply_to_content` | every insert of a replay body |
| Call recording (`shims/_emit.py`, `shims/_streaming.py`, the shims) | per-run set of response ids; stream observers | `build_call_context`, `emit_llm_call`, stream finalisation | hooks of contracts and policies before and after, storage insert |
| Embedding capture (`langchain/embeddings.py`, the OpenAI shim) | two context variables | wrapped methods, the SDK's `create` | two layers that see the same call |
| Attribution (`normalise/`, `pricing.py`) | the stable prefix of a run, tagged tokens, the mark of a new cache resource | a translator per API surface, `update_stable_prefix`, two estimates | fills the ledger of each event |
| OTel export (`otel/export.py`) | a bounded queue, a thread, a batch | `enqueue_event` (called by a tap on every insert), `start`, `stop` | collector over HTTP |
| OTel ingest (`otel/ingest.py`) | dedup LRU, trace-to-run cache, HTTP threads | `ingest_payload` | storage |
| Token contracts (`contracts/enforcer.py`, `contracts/runtime.py`) | per-run spend, calls, fired rungs, outcome window | `on_run_start/end`, `enforce_before_call`, `record_call`, `record_outcome` | called by the shims around every call; writes `contract_violation` events |
| Policies (`policy/`) | per-run windows, totals, caches, tool staleness | `before_call`, `after_call` | rewrite the request (modification policies) or emit warnings |
| Migration (`cli/migrate.py`, `storage/*migrations.py`) | the target's largest ids | copy in batches, resume, verify; schema upgrades | two databases |
| tail, tag (`cli/tail.py`, `cli/tag.py`) | a cursor | poll for new rows; append an outcome | storage |
| Framework adapters (`adapters/`, `langchain/`) | node name and scope in the run state; pending calls | wrap nodes and graphs; callback handlers | lifecycle and call recording |
| Reports, smells, diff, benchmark, contract files, telemetry | none, or files | read-only analysis, parsing | |

### What is hard

* **Interleaving on the database.** A drain is four transactions, not one; agents
  insert between any two, and other processes drain the same database.
* **Giving up half-way.** Every storage call can raise, every process can be
  killed, joins and sessions time out, and each handler swallows the failure at
  a level of its own.
* **Identity over time.** Which run a call belongs to is decided before the
  call and used after it; handles, contexts and processes end in between.
* **Check, then act.** Contracts read a total before a call and add to it
  after; dedup keys and rungs are remembered before what they stand for is
  stored.
* **Shutting down.** Threads are told to stop while they hold a batch, a claim
  or a session, and whoever stops them finishes their work on its own thread.

### What makes each part correct

* Projection: every call is counted once, whatever the shape of its payload and
  the order of arrival; the last verdict in sequence wins.
* Aggregators: the columns are always a projection of the run's own rows, never
  move backwards, catch up with the log, and lose an update in no way that is
  not accounted for; one sweeper at a time under the advisory lock.
* Lifecycle: event numbers of a run are distinct, the current-run pointer is
  restored, no row says "over" without its log saying so, abandoned means
  abandoned, and a dead process's runs are flipped.
* Export: an event is in one place, is never posted twice, keeps its order,
  never blocks the agent and is posted in the end.
* Contracts: calls and spend overshoot a ceiling by no more than the number of
  concurrent threads explains, a refusal is on record and stands, and a rung is
  not recorded over and over.
* Policies: a breach is told before the next call and once; a tool the agent needs
  is offered; a result is summarised once, and not for a run that is held out.
* Call recording: the layers that see a call write one event for it, and it is
  the one that knows most; what is in no event was kept out by a failure.
* instrument and shutdown: `shutdown()` leaves the process as it was; an
  instrumented process records each call once, in a storage that is open.
* Attribution: a part of a request is in one category, whichever layer sees it.
* Ingest: a span is one event, however often it is sent.
* Migration: what is moved aside is in the target, and up to date.
* Schema migrations: who opens a store finds all of it, whoever else opens it.

`PROJECT.json` lists under `hazards` where in the code each of these can go wrong,
and which property watches it.

## 2. Modules

    Projection --- RunStore --- Drain --+-- AggregatorWorker -------- AggregatorWorkerProofs
        |                               |         |  (refines MaterializedTotals)
        |                               +-- PostgresAggregator ------ PostgresAggregatorProofs
        |                               +-- DrainProofs  (both proofs modules extend it)
        +-- MaterializedTotals
        +-- ProjectionCheck --+
    OtelIngest, Migrate ------+-- LogClients ---------------- LogClientsProofs
    SchemaMigrations ---------+
    LogCommands --------------+
    RunLifecycle -------------+-- Process ------------------- ProcessProofs
        |                     |                                  |
        +---------------------|-- RunLifecycleProofs ------------+
    Redaction, Instrumentation+
    EmbeddingCapture ---------+
    Attribution --------------+
    ContractEnforcement ------+-- CallDecisions ------------- CallDecisionsProofs
    ObservationPolicies ------+
    LazyToolExposure ---------+
    CheapSummariser ----------+
    OtelExport, CallRecording --- CallPath ----------------- CallPathProofs

LogClients, Process, CallDecisions and CallPath hold several components that share
no state: a behaviour chooses one of them at its start (`component`), follows it,
and leaves the variables of the others as they began. The state graph is then the
disjoint union of the components' graphs, so one run checks all of them and loses
no interleaving that could matter. What a proof says of a component under the
component's own specification it then says of the composition, because a step of
the composition is a step of that component or leaves its variables alone.
Components that do share state are composed in earnest, as the worker with the
store. The `MC*` modules (MCAggregatorWorker, MCPostgresAggregator, MCLogClients,
MCProcess, MCRunLifecycle, MCCallDecisions, MCCallPath) only give small values to
constants.

Operators commented
"Mutant:" are plausible wrong versions of the definition after them; no
specification uses them. `PROJECT.json` pairs each with a property it breaks,
which is the evidence that the property can fail.

**Projection** is `project_run_totals`: a fold over the rows of a run in
sequence order (`iter_events` sorts by it). A payload keeps only the keys that
the function tells apart: nested ledger or flat count, cost or its alias,
outcome, quality score, "not an int" (`Absent`) and "not JSON" (`Unparseable`).
One token column stands for four that are summed alike.

**RunStore** has one action per transaction of the two storage classes, on the
tables `runs` (`status`, `dirty`, `totals`) and `events`. A run is named by its
`started_at`, which is what `read_dirty` orders by. `InsertEvent` adds the row and
sets the flag together; `WriteTotals` leaves the flag alone; `ClaimClean` is the
compare-and-set; `EndRun` checks nothing, as the code.

**Drain** is `drain_once`, one action per storage call, for a set `Drainers` of
threads and processes: `Poll`, then for each id `Claim` or `Skip`, `ReadEvents`,
`WriteBack`, and `EndBatch`, which polls again after a full batch. `Raise` is an
exception out of any of these calls: it leaves the whole of `drain_once`, with the
rest of the batch; `Abort` is the same for several drainers at once, when their
process dies. Three history variables say what the code forgets: `basis` (the
rows the columns were computed from), `orphaned` (runs whose claim was given up)
and `overtaken` (runs whose newer totals were replaced by older ones). No guard
reads them.

**AggregatorWorker** composes the drain with the processes that run it:
`instrument()` opens the storage and starts the thread; `stop()` sets the event,
joins with a timeout, drains once on the caller's thread; `shutdown` then closes
the storage, under a thread that may have outlived its join (`ThreadOnClosed`);
`rebuild-aggregates` is another process that marks every row dirty and drains. A
process drains through two drainers, `<<p, "thread">>` and `<<p, "closer">>`.

**MaterializedTotals** is the abstract specification of both aggregators: a log, a
view that only grows, columns that are the projection of the view. The worker is
checked to implement it under `view <- basis` (`ImplementsView`).

**PostgresAggregator** composes the same drain with workers that take the
advisory lock: `stage` is the place in `run_forever` and `sweep_once`, `conn` the
dedicated session as the worker sees it ("cut": the server has ended it and the
worker has not noticed), `holder` the server's view of the lock, `beat` what
`--health` reads. The drain does not look at `conn`: it goes through the pool.

**ProjectionCheck** grows one log a row at a time in every order and compares the
projection with sums and maxima that contain no loop.

**RunLifecycle** has handles (`_RunHandle`), contexts (the ContextVar, one value
per context), processes, and per process its counters. `start()` and `end()` are
two steps each, because the database call between them can raise and the process
can die there: row and pointer, then the `run_start` event; `run_end` event, then
row, pointer and counter. Calls are attributed in `BeginCall` and recorded in
`EndCall`. A process's ambient run is named by the process. `Habits` says what
agents do: end handles out of order (`overlap`), end a run whose call is still
out (`late_call`), call `shutdown()` while agents work (`active_shutdown`).

**OtelExport** has the queue with its bound, the thread's loop test by test (the
stop event is looked at only at the top), a flush as two posts (spans, logs), and
`stop()` as wake, join, take what is left, two posts. Encodings of spans and logs
are left out; a post is accepted or refused as a whole.

**ContractEnforcement** follows a call through `enforce_before_call` and
`record_call`. `BeginCall` is the first critical section of `before_call` with the
pure decision after it; `Mark` the second; `EmitViolation` the inserts, outside any
lock; then `Proceed` or `Refuse`; `RecordCall` adds the actual cost. The estimate
of a call is any cost within a bound, since it comes from the request's size.

**CallRecording** follows the calls of one agent context, several of which may be
open. A call has a shape: the provider, the layers that see it, plain or
streamed or through a stream helper, what its chunks show. The layers are steps
of their own (`Answer`, `Chunk`, `Finalise`, `HandlerEnd` and more), because each
consults the memory of response ids, adds to it and writes, in that order, and a
failure, a cancellation or the end of the run comes between them.

**OtelIngest** has a thread per request, the checks on the request, and each span
as check of the memory, attribution, numbering and insert; the memories have
their bounds, and a collector sends again whatever it likes.

**Migrate** is `cli/migrate.py` step by step, with interruption anywhere; agents
may write meanwhile, contrary to the instructions, and history variables note
which rows were written when.

**SchemaMigrations** applies the pending versions one statement at a time, in
several processes at once, on either database.

**LogCommands** has `tail` (the choice of a cursor, the backfill, the polling) and
`tag` (two transactions) next to the processes that write the log.

**Instrumentation** has one action per step of `instrument()` that may raise, and
of `shutdown()`. What an attempt sets up is known by the attempt's number, so a
thread or a storage that a failed attempt has left behind can be told from the
one in use. Another library may patch an SDK before, between and after (`PatchOver`),
and copies our mark along (`functools.wraps`) or does not. **Redaction** says what a
chain of hooks makes of a body.

**EmbeddingCapture** lets the application enter and leave wrapped methods, fork and
join tasks and ask providers in any nesting, through the two layers; what is raised
is caught somewhere on its way out. `open` is the stack of what is under way, each
entry with the context that its end puts back: the tokens of a wrapper, or the
original of which a task has a copy. Which outermost method a request belongs to,
and whether a task of that method asked it, is read off the stack, not off the
code's own depth.

**Attribution** splits a request by cause for five surfaces (Anthropic messages,
OpenAI chat and responses, Gemini, LangChain). A token is a part of the
request, a category a set of parts, so "counted twice" and "counted nowhere" are
statements about sets; the words of the system blocks are kept, since the prefix
is a comparison of words. `Charge` is what the provider bills,
`Estimate` what `pricing.py` computes.

**ObservationPolicies** is the registry's dispatch with BudgetCap, RetryThrottle,
CacheControlPlacer and a policy of the user's, whose hooks threads run at the same
time, and the two markers that a policy or a tag leaves for the translator of the
run's next call. **LazyToolExposure** and **CheapSummariser** are the two policies
that rewrite requests, each critical section a step.

## 3. Runs

All finish with the whole state graph. "Bounds" gives what limits them, and why
that is enough to meet the interesting cases.

| Run | Question | Bounds |
|---|---|---|
| `agg_worker` | One instrumented process, killed and started again: no lost update, `stop()` reflects the log it found, every row is counted in the end, and the worker implements MaterializedTotals, where columns never go back. | 2 runs, 3 rows, batch of 1 (so a batch is always full and `Poll` follows `EndBatch`), 2 starts, kills. The thread and the closer are two drainers already. |
| `agg_shared` | A process, a rebuild command, database errors, kills and join timeouts on one database: the two ways an update can be lost. | 1 run, 2 rows, 3 drainers, every fault any number of times. |
| `pg_exclusive` | Two workers with errors and kills: one sweeper at a time, hence no lost update and no step back. | 2 workers, 1 run, 2 rows, 3 starts, 2 faults. |
| `pg_failover` | As well with lost sessions, so that two workers do sweep at once: columns stay a projection; while some worker serves, rows are counted and the probe turns green again. | 2 workers, 2 starts, 1 fault of any kind at any step. |
| `proj_reference` | The programs around the log. `project_run_totals` against a definition without a loop; ingest; migration; opening the store; `tail` and `tag`. | 9 rows, one per shape of payload, in all 9! orders (512 logs). Ingest: 8 spans in 9 requests, 2 threads, 2 requests sent, memories of 2 keys and 1 trace, so both evict. Migration: 2 runs, 3 events, batches of 1, 3 attempts. Schema: 2 processes, 2 versions of 2 statements. Commands: 2 runs, 3 rows, 2 taggers, 1 tail. |
| `life_fleet` | What a process sets up and takes down. Runs of two processes with every habit, errors and kills; nested handles in one process; `instrument()` and `shutdown()`; embeddings; ledgers. | Runs: 2 processes, 1 handle (and 2 ambient runs), 1 call; the properties speak of one run at a time. Nested: 2 contexts, 3 handles (depth 3, or 2 and 1), 2 calls or tags. Instrumentation: 2 SDKs, 4 sets of options, 2 attempts, so that what a failed one leaves meets the next. Embeddings: 5 methods, tasks, requests or errors, nested in every way; 3 give a double count, 4 a method within a method beside a request. Ledgers: 3 calls of a run, of 4 system prompts and 6 conversations. |
| `contract_threads` | What is decided before a call, two threads racing. The ladder warn / cheap model / block: overshoot, repeated events, unrecorded refusals. The watching policies; narrowing; summaries. | Contract: 5 calls begun, 4 calls and 3 units allowed, costs 0..2: either ceiling may be met first. Policies: 4 line-ups, 3 calls, in one run or two. Narrowing: 2 tools, a window of 1 turn, 5 turns. Summaries: 3 agents, 1 result, 3 calls. |
| `export_pipeline` | What becomes of a call. Recording: counted once, by the row that knows most, abandoned streams included. Export: one place per event, order, delivery. | Recording: 2 calls, the first of 5 shapes that cover every provider and mode, a memory of one id. Export: 4 events, queue of 2 and batches of 2, so the queue overflows and batches fill. |
| `agg_rebuild_race` | *violation*: two drainers lose an update. | 1 run, 2 rows. |
| `agg_db_error` | *violation*: an error after the claim loses an update. | 1 run, 2 rows. |
| `life_fleet_abandon` | *violation*: one process's shutdown abandons a live process's run. | 2 processes, 2 handles. |
| `ledger_prefix` | *violation*: the static prefix grows again. | As the ledgers of `life_fleet`. |

The deadlock check is off everywhere: all these systems may come to rest, when
agents have nothing more to do and every process is down or idle.

**Bounds in the modules.** `MaxStarts`, `MaxFaults`, `MaxEmits`, `MaxAttempts`,
`MaxCalls`, `MaxTagged`, `MaxTurns`, `MaxPosts`, `MaxTries`, `MaxRows` and
`MaxTails` limit how often processes start, faults strike, agents call or tag,
requests are sent and commands run; `EventPool`, `Events` and `Pool` are the rows
there are. They occur in guards only, and the safety theorems hold for every
value of them.

**Fairness.** In AggregatorWorker: weak fairness of every step of the worker
thread and of the caller inside `stop()`. They are threads the operating system
schedules, and nothing they wait for is theirs to withhold: the loop polls with a
timeout, `join` has one. Agents, `instrument()`, kills and `StopRequested` are not
fair: nobody has to write, start or stop. In PostgresAggregator: weak fairness of
each worker's own steps, and of the server's noticing a dead client (`Reap`), which
TCP and Postgres guarantee in the end; `Start`, `Stop`, faults and `Age` are not
fair. Lock acquisition is part of the fair step of *each* worker, but only weakly:
a worker may be passed over for ever by another that takes turns with itself, and
the properties promise only that *some* worker counts the row. In OtelExport: weak
fairness of the exporter thread and of the caller inside `stop()`; `get` has a
timeout and `join` has one. In CallRecording: weak fairness of `Collect`, the
garbage collector's finalising of a stream that nobody holds, which reference
counting does at once. The other components have safety properties only.

## 4. Proofs

Every theorem holds for all values of the constants that satisfy the named
assumptions in the modules: any number of runs, rows, drainers, workers, threads,
contexts and handles, any faults.

* **DrainProofs** proves `TypeCorrect`, `TotalsAlwaysFromLog` and
  `LossCharacterised` of `Drain!Spec`. `LostOnlyIfOrphanedOrOvertaken` is not
  inductive: between claim and write the columns are stale and nothing in the
  tables says that someone is about to mend them. The invariant `IInv` adds that
  a drainer holds a run exactly between claim and write, that what it read is a
  part of the run's log, that a run with no row is not dirty, and, as its core,
  `Caught`: a run that is clean and neither orphaned nor overtaken has its whole
  log in its columns or in the hands of a drainer that has claimed it and has
  read all of it, or not read it yet. An insert breaks the second and sets the
  flag. The module also proves what both aggregators need: drainers that take
  turns (`Alone`) read ahead of what the columns count, so nothing is overtaken,
  and then every step refreshes the view, adds to the log, or changes neither.
* **AggregatorWorkerProofs** shows that a step of the worker system is a step of
  `Drain` or leaves its variables alone, so both properties carry over. Of one
  process with no rebuild command and a thread that `stop()` joins (`OneWorker`) it
  shows that thread and closer take turns (`Turns`: the thread drains only while
  the process is up or joining, the closer only while it is closing). Hence
  `OneWorkerLosesNothing`, under kills and database errors, and the refinement
  `OneWorkerImplementsView`. `StopReflectsTheLog` needs that no storage call raises
  and follows the final drain with `Owes`: a row that `stop()` owes is counted, or
  its run is dirty and in front of the closer, or the closer has it in its hands.
* **PostgresAggregatorProofs** shows the same of the Postgres workers, and then,
  assuming `"session_loss" \notin Faults`, that the lock excludes: `LockInv` says
  that whoever is between `_try_lock` and `_unlock` holds the lock on an open
  session and that a drain runs only there. `OneSweeper` follows, and from it
  `NoLostUpdate`, `TotalsMoveForward` and `LockedImplementsView`. Without the
  assumption they are false (section 6).
* **RunLifecycleProofs** proves the types, `EndIsLogged` and `FlippedAtShutdown` under
  every habit and fault. For the first the invariant adds that a handle whose
  `end()` is half done has logged its end; the log only grows. For the second, that
  a run which a process inherited is over or on the list of its sweep, which rests on
  no step starting a run again. `NestedRunsApart` is about `NestedOnce`: one process,
  instrumented once, whose agents nest their `with` blocks and wait for their calls,
  and where nothing fails; without any of these `SequencesDistinct` or
  `PointerRestored` is false (section 6). The pointer of a context, and what its open
  handles will restore, are handles of that context that have not ended and were
  opened earlier; so an event only reaches a run whose counter is ahead of its log.
* **ProcessProofs** carries the three to the composition that `life_fleet` checks, the
  last with the substitution of the nested instance.
* Of **Instrumentation** it proves `ShutdownLeavesNothing`, `InstrumentedIsWhole` and
  `ContentPassesFloor` for any options, SDKs, failures and interleavings of calls.
  `InstrumentInv` says that what runs, is open or is registered is of the attempt of
  now, which has it in use, or of one that raised (`OfAnAttempt`); that a surface no
  other library has touched is bare, or has one wrapper and one shim that remembers
  the bare surface (`SurfacesApart`), which is why taking a shim away restores it;
  how much is there at each step of the two calls (`SetUpSoFar`, `TakenDownSoFar`,
  `Rested`); and that the hook a storage was given goes with the redaction in its
  options (`HookFits`). `OptionsAssumption` asks that the patched SDKs are a
  sequence, as `_shim_install.py` lists them, and that `None` is no number.
* Of **EmbeddingCapture** it proves `EmbeddedOnce` for any nesting of any depth.
  `EmbedInv` says that the depth tells whether a method is under way (`DepthsTell`);
  that the signal is set in the method's own task, at work or stored where the first
  of its tasks was forked, exactly when a request of the method was signalled there
  (`SignalTells`); that LangChain's events count the whole of a method that is over
  and was not signalled (`EventsTell`); and what has become of every request once
  its method is over (`RequestsTold`).
* Of **Attribution** it proves `AttributedOnce`, `StaticIsShared` and `BillExplained` for
  any requests, responses and prices, and calls of any surfaces in turn. `LedgerInv`
  says that the prefix is at the head of the blocks seen since it was last empty, which
  `CommonIsHead` keeps when it shrinks, and that the call recorded last is the one its
  surface makes of the request (`CallTold`). A surface may merge, split and reorder
  turns, but its items hold each part once (`Arranges`, for Gemini by the ranks of the
  turns it keeps); any such arrangement is split without loss or overlap (`SplitOnce`),
  and where turns stay in place two surfaces differ at most in where the final user is
  (`SplitsAgree`). `FlattenIs` and `TokensAre` count a request, `ChargeIs` its bill, and
  `BillAdds` is the arithmetic between estimate, charge and split. Assumed
  (`AttributionAssumption`) are finitely many tools, prices and token counts that are not
  negative, and that a tool's turn holds results and no text, as the tool messages of
  every provider do.
* **CallDecisionsProofs**, of the enforcer, proves the types, `RefusalRecorded`,
  `BlockKeepsRefusing` and `LadderHolds` for any ladder, ceilings, costs and finite
  number of threads. The accounting of an open run only grows, so the rung that a
  call found stays within the reach of its estimate (`CallInReach`) and a refused
  estimate would be refused again (`RefusalStands`); when block rungs come last, a
  call at least as expensive then finds a block rung too (`BlockReached`, which rests
  on the ladder being well-ordered: `Least`, `StepForMostSevere`). For the record, a
  rung is marked only by a thread that is about to insert its event, so every
  marked rung, and every rung a call has been told is marked, has a `Trace`: the
  event, a failed insert, or a thread in between; and traces last. The bounds of
  `LadderHolds` are sums: the calls of a run and the threads that were let through
  (`CallsKept`), its money and theirs (`SpendKept`), the events of a rung and the
  threads about to insert one (`EventsKept`); a thread moves from one side of a sum to
  the other. `IsFiniteSet(Threads)` is all that is assumed of them.
* Of **LazyToolExposure** the same module proves `ExposureExplained` for any tools,
  turns and threads that decide at the same time: no record is dated later than the
  run's turn (`InThePast`), a tool now withheld has a drop on record since when
  nothing restored it (`WithheldSince`), and a drop whose tool is no longer withheld
  has ended (`EpisodeOver`).
* Of **CheapSummariser** it proves `SummarisedAsAgreed` for any agents, results and
  threads. `SummaryInv` follows a call from question to question: what it has been
  told of the task, the tags and the registry is what they were when it asked or
  later, and where an answer was wrong (a transient error remembered, an operator
  who enables the task meanwhile) the run is in `excused`. `NoneAssumption`, that the
  sentinel is none of the values it stands beside, is how Python's `None` is.
* Of **ObservationPolicies** it proves `MarkersReachTheirCall` for any line-ups,
  requests and threads. `PolicyInv` says that a marker in a run was left by a creator
  whose call goes on, or by one whose call failed and is booked as an orphan
  (`MarkerHasCreator`); that calls of a run which are under way at once know of each
  other (`Together`); and hence that a call which reads a marker it did not leave
  was beside its creator or after an orphan (`MarkerSeen`). `TokensAccounted` is the
  balance of tagged, waiting and lifted tokens of a run with one thread. A line-up
  registers a sequence of policies, each once (`LineUpsAssumption`), as the registry's
  list and its set of ids do.
* It also proves `WarnedInTimeAndOnce` of them. `WatchInv` says that a call which began
  when its run was over budget has had the run warned, or still has the budget policy
  among the hooks it is to run (`Follows`); that what a policy has said of a run it
  remembers (`Remembered`), from the same step on, so that it is not said again; and
  that a run has paid for no more calls than went out and owe it nothing more (`Paid`,
  `Owing`), which bounds its totals. `WindowKept` says that expiring a window of
  retries whose last entry is recent leaves a window with that entry.
* **LogClientsProofs** proves `CountsEveryCallOnce` and `OutcomeFollowsSequence` of the
  projection, for any log of any rows in any order. What is inductive is little, that
  the log is finite and of rows of the pool (`LogInv`); the work is to say what the loop
  computes. Induction over a set is made of instances the provers can take: the set of
  the good numbers is all of them (`EveryNumber`), so a property of the subsets that
  passes from one to the next holds of all (`EverySubset`). So a fold over a finite set
  has a value for every subset, which takes a chosen member last (`FoldExists`), a sum
  takes its members in any order (`SumIs`), and the projection is the tally of the last
  row after that of the others (`ProjectionIs`). A total that adds to each row what the
  row is billed for is then the sum over the ledgers and the flat columns
  (`TotalIsSums`), and the outcome that of the last verdict (`OutcomeIs`). Numbers in
  payloads are whole (`PoolAssumption`), and no two verdicts have one sequence number
  (`VerdictsAssumption`), since the run's own process numbers them; without it SQL
  chooses between them.
* It proves `SchemaWhole` for any number of processes, versions and
  statements (`SchemaAssumption`: at least one of each). That an open store is
  complete rests on what others commit. The invariant says of every process under
  way which versions and statements it has behind it, committed or in its own
  transaction, and, on Postgres, that the advisory lock admits one at a time and
  nothing is recorded between its read and its commit (`Exclusive`). Commits only
  add, so what is said of the others stays true.
* It proves `SpanIsOneEvent` of the receiver for any threads, requests and cache
  sizes. `IngestInv` says that the key of a span that is begun is in the memory or was
  evicted (`KeysHeld`), that two holders of one key need an eviction (`KeysApart`),
  that every key in the memory has an event, a failed insert or a thread at work
  behind it (`KeysAccounted`), that a trace is remembered with one run
  (`TracesKept`), and that a run's counter is ahead of the numbers it gave
  (`SequencesKept`). The spans of a request are a sequence (`RequestsAssumption`).
* It proves `MigratedWhole` for any ids, batch size and interruptions. The core of
  `MigrateInv` is `Owed`, the rows of a table that were written in time and are not
  in the target: they are above every id the target has (`OwedAreAbove`), which is
  why resuming from the largest id finds them, and above where the attempt is
  (`OwedAreAhead`), which is why it reaches them. Ids are positive
  (`IdsAssumption`), as `rowid` and serial columns are: the copy begins after 0.
* It proves `CommandsTellTheLog` for any runs, writers, times and batch size. In
  `CommandsInv`, what a tail printed lies between where it began and where it is
  (`PrintedSoFar`) and begins behind a row dated before the window (`WindowBegins`); a
  run's own numbers rise (`RunNumbersRise`), and a tag's is above those of its run among
  the rows it read, from the read on (`TagsAbove`). `RanksEnumerate` says that the
  members of a finite set of numbers have the ranks from 1 to its size: from it follow
  what a poll returns (`FetchedIs`) and that `MAX(rowid)` and `MAX(sequence)` are what
  they are taken to be (`LargestIs`). There is a time, and finitely many
  (`CommandsAssumption`).
* **CallPathProofs** proves `CountedOnceUnless` and `RicherRowWins` for any calls, runs,
  shapes of call, faults and limit of the memory. Both speak of the log, but whether a
  layer writes is decided by the memories, so `RecordingInv` ties the two. `Recalled`:
  an id is remembered only if its call has an event, a fault kept the event out, or an
  observer that holds the id has yet to write; an exception, only if the call is
  accounted for. `Asked`: the id of a call that the shim captured and the handler can
  see is remembered, or was and has been dropped. `Counted` says of each row what its
  layer had done when it wrote it, `Done` that a layer that is done has written, and
  `UsageUnseen` that a probe without the usage has been shown no chunk that carries it.
  A step is of one call: `Aside` settles the other calls from what any step may do to
  the memories (`MemoryKept`) and the log (`Grew`). Assumed are the chunks each
  provider's probe tells apart (`ShapesAssumption`), that the memory holds something
  (`LimitsAssumption`) and that "no run" is not a run (`NoneAssumption`).
* Of the exporter it proves `DeliveredOnceInOrder` for any events, capacity and batch
  size. `ExportInv` says that an event the queue took waits, is held by one of the two
  threads or is settled, and only one of these (`OnePlace`, also of the events no
  request takes); and, unless `stop()` gave up on the thread, that queue, batch and
  leftovers are each in the order of the rows, the queue behind the other two, and
  what is delivered before what is still to come (`InOrder`). The thread is then done
  before `stop()` takes anything, so a batch it left behind is in nobody's way.
  `ExportedKeepsOrder` says what a request is built of: `Exported` is a filter, which
  the provers cannot unfold, so it is written by rank.

Left to TLC is liveness under fairness, which is beyond the provers: `EventuallyCounted`,
`HealthRecovers`, `EventuallyPosted`, `AbandonedIsRecorded`. Every other property of a
passing run is stated by a theorem. The four violation runs (section 6) check what does
not hold.

## 5. What is left out of the modelled parts

* Store: the queries of reports, connection pooling, `update_aggregates` (no
  caller). Isolation is taken to be serial per transaction, as `BEGIN IMMEDIATE`
  and the single-statement updates give it.
* Projection: `CausalTokenLedger`'s other columns, and equal sequence numbers,
  where SQL leaves the order open (RunLifecycle shows when numbers are distinct).
* Aggregator: the poll interval is "any time"; a `WriteBack` that fails to
  commit counts as one that raised before it.
* Lifecycle: contexts are not copied from each other (`asyncio` tasks and
  `copy_context` inherit the pointer), `end()` in another context than `start()`
  (which raises from the token), nested parents' ids, metadata.
* Export: the counters in `_stats`, which no decision reads.
* Contracts: the advisory success-rate window, the in-flight token count, the
  cache of run facts, calls that begin in a run after its end, floating-point
  percentages (exact here), and the policies that run before the check, which are
  modelled by themselves.
* Call recording: the calls of one context at a time (a response id belongs to one
  call, so that calls of other contexts touch another entry of the memory); the
  ledger of a row; the encoding of chunks beyond what they show of id, usage and
  end.
* Policies: prompts and their wording, prefix sizes, model names; the clock counts
  seconds.
* Ingest: what the attributes of a span say of the call; HTTP but for the
  checks before the parse.
* Attribution: tokenisers (a part has one token), the price table, `money.py`.
* Instrumentation: the atexit and signal hooks, which call `shutdown()`; the lock
  that admits one `instrument()` or `shutdown()` at a time is in the shape of the
  actions.
* Redaction: the floor's patterns; a secret is one that they know.
* Migration: the copying of columns; verification is by counts, as in the code.

## 6. Deviations

Where the code does something else than a comment or a document says. The first
four have a run of their own.

* **Two drainers.** `sqlite.py:461-462` says that "Lost updates are impossible by
  construction". With two drainers on a database the write of the older
  snapshot may come last (`storage/aggregator.py:307`), and nothing marks the run
  dirty again. Run `agg_rebuild_race`.
* **An error after the claim.** `storage/aggregator.py:18-19`: "Events are never
  lost [..] the next pass always converges". `claim_clean` has committed when the
  read or the write raises; the next pass does not see the run. Run
  `agg_db_error`. A kill in the same place does the same.
* **Abandonment.** `_run_lifecycle.py:31` speaks of "process exit without exit";
  the sweep of one process's `shutdown()` flips the running rows of all
  processes. Run `life_fleet_abandon`.
* **The prefix.** `normalise/__init__.py:211-212`: "Monotonically shortening —
  never grows". An empty prefix counts as "none yet", so after a prompt that has
  nothing in common with it the next prompt becomes the prefix as a whole. Run
  `ledger_prefix`.

The others are seen by adding one fault, habit or value to a configuration:

| What happens | Property | Instance |
|---|---|---|
| `join()` times out while the thread holds a claim; `stop()` returns with that run's rows uncounted and the thread's next call hits a closed storage (`storage/aggregator.py:236-238`, `253`) | `StopReflects` | `agg_worker` with `Faults = {"join_timeout"}` |
| A worker whose lock session the server drops goes on sweeping through the pool next to the next holder (`docs/concepts/postgres.md:98-100`) | `OneSweeper` | `pg_exclusive` with `"session_loss"` |
| Quality scores are never projected, though `docs/concepts/tracking-runs.md:110-113` says the aggregator records them | `QualityRecorded` | `proj_reference` |
| Handles that overlap restore a run that is over (`_run_lifecycle.py:17`) | `PointerRestored` | nested handles of `life_fleet`, `Habits <- {"overlap"}` in MCProcess |
| A call recorded after its run ended starts the run's numbers again (`shims/_emit.py:41`) | `SequencesDistinct` | the same, `Habits <- {"late_call"}` |
| After `shutdown()` and `instrument()` the ambient run keeps its id and loses its counter (`_run_context.py:127`) | `SequencesDistinct` | the same, `MaxStarts = 2` and no handles |
| A dead process's rows are flipped when a later process shuts down, not when it starts (`docs/concepts/storage.md:132`) | `FlippedAtStartup` | `life_fleet` |
| `stop()` leaves the thread's unfinished batch unposted when the loop ends on the stop event rather than on the sentinel (`otel/export.py:150-151`) | `StopDrains` | `export_pipeline` |
| After a refusal a cheaper call of the run may pass ("must keep refusing every subsequent call", `contracts/enforcer.py:220`); what holds is `BlockKeepsRefusing` | | `contract_threads` |
| A rung's event is recorded once per concurrent thread rather than once per run (same comment); what holds is `RungRecordedOncePerThread` (of `LadderHolds`) | | `contract_threads` |
| A softer rung above a block rung, which the loader accepts (`contracts/schema.py:336`), lets a blocked run go on | `BlockKeepsRefusing` without `BlockIsLast` | `contract_threads` with the ladder reversed |

What was met in the components that have no instance above. Where a property
has an exception for it, the property is named.

* *Call recording* (`CountedOnceUnless`). An id is remembered before the insert
  (`shims/_emit.py:158`), so that after a failed insert the other layer takes the
  call for recorded. The memories are per run and are dropped at its end or when
  they are full: a handler that tells late counts the call again, as it does a
  call without an id. A `BaseException` in the middle of a call or of a stream
  (`shims/_streaming.py:529`) leaves it unrecorded for the shim; a stream helper
  that fails on entry is in no event (`shims/anthropic.py:294`); warnings decided
  for a call that is refused or cancelled are lost; Gemini streams have no mark of
  their end and are recorded as finished.
* *Policies*. `docs/concepts/modification-policies.md` promises "summarised (and
  billed) exactly once": two threads that race on the cache both ask the cheap
  model (`SummarisedOnce` excuses results that were raced on), and results replaced
  before a later one raises stay replaced. `ctx.metadata["retry"]` is set by
  nothing, so that `inkfoot.tag("retry", True)` does not make RetryThrottle count.
  A helper call's translator may consume the run's retrieval marker, and a creator
  that fails leaves its cache marker to another call (`CreationBookedByCreator`).
  A transient database error is remembered as "no task". A drop of exactly the
  threshold can exceed it in floating point. Policies are registered one by one.
* *Ingest*. The memory of keys never learns of the shims' own events. A span
  whose insert fails is answered 200 and its key kept, so that sending it again
  finds a duplicate (`DismissedOnlyIfRecorded`). A span that names a run without a
  row is refused by the foreign key. `stop()` does not wait for requests under
  way, and the storage is closed next.
* *Migration* (`MigratedWhole`). Resuming from the largest id skips smaller ids
  that were written later; a run that ends after its row was copied stays
  unfinished in the target; verification compares counts only; a second source's
  rename replaces the first `.migrated`; psycopg's foreign-key error is not caught
  by `run()`.
* *Schema migrations*. The docstring "each inside its own transaction; a failure
  rolls back only the failing migration" does not hold on SQLite, where
  `executescript` commits; two processes that open a new store at once may both
  apply a version, and the second's `connect()` raises (`OvertakenOnlyOnSqlite`).
* *tail and tag* (`CommandsTellTheLog`). `tag` reads the largest number and inserts
  in another transaction, so that a live run may take the same number; `tail
  --since` misses rows dated before the cursor that are written later.
* *instrument and shutdown*. An attempt that raises undoes nothing: a second one
  leaks the first's threads and storage, and calls may still go to the first's
  storage, whose redaction hook may be another (`InstrumentedIsWhole`,
  `ShutdownLeavesNothing` and `ContentPassesFloor` except what a failed attempt left). A patch over ours is lost at shutdown,
  or puts our wrapper back. A second process's shutdown numbers its `run_end` of a
  live run 1, as the run has numbered a row of its own.
* *Embeddings* (`EmbeddedOnce`). What a child task records does not reach the
  method that started it, which counts again; one raw call in a method hides the
  calls of other clients in it; the signal is set before the insert.
* *Attribution* (`AttributedOnce`, `BillExplained`). Reasoning tokens are in the
  input categories and in the output; retrieved text is also in its turn; images,
  echoed tool calls, Gemini callables and OpenAI's second system message are
  counted nowhere; the categories price cached tokens as fresh, though the docstring
  says that their sum equals the estimate; the layers put the question of a tool's
  turn in different categories (`LayersAgree`); older LangChain integrations report
  no cache counts.

## 7. Plan

Done: the store, both aggregators, the lifecycle, instrument and shutdown, call
recording, export, ingest, migration, schema migrations, `tail` and `tag`, contract
enforcement, all policies, attribution; and the proofs of section 4.

Next, in this order:

1. LangGraph node scopes (`adapters/langgraph.py`): names and scopes in the
   run's state when nodes nest and run side by side, from what the adapter assumes
   of the graph runtime; the LangChain handler's memory of pending calls and its
   eviction.
2. Contexts that are copied (asyncio tasks), with handles that end in another
   context, in RunLifecycle.
3. The pure analyses (smells, diff) against reference definitions.

## 8. What is not modelled at all

The price table and `money.py`, tokenisers, smells, diff, reports, benchmark,
contract parsing: sequential translations or read-only analyses with no
protocol, better served by the repository's unit tests. Adapters for LangGraph,
CrewAI, OpenAI Agents, Anthropic Agent and Pydantic AI: wrappers over hooks of
frameworks that are not in the repository. The adoption ping: best-effort.
`PROJECT.json` lists each with its reason under `components`.
