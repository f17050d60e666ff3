----------------------------- MODULE LogClients -----------------------------
(***************************************************************************)
(* What feeds, moves and reads the event log from outside a run: the       *)
(* projection of its rows, the OTLP receiver, the cutover to Postgres, the *)
(* migrations of the schema, and the tail and tag commands.  They meet in  *)
(* the log alone, each on a log of its own here, so a behaviour follows    *)
(* one of them, chosen at its start, and the others stay as they began.    *)
(***************************************************************************)
EXTENDS ProjectionCheck

CONSTANTS
  None,
  Handlers, Requests, Known, MaxBytes, DedupMax, TraceMax, IngestFaults, MaxPosts,
  RunIds, EventIds, RunOf, Contents, EventsBatch, MigrateHabits, MaxTries,
  LiveRuns, Matching, Taggers, Times, FetchLimit, MaxRows, MaxTails,
  Openers, Versions, Statements, MigrateFaults

VARIABLES
  component,
  listening, closed, handler, posts, seen, traceRun, minted, runRows, counters,
  ingested, rejected, dismissed, evicted,
  exists, source, ended, schema, target, targetEnded, migrator, tries, aside,
  asideEnded, risky, stale,
  rows, counter, going, tagger, tail, printed, tails,
  kind, created, recorded, opener, lateFor

ingestState ==
  <<listening, closed, handler, posts, seen, traceRun, minted, runRows, counters,
    ingested, rejected, dismissed, evicted>>
migrateState ==
  <<exists, source, ended, schema, target, targetEnded, migrator, tries, aside,
    asideEnded, risky, stale>>
commandState == <<rows, counter, going, tagger, tail, printed, tails>>
schemaState == <<kind, created, recorded, opener, lateFor>>

-----------------------------------------------------------------------------
I == INSTANCE OtelIngest
M == INSTANCE Migrate
C == INSTANCE LogCommands
D == INSTANCE SchemaMigrations

ASSUME IngestAssumption == I!RequestsAssumption /\ I!LimitsAssumption
ASSUME MigrateAssumption == M!IdsAssumption /\ M!HabitsAssumption
ASSUME CommandsAssumption == C!CommandsAssumption
ASSUME SchemaAssumption == D!SchemaAssumption

-----------------------------------------------------------------------------
clientVars == <<component, log, ingestState, migrateState, commandState,
            schemaState>>

OfProjection(step) ==
  /\ component = "projection" /\ step
  /\ UNCHANGED <<component, ingestState, migrateState, commandState, schemaState>>
OfIngest(step) ==
  /\ component = "ingest" /\ step
  /\ UNCHANGED <<component, log, migrateState, commandState, schemaState>>
OfMigrate(step) ==
  /\ component = "migrate" /\ step
  /\ UNCHANGED <<component, log, ingestState, commandState, schemaState>>
OfCommands(step) ==
  /\ component = "commands" /\ step
  /\ UNCHANGED <<component, log, ingestState, migrateState, schemaState>>
OfSchema(step) ==
  /\ component = "schema" /\ step
  /\ UNCHANGED <<component, log, ingestState, migrateState, commandState>>

ClientsInit ==
  /\ component \in {"projection", "ingest", "migrate", "commands", "schema"}
  /\ Init /\ I!Init /\ M!Init /\ C!Init /\ D!Init
  /\ component # "schema" => kind = "sqlite"

ClientsNext ==
  \/ OfProjection(Next) \/ OfIngest(I!Next)
  \/ OfMigrate(M!Next) \/ OfCommands(C!Next)
  \/ OfSchema(D!Next)

ClientsSpec == ClientsInit /\ [][ClientsNext]_clientVars

-----------------------------------------------------------------------------
\* However collectors retry, a span is an event once, given up for a duplicate only
\* when an event, or a failed insert, has its key (otel/ingest.py:147-182, 344-368);
\* the spans of a trace are in one run, and its events are told apart by sequence
\* (otel/ingest.py:586-634).
SpanIsOneEvent ==
  /\ I!IngestedOnce /\ I!DismissedOnlyIfRecorded
  /\ I!TraceIsOneRun /\ I!SequenceClashOnlyIfTold

\* What is moved aside is in the target, consistent and up to date, but for what
\* was written in the wrong moment (cli/migrate.py).
MigratedWhole == M!MovedAsideOnlyIfCopied /\ M!RowsUpToDate /\ M!TargetConsistent

\* Whoever opens a store finds it whole, and connect() fails only when another
\* process overtakes it (storage/migrations.py:94-125).
SchemaWhole == D!SchemaWhole

\* Tail prints what it should once and in order, and tag numbers its row after the
\* run's rows (cli/tail.py:129-240, cli/tag.py:58-66).
CommandsTellTheLog == C!PrintedOnceInOrder /\ C!ClashOnlyIfTaggedLive
=============================================================================
