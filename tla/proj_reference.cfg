SPECIFICATION ClientsSpec
CONSTANTS
  Pool <- MCPool
  Absent = Absent
  Unparseable = Unparseable
  None = None
  Handlers = {t1, t2}
  Requests <- MCRequests
  Known <- MCKnownRuns
  MaxBytes = 1
  DedupMax = 2
  TraceMax = 1
  IngestFaults = {"db_error"}
  MaxPosts = 2
  RunIds = {1, 2}
  EventIds = {1, 2, 3}
  RunOf <- MCRunOf
  Contents = {2}
  EventsBatch = 1
  MigrateHabits = {"writing", "foreign", "stale_config"}
  MaxTries = 3
  LiveRuns = {1, 2}
  Matching = {1}
  Taggers = {g1, g2}
  Times = {1, 2}
  FetchLimit = 1
  MaxRows = 3
  MaxTails = 1
  Openers = {t1, t2}
  Versions = 2
  Statements = 2
  MigrateFaults = {"db_error", "kill"}
INVARIANTS CountsEveryCallOnce
INVARIANTS SpanIsOneEvent MigratedWhole SchemaWhole CommandsTellTheLog
PROPERTIES OutcomeFollowsSequence
CHECK_DEADLOCK FALSE
