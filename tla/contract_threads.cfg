SPECIFICATION DecisionsSpec
CONSTANTS
  t1 = t1
  t2 = t2
  r1 = r1
  r2 = r2
  None = None
  Runs = {r1}
  Threads = {t1, t2}
  Ladder <- MCLadder
  MaxNanodollars = 3
  MaxLlmCalls = 4
  MaxCost = 2
  CheapCost = 1
  NoCall = NoCall
  NoStep = NoStep
  Faults = {"db_error", "provider_error"}
  MaxAttempts = 5
  Homes <- MCHomes
  LineUps <- MCLineUps
  Late = {"budget"}
  MaxNd = 1
  Cost = 1
  Window = 1
  MaxRetries = 1
  PolicyFaults = {"provider_error", "create_error", "raise"}
  MaxPolicyCalls = 3
  Tools = {"a", "core"}
  Core = {"core"}
  Unnamed = {}
  Stale = 1
  MaxTurns = 5
  TaskRuns = {r1, r2}
  Results = {"result"}
  Agents <- MCAgents
  Threshold = 5
  MinRuns = 1
  SummariserFaults = {"db_error"}
  MaxSummaries = 3
INVARIANTS TypeOK LadderHolds RefusalRecorded BlockKeepsRefusing
INVARIANTS WarnedInTimeAndOnce  ExposureExplained SummarisedAsAgreed
CHECK_DEADLOCK FALSE
