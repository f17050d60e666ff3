SPECIFICATION FairSpec
CONSTANTS
  Runs <- MCRuns
  EventPool <- MCEventPool
  Drainers = {w1, w2}
  BatchSize = 1
  NoRun = NoRun
  Absent = Absent
  Unparseable = Unparseable
  Nobody = Nobody
  DeadSession = DeadSession
  Faults = {"db_error", "kill", "session_loss"}
  MaxStarts = 2
  MaxFaults = 1
INVARIANT TotalsFromLog
PROPERTIES EventuallyCounted HealthRecovers
CHECK_DEADLOCK FALSE
