SPECIFICATION PSpec
CONSTANTS
  Runs <- MCRuns
  EventPool <- MCEventPool
  Drainers = {w1, w2}
  BatchSize = 1
  NoRun = NoRun
  Absent = Absent
  Unparseable = Unparseable
  Nobody = Nobody
  DeadSession = DeadSession
  Faults = {"db_error", "kill"}
  MaxStarts = 3
  MaxFaults = 2
INVARIANTS OneSweeper NoLostUpdate
PROPERTY TotalsMoveForward
CHECK_DEADLOCK FALSE
