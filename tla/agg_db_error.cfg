SPECIFICATION WSpec
CONSTANTS
  Runs <- MCOneRun
  EventPool <- MCTwoRows
  Drainers <- MCDrainers
  Procs = {p1}
  Rebuilders = {}
  BatchSize = 1
  NoRun = NoRun
  Absent = Absent
  Unparseable = Unparseable
  Faults = {"db_error"}
  MaxStarts = 1
INVARIANT NothingLostOnFailure
CHECK_DEADLOCK FALSE
