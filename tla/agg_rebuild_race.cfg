SPECIFICATION WSpec
CONSTANTS
  Runs <- MCOneRun
  EventPool <- MCTwoRows
  Drainers <- MCDrainers
  Procs = {p1}
  Rebuilders = {cli}
  BatchSize = 1
  NoRun = NoRun
  Absent = Absent
  Unparseable = Unparseable
  Faults = {}
  MaxStarts = 1
INVARIANT NoLostUpdate
CHECK_DEADLOCK FALSE
