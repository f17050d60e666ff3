SPECIFICATION FairSpec
CONSTANTS
  Runs <- MCRuns
  EventPool <- MCEventPool
  Drainers <- MCDrainers
  Procs = {p1}
  Rebuilders = {}
  BatchSize = 1
  NoRun = NoRun
  Absent = Absent
  Unparseable = Unparseable
  Faults = {"kill"}
  MaxStarts = 2
INVARIANTS NoLostUpdate StopReflects
PROPERTIES EventuallyCounted ImplementsView
CHECK_DEADLOCK FALSE
