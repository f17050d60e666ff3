SPECIFICATION WSpec
CONSTANTS
  Runs <- MCOneRun
  EventPool <- MCTwoRows
  Drainers <- MCDrainers
  Procs = {p1}
  Rebuilders = {cli}
  BatchSize = 1
  NoRun = NoRun
  Absent = Absent
  Unparseable = Unparseable
  Faults = {"db_error", "kill", "join_timeout"}
  MaxStarts = 1
INVARIANT LostOnlyIfOrphanedOrOvertaken
CHECK_DEADLOCK FALSE
