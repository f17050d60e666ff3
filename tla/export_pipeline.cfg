SPECIFICATION PathSpec
CONSTANTS
  k1 = k1
  k2 = k2
  None = None
  Events <- MCFour
  Sentinel = Sentinel
  Capacity = 2
  BatchSize = 2
  Faults = {"collector_down", "join_timeout"}
  Calls = {k1, k2}
  Runs = {r1}
  Ambient = Ambient
  Shapes <- MCShapes
  IdLimit = 1
  Habits = {"outlives"}
  CallFaults = {"db_error", "translate", "cancel", "drift"}
 
INVARIANTS CountedOnceUnless RicherRowWins
PROPERTIES EventuallyPosted AbandonedIsRecorded
CHECK_DEADLOCK FALSE
