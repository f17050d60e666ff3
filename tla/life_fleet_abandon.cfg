SPECIFICATION Spec
CONSTANTS
  p1 = p1
  p2 = p2
  c1 = c1
  c2 = c2
  Procs = {p1, p2}
  Contexts = {c1, c2}
  Handles = {h1, h2}
  ProcOf <- MCTwoProcesses
  None = None
  Habits = {}
  Faults = {}
  MaxStarts = 1
  MaxEmits = 1
INVARIANT OnlyDeadRunsAbandoned
CHECK_DEADLOCK FALSE
