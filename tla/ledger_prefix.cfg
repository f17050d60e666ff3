SPECIFICATION ProcessSpec
CONSTANTS
  p1 = p1
  p2 = p2
  c1 = c1
  c2 = c2
  Procs = {p1, p2}
  Contexts = {c1, c2}
  Handles = {h1}
  ProcOf <- MCTwoProcesses
  None = None
  Habits = {"overlap", "late_call", "active_shutdown"}
  Faults = {"db_error", "kill"}
  MaxStarts = 1
  MaxEmits = 1
  NestedProc = p1
  NestedHandles = {h1, h2, h3}
  MaxNestedEmits = 2
  Patched <- MCPatched
  AppCalls = {k1}
  Options <- MCOptions
  MaxAttempts = 2
  MaxEmbedSteps = 5
  EmbedFaults = {"db_error", "provider_error"}
  Requests <- MCRequests
  Bills <- MCBills
  Rates <- MCRates
  MaxTagged = 1
  MaxCalls = 3
PROPERTY PrefixNeverGrows
CHECK_DEADLOCK FALSE
