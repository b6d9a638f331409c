CONSTANTS
  f1 = f1
  f2 = f2
  j1 = j1
  j2 = j2
  j3 = j3
  Funcs <- MCFuncs
  JobFn <- MCJobFn
  Results <- MCResults
  QueueSize = 2
  Jobs <- MCJobs2
  Limit = 0
  Timeouts = {0}
  MayPanic = FALSE
  Removable = {}
  MaxCalls = 2

SPECIFICATION Spec
INVARIANT RegisteredAtServer
CHECK_DEADLOCK FALSE
