CONSTANTS
  j1 = j1  j2 = j2
  Jobs <- MCJobs
  Data <- MCDataLines
  PipeCap = 1
  Variant = "timeout"
  MayExit = FALSE
SPECIFICATION PSpec
\* Once every handler has returned, an orphaned reader may block on an empty pipe for ever.
CHECK_DEADLOCK FALSE
INVARIANT ResultIsOwnOutput
