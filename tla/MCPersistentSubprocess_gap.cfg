CONSTANTS
  j1 = j1  j2 = j2
  Jobs <- MCJobs
  Data <- MCDataGap
  PipeCap = 2
  Variant = "sync"
  MayExit = FALSE
SPECIFICATION PSpec
\* The model has a fixed set of jobs; once all are handled nothing moves.
CHECK_DEADLOCK FALSE
INVARIANT ResultIsOwnOutput
