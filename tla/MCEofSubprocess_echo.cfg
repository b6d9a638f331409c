CONSTANTS
  j1 = j1
  Jobs = {j1}
  Data <- TestData
  PipeCap = 1
  Cmd = "echo"
  EchoOut = 1
  ErrLines = 0
  MayFail = FALSE
SPECIFICATION ESpec
\* Once the job is handled nothing moves.
CHECK_DEADLOCK FALSE
INVARIANT ZeroExitIsSuccess
