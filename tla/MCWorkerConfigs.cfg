CONSTANTS
  f1 = f1  f2 = f2  j1 = j1  j2 = j2  j3 = j3
SPECIFICATION Spec
\* An idle worker blocks in its range over worker.in for ever.
CHECK_DEADLOCK FALSE
INVARIANT SafetyTypeOK SafetyJobsWithinLimit SafetyShutdownDrains LiveAnswerAtMostOnce
PROPERTY LiveAcceptedJobAnswered
