CONSTANTS
  j1 = j1  j2 = j2
SPECIFICATION Spec
\* Once every job is handled nothing moves; the client stops once it returns;
\* the packet reader blocks in its read once every packet is decoded.
CHECK_DEADLOCK FALSE
INVARIANT SyncTypeOK SyncResultIsOwnOutput EofSuccessIsWholeOutput
  ClientTypeOK ClientScanMatchesReference ClientResultIsOwnJob
  CodecBytesAtFrameBoundary CodecUpdatesRoundTrip CodecDecodeNeverPanics
PROPERTY SyncAllJobsReturn EofAllJobsReturnFits ClientReturnsAlways
  CodecImplementsChannel
