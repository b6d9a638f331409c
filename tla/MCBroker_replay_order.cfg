\* Handles 9 and 10: a server that has handed out eight handles before.
CONSTANTS
  w1 = w1  w2 = w2  c1 = c1  c2 = c2  fa = fa  fb = fb  u1 = u1
  none = none
  NoUid = none
  Workers <- MCWorkers
  Clients <- MCClients1
  Fns <- MCFns
  WorkerFns <- MCWorkerFns
  Uids <- MCUids
  FirstHandle = 9
  MaxHandles = 2
  Outcomes <- MCOutcomes
  MaxSubmits = 2
  MaxCrashes = 1
  SubmitPrios <- MCSubmitPrios
  StorageKept = TRUE
SPECIFICATION BSpec
\* Idle workers block reading their connection once every job is done.
CHECK_DEADLOCK FALSE
INVARIANT QueueInSubmitOrder
