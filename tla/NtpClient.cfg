SPECIFICATION LiveSpec
CONSTANTS
  c1 = c1
  c2 = c2
  d1 = d1
  d2 = d2
  Caller = {c1, c2}
  Daemon = {d1, d2}
  Uses <- AnyUse
  Retries = 1
  PostBound = 1
INVARIANT TypeOK
INVARIANT OneDaemon
INVARIANT StopStops
INVARIANT LockExcludes
INVARIANT RunningHasDaemon
INVARIANT StatusOfOneRound
PROPERTY StartReturns
 
CHECK_DEADLOCK FALSE
