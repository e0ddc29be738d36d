SPECIFICATION LiveSpec
CONSTANTS
  c1 = c1
  c2 = c2
  d1 = d1
  d2 = d2
  Caller = {c1, c2}
  Daemon = {d1, d2}
  Uses <- TwoSamples
  Retries = 1
  PostBound = 2
PROPERTY StopReturns
CHECK_DEADLOCK FALSE
