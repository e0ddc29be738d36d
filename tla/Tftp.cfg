SPECIFICATION LiveSpec
CONSTANTS
  Setup <- Transfers
  Retries = 3
  Wrap = 4
  MaxSessions = 4
INVARIANT GetsFile
INVARIANT PutsFile
INVARIANT PutToleratesLoss
PROPERTY TransferEnds
CHECK_DEADLOCK FALSE
