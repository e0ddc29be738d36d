SPECIFICATION LiveSpec
CONSTANTS
  Key = {k1, k2}
  User = {u1, u2}
  Value <- Strings
  Setup <- Setups
  MapSize = 1
  MaxStorages = 2
INVARIANT TypeOK
INVARIANT FilesHoldMap
INVARIANT SurvivesPowerLoss
PROPERTY SyncAfterSave
PROPERTY WaitersReturn
