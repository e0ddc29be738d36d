SPECIFICATION LiveSpec
CONSTANTS
  Image <- ImageABC
  Factory = "A"
  Version <- Versions
  N = 2
  Oversize = {}
  PreventDowngrade = FALSE
  SwResetOnly = FALSE
  Reflash = {}
  UploadUnconfirmed = FALSE
  LossStage <- OutsideWindows
  MaxFaults = 0
PROPERTY ComesUp
PROPERTY UpdateArrives
INVARIANT InstallsUploads
