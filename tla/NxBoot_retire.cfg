SPECIFICATION Spec
CONSTANTS
  Image <- ImageABC
  Factory = "A"
  Version <- Versions
  N = 2
  Oversize = {}
  PreventDowngrade = FALSE
  SwResetOnly = FALSE
  Reflash = {}
  UploadUnconfirmed = FALSE
  LossStage <- AnyStage
  MaxFaults = 0
INVARIANT InstallsUploads
