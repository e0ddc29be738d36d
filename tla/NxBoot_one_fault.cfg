SPECIFICATION Spec
CONSTANTS
  Image <- ImageABC
  Factory = "A"
  Version <- Versions
  N = 2
  Oversize = {"C"}
  PreventDowngrade = FALSE
  SwResetOnly = FALSE
  Reflash = {}
  UploadUnconfirmed = FALSE
  LossStage <- OutsideConfirm
  MaxFaults = 1
INVARIANT NextBootRepairs
