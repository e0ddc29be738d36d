SPECIFICATION Spec
CONSTANTS
  Image <- ImageABC
  Factory = "A"
  Version <- Versions
  N = 2
  Oversize = {}
  PreventDowngrade = FALSE
  SwResetOnly = FALSE
  Reflash = {"B"}
  UploadUnconfirmed = FALSE
  LossStage <- AnyStage
  MaxFaults = 0
INVARIANT TypeOK
INVARIANT RecoveryTrusted
INVARIANT ConfirmsCopy
INVARIANT OneTrial
