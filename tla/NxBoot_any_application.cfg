SPECIFICATION Spec
CONSTANTS
  Image <- ImageABC
  Factory = "A"
  Version <- Releases
  N = 2
  Oversize = {"C"}
  PreventDowngrade = TRUE
  SwResetOnly = TRUE
  Reflash = {"B"}
  UploadUnconfirmed = TRUE
  LossStage <- AnyStage
  MaxFaults = 0
INVARIANT Recoverable
INVARIANT EndsWithValidImage
INVARIANT FallbackKept
INVARIANT PowerResetOnlyRepairs
INVARIANT IInv
INVARIANT NoDowngrade
