SPECIFICATION Spec
CONSTANTS
  Fields = {hostname, architecture}
  LimitedFields = {hostname}
  Texts <- SomeTexts
  CapabilityTexts <- CapabilitiesToSend
  MaxText = 2
  MaxCapabilities = 3
  MaxCapability = 2
  NoInput = NoInput
INVARIANTS
  Inductive
  ChecksAgree
  RefusedForLength
  StoredInNormalForm
CHECK_DEADLOCK FALSE
