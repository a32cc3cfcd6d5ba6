SPECIFICATION Spec
CONSTANTS
  Agents = {a1, a2}
  NoCommand = NoCommand
  MaxDatabases = 3
INVARIANTS
  Inductive
  LostOnlyByConfirmedReset
  StrandedUntilFullReset
  ServerHasSchema
PROPERTIES
  NothingRunsOverLostData
  AgentEnrolls
