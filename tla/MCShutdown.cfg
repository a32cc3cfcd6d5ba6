SPECIFICATION SafetySpec
CONSTANTS
  Calls = {c1, c2}
  Requests = {r1}
  PoolSize = 2
SYMMETRY Symmetry
INVARIANTS
  Inductive
  PoolClosedLast
  SessionsClosed
  StatusZeroIsClean
  SendNeverBlocks
  WaitsForNoClient
PROPERTY ImplementsHandlerSession
