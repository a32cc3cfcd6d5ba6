SPECIFICATION Spec
CONSTANTS
  Calls = {c1, c2}
  Requests = {}
  PoolSize = 1
PROPERTIES
  ShutdownEnds
  GoneClientFreesCall
