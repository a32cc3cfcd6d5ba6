SPECIFICATION Spec
CONSTANTS
  Streams = {s1, s2}
  Machines = {m1}
  Samples = {c1}
  NoMachine = NoMachine
  NoSample = NoSample
  DatabaseMayFail = FALSE
  ClockMayRepeat = FALSE
  ServerMayCrash = TRUE
PROPERTIES
  CancelledStreamReturns
  GoneAgentGoesOffline
