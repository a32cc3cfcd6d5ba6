SPECIFICATION Spec
CONSTANTS
  Streams = {s1, s2}
  Machines = {m1, m2}
  Samples = {c1, c2}
  NoMachine = NoMachine
  NoSample = NoSample
  DatabaseMayFail = TRUE
  ClockMayRepeat = TRUE
  ServerMayCrash = TRUE
SYMMETRY Symmetry
INVARIANTS
  HolderNeverWaits
  PresenceHistory
  OkMeansRecorded
PROPERTIES
  ImplementsHandlerSession
