SPECIFICATION Spec
CONSTANTS
  Streams = {s1, s2, s3}
  Machines = {m1}
  Samples = {}
  NoMachine = NoMachine
  NoSample = NoSample
  DatabaseMayFail = TRUE
  ClockMayRepeat = FALSE
  ServerMayCrash = TRUE
SYMMETRY Symmetry
INVARIANTS
  Invariant
  LiveSessionOnline
  ClosedSessionGone
  OnlineHasHolder
  RowOfOneSession
PROPERTIES
  ImplementsPresence
