SPECIFICATION Spec
CONSTANTS
  Starts = {r1, r2, r3}
  Hosts = {h1, h2}
  NoHost = NoHost
  NoIdentity = NoIdentity
  Torn = Torn
  DatabaseMayFail = TRUE
  PowerMayFail = TRUE
  Overlap = FALSE
SYMMETRY Symmetry
INVARIANTS
  Inductive
  ReadyIsSaved
PROPERTIES
  ImplementsHostIdentity
