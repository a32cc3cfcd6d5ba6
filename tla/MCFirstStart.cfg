SPECIFICATION Spec
CONSTANTS
  Starts = {r1, r2}
  Hosts = {h1}
  NoHost = NoHost
  NoIdentity = NoIdentity
  Torn = Torn
  DatabaseMayFail = FALSE
  PowerMayFail = FALSE
  Overlap = FALSE
INVARIANTS
  FirstStartOnly
