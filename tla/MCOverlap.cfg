SPECIFICATION Spec
CONSTANTS
  Starts = {r1, r2, r3}
  Hosts = {h1}
  NoHost = NoHost
  NoIdentity = NoIdentity
  Torn = Torn
  DatabaseMayFail = TRUE
  PowerMayFail = TRUE
  Overlap = TRUE
INVARIANTS
  IdentityBacked
  EnrolledTogether
  NeverTorn
PROPERTIES
  StartSettles
