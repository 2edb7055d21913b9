SPECIFICATION Spec
CHECK_DEADLOCK FALSE
CONSTANTS
  Reqs = {r1, r2, r3}
  Conns = {c1, c2, c3}
  None = None
  Faults = {"refuse", "close", "error", "abort", "twice"}
SYMMETRY Symmetry
INVARIANTS
  TypeOK
  OrderlyExitDelivers
  CachedChannelLives
  LeaksOnlyByOverlap
PROPERTIES
  CrashesOnlyWhileConnecting
