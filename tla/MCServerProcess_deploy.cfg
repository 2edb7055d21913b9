SPECIFICATION Spec
CHECK_DEADLOCK FALSE
CONSTANTS
  Reqs = {r1}
  Conns = {c1}
  None = None
  Faults = {"abort"}
INVARIANTS
  NotificationNeverLost
