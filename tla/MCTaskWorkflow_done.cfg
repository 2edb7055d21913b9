SPECIFICATION Spec
CONSTANTS
  Reqs = {r1, r2}
  Users = {u1, u2, ghost}
  Registered = {u1, u2}
  None = None
  Faults = {}
PROPERTIES
  DoneIsFrozen
