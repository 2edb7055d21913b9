SPECIFICATION SystemSpec
CONSTANTS
  Reqs = {r1, r2}
  Users = {u1, u2, ghost}
  Registered = {u1, u2}
  None = None
  Faults = {"crash", "publish"}
SYMMETRY Symmetry
INVARIANTS
  TypeOK
  NotifiedWasCommitted
  HolderIsTold
  MailedWasAssigned
  AssigneeIsServed
PROPERTIES
  OnlyStaleReadersReopen
  OnlyUnassignmentStrandsWork
  OnlyStaleWritesBreakRules
