SPECIFICATION FairSpec
CONSTANTS
  Keys = {k1, k2, k3}
  Reqs = {r1, r2}
  None = None
  MaxFiles = 2
  Faults = {"storage", "database", "answer", "task", "crash"}
INVARIANTS
  TypeOK
  RowHasBytes
  NoOrphanBytes
PROPERTIES
  DeletedBytesGo
