SPECIFICATION Spec
CONSTANTS
  Users = {u1, u2}
  Reqs = {r1, r2}
  None = None
  GivenRoles = {"VIEWER", "ADMIN", "OWNER"}
  MaxRows = 3
SYMMETRY Symmetry
INVARIANTS
  TypeOK
  NoMembersWithoutOrg
PROPERTIES
  OnlyTheRowThatWasRead
  AuthorityIsInherited
  OnlyOverlapsEndOwnership
  OnlyOwnersDemoteOwners
  OnlyOverlapsBreakRules
