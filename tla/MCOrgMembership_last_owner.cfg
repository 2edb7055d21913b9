SPECIFICATION Spec
CONSTANTS
  Users = {u1, u2}
  Reqs = {r1, r2}
  None = None
  GivenRoles = {"OWNER"}
  MaxRows = 2
PROPERTIES
  KeepsAnOwner
