SPECIFICATION Spec
CONSTANTS
  Null = Null
  Unset = Unset
  NoneText = NoneText
  Seed = {root, bob}
  SeedAdmins = {root}
  Emails = {e1, e2, e3}
  Requests = {r1, r2}
  Ops = {"register", "patchMe", "patchUser", "deleteMe", "deleteUser"}
SYMMETRY Symmetry
INVARIANTS
  TypeOK
  AdminExists
PROPERTIES
  AdminsStayAdmins
  RolesAreGivenByAdmins
