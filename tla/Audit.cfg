SPECIFICATION Spec
CONSTANTS
  Null = Null
  Unset = Unset
  Owner = owner
  Users = {owner}
  Admins = {}
  Joined = {}
  Seed = {t1}
  Requests = {r1, r2, r3}
  Ops = {"create", "patch", "status", "delete", "comment"}
SYMMETRY Symmetry
INVARIANT
  StatusIsLastLogged
PROPERTY
  ImplementsAudit
