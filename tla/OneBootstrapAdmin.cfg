SPECIFICATION Spec
CONSTANTS
  Null = Null
  Unset = Unset
  NoneText = NoneText
  Seed = {}
  SeedAdmins = {}
  Emails = {e1, e2}
  Requests = {r1, r2}
  Ops = {"register"}
INVARIANT
  OneBootstrapAdmin
