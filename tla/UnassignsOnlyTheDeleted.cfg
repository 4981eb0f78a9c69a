SPECIFICATION Spec
CONSTANTS
  Null = Null
  Unset = Unset
  Owner = owner
  Users = {owner, bob}
  Admins = {}
  Joined = {bob}
  Seed = {t1}
  Requests = {r1, r2}
  Ops = {"patch", "deleteUser"}
PROPERTY
  UnassignsOnlyTheDeleted
