SPECIFICATION Spec
CONSTANTS
  Null = Null
  Unset = Unset
  Owner = owner
  Users = {owner, bob, root}
  Admins = {root}
  Joined = {bob}
  Seed = {t1}
  Requests = {r1, r2}
  Ops = {"create", "patch", "status", "delete", "comment", "editComment",
         "uncomment", "addMember", "removeMember", "deleteUser"}
INVARIANTS
  TypeOK
  RefIntegrity
  NotifiedWasAssigned
  EmailAfterNotice
PROPERTIES
  AssigneeAsNamed
  RequestsEnd
