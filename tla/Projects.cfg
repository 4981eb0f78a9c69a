SPECIFICATION Spec
CONSTANTS
  u1 = u1
  u2 = u2
  p1 = p1
  t1 = t1
  Null = Null
  Users = {u1, u2, admin}
  Admins = {admin}
  SeedProjects <- MCProjects
  SeedMembers <- MCMembers
  SeedTasks <- MCTasks
  Requests = {r1, r2, r3}
INVARIANTS
  TypeOK
  RefIntegrity
  AssigneeHadJoined
  ListedOnce
SYMMETRY Symmetry
CHECK_DEADLOCK FALSE
