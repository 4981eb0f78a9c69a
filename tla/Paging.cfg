SPECIFICATION Spec
CONSTANTS
  t1 = t1
  t2 = t2
  n1 = n1
  n2 = n2
  Null = Null
  SeedTasks <- MCSeedTasks
  SeedNotes <- MCSeedNotes
  Writers = {w1, w2}
  Reader = reader
  Drafts <- MCDrafts
  Queries <- MCQueries
  Limit = 1
  MaxTime = 2
INVARIANTS
  TypeOK
  MissedAtMostLeft
  RepeatsAtMostEntered
  ListedAsTheyCame
SYMMETRY Symmetry
CHECK_DEADLOCK FALSE
