SPECIFICATION Spec
CONSTANTS
  t1 = t1
  p1 = p1
  Projects = {p1}
  Tasks = {t1}
  project_id <- TaskOfFirst
  Sockets = {s1}
  Requests = {r1, r2}
SYMMETRY Symmetry
INVARIANT
  LastMessageIsStatus
