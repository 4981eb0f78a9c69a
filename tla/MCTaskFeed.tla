----------------------------- MODULE MCTaskFeed -----------------------------
(***************************************************************************)
(* TaskFeed for TLC: one task, in the first of the projects.               *)
(***************************************************************************)
EXTENDS TaskFeed, TLC

CONSTANTS t1, p1
TaskOfFirst == t1 :> p1

\* Sockets are interchangeable, and so are requests.
Symmetry == Permutations(Sockets) \cup Permutations(Requests)
=============================================================================
