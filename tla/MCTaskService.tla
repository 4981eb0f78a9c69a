--------------------------- MODULE MCTaskService ---------------------------
(***************************************************************************)
(* TaskService for TLC.  Each .cfg names the users (owner, bob, root), the *)
(* task t1 of the project, the requests and, with Ops, the workload.       *)
(***************************************************************************)
EXTENDS TaskService, TLC

\* Rows are named by the requests that insert them, and no operation tells
\* one request from another: they are interchangeable.
Symmetry == Permutations(Requests)
=============================================================================
