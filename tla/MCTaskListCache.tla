-------------------------- MODULE MCTaskListCache --------------------------
(***************************************************************************)
(* TaskListCache for TLC.                                                  *)
(***************************************************************************)
EXTENDS TaskListCache
=============================================================================
