----------------------------- MODULE MCProjects -----------------------------
(***************************************************************************)
(* Projects for TLC: a project of u1 with the member u2, with a task of    *)
(* the owner assigned to the member, or without.                           *)
(***************************************************************************)
EXTENDS Projects, TLC

CONSTANTS u1, u2, p1, t1

MCProjects == {[id |-> p1, owner_id |-> u1]}
MCMembers  == {<<p1, u2>>}
MCTasks    == {[id |-> t1, project |-> p1, author |-> u1, assignee |-> u2]}
Symmetry   == Permutations(Requests)
=============================================================================
