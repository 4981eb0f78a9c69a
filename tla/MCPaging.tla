------------------------------ MODULE MCPaging ------------------------------
(***************************************************************************)
(* Paging for TLC: two tasks, two notifications, and the lists under all   *)
(* their orders and filters.                                               *)
(***************************************************************************)
EXTENDS Paging, TLC

CONSTANTS t1, t2, n1, n2

Draft(priority, deadline, assignee, match) ==
  [priority |-> priority, deadline |-> deadline, assignee |-> assignee, match |-> match]

MCDrafts == {Draft("high", 2, Reader, TRUE), Draft("low", Null, Null, FALSE),
             Draft(Null, Null, Null, TRUE)}

MCSeedTasks ==
  {Drafted(NewTask(t1, 0), Draft("low", 1, Null, TRUE)),
   Drafted(NewTask(t2, 1), Draft("medium", Null, Reader, TRUE))}

MCSeedNotes == {[id |-> n1, is_read |-> FALSE, created |-> 0],
                [id |-> n2, is_read |-> FALSE, created |-> 1]}

Query(of, sort_by, status, priority, assignee) ==
  [of |-> of, sort_by |-> sort_by, status |-> status, priority |-> priority,
   assignee |-> assignee, task |-> t1]
Plain(of, sort_by) == Query(of, sort_by, Null, Null, Null)

MCQueries ==
  {Plain("tasks", "created_at"), Plain("tasks", "deadline"), Plain("tasks", "priority"),
   Query("tasks", "created_at", "todo", "low", Null),
   Query("tasks", "priority", Null, Null, Reader),
   Plain("search", "created_at"), Plain("activity", "created_at"),
   Plain("comments", "created_at"),
   Plain("unread", "created_at")}

Symmetry == Permutations(Writers)
=============================================================================
