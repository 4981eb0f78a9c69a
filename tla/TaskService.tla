---------------------------- MODULE TaskService ----------------------------
(***************************************************************************)
(* The task handlers of the API and the tables they share: one project,    *)
(* its members, its tasks with their status history and comments, and the  *)
(* notifications and e-mails an assignment causes.                         *)
(*                                                                         *)
(* A request is a process.  Its steps are the points where the handler     *)
(* awaits: the checks with the rows they load, each flush and commit, the  *)
(* refresh, the cache invalidation, the notification, the e-mail, the      *)
(* broadcast.  Between two steps any other request may run, so a request   *)
(* works on the copy of the row its session loaded (loaded, obj).  The     *)
(* database runs READ COMMITTED (app/db/session.py sets no isolation       *)
(* level): a flush and its commit hold the row locks, so they are one      *)
(* step, applied to the rows as they are then.  A request that a check     *)
(* refuses changes nothing: it is the stuttering step.                     *)
(*                                                                         *)
(* Every request runs once, so its name also names the rows it inserts:    *)
(* ids are autoincremented and never reused.                               *)
(***************************************************************************)
EXTENDS Permissions, Sequences, Naturals, FiniteSets

CONSTANTS
  Users,      \* user ids
  Admins,     \* those whose role is admin
  Owner,      \* owner_id of the project
  Joined,     \* its members at the start
  Seed,       \* the tasks the project has at the start
  Requests,   \* the requests the API may serve
  Ops,        \* the operations offered (the workload of a run)
  Unset       \* a payload field the client left out (exclude_unset)

OpNames == {"create", "patch", "status", "delete",
            "comment", "editComment", "uncomment",
            "addMember", "removeMember", "deleteUser"}

\* What the constants must satisfy.
ASSUME ServiceAssumption ==
  /\ Owner \in Users
  /\ Joined \subseteq Users \ {Owner}
  /\ Admins \subseteq Users
  /\ Seed \cap Requests = {}
  /\ Null \notin Users \cup Seed \cup Requests
  /\ Unset \notin Users \cup {Null}
  /\ Ops \subseteq OpNames

VARIABLES
  users,      \* rows of users
  members,    \* rows of project_members, for the one project
  live,       \* ids with a row in tasks
  task,       \* task[t]: the row of t while t is live
  history,    \* history[t]: rows of task_status_history of t, by id
  comments,   \* rows of comments
  notes,      \* rows of notifications
  emails,     \* messages handed to the Celery broker
  req         \* req[r]: the handler's local state

tables == <<users, members, live, task, history, comments, notes>>
vars   == <<users, members, live, task, history, comments, notes, emails, req>>

----------------------------------------------------------------------------
(* Rows and local state. *)

TaskStatus == {"todo", "in_progress", "done"}
TaskIds    == Seed \cup Requests
OptUser    == Users \cup {Null}
Row        == [status: TaskStatus, assignee: OptUser, author: Users]
Entry      == [user: Users, old: TaskStatus, new: TaskStatus]
NewTask(author, assignee) ==
  [status |-> "todo", assignee |-> assignee, author |-> author]

Points == {"idle", "insert", "update", "status", "children", "delete",
           "comment", "editComment", "uncomment", "addMember",
           "removeMember", "userChildren", "deleteUser", "refresh",
           "refreshComment", "invalidate", "notify", "email", "broadcast"}
Ends   == {"done", "failed", "crashed"}

\* by: current_user; task, comment, who, status: path and payload; loaded: the
\* row as the handler first read it; obj: the row after the refresh; kids,
\* joined: what a user's deletion collected; wrote: the request's own
\* transaction committed.
Request ==
  [pc: Points \cup Ends, op: OpNames \cup {"none"}, by: OptUser,
   task: TaskIds \cup {Null}, comment: Requests \cup {Null},
   who: OptUser \cup {Unset}, status: TaskStatus, loaded: Row, obj: Row,
   kids: SUBSET TaskIds, joined: BOOLEAN, wrote: BOOLEAN]
Idle ==
  [pc |-> "idle", op |-> "none", by |-> Null, task |-> Null, comment |-> Null,
   who |-> Unset, status |-> "todo", loaded |-> NewTask(Owner, Null),
   obj |-> NewTask(Owner, Null), kids |-> {}, joined |-> FALSE,
   wrote |-> FALSE]

User(u) == [id |-> u, role |-> IF u \in Admins THEN "admin" ELSE "user"]
project == [owner_id |-> Owner, members |-> members]

At(r, point) == req[r].pc = point
InFlight(r)  == req[r].pc \notin Ends \cup {"idle"}

\* A handler's locals go with it; of a create or a patch the request itself
\* and the row it loaded are kept, to say what it assigned.
Ended(q, end) ==
  IF q.op \in {"create", "patch"}
  THEN [q EXCEPT !.pc = end, !.obj = Idle.obj]
  ELSE [Idle EXCEPT !.pc = end, !.op = q.op]
Moved(q, point) ==
  IF point \in Ends THEN Ended(q, point) ELSE [q EXCEPT !.pc = point]

Goto(r, point) == req' = [req EXCEPT ![r] = Moved(@, point)]
\* The transaction commits and the handler goes on.
Commit(r, point) ==
  req' = [req EXCEPT ![r] = Moved([@ EXCEPT !.wrote = TRUE], point)]
\* An exception leaves the handler: 500, the open transaction rolled back.
Fail(r) == Goto(r, "failed") /\ UNCHANGED <<tables, emails>>
\* The handler passes its checks: the request op by u goes to `point`.
Accept(r, op, u, local) ==
  /\ At(r, "idle")
  /\ op \in Ops
  /\ u \in users
  /\ req' = [req EXCEPT ![r] = [local EXCEPT !.op = op, !.by = u]]
  /\ UNCHANGED <<tables, emails>>

\* A foreign key to users that may be NULL.
KnownUser(u) == u = Null \/ u \in users

Init ==
  /\ users = Users
  /\ members = Joined
  /\ live = Seed
  /\ \E a \in Joined \cup {Null} : task = [t \in TaskIds |-> NewTask(Owner, a)]
  /\ history = [t \in TaskIds |-> <<>>]
  /\ comments = {}
  /\ notes = {}
  /\ emails = {}
  /\ req = [r \in Requests |-> Idle]

----------------------------------------------------------------------------
(* POST /projects/{project_id}/tasks *)

CreateTask(r) ==
  \E u \in Users, a \in OptUser :
    /\ check_project_member(User(u), project)
    /\ check_assignee_is_project_member(project, a)
    /\ Accept(r, "create", u, [Idle EXCEPT !.pc = "insert", !.task = r, !.who = a])

InsertTask(r) ==
  /\ At(r, "insert")
  /\ IF req[r].by \in users /\ KnownUser(req[r].who)
     THEN /\ live' = live \cup {r}
          /\ task' = [task EXCEPT ![r] = NewTask(req[r].by, req[r].who)]
          /\ Commit(r, "refresh")
          /\ UNCHANGED <<users, members, history, comments, notes, emails>>
     ELSE Fail(r)

----------------------------------------------------------------------------
(* PATCH /tasks/{task_id} *)

PatchTask(r) ==
  \E u \in Users, t \in live, a \in OptUser \cup {Unset} :
    /\ check_task_access(User(u), project)
    /\ a # Unset => check_assignee_is_project_member(project, a)
    /\ Accept(r, "patch", u,
         [Idle EXCEPT !.pc = "update", !.task = t, !.who = a, !.loaded = task[t]])

\* The unit of work emits the columns whose value differs from the loaded one.
AssigneeChanged(q) == q.who # Unset /\ q.who # q.loaded.assignee

\* Regressions: a payload dumped without exclude_unset, where a field the
\* client left out is its default None, and a write of the whole loaded row.
UpdatedFromFullDump(row, q) ==
  LET dumped == IF q.who = Unset THEN Null ELSE q.who IN
  IF dumped # q.loaded.assignee THEN [row EXCEPT !.assignee = dumped] ELSE row
UpdatedFromLoaded(row, q) ==
  IF AssigneeChanged(q) THEN [q.loaded EXCEPT !.assignee = q.who] ELSE q.loaded

\* UPDATE tasks SET <changed columns> WHERE id: the other columns keep what
\* the row holds now.
Updated(row, q) ==
  IF AssigneeChanged(q) THEN [row EXCEPT !.assignee = q.who] ELSE row

\* No row to update raises StaleDataError, an assignee who is gone breaks the
\* foreign key.  (With no column changed it is the refresh that raises.)
UpdateTask(r) ==
  LET q == req[r] IN
  /\ At(r, "update")
  /\ IF q.task \in live /\ (AssigneeChanged(q) => KnownUser(q.who))
     THEN /\ task' = [task EXCEPT ![q.task] = Updated(@, q)]
          /\ Commit(r, "refresh")
          /\ UNCHANGED <<users, members, live, history, comments, notes, emails>>
     ELSE Fail(r)

----------------------------------------------------------------------------
(* PATCH /tasks/{task_id}/status *)

PatchStatus(r) ==
  \E u \in Users, t \in live, s \in TaskStatus :
    /\ check_task_access(User(u), project)
    /\ Accept(r, "status", u,
         [Idle EXCEPT !.pc = "status", !.task = t, !.status = s, !.loaded = task[t]])

\* Regression: history is written whether or not the status changes.
StatusPresent(q) == q.status \in TaskStatus

StatusChanged(q) == q.status # q.loaded.status

HistoryRow(q) == [user |-> q.by, old |-> q.loaded.status, new |-> q.status]

\* UPDATE tasks and INSERT task_status_history in one transaction, both or
\* neither; when the loaded status is the wanted one nothing is emitted.
UpdateTaskStatus(r) ==
  LET q == req[r] IN
  /\ At(r, "status")
  /\ IF ~StatusChanged(q)
     THEN Commit(r, "refresh") /\ UNCHANGED <<tables, emails>>
     ELSE IF q.task \in live /\ q.by \in users
     THEN /\ task' = [task EXCEPT ![q.task].status = q.status]
          /\ history' = [history EXCEPT ![q.task] = Append(@, HistoryRow(q))]
          /\ Commit(r, "refresh")
          /\ UNCHANGED <<users, members, live, comments, notes, emails>>
     ELSE Fail(r)

----------------------------------------------------------------------------
(* What follows the commit of a task handler: refresh, cache invalidation,  *)
(* and the notification or the broadcast.                                   *)

\* Regression: the refresh of a missing row is tried again.
RefreshRetried(r) ==
  /\ At(r, "refresh")
  /\ IF req[r].task \in live
     THEN req' = [req EXCEPT ![r].pc = "invalidate", ![r].obj = task[req[r].task]]
     ELSE UNCHANGED req
  /\ UNCHANGED <<tables, emails>>

\* session.refresh raises when the row is gone.
Refresh(r) ==
  LET t == req[r].task IN
  /\ At(r, "refresh")
  /\ IF t \in live
     THEN /\ req' = [req EXCEPT ![r].pc = "invalidate", ![r].obj = task[t]]
          /\ UNCHANGED <<tables, emails>>
     ELSE Fail(r)

\* The assignee to notify: create_task uses its payload, update_task the
\* refreshed row, and neither notifies the user who made the change.
Assigned(q) == IF q.op = "create" THEN q.who ELSE q.obj.assignee

ToNotify(q) ==
  /\ Assigned(q) # Null
  /\ Assigned(q) # q.by
  /\ \/ q.op = "create"
     \/ q.op = "patch" /\ q.who # Unset /\ q.obj.assignee # q.loaded.assignee

\* Regression: the message is queued, the notification is not stored.
AfterInvalidateEmailOnly(q) ==
  IF q.op = "status" THEN "broadcast"
  ELSE IF ToNotify(q) THEN "email" ELSE "done"

AfterInvalidate(q) ==
  IF q.op = "status" THEN "broadcast"
  ELSE IF ToNotify(q) THEN "notify" ELSE "done"

\* The Redis errors are swallowed: the handler always goes on.
Invalidate(r) ==
  /\ At(r, "invalidate")
  /\ Goto(r, AfterInvalidate(req[r]))
  /\ UNCHANGED <<tables, emails>>

\* Regression: the actor is notified in the assignee's place.
NoteToActor(r) == [by |-> r, user |-> req[r].by, task |-> req[r].task]

Note(r) == [by |-> r, user |-> Assigned(req[r]), task |-> req[r].task]

CreateNotification(r) ==
  /\ At(r, "notify")
  /\ IF Assigned(req[r]) \in users
     THEN /\ notes' = notes \cup {Note(r)}
          /\ Goto(r, "email")
          /\ UNCHANGED <<users, members, live, task, history, comments, emails>>
     ELSE Fail(r)

\* The user is read again; one deleted meanwhile gets no message, or the
\* refresh of the notification raises.  The broker may refuse the message.
SendEmail(r) ==
  /\ At(r, "email")
  /\ \/ /\ Assigned(req[r]) \in users
        /\ emails' = emails \cup {[by |-> r, user |-> Assigned(req[r])]}
        /\ Goto(r, "done")
        /\ UNCHANGED tables
     \/ /\ Assigned(req[r]) \notin users
        /\ Goto(r, "done")
        /\ UNCHANGED <<tables, emails>>
     \/ Fail(r)

\* The rooms belong to the connection manager; send errors are swallowed.
BroadcastStatus(r) ==
  /\ At(r, "broadcast")
  /\ Goto(r, "done")
  /\ UNCHANGED <<tables, emails>>

----------------------------------------------------------------------------
(* DELETE /tasks/{task_id} *)

DeleteTask(r) ==
  \E u \in Users, t \in live :
    /\ check_task_access(User(u), project)
    /\ Accept(r, "delete", u, [Idle EXCEPT !.pc = "children", !.task = t])

CommentsOf(t) == {c \in comments : c.task = t}

\* Regression: comments.task_id without its NOT NULL takes the NULL.
FlushOrphansComments(r) ==
  LET t == req[r].task IN
  /\ At(r, "children")
  /\ IF history[t] = <<>>
     THEN /\ comments' = (comments \ CommentsOf(t))
                           \cup {[c EXCEPT !.task = Null] : c \in CommentsOf(t)}
          /\ Goto(r, "delete")
          /\ UNCHANGED <<users, members, live, task, history, notes, emails>>
     ELSE Fail(r)

\* The relationships history and comments have no passive_deletes: the unit
\* of work loads the children and sets their task_id to NULL, which the
\* NOT NULL column refuses.
FlushTaskChildren(r) ==
  LET t == req[r].task IN
  /\ At(r, "children")
  /\ IF history[t] = <<>> /\ CommentsOf(t) = {}
     THEN Goto(r, "delete") /\ UNCHANGED <<tables, emails>>
     ELSE Fail(r)

\* ON DELETE CASCADE takes the children that arrived after they were loaded.
\* A row that is already gone only logs a warning.
DeleteTaskRow(r) ==
  LET t == req[r].task IN
  /\ At(r, "delete")
  /\ live' = live \ {t}
  /\ history' = [history EXCEPT ![t] = <<>>]
  /\ comments' = comments \ CommentsOf(t)
  /\ Commit(r, "invalidate")
  /\ UNCHANGED <<users, members, task, notes, emails>>

----------------------------------------------------------------------------
(* POST /tasks/{task_id}/comments, PATCH and DELETE /comments/{comment_id} *)

CreateComment(r) ==
  \E u \in Users, t \in live :
    /\ check_task_access(User(u), project)
    /\ Accept(r, "comment", u,
         [Idle EXCEPT !.pc = "comment", !.task = t, !.comment = r])

InsertComment(r) ==
  LET q == req[r] IN
  /\ At(r, "comment")
  /\ IF q.task \in live /\ q.by \in users
     THEN /\ comments' = comments \cup {[by |-> r, task |-> q.task, user |-> q.by]}
          /\ Commit(r, "refreshComment")
          /\ UNCHANGED <<users, members, live, task, history, notes, emails>>
     ELSE Fail(r)

\* The author edits or deletes a comment; nothing else is asked of a comment.
AuthorOf(r, op) ==
  \E c \in comments, u \in Users :
    /\ check_comment_author(User(u), [user_id |-> c.user])
    /\ Accept(r, op, u,
         [Idle EXCEPT !.pc = op, !.task = c.task, !.comment = c.by])

PatchComment(r)  == AuthorOf(r, "editComment")
DeleteComment(r) == AuthorOf(r, "uncomment")

CommentThere(r) == \E c \in comments : c.by = req[r].comment

\* The text is abstracted: what is left is the row that is gone.
UpdateCommentRow(r) ==
  /\ At(r, "editComment")
  /\ IF CommentThere(r)
     THEN Commit(r, "refreshComment") /\ UNCHANGED <<tables, emails>>
     ELSE Fail(r)

\* The comment is committed; the refresh raises when it is gone again.
RefreshComment(r) ==
  /\ At(r, "refreshComment")
  /\ IF CommentThere(r)
     THEN Goto(r, "done") /\ UNCHANGED <<tables, emails>>
     ELSE Fail(r)

DeleteCommentRow(r) ==
  /\ At(r, "uncomment")
  /\ comments' = {c \in comments : c.by # req[r].comment}
  /\ Commit(r, "done")
  /\ UNCHANGED <<users, members, live, task, history, notes, emails>>

----------------------------------------------------------------------------
(* POST and DELETE /projects/{project_id}/members/{user_id}.  A target who  *)
(* already is (or is not) a member leaves everything as it is.              *)

AddMember(r) ==
  \E u \in Users, v \in users :
    /\ check_project_edit(User(u), project)
    /\ ~is_user_id_project_member_or_owner(project, v)
    /\ Accept(r, "addMember", u, [Idle EXCEPT !.pc = "addMember", !.who = v])

\* The primary key of project_members refuses a second row, its foreign key
\* a user who is gone.
InsertMember(r) ==
  LET v == req[r].who IN
  /\ At(r, "addMember")
  /\ IF v \in users \ members
     THEN /\ members' = members \cup {v}
          /\ Commit(r, "done")
          /\ UNCHANGED <<users, live, task, history, comments, notes, emails>>
     ELSE Fail(r)

RemoveMember(r) ==
  \E u \in Users, v \in members :
    /\ check_project_edit(User(u), project)
    /\ Accept(r, "removeMember", u, [Idle EXCEPT !.pc = "removeMember", !.who = v])

\* Only the row of project_members: tasks assigned to the user keep him.
DeleteMemberRow(r) ==
  /\ At(r, "removeMember")
  /\ members' = members \ {req[r].who}
  /\ Commit(r, "done")
  /\ UNCHANGED <<users, live, task, history, comments, notes, emails>>

----------------------------------------------------------------------------
(* DELETE /users/me and DELETE /users/{user_id} *)

DeleteUser(r) ==
  \E u \in Users, v \in users :
    /\ u = v \/ check_admin(User(u))
    /\ check_can_delete_user(User(u), User(v))
    /\ Accept(r, "deleteUser", u, [Idle EXCEPT !.pc = "userChildren", !.who = v])

AssignedTo(v) == {t \in live : task[t].assignee = v}
Authored(v)   == {t \in live : task[t].author = v}

\* Children whose foreign key the unit of work would set to NULL in a
\* NOT NULL column.
HasFixedChildren(v) ==
  \/ v = Owner
  \/ Authored(v) # {}
  \/ \E c \in comments : c.user = v
  \/ \E n \in notes : n.user = v

FlushUserChildren(r) ==
  LET v == req[r].who IN
  /\ At(r, "userChildren")
  /\ IF HasFixedChildren(v)
     THEN Fail(r)
     ELSE /\ req' = [req EXCEPT ![r].pc = "deleteUser",
                                ![r].kids = AssignedTo(v),
                                ![r].joined = v \in members]
          /\ UNCHANGED <<tables, emails>>

HasHistory(v) ==
  \E t \in TaskIds : \E i \in DOMAIN history[t] : history[t][i].user = v

\* What the foreign keys to users still refuse at the DELETE: rows that
\* arrived after the children were loaded, and the history, which no
\* relationship of User loads.  Notifications cascade.
StillReferenced(v, joined) ==
  /\ v \in users
  /\ \/ v \in members /\ ~joined
     \/ HasHistory(v)
     \/ Authored(v) # {}
     \/ \E c \in comments : c.user = v

\* One UPDATE per collected task, by id; the row count is checked only when
\* there is exactly one.
MissingOnlyKid(q) == Cardinality(q.kids) = 1 /\ q.kids \cap live = {}

\* Regression: only what the unit of work collected is cleared.
ClearedByOrm(q) == q.kids \cap live

\* The unit of work nulls the collected tasks by id, whoever they are
\* assigned to by now; ON DELETE SET NULL takes the tasks assigned since.
Cleared(q) == (q.kids \cap live) \cup AssignedTo(q.who)

DeleteUserRow(r) ==
  LET q == req[r] v == q.who IN
  /\ At(r, "deleteUser")
  /\ IF MissingOnlyKid(q) \/ StillReferenced(v, q.joined)
     THEN Fail(r)
     ELSE /\ task' = [t \in TaskIds |->
                        IF t \in Cleared(q) THEN [task[t] EXCEPT !.assignee = Null]
                        ELSE task[t]]
          /\ members' = IF q.joined THEN members \ {v} ELSE members
          /\ notes' = {n \in notes : n.user # v}
          /\ users' = users \ {v}
          /\ Commit(r, "done")
          /\ UNCHANGED <<live, history, comments, emails>>

----------------------------------------------------------------------------
(* The API process, its requests and its restarts. *)

Arrive(r) ==
  \/ CreateTask(r) \/ PatchTask(r) \/ PatchStatus(r) \/ DeleteTask(r)
  \/ CreateComment(r) \/ PatchComment(r) \/ DeleteComment(r)
  \/ AddMember(r) \/ RemoveMember(r) \/ DeleteUser(r)

Step(r) ==
  \/ InsertTask(r) \/ UpdateTask(r) \/ UpdateTaskStatus(r)
  \/ FlushTaskChildren(r) \/ DeleteTaskRow(r)
  \/ InsertComment(r) \/ UpdateCommentRow(r) \/ DeleteCommentRow(r)
  \/ RefreshComment(r)
  \/ InsertMember(r) \/ DeleteMemberRow(r)
  \/ FlushUserChildren(r) \/ DeleteUserRow(r)
  \/ Refresh(r) \/ Invalidate(r) \/ CreateNotification(r) \/ SendEmail(r)
  \/ BroadcastStatus(r)

\* The process dies between two awaits: every request it was serving is
\* lost, what was committed stays, the open transactions roll back.
Crash ==
  /\ \E r \in Requests : InFlight(r)
  /\ req' = [r \in Requests |->
               IF InFlight(r) THEN Ended(req[r], "crashed") ELSE req[r]]
  /\ UNCHANGED <<tables, emails>>

\* The service waits for clients: the only state without another step.
Quiet ==
  /\ \A r \in Requests : ~InFlight(r)
  /\ UNCHANGED vars

Next == Crash \/ Quiet \/ \E r \in Requests : Arrive(r) \/ Step(r)

\* The event loop resumes every handler whose await is over; a client need
\* not send anything, and nothing makes the process crash.
Fairness == \A r \in Requests : WF_vars(Step(r))
Spec     == Init /\ [][Next]_vars /\ Fairness

----------------------------------------------------------------------------
(* Properties. *)

\* Every row and every handler's local state has its type.
TypeOK ==
  /\ users \subseteq Users
  /\ members \subseteq Users
  /\ live \subseteq TaskIds
  /\ task \in [TaskIds -> Row]
  /\ history \in [TaskIds -> Seq(Entry)]
  /\ comments \subseteq [by: Requests, task: TaskIds, user: Users]
  /\ notes \subseteq [by: Requests, user: Users, task: TaskIds \cup {Null}]
  /\ emails \subseteq [by: Requests, user: Users]
  /\ req \in [Requests -> Request]

\* No interleaving of handlers leaves a row that refers to nothing: the
\* checks a handler makes on loaded rows, what the unit of work nulls and
\* what the foreign keys refuse together keep every reference, and the
\* project its owner.
PeopleExist ==
  /\ Owner \in users
  /\ members \subseteq users \ {Owner}
  /\ \A t \in live : KnownUser(task[t].assignee) /\ task[t].author \in users
TaskRowsExist ==
  /\ \A t \in TaskIds : \A i \in DOMAIN history[t] :
       t \in live /\ history[t][i].user \in users
  /\ \A c \in comments : c.task \in live /\ c.user \in users
  /\ \A n \in notes : n.user \in users
RefIntegrity == PeopleExist /\ TaskRowsExist

LastLogged(h) == IF h = <<>> THEN "todo" ELSE h[Len(h)].new

\* The status of a task is the one its history ends with, whatever runs
\* between the load and the commit of a handler: PATCH /tasks/{id} works on a
\* stale row and never writes its stale status back (README, "Status history:
\* Written only via PATCH /tasks/{id}/status").
StatusIsLastLogged == \A t \in live : task[t].status = LastLogged(history[t])

\* q committed an assignment of its task to user u.
AssignedBy(q, u) ==
  /\ q.wrote /\ q.who = u
  /\ \/ q.op = "create"
     \/ q.op = "patch" /\ AssigneeChanged(q)

\* An assignee changes only to the one a PATCH of that task names, or to none
\* by the deletion of a user.  A PATCH of other fields, which holds the row as
\* it was before other requests committed, neither clears nor takes back what
\* they assigned (update_task: exclude_unset, and only changed columns).
AssigneeAsNamed ==
  [][\A t \in live : task'[t].assignee # task[t].assignee =>
       \E r \in Requests :
         \/ /\ At(r, "update") /\ req'[r].pc = "refresh"
            /\ req[r].task = t /\ req[r].who = task'[t].assignee
         \/ /\ At(r, "deleteUser") /\ req'[r].pc = "done"
            /\ task'[t].assignee = Null]_vars

\* Nobody is told of an assignment no request made: the assignee of the
\* refreshed row may be another request's, never an invention.
NotifiedWasAssigned ==
  \A n \in notes : \E r \in Requests :
    req[r].task = n.task /\ AssignedBy(req[r], n.user)

\* A message goes out only after its notification is stored, which stays
\* while the user does.
EmailAfterNotice ==
  \A e \in emails :
    e.user \in users => \E n \in notes : n.by = e.by /\ n.user = e.user

\* Every request the service accepts ends, with an answer, with an error or
\* with the process: no handler waits for what another request may withhold.
RequestsEnd == \A r \in Requests : InFlight(r) ~> req[r].pc \in Ends

\* The life of every task is the one TaskAudit describes: the create, status
\* and delete handlers implement it, the others leave it alone.
phase ==
  [t \in TaskIds |->
    IF t \in live THEN "live"
    ELSE IF t \in Seed THEN "gone"
    ELSE IF req[t].op = "create" /\ req[t].wrote THEN "gone" ELSE "absent"]
statusOf ==
  [t \in TaskIds |-> IF t \in live THEN task[t].status ELSE "todo"]

Audit == INSTANCE TaskAudit WITH
  Tasks <- TaskIds, Initial <- Seed, Statuses <- TaskStatus, First <- "todo",
  People <- Users, status <- statusOf, log <- history
ImplementsAudit == Audit!AuditSpec

----------------------------------------------------------------------------
(* What the repository says and the handlers do not keep. *)

\* tests/test_tasks.py:43: old_status is the status before the change.
HistoryChains ==
  \A t \in live : \A i \in DOMAIN history[t] :
    history[t][i].old = LastLogged(SubSeq(history[t], 1, i - 1))

\* README.md:96: an assignee change by someone else is notified.
AssignmentNotified ==
  \A r \in Requests : \A u \in users :
    At(r, "done") /\ AssignedBy(req[r], u) /\ u # req[r].by
      => \E n \in notes : n.task = req[r].task /\ n.user = u

\* app/models/task.py:44 (ON DELETE SET NULL): deleting a user unassigns
\* that user, and nobody else.
UnassignsOnlyTheDeleted ==
  [][\A r \in Requests, t \in TaskIds :
       At(r, "deleteUser") /\ t \in live /\ task[t].assignee # req[r].who
         => (req'[r].pc = "done" => task'[t].assignee = task[t].assignee)]_vars

=============================================================================
