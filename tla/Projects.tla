------------------------------ MODULE Projects ------------------------------
(***************************************************************************)
(* The handlers of projects and their members, with those that create and  *)
(* assign tasks and delete users beside them: what the foreign keys and    *)
(* the unit of work make of it when they overlap.                          *)
(*                                                                         *)
(* As in TaskService a request runs once, names the row it inserts, and    *)
(* works on what its session loaded; a flush and its commit are one step.  *)
(* A request that a check refuses, or that has nothing to do, is left out. *)
(***************************************************************************)
EXTENDS Permissions, Naturals, FiniteSets

CONSTANTS
  Users,
  Admins,
  SeedProjects,   \* rows [id, owner_id] at the start
  SeedMembers,    \* rows <<project, user>> of project_members at the start
  SeedTasks,      \* rows of tasks at the start
  Requests

VARIABLES
  users, projects, members, tasks,   \* the tables
  joined,     \* every <<project, user>> that was a member or the owner once
  req         \* req[r]: the local state of a handler

tables == <<users, projects, members, tasks>>
vars   == <<tables, joined, req>>

----------------------------------------------------------------------------
(* Rows and local state. *)

Ids     == {p.id : p \in SeedProjects \cup SeedTasks} \cup Requests
OptUser == Users \cup {Null}
Project == [id: Ids, owner_id: Users]
Task    == [id: Ids, project: Ids, author: Users, assignee: OptUser]

Points == {"idle", "insertProject", "update", "tasks", "delete", "addMember",
           "removeMember", "insertTask", "assign", "children", "deleteUser", "reload"}
Ends   == {"done", "failed", "crashed"}

\* loaded: the rows of project_members the session has loaded; kids: the tasks
\* a user's deletion has loaded; stale: the answer may show a project that is
\* gone.
Request ==
  [pc: Points \cup Ends, by: OptUser, project: Ids \cup {Null}, task: Ids \cup {Null},
   who: OptUser, loaded: SUBSET (Ids \X Users), kids: SUBSET Ids, stale: BOOLEAN]
Idle ==
  [pc |-> "idle", by |-> Null, project |-> Null, task |-> Null, who |-> Null,
   loaded |-> {}, kids |-> {}, stale |-> FALSE]

User(u)      == [id |-> u, role |-> IF u \in Admins THEN "admin" ELSE "user"]
MemberRows(p) == {m \in members : m[1] = p}
TasksOf(p)   == {t \in tasks : t.project = p}
IdsOf(T)     == {t.id : t \in T}

\* Rows that earlier requests left: they refer to what there is, and an
\* assignee has joined the project.
ASSUME ProjectsAssumption ==
  /\ Admins \subseteq Users /\ Null \notin Users \cup Ids
  /\ SeedProjects \subseteq Project /\ SeedTasks \subseteq Task
  /\ IsFiniteSet(SeedProjects)
  /\ SeedMembers \subseteq IdsOf(SeedProjects) \X Users
  /\ IdsOf(SeedTasks \cup SeedProjects) \cap Requests = {}
  /\ \A x, y \in SeedProjects \cup SeedTasks : x.id = y.id => x = y
  /\ \A t \in SeedTasks : \E p \in SeedProjects :
       /\ p.id = t.project
       /\ t.assignee \in {Null, p.owner_id} \/ <<p.id, t.assignee>> \in SeedMembers

\* What get_project returns: the row with its members, loaded with it.
Loaded(p) == [owner_id |-> p.owner_id, members |-> {m[2] : m \in MemberRows(p.id)}]

At(r, point) == req[r].pc = point
InFlight(r)  == req[r].pc \notin Ends \cup {"idle"}
Goto(r, point) ==
  req' = [req EXCEPT ![r] = IF point \in Ends THEN [Idle EXCEPT !.pc = point]
                            ELSE [@ EXCEPT !.pc = point]]
Fail(r) == Goto(r, "failed") /\ UNCHANGED <<tables, joined>>
\* The request by u passes its checks.
Accept(r, u, local) ==
  /\ At(r, "idle") /\ u \in users
  /\ req' = [req EXCEPT ![r] = [local EXCEPT !.by = u]]
  /\ UNCHANGED <<tables, joined>>

Init ==
  /\ users = Users
  /\ projects = SeedProjects /\ members = SeedMembers /\ tasks \in {{}, SeedTasks}
  /\ joined = SeedMembers \cup {<<p.id, p.owner_id>> : p \in SeedProjects}
  /\ req = [r \in Requests |-> Idle]

----------------------------------------------------------------------------
(* POST, PATCH and GET /projects *)

CreateProject(r) ==
  \E u \in Users : Accept(r, u, [Idle EXCEPT !.pc = "insertProject", !.project = r])

InsertProject(r) ==
  /\ At(r, "insertProject")
  /\ IF req[r].by \in users
     THEN /\ projects' = projects \cup {[id |-> r, owner_id |-> req[r].by]}
          /\ joined' = joined \cup {<<r, req[r].by>>}
          /\ Goto(r, "reload")
          /\ UNCHANGED <<users, members, tasks>>
     ELSE Fail(r)

\* What may be edited is abstracted: the row that may be gone is left.
PatchProject(r) ==
  \E u \in Users, p \in projects :
    /\ check_project_edit(User(u), Loaded(p))
    /\ Accept(r, u, [Idle EXCEPT !.pc = "update", !.project = p.id])

UpdateProject(r) ==
  /\ At(r, "update")
  /\ IF req[r].project \in IdsOf(projects)
     THEN Goto(r, "reload") /\ UNCHANGED <<tables, joined>>
     ELSE Fail(r)

\* refresh raises when the row is gone, and so does create when get_project
\* finds none; a change of the members answers with what it has.
Reload(r) ==
  /\ At(r, "reload")
  /\ IF req[r].stale \/ req[r].project \in IdsOf(projects)
     THEN Goto(r, "done") /\ UNCHANGED <<tables, joined>>
     ELSE Fail(r)

\* Regression: no distinct().
EachRow(rows) == rows

Distinct(rows) == {<<row[1]>> : row \in rows}

\* The outer join of projects and project_members, and what is left of it.
get_projects(u) ==
  LET MembersOrNull(p) ==
        IF MemberRows(p.id) = {} THEN {Null} ELSE {m[2] : m \in MemberRows(p.id)}
      rows == UNION {{<<p.id, m>> : m \in {x \in MembersOrNull(p) : u \in {p.owner_id, x}}} :
                       p \in projects}
  IN Distinct(rows)

----------------------------------------------------------------------------
(* DELETE /projects/{project_id} *)

DeleteProject(r) ==
  \E u \in Users, p \in projects :
    /\ check_project_edit(User(u), Loaded(p))
    /\ Accept(r, u, [Idle EXCEPT !.pc = "tasks", !.project = p.id,
                                 !.loaded = MemberRows(p.id)])

\* Regression: tasks.project_id without its NOT NULL.
FlushTasksDetaching(r) ==
  /\ At(r, "tasks")
  /\ tasks' = {IF t.project = req[r].project THEN [t EXCEPT !.project = Null] ELSE t :
                 t \in tasks}
  /\ Goto(r, "delete")
  /\ UNCHANGED <<users, projects, members, joined>>

\* The relationship tasks has no passive_deletes: the unit of work loads them
\* and sets their project_id to NULL, which the NOT NULL column refuses.
FlushTasks(r) ==
  /\ At(r, "tasks")
  /\ IF TasksOf(req[r].project) = {}
     THEN Goto(r, "delete") /\ UNCHANGED <<tables, joined>>
     ELSE Fail(r)

\* Regression: the DELETE does not ask for the rows of project_members.
NoMoreMembers(q) == TRUE

\* The foreign key of project_members, which has no ON DELETE.
MembersAsLoaded(q) == MemberRows(q.project) \subseteq q.loaded

\* The loaded rows of project_members go first; the tasks that arrived since
\* go by ON DELETE CASCADE.  A project that is gone only logs a warning.
DeleteProjectRow(r) ==
  LET q == req[r] IN
  /\ At(r, "delete")
  /\ IF MembersAsLoaded(q)
     THEN /\ projects' = {p \in projects : p.id # q.project}
          /\ members' = members \ q.loaded
          /\ tasks' = tasks \ TasksOf(q.project)
          /\ Goto(r, "done")
          /\ UNCHANGED <<users, joined>>
     ELSE Fail(r)

----------------------------------------------------------------------------
(* POST and DELETE /projects/{project_id}/members/{user_id} *)

AddMember(r) ==
  \E u \in Users, v \in users, p \in projects :
    /\ check_project_edit(User(u), Loaded(p))
    /\ ~is_user_id_project_member_or_owner(Loaded(p), v)
    /\ Accept(r, u, [Idle EXCEPT !.pc = "addMember", !.project = p.id, !.who = v,
                                 !.stale = TRUE])

\* Both foreign keys and the primary key have a say.
InsertMember(r) ==
  LET q == req[r] row == <<q.project, q.who>> IN
  /\ At(r, "addMember")
  /\ IF q.project \in IdsOf(projects) /\ q.who \in users /\ row \notin members
     THEN /\ members' = members \cup {row}
          /\ joined' = joined \cup {row}
          /\ Goto(r, "reload")
          /\ UNCHANGED <<users, projects, tasks>>
     ELSE Fail(r)

RemoveMember(r) ==
  \E u \in Users, p \in projects : \E v \in Loaded(p).members :
    /\ check_project_edit(User(u), Loaded(p))
    /\ Accept(r, u, [Idle EXCEPT !.pc = "removeMember", !.project = p.id, !.who = v,
                                 !.stale = TRUE])

DeleteMemberRow(r) ==
  /\ At(r, "removeMember")
  /\ members' = members \ {<<req[r].project, req[r].who>>}
  /\ Goto(r, "reload")
  /\ UNCHANGED <<users, projects, tasks, joined>>

----------------------------------------------------------------------------
(* POST /projects/{project_id}/tasks, and the assignee of PATCH /tasks/{id} *)

KnownUser(u) == u = Null \/ u \in users

CreateTask(r) ==
  \E u \in Users, a \in OptUser, p \in projects :
    /\ check_project_member(User(u), Loaded(p))
    /\ check_assignee_is_project_member(Loaded(p), a)
    /\ Accept(r, u, [Idle EXCEPT !.pc = "insertTask", !.project = p.id, !.who = a])

InsertTask(r) ==
  LET q == req[r] IN
  /\ At(r, "insertTask")
  /\ IF q.project \in IdsOf(projects) /\ q.by \in users /\ KnownUser(q.who)
     THEN /\ tasks' = tasks \cup {[id |-> r, project |-> q.project, author |-> q.by,
                                   assignee |-> q.who]}
          /\ Goto(r, "done")
          /\ UNCHANGED <<users, projects, members, joined>>
     ELSE Fail(r)

\* Regression: the assignee is checked to be a user, not a member.
AnyAssignee(p, a) == KnownUser(a)

MayBeAssigned(p, a) == check_assignee_is_project_member(Loaded(p), a)

PatchTask(r) ==
  \E u \in Users, a \in OptUser, t \in tasks, p \in projects :
    /\ t.project = p.id /\ t.assignee # a
    /\ check_task_access(User(u), Loaded(p))
    /\ MayBeAssigned(p, a)
    /\ Accept(r, u, [Idle EXCEPT !.pc = "assign", !.task = t.id, !.who = a])

Reassigned(q) ==
  {IF t.id = q.task THEN [t EXCEPT !.assignee = q.who] ELSE t : t \in tasks}

AssignTask(r) ==
  LET q == req[r] IN
  /\ At(r, "assign")
  /\ IF q.task \in IdsOf(tasks) /\ KnownUser(q.who)
     THEN /\ tasks' = Reassigned(q)
          /\ Goto(r, "done")
          /\ UNCHANGED <<users, projects, members, joined>>
     ELSE Fail(r)

----------------------------------------------------------------------------
(* DELETE /users/me and DELETE /users/{user_id} *)

DeleteUser(r) ==
  \E u \in Users, v \in users :
    /\ u = v \/ check_admin(User(u))
    /\ check_can_delete_user(User(u), User(v))
    /\ Accept(r, u, [Idle EXCEPT !.pc = "children", !.who = v])

Owns(v)    == \E p \in projects : p.owner_id = v
Authors(v) == \E t \in tasks : t.author = v

\* The unit of work loads what refers to the user; owned projects and written
\* tasks it would set to NULL, which their columns refuse.
FlushChildren(r) ==
  LET v == req[r].who IN
  /\ At(r, "children")
  /\ IF Owns(v) \/ Authors(v) THEN Fail(r)
     ELSE /\ req' = [req EXCEPT ![r].pc = "deleteUser",
                                ![r].loaded = {m \in members : m[2] = v},
                                ![r].kids = IdsOf({t \in tasks : t.assignee = v})]
          /\ UNCHANGED <<tables, joined>>

\* What the foreign keys to users refuse: rows that arrived since.
Referred(q) ==
  \/ Owns(q.who) \/ Authors(q.who)
  \/ \E m \in members \ q.loaded : m[2] = q.who

\* The loaded tasks lose their assignee by id (one row that is missing is
\* noticed, several are not), those assigned since by ON DELETE SET NULL.
DeleteUserRow(r) ==
  LET q == req[r] IN
  /\ At(r, "deleteUser")
  /\ IF \/ Cardinality(q.kids) = 1 /\ q.kids \cap IdsOf(tasks) = {}
        \/ Referred(q)
     THEN Fail(r)
     ELSE /\ users' = users \ {q.who}
          /\ members' = members \ q.loaded
          /\ tasks' = {IF t.id \in q.kids \/ t.assignee = q.who
                       THEN [t EXCEPT !.assignee = Null] ELSE t : t \in tasks}
          /\ Goto(r, "done")
          /\ UNCHANGED <<projects, joined>>

----------------------------------------------------------------------------
Arrive(r) ==
  \/ CreateProject(r) \/ PatchProject(r) \/ DeleteProject(r)
  \/ AddMember(r) \/ RemoveMember(r)
  \/ CreateTask(r) \/ PatchTask(r) \/ DeleteUser(r)

Step(r) ==
  \/ InsertProject(r) \/ UpdateProject(r) \/ Reload(r)
  \/ FlushTasks(r) \/ DeleteProjectRow(r)
  \/ InsertMember(r) \/ DeleteMemberRow(r)
  \/ InsertTask(r) \/ AssignTask(r)
  \/ FlushChildren(r) \/ DeleteUserRow(r)

\* The process dies: what was committed stays.
Crash ==
  /\ \E r \in Requests : InFlight(r)
  /\ req' = [r \in Requests |-> IF InFlight(r) THEN [Idle EXCEPT !.pc = "crashed"]
                                ELSE req[r]]
  /\ UNCHANGED <<tables, joined>>

Next == Crash \/ \E r \in Requests : Arrive(r) \/ Step(r)
Spec == Init /\ [][Next]_vars

----------------------------------------------------------------------------
(* Properties. *)

\* Rows and handlers have their types; ids are unique.
TypeOK ==
  /\ users \subseteq Users /\ projects \subseteq Project /\ tasks \subseteq Task
  /\ members \subseteq Ids \X Users /\ joined \subseteq Ids \X Users
  /\ req \in [Requests -> Request]
  /\ \A x, y \in projects \cup tasks : x.id = y.id => x = y

\* However creations, deletions and changes of the members overlap, no row
\* refers to a project or a user that is gone (some of the foreign keys
\* cascade, some refuse, and the unit of work clears what it had loaded).
RefIntegrity ==
  /\ \A p \in projects : p.owner_id \in users
  /\ \A m \in members : m[1] \in IdsOf(projects) /\ m[2] \in users
  /\ \A t \in tasks : t.project \in IdsOf(projects) /\ {t.author, t.assignee} \subseteq users \cup {Null}

\* The assignee of a task is, or was once, a member or the owner of its
\* project.  (More does not hold: a removal may commit between the check of
\* the loaded members and the commit of the assignment, or after it.)
AssigneeHadJoined ==
  \A t \in tasks : t.assignee # Null => <<t.project, t.assignee>> \in joined

\* A user's list of projects has each he owns or takes part in, once, however
\* many members it has.
ListedOnce ==
  \A u \in users :
    Cardinality(get_projects(u)) =
      Cardinality({p \in projects : p.owner_id = u \/ <<p.id, u>> \in members})
=============================================================================
