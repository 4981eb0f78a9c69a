---------------------------- MODULE ProjectsProofs ----------------------------
(***************************************************************************)
(* Theorems about Projects, for any users, projects, tasks and requests:   *)
(* every row refers to what there is, every assignee has joined, and a     *)
(* list has each project once.                                             *)
(***************************************************************************)
EXTENDS Projects, FiniteSetTheorems, TLAPS

----------------------------------------------------------------------------
(* The inductive invariant. *)

\* The points of a request that has not inserted its row.
FreshPoints == {"idle", "insertProject", "insertTask"}

\* x names no row that is still to come.
Old(x) == x \in Requests => req[x].pc \notin FreshPoints

HasJoined(p, u) == u = Null \/ <<p, u>> \in joined

\* What a handler knows at each point: its own row is new, and whom it assigns
\* has joined the task's project.
Handler(r) ==
  LET q == req[r] IN
  /\ q.pc \in FreshPoints => r \notin IdsOf(projects \cup tasks)
  /\ q.pc = "insertTask" => HasJoined(q.project, q.who)
  /\ q.pc = "assign" =>
       /\ Old(q.task)
       /\ \A t \in tasks : t.id = q.task => HasJoined(t.project, q.who)

\* Who is in a project, has joined it.
PeopleJoined ==
  /\ members \subseteq joined
  /\ \A p \in projects : <<p.id, p.owner_id>> \in joined

IInv ==
  /\ TypeOK
  /\ RefIntegrity
  /\ AssigneeHadJoined
  /\ PeopleJoined
  /\ IsFiniteSet(projects)
  /\ \A r \in Requests : Handler(r)

----------------------------------------------------------------------------
(* The local state of the handlers. *)

LEMMA IdleIsRequest == Idle \in Request /\ Idle.pc = "idle"
BY DEF Idle, Request, Points, OptUser

LEMMA GotoMoves ==
  ASSUME TypeOK, NEW r \in Requests, NEW p \in Points \cup Ends, Goto(r, p)
  PROVE  /\ req' \in [Requests -> Request]
         /\ req'[r].pc = p
         /\ \A s \in Requests \ {r} : req'[s] = req[s]
<1>0. req \in [Requests -> Request] /\ req[r] \in Request
  BY DEF TypeOK
<1> DEFINE next == IF p \in Ends THEN [Idle EXCEPT !.pc = p]
                   ELSE [req[r] EXCEPT !.pc = p]
<1>1. next \in Request /\ next.pc = p
  BY <1>0, IdleIsRequest DEF Request
<1>2. req' = [req EXCEPT ![r] = next]
  BY DEF Goto
<1> HIDE DEF next
<1> QED
  BY <1>0, <1>1, <1>2

LEMMA AcceptMoves ==
  ASSUME TypeOK, NEW r \in Requests, NEW u \in Users, NEW local \in Request,
         Accept(r, u, local)
  PROVE  /\ req' \in [Requests -> Request]
         /\ req'[r] = [local EXCEPT !.by = u]
         /\ \A s \in Requests \ {r} : req'[s] = req[s]
         /\ req[r].pc = "idle"
         /\ UNCHANGED <<tables, joined>>
<1>1. [local EXCEPT !.by = u] \in Request
  BY DEF Request, OptUser
<1> QED
  BY <1>1 DEF Accept, TypeOK, At

\* A request starts at one of these points with a row there is, ...
Known(p, u) == u = Null \/ \E x \in projects : x.id = p /\ is_user_id_project_member_or_owner(Loaded(x), u)

Arrival(r, q) ==
  /\ q \in Request
  /\ q.pc \in {"insertProject", "update", "tasks", "addMember", "removeMember",
               "insertTask", "assign", "children"}
  /\ q.pc = "insertTask" => Known(q.project, q.who)
  /\ q.pc = "assign" => \E t \in tasks : t.id = q.task /\ Known(t.project, q.who)

LEMMA ArriveShape ==
  ASSUME TypeOK, NEW r \in Requests, Arrive(r)
  PROVE  \E u \in Users, local \in Request : Arrival(r, local) /\ Accept(r, u, local)
<1>0. Idle \in Request /\ r \in Ids
  BY IdleIsRequest DEF Ids
<1>T. /\ users \subseteq Users
      /\ \A p \in projects : p.id \in Ids
      /\ \A t \in tasks : t.id \in Ids
      /\ members \subseteq Ids \X Users
  BY DEF TypeOK, Project, Task
<1>1. CASE CreateProject(r)
  <2>1. PICK u \in Users :
          Accept(r, u, [Idle EXCEPT !.pc = "insertProject", !.project = r])
    BY <1>1 DEF CreateProject
  <2>2. Arrival(r, [Idle EXCEPT !.pc = "insertProject", !.project = r])
    BY <1>0 DEF Arrival, Request, Points
  <2> QED BY <2>1, <2>2 DEF Arrival
<1>2. CASE PatchProject(r)
  <2>1. PICK u \in Users, p \in projects :
          Accept(r, u, [Idle EXCEPT !.pc = "update", !.project = p.id])
    BY <1>2 DEF PatchProject
  <2>2. Arrival(r, [Idle EXCEPT !.pc = "update", !.project = p.id])
    BY <1>0, <1>T DEF Arrival, Request, Points
  <2> QED BY <2>1, <2>2 DEF Arrival
<1>3. CASE DeleteProject(r)
  <2>1. PICK u \in Users, p \in projects :
          Accept(r, u, [Idle EXCEPT !.pc = "tasks", !.project = p.id,
                                    !.loaded = MemberRows(p.id)])
    BY <1>3 DEF DeleteProject
  <2>2. MemberRows(p.id) \subseteq Ids \X Users
    BY <1>T DEF MemberRows
  <2>3. Arrival(r, [Idle EXCEPT !.pc = "tasks", !.project = p.id,
                                !.loaded = MemberRows(p.id)])
    BY <1>0, <1>T, <2>2 DEF Arrival, Request, Points
  <2> QED BY <2>1, <2>3 DEF Arrival
<1>4. CASE AddMember(r)
  <2>1. PICK u \in Users, v \in users, p \in projects :
          Accept(r, u, [Idle EXCEPT !.pc = "addMember", !.project = p.id, !.who = v,
                                    !.stale = TRUE])
    BY <1>4 DEF AddMember
  <2>2. Arrival(r, [Idle EXCEPT !.pc = "addMember", !.project = p.id, !.who = v,
                                !.stale = TRUE])
    BY <1>0, <1>T DEF Arrival, Request, Points, OptUser
  <2> QED BY <2>1, <2>2 DEF Arrival
<1>5. CASE RemoveMember(r)
  <2>1. PICK u \in Users, p \in projects : \E v \in Loaded(p).members :
          Accept(r, u, [Idle EXCEPT !.pc = "removeMember", !.project = p.id, !.who = v,
                                    !.stale = TRUE])
    BY <1>5 DEF RemoveMember
  <2>2. PICK v \in Loaded(p).members :
          Accept(r, u, [Idle EXCEPT !.pc = "removeMember", !.project = p.id, !.who = v,
                                    !.stale = TRUE])
    BY <2>1
  <2>3. v \in Users
    BY <1>T DEF Loaded, MemberRows
  <2>4. Arrival(r, [Idle EXCEPT !.pc = "removeMember", !.project = p.id, !.who = v,
                                !.stale = TRUE])
    BY <1>0, <1>T, <2>3 DEF Arrival, Request, Points, OptUser
  <2> QED BY <2>2, <2>4 DEF Arrival
<1>6. CASE CreateTask(r)
  <2>1. PICK u \in Users, a \in OptUser, p \in projects :
          /\ check_assignee_is_project_member(Loaded(p), a)
          /\ Accept(r, u, [Idle EXCEPT !.pc = "insertTask", !.project = p.id, !.who = a])
    BY <1>6 DEF CreateTask
  <2>2. Known(p.id, a)
    BY <2>1 DEF Known, check_assignee_is_project_member
  <2>3. Arrival(r, [Idle EXCEPT !.pc = "insertTask", !.project = p.id, !.who = a])
    BY <1>0, <1>T, <2>2 DEF Arrival, Request, Points
  <2> QED BY <2>1, <2>3 DEF Arrival
<1>7. CASE PatchTask(r)
  <2>1. PICK u \in Users, a \in OptUser, t \in tasks, p \in projects :
          /\ t.project = p.id
          /\ MayBeAssigned(p, a)
          /\ Accept(r, u, [Idle EXCEPT !.pc = "assign", !.task = t.id, !.who = a])
    BY <1>7 DEF PatchTask
  <2>2. Known(t.project, a)
    BY <2>1 DEF Known, MayBeAssigned, check_assignee_is_project_member
  <2>3. Arrival(r, [Idle EXCEPT !.pc = "assign", !.task = t.id, !.who = a])
    BY <1>0, <1>T, <2>2 DEF Arrival, Request, Points
  <2> QED BY <2>1, <2>3 DEF Arrival
<1>8. CASE DeleteUser(r)
  <2>1. PICK u \in Users, v \in users :
          Accept(r, u, [Idle EXCEPT !.pc = "children", !.who = v])
    BY <1>8 DEF DeleteUser
  <2>2. Arrival(r, [Idle EXCEPT !.pc = "children", !.who = v])
    BY <1>0, <1>T DEF Arrival, Request, Points, OptUser
  <2> QED BY <2>1, <2>2 DEF Arrival
<1> QED
  BY <1>1, <1>2, <1>3, <1>4, <1>5, <1>6, <1>7, <1>8 DEF Arrive

\* Where a handler's step leads.
LEMMA StepMoves ==
  ASSUME TypeOK, NEW r \in Requests, Step(r)
  PROVE  /\ req' \in [Requests -> Request]
         /\ \A s \in Requests \ {r} : req'[s] = req[s]
         /\ req'[r].pc \in {"reload", "delete", "deleteUser", "done", "failed"}
<1>0. /\ {"reload", "delete", "done", "failed"} \subseteq Points \cup Ends
      /\ req \in [Requests -> Request]
  BY DEF Points, Ends, TypeOK
<1>1. ASSUME NEW p \in {"reload", "delete", "done", "failed"}, Goto(r, p)
      PROVE  /\ req' \in [Requests -> Request]
             /\ \A s \in Requests \ {r} : req'[s] = req[s]
             /\ req'[r].pc = p
  BY <1>0, <1>1, GotoMoves
<1>2. ASSUME Fail(r) PROVE Goto(r, "failed")
  BY <1>2 DEF Fail
<1>3. CASE FlushTasks(r) /\ ~Fail(r)
  BY <1>1, <1>3 DEF FlushTasks
<1>4. CASE FlushChildren(r) /\ ~Fail(r)
  <2> DEFINE next == [req[r] EXCEPT !.pc = "deleteUser",
                        !.loaded = {m \in members : m[2] = req[r].who},
                        !.kids = IdsOf({t \in tasks : t.assignee = req[r].who})]
  <2>1. req' = [req EXCEPT ![r] = next]
    BY <1>4 DEF FlushChildren
  <2>2. req[r] \in Request /\ "deleteUser" \in Points
    BY <1>0 DEF Points
  <2>3. /\ {m \in members : m[2] = req[r].who} \subseteq Ids \X Users
        /\ IdsOf({t \in tasks : t.assignee = req[r].who}) \subseteq Ids
    BY DEF TypeOK, IdsOf, Task
  <2>4. next \in Request /\ next.pc = "deleteUser"
    BY <2>2, <2>3 DEF Request
  <2> HIDE DEF next
  <2> QED BY <1>0, <2>1, <2>4
<1>5. CASE Fail(r)
  BY <1>1, <1>2, <1>5
<1>6. CASE InsertProject(r) \/ UpdateProject(r) \/ Reload(r) \/ DeleteProjectRow(r)
  BY <1>1, <1>5, <1>6 DEF InsertProject, UpdateProject, Reload, DeleteProjectRow
<1>7. CASE InsertMember(r) \/ DeleteMemberRow(r) \/ InsertTask(r) \/ AssignTask(r)
             \/ DeleteUserRow(r)
  BY <1>1, <1>5, <1>7
  DEF InsertMember, DeleteMemberRow, InsertTask, AssignTask, DeleteUserRow
<1> QED
  BY <1>3, <1>4, <1>5, <1>6, <1>7 DEF Step

\* After the crash a handler is where it was, or has failed.
LEMMA CrashMoves ==
  ASSUME TypeOK, Crash
  PROVE  /\ req' \in [Requests -> Request]
         /\ \A s \in Requests : req'[s] = req[s] \/ req'[s].pc = "crashed"
         /\ UNCHANGED <<tables, joined>>
<1>1. [Idle EXCEPT !.pc = "crashed"] \in Request /\ [Idle EXCEPT !.pc = "crashed"].pc = "crashed"
  BY IdleIsRequest DEF Request, Ends
<1>2. req' = [s \in Requests |-> IF InFlight(s) THEN [Idle EXCEPT !.pc = "crashed"]
                                 ELSE req[s]]
  BY DEF Crash
<1> QED
  BY <1>1, <1>2 DEF Crash, TypeOK

----------------------------------------------------------------------------
(* What each commit does to the tables. *)

\* The tables' part of the invariant.
Rows ==
  /\ users \subseteq Users /\ projects \subseteq Project /\ tasks \subseteq Task
  /\ members \subseteq Ids \X Users /\ joined \subseteq Ids \X Users
  /\ \A x, y \in projects \cup tasks : x.id = y.id => x = y
Tables == Rows /\ RefIntegrity /\ AssigneeHadJoined /\ PeopleJoined /\ IsFiniteSet(projects)

\* A step of r adds no row but one named r, and leaves every task its project.
Grows(r) ==
  /\ joined \subseteq joined'
  /\ \A p \in projects' \ projects : p.id = r /\ req[r].pc = "insertProject"
  /\ \A t \in tasks' :
       \/ \E x \in tasks : x.id = t.id /\ x.project = t.project
       \/ t.id = r /\ t.project = req[r].project /\ req[r].pc = "insertTask"

LEMMA SameTables ==
  ASSUME Tables, UNCHANGED <<tables, joined>>, NEW r
  PROVE  Tables' /\ Grows(r)
BY DEF Tables, Rows, RefIntegrity, AssigneeHadJoined, PeopleJoined, Grows, tables, IdsOf

LEMMA InsertProjectRows ==
  ASSUME IInv, Tables, NEW r \in Requests, InsertProject(r), ~Fail(r)
  PROVE  Tables' /\ Grows(r)
<1> DEFINE row == [id |-> r, owner_id |-> req[r].by]
<1>1. /\ req[r].by \in users /\ req[r].pc = "insertProject"
      /\ projects' = projects \cup {row}
      /\ joined' = joined \cup {<<r, req[r].by>>}
      /\ UNCHANGED <<users, members, tasks>>
  BY DEF InsertProject, At
<1>2. row \in Project /\ row.id = r /\ row.owner_id = req[r].by
  BY <1>1 DEF Project, Tables, Rows, Ids
<1>3. \A x \in projects \cup tasks : x.id # r
  BY <1>1 DEF IInv, Handler, FreshPoints, IdsOf
<1> HIDE DEF row
<1>4. Rows'
  BY <1>1, <1>2, <1>3 DEF Tables, Rows, Ids, Project
<1>5. RefIntegrity'
  BY <1>1, <1>2 DEF Tables, RefIntegrity, IdsOf
<1>6. AssigneeHadJoined' /\ PeopleJoined'
  BY <1>1, <1>2 DEF Tables, AssigneeHadJoined, PeopleJoined
<1>7. IsFiniteSet(projects')
  BY <1>1, FS_AddElement DEF Tables
<1>8. Grows(r)
  BY <1>1, <1>2 DEF Grows
<1> QED
  BY <1>4, <1>5, <1>6, <1>7, <1>8 DEF Tables

LEMMA DeleteProjectRows ==
  ASSUME Tables, NEW r \in Requests, DeleteProjectRow(r), ~Fail(r)
  PROVE  Tables' /\ Grows(r)
<1> DEFINE q == req[r]
<1>1. /\ MemberRows(q.project) \subseteq q.loaded
      /\ projects' = {p \in projects : p.id # q.project}
      /\ members' = members \ q.loaded
      /\ tasks' = tasks \ TasksOf(q.project)
      /\ UNCHANGED <<users, joined>>
  BY DEF DeleteProjectRow, MembersAsLoaded
<1>2. /\ \A m \in members' : m \in members /\ m[1] # q.project
      /\ \A t \in tasks' : t \in tasks /\ t.project # q.project
  BY <1>1 DEF MemberRows, TasksOf
<1> HIDE DEF q
<1>3. Rows'
  BY <1>1, <1>2 DEF Tables, Rows
<1>4. RefIntegrity'
  BY <1>1, <1>2 DEF Tables, RefIntegrity, IdsOf
<1>5. AssigneeHadJoined' /\ PeopleJoined'
  BY <1>1, <1>2 DEF Tables, AssigneeHadJoined, PeopleJoined
<1>6. IsFiniteSet(projects')
  BY <1>1, FS_Subset DEF Tables
<1>7. Grows(r)
  BY <1>1, <1>2 DEF Grows
<1> QED
  BY <1>3, <1>4, <1>5, <1>6, <1>7 DEF Tables

LEMMA MemberRowsChange ==
  ASSUME Tables, NEW r \in Requests, InsertMember(r) \/ DeleteMemberRow(r), ~Fail(r)
  PROVE  Tables' /\ Grows(r)
<1> DEFINE row == <<req[r].project, req[r].who>>
<1>1. /\ UNCHANGED <<users, projects, tasks>>
      /\ \/ members' \subseteq members /\ joined' = joined
         \/ /\ members' = members \cup {row} /\ joined' = joined \cup {row}
            /\ req[r].project \in IdsOf(projects) /\ req[r].who \in users
  BY DEF InsertMember, DeleteMemberRow
<1>2. req[r].project \in IdsOf(projects) /\ req[r].who \in users =>
        row \in Ids \X Users /\ row[1] \in IdsOf(projects) /\ row[2] \in users
  BY DEF Tables, Rows, IdsOf, Project
<1> HIDE DEF row
<1>3. Rows'
  BY <1>1, <1>2 DEF Tables, Rows
<1>4. RefIntegrity'
  BY <1>1, <1>2 DEF Tables, RefIntegrity, IdsOf
<1>5. AssigneeHadJoined' /\ PeopleJoined'
  BY <1>1 DEF Tables, AssigneeHadJoined, PeopleJoined
<1>6. Grows(r)
  BY <1>1 DEF Grows
<1> QED
  BY <1>1, <1>3, <1>4, <1>5, <1>6 DEF Tables

LEMMA InsertTaskRows ==
  ASSUME IInv, Tables, NEW r \in Requests, InsertTask(r), ~Fail(r)
  PROVE  Tables' /\ Grows(r)
<1> DEFINE q == req[r]
           row == [id |-> r, project |-> q.project, author |-> q.by, assignee |-> q.who]
<1>1. /\ q.project \in IdsOf(projects) /\ q.by \in users /\ KnownUser(q.who)
      /\ q.pc = "insertTask" /\ tasks' = tasks \cup {row}
      /\ UNCHANGED <<users, projects, members, joined>>
  BY DEF InsertTask, At
<1>2. /\ row \in Task /\ row.id = r /\ row.project = q.project
      /\ row.author = q.by /\ row.assignee = q.who
  BY <1>1 DEF Task, Tables, Rows, Ids, IdsOf, Project, KnownUser, OptUser
<1>3. /\ \A x \in projects \cup tasks : x.id # r
      /\ HasJoined(q.project, q.who)
  BY <1>1 DEF IInv, Handler, FreshPoints, IdsOf
<1> HIDE DEF row, q
<1>4. Rows'
  BY <1>1, <1>2, <1>3 DEF Tables, Rows
<1>5. RefIntegrity'
  BY <1>1, <1>2 DEF Tables, RefIntegrity, IdsOf, KnownUser
<1>6. AssigneeHadJoined' /\ PeopleJoined'
  BY <1>1, <1>2, <1>3 DEF Tables, AssigneeHadJoined, PeopleJoined, HasJoined
<1>7. Grows(r)
  BY <1>1, <1>2 DEF Grows, q
<1> QED
  BY <1>1, <1>4, <1>5, <1>6, <1>7 DEF Tables

\* Changing the assignee of the tasks in S, while nothing that is left refers
\* to a user who goes: each task keeps its id, its project and its author.
LEMMA ReassignRows ==
  ASSUME Tables, NEW S, NEW a \in users' \cup {Null},
         \A t \in S : t \in tasks => HasJoined(t.project, a),
         tasks' = {IF t \in S THEN [t EXCEPT !.assignee = a] ELSE t : t \in tasks},
         users' \subseteq users, members' \subseteq members,
         UNCHANGED <<projects, joined>>,
         \A p \in projects : p.owner_id \in users',
         \A m \in members' : m[2] \in users',
         \A t \in tasks : t.author \in users' /\ (t \notin S => t.assignee \in users' \cup {Null}),
         NEW r
  PROVE  Tables' /\ Grows(r)
<1> DEFINE New(t) == IF t \in S THEN [t EXCEPT !.assignee = a] ELSE t
<1>1. ASSUME NEW t \in tasks
      PROVE  /\ New(t) \in Task /\ New(t).id = t.id /\ New(t).project = t.project
             /\ New(t).author = t.author
             /\ New(t).assignee = IF t \in S THEN a ELSE t.assignee
  BY DEF Tables, Rows, Task, OptUser
<1>2. tasks' = {New(t) : t \in tasks}
  OBVIOUS
<1> HIDE DEF New
<1>3. Rows'
  <2>1. tasks' \subseteq Task
    BY <1>1, <1>2
  <2>2. \A x \in projects \cup tasks' : \E y \in projects \cup tasks :
          /\ y.id = x.id
          /\ x = IF y \in tasks THEN New(y) ELSE y
    <3>1. ASSUME NEW x \in projects, x \in tasks PROVE New(x) = x
      BY <3>1 DEF Tables, Rows, Project, Task
    <3> QED BY <1>1, <1>2, <3>1
  <2>3. ASSUME NEW x \in projects' \cup tasks', NEW y \in projects' \cup tasks', x.id = y.id
        PROVE  x = y
    BY <2>2, <2>3 DEF Tables, Rows
  <2> QED BY <2>1, <2>3 DEF Tables, Rows
<1>4. RefIntegrity'
  BY <1>1, <1>2 DEF Tables, RefIntegrity, IdsOf
<1>5. AssigneeHadJoined' /\ PeopleJoined'
  BY <1>1, <1>2 DEF Tables, AssigneeHadJoined, PeopleJoined, HasJoined
<1>6. Grows(r)
  BY <1>1, <1>2 DEF Grows
<1> QED
  BY <1>3, <1>4, <1>5, <1>6 DEF Tables

LEMMA AssignTaskRows ==
  ASSUME IInv, Tables, NEW r \in Requests, AssignTask(r), ~Fail(r)
  PROVE  Tables' /\ Grows(r)
<1> DEFINE q == req[r]
           S == {t \in tasks : t.id = q.task}
<1>1. /\ KnownUser(q.who) /\ q.pc = "assign" /\ tasks' = Reassigned(q)
      /\ UNCHANGED <<users, projects, members, joined>>
  BY DEF AssignTask, At
<1>2. tasks' = {IF t \in S THEN [t EXCEPT !.assignee = q.who] ELSE t : t \in tasks}
  BY <1>1 DEF Reassigned
<1>3. \A t \in S : t \in tasks => HasJoined(t.project, q.who)
  BY <1>1 DEF IInv, Handler
<1>4. /\ \A p \in projects : p.owner_id \in users
      /\ \A m \in members : m[2] \in users
      /\ \A t \in tasks : t.author \in users \cup {Null} /\ t.assignee \in users \cup {Null}
      /\ \A t \in tasks : t.author # Null
  BY ProjectsAssumption DEF Tables, RefIntegrity, Rows, Task
<1>5. q.who \in users' \cup {Null}
  BY <1>1 DEF KnownUser
<1> HIDE DEF S, q
<1> QED
  BY <1>1, <1>2, <1>3, <1>4, <1>5, ReassignRows

LEMMA DeleteUserRows ==
  ASSUME IInv, Tables, NEW r \in Requests, DeleteUserRow(r), ~Fail(r)
  PROVE  Tables' /\ Grows(r)
<1> DEFINE q == req[r]
           S == {t \in tasks : t.id \in q.kids \/ t.assignee = q.who}
<1>1. /\ ~Referred(q)
      /\ users' = users \ {q.who} /\ members' = members \ q.loaded
      /\ tasks' = {IF t.id \in q.kids \/ t.assignee = q.who
                   THEN [t EXCEPT !.assignee = Null] ELSE t : t \in tasks}
      /\ UNCHANGED <<projects, joined>>
  BY DEF DeleteUserRow
<1>2. tasks' = {IF t \in S THEN [t EXCEPT !.assignee = Null] ELSE t : t \in tasks}
  BY <1>1
<1>3. \A t \in S : t \in tasks => HasJoined(t.project, Null)
  BY DEF HasJoined
<1>4. /\ \A p \in projects : p.owner_id \in users'
      /\ \A m \in members' : m[2] \in users'
  BY <1>1 DEF Tables, RefIntegrity, Referred, Owns
<1>5. \A t \in tasks : t.author \in users' /\ (t \notin S => t.assignee \in users' \cup {Null})
  BY <1>1, ProjectsAssumption DEF Tables, RefIntegrity, Rows, Task, Referred, Authors
<1>6. users' \subseteq users /\ members' \subseteq members /\ Null \in users' \cup {Null}
  BY <1>1
<1> HIDE DEF S, q
<1> QED
  BY <1>1, <1>2, <1>3, <1>4, <1>5, <1>6, ReassignRows

\* Every step keeps the tables right, and adds no row but its own.
LEMMA StepRows ==
  ASSUME IInv, NEW r \in Requests, Step(r)
  PROVE  Tables' /\ Grows(r)
<1>0. Tables
  BY DEF IInv, TypeOK, Tables, Rows
<1>1. CASE UNCHANGED <<tables, joined>>
  BY <1>0, <1>1, SameTables
<1>2. CASE Fail(r) \/ UpdateProject(r) \/ Reload(r) \/ FlushTasks(r) \/ FlushChildren(r)
  BY <1>1, <1>2 DEF Fail, UpdateProject, Reload, FlushTasks, FlushChildren
<1>3. CASE ~Fail(r)
  BY <1>0, <1>2, <1>3, InsertProjectRows, DeleteProjectRows, MemberRowsChange,
     InsertTaskRows, AssignTaskRows, DeleteUserRows DEF Step
<1> QED
  BY <1>2, <1>3

----------------------------------------------------------------------------
(* What the handlers know stays true. *)

\* A step of r, and an arrival, makes no request fresh again.
LEMMA OldStays ==
  ASSUME NEW x, Old(x), NEW r \in Requests,
         \A s \in Requests \ {r} : req'[s] = req[s],
         req'[r].pc \notin FreshPoints \/ req[r].pc \in FreshPoints
  PROVE  Old(x)'
BY DEF Old

LEMMA OthersKept ==
  ASSUME IInv, NEW r \in Requests, NEW s \in Requests \ {r}, req'[s] = req[s], Grows(r),
         \A x : Old(x) => Old(x)'
  PROVE  Handler(s)'
<1>0. Handler(s)
  BY DEF IInv
<1>1. ASSUME NEW t \in tasks'
      PROVE  \/ \E x \in tasks : x.id = t.id /\ x.project = t.project
             \/ t.id = r /\ t.project = req[r].project /\ req[r].pc = "insertTask"
  BY DEF Grows
<1>2. IdsOf(projects' \cup tasks') \subseteq IdsOf(projects \cup tasks) \cup {r}
  BY <1>1 DEF Grows, IdsOf
<1>3. \A x : Old(x) /\ req[r].pc \in FreshPoints => x # r
  BY DEF Old
<1>4. req'[s].pc \in FreshPoints => s \notin IdsOf(projects' \cup tasks')
  BY <1>0, <1>2 DEF Handler
<1>5. req'[s].pc = "insertTask" =>
        req'[s].who = Null \/ <<req'[s].project, req'[s].who>> \in joined'
  BY <1>0 DEF Handler, HasJoined, Grows
<1>6. ASSUME req'[s].pc = "assign"
      PROVE  /\ Old(req[s].task)'
             /\ \A t \in tasks' : t.id = req[s].task =>
                  req[s].who = Null \/ <<t.project, req[s].who>> \in joined'
  BY <1>0, <1>1, <1>3, <1>6 DEF Handler, HasJoined, Grows, FreshPoints
<1> QED
  BY <1>4, <1>5, <1>6 DEF Handler, HasJoined, Old

\* The tasks and the requests there are, are not still to come.
LEMMA RowsAreOld ==
  ASSUME IInv, NEW t \in tasks
  PROVE  Old(t.id)
BY DEF IInv, Handler, Old, IdsOf

LEMMA StepKept ==
  ASSUME IInv, NEW r \in Requests, Step(r), Grows(r), NEW s \in Requests
  PROVE  Handler(s)'
<1>0. TypeOK /\ Handler(r) /\ req[r] \in Request
  BY DEF IInv, TypeOK
<1>1. /\ \A x \in Requests \ {r} : req'[x] = req[x]
      /\ req'[r].pc \in {"reload", "delete", "deleteUser", "done", "failed"}
  BY <1>0, StepMoves
<1>2. req'[r].pc \notin FreshPoints \cup {"tasks", "assign"}
  BY <1>1 DEF FreshPoints
<1>3. \A x : Old(x) => Old(x)'
  BY <1>1, <1>2, OldStays
<1>4. CASE s # r
  BY <1>1, <1>3, <1>4, OthersKept
<1>5. CASE s = r
  BY <1>2, <1>5 DEF Handler, FreshPoints
<1> QED
  BY <1>4, <1>5

LEMMA ArriveKept == ASSUME IInv, NEW r \in Requests, Arrive(r) PROVE IInv'
<1>0. TypeOK /\ Handler(r)
  BY DEF IInv
<1>1. PICK u \in Users, local \in Request : Arrival(r, local) /\ Accept(r, u, local)
  BY <1>0, ArriveShape
<1>2. /\ req' \in [Requests -> Request]
      /\ req'[r] = [local EXCEPT !.by = u]
      /\ \A s \in Requests \ {r} : req'[s] = req[s]
      /\ req[r].pc = "idle"
      /\ UNCHANGED <<tables, joined>>
  BY <1>0, <1>1, AcceptMoves
<1>3. /\ req'[r].pc = local.pc /\ req'[r].project = local.project
      /\ req'[r].task = local.task /\ req'[r].who = local.who
  BY <1>2 DEF Request
<1>4. Tables' /\ Grows(r)
  <2>1. Tables
    BY DEF IInv, TypeOK, Tables, Rows
  <2> QED BY <1>2, <2>1, SameTables
<1>5. \A x : Old(x) => Old(x)'
  BY <1>2, OldStays DEF FreshPoints
<1>6. \A p, v : Known(p, v) => HasJoined(p, v)
  <2> SUFFICES ASSUME NEW p, NEW v, Known(p, v), v # Null PROVE <<p, v>> \in joined
    BY DEF HasJoined
  <2>1. PICK x \in projects : x.id = p /\ is_user_id_project_member_or_owner(Loaded(x), v)
    BY DEF Known
  <2>2. CASE v = x.owner_id
    BY <2>1, <2>2 DEF IInv, PeopleJoined
  <2>3. CASE v \in Loaded(x).members
    <3>1. PICK m \in members : m[1] = p /\ m[2] = v
      BY <2>1, <2>3 DEF Loaded, MemberRows
    <3>2. m = <<p, v>>
      BY <3>1 DEF IInv, TypeOK
    <3> QED BY <3>1, <3>2 DEF IInv, PeopleJoined
  <2> QED BY <2>1, <2>2, <2>3 DEF is_user_id_project_member_or_owner, Loaded
<1>7. Handler(r)'
  <2>1. UNCHANGED <<projects, tasks, joined>>
    BY <1>2 DEF tables
  <2>2. r \notin IdsOf(projects' \cup tasks')
    BY <1>0, <1>2, <2>1 DEF Handler, FreshPoints
  <2>3. local.pc = "insertTask" => HasJoined(local.project, local.who)
    BY <1>1, <1>6 DEF Arrival
  <2>4. ASSUME local.pc = "assign"
        PROVE  /\ Old(local.task)'
               /\ \A t \in tasks : t.id = local.task => HasJoined(t.project, local.who)
    <3>1. PICK t \in tasks : t.id = local.task /\ Known(t.project, local.who)
      BY <1>1, <2>4 DEF Arrival
    <3>2. Old(local.task)
      BY <3>1, RowsAreOld
    <3>3. \A x \in tasks : x.id = local.task => x = t
      BY <3>1 DEF IInv, TypeOK
    <3> QED BY <1>5, <1>6, <3>1, <3>2, <3>3
  <2> QED BY <1>3, <2>1, <2>2, <2>3, <2>4 DEF Handler, HasJoined, Old
<1>8. \A s \in Requests : Handler(s)'
  BY <1>2, <1>4, <1>5, <1>7, OthersKept
<1> QED
  BY <1>2, <1>4, <1>8 DEF IInv, TypeOK, Tables, Rows

LEMMA InitHolds == Init => IInv
<1> SUFFICES ASSUME Init PROVE IInv
  OBVIOUS
<1>1. /\ users = Users /\ projects = SeedProjects /\ members = SeedMembers
      /\ tasks \subseteq SeedTasks
      /\ joined = SeedMembers \cup {<<p.id, p.owner_id>> : p \in SeedProjects}
      /\ req = [r \in Requests |-> Idle]
  BY DEF Init
<1>2. TypeOK
  <2>1. IdsOf(SeedProjects) \subseteq Ids
    BY DEF IdsOf, Ids
  <2>2. joined \subseteq Ids \X Users
    BY <1>1, <2>1, ProjectsAssumption DEF Project
  <2> QED BY <1>1, <2>1, <2>2, IdleIsRequest, ProjectsAssumption DEF TypeOK
<1>3. RefIntegrity
  BY <1>1, ProjectsAssumption DEF RefIntegrity, IdsOf, Project, Task, OptUser
<1>4. AssigneeHadJoined /\ PeopleJoined
  <2>1. ASSUME NEW t \in tasks, t.assignee # Null PROVE <<t.project, t.assignee>> \in joined
    <3>1. PICK p \in SeedProjects :
            /\ p.id = t.project
            /\ t.assignee \in {Null, p.owner_id} \/ <<p.id, t.assignee>> \in SeedMembers
      BY <1>1, ProjectsAssumption
    <3> QED BY <1>1, <2>1, <3>1
  <2> QED BY <1>1, <2>1 DEF AssigneeHadJoined, PeopleJoined
<1>5. ASSUME NEW r \in Requests PROVE Handler(r)
  <2>1. r \notin IdsOf(projects \cup tasks)
    BY <1>1, ProjectsAssumption DEF IdsOf
  <2>2. req[r].pc = "idle"
    BY <1>1, IdleIsRequest
  <2> QED BY <2>1, <2>2 DEF Handler
<1> QED
  BY <1>1, <1>2, <1>3, <1>4, <1>5, ProjectsAssumption DEF IInv

LEMMA NextKeeps == IInv /\ [Next]_vars => IInv'
<1> SUFFICES ASSUME IInv, [Next]_vars PROVE IInv'
  OBVIOUS
<1>0. TypeOK /\ Tables
  BY DEF IInv, TypeOK, Tables, Rows
<1>1. ASSUME NEW r \in Requests, Arrive(r) PROVE IInv'
  BY <1>1, ArriveKept
<1>2. ASSUME NEW r \in Requests, Step(r) PROVE IInv'
  <2>1. Tables' /\ Grows(r)
    BY <1>2, StepRows
  <2>2. \A s \in Requests : Handler(s)'
    BY <1>2, <2>1, StepKept
  <2>3. req' \in [Requests -> Request]
    BY <1>0, <1>2, StepMoves
  <2> QED BY <2>1, <2>2, <2>3 DEF IInv, TypeOK, Tables, Rows
<1>3. ASSUME UNCHANGED <<tables, joined>>, req' \in [Requests -> Request],
             \A s \in Requests : req'[s] = req[s] \/ req'[s].pc = "crashed"
      PROVE  IInv'
  <2>1. Tables' /\ \A r : Grows(r)
    BY <1>0, <1>3, SameTables
  <2>2. \A x : Old(x) => Old(x)'
    BY <1>3 DEF Old, FreshPoints
  <2>3. ASSUME NEW s \in Requests PROVE Handler(s)'
    <3>1. CASE req'[s] = req[s]
      <4>1. UNCHANGED <<projects, tasks, joined>> /\ Handler(s)
        BY <1>3 DEF tables, IInv
      <4> QED BY <2>2, <3>1, <4>1 DEF Handler, HasJoined, TasksOf, Old
    <3>2. CASE req'[s].pc = "crashed"
      BY <3>2 DEF Handler, FreshPoints
    <3> QED BY <1>3, <3>1, <3>2
  <2> QED BY <1>3, <2>1, <2>3 DEF IInv, TypeOK, Tables, Rows
<1>4. CASE Crash
  BY <1>0, <1>3, <1>4, CrashMoves
<1>5. CASE UNCHANGED vars
  BY <1>0, <1>3, <1>5 DEF vars, TypeOK
<1> QED
  BY <1>1, <1>2, <1>4, <1>5 DEF Next

LEMMA InvHolds == Spec => []IInv
<1> QED
  BY InitHolds, NextKeeps, PTL DEF Spec

----------------------------------------------------------------------------
(* The theorems. *)

\* Rows and handlers keep their types, and no two rows share an id.
THEOREM TypeCorrect == Spec => []TypeOK
<1>1. IInv => TypeOK
  BY DEF IInv
<1> QED
  BY <1>1, InvHolds, PTL

\* However creations, deletions and changes of the members overlap, no row
\* refers to a project or a user that is gone (app/models: the foreign keys
\* and the relationships' cascades).
THEOREM ReferencesHold == Spec => []RefIntegrity
<1>1. IInv => RefIntegrity
  BY DEF IInv
<1> QED
  BY <1>1, InvHolds, PTL

\* The check_assignee_is_project_member of a handler holds of what its
\* session loaded: the assignee it commits is, or once was, in the project.
THEOREM AssigneesJoined == Spec => []AssigneeHadJoined
<1>1. IInv => AssigneeHadJoined
  BY DEF IInv
<1> QED
  BY <1>1, InvHolds, PTL

\* The projects user u owns or takes part in.
Mine(u) == {p \in projects : p.owner_id = u \/ <<p.id, u>> \in members}

\* crud/project.py, get_projects: the rows of the outer join that are left,
\* with distinct(), are the user's projects.
LEMMA ListIsMine ==
  ASSUME IInv, NEW u \in users
  PROVE  get_projects(u) = {<<p.id>> : p \in Mine(u)}
<1> DEFINE MembersOrNull(p) ==
             IF MemberRows(p.id) = {} THEN {Null} ELSE {m[2] : m \in MemberRows(p.id)}
           Left(p) == {x \in MembersOrNull(p) : u \in {p.owner_id, x}}
           rows == UNION {{<<p.id, m>> : m \in Left(p)} : p \in projects}
<1>1. get_projects(u) = {<<row[1]>> : row \in rows}
  BY DEF get_projects, Distinct
<1>2. u # Null
  BY ProjectsAssumption DEF IInv, TypeOK
<1>3. ASSUME NEW p \in projects PROVE Left(p) # {} <=> p \in Mine(u)
  <2>1. MembersOrNull(p) # {}
    OBVIOUS
  <2>2. u \in MembersOrNull(p) <=> <<p.id, u>> \in members
    <3>1. \A m \in members : m = <<m[1], m[2]>>
      BY DEF IInv, TypeOK
    <3> QED BY <1>2, <3>1 DEF MemberRows
  <2> HIDE DEF MembersOrNull
  <2> QED BY <2>1, <2>2 DEF Mine
<1> HIDE DEF Left
<1>4. \A x : x \in {<<row[1]>> : row \in rows} <=> \E p \in projects : Left(p) # {} /\ x = <<p.id>>
  <2>1. ASSUME NEW x, x \in {<<row[1]>> : row \in rows}
        PROVE  \E p \in projects : Left(p) # {} /\ x = <<p.id>>
    BY <2>1
  <2>2. ASSUME NEW p \in projects, Left(p) # {}
        PROVE  <<p.id>> \in {<<row[1]>> : row \in rows}
    <3>1. PICK m \in Left(p) : <<p.id, m>> \in rows
      BY <2>2
    <3>2. <<p.id, m>>[1] = p.id
      OBVIOUS
    <3> HIDE DEF rows
    <3> QED BY <3>1, <3>2
  <2> QED BY <2>1, <2>2
<1> HIDE DEF rows
<1> QED
  BY <1>1, <1>3, <1>4 DEF Mine

\* A user's list has each of his projects once, however many members it has:
\* the ids tell them apart.
THEOREM ListsHaveEachOnce == Spec => []ListedOnce
<1>1. ASSUME IInv, NEW u \in users PROVE Cardinality(get_projects(u)) = Cardinality(Mine(u))
  <2> DEFINE f == [p \in Mine(u) |-> <<p.id>>]
             T == {<<p.id>> : p \in Mine(u)}
  <2>1. IsFiniteSet(Mine(u))
    BY <1>1, FS_Subset DEF IInv, Mine
  <2>2. \A p, q \in Mine(u) : p.id = q.id => p = q
    BY <1>1 DEF IInv, TypeOK, Mine
  <2>3. f \in Bijection(Mine(u), T)
    BY <2>2 DEF Bijection, Injection, Surjection, IsInjective
  <2>4. Cardinality(T) = Cardinality(Mine(u))
    <3>1. ExistsBijection(Mine(u), T)
      BY <2>3 DEF ExistsBijection
    <3> QED BY <2>1, <3>1, FS_Bijection
  <2> QED BY <1>1, <2>4, ListIsMine
<1>2. IInv => ListedOnce
  BY <1>1 DEF ListedOnce, Mine
<1> QED
  BY <1>2, InvHolds, PTL
===============================================================================
