------------------------- MODULE TaskServiceProofs -------------------------
(***************************************************************************)
(* Proofs about TaskService, for every set of users, tasks, requests and   *)
(* every workload.                                                         *)
(***************************************************************************)
EXTENDS TaskService, SequenceTheorems, TLAPS

----------------------------------------------------------------------------
(* The handlers' local state. *)

\* A row of a new task is a row.
LEMMA NewTaskIsRow ==
  ASSUME NEW u \in Users, NEW a \in OptUser
  PROVE  NewTask(u, a) \in Row
BY DEF NewTask, Row, TaskStatus

\* The local state of a request not yet sent has its type.
LEMMA IdleIsRequest == Idle \in Request
<1>1. NewTask(Owner, Null) \in Row
  BY NewTaskIsRow, ServiceAssumption DEF OptUser
<1> QED
  BY <1>1 DEF Idle, Request, Points, OptUser, TaskStatus

\* A handler that goes on, or ends, keeps a local state of the right type,
\* its operation, and, while it is serving, everything but its point.
LEMMA MovedIsRequest ==
  ASSUME NEW q \in Request, NEW p \in Points \cup Ends
  PROVE  /\ Moved(q, p) \in Request
         /\ Moved(q, p).pc = p
         /\ Moved(q, p).op = q.op
         /\ p \notin Ends => Moved(q, p).who = q.who
         /\ q.op = "create" => Moved(q, p).wrote = q.wrote
<1>0. Idle \in Request
  BY IdleIsRequest
<1>1. Idle.obj \in Row
  BY <1>0 DEF Request
<1>2. Ended(q, p) \in Request /\ Ended(q, p).pc = p /\ Ended(q, p).op = q.op
  <2>1. CASE q.op \in {"create", "patch"}
    BY <2>1, <1>1 DEF Ended, Request
  <2>2. CASE q.op \notin {"create", "patch"}
    BY <2>2, <1>0 DEF Ended, Request
  <2> QED BY <2>1, <2>2
<1>3. q.op = "create" => Ended(q, p).wrote = q.wrote
  BY DEF Ended, Request
<1> QED
  BY <1>2, <1>3 DEF Moved, Request

\* A step of r's handler moves r and leaves the other requests as they are.
LEMMA GotoMoves ==
  ASSUME TypeOK, NEW r \in Requests, NEW p \in Points \cup Ends, Goto(r, p)
  PROVE  /\ req' \in [Requests -> Request]
         /\ req'[r] = Moved(req[r], p)
         /\ \A s \in Requests \ {r} : req'[s] = req[s]
<1>1. req[r] \in Request
  BY DEF TypeOK
<1>2. Moved(req[r], p) \in Request
  BY <1>1, MovedIsRequest
<1> QED
  BY <1>2 DEF TypeOK, Goto

LEMMA CommitMoves ==
  ASSUME TypeOK, NEW r \in Requests, NEW p \in Points \cup Ends, Commit(r, p)
  PROVE  /\ req' \in [Requests -> Request]
         /\ req'[r] = Moved([req[r] EXCEPT !.wrote = TRUE], p)
         /\ \A s \in Requests \ {r} : req'[s] = req[s]
<1>0. req[r] \in Request
  BY DEF TypeOK
<1>1. [req[r] EXCEPT !.wrote = TRUE] \in Request
  BY <1>0 DEF Request
<1>2. Moved([req[r] EXCEPT !.wrote = TRUE], p) \in Request
  BY <1>1, MovedIsRequest
<1> QED
  BY <1>2 DEF TypeOK, Commit

\* A handler that only goes on, commits nothing new, or fails leaves the
\* tables as they are.
LEMMA GotoKeepsTypes ==
  ASSUME TypeOK, NEW r \in Requests, NEW p \in Points \cup Ends,
         Goto(r, p) \/ Commit(r, p), UNCHANGED <<tables, emails>>
  PROVE  TypeOK'
<1>1. req' \in [Requests -> Request]
  BY GotoMoves, CommitMoves
<1> QED
  BY <1>1 DEF TypeOK, tables

LEMMA FailKeepsTypes ==
  ASSUME TypeOK, NEW r \in Requests, Fail(r)
  PROVE  TypeOK'
BY GotoKeepsTypes DEF Fail, Ends

LEMMA AcceptKeepsTypes ==
  ASSUME TypeOK, NEW r \in Requests, NEW op \in OpNames, NEW u \in Users,
         NEW local \in Request, Accept(r, op, u, local)
  PROVE  TypeOK'
<1>1. [local EXCEPT !.op = op, !.by = u] \in Request
  BY DEF Request, OptUser
<1>2. req' \in [Requests -> Request]
  BY <1>1 DEF Accept, TypeOK
<1> QED
  BY <1>2 DEF Accept, TypeOK, tables

----------------------------------------------------------------------------
(* Type correctness. *)

LEMMA InitTypes == Init => TypeOK
<1> SUFFICES ASSUME Init PROVE TypeOK
  OBVIOUS
<1>1. task \in [TaskIds -> Row]
  <2>1. PICK a \in Joined \cup {Null} : task = [t \in TaskIds |-> NewTask(Owner, a)]
    BY DEF Init
  <2>2. NewTask(Owner, a) \in Row
    BY NewTaskIsRow, ServiceAssumption DEF OptUser
  <2> QED BY <2>1, <2>2
<1>2. history \in [TaskIds -> Seq(Entry)]
  BY DEF Init
<1>3. req \in [Requests -> Request]
  BY IdleIsRequest DEF Init
<1> QED
  BY <1>1, <1>2, <1>3, ServiceAssumption DEF Init, TypeOK, TaskIds

\* The points a request may arrive at; only a create arrives at "insert".
Arrival(op, local) ==
  /\ local \in Request
  /\ local.pc \in Points \ {"idle", "deleteUser", "email"}
  /\ local.pc = "insert" <=> op = "create"
  /\ ~local.wrote
  /\ local.pc = "addMember" => local.who # Owner

LEMMA ArriveShape ==
  ASSUME TypeOK, NEW r \in Requests, Arrive(r)
  PROVE  \E op \in OpNames, u \in Users, local \in Request :
           Arrival(op, local) /\ Accept(r, op, u, local)
<1>0. Idle \in Request /\ ~Idle.wrote
  BY IdleIsRequest DEF Idle
<1>L. live \subseteq TaskIds /\ members \subseteq Users /\ users \subseteq Users
  BY DEF TypeOK
<1>1. CASE CreateTask(r)
  <2>1. PICK u \in Users, a \in OptUser :
          Accept(r, "create", u, [Idle EXCEPT !.pc = "insert", !.task = r, !.who = a])
    BY <1>1 DEF CreateTask
  <2>2. Arrival("create", [Idle EXCEPT !.pc = "insert", !.task = r, !.who = a])
    BY <1>0 DEF Arrival, Request, Points, TaskIds
  <2> QED BY <2>1, <2>2 DEF OpNames, Arrival
<1>2. CASE PatchTask(r)
  <2>1. PICK u \in Users, t \in live, a \in OptUser \cup {Unset} :
          Accept(r, "patch", u, [Idle EXCEPT !.pc = "update", !.task = t,
                                             !.who = a, !.loaded = task[t]])
    BY <1>2 DEF PatchTask
  <2>2. task[t] \in Row /\ t \in TaskIds
    BY DEF TypeOK
  <2>3. Arrival("patch", [Idle EXCEPT !.pc = "update", !.task = t, !.who = a,
                                      !.loaded = task[t]])
    BY <1>0, <2>2 DEF Arrival, Request, Points
  <2> QED BY <2>1, <2>3 DEF OpNames, Arrival
<1>3. CASE PatchStatus(r)
  <2>1. PICK u \in Users, t \in live, s \in TaskStatus :
          Accept(r, "status", u, [Idle EXCEPT !.pc = "status", !.task = t,
                                              !.status = s, !.loaded = task[t]])
    BY <1>3 DEF PatchStatus
  <2>2. task[t] \in Row /\ t \in TaskIds
    BY DEF TypeOK
  <2>3. Arrival("status", [Idle EXCEPT !.pc = "status", !.task = t, !.status = s,
                                       !.loaded = task[t]])
    BY <1>0, <2>2 DEF Arrival, Request, Points
  <2> QED BY <2>1, <2>3 DEF OpNames, Arrival
<1>4. CASE DeleteTask(r)
  <2>1. PICK u \in Users, t \in live :
          Accept(r, "delete", u, [Idle EXCEPT !.pc = "children", !.task = t])
    BY <1>4 DEF DeleteTask
  <2>2. Arrival("delete", [Idle EXCEPT !.pc = "children", !.task = t])
    BY <1>0, <1>L DEF Arrival, Request, Points
  <2> QED BY <2>1, <2>2 DEF OpNames, Arrival
<1>5. CASE CreateComment(r)
  <2>1. PICK u \in Users, t \in live :
          Accept(r, "comment", u, [Idle EXCEPT !.pc = "comment", !.task = t,
                                               !.comment = r])
    BY <1>5 DEF CreateComment
  <2>2. Arrival("comment", [Idle EXCEPT !.pc = "comment", !.task = t, !.comment = r])
    BY <1>0, <1>L DEF Arrival, Request, Points
  <2> QED BY <2>1, <2>2 DEF OpNames, Arrival
<1>6. CASE PatchComment(r) \/ DeleteComment(r)
  <2>1. PICK op \in {"editComment", "uncomment"}, c \in comments, u \in Users :
          Accept(r, op, u, [Idle EXCEPT !.pc = op, !.task = c.task,
                                        !.comment = c.by])
    BY <1>6 DEF PatchComment, DeleteComment, AuthorOf
  <2>2. c.task \in TaskIds /\ c.by \in Requests
    BY DEF TypeOK
  <2>3. Arrival(op, [Idle EXCEPT !.pc = op, !.task = c.task, !.comment = c.by])
    BY <1>0, <2>2 DEF Arrival, Request, Points
  <2> QED BY <2>1, <2>3 DEF OpNames, Arrival
<1>7. CASE AddMember(r)
  <2>1. PICK u \in Users, v \in users :
          /\ v # Owner
          /\ Accept(r, "addMember", u, [Idle EXCEPT !.pc = "addMember", !.who = v])
    BY <1>7 DEF AddMember, is_user_id_project_member_or_owner, project
  <2>2. Arrival("addMember", [Idle EXCEPT !.pc = "addMember", !.who = v])
    BY <1>0, <1>L, <2>1 DEF Arrival, Request, Points, OptUser
  <2> QED BY <2>1, <2>2 DEF OpNames, Arrival
<1>8. CASE RemoveMember(r)
  <2>1. PICK u \in Users, v \in members :
          Accept(r, "removeMember", u, [Idle EXCEPT !.pc = "removeMember", !.who = v])
    BY <1>8 DEF RemoveMember
  <2>2. Arrival("removeMember", [Idle EXCEPT !.pc = "removeMember", !.who = v])
    BY <1>0, <1>L DEF Arrival, Request, Points, OptUser
  <2> QED BY <2>1, <2>2 DEF OpNames, Arrival
<1>9. CASE DeleteUser(r)
  <2>1. PICK u \in Users, v \in users :
          Accept(r, "deleteUser", u, [Idle EXCEPT !.pc = "userChildren", !.who = v])
    BY <1>9 DEF DeleteUser
  <2>2. Arrival("deleteUser", [Idle EXCEPT !.pc = "userChildren", !.who = v])
    BY <1>0, <1>L DEF Arrival, Request, Points, OptUser
  <2> QED BY <2>1, <2>2 DEF OpNames, Arrival
<1> QED
  BY <1>1, <1>2, <1>3, <1>4, <1>5, <1>6, <1>7, <1>8, <1>9 DEF Arrive
LEMMA ArriveTypes ==
  ASSUME TypeOK, NEW r \in Requests, Arrive(r)
  PROVE  TypeOK'
BY ArriveShape, AcceptKeepsTypes

\* The steps of the task handlers up to their commit.
LEMMA TaskStepTypes ==
  ASSUME TypeOK, NEW r \in Requests,
         InsertTask(r) \/ UpdateTask(r) \/ UpdateTaskStatus(r)
           \/ FlushTaskChildren(r) \/ DeleteTaskRow(r)
  PROVE  TypeOK'
<1>0. req[r] \in Request
  BY DEF TypeOK
<1>P. {"refresh", "delete", "invalidate"} \subseteq Points \cup Ends
  BY DEF Points
<1>1. CASE InsertTask(r)
  <2>1. CASE Fail(r) BY <2>1, FailKeepsTypes
  <2>2. CASE /\ req[r].by \in users /\ KnownUser(req[r].who)
             /\ live' = live \cup {r}
             /\ task' = [task EXCEPT ![r] = NewTask(req[r].by, req[r].who)]
             /\ Commit(r, "refresh")
             /\ UNCHANGED <<users, members, history, comments, notes, emails>>
    <3>1. req' \in [Requests -> Request]
      BY <2>2, <1>P, CommitMoves
    <3>2. NewTask(req[r].by, req[r].who) \in Row
      BY <2>2, NewTaskIsRow DEF TypeOK, KnownUser, OptUser
    <3> QED BY <2>2, <3>1, <3>2 DEF TypeOK, TaskIds
  <2> QED BY <1>1, <2>1, <2>2 DEF InsertTask
<1>2. CASE UpdateTask(r)
  <2>1. CASE Fail(r) BY <2>1, FailKeepsTypes
  <2>2. CASE /\ req[r].task \in live
             /\ AssigneeChanged(req[r]) => KnownUser(req[r].who)
             /\ task' = [task EXCEPT ![req[r].task] = Updated(@, req[r])]
             /\ Commit(r, "refresh")
             /\ UNCHANGED <<users, members, live, history, comments, notes, emails>>
    <3>1. req' \in [Requests -> Request]
      BY <2>2, <1>P, CommitMoves
    <3>2. req[r].task \in TaskIds /\ task[req[r].task] \in Row
      BY <2>2 DEF TypeOK
    <3>3. Updated(task[req[r].task], req[r]) \in Row
      BY <2>2, <3>2 DEF TypeOK, Updated, KnownUser, Row, OptUser
    <3> QED BY <2>2, <3>1, <3>3 DEF TypeOK
  <2> QED BY <1>2, <2>1, <2>2 DEF UpdateTask
<1>3. CASE UpdateTaskStatus(r)
  <2>1. CASE Fail(r) BY <2>1, FailKeepsTypes
  <2>2. CASE Commit(r, "refresh") /\ UNCHANGED <<tables, emails>>
    BY <2>2, <1>P, GotoKeepsTypes
  <2>3. CASE /\ req[r].task \in live /\ req[r].by \in users
             /\ task' = [task EXCEPT ![req[r].task].status = req[r].status]
             /\ history' = [history EXCEPT ![req[r].task] =
                                              Append(@, HistoryRow(req[r]))]
             /\ Commit(r, "refresh")
             /\ UNCHANGED <<users, members, live, comments, notes, emails>>
    <3>1. req' \in [Requests -> Request]
      BY <2>3, <1>P, CommitMoves
    <3>2. /\ req[r].task \in TaskIds /\ task[req[r].task] \in Row
          /\ history[req[r].task] \in Seq(Entry)
      BY <2>3 DEF TypeOK
    <3>3. req[r].status \in TaskStatus /\ req[r].loaded.status \in TaskStatus
      BY <1>0 DEF Request, Row
    <3>4. [task[req[r].task] EXCEPT !.status = req[r].status] \in Row
      BY <3>2, <3>3 DEF Row
    <3>5. HistoryRow(req[r]) \in Entry
      BY <2>3, <3>3 DEF HistoryRow, Entry, TypeOK
    <3>6. Append(history[req[r].task], HistoryRow(req[r])) \in Seq(Entry)
      BY <3>2, <3>5
    <3>7. task' \in [TaskIds -> Row] /\ history' \in [TaskIds -> Seq(Entry)]
      BY <2>3, <3>4, <3>6 DEF TypeOK
    <3> QED BY <2>3, <3>1, <3>7 DEF TypeOK
  <2> QED BY <1>3, <2>1, <2>2, <2>3 DEF UpdateTaskStatus
<1>4. CASE FlushTaskChildren(r)
  <2>1. CASE Fail(r) BY <2>1, FailKeepsTypes
  <2>2. CASE Goto(r, "delete") /\ UNCHANGED <<tables, emails>>
    BY <2>2, <1>P, GotoKeepsTypes
  <2> QED BY <1>4, <2>1, <2>2 DEF FlushTaskChildren
<1>5. CASE DeleteTaskRow(r)
  <2>1. req' \in [Requests -> Request]
    BY <1>5, <1>P, CommitMoves DEF DeleteTaskRow
  <2>2. history' \in [TaskIds -> Seq(Entry)]
    <3>1. <<>> \in Seq(Entry)
      OBVIOUS
    <3> QED BY <1>5, <3>1 DEF DeleteTaskRow, TypeOK
  <2> QED BY <1>5, <2>1, <2>2 DEF DeleteTaskRow, TypeOK, CommentsOf
<1> QED
  BY <1>1, <1>2, <1>3, <1>4, <1>5

\* The steps of the comment, member and user handlers.
LEMMA PeopleStepTypes ==
  ASSUME TypeOK, NEW r \in Requests,
         InsertComment(r) \/ UpdateCommentRow(r) \/ DeleteCommentRow(r)
           \/ InsertMember(r) \/ DeleteMemberRow(r)
           \/ FlushUserChildren(r) \/ DeleteUserRow(r)
  PROVE  TypeOK'
<1>0. req[r] \in Request
  BY DEF TypeOK
<1>P. {"done", "refreshComment"} \subseteq Points \cup Ends
  BY DEF Ends, Points
<1>1. CASE InsertComment(r)
  <2>1. CASE Fail(r) BY <2>1, FailKeepsTypes
  <2>2. CASE ~Fail(r)
    <3>1. /\ req[r].task \in live /\ req[r].by \in users
          /\ comments' = comments \cup {[by |-> r, task |-> req[r].task,
                                         user |-> req[r].by]}
          /\ Commit(r, "refreshComment")
          /\ UNCHANGED <<users, members, live, task, history, notes, emails>>
      BY <1>1, <2>2 DEF InsertComment
    <3>2. req' \in [Requests -> Request]
      BY <3>1, <1>P, CommitMoves
    <3> QED BY <3>1, <3>2 DEF TypeOK
  <2> QED BY <2>1, <2>2
<1>2. CASE UpdateCommentRow(r)
  <2>1. \/ Fail(r)
        \/ Commit(r, "refreshComment") /\ UNCHANGED <<tables, emails>>
    BY <1>2 DEF UpdateCommentRow
  <2> QED BY <2>1, <1>P, FailKeepsTypes, GotoKeepsTypes
<1>3. CASE DeleteCommentRow(r)
  <2>1. req' \in [Requests -> Request]
    BY <1>3, <1>P, CommitMoves DEF DeleteCommentRow
  <2> QED BY <1>3, <2>1 DEF DeleteCommentRow, TypeOK
<1>4. CASE InsertMember(r)
  <2>1. CASE Fail(r) BY <2>1, FailKeepsTypes
  <2>2. CASE ~Fail(r)
    <3>1. /\ req[r].who \in users
          /\ members' = members \cup {req[r].who}
          /\ Commit(r, "done")
          /\ UNCHANGED <<users, live, task, history, comments, notes, emails>>
      BY <1>4, <2>2 DEF InsertMember
    <3>2. req' \in [Requests -> Request]
      BY <3>1, <1>P, CommitMoves
    <3> QED BY <3>1, <3>2 DEF TypeOK
  <2> QED BY <2>1, <2>2
<1>5. CASE DeleteMemberRow(r)
  <2>1. req' \in [Requests -> Request]
    BY <1>5, <1>P, CommitMoves DEF DeleteMemberRow
  <2> QED BY <1>5, <2>1 DEF DeleteMemberRow, TypeOK
<1>6. CASE FlushUserChildren(r)
  <2>1. CASE Fail(r) BY <2>1, FailKeepsTypes
  <2>2. CASE ~Fail(r)
    <3> DEFINE kids == AssignedTo(req[r].who)
               in   == req[r].who \in members
    <3>1. /\ req' = [req EXCEPT ![r].pc = "deleteUser", ![r].kids = kids,
                                ![r].joined = in]
          /\ UNCHANGED <<tables, emails>>
      BY <1>6, <2>2 DEF FlushUserChildren
    <3>2. kids \in SUBSET TaskIds /\ in \in BOOLEAN
      BY DEF AssignedTo, TypeOK
    <3> HIDE DEF kids, in
    <3>3. [req[r] EXCEPT !.pc = "deleteUser", !.kids = kids, !.joined = in]
            \in Request
      BY <1>0, <3>2 DEF Request, Points
    <3>4. req' \in [Requests -> Request]
      BY <3>1, <3>3 DEF TypeOK
    <3> QED BY <3>1, <3>4 DEF TypeOK, tables
  <2> QED BY <2>1, <2>2
<1>7. CASE DeleteUserRow(r)
  <2>1. CASE Fail(r) BY <2>1, FailKeepsTypes
  <2>2. CASE ~Fail(r)
    <3>1. /\ task' = [t \in TaskIds |->
                        IF t \in Cleared(req[r])
                        THEN [task[t] EXCEPT !.assignee = Null] ELSE task[t]]
          /\ members' \subseteq members
          /\ notes' \subseteq notes
          /\ users' \subseteq users
          /\ Commit(r, "done")
          /\ UNCHANGED <<live, history, comments, emails>>
      BY <1>7, <2>2 DEF DeleteUserRow
    <3>2. req' \in [Requests -> Request]
      BY <3>1, <1>P, CommitMoves
    <3>3. \A t \in TaskIds : [task[t] EXCEPT !.assignee = Null] \in Row
      BY DEF TypeOK, Row, OptUser
    <3>4. task' \in [TaskIds -> Row]
      BY <3>1, <3>3 DEF TypeOK
    <3> QED BY <3>1, <3>2, <3>4 DEF TypeOK
  <2> QED BY <2>1, <2>2
<1> QED
  BY <1>1, <1>2, <1>3, <1>4, <1>5, <1>6, <1>7

\* The steps after the commit of a task handler.
LEMMA AfterStepTypes ==
  ASSUME TypeOK, NEW r \in Requests,
         Refresh(r) \/ Invalidate(r) \/ CreateNotification(r) \/ SendEmail(r)
           \/ BroadcastStatus(r) \/ RefreshComment(r)
  PROVE  TypeOK'
<1>0. req[r] \in Request
  BY DEF TypeOK
<1>P. {"done", "email", "notify", "broadcast"} \subseteq Points \cup Ends
  BY DEF Points, Ends
<1>1. CASE Refresh(r)
  <2>1. CASE Fail(r) BY <2>1, FailKeepsTypes
  <2>2. CASE ~Fail(r)
    <3>1. /\ req[r].task \in live
          /\ req' = [req EXCEPT ![r].pc = "invalidate",
                                ![r].obj = task[req[r].task]]
          /\ UNCHANGED <<tables, emails>>
      BY <1>1, <2>2 DEF Refresh
    <3>2. task[req[r].task] \in Row
      BY <3>1 DEF TypeOK
    <3>3. [req[r] EXCEPT !.pc = "invalidate", !.obj = task[req[r].task]]
            \in Request
      BY <1>0, <3>2 DEF Request, Points
    <3>4. req' \in [Requests -> Request]
      BY <3>1, <3>3 DEF TypeOK
    <3> QED BY <3>1, <3>4 DEF TypeOK, tables
  <2> QED BY <2>1, <2>2
<1>2. CASE Invalidate(r)
  <2>1. AfterInvalidate(req[r]) \in {"done", "notify", "broadcast"}
    BY DEF AfterInvalidate
  <2> QED BY <1>2, <2>1, <1>P, GotoKeepsTypes DEF Invalidate
<1>3. CASE CreateNotification(r)
  <2>1. CASE Fail(r) BY <2>1, FailKeepsTypes
  <2>2. CASE ~Fail(r)
    <3>1. /\ Assigned(req[r]) \in users
          /\ notes' = notes \cup {Note(r)}
          /\ Goto(r, "email")
          /\ UNCHANGED <<users, members, live, task, history, comments, emails>>
      BY <1>3, <2>2 DEF CreateNotification
    <3>2. req' \in [Requests -> Request]
      BY <3>1, <1>P, GotoMoves
    <3>3. req[r].task \in TaskIds \cup {Null}
      BY <1>0 DEF Request
    <3>4. Note(r) \in [by: Requests, user: Users, task: TaskIds \cup {Null}]
      BY <3>1, <3>3 DEF Note, TypeOK
    <3> QED BY <3>1, <3>2, <3>4 DEF TypeOK
  <2> QED BY <2>1, <2>2
<1>4. CASE SendEmail(r)
  <2>1. CASE Fail(r) BY <2>1, FailKeepsTypes
  <2>2. CASE Goto(r, "done") /\ UNCHANGED <<tables, emails>>
    BY <2>2, <1>P, GotoKeepsTypes
  <2>3. CASE /\ Assigned(req[r]) \in users
             /\ emails' = emails \cup {[by |-> r, user |-> Assigned(req[r])]}
             /\ Goto(r, "done")
             /\ UNCHANGED tables
    <3>1. req' \in [Requests -> Request]
      BY <2>3, <1>P, GotoMoves
    <3> QED BY <2>3, <3>1 DEF TypeOK, tables
  <2> QED BY <1>4, <2>1, <2>2, <2>3 DEF SendEmail
<1>5. CASE BroadcastStatus(r)
  BY <1>5, <1>P, GotoKeepsTypes DEF BroadcastStatus
<1>6. CASE RefreshComment(r)
  <2>1. CASE Fail(r) BY <2>1, FailKeepsTypes
  <2>2. CASE Goto(r, "done") /\ UNCHANGED <<tables, emails>>
    BY <2>2, <1>P, GotoKeepsTypes
  <2> QED BY <1>6, <2>1, <2>2 DEF RefreshComment
<1> QED
  BY <1>1, <1>2, <1>3, <1>4, <1>5, <1>6

LEMMA CrashTypes ==
  ASSUME TypeOK, Crash
  PROVE  TypeOK'
<1>1. ASSUME NEW r \in Requests PROVE Ended(req[r], "crashed") \in Request
  <2>1. req[r] \in Request
    BY DEF TypeOK
  <2>2. Moved(req[r], "crashed") \in Request
    BY <2>1, MovedIsRequest DEF Ends
  <2> QED BY <2>2 DEF Moved, Ends
<1>2. req' \in [Requests -> Request]
  BY <1>1 DEF Crash, TypeOK
<1> QED
  BY <1>2 DEF Crash, TypeOK, tables

LEMMA NextTypes == TypeOK /\ [Next]_vars => TypeOK'
<1> SUFFICES ASSUME TypeOK, [Next]_vars PROVE TypeOK'
  OBVIOUS
<1>1. CASE \E r \in Requests : Arrive(r)
  BY <1>1, ArriveTypes
<1>2. CASE \E r \in Requests : Step(r)
  BY <1>2, TaskStepTypes, PeopleStepTypes, AfterStepTypes DEF Step
<1>3. CASE Crash
  BY <1>3, CrashTypes
<1>4. CASE UNCHANGED vars
  BY <1>4 DEF vars, TypeOK
<1> QED
  BY <1>1, <1>2, <1>3, <1>4 DEF Next, Quiet

\* Whatever the users, the tasks, the requests and the operations offered,
\* every row and every handler's local state keeps its type.
THEOREM TypeCorrect == Spec => []TypeOK
<1>1. Init => TypeOK
  BY InitTypes
<1>2. TypeOK /\ [Next]_vars => TypeOK'
  BY NextTypes
<1> QED
  BY <1>1, <1>2, PTL DEF Spec

----------------------------------------------------------------------------
(* What a step does to the local state of the handlers. *)

\* The points a handler goes on to with nothing but its point changed.
NextPoints == {"refresh", "delete", "invalidate", "notify", "email",
               "refreshComment", "broadcast", "done", "failed"}

\* A step of a handler moves it on, or reads the refreshed row, or collects
\* the children of a user who is not the owner.
LEMMA StepShape ==
  ASSUME NEW r \in Requests, Step(r)
  PROVE  /\ InFlight(r)
         /\ \/ \E p \in NextPoints : Goto(r, p)
            \/ \E p \in NextPoints : Commit(r, p)
            \/ \E row : req' = [req EXCEPT ![r].pc = "invalidate", ![r].obj = row]
            \/ /\ req[r].who # Owner
               /\ \E kids, in : req' = [req EXCEPT ![r].pc = "deleteUser",
                                        ![r].kids = kids, ![r].joined = in]
<1>F. ASSUME Fail(r) PROVE \E p \in NextPoints : Goto(r, p)
  BY <1>F DEF Fail, NextPoints
<1>1. CASE InsertTask(r) \/ UpdateTask(r) \/ UpdateTaskStatus(r)
  <2>1. Fail(r) \/ Commit(r, "refresh")
    BY <1>1 DEF InsertTask, UpdateTask, UpdateTaskStatus
  <2>2. InFlight(r)
    BY <1>1 DEF InsertTask, UpdateTask, UpdateTaskStatus, At, InFlight, Ends
  <2> QED BY <1>F, <2>1, <2>2 DEF NextPoints
<1>2. CASE FlushTaskChildren(r) \/ DeleteTaskRow(r)
  <2>1. Fail(r) \/ Goto(r, "delete") \/ Commit(r, "invalidate")
    BY <1>2 DEF FlushTaskChildren, DeleteTaskRow
  <2>2. InFlight(r)
    BY <1>2 DEF FlushTaskChildren, DeleteTaskRow, At, InFlight, Ends
  <2> QED BY <1>F, <2>1, <2>2 DEF NextPoints
<1>3. CASE InsertComment(r) \/ UpdateCommentRow(r) \/ DeleteCommentRow(r)
             \/ InsertMember(r) \/ DeleteMemberRow(r) \/ DeleteUserRow(r)
  <2>1. Fail(r) \/ Commit(r, "done") \/ Commit(r, "refreshComment")
    BY <1>3 DEF InsertComment, UpdateCommentRow, DeleteCommentRow, InsertMember,
                DeleteMemberRow, DeleteUserRow
  <2>2. InFlight(r)
    BY <1>3 DEF InsertComment, UpdateCommentRow, DeleteCommentRow, InsertMember,
                DeleteMemberRow, DeleteUserRow, At, InFlight, Ends
  <2> QED BY <1>F, <2>1, <2>2 DEF NextPoints
<1>4. CASE FlushUserChildren(r)
  <2>1. InFlight(r)
    BY <1>4 DEF FlushUserChildren, At, InFlight, Ends
  <2>2. CASE Fail(r) BY <1>F, <2>1, <2>2
  <2>3. CASE ~Fail(r)
    BY <1>4, <2>1, <2>3 DEF FlushUserChildren, HasFixedChildren
  <2> QED BY <2>2, <2>3
<1>5. CASE Refresh(r)
  <2>1. InFlight(r)
    BY <1>5 DEF Refresh, At, InFlight, Ends
  <2>2. CASE Fail(r) BY <1>F, <2>1, <2>2
  <2>3. CASE ~Fail(r)
    BY <1>5, <2>1, <2>3 DEF Refresh
  <2> QED BY <2>2, <2>3
<1>6. CASE Invalidate(r)
  <2>1. AfterInvalidate(req[r]) \in NextPoints
    BY DEF AfterInvalidate, NextPoints
  <2> QED BY <1>6, <2>1 DEF Invalidate, At, InFlight, Ends
<1>7. CASE \/ CreateNotification(r) \/ SendEmail(r) \/ BroadcastStatus(r)
           \/ RefreshComment(r)
  <2>1. Fail(r) \/ Goto(r, "email") \/ Goto(r, "done")
    BY <1>7 DEF CreateNotification, SendEmail, BroadcastStatus, RefreshComment
  <2>2. InFlight(r)
    BY <1>7 DEF CreateNotification, SendEmail, BroadcastStatus, RefreshComment,
                At, InFlight, Ends
  <2> QED BY <1>F, <2>1, <2>2 DEF NextPoints
<1> QED
  BY <1>1, <1>2, <1>3, <1>4, <1>5, <1>6, <1>7 DEF Step

\* The consequences the invariants need.
LEMMA StepLocals ==
  ASSUME TypeOK, NEW r \in Requests, Step(r)
  PROVE  /\ InFlight(r)
         /\ \A s \in Requests \ {r} : req'[s] = req[s]
         /\ req'[r].op = req[r].op
         /\ req'[r].pc \in NextPoints \cup {"deleteUser"}
         /\ req'[r].pc = "deleteUser" => req'[r].who # Owner
         /\ req[r].op = "create" /\ req[r].wrote => req'[r].wrote
<1>0. req[r] \in Request /\ req \in [Requests -> Request]
  BY DEF TypeOK
<1>P. NextPoints \subseteq (Points \cup Ends) \ {"deleteUser"}
  BY DEF NextPoints, Points, Ends
<1>1. ASSUME NEW p \in NextPoints, Goto(r, p)
      PROVE  /\ \A s \in Requests \ {r} : req'[s] = req[s]
             /\ req'[r].op = req[r].op
             /\ req'[r].pc = p
             /\ req[r].op = "create" => req'[r].wrote = req[r].wrote
  BY <1>0, <1>1, <1>P, GotoMoves, MovedIsRequest
<1>2. ASSUME NEW p \in NextPoints, Commit(r, p)
      PROVE  /\ \A s \in Requests \ {r} : req'[s] = req[s]
             /\ req'[r].op = req[r].op
             /\ req'[r].pc = p
             /\ req[r].op = "create" => req'[r].wrote
  <2> DEFINE q == [req[r] EXCEPT !.wrote = TRUE]
  <2>1. q \in Request /\ q.op = req[r].op /\ q.wrote
    BY <1>0 DEF Request
  <2>2. req'[r] = Moved(q, p) /\ \A s \in Requests \ {r} : req'[s] = req[s]
    BY <1>2, <1>P, CommitMoves
  <2> HIDE DEF q
  <2> QED BY <2>1, <2>2, <1>P, MovedIsRequest
<1>3. ASSUME NEW row,
             req' = [req EXCEPT ![r].pc = "invalidate", ![r].obj = row]
      PROVE  /\ \A s \in Requests \ {r} : req'[s] = req[s]
             /\ req'[r].op = req[r].op
             /\ req'[r].pc = "invalidate"
             /\ req'[r].wrote = req[r].wrote
  BY <1>0, <1>3 DEF Request
<1>4. ASSUME NEW kids, NEW in, req[r].who # Owner,
             req' = [req EXCEPT ![r].pc = "deleteUser",
                                ![r].kids = kids, ![r].joined = in]
      PROVE  /\ \A s \in Requests \ {r} : req'[s] = req[s]
             /\ req'[r].op = req[r].op
             /\ req'[r].pc = "deleteUser"
             /\ req'[r].who # Owner
             /\ req'[r].wrote = req[r].wrote
  BY <1>0, <1>4 DEF Request
<1>5. "invalidate" \in NextPoints
  BY DEF NextPoints
<1>6. CASE \E p \in NextPoints : Goto(r, p)
  BY <1>6, <1>1, <1>P, StepShape
<1>7. CASE \E p \in NextPoints : Commit(r, p)
  BY <1>7, <1>2, <1>P, StepShape
<1>8. CASE \E row : req' = [req EXCEPT ![r].pc = "invalidate", ![r].obj = row]
  BY <1>8, <1>3, <1>5, <1>P, StepShape
<1>9. CASE /\ req[r].who # Owner
           /\ \E kids, in : req' = [req EXCEPT ![r].pc = "deleteUser",
                                    ![r].kids = kids, ![r].joined = in]
  BY <1>9, <1>4, StepShape
<1> QED
  BY <1>6, <1>7, <1>8, <1>9, StepShape

\* What a request that arrives starts with.
LEMMA ArriveLocals ==
  ASSUME TypeOK, NEW r \in Requests, Arrive(r)
  PROVE  /\ At(r, "idle")
         /\ UNCHANGED <<tables, emails>>
         /\ \A s \in Requests \ {r} : req'[s] = req[s]
         /\ req'[r].pc \in Points \ {"idle", "deleteUser", "email"}
         /\ req'[r].pc = "insert" <=> req'[r].op = "create"
         /\ ~req'[r].wrote
         /\ req'[r].pc = "addMember" => req'[r].who # Owner
<1>1. PICK op \in OpNames, u \in Users, local \in Request :
        Arrival(op, local) /\ Accept(r, op, u, local)
  BY ArriveShape
<1>2. /\ At(r, "idle") /\ UNCHANGED <<tables, emails>>
      /\ req' = [req EXCEPT ![r] = [local EXCEPT !.op = op, !.by = u]]
  BY <1>1 DEF Accept
<1>3. req \in [Requests -> Request]
  BY DEF TypeOK
<1>4. /\ \A s \in Requests \ {r} : req'[s] = req[s]
      /\ req'[r] = [local EXCEPT !.op = op, !.by = u]
  BY <1>2, <1>3
<1>5. /\ req'[r].pc = local.pc /\ req'[r].op = op
      /\ req'[r].wrote = local.wrote /\ req'[r].who = local.who
  BY <1>4 DEF Request
<1> QED
  BY <1>1, <1>2, <1>4, <1>5 DEF Arrival

\* Neither the user being added nor the user being deleted is the owner.
NotOwner(q) == q.pc \in {"addMember", "deleteUser"} => q.who # Owner
Targets == \A r \in Requests : NotOwner(req[r])

LEMMA TargetsKept == TypeOK /\ Targets /\ [Next]_vars => Targets'
<1> SUFFICES ASSUME TypeOK, Targets, [Next]_vars, NEW s \in Requests
             PROVE  NotOwner(req'[s])
  BY DEF Targets
<1>0. NotOwner(req[s])
  BY DEF Targets
<1>P. {"addMember", "deleteUser"} \cap (NextPoints \cup Ends) = {}
  BY DEF NextPoints, Ends
<1>1. ASSUME NEW r \in Requests, Arrive(r) PROVE NotOwner(req'[s])
  BY <1>0, <1>1, ArriveLocals DEF NotOwner
<1>2. ASSUME NEW r \in Requests, Step(r) PROVE NotOwner(req'[s])
  BY <1>0, <1>2, <1>P, StepLocals DEF NotOwner
<1>3. CASE Crash
  <2>1. req'[s] = req[s] \/ req'[s] = Ended(req[s], "crashed")
    BY <1>3 DEF Crash
  <2>2. Moved(req[s], "crashed") = Ended(req[s], "crashed")
    BY DEF Moved, Ends
  <2>3. req[s] \in Request /\ "crashed" \in Ends
    BY DEF TypeOK, Ends
  <2> QED BY <1>0, <1>P, <2>1, <2>2, <2>3, MovedIsRequest DEF NotOwner
<1>4. CASE UNCHANGED vars
  BY <1>0, <1>4 DEF vars
<1> QED
  BY <1>1, <1>2, <1>3, <1>4 DEF Next, Quiet

----------------------------------------------------------------------------
(* Referential integrity. *)

LEMMA InitRefs == Init => RefIntegrity /\ Targets
<1> SUFFICES ASSUME Init PROVE RefIntegrity /\ Targets
  OBVIOUS
<1>1. PeopleExist
  <2>1. PICK a \in Joined \cup {Null} : task = [t \in TaskIds |-> NewTask(Owner, a)]
    BY DEF Init
  <2>2. \A t \in live : task[t].assignee = a /\ task[t].author = Owner
    BY <2>1 DEF Init, NewTask, TaskIds
  <2> QED BY <2>2, ServiceAssumption DEF Init, PeopleExist, KnownUser
<1>2. TaskRowsExist
  BY DEF Init, TaskRowsExist
<1>3. Targets
  BY DEF Init, Targets, NotOwner, Idle
<1> QED
  BY <1>1, <1>2, <1>3 DEF RefIntegrity

\* RefIntegrity speaks of the tables alone.
LEMMA SameTablesSameRefs == RefIntegrity /\ UNCHANGED tables => RefIntegrity'
BY DEF RefIntegrity, PeopleExist, TaskRowsExist, KnownUser, tables

LEMMA InsertTaskRefs ==
  ASSUME TypeOK, RefIntegrity, NEW r \in Requests, InsertTask(r)
  PROVE  RefIntegrity'
<1>1. CASE Fail(r)
  BY <1>1, SameTablesSameRefs DEF Fail
<1>2. CASE ~Fail(r)
  <2>1. /\ req[r].by \in users /\ KnownUser(req[r].who)
        /\ live' = live \cup {r}
        /\ task' = [task EXCEPT ![r] = NewTask(req[r].by, req[r].who)]
        /\ UNCHANGED <<users, members, history, comments, notes>>
    BY <1>2 DEF InsertTask
  <2>2. /\ task'[r].assignee = req[r].who /\ task'[r].author = req[r].by
        /\ \A t \in TaskIds \ {r} : task'[t] = task[t]
    BY <2>1 DEF TypeOK, NewTask, TaskIds
  <2>3. PeopleExist'
    BY <2>1, <2>2 DEF TypeOK, RefIntegrity, PeopleExist, KnownUser
  <2>4. TaskRowsExist'
    BY <2>1 DEF RefIntegrity, TaskRowsExist
  <2> QED BY <2>3, <2>4 DEF RefIntegrity
<1> QED
  BY <1>1, <1>2

LEMMA UpdateTaskRefs ==
  ASSUME TypeOK, RefIntegrity, NEW r \in Requests, UpdateTask(r)
  PROVE  RefIntegrity'
<1>1. CASE Fail(r)
  BY <1>1, SameTablesSameRefs DEF Fail
<1>2. CASE ~Fail(r)
  <2> DEFINE t == req[r].task
  <2>1. /\ t \in live
        /\ AssigneeChanged(req[r]) => KnownUser(req[r].who)
        /\ task' = [task EXCEPT ![t] = Updated(@, req[r])]
        /\ UNCHANGED <<users, members, live, history, comments, notes>>
    BY <1>2 DEF UpdateTask
  <2>2. task[t] \in Row /\ t \in TaskIds
    BY <2>1 DEF TypeOK
  <2>3. KnownUser(task[t].assignee) /\ task[t].author \in users
    BY <2>1 DEF RefIntegrity, PeopleExist
  <2>4. /\ KnownUser(Updated(task[t], req[r]).assignee)
        /\ Updated(task[t], req[r]).author \in users
    BY <2>1, <2>2, <2>3 DEF Updated, Row
  <2>5. /\ task'[t] = Updated(task[t], req[r])
        /\ \A x \in TaskIds \ {t} : task'[x] = task[x]
    BY <2>1, <2>2 DEF TypeOK
  <2> HIDE DEF t
  <2>6. PeopleExist'
    BY <2>1, <2>4, <2>5 DEF TypeOK, RefIntegrity, PeopleExist, KnownUser
  <2>7. TaskRowsExist'
    BY <2>1 DEF RefIntegrity, TaskRowsExist
  <2> QED BY <2>6, <2>7 DEF RefIntegrity
<1> QED
  BY <1>1, <1>2

LEMMA UpdateTaskStatusRefs ==
  ASSUME TypeOK, RefIntegrity, NEW r \in Requests, UpdateTaskStatus(r)
  PROVE  RefIntegrity'
<1>1. CASE Fail(r) \/ UNCHANGED tables
  BY <1>1, SameTablesSameRefs DEF Fail
<1>2. CASE ~Fail(r) /\ ~UNCHANGED tables
  <2> DEFINE t == req[r].task
             h == HistoryRow(req[r])
  <2>1. /\ t \in live /\ req[r].by \in users
        /\ task' = [task EXCEPT ![t].status = req[r].status]
        /\ history' = [history EXCEPT ![t] = Append(@, h)]
        /\ UNCHANGED <<users, members, live, comments, notes>>
    BY <1>2 DEF UpdateTaskStatus
  <2>2. task[t] \in Row /\ history[t] \in Seq(Entry) /\ t \in TaskIds
    BY <2>1 DEF TypeOK
  <2>3. h.user = req[r].by
    BY DEF HistoryRow
  <2>4. PeopleExist'
    <3>1. \A x \in TaskIds : /\ task'[x].assignee = task[x].assignee
                             /\ task'[x].author = task[x].author
      BY <2>1, <2>2 DEF TypeOK, Row
    <3> QED BY <2>1, <3>1 DEF TypeOK, RefIntegrity, PeopleExist, KnownUser
  <2>5. \A x \in TaskIds \ {t} : history'[x] = history[x]
    BY <2>1, <2>2 DEF TypeOK
  <2> HIDE DEF h, t
  <2>6. ASSUME NEW i \in DOMAIN history'[t] PROVE history'[t][i].user \in users
    <3>1. history'[t] = Append(history[t], h)
      BY <2>1, <2>2 DEF TypeOK
    <3>2. h \in Entry
      BY <2>1, <2>2 DEF TypeOK, h, HistoryRow, Entry, Request, Row
    <3>3. CASE i \in DOMAIN history[t]
      <4>1. history'[t][i] = history[t][i]
        BY <2>2, <3>1, <3>2, <3>3
      <4> QED BY <2>2, <3>3, <4>1 DEF RefIntegrity, TaskRowsExist
    <3>4. CASE i \notin DOMAIN history[t]
      <4>1. history'[t][i] = h
        BY <2>2, <2>6, <3>1, <3>2, <3>4
      <4> QED BY <2>1, <2>3, <4>1
    <3> QED BY <3>3, <3>4
  <2>7. TaskRowsExist'
    BY <2>1, <2>2, <2>5, <2>6 DEF RefIntegrity, TaskRowsExist
  <2> QED BY <2>4, <2>7 DEF RefIntegrity
<1> QED
  BY <1>1, <1>2

LEMMA DeleteTaskRowRefs ==
  ASSUME TypeOK, RefIntegrity, NEW r \in Requests, DeleteTaskRow(r)
  PROVE  RefIntegrity'
<1> DEFINE t == req[r].task
<1>1. /\ live' = live \ {t}
      /\ history' = [history EXCEPT ![t] = <<>>]
      /\ comments' = comments \ CommentsOf(t)
      /\ UNCHANGED <<users, members, task, notes>>
  BY DEF DeleteTaskRow
<1> HIDE DEF t
<1>2. PeopleExist'
  BY <1>1 DEF RefIntegrity, PeopleExist, KnownUser
<1>3. \A x \in TaskIds : \A i \in DOMAIN history'[x] :
        x # t /\ history'[x] = history[x]
  BY <1>1 DEF TypeOK
<1>4. TaskRowsExist'
  BY <1>1, <1>3 DEF RefIntegrity, TaskRowsExist, CommentsOf
<1> QED
  BY <1>2, <1>4 DEF RefIntegrity

LEMMA CommentRefs ==
  ASSUME TypeOK, RefIntegrity, NEW r \in Requests,
         InsertComment(r) \/ DeleteCommentRow(r)
  PROVE  RefIntegrity'
<1>1. CASE Fail(r)
  BY <1>1, SameTablesSameRefs DEF Fail
<1>2. CASE ~Fail(r)
  <2>1. /\ UNCHANGED <<users, members, live, task, history, notes>>
        /\ \A c \in comments' \ comments : c.task \in live /\ c.user \in users
    BY <1>2 DEF InsertComment, DeleteCommentRow
  <2> QED
    BY <2>1 DEF RefIntegrity, PeopleExist, TaskRowsExist, KnownUser
<1> QED
  BY <1>1, <1>2

LEMMA MemberRefs ==
  ASSUME TypeOK, RefIntegrity, Targets, NEW r \in Requests,
         InsertMember(r) \/ DeleteMemberRow(r)
  PROVE  RefIntegrity'
<1>1. CASE Fail(r)
  BY <1>1, SameTablesSameRefs DEF Fail
<1>2. CASE ~Fail(r)
  <2>1. /\ UNCHANGED <<users, live, task, history, comments, notes>>
        /\ \/ members' \subseteq members
           \/ members' = members \cup {req[r].who} /\ req[r].who \in users \ {Owner}
    BY <1>2 DEF InsertMember, DeleteMemberRow, Targets, NotOwner, At
  <2> QED
    BY <2>1 DEF RefIntegrity, PeopleExist, TaskRowsExist, KnownUser
<1> QED
  BY <1>1, <1>2

LEMMA NotificationRefs ==
  ASSUME TypeOK, RefIntegrity, NEW r \in Requests, CreateNotification(r)
  PROVE  RefIntegrity'
<1>1. CASE Fail(r)
  BY <1>1, SameTablesSameRefs DEF Fail
<1>2. CASE ~Fail(r)
  <2>1. /\ Assigned(req[r]) \in users
        /\ notes' = notes \cup {Note(r)}
        /\ UNCHANGED <<users, members, live, task, history, comments>>
    BY <1>2 DEF CreateNotification
  <2> QED
    BY <2>1 DEF RefIntegrity, PeopleExist, TaskRowsExist, KnownUser, Note
<1> QED
  BY <1>1, <1>2

LEMMA DeleteUserRefs ==
  ASSUME TypeOK, RefIntegrity, Targets, NEW r \in Requests, DeleteUserRow(r)
  PROVE  RefIntegrity'
<1>1. CASE Fail(r)
  BY <1>1, SameTablesSameRefs DEF Fail
<1>2. CASE ~Fail(r)
  <2> DEFINE q == req[r]
             v == req[r].who
  <2>1. /\ ~StillReferenced(v, q.joined)
        /\ task' = [t \in TaskIds |->
                      IF t \in Cleared(q) THEN [task[t] EXCEPT !.assignee = Null]
                      ELSE task[t]]
        /\ members' = IF q.joined THEN members \ {v} ELSE members
        /\ notes' = {n \in notes : n.user # v}
        /\ users' = users \ {v}
        /\ UNCHANGED <<live, history, comments>>
    BY <1>2 DEF DeleteUserRow
  <2>2. v # Owner
    BY DEF DeleteUserRow, Targets, NotOwner, At
  <2>3. v \notin members'
    BY <2>1 DEF StillReferenced, RefIntegrity, PeopleExist
  <2>4. \A t \in live : task'[t].author # v /\ task'[t].author = task[t].author
    <3>1. \A t \in TaskIds : task'[t].author = task[t].author
      BY <2>1 DEF TypeOK, Row
    <3>2. \A t \in live : task[t].author # v
      BY <2>1 DEF StillReferenced, Authored, RefIntegrity, PeopleExist
    <3> QED BY <3>1, <3>2 DEF TypeOK
  <2>5. \A t \in live : \/ task'[t].assignee = Null
                        \/ task'[t].assignee = task[t].assignee /\ task[t].assignee # v
    BY <2>1 DEF Cleared, AssignedTo, TypeOK, Row
  <2>6. \A t \in TaskIds : \A i \in DOMAIN history[t] : history[t][i].user # v
    BY <2>1 DEF StillReferenced, HasHistory, RefIntegrity, TaskRowsExist
  <2>7. \A c \in comments : c.user # v
    BY <2>1 DEF StillReferenced, RefIntegrity, TaskRowsExist
  <2> HIDE DEF v, q
  <2>8. PeopleExist'
    BY <2>1, <2>2, <2>3, <2>4, <2>5 DEF RefIntegrity, PeopleExist, KnownUser
  <2>9. TaskRowsExist'
    BY <2>1, <2>6, <2>7 DEF RefIntegrity, TaskRowsExist
  <2> QED BY <2>8, <2>9 DEF RefIntegrity
<1> QED
  BY <1>1, <1>2

\* The steps that leave the tables as they are.
LEMMA QuietSteps ==
  ASSUME NEW r \in Requests,
         FlushTaskChildren(r) \/ UpdateCommentRow(r) \/ FlushUserChildren(r)
           \/ Refresh(r) \/ Invalidate(r) \/ SendEmail(r) \/ BroadcastStatus(r)
           \/ RefreshComment(r)
  PROVE  UNCHANGED tables
BY DEF FlushTaskChildren, UpdateCommentRow, FlushUserChildren, Refresh,
       Invalidate, SendEmail, BroadcastStatus, RefreshComment, Fail

LEMMA StepRefs ==
  ASSUME TypeOK, RefIntegrity, Targets, NEW r \in Requests, Step(r)
  PROVE  RefIntegrity'
BY InsertTaskRefs, UpdateTaskRefs, UpdateTaskStatusRefs, DeleteTaskRowRefs,
   CommentRefs, MemberRefs, NotificationRefs, DeleteUserRefs, QuietSteps,
   SameTablesSameRefs DEF Step

\* Referential integrity is inductive once the handlers' targets are: a user
\* is deleted or added on the word of rows read before, and it is Targets
\* that remembers what was read.
RefInv == TypeOK /\ RefIntegrity /\ Targets

LEMMA RefInvKept == RefInv /\ [Next]_vars => RefInv'
<1> SUFFICES ASSUME TypeOK, RefIntegrity, Targets, [Next]_vars
             PROVE  TypeOK' /\ RefIntegrity' /\ Targets'
  BY DEF RefInv
<1>1. CASE \E r \in Requests : Arrive(r)
  BY <1>1, ArriveLocals, SameTablesSameRefs, NextTypes, TargetsKept
<1>2. CASE \E r \in Requests : Step(r)
  BY <1>2, StepRefs, NextTypes, TargetsKept
<1>3. CASE Crash
  BY <1>3, SameTablesSameRefs, NextTypes, TargetsKept DEF Crash
<1>4. CASE UNCHANGED vars
  BY <1>4, SameTablesSameRefs, NextTypes, TargetsKept DEF vars, tables
<1> QED
  BY <1>1, <1>2, <1>3, <1>4 DEF Next, Quiet

LEMMA RefInvHolds == Spec => []RefInv
<1>1. Init => RefInv
  BY InitTypes, InitRefs DEF RefInv
<1>2. RefInv /\ [Next]_vars => RefInv'
  BY RefInvKept
<1> QED
  BY <1>1, <1>2, PTL DEF Spec

\* However many requests interleave, and wherever the process dies, no row
\* refers to a user or a task that is gone, and the project keeps its owner.
THEOREM ReferencesHold == Spec => []RefIntegrity
<1>1. RefInv => RefIntegrity
  BY DEF RefInv
<1> QED
  BY <1>1, RefInvHolds, PTL

----------------------------------------------------------------------------
(* The life of a task. *)

\* A task that a request creates is live only after the request's commit,
\* and a create that has not committed waits for it or has ended.
CreatingOK(r) ==
  /\ At(r, "idle") => req[r].op # "create"
  /\ At(r, "insert") => req[r].op = "create" /\ ~req[r].wrote
  /\ r \in live => req[r].op = "create" /\ req[r].wrote
  /\ req[r].op = "create" /\ ~req[r].wrote => req[r].pc \in {"insert"} \cup Ends
Creating == \A r \in Requests : CreatingOK(r)

LEMMA LiveGrowsByInsert ==
  ASSUME NEW r \in Requests, Step(r)
  PROVE  \/ live' \subseteq live
         \/ InsertTask(r) /\ live' = live \cup {r}
<1>1. CASE InsertTask(r)
  BY <1>1 DEF InsertTask, Fail, tables
<1>2. CASE UpdateTask(r) \/ UpdateTaskStatus(r) \/ DeleteTaskRow(r)
             \/ CreateNotification(r)
  BY <1>2 DEF UpdateTask, UpdateTaskStatus, DeleteTaskRow, CreateNotification,
              Fail, tables
<1>3. CASE InsertComment(r) \/ DeleteCommentRow(r) \/ InsertMember(r)
             \/ DeleteMemberRow(r) \/ DeleteUserRow(r)
  BY <1>3 DEF InsertComment, DeleteCommentRow, InsertMember, DeleteMemberRow,
              DeleteUserRow, Fail, tables
<1> QED
  BY <1>1, <1>2, <1>3, QuietSteps DEF Step, tables

LEMMA CrashLocals ==
  ASSUME TypeOK, Crash, NEW s \in Requests
  PROVE  \/ req'[s] = req[s]
         \/ /\ req'[s].pc = "crashed" /\ req'[s].op = req[s].op
            /\ req[s].op = "create" => req'[s].wrote = req[s].wrote
<1>1. req'[s] = req[s] \/ req'[s] = Ended(req[s], "crashed")
  BY DEF Crash
<1>2. Moved(req[s], "crashed") = Ended(req[s], "crashed")
  BY DEF Moved, Ends
<1>3. req[s] \in Request /\ "crashed" \in Ends
  BY DEF TypeOK, Ends
<1> QED
  BY <1>1, <1>2, <1>3, MovedIsRequest

\* At "insert" a handler either commits its task or fails and writes nothing.
LEMMA InsertCommits ==
  ASSUME TypeOK, NEW r \in Requests, At(r, "insert"), Step(r),
         req[r].op = "create", ~req[r].wrote
  PROVE  /\ InsertTask(r)
         /\ \/ live' = live \cup {r} /\ req'[r].wrote
            \/ Fail(r) /\ ~req'[r].wrote /\ req'[r].pc = "failed"
<1>0. req[r] \in Request
  BY DEF TypeOK
<1>P. /\ {"refresh", "failed"} \subseteq Points \cup Ends
      /\ "refresh" \notin Ends
  BY DEF Points, Ends
<1>1. InsertTask(r)
  BY DEF Step, At, InsertTask, UpdateTask, UpdateTaskStatus, FlushTaskChildren,
         DeleteTaskRow, InsertComment, UpdateCommentRow, DeleteCommentRow,
         InsertMember, DeleteMemberRow, FlushUserChildren, DeleteUserRow,
         Refresh, Invalidate, CreateNotification, SendEmail, BroadcastStatus,
         RefreshComment
<1>2. CASE Fail(r)
  BY <1>0, <1>P, <1>1, <1>2, GotoMoves, MovedIsRequest DEF Fail
<1>3. CASE ~Fail(r)
  <2>1. live' = live \cup {r} /\ Commit(r, "refresh")
    BY <1>1, <1>3 DEF InsertTask
  <2>2. req'[r] = Moved([req[r] EXCEPT !.wrote = TRUE], "refresh")
    BY <1>P, <2>1, CommitMoves
  <2> QED BY <1>0, <1>P, <1>1, <2>1, <2>2 DEF Moved, Request
<1> QED
  BY <1>2, <1>3

LEMMA CreatingKept == TypeOK /\ Creating /\ [Next]_vars => Creating'
<1> SUFFICES ASSUME TypeOK, Creating, [Next]_vars, NEW s \in Requests
             PROVE  CreatingOK(s)'
  BY DEF Creating
<1>0. CreatingOK(s)
  BY DEF Creating
<1>P. {"idle", "insert"} \cap (NextPoints \cup {"deleteUser", "crashed"}) = {}
  BY DEF NextPoints
<1>1. ASSUME NEW r \in Requests, Arrive(r) PROVE CreatingOK(s)'
  BY <1>0, <1>1, ArriveLocals DEF CreatingOK, At, tables
<1>2. ASSUME NEW r \in Requests, Step(r) PROVE CreatingOK(s)'
  <2>1. CASE s # r
    BY <1>0, <1>2, <2>1, StepLocals, LiveGrowsByInsert DEF CreatingOK, At
  <2>2. CASE s = r
    <3>1. /\ req'[r].op = req[r].op
          /\ req'[r].pc \notin {"idle", "insert"}
          /\ req[r].op = "create" /\ req[r].wrote => req'[r].wrote
      BY <1>2, <1>P, StepLocals
    <3>2. CASE At(r, "insert")
      <4>1. req[r].op = "create" /\ ~req[r].wrote /\ r \notin live
        BY <1>0, <2>2, <3>2 DEF CreatingOK
      <4>2. CASE live' = live \cup {r} /\ req'[r].wrote
        BY <2>2, <3>1, <4>1, <4>2 DEF CreatingOK, At
      <4>3. CASE Fail(r) /\ ~req'[r].wrote /\ req'[r].pc = "failed"
        BY <2>2, <3>1, <4>1, <4>3 DEF CreatingOK, At, Fail, tables, Ends
      <4> QED BY <1>2, <3>2, <4>1, <4>2, <4>3, InsertCommits
    <3>3. CASE ~At(r, "insert")
      <4>1. live' \subseteq live
        BY <1>2, <3>3, LiveGrowsByInsert DEF InsertTask
      <4>2. InFlight(r)
        BY <1>2, StepLocals
      <4>3. req[r].op = "create" => req[r].wrote
        BY <1>0, <2>2, <3>3, <4>2 DEF CreatingOK, At, InFlight
      <4> QED BY <1>0, <2>2, <3>1, <4>1, <4>3 DEF CreatingOK, At
    <3> QED BY <3>2, <3>3
  <2> QED BY <2>1, <2>2
<1>3. CASE Crash
  <2>1. UNCHANGED live
    BY <1>3 DEF Crash, tables
  <2> QED BY <1>0, <1>3, <2>1, CrashLocals DEF CreatingOK, At, Ends
<1>4. CASE UNCHANGED vars
  BY <1>0, <1>4 DEF vars, CreatingOK, At
<1> QED
  BY <1>1, <1>2, <1>3, <1>4 DEF Next, Quiet

----------------------------------------------------------------------------
(* The status and the history. *)

\* An empty domain is an empty history.
LEMMA NoRowsNoHistory ==
  ASSUME TypeOK, TaskRowsExist, NEW t \in TaskIds, t \notin live
  PROVE  history[t] = <<>>
<1>1. history[t] \in Seq(Entry) /\ DOMAIN history[t] = {}
  BY DEF TypeOK, TaskRowsExist
<1>2. CASE history[t] # <<>>
  <2>1. Len(history[t]) \in Nat \ {0} /\ DOMAIN history[t] = 1..Len(history[t])
    BY <1>1, <1>2, EmptySeq, LenProperties
  <2>2. 1 \in DOMAIN history[t]
    BY <2>1
  <2> QED BY <1>1, <2>2
<1> QED
  BY <1>2

\* The steps that change a task or its history, by what they do to them.
StatusSame ==
  /\ UNCHANGED <<live, history>>
  /\ \A t \in TaskIds : task'[t].status = task[t].status
StatusMoved(r) ==
  LET q == req[r] IN
  /\ q.task \in live /\ q.by \in users /\ StatusChanged(q)
  /\ UNCHANGED live
  /\ task'[q.task].status = q.status
  /\ \A t \in TaskIds \ {q.task} : task'[t] = task[t]
  /\ history' = [history EXCEPT ![q.task] = Append(@, HistoryRow(q))]
TaskAdded(r) ==
  /\ At(r, "insert")
  /\ live' = live \cup {r}
  /\ task'[r].status = "todo"
  /\ \A t \in TaskIds \ {r} : task'[t] = task[t]
  /\ UNCHANGED history
TaskRemoved(r) ==
  LET t == req[r].task IN
  /\ live' = live \ {t}
  /\ history' = [history EXCEPT ![t] = <<>>]
  /\ UNCHANGED task

LEMMA StepStatus ==
  ASSUME TypeOK, NEW r \in Requests, Step(r)
  PROVE  StatusSame \/ StatusMoved(r) \/ TaskAdded(r) \/ TaskRemoved(r)
<1>0. ASSUME UNCHANGED <<live, task, history>> PROVE StatusSame
  BY <1>0 DEF StatusSame
<1>1. CASE InsertTask(r)
  <2>1. CASE Fail(r) BY <1>0, <2>1 DEF Fail, tables
  <2>2. CASE ~Fail(r)
    BY <1>1, <2>2 DEF InsertTask, TaskAdded, TypeOK, NewTask, TaskIds
  <2> QED BY <2>1, <2>2
<1>2. CASE UpdateTask(r)
  <2>1. CASE Fail(r) BY <1>0, <2>1 DEF Fail, tables
  <2>2. CASE ~Fail(r)
    <3>1. /\ task' = [task EXCEPT ![req[r].task] = Updated(@, req[r])]
          /\ UNCHANGED <<live, history>>
      BY <1>2, <2>2 DEF UpdateTask
    <3>2. ASSUME NEW row \in Row PROVE Updated(row, req[r]).status = row.status
      BY DEF Updated, Row
    <3> QED BY <3>1, <3>2 DEF StatusSame, TypeOK
  <2> QED BY <2>1, <2>2
<1>3. CASE UpdateTaskStatus(r)
  <2>1. CASE UNCHANGED tables BY <1>0, <2>1 DEF tables
  <2>2. CASE ~UNCHANGED tables
    <3>1. /\ StatusChanged(req[r])
          /\ req[r].task \in live /\ req[r].by \in users
          /\ task' = [task EXCEPT ![req[r].task].status = req[r].status]
          /\ history' = [history EXCEPT ![req[r].task] =
                                           Append(@, HistoryRow(req[r]))]
          /\ UNCHANGED live
      BY <1>3, <2>2 DEF UpdateTaskStatus, Fail
    <3>2. req[r].task \in TaskIds /\ task[req[r].task] \in Row
      BY <3>1 DEF TypeOK
    <3>3. task'[req[r].task].status = req[r].status
      BY <3>1, <3>2 DEF TypeOK, Row
    <3> QED BY <3>1, <3>2, <3>3 DEF StatusMoved, TypeOK
  <2> QED BY <2>1, <2>2
<1>4. CASE DeleteTaskRow(r)
  BY <1>4 DEF DeleteTaskRow, TaskRemoved
<1>5. CASE InsertComment(r) \/ DeleteCommentRow(r) \/ InsertMember(r)
             \/ DeleteMemberRow(r) \/ CreateNotification(r)
  BY <1>0, <1>5 DEF InsertComment, DeleteCommentRow, InsertMember,
                    DeleteMemberRow, CreateNotification, Fail, tables
<1>6. CASE DeleteUserRow(r)
  <2>1. CASE Fail(r) BY <1>0, <2>1 DEF Fail, tables
  <2>2. CASE ~Fail(r)
    <3>1. /\ task' = [t \in TaskIds |->
                        IF t \in Cleared(req[r])
                        THEN [task[t] EXCEPT !.assignee = Null] ELSE task[t]]
          /\ UNCHANGED <<live, history>>
      BY <1>6, <2>2 DEF DeleteUserRow
    <3> QED BY <3>1 DEF StatusSame, TypeOK, Row
  <2> QED BY <2>1, <2>2
<1>7. CASE \/ FlushTaskChildren(r) \/ UpdateCommentRow(r) \/ FlushUserChildren(r)
           \/ Refresh(r) \/ Invalidate(r) \/ SendEmail(r) \/ BroadcastStatus(r)
           \/ RefreshComment(r)
  BY <1>0, <1>7, QuietSteps DEF tables
<1> QED
  BY <1>1, <1>2, <1>3, <1>4, <1>5, <1>6, <1>7 DEF Step

LEMMA StatusKept ==
  ASSUME TypeOK, RefIntegrity, Creating, StatusIsLastLogged,
         NEW r \in Requests, Step(r)
  PROVE  StatusIsLastLogged'
<1>L. live \subseteq TaskIds
  BY DEF TypeOK
<1>1. CASE StatusSame
  BY <1>1, <1>L DEF StatusSame, StatusIsLastLogged
<1>2. CASE StatusMoved(r)
  <2> DEFINE q == req[r]
             h == history[q.task]
  <2>1. q.task \in TaskIds /\ q \in Request /\ h \in Seq(Entry)
    BY <1>2 DEF StatusMoved, TypeOK
  <2>2. HistoryRow(q) \in Entry /\ HistoryRow(q).new = q.status
    BY <1>2, <2>1 DEF HistoryRow, Entry, Request, Row, StatusMoved, TypeOK
  <2>3. LastLogged(Append(h, HistoryRow(q))) = q.status
    <3>1. /\ Len(Append(h, HistoryRow(q))) = Len(h) + 1
          /\ Append(h, HistoryRow(q))[Len(h) + 1] = HistoryRow(q)
      BY <2>1, <2>2
    <3>2. Append(h, HistoryRow(q)) # <<>>
      <4>1. Len(h) \in Nat
        BY <2>1, LenProperties
      <4>2. Len(<<>>) = 0
        OBVIOUS
      <4> QED BY <3>1, <4>1, <4>2
    <3> QED BY <2>2, <3>1, <3>2 DEF LastLogged
  <2>4. /\ history'[q.task] = Append(h, HistoryRow(q))
        /\ \A t \in TaskIds \ {q.task} : history'[t] = history[t]
    BY <1>2, <2>1 DEF StatusMoved, TypeOK
  <2>5. /\ live' = live /\ task'[q.task].status = q.status
        /\ \A t \in TaskIds \ {q.task} : task'[t] = task[t]
    BY <1>2 DEF StatusMoved
  <2> HIDE DEF q, h
  <2> QED BY <1>L, <2>3, <2>4, <2>5 DEF StatusIsLastLogged
<1>3. CASE TaskAdded(r)
  <2>1. r \notin live /\ r \in TaskIds
    BY <1>3 DEF TaskAdded, Creating, CreatingOK, TaskIds
  <2>2. history[r] = <<>>
    BY <2>1, NoRowsNoHistory DEF RefIntegrity
  <2> QED BY <1>3, <1>L, <2>2 DEF TaskAdded, StatusIsLastLogged, LastLogged
<1>4. CASE TaskRemoved(r)
  BY <1>4, <1>L DEF TaskRemoved, StatusIsLastLogged, TypeOK
<1> QED
  BY <1>1, <1>2, <1>3, <1>4, StepStatus

\* The invariant of the task life cycle: the references, because a dead task
\* must have no history left for a row that could return; what creates know
\* of their task; and the property itself.
LifeInv == RefInv /\ Creating /\ StatusIsLastLogged

LEMMA InitLife == Init => LifeInv
<1> SUFFICES ASSUME Init PROVE LifeInv
  OBVIOUS
<1>1. Creating
  BY ServiceAssumption DEF Init, Creating, CreatingOK, At, Idle
<1>2. StatusIsLastLogged
  <2>1. PICK a \in Joined \cup {Null} : task = [t \in TaskIds |-> NewTask(Owner, a)]
    BY DEF Init
  <2>2. ASSUME NEW t \in TaskIds PROVE task[t].status = "todo" /\ history[t] = <<>>
    BY <2>1 DEF Init, NewTask
  <2> QED BY <2>2 DEF Init, StatusIsLastLogged, LastLogged, TaskIds
<1> QED
  BY <1>1, <1>2, InitTypes, InitRefs DEF LifeInv, RefInv

LEMMA LifeInvKept == LifeInv /\ [Next]_vars => LifeInv'
<1> SUFFICES ASSUME LifeInv, [Next]_vars PROVE LifeInv'
  OBVIOUS
<1>0. RefInv /\ TypeOK /\ RefIntegrity /\ Creating /\ StatusIsLastLogged
  BY DEF LifeInv, RefInv
<1>1. RefInv'
  BY <1>0, RefInvKept
<1>2. Creating'
  BY <1>0, CreatingKept
<1>3. ASSUME UNCHANGED <<live, task, history>> PROVE StatusIsLastLogged'
  BY <1>0, <1>3 DEF StatusIsLastLogged
<1>4. StatusIsLastLogged'
  <2>1. CASE \E r \in Requests : Arrive(r)
    BY <1>0, <1>3, <2>1, ArriveLocals DEF tables
  <2>2. CASE \E r \in Requests : Step(r)
    BY <1>0, <2>2, StatusKept
  <2>3. CASE Crash
    BY <1>3, <2>3 DEF Crash, tables
  <2>4. CASE UNCHANGED vars
    BY <1>3, <2>4 DEF vars
  <2> QED BY <2>1, <2>2, <2>3, <2>4 DEF Next, Quiet
<1> QED
  BY <1>1, <1>2, <1>4 DEF LifeInv

LEMMA LifeInvHolds == Spec => []LifeInv
<1>1. LifeInv /\ [Next]_vars => LifeInv'
  BY LifeInvKept
<1> QED
  BY InitLife, <1>1, PTL DEF Spec

\* A task's status is always the last one its history records, however the
\* stale rows of its handlers interleave.
THEOREM StatusMatchesHistory == Spec => []StatusIsLastLogged
<1>1. LifeInv => StatusIsLastLogged
  BY DEF LifeInv
<1> QED
  BY <1>1, LifeInvHolds, PTL

----------------------------------------------------------------------------
(* TaskService implements TaskAudit. *)

LEMMA InitAudits == Init => Audit!AuditInit
<1> SUFFICES ASSUME Init PROVE Audit!AuditInit
  OBVIOUS
<1>1. PICK a \in Joined \cup {Null} : task = [t \in TaskIds |-> NewTask(Owner, a)]
  BY DEF Init
<1>2. statusOf = [t \in TaskIds |-> "todo"]
  BY <1>1 DEF statusOf, NewTask
<1>3. phase = [t \in TaskIds |-> IF t \in Seed THEN "live" ELSE "absent"]
  BY DEF Init, phase, Idle, TaskIds
<1> QED
  BY <1>2, <1>3 DEF Init, Audit!AuditInit

\* Whether a request's create has committed changes only with its task.
Created(r) == req[r].op = "create" /\ req[r].wrote

LEMMA CreatedKept ==
  ASSUME TypeOK, Creating, [Next]_vars, NEW s \in Requests, s \notin live' \ live
  PROVE  Created(s)' = Created(s)
<1>0. CreatingOK(s)
  BY DEF Creating
<1>1. ASSUME NEW r \in Requests, Arrive(r) PROVE Created(s)' = Created(s)
  BY <1>0, <1>1, ArriveLocals DEF Created, CreatingOK, At
<1>2. ASSUME NEW r \in Requests, Step(r) PROVE Created(s)' = Created(s)
  <2>1. CASE s # r
    BY <1>2, <2>1, StepLocals DEF Created
  <2>2. CASE s = r /\ req[r].op = "create" /\ ~req[r].wrote
    <3>1. InFlight(r)
      BY <1>2, StepLocals
    <3>2. At(r, "insert") /\ r \notin live
      BY <1>0, <2>2, <3>1 DEF CreatingOK, At, InFlight
    <3>3. ~req'[r].wrote
      BY <1>2, <2>2, <3>2, InsertCommits
    <3> QED BY <2>2, <3>3 DEF Created
  <2>3. CASE s = r /\ (req[r].op = "create" => req[r].wrote)
    <3>1. /\ req'[r].op = req[r].op
          /\ req[r].op = "create" /\ req[r].wrote => req'[r].wrote
      BY <1>2, StepLocals
    <3>2. req[r].wrote \in BOOLEAN /\ req'[r].wrote \in BOOLEAN
      BY NextTypes DEF TypeOK, Request
    <3> QED BY <2>3, <3>1, <3>2 DEF Created
  <2> QED BY <2>1, <2>2, <2>3
<1>3. CASE Crash
  BY <1>3, CrashLocals DEF Created
<1>4. CASE UNCHANGED vars
  BY <1>4 DEF vars, Created
<1> QED
  BY <1>1, <1>2, <1>3, <1>4 DEF Next, Quiet

\* The tasks that are neither added nor removed keep their phase.
LEMMA PhaseKept ==
  ASSUME TypeOK, Creating, [Next]_vars, NEW t \in TaskIds,
         t \in live <=> t \in live'
  PROVE  phase'[t] = phase[t]
<1>1. CASE t \in Seed \/ t \in live
  BY <1>1 DEF phase
<1>2. CASE t \in Requests /\ t \notin live
  BY <1>2, CreatedKept DEF phase, Created
<1> QED
  BY <1>1, <1>2 DEF TaskIds

\* phase is a function on the tasks, so it is equal to another where they agree.
LEMMA PhaseFunction ==
  /\ phase = [t \in TaskIds |-> phase[t]]
  /\ phase' = [t \in TaskIds |-> phase'[t]]
  /\ DOMAIN phase = TaskIds
<1>1. phase = [t \in TaskIds |-> phase[t]]
  BY DEF phase
<1>2. phase' = [t \in TaskIds |-> phase'[t]]
  BY DEF phase
<1>3. DOMAIN phase = TaskIds
  BY DEF phase
<1> QED
  BY <1>1, <1>2, <1>3

LEMMA StepAudits ==
  ASSUME LifeInv, [Next]_vars, NEW r \in Requests, Step(r)
  PROVE  [Audit!AuditNext]_(Audit!auditVars)
<1>0. TypeOK /\ RefIntegrity /\ Creating
  BY DEF LifeInv, RefInv
<1>L. live \subseteq TaskIds /\ r \in TaskIds /\ r \notin Seed
  BY <1>0, ServiceAssumption DEF TypeOK, TaskIds
<1>D. /\ phase = [t \in TaskIds |-> phase[t]]
      /\ phase' = [t \in TaskIds |-> phase'[t]]
      /\ DOMAIN phase = TaskIds
  BY PhaseFunction
<1>1. CASE StatusSame
  <2>1. phase' = phase
    BY <1>0, <1>1, <1>D, PhaseKept DEF StatusSame
  <2>2. statusOf' = statusOf
    BY <1>1 DEF StatusSame, statusOf
  <2> QED BY <1>1, <2>1, <2>2 DEF StatusSame, Audit!auditVars
<1>2. CASE StatusMoved(r)
  <2> DEFINE t == req[r].task
             old == req[r].loaded.status
             new == req[r].status
  <2>1. /\ t \in live /\ req[r].by \in Users /\ old # new
        /\ live' = live
        /\ task'[t].status = new
        /\ \A x \in TaskIds \ {t} : task'[x] = task[x]
        /\ history' = [history EXCEPT ![t] =
                         Append(@, [user |-> req[r].by, old |-> old, new |-> new])]
    BY <1>0, <1>2 DEF StatusMoved, StatusChanged, HistoryRow, TypeOK
  <2>2. old \in TaskStatus /\ new \in TaskStatus
    BY <1>0 DEF TypeOK, Request, Row
  <2> HIDE DEF t, old, new
  <2>3. phase' = phase
    BY <1>0, <1>D, <2>1, PhaseKept
  <2>4. phase[t] = "live"
    BY <1>L, <2>1 DEF phase
  <2>5. statusOf' = [statusOf EXCEPT ![t] = new]
    BY <1>L, <2>1 DEF statusOf
  <2>6. Audit!Move(t)
    BY <2>1, <2>2, <2>3, <2>4, <2>5 DEF Audit!Move
  <2> QED BY <1>L, <2>1, <2>6 DEF Audit!AuditNext
<1>3. CASE TaskAdded(r)
  <2>1. CreatingOK(r) /\ At(r, "insert") /\ r \notin live
    BY <1>0, <1>3 DEF TaskAdded, Creating, CreatingOK
  <2>2. phase[r] = "absent"
    BY <1>L, <2>1 DEF phase, CreatingOK
  <2>3. live' = live \cup {r}
    BY <1>3 DEF TaskAdded
  <2>4. phase'[r] = "live"
    BY <1>L, <2>3 DEF phase
  <2>5. \A x \in TaskIds \ {r} : phase'[x] = phase[x]
    BY <1>0, <2>3, PhaseKept
  <2>6. phase' = [phase EXCEPT ![r] = "live"]
    BY <1>D, <2>4, <2>5
  <2>7. statusOf' = statusOf
    BY <1>3, <2>1 DEF TaskAdded, statusOf
  <2>8. Audit!Appear(r)
    BY <1>3, <2>2, <2>6, <2>7 DEF TaskAdded, Audit!Appear
  <2> QED BY <1>L, <2>8 DEF Audit!AuditNext
<1>4. CASE TaskRemoved(r)
  <2>0. PICK t : t = req[r].task
    OBVIOUS
  <2>1. /\ live' = live \ {t} /\ UNCHANGED task
        /\ history' = [history EXCEPT ![t] = <<>>]
    BY <1>4, <2>0 DEF TaskRemoved
  <2>2. \A x \in TaskIds \ {t} : phase'[x] = phase[x]
    BY <1>0, <2>1, PhaseKept
  <2>3. CASE t \in live
    <3>1. phase[t] = "live"
      BY <1>L, <2>3 DEF phase
    <3>2. phase'[t] = "gone"
      <4>1. CASE t \in Seed BY <1>L, <2>1, <2>3, <4>1 DEF phase
      <4>2. CASE t \in Requests /\ t \notin Seed
        <5>1. Created(t)
          BY <1>0, <2>3, <4>2 DEF Creating, CreatingOK, Created
        <5>2. t \in Requests /\ t \notin live' \ live
          BY <2>1, <4>2
        <5>3. Created(t)' = Created(t)
          BY <1>0, <5>2, CreatedKept
        <5>4. req'[t].op = "create" /\ req'[t].wrote
          BY <5>1, <5>3 DEF Created
        <5>5. t \in TaskIds /\ t \notin live'
          BY <2>1, <4>2 DEF TaskIds
        <5> QED BY <4>2, <5>4, <5>5 DEF phase
      <4> QED BY <1>L, <2>3, <4>1, <4>2 DEF TaskIds
    <3>3. phase' = [phase EXCEPT ![t] = "gone"]
      BY <1>D, <2>2, <3>2
    <3>4. statusOf' = [statusOf EXCEPT ![t] = "todo"]
      BY <2>1, <2>3, <1>L DEF statusOf
    <3>5. Audit!Vanish(t)
      BY <2>1, <3>1, <3>3, <3>4 DEF Audit!Vanish
    <3> QED BY <1>L, <2>3, <3>5 DEF Audit!AuditNext
  <2>4. CASE t \notin live
    <3>1. live' = live
      BY <2>1, <2>4
    <3>2. phase' = phase
      BY <1>0, <1>D, <3>1, PhaseKept
    <3>3. statusOf' = statusOf
      BY <2>1, <3>1 DEF statusOf
    <3>4. history' = history
      BY <1>0, <2>1, <2>4, NoRowsNoHistory DEF RefIntegrity, TypeOK
    <3> QED BY <3>2, <3>3, <3>4 DEF Audit!auditVars
  <2> QED BY <2>3, <2>4
<1> QED
  BY <1>0, <1>1, <1>2, <1>3, <1>4, StepStatus

LEMMA NextAudits == LifeInv /\ [Next]_vars => [Audit!AuditNext]_(Audit!auditVars)
<1> SUFFICES ASSUME LifeInv, [Next]_vars
             PROVE  [Audit!AuditNext]_(Audit!auditVars)
  OBVIOUS
<1>0. TypeOK /\ Creating
  BY DEF LifeInv, RefInv
<1>1. ASSUME UNCHANGED <<live, task, history>> PROVE UNCHANGED Audit!auditVars
  <2>1. phase' = phase
    <3>1. /\ phase = [t \in TaskIds |-> phase[t]]
          /\ phase' = [t \in TaskIds |-> phase'[t]]
      BY PhaseFunction
    <3> QED BY <1>0, <1>1, <3>1, PhaseKept
  <2>2. statusOf' = statusOf
    BY <1>1 DEF statusOf
  <2> QED BY <1>1, <2>1, <2>2 DEF Audit!auditVars
<1>2. CASE \E r \in Requests : Arrive(r)
  BY <1>0, <1>1, <1>2, ArriveLocals DEF tables
<1>3. CASE \E r \in Requests : Step(r)
  BY <1>3, StepAudits
<1>4. CASE Crash
  BY <1>1, <1>4 DEF Crash, tables
<1>5. CASE UNCHANGED vars
  BY <1>1, <1>5 DEF vars
<1> QED
  BY <1>2, <1>3, <1>4, <1>5 DEF Next, Quiet

\* Every behaviour of the handlers is a behaviour of TaskAudit: a task appears
\* once, moves one logged step at a time, and is gone for good.
THEOREM ServiceImplementsAudit == Spec => ImplementsAudit
<1>1. Init => Audit!AuditInit
  BY InitAudits
<1>2. LifeInv /\ [Next]_vars => [Audit!AuditNext]_(Audit!auditVars)
  BY NextAudits
<1> QED
  BY <1>1, <1>2, LifeInvHolds, PTL DEF Spec, ImplementsAudit, Audit!AuditSpec

----------------------------------------------------------------------------
(* A task's assignee changes as the committing request says. *)

LEMMA StepNames ==
  ASSUME TypeOK, Creating, NEW r \in Requests, Step(r), NEW t \in live,
         task'[t].assignee # task[t].assignee
  PROVE  \/ /\ At(r, "update") /\ req'[r].pc = "refresh"
            /\ req[r].task = t /\ req[r].who = task'[t].assignee
         \/ /\ At(r, "deleteUser") /\ req'[r].pc = "done"
            /\ task'[t].assignee = Null
<1>0. /\ req[r] \in Request /\ t \in TaskIds /\ task[t] \in Row
      /\ [req[r] EXCEPT !.wrote = TRUE] \in Request
  BY DEF TypeOK, Request
<1>C. ASSUME NEW p \in {"refresh", "done"}, Commit(r, p) PROVE req'[r].pc = p
  <2>1. p \in Points \cup Ends
    BY DEF Points, Ends
  <2> QED BY <1>0, <1>C, <2>1, CommitMoves, MovedIsRequest
<1>1. task' # task
  OBVIOUS
<1>2. ~Fail(r) /\ ~UNCHANGED tables
  BY <1>1 DEF Fail, tables
<1>3. CASE InsertTask(r)
  <2>1. r # t
    BY <1>3 DEF InsertTask, Creating, CreatingOK, At, Request
  <2> QED BY <1>2, <1>3, <2>1 DEF InsertTask, TypeOK
<1>4. CASE UpdateTask(r)
  <2>1. /\ At(r, "update") /\ Commit(r, "refresh")
        /\ task' = [task EXCEPT ![req[r].task] = Updated(@, req[r])]
    BY <1>2, <1>4 DEF UpdateTask
  <2>2. req[r].task = t /\ AssigneeChanged(req[r])
    BY <1>0, <2>1 DEF TypeOK, Updated
  <2>3. task'[t].assignee = req[r].who
    BY <1>0, <2>1, <2>2 DEF TypeOK, Updated, Row
  <2> QED BY <1>C, <2>1, <2>2, <2>3
<1>5. CASE UpdateTaskStatus(r)
  <2>1. task' = [task EXCEPT ![req[r].task].status = req[r].status]
    BY <1>2, <1>5 DEF UpdateTaskStatus, tables
  <2> QED BY <1>0, <2>1 DEF TypeOK, Row
<1>6. CASE DeleteUserRow(r)
  <2>1. /\ At(r, "deleteUser") /\ Commit(r, "done")
        /\ task' = [x \in TaskIds |->
                      IF x \in Cleared(req[r]) THEN [task[x] EXCEPT !.assignee = Null]
                      ELSE task[x]]
    BY <1>2, <1>6 DEF DeleteUserRow
  <2>2. task'[t].assignee = Null
    BY <1>0, <2>1 DEF Row
  <2> QED BY <1>C, <2>1, <2>2
<1>7. CASE \/ DeleteTaskRow(r) \/ InsertComment(r) \/ DeleteCommentRow(r)
           \/ InsertMember(r) \/ DeleteMemberRow(r) \/ CreateNotification(r)
  BY <1>1, <1>2, <1>7
  DEF DeleteTaskRow, InsertComment, DeleteCommentRow, InsertMember, DeleteMemberRow,
      CreateNotification
<1> QED
  BY <1>2, <1>3, <1>4, <1>5, <1>6, <1>7, QuietSteps DEF Step

LEMMA NextNames ==
  ASSUME TypeOK, Creating, [Next]_vars, NEW t \in live,
         task'[t].assignee # task[t].assignee
  PROVE  \E r \in Requests :
           \/ /\ At(r, "update") /\ req'[r].pc = "refresh"
              /\ req[r].task = t /\ req[r].who = task'[t].assignee
           \/ /\ At(r, "deleteUser") /\ req'[r].pc = "done"
              /\ task'[t].assignee = Null
<1>1. task' # task
  OBVIOUS
<1>2. \E r \in Requests : Step(r)
  BY <1>1, ArriveLocals DEF Next, Quiet, Crash, vars, tables
<1> QED
  BY <1>2, StepNames

\* An assignee is never cleared or taken back by a PATCH that does not name
\* one (crud/task.py, update_task), however old the row it holds is.
THEOREM AssigneesAreNamed == Spec => AssigneeAsNamed
<1>1. LifeInv /\ [Next]_vars =>
        [\A t \in live : task'[t].assignee # task[t].assignee =>
           \E r \in Requests :
             \/ /\ At(r, "update") /\ req'[r].pc = "refresh"
                /\ req[r].task = t /\ req[r].who = task'[t].assignee
             \/ /\ At(r, "deleteUser") /\ req'[r].pc = "done"
                /\ task'[t].assignee = Null]_vars
  BY NextNames DEF LifeInv, RefInv
<1> QED
  BY <1>1, LifeInvHolds, PTL DEF Spec, AssigneeAsNamed

=============================================================================
