-------------------------- MODULE NotificationProofs --------------------------
(***************************************************************************)
(* Theorems about the notifications and messages of TaskService, for any   *)
(* users, tasks and requests: a message follows its stored notification,   *)
(* and a notification an assignment that was committed.                    *)
(***************************************************************************)
EXTENDS TaskServiceProofs

\* A handler about to send a message has stored its notification; only the
\* deletion of the user it is for removes it.
NoticeStored(r) ==
  At(r, "email") /\ Assigned(req[r]) \in users =>
    \E n \in notes : n.by = r /\ n.user = Assigned(req[r])

NoticeInv ==
  /\ TypeOK
  /\ EmailAfterNotice
  /\ \A r \in Requests : NoticeStored(r)

\* Users are only removed, and a notification stays while its user does.
NoticesStay ==
  /\ users' \subseteq users
  /\ \A n \in notes : n.user \in users' => n \in notes'

LEMMA StepKeepsNotices ==
  ASSUME NEW r \in Requests, Step(r)
  PROVE  NoticesStay
<1>1. CASE UNCHANGED tables
  BY <1>1 DEF tables, NoticesStay
<1>2. CASE DeleteUserRow(r)
  BY <1>1, <1>2 DEF DeleteUserRow, NoticesStay, Fail
<1>3. CASE CreateNotification(r)
  BY <1>1, <1>3 DEF CreateNotification, NoticesStay, Fail
<1>4. CASE InsertTask(r) \/ UpdateTask(r) \/ UpdateTaskStatus(r) \/ DeleteTaskRow(r)
  BY <1>1, <1>4
  DEF InsertTask, UpdateTask, UpdateTaskStatus, DeleteTaskRow, NoticesStay, Fail, tables
<1>5. CASE InsertComment(r) \/ DeleteCommentRow(r) \/ InsertMember(r) \/ DeleteMemberRow(r)
  BY <1>1, <1>5
  DEF InsertComment, DeleteCommentRow, InsertMember, DeleteMemberRow, NoticesStay, Fail
<1> QED
  BY <1>1, <1>2, <1>3, <1>4, <1>5, QuietSteps DEF Step

\* Only SendEmail sends.
LEMMA StepKeepsEmails ==
  ASSUME NEW r \in Requests, Step(r), ~SendEmail(r)
  PROVE  emails' = emails
<1>1. ASSUME Fail(r) PROVE emails' = emails
  BY <1>1 DEF Fail
<1>2. CASE \/ InsertTask(r) \/ UpdateTask(r) \/ UpdateTaskStatus(r)
           \/ FlushTaskChildren(r) \/ DeleteTaskRow(r) \/ Refresh(r)
           \/ Invalidate(r) \/ CreateNotification(r) \/ BroadcastStatus(r)
  BY <1>1, <1>2
  DEF InsertTask, UpdateTask, UpdateTaskStatus, FlushTaskChildren, DeleteTaskRow,
      Refresh, Invalidate, CreateNotification, BroadcastStatus
<1>3. CASE \/ InsertComment(r) \/ UpdateCommentRow(r) \/ DeleteCommentRow(r)
           \/ RefreshComment(r) \/ InsertMember(r) \/ DeleteMemberRow(r)
           \/ FlushUserChildren(r) \/ DeleteUserRow(r)
  BY <1>1, <1>3
  DEF InsertComment, UpdateCommentRow, DeleteCommentRow, RefreshComment, InsertMember,
      DeleteMemberRow, FlushUserChildren, DeleteUserRow
<1> QED
  BY <1>2, <1>3 DEF Step

\* Only CreateNotification leads to the message.
LEMMA EmailFollowsNotice ==
  ASSUME TypeOK, NEW r \in Requests, Step(r), ~CreateNotification(r)
  PROVE  req'[r].pc # "email"
<1> DEFINE Others == NextPoints \ {"email"}
<1>0. /\ Others \subseteq (Points \cup Ends) \ {"email"}
      /\ req \in [Requests -> Request]
  BY DEF NextPoints, Points, Ends, TypeOK
<1>1. ASSUME NEW p \in Others, Goto(r, p) PROVE req'[r].pc # "email"
  BY <1>0, <1>1, GotoMoves, MovedIsRequest
<1>2. ASSUME NEW p \in Others, Commit(r, p) PROVE req'[r].pc # "email"
  <2> DEFINE q == [req[r] EXCEPT !.wrote = TRUE]
  <2>1. q \in Request
    BY <1>0 DEF Request
  <2>2. req'[r] = Moved(q, p)
    BY <1>0, <1>2, CommitMoves
  <2> HIDE DEF q
  <2> QED BY <1>0, <2>1, <2>2, MovedIsRequest
<1>3. /\ "refresh" \in Others /\ "delete" \in Others /\ "invalidate" \in Others
      /\ "refreshComment" \in Others /\ "done" \in Others /\ "failed" \in Others
      /\ AfterInvalidate(req[r]) \in Others
  BY DEF NextPoints, AfterInvalidate
<1> HIDE DEF Others
<1>4. ASSUME Fail(r) PROVE req'[r].pc # "email"
  BY <1>1, <1>3, <1>4 DEF Fail
<1>5. CASE InsertTask(r) \/ UpdateTask(r) \/ UpdateTaskStatus(r)
  BY <1>2, <1>3, <1>4, <1>5 DEF InsertTask, UpdateTask, UpdateTaskStatus
<1>6. CASE FlushTaskChildren(r) \/ DeleteTaskRow(r) \/ Invalidate(r)
           \/ SendEmail(r) \/ BroadcastStatus(r) \/ RefreshComment(r)
  BY <1>1, <1>2, <1>3, <1>4, <1>6
  DEF FlushTaskChildren, DeleteTaskRow, Invalidate, SendEmail, BroadcastStatus,
      RefreshComment
<1>7. CASE InsertComment(r) \/ UpdateCommentRow(r) \/ DeleteCommentRow(r)
           \/ InsertMember(r) \/ DeleteMemberRow(r) \/ DeleteUserRow(r)
  BY <1>2, <1>3, <1>4, <1>7
  DEF InsertComment, UpdateCommentRow, DeleteCommentRow, InsertMember, DeleteMemberRow,
      DeleteUserRow
<1>8. CASE Refresh(r) \/ FlushUserChildren(r)
  <2>1. CASE Fail(r) BY <1>4, <2>1
  <2>2. CASE ~Fail(r)
    <3>1. req'[r].pc \in {"invalidate", "deleteUser"}
      BY <1>0, <1>8, <2>2 DEF Refresh, FlushUserChildren, Request
    <3> QED BY <3>1
  <2> QED BY <2>1, <2>2
<1> QED
  BY <1>5, <1>6, <1>7, <1>8 DEF Step

LEMMA StepNotices ==
  ASSUME NoticeInv, NEW r \in Requests, Step(r)
  PROVE  EmailAfterNotice' /\ \A s \in Requests : NoticeStored(s)'
<1>0. TypeOK /\ NoticesStay /\ req[r] \in Request
  BY StepKeepsNotices DEF NoticeInv, TypeOK
<1>1. ASSUME NEW by, NEW u, u \in users => \E n \in notes : n.by = by /\ n.user = u,
             u \in users'
      PROVE  \E n \in notes' : n.by = by /\ n.user = u
  BY <1>0, <1>1 DEF NoticesStay
<1>2. EmailAfterNotice'
  <2> SUFFICES ASSUME NEW e \in emails', e.user \in users'
               PROVE  \E n \in notes' : n.by = e.by /\ n.user = e.user
    BY DEF EmailAfterNotice
  <2>1. CASE e \in emails
    BY <1>1, <2>1 DEF NoticeInv, EmailAfterNotice
  <2>2. CASE e \notin emails
    <3>1. SendEmail(r)
      BY <2>2, StepKeepsEmails
    <3>2. At(r, "email") /\ e = [by |-> r, user |-> Assigned(req[r])]
      BY <2>2, <3>1 DEF SendEmail, Fail
    <3>3. e.by = r /\ e.user = Assigned(req[r])
      BY <3>2
    <3> QED
      BY <1>1, <3>2, <3>3 DEF NoticeInv, NoticeStored
  <2> QED
    BY <2>1, <2>2
<1>3. ASSUME NEW s \in Requests PROVE NoticeStored(s)'
  <2>1. CASE s # r
    <3>1. req'[s] = req[s]
      BY <1>0, <2>1, StepLocals
    <3>2. Assigned(req[s])' = Assigned(req[s])
      BY <3>1 DEF Assigned
    <3>3. CASE At(s, "email") /\ Assigned(req[s]) \in users'
      <4>1. Assigned(req[s]) \in users => \E n \in notes : n.by = s /\ n.user = Assigned(req[s])
        BY <3>3 DEF NoticeInv, NoticeStored
      <4>2. \E n \in notes' : n.by = s /\ n.user = Assigned(req[s])
        BY <1>1, <3>3, <4>1
      <4> QED BY <3>2, <4>2 DEF NoticeStored
    <3>4. CASE ~(At(s, "email") /\ Assigned(req[s]) \in users')
      BY <3>1, <3>2, <3>4 DEF NoticeStored, At
    <3> QED
      BY <3>3, <3>4
  <2>2. CASE s = r /\ ~CreateNotification(r)
    BY <1>0, <2>2, EmailFollowsNotice DEF NoticeStored, At
  <2>3. CASE s = r /\ CreateNotification(r)
    <3>1. CASE Fail(r)
      <4>1. req'[r].pc = "failed"
        BY <1>0, <3>1, GotoMoves, MovedIsRequest DEF Fail, Ends
      <4> QED BY <2>3, <4>1 DEF NoticeStored, At
    <3>2. CASE ~Fail(r)
      <4>1. notes' = notes \cup {Note(r)} /\ Goto(r, "email")
        BY <2>3, <3>2 DEF CreateNotification
      <4>2. req'[r] = [req[r] EXCEPT !.pc = "email"]
        BY <1>0, <4>1, GotoMoves DEF Moved, Points, Ends
      <4>3. Assigned(req[r])' = Assigned(req[r])
        BY <1>0, <4>2 DEF Assigned, Request
      <4>4. Note(r).by = r /\ Note(r).user = Assigned(req[r])
        BY DEF Note
      <4> QED BY <2>3, <4>1, <4>3, <4>4 DEF NoticeStored
    <3> QED BY <3>1, <3>2
  <2> QED
    BY <2>1, <2>2, <2>3
<1> QED
  BY <1>2, <1>3

\* What does not touch the notifications, the messages or the handlers at
\* "email" keeps the invariant.
LEMMA SameNotices ==
  ASSUME NoticeInv, UNCHANGED <<tables, emails>>,
         \A s \in Requests : req'[s] = req[s] \/ req'[s].pc # "email"
  PROVE  EmailAfterNotice' /\ \A s \in Requests : NoticeStored(s)'
<1>1. users' = users /\ notes' = notes /\ emails' = emails
  BY DEF tables
<1>2. EmailAfterNotice'
  BY <1>1 DEF NoticeInv, EmailAfterNotice
<1>3. ASSUME NEW s \in Requests PROVE NoticeStored(s)'
  <2>1. CASE req'[s].pc # "email"
    BY <2>1 DEF NoticeStored, At
  <2>2. CASE req'[s] = req[s]
    BY <1>1, <2>2 DEF NoticeInv, NoticeStored, At, Assigned
  <2> QED BY <2>1, <2>2
<1> QED
  BY <1>2, <1>3

LEMMA NoticeInvKept == NoticeInv /\ [Next]_vars => NoticeInv'
<1> SUFFICES ASSUME NoticeInv, [Next]_vars PROVE NoticeInv'
  OBVIOUS
<1>0. TypeOK /\ TypeOK'
  BY NextTypes DEF NoticeInv
<1>1. ASSUME NEW r \in Requests, Arrive(r) PROVE NoticeInv'
  <2>1. /\ UNCHANGED <<tables, emails>>
        /\ \A s \in Requests \ {r} : req'[s] = req[s]
    BY <1>0, <1>1, ArriveLocals
  <2>2. req'[r].pc # "email"
    <3>1. PICK op \in OpNames, u \in Users, local \in Request :
            Arrival(op, local) /\ Accept(r, op, u, local)
      BY <1>0, <1>1, ArriveShape
    <3>2. req'[r].pc = local.pc
      BY <1>0, <3>1 DEF Accept, TypeOK, Request
    <3> QED BY <3>1, <3>2 DEF Arrival
  <2> QED BY <1>0, <2>1, <2>2, SameNotices DEF NoticeInv
<1>2. CASE \E r \in Requests : Step(r)
  BY <1>0, <1>2, StepNotices DEF NoticeInv
<1>3. CASE Crash
  <2>1. \A s \in Requests : req'[s] = req[s] \/ req'[s].pc # "email"
    BY <1>0, <1>3, CrashLocals
  <2> QED BY <1>0, <1>3, <2>1, SameNotices DEF Crash, NoticeInv
<1>4. CASE UNCHANGED vars
  BY <1>0, <1>4, SameNotices DEF vars, tables, NoticeInv
<1> QED
  BY <1>1, <1>2, <1>3, <1>4 DEF Next, Quiet

\* A message goes out only after its notification is stored (crud/task.py,
\* _notify_assignee), wherever the process dies and whoever is deleted.
THEOREM NoMessageWithoutNotice == Spec => []EmailAfterNotice
<1>1. Init => NoticeInv
  BY InitTypes DEF Init, NoticeInv, EmailAfterNotice, NoticeStored, At, Idle
<1>2. NoticeInv /\ [Next]_vars => NoticeInv'
  BY NoticeInvKept
<1>3. NoticeInv => EmailAfterNotice
  BY DEF NoticeInv
<1> QED
  BY <1>1, <1>2, <1>3, PTL DEF Spec

----------------------------------------------------------------------------
(* Nobody is notified of an assignment no request made. *)

\* Some request committed the assignment of task t to u.
Given(rs, t, u) == \E r \in Requests : rs[r].task = t /\ AssignedBy(rs[r], u)

\* Who a task is assigned to was either assigned by a request, or was there
\* when every patch of the task loaded its row: only such a patch could take
\* an old assignee for a new one.
OldAssignee(t) ==
  \A r \in Requests :
    req[r].op = "patch" /\ req[r].task = t =>
      req[r].loaded.assignee = task[t].assignee
AssigneeKnown(t) ==
  \/ task[t].assignee = Null
  \/ Given(req, t, task[t].assignee)
  \/ OldAssignee(t)

\* What a handler knows at each point on the way to its notification.
OnTheWay(r) ==
  LET q == req[r] IN
  /\ q.op = "patch" =>
       q.pc \in {"update", "refresh", "invalidate", "notify", "email"} \cup Ends
  /\ q.pc = "insert" => q.task = r
  /\ q.pc = "update" => q.op = "patch"
  /\ q.pc = "invalidate" /\ q.op = "patch" =>
       q.obj.assignee \in {Null, q.loaded.assignee} \/ Given(req, q.task, q.obj.assignee)
  /\ q.pc = "notify" => Given(req, q.task, Assigned(q))

AssignInv ==
  /\ TypeOK
  /\ Creating
  /\ \A t \in live : AssigneeKnown(t)
  /\ \A r \in Requests : OnTheWay(r)
  /\ NotifiedWasAssigned

\* q, later: of a create or a patch the request and its loaded row stay.
StillSays(q, n) ==
  /\ n.op = q.op /\ n.task = q.task /\ n.who = q.who /\ n.loaded = q.loaded
  /\ q.wrote => n.wrote

LEMMA MovedSays ==
  ASSUME NEW q \in Request, q.op \in {"create", "patch"}, NEW p \in Points \cup Ends
  PROVE  StillSays(q, Moved(q, p)) /\ Moved([q EXCEPT !.wrote = TRUE], p).wrote
         /\ StillSays(q, Moved([q EXCEPT !.wrote = TRUE], p))
BY DEF StillSays, Moved, Ended, Request

LEMMA AssignersKept ==
  ASSUME TypeOK, [Next]_vars, NEW s \in Requests,
         req[s].op \in {"create", "patch"}, req[s].pc # "idle"
  PROVE  StillSays(req[s], req'[s])
<1>0. req[s] \in Request /\ req \in [Requests -> Request]
  BY DEF TypeOK
<1>P. NextPoints \subseteq Points \cup Ends /\ "crashed" \in Ends
  BY DEF NextPoints, Points, Ends
<1>1. ASSUME req'[s] = req[s] PROVE StillSays(req[s], req'[s])
  BY <1>1 DEF StillSays
<1>2. ASSUME NEW r \in Requests, Arrive(r) PROVE req'[s] = req[s]
  BY <1>2, ArriveLocals DEF At
<1>3. ASSUME Step(s) PROVE StillSays(req[s], req'[s])
  <2>1. ASSUME NEW p \in NextPoints, Goto(s, p) PROVE StillSays(req[s], req'[s])
    BY <1>0, <1>P, <2>1, GotoMoves, MovedSays
  <2>2. ASSUME NEW p \in NextPoints, Commit(s, p) PROVE StillSays(req[s], req'[s])
    BY <1>0, <1>P, <2>2, CommitMoves, MovedSays
  <2>3. ASSUME NEW row, req' = [req EXCEPT ![s].pc = "invalidate", ![s].obj = row]
        PROVE  StillSays(req[s], req'[s])
    BY <1>0, <2>3 DEF StillSays, Request
  <2>4. ASSUME NEW kids, NEW in, req' = [req EXCEPT ![s].pc = "deleteUser",
                                  ![s].kids = kids, ![s].joined = in]
        PROVE  StillSays(req[s], req'[s])
    BY <1>0, <2>4 DEF StillSays, Request
  <2> QED BY <1>3, <2>1, <2>2, <2>3, <2>4, StepShape
<1>4. ASSUME NEW r \in Requests, Step(r) PROVE StillSays(req[s], req'[s])
  BY <1>1, <1>3, <1>4, StepLocals
<1>5. CASE Crash
  <2>1. req'[s] = req[s] \/ req'[s] = Ended(req[s], "crashed")
    BY <1>5 DEF Crash
  <2>2. Ended(req[s], "crashed") = Moved(req[s], "crashed")
    BY <1>P DEF Moved
  <2> QED BY <1>0, <1>1, <1>P, <2>1, <2>2, MovedSays
<1>6. CASE UNCHANGED vars
  BY <1>1, <1>6 DEF vars
<1> QED
  BY <1>1, <1>2, <1>4, <1>5, <1>6 DEF Next, Quiet

LEMMA GivenKept ==
  ASSUME TypeOK, Creating, \A r \in Requests : OnTheWay(r), [Next]_vars,
         NEW t, NEW u, Given(req, t, u)
  PROVE  Given(req', t, u)
<1>1. PICK r \in Requests : req[r].task = t /\ AssignedBy(req[r], u)
  BY DEF Given
<1>2. req[r].op \in {"create", "patch"} /\ req[r].pc # "idle"
  BY <1>1 DEF AssignedBy, Creating, CreatingOK, OnTheWay, At, Ends
<1>3. StillSays(req[r], req'[r])
  BY <1>2, AssignersKept
<1>4. req'[r].task = t /\ AssignedBy(req'[r], u)
  BY <1>1, <1>3 DEF StillSays, AssignedBy, AssigneeChanged
<1> QED
  BY <1>4 DEF Given

\* A patch arrives with the row it loads, a create with the id it will insert.
LEMMA ArriveTasks ==
  ASSUME TypeOK, NEW r \in Requests, Arrive(r)
  PROVE  /\ req'[r].pc \notin {"idle", "invalidate", "notify"}
         /\ req'[r].pc = "insert" => req'[r].task = r
         /\ req'[r].pc = "update" => req'[r].op = "patch"
         /\ req'[r].op = "patch" =>
             req'[r].pc = "update" /\ req'[r].loaded = task[req'[r].task]
<1>0. Idle \in Request
  BY IdleIsRequest
<1>1. ASSUME NEW op, NEW u, NEW local \in Request, Accept(r, op, u, local)
      PROVE  /\ req'[r].op = op /\ req'[r].pc = local.pc
             /\ req'[r].task = local.task /\ req'[r].loaded = local.loaded
  BY <1>1 DEF Accept, TypeOK, Request
<1>L. /\ \A t \in live : t \in TaskIds /\ task[t] \in Row
      /\ r \in TaskIds
  BY DEF TypeOK, TaskIds
<1>2. CASE CreateTask(r)
  <2>1. PICK u \in Users, a \in OptUser :
          Accept(r, "create", u, [Idle EXCEPT !.pc = "insert", !.task = r, !.who = a])
    BY <1>2 DEF CreateTask
  <2> DEFINE local == [Idle EXCEPT !.pc = "insert", !.task = r, !.who = a]
  <2>2. local \in Request /\ local.pc = "insert" /\ local.task = r
    BY <1>0, <1>L DEF Request, Points
  <2>3. Accept(r, "create", u, local)
    BY <2>1
  <2> HIDE DEF local
  <2> QED BY <1>1, <2>2, <2>3
<1>3. CASE PatchTask(r)
  <2>1. PICK u \in Users, t \in live, a \in OptUser \cup {Unset} :
          Accept(r, "patch", u, [Idle EXCEPT !.pc = "update", !.task = t,
                                             !.who = a, !.loaded = task[t]])
    BY <1>3 DEF PatchTask
  <2> DEFINE local == [Idle EXCEPT !.pc = "update", !.task = t, !.who = a,
                                   !.loaded = task[t]]
  <2>2. /\ local \in Request /\ local.pc = "update" /\ local.task = t
        /\ local.loaded = task[t]
    BY <1>0, <1>L DEF Request, Points
  <2>3. Accept(r, "patch", u, local)
    BY <2>1
  <2> HIDE DEF local
  <2> QED BY <1>1, <2>2, <2>3
<1>4. CASE PatchStatus(r)
  <2>1. PICK u \in Users, t \in live, s \in TaskStatus :
          Accept(r, "status", u, [Idle EXCEPT !.pc = "status", !.task = t,
                                              !.status = s, !.loaded = task[t]])
    BY <1>4 DEF PatchStatus
  <2> DEFINE local == [Idle EXCEPT !.pc = "status", !.task = t, !.status = s,
                                   !.loaded = task[t]]
  <2>2. local \in Request /\ local.pc = "status"
    BY <1>0, <1>L DEF Request, Points
  <2>3. Accept(r, "status", u, local)
    BY <2>1
  <2> HIDE DEF local
  <2> QED BY <1>1, <2>2, <2>3
<1>5. CASE DeleteTask(r) \/ CreateComment(r) \/ PatchComment(r) \/ DeleteComment(r)
             \/ AddMember(r) \/ RemoveMember(r) \/ DeleteUser(r)
  <2>1. \E op \in {"delete", "comment", "editComment", "uncomment", "addMember",
                   "removeMember", "deleteUser"}, u \in Users, local \in Request :
          /\ Accept(r, op, u, local)
          /\ local.pc \in {"children", "comment", "editComment", "uncomment", "addMember",
                           "removeMember", "userChildren"}
    <3>1. /\ members \subseteq Users /\ users \subseteq Users
          /\ \A c \in comments : c.task \in TaskIds /\ c.by \in Requests
      BY DEF TypeOK
    <3>2. CASE DeleteTask(r)
      <4>1. PICK u \in Users, t \in live :
              Accept(r, "delete", u, [Idle EXCEPT !.pc = "children", !.task = t])
        BY <3>2 DEF DeleteTask
      <4>2. [Idle EXCEPT !.pc = "children", !.task = t] \in Request
        BY <1>0, <1>L DEF Request, Points
      <4> QED BY <1>0, <4>1, <4>2 DEF Request
    <3>3. CASE CreateComment(r)
      <4>1. PICK u \in Users, t \in live :
              Accept(r, "comment", u, [Idle EXCEPT !.pc = "comment", !.task = t,
                                                   !.comment = r])
        BY <3>3 DEF CreateComment
      <4>2. [Idle EXCEPT !.pc = "comment", !.task = t, !.comment = r] \in Request
        BY <1>0, <1>L DEF Request, Points
      <4> QED BY <1>0, <4>1, <4>2 DEF Request
    <3>4. CASE PatchComment(r) \/ DeleteComment(r)
      <4>1. PICK op \in {"editComment", "uncomment"}, c \in comments, u \in Users :
              Accept(r, op, u, [Idle EXCEPT !.pc = op, !.task = c.task,
                                            !.comment = c.by])
        BY <3>4 DEF PatchComment, DeleteComment, AuthorOf
      <4>2. op \in Points /\ c.task \in TaskIds /\ c.by \in Requests
        BY <3>1 DEF Points
      <4>3. [Idle EXCEPT !.pc = op, !.task = c.task, !.comment = c.by] \in Request
        BY <1>0, <4>2 DEF Request
      <4>4. [Idle EXCEPT !.pc = op, !.task = c.task, !.comment = c.by].pc = op
        BY <1>0 DEF Request
      <4>5. op \in {"delete", "comment", "editComment", "uncomment", "addMember",
                    "removeMember", "deleteUser"}
        OBVIOUS
      <4>6. op \in {"children", "comment", "editComment", "uncomment", "addMember",
                    "removeMember", "userChildren"}
        OBVIOUS
      <4> QED BY <4>1, <4>3, <4>4, <4>5, <4>6
    <3>5. CASE AddMember(r)
      <4>1. PICK u \in Users, v \in users :
              Accept(r, "addMember", u, [Idle EXCEPT !.pc = "addMember", !.who = v])
        BY <3>5 DEF AddMember
      <4>2. [Idle EXCEPT !.pc = "addMember", !.who = v] \in Request
        BY <1>0, <3>1 DEF Request, Points, OptUser
      <4> QED BY <1>0, <4>1, <4>2 DEF Request
    <3>6. CASE RemoveMember(r)
      <4>1. PICK u \in Users, v \in members :
              Accept(r, "removeMember", u, [Idle EXCEPT !.pc = "removeMember", !.who = v])
        BY <3>6 DEF RemoveMember
      <4>2. [Idle EXCEPT !.pc = "removeMember", !.who = v] \in Request
        BY <1>0, <3>1 DEF Request, Points, OptUser
      <4> QED BY <1>0, <4>1, <4>2 DEF Request
    <3>7. CASE DeleteUser(r)
      <4>1. PICK u \in Users, v \in users :
              Accept(r, "deleteUser", u, [Idle EXCEPT !.pc = "userChildren", !.who = v])
        BY <3>7 DEF DeleteUser
      <4>2. [Idle EXCEPT !.pc = "userChildren", !.who = v] \in Request
        BY <1>0, <3>1 DEF Request, Points, OptUser
      <4> QED BY <1>0, <4>1, <4>2 DEF Request
    <3> QED BY <1>5, <3>2, <3>3, <3>4, <3>5, <3>6, <3>7
  <2> QED BY <1>1, <2>1
<1> QED
  BY <1>2, <1>3, <1>4, <1>5 DEF Arrive

\* Where the step of a handler leads, on the way to a notification.
LEMMA StepLeads ==
  ASSUME TypeOK, NEW r \in Requests, Step(r)
  PROVE  \/ req[r].pc \in {"insert", "update"} /\ req'[r].pc \in {"refresh", "failed"}
         \/ Refresh(r) /\ req[r].pc = "refresh" /\ req'[r].pc \in {"invalidate", "failed"}
         \/ Invalidate(r) /\ req[r].pc = "invalidate" /\ req'[r].pc = AfterInvalidate(req[r])
         \/ req[r].pc = "notify" /\ req'[r].pc \in {"email", "failed"}
         \/ req[r].pc = "email" /\ req'[r].pc \in {"done", "failed"}
         \/ req[r].pc = "delete" /\ req'[r].pc = "invalidate"
         \/ /\ req[r].pc \notin {"insert", "update", "refresh", "invalidate", "notify",
                                 "email", "delete"} \cup Ends
            /\ req'[r].pc \in {"refresh", "delete", "refreshComment", "deleteUser",
                               "done", "failed"}
<1> DEFINE Others == NextPoints \cup {"deleteUser"}
<1>0. /\ Others \subseteq Points \cup Ends
      /\ req \in [Requests -> Request]
  BY DEF NextPoints, Points, Ends, TypeOK
<1>1. ASSUME NEW p \in Others, Goto(r, p) PROVE req'[r].pc = p
  BY <1>0, <1>1, GotoMoves, MovedIsRequest
<1>2. ASSUME NEW p \in Others, Commit(r, p) PROVE req'[r].pc = p
  <2> DEFINE q == [req[r] EXCEPT !.wrote = TRUE]
  <2>1. q \in Request
    BY <1>0 DEF Request
  <2>2. req'[r] = Moved(q, p)
    BY <1>0, <1>2, CommitMoves
  <2> HIDE DEF q
  <2> QED BY <1>0, <2>1, <2>2, MovedIsRequest
<1>3. /\ "refresh" \in Others /\ "delete" \in Others /\ "invalidate" \in Others
      /\ "refreshComment" \in Others /\ "done" \in Others /\ "failed" \in Others
      /\ "email" \in Others /\ AfterInvalidate(req[r]) \in Others
  BY DEF NextPoints, AfterInvalidate
<1> HIDE DEF Others
<1>4. ASSUME Fail(r) PROVE req'[r].pc = "failed"
  BY <1>1, <1>3, <1>4 DEF Fail
<1>5. CASE InsertTask(r) \/ UpdateTask(r)
  BY <1>2, <1>3, <1>4, <1>5 DEF InsertTask, UpdateTask, At
<1>6. CASE Refresh(r)
  <2>1. CASE Fail(r) BY <1>4, <1>6, <2>1 DEF Refresh, At
  <2>2. CASE ~Fail(r)
    <3>1. req'[r].pc = "invalidate"
      BY <1>0, <1>6, <2>2 DEF Refresh, Request
    <3> QED BY <1>6, <3>1 DEF Refresh, At
  <2> QED BY <2>1, <2>2
<1>7. CASE Invalidate(r)
  BY <1>1, <1>3, <1>7 DEF Invalidate, At
<1>8. CASE CreateNotification(r) \/ SendEmail(r)
  BY <1>1, <1>3, <1>4, <1>8 DEF CreateNotification, SendEmail, At
<1>9. CASE DeleteTaskRow(r)
  BY <1>2, <1>3, <1>9 DEF DeleteTaskRow, At
<1>10. CASE UpdateTaskStatus(r) \/ FlushTaskChildren(r) \/ InsertComment(r)
             \/ UpdateCommentRow(r) \/ DeleteCommentRow(r) \/ RefreshComment(r)
  BY <1>1, <1>2, <1>3, <1>4, <1>10
  DEF UpdateTaskStatus, FlushTaskChildren, InsertComment, UpdateCommentRow,
      DeleteCommentRow, RefreshComment, At, Ends
<1>11. CASE InsertMember(r) \/ DeleteMemberRow(r) \/ DeleteUserRow(r) \/ BroadcastStatus(r)
  BY <1>1, <1>2, <1>3, <1>4, <1>11
  DEF InsertMember, DeleteMemberRow, DeleteUserRow, BroadcastStatus, At, Ends
<1>12. CASE FlushUserChildren(r)
  <2>1. CASE Fail(r) BY <1>4, <1>12, <2>1 DEF FlushUserChildren, At, Ends
  <2>2. CASE ~Fail(r)
    <3>1. req'[r].pc = "deleteUser"
      BY <1>0, <1>12, <2>2 DEF FlushUserChildren, Request
    <3> QED BY <1>12, <3>1 DEF FlushUserChildren, At, Ends
  <2> QED BY <2>1, <2>2
<1> QED
  BY <1>5, <1>6, <1>7, <1>8, <1>9, <1>10, <1>11, <1>12 DEF Step

\* What a handler knows on its way stays true as it goes on.
LEMMA StepOnTheWay ==
  ASSUME AssignInv, NEW r \in Requests, Step(r), [Next]_vars
  PROVE  OnTheWay(r)'
<1> DEFINE q == req[r]
           n == req'[r]
<1>0. /\ TypeOK /\ Creating /\ OnTheWay(r) /\ q \in Request
      /\ CreatingOK(r) /\ req \in [Requests -> Request]
  BY DEF AssignInv, TypeOK, Creating
<1>L. n.op = q.op /\ q.pc \notin Ends \cup {"idle"}
  BY <1>0, StepLocals DEF InFlight
<1>K. q.op \in {"create", "patch"} => StillSays(q, n)
  BY <1>0, <1>L, AssignersKept
<1>G. \A t, u : Given(req, t, u) => Given(req', t, u)
  BY <1>0, GivenKept DEF AssignInv
<1>S. n.pc \notin {"idle", "insert", "update"}
  BY <1>0, StepLeads DEF AfterInvalidate
<1>1. n.op = "patch" =>
        n.pc \in {"update", "refresh", "invalidate", "notify", "email"} \cup Ends
  <2> HAVE n.op = "patch"
  <2>1. q.pc \in {"update", "refresh", "invalidate", "notify", "email"}
    BY <1>0, <1>L DEF OnTheWay
  <2> QED BY <1>0, <1>L, <2>1, StepLeads DEF AfterInvalidate, Ends
<1>2. n.pc = "invalidate" /\ n.op = "patch" =>
        n.obj.assignee \in {Null, n.loaded.assignee} \/ Given(req', n.task, n.obj.assignee)
  <2> HAVE n.pc = "invalidate" /\ n.op = "patch"
  <2>1. Refresh(r)
    <3>1. q.pc # "delete"
      BY <1>0, <1>L DEF OnTheWay, Ends
    <3> QED BY <1>0, <3>1, StepLeads DEF AfterInvalidate
  <2>2. q.task \in live /\ n.obj = task[q.task]
    <3>1. ~Fail(r)
      BY <1>0, GotoMoves, MovedIsRequest DEF Fail, Ends
    <3> QED BY <1>0, <2>1, <3>1 DEF Refresh, Request
  <2>3. AssigneeKnown(q.task) /\ n.task = q.task /\ n.loaded = q.loaded
    BY <1>K, <1>L, <2>2 DEF AssignInv, StillSays
  <2> QED BY <1>G, <1>L, <2>2, <2>3 DEF AssigneeKnown, OldAssignee
<1>3. n.pc = "notify" => Given(req', n.task, Assigned(n))
  <2> HAVE n.pc = "notify"
  <2>1. Invalidate(r) /\ q.pc = "invalidate" /\ n.pc = AfterInvalidate(q)
    BY <1>0, StepLeads
  <2>2. ToNotify(q)
    BY <2>1 DEF AfterInvalidate
  <2>3. n = [q EXCEPT !.pc = "notify"]
    <3>1. Goto(r, "notify") /\ "notify" \in Points /\ "notify" \notin Ends
      BY <2>1 DEF Invalidate, Points, Ends
    <3> QED BY <1>0, <3>1, GotoMoves DEF Moved
  <2>4. n.task = q.task /\ Assigned(n) = Assigned(q)
    BY <1>0, <2>3 DEF Assigned, Request
  <2>5. Given(req, q.task, Assigned(q))
    <3>1. CASE q.op = "create"
      <4>1. q.wrote
        BY <1>0, <2>1, <3>1 DEF CreatingOK, Ends
      <4> QED BY <3>1, <4>1 DEF Given, AssignedBy, Assigned
    <3>2. CASE q.op = "patch"
      BY <1>0, <2>1, <2>2, <3>2 DEF ToNotify, Assigned, OnTheWay
    <3> QED BY <2>2, <3>1, <3>2 DEF ToNotify
  <2> QED BY <1>G, <2>4, <2>5
<1> QED
  BY <1>1, <1>2, <1>3, <1>S DEF OnTheWay, Given

\* Another's step, or a crash, takes nothing a handler knows.
LEMMA OnTheWaySame ==
  ASSUME AssignInv, [Next]_vars, NEW s \in Requests, req'[s] = req[s]
  PROVE  OnTheWay(s)'
<1>1. OnTheWay(s)
  BY DEF AssignInv
<1>2. \A t, u : Given(req, t, u) => Given(req', t, u)
  BY GivenKept DEF AssignInv
<1>3. Assigned(req'[s]) = Assigned(req[s])
  BY DEF Assigned
<1>4. req'[s].pc = "notify" => Given(req', req'[s].task, Assigned(req'[s]))
  BY <1>1, <1>2, <1>3 DEF OnTheWay
<1>5. req'[s].pc = "invalidate" /\ req'[s].op = "patch" =>
        \/ req'[s].obj.assignee \in {Null, req'[s].loaded.assignee}
        \/ Given(req', req'[s].task, req'[s].obj.assignee)
  BY <1>1, <1>2 DEF OnTheWay
<1> QED
  BY <1>1, <1>4, <1>5 DEF OnTheWay, Given

\* A step that leaves the tasks' assignees, or clears them, keeps what is
\* known of them, if every patch there is from now was there before or loads
\* the row now.
LEMMA KnownKept ==
  ASSUME AssignInv, [Next]_vars, NEW t \in TaskIds, t \in live,
         task'[t].assignee \in {Null, task[t].assignee},
         \A s \in Requests : req'[s].op = "patch" /\ req'[s].task = t =>
           \/ req[s].op = "patch" /\ req[s].pc # "idle"
           \/ req'[s].loaded.assignee = task'[t].assignee
  PROVE  AssigneeKnown(t)'
<1>1. AssigneeKnown(t)
  BY DEF AssignInv
<1>2. CASE task[t].assignee = Null
  BY <1>2 DEF AssigneeKnown
<1>3. CASE Given(req, t, task[t].assignee)
  <2>1. Given(req', t, task[t].assignee)
    BY <1>3, GivenKept DEF AssignInv
  <2> QED BY <2>1 DEF AssigneeKnown, Given
<1>4. CASE OldAssignee(t)
  <2>1. CASE task'[t].assignee = Null
    BY <2>1 DEF AssigneeKnown
  <2>2. CASE task'[t].assignee = task[t].assignee
    <3>1. ASSUME NEW s \in Requests, req'[s].op = "patch", req'[s].task = t
          PROVE  req'[s].loaded.assignee = task'[t].assignee
      <4>1. CASE req[s].op = "patch" /\ req[s].pc # "idle"
        <5>1. StillSays(req[s], req'[s])
          BY <4>1, AssignersKept DEF AssignInv
        <5> QED BY <1>4, <2>2, <3>1, <4>1, <5>1 DEF OldAssignee, StillSays
      <4> QED BY <3>1, <4>1
    <3> QED BY <3>1 DEF AssigneeKnown, OldAssignee
  <2> QED BY <2>1, <2>2
<1> QED
  BY <1>1, <1>2, <1>3, <1>4 DEF AssigneeKnown

\* What a step does to the assignees: a create and a patch assign, deleting
\* a user clears.
LEMMA StepAssigns ==
  ASSUME AssignInv, [Next]_vars, NEW r \in Requests, Step(r), NEW t \in live'
  PROVE  \/ t \in live /\ task'[t].assignee \in {Null, task[t].assignee}
         \/ task'[t].assignee = Null
         \/ Given(req', t, task'[t].assignee)
<1>0. TypeOK /\ req[r] \in Request /\ req \in [Requests -> Request]
  BY DEF AssignInv, TypeOK
<1>P. "refresh" \in Points /\ "refresh" \notin Ends
  BY DEF Points, Ends
<1>M. [req[r] EXCEPT !.wrote = TRUE] \in Request
  BY <1>0 DEF Request
<1>C. ASSUME Commit(r, "refresh")
      PROVE  /\ req'[r].op = req[r].op /\ req'[r].task = req[r].task
             /\ req'[r].who = req[r].who /\ req'[r].loaded = req[r].loaded
             /\ req'[r].wrote
  <2>1. req'[r] = Moved([req[r] EXCEPT !.wrote = TRUE], "refresh")
    BY <1>0, <1>P, <1>C, CommitMoves
  <2>2. req'[r] = [[req[r] EXCEPT !.wrote = TRUE] EXCEPT !.pc = "refresh"]
    BY <1>P, <2>1 DEF Moved
  <2> QED BY <1>0, <2>2 DEF Request
<1>1. CASE UNCHANGED <<live, task>>
  BY <1>1
<1>2. CASE InsertTask(r) /\ ~Fail(r)
  <2>1. /\ live' = live \cup {r} /\ Commit(r, "refresh") /\ req[r].pc = "insert"
        /\ task' = [task EXCEPT ![r] = NewTask(req[r].by, req[r].who)]
    BY <1>2 DEF InsertTask, At
  <2>2. req[r].op = "create" /\ req[r].task = r
    BY <2>1 DEF AssignInv, Creating, CreatingOK, At, OnTheWay
  <2>3. CASE t # r
    BY <1>0, <2>1, <2>3 DEF TypeOK
  <2>4. CASE t = r
    <3>1. task'[t].assignee = req[r].who
      BY <1>0, <2>1, <2>4 DEF TypeOK, TaskIds, NewTask
    <3> QED BY <1>C, <2>1, <2>2, <2>4, <3>1 DEF Given, AssignedBy
  <2> QED BY <2>3, <2>4
<1>3. CASE UpdateTask(r) /\ ~Fail(r)
  <2>1. /\ live' = live /\ Commit(r, "refresh") /\ req[r].pc = "update"
        /\ task' = [task EXCEPT ![req[r].task] = Updated(@, req[r])]
    BY <1>3 DEF UpdateTask, At
  <2>2. req[r].op = "patch"
    BY <2>1 DEF AssignInv, OnTheWay
  <2>3. CASE t # req[r].task \/ ~AssigneeChanged(req[r])
    BY <1>0, <2>1, <2>3 DEF TypeOK, Updated
  <2>4. CASE t = req[r].task /\ AssigneeChanged(req[r])
    <3>1. t \in TaskIds /\ task[t] \in Row
      BY <1>0, <2>1 DEF TypeOK
    <3>2. task'[t].assignee = req[r].who
      BY <1>0, <2>1, <2>4, <3>1 DEF TypeOK, Updated, Row
    <3>3. AssignedBy(req'[r], req[r].who) /\ req'[r].task = t
      BY <1>C, <2>1, <2>2, <2>4 DEF AssignedBy, AssigneeChanged
    <3> QED BY <3>2, <3>3 DEF Given
  <2> QED BY <2>3, <2>4
<1>4. CASE UpdateTaskStatus(r) /\ ~UNCHANGED <<live, task>>
  <2>1. /\ live' = live
        /\ task' = [task EXCEPT ![req[r].task].status = req[r].status]
    BY <1>4 DEF UpdateTaskStatus, Fail, tables
  <2> QED BY <1>0, <2>1 DEF TypeOK, Row
<1>5. CASE DeleteTaskRow(r)
  BY <1>5 DEF DeleteTaskRow
<1>6. CASE DeleteUserRow(r) /\ ~Fail(r)
  <2>1. /\ live' = live
        /\ task' = [x \in TaskIds |->
                      IF x \in Cleared(req[r]) THEN [task[x] EXCEPT !.assignee = Null]
                      ELSE task[x]]
    BY <1>6 DEF DeleteUserRow
  <2> QED BY <1>0, <2>1 DEF TypeOK, Row
<1>7. CASE \/ InsertTask(r) /\ Fail(r)
           \/ UpdateTask(r) /\ Fail(r)
           \/ DeleteUserRow(r) /\ Fail(r)
  BY <1>1, <1>7 DEF Fail, tables
<1>8. CASE \/ InsertComment(r) \/ DeleteCommentRow(r) \/ InsertMember(r)
           \/ DeleteMemberRow(r) \/ CreateNotification(r)
  BY <1>1, <1>8 DEF InsertComment, DeleteCommentRow, InsertMember, DeleteMemberRow,
                    CreateNotification, Fail, tables
<1>9. ASSUME UNCHANGED tables PROVE UNCHANGED <<live, task>>
  BY <1>9 DEF tables
<1> QED
  BY <1>1, <1>2, <1>3, <1>4, <1>5, <1>6, <1>7, <1>8, <1>9, QuietSteps DEF Step

\* Notes are stored at "notify" only, where the assignment is known.
LEMMA StepNotifies ==
  ASSUME AssignInv, [Next]_vars, NEW r \in Requests, Step(r)
  PROVE  NotifiedWasAssigned'
<1>0. TypeOK /\ OnTheWay(r)
  BY DEF AssignInv
<1>1. \A n \in notes : Given(req, n.task, n.user)
  BY DEF AssignInv, NotifiedWasAssigned, Given
<1>2. \A n \in notes' : n \in notes \/ Given(req, n.task, n.user)
  <2>1. CASE notes' \subseteq notes
    BY <2>1
  <2>2. CASE CreateNotification(r) /\ ~Fail(r)
    <3>1. notes' = notes \cup {Note(r)} /\ req[r].pc = "notify"
      BY <2>2 DEF CreateNotification, At
    <3>2. Given(req, Note(r).task, Note(r).user)
      BY <1>0, <3>1 DEF OnTheWay, Note
    <3> QED BY <3>1, <3>2
  <2>3. CASE \/ InsertTask(r) \/ UpdateTask(r) \/ UpdateTaskStatus(r) \/ DeleteTaskRow(r)
             \/ InsertComment(r) \/ DeleteCommentRow(r) \/ InsertMember(r)
             \/ DeleteMemberRow(r) \/ DeleteUserRow(r)
    BY <2>1, <2>3
    DEF InsertTask, UpdateTask, UpdateTaskStatus, DeleteTaskRow, InsertComment,
        DeleteCommentRow, InsertMember, DeleteMemberRow, DeleteUserRow, Fail, tables
  <2>4. ASSUME UNCHANGED tables \/ Fail(r) PROVE notes' \subseteq notes
    BY <2>4 DEF tables, Fail
  <2> QED BY <2>1, <2>2, <2>3, <2>4, QuietSteps DEF Step
<1>3. ASSUME NEW n \in notes'
      PROVE  \E s \in Requests : req'[s].task = n.task /\ AssignedBy(req'[s], n.user)
  <2>1. Given(req, n.task, n.user)
    BY <1>1, <1>2
  <2>2. Given(req', n.task, n.user)
    BY <2>1, GivenKept DEF AssignInv
  <2> QED BY <2>2 DEF Given
<1> QED
  BY <1>3 DEF NotifiedWasAssigned, AssignedBy, AssigneeChanged

LEMMA AssignInvKept == AssignInv /\ [Next]_vars => AssignInv'
<1> SUFFICES ASSUME AssignInv, [Next]_vars PROVE AssignInv'
  OBVIOUS
<1>0. TypeOK /\ Creating /\ TypeOK' /\ Creating' /\ live \subseteq TaskIds /\ live' \subseteq TaskIds
  BY NextTypes, CreatingKept DEF AssignInv, TypeOK
<1>N. ASSUME UNCHANGED tables PROVE NotifiedWasAssigned'
  <2>1. ASSUME NEW n \in notes
        PROVE  \E s \in Requests : req'[s].task = n.task /\ AssignedBy(req'[s], n.user)
    <3>1. Given(req, n.task, n.user)
      BY DEF AssignInv, NotifiedWasAssigned, Given
    <3>2. Given(req', n.task, n.user)
      BY <3>1, GivenKept DEF AssignInv
    <3> QED BY <3>2 DEF Given
  <2>2. notes' = notes
    BY <1>N DEF tables
  <2> QED BY <2>1, <2>2 DEF NotifiedWasAssigned, AssignedBy, AssigneeChanged
<1>1. ASSUME UNCHANGED tables,
             \A s \in Requests : \/ req'[s] = req[s]
                                 \/ req[s].pc # "idle" /\ req'[s].op = req[s].op
      PROVE  (\A t \in live : AssigneeKnown(t))' /\ NotifiedWasAssigned'
  <2>1. ASSUME NEW t \in live PROVE AssigneeKnown(t)'
    <3>1. task'[t] = task[t] /\ t \in TaskIds
      BY <1>0, <1>1 DEF tables
    <3>2. ASSUME NEW s \in Requests, req'[s].op = "patch"
          PROVE  req[s].op = "patch" /\ req[s].pc # "idle"
      BY <1>1, <3>2 DEF AssignInv, OnTheWay, Ends
    <3> QED BY <3>1, <3>2, KnownKept
  <2>2. live' = live
    BY <1>1 DEF tables
  <2> QED BY <1>N, <1>1, <2>1, <2>2
<1>2. ASSUME NEW r \in Requests, Arrive(r) PROVE AssignInv'
  <2>1. /\ UNCHANGED tables
        /\ \A s \in Requests \ {r} : req'[s] = req[s]
    BY <1>0, <1>2, ArriveLocals
  <2>2. /\ req'[r].pc \notin {"idle", "invalidate", "notify"}
        /\ req'[r].pc = "insert" => req'[r].task = r
        /\ req'[r].pc = "update" => req'[r].op = "patch"
        /\ req'[r].op = "patch" =>
             req'[r].pc = "update" /\ req'[r].loaded = task[req'[r].task]
    BY <1>0, <1>2, ArriveTasks
  <2>3. OnTheWay(r)'
    BY <2>2 DEF OnTheWay
  <2>4. \A s \in Requests : OnTheWay(s)'
    BY <2>1, <2>3, OnTheWaySame
  <2>5. ASSUME NEW t \in live PROVE AssigneeKnown(t)'
    <3>1. task'[t] = task[t] /\ t \in TaskIds
      BY <1>0, <2>1 DEF tables
    <3>2. ASSUME NEW s \in Requests, req'[s].op = "patch", req'[s].task = t
          PROVE  \/ req[s].op = "patch" /\ req[s].pc # "idle"
                 \/ req'[s].loaded.assignee = task'[t].assignee
      <4>1. CASE s = r
        BY <2>2, <3>1, <3>2, <4>1
      <4>2. CASE s # r
        BY <2>1, <3>2, <4>2 DEF AssignInv, OnTheWay, Ends
      <4> QED BY <4>1, <4>2
    <3> QED BY <3>1, <3>2, KnownKept
  <2>6. live' = live /\ NotifiedWasAssigned'
    BY <1>N, <2>1 DEF tables
  <2> QED BY <1>0, <2>4, <2>5, <2>6 DEF AssignInv
<1>3. ASSUME NEW r \in Requests, Step(r) PROVE AssignInv'
  <2>1. /\ \A s \in Requests \ {r} : req'[s] = req[s]
        /\ req'[r].op = req[r].op /\ req[r].pc # "idle"
    BY <1>0, <1>3, StepLocals DEF InFlight
  <2>2. \A s \in Requests : OnTheWay(s)'
    BY <1>3, <2>1, OnTheWaySame, StepOnTheWay
  <2>3. ASSUME NEW t \in live' PROVE AssigneeKnown(t)'
    <3>1. CASE t \in live /\ task'[t].assignee \in {Null, task[t].assignee}
      <4>1. ASSUME NEW s \in Requests, req'[s].op = "patch"
            PROVE  req[s].op = "patch" /\ req[s].pc # "idle"
        BY <2>1, <4>1 DEF AssignInv, OnTheWay, Ends
      <4> QED BY <1>0, <3>1, <4>1, KnownKept
    <3>2. CASE task'[t].assignee = Null \/ Given(req', t, task'[t].assignee)
      BY <3>2 DEF AssigneeKnown, Given
    <3> QED BY <1>3, <3>1, <3>2, StepAssigns
  <2>4. NotifiedWasAssigned'
    BY <1>3, StepNotifies
  <2> QED BY <1>0, <2>2, <2>3, <2>4 DEF AssignInv
<1>4. CASE Crash
  <2>1. ASSUME NEW s \in Requests
        PROVE  /\ req'[s] = req[s] \/ (req[s].pc # "idle" /\ req'[s].op = req[s].op)
               /\ req'[s] = req[s] \/ req'[s].pc = "crashed"
    BY <1>0, <1>4, CrashLocals DEF Crash, InFlight
  <2>2. ASSUME NEW s \in Requests PROVE OnTheWay(s)'
    <3>1. CASE req'[s] = req[s] BY <3>1, OnTheWaySame
    <3>2. CASE req'[s].pc = "crashed" BY <3>2 DEF OnTheWay, Ends
    <3> QED BY <2>1, <3>1, <3>2
  <2>3. UNCHANGED tables
    BY <1>4 DEF Crash
  <2>4. live' = live
    BY <2>3 DEF tables
  <2> QED BY <1>0, <1>1, <2>1, <2>2, <2>3, <2>4 DEF AssignInv
<1>5. CASE UNCHANGED vars
  <2>1. UNCHANGED tables /\ req' = req /\ live' = live
    BY <1>5 DEF vars, tables
  <2>2. \A s \in Requests : OnTheWay(s)'
    BY <2>1, OnTheWaySame
  <2> QED BY <1>0, <1>1, <2>1, <2>2 DEF AssignInv
<1> QED
  BY <1>2, <1>3, <1>4, <1>5 DEF Next, Quiet

\* Nobody is told of an assignment no request made (crud/task.py, update_task):
\* the assignee of the refreshed row may be another request's, and differs
\* from the loaded one only when some request assigned it.
THEOREM NoticesAreOfAssignments == Spec => []NotifiedWasAssigned
<1>1. Init => AssignInv
  <2> SUFFICES ASSUME Init PROVE AssignInv
    OBVIOUS
  <2>1. TypeOK /\ Creating
    BY InitTypes, InitLife DEF LifeInv
  <2>2. \A r \in Requests : req[r].pc = "idle" /\ req[r].op = "none"
    BY DEF Init, Idle
  <2>3. \A t : OldAssignee(t)
    BY <2>2 DEF OldAssignee
  <2>4. notes = {}
    BY DEF Init
  <2> QED BY <2>1, <2>2, <2>3, <2>4
          DEF AssignInv, AssigneeKnown, OnTheWay, NotifiedWasAssigned
<1>2. AssignInv /\ [Next]_vars => AssignInv'
  BY AssignInvKept
<1>3. AssignInv => NotifiedWasAssigned
  BY DEF AssignInv
<1> QED
  BY <1>1, <1>2, <1>3, PTL DEF Spec
===============================================================================
