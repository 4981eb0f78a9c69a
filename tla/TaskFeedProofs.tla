--------------------------- MODULE TaskFeedProofs ---------------------------
(***************************************************************************)
(* Theorems about TaskFeed, for any projects, tasks, connections and       *)
(* status changes: types, and the rooms of ConnectionManager.              *)
(***************************************************************************)
EXTENDS TaskFeed, TLAPS

\* A socket that a broadcast works on has been in its room; one that failed is
\* no longer open.  (Neither comes back: a new connection is another socket.)
Worked(r) ==
  /\ \A s \in req[r].sockets : sock[s].pc \notin {"new", "accepting"}
  /\ \A s \in req[r].dead : sock[s].pc # "open"

IInv ==
  /\ TypeOK
  /\ RoomsMatchSockets
  /\ NoEmptyRooms
  /\ \A r \in Requests : Worked(r)

\* What is left of a room is a part of it, and has lost nobody else.
LEMMA WithoutKeepsOthers ==
  ASSUME NEW S, NEW gone
  PROVE  Without(S, gone) = S \ gone
BY DEF Without

LEMMA IdleIsRequest ==
  ASSUME NEW t \in Tasks
  PROVE  Idle(t) \in Request /\ Idle(t).sockets = {} /\ Idle(t).dead = {} /\ Idle(t).todo = {}
BY DEF Idle, Request, Points, Status

LEMMA EndedIsRequest ==
  ASSUME NEW q \in Request, NEW end \in Ends
  PROVE  /\ Ended(q, end) \in Request
         /\ Ended(q, end).sockets = q.sockets
         /\ Ended(q, end).dead = {} /\ Ended(q, end).todo = {}
<1>1. q.task \in Tasks /\ q.mark \in Nat /\ q.sockets \in SUBSET Sockets
  BY DEF Request
<1>2. Idle(q.task) \in Request /\ Idle(q.task).dead = {} /\ Idle(q.task).todo = {}
  BY <1>1, IdleIsRequest
<1> QED
  BY <1>1, <1>2 DEF Ended, Request

LEMMA GoneIsSocket ==
  ASSUME NEW s \in Sockets, sock[s] \in Socket, NEW point \in SocketPoints
  PROVE  /\ Gone(s, point) \in Socket /\ Gone(s, point).pc = point
         /\ Gone(s, point).project = sock[s].project
<1>1. <<>> \in Seq(Message)
  OBVIOUS
<1>2. PICK q \in Socket : q = sock[s]
  OBVIOUS
<1>3. [q EXCEPT !.pc = point, !.inbox = <<>>] \in Socket
  BY <1>1, <1>2 DEF Socket
<1> QED
  BY <1>2, <1>3 DEF Gone, Socket

LEMMA InitIInv == Init => IInv
<1> SUFFICES ASSUME Init PROVE IInv
  OBVIOUS
<1>1. PICK p \in [Sockets -> Projects] :
        sock = [s \in Sockets |-> [pc |-> "new", project |-> p[s], inbox |-> <<>>]]
  BY DEF Init
<1>2. PICK t \in Tasks : req = [r \in Requests |-> Idle(t)]
  BY DEF Init
<1>3. sock \in [Sockets -> Socket] /\ \A s \in Sockets : sock[s].pc = "new"
  BY <1>1 DEF Socket, SocketPoints
<1>4. /\ req \in [Requests -> Request]
      /\ \A r \in Requests : req[r].sockets = {} /\ req[r].dead = {} /\ req[r].todo = {}
  BY <1>2, IdleIsRequest
<1>5. log \in [Tasks -> Seq(Status)] /\ status \in [Tasks -> Status]
  BY DEF Init, Status
<1>6. TypeOK
  BY <1>3, <1>4, <1>5 DEF Init, TypeOK
<1>7. RoomsMatchSockets /\ NoEmptyRooms
  BY <1>3 DEF Init, RoomsMatchSockets, NoEmptyRooms, SocketAt
<1> QED
  BY <1>4, <1>6, <1>7 DEF IInv, Worked

\* Nobody joins a broadcast under way, and nobody who left is open again.
SocketsGoOn ==
  \A s \in Sockets :
    /\ sock[s].pc \notin {"new", "accepting"} => sock'[s].pc \notin {"new", "accepting"}
    /\ sock[s].pc \notin {"new", "accepting", "open"} => sock'[s].pc # "open"

LEMMA WorkedKept ==
  ASSUME TypeOK, NEW r \in Requests, Worked(r), SocketsGoOn,
         req'[r].sockets = req[r].sockets, req'[r].dead \subseteq req[r].dead
  PROVE  Worked(r)'
<1>1. req[r].dead \subseteq req[r].sockets /\ req[r].sockets \subseteq Sockets
  BY DEF TypeOK, Request
<1> QED
  BY <1>1 DEF Worked, SocketsGoOn

----------------------------------------------------------------------------
(* Sockets. *)

\* A socket that leaves takes itself out of its room, or stays in it for a
\* broadcast to find.
LEMMA SocketStepKeeps ==
  ASSUME IInv, NEW s \in Sockets, SocketStep(s)
  PROVE  IInv'
<1>0. /\ TypeOK /\ sock \in [Sockets -> Socket] /\ sock[s] \in Socket
      /\ room \in [Projects -> SUBSET Sockets] /\ sock[s].project \in Projects
  BY DEF IInv, TypeOK, Socket
<1>1. /\ sock'[s].project = sock[s].project
      /\ sock'[s] \in Socket /\ \A x \in Sockets \ {s} : sock'[x] = sock[x]
      /\ sock' \in [Sockets -> Socket] /\ UNCHANGED <<table, req>>
  <2>1. CASE Connect(s) \/ Accepted(s)
    <3>1. PICK p \in {"accepting", "open"} :
            sock' = [sock EXCEPT ![s].pc = p] /\ UNCHANGED <<table, req>>
      BY <2>1 DEF Connect, Accepted
    <3>2. p \in SocketPoints
      BY DEF SocketPoints
    <3> QED BY <1>0, <3>1, <3>2 DEF Socket
  <2>2. CASE NotAccepted(s) \/ Lose(s) \/ Notice(s) \/ Break(s)
    <3>1. PICK p \in {"left", "lost", "broken"} :
            sock' = [sock EXCEPT ![s] = Gone(s, p)] /\ UNCHANGED <<table, req>>
      BY <2>2 DEF NotAccepted, Lose, Notice, Break
    <3>2. p \in SocketPoints
      BY DEF SocketPoints
    <3> QED BY <1>0, <3>1, <3>2, GoneIsSocket
  <2> QED BY <2>1, <2>2 DEF SocketStep
<1>2. CASE Connect(s) \/ NotAccepted(s) \/ Lose(s) \/ Break(s)
  <2>1. UNCHANGED rooms /\ sock'[s].pc # "open" /\ sock'[s].pc # "new"
        /\ (sock[s].pc \notin {"new", "accepting"} =>
              sock'[s].pc \in {"lost", "broken"} /\ sock[s].pc = "open")
        /\ (sock[s].pc \in {"new", "accepting"} => s \notin room[sock[s].project])
    <3>1. "left" \in SocketPoints /\ "lost" \in SocketPoints /\ "broken" \in SocketPoints
      BY DEF SocketPoints
    <3>2. sock[s].pc \in {"new", "accepting"} => s \notin room[sock[s].project]
      BY <1>0 DEF IInv, RoomsMatchSockets
    <3>3. CASE Connect(s)
      BY <1>0, <3>2, <3>3 DEF Connect, SocketAt, Socket
    <3>4. CASE NotAccepted(s)
      BY <1>0, <3>1, <3>2, <3>4, GoneIsSocket DEF NotAccepted, SocketAt
    <3>5. CASE Lose(s)
      BY <1>0, <3>1, <3>2, <3>5, GoneIsSocket DEF Lose, SocketAt
    <3>6. CASE Break(s)
      BY <1>0, <3>1, <3>2, <3>6, GoneIsSocket DEF Break, SocketAt
    <3> QED
      BY <1>2, <3>3, <3>4, <3>5, <3>6
  <2>2. TypeOK' /\ SocketsGoOn
    BY <1>0, <1>1, <2>1 DEF TypeOK, table, rooms, SocketsGoOn
  <2>3. RoomsMatchSockets' /\ NoEmptyRooms'
    BY <1>0, <1>1, <2>1 DEF IInv, RoomsMatchSockets, NoEmptyRooms, SocketAt, rooms
  <2>4. \A r \in Requests : Worked(r)'
    BY <1>1, <2>2, WorkedKept DEF IInv
  <2> QED BY <2>2, <2>3, <2>4 DEF IInv
<1>3. CASE Accepted(s)
  <2> DEFINE p == sock[s].project
  <2>1. /\ sock[s].pc = "accepting" /\ sock'[s].pc = "open"
        /\ room' = [room EXCEPT ![p] = @ \cup {s}] /\ keys' = keys \cup {p}
    BY <1>0, <1>3 DEF Accepted, SocketAt, Socket
  <2>2. TypeOK'
    BY <1>0, <1>1, <2>1 DEF TypeOK, table
  <2>3. RoomsMatchSockets'
    BY <1>0, <1>1, <2>1 DEF IInv, RoomsMatchSockets, SocketAt
  <2>4. NoEmptyRooms'
    BY <1>0, <1>1, <2>1 DEF IInv, NoEmptyRooms
  <2>5. \A r \in Requests : Worked(r)'
    <3>1. SocketsGoOn
      BY <1>0, <1>1, <2>1 DEF SocketsGoOn
    <3> QED BY <1>1, <3>1, WorkedKept DEF IInv
  <2> QED BY <2>2, <2>3, <2>4, <2>5 DEF IInv
<1>4. CASE Notice(s)
  <2> DEFINE p == sock[s].project
  <2>1. sock[s].pc = "lost" /\ sock'[s].pc = "left" /\ Disconnect(p, {s})
    BY <1>0, <1>4, GoneIsSocket DEF Notice, SocketAt, SocketPoints
  <2>2. /\ room' = [room EXCEPT ![p] = @ \ {s}]
        /\ keys' = IF room[p] \ {s} = {} THEN keys \ {p} ELSE keys \cup {p}
    BY <2>1, WithoutKeepsOthers DEF Disconnect
  <2>3. TypeOK'
    BY <1>0, <1>1, <2>2 DEF TypeOK, table
  <2>4. RoomsMatchSockets'
    BY <1>0, <1>1, <2>1, <2>2 DEF IInv, RoomsMatchSockets, SocketAt
  <2>5. NoEmptyRooms'
    BY <1>0, <1>1, <2>2 DEF IInv, NoEmptyRooms
  <2>6. \A r \in Requests : Worked(r)'
    <3>1. SocketsGoOn
      BY <1>0, <1>1, <2>1 DEF SocketsGoOn
    <3> QED BY <1>1, <3>1, WorkedKept DEF IInv
  <2> QED BY <2>3, <2>4, <2>5, <2>6 DEF IInv
<1> QED
  BY <1>2, <1>3, <1>4 DEF SocketStep

----------------------------------------------------------------------------
(* Status handlers. *)

\* A step that changes only the tables, and the handler of r, keeps the rooms.
LEMMA RequestStepKeeps ==
  ASSUME IInv, NEW r \in Requests, NEW q \in Request,
         req' = [req EXCEPT ![r] = q], UNCHANGED <<rooms, sock>>,
         live' \subseteq Tasks, status' \in [Tasks -> Status],
         log' \in [Tasks -> Seq(Status)],
         q.todo \cup q.dead \subseteq q.sockets, q.todo \cap q.dead = {},
         \A s \in q.sockets : sock[s].pc \notin {"new", "accepting"},
         \A s \in q.dead : sock[s].pc # "open"
  PROVE  IInv'
<1>0. req \in [Requests -> Request] /\ keys' = keys /\ room' = room /\ sock' = sock
  BY DEF IInv, TypeOK, rooms
<1>1. req' \in [Requests -> Request] /\ req'[r] = q /\ \A x \in Requests \ {r} : req'[x] = req[x]
  BY <1>0
<1>2. TypeOK'
  BY <1>0, <1>1 DEF IInv, TypeOK
<1>3. RoomsMatchSockets' /\ NoEmptyRooms'
  BY <1>0 DEF IInv, RoomsMatchSockets, NoEmptyRooms, SocketAt
<1>4. \A x \in Requests : Worked(x)'
  BY <1>0, <1>1 DEF IInv, Worked
<1> QED
  BY <1>2, <1>3, <1>4 DEF IInv

\* A handler that has not begun to broadcast, or goes on with its sockets.
LEMMA SameSocketsKeeps ==
  ASSUME IInv, NEW r \in Requests, NEW q \in Request,
         req' = [req EXCEPT ![r] = q], UNCHANGED <<rooms, sock>>,
         live' \subseteq Tasks, status' \in [Tasks -> Status],
         log' \in [Tasks -> Seq(Status)],
         q.sockets = req[r].sockets,
         \/ q.todo = {} /\ q.dead = {}
         \/ q.todo = req[r].todo /\ q.dead = req[r].dead
  PROVE  IInv'
<1>1. /\ q.todo \cup q.dead \subseteq q.sockets /\ q.todo \cap q.dead = {}
      /\ \A s \in q.sockets : sock[s].pc \notin {"new", "accepting"}
      /\ \A s \in q.dead : sock[s].pc # "open"
  BY DEF IInv, TypeOK, Worked
<1> QED
  BY <1>1, RequestStepKeeps

LEMMA FailKeeps ==
  ASSUME IInv, NEW r \in Requests, Fail(r)
  PROVE  IInv'
<1> DEFINE q == Ended(req[r], "failed")
<1>1. req[r] \in Request /\ TypeOK
  BY DEF IInv, TypeOK
<1>2. q \in Request /\ q.sockets = req[r].sockets /\ q.todo = {} /\ q.dead = {}
  BY <1>1, EndedIsRequest DEF Ends
<1>3. req' = [req EXCEPT ![r] = q] /\ UNCHANGED <<table, rooms, sock>>
  BY DEF Fail
<1> HIDE DEF q
<1> QED
  BY <1>1, <1>2, <1>3, SameSocketsKeeps DEF TypeOK, table

LEMMA PatchStatusKeeps ==
  ASSUME IInv, NEW r \in Requests, PatchStatus(r)
  PROVE  IInv'
<1>1. PICK t \in live, new \in Status :
        /\ req' = [req EXCEPT ![r].pc = "commit", ![r].task = t,
                              ![r].status = new, ![r].loaded = status[t]]
        /\ UNCHANGED <<table, rooms, sock>>
  BY DEF PatchStatus
<1>2. req[r] \in Request /\ TypeOK /\ t \in Tasks /\ status[t] \in Status
  BY DEF IInv, TypeOK
<1> DEFINE q == [req[r] EXCEPT !.pc = "commit", !.task = t, !.status = new,
                               !.loaded = status[t]]
<1>3. q \in Request /\ q.sockets = req[r].sockets
      /\ q.todo = req[r].todo /\ q.dead = req[r].dead
  BY <1>2 DEF Request, Points
<1>4. req' = [req EXCEPT ![r] = q]
  BY <1>1, <1>2 DEF TypeOK
<1> HIDE DEF q
<1> QED
  BY <1>1, <1>2, <1>3, <1>4, SameSocketsKeeps DEF TypeOK, table

LEMMA UpdateKeeps ==
  ASSUME IInv, NEW r \in Requests, UpdateTaskStatus(r)
  PROVE  IInv'
<1>1. CASE Fail(r)
  BY <1>1, FailKeeps
<1>2. CASE ~Fail(r)
  <2> DEFINE t == req[r].task
             n == Len(log'[t])
             q == [req[r] EXCEPT !.pc = "refresh", !.mark = n]
  <2>1. /\ status' = IF StatusChanged(req[r])
                     THEN [status EXCEPT ![t] = req[r].status] ELSE status
        /\ log' = IF StatusChanged(req[r])
                  THEN [log EXCEPT ![t] = Append(@, req[r].status)] ELSE log
        /\ req' = [req EXCEPT ![r].pc = "refresh", ![r].mark = Len(log'[t])]
        /\ live' = live /\ UNCHANGED <<rooms, sock>>
    BY <1>2 DEF UpdateTaskStatus
  <2>2. req[r] \in Request /\ TypeOK /\ t \in Tasks /\ req[r].status \in Status
    BY DEF IInv, TypeOK, Request
  <2>3. status' \in [Tasks -> Status] /\ log' \in [Tasks -> Seq(Status)]
    BY <2>1, <2>2 DEF TypeOK
  <2>4. n \in Nat
    BY <2>2, <2>3
  <2>5. req' = [req EXCEPT ![r] = q]
    BY <2>1, <2>2 DEF TypeOK
  <2> HIDE DEF n
  <2>6. q \in Request /\ q.sockets = req[r].sockets
        /\ q.todo = req[r].todo /\ q.dead = req[r].dead
    BY <2>2, <2>4 DEF Request, Points
  <2> HIDE DEF q
  <2> QED BY <2>1, <2>2, <2>3, <2>5, <2>6, SameSocketsKeeps DEF TypeOK
<1> QED
  BY <1>1, <1>2

LEMMA RefreshKeeps ==
  ASSUME IInv, NEW r \in Requests, Refresh(r)
  PROVE  IInv'
<1>1. CASE Fail(r)
  BY <1>1, FailKeeps
<1>2. CASE ~Fail(r)
  <2> DEFINE t == req[r].task
             q == [req[r] EXCEPT !.pc = "broadcast", !.seen = status[t]]
  <2>1. /\ req' = [req EXCEPT ![r].pc = "broadcast", ![r].seen = status[t]]
        /\ UNCHANGED <<table, rooms, sock>>
    BY <1>2 DEF Refresh
  <2>2. req[r] \in Request /\ TypeOK /\ status[t] \in Status
    BY DEF IInv, TypeOK, Request
  <2>3. req' = [req EXCEPT ![r] = q]
    BY <2>1, <2>2 DEF TypeOK
  <2>4. q \in Request /\ q.sockets = req[r].sockets
        /\ q.todo = req[r].todo /\ q.dead = req[r].dead
    BY <2>2 DEF Request, Points
  <2> HIDE DEF q
  <2> QED BY <2>1, <2>2, <2>3, <2>4, SameSocketsKeeps DEF TypeOK, table
<1> QED
  BY <1>1, <1>2

LEMMA StartBroadcastKeeps ==
  ASSUME IInv, NEW r \in Requests, StartBroadcast(r)
  PROVE  IInv'
<1> DEFINE S == room[project_id[req[r].task]]
<1>1. /\ req' = [req EXCEPT ![r] = IF S = {} THEN Ended(@, "done")
                                   ELSE [@ EXCEPT !.pc = "send", !.sockets = S,
                                                  !.todo = S, !.dead = {}]]
      /\ UNCHANGED <<table, rooms, sock>>
  BY DEF StartBroadcast, KeysAfterGet, rooms
<1>2. /\ req[r] \in Request /\ TypeOK /\ project_id[req[r].task] \in Projects
      /\ S \subseteq Sockets
  BY FeedAssumption DEF IInv, TypeOK, Request
<1>3. \A s \in S : sock[s].pc \notin {"new", "accepting"}
  BY <1>2 DEF IInv, RoomsMatchSockets
<1> HIDE DEF S
<1>4. CASE S = {}
  <2> DEFINE q == Ended(req[r], "done")
  <2>1. q \in Request /\ q.sockets = req[r].sockets /\ q.todo = {} /\ q.dead = {}
    BY <1>2, EndedIsRequest DEF Ends
  <2>2. req' = [req EXCEPT ![r] = q]
    BY <1>1, <1>4
  <2> HIDE DEF q
  <2> QED BY <1>1, <1>2, <2>1, <2>2, SameSocketsKeeps DEF TypeOK, table
<1>5. CASE S # {}
  <2> DEFINE q == [req[r] EXCEPT !.pc = "send", !.sockets = S, !.todo = S, !.dead = {}]
  <2>1. q \in Request /\ q.sockets = S /\ q.todo = S /\ q.dead = {}
    BY <1>2 DEF Request, Points
  <2>2. req' = [req EXCEPT ![r] = q]
    BY <1>1, <1>5
  <2> HIDE DEF q
  <2> QED BY <1>1, <1>2, <1>3, <2>1, <2>2, RequestStepKeeps DEF TypeOK, table
<1> QED
  BY <1>4, <1>5

\* The sockets that failed leave the room, and none of them is open.
LEMMA AfterSendKeeps ==
  ASSUME IInv, NEW r \in Requests, NEW s \in req[r].todo, NEW raised \in BOOLEAN,
         AfterSend(r, s, raised), raised => ~SocketAt(s, "open"), UNCHANGED table,
         sock' \in [Sockets -> Socket],
         \A x \in Sockets : sock'[x].pc = sock[x].pc /\ sock'[x].project = sock[x].project
  PROVE  IInv'
<1> DEFINE p    == project_id[req[r].task]
           todo == Remaining(req[r], s, raised)
           dead == IF raised THEN req[r].dead \cup {s} ELSE req[r].dead
           q    == IF todo = {} THEN Ended(req[r], "done")
                   ELSE [req[r] EXCEPT !.todo = todo, !.dead = dead]
<1>1. /\ req[r] \in Request /\ TypeOK /\ p \in Projects /\ Worked(r)
      /\ req[r].todo \cup req[r].dead \subseteq req[r].sockets
      /\ req[r].todo \cap req[r].dead = {} /\ req[r].sockets \subseteq Sockets
  BY FeedAssumption DEF IInv, TypeOK, Request
<1>2. /\ todo = req[r].todo \ {s} /\ dead \subseteq req[r].sockets
      /\ todo \subseteq req[r].sockets /\ todo \cap dead = {}
      /\ \A x \in dead : sock[x].pc # "open"
  BY <1>1 DEF Remaining, Worked, SocketAt
<1>3. /\ req' = [req EXCEPT ![r] = q]
      /\ IF todo = {} /\ dead # {} THEN Disconnect(p, dead) ELSE UNCHANGED rooms
  BY DEF AfterSend
<1> HIDE DEF todo, dead
<1>4. /\ q \in Request /\ q.sockets = req[r].sockets
      /\ q.todo \cup q.dead \subseteq q.sockets /\ q.todo \cap q.dead = {}
      /\ q.dead \subseteq dead
  <2>1. CASE todo = {}
    BY <1>1, <2>1, EndedIsRequest DEF Ends
  <2>2. CASE todo # {}
    BY <1>1, <1>2, <2>2 DEF Request
  <2> QED BY <2>1, <2>2
<1> HIDE DEF q
<1>5. /\ req' \in [Requests -> Request] /\ req'[r] = q
      /\ \A x \in Requests \ {r} : req'[x] = req[x]
  BY <1>1, <1>3, <1>4 DEF TypeOK
<1>6. \A x \in Requests : Worked(x)'
  BY <1>1, <1>2, <1>4, <1>5 DEF IInv, TypeOK, Request, Worked
<1>7. /\ room' \in [Projects -> SUBSET Sockets] /\ keys' \subseteq Projects
      /\ RoomsMatchSockets' /\ NoEmptyRooms'
  <2>1. CASE UNCHANGED rooms
    BY <1>1, <2>1 DEF IInv, TypeOK, RoomsMatchSockets, NoEmptyRooms, SocketAt, rooms
  <2>2. CASE Disconnect(p, dead)
    <3>1. /\ room' = [room EXCEPT ![p] = @ \ dead]
          /\ keys' = IF room[p] \ dead = {} THEN keys \ {p} ELSE keys \cup {p}
      BY <2>2, WithoutKeepsOthers DEF Disconnect
    <3>2. room' \in [Projects -> SUBSET Sockets] /\ keys' \subseteq Projects
      BY <1>1, <3>1 DEF TypeOK
    <3>3. NoEmptyRooms'
      BY <1>1, <3>1 DEF IInv, TypeOK, NoEmptyRooms
    <3>4. RoomsMatchSockets'
      <4>1. PICK pp \in Projects : pp = p
        BY <1>1
      <4>2. /\ room'[pp] = room[pp] \ dead
            /\ \A x \in Projects \ {pp} : room'[x] = room[x]
        BY <1>1, <3>1, <4>1 DEF TypeOK
      <4>3. \A x \in Projects : room[x] \subseteq Sockets /\ room'[x] \subseteq room[x]
        BY <1>1, <4>2 DEF TypeOK
      <4>4. ASSUME NEW x \in Sockets, SocketAt(x, "open")'
            PROVE  x \in room'[sock'[x].project]
        <5>1. /\ sock[x].pc = "open" /\ x \notin dead
              /\ sock'[x].project = sock[x].project /\ sock[x].project \in Projects
          BY <1>1, <1>2, <4>4 DEF SocketAt, TypeOK, Socket
        <5>2. x \in room[sock[x].project]
          BY <5>1 DEF IInv, RoomsMatchSockets, SocketAt
        <5> QED BY <4>2, <5>1, <5>2
      <4>5. ASSUME NEW x \in Projects, NEW y \in room'[x]
            PROVE  sock'[y].project = x /\ sock'[y].pc \in {"open", "lost", "broken"}
        BY <4>3 DEF IInv, RoomsMatchSockets
      <4> QED BY <4>4, <4>5 DEF RoomsMatchSockets
    <3> QED BY <3>2, <3>3, <3>4
  <2> QED BY <1>3, <2>1, <2>2
<1>8. TypeOK'
  BY <1>1, <1>4, <1>5, <1>7 DEF TypeOK, table
<1> QED
  BY <1>6, <1>7, <1>8 DEF IInv

LEMMA SendKeeps ==
  ASSUME IInv, NEW r \in Requests, Send(r)
  PROVE  IInv'
<1>1. PICK s \in req[r].todo :
        \/ /\ SocketAt(s, "open")
           /\ sock' = [sock EXCEPT ![s].inbox =
                         Append(@, [from |-> r, task |-> req[r].task,
                                    status |-> Announced(req[r])])]
           /\ AfterSend(r, s, FALSE)
        \/ /\ ~SocketAt(s, "open")
           /\ \E raised \in BOOLEAN : AfterSend(r, s, raised)
           /\ UNCHANGED sock
  BY DEF Send
<1>2. /\ req[r] \in Request /\ TypeOK /\ s \in Sockets /\ UNCHANGED table
      /\ sock \in [Sockets -> Socket]
  BY DEF IInv, TypeOK, Request, Send
<1>3. CASE SocketAt(s, "open")
  <2> DEFINE m == [from |-> r, task |-> req[r].task, status |-> Announced(req[r])]
  <2>1. m \in Message
    BY <1>2 DEF Announced, Request, Message
  <2>2. sock' = [sock EXCEPT ![s].inbox = Append(@, m)] /\ AfterSend(r, s, FALSE)
    BY <1>1, <1>3
  <2> HIDE DEF m
  <2>3. sock[s] \in Socket /\ Append(sock[s].inbox, m) \in Seq(Message)
    BY <1>2, <2>1 DEF Socket
  <2>4. sock' \in [Sockets -> Socket]
    BY <1>2, <2>2, <2>3 DEF Socket
  <2>5. \A x \in Sockets : sock'[x].pc = sock[x].pc /\ sock'[x].project = sock[x].project
    BY <1>2, <2>2 DEF Socket
  <2> QED BY <1>2, <2>2, <2>4, <2>5, AfterSendKeeps
<1>4. CASE ~SocketAt(s, "open")
  BY <1>1, <1>2, <1>4, AfterSendKeeps
<1> QED
  BY <1>3, <1>4

----------------------------------------------------------------------------
(* The rest of the system, and the theorems. *)

LEMMA CrashKeeps == IInv /\ Crash => IInv'
<1> SUFFICES ASSUME IInv, Crash PROVE IInv'
  OBVIOUS
<1>0. TypeOK
  BY DEF IInv
<1>1. /\ keys' = {} /\ room' = [p \in Projects |-> {}] /\ UNCHANGED table
      /\ sock' = [s \in Sockets |-> IF SocketAt(s, "new") THEN sock[s] ELSE Gone(s, "left")]
      /\ req' = [r \in Requests |->
                   IF InFlight(r) THEN Ended(req[r], "crashed") ELSE req[r]]
  BY DEF Crash
<1>2. /\ sock' \in [Sockets -> Socket]
      /\ \A s \in Sockets : sock'[s].pc \in {"new", "left"}
                            /\ (sock[s].pc # "new" => sock'[s].pc = "left")
  BY <1>0, <1>1, GoneIsSocket DEF TypeOK, SocketAt, SocketPoints
<1>3. /\ req' \in [Requests -> Request]
      /\ \A r \in Requests : /\ req'[r].sockets = req[r].sockets
                             /\ req'[r].todo \subseteq req[r].todo
                             /\ req'[r].dead \subseteq req[r].dead
  BY <1>0, <1>1, EndedIsRequest DEF TypeOK, Ends
<1>4. TypeOK'
  <2>1. /\ live' \subseteq Tasks /\ status' \in [Tasks -> Status]
        /\ log' \in [Tasks -> Seq(Status)] /\ keys' \subseteq Projects
        /\ room' \in [Projects -> SUBSET Sockets]
    BY <1>0, <1>1 DEF TypeOK, table
  <2>2. \A r \in Requests : /\ req'[r].todo \cup req'[r].dead \subseteq req'[r].sockets
                            /\ req'[r].todo \cap req'[r].dead = {}
    BY <1>0, <1>3 DEF TypeOK
  <2> QED BY <1>2, <1>3, <2>1, <2>2 DEF TypeOK
<1>5. RoomsMatchSockets' /\ NoEmptyRooms'
  BY <1>1, <1>2 DEF RoomsMatchSockets, NoEmptyRooms, SocketAt
<1>6. SocketsGoOn
  BY <1>2 DEF SocketsGoOn
<1>7. \A r \in Requests : Worked(r)'
  BY <1>0, <1>3, <1>6, WorkedKept DEF IInv
<1> QED
  BY <1>4, <1>5, <1>7 DEF IInv

LEMMA UnchangedKeeps ==
  ASSUME IInv, live' \subseteq live, UNCHANGED <<status, log, rooms, sock, req>>
  PROVE  IInv'
BY DEF IInv, TypeOK, RoomsMatchSockets, NoEmptyRooms, Worked, SocketAt, rooms

LEMMA NextKeeps == IInv /\ [Next]_vars => IInv'
<1> SUFFICES ASSUME IInv, [Next]_vars PROVE IInv'
  OBVIOUS
<1>1. ASSUME NEW r \in Requests, PatchStatus(r) \/ Step(r) PROVE IInv'
  BY <1>1, PatchStatusKeeps, UpdateKeeps, RefreshKeeps, StartBroadcastKeeps, SendKeeps
  DEF Step
<1>2. ASSUME NEW s \in Sockets, SocketStep(s) PROVE IInv'
  BY <1>2, SocketStepKeeps
<1>3. CASE DeleteTask
  BY <1>3, UnchangedKeeps DEF DeleteTask
<1>4. CASE Crash
  BY <1>4, CrashKeeps
<1>5. CASE UNCHANGED vars
  BY <1>5, UnchangedKeeps DEF vars, rooms
<1> QED
  BY <1>1, <1>2, <1>3, <1>4, <1>5 DEF Next, Quiet

THEOREM InvariantHolds == Spec => []IInv
<1>1. IInv /\ [Next]_vars => IInv'
  BY NextKeeps
<1> QED
  BY InitIInv, <1>1, PTL DEF Spec

\* Every reachable state is well typed, and a broadcast never has a socket
\* both to come and failed (ConnectionManager.broadcast).
THEOREM TypeCorrect == Spec => []TypeOK
<1>1. IInv => TypeOK
  BY DEF IInv
<1> QED
  BY <1>1, InvariantHolds, PTL

\* However many sockets come, go and fail while broadcasts work on copies of
\* their room, an open socket stays in its room and nobody else's is in it.
THEOREM RoomsAreRight == Spec => []RoomsMatchSockets
<1>1. IInv => RoomsMatchSockets
  BY DEF IInv
<1> QED
  BY <1>1, InvariantHolds, PTL

\* ConnectionManager._rooms has a key exactly for the rooms that hold a socket.
THEOREM NoRoomLeaks == Spec => []NoEmptyRooms
<1>1. IInv => NoEmptyRooms
  BY DEF IInv
<1> QED
  BY <1>1, InvariantHolds, PTL
=============================================================================
