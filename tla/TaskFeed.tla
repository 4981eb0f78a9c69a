------------------------------ MODULE TaskFeed ------------------------------
(***************************************************************************)
(* The live feed of task statuses: the rooms of ConnectionManager, the     *)
(* WebSocket handlers that enter and leave them, and the status handlers   *)
(* that broadcast to them, socket by socket, after their commit.           *)
(*                                                                         *)
(* The status handlers are those of TaskService with the tables reduced to *)
(* the statuses; what they check is left to it.  A socket is one           *)
(* connection: a client that reconnects uses another.                      *)
(***************************************************************************)
EXTENDS Sequences, Naturals

CONSTANTS
  Projects,
  Tasks,
  project_id,  \* project_id[t]: the project of task t
  Sockets,     \* the connections clients may open
  Requests     \* the status changes they may ask for

Status == {"todo", "in_progress", "done"}

\* What the constants must satisfy.
ASSUME FeedAssumption == project_id \in [Tasks -> Projects]

VARIABLES
  live,      \* tasks with a row
  status,    \* status[t]: the column
  log,       \* log[t]: the statuses the task has had, as its history says
  keys,      \* the keys of ConnectionManager._rooms
  room,      \* room[p]: the set under key p, {} without one
  sock,      \* sock[s]: a connection, its handler and what it received
  req        \* req[r]: the local state of a status handler

table == <<live, status, log>>
rooms == <<keys, room>>
vars  == <<live, status, log, keys, room, sock, req>>

----------------------------------------------------------------------------
(* States. *)

\* inbox: what its client has received, while it is there.
\* new: not asked for yet; accepting: checked, accept() under way; open:
\* served; lost: the peer is gone and the handler does not know; broken: the
\* handler ended by an exception it does not catch; left: it is over.
SocketPoints == {"new", "accepting", "open", "lost", "broken", "left"}
Message == [from: Requests, task: Tasks, status: Status]
Socket  == [pc: SocketPoints, project: Projects, inbox: Seq(Message)]

Points == {"idle", "commit", "refresh", "broadcast", "send"}
Ends   == {"done", "failed", "crashed"}

\* task, status: path and payload; loaded, seen: the status of the row as it
\* was loaded and after the refresh; mark: the length of the log at the commit;
\* sockets, dead: the locals of broadcast; todo: the sockets still to be sent to.
Request ==
  [pc: Points \cup Ends, task: Tasks, status: Status, loaded: Status,
   seen: Status, mark: Nat, sockets: SUBSET Sockets, todo: SUBSET Sockets,
   dead: SUBSET Sockets]

At(r, point)     == req[r].pc = point
SocketAt(s, point) == sock[s].pc = point
InFlight(r)      == req[r].pc \notin Ends \cup {"idle"}

Idle(t) ==
  [pc |-> "idle", task |-> t, status |-> "todo", loaded |-> "todo",
   seen |-> "todo", mark |-> 0, sockets |-> {}, todo |-> {}, dead |-> {}]

\* A handler's locals go with it; its commit and the sockets it has worked
\* through are kept, to say what it announced.
Ended(q, end) ==
  [Idle(q.task) EXCEPT !.pc = end, !.mark = q.mark, !.sockets = q.sockets]
Fail(r) ==
  /\ req' = [req EXCEPT ![r] = Ended(@, "failed")]
  /\ UNCHANGED <<table, rooms, sock>>

Init ==
  /\ live = Tasks
  /\ status = [t \in Tasks |-> "todo"]
  /\ log = [t \in Tasks |-> <<"todo">>]
  /\ keys = {}
  /\ room = [p \in Projects |-> {}]
  /\ \E p \in [Sockets -> Projects] :
       sock = [s \in Sockets |-> [pc |-> "new", project |-> p[s], inbox |-> <<>>]]
  /\ \E t \in Tasks : req = [r \in Requests |-> Idle(t)]

----------------------------------------------------------------------------
(* WS /projects/{project_id}/ws *)

\* Regression: the whole room goes with one socket.
WithoutAny(S, gone) == {}

Without(S, gone) == S \ gone

\* _rooms is a defaultdict: a key that is looked up exists, and disconnect
\* removes it again when its set is empty.
Disconnect(p, gone) ==
  LET rest == Without(room[p], gone) IN
  /\ room' = [room EXCEPT ![p] = rest]
  /\ keys' = IF rest = {} THEN keys \ {p} ELSE keys \cup {p}

\* Token, user, project and membership are checked once, when a client
\* connects; a socket that is refused never enters a room.
Connect(s) ==
  /\ SocketAt(s, "new")
  /\ sock' = [sock EXCEPT ![s].pc = "accepting"]
  /\ UNCHANGED <<table, rooms, req>>

Gone(s, point) == [sock[s] EXCEPT !.pc = point, !.inbox = <<>>]

\* The socket joins its room once accept() has returned.
Accepted(s) ==
  LET p == sock[s].project IN
  /\ SocketAt(s, "accepting")
  /\ sock' = [sock EXCEPT ![s].pc = "open"]
  /\ room' = [room EXCEPT ![p] = @ \cup {s}]
  /\ keys' = keys \cup {p}
  /\ UNCHANGED <<table, req>>

NotAccepted(s) ==
  /\ SocketAt(s, "accepting")
  /\ sock' = [sock EXCEPT ![s] = Gone(s, "left")]
  /\ UNCHANGED <<table, rooms, req>>

\* The peer goes away; its handler learns of it later.
Lose(s) ==
  /\ SocketAt(s, "open")
  /\ sock' = [sock EXCEPT ![s] = Gone(s, "lost")]
  /\ UNCHANGED <<table, rooms, req>>

\* receive_text raises WebSocketDisconnect.
Notice(s) ==
  /\ SocketAt(s, "lost")
  /\ sock' = [sock EXCEPT ![s] = Gone(s, "left")]
  /\ Disconnect(sock[s].project, {s})
  /\ UNCHANGED <<table, req>>

\* receive_text raises another exception (a frame that is no text): the
\* handler ends, the server closes the connection, the room keeps the socket.
Break(s) ==
  /\ SocketAt(s, "open")
  /\ sock' = [sock EXCEPT ![s] = Gone(s, "broken")]
  /\ UNCHANGED <<table, rooms, req>>

----------------------------------------------------------------------------
(* PATCH /tasks/{task_id}/status *)

PatchStatus(r) ==
  \E t \in live, new \in Status :
    /\ At(r, "idle")
    /\ req' = [req EXCEPT ![r].pc = "commit", ![r].task = t,
                          ![r].status = new, ![r].loaded = status[t]]
    /\ UNCHANGED <<table, rooms, sock>>

StatusChanged(q) == q.status # q.loaded

\* The update is by id; without a change there is nothing to write.  It fails
\* when the task is gone, or the user it is logged for.
UpdateTaskStatus(r) ==
  LET q == req[r] t == q.task IN
  /\ At(r, "commit")
  /\ \/ /\ StatusChanged(q) => t \in live
        /\ status' = IF StatusChanged(q) THEN [status EXCEPT ![t] = q.status] ELSE status
        /\ log' = IF StatusChanged(q) THEN [log EXCEPT ![t] = Append(@, q.status)] ELSE log
        /\ req' = [req EXCEPT ![r].pc = "refresh", ![r].mark = Len(log'[t])]
        /\ UNCHANGED <<live, rooms, sock>>
     \/ StatusChanged(q) /\ Fail(r)

\* After it the cache is invalidated, and the broadcast begins.
Refresh(r) ==
  /\ At(r, "refresh")
  /\ IF req[r].task \in live
     THEN /\ req' = [req EXCEPT ![r].pc = "broadcast", ![r].seen = status[req[r].task]]
          /\ UNCHANGED <<table, rooms, sock>>
     ELSE Fail(r)

\* Regression: the room is looked up by index, which makes an entry.
KeysAfterIndex(p) == keys \cup {p}

KeysAfterGet(p) == keys

\* broadcast works on a copy of the room.
StartBroadcast(r) ==
  LET p == project_id[req[r].task] S == room[p] IN
  /\ At(r, "broadcast")
  /\ req' = [req EXCEPT ![r] = IF S = {} THEN Ended(@, "done")
                              ELSE [@ EXCEPT !.pc = "send", !.sockets = S,
                                             !.todo = S, !.dead = {}]]
  /\ keys' = KeysAfterGet(p)
  /\ UNCHANGED <<table, room, sock>>

\* Regression: the row is announced as it was loaded.
AnnouncedAsLoaded(q) == q.loaded

Announced(q) == q.seen

\* Regressions: a send that fails is tried again; it ends the loop.
RemainingRetried(q, s, raised) == IF raised THEN q.todo ELSE q.todo \ {s}
RemainingAborted(q, s, raised) == IF raised THEN {} ELSE q.todo \ {s}

Remaining(q, s, raised) == q.todo \ {s}

\* The loop goes on after s; after the last socket those that failed leave.
AfterSend(r, s, raised) ==
  LET q    == req[r]
      todo == Remaining(q, s, raised)
      dead == IF raised THEN q.dead \cup {s} ELSE q.dead
  IN
  /\ req' = [req EXCEPT ![r] = IF todo = {} THEN Ended(@, "done")
                              ELSE [@ EXCEPT !.todo = todo, !.dead = dead]]
  /\ IF todo = {} /\ dead # {}
     THEN Disconnect(project_id[q.task], dead)
     ELSE UNCHANGED rooms

\* To a peer that is there the message is delivered; to one that is gone it
\* raises, or is dropped.
Send(r) ==
  LET q == req[r] IN
  /\ At(r, "send")
  /\ \E s \in q.todo :
       \/ /\ SocketAt(s, "open")
          /\ sock' = [sock EXCEPT ![s].inbox =
                        Append(@, [from |-> r, task |-> q.task, status |-> Announced(q)])]
          /\ AfterSend(r, s, FALSE)
       \/ /\ ~SocketAt(s, "open")
          /\ \E raised \in BOOLEAN : AfterSend(r, s, raised)
          /\ UNCHANGED sock
  /\ UNCHANGED table

----------------------------------------------------------------------------
(* The rest of the system. *)

\* DELETE /tasks/{task_id} (TaskService says when it succeeds).
DeleteTask ==
  \E t \in live :
    /\ live' = live \ {t}
    /\ UNCHANGED <<status, log, rooms, sock, req>>

\* The rooms are in memory: a restart begins with none, and no connection.
Crash ==
  /\ \/ \E r \in Requests : InFlight(r)
     \/ \E s \in Sockets : sock[s].pc \notin {"new", "left"}
  /\ keys' = {}
  /\ room' = [p \in Projects |-> {}]
  /\ sock' = [s \in Sockets |->
                IF SocketAt(s, "new") THEN sock[s] ELSE Gone(s, "left")]
  /\ req' = [r \in Requests |->
               IF InFlight(r) THEN Ended(req[r], "crashed") ELSE req[r]]
  /\ UNCHANGED table

\* The service waits for clients.
Quiet ==
  /\ \A r \in Requests : ~InFlight(r)
  /\ UNCHANGED vars

Step(r) == UpdateTaskStatus(r) \/ Refresh(r) \/ StartBroadcast(r) \/ Send(r)

SocketStep(s) ==
  Connect(s) \/ Accepted(s) \/ NotAccepted(s) \/ Lose(s) \/ Notice(s) \/ Break(s)

Next ==
  \/ \E r \in Requests : PatchStatus(r) \/ Step(r)
  \/ \E s \in Sockets : SocketStep(s)
  \/ DeleteTask \/ Crash \/ Quiet

Spec == Init /\ [][Next]_vars

----------------------------------------------------------------------------
(* Properties. *)

\* Every row, room, socket and handler has its type, and a broadcast splits
\* its sockets into those to come and those that failed or were served.
TypeOK ==
  /\ live \subseteq Tasks
  /\ status \in [Tasks -> Status]
  /\ log \in [Tasks -> Seq(Status)]
  /\ keys \subseteq Projects
  /\ room \in [Projects -> SUBSET Sockets]
  /\ sock \in [Sockets -> Socket]
  /\ req \in [Requests -> Request]
  /\ \A r \in Requests : /\ req[r].todo \cup req[r].dead \subseteq req[r].sockets
                         /\ req[r].todo \cap req[r].dead = {}

\* Sockets that come and go while broadcasts run over copies of their room:
\* a socket that is open is never dropped from its room, and a room holds only
\* sockets of its project whose handler has not seen them leave.
RoomsMatchSockets ==
  /\ \A s \in Sockets : SocketAt(s, "open") => s \in room[sock[s].project]
  /\ \A p \in Projects : \A s \in room[p] :
       sock[s].project = p /\ sock[s].pc \in {"open", "lost", "broken"}

\* ConnectionManager holds no entry for a room that is empty: projects nobody
\* watches take no memory, however many broadcasts they have.
NoEmptyRooms == keys = {p \in Projects : room[p] # {}}

\* A broadcast that ends has reached every socket that was in the room when
\* it began and is still open, exactly once, whichever other sockets failed.
From(r, s) == {i \in DOMAIN sock[s].inbox : sock[s].inbox[i].from = r}
BroadcastReachesAll ==
  \A r \in Requests : At(r, "done") =>
    \A s \in req[r].sockets :
      SocketAt(s, "open") => \E i \in DOMAIN sock[s].inbox : From(r, s) = {i}

\* No message is older than its sender's commit: it tells a status the task
\* has had since then, be it the sender's or another request's.
MessagesAreFresh ==
  \A s \in Sockets : \A i \in DOMAIN sock[s].inbox :
    LET m == sock[s].inbox[i] IN
    \E k \in req[m.from].mark .. Len(log[m.task]) : k > 0 /\ log[m.task][k] = m.status

----------------------------------------------------------------------------
(* What the repository says and the handlers do not keep. *)

\* app/api/endpoints/tasks.py:229 ("Live task status updates for a project"):
\* when nothing is under way, an open socket that every broadcast was sent to
\* has last heard of a task what its status is.
LastMessageIsStatus ==
  (\A r \in Requests : ~InFlight(r)) =>
    \A s \in Sockets, t \in live :
      LET heard == SelectSeq(sock[s].inbox, LAMBDA m : m.task = t) IN
      /\ SocketAt(s, "open") /\ heard # <<>>
      /\ \A r \in Requests : At(r, "done") => s \in req[r].sockets
      => heard[Len(heard)].status = status[t]
=============================================================================
