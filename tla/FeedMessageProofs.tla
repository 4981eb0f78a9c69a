------------------------- MODULE FeedMessageProofs -------------------------
(***************************************************************************)
(* Theorems about the messages of TaskFeed, for any projects, tasks,       *)
(* connections and status changes: whom a broadcast reaches, and what its  *)
(* messages say.                                                           *)
(***************************************************************************)
EXTENDS TaskFeedProofs

\* The socket has one message of the request.
HeardOnce(r, s) == \E i \in DOMAIN sock[s].inbox : From(r, s) = {i}

\* How far a broadcast has come: nobody has heard of a request that has not
\* begun; while it sends, the sockets served have heard once, if they are
\* still there, and those to come have not.
Heard(r) ==
  /\ req[r].pc \in {"idle", "commit", "refresh", "broadcast"} =>
       req[r].sockets = {} /\ \A s \in Sockets : From(r, s) = {}
  /\ At(r, "send") =>
       /\ \A s \in req[r].todo : From(r, s) = {}
       /\ \A s \in req[r].sockets \ req[r].todo : SocketAt(s, "open") => HeardOnce(r, s)
  /\ At(r, "done") =>
       \A s \in req[r].sockets : SocketAt(s, "open") => HeardOnce(r, s)

\* The task has had the status since its log had n entries.
Since(n, t, st) == \E k \in n .. Len(log[t]) : k > 0 /\ log[t][k] = st

\* What a handler is about to announce is no older than its commit.
Current(r) ==
  /\ At(r, "refresh") => req[r].mark <= Len(log[req[r].task])
  /\ req[r].pc \in {"broadcast", "send"} =>
       Since(req[r].mark, req[r].task, req[r].seen)

\* The log ends with the column.
Logged ==
  \A t \in Tasks : log[t] # <<>> /\ status[t] = log[t][Len(log[t])]

MInv ==
  /\ IInv
  /\ Logged
  /\ \A r \in Requests : Heard(r)
  /\ \A r \in Requests : Current(r)
  /\ MessagesAreFresh

----------------------------------------------------------------------------
(* What steps keep. *)

\* Histories only grow.
LogsGrow ==
  \A t \in Tasks :
    /\ Len(log[t]) <= Len(log'[t])
    /\ \A k \in 1 .. Len(log[t]) : log'[t][k] = log[t][k]

\* An inbox is as it was, or forgotten with its client.
InboxesKept ==
  \A s \in Sockets :
    \/ sock'[s].inbox = sock[s].inbox
    \/ sock'[s].inbox = <<>> /\ sock'[s].pc # "open"

LEMMA SinceGrows ==
  ASSUME TypeOK, LogsGrow, NEW n \in Nat, NEW t \in Tasks, NEW st, Since(n, t, st),
         log'[t] \in Seq(Status)
  PROVE  Since(n, t, st)'
<1>1. PICK k \in n .. Len(log[t]) : k > 0 /\ log[t][k] = st
  BY DEF Since
<1>2. Len(log[t]) \in Nat /\ Len(log'[t]) \in Nat
  BY DEF TypeOK
<1>3. k \in n .. Len(log'[t]) /\ k \in 1 .. Len(log[t])
  BY <1>1, <1>2 DEF LogsGrow
<1> QED
  BY <1>1, <1>3 DEF LogsGrow, Since

LEMMA SameLogsGrow ==
  ASSUME TypeOK, UNCHANGED log
  PROVE  LogsGrow
BY DEF TypeOK, LogsGrow

LEMMA HeardKept ==
  ASSUME MInv, NEW r \in Requests, InboxesKept, SocketsGoOn,
         req'[r].pc = req[r].pc, req'[r].sockets = req[r].sockets, req'[r].todo = req[r].todo
  PROVE  Heard(r)'
<1>1. /\ TypeOK /\ Worked(r) /\ Heard(r) /\ req[r].sockets \subseteq Sockets
      /\ req[r].todo \subseteq req[r].sockets
  BY DEF MInv, IInv, TypeOK, Request
<1>2. ASSUME NEW s \in Sockets, From(r, s) = {}
      PROVE  From(r, s)' = {}
  BY <1>2 DEF InboxesKept, From
<1>3. ASSUME NEW s \in req[r].sockets, SocketAt(s, "open")'
      PROVE  /\ SocketAt(s, "open") /\ sock'[s].inbox = sock[s].inbox
             /\ HeardOnce(r, s) => HeardOnce(r, s)'
  <2>1. sock[s].pc \notin {"new", "accepting"}
    BY <1>1 DEF Worked
  <2>2. SocketAt(s, "open") /\ sock'[s].inbox = sock[s].inbox
    BY <1>1, <1>3, <2>1 DEF SocketsGoOn, InboxesKept, SocketAt
  <2> QED
    BY <2>2 DEF HeardOnce, From
<1> QED
  BY <1>1, <1>2, <1>3 DEF Heard, At

LEMMA CurrentKept ==
  ASSUME MInv, TypeOK', LogsGrow, NEW r \in Requests, req'[r] = req[r]
  PROVE  Current(r)'
<1>1. /\ TypeOK /\ Current(r)
      /\ req[r].mark \in Nat /\ req[r].task \in Tasks
  BY DEF MInv, IInv, TypeOK, Request
<1>2. PICK n \in Nat, t \in Tasks : n = req[r].mark /\ t = req[r].task
  BY <1>1
<1>3. PICK st : st = req[r].seen
  OBVIOUS
<1>4. /\ Len(log[t]) \in Nat /\ Len(log'[t]) \in Nat /\ Len(log[t]) <= Len(log'[t])
      /\ log'[t] \in Seq(Status)
  BY DEF TypeOK, MInv, IInv, LogsGrow
<1>5. Since(n, t, st) => Since(n, t, st)'
  BY <1>1, <1>4, SinceGrows
<1>6. At(r, "refresh") => n <= Len(log'[t])
  BY <1>1, <1>2, <1>4 DEF Current
<1> QED
  BY <1>1, <1>2, <1>3, <1>5, <1>6 DEF Current, At

\* A message in a socket's inbox is an older one, or is fresh; no request
\* that has told something commits again.
LEMMA FreshKept ==
  ASSUME MInv, TypeOK', LogsGrow,
         \A r \in Requests : \/ req'[r].mark = req[r].mark
                             \/ \A s \in Sockets : From(r, s) = {},
         \A s \in Sockets : \A i \in DOMAIN sock'[s].inbox :
           \/ i \in DOMAIN sock[s].inbox /\ sock'[s].inbox[i] = sock[s].inbox[i]
           \/ LET m == sock'[s].inbox[i] IN
              \E k \in req'[m.from].mark .. Len(log'[m.task]) : k > 0 /\ log'[m.task][k] = m.status
  PROVE  MessagesAreFresh'
<1> SUFFICES ASSUME NEW s \in Sockets, NEW i \in DOMAIN sock'[s].inbox,
                    i \in DOMAIN sock[s].inbox, sock'[s].inbox[i] = sock[s].inbox[i]
             PROVE  LET m == sock'[s].inbox[i] IN
                    \E k \in req'[m.from].mark .. Len(log'[m.task]) :
                      k > 0 /\ log'[m.task][k] = m.status
  BY DEF MessagesAreFresh
<1>1. sock[s].inbox \in Seq(Message) /\ TypeOK
  BY DEF MInv, IInv, TypeOK, Socket
<1>2. PICK m \in Message : m = sock[s].inbox[i]
  BY <1>1
<1>3. m.from \in Requests /\ m.task \in Tasks
  BY DEF Message
<1>4. From(m.from, s) # {}
  BY <1>2 DEF From
<1>5. req'[m.from].mark = req[m.from].mark /\ req[m.from].mark \in Nat
  BY <1>1, <1>3, <1>4 DEF TypeOK, Request
<1>6. PICK n \in Nat : n = req[m.from].mark
  BY <1>5
<1>7. Since(n, m.task, m.status)
  BY <1>2, <1>6 DEF MInv, MessagesAreFresh, Since
<1>8. log'[m.task] \in Seq(Status)
  BY <1>3 DEF TypeOK
<1>9. Since(n, m.task, m.status)'
  BY <1>1, <1>3, <1>7, <1>8, SinceGrows
<1> QED
  BY <1>2, <1>5, <1>6, <1>9 DEF Since

\* What is to be shown of a step that sends nothing and is about one handler.
LEMMA HandlerKeeps ==
  ASSUME MInv, IInv', LogsGrow, InboxesKept, SocketsGoOn, Logged', NEW r \in Requests,
         \A x \in Requests \ {r} : req'[x] = req[x],
         Heard(r)', Current(r)',
         req'[r].mark = req[r].mark \/ \A s \in Sockets : From(r, s) = {}
  PROVE  MInv'
<1>0. TypeOK'
  BY DEF IInv
<1>1. ASSUME NEW x \in Requests PROVE Heard(x)' /\ Current(x)'
  <2>1. CASE x = r
    BY <2>1
  <2>2. CASE x # r
    BY <1>0, <2>2, HeardKept, CurrentKept
  <2> QED BY <2>1, <2>2
<1>2. MessagesAreFresh'
  <2>1. \A x \in Requests : \/ req'[x].mark = req[x].mark
                            \/ \A s \in Sockets : From(x, s) = {}
    OBVIOUS
  <2>2. \A s \in Sockets : \A i \in DOMAIN sock'[s].inbox :
          i \in DOMAIN sock[s].inbox /\ sock'[s].inbox[i] = sock[s].inbox[i]
    BY DEF InboxesKept
  <2> QED BY <1>0, <2>1, <2>2, FreshKept
<1> QED
  BY <1>1, <1>2 DEF MInv

----------------------------------------------------------------------------
(* Sockets and tasks. *)

LEMMA NoHandlerKeeps ==
  ASSUME MInv, IInv', InboxesKept, SocketsGoOn, UNCHANGED <<status, log, req>>
  PROVE  MInv'
<1>1. TypeOK /\ TypeOK' /\ LogsGrow
  BY SameLogsGrow DEF MInv, IInv
<1>2. \A r \in Requests : Heard(r)' /\ Current(r)'
  BY <1>1, HeardKept, CurrentKept
<1>3. \A s \in Sockets : \A i \in DOMAIN sock'[s].inbox :
        i \in DOMAIN sock[s].inbox /\ sock'[s].inbox[i] = sock[s].inbox[i]
  BY DEF InboxesKept
<1>4. MessagesAreFresh'
  BY <1>1, <1>3, FreshKept
<1>5. Logged'
  BY DEF MInv, Logged
<1> QED
  BY <1>2, <1>4, <1>5 DEF MInv

LEMMA SocketStepTells ==
  ASSUME MInv, IInv', NEW s \in Sockets, SocketStep(s)
  PROVE  MInv'
<1>1. sock \in [Sockets -> Socket] /\ sock[s] \in Socket
  BY DEF MInv, IInv, TypeOK
<1>2. CASE Connect(s) \/ Accepted(s)
  <2>1. PICK p \in {"accepting", "open"} :
          /\ sock' = [sock EXCEPT ![s].pc = p] /\ UNCHANGED <<table, req>>
          /\ sock[s].pc \in {"new", "accepting"}
    BY <1>2 DEF Connect, Accepted, SocketAt
  <2>2. /\ sock'[s].pc = p /\ sock'[s].inbox = sock[s].inbox
        /\ \A x \in Sockets \ {s} : sock'[x] = sock[x]
    BY <1>1, <2>1 DEF Socket
  <2>3. InboxesKept /\ SocketsGoOn
    BY <2>1, <2>2 DEF InboxesKept, SocketsGoOn
  <2> QED BY <2>1, <2>3, NoHandlerKeeps DEF table
<1>3. CASE NotAccepted(s) \/ Lose(s) \/ Notice(s) \/ Break(s)
  <2>1. PICK p \in {"left", "lost", "broken"} :
          sock' = [sock EXCEPT ![s] = Gone(s, p)] /\ UNCHANGED <<table, req>>
    BY <1>3 DEF NotAccepted, Lose, Notice, Break
  <2>2. /\ sock'[s].pc = p /\ sock'[s].inbox = <<>>
        /\ \A x \in Sockets \ {s} : sock'[x] = sock[x]
    BY <1>1, <2>1 DEF Gone, Socket
  <2>3. InboxesKept /\ SocketsGoOn
    BY <2>1, <2>2 DEF InboxesKept, SocketsGoOn
  <2> QED BY <2>1, <2>3, NoHandlerKeeps DEF table
<1> QED
  BY <1>2, <1>3 DEF SocketStep

LEMMA UnchangedTells ==
  ASSUME MInv, IInv', UNCHANGED <<status, log, sock, req>>
  PROVE  MInv'
<1>1. InboxesKept /\ SocketsGoOn
  BY DEF InboxesKept, SocketsGoOn
<1> QED
  BY <1>1, NoHandlerKeeps

----------------------------------------------------------------------------
(* Handlers before their broadcast. *)

LEMMA Local ==
  ASSUME MInv, NEW r \in Requests
  PROVE  /\ TypeOK /\ req \in [Requests -> Request] /\ req[r] \in Request
         /\ req[r].task \in Tasks /\ req[r].status \in Status /\ req[r].mark \in Nat
         /\ log \in [Tasks -> Seq(Status)] /\ status \in [Tasks -> Status]
         /\ Heard(r) /\ Current(r) /\ Logged /\ Worked(r)
BY DEF MInv, IInv, TypeOK, Request

LEMMA SameSockets ==
  ASSUME UNCHANGED sock
  PROVE  /\ InboxesKept /\ SocketsGoOn
         /\ \A r \in Requests, s \in Sockets : From(r, s)' = From(r, s)
BY DEF InboxesKept, SocketsGoOn, From

LEMMA EndedKeepsWord ==
  ASSUME NEW q, NEW end
  PROVE  /\ Ended(q, end).pc = end /\ Ended(q, end).mark = q.mark
         /\ Ended(q, end).sockets = q.sockets
BY DEF Ended, Idle

LEMMA FailTells ==
  ASSUME MInv, IInv', NEW r \in Requests, Fail(r)
  PROVE  MInv'
<1>1. /\ req' = [req EXCEPT ![r] = Ended(req[r], "failed")]
      /\ UNCHANGED <<status, log, sock>>
  BY DEF Fail, table
<1>2. /\ req'[r].pc = "failed" /\ req'[r].mark = req[r].mark
      /\ \A x \in Requests \ {r} : req'[x] = req[x]
  BY <1>1, Local, EndedKeepsWord
<1>3. LogsGrow /\ Logged'
  BY <1>1, Local, SameLogsGrow DEF Logged
<1>4. Heard(r)' /\ Current(r)'
  BY <1>2 DEF Heard, Current, At
<1> QED
  BY <1>1, <1>2, <1>3, <1>4, SameSockets, HandlerKeeps

LEMMA PatchStatusTells ==
  ASSUME MInv, IInv', NEW r \in Requests, PatchStatus(r)
  PROVE  MInv'
<1>1. PICK t \in live, new \in Status :
        /\ At(r, "idle")
        /\ req' = [req EXCEPT ![r].pc = "commit", ![r].task = t,
                              ![r].status = new, ![r].loaded = status[t]]
        /\ UNCHANGED <<table, rooms, sock>>
  BY DEF PatchStatus
<1>2. /\ req'[r].pc = "commit" /\ req'[r].mark = req[r].mark
      /\ req'[r].sockets = req[r].sockets
      /\ \A x \in Requests \ {r} : req'[x] = req[x]
  BY <1>1, Local DEF Request
<1>3. LogsGrow /\ Logged'
  BY <1>1, Local, SameLogsGrow DEF Logged, table
<1>4. Heard(r)' /\ Current(r)'
  BY <1>1, <1>2, Local, SameSockets DEF Heard, Current, At
<1> QED
  BY <1>1, <1>2, <1>3, <1>4, SameSockets, HandlerKeeps

LEMMA AppendGrows ==
  ASSUME NEW S, NEW h \in Seq(S), NEW e \in S
  PROVE  /\ Len(h) \in Nat /\ Len(Append(h, e)) = Len(h) + 1
         /\ Append(h, e)[Len(h) + 1] = e
         /\ \A k \in 1 .. Len(h) : Append(h, e)[k] = h[k]
OBVIOUS

LEMMA UpdateTells ==
  ASSUME MInv, IInv', NEW r \in Requests, UpdateTaskStatus(r)
  PROVE  MInv'
<1>1. CASE Fail(r)
  BY <1>1, FailTells
<1>2. CASE ~Fail(r)
  <2>1. PICK t \in Tasks, new \in Status : t = req[r].task /\ new = req[r].status
    BY Local
  <2>2. /\ status' = IF StatusChanged(req[r]) THEN [status EXCEPT ![t] = new] ELSE status
        /\ log' = IF StatusChanged(req[r]) THEN [log EXCEPT ![t] = Append(@, new)] ELSE log
        /\ req' = [req EXCEPT ![r].pc = "refresh", ![r].mark = Len(log'[t])]
        /\ At(r, "commit") /\ UNCHANGED sock
    BY <1>2, <2>1 DEF UpdateTaskStatus
  <2>3. /\ req'[r].pc = "refresh" /\ req'[r].mark = Len(log'[t]) /\ req'[r].task = t
        /\ req'[r].sockets = req[r].sockets
        /\ \A x \in Requests \ {r} : req'[x] = req[x]
    BY <2>1, <2>2, Local DEF Request
  <2>4. LogsGrow /\ Logged'
    <3>1. CASE StatusChanged(req[r])
      <4>1. /\ log'[t] = Append(log[t], new) /\ status'[t] = new
            /\ \A x \in Tasks \ {t} : log'[x] = log[x] /\ status'[x] = status[x]
        BY <2>2, <3>1, Local
      <4>2. /\ Len(log'[t]) = Len(log[t]) + 1 /\ log'[t][Len(log'[t])] = new
            /\ \A k \in 1 .. Len(log[t]) : log'[t][k] = log[t][k]
            /\ log'[t] # <<>> /\ Len(log[t]) \in Nat
        <5>1. log[t] \in Seq(Status)
          BY Local
        <5>2. /\ Len(log[t]) \in Nat /\ Len(log'[t]) = Len(log[t]) + 1
              /\ log'[t][Len(log[t]) + 1] = new
              /\ \A k \in 1 .. Len(log[t]) : log'[t][k] = log[t][k]
          BY <4>1, <5>1, AppendGrows
        <5>3. log'[t] # <<>>
          BY <5>2
        <5> QED BY <5>2, <5>3
      <4>3. \A x \in Tasks : Len(log[x]) \in Nat
        BY Local
      <4>4. LogsGrow
        BY <4>1, <4>2, <4>3 DEF LogsGrow
      <4>5. Logged'
        BY <4>1, <4>2, Local DEF Logged
      <4> QED BY <4>4, <4>5
    <3>2. CASE ~StatusChanged(req[r])
      BY <2>2, <3>2, Local, SameLogsGrow DEF Logged
    <3> QED BY <3>1, <3>2
  <2>5. Heard(r)'
    BY <2>2, <2>3, Local, SameSockets DEF Heard, At
  <2>6. Current(r)'
    <3>1. Len(log'[t]) \in Nat
      BY DEF IInv, TypeOK
    <3> QED BY <2>3, <3>1 DEF Current, At
  <2>7. \A s \in Sockets : From(r, s) = {}
    BY <2>2, Local DEF Heard, At
  <2> QED
    BY <2>2, <2>3, <2>4, <2>5, <2>6, <2>7, SameSockets, HandlerKeeps
<1> QED
  BY <1>1, <1>2

\* The row is read after the commit: its status is the last of the log.
LEMMA RefreshTells ==
  ASSUME MInv, IInv', NEW r \in Requests, Refresh(r)
  PROVE  MInv'
<1>1. CASE Fail(r)
  BY <1>1, FailTells
<1>2. CASE ~Fail(r)
  <2>1. PICK t \in Tasks : t = req[r].task
    BY Local
  <2>2. /\ req' = [req EXCEPT ![r].pc = "broadcast", ![r].seen = status[t]]
        /\ At(r, "refresh") /\ UNCHANGED <<status, log, sock>>
    BY <1>2, <2>1 DEF Refresh, table
  <2>3. /\ req'[r].pc = "broadcast" /\ req'[r].mark = req[r].mark /\ req'[r].task = t
        /\ req'[r].sockets = req[r].sockets /\ req'[r].seen = status[t]
        /\ \A x \in Requests \ {r} : req'[x] = req[x]
    BY <2>1, <2>2, Local DEF Request
  <2>4. LogsGrow /\ Logged'
    BY <2>2, Local, SameLogsGrow DEF Logged
  <2>5. Heard(r)'
    BY <2>2, <2>3, Local, SameSockets DEF Heard, At
  <2>6. PICK n \in Nat : n = req[r].mark
    BY Local
  <2>7. n <= Len(log[t]) /\ log[t] \in Seq(Status) /\ log[t] # <<>>
        /\ status[t] = log[t][Len(log[t])]
    BY <2>1, <2>2, <2>6, Local DEF Current, Logged
  <2>8. Since(n, t, status[t])
    <3>1. Len(log[t]) \in n .. Len(log[t]) /\ Len(log[t]) > 0
      BY <2>7
    <3> QED BY <2>7, <3>1 DEF Since
  <2>9. Current(r)'
    BY <2>2, <2>3, <2>6, <2>8 DEF Current, Since, At
  <2> QED
    BY <2>2, <2>3, <2>4, <2>5, <2>9, SameSockets, HandlerKeeps
<1> QED
  BY <1>1, <1>2

----------------------------------------------------------------------------
(* The broadcast. *)

LEMMA StartBroadcastTells ==
  ASSUME MInv, IInv', NEW r \in Requests, StartBroadcast(r)
  PROVE  MInv'
<1> DEFINE S == room[project_id[req[r].task]]
<1>1. /\ req' = [req EXCEPT ![r] = IF S = {} THEN Ended(req[r], "done")
                                   ELSE [req[r] EXCEPT !.pc = "send", !.sockets = S,
                                                       !.todo = S, !.dead = {}]]
      /\ At(r, "broadcast") /\ UNCHANGED <<status, log, sock>>
  BY DEF StartBroadcast, table
<1>2. S \subseteq Sockets
  BY Local, FeedAssumption DEF TypeOK
<1> HIDE DEF S
<1>3. /\ req'[r].mark = req[r].mark /\ \A x \in Requests \ {r} : req'[x] = req[x]
      /\ \/ req'[r].pc = "done" /\ req'[r].sockets = req[r].sockets
         \/ /\ req'[r].pc = "send" /\ req'[r].sockets = S /\ req'[r].todo = S
            /\ req'[r].task = req[r].task /\ req'[r].seen = req[r].seen
  BY <1>1, Local, EndedKeepsWord DEF Request
<1>4. LogsGrow /\ Logged'
  BY <1>1, Local, SameLogsGrow DEF Logged
<1>5. req[r].sockets = {} /\ \A s \in Sockets : From(r, s)' = {}
  BY <1>1, Local, SameSockets DEF Heard, At
<1>6. Heard(r)'
  BY <1>2, <1>3, <1>5 DEF Heard, At
<1>7. Current(r)'
  <2>1. CASE req'[r].pc = "done"
    BY <2>1 DEF Current, At
  <2>2. CASE req'[r].pc = "send" /\ req'[r].task = req[r].task /\ req'[r].seen = req[r].seen
    <3>1. PICK n, t, st : n = req[r].mark /\ t = req[r].task /\ st = req[r].seen
      OBVIOUS
    <3>2. Since(n, t, st)
      BY <1>1, <3>1, Local DEF Current, At
    <3>3. Since(n, t, st)'
      BY <1>1, <3>2 DEF Since
    <3> QED BY <1>3, <2>2, <3>1, <3>3 DEF Current, At
  <2> QED BY <1>3, <2>1, <2>2
<1> QED
  BY <1>1, <1>3, <1>4, <1>6, <1>7, SameSockets, HandlerKeeps

LEMMA AfterSendGoesOn ==
  ASSUME MInv, NEW r \in Requests, NEW s \in req[r].todo, NEW raised \in BOOLEAN,
         AfterSend(r, s, raised)
  PROVE  /\ req'[r].mark = req[r].mark /\ req'[r].sockets = req[r].sockets
         /\ \A x \in Requests \ {r} : req'[x] = req[x]
         /\ \/ req'[r].pc = "done" /\ req[r].todo \ {s} = {}
            \/ /\ req'[r].pc = req[r].pc /\ req'[r].todo = req[r].todo \ {s}
               /\ req'[r].task = req[r].task /\ req'[r].seen = req[r].seen
<1> DEFINE todo == req[r].todo \ {s}
           dead == IF raised THEN req[r].dead \cup {s} ELSE req[r].dead
<1>1. req' = [req EXCEPT ![r] = IF todo = {} THEN Ended(req[r], "done")
                                ELSE [req[r] EXCEPT !.todo = todo, !.dead = dead]]
  BY Local DEF AfterSend, Remaining, Request
<1> HIDE DEF todo, dead
<1>2. \/ req'[r] = Ended(req[r], "done") /\ todo = {}
      \/ req'[r] = [req[r] EXCEPT !.todo = todo, !.dead = dead]
  BY <1>1, Local
<1> QED
  BY <1>1, <1>2, Local, EndedKeepsWord DEF Request, todo

\* A send that delivers: one more message in one inbox, of one request.
LEMMA DeliveredTells ==
  ASSUME MInv, IInv', NEW r \in Requests, At(r, "send"), NEW s \in req[r].todo,
         SocketAt(s, "open"), UNCHANGED <<status, log>>,
         sock' = [sock EXCEPT ![s].inbox =
                    Append(@, [from |-> r, task |-> req[r].task, status |-> Announced(req[r])])],
         AfterSend(r, s, FALSE)
  PROVE  MInv'
<1>1. /\ s \in Sockets /\ sock \in [Sockets -> Socket] /\ sock[s].inbox \in Seq(Message)
      /\ req[r].seen \in Status /\ TypeOK'
      /\ s \in req[r].sockets /\ req[r].todo \subseteq req[r].sockets
      /\ req[r].sockets \subseteq Sockets
  BY DEF MInv, IInv, TypeOK, Request, Socket
<1>2. PICK m \in Message : m = [from |-> r, task |-> req[r].task, status |-> req[r].seen]
  BY <1>1, Local DEF Message
<1>3. /\ sock'[s].inbox = Append(sock[s].inbox, m)
      /\ \A x \in Sockets : sock'[x].pc = sock[x].pc
      /\ \A x \in Sockets \ {s} : sock'[x] = sock[x]
  BY <1>1, <1>2 DEF Announced, Socket
<1>4. PICK n \in Nat : n = Len(sock[s].inbox) + 1
  BY <1>1
<1>5. /\ DOMAIN sock[s].inbox = 1 .. n - 1 /\ DOMAIN sock'[s].inbox = 1 .. n
      /\ sock'[s].inbox[n] = m
      /\ \A i \in 1 .. n - 1 : sock'[s].inbox[i] = sock[s].inbox[i]
  <2>1. /\ Len(sock'[s].inbox) = n /\ sock'[s].inbox[n] = m
        /\ \A i \in 1 .. Len(sock[s].inbox) : sock'[s].inbox[i] = sock[s].inbox[i]
    BY <1>1, <1>3, <1>4, AppendGrows
  <2>2. DOMAIN sock[s].inbox = 1 .. Len(sock[s].inbox) /\ Len(sock[s].inbox) = n - 1
    BY <1>1, <1>4
  <2>3. DOMAIN sock'[s].inbox = 1 .. Len(sock'[s].inbox)
    BY <1>1, <1>3
  <2> QED BY <2>1, <2>2, <2>3
<1>6. n \in 1 .. n /\ n \notin 1 .. n - 1 /\ 1 .. n = (1 .. n - 1) \cup {n}
  BY <1>4, <1>1
<1>7. /\ From(r, s)' = From(r, s) \cup {n}
      /\ \A y \in Requests \ {r} : From(y, s)' = From(y, s)
      /\ \A y \in Requests : \A x \in Sockets \ {s} : From(y, x)' = From(y, x)
  <2>1. m.from = r
    BY <1>2
  <2> QED BY <1>3, <1>5, <1>6, <2>1 DEF From
<1>8. /\ HeardOnce(r, s)'
      /\ \A y \in Requests, x \in Sockets :
           (y # r \/ x # s) /\ HeardOnce(y, x) => HeardOnce(y, x)'
  <2>1. From(r, s) = {}
    BY Local DEF Heard
  <2>2. HeardOnce(r, s)'
    BY <1>5, <1>6, <1>7, <2>1 DEF HeardOnce
  <2>3. ASSUME NEW y \in Requests, NEW x \in Sockets, y # r \/ x # s, HeardOnce(y, x)
        PROVE  HeardOnce(y, x)'
    <3>1. PICK i \in DOMAIN sock[x].inbox : From(y, x) = {i}
      BY <2>3 DEF HeardOnce
    <3>2. From(y, x)' = {i}
      BY <1>7, <2>3, <3>1
    <3>3. i \in DOMAIN sock'[x].inbox
      BY <3>2 DEF From
    <3> QED BY <3>2, <3>3 DEF HeardOnce
  <2> QED BY <2>2, <2>3
<1>9. /\ req'[r].mark = req[r].mark /\ req'[r].sockets = req[r].sockets
      /\ \A x \in Requests \ {r} : req'[x] = req[x]
      /\ \/ req'[r].pc = "done" /\ req[r].todo \ {s} = {}
         \/ /\ req'[r].pc = req[r].pc /\ req'[r].todo = req[r].todo \ {s}
            /\ req'[r].task = req[r].task /\ req'[r].seen = req[r].seen
  BY AfterSendGoesOn
<1>10. LogsGrow /\ Logged'
  BY Local, SameLogsGrow DEF Logged
<1>11. Heard(r)'
  <2>1. /\ \A x \in req[r].todo : From(r, x) = {}
        /\ \A x \in req[r].sockets \ req[r].todo : SocketAt(x, "open") => HeardOnce(r, x)
    BY Local DEF Heard
  <2>2. \A x \in req[r].todo \ {s} : From(r, x)' = {}
    BY <1>1, <1>7, <2>1
  <2>3. \A x \in req[r].sockets \ (req[r].todo \ {s}) :
          SocketAt(x, "open")' => HeardOnce(r, x)'
    BY <1>1, <1>3, <1>8, <2>1 DEF SocketAt
  <2> QED BY <1>9, <2>2, <2>3 DEF Heard, At
<1>12. ASSUME NEW y \in Requests \ {r} PROVE Heard(y)'
  <2>1. req'[y] = req[y] /\ Heard(y) /\ req[y].sockets \subseteq Sockets
        /\ req[y].todo \subseteq Sockets
    BY <1>9, Local DEF Request
  <2>2. \A x \in Sockets : From(y, x)' = From(y, x) /\ (HeardOnce(y, x) => HeardOnce(y, x)')
                           /\ SocketAt(x, "open")' = SocketAt(x, "open")
    BY <1>3, <1>7, <1>8 DEF SocketAt
  <2> QED BY <2>1, <2>2 DEF Heard, At
<1>13. ASSUME NEW y \in Requests PROVE Current(y)'
  <2>1. CASE y = r
    BY <1>9, <2>1, Local DEF Current, Since, At
  <2>2. CASE y # r
    BY <1>1, <1>9, <1>10, <2>2, CurrentKept
  <2> QED BY <2>1, <2>2
<1>14. MessagesAreFresh'
  <2>1. \A y \in Requests : req'[y].mark = req[y].mark
    BY <1>9
  <2>2. \E k \in req'[r].mark .. Len(log'[req[r].task]) : k > 0 /\ log'[req[r].task][k] = m.status
    <3>1. Since(req[r].mark, req[r].task, req[r].seen)
      BY Local DEF Current, At
    <3>2. m.status = req[r].seen
      BY <1>2
    <3> QED BY <1>9, <3>1, <3>2 DEF Since
  <2>3. m.from = r /\ m.task = req[r].task
    BY <1>2
  <2>4. ASSUME NEW x \in Sockets, NEW i \in DOMAIN sock'[x].inbox
        PROVE  \/ i \in DOMAIN sock[x].inbox /\ sock'[x].inbox[i] = sock[x].inbox[i]
               \/ LET w == sock'[x].inbox[i] IN
                  \E k \in req'[w.from].mark .. Len(log'[w.task]) :
                    k > 0 /\ log'[w.task][k] = w.status
    <3>1. CASE x = s /\ i = n
      BY <1>5, <2>2, <2>3, <3>1
    <3>2. CASE ~(x = s /\ i = n)
      BY <1>3, <1>5, <1>6, <3>2
    <3> QED BY <3>1, <3>2
  <2> QED BY <1>1, <1>10, <2>1, <2>4, FreshKept
<1> QED
  BY <1>10, <1>11, <1>12, <1>13, <1>14 DEF MInv

LEMMA SendTells ==
  ASSUME MInv, IInv', NEW r \in Requests, Send(r)
  PROVE  MInv'
<1>1. PICK s \in req[r].todo :
        \/ /\ SocketAt(s, "open")
           /\ sock' = [sock EXCEPT ![s].inbox =
                         Append(@, [from |-> r, task |-> req[r].task,
                                    status |-> Announced(req[r])])]
           /\ AfterSend(r, s, FALSE)
        \/ /\ ~SocketAt(s, "open")
           /\ \E raised \in BOOLEAN : AfterSend(r, s, raised)
           /\ UNCHANGED sock
  BY DEF Send
<1>2. At(r, "send") /\ UNCHANGED <<status, log>> /\ s \in Sockets
  BY Local DEF Send, table, Request
<1>3. CASE SocketAt(s, "open")
  BY <1>1, <1>2, <1>3, DeliveredTells
<1>4. CASE ~SocketAt(s, "open")
  <2>1. PICK raised \in BOOLEAN : AfterSend(r, s, raised) /\ UNCHANGED sock
    BY <1>1, <1>4
  <2>2. /\ req'[r].mark = req[r].mark /\ req'[r].sockets = req[r].sockets
        /\ \A x \in Requests \ {r} : req'[x] = req[x]
        /\ \/ req'[r].pc = "done" /\ req[r].todo \ {s} = {}
           \/ /\ req'[r].pc = "send" /\ req'[r].todo = req[r].todo \ {s}
              /\ req'[r].task = req[r].task /\ req'[r].seen = req[r].seen
    BY <1>2, <2>1, AfterSendGoesOn DEF At
  <2>3. LogsGrow /\ Logged'
    BY <1>2, Local, SameLogsGrow DEF Logged
  <2>4. Heard(r)'
    <3>1. /\ \A x \in req[r].todo : From(r, x) = {}
          /\ \A x \in req[r].sockets \ req[r].todo : SocketAt(x, "open") => HeardOnce(r, x)
          /\ req[r].todo \subseteq Sockets
      BY <1>2, Local DEF Heard, Request
    <3>2. \A x : From(r, x)' = From(r, x) /\ HeardOnce(r, x)' = HeardOnce(r, x)
                 /\ SocketAt(x, "open")' = SocketAt(x, "open")
      BY <2>1 DEF From, HeardOnce, SocketAt
    <3>3. \A x \in req[r].todo \ {s} : From(r, x)' = {}
      BY <3>1, <3>2
    <3>4. \A x \in req[r].sockets \ (req[r].todo \ {s}) :
            SocketAt(x, "open")' => HeardOnce(r, x)'
      BY <1>4, <3>1, <3>2
    <3> QED BY <2>2, <3>3, <3>4 DEF Heard, At
  <2>5. Current(r)'
    <3>1. CASE req'[r].pc = "done"
      BY <3>1 DEF Current, At
    <3>2. CASE req'[r].pc = "send" /\ req'[r].task = req[r].task /\ req'[r].seen = req[r].seen
      <4>1. PICK n, t, st : n = req[r].mark /\ t = req[r].task /\ st = req[r].seen
        OBVIOUS
      <4>2. Since(n, t, st)
        BY <1>2, <4>1, Local DEF Current, At
      <4>3. Since(n, t, st)'
        BY <1>2, <4>2 DEF Since
      <4> QED BY <2>2, <3>2, <4>1, <4>3 DEF Current, At
    <3> QED BY <2>2, <3>1, <3>2
  <2> QED
    BY <2>1, <2>2, <2>3, <2>4, <2>5, SameSockets, HandlerKeeps
<1> QED
  BY <1>3, <1>4

\* A crash leaves no open socket, and no handler that goes on.
LEMMA CrashTells ==
  ASSUME MInv, IInv', Crash
  PROVE  MInv'
<1>1. /\ UNCHANGED <<status, log>>
      /\ sock' = [s \in Sockets |-> IF SocketAt(s, "new") THEN sock[s] ELSE Gone(s, "left")]
      /\ req' = [r \in Requests |->
                   IF InFlight(r) THEN Ended(req[r], "crashed") ELSE req[r]]
  BY DEF Crash, table
<1>2. TypeOK /\ TypeOK' /\ LogsGrow /\ Logged'
  BY <1>1, SameLogsGrow DEF MInv, IInv, Logged
<1>3. ASSUME NEW s \in Sockets
      PROVE  /\ sock'[s].pc \in {"new", "left"}
             /\ sock'[s].inbox = sock[s].inbox \/ sock'[s].inbox = <<>>
  BY <1>1, <1>2 DEF TypeOK, Socket, Gone, SocketAt
<1>4. InboxesKept
  BY <1>3 DEF InboxesKept
<1>5. ASSUME NEW r \in Requests
      PROVE  /\ req'[r].mark = req[r].mark
             /\ \/ req'[r].pc = "crashed"
                \/ req'[r] = req[r] /\ req[r].pc \in Ends \cup {"idle"}
  BY <1>1, EndedKeepsWord DEF InFlight
<1>6. ASSUME NEW r \in Requests PROVE Heard(r)' /\ Current(r)'
  <2>1. CASE req'[r].pc = "crashed"
    BY <2>1 DEF Heard, Current, At
  <2>2. CASE req'[r] = req[r] /\ req[r].pc = "idle"
    <3>1. req[r].sockets = {} /\ \A s \in Sockets : From(r, s) = {}
      BY <2>2 DEF MInv, Heard
    <3>2. \A s \in Sockets : From(r, s)' = {}
      BY <1>3, <3>1 DEF From
    <3> QED BY <2>2, <3>1, <3>2 DEF Heard, Current, At
  <2>3. CASE req'[r] = req[r] /\ req[r].pc \in Ends
    <3>1. req[r].sockets \subseteq Sockets
      BY <1>2 DEF TypeOK, Request
    <3>2. \A s \in Sockets : ~SocketAt(s, "open")'
      BY <1>3 DEF SocketAt
    <3> QED BY <2>3, <3>1, <3>2 DEF Heard, Current, At, Ends
  <2> QED BY <1>5, <2>1, <2>2, <2>3
<1>7. \A s \in Sockets : \A i \in DOMAIN sock'[s].inbox :
        i \in DOMAIN sock[s].inbox /\ sock'[s].inbox[i] = sock[s].inbox[i]
  BY <1>4 DEF InboxesKept
<1>8. MessagesAreFresh'
  BY <1>2, <1>5, <1>7, FreshKept
<1> QED
  BY <1>2, <1>6, <1>8 DEF MInv

----------------------------------------------------------------------------
(* The theorems. *)

LEMMA InitMInv == Init => MInv
<1> SUFFICES ASSUME Init PROVE MInv
  OBVIOUS
<1>1. PICK p \in [Sockets -> Projects] :
        sock = [s \in Sockets |-> [pc |-> "new", project |-> p[s], inbox |-> <<>>]]
  BY DEF Init
<1>2. PICK t \in Tasks : req = [r \in Requests |-> Idle(t)]
  BY DEF Init
<1>3. \A r \in Requests : req[r].pc = "idle" /\ req[r].sockets = {}
  BY <1>2 DEF Idle
<1>4. \A s \in Sockets : sock[s].inbox = <<>>
  BY <1>1
<1>5. Logged
  BY DEF Init, Logged
<1>6. \A r \in Requests : Heard(r) /\ Current(r)
  BY <1>3, <1>4 DEF Heard, Current, From, At
<1>7. MessagesAreFresh
  BY <1>4 DEF MessagesAreFresh
<1> QED
  BY InitIInv, <1>5, <1>6, <1>7 DEF MInv

LEMMA NextTells == MInv /\ [Next]_vars => MInv'
<1> SUFFICES ASSUME MInv, [Next]_vars PROVE MInv'
  OBVIOUS
<1>0. IInv'
  BY NextKeeps DEF MInv
<1>1. ASSUME NEW r \in Requests, PatchStatus(r) \/ Step(r) PROVE MInv'
  BY <1>0, <1>1, PatchStatusTells, UpdateTells, RefreshTells, StartBroadcastTells, SendTells
  DEF Step
<1>2. ASSUME NEW s \in Sockets, SocketStep(s) PROVE MInv'
  BY <1>0, <1>2, SocketStepTells
<1>3. CASE DeleteTask
  BY <1>0, <1>3, UnchangedTells DEF DeleteTask
<1>4. CASE Crash
  BY <1>0, <1>4, CrashTells
<1>5. CASE UNCHANGED vars
  BY <1>0, <1>5, UnchangedTells DEF vars
<1> QED
  BY <1>1, <1>2, <1>3, <1>4, <1>5 DEF Next, Quiet

LEMMA MessageInvariant == Spec => []MInv
<1>1. MInv /\ [Next]_vars => MInv'
  BY NextTells
<1> QED
  BY InitMInv, <1>1, PTL DEF Spec

\* A broadcast that ends has reached every socket that was in the room when it
\* began and is still open, exactly once, whichever other sockets came, left or
\* failed meanwhile (ConnectionManager.broadcast).
THEOREM BroadcastsReachAll == Spec => []BroadcastReachesAll
<1>1. MInv => BroadcastReachesAll
  BY DEF MInv, Heard, HeardOnce, BroadcastReachesAll
<1> QED
  BY <1>1, MessageInvariant, PTL

\* A message tells a status the task has had since its sender's commit: the
\* row is refreshed between the commit and the broadcast (update_task_status).
THEOREM NoStaleMessages == Spec => []MessagesAreFresh
<1>1. MInv => MessagesAreFresh
  BY DEF MInv
<1> QED
  BY <1>1, MessageInvariant, PTL
=============================================================================
