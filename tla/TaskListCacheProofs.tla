------------------------- MODULE TaskListCacheProofs -------------------------
(***************************************************************************)
(* Theorems about TaskListCache, for any projects, keys, requests and size *)
(* of the pool: types, connections, and what an invalidation achieves.     *)
(***************************************************************************)
EXTENDS TaskListCache, FiniteSetTheorems, TLAPS

\* What a handler has read or committed is no newer than the tables, and one
\* that has not begun has read nothing.
Real(r) ==
  /\ req[r].version <= version[req[r].project]
  /\ At(r, "idle") => req[r].version = 0

\* The lists of p that have been read and not stored are no older than v.
NoneOlderUnderWay(p, v) ==
  \A x \in Requests :
    At(x, "store") /\ req[x].project = p => v <= req[x].version

\* Where a clear invalidation has still to look for an older entry.
Remaining(q) ==
  CASE q.pc = "scan"   -> q.todo \cup q.found
    [] q.pc = "unlink" -> q.found
    [] OTHER           -> {}

\* While a scan is clear, no older list is under way, and every older entry is
\* under a key that it has still to visit or has found.
Cleared(r) ==
  req[r].clear =>
    /\ req[r].pc \in {"scan", "unlink", "done"}
    /\ NoneOlderUnderWay(req[r].project, req[r].version)
    /\ \A l \in Lists :
         Older(req[r].project, l, req[r].version) => l \in Remaining(req[r])

IInv ==
  /\ TypeOK
  /\ IsFiniteSet(conns)
  /\ ConnectionsReturned
  /\ \A r \in Requests : Real(r)
  /\ \A r \in Requests : Cleared(r)

----------------------------------------------------------------------------
(* Local states. *)

LEMMA EndedFacts ==
  ASSUME NEW q \in Request, NEW end \in Ends
  PROVE  /\ Ended(q, end) \in Request
         /\ Ended(q, end).pc = end /\ Ended(q, end).project = q.project
         /\ Ended(q, end).version \in {0, q.version}
         /\ Ended(q, end).clear =>
              end = "done" /\ q.clear /\ Ended(q, end).version = q.version
<1>1. q.clear \in BOOLEAN /\ q.version \in Nat /\ q.op \in Ops /\ "list" \in Ops
  BY DEF Request, Ops
<1> DEFINE clear == q.clear /\ end = "done"
           kept == clear \/ q.op = "delete"
           op == IF kept THEN q.op ELSE "list"
           v == IF kept THEN q.version ELSE 0
<1>2. Ended(q, end) = [q EXCEPT !.pc = end, !.list = None, !.todo = {}, !.found = {},
                                !.clear = clear, !.op = op, !.version = v]
  BY DEF Ended
<1>3. clear \in BOOLEAN /\ op \in Ops /\ v \in Nat /\ v \in {0, q.version}
      /\ (clear => end = "done" /\ q.clear /\ v = q.version)
  BY <1>1
<1> HIDE DEF clear, op, v
<1> QED
  BY <1>2, <1>3 DEF Request

\* A step of a handler is about its own local state only.
Own(r) ==
  /\ req' \in [Requests -> Request]
  /\ \A x \in Requests \ {r} : req'[x] = req[x]

LEMMA OwnByUpdate ==
  ASSUME TypeOK, NEW r \in Requests, NEW q \in Request, req' = [req EXCEPT ![r] = q]
  PROVE  Own(r) /\ req'[r] = q
BY DEF TypeOK, Own

LEMMA OwnByEnd ==
  ASSUME TypeOK, NEW r \in Requests, NEW end \in Ends, End(r, end)
  PROVE  /\ Own(r) /\ req'[r].pc = end /\ req'[r].project = req[r].project
         /\ req'[r].version \in {0, req[r].version}
         /\ req'[r].clear =>
              end = "done" /\ req[r].clear /\ req'[r].version = req[r].version
<1>1. req[r] \in Request /\ req' = [req EXCEPT ![r] = Ended(req[r], end)]
  BY DEF TypeOK, End
<1>2. Ended(req[r], end) \in Request
  BY <1>1, EndedFacts
<1>3. Own(r) /\ req'[r] = Ended(req[r], end)
  BY <1>1, <1>2, OwnByUpdate
<1> QED
  BY <1>1, <1>3, EndedFacts

LEMMA OwnByGoto ==
  ASSUME TypeOK, NEW r \in Requests, NEW point \in Points \cup Ends, Goto(r, point)
  PROVE  Own(r) /\ req'[r] \in Request /\ req'[r] = [req[r] EXCEPT !.pc = point]
<1>1. req[r] \in Request /\ [req[r] EXCEPT !.pc = point] \in Request
  BY DEF TypeOK, Request
<1>2. req' = [req EXCEPT ![r] = [req[r] EXCEPT !.pc = point]]
  BY <1>1 DEF TypeOK, Goto
<1> QED
  BY <1>1, <1>2, OwnByUpdate

----------------------------------------------------------------------------
(* What any step of a handler keeps. *)

\* Connections: they are only given back, and kept by a handler at work.
LEMMA ConnectionsKept ==
  ASSUME IInv, NEW r \in Requests, Own(r), UNCHANGED sockets,
         conns' \in {conns, conns \ {r}},
         r \in conns' => req'[r].pc \notin Ends \cup {"idle", "connect", "refresh"}
  PROVE  conns' \subseteq Requests /\ IsFiniteSet(conns') /\ ConnectionsReturned'
<1>1. conns \subseteq Requests /\ IsFiniteSet(conns) /\ sockets \in Nat /\ PoolSize \in Nat
  BY CacheAssumption DEF IInv, TypeOK
<1>2. conns' \subseteq conns
  OBVIOUS
<1>3. /\ IsFiniteSet(conns') /\ Cardinality(conns') <= Cardinality(conns)
      /\ Cardinality(conns) \in Nat /\ Cardinality(conns') \in Nat
  BY <1>1, <1>2, FS_Subset, FS_CardinalityType
<1>4. Cardinality(conns) + sockets <= PoolSize
  BY DEF IInv, ConnectionsReturned
<1>5. Cardinality(conns') + sockets' <= PoolSize
  BY <1>1, <1>3, <1>4
<1>6. ASSUME NEW x \in conns'
      PROVE  InFlight(x)' /\ req'[x].pc \notin {"connect", "refresh"}
  <2>1. CASE x = r
    BY <1>6, <2>1 DEF InFlight
  <2>2. CASE x # r
    BY <1>1, <1>2, <2>2 DEF IInv, ConnectionsReturned, InFlight, Own
  <2> QED BY <2>1, <2>2
<1> QED
  BY <1>1, <1>2, <1>3, <1>5, <1>6 DEF ConnectionsReturned

\* Entries go, or are the list that the handler had read; a list that a handler
\* has just read is the newest.
Fills(r) ==
  /\ version' \in [Projects -> Nat] /\ cache' \in [Projects -> [Lists -> Nat \cup {None}]]
  /\ \A p \in Projects : version[p] <= version'[p]
  /\ \A p \in Projects, l \in Lists :
       \/ cache'[p][l] \in {None, cache[p][l]}
       \/ At(r, "store") /\ req[r].project = p /\ cache'[p][l] = req[r].version
  /\ req'[r].pc = "store" => req'[r].version = version[req'[r].project]

LEMMA EntriesAreReal ==
  ASSUME IInv, NEW r \in Requests, Fills(r)
  PROVE  \A p \in Projects, l \in Lists : cache'[p][l] # None => cache'[p][l] <= version'[p]
<1> SUFFICES ASSUME NEW p \in Projects, NEW l \in Lists, cache'[p][l] # None
             PROVE  cache'[p][l] <= version'[p]
  OBVIOUS
<1>1. /\ version[p] \in Nat /\ version'[p] \in Nat /\ version[p] <= version'[p]
      /\ cache[p][l] \in Nat \cup {None} /\ cache'[p][l] \in Nat
  BY DEF IInv, TypeOK, Fills
<1>2. CASE cache'[p][l] = cache[p][l]
  BY <1>1, <1>2 DEF IInv, TypeOK
<1>3. CASE req[r].project = p /\ cache'[p][l] = req[r].version
  BY <1>1, <1>3 DEF IInv, Real
<1> QED
  BY <1>2, <1>3 DEF Fills

\* What a clear invalidation has achieved, nobody's step undoes.
LEMMA ClearStays ==
  ASSUME IInv, NEW r \in Requests, Own(r), Fills(r),
         NEW p \in Projects, NEW v \in Nat, v <= version[p], NoneOlderUnderWay(p, v)
  PROVE  /\ \A x \in Requests : req'[x].pc = "store" /\ req'[x].project = p => v <= req'[x].version
         /\ \A l \in Lists : cache'[p][l] # None /\ cache'[p][l] < v => Older(p, l, v)
<1>1. req[r] \in Request /\ req[r].version \in Nat /\ version[p] \in Nat
  BY DEF IInv, TypeOK, Request
<1>2. ASSUME NEW x \in Requests, req'[x].pc = "store", req'[x].project = p
      PROVE  v <= req'[x].version
  BY <1>1, <1>2 DEF NoneOlderUnderWay, Own, Fills, At
<1>3. ASSUME NEW l \in Lists, cache'[p][l] # None, cache'[p][l] < v
      PROVE  Older(p, l, v)
  <2>1. CASE cache'[p][l] = cache[p][l]
    BY <1>3, <2>1 DEF Older
  <2>2. CASE At(r, "store") /\ req[r].project = p /\ cache'[p][l] = req[r].version
    BY <1>1, <1>3, <2>2 DEF NoneOlderUnderWay
  <2> QED BY <1>3, <2>1, <2>2 DEF Fills
<1> QED
  BY <1>2, <1>3

LEMMA OthersCleared ==
  ASSUME IInv, NEW r \in Requests, Own(r), Fills(r), NEW x \in Requests,
         req'[x].clear =>
           /\ req[x].clear /\ req'[x].pc \in {"scan", "unlink", "done"}
           /\ req'[x].project = req[x].project /\ req'[x].version = req[x].version
           /\ \A l \in Remaining(req[x]) :
                cache'[req[x].project][l] = None \/ l \in Remaining(req'[x])
  PROVE  Cleared(x)'
<1> SUFFICES ASSUME req'[x].clear PROVE Cleared(x)'
  BY DEF Cleared
<1>1. /\ req[x] \in Request /\ req[x].project \in Projects /\ req[x].version \in Nat
      /\ req[x].version <= version[req[x].project]
  BY DEF IInv, TypeOK, Request, Real
<1>2. PICK p \in Projects, v \in Nat : p = req[x].project /\ v = req[x].version
  BY <1>1
<1>3. /\ NoneOlderUnderWay(p, v)
      /\ \A l \in Lists : Older(p, l, v) => l \in Remaining(req[x])
  BY <1>2 DEF IInv, Cleared
<1>4. /\ \A y \in Requests : req'[y].pc = "store" /\ req'[y].project = p => v <= req'[y].version
      /\ \A l \in Lists : cache'[p][l] # None /\ cache'[p][l] < v => Older(p, l, v)
  BY <1>1, <1>2, <1>3, ClearStays
<1>5. \A l \in Lists : cache'[p][l] # None /\ cache'[p][l] < v => l \in Remaining(req'[x])
  BY <1>2, <1>3, <1>4
<1> QED
  BY <1>2, <1>4, <1>5 DEF Cleared, NoneOlderUnderWay, Older, At

\* What is to be shown of one step of a handler.
LEMMA HandlerKeeps ==
  ASSUME IInv, NEW r \in Requests, Own(r), Fills(r), sockets' \in Nat,
         conns' \subseteq Requests /\ IsFiniteSet(conns') /\ ConnectionsReturned',
         Real(r)', Cleared(r)'
  PROVE  IInv'
<1>1. TypeOK'
  BY EntriesAreReal DEF IInv, TypeOK, Own, Fills
<1>2. ASSUME NEW x \in Requests PROVE Real(x)'
  <2>1. CASE x = r
    BY <2>1
  <2>2. CASE x # r
    <3>1. /\ req'[x] = req[x] /\ req[x].project \in Projects /\ req[x].version \in Nat
      BY <2>2 DEF IInv, TypeOK, Request, Own
    <3>2. /\ version[req[x].project] \in Nat /\ version'[req[x].project] \in Nat
          /\ version[req[x].project] <= version'[req[x].project]
      BY <3>1 DEF IInv, TypeOK, Fills
    <3> QED
      BY <3>1, <3>2 DEF IInv, Real, At
  <2> QED BY <2>1, <2>2
<1>3. ASSUME NEW x \in Requests PROVE Cleared(x)'
  <2>1. CASE x = r
    BY <2>1
  <2>2. CASE x # r
    <3>1. req'[x] = req[x]
      BY <2>2 DEF Own
    <3>2. req[x].clear => req[x].pc \in {"scan", "unlink", "done"}
      BY DEF IInv, Cleared
    <3> QED
      BY <3>1, <3>2, OthersCleared
  <2> QED BY <2>1, <2>2
<1> QED
  BY <1>1, <1>2, <1>3 DEF IInv

\* Most steps leave the tables and the entries alone, and are no invalidation.
LEMMA PlainStep ==
  ASSUME IInv, NEW r \in Requests, Own(r), UNCHANGED <<version, cache, sockets>>,
         conns' \subseteq Requests /\ IsFiniteSet(conns') /\ ConnectionsReturned',
         req'[r].pc \notin {"idle", "store"}, ~req'[r].clear,
         req'[r].version <= version[req'[r].project]
  PROVE  IInv'
<1>1. Fills(r)
  BY DEF IInv, TypeOK, Fills
<1>2. Real(r)' /\ Cleared(r)'
  BY DEF Real, Cleared, At
<1> QED
  BY <1>1, <1>2, HandlerKeeps DEF IInv, TypeOK

\* A handler that ends: it keeps its word only when it is an invalidation's.
LEMMA EndKeeps ==
  ASSUME IInv, NEW r \in Requests, NEW end \in Ends, End(r, end), UNCHANGED sockets,
         conns' \subseteq Requests /\ IsFiniteSet(conns') /\ ConnectionsReturned',
         Fills(r),
         end = "done" /\ req[r].clear =>
           \A l \in Remaining(req[r]) : cache'[req[r].project][l] = None
  PROVE  IInv'
<1>1. /\ Own(r) /\ req'[r].pc = end /\ req'[r].project = req[r].project
      /\ req'[r].version \in {0, req[r].version}
      /\ req'[r].clear => end = "done" /\ req[r].clear /\ req'[r].version = req[r].version
  BY OwnByEnd DEF IInv
<1>2. /\ req[r] \in Request /\ req[r].project \in Projects /\ req[r].version \in Nat
      /\ version[req[r].project] \in Nat /\ version'[req[r].project] \in Nat
      /\ version[req[r].project] <= version'[req[r].project]
      /\ req[r].version <= version[req[r].project]
  BY DEF IInv, TypeOK, Request, Fills, Real
<1>3. Real(r)'
  <2>1. req'[r].version <= version'[req[r].project]
    BY <1>1, <1>2
  <2> QED
    BY <1>1, <2>1 DEF Real, At, Ends
<1>4. Cleared(r)'
  BY <1>1, OthersCleared DEF Remaining
<1> QED
  BY <1>1, <1>3, <1>4, HandlerKeeps DEF IInv, TypeOK

----------------------------------------------------------------------------
(* The steps of a handler. *)

LEMMA NotYetClear ==
  ASSUME IInv, NEW r \in Requests, req[r].pc \notin {"scan", "unlink", "done"}
  PROVE  ~req[r].clear
BY DEF IInv, Cleared

LEMMA Local ==
  ASSUME IInv, NEW r \in Requests
  PROVE  /\ TypeOK /\ req[r] \in Request /\ req[r].project \in Projects
         /\ req[r].version \in Nat /\ req[r].version <= version[req[r].project]
         /\ req[r].todo \subseteq Lists /\ req[r].found \subseteq Lists
         /\ version \in [Projects -> Nat] /\ cache \in [Projects -> [Lists -> Nat \cup {None}]]
         /\ conns \subseteq Requests /\ sockets \in Nat
BY DEF IInv, TypeOK, Request, Real

LEMMA ArriveKeeps ==
  ASSUME IInv, NEW r \in Requests, Arrive(r)
  PROVE  IInv'
<1>1. PICK op \in Ops, p \in Projects, l \in Lists :
        /\ At(r, "idle")
        /\ req' = [req EXCEPT ![r].pc = "connect", ![r].op = op, ![r].project = p,
                              ![r].list = IF op = "list" THEN l ELSE None]
        /\ UNCHANGED <<version, cache, pool>>
  BY DEF Arrive
<1> DEFINE list == IF op = "list" THEN l ELSE None
           q == [req[r] EXCEPT !.pc = "connect", !.op = op, !.project = p, !.list = list]
<1>2. q \in Request
  <2>1. list \in Lists \cup {None} /\ req[r] \in Request
    BY Local
  <2> HIDE DEF list
  <2> QED BY <2>1 DEF Request, Points
<1>3. req' = [req EXCEPT ![r] = q]
  BY <1>1, Local DEF TypeOK, Request
<1> HIDE DEF q
<1>4. Own(r) /\ req'[r] = q
  BY <1>2, <1>3, Local, OwnByUpdate
<1>5. q.pc = "connect" /\ q.version = 0 /\ ~q.clear /\ q.project = p
  <2>1. req[r] \in Request /\ req[r].version = 0 /\ ~req[r].clear
    BY <1>1, Local, NotYetClear DEF At, IInv, Real
  <2> QED BY <2>1 DEF q, Request
<1>6. r \notin conns
  BY <1>1 DEF IInv, ConnectionsReturned, InFlight, At
<1>7. conns' \subseteq Requests /\ IsFiniteSet(conns') /\ ConnectionsReturned'
  BY <1>1, <1>4, <1>6, ConnectionsKept DEF pool
<1>8. 0 <= version[p]
  BY Local
<1> QED
  BY <1>1, <1>4, <1>5, <1>7, <1>8, PlainStep DEF pool

\* The only step that takes a connection and keeps it across a point.
LEMMA ConnectionTaken ==
  ASSUME IInv, NEW r \in Requests, Own(r), UNCHANGED sockets, Free, conns' = conns \cup {r},
         req'[r].pc \notin Ends \cup {"idle", "connect", "refresh"}
  PROVE  conns' \subseteq Requests /\ IsFiniteSet(conns') /\ ConnectionsReturned'
<1>1. conns \subseteq Requests /\ IsFiniteSet(conns) /\ sockets \in Nat /\ PoolSize \in Nat
  BY CacheAssumption DEF IInv, TypeOK
<1>2. /\ IsFiniteSet(conns') /\ Cardinality(conns') <= Cardinality(conns) + 1
      /\ Cardinality(conns) \in Nat /\ Cardinality(conns') \in Nat
  <2>1. Cardinality(conns) \in Nat
    BY <1>1, FS_CardinalityType
  <2>2. /\ IsFiniteSet(conns')
        /\ Cardinality(conns') = IF r \in conns THEN Cardinality(conns) ELSE Cardinality(conns) + 1
    BY <1>1, FS_AddElement
  <2> QED BY <2>1, <2>2
<1>3. Cardinality(conns') + sockets' <= PoolSize
  BY <1>1, <1>2 DEF Free
<1>4. \A x \in conns' : InFlight(x)' /\ req'[x].pc \notin {"connect", "refresh"}
  BY <1>1 DEF IInv, ConnectionsReturned, InFlight, Own
<1> QED
  BY <1>1, <1>2, <1>3, <1>4 DEF ConnectionsReturned

LEMMA ConnectKeeps ==
  ASSUME IInv, NEW r \in Requests, Connect(r)
  PROVE  IInv'
<1>1. PICK point \in {"lookup", "commit"} : Goto(r, point)
  BY DEF Connect
<1>2. point \in Points \cup Ends
  BY DEF Points
<1>3. Own(r) /\ req'[r] = [req[r] EXCEPT !.pc = point]
  BY <1>1, <1>2, Local, OwnByGoto
<1>4. /\ req'[r].pc = point /\ req'[r].version = req[r].version
      /\ req'[r].project = req[r].project /\ ~req'[r].clear
  BY <1>3, Local, NotYetClear DEF Request, Connect, At
<1>5. conns' \subseteq Requests /\ IsFiniteSet(conns') /\ ConnectionsReturned'
  BY <1>3, <1>4, ConnectionTaken DEF Connect, Ends
<1> QED
  BY <1>3, <1>4, <1>5, Local, PlainStep DEF Connect

LEMMA TimeOutKeeps ==
  ASSUME IInv, NEW r \in Requests, TimeOut(r)
  PROVE  IInv'
<1>1. End(r, "failed") /\ "failed" \in Ends /\ UNCHANGED <<version, cache, pool>>
  BY DEF TimeOut, Ends
<1>2. Own(r) /\ req'[r].pc = "failed"
  BY <1>1, Local, OwnByEnd
<1>3. r \notin conns
  BY DEF IInv, ConnectionsReturned, TimeOut
<1>4. conns' \subseteq Requests /\ IsFiniteSet(conns') /\ ConnectionsReturned'
  BY <1>1, <1>2, <1>3, ConnectionsKept DEF pool
<1>5. Fills(r)
  BY <1>1, <1>2, Local DEF Fills
<1> QED
  BY <1>1, <1>4, <1>5, EndKeeps DEF pool

LEMMA CacheGetKeeps ==
  ASSUME IInv, NEW r \in Requests, CacheGet(r)
  PROVE  IInv'
<1>1. CASE End(r, "done") /\ conns' = Returned(r)
  <2>1. "done" \in Ends /\ UNCHANGED <<version, cache, sockets>> /\ ~req[r].clear
    BY NotYetClear DEF CacheGet, Ends, At
  <2>2. Own(r) /\ req'[r].pc = "done"
    BY <1>1, <2>1, Local, OwnByEnd
  <2>3. conns' \subseteq Requests /\ IsFiniteSet(conns') /\ ConnectionsReturned'
    BY <1>1, <2>1, <2>2, ConnectionsKept DEF Returned
  <2>4. Fills(r)
    BY <2>1, <2>2, Local DEF Fills
  <2> QED
    BY <1>1, <2>1, <2>3, <2>4, EndKeeps
<1>2. CASE Goto(r, "query") /\ UNCHANGED conns
  <2>1. Own(r) /\ req'[r] = [req[r] EXCEPT !.pc = "query"]
    BY <1>2, Local, OwnByGoto DEF Points
  <2>2. /\ req'[r].pc = "query" /\ req'[r].version = req[r].version
        /\ req'[r].project = req[r].project /\ ~req'[r].clear
    BY <2>1, Local, NotYetClear DEF Request, CacheGet, At
  <2>3. conns' \subseteq Requests /\ IsFiniteSet(conns') /\ ConnectionsReturned'
    BY <1>2, <2>1, <2>2, ConnectionsKept DEF CacheGet, Ends
  <2> QED
    BY <2>1, <2>2, <2>3, Local, PlainStep DEF CacheGet
<1> QED
  BY <1>1, <1>2 DEF CacheGet

LEMMA GetTasksKeeps ==
  ASSUME IInv, NEW r \in Requests, GetTasks(r)
  PROVE  IInv'
<1>1. /\ req' = [req EXCEPT ![r].pc = "store", ![r].version = version[req[r].project]]
      /\ At(r, "query") /\ UNCHANGED <<version, cache, pool>>
  BY DEF GetTasks
<1> DEFINE q == [req[r] EXCEPT !.pc = "store", !.version = version[req[r].project]]
<1>2. version[req[r].project] \in Nat
  BY Local
<1>3. q \in Request
  BY <1>2, Local DEF Request, Points
<1>4. req' = [req EXCEPT ![r] = q]
  BY <1>1, Local DEF TypeOK, Request
<1>5. /\ q.pc = "store" /\ q.project = req[r].project /\ q.version = version[req[r].project]
      /\ ~q.clear
  BY <1>1, Local, NotYetClear DEF Request, At
<1> HIDE DEF q
<1>6. Own(r) /\ req'[r] = q
  BY <1>3, <1>4, Local, OwnByUpdate
<1>7. conns' \subseteq Requests /\ IsFiniteSet(conns') /\ ConnectionsReturned'
  BY <1>1, <1>5, <1>6, ConnectionsKept DEF pool, Ends
<1>8. Fills(r)
  BY <1>1, <1>5, <1>6, Local DEF Fills
<1>9. Real(r)' /\ Cleared(r)'
  <2>1. req'[r].version <= version'[req'[r].project]
    BY <1>1, <1>2, <1>5, <1>6
  <2>2. req'[r].pc = "store" /\ ~req'[r].clear
    BY <1>5, <1>6
  <2> QED BY <2>1, <2>2 DEF Real, Cleared, At
<1> QED
  BY <1>1, <1>6, <1>7, <1>8, <1>9, Local, HandlerKeeps DEF pool

LEMMA CacheSetKeeps ==
  ASSUME IInv, NEW r \in Requests, CacheSet(r)
  PROVE  IInv'
<1>1. /\ At(r, "store") /\ End(r, "done") /\ conns' = Returned(r) /\ "done" \in Ends
      /\ UNCHANGED <<version, sockets>> /\ ~req[r].clear
  BY NotYetClear DEF CacheSet, Ends, At
<1>2. Own(r) /\ req'[r].pc = "done"
  BY <1>1, Local, OwnByEnd
<1>3. conns' \subseteq Requests /\ IsFiniteSet(conns') /\ ConnectionsReturned'
  BY <1>1, <1>2, ConnectionsKept DEF Returned
<1>4. \/ cache' = [cache EXCEPT ![req[r].project][req[r].list] = req[r].version]
      \/ UNCHANGED cache
  BY DEF CacheSet
<1>5. /\ cache' \in [Projects -> [Lists -> Nat \cup {None}]]
      /\ \A p \in Projects, l \in Lists :
           \/ cache'[p][l] = cache[p][l]
           \/ req[r].project = p /\ cache'[p][l] = req[r].version
  BY <1>4, Local
<1>6. Fills(r)
  BY <1>1, <1>2, <1>5, Local DEF Fills
<1> QED
  BY <1>1, <1>3, <1>6, EndKeeps

\* A commit only adds versions.
LEMMA CommitKeeps ==
  ASSUME IInv, NEW r \in Requests, Commit(r)
  PROVE  IInv'
<1>1. /\ At(r, "commit") /\ conns' = Returned(r) /\ UNCHANGED <<cache, sockets>>
      /\ ~req[r].clear
  BY NotYetClear DEF Commit, At
<1>2. CASE End(r, "failed") /\ UNCHANGED version
  <2>1. "failed" \in Ends
    BY DEF Ends
  <2>2. Own(r) /\ req'[r].pc = "failed"
    BY <1>2, <2>1, Local, OwnByEnd
  <2>3. conns' \subseteq Requests /\ IsFiniteSet(conns') /\ ConnectionsReturned'
    BY <1>1, <2>1, <2>2, ConnectionsKept DEF Returned
  <2>4. Fills(r)
    BY <1>1, <1>2, <2>2, Local DEF Fills
  <2> QED
    BY <1>1, <1>2, <2>1, <2>3, <2>4, EndKeeps
<1>3. ASSUME NEW P \in SUBSET Projects,
             version' = [p \in Projects |-> IF p \in P THEN version[p] + 1 ELSE version[p]],
             req' = [req EXCEPT ![r] =
               IF AfterCommit(req[r].op) \in Ends THEN Ended(req[r], AfterCommit(req[r].op))
               ELSE [req[r] EXCEPT !.pc = AfterCommit(req[r].op),
                                   !.version = version'[req[r].project], !.todo = Lists]]
      PROVE  IInv'
  <2>1. /\ version' \in [Projects -> Nat] /\ \A p \in Projects : version[p] <= version'[p]
        /\ version'[req[r].project] \in Nat
    BY <1>3, Local
  <2>2. AfterCommit(req[r].op) \in {"refresh", "scan", "done"}
    BY DEF AfterCommit
  <2>3. CASE AfterCommit(req[r].op) = "done"
    <3>1. "done" \in Ends
      BY DEF Ends
    <3>2. End(r, "done")
      BY <1>3, <2>3, <3>1 DEF End
    <3>3. Own(r) /\ req'[r].pc = "done"
      BY <3>1, <3>2, Local, OwnByEnd
    <3>4. conns' \subseteq Requests /\ IsFiniteSet(conns') /\ ConnectionsReturned'
      BY <1>1, <3>1, <3>3, ConnectionsKept DEF Returned
    <3>5. Fills(r)
      BY <1>1, <2>1, <3>3, Local DEF Fills
    <3> QED
      BY <1>1, <3>1, <3>2, <3>4, <3>5, EndKeeps
  <2>4. CASE AfterCommit(req[r].op) \in {"refresh", "scan"}
    <3> DEFINE v == version'[req[r].project]
               point == AfterCommit(req[r].op)
               q == [req[r] EXCEPT !.pc = point, !.version = v, !.todo = Lists]
    <3>1. req' = [req EXCEPT ![r] = q]
      BY <1>3, <2>4 DEF Ends
    <3> HIDE DEF v, point
    <3>2. v \in Nat /\ v = version'[req[r].project] /\ point \in {"refresh", "scan"}
      BY <2>1, <2>4 DEF v, point
    <3>3. /\ q \in Request /\ q.pc = point /\ q.version = v /\ q.project = req[r].project
          /\ ~q.clear
      BY <1>1, <3>2, Local DEF Request, Points
    <3> HIDE DEF q
    <3>4. Own(r) /\ req'[r] = q
      BY <3>1, <3>3, Local, OwnByUpdate
    <3>5. conns' \subseteq Requests /\ IsFiniteSet(conns') /\ ConnectionsReturned'
      BY <1>1, <3>2, <3>3, <3>4, ConnectionsKept DEF Returned, Ends
    <3>6. Fills(r)
      BY <1>1, <2>1, <3>2, <3>3, <3>4, Local DEF Fills
    <3>7. Real(r)' /\ Cleared(r)'
      BY <3>2, <3>3, <3>4 DEF Real, Cleared, At
    <3> QED
      BY <1>1, <3>4, <3>5, <3>6, <3>7, Local, HandlerKeeps
  <2> QED BY <2>2, <2>3, <2>4
<1> QED
  BY <1>2, <1>3 DEF Commit

LEMMA RefreshKeeps ==
  ASSUME IInv, NEW r \in Requests, Refresh(r)
  PROVE  IInv'
<1>1. /\ At(r, "refresh") /\ Free /\ UNCHANGED <<version, cache, sockets>> /\ ~req[r].clear
  BY NotYetClear DEF Refresh, At
<1>2. CASE Goto(r, "scan") /\ conns' = conns \cup {r}
  <2>1. Own(r) /\ req'[r] = [req[r] EXCEPT !.pc = "scan"]
    BY <1>2, Local, OwnByGoto DEF Points
  <2>2. /\ req'[r].pc = "scan" /\ req'[r].version = req[r].version
        /\ req'[r].project = req[r].project /\ ~req'[r].clear
    BY <1>1, <2>1, Local DEF Request
  <2>3. conns' \subseteq Requests /\ IsFiniteSet(conns') /\ ConnectionsReturned'
    BY <1>1, <1>2, <2>1, <2>2, ConnectionTaken DEF Ends
  <2> QED
    BY <1>1, <2>1, <2>2, <2>3, Local, PlainStep
<1>3. CASE End(r, "failed") /\ UNCHANGED conns
  <2>1. "failed" \in Ends
    BY DEF Ends
  <2>2. Own(r) /\ req'[r].pc = "failed"
    BY <1>3, <2>1, Local, OwnByEnd
  <2>3. r \notin conns
    BY <1>1 DEF IInv, ConnectionsReturned, At
  <2>4. conns' \subseteq Requests /\ IsFiniteSet(conns') /\ ConnectionsReturned'
    BY <1>1, <1>3, <2>2, <2>3, ConnectionsKept
  <2>5. Fills(r)
    BY <1>1, <2>2, Local DEF Fills
  <2> QED
    BY <1>1, <1>3, <2>1, <2>4, <2>5, EndKeeps
<1> QED
  BY <1>2, <1>3 DEF Refresh

----------------------------------------------------------------------------
(* The invalidation. *)

\* What a SCAN call leaves of a handler: the first one sees whether the scan is
\* clear, each one what exists under the keys it visits.
LEMMA SeenIsClear ==
  ASSUME IInv, NEW r \in Requests, At(r, "scan"), NEW S \in SUBSET req[r].todo,
         NEW found, found = req[r].found \cup {l \in S : cache[req[r].project][l] # None},
         NEW clear,
         clear = IF req[r].todo = Lists THEN ~OlderUnderWay(req[r]) ELSE req[r].clear
  PROVE  /\ clear \in BOOLEAN /\ found \subseteq Lists
         /\ clear =>
              /\ NoneOlderUnderWay(req[r].project, req[r].version)
              /\ \A l \in Lists : Older(req[r].project, l, req[r].version) =>
                                    l \in (req[r].todo \ S) \cup found
<1>1. found \subseteq Lists
  BY Local
<1>2. clear \in BOOLEAN
  <2>1. req[r].clear \in BOOLEAN /\ OlderUnderWay(req[r]) \in BOOLEAN
    BY Local DEF Request, OlderUnderWay
  <2> QED BY <2>1
<1>3. ASSUME req[r].todo = Lists, clear
      PROVE  /\ NoneOlderUnderWay(req[r].project, req[r].version)
             /\ \A l \in Lists : Older(req[r].project, l, req[r].version) =>
                                   l \in (req[r].todo \ S) \cup found
  <2>1. ASSUME NEW x \in Requests, At(x, "store"), req[x].project = req[r].project
        PROVE  req[r].version <= req[x].version
    <3>1. ~(req[x].version < req[r].version)
      BY <1>3, <2>1 DEF OlderUnderWay
    <3>2. req[x].version \in Nat /\ req[r].version \in Nat
      BY Local
    <3> QED BY <3>1, <3>2
  <2>2. \A l \in Lists : Older(req[r].project, l, req[r].version) =>
                           l \in (req[r].todo \ S) \cup found
    BY <1>3 DEF Older
  <2> QED BY <2>1, <2>2 DEF NoneOlderUnderWay
<1>4. ASSUME req[r].todo # Lists, clear
      PROVE  /\ NoneOlderUnderWay(req[r].project, req[r].version)
             /\ \A l \in Lists : Older(req[r].project, l, req[r].version) =>
                                   l \in (req[r].todo \ S) \cup found
  <2>1. req[r].clear
    BY <1>4
  <2>2. /\ NoneOlderUnderWay(req[r].project, req[r].version)
        /\ \A l \in Lists : Older(req[r].project, l, req[r].version) =>
                              l \in req[r].todo \cup req[r].found
    BY <2>1 DEF IInv, Cleared, Remaining, At
  <2>3. \A l \in Lists : Older(req[r].project, l, req[r].version) =>
                           cache[req[r].project][l] # None
    BY DEF Older
  <2> QED BY <2>2, <2>3
<1> QED
  BY <1>1, <1>2, <1>3, <1>4

\* A scanner that goes on, or ends, with older entries only where it will look.
LEMMA ScannerCleared ==
  ASSUME IInv, NEW r \in Requests, Own(r), Fills(r), UNCHANGED cache,
         req'[r].clear =>
           /\ req'[r].pc \in {"scan", "unlink", "done"}
           /\ req'[r].project = req[r].project /\ req'[r].version = req[r].version
           /\ NoneOlderUnderWay(req[r].project, req[r].version)
           /\ \A l \in Lists : Older(req[r].project, l, req[r].version) =>
                                 l \in Remaining(req'[r])
  PROVE  Cleared(r)'
<1> SUFFICES ASSUME req'[r].clear PROVE Cleared(r)'
  BY DEF Cleared
<1>1. PICK p \in Projects, v \in Nat :
        p = req[r].project /\ v = req[r].version /\ v <= version[p]
  BY Local
<1>2. \A x \in Requests : req'[x].pc = "store" /\ req'[x].project = p => v <= req'[x].version
  BY <1>1, ClearStays
<1> QED
  BY <1>1, <1>2 DEF Cleared, NoneOlderUnderWay, Older, At

LEMMA ScanKeeps ==
  ASSUME IInv, NEW r \in Requests, Scan(r)
  PROVE  IInv'
<1>1. PICK S \in SUBSET req[r].todo \ {{}} :
        LET found == req[r].found \cup {l \in S : cache[req[r].project][l] # None}
            last  == ScannedBy(req[r], S)
            seen  == [req[r] EXCEPT !.todo = @ \ S, !.found = found,
                        !.clear = IF req[r].todo = Lists THEN ~OlderUnderWay(req[r]) ELSE @]
        IN
        IF last /\ found = {}
        THEN req' = [req EXCEPT ![r] = Ended(seen, "done")] /\ conns' = Returned(r)
        ELSE /\ req' = [req EXCEPT ![r] = [seen EXCEPT !.pc = IF last THEN "unlink" ELSE "scan"]]
             /\ UNCHANGED conns
  BY DEF Scan
<1> DEFINE found == req[r].found \cup {l \in S : cache[req[r].project][l] # None}
           clear == IF req[r].todo = Lists THEN ~OlderUnderWay(req[r]) ELSE req[r].clear
           todo == req[r].todo \ S
           last == S = req[r].todo
           seen == [req[r] EXCEPT !.todo = todo, !.found = found, !.clear = clear]
           point == IF last THEN "unlink" ELSE "scan"
           next == [seen EXCEPT !.pc = point]
<1>a. /\ found = req[r].found \cup {l \in S : cache[req[r].project][l] # None}
      /\ clear = IF req[r].todo = Lists THEN ~OlderUnderWay(req[r]) ELSE req[r].clear
  OBVIOUS
<1>2. \/ /\ last /\ found = {}
         /\ req' = [req EXCEPT ![r] = Ended(seen, "done")] /\ conns' = Returned(r)
      \/ req' = [req EXCEPT ![r] = next] /\ UNCHANGED conns
  BY <1>1 DEF ScannedBy
<1>3. /\ clear \in BOOLEAN /\ found \subseteq Lists
      /\ clear =>
           /\ NoneOlderUnderWay(req[r].project, req[r].version)
           /\ \A l \in Lists : Older(req[r].project, l, req[r].version) => l \in todo \cup found
  <2> HIDE DEF found, clear
  <2> QED BY <1>a, SeenIsClear DEF Scan
<1>4. /\ todo \subseteq Lists /\ point \in {"unlink", "scan"}
      /\ (last => todo = {}) /\ (point = "unlink" => last)
  BY Local
<1>5. At(r, "scan") /\ UNCHANGED <<version, cache, sockets>>
  BY DEF Scan
<1> HIDE DEF found, clear, todo, last, point
<1>6. /\ seen \in Request /\ seen.pc = "scan"
      /\ seen.project = req[r].project /\ seen.version = req[r].version /\ seen.clear = clear
  BY <1>3, <1>4, <1>5, Local DEF Request, At
<1>7. /\ next \in Request /\ next.pc = point /\ next.todo = todo /\ next.found = found
      /\ next.project = req[r].project /\ next.version = req[r].version /\ next.clear = clear
  BY <1>3, <1>4, Local DEF Request, Points
<1> HIDE DEF seen, next
<1>8. CASE req' = [req EXCEPT ![r] = next] /\ UNCHANGED conns
  <2>1. Own(r) /\ req'[r] = next
    BY <1>7, <1>8, Local, OwnByUpdate
  <2>2. conns' \subseteq Requests /\ IsFiniteSet(conns') /\ ConnectionsReturned'
    BY <1>4, <1>5, <1>7, <1>8, <2>1, ConnectionsKept DEF Ends
  <2>3. Fills(r)
    BY <1>4, <1>5, <1>7, <2>1, Local DEF Fills
  <2>4. Remaining(req'[r]) = IF point = "scan" THEN todo \cup found ELSE found
    BY <1>4, <1>7, <2>1 DEF Remaining
  <2>5. todo \cup found = found \/ point = "scan"
    BY <1>4
  <2>6. Cleared(r)'
    BY <1>3, <1>4, <1>5, <1>7, <2>1, <2>3, <2>4, <2>5, ScannerCleared
  <2>7. Real(r)'
    BY <1>4, <1>5, <1>7, <2>1, Local DEF Real, At
  <2> QED
    BY <1>5, <2>1, <2>2, <2>3, <2>6, <2>7, Local, HandlerKeeps
<1>9. CASE /\ last /\ found = {}
           /\ req' = [req EXCEPT ![r] = Ended(seen, "done")] /\ conns' = Returned(r)
  <2> DEFINE q == Ended(seen, "done")
  <2>1. /\ q \in Request /\ q.pc = "done" /\ q.project = req[r].project
        /\ q.version \in {0, req[r].version}
        /\ q.clear => clear /\ q.version = req[r].version
    <3>1. "done" \in Ends
      BY DEF Ends
    <3> QED BY <1>6, <3>1, EndedFacts
  <2> HIDE DEF q
  <2>2. Own(r) /\ req'[r] = q
    BY <1>9, <2>1, Local, OwnByUpdate DEF q
  <2>3. conns' \subseteq Requests /\ IsFiniteSet(conns') /\ ConnectionsReturned'
    BY <1>5, <1>9, <2>1, <2>2, ConnectionsKept DEF Returned
  <2>4. Fills(r)
    BY <1>5, <2>1, <2>2, Local DEF Fills
  <2>5. todo \cup found = {}
    BY <1>4, <1>9
  <2>6. Cleared(r)'
    BY <1>3, <1>5, <2>1, <2>2, <2>4, <2>5, ScannerCleared
  <2>7. Real(r)'
    <3>1. version[req[r].project] \in Nat
      BY Local
    <3> QED BY <1>5, <2>1, <2>2, <3>1, Local DEF Real, At
  <2> QED
    BY <1>5, <2>2, <2>3, <2>4, <2>6, <2>7, Local, HandlerKeeps
<1> QED
  BY <1>2, <1>8, <1>9

LEMMA UnlinkKeeps ==
  ASSUME IInv, NEW r \in Requests, Unlink(r)
  PROVE  IInv'
<1>1. /\ At(r, "unlink") /\ End(r, "done") /\ conns' = Returned(r) /\ "done" \in Ends
      /\ UNCHANGED <<version, sockets>>
      /\ cache' = [cache EXCEPT ![req[r].project] =
                     [l \in Lists |-> IF l \in req[r].found THEN None
                                      ELSE cache[req[r].project][l]]]
  BY DEF Unlink, Ends
<1>2. Own(r) /\ req'[r].pc = "done"
  BY <1>1, Local, OwnByEnd
<1>3. conns' \subseteq Requests /\ IsFiniteSet(conns') /\ ConnectionsReturned'
  BY <1>1, <1>2, ConnectionsKept DEF Returned
<1>4. /\ cache' \in [Projects -> [Lists -> Nat \cup {None}]]
      /\ \A p \in Projects, l \in Lists : cache'[p][l] \in {None, cache[p][l]}
      /\ \A l \in req[r].found : cache'[req[r].project][l] = None
  BY <1>1, Local
<1>5. Fills(r)
  BY <1>1, <1>2, <1>4, Local DEF Fills
<1>6. \A l \in Remaining(req[r]) : cache'[req[r].project][l] = None
  BY <1>1, <1>4 DEF Remaining, At
<1> QED
  BY <1>1, <1>3, <1>5, <1>6, EndKeeps

LEMMA NotInvalidatedKeeps ==
  ASSUME IInv, NEW r \in Requests, NotInvalidated(r)
  PROVE  IInv'
<1> DEFINE seen == [req[r] EXCEPT !.clear = FALSE]
           q == Ended(seen, "done")
<1>1. /\ req' = [req EXCEPT ![r] = q] /\ conns' = Returned(r)
      /\ UNCHANGED <<version, cache, sockets>>
  BY Local DEF NotInvalidated, TypeOK
<1>2. seen \in Request /\ seen.project = req[r].project /\ seen.version = req[r].version
      /\ ~seen.clear /\ "done" \in Ends
  BY Local DEF Request, Ends
<1> HIDE DEF seen
<1>3. /\ q \in Request /\ q.pc = "done" /\ q.project = req[r].project
      /\ q.version \in {0, req[r].version} /\ ~q.clear
  BY <1>2, EndedFacts
<1> HIDE DEF q
<1>4. Own(r) /\ req'[r] = q
  BY <1>1, <1>3, Local, OwnByUpdate
<1>5. conns' \subseteq Requests /\ IsFiniteSet(conns') /\ ConnectionsReturned'
  BY <1>1, <1>2, <1>3, <1>4, ConnectionsKept DEF Returned
<1>6. q.version <= version[q.project]
  <2>1. version[req[r].project] \in Nat
    BY Local
  <2> QED BY <1>3, <2>1, Local
<1> QED
  BY <1>1, <1>3, <1>4, <1>5, <1>6, PlainStep

----------------------------------------------------------------------------
(* The rest of the system. *)

LEMMA SocketKeeps ==
  ASSUME IInv, OpenSocket \/ CloseSocket
  PROVE  IInv'
<1>1. /\ UNCHANGED <<version, cache, conns, req>> /\ sockets \in Nat /\ PoolSize \in Nat
      /\ Cardinality(conns) \in Nat /\ Cardinality(conns) + sockets <= PoolSize
  BY FS_CardinalityType, CacheAssumption
  DEF IInv, TypeOK, ConnectionsReturned, OpenSocket, CloseSocket
<1>2. sockets' \in Nat /\ Cardinality(conns) + sockets' <= PoolSize
  BY <1>1 DEF OpenSocket, CloseSocket, Free, SocketOpen
<1>3. TypeOK'
  BY <1>1, <1>2 DEF IInv, TypeOK
<1>4. IsFiniteSet(conns') /\ ConnectionsReturned'
  BY <1>1, <1>2 DEF IInv, ConnectionsReturned, InFlight
<1>5. ASSUME NEW r \in Requests PROVE Real(r)' /\ Cleared(r)'
  BY <1>1 DEF IInv, Real, Cleared, NoneOlderUnderWay, Older, At
<1> QED
  BY <1>3, <1>4, <1>5 DEF IInv

LEMMA ExpireKeeps ==
  ASSUME IInv, NEW p \in Projects, NEW l \in Lists, Expire(p, l)
  PROVE  IInv'
<1>1. UNCHANGED <<version, conns, sockets, req>> /\ cache' = [cache EXCEPT ![p][l] = None]
  BY DEF Expire, pool
<1>2. /\ cache' \in [Projects -> [Lists -> Nat \cup {None}]]
      /\ \A x \in Projects, k \in Lists : cache'[x][k] \in {None, cache[x][k]}
  BY <1>1 DEF IInv, TypeOK
<1>3. TypeOK'
  BY <1>1, <1>2 DEF IInv, TypeOK
<1>4. IsFiniteSet(conns') /\ ConnectionsReturned'
  BY <1>1 DEF IInv, ConnectionsReturned, InFlight
<1>5. ASSUME NEW r \in Requests PROVE Real(r)' /\ Cleared(r)'
  <2>1. Real(r)'
    BY <1>1 DEF IInv, Real, At
  <2>2. \A k \in Lists : Older(req[r].project, k, req[r].version)' =>
                           Older(req[r].project, k, req[r].version)
    BY <1>1, <1>2, Local DEF Older
  <2>3. Cleared(r)'
    BY <1>1, <2>2 DEF IInv, Cleared, NoneOlderUnderWay, At
  <2> QED BY <2>1, <2>3
<1> QED
  BY <1>3, <1>4, <1>5 DEF IInv

\* What is left of the handlers after a crash: those that had ended.
LEMMA CrashKeeps ==
  ASSUME IInv, Crash
  PROVE  IInv'
<1>1. /\ conns' = {} /\ sockets' = 0 /\ UNCHANGED <<version, cache>>
      /\ req' = [r \in Requests |-> IF InFlight(r) THEN Ended(req[r], "failed") ELSE req[r]]
  BY DEF Crash
<1>2. ASSUME NEW r \in Requests
      PROVE  /\ req'[r] \in Request /\ req'[r].project = req[r].project
             /\ req'[r].version \in {0, req[r].version}
             /\ req'[r].pc # "store" /\ (req'[r].pc = "idle" => req'[r] = req[r])
             /\ (req'[r].clear => req'[r] = req[r] /\ req[r].pc \in Ends \cup {"idle"})
    <2>1. req[r] \in Request /\ "failed" \in Ends
      BY DEF IInv, TypeOK, Ends
    <2> QED
      BY <1>1, <2>1, EndedFacts DEF InFlight, Ends
<1>3. TypeOK'
  <2>1. req' \in [Requests -> Request]
    BY <1>1, <1>2
  <2> QED
    BY <1>1, <2>1 DEF IInv, TypeOK
<1>4. IsFiniteSet(conns') /\ ConnectionsReturned'
  BY <1>1, FS_EmptySet, CacheAssumption DEF ConnectionsReturned
<1>5. ASSUME NEW r \in Requests PROVE Real(r)' /\ Cleared(r)'
  <2>1. Real(r)'
    <3>1. version[req[r].project] \in Nat
      BY Local
    <3> QED BY <1>1, <1>2, <3>1, Local DEF IInv, Real, At
  <2>2. Cleared(r)'
    BY <1>1, <1>2 DEF IInv, Cleared, NoneOlderUnderWay, Older, Remaining, At
  <2> QED BY <2>1, <2>2
<1> QED
  BY <1>3, <1>4, <1>5 DEF IInv

LEMMA StutterKeeps ==
  ASSUME IInv, UNCHANGED vars
  PROVE  IInv'
<1>1. UNCHANGED <<version, cache, conns, sockets, req>>
  BY DEF vars
<1> QED
  BY <1>1 DEF IInv, TypeOK, ConnectionsReturned, InFlight, Real, Cleared,
              NoneOlderUnderWay, Older, Remaining, At

LEMMA InitIInv == Init => IInv
<1> SUFFICES ASSUME Init PROVE IInv
  OBVIOUS
<1>1. PICK p \in Projects :
        req = [r \in Requests |->
                 [pc |-> "idle", op |-> "list", project |-> p, list |-> None, version |-> 0,
                  todo |-> {}, found |-> {}, clear |-> FALSE]]
  BY DEF Init
<1>2. /\ version = [x \in Projects |-> 0] /\ cache = [x \in Projects |-> [l \in Lists |-> None]]
      /\ conns = {} /\ sockets = 0
  BY DEF Init
<1>3. req \in [Requests -> Request]
  BY <1>1 DEF Request, Points, Ops
<1>4. TypeOK
  BY <1>2, <1>3 DEF TypeOK
<1>5. IsFiniteSet(conns) /\ ConnectionsReturned
  BY <1>2, FS_EmptySet, CacheAssumption DEF ConnectionsReturned
<1>6. ASSUME NEW r \in Requests PROVE Real(r) /\ Cleared(r)
  BY <1>1, <1>2 DEF Real, Cleared, At
<1> QED
  BY <1>4, <1>5, <1>6 DEF IInv

LEMMA NextIInv == IInv /\ [Next]_vars => IInv'
<1> SUFFICES ASSUME IInv, [Next]_vars PROVE IInv'
  OBVIOUS
<1>1. ASSUME NEW r \in Requests, Step(r) PROVE IInv'
  BY <1>1, ConnectKeeps, TimeOutKeeps, CacheGetKeeps, GetTasksKeeps, CacheSetKeeps,
     CommitKeeps, RefreshKeeps, ScanKeeps, UnlinkKeeps, NotInvalidatedKeeps DEF Step
<1> QED
  BY <1>1, ArriveKeeps, SocketKeeps, ExpireKeeps, CrashKeeps, StutterKeeps DEF Next

----------------------------------------------------------------------------
(* The theorems. *)

LEMMA Invariant == Spec => []IInv
<1>1. Init => IInv
  BY InitIInv
<1>2. IInv /\ [Next]_vars => IInv'
  BY NextIInv
<1> QED
  BY <1>1, <1>2, PTL DEF Spec

\* Versions, entries and handlers keep their types, and no entry of the cache
\* is newer than the tasks it lists (cache_set_json stores what get_tasks read).
THEOREM TypeCorrect == Spec => []TypeOK
<1>1. IInv => TypeOK
  BY DEF IInv
<1> QED
  BY <1>1, Invariant, PTL

\* A handler that has ended, or waits for the pool, has no connection, and no
\* more are out than the pool may hand out (get_db, QueuePool).
THEOREM NoConnectionLeaks == Spec => []ConnectionsReturned
<1>1. IInv => ConnectionsReturned
  BY DEF IInv
<1> QED
  BY <1>1, Invariant, PTL

\* An invalidation that Redis carried out, and that began with no older list
\* under way, leaves no older list in the cache, and lets none come later
\* (invalidate_project_task_list against list_tasks).
THEOREM InvalidationsHold == Spec => []CleanInvalidation
<1>1. IInv => CleanInvalidation
  <2> SUFFICES ASSUME IInv, NEW r \in Requests, At(r, "done"), req[r].clear
               PROVE  /\ ~OlderUnderWay(req[r])
                      /\ \A l \in Lists : ~Older(req[r].project, l, req[r].version)
    BY DEF CleanInvalidation
  <2>1. /\ NoneOlderUnderWay(req[r].project, req[r].version)
        /\ \A l \in Lists : ~Older(req[r].project, l, req[r].version)
    BY DEF IInv, Cleared, Remaining, At
  <2>2. ASSUME NEW x \in Requests, At(x, "store"), req[x].project = req[r].project
        PROVE  ~(req[x].version < req[r].version)
    <3>1. req[r].version <= req[x].version
      BY <2>1, <2>2 DEF NoneOlderUnderWay
    <3>2. req[x].version \in Nat /\ req[r].version \in Nat
      BY Local
    <3> QED BY <3>1, <3>2
  <2> QED
    BY <2>1, <2>2 DEF OlderUnderWay
<1> QED
  BY <1>1, Invariant, PTL
=============================================================================
