--------------------------- MODULE TaskListCache ---------------------------
(***************************************************************************)
(* The list of a project's tasks, its answers cached in Redis, and the     *)
(* handlers that change tasks and invalidate them; with the pool of        *)
(* database connections all of them borrow from.                           *)
(*                                                                         *)
(* A list is abstracted to the version of the tasks it was read from: a    *)
(* version is one committed change.  Redis survives the API process.       *)
(***************************************************************************)
EXTENDS Naturals, FiniteSets

CONSTANTS
  Projects,
  Lists,          \* what a key adds to its project: filters, order, page
  Requests,
  PoolSize,       \* what QueuePool hands out: pool_size and max_overflow
  CACHE_ENABLED,  \* the setting
  None            \* no value under a key

Ops == {"list", "change", "delete", "deleteUser"}

\* What the constants must satisfy.
ASSUME CacheAssumption ==
  /\ PoolSize \in Nat
  /\ CACHE_ENABLED \in BOOLEAN
  /\ None \notin Nat \cup Lists

VARIABLES
  version,   \* version[p]: the changes to the tasks of p committed so far
  cache,     \* cache[p][l]: the version of the list stored under the key
  conns,     \* the requests that have a connection
  sockets,   \* how many WebSocket handlers have one
  req        \* req[r]: the local state of a handler

pool == <<conns, sockets>>
vars == <<version, cache, conns, sockets, req>>

----------------------------------------------------------------------------
(* States. *)

Points == {"idle", "connect", "lookup", "query", "store",
           "commit", "refresh", "scan", "unlink"}
Ends   == {"done", "failed"}

\* version: of the list read, or of the change committed; todo, found: the
\* keys SCAN has still to visit and those it has returned; clear: the scan
\* began with no older list under way, and Redis did not fail.
Request ==
  [pc: Points \cup Ends, op: Ops, project: Projects, list: Lists \cup {None},
   version: Nat, todo: SUBSET Lists, found: SUBSET Lists, clear: BOOLEAN]

At(r, point) == req[r].pc = point
InFlight(r)  == req[r].pc \notin Ends \cup {"idle"}

\* What is kept of a handler that ends: what a deletion committed, and a
\* change whose invalidation was clear.
Ended(q, end) ==
  LET clear == q.clear /\ end = "done"
      kept  == clear \/ q.op = "delete"
  IN
  [q EXCEPT !.pc = end, !.list = None, !.todo = {}, !.found = {}, !.clear = clear,
            !.op = IF kept THEN @ ELSE "list", !.version = IF kept THEN @ ELSE 0]

Goto(r, point) == req' = [req EXCEPT ![r].pc = point]
End(r, end)    == req' = [req EXCEPT ![r] = Ended(@, end)]

Init ==
  /\ version = [p \in Projects |-> 0]
  /\ cache = [p \in Projects |-> [l \in Lists |-> None]]
  /\ conns = {}
  /\ sockets = 0
  /\ \E p \in Projects :
       req = [r \in Requests |->
                [pc |-> "idle", op |-> "list", project |-> p, list |-> None, version |-> 0,
                 todo |-> {}, found |-> {}, clear |-> FALSE]]

----------------------------------------------------------------------------
(* The pool. *)

Free == Cardinality(conns) + sockets < PoolSize

\* Regression: the session is not closed with its request.
Kept(r) == conns

\* A commit gives the connection back, and so does the end of get_db.
Returned(r) == conns \ {r}

\* The first query of a handler: get_current_user.
Connect(r) ==
  /\ At(r, "connect")
  /\ Free
  /\ conns' = conns \cup {r}
  /\ Goto(r, IF req[r].op = "list" THEN "lookup" ELSE "commit")
  /\ UNCHANGED <<version, cache, sockets>>

\* Regression: a handler waits for a connection as long as it takes.
ExhaustedForEver == FALSE

Exhausted == ~Free

\* QueuePool raises after its timeout: 500, with what is committed.
TimeOut(r) ==
  /\ req[r].pc \in {"connect", "refresh"}
  /\ Exhausted
  /\ End(r, "failed")
  /\ UNCHANGED <<version, cache, pool>>

\* A WebSocket handler never ends the transaction of its checks: its
\* connection is its own until the client leaves.
OpenSocket ==
  /\ Free
  /\ sockets' = sockets + 1
  /\ UNCHANGED <<version, cache, conns, req>>

\* Regression: the session of a socket is closed twice.
AnySocket == TRUE

SocketOpen == sockets > 0

CloseSocket ==
  /\ SocketOpen
  /\ sockets' = sockets - 1
  /\ UNCHANGED <<version, cache, conns, req>>

----------------------------------------------------------------------------
(* GET /projects/{project_id}/tasks *)

\* A hit is the answer; an error of Redis is a miss.
CacheGet(r) ==
  /\ At(r, "lookup")
  /\ UNCHANGED <<version, cache, sockets>>
  /\ \/ /\ CACHE_ENABLED /\ cache[req[r].project][req[r].list] # None
        /\ End(r, "done")
        /\ conns' = Returned(r)
     \/ Goto(r, "query") /\ UNCHANGED conns

GetTasks(r) ==
  /\ At(r, "query")
  /\ req' = [req EXCEPT ![r].pc = "store", ![r].version = version[req[r].project]]
  /\ UNCHANGED <<version, cache, pool>>

\* The list read is stored, unless Redis fails, and answered.
CacheSet(r) ==
  LET q == req[r] IN
  /\ At(r, "store")
  /\ \/ CACHE_ENABLED /\ cache' = [cache EXCEPT ![q.project][q.list] = q.version]
     \/ UNCHANGED cache
  /\ End(r, "done")
  /\ conns' = Returned(r)
  /\ UNCHANGED <<version, sockets>>

\* The time to live of an entry is over.
Expire(p, l) ==
  /\ cache[p][l] # None
  /\ cache' = [cache EXCEPT ![p][l] = None]
  /\ UNCHANGED <<version, pool, req>>

----------------------------------------------------------------------------
(* The handlers that change tasks. *)

\* A create or an update is refreshed, which takes a connection again; a
\* deletion goes on to the invalidation; that of a user has none.
AfterCommit(op) ==
  CASE op = "change" -> "refresh" [] op = "delete" -> "scan" [] OTHER -> "done"

\* A transaction changes one project's tasks; the deletion of a user sets
\* assignee_id to NULL in any.  It may also fail.
Commit(r) ==
  LET q == req[r] next == AfterCommit(q.op) IN
  /\ At(r, "commit")
  /\ \/ \E P \in SUBSET Projects :
          /\ q.op # "deleteUser" => P = {q.project}
          /\ version' = [p \in Projects |-> IF p \in P THEN version[p] + 1 ELSE version[p]]
          /\ req' = [req EXCEPT ![r] =
               IF next \in Ends THEN Ended(@, next)
               ELSE [@ EXCEPT !.pc = next, !.version = version'[q.project], !.todo = Lists]]
     \/ End(r, "failed") /\ UNCHANGED version
  /\ conns' = Returned(r)
  /\ UNCHANGED <<cache, sockets>>

\* Another request committed the deletion of the task since.
DeletedSince(q) ==
  \E x \in Requests : /\ req[x].op = "delete" /\ req[x].project = q.project
                      /\ req[x].version > q.version

\* It raises when the row is gone: the invalidation is left to the deletion.
Refresh(r) ==
  /\ At(r, "refresh")
  /\ Free
  /\ \/ Goto(r, "scan") /\ conns' = conns \cup {r}
     \/ DeletedSince(req[r]) /\ End(r, "failed") /\ UNCHANGED conns
  /\ UNCHANGED <<version, cache, sockets>>

\* A list that is older than what q committed has been read and not stored.
OlderUnderWay(q) ==
  \E x \in Requests :
    At(x, "store") /\ req[x].project = q.project /\ req[x].version < q.version

\* Regression: one SCAN call in the place of scan_iter.
ScannedAtOnce(q, S) == TRUE

ScannedBy(q, S) == S = q.todo

\* A SCAN call visits some of the keys and returns those that exist; other
\* requests run before the next one.
Scan(r) ==
  LET q == req[r] IN
  /\ At(r, "scan")
  /\ CACHE_ENABLED
  /\ \E S \in SUBSET q.todo \ {{}} :
       LET found == q.found \cup {l \in S : cache[q.project][l] # None}
           last  == ScannedBy(q, S)
           seen  == [q EXCEPT !.todo = @ \ S, !.found = found,
                              !.clear = IF q.todo = Lists THEN ~OlderUnderWay(q) ELSE @]
       IN
       IF last /\ found = {}
       THEN req' = [req EXCEPT ![r] = Ended(seen, "done")] /\ conns' = Returned(r)
       ELSE /\ req' = [req EXCEPT ![r] = [seen EXCEPT !.pc = IF last THEN "unlink" ELSE "scan"]]
            /\ UNCHANGED conns
  /\ UNCHANGED <<version, cache, sockets>>

Unlink(r) ==
  LET q == req[r] IN
  /\ At(r, "unlink")
  /\ cache' = [cache EXCEPT ![q.project] =
                 [l \in Lists |-> IF l \in q.found THEN None ELSE @[l]]]
  /\ End(r, "done")
  /\ conns' = Returned(r)
  /\ UNCHANGED <<version, sockets>>

\* The cache is off, or Redis fails: the handler goes on without.
NotInvalidated(r) ==
  /\ req[r].pc \in {"scan", "unlink"}
  /\ req' = [req EXCEPT ![r] = Ended([@ EXCEPT !.clear = FALSE], "done")]
  /\ conns' = Returned(r)
  /\ UNCHANGED <<version, cache, sockets>>

----------------------------------------------------------------------------
(* The rest of the system. *)

Arrive(r) ==
  \E op \in Ops, p \in Projects, l \in Lists :
    /\ At(r, "idle")
    /\ req' = [req EXCEPT ![r].pc = "connect", ![r].op = op, ![r].project = p,
                          ![r].list = IF op = "list" THEN l ELSE None]
    /\ UNCHANGED <<version, cache, pool>>

Crash ==
  /\ sockets > 0 \/ \E r \in Requests : InFlight(r)
  /\ conns' = {} /\ sockets' = 0
  /\ req' = [r \in Requests |->
               IF InFlight(r) THEN Ended(req[r], "failed") ELSE req[r]]
  /\ UNCHANGED <<version, cache>>

Step(r) ==
  \/ Connect(r) \/ TimeOut(r)
  \/ CacheGet(r) \/ GetTasks(r) \/ CacheSet(r)
  \/ Commit(r) \/ Refresh(r) \/ Scan(r) \/ Unlink(r) \/ NotInvalidated(r)

Next ==
  \/ \E r \in Requests : Arrive(r) \/ Step(r)
  \/ OpenSocket \/ CloseSocket
  \/ \E p \in Projects, l \in Lists : Expire(p, l)
  \/ Crash

\* The event loop resumes a handler whose await is over, and QueuePool times
\* out; clients are under no obligation.
Fairness == \A r \in Requests : WF_vars(Step(r))
Spec     == Init /\ [][Next]_vars /\ Fairness

----------------------------------------------------------------------------
(* Properties. *)

\* Versions, entries, connections and handlers have their types; there is no
\* entry newer than the tasks.
TypeOK ==
  /\ version \in [Projects -> Nat]
  /\ cache \in [Projects -> [Lists -> Nat \cup {None}]]
  /\ conns \subseteq Requests /\ sockets \in Nat
  /\ req \in [Requests -> Request]
  /\ \A p \in Projects, l \in Lists : cache[p][l] # None => cache[p][l] <= version[p]

Older(p, l, v) == cache[p][l] # None /\ cache[p][l] < v

\* What an invalidation achieves, although lists are read and stored while
\* it scans: when none older than its change was under way as the scan began
\* and Redis did not fail, then no older list is stored, or ever will be.
CleanInvalidation ==
  \A r \in Requests :
    At(r, "done") /\ req[r].clear =>
      /\ ~OlderUnderWay(req[r])
      /\ \A l \in Lists : ~Older(req[r].project, l, req[r].version)

\* A handler that has ended, or waits for the pool, holds no connection, and
\* no more are out than the pool may hand out (get_db closes the session on
\* every way out, an early answer from the cache included).
ConnectionsReturned ==
  /\ Cardinality(conns) + sockets <= PoolSize
  /\ \A r \in conns : InFlight(r) /\ req[r].pc \notin {"connect", "refresh"}

\* Every accepted request ends, also while WebSockets that never leave have
\* all the connections.
RequestsEnd == \A r \in Requests : InFlight(r) ~> req[r].pc \in Ends
=============================================================================
