------------------------------- MODULE Paging -------------------------------
(***************************************************************************)
(* The lists the API answers page by page (the tasks of a project, a       *)
(* search among them, its activity, comments, unread notifications), read  *)
(* by a client that asks for one page after the other while other          *)
(* requests change the rows.                                               *)
(*                                                                         *)
(* A list is a set of rows [id, key], listed by descending key; rows with  *)
(* one key come in any order, another one for each statement.  A page is   *)
(* one SELECT.  created_at is now(), the start of the transaction that     *)
(* inserts the row, and a transaction is seen when it commits.             *)
(***************************************************************************)
EXTENDS Permissions, Naturals, FiniteSets, Sequences

CONSTANTS
  SeedTasks, SeedNotes,   \* rows at the start
  Writers,    \* the requests that write; each names the row it inserts
  Reader,     \* the user who reads, a member of the project at the start
  Drafts,     \* what a payload may say of a task
  Queries,    \* what may be asked: a list, its filters and its order
  Limit,      \* the page size asked for
  MaxTime     \* bound of the clock

VARIABLES
  now,        \* the clock of the database
  tasks, history, comments,   \* rows of the one project
  notes,      \* the rows of notifications for Reader
  members,    \* rows of project_members
  writer,     \* writer[w]: its transaction
  query,      \* what the client asks for
  walk        \* its progress, and what happened to its list

db   == <<tasks, history, comments, notes, members>>
vars == <<now, db, writer, query, walk>>

----------------------------------------------------------------------------
(* Rows. *)

TaskStatus   == {"todo", "in_progress", "done"}
TaskPriority == {"low", "medium", "high"}
Deadlines    == {1, 2}
Time         == 0..MaxTime
Ids          == {row.id : row \in SeedTasks \cup SeedNotes} \cup Writers

\* match stands for: title or description ILIKE the words searched for.
Task == [id: Ids, status: TaskStatus, priority: TaskPriority, match: BOOLEAN,
         deadline: Deadlines \cup {Null}, assignee: {Reader, Null}, created: Time]
Child == [id: Ids, task: Ids, created: Time]     \* of history and comments
Note  == [id: Ids, is_read: BOOLEAN, created: Time]

\* Rows that are there have their types and ids of their own; a payload is
\* validated, but may set priority to null; what is asked for is a list there
\* is, under an order there is.
ASSUME PagingAssumption ==
  /\ Limit \in Nat \ {0} /\ MaxTime \in Nat
  /\ SeedTasks \subseteq Task /\ IsFiniteSet(SeedTasks)
  /\ SeedNotes \subseteq Note /\ IsFiniteSet(SeedNotes)
  /\ \A x, y \in SeedTasks \cup SeedNotes : x.id = y.id => x = y
  /\ \A x \in SeedTasks \cup SeedNotes : x.id \notin Writers
  /\ Drafts \subseteq [priority: TaskPriority \cup {Null}, deadline: Deadlines \cup {Null},
                        assignee: {Reader, Null}, match: BOOLEAN]
  /\ \A q \in Queries :
       /\ q.of \in {"tasks", "search", "activity", "comments", "unread"}
       /\ q.sort_by \in {"created_at", "deadline", "priority"}

----------------------------------------------------------------------------
(* Lists. *)

Listed(row, key) == [id |-> row.id, key |-> key]

\* A filter left out is None.
apply_task_filters(T, q) ==
  {t \in T : /\ q.status # Null => t.status = q.status
             /\ q.priority # Null => t.priority = q.priority
             /\ q.assignee # Null => t.assignee = q.assignee}

priority_order(priority) ==
  CASE priority = "high" -> 3 [] priority = "medium" -> 2 [] priority = "low" -> 1
    [] OTHER -> 0

\* Ascending deadlines, NULL last, as a descending key.
SortKey(t, sort_by) ==
  CASE sort_by = "created_at" -> t.created
    [] sort_by = "deadline"   -> IF t.deadline = Null THEN 0 ELSE 3 - t.deadline
    [] sort_by = "priority"   -> priority_order(t.priority)

get_tasks(q) == {Listed(t, SortKey(t, q.sort_by)) : t \in apply_task_filters(tasks, q)}

search_tasks == {Listed(t, t.created) : t \in {x \in tasks : x.match}}

\* UNION ALL of three selects; a status change or a comment is joined with
\* its task.
get_project_activity ==
  LET joined == {c \in history \cup comments : \E t \in tasks : t.id = c.task} IN
  {Listed(e, e.created) : e \in tasks \cup joined}

\* Ascending, unlike the others.
get_task_comments(task) ==
  {Listed(c, MaxTime - c.created) : c \in {x \in comments : x.task = task}}

get_unread_for_user == {Listed(n, n.created) : n \in {x \in notes : ~x.is_read}}

List(q) ==
  CASE q.of = "tasks"    -> get_tasks(q)
    [] q.of = "search"   -> search_tasks
    [] q.of = "activity" -> get_project_activity
    [] q.of = "comments" -> get_task_comments(q.task)
    [] q.of = "unread"   -> get_unread_for_user

\* Regression: desc() left out.
Ascending(a, b) == a.key <= b.key

InOrder(a, b) == a.key >= b.key

Listings(S) ==
  {s \in [1..Cardinality(S) -> S] :
     \A i, j \in DOMAIN s : i < j => s[i] # s[j] /\ InOrder(s[i], s[j])}

\* From one place to another, or to the end.
Rows(s, from, to) == SubSeq(s, from, IF to < Len(s) THEN to ELSE Len(s))

\* Regressions: the first row asked for counted as skipped, the last skipped
\* row as asked for.
PageAfter(s, skip) == Rows(s, skip + 2, skip + Limit + 1)
PageFrom(s, skip) == Rows(s, IF skip = 0 THEN 1 ELSE skip, skip + Limit)

\* .offset(skip).limit(limit)
Page(s, skip) == Rows(s, skip + 1, skip + Limit)

----------------------------------------------------------------------------
(* The client. *)

Reading == walk.state \in {"new", "reading"}

\* left, entered: how many rows did since the first page was read (a row
\* whose key changes does both); stayed: those of the first page's list that
\* never left; got: how many rows were answered; tied: two rows had one key.
Walk ==
  [state: {"new", "reading", "done", "refused"}, skip: Nat,
   seen: SUBSET Ids, got: Nat, stayed: SUBSET Ids, left: Nat, entered: Nat, tied: BOOLEAN]

\* A transaction commits: what it does to the list that is being read.
Watch ==
  LET gone == List(query) \ List(query)'
      came == List(query)' \ List(query)
  IN
  walk' = IF walk.state # "reading" THEN walk
          ELSE [walk EXCEPT !.stayed = @ \ {x.id : x \in gone},
                            !.left = @ + Cardinality(gone),
                            !.entered = @ + Cardinality(came)]

Ties(S) == \E a, b \in S : a # b /\ a.key = b.key

\* A user's notifications are his own; for the rest he must be a member, and
\* for comments the task must be there.
MayRead ==
  \/ query.of = "unread"
  \/ /\ check_project_member([id |-> Reader, role |-> "user"],
                             [owner_id |-> Null, members |-> members])
     /\ query.of = "comments" => \E t \in tasks : t.id = query.task

\* The client goes on at skip + limit until a page comes short.
ReadPage ==
  /\ Reading
  /\ MayRead
  /\ LET list == List(query) IN
     \E s \in Listings(list) :
       LET page == Page(s, walk.skip)
           ids  == {page[i].id : i \in DOMAIN page}
       IN
       walk' = [walk EXCEPT
         !.state = IF Len(page) < Limit THEN "done" ELSE "reading",
         !.skip = @ + Limit, !.seen = @ \cup ids, !.got = @ + Len(page),
         !.stayed = IF walk.state = "new" THEN {x.id : x \in list} ELSE @,
         !.tied = @ \/ Ties(list)]
  /\ UNCHANGED <<now, db, writer, query>>

Refuse ==
  /\ Reading
  /\ ~MayRead
  /\ walk' = [walk EXCEPT !.state = "refused"]
  /\ UNCHANGED <<now, db, writer, query>>

----------------------------------------------------------------------------
(* The requests that write. *)

Tick ==
  /\ now < MaxTime
  /\ now' = now + 1
  /\ UNCHANGED <<db, writer, query, walk>>

\* The first query of a handler (get_current_user) begins its transaction.
Begin(w) ==
  /\ writer[w].pc = "idle"
  /\ writer' = [writer EXCEPT ![w] = [pc |-> "open", began |-> now, ended |-> now]]
  /\ UNCHANGED <<now, db, query, walk>>

\* server_default=func.now()
CreatedAt(w) == writer[w].began

\* Regression: the column has no NOT NULL.
Nullable(row) == TRUE

\* A request that is refused or fails changes nothing and is left out.
\* TaskUpdate lets a payload set priority to null, the column does not.
NotNull(row) == row.priority # Null

\* The row with what the payload sets.
Drafted(row, d) ==
  [row EXCEPT !.priority = d.priority, !.deadline = d.deadline,
              !.assignee = d.assignee, !.match = d.match]

NewTask(id, created) ==
  [id |-> id, status |-> "todo", priority |-> "medium", match |-> FALSE,
   deadline |-> Null, assignee |-> Null, created |-> created]

Create(w) ==
  /\ \E d \in Drafts :
       LET row == Drafted(NewTask(w, CreatedAt(w)), d) IN
       NotNull(row) /\ tasks' = tasks \cup {row}
  /\ UNCHANGED <<history, comments, notes, members>>

Patch ==
  /\ \E t \in tasks, d \in Drafts :
       NotNull(Drafted(t, d)) /\ tasks' = (tasks \ {t}) \cup {Drafted(t, d)}
  /\ UNCHANGED <<history, comments, notes, members>>

ChangeStatus(w) ==
  /\ \E t \in tasks, s \in TaskStatus :
       /\ t.status # s
       /\ tasks' = (tasks \ {t}) \cup {[t EXCEPT !.status = s]}
       /\ history' = history \cup {[id |-> w, task |-> t.id, created |-> CreatedAt(w)]}
  /\ UNCHANGED <<comments, notes, members>>

Comment(w) ==
  /\ \E t \in tasks :
       comments' = comments \cup {[id |-> w, task |-> t.id, created |-> CreatedAt(w)]}
  /\ UNCHANGED <<tasks, history, notes, members>>

Uncomment ==
  /\ \E c \in comments : comments' = comments \ {c}
  /\ UNCHANGED <<tasks, history, notes, members>>

\* A task with history or comments is not deleted, unless they arrived since
\* the handler loaded them: those go with it.
Delete(w) ==
  /\ \E t \in tasks :
       /\ \A c \in history \cup comments :
            c.task = t.id => writer[c.id].ended >= writer[w].began
       /\ tasks' = tasks \ {t}
       /\ history' = {h \in history : h.task # t.id}
       /\ comments' = {c \in comments : c.task # t.id}
  /\ UNCHANGED <<notes, members>>

Notify(w) ==
  /\ notes' = notes \cup {[id |-> w, is_read |-> FALSE, created |-> CreatedAt(w)]}
  /\ UNCHANGED <<tasks, history, comments, members>>

mark_as_read(n) ==
  /\ notes' = (notes \ {n}) \cup {[n EXCEPT !.is_read = TRUE]}
  /\ UNCHANGED <<tasks, history, comments, members>>

\* By the reader, an admin, or (in vain) by anybody else.
MarkNotificationRead ==
  \E n \in notes, user \in [id: {Reader, Null}, role: Role] :
    check_notification_access(user, [user_id |-> Reader]) /\ mark_as_read(n)

RemoveMember ==
  /\ members' = members \ {Reader}
  /\ UNCHANGED <<tasks, history, comments, notes>>

Commit(w) ==
  /\ writer[w].pc = "open"
  /\ writer' = [writer EXCEPT ![w].pc = "closed", ![w].ended = now]
  /\ \/ Create(w) \/ Patch \/ ChangeStatus(w) \/ Delete(w)
     \/ Comment(w) \/ Uncomment \/ Notify(w) \/ MarkNotificationRead \/ RemoveMember
  /\ UNCHANGED <<now, query>>
  /\ Watch

----------------------------------------------------------------------------
Init ==
  /\ now \in Time /\ \A row \in SeedTasks \cup SeedNotes : row.created <= now
  /\ tasks = SeedTasks /\ history = {} /\ comments = {}
  /\ notes = SeedNotes
  /\ members = {Reader}
  /\ writer = [w \in Writers |-> [pc |-> "idle", began |-> 0, ended |-> 0]]
  /\ query \in Queries
  /\ walk = [state |-> "new", skip |-> 0, seen |-> {}, got |-> 0, stayed |-> {},
             left |-> 0, entered |-> 0, tied |-> FALSE]

Next ==
  \/ ReadPage \/ Refuse \/ Tick
  \/ \E w \in Writers : Begin(w) \/ Commit(w)

Spec == Init /\ [][Next]_vars

----------------------------------------------------------------------------
(* Properties. *)

\* Rows, transactions and walks have their types; what a list answers is a
\* row of the project, in a place a type gives to it.
TypeOK ==
  /\ now \in Time
  /\ tasks \subseteq Task /\ history \cup comments \subseteq Child
  /\ notes \subseteq Note /\ members \subseteq {Reader}
  /\ writer \in [Writers -> [pc: {"idle", "open", "closed"}, began: Time, ended: Time]]
  /\ query \in Queries /\ walk \in Walk

\* Pages by OFFSET of a list that moves: a walk that has reached the end
\* missed, of the rows that were there all the time, at most as many as left
\* the list meanwhile; insertions, wherever they sort, make it miss none.
\* (Ties excepted: PostgreSQL may list them in another order each time.)
MissedAtMostLeft ==
  walk.state = "done" /\ ~walk.tied => Cardinality(walk.stayed \ walk.seen) <= walk.left

\* ... and it answers no more rows twice than came into the list meanwhile.
RepeatsAtMostEntered ==
  ~walk.tied => walk.got - Cardinality(walk.seen) <= walk.entered

\* Two rows whose transactions did not overlap are listed as they came (the
\* later one first; the earlier one in the comments of a task), although
\* created_at is the start of a transaction and rows appear at its end; only
\* of overlapping transactions may the order be another.
ListedAsTheyCame ==
  \A q \in Queries :
    q.of # "tasks" \/ q.sort_by = "created_at" =>
      \A s \in Listings(List(q)) : \A i, j \in DOMAIN s :
        /\ s[i].id \in Writers /\ s[j].id \in Writers
        /\ writer[s[i].id].ended < writer[s[j].id].began
        => IF q.of = "comments" THEN i < j ELSE j < i
=============================================================================
