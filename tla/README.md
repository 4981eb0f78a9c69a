# Task Tracker API: TLA+ models and proofs

The Task Tracker API is a FastAPI service over PostgreSQL, with Redis as a cache
and as the broker of a Celery worker. Its handlers are coroutines: each `await`
lets any other request run, and every request works on its own database session.
This directory models what that concurrency does to the data, checks the models
with TLC on small instances, and proves the main results with TLAPS for all
instances.

## Inventory

| Component | State | Operations | Interacts with | Correct when |
|---|---|---|---|---|
| Task handlers (`app/api/endpoints/tasks.py`, `app/crud/task.py`) | rows of `tasks` | create, patch, patch status, delete; list, get, search | permissions, history, notifications, cache, feed | no committed change of another request is undone; every accepted request ends |
| Status history (`app/models/history.py`) | rows of `task_status_history` | append in the status handler | tasks, activity | the last entry is the task's status; old status is the status before; rows go with the task |
| Comments (`app/crud/comment.py`) | rows of `comments` | create, edit, delete, list | tasks | belongs to a task and an author who exist |
| Projects and members (`app/crud/project.py`) | rows of `projects`, `project_members` | CRUD, add and remove member | users, tasks, permissions | the owner exists and is no member row; a member is a user |
| Users and accounts (`app/crud/user.py`, `auth.py`, `deps.py`) | rows of `users`; tokens held by clients | register, login, refresh, patch, delete | everything, through foreign keys and tokens | one bootstrap admin; e-mails unique; a deletion leaves nothing dangling |
| Notifications (`app/crud/notification.py`) | rows of `notifications` | create on assignment, unread list, mark as read | task handlers, users | only real assignments, to the assignee; a read one stays read |
| E-mail (`app/worker/tasks.py`) | messages at the broker | enqueue, log | notifications | follows its notification |
| Permissions (`app/api/permissions`) | none | pure checks on loaded rows | all handlers | the checks agree with the roles they document |
| Task list cache (`app/core/cache.py`) | Redis keys `tasks:list:*` | get, set with TTL, scan and delete | list handler, task handlers | a list is no staler than promised |
| Live feed (`app/core/ws.py`) | sockets per project, in memory | connect, disconnect, broadcast | status handler | every status change reaches the open sockets |
| Activity, filters, sort, pages (`app/crud/activity.py`, `crud/task.py`) | none | queries | tasks, history, comments | pages partition the result; the order is the documented one |
| Database session (`app/db/session.py`) | connection pool, identity map | open, commit, roll back | all handlers | READ COMMITTED; a session is closed with its request |
| Rate limiter, request ids, logs, settings, migrations, containers | none the rest reads | | | |

What is hard here: handlers that read a row, await, and write; several
transactions in one request (task, then notification, then e-mail) with a crash
or an error between them; the difference between what SQLAlchemy's unit of work
does to children at a flush and what the foreign keys do at the DELETE; effects
out of order after the commit (invalidation, broadcast); connections that run out; lists
that change between two pages. There are no retries in the application's own code,
and its only timeouts are the cache's and the connection pool's. `PROJECT.json` lists each hazard at its
line with the properties that cover it.

## Modules

| Module | Contents |
|---|---|
| `Permissions` | the checks of `app/api/permissions` as predicates over rows |
| `TaskService` | the handlers of tasks, comments, members and user deletion as interleaved processes over the tables; extends `Permissions` |
| `TaskAudit` | the abstract life of a task: what `TaskService` promises |
| `MCTaskService` | `TaskService` for TLC |
| `TaskServiceProofs`, `NotificationProofs` | the theorems about `TaskService` |
| `Accounts` | registration, the two user patches and the two user deletions as interleaved processes over the users table; extends `Permissions` |
| `MCAccounts` | `Accounts` for TLC |
| `AccountsProofs` | the theorems about `Accounts` |
| `TaskFeed` | rooms, WebSocket handlers and the broadcasts of status changes, socket by socket |
| `MCTaskFeed` | `TaskFeed` for TLC |
| `TaskFeedProofs`, `FeedMessageProofs` | the theorems about `TaskFeed`: its rooms, and its messages |
| `TaskListCache` | the cached task lists, the handlers that fill and invalidate them, and the connection pool |
| `MCTaskListCache` | `TaskListCache` for TLC |
| `TaskListCacheProofs` | the theorems about `TaskListCache` |
| `Paging` | the queries behind every list, and a client that pages through one while rows change; extends `Permissions` |
| `MCPaging` | `Paging` for TLC: its rows, queries and payloads |
| `PagingProofs` | the theorems about `Paging` |
| `Projects` | the handlers of projects and members, with task creation, assignment and user deletion beside them; extends `Permissions` |
| `MCProjects` | `Projects` for TLC |
| `ProjectsProofs` | the theorems about `Projects` |

### How TaskService corresponds to the code

*State.* `users`, `members`, `live`/`task`, `history`, `comments`, `notes` are the
tables of one project. Ids are autoincremented and never reused, so a row is named
by the request that inserted it (tasks the project starts with are `Seed`).
`emails` is what the broker accepted. `req[r]` is the local state of handler `r`:
`pc` is where it will continue, `loaded` the row its session read, `obj` the row
after `session.refresh`, `kids` and `joined` what the unit of work collected for a
user's deletion, `wrote` whether its own transaction committed.

*Steps.* A request starts with an action that makes its checks (`CreateTask`,
`PatchTask`, ...): the reads and the permission checks in one step, because each
is a read and what matters is the age of the copy. A refused request is the
stuttering step. Then:

| Code | Action |
|---|---|
| `session.commit()` of create, patch, status | `InsertTask`, `UpdateTask`, `UpdateTaskStatus` |
| `session.refresh` | `Refresh`, `RefreshComment` (raise when the row is gone) |
| `invalidate_project_task_list` | `Invalidate` (errors are swallowed) |
| `create_notification`, `send_mock_email_task.delay` | `CreateNotification`, `SendEmail` |
| `ws_manager.broadcast` | `BroadcastStatus` |
| `session.delete(task)`, its flush, its commit | `FlushTaskChildren`, `DeleteTaskRow` |
| the comment handlers | `InsertComment`, `UpdateCommentRow`, `DeleteCommentRow` |
| `add_member_to_project`, `remove_member_from_project` | `InsertMember`, `DeleteMemberRow` |
| `session.delete(user)`, its flush, its commit | `FlushUserChildren`, `DeleteUserRow` |
| an exception that leaves the handler | `Fail`: 500 and rollback |
| the API process dies | `Crash`: all handlers end, committed rows stay |

*Database.* The engine sets no isolation level, so PostgreSQL runs READ COMMITTED.
A flush takes the row locks and its commit releases them, so a flush with its
commit is one step that applies its statements to the rows as they are then. It is
split only where the unit of work first loads the children of a deleted object:
those reads lock nothing, and rows may arrive before the DELETE. An UPDATE sets
the columns whose values differ from the loaded ones, by primary key: no other
column is written (`Updated`). A missing row raises `StaleDataError` for a single
UPDATE and only warns for a DELETE. Sessions do not expire on commit, so a handler
keeps its copy.

*SQLAlchemy on deletion.* The relationships have no `passive_deletes`. Deleting a
task loads its history and comments and sets their `task_id` to NULL, which the
NOT NULL columns refuse (`FlushTaskChildren`). Deleting a user does the same with
owned projects, authored tasks, comments and notifications (`HasFixedChildren`),
nulls `assignee_id` of the tasks collected (`Cleared`), and removes the member
rows collected. What arrived since meets the foreign keys: `ON DELETE SET NULL`
for assignees, `CASCADE` for notifications, refusal for the rest
(`StillReferenced`).

### How Accounts corresponds to the code

*State.* `live`, `email` and `role` are the users table: a user is named by the
request that registers it, `Seed` are those of an installation in use, and the
columns of a deleted user are kept so that properties can speak of him. `req[r]`
holds the caller (`by`), the user changed (`who`), the payload, and in `loaded` the
target's columns as the session read them.

| Code | Action |
|---|---|
| `register`: the e-mail lookup; `create_user`: the count; the commit | `Register`, `CountUsers`, `InsertUser` |
| `patch_me`, `patch_user`: the caller, the target and the checks | `PatchMe`, `PatchUser` |
| `get_user_by_email` of a patch | `CheckEmail` |
| `update_user`: the commit, the refresh and the response model | `UpdateUser`, `RefreshUser` |
| `delete_me`, `delete_user_by_id`, `delete_user` | `DeleteMe`, `DeleteUser`, `DeleteRow` |

A payload field is left out (`Unset`), set to null (`Null`) or given. `str(None)` is
modelled by what it does: `EmailText` of null is the text `NoneText`, which the
column stores and the response model refuses. A null role breaks NOT NULL at the
flush. The unique index is `TakenByOther`. A token holds an e-mail, and its owner
may have changed it, so any user may be a request's caller. `DeleteRow` may fail:
what rows of other tables refuse is `TaskService`'s subject.

### How TaskFeed corresponds to the code

*State.* `keys` and `room` are `ConnectionManager._rooms`: a `defaultdict` whose keys
may exist with an empty set, so the two are kept apart. `sock[s]` is one
connection with the handler that serves it; a client that reconnects uses another
one. Its `inbox` is what the client received, and is forgotten once it is gone.
`live`, `status` and `log` are the tasks of `TaskService` reduced to what a broadcast
tells; `req[r]` is a status handler, with the locals of `broadcast` (`sockets`, the
copy of the room; `todo`, those still to come; `dead`).

| Code | Action |
|---|---|
| `project_task_status_ws` up to its checks | `Connect` |
| `accept()` returns and the socket joins, or raises | `Accepted`, `NotAccepted` |
| the peer goes away | `Lose` |
| `receive_text` raises `WebSocketDisconnect` | `Notice` (`disconnect`) |
| `receive_text` raises something else | `Break`: the handler ends, the room keeps the socket |
| `update_task_status`, its commit and its refresh | `PatchStatus`, `UpdateTaskStatus`, `Refresh` |
| `broadcast`: the copy of the room | `StartBroadcast` |
| one `await send_json`; after the last one, the `disconnect`s | `Send` |
| `delete` | `DeleteTask` |
| the API process dies | `Crash`: no room and no connection is left |

`broadcast` goes through a list made from a set, so the order of its sends is any
order (`\E s \in q.todo`). What a send to a socket whose peer is gone does depends on
how far the server has noticed: it raises, or the message is dropped. What happens
between the commit and the broadcast apart from the refresh (the cache
invalidation) leaves this state alone, and only delays.

### How TaskListCache corresponds to the code

*State.* `version[p]` counts the committed changes to the tasks of a project; a list is
the version it was read from. `cache[p][l]` is what Redis has under the key of
project `p` with the filters, order and page `l`; Redis outlives the API process.
`conns` are the requests that have a connection of the pool, `sockets` counts the
WebSocket handlers that have one. `req[r]` is a handler: a list, a change (create,
patch, status), the deletion of a task, or that of a user.

| Code | Action |
|---|---|
| the first query (`get_current_user`) | `Connect`, or `TimeOut` when the pool is used up |
| `cache_get_json`, `get_tasks`, `cache_set_json` | `CacheGet`, `GetTasks`, `CacheSet` |
| `session.commit()`, which gives the connection back | `Commit` |
| `session.refresh`, which asks for one again | `Refresh`, or `TimeOut` |
| one SCAN call of `scan_iter`; `client.delete(*keys)` | `Scan`, `Unlink` |
| `CACHE_ENABLED` is off, or Redis raises | `NotInvalidated`, the second branches of `CacheGet` and `CacheSet` |
| the TTL of 60 s is over | `Expire` |
| a WebSocket is accepted, its client leaves | `OpenSocket`, `CloseSocket` |

SCAN may return the keys that exist all the time it runs, and any others or not:
`todo` are the keys it has still to visit. Time is abstracted: an entry may expire at
any moment, which covers every TTL. What follows the invalidation (notification,
e-mail, broadcast) is `TaskService`'s; the handler ends here. `DeletedSince` lets a
refresh raise when a deletion of the project's tasks committed after the change.

### How Paging corresponds to the code

*State.* The tables of one project, with the columns its queries read: `match` stands
for "the title or the description contains the words", `Drafts` are what payloads may
set. `query` is what the client asks for, `walk` where it is; `left`, `entered`, `stayed`
and `tied` record what happened to its list since the first page. `writer[w]` is the
transaction of a request that writes, with the times it began and committed.

| Code | Definition |
|---|---|
| `_apply_task_filters`, `_apply_task_sort`, `get_tasks`, `search_tasks` | `apply_task_filters`, `SortKey`, `get_tasks`, `search_tasks` |
| `get_project_activity`, `get_task_comments`, `get_unread_for_user` | the operators of these names |
| `order_by`; `offset(skip).limit(limit)` | `Listings` (every order that ties allow); `Page` |
| a list endpoint, with its checks | `ReadPage`, or `Refuse` (403, 404) |
| `get_current_user` begins a transaction, `now()` is its start | `Begin`, `CreatedAt` |
| the writing handlers, at their commit | `Commit` with `Create`, `Patch`, `ChangeStatus`, `Delete`, `Comment`, `Uncomment`, `Notify`, `MarkNotificationRead`, `RemoveMember` |

The writing handlers are reduced to their effect on the rows (their own races are
`TaskService`'s subject). A page is read from the database: with the cache on, a page
of a task list may be as old as `TaskListCache` says. The client asks for
`skip + limit` next and stops at a short page; that is how these endpoints are paged,
not code of this repository.

### How Projects corresponds to the code

*State.* The tables `users`, `projects`, `members`, `tasks` reduced to their references;
`joined` remembers everybody who was a member or the owner of a project. `req[r]` has
in `loaded` the rows of `project_members` its session loaded, in `kids` the tasks a user's
deletion collected.

| Code | Action |
|---|---|
| `create`: `create_project`, `refresh` and `get_project` | `CreateProject`, `InsertProject`, `Reload` |
| `patch`: `update_project`, its refresh | `PatchProject`, `UpdateProject`, `Reload` |
| `delete`: the checks; the tasks the unit of work loads; the DELETEs and the commit | `DeleteProject`, `FlushTasks`, `DeleteProjectRow` |
| `add_member`, `remove_member` | `AddMember`, `InsertMember`, `RemoveMember`, `DeleteMemberRow`, `Reload` |
| task `create`, and `patch` of an assignee | `CreateTask`, `InsertTask`, `PatchTask`, `AssignTask` |
| `delete_me`, `delete_user_by_id` | `DeleteUser`, `FlushChildren`, `DeleteUserRow` |
| `get_projects` | the operator of this name |

`Project.tasks` has no `passive_deletes` either: tasks that are loaded have their
`project_id` set to NULL, which the column refuses, so a project with tasks is not
deleted although the foreign key says CASCADE. The member rows loaded by `get_project`
are deleted with it; one that is missing by then is not noticed (asyncpg gives no
row count for several rows), one added since makes the foreign key refuse.

## Properties

Of `TaskService`:

| Property | Says | Where |
|---|---|---|
| `TypeOK` | every row and every local has its type | run `handlers`, proved |
| `RefIntegrity` | nothing refers to a user or a task that is gone; the owner stays | run `handlers`, proved |
| `StatusIsLastLogged` | a task's status is the last its history records | run `audit`, proved |
| `ImplementsAudit` | a task appears once, moves one logged step at a time, is gone for good with its history | run `audit`, proved |
| `NotifiedWasAssigned` | nobody is notified of an assignment nobody made | run `handlers`, proved |
| `EmailAfterNotice` | a message goes out only after its stored notification | run `handlers`, proved |
| `AssigneeAsNamed` | an assignee changes only to the one a patch of that task names, or to none by the deletion of a user: a patch of other fields, with an old row in hand, neither clears nor takes back an assignment | run `handlers` (action property), proved |
| `RequestsEnd` | every accepted request ends | run `handlers` (liveness) |

Of `Accounts`:

| Property | Says | Where |
|---|---|---|
| `TypeOK` | every row and every local has its type; no column is null, though payloads may say so | run `accounts`, proved |
| `AdminExists` | an installation with users has, or had, an admin, however registrations race | run `accounts`, proved |
| `AdminsStayAdmins` | no step takes the admin role away, although the check reads a row that may be promoted before the commit | run `accounts`, proved |
| `RolesAreGivenByAdmins` | a role changes only by the patch of somebody else who is an admin at that moment | run `accounts`, proved |

Of `TaskFeed`:

| Property | Says | Where |
|---|---|---|
| `TypeOK` | types; a broadcast never has a socket both to come and failed | run `task_feed`, proved |
| `RoomsMatchSockets` | an open socket is in its room; a room holds only sockets of its project whose handler has not seen them leave | run `task_feed`, proved |
| `NoEmptyRooms` | `_rooms` has a key exactly for the rooms that hold a socket | run `task_feed`, proved |
| `BroadcastReachesAll` | a broadcast that ends has reached every socket that was in the room and is still open, exactly once, whichever others failed | run `task_feed`, proved |
| `MessagesAreFresh` | a message tells a status the task has had since its sender's commit, the sender's or a later one | run `task_feed`, proved |

Of `TaskListCache`:

| Property | Says | Where |
|---|---|---|
| `TypeOK` | types; no entry is newer than the tasks | run `task_list_cache`, proved |
| `CleanInvalidation` | an invalidation that began with no older list under way, and without an error of Redis, leaves no older list in the cache and lets none come, although lists are stored while it scans | run `task_list_cache`, proved |
| `ConnectionsReturned` | a handler that ended or waits for the pool has no connection; never more are out than the pool has | run `task_list_cache`, proved |
| `RequestsEnd` | every accepted request ends, also when WebSockets keep all the connections | run `task_list_cache` (liveness) |

README.md:99 says that mutations invalidate the lists of their project. They do not quite:
a list read before the commit may be stored after the invalidation
(`endpoints/tasks.py:94`). `CleanInvalidation` is what is left of it. Of two
more gaps the model has the steps and no property: a user's deletion changes tasks and
invalidates nothing, and a refresh that fails after the commit skips the invalidation.
Nothing but the TTL ends what these three leave behind.

Of `Paging`:

| Property | Says | Where |
|---|---|---|
| `TypeOK` | types; a priority is never null, though payloads may say so | run `paging`, proved |
| `MissedAtMostLeft` | of the rows that were there all the time a finished walk missed at most as many as left the list meanwhile: insertions make it miss none | run `paging`, proved |
| `RepeatsAtMostEntered` | it answers no more rows twice than came into the list | run `paging`, proved |
| `ListedAsTheyCame` | rows of transactions that did not overlap are listed in the order of their commits | run `paging`, proved |

A row whose sort key or filter changes leaves and enters. The two bounds say nothing of
lists in which two rows tie: none of the orders has a tiebreaker, and PostgreSQL may list
ties in another order for each page, so rows can be missed though nothing changes.

Of `Projects`:

| Property | Says | Where |
|---|---|---|
| `TypeOK` | types; ids are unique | run `projects`, proved |
| `RefIntegrity` | no project, member row or task refers to a project or a user that is gone | run `projects`, proved |
| `AssigneeHadJoined` | an assignee is, or was once, a member or the owner | run `projects`, proved |
| `ListedOnce` | a user's list of projects has each of his projects once | run `projects`, proved |

Five properties state what the repository says and the handlers do not keep; each
has a run in which TLC finds the counterexample.

| Property | Says | What happens |
|---|---|---|
| `HistoryChains` (`tests/test_tasks.py:43`) | a history row's old status is the status before the change | two requests load `todo`; both rows say they came from `todo` |
| `AssignmentNotified` (README "Notifications") | an assignment by someone else is notified | the second of two concurrent patches is in the refreshed row of the first: the first assignee hears nothing |
| `UnassignsOnlyTheDeleted` (`models/task.py:44`) | deleting a user unassigns only him | a task reassigned after the flush collected it loses the new assignee |
| `OneBootstrapAdmin` (README "First registered user") | of two users registered, one became admin | both registrations count no user before either commits |
| `LastMessageIsStatus` (`endpoints/tasks.py:229`, "Live task status updates") | a client that heard every broadcast has last heard the task's status | two changes are broadcast in the opposite order of their commits |

Three more disagreements need no interleaving, and the modules do what the code does
without stating a property about it. A task that has history or comments cannot be
deleted, nor a project that has tasks: the flush sets the children's foreign key to NULL,
the column refuses, and the request ends with 500 (`FlushTaskChildren`, `FlushTasks`),
although `models/comment.py:21`, `models/history.py:22` and `models/task.py:38` say
CASCADE. And a patch of a user with `"email": null` stores the text None
(`crud/user.py:60`, see `EmailText`), although `schemas/user.py:10` says it is an address.

`AdminExists` counts admins who are gone: the code lets the only admin delete
himself, and nobody can give the role again.

## Runs and bounds

| Run | Instance | Distinct states |
|---|---|---|
| `handlers` (`Handlers.cfg`) | owner, a member, an admin outside the project; one task, assigned or not; two requests out of all ten operations; crashes | 195,528 |
| `audit` (`Audit.cfg`) | the owner; one task; three requests out of create, patch, status, delete, comment; crashes | 119,155 |
| `accounts` (`Accounts.cfg`) | an empty table, or an admin and a user; three addresses; two requests out of all five operations; crashes | 13,033 |
| `task_feed` (`TaskFeed.cfg`) | two projects, one task, two sockets of either project, two status changes, deletion, crashes | 154,736 |
| `task_list_cache` (`TaskListCache.cfg`) | one project, two keys, three requests out of four kinds, two connections, any number of WebSockets that fit, Redis failures, crashes | 153,912 |
| `paging` (`Paging.cfg`) | two tasks and two notifications at the start, nine queries, two writers out of nine operations, pages of one row, a clock of three moments | 158,689 |
| `projects` (`Projects.cfg`) | a project with its owner, a member, and a task or none; an admin; three requests out of eight operations; crashes | 160,112 |
| the five counterexamples | one or two requests of the operations they are about | up to the counterexample |

Two requests are enough for every race between one handler's copy of a row and
another's write, which is what the checks of `handlers` are about; the three users
give an owner, a member who can be assigned, removed and deleted, and a caller
whose role overrides membership. The status properties need a third: a stale
copy, the change it missed, and a change before both. A history is as long as
there are status requests, so at most three. `audit` needs one user because a
permission never decides a status; its requests are interchangeable
(`Symmetry`). In `accounts` two requests
race a check against a commit; the third address is the one neither seeded user
has; requests and addresses are interchangeable. In `task_feed`
two sockets let one leave or fail while the other is served, in the same room or
in another one; two status changes let one commit, broadcast or find its sockets
gone while the other is under way; sockets and requests are each interchangeable. A
third socket could only repeat what one of the two does: a broadcast serves
sockets independently of each other. In `task_list_cache` the third request is what makes
a stale fill meet an invalidation and a deletion meet a refresh; two connections let
two requests race, and a WebSocket make one of them wait or fail; two keys let a scan
visit one before and one after a fill. In `paging` two writers overlap or follow each
other; with pages of one row every row is a page boundary, and two changes are enough
to shift a row across it and back; three moments order two transactions around the
seeded rows. In `projects` the third request changes the members or the
tasks between the two steps of a deletion that races another request; requests are
interchangeable in both. Nothing else is bounded: `MaxTime` bounds the clock of
`Paging`, the versions of `TaskListCache` count commits, and every request runs once.

Deadlock is checked, except where the system stops because every request has run
(`Paging`, `Projects`). `Quiet` is the stuttering of a service with no request
under way.

*Fairness.* `WF_vars(Step(r))` for every request: the event loop resumes a
coroutine whose await is over, and each await here is over eventually (a
database statement, a Redis call, a broker call; the row locks are held within
one step). Clients are not fair, and neither is `Crash`. `TaskListCache` adds that the pool's
timeout fires, which is a step of the waiting handler. The other modules assume no
fairness: their properties are about what may not happen.

Each property has a mutant in `PROJECT.json`: a definition of the model changed
the way a regression would (the operators marked "Regression"), under which TLC
finds the property violated.

## What is proved

`TaskServiceProofs` proves, from `ServiceAssumption` alone (the owner is a user, the
initial members are users other than the owner, tasks and requests have different
names, `Null` and `Unset` are values of their own), for any sets of users, tasks and
requests:

* `TypeCorrect`: `Spec => []TypeOK`. Each handler's start is reduced to one shape
  (`ArriveShape`), each step to "the point moves on" (`GotoMoves`, `CommitMoves`).
* `ReferencesHold`: `Spec => []RefIntegrity`. Not inductive alone: a user is added or
  deleted on the word of rows read earlier, so `RefInv` adds `Targets`, that neither
  target is the owner. For `DeleteUserRow` the proof shows that what the unit of
  work nulls together with what `SET NULL` nulls is every task assigned to the
  user, and that anything else referring to him made the flush or the DELETE fail.
* `StatusMatchesHistory`: `Spec => []StatusIsLastLogged`. `LifeInv` adds `Creating`, what
  a create knows of its task (there is a row only if the insert committed), and needs
  `RefInv` because a deleted task must have no history left.
* `ServiceImplementsAudit`: `Spec => ImplementsAudit`, under the refinement mapping
  `phase` (absent, live, gone; gone is recognised by the create that committed) and
  `statusOf`. Each step is one of four kinds (`StepStatus`): it leaves status and
  history alone, moves one task, adds one, or removes one.
* `AssigneesAreNamed`: `Spec => AssigneeAsNamed`, from `LifeInv`. An insert changes no
  task that is there, because its row is not (`Creating`); an update writes the assignee
  only when the payload names another one than the loaded row (`StepNames`).
* `NoMessageWithoutNotice` (in `NotificationProofs`): `Spec => []EmailAfterNotice`. The
  handler that is about to send remembers that it has stored the notification
  (`NoticeStored`), users are only removed, and only the user's deletion removes a
  notification (`NoticesStay`).

`AccountsProofs` proves, from `AccountsAssumption` alone (an installation in use has an
admin; seeded users and requests have different names; `Null`, `Unset` and `NoneText`
are values of their own), for any users, addresses and requests:

* `TypeCorrect`, `AlwaysAnAdmin` (`Spec => []AdminExists`), `NobodyIsDemoted`
  (`Spec => AdminsStayAdmins`) and `OnlyAdminsGiveRoles`
  (`Spec => RolesAreGivenByAdmins`). None is inductive alone. `IInv` adds `Between(r)`, what
  holds of a handler between two awaits: a registration has no row yet, and joins as
  a user only when there is or was an admin; a patch that carries a role came from an
  admin, about somebody else, whose loaded role was user. It is kept because every
  step promotes or leaves alone (`Promotions`), so an admin at the check is one at
  the commit.

`TaskFeedProofs` proves, from `FeedAssumption` alone (each task has a project), for any
projects, tasks, connections and requests:

* `TypeCorrect`, `RoomsAreRight` (`Spec => []RoomsMatchSockets`) and `NoRoomLeaks`
  (`Spec => []NoEmptyRooms`). A broadcast that ends removes the sockets that failed, by
  then long ago, from a room that has changed since its copy was made, so
  `RoomsMatchSockets` is not inductive alone: `IInv` adds `Worked(r)`, that a socket a
  broadcast works on has been in its room, and that one that failed is no longer
  open. It is kept because a socket only goes on (`SocketsGoOn`): none that was open
  is new again, and none that is gone is open again.

`FeedMessageProofs` goes on from there, under the same assumption:

* `BroadcastsReachAll` (`Spec => []BroadcastReachesAll`) and `NoStaleMessages`
  (`Spec => []MessagesAreFresh`). `MInv` adds `Heard(r)`, how far a broadcast has come
  (nobody has heard of one that has not begun; of one that sends, the sockets served have
  one message if they are still there, and those to come have none), `Current(r)`, that
  the status a handler will announce is one the task has had since its commit, and
  `Logged`, that the log ends with the column. Logs only grow, so what is fresh stays so.

`NotificationProofs` also proves `NoticesAreOfAssignments`
(`Spec => []NotifiedWasAssigned`), from `ServiceAssumption`. The handler compares the row it
loaded with the row it refreshed, which may be another request's, so `AssignInv` says of
every live task (`AssigneeKnown`) that its assignee was assigned by a request that
committed (`Given`), or is the one in every row a patch of this task has loaded
(`OldAssignee`), and of every handler on its way to the notification (`OnTheWay`) that an
assignee it will notify was given.

`TaskListCacheProofs` proves, from `CacheAssumption` alone (the pool has a size, `None` is
neither a version nor a list), for any projects, lists, requests and pool size:

* `TypeCorrect`, `NoConnectionLeaks` (`Spec => []ConnectionsReturned`) and
  `InvalidationsHold` (`Spec => []CleanInvalidation`). The last needs `Cleared(r)`: while the
  scan of an invalidation is clear, no older list has been read and not yet stored, and
  every older entry is under a key the scan has still to visit or has found
  (`Remaining`); and `Real(r)`, that nobody has read a version that is not there yet. A list
  read later is never older, and SCAN returns every key that is there all the time.

`ProjectsProofs` proves, from `ProjectsAssumption` alone (the rows at the start have their
types, ids of their own and no dangling references; admins are users), for any users,
projects, tasks and requests:

* `TypeCorrect`, `ReferencesHold` (`Spec => []RefIntegrity`), `AssigneesJoined`
  (`Spec => []AssigneeHadJoined`) and `ListsHaveEachOnce` (`Spec => []ListedOnce`). `IInv` adds
  `PeopleJoined`, that members and owners have joined, and `Handler(r)`, what is known between two awaits: a row to be
  inserted is new; whoever will be assigned has joined the task's project. A step adds no
  row but its own and moves no task to another project (`Grows`), so what was checked of
  a task's project holds at the commit.

`PagingProofs` proves, from `PagingAssumption` alone (a page has at least one row, as
`Query(ge=1)` demands; the rows at the start and the payloads have their types; a query
asks for a list and an order there is), for any rows, queries, payloads, writers, page
size and length of the run:

* `TypeCorrect`, and `OrderOfArrival` (`Spec => []ListedAsTheyCame`): a row that is there was
  inserted by a request that has committed, and is listed at the time it began
  (`Written`, `PlaceIsTime`).
* `MissesAreBounded` (`Spec => []MissedAtMostLeft`) and `RepeatsAreBounded`
  (`Spec => []RepeatsAtMostEntered`). Neither bound is inductive: while the walk is under
  way everything that is still to be read is missing. `MissedBound` says for *every* key
  that, of the rows above it, no more are missing than rows have left, or else so many
  are missing that the next page begins before the last of them; `RepeatBound`
  counts, in the same way, the rows below every key that were answered already. A page is
  what lies between two cuts of the listing (`PageCut`), a cut is what lies above some key
  (`CutIsAbove`), and the rows above a key come first (`CutOrder`); so reading a page
  keeps both bounds, for each place the key may have before, in or after the page
  (`MissedByRead`, `RepeatedByRead`), and a change keeps them because each row that left
  moves one row across a key at most, and each row that came likewise
  (`MissedByChange`, `RepeatedByChange`). The proof needs neither induction over the
  listing nor any bound on what one commit changes.

Every safety invariant and action property the passing runs check is so proved, and the
refinement of `TaskAudit`; each inductive invariant was checked by TLC on the same
instances before its proof. Only model-checked are the liveness properties,
`RequestsEnd` of `TaskService` and of `TaskListCache`: they need
fairness and `ENABLED`, which are out of the prover's reach. That the five properties of the
counterexamples fail is TLC's word alone.

## Plan

1. Done: the modules, runs and theorems above.
2. What would say more: the safety half of `RequestsEnd` as theorems (each step of a handler
   moves it to a later point, so a request takes a bounded number of steps, and a
   handler in flight always has a step that its guards allow, stated without
   `ENABLED`); and of `Paging`, that a walk over a list that does not change and has no
   ties answers every row once, as a corollary of the two bounds.

## Not modelled

Titles, descriptions and the text of comments: no handler decides anything by them,
and a search reads them as one Boolean. `TaskService` has one project; handlers of
different projects share only users, and `Projects` has several.
`GET` of a single row changes nothing and answers what it loads. Row locks that make
one transaction wait for another inside a flush are not modelled: a flush and its commit
are one step, so deadlocks PostgreSQL would break with an error are not seen.
Tokens, passwords, login and logout keep nothing on the server. The worker only logs.
Rate limiting (slowapi's counters), request ids, logging, settings, migrations and
containers have no state of their own that these properties depend on.
