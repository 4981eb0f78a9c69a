------------------------------ MODULE Accounts ------------------------------
(***************************************************************************)
(* Registration and user management: POST /auth/register, PATCH and DELETE *)
(* on /users/me and /users/{user_id}, over the users table.                *)
(*                                                                         *)
(* As in TaskService a request is a process, and its steps are where the   *)
(* handler awaits: the check of the e-mail, the count of the users, the    *)
(* commit, the refresh.  A patch is checked against the rows its session   *)
(* loaded and writes the columns that differ from them.                    *)
(*                                                                         *)
(* Login, refresh and logout store nothing.  A token names an e-mail, and  *)
(* get_current_user finds its row when the request starts.                 *)
(***************************************************************************)
EXTENDS Permissions, FiniteSets

CONSTANTS
  Seed,       \* users of an installation in use
  SeedAdmins, \* the admins among them
  Emails,     \* addresses EmailStr accepts
  NoneText,   \* the text str(None) returns
  Requests,   \* the requests the API may serve
  Ops,        \* the operations offered
  Unset       \* a payload field the client left out

OpNames == {"register", "patchMe", "patchUser", "deleteMe", "deleteUser"}

\* What the constants must satisfy.
ASSUME AccountsAssumption ==
  /\ SeedAdmins \subseteq Seed
  /\ Seed # {} => SeedAdmins # {}
  /\ Seed \cap Requests = {}
  /\ NoneText \notin Emails
  /\ Null \notin Emails \cup Role \cup Seed \cup Requests
  /\ Unset \notin Emails \cup Role \cup {Null, NoneText}
  /\ Ops \subseteq OpNames

VARIABLES
  live,       \* ids with a row in users
  email,      \* email[u]: the column of u, kept when the row is gone
  role,       \* role[u]: likewise
  req         \* req[r]: the handler's local state

table == <<live, email, role>>
vars  == <<live, email, role, req>>

----------------------------------------------------------------------------
(* Rows and local state.  A user is named by the request that registers it. *)

Ids    == Seed \cup Requests
Stored == Emails \cup {NoneText}
Loaded == [email: Stored \cup {Null}, role: Role]

Points == {"idle", "count", "insert", "checkEmail", "update", "refresh", "delete"}
Ends   == {"done", "failed", "crashed"}

\* by: current_user; who: the user changed; newEmail, newRole: the payload, or
\* what a registration stores; loaded: the target's row as the session read it.
Request ==
  [pc: Points \cup Ends, op: OpNames \cup {"none"}, by: Ids \cup {Null},
   who: Ids \cup {Null}, newEmail: Emails \cup {Unset, Null},
   newRole: Role \cup {Unset, Null}, loaded: Loaded]
Idle ==
  [pc |-> "idle", op |-> "none", by |-> Null, who |-> Null,
   newEmail |-> Unset, newRole |-> Unset,
   loaded |-> [email |-> Null, role |-> "user"]]

User(u)     == [id |-> u, role |-> role[u]]
At(r, p)    == req[r].pc = p
InFlight(r) == req[r].pc \notin Ends \cup {"idle"}

Ended(q, end) == [Idle EXCEPT !.pc = end, !.op = q.op]
Goto(r, p)    == req' = [req EXCEPT ![r].pc = p]
Finish(r, end) == req' = [req EXCEPT ![r] = Ended(@, end)]
Fail(r)       == Finish(r, "failed") /\ UNCHANGED table

Accept(r, op, local) ==
  /\ At(r, "idle")
  /\ op \in Ops
  /\ req' = [req EXCEPT ![r] = [local EXCEPT !.op = op]]
  /\ UNCHANGED table

\* The unique index ix_users_email: e is the e-mail of a row other than u's.
TakenByOther(e, u) == \E v \in live \ {u} : email[v] = e

\* A new installation, or one with users who have different e-mails.
Init ==
  /\ live \in {{}, Seed}
  /\ \E f \in [Seed -> Emails] :
       /\ \A u, v \in Seed : f[u] = f[v] => u = v
       /\ email = [u \in Ids |-> IF u \in live THEN f[u] ELSE Null]
  /\ role = [u \in Ids |-> IF u \in live \cap SeedAdmins THEN "admin" ELSE "user"]
  /\ req = [r \in Requests |-> Idle]

----------------------------------------------------------------------------
(* POST /auth/register *)

Register(r) ==
  \E e \in Emails :
    /\ \A v \in live : email[v] # e
    /\ Accept(r, "register", [Idle EXCEPT !.pc = "count", !.who = r, !.newEmail = e])

\* Regression: the new user is counted too.
FirstRoleCountingSelf == IF Cardinality(live) = 1 THEN "admin" ELSE "user"

\* The role create_user gives, from the count it has read.
FirstRole == IF live = {} THEN "admin" ELSE "user"

CountUsers(r) ==
  /\ At(r, "count")
  /\ req' = [req EXCEPT ![r].pc = "insert", ![r].newRole = FirstRole]
  /\ UNCHANGED table

InsertUser(r) ==
  /\ At(r, "insert")
  /\ IF TakenByOther(req[r].newEmail, r)
     THEN Fail(r)
     ELSE /\ live' = live \cup {r}
          /\ email' = [email EXCEPT ![r] = req[r].newEmail]
          /\ role' = [role EXCEPT ![r] = req[r].newRole]
          /\ Goto(r, "refresh")

----------------------------------------------------------------------------
(* PATCH /users/me and PATCH /users/{user_id}.  Name and password are       *)
(* abstracted: they refuse null as the role does.                           *)

\* The e-mail is looked up unless the payload leaves it out or sets it to null.
Patch(r, op, u, v, e, ro) ==
  Accept(r, op,
    [Idle EXCEPT !.pc = IF e \in Emails THEN "checkEmail" ELSE "update",
                 !.by = u, !.who = v, !.newEmail = e, !.newRole = ro,
                 !.loaded = [email |-> email[v], role |-> role[v]]])

Payload(ro) == ro \in Role \cup {Unset, Null}

\* Regression: the payload's role is not looked at.
MayPatchAnything(ro) == Payload(ro)

MayPatchMe(ro) == Payload(ro) /\ check_forbid_role_in_me_payload(ro)

PatchMe(r) ==
  \E u \in live, e \in Emails \cup {Unset, Null}, ro \in Role \cup {Unset, Null} :
    MayPatchMe(ro) /\ Patch(r, "patchMe", u, u, e, ro)

PatchUser(r) ==
  \E u, v \in live, e \in Emails \cup {Unset, Null}, ro \in Role \cup {Unset, Null} :
    /\ check_can_update_user(User(u), User(v))
    /\ check_role_change_in_payload(User(u), ro)
    /\ can_change_target_role(User(u), User(v)) \/ check_forbid_role_in_me_payload(ro)
    /\ Patch(r, "patchUser", u, v, e, ro)

\* 400 when another user has the e-mail.
CheckEmail(r) ==
  /\ At(r, "checkEmail")
  /\ IF TakenByOther(req[r].newEmail, req[r].who)
     THEN Fail(r)
     ELSE Goto(r, "update") /\ UNCHANGED table

\* str(update_data["email"]): null becomes the text None.
EmailText(q) == IF q.newEmail = Null THEN NoneText ELSE q.newEmail

EmailChanged(q) == q.newEmail # Unset /\ EmailText(q) # q.loaded.email

\* Regression: every column of the payload is written.
RoleGiven(q) == q.newRole # Unset

RoleChanged(q) == q.newRole # Unset /\ q.newRole # q.loaded.role

\* Regression: the columns without their NOT NULL.
NullAccepted(q) == FALSE

\* The NOT NULL columns: a changed role may be null, a changed e-mail is a text.
NullRefused(q) ==
  \/ RoleChanged(q) /\ q.newRole = Null
  \/ EmailChanged(q) /\ EmailText(q) = Null

\* UPDATE users SET <changed columns> WHERE id.  It fails when there is no
\* row, when a column is set to null, and when another row has the e-mail.
UpdateUser(r) ==
  LET q == req[r] u == q.who IN
  /\ At(r, "update")
  /\ IF \/ (EmailChanged(q) \/ RoleChanged(q)) /\ u \notin live
        \/ NullRefused(q)
        \/ EmailChanged(q) /\ TakenByOther(EmailText(q), u)
     THEN Fail(r)
     ELSE /\ email' = IF EmailChanged(q) THEN [email EXCEPT ![u] = EmailText(q)] ELSE email
          /\ role' = IF RoleChanged(q) THEN [role EXCEPT ![u] = q.newRole] ELSE role
          /\ Goto(r, "refresh")
          /\ UNCHANGED live

\* After the commit: the refresh raises when the row is gone, the response
\* model when the e-mail is not an address.
RefreshUser(r) ==
  LET u == req[r].who IN
  /\ At(r, "refresh")
  /\ IF u \in live /\ email[u] \in Emails
     THEN Finish(r, "done") /\ UNCHANGED table
     ELSE Fail(r)

----------------------------------------------------------------------------
(* DELETE /users/me and DELETE /users/{user_id} *)

DeleteMe(r) ==
  \E u \in live :
    Accept(r, "deleteMe", [Idle EXCEPT !.pc = "delete", !.by = u, !.who = u])

DeleteUser(r) ==
  \E u, v \in live :
    /\ check_admin(User(u))
    /\ check_can_delete_user(User(u), User(v))
    /\ Accept(r, "deleteUser", [Idle EXCEPT !.pc = "delete", !.by = u, !.who = v])

\* Rows of other tables may keep the user (TaskService says which); a row
\* that is already gone only logs a warning.
DeleteRow(r) ==
  /\ At(r, "delete")
  /\ \/ Fail(r)
     \/ /\ live' = live \ {req[r].who}
        /\ Finish(r, "done")
        /\ UNCHANGED <<email, role>>

----------------------------------------------------------------------------
(* The API process. *)

Arrive(r) ==
  Register(r) \/ PatchMe(r) \/ PatchUser(r) \/ DeleteMe(r) \/ DeleteUser(r)

Step(r) ==
  \/ CountUsers(r) \/ InsertUser(r) \/ CheckEmail(r) \/ UpdateUser(r)
  \/ RefreshUser(r) \/ DeleteRow(r)

\* The process dies between two awaits.
Crash ==
  /\ \E r \in Requests : InFlight(r)
  /\ req' = [r \in Requests |->
               IF InFlight(r) THEN Ended(req[r], "crashed") ELSE req[r]]
  /\ UNCHANGED table

Quiet ==
  /\ \A r \in Requests : ~InFlight(r)
  /\ UNCHANGED vars

Next == Crash \/ Quiet \/ \E r \in Requests : Arrive(r) \/ Step(r)

Spec == Init /\ [][Next]_vars

----------------------------------------------------------------------------
(* Properties. *)

\* Every row and every handler's local state has its type.
TypeOK ==
  /\ live \subseteq Ids
  /\ email \in [Ids -> Stored \cup {Null}]
  /\ \A u \in live : email[u] \in Stored
  /\ role \in [Ids -> Role]
  /\ req \in [Requests -> Request]

\* However registrations, patches and deletions interleave, an installation
\* with users has an admin, or had one who is gone: the first user to commit
\* counted an empty table (create_user), and no patch takes the role away.
\* The roles of deleted users are kept in role.
SomeAdmin == \E u \in Ids : role[u] = "admin"
AdminExists == live # {} => SomeAdmin

\* No step takes the admin role from a user, although patch_user checks the
\* target's role on a row that may be promoted before the commit.
AdminsStayAdmins ==
  [][\A u \in live \cap live' : role[u] = "admin" => role'[u] = "admin"]_vars

\* The role of a user changes only by the patch of somebody else who is (or,
\* if deleted since, was) an admin at the commit, not just at the check.
RolesAreGivenByAdmins ==
  [][\A u \in live \cap live' : role'[u] # role[u] =>
       \E r \in Requests : /\ At(r, "update") /\ req[r].who = u
                           /\ req[r].by # u /\ role[req[r].by] = "admin"]_vars

----------------------------------------------------------------------------
(* What the repository says and the handlers do not keep. *)

\* README.md:90: the first registered user becomes admin, subsequent
\* registrations get user.  (Of registrations alone: a patch may promote.)
OneBootstrapAdmin ==
  \A r, s \in Requests : r \in live /\ s \in live
    /\ role[r] = "admin" /\ role[s] = "admin" => r = s
=============================================================================
