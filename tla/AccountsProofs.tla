--------------------------- MODULE AccountsProofs ---------------------------
(***************************************************************************)
(* Theorems about Accounts, for any users, addresses, requests and         *)
(* workload: the table stays well typed, an installation with users has or *)
(* had an admin, and no handler takes the admin role away.                 *)
(***************************************************************************)
EXTENDS Accounts, TLAPS

----------------------------------------------------------------------------
(* Types. *)

LEMMA IdleIsRequest == Idle \in Request
BY DEF Idle, Request, Points, Ids, Loaded, Role

LEMMA InitTypes == Init => TypeOK
<1> SUFFICES ASSUME Init PROVE TypeOK
  OBVIOUS
<1>1. PICK f \in [Seed -> Emails] :
        email = [u \in Ids |-> IF u \in live THEN f[u] ELSE Null]
  BY DEF Init
<1>2. live \subseteq Seed /\ Seed \subseteq Ids
  BY DEF Init, Ids
<1>3. email \in [Ids -> Stored \cup {Null}] /\ \A u \in live : email[u] \in Stored
  BY <1>1, <1>2 DEF Stored
<1>4. role \in [Ids -> Role]
  BY DEF Init, Role
<1>5. req \in [Requests -> Request]
  BY IdleIsRequest DEF Init
<1> QED
  BY <1>2, <1>3, <1>4, <1>5 DEF TypeOK

LEMMA EndedIsRequest ==
  ASSUME NEW q \in Request, NEW end \in Ends
  PROVE  Ended(q, end) \in Request
BY IdleIsRequest DEF Ended, Request

----------------------------------------------------------------------------
(* The inductive invariant. *)

\* What holds of a handler between two of its awaits: a registration has no
\* row before its commit and joins as a user only when there is (or was) an
\* admin; a patch that carries a role was sent by an admin about another user,
\* who was no admin when the row was loaded.
Between(r) ==
  LET q == req[r] IN
  /\ q.pc \in {"idle", "count", "insert"} => r \notin live /\ role[r] = "user"
  /\ q.pc \in {"count", "insert"} => q.newEmail \in Emails
  /\ q.pc = "insert" => q.newRole \in Role
  /\ q.pc = "insert" /\ q.newRole = "user" => SomeAdmin
  /\ q.pc \in {"checkEmail", "update"} /\ q.newRole \in Role =>
       /\ q.by \in Ids /\ q.by # q.who
       /\ role[q.by] = "admin" /\ q.loaded.role = "user"

IInv ==
  /\ TypeOK
  /\ AdminExists
  /\ \A r \in Requests : Between(r)

\* What every step does to the rows: nobody is demoted.
Promotions == \A u \in Ids : role[u] = "admin" => role'[u] = "admin"

LEMMA SomeAdminStays ==
  ASSUME Promotions, SomeAdmin
  PROVE  SomeAdmin'
BY DEF Promotions, SomeAdmin

LEMMA InitIInv == Init => IInv
<1> SUFFICES ASSUME Init PROVE IInv
  OBVIOUS
<1>1. TypeOK
  BY InitTypes
<1>2. AdminExists
  <2> SUFFICES ASSUME live # {} PROVE SomeAdmin
    BY DEF AdminExists
  <2>1. live = Seed
    BY DEF Init
  <2>2. PICK u \in SeedAdmins : u \in Ids /\ u \in live
    BY <2>1, AccountsAssumption DEF Ids
  <2>3. role[u] = "admin"
    BY <2>2 DEF Init
  <2> QED
    BY <2>2, <2>3 DEF SomeAdmin
<1>3. ASSUME NEW r \in Requests PROVE Between(r)
  <2>1. req[r] = Idle
    BY DEF Init
  <2>2. r \in Ids /\ r \notin live /\ role[r] = "user"
    BY AccountsAssumption DEF Init, Ids
  <2> QED
    BY <2>1, <2>2 DEF Between, Idle
<1> QED
  BY <1>1, <1>2, <1>3 DEF IInv

\* The handler of another request keeps its promises over a step that demotes
\* nobody and leaves the row of a registration alone.
LEMMA OthersBetween ==
  ASSUME NEW r \in Requests, Between(r), Promotions, req'[r] = req[r],
         r \notin live /\ role[r] = "user" => r \notin live' /\ role'[r] = "user"
  PROVE  Between(r)'
BY SomeAdminStays DEF Between, Promotions

\* A step that only moves r on, leaving the table alone.
LEMMA LocalStep ==
  ASSUME IInv, UNCHANGED table, NEW r \in Requests, NEW q \in Request,
         req' = [req EXCEPT ![r] = q],
         Between(r)'
  PROVE  IInv' /\ Promotions
<1>1. live' = live /\ email' = email /\ role' = role
  BY DEF table
<1>2. TypeOK'
  BY <1>1 DEF IInv, TypeOK
<1>3. AdminExists' /\ Promotions
  BY <1>1 DEF IInv, AdminExists, SomeAdmin, Promotions
<1>4. ASSUME NEW s \in Requests PROVE Between(s)'
  <2>1. CASE s = r
    BY <2>1
  <2>2. CASE s # r
    BY <1>1, <1>3, <2>2, OthersBetween DEF IInv, TypeOK
  <2> QED
    BY <2>1, <2>2
<1> QED
  BY <1>2, <1>3, <1>4 DEF IInv

LEMMA FailStep ==
  ASSUME IInv, NEW r \in Requests, NEW end \in Ends, Finish(r, end), UNCHANGED table
  PROVE  IInv' /\ Promotions
<1> DEFINE q == Ended(req[r], end)
<1>1. q \in Request /\ q.pc = end
  BY EndedIsRequest, IdleIsRequest DEF IInv, TypeOK, Ended, Idle
<1>2. req' = [req EXCEPT ![r] = q]
  BY DEF Finish
<1>3. req'[r] = q
  BY <1>2 DEF IInv, TypeOK
<1>4. Between(r)'
  BY <1>1, <1>3 DEF Between, Ends
<1> HIDE DEF q
<1> QED
  BY <1>1, <1>2, <1>4, LocalStep

----------------------------------------------------------------------------
(* The steps, an action at a time. *)

LEMMA ArriveStep ==
  ASSUME IInv, NEW r \in Requests, Arrive(r)
  PROVE  IInv' /\ Promotions
<1>0. /\ Idle \in Request /\ live \subseteq Ids /\ r \in Ids /\ req[r].pc = "idle"
      /\ r \notin live /\ role[r] = "user" /\ role \in [Ids -> Role]
      /\ email \in [Ids -> Stored \cup {Null}]
  BY IdleIsRequest
  DEF IInv, TypeOK, Between, Ids, Arrive, Register, PatchMe, PatchUser, Patch,
      DeleteMe, DeleteUser, Accept, At
<1>1. ASSUME NEW op \in OpNames, NEW local \in Request, Accept(r, op, local),
             local.pc \in {"count", "checkEmail", "update", "delete"},
             local.pc = "count" => local.newEmail \in Emails,
             local.newRole \in Role => /\ local.by \in Ids /\ local.by # local.who
                                       /\ role[local.by] = "admin"
                                       /\ local.loaded.role = "user"
      PROVE  IInv' /\ Promotions
  <2> DEFINE q == [local EXCEPT !.op = op]
  <2>1. /\ q \in Request /\ q.pc = local.pc /\ q.newEmail = local.newEmail
        /\ q.newRole = local.newRole /\ q.by = local.by /\ q.who = local.who
        /\ q.loaded = local.loaded
    BY DEF Request
  <2>2. req' = [req EXCEPT ![r] = q] /\ live' = live /\ role' = role /\ UNCHANGED table
    BY <1>1 DEF Accept, table
  <2> HIDE DEF q
  <2>3. req'[r] = q
    BY <2>2 DEF IInv, TypeOK
  <2>4. Between(r)'
    BY <1>0, <1>1, <2>1, <2>2, <2>3 DEF Between
  <2> QED
    BY <2>1, <2>2, <2>4, LocalStep
<1>2. CASE Register(r)
  <2>1. PICK e \in Emails :
          Accept(r, "register", [Idle EXCEPT !.pc = "count", !.who = r, !.newEmail = e])
    BY <1>2 DEF Register
  <2> DEFINE local == [Idle EXCEPT !.pc = "count", !.who = r, !.newEmail = e]
  <2>2. local \in Request
    BY <1>0 DEF Request, Points
  <2>3. local.pc = "count" /\ local.newEmail \in Emails /\ local.newRole \notin Role
    BY AccountsAssumption DEF Idle, Role
  <2> QED
    BY <1>1, <2>1, <2>2, <2>3 DEF OpNames
\* check_forbid_role_in_me_payload, or can_change_target_role, for a role.
<1>3. ASSUME NEW op \in {"patchMe", "patchUser"}, NEW u \in live, NEW v \in live,
             NEW e \in Emails \cup {Unset, Null}, NEW ro \in Role \cup {Unset, Null},
             Patch(r, op, u, v, e, ro),
             ro \in Role => role[u] = "admin" /\ u # v /\ role[v] # "admin"
      PROVE  IInv' /\ Promotions
  <2> DEFINE p == IF e \in Emails THEN "checkEmail" ELSE "update"
             row == [email |-> email[v], role |-> role[v]]
             local == [Idle EXCEPT !.pc = p, !.by = u, !.who = v, !.newEmail = e,
                                   !.newRole = ro, !.loaded = row]
  <2>1. /\ p \in {"checkEmail", "update"} /\ p \in Points \cup Ends
        /\ row \in Loaded /\ row.role = role[v]
    BY <1>0 DEF Points, Loaded
  <2>2. Accept(r, op, local)
    BY <1>3 DEF Patch
  <2> HIDE DEF p, row
  <2>3. local \in Request
    BY <1>0, <2>1 DEF Request
  <2>4. /\ local.pc = p /\ local.by = u /\ local.who = v /\ local.newRole = ro
        /\ local.loaded = row
    BY DEF Idle
  <2>5. ro \in Role => u \in Ids /\ u # v /\ role[u] = "admin" /\ role[v] = "user"
    BY <1>0, <1>3 DEF Role
  <2>6. op \in OpNames
    BY DEF OpNames
  <2> HIDE DEF local
  <2> QED
    BY <1>1, <2>1, <2>2, <2>3, <2>4, <2>5, <2>6
<1>4. CASE PatchMe(r)
  BY <1>3, <1>4 DEF PatchMe, MayPatchMe, check_forbid_role_in_me_payload
<1>5. CASE PatchUser(r)
  BY <1>3, <1>5
  DEF PatchUser, check_forbid_role_in_me_payload, can_change_target_role, is_admin, User
<1>6. CASE DeleteMe(r) \/ DeleteUser(r)
  <2>1. PICK op \in {"deleteMe", "deleteUser"}, u \in live, v \in live :
          Accept(r, op, [Idle EXCEPT !.pc = "delete", !.by = u, !.who = v])
    BY <1>6 DEF DeleteMe, DeleteUser
  <2> DEFINE local == [Idle EXCEPT !.pc = "delete", !.by = u, !.who = v]
  <2>2. local \in Request
    BY <1>0 DEF Request, Points
  <2>3. local.pc = "delete" /\ local.newRole \notin Role
    BY AccountsAssumption DEF Idle, Role
  <2> QED
    BY <1>1, <2>1, <2>2, <2>3 DEF OpNames
<1> QED
  BY <1>2, <1>4, <1>5, <1>6 DEF Arrive

LEMMA CountStep ==
  ASSUME IInv, NEW r \in Requests, CountUsers(r)
  PROVE  IInv' /\ Promotions
<1> DEFINE q == [req[r] EXCEPT !.pc = "insert", !.newRole = FirstRole]
<1>1. FirstRole \in Role /\ (FirstRole = "user" => live # {})
  BY DEF FirstRole, Role
<1>2. req[r] \in Request /\ req[r].pc = "count" /\ Between(r)
  BY DEF IInv, TypeOK, CountUsers, At
<1>3. /\ q \in Request /\ q.pc = "insert" /\ q.newRole = FirstRole
      /\ q.newEmail = req[r].newEmail
  BY <1>1, <1>2 DEF Request, Points
<1>4. req' = [req EXCEPT ![r] = q] /\ live' = live /\ role' = role /\ UNCHANGED table
  BY DEF CountUsers, table
<1> HIDE DEF q
<1>5. req'[r] = q
  BY <1>4 DEF IInv, TypeOK
<1>6. FirstRole = "user" => SomeAdmin'
  BY <1>1, <1>4 DEF IInv, AdminExists, SomeAdmin
<1>7. Between(r)'
  BY <1>1, <1>2, <1>3, <1>4, <1>5, <1>6 DEF Between
<1> QED
  BY <1>3, <1>4, <1>7, LocalStep

\* r's row joins: an admin, or a user of an installation that has an admin.
LEMMA InsertStep ==
  ASSUME IInv, NEW r \in Requests, InsertUser(r)
  PROVE  IInv' /\ Promotions
<1>1. CASE Fail(r)
  BY <1>1, FailStep DEF Fail, Ends
<1>2. CASE ~Fail(r)
  <2> DEFINE q == [req[r] EXCEPT !.pc = "refresh"]
  <2>1. /\ req[r] \in Request /\ req[r].pc = "insert" /\ Between(r)
        /\ r \in Ids /\ TypeOK
    BY DEF IInv, TypeOK, InsertUser, At, Ids
  <2>2. /\ req[r].newEmail \in Emails /\ req[r].newRole \in Role
        /\ r \notin live /\ role[r] = "user"
        /\ req[r].newRole = "user" => SomeAdmin
    BY <2>1 DEF Between
  <2>3. /\ live' = live \cup {r}
        /\ email' = [email EXCEPT ![r] = req[r].newEmail]
        /\ role' = [role EXCEPT ![r] = req[r].newRole]
        /\ req' = [req EXCEPT ![r] = q]
    BY <1>2, <2>1 DEF InsertUser, Goto
  <2>4. q \in Request /\ q.pc = "refresh"
    BY <2>1 DEF Request, Points
  <2> HIDE DEF q
  <2>5. TypeOK'
    BY <2>1, <2>2, <2>3, <2>4 DEF TypeOK, Stored
  <2>6. Promotions
    BY <2>1, <2>2, <2>3 DEF Promotions, TypeOK
  <2>7. AdminExists'
    <3>1. CASE req[r].newRole = "user"
      BY <2>2, <2>6, <3>1, SomeAdminStays DEF AdminExists
    <3>2. CASE req[r].newRole = "admin"
      <4>1. role'[r] = "admin"
        BY <2>1, <2>3, <3>2 DEF TypeOK
      <4> QED
        BY <2>1, <4>1 DEF AdminExists, SomeAdmin
    <3> QED
      BY <2>2, <3>1, <3>2 DEF Role
  <2>8. ASSUME NEW s \in Requests PROVE Between(s)'
    <3>1. CASE s = r
      BY <2>1, <2>3, <2>4, <3>1 DEF Between, TypeOK
    <3>2. CASE s # r
      BY <2>1, <2>3, <2>6, <3>2, OthersBetween DEF IInv, TypeOK
    <3> QED
      BY <3>1, <3>2
  <2> QED
    BY <2>5, <2>6, <2>7, <2>8 DEF IInv
<1> QED
  BY <1>1, <1>2

LEMMA CheckEmailStep ==
  ASSUME IInv, NEW r \in Requests, CheckEmail(r)
  PROVE  IInv' /\ Promotions
<1>1. CASE Fail(r)
  BY <1>1, FailStep DEF Fail, Ends
<1>2. CASE ~Fail(r)
  <2> DEFINE q == [req[r] EXCEPT !.pc = "update"]
  <2>1. req[r] \in Request /\ req[r].pc = "checkEmail" /\ Between(r)
    BY DEF IInv, TypeOK, CheckEmail, At
  <2>2. req' = [req EXCEPT ![r] = q] /\ role' = role /\ UNCHANGED table
    BY <1>2 DEF CheckEmail, Goto, table
  <2>3. /\ q \in Request /\ q.pc = "update" /\ q.newRole = req[r].newRole
        /\ q.by = req[r].by /\ q.who = req[r].who /\ q.loaded = req[r].loaded
    BY <2>1 DEF Request, Points
  <2> HIDE DEF q
  <2>4. req'[r] = q
    BY <2>2 DEF IInv, TypeOK
  <2>5. Between(r)'
    BY <2>1, <2>2, <2>3, <2>4 DEF Between
  <2> QED
    BY <2>2, <2>3, <2>5, LocalStep
<1> QED
  BY <1>1, <1>2

\* A role that is written is another one than "user", the one loaded.
LEMMA UpdateStep ==
  ASSUME IInv, NEW r \in Requests, UpdateUser(r)
  PROVE  IInv' /\ Promotions
<1>1. CASE Fail(r)
  BY <1>1, FailStep DEF Fail, Ends
<1>2. CASE ~Fail(r)
  <2> DEFINE q == [req[r] EXCEPT !.pc = "refresh"]
             u == req[r].who
             textChanged == EmailChanged(req[r])
             roleChanged == RoleChanged(req[r])
  <2>1. req[r] \in Request /\ req[r].pc = "update" /\ Between(r) /\ TypeOK
    BY DEF IInv, TypeOK, UpdateUser, At
  <2>2. /\ textChanged \/ roleChanged => u \in live
        /\ roleChanged => req[r].newRole # Null
        /\ email' = IF textChanged THEN [email EXCEPT ![u] = EmailText(req[r])] ELSE email
        /\ role' = IF roleChanged THEN [role EXCEPT ![u] = req[r].newRole] ELSE role
        /\ req' = [req EXCEPT ![r] = q]
        /\ live' = live
    BY <1>2 DEF UpdateUser, Goto, NullRefused
  <2>3. textChanged => EmailText(req[r]) \in Stored
    BY <2>1 DEF EmailChanged, EmailText, Request, Stored
  <2>4. roleChanged => req[r].newRole = "admin"
    BY <2>1, <2>2 DEF RoleChanged, Between, Request, Role
  <2>5. q \in Request /\ q.pc = "refresh"
    BY <2>1 DEF Request, Points
  <2> HIDE DEF q, u, textChanged, roleChanged
  <2>6. TypeOK'
    <3>1. email' \in [Ids -> Stored \cup {Null}] /\ \A v \in live' : email'[v] \in Stored
      BY <2>1, <2>2, <2>3 DEF TypeOK
    <3>2. role' \in [Ids -> Role]
      BY <2>1, <2>2, <2>4 DEF TypeOK, Role
    <3> QED
      BY <2>1, <2>2, <2>5, <3>1, <3>2 DEF TypeOK
  <2>7. Promotions
    BY <2>1, <2>2, <2>4 DEF Promotions, TypeOK
  <2>8. AdminExists'
    BY <2>2, <2>7, SomeAdminStays DEF IInv, AdminExists
  <2>9. ASSUME NEW s \in Requests PROVE Between(s)'
    <3>1. CASE s = r
      BY <2>1, <2>2, <2>5, <3>1 DEF Between, TypeOK
    <3>2. CASE s # r
      <4>1. s \notin live /\ role[s] = "user" => s \notin live' /\ role'[s] = "user"
        BY <2>1, <2>2 DEF TypeOK
      <4>2. req'[s] = req[s] /\ Between(s)
        BY <2>1, <2>2, <3>2 DEF TypeOK, IInv
      <4> QED
        BY <2>7, <4>1, <4>2, OthersBetween
    <3> QED
      BY <3>1, <3>2
  <2> QED
    BY <2>6, <2>7, <2>8, <2>9 DEF IInv
<1> QED
  BY <1>1, <1>2

LEMMA RefreshStep ==
  ASSUME IInv, NEW r \in Requests, RefreshUser(r)
  PROVE  IInv' /\ Promotions
BY FailStep DEF RefreshUser, Fail, Ends

LEMMA DeleteStep ==
  ASSUME IInv, NEW r \in Requests, DeleteRow(r)
  PROVE  IInv' /\ Promotions
<1>1. CASE Fail(r)
  BY <1>1, FailStep DEF Fail, Ends
<1>2. CASE ~Fail(r)
  <2> DEFINE q == Ended(req[r], "done")
  <2>1. /\ live' \subseteq live /\ email' = email /\ role' = role
        /\ req' = [req EXCEPT ![r] = q] /\ TypeOK
    BY <1>2 DEF DeleteRow, Finish, IInv
  <2>2. q \in Request /\ q.pc = "done"
    BY <2>1, EndedIsRequest, IdleIsRequest DEF TypeOK, Ended, Idle, Ends
  <2> HIDE DEF q
  <2>3. TypeOK' /\ Promotions
    BY <2>1, <2>2 DEF TypeOK, Promotions
  <2>4. AdminExists'
    BY <2>1 DEF IInv, AdminExists, SomeAdmin
  <2>5. ASSUME NEW s \in Requests PROVE Between(s)'
    <3>1. CASE s = r
      BY <2>1, <2>2, <3>1 DEF Between, TypeOK
    <3>2. CASE s # r
      BY <2>1, <2>3, <3>2, OthersBetween DEF TypeOK, IInv
    <3> QED
      BY <3>1, <3>2
  <2> QED
    BY <2>3, <2>4, <2>5 DEF IInv
<1> QED
  BY <1>1, <1>2

LEMMA CrashStep ==
  ASSUME IInv, Crash
  PROVE  IInv' /\ Promotions
<1>1. /\ live' = live /\ email' = email /\ role' = role /\ TypeOK
      /\ req' = [r \in Requests |->
                   IF InFlight(r) THEN Ended(req[r], "crashed") ELSE req[r]]
  BY DEF Crash, table, IInv
<1>2. TypeOK'
  <2>1. \A r \in Requests : Ended(req[r], "crashed") \in Request
    BY <1>1, EndedIsRequest DEF TypeOK, Ends
  <2> QED
    BY <1>1, <2>1 DEF TypeOK
<1>3. AdminExists' /\ Promotions
  BY <1>1 DEF IInv, AdminExists, SomeAdmin, Promotions
<1>4. ASSUME NEW r \in Requests PROVE Between(r)'
  <2>1. CASE InFlight(r)
    <3>1. req'[r].pc = "crashed"
      BY <1>1, <2>1, IdleIsRequest DEF Ended, Idle
    <3> QED
      BY <3>1 DEF Between
  <2>2. CASE ~InFlight(r)
    BY <1>1, <1>3, <2>2, OthersBetween DEF IInv
  <2> QED
    BY <2>1, <2>2
<1> QED
  BY <1>2, <1>3, <1>4 DEF IInv

LEMMA NextStep ==
  ASSUME IInv, [Next]_vars
  PROVE  IInv' /\ Promotions
<1>1. CASE UNCHANGED vars
  BY <1>1 DEF vars, IInv, TypeOK, AdminExists, SomeAdmin, Between, Promotions
<1>2. CASE Crash
  BY <1>2, CrashStep
<1>3. CASE Quiet
  BY <1>1, <1>3 DEF Quiet
<1>4. ASSUME NEW r \in Requests, Arrive(r) \/ Step(r) PROVE IInv' /\ Promotions
  BY <1>4, ArriveStep, CountStep, InsertStep, CheckEmailStep, UpdateStep,
     RefreshStep, DeleteStep DEF Step
<1> QED
  BY <1>1, <1>2, <1>3, <1>4 DEF Next

\* What AdminsStayAdmins and RolesAreGivenByAdmins say of a step: only
\* UpdateUser changes the role of a user who stays, and it writes the role of a
\* payload an admin has sent about somebody else.
LEMMA OnlyUpdatesChangeRoles ==
  ASSUME IInv, [Next]_vars, NEW u \in live \cap live', role'[u] # role[u]
  PROVE  \E r \in Requests :
           UpdateUser(r) /\ ~Fail(r) /\ req[r].who = u /\ RoleChanged(req[r])
<1>1. role' # role /\ TypeOK /\ u \in Ids
  BY DEF IInv, TypeOK
<1>2. PICK r \in Requests : Arrive(r) \/ Step(r)
  BY <1>1 DEF Next, vars, Crash, Quiet, table
<1>3. ~Fail(r)
  BY <1>1 DEF Fail, table
<1>4. ~Arrive(r)
  BY <1>1 DEF Arrive, Register, PatchMe, PatchUser, Patch, DeleteMe, DeleteUser, Accept, table
<1>5. ~CountUsers(r) /\ ~CheckEmail(r) /\ ~RefreshUser(r) /\ ~DeleteRow(r)
  BY <1>1, <1>3 DEF CountUsers, CheckEmail, RefreshUser, DeleteRow, table
<1>6. ~InsertUser(r)
  <2> SUFFICES ASSUME InsertUser(r) PROVE FALSE
    OBVIOUS
  <2>1. r \notin live /\ role' = [role EXCEPT ![r] = req[r].newRole]
    BY <1>3 DEF InsertUser, IInv, Between, At
  <2> QED
    BY <1>1, <2>1 DEF TypeOK
<1>7. UpdateUser(r)
  BY <1>2, <1>4, <1>5, <1>6 DEF Step
<1>8. req[r].who = u /\ RoleChanged(req[r])
  BY <1>1, <1>3, <1>7 DEF UpdateUser, TypeOK
<1> QED
  BY <1>3, <1>7, <1>8

----------------------------------------------------------------------------
(* The theorems. *)

THEOREM InvariantHolds == Spec => []IInv
<1>1. IInv /\ [Next]_vars => IInv'
  BY NextStep
<1> QED
  BY InitIInv, <1>1, PTL DEF Spec

\* Every reachable state is well typed (the columns of crud/user.py and the
\* locals of the handlers).
THEOREM TypeCorrect == Spec => []TypeOK
<1>1. IInv => TypeOK
  BY DEF IInv
<1> QED
  BY <1>1, InvariantHolds, PTL

\* An installation with users has, or had, an admin, however registrations
\* (create_user), patches and deletions interleave.
THEOREM AlwaysAnAdmin == Spec => []AdminExists
<1>1. IInv => AdminExists
  BY DEF IInv
<1> QED
  BY <1>1, InvariantHolds, PTL

\* No interleaving of patch_user with anything takes the admin role away.
THEOREM NobodyIsDemoted == Spec => AdminsStayAdmins
<1>1. IInv /\ [Next]_vars =>
        [\A u \in live \cap live' : role[u] = "admin" => role'[u] = "admin"]_vars
  BY NextStep DEF IInv, TypeOK, Promotions
<1> QED
  BY <1>1, InvariantHolds, PTL DEF Spec, AdminsStayAdmins

\* A role changes only by the patch of somebody else who is an admin when it
\* is written, and not just when patch_user checked.
THEOREM OnlyAdminsGiveRoles == Spec => RolesAreGivenByAdmins
<1>1. ASSUME IInv, [Next]_vars, NEW u \in live \cap live', role'[u] # role[u]
      PROVE  \E r \in Requests : /\ At(r, "update") /\ req[r].who = u
                                 /\ req[r].by # u /\ role[req[r].by] = "admin"
  <2>1. PICK r \in Requests :
          UpdateUser(r) /\ ~Fail(r) /\ req[r].who = u /\ RoleChanged(req[r])
    BY <1>1, OnlyUpdatesChangeRoles
  <2>2. At(r, "update") /\ req[r].newRole # Null /\ req[r] \in Request /\ Between(r)
    BY <1>1, <2>1 DEF UpdateUser, NullRefused, IInv, TypeOK
  <2>3. req[r].newRole \in Role
    BY <2>1, <2>2 DEF RoleChanged, Request
  <2> QED
    BY <2>1, <2>2, <2>3 DEF Between, At
<1>2. IInv /\ [Next]_vars =>
        [\A u \in live \cap live' : role'[u] # role[u] =>
           \E r \in Requests : /\ At(r, "update") /\ req[r].who = u
                               /\ req[r].by # u /\ role[req[r].by] = "admin"]_vars
  BY <1>1
<1> QED
  BY <1>2, InvariantHolds, PTL DEF Spec, RolesAreGivenByAdmins
=============================================================================
