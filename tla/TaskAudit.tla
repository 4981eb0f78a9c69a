----------------------------- MODULE TaskAudit -----------------------------
(***************************************************************************)
(* What the task handlers promise about a task's life, whatever runs       *)
(* concurrently: it appears once with status todo and an empty history; a  *)
(* status change and its history row are one step, and neither happens     *)
(* without the other; the history only grows; a task that is gone is gone  *)
(* with its whole history and never returns.  Implemented by TaskService.  *)
(*                                                                         *)
(* It does not promise that a row's old status is the status the task had: *)
(* see HistoryChains in TaskService.                                       *)
(***************************************************************************)
EXTENDS Sequences

CONSTANTS
  Tasks,      \* every task there may ever be
  Initial,    \* those there are at the start
  Statuses,   \* TaskStatus
  First,      \* the status of a new task
  People      \* who may change a status

VARIABLES
  phase,      \* phase[t]: "absent", then "live", then "gone"
  status,     \* status[t] while t is live
  log         \* log[t]: the status changes of t, oldest first

auditVars == <<phase, status, log>>

AuditInit ==
  /\ phase = [t \in Tasks |-> IF t \in Initial THEN "live" ELSE "absent"]
  /\ status = [t \in Tasks |-> First]
  /\ log = [t \in Tasks |-> <<>>]

Appear(t) ==
  /\ phase[t] = "absent"
  /\ phase' = [phase EXCEPT ![t] = "live"]
  /\ UNCHANGED <<status, log>>

Move(t) ==
  /\ phase[t] = "live"
  /\ \E u \in People, old, new \in Statuses :
       /\ old # new
       /\ status' = [status EXCEPT ![t] = new]
       /\ log' = [log EXCEPT ![t] = Append(@, [user |-> u, old |-> old, new |-> new])]
  /\ UNCHANGED phase

Vanish(t) ==
  /\ phase[t] = "live"
  /\ phase' = [phase EXCEPT ![t] = "gone"]
  /\ status' = [status EXCEPT ![t] = First]
  /\ log' = [log EXCEPT ![t] = <<>>]

AuditNext == \E t \in Tasks : Appear(t) \/ Move(t) \/ Vanish(t)

AuditSpec == AuditInit /\ [][AuditNext]_auditVars
=============================================================================
