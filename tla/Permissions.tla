---------------------------- MODULE Permissions ----------------------------
(***************************************************************************)
(* The permission checks of app/api/permissions, as predicates over the    *)
(* rows they read.  A check that raises FORBIDDEN (or, for an assignee,    *)
(* 400) is a predicate that is FALSE; a handler states it as a guard.      *)
(*                                                                         *)
(* A user row is [id, role], a project row [owner_id, members] with        *)
(* members the ids in the relationship the session has loaded, and a       *)
(* comment or notification row has the field user_id.                      *)
(***************************************************************************)

CONSTANT Null     \* SQL NULL / Python None

Role == {"admin", "user"}

is_admin(user) == user.role = "admin"

\* Asked by get_current_admin and for the list of all projects.
check_admin(user) == is_admin(user)

is_user_id_project_member_or_owner(project, user_id) ==
  user_id = project.owner_id \/ user_id \in project.members

is_project_member_or_owner(user, project) ==
  is_user_id_project_member_or_owner(project, user.id)

check_project_member(user, project) ==
  is_admin(user) \/ is_project_member_or_owner(user, project)

check_project_edit(user, project) ==
  is_admin(user) \/ user.id = project.owner_id

\* A task is reached through its project: the admin branch is the same one.
check_task_access(user, project) ==
  is_admin(user) \/ check_project_member(user, project)

check_assignee_is_project_member(project, assignee_id) ==
  assignee_id = Null \/ is_user_id_project_member_or_owner(project, assignee_id)

check_comment_author(user, comment) == comment.user_id = user.id

check_notification_access(user, notification) ==
  is_admin(user) \/ notification.user_id = user.id

\* Self-deletion of an admin is allowed, deletion of another admin is not.
check_can_delete_user(actor, target) ==
  is_admin(target) => target.id = actor.id

check_user_is_self(current_user, target) ==
  is_admin(current_user) \/ current_user.id = target.id

check_can_update_user(actor, target) ==
  /\ check_user_is_self(actor, target)
  /\ is_admin(actor) /\ is_admin(target) => actor.id = target.id

\* role is None for a payload that leaves it out or sets it to null.
check_role_change_in_payload(actor, role) == role \in Role => is_admin(actor)
check_forbid_role_in_me_payload(role)     == role \notin Role
can_change_target_role(actor, target) ==
  is_admin(actor) /\ actor.id # target.id /\ ~is_admin(target)
=============================================================================
