------------------------------- MODULE Authz -------------------------------
(***************************************************************************)
(* The server's authorization rules (backend/authz.py) and their copy in   *)
(* the browser (core/auth/permissions.ts), as operators.  A server check   *)
(* yields "ok" or the HTTP status it refuses with; a browser check yields  *)
(* TRUE or FALSE.                                                          *)
(*                                                                         *)
(* A user is [username, role]; an account has at least the fields role and *)
(* deleted, or is NoAccount; an incident has at least assigned_to, which   *)
(* is a username or NoUser.  A request body is a record whose field has is *)
(* the set of keys the client sent.                                        *)
(***************************************************************************)
EXTENDS FiniteSets

CONSTANTS NoUser,       \* null in assigned_to
          NoAccount     \* an unknown username

Roles == {"analyst", "manager", "admin"}

INCIDENT_STATUSES == {"open", "investigating", "contained", "closed"}

INCIDENT_LEADS == {"admin", "manager"}

-----------------------------------------------------------------------------
(* The server. *)

CanWorkOnIncident(user, inc) ==
    user.role \in INCIDENT_LEADS \/ inc.assigned_to = user.username

CheckWorkOnIncident(user, inc) ==
    IF CanWorkOnIncident(user, inc) THEN "ok" ELSE "403"

\* active: the usernames get_user finds.
CheckAssignment(user, inc, new, active) ==
    IF new # NoUser /\ new \notin active THEN "422"
    ELSE IF \/ user.role \in INCIDENT_LEADS
            \/ inc.assigned_to = NoUser /\ new = user.username
         THEN "ok" ELSE "403"

\* The fields of the body that are written; an unchanged assignee is not.
PatchFields(inc, body) ==
    {f \in body.has : f = "assigned_to" => body.assigned_to # inc.assigned_to}

CheckIncidentPatch(user, inc, body, active) ==
    LET status == IF "status" \notin body.has THEN "ok"
                  ELSE IF body.status \notin INCIDENT_STATUSES THEN "422"
                  ELSE CheckWorkOnIncident(user, inc)
    IN  IF status # "ok" THEN status
        ELSE IF "assigned_to" \in PatchFields(inc, body)
             THEN CheckAssignment(user, inc, body.assigned_to, active)
             ELSE "ok"

Missing(target) == IF target = NoAccount THEN TRUE ELSE target.deleted

\* Mutant: the admin role is an ordinary role.
CheckUserUpdateAnyRole(actor, username, target, body) ==
    IF actor.role \notin INCIDENT_LEADS THEN "403"
    ELSE IF Missing(target) THEN "404"
    ELSE IF \/ username = actor.username /\ "password" \in body.has
            \/ actor.role = "manager"
               /\ ~(body.has = {"password"} /\ target.role = "analyst")
         THEN "403" ELSE "ok"

CheckUserUpdate(actor, username, target, body) ==
    IF actor.role \notin INCIDENT_LEADS THEN "403"
    ELSE IF Missing(target) THEN "404"
    ELSE IF \/ username = actor.username /\ "password" \in body.has
            \/ actor.role = "manager"
               /\ ~(body.has = {"password"} /\ target.role = "analyst")
            \/ /\ "role" \in body.has
               /\ body.role # target.role
               /\ "admin" \in {body.role, target.role}
         THEN "403" ELSE "ok"

\* require_admin, then check_user_create.
CheckUserCreate(actor, body) ==
    IF actor.role # "admin" \/ body.role = "admin" THEN "403" ELSE "ok"

\* require_admin, then check_user_delete, then delete_user's own check.
CheckUserDelete(actor, username, target) ==
    IF actor.role # "admin" THEN "403"
    ELSE IF Missing(target) THEN "404"
    ELSE IF target.role = "admin" THEN "403"
    ELSE IF username = actor.username THEN "409" ELSE "ok"

-----------------------------------------------------------------------------
(* The browser. *)

IsLead(user) == user.role \in {"admin", "manager"}

MayWork(user, inc) == IsLead(user) \/ inc.assigned_to = user.username

MayAssign(user, inc, new) ==
    \/ new = inc.assigned_to
    \/ IsLead(user)
    \/ inc.assigned_to = NoUser /\ new = user.username

MayTake(user, inc) ==
    inc.assigned_to = NoUser /\ MayAssign(user, inc, user.username)

MayPatchIncident(user, inc, body) ==
    /\ "status" \in body.has => MayWork(user, inc)
    /\ "assigned_to" \in body.has => MayAssign(user, inc, body.assigned_to)

MayManageUsers(user) == user.role = "admin"

MayCreateUser(user, body) == MayManageUsers(user) /\ body.role # "admin"

MayDeleteUser(user, target) == MayManageUsers(user) /\ target.role # "admin"

MayUpdateUser(user, username, target, body) ==
    /\ IsLead(user)
    /\ ~(username = user.username /\ "password" \in body.has)
    /\ IF user.role = "admin"
       THEN ~( /\ "role" \in body.has
               /\ body.role # target.role
               /\ "admin" \in {body.role, target.role} )
       ELSE body.has = {"password"} /\ target.role = "analyst"

=============================================================================
