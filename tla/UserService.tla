---------------------------- MODULE UserService ----------------------------
(***************************************************************************)
(* user.service.ts: the status of an account and its deletion.  Profiles   *)
(* and roles are data nothing here depends on.                             *)
(***************************************************************************)
EXTENDS AuthService

\* adminCreateUser: the INSERT, with the status the back office chose.
AdminCreateUser(p, u, status) ==
    /\ Accepts(p, "adminCreateUser")
    /\ accounts[u] = Null
    /\ accounts' = [accounts EXCEPT ![u] = status]
    /\ UNCHANGED <<devices, sessions, tokens, now, req>>

UpdateStatus(p, u, status) ==
    /\ Accepts(p, "updateStatus")
    /\ Exists(u)
    /\ Goto(p, "setStatus", [Idle EXCEPT !.u = u, !.status = status])
    /\ UNCHANGED <<tables, tokens, now>>

SoftDeleteMe(p, k) ==
    /\ Accepts(p, "softDeleteMe")
    /\ Authorized(k, {"active"})
    /\ Goto(p, "setStatus", [Idle EXCEPT !.u = issued[k].user, !.status = "deleted"])
    /\ UNCHANGED <<tables, tokens, now>>

\* The UPDATE; a blocked or deleted account loses its sessions next.
SetStatus(p) ==
    /\ At(p, "setStatus")
    /\ accounts' = IF Exists(req[p].u)
                   THEN [accounts EXCEPT ![req[p].u] = req[p].status] ELSE accounts
    /\ IF req[p].status \in {"blocked", "deleted"} THEN Goto(p, "deleteAll", req[p])
       ELSE Finish(p)
    /\ UNCHANGED <<devices, sessions, tokens, now>>

HardDelete(p, u) ==
    /\ Accepts(p, "hardDelete")
    /\ Exists(u)
    /\ Goto(p, "deleteAllFirst", [Idle EXCEPT !.u = u])
    /\ UNCHANGED <<tables, tokens, now>>

DeleteAllFirst(p) ==
    /\ At(p, "deleteAllFirst")
    /\ sessions' = {s \in sessions : s.user # req[p].u}
    /\ Goto(p, "deleteUser", req[p])
    /\ UNCHANGED <<accounts, devices, tokens, now>>

\* Mutant: the foreign key of user_sessions does not cascade.
SessionsLeftBy(u) == sessions

\* ON DELETE CASCADE, from users and from user_devices.
SessionsKeptBy(u) == {s \in sessions : s.user # u}

DeleteUser(p) ==
    /\ At(p, "deleteUser")
    /\ accounts' = [accounts EXCEPT ![req[p].u] = "gone"]
    /\ devices' = {dev \in devices : dev[1] # req[p].u}
    /\ sessions' = SessionsKeptBy(req[p].u)
    /\ Finish(p)
    /\ UNCHANGED <<tokens, now>>

UserNext(p) ==
    \/ \E u \in Users, status \in NewStatuses :
          AdminCreateUser(p, u, status) \/ UpdateStatus(p, u, status)
    \/ \E u \in Users : HardDelete(p, u)
    \/ \E k \in Tokens : SoftDeleteMe(p, k)
    \/ SetStatus(p) \/ DeleteAllFirst(p) \/ DeleteUser(p)

=============================================================================
