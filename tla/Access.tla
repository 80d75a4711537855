------------------------------- MODULE Access -------------------------------
(***************************************************************************)
(* Who may do what: the roles and the status of accounts, the access       *)
(* tokens that repeat them, and the guards that believe the tokens.        *)
(* auth.service.ts and user.service.ts as far as they write a role, a      *)
(* status or a token; sessions and devices are in Accounts, and whether    *)
(* there still is a session to refresh is left open here.                  *)
(*                                                                         *)
(* As in ScrutinData, an action is what the server does between two        *)
(* awaits.  What a request says (whom it is about, which roles it gives)   *)
(* is chosen where the handler first reads it.                             *)
(***************************************************************************)
EXTENDS Integers, Routes

CONSTANTS
    Users,          \* user ids
    Seeded,         \* the administrator of seed-admin.ts
    Tokens,         \* access tokens; bounds how many are signed
    Procs,          \* requests the server may be serving at the same time
    Serves,         \* Serves[p]: the routes the clients of p ask for
    Keys,           \* the clients they come from
    GivenRoles,     \* the lists of roles administrators send
    GivenStatuses,  \* the statuses administrators send
    MaxTime,        \* bound of the clock
    JWT_TOKEN_EXPIRES_IN,
    JWT_TOKEN_EXPIRES_IN_ADMIN,
    Gone            \* a user whose row was deleted

ASSUME ServesRoutes == Serves \in [Procs -> SUBSET DOMAIN Route]
ASSUME KeysAreClients == Keys \subseteq ApiClientType
ASSUME GivenAreKnown == /\ GivenRoles \subseteq SUBSET UserRole
                        /\ GivenStatuses \subseteq UserStatus
ASSUME TimesAreNat == /\ MaxTime \in Nat
                      /\ JWT_TOKEN_EXPIRES_IN \in Nat
                      /\ JWT_TOKEN_EXPIRES_IN_ADMIN \in Nat

Account == [status : UserStatus, roles : (SUBSET UserRole) \ {{}}]

\* What a token says: whose it is, the account as it was, when it was signed.
Claims == [user : Users, account : Account, at : 0..MaxTime]

ASSUME SeededIsAUser == Seeded \in Users
ASSUME NullIsOutside == Null \notin Users \cup Tokens \cup Account \cup Claims
ASSUME GoneIsNoAccount == Gone \notin Account \cup {Null}

VARIABLES
    users,      \* users[u]: its account, Null before its INSERT, Gone once deleted
    issued,     \* issued[k]: the claims of token k, Null before it is signed
    revoked,    \* the tokens whose jti is in Redis
    now,
    req         \* req[p]: the request p is serving

vars == <<users, issued, revoked, now, req>>

\* name is the route, k the token it came with; u is whom the handler is about,
\* account what it has read of them or is to write.
Idle == [pc |-> "idle", name |-> Null, k |-> Null, u |-> Null, account |-> Null]

PCs == {"idle", "admitted", "sign", "confirm", "reload", "setStatus",
        "setRoles", "delete"}

Request == [pc : PCs, name : DOMAIN Route \cup {Null}, k : Tokens \cup {Null},
            u : Users \cup {Null}, account : Account \cup {Null}]

At(p, pc) == req[p].pc = pc
\* Once in its handler, a request goes by what the handler waits for; nothing
\* looks at its token again.
Wait(p, pc, u, account) ==
    req' = [req EXCEPT ![p] =
        [pc |-> pc, name |-> Null, k |-> Null, u |-> u, account |-> account]]
Finish(p) == req' = [req EXCEPT ![p] = Idle]

Exists(u) == users[u] \in Account

\* getAccessTtl
Ttl(account) == IF Staff \cap account.roles # {} THEN JWT_TOKEN_EXPIRES_IN_ADMIN
                ELSE JWT_TOKEN_EXPIRES_IN
Alive(k) == issued[k] # Null /\ now < issued[k].at + Ttl(issued[k].account)

-----------------------------------------------------------------------------
(***************************************************************************)
(* From the middleware to the handler, whose first statement is the next   *)
(* action.  A request that is refused changes nothing.                     *)
(***************************************************************************)
\* ApiDeserializationMiddleware reads the key and the token and sees whether
\* it has expired, RequireAuthGuard asks Redis; the other guards add nothing
\* that can change while they wait.
Arrive(p, name, key, k) ==
    /\ At(p, "idle")
    /\ ~Route[name].public
    /\ ApiKeyGuard(Route[name], key)
    /\ RequireClientTypeGuard(Route[name], key)
    /\ Alive(k)
    /\ k \notin revoked
    /\ RequireUserStatusGuard(Route[name], issued[k].account)
    /\ RequireRoleGuard(Route[name], issued[k].account)
    /\ req' = [req EXCEPT ![p] =
           [pc |-> "admitted", name |-> name, k |-> k, u |-> Null, account |-> Null]]
    /\ UNCHANGED <<users, issued, revoked, now>>

\* The handler of a route: of a request that was let in, or of one that the
\* guards do not hold up.
Handles(p, name) ==
    \/ At(p, "admitted") /\ req[p].name = name
    \/ /\ At(p, "idle")
       /\ name \in Serves[p]
       /\ Route[name].public
       /\ \E key \in Keys \cup {Null} : ApiKeyGuard(Route[name], key)

-----------------------------------------------------------------------------
(***************************************************************************)
(* The ways to a token.                                                    *)
(***************************************************************************)
\* signAccessToken, with apiGeneratePayLoad's payload.
Sign(u, account) ==
    \E k \in Tokens :
        /\ issued[k] = Null
        /\ issued' = [issued EXCEPT ![k] = [user |-> u, account |-> account, at |-> now]]

\* Await something, then sign for the account as it is in memory.
SignLater(p, u, account) == Wait(p, "sign", u, account)

SignLoaded(p) ==
    /\ At(p, "sign")
    /\ Sign(req[p].u, req[p].account)
    /\ Finish(p)
    /\ UNCHANGED <<users, revoked, now>>

\* The body's roles and status are dropped: the columns take their defaults.
NewUser == [status |-> "unverified", roles |-> {"voter"}]

Register(p, u) ==
    /\ Handles(p, "register")
    /\ users[u] = Null
    /\ users' = [users EXCEPT ![u] = NewUser]
    /\ SignLater(p, u, NewUser)
    /\ UNCHANGED <<issued, revoked, now>>

\* assertClientAccess
ClientAccess(account, key) == key = "back_office" => Staff \cap account.roles # {}

Login(p, u, key) ==
    /\ Handles(p, "login")
    /\ Exists(u)
    /\ ClientAccess(users[u], key)
    /\ SignLater(p, u, users[u])
    /\ UNCHANGED <<users, issued, revoked, now>>

\* findOrCreateGoogleUser, no account with that googleId or email.  Whoever has
\* one signs in as in Login.
NewGoogleUser == [status |-> "active", roles |-> {"voter"}]

RegisterWithGoogle(p, u, key) ==
    /\ Handles(p, "loginWithGoogle")
    /\ users[u] = Null
    /\ users' = [users EXCEPT ![u] = NewGoogleUser]
    /\ IF ClientAccess(NewGoogleUser, key) THEN SignLater(p, u, NewGoogleUser) ELSE Finish(p)
    /\ UNCHANGED <<issued, revoked, now>>

LoginWithGoogle(p, u, key) ==
    /\ Handles(p, "loginWithGoogle")
    /\ Exists(u)
    /\ ClientAccess(users[u], key)
    /\ SignLater(p, u, users[u])
    /\ UNCHANGED <<users, issued, revoked, now>>

\* The token came with some account's token, the body says whose PIN it is.
LoginWithPin(p, u) ==
    /\ Handles(p, "loginWithPin")
    /\ Exists(u)
    /\ users[u].status \notin {"blocked", "deleted"}
    /\ SignLater(p, u, users[u])
    /\ UNCHANGED <<users, issued, revoked, now>>

\* Mutant: the new token repeats the old one.
Repeated(u) == {issued[k].account : k \in {l \in Tokens : issued[l] # Null
                                                      /\ issued[l].user = u}}

\* The accounts a refresh may sign for: the one that findOne has just read.
Reread(u) == {users[u]}

\* For whoever has had a token before; the pair is signed before the next await.
Refresh(p, u) ==
    /\ Handles(p, "refresh")
    /\ Exists(u)
    /\ \E k \in Tokens : issued[k] # Null /\ issued[k].user = u
    /\ \E account \in Reread(u) : Sign(u, account)
    /\ Finish(p)
    /\ UNCHANGED <<users, revoked, now>>

\* verifyOtp has found the code right.
ConfirmEmail(p) ==
    /\ Handles(p, "confirmEmail")
    /\ Wait(p, "confirm", issued[req[p].k].user, Null)
    /\ UNCHANGED <<users, issued, revoked, now>>

\* An UPDATE by id, whatever the status has become.
Confirm(p) ==
    /\ At(p, "confirm")
    /\ users' = IF Exists(req[p].u) THEN [users EXCEPT ![req[p].u].status = "active"]
                ELSE users
    /\ Wait(p, "reload", req[p].u, Null)
    /\ UNCHANGED <<issued, revoked, now>>

Reload(p) ==
    /\ At(p, "reload")
    /\ IF Exists(req[p].u) THEN SignLater(p, req[p].u, users[req[p].u]) ELSE Finish(p)
    /\ UNCHANGED <<users, issued, revoked, now>>

\* logout and logoutAll.
Logout(p) ==
    /\ Handles(p, "logout")
    /\ revoked' = revoked \cup {req[p].k}
    /\ Finish(p)
    /\ UNCHANGED <<users, issued, now>>

-----------------------------------------------------------------------------
(***************************************************************************)
(* user.service.ts.                                                        *)
(***************************************************************************)
\* Mutant: an empty list is a list.
RolesAsSent(roles) == roles

\* "Defaut : [voter] si omis".
RolesOrVoter(roles) == IF roles = {} THEN {"voter"} ELSE roles

CreateUser(p, u, status, roles) ==
    /\ Handles(p, "createUser")
    /\ users[u] = Null
    /\ users' = [users EXCEPT ![u] = [status |-> status, roles |-> RolesOrVoter(roles)]]
    /\ Finish(p)
    /\ UNCHANGED <<issued, revoked, now>>

\* The user is found, and updated an await later.
UpdateStatus(p, u, status) ==
    /\ Handles(p, "updateStatus")
    /\ Exists(u)
    /\ Wait(p, "setStatus", u, [NewUser EXCEPT !.status = status])
    /\ UNCHANGED <<users, issued, revoked, now>>

\* Its sessions are deleted next, which is in Accounts.
SetStatus(p) ==
    /\ At(p, "setStatus")
    /\ users' = IF Exists(req[p].u)
                THEN [users EXCEPT ![req[p].u].status = req[p].account.status] ELSE users
    /\ Finish(p)
    /\ UNCHANGED <<issued, revoked, now>>

UpdateRoles(p, u, roles) ==
    /\ Handles(p, "updateRoles")
    /\ roles # {}
    /\ Exists(u)
    /\ Wait(p, "setRoles", u, [NewUser EXCEPT !.roles = roles])
    /\ UNCHANGED <<users, issued, revoked, now>>

\* Nothing else is written: sessions and tokens stay.
SetRoles(p) ==
    /\ At(p, "setRoles")
    /\ users' = IF Exists(req[p].u)
                THEN [users EXCEPT ![req[p].u].roles = req[p].account.roles] ELSE users
    /\ Finish(p)
    /\ UNCHANGED <<issued, revoked, now>>

SoftDeleteMe(p) ==
    LET u == issued[req[p].k].user IN
    /\ Handles(p, "deleteMe")
    /\ users' = IF Exists(u) THEN [users EXCEPT ![u].status = "deleted"] ELSE users
    /\ Finish(p)
    /\ UNCHANGED <<issued, revoked, now>>

HardDelete(p, u) ==
    /\ Handles(p, "hardDelete")
    /\ u # issued[req[p].k].user
    /\ Exists(u)
    /\ Wait(p, "delete", u, Null)
    /\ UNCHANGED <<users, issued, revoked, now>>

DeleteUser(p) ==
    /\ At(p, "delete")
    /\ users' = [users EXCEPT ![req[p].u] = Gone]
    /\ Finish(p)
    /\ UNCHANGED <<issued, revoked, now>>

-----------------------------------------------------------------------------
\* The handler answers, whatever the route, or throws; the client goes away;
\* the server stops.
Leave(p) ==
    /\ ~At(p, "idle")
    /\ Finish(p)
    /\ UNCHANGED <<users, issued, revoked, now>>

Tick ==
    /\ now < MaxTime
    /\ now' = now + 1
    /\ UNCHANGED <<users, issued, req>>
    /\ revoked' = {k \in revoked : Alive(k)'}

\* seed-admin.ts has run.
SeededAdmin == [status |-> "active", roles |-> {"admin"}]

Init ==
    /\ users = [u \in Users |-> IF u = Seeded THEN SeededAdmin ELSE Null]
    /\ issued = [k \in Tokens |-> Null]
    /\ revoked = {}
    /\ now = 0
    /\ req = [p \in Procs |-> Idle]

HandlerNext(p) ==
    \/ \E u \in Users, key \in Keys :
          Login(p, u, key) \/ RegisterWithGoogle(p, u, key) \/ LoginWithGoogle(p, u, key)
    \/ \E u \in Users : \/ Register(p, u) \/ LoginWithPin(p, u) \/ Refresh(p, u)
                        \/ HardDelete(p, u)
    \/ \E u \in Users, status \in GivenStatuses, roles \in GivenRoles :
          CreateUser(p, u, status, roles)
    \/ \E u \in Users, status \in GivenStatuses : UpdateStatus(p, u, status)
    \/ \E u \in Users, roles \in GivenRoles : UpdateRoles(p, u, roles)
    \/ SignLoaded(p) \/ ConfirmEmail(p) \/ Confirm(p) \/ Reload(p) \/ Logout(p)
    \/ SetStatus(p) \/ SetRoles(p) \/ SoftDeleteMe(p) \/ DeleteUser(p)

Next ==
    \/ \E p \in Procs :
          \/ \E name \in Serves[p], key \in Keys \cup {Null}, k \in Tokens :
                Arrive(p, name, key, k)
          \/ HandlerNext(p) \/ Leave(p)
    \/ Tick

Spec == Init /\ [][Next]_vars

-----------------------------------------------------------------------------
\* Every variable has the values its comment says; every account has a role.
TypeOK ==
    /\ users \in [Users -> Account \cup {Null, Gone}]
    /\ issued \in [Tokens -> Claims \cup {Null}]
    /\ revoked \subseteq Tokens
    /\ now \in 0..MaxTime
    /\ req \in [Procs -> Request]

\* What an account may do comes from its roles and its status.
AllRights == UserRole \cup UserStatus
Rights(account) == account.roles \cup {account.status}
Held(u) == IF Exists(u) THEN Rights(users[u]) ELSE {}

\* The rights of u that p has read and is to sign, that k says, that p came with.
ToSign(p, u) == IF At(p, "sign") /\ req[p].u = u THEN Rights(req[p].account) ELSE {}
Said(k, u) == IF Alive(k) /\ issued[k].user = u THEN Rights(issued[k].account) ELSE {}
Used(p, u) == IF req[p].k # Null /\ issued[req[p].k].user = u
              THEN Rights(issued[req[p].k].account) ELSE {}

\* The guards believe a token for as long as it lives.  Still a role or a status
\* that an account has lost (a demotion, a block, a deletion) drains, whether or
\* not its sessions are deleted: no request reads it again, then no token says it
\* anew, then no request comes with it.
LostRightsDrain ==
    [][\A u \in Users :
          LET lost == AllRights \ (Held(u) \cup Held(u)')
              unsigned == lost \ UNION {ToSign(p, u) : p \in Procs}
              unsaid == unsigned \ UNION {Said(k, u) : k \in Tokens}
          IN  /\ \A p \in Procs : lost \cap ToSign(p, u)' \subseteq ToSign(p, u)
              /\ \A k \in Tokens : unsigned \cap Said(k, u)' \subseteq Said(k, u)
              /\ \A p \in Procs : unsaid \cap Used(p, u)' \subseteq Used(p, u)]_vars

\* A role that nobody has, nobody is about to have, and that no token says.
Unheld(role) ==
    /\ \A p \in Procs : At(p, "setRoles") => role \notin req[p].account.roles
    /\ \A u \in Users :
          /\ role \notin Held(u)
          /\ \A p \in Procs : role \notin ToSign(p, u) \cup Used(p, u)
          /\ \A k \in Tokens : role \notin Said(k, u)

\* Administrators come from administrators: when there is none left, and none of
\* their tokens is, no route makes one, register and updateRoles included.
AdminsComeFromAdmins == [][Unheld("admin") => Unheld("admin")']_vars

\* The statuses that some route lets in, confirmEmail included.
Admitted == {"active", "unverified"}

\* p is going to give u such a status: a code was right, or an administrator asked.
Confirming(p, u) == At(p, "confirm") /\ req[p].u = u
Readmitting(p, u) ==
    At(p, "setStatus") /\ req[p].u = u /\ req[p].account.status \in Admitted

\* u is blocked, disabled or deleted, and nothing in flight knows it otherwise.
Out(u) ==
    /\ Exists(u)
    /\ users[u].status \notin Admitted
    /\ \A p \in Procs : /\ ~Confirming(p, u) /\ ~Readmitting(p, u)
                        /\ (ToSign(p, u) \cup Used(p, u)) \cap Admitted = {}
    /\ \A k \in Tokens : Said(k, u) \cap Admitted = {}

\* confirmEmail writes "active" whatever the status has become, and sign-ins do
\* not look at it: a block may be undone by who had got in before.  Once those
\* requests and tokens are gone it stands, until an administrator lifts it.
BansHold ==
    [][\A u \in Users : Out(u) =>
          Out(u)' \/ ~Exists(u)' \/ \E p \in Procs : Readmitting(p, u)']_vars

=============================================================================
