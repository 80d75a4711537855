---------------------------- MODULE AccountData ----------------------------
(***************************************************************************)
(* The tables users, user_devices and user_sessions, the Redis keys        *)
(* jti:<jti>, and the requests in flight that read and write them.  As in  *)
(* ScrutinData, an action is what a handler does between two awaits.       *)
(*                                                                         *)
(* A member of Tokens is a pair of an access and a refresh token: they are *)
(* always signed together, for one user and one device.                    *)
(***************************************************************************)
EXTENDS Integers, FiniteSets

CONSTANTS
    Users,          \* user ids
    Devices,        \* what a fingerprint distinguishes among the devices of a user
    NoAgent,        \* the fingerprint of a request without a User-Agent
    Tokens,         \* pairs of tokens; bounds how many pairs are signed
    Procs,          \* requests the server may be serving at the same time
    Serves,         \* Serves[p]: the operations the clients of p ask for
    NewStatuses,    \* the statuses admins give to accounts
    MaxTime,        \* bound of the clock
    AccessTtl,      \* life of an access token
    JTI_BLACKLIST_TTL,
    REFRESH_TOKEN_TTL,
    Null

AccountOperations == {"register", "registerWithGoogle", "login", "loginWithPin",
                      "confirmEmail", "refresh", "resetPassword",
                      "logout", "logoutAll", "revokeSession",
                      "adminCreateUser", "updateStatus", "softDeleteMe", "hardDelete"}

UserStatus == {"active", "unverified", "disabled", "blocked", "deleted"}

ASSUME TtlsAreNat == /\ MaxTime \in Nat
                     /\ AccessTtl \in Nat
                     /\ JTI_BLACKLIST_TTL \in Nat
                     /\ REFRESH_TOKEN_TTL \in Nat
\* "TTL du jti au logout = duree max d'un access token admin".
ASSUME JtiOutlivesAccess == AccessTtl <= JTI_BLACKLIST_TTL
ASSUME AccountServes == Serves \in [Procs -> SUBSET AccountOperations]
ASSUME StatusesKnown == NewStatuses \subseteq UserStatus
ASSUME NoAgentIsADevice == NoAgent \in Devices
ASSUME NullIsOutside == Null \notin Users \cup Devices \cup Tokens \cup UserStatus

Time == 0..MaxTime

\* What a pair of tokens says: for whom, with which status, signed when.
Claims == [user : Users, device : Devices, status : UserStatus, at : Time]

ASSUME NullIsNoClaim == Null \notin Claims

\* id is the primary key; the pair of the login that created the row serves
\* for it.  token is the pair whose refresh token's hash the row holds.
SessionRow == [id : Tokens, user : Users, device : Devices, token : Tokens, expires : Nat]

VARIABLES
    accounts,       \* accounts[u]: its status, Null before its INSERT, "gone" once
                    \* its row has been deleted
    devices,        \* rows <<user, device>> of user_devices
    sessions,       \* rows of user_sessions
    issued,         \* issued[k]: the claims of pair k, Null before it is signed
    blacklist,      \* blacklist[k]: when the key jti:<jti of k> expires, Null if unset
    now,
    req             \* req[p]: the request p is serving

tables == <<accounts, devices, sessions>>
tokens == <<issued, blacklist>>
vars == <<accounts, devices, sessions, issued, blacklist, now, req>>

\* u, d: whom and which device the request is about; status: what it loaded or
\* is about to write; k: the pair it presents; new: the pair it has signed.
Idle == [pc |-> "idle", u |-> Null, d |-> Null, status |-> Null, k |-> Null,
         new |-> Null]

PCs == {"idle", "signPair", "insertSession", "loadUser", "rotate",
        "blacklistOne", "blacklistAll", "deleteSession", "deleteAll", "deleteById",
        "setStatus", "confirm", "loadConfirmed", "deleteAllFirst", "deleteUser"}

Request == [pc : PCs, u : Users \cup {Null}, d : Devices \cup {Null},
            status : UserStatus \cup {Null}, k : Tokens \cup {Null},
            new : Tokens \cup {Null}]

Accepts(p, op) == req[p].pc = "idle" /\ op \in Serves[p]
At(p, pc) == req[p].pc = pc
Goto(p, pc, r) == req' = [req EXCEPT ![p] = [r EXCEPT !.pc = pc]]
Finish(p) == req' = [req EXCEPT ![p] = Idle]

Exists(u) == accounts[u] \in UserStatus

\* The handler throws, the client goes away, or the server stops.
Abort(p) ==
    /\ req[p].pc # "idle"
    /\ Finish(p)
    /\ UNCHANGED <<tables, tokens, now>>

Tick ==
    /\ now < MaxTime
    /\ now' = now + 1
    /\ UNCHANGED <<tables, tokens, req>>

Init ==
    /\ accounts = [u \in Users |-> Null]
    /\ devices = {}
    /\ sessions = {}
    /\ issued = [k \in Tokens |-> Null]
    /\ blacklist = [k \in Tokens |-> Null]
    /\ now = 0
    /\ req = [p \in Procs |-> Idle]

=============================================================================
