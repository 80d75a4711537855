------------------------------ MODULE Accounts ------------------------------
(***************************************************************************)
(* Accounts and sessions: the requests of AuthService, UserService and     *)
(* SessionService interleaved, and the nightly cron job.                   *)
(***************************************************************************)
EXTENDS UserService

Next ==
    \/ \E p \in Procs : AuthNext(p) \/ UserNext(p) \/ SessionNext(p) \/ Abort(p)
    \/ CleanExpiredSessions
    \/ Tick

Spec == Init /\ [][Next]_vars

-----------------------------------------------------------------------------
\* Every variable has the values its comment in AccountData says.
TypeOK ==
    /\ accounts \in [Users -> UserStatus \cup {Null, "gone"}]
    /\ devices \subseteq Users \X Devices
    /\ sessions \subseteq SessionRow
    /\ issued \in [Tokens -> Claims \cup {Null}]
    /\ blacklist \in [Tokens -> Nat \cup {Null}]
    /\ now \in Time
    /\ req \in [Procs -> Request]

\* The refresh token a row accepts was signed for the user and the device of
\* that row, whichever refreshes, logins and logouts interleave.
TokenOfItsDevice ==
    \A s \in sessions :
        /\ issued[s.token] # Null
        /\ issued[s.token].user = s.user
        /\ issued[s.token].device = s.device

\* No session outlives its account: a login in flight while the account is
\* deleted for good does not leave one behind.
SessionsHaveUsers ==
    \A s \in sessions : Exists(s.user) /\ <<s.user, s.device>> \in devices

\* An access token that logged out is refused for the rest of its life, when
\* the key in Redis has expired too.
LoggedOutTokenRefused ==
    \A k \in Tokens : blacklist[k] # Null => ~Authorized(k, UserStatus)

\* A refresh never brings back a session that a logout, a revocation, a block
\* or the cron job has removed: a row that appears is that of a login.
RefreshRevivesNothing ==
    [][\A s \in sessions' : s.id \in {r.id : r \in sessions} \/ s.id = s.token]_vars

-----------------------------------------------------------------------------
\* "meme equipement = meme session" (session.service.ts:54): one row for a user
\* and a device, however many times the user signs in from it.
OneSessionPerDevice ==
    \A s, r \in sessions : s.user = r.user /\ s.device = r.device => s = r

=============================================================================
