---------------------------- MODULE AuthService ----------------------------
(***************************************************************************)
(* auth.service.ts: the ways into an account and out of it, and the guard  *)
(* in front of the routes that need an access token.  Passwords, PINs and  *)
(* Google's tokens are taken to be right; the attempts that are not change *)
(* counters only (OtpService).                                             *)
(***************************************************************************)
EXTENDS SessionService

\* jsonwebtoken refuses a token from its expiry on.
AccessAlive(k) == issued[k] # Null /\ now < issued[k].at + AccessTtl
RefreshAlive(k) == issued[k] # Null /\ now < issued[k].at + REFRESH_TOKEN_TTL

\* A key set with SETEX is there until its time is up.
Blacklisted(k) == blacklist[k] # Null /\ now < blacklist[k]

\* RequireAuthGuard and RequireUserStatusGuard: they look at the token only.
Authorized(k, statuses) ==
    /\ AccessAlive(k)
    /\ ~Blacklisted(k)
    /\ issued[k].status \in statuses

\* The request goes on with the account it has loaded.
SignFor(p, u, d) ==
    Goto(p, "signPair", [Idle EXCEPT !.u = u, !.d = d, !.status = accounts[u]])

-----------------------------------------------------------------------------
\* An email that is free; save() INSERTs the account before the pair is signed.
Register(p, u, d) ==
    /\ Accepts(p, "register")
    /\ accounts[u] = Null
    /\ accounts' = [accounts EXCEPT ![u] = "unverified"]
    /\ Goto(p, "signPair", [Idle EXCEPT !.u = u, !.d = d, !.status = "unverified"])
    /\ UNCHANGED <<devices, sessions, tokens, now>>

\* findOrCreateGoogleUser, no account with that googleId or email.
RegisterWithGoogle(p, u, d) ==
    /\ Accepts(p, "registerWithGoogle")
    /\ accounts[u] = Null
    /\ accounts' = [accounts EXCEPT ![u] = "active"]
    /\ Goto(p, "signPair", [Idle EXCEPT !.u = u, !.d = d, !.status = "active"])
    /\ UNCHANGED <<devices, sessions, tokens, now>>

\* login and, for an account that exists, loginWithGoogle: assertClientAccess
\* looks at the roles only.
Login(p, u, d) ==
    /\ Accepts(p, "login")
    /\ Exists(u)
    /\ SignFor(p, u, d)
    /\ UNCHANGED <<tables, tokens, now>>

\* The route is not public: some access token opens it, the body says for whom.
LoginWithPin(p, u, d) ==
    /\ Accepts(p, "loginWithPin")
    /\ \E k \in Tokens : Authorized(k, {"active"})
    /\ Exists(u)
    /\ accounts[u] \notin {"blocked", "deleted"}
    /\ SignFor(p, u, d)
    /\ UNCHANGED <<tables, tokens, now>>

\* The code is right; the route is open to unverified accounts, and to active
\* ones as every route is.  The new session is opened with no audit data: its
\* device is not the one of the token.
ConfirmEmail(p, k) ==
    /\ Accepts(p, "confirmEmail")
    /\ Authorized(k, {"unverified", "active"})
    /\ Goto(p, "confirm", [Idle EXCEPT !.u = issued[k].user, !.d = NoAgent])
    /\ UNCHANGED <<tables, tokens, now>>

\* An UPDATE by id, whatever the status has become.
Confirm(p) ==
    /\ At(p, "confirm")
    /\ accounts' = IF Exists(req[p].u) THEN [accounts EXCEPT ![req[p].u] = "active"]
                   ELSE accounts
    /\ Goto(p, "loadConfirmed", req[p])
    /\ UNCHANGED <<devices, sessions, tokens, now>>

\* Mutant: the user is assumed to be there still.
LoadConfirmedUnchecked(p) ==
    /\ At(p, "loadConfirmed")
    /\ SignFor(p, req[p].u, req[p].d)
    /\ UNCHANGED <<tables, tokens, now>>

LoadConfirmed(p) ==
    /\ At(p, "loadConfirmed")
    /\ IF Exists(req[p].u) THEN SignFor(p, req[p].u, req[p].d) ELSE Finish(p)
    /\ UNCHANGED <<tables, tokens, now>>

-----------------------------------------------------------------------------
(***************************************************************************)
(* refresh: the token's signature and expiry, then the session that holds  *)
(* its hash, then the user, then the new pair and the rotation.            *)
(***************************************************************************)
Refresh(p, k) ==
    /\ Accepts(p, "refresh")
    /\ RefreshAlive(k)
    /\ \E s \in sessions :
          /\ s.token = k
          /\ ~Expired(s)
          /\ Goto(p, "loadUser", [Idle EXCEPT !.u = s.user, !.d = s.device, !.k = k])
    /\ UNCHANGED <<tables, tokens, now>>

LoadUser(p) ==
    /\ At(p, "loadUser")
    /\ \/ ~Exists(req[p].u) /\ Finish(p) /\ UNCHANGED issued
       \/ /\ Exists(req[p].u)
          /\ \E k \in Tokens :
                /\ issued[k] = Null
                /\ issued' = [issued EXCEPT ![k] =
                      [user |-> req[p].u, device |-> req[p].d,
                       status |-> accounts[req[p].u], at |-> now]]
                /\ Goto(p, "rotate", [req[p] EXCEPT !.new = k])
    /\ UNCHANGED <<tables, blacklist, now>>

-----------------------------------------------------------------------------
Logout(p, k) ==
    /\ Accepts(p, "logout")
    /\ Authorized(k, {"active"})
    /\ Goto(p, "blacklistOne", [Idle EXCEPT !.u = issued[k].user,
                                            !.d = issued[k].device, !.k = k])
    /\ UNCHANGED <<tables, tokens, now>>

LogoutAll(p, k) ==
    /\ Accepts(p, "logoutAll")
    /\ Authorized(k, {"active"})
    /\ Goto(p, "blacklistAll", [Idle EXCEPT !.u = issued[k].user, !.k = k])
    /\ UNCHANGED <<tables, tokens, now>>

\* Mutant: the key lives a unit less than an access token may.
JtiExpiresEarly == now + JTI_BLACKLIST_TTL - 1

JtiExpires == now + JTI_BLACKLIST_TTL

\* SETEX, then the deletion of one session or of all.
BlacklistJti(p) ==
    /\ \/ At(p, "blacklistOne") /\ Goto(p, "deleteSession", req[p])
       \/ At(p, "blacklistAll") /\ Goto(p, "deleteAll", req[p])
    /\ blacklist' = [blacklist EXCEPT ![req[p].k] = JtiExpires]
    /\ UNCHANGED <<tables, issued, now>>

\* applyPasswordReset and adminResetPassword, once the password is written.
ResetPassword(p, u) ==
    /\ Accepts(p, "resetPassword")
    /\ Exists(u)
    /\ Goto(p, "deleteAll", [Idle EXCEPT !.u = u])
    /\ UNCHANGED <<tables, tokens, now>>

\* A session the user sees in the list of theirs.
RevokeSession(p, k, id) ==
    /\ Accepts(p, "revokeSession")
    /\ Authorized(k, {"active"})
    /\ \E s \in sessions : s.id = id /\ s.user = issued[k].user
    /\ Goto(p, "deleteById", [Idle EXCEPT !.u = issued[k].user, !.new = id])
    /\ UNCHANGED <<tables, tokens, now>>

AuthNext(p) ==
    \/ \E u \in Users, d \in Devices :
          \/ Register(p, u, d) \/ RegisterWithGoogle(p, u, d)
          \/ Login(p, u, d) \/ LoginWithPin(p, u, d)
    \/ \E k \in Tokens : \/ ConfirmEmail(p, k) \/ Refresh(p, k)
                         \/ Logout(p, k) \/ LogoutAll(p, k)
                         \/ \E id \in Tokens : RevokeSession(p, k, id)
    \/ \E u \in Users : ResetPassword(p, u)
    \/ Confirm(p) \/ LoadConfirmed(p) \/ LoadUser(p) \/ BlacklistJti(p)

=============================================================================
