---------------------------- MODULE Access_proofs ----------------------------
(***************************************************************************)
(* Proofs about Access: for any number of accounts, tokens and requests,   *)
(* whatever routes they ask for and whatever administrators send.          *)
(***************************************************************************)
EXTENDS Access, TLAPS

-----------------------------------------------------------------------------
(***************************************************************************)
(* What the proofs need to know of the routes: that nobody reaches these   *)
(* handlers without a token, and who reaches those of the back office.     *)
(***************************************************************************)
LEMMA Declaration ==
    ASSUME NEW name, NEW c \in Declared, name \in c.names,
           \A d \in Declared : name \in d.names => d.decorators = c.decorators
    PROVE  name \in DOMAIN Route /\ Route[name] = c.decorators
BY DEF Route

LEMMA AdminRoutes ==
    ASSUME NEW name \in {"createUser", "updateStatus", "updateRoles", "hardDelete"}
    PROVE  name \in DOMAIN Route /\ Route[name] = OfBackOffice(Admin)
<1> DEFINE c == [names |-> {"createUser", "updateStatus", "updateRoles", "hardDelete",
                            "adminUpdateProfileImage"},
                 decorators |-> OfBackOffice(Admin)]
<1>1. c \in Declared /\ name \in c.names
  BY DEF Declared, UserRoutes, On
<1>2. \A d \in Declared : name \in d.names => d.decorators = c.decorators
  BY DEF Declared, On, AuthRoutes, UserRoutes, ElectionRoutes, ElectoralRollRoutes,
     CandidacyRoutes, CampaignPostRoutes, VoteRoutes, PositionRoutes, JurisdictionRoutes,
     UniversityRoutes, ConditionRoutes, ActionCategoryRoutes, AchievementRoutes,
     ContestationRoutes, QuestionRoutes, AuditLogRoutes, SponsorRoutes, MailRoutes,
     AppRoutes
<1>3. QED
  BY <1>1, <1>2, Declaration

LEMMA OwnRoutes ==
    ASSUME NEW name \in {"logout", "confirmEmail", "deleteMe"}
    PROVE  name \in DOMAIN Route /\ ~Route[name].public /\ Route[name].allow \subseteq Admitted
<1>1. \E c \in Declared : name \in c.names
  <2>1. \A c \in AuthRoutes \cup UserRoutes : c \in Declared
    BY DEF Declared
  <2>2. [names |-> {"confirmEmail", "resendConfirm"}, decorators |-> EvenUnverified] \in AuthRoutes
    BY DEF AuthRoutes, On
  <2>3. [names |-> {"getMe", "updateMe", "deleteMe"}, decorators |-> Personal] \in UserRoutes
    BY DEF UserRoutes, On
  <2>4. \E c \in AuthRoutes : "logout" \in c.names
    BY DEF AuthRoutes, On
  <2>5. QED
    BY <2>1, <2>2, <2>3, <2>4
<1>2. \A d \in Declared : name \in d.names => d.decorators \in {Personal, EvenUnverified}
  BY DEF Declared, On, AuthRoutes, UserRoutes, ElectionRoutes, ElectoralRollRoutes,
     CandidacyRoutes, CampaignPostRoutes, VoteRoutes, PositionRoutes, JurisdictionRoutes,
     UniversityRoutes, ConditionRoutes, ActionCategoryRoutes, AchievementRoutes,
     ContestationRoutes, QuestionRoutes, AuditLogRoutes, SponsorRoutes, MailRoutes,
     AppRoutes
<1>3. name \in DOMAIN Route /\ Route[name] \in {Personal, EvenUnverified}
  BY <1>1, <1>2 DEF Route
<1>4. QED
  BY <1>3 DEF Personal, EvenUnverified, Admitted

\* Whoever comes to them has a token, which says what they ask for.
LEMMA Guarded ==
    /\ \A name \in {"createUser", "updateStatus", "updateRoles", "hardDelete", "logout",
                    "confirmEmail", "deleteMe"} : ~Route[name].public
    /\ \A name \in {"createUser", "updateStatus", "updateRoles", "hardDelete"} :
          \A claims : RequireRoleGuard(Route[name], claims) => "admin" \in claims.roles
    /\ \A claims : RequireUserStatusGuard(Route["confirmEmail"], claims) =>
                      claims.status \in Admitted
<1>1. OfBackOffice(Admin).roles = {"admin"} /\ ~OfBackOffice(Admin).public
  BY DEF OfBackOffice, OfRoles, Personal, Admin
<1>2. QED
  BY <1>1, AdminRoutes, OwnRoutes DEF RequireRoleGuard, RequireUserStatusGuard, Admitted

-----------------------------------------------------------------------------
(***************************************************************************)
(* The invariant: what a request holds.                                    *)
(***************************************************************************)
Known(r) ==
    /\ r.k # Null => issued[r.k] # Null
    /\ r.pc = "admitted" =>
          /\ r.k # Null
          /\ RequireUserStatusGuard(Route[r.name], issued[r.k].account)
          /\ RequireRoleGuard(Route[r.name], issued[r.k].account)
    /\ r.pc \in {"sign", "confirm", "reload", "setStatus", "setRoles", "delete"} => r.u \in Users
    /\ r.pc \in {"sign", "setStatus", "setRoles"} => r.account \in Account

IInv == TypeOK /\ \A p \in Procs : Known(req[p])

\* p writes roles with "admin", or comes with a token that says it.
IsAdmin(p) == \/ At(p, "setRoles") /\ "admin" \in req[p].account.roles
              \/ \E u \in Users : "admin" \in Used(p, u)

\* p writes a status of u that is let in.
Mends(p, u) == Confirming(p, u) \/ Readmitting(p, u)

\* Who is let in, and was not: by then p had been at it.
Kept(p, u) ==
    /\ "admin" \in Held(u)' => "admin" \in Held(u) \/ IsAdmin(p)
    /\ Exists(u) /\ Held(u)' \cap Admitted # {} =>
          Held(u) \cap Admitted # {} \/ Mends(p, u)

(***************************************************************************)
(* What becomes of a right in one step: a request is to sign what an       *)
(* account holds, a token says what an account holds or a request was to   *)
(* sign, a request comes with what a token says, "admin" is given by a     *)
(* request that is an administrator's, and a status that is let in by one  *)
(* that an administrator sends or whose token was let in.                  *)
(***************************************************************************)
SignsHeld == \A p \in Procs, u \in Users :
                ToSign(p, u)' \subseteq ToSign(p, u) \cup Held(u) \cup Held(u)'
SaysSigned == \A k \in Tokens, u \in Users :
                 Said(k, u)' \subseteq Said(k, u) \cup Held(u)
                                          \cup UNION {ToSign(p, u) : p \in Procs}
UsesSaid == \A p \in Procs, u \in Users :
               Used(p, u)' \subseteq Used(p, u) \cup UNION {Said(k, u) : k \in Tokens}
AdminGives == /\ \A u \in Users : "admin" \in Held(u)' =>
                    "admin" \in Held(u) \/ \E p \in Procs : IsAdmin(p)
              /\ \A p \in Procs : At(p, "setRoles")' /\ "admin" \in req'[p].account.roles =>
                    \E q \in Procs : IsAdmin(q)

Mended == /\ \A u \in Users : Exists(u) /\ Held(u)' \cap Admitted # {} =>
                Held(u) \cap Admitted # {} \/ \E p \in Procs : Mends(p, u)
          /\ \A p \in Procs, u \in Users : Confirming(p, u)' =>
                Confirming(p, u) \/ Used(p, u) \cap Admitted # {}

Right == IInv' /\ SignsHeld /\ SaysSigned /\ UsesSaid /\ AdminGives /\ Mended

\* What nobody writes is kept.
LEMMA Same == ASSUME users' = users, NEW p \in Procs
              PROVE  \A u \in Users : Held(u)' = Held(u) /\ Kept(p, u)
<1>1. \A u \in Users : Held(u)' = Held(u)
  BY DEF Held, Exists
<1>2. QED
  BY <1>1 DEF Kept

USE NullIsOutside, NullIsNoName, GoneIsNoAccount

\* A step of p, whose request becomes r.
LEMMA OneStep ==
    ASSUME IInv, NEW p \in Procs, NEW r \in Request, req' = [req EXCEPT ![p] = r],
           UNCHANGED now,
           users' \in [Users -> Account \cup {Null, Gone}],
           issued' \in [Tokens -> Claims \cup {Null}],
           revoked' \subseteq Tokens,
           \A k \in Tokens : issued[k] # Null => issued'[k] = issued[k],
           \A k \in Tokens : issued'[k] # issued[k] =>
              Rights(issued'[k].account) \subseteq
                 Held(issued'[k].user) \cup ToSign(p, issued'[k].user),
           Known(req[p])',
           r.pc = "sign" => Rights(r.account) \subseteq
                               ToSign(p, r.u) \cup Held(r.u) \cup Held(r.u)',
           r.k \in {Null, req[p].k} \/ Alive(r.k),
           \A u \in Users : Kept(p, u),
           r.pc = "confirm" => Used(p, r.u) \cap Admitted # {},
           r.pc = "setRoles" /\ "admin" \in r.account.roles => IsAdmin(p)
    PROVE  Right
<1>1. req \in [Procs -> Request] /\ req'[p] = r /\ \A q \in Procs \ {p} : req'[q] = req[q]
  BY DEF IInv, TypeOK
<1>2. TypeOK'
  BY <1>1 DEF IInv, TypeOK
<1>3. \A q \in Procs : req[q].k \in Tokens \cup {Null}
  BY <1>1 DEF Request
<1>4. \A q \in Procs : Known(req[q])'
  <2>1. ASSUME NEW q \in Procs \ {p} PROVE Known(req[q])'
    BY <2>1, <1>1, <1>3 DEF IInv, Known
  <2>2. QED
    BY <2>1
<1>5. SignsHeld
  <2> SUFFICES ASSUME NEW q \in Procs, NEW u \in Users
               PROVE  ToSign(q, u)' \subseteq ToSign(q, u) \cup Held(u) \cup Held(u)'
    BY DEF SignsHeld
  <2>1. CASE q = p
    BY <1>1, <2>1 DEF ToSign, At
  <2>2. CASE q # p
    BY <1>1, <2>2 DEF ToSign, At
  <2>3. QED
    BY <2>1, <2>2
<1>6. SaysSigned
  <2> SUFFICES ASSUME NEW k \in Tokens, NEW u \in Users
               PROVE  Said(k, u)' \subseteq Said(k, u) \cup Held(u)
                                               \cup UNION {ToSign(q, u) : q \in Procs}
    BY DEF SaysSigned
  <2>1. CASE issued'[k] = issued[k]
    BY <2>1 DEF Said, Alive
  <2>2. CASE issued'[k] # issued[k]
    BY <2>2 DEF Said
  <2>3. QED
    BY <2>1, <2>2
<1>7. UsesSaid
  <2> SUFFICES ASSUME NEW q \in Procs, NEW u \in Users
               PROVE  Used(q, u)' \subseteq Used(q, u) \cup UNION {Said(k, u) : k \in Tokens}
    BY DEF UsesSaid
  <2>1. CASE req'[q].k = req[q].k
    BY <2>1, <1>3 DEF Used, IInv, Known
  <2>2. CASE req'[q].k # req[q].k /\ req'[q].k # Null
    <3> DEFINE k == r.k
    <3>1. q = p /\ Alive(k) /\ k \in Tokens
      BY <1>1, <2>2 DEF Request
    <3>2. issued'[k] = issued[k]
      BY <3>1 DEF Alive
    <3>3. Used(q, u)' \subseteq Said(k, u)
      BY <1>1, <3>1, <3>2 DEF Used, Said
    <3>4. QED
      BY <3>1, <3>3
  <2>3. CASE req'[q].k = Null
    BY <2>3 DEF Used
  <2>4. QED
    BY <2>1, <2>2, <2>3
<1>8. AdminGives
  <2>1. ASSUME NEW q \in Procs, At(q, "setRoles")', "admin" \in req'[q].account.roles
        PROVE  IsAdmin(q)
    <3>1. CASE q = p
      BY <1>1, <2>1, <3>1 DEF At
    <3>2. CASE q # p
      BY <1>1, <2>1, <3>2 DEF At, IsAdmin
    <3>3. QED
      BY <3>1, <3>2
  <2>2. QED
    BY <2>1 DEF AdminGives, Kept
<1>9. Mended
  <2>1. ASSUME NEW q \in Procs, NEW u \in Users, Confirming(q, u)'
        PROVE  Confirming(q, u) \/ Used(q, u) \cap Admitted # {}
    <3>1. CASE q = p
      BY <1>1, <2>1, <3>1 DEF Confirming, At
    <3>2. CASE q # p
      BY <1>1, <2>1, <3>2 DEF Confirming, At
    <3>3. QED
      BY <3>1, <3>2
  <2>2. QED
    BY <2>1 DEF Mended, Kept
<1>10. QED
  BY <1>2, <1>4, <1>5, <1>6, <1>7, <1>8, <1>9 DEF Right, IInv

\* p is through, and answers.
LEMMA EndStep ==
    ASSUME IInv, NEW p \in Procs, Finish(p), UNCHANGED now,
           users' \in [Users -> Account \cup {Null, Gone}],
           issued' \in [Tokens -> Claims \cup {Null}],
           revoked' \subseteq Tokens,
           \A k \in Tokens : issued[k] # Null => issued'[k] = issued[k],
           \A k \in Tokens : issued'[k] # issued[k] =>
              Rights(issued'[k].account) \subseteq
                 Held(issued'[k].user) \cup ToSign(p, issued'[k].user),
           \A u \in Users : Kept(p, u)
    PROVE  Right
<1>1. Idle \in Request /\ req' = [req EXCEPT ![p] = Idle]
  BY DEF Idle, Request, PCs, Finish
<1>2. req'[p] = Idle
  BY <1>1 DEF IInv, TypeOK
<1>3. Known(req[p])'
  BY <1>2 DEF Known, Idle
<1>4. Idle.pc = "idle" /\ Idle.k = Null
  BY DEF Idle
<1>5. QED
  BY <1>1, <1>3, <1>4, OneStep

\* p, in its handler, waits for the next statement.
LEMMA WaitStep ==
    ASSUME IInv, NEW p \in Procs,
           NEW pc \in {"sign", "confirm", "reload", "setStatus", "setRoles", "delete"},
           NEW u \in Users, NEW account \in Account \cup {Null}, Wait(p, pc, u, account),
           UNCHANGED <<issued, revoked, now>>,
           users' \in [Users -> Account \cup {Null, Gone}],
           \A v \in Users : Kept(p, v),
           pc = "confirm" => Used(p, u) \cap Admitted # {},
           pc \in {"sign", "setStatus", "setRoles"} => account \in Account,
           pc = "sign" => Rights(account) \subseteq ToSign(p, u) \cup Held(u) \cup Held(u)',
           pc = "setRoles" /\ "admin" \in account.roles => IsAdmin(p)
    PROVE  Right
<1> DEFINE r == [pc |-> pc, name |-> Null, k |-> Null, u |-> u, account |-> account]
<1>1. r \in Request /\ req' = [req EXCEPT ![p] = r]
  BY DEF Request, PCs, Wait
<1>2. req'[p] = r
  BY <1>1 DEF IInv, TypeOK
<1>3. Known(req[p])'
  BY <1>2 DEF Known
<1>4. /\ issued' \in [Tokens -> Claims \cup {Null}]
      /\ revoked' \subseteq Tokens
  BY DEF IInv, TypeOK
<1>5. r.pc = pc /\ r.k = Null /\ r.u = u /\ r.account = account
  OBVIOUS
<1> HIDE DEF r
<1>6. QED
  BY <1>1, <1>3, <1>4, <1>5, OneStep

\* The routes that need a token have it, and it says what it must.
LEMMA HasToken ==
    ASSUME IInv, NEW p \in Procs, NEW name, Handles(p, name),
           name \in {"createUser", "updateStatus", "updateRoles", "hardDelete", "logout",
                     "confirmEmail", "deleteMe"}
    PROVE  /\ req[p].k \in Tokens
           /\ issued[req[p].k] \in Claims
           /\ issued[req[p].k].user \in Users
           /\ name \in {"createUser", "updateStatus", "updateRoles", "hardDelete"} => IsAdmin(p)
           /\ name = "confirmEmail" => Used(p, issued[req[p].k].user) \cap Admitted # {}
<1>1. At(p, "admitted") /\ req[p].name = name
  BY Guarded DEF Handles
<1>2. /\ req[p].k \in Tokens
      /\ RequireUserStatusGuard(Route[name], issued[req[p].k].account)
      /\ RequireRoleGuard(Route[name], issued[req[p].k].account)
  BY <1>1 DEF IInv, TypeOK, Known, Request, At
<1>3. issued[req[p].k] \in Claims /\ issued[req[p].k].user \in Users
  BY <1>1, <1>2 DEF IInv, TypeOK, Known, Claims, At
<1>4. ASSUME name \in {"createUser", "updateStatus", "updateRoles", "hardDelete"}
      PROVE  IsAdmin(p)
  <2>1. "admin" \in issued[req[p].k].account.roles
    BY <1>2, <1>4, Guarded
  <2>2. "admin" \in Used(p, issued[req[p].k].user)
    BY <1>2, <1>3, <2>1 DEF Used, Rights
  <2>3. QED
    BY <1>3, <2>2 DEF IsAdmin
<1>5. ASSUME name = "confirmEmail"
      PROVE  Used(p, issued[req[p].k].user) \cap Admitted # {}
  <2>1. issued[req[p].k].account.status \in Admitted
    BY <1>2, <1>5, Guarded
  <2>2. issued[req[p].k].account.status \in Used(p, issued[req[p].k].user)
    BY <1>2 DEF Used, Rights
  <2>3. QED
    BY <2>1, <2>2
<1>6. QED
  BY <1>2, <1>3, <1>4, <1>5

\* What the tables hold.
LEMMA Tables ==
    ASSUME IInv
    PROVE  /\ users \in [Users -> Account \cup {Null, Gone}]
           /\ issued \in [Tokens -> Claims \cup {Null}]
           /\ revoked \subseteq Tokens
           /\ now \in 0..MaxTime
           /\ \A u \in Users : Exists(u) => users[u] \in Account /\ Held(u) = Rights(users[u])
           /\ \A u \in Users : ~Exists(u) => Held(u) = {}
BY DEF IInv, TypeOK, Exists, Held

\* A row is written: what the others hold is as before.
LEMMA OneRow ==
    ASSUME IInv, NEW u \in Users, NEW row \in Account \cup {Gone},
           users' = [users EXCEPT ![u] = row]
    PROVE  /\ users' \in [Users -> Account \cup {Null, Gone}]
           /\ Held(u)' = IF row = Gone THEN {} ELSE Rights(row)
           /\ \A v \in Users \ {u} : Held(v)' = Held(v)
<1>1. /\ users' \in [Users -> Account \cup {Null, Gone}]
      /\ users'[u] = row
      /\ \A v \in Users \ {u} : users'[v] = users[v]
  BY Tables
<1>2. QED
  BY <1>1 DEF Held, Exists

-----------------------------------------------------------------------------
(***************************************************************************)
(* The steps.                                                              *)
(***************************************************************************)
LEMMA ArriveStep ==
    ASSUME IInv, NEW p \in Procs, NEW name \in Serves[p], NEW key, NEW k \in Tokens,
           Arrive(p, name, key, k)
    PROVE  Right
<1> DEFINE r == [pc |-> "admitted", name |-> name, k |-> k, u |-> Null, account |-> Null]
<1>1. name \in DOMAIN Route
  BY ServesRoutes
<1>2. /\ r \in Request
      /\ req' = [req EXCEPT ![p] = r]
      /\ UNCHANGED <<users, issued, revoked, now>>
      /\ Alive(k)
      /\ RequireUserStatusGuard(Route[name], issued[k].account)
      /\ RequireRoleGuard(Route[name], issued[k].account)
  BY <1>1 DEF Arrive, Request, PCs
<1>3. req'[p] = r
  BY <1>2 DEF IInv, TypeOK
<1>4. Known(req[p])'
  BY <1>2, <1>3 DEF Known, Alive
<1>5. \A u \in Users : Kept(p, u)
  BY <1>2, Same
<1>6. r.pc = "admitted" /\ r.k = k
  OBVIOUS
<1> HIDE DEF r
<1>7. QED
  BY <1>2, <1>4, <1>5, <1>6, Tables, OneStep

\* A handler that has read the account it is to sign for.
LEMMA SignLaterStep ==
    ASSUME IInv, NEW p \in Procs, NEW u \in Users, Exists(u), SignLater(p, u, users[u]),
           UNCHANGED <<users, issued, revoked, now>>
    PROVE  Right
<1>1. Wait(p, "sign", u, users[u]) /\ users[u] \in Account /\ Rights(users[u]) = Held(u)
  BY Tables DEF SignLater
<1>2. \A v \in Users : Held(v)' = Held(v) /\ Kept(p, v)
  BY Same
<1>3. QED
  BY <1>1, <1>2, Tables, WaitStep

LEMMA SignInSteps ==
    ASSUME IInv, NEW p \in Procs, NEW u \in Users,
           \/ \E key \in Keys : Login(p, u, key) \/ LoginWithGoogle(p, u, key)
           \/ LoginWithPin(p, u)
    PROVE  Right
BY SignLaterStep DEF Login, LoginWithGoogle, LoginWithPin

\* A new account is to be signed for; it is no administrator's.
LEMMA NewAccountStep ==
    ASSUME IInv, NEW p \in Procs, NEW u \in Users, users[u] = Null,
           NEW account \in {NewUser, NewGoogleUser},
           users' = [users EXCEPT ![u] = account],
           SignLater(p, u, account) \/ Finish(p), UNCHANGED <<issued, revoked, now>>
    PROVE  Right
<1>1. account \in Account /\ "admin" \notin Rights(account)
  <2>1. {"voter"} \in (SUBSET UserRole) \ {{}} /\ {"unverified", "active"} \subseteq UserStatus
    BY DEF UserRole, UserStatus
  <2>2. NewUser \in Account /\ NewUser.roles = {"voter"} /\ NewUser.status = "unverified"
    BY <2>1 DEF NewUser, Account
  <2>3. /\ NewGoogleUser \in Account
        /\ NewGoogleUser.roles = {"voter"} /\ NewGoogleUser.status = "active"
    BY <2>1 DEF NewGoogleUser, Account
  <2>4. QED
    BY <2>2, <2>3 DEF Rights
<1>2. /\ users' \in [Users -> Account \cup {Null, Gone}]
      /\ Held(u)' = Rights(account)
      /\ \A v \in Users \ {u} : Held(v)' = Held(v)
  BY <1>1, OneRow
<1>3. \A v \in Users : Kept(p, v)
  <2>1. ~Exists(u)
    BY DEF Exists
  <2>2. QED
    BY <1>1, <1>2, <2>1 DEF Kept
<1>4. CASE Finish(p)
  BY <1>2, <1>3, <1>4, Tables, EndStep
<1>5. CASE SignLater(p, u, account)
  <2>1. Wait(p, "sign", u, account)
    BY <1>5 DEF SignLater
  <2>2. QED
    BY <1>1, <1>2, <1>3, <2>1, WaitStep
<1>6. QED
  BY <1>4, <1>5

LEMMA RegisterSteps ==
    ASSUME IInv, NEW p \in Procs, NEW u \in Users,
           Register(p, u) \/ \E key \in Keys : RegisterWithGoogle(p, u, key)
    PROVE  Right
BY NewAccountStep DEF Register, RegisterWithGoogle

LEMMA SignStep ==
    ASSUME IInv, NEW p \in Procs, NEW u \in Users, NEW account \in Account,
           Sign(u, account), Rights(account) \subseteq Held(u) \cup ToSign(p, u),
           Finish(p), UNCHANGED <<users, revoked, now>>
    PROVE  Right
<1> DEFINE claims == [user |-> u, account |-> account, at |-> now]
<1>1. PICK k \in Tokens : issued[k] = Null /\ issued' = [issued EXCEPT ![k] = claims]
  BY DEF Sign
<1>2. claims \in Claims /\ claims.user = u /\ claims.account = account
  BY Tables DEF Claims
<1>3. /\ issued' \in [Tokens -> Claims \cup {Null}]
      /\ issued'[k] = claims
      /\ \A l \in Tokens \ {k} : issued'[l] = issued[l]
  BY <1>1, <1>2, Tables
<1>4. \A v \in Users : Kept(p, v)
  BY Same
<1> HIDE DEF claims
<1>5. QED
  BY <1>1, <1>2, <1>3, <1>4, Tables, EndStep

LEMMA SignSteps ==
    ASSUME IInv, NEW p \in Procs, SignLoaded(p) \/ \E u \in Users : Refresh(p, u)
    PROVE  Right
<1>1. CASE SignLoaded(p)
  <2>1. req[p].u \in Users /\ req[p].account \in Account
    BY <1>1 DEF SignLoaded, IInv, Known, At
  <2>2. Rights(req[p].account) = ToSign(p, req[p].u)
    BY <1>1 DEF SignLoaded, ToSign
  <2>3. QED
    BY <1>1, <2>1, <2>2, SignStep DEF SignLoaded
<1>2. ASSUME NEW u \in Users, Refresh(p, u) PROVE Right
  <2>1. users[u] \in Account /\ Rights(users[u]) = Held(u)
    BY <1>2, Tables DEF Refresh
  <2>2. Sign(u, users[u]) /\ Finish(p) /\ UNCHANGED <<users, revoked, now>>
    BY <1>2 DEF Refresh, Reread
  <2>3. QED
    BY <2>1, <2>2, SignStep
<1>3. QED
  BY <1>1, <1>2

\* A handler that has found the account it is to write.
LEMMA FoundStep ==
    ASSUME IInv, NEW p \in Procs, NEW u \in Users,
           NEW pc \in {"confirm", "reload", "setStatus", "setRoles", "delete"},
           NEW account \in Account \cup {Null}, Wait(p, pc, u, account),
           pc \in {"setStatus", "setRoles"} => account \in Account,
           pc = "setRoles" => IsAdmin(p),
           pc = "confirm" => Used(p, u) \cap Admitted # {},
           UNCHANGED <<users, issued, revoked, now>>
    PROVE  Right
<1>1. \A v \in Users : Kept(p, v)
  BY Same
<1>2. QED
  BY <1>1, Tables, WaitStep

LEMMA FoundSteps ==
    ASSUME IInv, NEW p \in Procs,
           \/ ConfirmEmail(p)
           \/ \E u \in Users : \/ \E status \in GivenStatuses : UpdateStatus(p, u, status)
                               \/ \E roles \in GivenRoles : UpdateRoles(p, u, roles)
                               \/ HardDelete(p, u)
    PROVE  Right
<1>1. CASE ConfirmEmail(p)
  BY <1>1, HasToken, FoundStep DEF ConfirmEmail
<1>2. ASSUME NEW u \in Users, NEW status \in GivenStatuses, UpdateStatus(p, u, status)
      PROVE  Right
  <2>1. [NewUser EXCEPT !.status = status] \in Account
    BY GivenAreKnown DEF NewUser, Account, UserRole
  <2>2. QED
    BY <1>2, <2>1, FoundStep DEF UpdateStatus
<1>3. ASSUME NEW u \in Users, NEW roles \in GivenRoles, UpdateRoles(p, u, roles)
      PROVE  Right
  <2>1. [NewUser EXCEPT !.roles = roles] \in Account
    BY <1>3, GivenAreKnown DEF UpdateRoles, NewUser, Account, UserStatus
  <2>2. IsAdmin(p)
    BY <1>3, HasToken DEF UpdateRoles
  <2>3. QED
    BY <1>3, <2>1, <2>2, FoundStep DEF UpdateRoles
<1>4. ASSUME NEW u \in Users, HardDelete(p, u) PROVE Right
  BY <1>4, FoundStep DEF HardDelete
<1>5. QED
  BY <1>1, <1>2, <1>3, <1>4

\* An account is written, and gets no role but from an administrator, and no
\* status that is let in but from who may give it.
LEMMA PutStep ==
    ASSUME IInv, NEW p \in Procs, NEW u \in Users, NEW row \in Account \cup {Gone},
           users' = [users EXCEPT ![u] = row],
           row # Gone /\ "admin" \in row.roles => "admin" \in Held(u) \/ IsAdmin(p),
           Exists(u) /\ row # Gone /\ row.status \in Admitted =>
              Held(u) \cap Admitted # {} \/ Mends(p, u),
           Finish(p) \/ Wait(p, "reload", u, Null), UNCHANGED <<issued, revoked, now>>
    PROVE  Right
<1>1. /\ users' \in [Users -> Account \cup {Null, Gone}]
      /\ Held(u)' = IF row = Gone THEN {} ELSE Rights(row)
      /\ \A v \in Users \ {u} : Held(v)' = Held(v)
  BY OneRow
<1>2. CASE row = Gone
  <2>1. \A v \in Users : Kept(p, v)
    BY <1>1, <1>2 DEF Kept
  <2>2. QED
    BY <1>1, <2>1, Tables, EndStep, WaitStep
<1>3. CASE row # Gone
  <2>1. row.roles \subseteq UserRole /\ Rights(row) = row.roles \cup {row.status}
        /\ row.status \in UserStatus
    BY <1>3 DEF Rights, Account
  <2>2. row.roles \cap Admitted = {} /\ row.status # "admin"
    BY <2>1 DEF UserRole, UserStatus, Admitted
  <2>3. Kept(p, u)
    <3>1. "admin" \in Held(u)' => "admin" \in Held(u) \/ IsAdmin(p)
      BY <1>1, <1>3, <2>1, <2>2
    <3>2. Exists(u) /\ Held(u)' \cap Admitted # {} => Held(u) \cap Admitted # {} \/ Mends(p, u)
      BY <1>1, <1>3, <2>1, <2>2
    <3>3. QED
      BY <3>1, <3>2 DEF Kept
  <2>4. \A v \in Users : Kept(p, v)
    BY <1>1, <2>3 DEF Kept
  <2>5. QED
    BY <1>1, <2>4, Tables, EndStep, WaitStep
<1>4. QED
  BY <1>2, <1>3

\* An UPDATE that finds no row writes none.
LEMMA NoRowStep ==
    ASSUME IInv, NEW p \in Procs, NEW u \in Users, users' = users,
           Finish(p) \/ Wait(p, "reload", u, Null), UNCHANGED <<issued, revoked, now>>
    PROVE  Right
<1>1. \A v \in Users : Kept(p, v)
  BY Same
<1>2. CASE Finish(p)
  BY <1>1, <1>2, Tables, EndStep
<1>3. CASE Wait(p, "reload", u, Null)
  BY <1>1, <1>3, Tables, WaitStep
<1>4. QED
  BY <1>2, <1>3

LEMMA StatusFacts ==
    ASSUME IInv, NEW u \in Users, Exists(u), NEW status \in UserStatus
    PROVE  /\ [users EXCEPT ![u].status = status] =
                 [users EXCEPT ![u] = [users[u] EXCEPT !.status = status]]
           /\ [users[u] EXCEPT !.status = status] \in Account
           /\ [users[u] EXCEPT !.status = status].roles \subseteq Held(u)
           /\ [users[u] EXCEPT !.status = status].status = status
<1>1. users[u] \in Account /\ Held(u) = Rights(users[u])
  BY Tables
<1>2. QED
  BY <1>1 DEF Account, Rights

\* An account's status is written, if there is the account.
LEMMA StatusStep ==
    ASSUME IInv, NEW p \in Procs, NEW u \in Users, NEW status \in UserStatus,
           users' = IF Exists(u) THEN [users EXCEPT ![u].status = status] ELSE users,
           status \in Admitted => Mends(p, u),
           Finish(p) \/ Wait(p, "reload", u, Null), UNCHANGED <<issued, revoked, now>>
    PROVE  Right
<1>1. CASE ~Exists(u)
  BY <1>1, NoRowStep
<1>2. CASE Exists(u)
  <2> DEFINE row == [users[u] EXCEPT !.status = status]
  <2>1. /\ users' = [users EXCEPT ![u] = row]
        /\ row \in Account /\ row.roles \subseteq Held(u) /\ row.status = status
    BY <1>2, StatusFacts
  <2> HIDE DEF row
  <2>2. QED
    BY <2>1, PutStep
<1>3. QED
  BY <1>1, <1>2

LEMMA StatusSteps ==
    ASSUME IInv, NEW p \in Procs, Confirm(p) \/ SetStatus(p) \/ SoftDeleteMe(p)
    PROVE  Right
<1>1. {"active", "deleted"} \subseteq UserStatus /\ "deleted" \notin Admitted
  BY DEF UserStatus, Admitted
<1>2. CASE Confirm(p)
  <2>1. req[p].u \in Users
    BY <1>2 DEF Confirm, IInv, Known, At
  <2>2. QED
    BY <1>1, <1>2, <2>1, StatusStep DEF Confirm, Mends, Confirming
<1>3. CASE SetStatus(p)
  <2>1. req[p].u \in Users /\ req[p].account \in Account
    BY <1>3 DEF SetStatus, IInv, Known, At
  <2>2. req[p].account.status \in UserStatus
    BY <2>1 DEF Account
  <2>3. QED
    BY <1>3, <2>1, <2>2, StatusStep DEF SetStatus, Mends, Readmitting
<1>4. CASE SoftDeleteMe(p)
  <2>1. issued[req[p].k].user \in Users
    BY <1>4, HasToken DEF SoftDeleteMe
  <2>2. QED
    BY <1>1, <1>4, <2>1, StatusStep DEF SoftDeleteMe
<1>5. QED
  BY <1>2, <1>3, <1>4

LEMMA RoleSteps ==
    ASSUME IInv, NEW p \in Procs, SetRoles(p) \/ DeleteUser(p)
    PROVE  Right
<1>1. req[p].u \in Users
  BY DEF SetRoles, DeleteUser, IInv, Known, At
<1>2. CASE DeleteUser(p)
  BY <1>1, <1>2, PutStep DEF DeleteUser
<1>3. CASE SetRoles(p)
  <2> DEFINE u == req[p].u
             row == [users[u] EXCEPT !.roles = req[p].account.roles]
  <2>1. CASE ~Exists(u)
    BY <1>1, <1>3, <2>1, NoRowStep DEF SetRoles
  <2>2. CASE Exists(u)
    <3>1. req[p].account \in Account /\ users[u] \in Account
      BY <1>3, <2>2 DEF SetRoles, IInv, Known, At, Exists
    <3>2. /\ row \in Account /\ row.roles = req[p].account.roles
          /\ row.status \in Held(u)
      BY <1>1, <3>1, Tables DEF Account, Exists, Rights
    <3>3. users' = [users EXCEPT ![u] = row]
      BY <1>1, <1>3, <2>2 DEF SetRoles
    <3>4. "admin" \in row.roles => IsAdmin(p)
      BY <1>3, <3>2 DEF SetRoles, IsAdmin
    <3>5. Finish(p) /\ UNCHANGED <<issued, revoked, now>>
      BY <1>3 DEF SetRoles
    <3> HIDE DEF row
    <3>6. QED
      BY <1>1, <3>2, <3>3, <3>4, <3>5, PutStep
  <2>3. QED
    BY <2>1, <2>2
<1>4. QED
  BY <1>2, <1>3

LEMMA CreateStep ==
    ASSUME IInv, NEW p \in Procs, NEW u \in Users, NEW status \in GivenStatuses,
           NEW roles \in GivenRoles, CreateUser(p, u, status, roles)
    PROVE  Right
<1> DEFINE row == [status |-> status, roles |-> RolesOrVoter(roles)]
<1>1. row \in Account
  BY GivenAreKnown DEF Account, RolesOrVoter, UserRole
<1>2. IsAdmin(p)
  BY HasToken DEF CreateUser
<1>3. /\ users' = [users EXCEPT ![u] = row] /\ ~Exists(u)
      /\ Finish(p) /\ UNCHANGED <<issued, revoked, now>>
  BY DEF CreateUser, Exists
<1> HIDE DEF row
<1>4. QED
  BY <1>1, <1>2, <1>3, PutStep

LEMMA LastSteps ==
    ASSUME IInv, NEW p \in Procs, Reload(p) \/ Logout(p) \/ Leave(p)
    PROVE  Right
<1>1. CASE Reload(p)
  <2>1. req[p].u \in Users
    BY <1>1 DEF Reload, IInv, Known, At
  <2>2. CASE Exists(req[p].u)
    BY <1>1, <2>1, <2>2, SignLaterStep DEF Reload
  <2>3. CASE ~Exists(req[p].u)
    BY <1>1, <2>1, <2>3, NoRowStep DEF Reload
  <2>4. QED
    BY <2>2, <2>3
<1>2. CASE Logout(p)
  <2>1. req[p].k \in Tokens
    BY <1>2, HasToken DEF Logout
  <2>2. \A v \in Users : Kept(p, v)
    BY <1>2, Same DEF Logout
  <2>3. QED
    BY <1>2, <2>1, <2>2, Tables, EndStep DEF Logout
<1>3. CASE Leave(p)
  <2>1. \A v \in Users : Kept(p, v)
    BY <1>3, Same DEF Leave
  <2>2. QED
    BY <1>3, <2>1, Tables, EndStep DEF Leave
<1>4. QED
  BY <1>1, <1>2, <1>3

\* Time passes, and a token that has died stays dead.
LEMMA TickStep ==
    ASSUME IInv, Tick \/ UNCHANGED vars
    PROVE  Right
<1>1. UNCHANGED <<users, issued, req>>
  BY DEF Tick, vars
<1>2. /\ now \in 0..MaxTime /\ now' \in 0..MaxTime /\ now <= now'
      /\ revoked' \subseteq Tokens
  BY TimesAreNat, Tables DEF Tick, vars
<1>3. IInv'
  BY <1>1, <1>2 DEF IInv, TypeOK, Known
<1>4. \A k \in Tokens : Alive(k)' => Alive(k)
  <2> SUFFICES ASSUME NEW k \in Tokens, Alive(k)' PROVE Alive(k)
    OBVIOUS
  <2>1. issued[k] # Null /\ now' < issued[k].at + Ttl(issued[k].account)
    BY <1>1 DEF Alive, Ttl
  <2>2. issued[k].at \in 0..MaxTime
    BY <2>1, Tables DEF Claims
  <2>3. Ttl(issued[k].account) \in Nat
    BY TimesAreNat DEF Ttl
  <2>4. QED
    BY <1>2, <2>1, <2>2, <2>3 DEF Alive
<1>5. \A u \in Users : Held(u)' = Held(u) /\ \A p \in Procs : ToSign(p, u)' = ToSign(p, u)
                                                     /\ Used(p, u)' = Used(p, u)
                                                     /\ Confirming(p, u)' = Confirming(p, u)
  BY <1>1 DEF Held, Exists, ToSign, At, Used, Confirming
<1>6. \A k \in Tokens, u \in Users : Said(k, u)' \subseteq Said(k, u)
  BY <1>1, <1>4 DEF Said
<1>7. \A p \in Procs : At(p, "setRoles")' /\ "admin" \in req'[p].account.roles => IsAdmin(p)
  BY <1>1 DEF At, IsAdmin
<1>8. QED
  BY <1>3, <1>5, <1>6, <1>7
  DEF Right, SignsHeld, SaysSigned, UsesSaid, AdminGives, Mended

-----------------------------------------------------------------------------
(***************************************************************************)
(* Every step, and the theorems.                                           *)
(***************************************************************************)
LEMMA InitInv == Init => IInv
<1> SUFFICES ASSUME Init PROVE IInv
  OBVIOUS
<1>1. SeededAdmin \in Account
  BY DEF SeededAdmin, Account, UserRole, UserStatus
<1>2. Idle \in Request /\ Idle.k = Null /\ Idle.pc = "idle"
  BY DEF Idle, Request, PCs
<1>3. TypeOK
  BY <1>1, <1>2, TimesAreNat DEF Init, TypeOK
<1>4. \A p \in Procs : Known(req[p])
  BY <1>2 DEF Init, Known
<1>5. QED
  BY <1>3, <1>4 DEF IInv

LEMMA NextRight == IInv /\ [Next]_vars => Right
<1> SUFFICES ASSUME IInv, [Next]_vars PROVE Right
  OBVIOUS
<1>1. ASSUME NEW p \in Procs, HandlerNext(p) PROVE Right
  BY <1>1, SignInSteps, RegisterSteps, SignSteps, FoundSteps, StatusSteps, RoleSteps,
     CreateStep, LastSteps DEF HandlerNext
<1>2. ASSUME NEW p \in Procs, NEW name \in Serves[p], NEW key \in Keys \cup {Null},
             NEW k \in Tokens, Arrive(p, name, key, k)
      PROVE  Right
  BY <1>2, ArriveStep
<1>3. QED
  BY <1>1, <1>2, LastSteps, TickStep DEF Next

LEMMA Inductive == Spec => []IInv
<1>1. IInv /\ [Next]_vars => IInv'
  BY NextRight DEF Right
<1>2. QED
  BY InitInv, <1>1, PTL DEF Spec

\* Every variable has the values its comment says.
THEOREM TypeCorrect == Spec => []TypeOK
<1>1. IInv => TypeOK
  BY DEF IInv
<1>2. QED
  BY <1>1, Inductive, PTL

\* A role or a status that an account has lost is never read again by a request,
\* then never said anew by a token, then never used: however many sign-ins,
\* refreshes and updates are under way.
THEOREM LostRights == Spec => LostRightsDrain
<1> DEFINE Step == \A u \in Users :
          LET lost == AllRights \ (Held(u) \cup Held(u)')
              unsigned == lost \ UNION {ToSign(p, u) : p \in Procs}
              unsaid == unsigned \ UNION {Said(k, u) : k \in Tokens}
          IN  /\ \A p \in Procs : lost \cap ToSign(p, u)' \subseteq ToSign(p, u)
              /\ \A k \in Tokens : unsigned \cap Said(k, u)' \subseteq Said(k, u)
              /\ \A p \in Procs : unsaid \cap Used(p, u)' \subseteq Used(p, u)
<1>1. IInv /\ [Next]_vars => Step
  BY NextRight DEF Right, SignsHeld, SaysSigned, UsesSaid
<1>2. IInv /\ [Next]_vars => [Step]_vars
  BY <1>1
<1>3. QED
  BY <1>2, Inductive, PTL DEF Spec, LostRightsDrain

\* When nobody is an administrator, is being made one, or has a token that says
\* so, nobody ever becomes one.
THEOREM AdminsFromAdmins == Spec => AdminsComeFromAdmins
<1>1. ASSUME IInv, [Next]_vars, Unheld("admin") PROVE Unheld("admin")'
  <2>1. \A p \in Procs : ~IsAdmin(p)
    BY <1>1 DEF Unheld, IsAdmin
  <2>2. \A u \in Users : "admin" \notin Held(u)'
    BY <1>1, <2>1, NextRight DEF Right, AdminGives, Unheld
  <2>3. \A p \in Procs : At(p, "setRoles")' => "admin" \notin req'[p].account.roles
    BY <1>1, <2>1, NextRight DEF Right, AdminGives
  <2>4. \A u \in Users, p \in Procs : "admin" \notin ToSign(p, u)'
    BY <1>1, <2>2, NextRight DEF Right, SignsHeld, Unheld
  <2>5. \A u \in Users, k \in Tokens : "admin" \notin Said(k, u)'
    BY <1>1, NextRight DEF Right, SaysSigned, Unheld
  <2>6. \A u \in Users, p \in Procs : "admin" \notin Used(p, u)'
    BY <1>1, NextRight DEF Right, UsesSaid, Unheld
  <2>7. QED
    BY <2>2, <2>3, <2>4, <2>5, <2>6 DEF Unheld
<1>2. IInv /\ [Next]_vars => [Unheld("admin") => Unheld("admin")']_vars
  BY <1>1
<1>3. QED
  BY <1>2, Inductive, PTL DEF Spec, AdminsComeFromAdmins

\* Once those are gone who knew an account that was let in, a block, a deletion
\* stands until an administrator asks for its end, confirmations included.
THEOREM BansAreHeld == Spec => BansHold
<1>1. ASSUME IInv, [Next]_vars, NEW u \in Users, Out(u)
      PROVE  Out(u)' \/ ~Exists(u)' \/ \E p \in Procs : Readmitting(p, u)'
  <2> SUFFICES ASSUME Exists(u)', \A p \in Procs : ~Readmitting(p, u)' PROVE Out(u)'
    OBVIOUS
  <2>1. Held(u) \cap Admitted = {}
    BY <1>1, Tables DEF Out, Rights, Account, UserRole, Admitted
  <2>2. Held(u)' \cap Admitted = {}
    BY <1>1, <2>1, NextRight DEF Right, Mended, Mends, Out
  <2>3. users'[u].status \notin Admitted
    BY <2>2 DEF Held, Rights
  <2>4. \A p \in Procs : ~Confirming(p, u)'
    BY <1>1, NextRight DEF Right, Mended, Out
  <2>5. \A p \in Procs : (ToSign(p, u)' \cup Used(p, u)') \cap Admitted = {}
    BY <1>1, <2>1, <2>2, NextRight DEF Right, SignsHeld, UsesSaid, Out
  <2>6. \A k \in Tokens : Said(k, u)' \cap Admitted = {}
    BY <1>1, <2>1, NextRight DEF Right, SaysSigned, Out
  <2>7. QED
    BY <2>3, <2>4, <2>5, <2>6 DEF Out
<1>2. IInv /\ [Next]_vars =>
         [\A u \in Users : Out(u) =>
             Out(u)' \/ ~Exists(u)' \/ \E p \in Procs : Readmitting(p, u)']_vars
  BY <1>1
<1>3. QED
  BY <1>2, Inductive, PTL DEF Spec, BansHold

=============================================================================
