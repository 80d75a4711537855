--------------------------- MODULE Accounts_proofs ---------------------------
(***************************************************************************)
(* What holds of accounts and sessions for every number of users, devices, *)
(* tokens and concurrent requests.  IInv says, beyond the properties, what *)
(* a request in flight carries: that the pair it has signed is for its own *)
(* user and device; and how long a key jti:<jti> is there for (KeyLasts).  *)
(***************************************************************************)
EXTENDS Accounts, TLAPS

\* What a request r in flight carries, when iss are the pairs signed.
Carries(r, iss) ==
    /\ r.pc # "idle" => r.u \in Users
    /\ r.pc \in {"signPair", "insertSession", "loadUser", "rotate", "confirm",
                 "loadConfirmed"} => r.d \in Devices
    /\ r.pc \in {"signPair", "setStatus"} => r.status \in UserStatus
    /\ r.pc \in {"blacklistOne", "blacklistAll"} => r.k \in Tokens /\ iss[r.k] # Null
    /\ r.pc \in {"insertSession", "rotate"} =>
          /\ r.new \in Tokens
          /\ iss[r.new] # Null
          /\ iss[r.new].user = r.u
          /\ iss[r.new].device = r.d

RequestsCarry == \A p \in Procs : Carries(req[p], issued)

DevicesHaveUsers == \A dev \in devices : Exists(dev[1])

KeyLasts ==
    /\ \A k \in Tokens : issued[k] # Null => issued[k].at <= now
    /\ \A k \in Tokens : blacklist[k] # Null =>
          issued[k] # Null /\ issued[k].at + AccessTtl <= blacklist[k]

IInv ==
    /\ TypeOK
    /\ RequestsCarry
    /\ DevicesHaveUsers
    /\ KeyLasts
    /\ TokenOfItsDevice
    /\ SessionsHaveUsers

USE NullIsOutside, NullIsNoClaim, TtlsAreNat, NoAgentIsADevice, StatusesKnown

-----------------------------------------------------------------------------
(***************************************************************************)
(* Requests.                                                               *)
(***************************************************************************)
\* An idle request carries nothing.
LEMMA IdleCarries == Idle \in Request /\ \A iss : Carries(Idle, iss)
BY DEF Idle, Request, PCs, Carries

\* What the requests carry stays true when one of them moves on to r, as long as
\* no signed pair changes.
LEMMA RequestsKept ==
    ASSUME IInv, NEW p \in Procs, NEW r \in Request, Carries(r, issued'),
           req' = [req EXCEPT ![p] = r],
           \A k \in Tokens : issued[k] # Null => issued'[k] = issued[k]
    PROVE  req' \in [Procs -> Request] /\ RequestsCarry'
<1>1. req' \in [Procs -> Request]
  BY DEF IInv, TypeOK
<1>2. ASSUME NEW q \in Procs PROVE Carries(req'[q], issued')
  <2>1. CASE q = p
    BY <2>1 DEF IInv, TypeOK
  <2>2. CASE q # p
    <3>1. req'[q] = req[q] /\ Carries(req[q], issued)
      BY <2>2 DEF IInv, TypeOK, RequestsCarry
    <3>2. QED
      BY <3>1 DEF Carries
  <2>3. QED
    BY <2>1, <2>2
<1>3. QED
  BY <1>1, <1>2 DEF RequestsCarry

\* A step that reads the tables and Redis and moves a request on to r.
LEMMA ReadStep ==
    ASSUME IInv, NEW p \in Procs, NEW r \in Request, Carries(r, issued),
           req' = [req EXCEPT ![p] = r], UNCHANGED <<tables, tokens, now>>
    PROVE  IInv'
<1> USE DEF tables, tokens
<1>1. req' \in [Procs -> Request] /\ RequestsCarry'
  BY RequestsKept
<1>2. QED
  BY <1>1 DEF IInv, TypeOK, DevicesHaveUsers, KeyLasts, TokenOfItsDevice,
              SessionsHaveUsers, Exists

\* A step that writes tables and no pair of tokens, and moves a request on to r.
LEMMA TablesStep ==
    ASSUME IInv, NEW p \in Procs, NEW r \in Request, Carries(r, issued),
           req' = [req EXCEPT ![p] = r], UNCHANGED <<tokens, now>>,
           accounts' \in [Users -> UserStatus \cup {Null, "gone"}],
           devices' \subseteq Users \X Devices,
           sessions' \subseteq SessionRow,
           DevicesHaveUsers', TokenOfItsDevice', SessionsHaveUsers'
    PROVE  IInv'
<1> USE DEF tokens
<1>1. req' \in [Procs -> Request] /\ RequestsCarry'
  BY RequestsKept
<1>2. QED
  BY <1>1 DEF IInv, TypeOK, KeyLasts

\* A step that deletes sessions, and nothing else.
LEMMA DeletionStep ==
    ASSUME IInv, NEW p \in Procs, NEW r \in Request, Carries(r, issued),
           req' = [req EXCEPT ![p] = r], UNCHANGED <<accounts, devices, tokens, now>>,
           sessions' \subseteq sessions
    PROVE  IInv'
<1>1. DevicesHaveUsers' /\ TokenOfItsDevice' /\ SessionsHaveUsers'
  BY DEF IInv, DevicesHaveUsers, TokenOfItsDevice, SessionsHaveUsers, Exists, tokens
<1>2. QED
  BY <1>1, TablesStep DEF IInv, TypeOK

\* A step that gives an account a status, and moves a request on to r.
LEMMA StatusStep ==
    ASSUME IInv, NEW p \in Procs, NEW r \in Request, Carries(r, issued),
           req' = [req EXCEPT ![p] = r], UNCHANGED <<devices, sessions, tokens, now>>,
           NEW u \in Users, NEW status \in UserStatus,
           accounts' = [accounts EXCEPT ![u] = status]
    PROVE  IInv'
<1>1. accounts' \in [Users -> UserStatus \cup {Null, "gone"}]
  BY DEF IInv, TypeOK
<1>2. \A v \in Users : Exists(v) => Exists(v)'
  BY DEF IInv, TypeOK, Exists
<1>3. DevicesHaveUsers' /\ TokenOfItsDevice' /\ SessionsHaveUsers'
  <2>1. devices \subseteq Users \X Devices /\ sessions \subseteq SessionRow
    BY DEF IInv, TypeOK
  <2>2. DevicesHaveUsers'
    BY <1>2, <2>1 DEF IInv, DevicesHaveUsers
  <2>3. SessionsHaveUsers'
    BY <1>2, <2>1 DEF IInv, SessionsHaveUsers, SessionRow
  <2>4. TokenOfItsDevice'
    BY DEF IInv, TokenOfItsDevice, tokens
  <2>5. QED
    BY <2>2, <2>3, <2>4
<1>4. QED
  BY <1>1, <1>3, TablesStep DEF IInv, TypeOK

\* A step that signs a pair for the user and the device of a request.
LEMMA SignStep ==
    ASSUME IInv, NEW p \in Procs, NEW r \in Request, Carries(r, issued'),
           req' = [req EXCEPT ![p] = r], UNCHANGED <<accounts, sessions, blacklist, now>>,
           NEW k \in Tokens, issued[k] = Null, NEW claims \in Claims, claims.at = now,
           issued' = [issued EXCEPT ![k] = claims],
           devices' \subseteq Users \X Devices, devices \subseteq devices',
           DevicesHaveUsers'
    PROVE  IInv'
<1>1. claims # Null
  OBVIOUS
<1>2. /\ issued' \in [Tokens -> Claims \cup {Null}]
      /\ \A t \in Tokens : issued[t] # Null => issued'[t] = issued[t]
  BY DEF IInv, TypeOK
<1>3. req' \in [Procs -> Request] /\ RequestsCarry'
  BY <1>2, RequestsKept
<1>4. TypeOK'
  BY <1>2, <1>3 DEF IInv, TypeOK
<1>5. KeyLasts'
  BY <1>2 DEF IInv, TypeOK, KeyLasts, Time
<1>6. TokenOfItsDevice'
  BY <1>2 DEF IInv, TypeOK, TokenOfItsDevice, SessionRow
<1>7. SessionsHaveUsers'
  BY DEF IInv, SessionsHaveUsers, Exists
<1>8. QED
  BY <1>3, <1>4, <1>5, <1>6, <1>7 DEF IInv

-----------------------------------------------------------------------------
(***************************************************************************)
(* SessionService.                                                         *)
(***************************************************************************)
\* A request that ends without a write, or with a deletion.
LEMMA FinishStep ==
    ASSUME IInv, NEW p \in Procs, Finish(p),
           UNCHANGED <<accounts, devices, tokens, now>>, sessions' \subseteq sessions
    PROVE  IInv'
BY IdleCarries, DeletionStep DEF Finish

\* The pair that createSession is given, with the row of the device.
LEMMA SignPairStep ==
    ASSUME IInv, NEW p \in Procs, SignPair(p)
    PROVE  IInv'
<1>1. TypeOK /\ req[p] \in Request /\ Carries(req[p], issued)
  BY DEF IInv, TypeOK, RequestsCarry
<1>2. req[p].u \in Users /\ req[p].d \in Devices /\ req[p].status \in UserStatus
  BY <1>1 DEF SignPair, At, Carries
<1>3. CASE ~Exists(req[p].u)
  BY <1>3, FinishStep DEF SignPair, tokens
<1>4. CASE Exists(req[p].u)
  <2> DEFINE claims == [user |-> req[p].u, device |-> req[p].d,
                        status |-> req[p].status, at |-> now]
  <2>1. PICK k \in Tokens : /\ issued[k] = Null
                            /\ issued' = [issued EXCEPT ![k] = claims]
                            /\ Goto(p, "insertSession", [req[p] EXCEPT !.new = k])
    BY <1>4 DEF SignPair, Signed
  <2> DEFINE r == [[req[p] EXCEPT !.new = k] EXCEPT !.pc = "insertSession"]
  <2>2. claims \in Claims /\ issued'[k] = claims
    BY <1>1, <1>2, <2>1 DEF Claims, TypeOK
  <2>3. r \in Request
    BY <1>1, <2>1 DEF Request, PCs
  <2>4. /\ r.pc = "insertSession" /\ r.u = req[p].u /\ r.d = req[p].d
        /\ r.status = req[p].status /\ r.new = k
    BY <1>1 DEF Request
  <2>5. Carries(r, issued')
    BY <1>2, <2>2, <2>4 DEF Carries
  <2>6. devices' = devices \cup {<<req[p].u, req[p].d>>}
    BY <1>4 DEF SignPair
  <2>7. DevicesHaveUsers' /\ devices' \subseteq Users \X Devices
    BY <1>1, <1>2, <1>4, <2>6 DEF SignPair, IInv, TypeOK, DevicesHaveUsers, Exists
  <2>8. claims.at = now
    OBVIOUS
  <2>9. UNCHANGED <<accounts, sessions, blacklist, now>>
    BY DEF SignPair
  <2> HIDE DEF claims, r
  <2>10. req' = [req EXCEPT ![p] = r]
    BY <2>1 DEF Goto, r
  <2>11. QED
    BY <2>1, <2>2, <2>3, <2>5, <2>6, <2>7, <2>8, <2>9, <2>10, SignStep
<1>5. QED
  BY <1>3, <1>4

\* The row of a sign-in, if the device is still there.
LEMMA InsertSessionStep ==
    ASSUME IInv, NEW p \in Procs, InsertSession(p)
    PROVE  IInv'
<1> DEFINE k == req[p].new
           row == [id |-> k, user |-> req[p].u, device |-> req[p].d, token |-> k,
                   expires |-> issued[k].at + REFRESH_TOKEN_TTL]
<1>1. TypeOK /\ Carries(req[p], issued) /\ req[p].pc = "insertSession"
  BY DEF IInv, RequestsCarry, InsertSession, At
<1>2. /\ k \in Tokens /\ issued[k] # Null
      /\ issued[k].user = req[p].u /\ issued[k].device = req[p].d
      /\ req[p].u \in Users /\ req[p].d \in Devices
  BY <1>1 DEF Carries
<1>3. issued[k].at \in Nat
  BY <1>1, <1>2 DEF TypeOK, Claims, Time
<1>4. row \in SessionRow
  BY <1>2, <1>3 DEF SessionRow
<1>5. UNCHANGED <<accounts, devices, tokens, now>> /\ Finish(p)
  BY DEF InsertSession
<1>6. CASE <<req[p].u, req[p].d>> \notin devices
  BY <1>5, <1>6, FinishStep DEF InsertSession
<1>7. CASE <<req[p].u, req[p].d>> \in devices
  <2>1. sessions' = sessions \cup {row}
    BY <1>7 DEF InsertSession
  <2>2. Exists(req[p].u)
    BY <1>7 DEF IInv, DevicesHaveUsers
  <2>3. row.token = k /\ row.user = req[p].u /\ row.device = req[p].d
    OBVIOUS
  <2> HIDE DEF row
  <2>4. TokenOfItsDevice'
    BY <1>2, <1>5, <2>1, <2>3 DEF IInv, TokenOfItsDevice, tokens
  <2>5. SessionsHaveUsers' /\ DevicesHaveUsers'
    BY <1>5, <1>7, <2>1, <2>2, <2>3 DEF IInv, SessionsHaveUsers, DevicesHaveUsers, Exists
  <2>6. sessions' \subseteq SessionRow
    BY <1>1, <1>4, <2>1 DEF TypeOK
  <2>7. /\ accounts' \in [Users -> UserStatus \cup {Null, "gone"}]
        /\ devices' \subseteq Users \X Devices
    BY <1>1, <1>5 DEF TypeOK
  <2>8. QED
    BY <1>5, <2>4, <2>5, <2>6, <2>7, IdleCarries, TablesStep DEF Finish
<1>8. QED
  BY <1>6, <1>7

\* The rotation leaves a row of the table, of the same user and device.
LEMMA RotatedRow ==
    ASSUME NEW s \in SessionRow, NEW k \in Tokens, issued[k].at \in Nat
    PROVE  /\ Rotated(s, k) \in SessionRow
           /\ Rotated(s, k).user = s.user /\ Rotated(s, k).device = s.device
           /\ Rotated(s, k).token = k
<1>1. issued[k].at + REFRESH_TOKEN_TTL \in Nat
  OBVIOUS
<1>2. QED
  BY <1>1 DEF Rotated, SessionRow

\* The rotation writes the hash of a token signed for that user and device.
LEMMA RotateStep ==
    ASSUME IInv, NEW p \in Procs, Rotate(p)
    PROVE  IInv'
<1> DEFINE k == req[p].new
           rows == RowsToRotate(req[p].u, req[p].d)
<1>1. TypeOK /\ Carries(req[p], issued) /\ req[p].pc = "rotate"
  BY DEF IInv, RequestsCarry, Rotate, At
<1>2. /\ k \in Tokens /\ issued[k] # Null
      /\ issued[k].user = req[p].u /\ issued[k].device = req[p].d
  BY <1>1 DEF Carries
<1>3. issued[k].at \in Nat
  BY <1>1, <1>2 DEF TypeOK, Claims, Time
<1>4. UNCHANGED <<accounts, devices, tokens, now>> /\ Finish(p)
  BY DEF Rotate
<1>5. \A s \in rows : s \in sessions /\ s.user = req[p].u /\ s.device = req[p].d
  BY DEF RowsToRotate, SessionsOf
<1>6. ASSUME NEW s \in rows
      PROVE  /\ Rotated(s, k) \in SessionRow
             /\ Rotated(s, k).user = s.user /\ Rotated(s, k).device = s.device
             /\ Rotated(s, k).token = k
  <2>1. s \in SessionRow
    BY <1>1, <1>5 DEF TypeOK
  <2>2. QED
    BY <1>2, <1>3, <2>1, RotatedRow
<1> HIDE DEF rows
<1>7. ASSUME NEW s \in sessions'
      PROVE  s \in sessions \/ \E o \in rows : s = Rotated(o, k)
  BY DEF Rotate, rows
<1>8. sessions' \subseteq SessionRow
  BY <1>1, <1>6, <1>7 DEF TypeOK
<1>9. TokenOfItsDevice'
  BY <1>2, <1>4, <1>5, <1>6, <1>7 DEF IInv, TokenOfItsDevice, tokens
<1>10. SessionsHaveUsers' /\ DevicesHaveUsers'
  BY <1>4, <1>5, <1>6, <1>7 DEF IInv, SessionsHaveUsers, DevicesHaveUsers, Exists
<1>11. QED
  BY <1>1, <1>4, <1>8, <1>9, <1>10, IdleCarries, TablesStep DEF Finish, TypeOK

\* The steps of SessionService.
LEMMA SessionStep ==
    ASSUME IInv, NEW p \in Procs, SessionNext(p)
    PROVE  IInv'
<1>1. CASE SignPair(p)
  BY <1>1, SignPairStep
<1>2. CASE InsertSession(p)
  BY <1>2, InsertSessionStep
<1>3. CASE Rotate(p)
  BY <1>3, RotateStep
<1>4. CASE DeleteSession(p)
  BY <1>4, FinishStep DEF DeleteSession
<1>5. CASE DeleteAllSessions(p)
  BY <1>5, FinishStep DEF DeleteAllSessions
<1>6. CASE DeleteSessionById(p)
  BY <1>6, FinishStep DEF DeleteSessionById
<1>7. QED
  BY <1>1, <1>2, <1>3, <1>4, <1>5, <1>6 DEF SessionNext

-----------------------------------------------------------------------------
(***************************************************************************)
(* AuthService.                                                            *)
(***************************************************************************)
\* An access or a refresh token is of a pair that was signed.
LEMMA SignedFor ==
    ASSUME IInv, NEW k \in Tokens, issued[k] # Null
    PROVE  issued[k].user \in Users /\ issued[k].device \in Devices /\ issued[k].at \in Nat
BY DEF IInv, TypeOK, Claims, Time

\* A new account; its pair is signed next.
LEMMA RegisterStep ==
    ASSUME IInv, NEW p \in Procs, NEW u \in Users, NEW d \in Devices,
           Register(p, u, d) \/ RegisterWithGoogle(p, u, d)
    PROVE  IInv'
<1>1. PICK status \in UserStatus :
         /\ accounts' = [accounts EXCEPT ![u] = status]
         /\ Goto(p, "signPair", [Idle EXCEPT !.u = u, !.d = d, !.status = status])
  BY DEF Register, RegisterWithGoogle, UserStatus
<1> DEFINE r == [[Idle EXCEPT !.u = u, !.d = d, !.status = status] EXCEPT !.pc = "signPair"]
<1>2. r \in Request /\ Carries(r, issued)
  BY DEF Idle, Request, PCs, Carries
<1>3. UNCHANGED <<devices, sessions, tokens, now>>
  BY DEF Register, RegisterWithGoogle
<1> HIDE DEF r
<1>4. req' = [req EXCEPT ![p] = r]
  BY <1>1 DEF Goto, r
<1>5. QED
  BY <1>1, <1>2, <1>3, <1>4, StatusStep

\* The pair of an account that exists is signed next.
LEMMA SignForStep ==
    ASSUME IInv, NEW p \in Procs, NEW u \in Users, NEW d \in Devices, Exists(u),
           SignFor(p, u, d), UNCHANGED <<tables, tokens, now>>
    PROVE  IInv'
<1> DEFINE r == [[Idle EXCEPT !.u = u, !.d = d, !.status = accounts[u]]
                    EXCEPT !.pc = "signPair"]
<1>1. r \in Request /\ Carries(r, issued)
  BY DEF Idle, Request, PCs, Carries, Exists
<1>2. req' = [req EXCEPT ![p] = r]
  BY DEF SignFor, Goto
<1> HIDE DEF r
<1>3. QED
  BY <1>1, <1>2, ReadStep

\* confirmEmail up to the pair it signs.
LEMMA ConfirmStep ==
    ASSUME IInv, NEW p \in Procs,
           Confirm(p) \/ LoadConfirmed(p) \/ \E k \in Tokens : ConfirmEmail(p, k)
    PROVE  IInv'
<1>1. TypeOK /\ req[p] \in Request /\ Carries(req[p], issued)
  BY DEF IInv, TypeOK, RequestsCarry
<1>2. ASSUME NEW k \in Tokens, ConfirmEmail(p, k) PROVE IInv'
  <2> DEFINE r == [[Idle EXCEPT !.u = issued[k].user, !.d = NoAgent] EXCEPT !.pc = "confirm"]
  <2>1. issued[k].user \in Users
    BY <1>2, SignedFor DEF ConfirmEmail, Authorized, AccessAlive
  <2>2. r \in Request /\ Carries(r, issued)
    BY <2>1 DEF Idle, Request, PCs, Carries
  <2>3. req' = [req EXCEPT ![p] = r] /\ UNCHANGED <<tables, tokens, now>>
    BY <1>2 DEF ConfirmEmail, Goto
  <2> HIDE DEF r
  <2>4. QED
    BY <2>2, <2>3, ReadStep
<1>3. CASE Confirm(p)
  <2> DEFINE r == [req[p] EXCEPT !.pc = "loadConfirmed"]
  <2>1. req[p].u \in Users /\ req[p].d \in Devices
    BY <1>1, <1>3 DEF Confirm, At, Carries
  <2>2. r \in Request /\ Carries(r, issued)
    BY <1>1, <2>1 DEF Request, PCs, Carries
  <2>3. req' = [req EXCEPT ![p] = r] /\ UNCHANGED <<devices, sessions, tokens, now>>
    BY <1>3 DEF Confirm, Goto
  <2> HIDE DEF r
  <2>4. CASE Exists(req[p].u)
    BY <1>3, <2>1, <2>2, <2>3, <2>4, StatusStep DEF Confirm, UserStatus
  <2>5. CASE ~Exists(req[p].u)
    BY <1>3, <2>2, <2>3, <2>5, ReadStep DEF Confirm, tables
  <2>6. QED
    BY <2>4, <2>5
<1>4. CASE LoadConfirmed(p)
  <2>1. req[p].u \in Users /\ req[p].d \in Devices
    BY <1>1, <1>4 DEF LoadConfirmed, At, Carries
  <2>2. CASE Exists(req[p].u)
    BY <1>4, <2>1, <2>2, SignForStep DEF LoadConfirmed
  <2>3. CASE ~Exists(req[p].u)
    BY <1>4, <2>3, FinishStep DEF LoadConfirmed, tables
  <2>4. QED
    BY <2>2, <2>3
<1>5. QED
  BY <1>2, <1>3, <1>4

\* refresh up to the rotation: the session's user and device are those of the
\* new pair.
LEMMA RefreshStep ==
    ASSUME IInv, NEW p \in Procs, LoadUser(p) \/ \E k \in Tokens : Refresh(p, k)
    PROVE  IInv'
<1>1. TypeOK /\ req[p] \in Request /\ Carries(req[p], issued)
  BY DEF IInv, TypeOK, RequestsCarry
<1>2. ASSUME NEW k \in Tokens, Refresh(p, k) PROVE IInv'
  <2>1. PICK s \in sessions :
           Goto(p, "loadUser", [Idle EXCEPT !.u = s.user, !.d = s.device, !.k = k])
    BY <1>2 DEF Refresh
  <2> DEFINE r == [[Idle EXCEPT !.u = s.user, !.d = s.device, !.k = k]
                      EXCEPT !.pc = "loadUser"]
  <2>2. s.user \in Users /\ s.device \in Devices
    BY <1>1 DEF TypeOK, SessionRow
  <2>3. r \in Request /\ Carries(r, issued)
    BY <2>2 DEF Idle, Request, PCs, Carries
  <2>4. req' = [req EXCEPT ![p] = r] /\ UNCHANGED <<tables, tokens, now>>
    BY <1>2, <2>1 DEF Refresh, Goto
  <2> HIDE DEF r
  <2>5. QED
    BY <2>3, <2>4, ReadStep
<1>3. ASSUME LoadUser(p), ~Exists(req[p].u) PROVE IInv'
  BY <1>3, FinishStep DEF LoadUser, tables, tokens
<1>4. ASSUME LoadUser(p), Exists(req[p].u) PROVE IInv'
  <2> DEFINE claims == [user |-> req[p].u, device |-> req[p].d,
                        status |-> accounts[req[p].u], at |-> now]
  <2>1. PICK k \in Tokens : /\ issued[k] = Null
                            /\ issued' = [issued EXCEPT ![k] = claims]
                            /\ Goto(p, "rotate", [req[p] EXCEPT !.new = k])
    BY <1>4 DEF LoadUser
  <2> DEFINE r == [[req[p] EXCEPT !.new = k] EXCEPT !.pc = "rotate"]
  <2>2. req[p].u \in Users /\ req[p].d \in Devices
    BY <1>1, <1>4 DEF LoadUser, At, Carries
  <2>3. claims \in Claims /\ claims.at = now /\ issued'[k] = claims
    BY <1>1, <1>4, <2>1, <2>2 DEF Claims, TypeOK, Exists
  <2>4. /\ r \in Request /\ r.pc = "rotate" /\ r.u = req[p].u /\ r.d = req[p].d
        /\ r.new = k
    BY <1>1 DEF Request, PCs
  <2>5. Carries(r, issued')
    BY <2>2, <2>3, <2>4 DEF Carries
  <2>6. UNCHANGED <<accounts, devices, sessions, blacklist, now>>
    BY <1>4 DEF LoadUser, tables
  <2>7. DevicesHaveUsers' /\ devices' \subseteq Users \X Devices
    BY <1>1, <2>6 DEF IInv, TypeOK, DevicesHaveUsers, Exists
  <2> HIDE DEF claims, r
  <2>8. req' = [req EXCEPT ![p] = r]
    BY <2>1 DEF Goto, r
  <2>9. QED
    BY <2>1, <2>3, <2>4, <2>5, <2>6, <2>7, <2>8, SignStep
<1>5. QED
  BY <1>2, <1>3, <1>4

\* A request about the account of an access token that is not about sessions.
LEMMA LeaveStep ==
    ASSUME IInv, NEW p \in Procs, NEW k \in Tokens,
           \/ Logout(p, k) \/ LogoutAll(p, k)
           \/ \E id \in Tokens : RevokeSession(p, k, id)
    PROVE  IInv'
<1>1. issued[k] # Null
  BY DEF Logout, LogoutAll, RevokeSession, Authorized, AccessAlive
<1>2. issued[k].user \in Users /\ issued[k].device \in Devices
  BY <1>1, SignedFor
<1>3. UNCHANGED <<tables, tokens, now>>
  BY DEF Logout, LogoutAll, RevokeSession
<1>4. PICK r \in Request : Carries(r, issued) /\ req' = [req EXCEPT ![p] = r]
  <2>1. CASE Logout(p, k)
    <3>1. [[Idle EXCEPT !.u = issued[k].user, !.d = issued[k].device, !.k = k]
              EXCEPT !.pc = "blacklistOne"] \in Request
      BY <1>2 DEF Idle, Request, PCs
    <3>2. QED
      BY <1>1, <1>2, <2>1, <3>1 DEF Logout, Goto, Carries, Idle
  <2>2. CASE LogoutAll(p, k)
    <3>1. [[Idle EXCEPT !.u = issued[k].user, !.k = k] EXCEPT !.pc = "blacklistAll"]
              \in Request
      BY <1>2 DEF Idle, Request, PCs
    <3>2. QED
      BY <1>1, <1>2, <2>2, <3>1 DEF LogoutAll, Goto, Carries, Idle
  <2>3. ASSUME NEW id \in Tokens, RevokeSession(p, k, id)
        PROVE  \E r \in Request : Carries(r, issued) /\ req' = [req EXCEPT ![p] = r]
    <3>1. [[Idle EXCEPT !.u = issued[k].user, !.new = id] EXCEPT !.pc = "deleteById"]
              \in Request
      BY <1>2 DEF Idle, Request, PCs
    <3>2. QED
      BY <1>2, <2>3, <3>1 DEF RevokeSession, Goto, Carries, Idle
  <2>4. QED
    BY <2>1, <2>2, <2>3
<1>5. QED
  BY <1>3, <1>4, ReadStep

\* The key jti:<jti> is set for as long as the access token may live.
LEMMA BlacklistStep ==
    ASSUME IInv, NEW p \in Procs, BlacklistJti(p)
    PROVE  IInv'
<1>1. TypeOK /\ req[p] \in Request /\ Carries(req[p], issued)
  BY DEF IInv, TypeOK, RequestsCarry
<1>2. req[p].k \in Tokens /\ issued[req[p].k] # Null /\ req[p].u \in Users
  BY <1>1 DEF BlacklistJti, At, Carries
<1>3. PICK pc \in {"deleteSession", "deleteAll"} : Goto(p, pc, req[p])
  BY DEF BlacklistJti
<1> DEFINE r == [req[p] EXCEPT !.pc = pc]
<1>4. r \in Request /\ Carries(r, issued)
  BY <1>1, <1>2 DEF Request, PCs, Carries
<1>5. req' = [req EXCEPT ![p] = r]
  BY <1>3 DEF Goto
<1> HIDE DEF r
<1>6. UNCHANGED <<accounts, devices, sessions, issued, now>>
  BY DEF BlacklistJti, tables
<1>7. req' \in [Procs -> Request] /\ RequestsCarry'
  BY <1>4, <1>5, <1>6, RequestsKept
<1>8. blacklist' = [blacklist EXCEPT ![req[p].k] = now + JTI_BLACKLIST_TTL]
  BY DEF BlacklistJti, JtiExpires
<1>9. now \in Nat /\ now + JTI_BLACKLIST_TTL \in Nat
  BY <1>1 DEF TypeOK, Time
<1>10. TypeOK'
  BY <1>1, <1>6, <1>7, <1>8, <1>9 DEF TypeOK
<1>11. KeyLasts'
  <2>1. ASSUME NEW k \in Tokens, blacklist'[k] # Null
        PROVE  issued[k] # Null /\ issued[k].at + AccessTtl <= blacklist'[k]
    <3>1. CASE k = req[p].k
      <4>1. issued[k].at \in Nat /\ issued[k].at <= now
        BY <1>2, <3>1, SignedFor DEF IInv, KeyLasts
      <4>2. blacklist'[k] = now + JTI_BLACKLIST_TTL
        BY <1>1, <1>8, <3>1 DEF TypeOK
      <4>3. QED
        BY <1>2, <1>9, <3>1, <4>1, <4>2, JtiOutlivesAccess
    <3>2. CASE k # req[p].k
      BY <1>1, <1>8, <2>1, <3>2 DEF TypeOK, IInv, KeyLasts
    <3>3. QED
      BY <3>1, <3>2
  <2>2. QED
    BY <1>6, <2>1 DEF IInv, KeyLasts
<1>12. DevicesHaveUsers' /\ TokenOfItsDevice' /\ SessionsHaveUsers'
  BY <1>6 DEF IInv, DevicesHaveUsers, TokenOfItsDevice, SessionsHaveUsers, Exists
<1>13. QED
  BY <1>7, <1>10, <1>11, <1>12 DEF IInv

\* The steps of AuthService.
LEMMA AuthStep ==
    ASSUME IInv, NEW p \in Procs, AuthNext(p)
    PROVE  IInv'
<1>1. ASSUME NEW u \in Users, NEW d \in Devices,
             Login(p, u, d) \/ LoginWithPin(p, u, d)
      PROVE  IInv'
  BY <1>1, SignForStep DEF Login, LoginWithPin
<1>2. ASSUME NEW u \in Users, ResetPassword(p, u) PROVE IInv'
  <2> DEFINE r == [[Idle EXCEPT !.u = u] EXCEPT !.pc = "deleteAll"]
  <2>1. r \in Request /\ Carries(r, issued)
    BY DEF Idle, Request, PCs, Carries
  <2>2. req' = [req EXCEPT ![p] = r] /\ UNCHANGED <<tables, tokens, now>>
    BY <1>2 DEF ResetPassword, Goto
  <2> HIDE DEF r
  <2>3. QED
    BY <2>1, <2>2, ReadStep
<1>3. QED
  BY <1>1, <1>2, RegisterStep, ConfirmStep, RefreshStep, LeaveStep, BlacklistStep DEF AuthNext

-----------------------------------------------------------------------------
(***************************************************************************)
(* UserService.                                                            *)
(***************************************************************************)
\* updateStatus and softDeleteMe up to the deletion of the sessions.
LEMMA StatusChangeStep ==
    ASSUME IInv, NEW p \in Procs,
           \/ \E u \in Users, status \in NewStatuses : UpdateStatus(p, u, status)
           \/ \E k \in Tokens : SoftDeleteMe(p, k)
           \/ SetStatus(p)
    PROVE  IInv'
<1>1. TypeOK /\ req[p] \in Request /\ Carries(req[p], issued)
  BY DEF IInv, TypeOK, RequestsCarry
<1>2. ASSUME NEW u \in Users, NEW status \in UserStatus, UNCHANGED <<tables, tokens, now>>,
             Goto(p, "setStatus", [Idle EXCEPT !.u = u, !.status = status])
      PROVE  IInv'
  <2> DEFINE r == [[Idle EXCEPT !.u = u, !.status = status] EXCEPT !.pc = "setStatus"]
  <2>1. r \in Request /\ Carries(r, issued)
    BY DEF Idle, Request, PCs, Carries
  <2>2. req' = [req EXCEPT ![p] = r]
    BY <1>2 DEF Goto
  <2> HIDE DEF r
  <2>3. QED
    BY <1>2, <2>1, <2>2, ReadStep
<1>3. ASSUME NEW u \in Users, NEW status \in NewStatuses, UpdateStatus(p, u, status)
      PROVE  IInv'
  BY <1>2, <1>3 DEF UpdateStatus
<1>4. ASSUME NEW k \in Tokens, SoftDeleteMe(p, k) PROVE IInv'
  <2>1. issued[k].user \in Users
    BY <1>4, SignedFor DEF SoftDeleteMe, Authorized, AccessAlive
  <2>2. "deleted" \in UserStatus
    BY DEF UserStatus
  <2>3. QED
    BY <1>2, <1>4, <2>1, <2>2 DEF SoftDeleteMe
<1>5. CASE SetStatus(p)
  <2>1. req[p].u \in Users /\ req[p].status \in UserStatus
    BY <1>1, <1>5 DEF SetStatus, At, Carries
  <2>2. PICK r \in Request : Carries(r, issued) /\ req' = [req EXCEPT ![p] = r]
    <3>1. [req[p] EXCEPT !.pc = "deleteAll"] \in Request
      BY <1>1 DEF Request, PCs
    <3>2. Carries([req[p] EXCEPT !.pc = "deleteAll"], issued)
      BY <1>1, <2>1 DEF Request, Carries
    <3>3. \/ req' = [req EXCEPT ![p] = [req[p] EXCEPT !.pc = "deleteAll"]]
          \/ req' = [req EXCEPT ![p] = Idle]
      BY <1>5 DEF SetStatus, Goto, Finish
    <3>4. QED
      BY <3>1, <3>2, <3>3, IdleCarries
  <2>3. UNCHANGED <<devices, sessions, tokens, now>>
    BY <1>5 DEF SetStatus
  <2>4. CASE Exists(req[p].u)
    BY <1>5, <2>1, <2>2, <2>3, <2>4, StatusStep DEF SetStatus
  <2>5. CASE ~Exists(req[p].u)
    BY <1>5, <2>2, <2>3, <2>5, ReadStep DEF SetStatus, tables
  <2>6. QED
    BY <2>4, <2>5
<1>6. QED
  BY <1>3, <1>4, <1>5

\* An account made in the back office opens no session.
LEMMA AdminCreateStep ==
    ASSUME IInv, NEW p \in Procs, NEW u \in Users, NEW status \in NewStatuses,
           AdminCreateUser(p, u, status)
    PROVE  IInv'
<1>1. req[p] \in Request /\ Carries(req[p], issued) /\ req' = [req EXCEPT ![p] = req[p]]
  BY DEF IInv, TypeOK, RequestsCarry, AdminCreateUser
<1>2. QED
  BY <1>1, StatusStep DEF AdminCreateUser

\* The cascade takes the devices and the sessions of the user along.
LEMMA HardDeleteStep ==
    ASSUME IInv, NEW p \in Procs,
           (\E u \in Users : HardDelete(p, u)) \/ DeleteAllFirst(p) \/ DeleteUser(p)
    PROVE  IInv'
<1>1. TypeOK /\ req[p] \in Request /\ Carries(req[p], issued)
  BY DEF IInv, TypeOK, RequestsCarry
<1>2. ASSUME NEW u \in Users, HardDelete(p, u) PROVE IInv'
  <2> DEFINE r == [[Idle EXCEPT !.u = u] EXCEPT !.pc = "deleteAllFirst"]
  <2>1. r \in Request /\ Carries(r, issued)
    BY DEF Idle, Request, PCs, Carries
  <2>2. req' = [req EXCEPT ![p] = r] /\ UNCHANGED <<tables, tokens, now>>
    BY <1>2 DEF HardDelete, Goto
  <2> HIDE DEF r
  <2>3. QED
    BY <2>1, <2>2, ReadStep
<1>3. CASE DeleteAllFirst(p)
  <2> DEFINE r == [req[p] EXCEPT !.pc = "deleteUser"]
  <2>1. r \in Request /\ Carries(r, issued)
    BY <1>1, <1>3 DEF DeleteAllFirst, At, Request, PCs, Carries
  <2>2. req' = [req EXCEPT ![p] = r]
    BY <1>3 DEF DeleteAllFirst, Goto
  <2> HIDE DEF r
  <2>3. QED
    BY <1>3, <2>1, <2>2, DeletionStep DEF DeleteAllFirst
<1>4. CASE DeleteUser(p)
  <2> DEFINE u == req[p].u
  <2>1. u \in Users
    BY <1>1, <1>4 DEF DeleteUser, At, Carries
  <2>2. /\ accounts' = [accounts EXCEPT ![u] = "gone"]
        /\ devices' = {dev \in devices : dev[1] # u}
        /\ sessions' = {s \in sessions : s.user # u}
        /\ UNCHANGED <<tokens, now>>
    BY <1>4 DEF DeleteUser, SessionsKeptBy
  <2> HIDE DEF u
  <2>3. /\ accounts' \in [Users -> UserStatus \cup {Null, "gone"}]
        /\ devices' \subseteq Users \X Devices
        /\ sessions' \subseteq SessionRow
    BY <1>1, <2>1, <2>2 DEF TypeOK
  <2>4. \A v \in Users : v # u /\ Exists(v) => Exists(v)'
    BY <1>1, <2>2 DEF TypeOK, Exists
  <2>5. DevicesHaveUsers'
    BY <1>1, <2>2, <2>4 DEF TypeOK, IInv, DevicesHaveUsers
  <2>6. SessionsHaveUsers'
    BY <1>1, <2>2, <2>4 DEF TypeOK, SessionRow, IInv, SessionsHaveUsers
  <2>7. TokenOfItsDevice'
    BY <2>2 DEF IInv, TokenOfItsDevice, tokens
  <2>8. Finish(p)
    BY <1>4 DEF DeleteUser
  <2>9. QED
    BY <2>2, <2>3, <2>5, <2>6, <2>7, <2>8, IdleCarries, TablesStep DEF Finish
<1>5. QED
  BY <1>2, <1>3, <1>4

\* The steps of UserService.
LEMMA UserStep ==
    ASSUME IInv, NEW p \in Procs, UserNext(p)
    PROVE  IInv'
BY StatusChangeStep, AdminCreateStep, HardDeleteStep DEF UserNext

-----------------------------------------------------------------------------
(***************************************************************************)
(* The invariant.                                                          *)
(***************************************************************************)
\* Empty tables and idle requests.
LEMMA InitInvariant == Init => IInv
BY IdleCarries DEF Init, IInv, TypeOK, Time, RequestsCarry, DevicesHaveUsers, KeyLasts,
                   TokenOfItsDevice, SessionsHaveUsers

\* Every step of every request, of the cron job and of the clock.
LEMMA NextInvariant == IInv /\ [Next]_vars => IInv'
<1> SUFFICES ASSUME IInv, [Next]_vars PROVE IInv'
  OBVIOUS
<1>1. ASSUME NEW p \in Procs, Abort(p) PROVE IInv'
  BY <1>1, FinishStep DEF Abort, tables
<1>2. CASE CleanExpiredSessions
  <2>1. UNCHANGED <<accounts, devices, tokens, now, req>> /\ sessions' \subseteq sessions
    BY <1>2 DEF CleanExpiredSessions
  <2>2. QED
    BY <2>1 DEF IInv, TypeOK, RequestsCarry, DevicesHaveUsers, KeyLasts,
                TokenOfItsDevice, SessionsHaveUsers, Exists, tokens
<1>3. CASE Tick
  <2>1. now' \in Time /\ now <= now'
    BY <1>3 DEF Tick, IInv, TypeOK, Time
  <2>2. UNCHANGED <<accounts, devices, sessions, issued, blacklist, req>>
    BY <1>3 DEF Tick, tables, tokens
  <2>3. KeyLasts'
    <3>1. ASSUME NEW k \in Tokens, issued[k] # Null PROVE issued[k].at <= now'
      BY <2>1, <3>1, SignedFor DEF IInv, KeyLasts, TypeOK, Time
    <3>2. QED
      BY <2>2, <3>1 DEF IInv, KeyLasts
  <2>4. QED
    BY <2>1, <2>2, <2>3 DEF IInv, TypeOK, RequestsCarry, DevicesHaveUsers,
                            TokenOfItsDevice, SessionsHaveUsers, Exists
<1>4. CASE UNCHANGED vars
  BY <1>4 DEF vars, IInv, TypeOK, RequestsCarry, DevicesHaveUsers, KeyLasts,
              TokenOfItsDevice, SessionsHaveUsers, Exists
<1>5. QED
  BY <1>1, <1>2, <1>3, <1>4, AuthStep, UserStep, SessionStep DEF Next

\* IInv holds of every state the server can reach.
THEOREM Invariance == Spec => []IInv
BY InitInvariant, NextInvariant, PTL DEF Spec

\* Rows, pairs of tokens, keys and requests have the declared types.
THEOREM TypeCorrect == Spec => []TypeOK
<1>1. IInv => TypeOK
  BY DEF IInv
<1>2. QED
  BY <1>1, Invariance, PTL

\* A session accepts the refresh token of its own user and device, however
\* refreshes, sign-ins and deletions interleave.
THEOREM TokenOfItsDeviceHolds == Spec => []TokenOfItsDevice
<1>1. IInv => TokenOfItsDevice
  BY DEF IInv
<1>2. QED
  BY <1>1, Invariance, PTL

\* No session is of a user whose row has been deleted, whatever was in flight
\* when it was: createSession upserts the device first, and its row cascades.
THEOREM SessionsHaveUsersHolds == Spec => []SessionsHaveUsers
<1>1. IInv => SessionsHaveUsers
  BY DEF IInv
<1>2. QED
  BY <1>1, Invariance, PTL

\* A logged out access token is refused: JTI_BLACKLIST_TTL is as long as an
\* access token lives, and the key is set after the token was signed.
THEOREM LoggedOutTokenRefusedHolds == Spec => []LoggedOutTokenRefused
<1>1. IInv => LoggedOutTokenRefused
  <2> SUFFICES ASSUME IInv, NEW k \in Tokens, blacklist[k] # Null, AccessAlive(k)
               PROVE  Blacklisted(k)
    BY DEF LoggedOutTokenRefused, Authorized
  <2>1. issued[k] # Null /\ issued[k].at + AccessTtl <= blacklist[k]
    BY DEF IInv, KeyLasts
  <2>2. now < issued[k].at + AccessTtl
    BY DEF AccessAlive
  <2>3. issued[k].at \in Nat /\ now \in Nat /\ blacklist[k] \in Nat
    BY <2>1, SignedFor DEF IInv, TypeOK, Time
  <2>4. QED
    BY <2>1, <2>2, <2>3 DEF Blacklisted
<1>2. QED
  BY <1>1, Invariance, PTL

\* A refresh updates rows and never makes one: of all the steps, only the last
\* of createSession adds a row, under the pair of that sign-in.
THEOREM RefreshRevivesNothingHolds == Spec => RefreshRevivesNothing
<1> DEFINE Kept == \A s \in sessions' : s.id \in {r.id : r \in sessions} \/ s.id = s.token
<1>1. ASSUME NEW p \in Procs, InsertSession(p) PROVE Kept
  BY <1>1 DEF InsertSession
<1>2. ASSUME NEW p \in Procs, Rotate(p) PROVE Kept
  <2> DEFINE rows == RowsToRotate(req[p].u, req[p].d)
  <2>1. \A o \in rows : o \in sessions /\ Rotated(o, req[p].new).id = o.id
    BY DEF RowsToRotate, SessionsOf, Rotated
  <2>2. sessions' \subseteq sessions \cup {Rotated(o, req[p].new) : o \in rows}
    BY <1>2 DEF Rotate
  <2> HIDE DEF rows
  <2>3. QED
    BY <2>1, <2>2
<1>3. ASSUME sessions' \subseteq sessions PROVE Kept
  BY <1>3
<1>4. ASSUME NEW p \in Procs, AuthNext(p) PROVE sessions' \subseteq sessions
  BY <1>4 DEF AuthNext, Register, RegisterWithGoogle, Login, LoginWithPin, ConfirmEmail,
              Refresh, Logout, LogoutAll, ResetPassword, RevokeSession, Confirm,
              LoadConfirmed, LoadUser, BlacklistJti, tables
<1>5. ASSUME NEW p \in Procs, UserNext(p) PROVE sessions' \subseteq sessions
  BY <1>5 DEF UserNext, AdminCreateUser, UpdateStatus, HardDelete, SoftDeleteMe, SetStatus,
              DeleteAllFirst, DeleteUser, SessionsKeptBy, tables
<1>6. ASSUME NEW p \in Procs,
             \/ SignPair(p) \/ DeleteSession(p) \/ DeleteAllSessions(p)
             \/ DeleteSessionById(p) \/ Abort(p)
      PROVE  sessions' \subseteq sessions
  BY <1>6 DEF SignPair, DeleteSession, DeleteAllSessions, DeleteSessionById, Abort, tables
<1>7. CleanExpiredSessions \/ Tick \/ UNCHANGED vars => sessions' \subseteq sessions
  BY DEF CleanExpiredSessions, Tick, vars, tables
<1> HIDE DEF Kept
<1>8. [Next]_vars => Kept
  BY <1>1, <1>2, <1>3, <1>4, <1>5, <1>6, <1>7 DEF Next, SessionNext
<1>9. QED
  BY <1>8, PTL DEF Spec, RefreshRevivesNothing, Kept

=============================================================================
