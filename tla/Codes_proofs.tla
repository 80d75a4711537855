---------------------------- MODULE Codes_proofs ----------------------------
(***************************************************************************)
(* Theorems about Codes: any number of requests, any settings.             *)
(***************************************************************************)
EXTENDS Codes, FiniteSetTheorems, TLAPS

\* The number of requests that wait at some of the awaits.
LEMMA WaitingNat ==
    ASSUME NEW pcs
    PROVE  Waiting(pcs) \in Nat
<1> DEFINE W == {p \in Procs : req[p].pc \in pcs}
<1>1. IsFiniteSet(W)  BY ProcsFinite, FS_Subset
<1> QED  BY <1>1, FS_CardinalityType DEF Waiting

\* It changes by the one request that moves.
LEMMA Moves ==
    ASSUME req \in [Procs -> Request], NEW p \in Procs, NEW r \in Request,
           req' = [req EXCEPT ![p] = r], NEW pcs
    PROVE  /\ Waiting(pcs)' \in Nat
           /\ Waiting(pcs) \in Nat
           /\ Waiting(pcs)' = Waiting(pcs)
                                + (IF r.pc \in pcs THEN 1 ELSE 0)
                                - (IF req[p].pc \in pcs THEN 1 ELSE 0)
<1> DEFINE W == {q \in Procs : req[q].pc \in pcs}
           O == {q \in Procs \ {p} : req[q].pc \in pcs}
<1>1. IsFiniteSet(O) /\ IsFiniteSet(Procs)  BY ProcsFinite, FS_Subset
<1>2. Cardinality(O) \in Nat  BY <1>1, FS_CardinalityType
<1>3. p \notin O  OBVIOUS
<1>4. Cardinality(O \cup {p}) = Cardinality(O) + 1  BY <1>1, <1>3, FS_AddElement
<1>5. W = IF req[p].pc \in pcs THEN O \cup {p} ELSE O  OBVIOUS
<1>6. W' = IF r.pc \in pcs THEN O \cup {p} ELSE O
  <2>1. W' = {q \in Procs : req'[q].pc \in pcs}  OBVIOUS
  <2>2. req'[p] = r  OBVIOUS
  <2>3. \A q \in Procs \ {p} : req'[q] = req[q]  OBVIOUS
  <2> QED  BY <2>1, <2>2, <2>3
<1>7. Waiting(pcs) = Cardinality(W) /\ Waiting(pcs)' = Cardinality(W')  BY DEF Waiting
<1>8. /\ Waiting(pcs) = Cardinality(O) + (IF req[p].pc \in pcs THEN 1 ELSE 0)
      /\ Waiting(pcs)' = Cardinality(O) + (IF r.pc \in pcs THEN 1 ELSE 0)
  <2> HIDE DEF W, O
  <2>1. Cardinality(W) = Cardinality(O) + (IF req[p].pc \in pcs THEN 1 ELSE 0)
    BY <1>2, <1>4, <1>5
  <2>2. Cardinality(W') = Cardinality(O) + (IF r.pc \in pcs THEN 1 ELSE 0)
    BY <1>2, <1>4, <1>6
  <2> QED  BY <1>7, <2>1, <2>2
<1> QED  BY <1>2, <1>8

\* A request waits at one await, and there are no more requests than Procs.
LEMMA TwoPlaces ==
    ASSUME NEW A, NEW B, A \cap B = {}
    PROVE  Waiting(A) + Waiting(B) <= Cardinality(Procs)
<1> DEFINE WA == {p \in Procs : req[p].pc \in A}
           WB == {p \in Procs : req[p].pc \in B}
<1>1. IsFiniteSet(WA) /\ IsFiniteSet(WB)  BY ProcsFinite, FS_Subset
<1>2. Cardinality(WA) \in Nat /\ Cardinality(WB) \in Nat /\ Cardinality(Procs) \in Nat
  BY <1>1, ProcsFinite, FS_CardinalityType
<1>3. Cardinality(WA \cup WB) = Cardinality(WA) + Cardinality(WB)
  <2>1. WA \cap WB = {}  OBVIOUS
  <2>2. Cardinality(WA \cap WB) = 0  BY <2>1, FS_EmptySet
  <2>3. Cardinality(WA \cup WB)
          = Cardinality(WA) + Cardinality(WB) - Cardinality(WA \cap WB)
    BY <1>1, FS_Union
  <2> QED  BY <1>2, <2>2, <2>3
<1>4. Cardinality(WA \cup WB) <= Cardinality(Procs)
  BY ProcsFinite, FS_Subset, WA \cup WB \subseteq Procs
<1> QED  BY <1>2, <1>3, <1>4 DEF Waiting

LEMMA OnePlace ==
    ASSUME NEW A
    PROVE  Waiting(A) <= Cardinality(Procs)
<1>1. Waiting(A) + Waiting({}) <= Cardinality(Procs)  BY TwoPlaces
<1>2. Cardinality(Procs) \in Nat  BY ProcsFinite, FS_CardinalityType
<1> QED  BY <1>1, <1>2, WaitingNat

-----------------------------------------------------------------------------
Bit(b) == IF b THEN 1 ELSE 0

Lockers == {"setLock", "delAttempts"}

\* What the request p does to the counter, to the guesses and to the uses on its way
\* to r is what r has still to count, to lock for and to delete.
Counts(p, r) ==
    \/ guesses' = 0
    \/ guesses' + Count + aborts + Bit(req[p].pc = "incr")
         <= guesses + Count' + aborts' + Bit(r.pc = "incr")

Locks(p, r) ==
    \/ guesses' = 0
    \/ Count' <= conf.maxAttempts
    \/ guesses' + aborts + Bit(req[p].pc = "incr") + Bit(req[p].pc \in Lockers)
         <= guesses + aborts' + Bit(r.pc = "incr") + Bit(r.pc \in Lockers)

Deletes(p, r) ==
    \/ otp' = Null /\ uses' = uses
    \/ uses' = 0
    \/ /\ otp # Null
       /\ uses' + aborts + Bit(req[p].pc = "delCode") <= uses + aborts' + Bit(r.pc = "delCode")

Expires(p, r) ==
    att' # Null /\ att'.ttl = Null =>
      \/ aborts' > 0
      \/ r.pc = "expire"
      \/ att # Null /\ att.ttl = Null /\ req[p].pc # "expire"

LEMMA ConfFacts ==
    ASSUME TypeOK
    PROVE  /\ conf.maxAttempts \in Nat \ {0}
           /\ conf.lockDuration \in Duration
           /\ conf.otpTtl \in Duration \cup {Null}
           /\ Null \notin Duration
           /\ operation # "login" => CodeTtl \in Duration
<1>1. conf \in Settings
  BY ConfAssumption DEF TypeOK, conf
<1>2. RedisConf["confirm"] \in Settings /\ RedisConf["reset"] \in Settings
  BY ConfAssumption DEF Operations
<1>3. operation # "login" => operation \in {"confirm", "reset", "pin"}
  BY DEF TypeOK, Operations
<1> QED
  BY <1>1, <1>2, <1>3, NullIsOutside, CodesHaveTtl DEF Settings, Duration, CodeTtl, conf

LEMMA CountNat ==
    ASSUME TypeOK
    PROVE  Count \in Nat
BY DEF TypeOK, Count, Counter

\* Then the step keeps the invariant.
LEMMA StepOfOne ==
    ASSUME IInv, TypeOK', NEW p \in Procs, NEW r \in Request,
           req' = [req EXCEPT ![p] = r],
           operation' = operation,
           aborts' >= aborts,
           r.pc = "setCode" \/ r.then = "setCode" => operation # "login",
           Expires(p, r), Counts(p, r), Locks(p, r), Deletes(p, r)
    PROVE  IInv'
<1> USE DEF IInv
<1>1. /\ req \in [Procs -> Request]
      /\ guesses \in Nat /\ guesses' \in Nat /\ uses \in Nat /\ uses' \in Nat
      /\ aborts \in Nat /\ aborts' \in Nat
      /\ Count \in Nat /\ Count' \in Nat
      /\ conf.maxAttempts \in Nat /\ conf' = conf
  <2>1. Count \in Nat /\ Count' \in Nat  BY DEF TypeOK, Count, Counter
  <2>2. conf.maxAttempts \in Nat  BY ConfFacts
  <2>3. conf' = conf  BY DEF conf
  <2> QED  BY <2>1, <2>2, <2>3, MaxAbortsIsNat DEF TypeOK
<1> DEFINE I == {"incr"}
           D == {"delCode"}
<1>2. /\ Waiting(I)' \in Nat /\ Waiting(I) \in Nat
      /\ Waiting(I)' = Waiting(I) + Bit(r.pc = "incr") - Bit(req[p].pc = "incr")
  BY <1>1, Moves DEF Bit
<1>3. /\ Waiting(Lockers)' \in Nat /\ Waiting(Lockers) \in Nat
      /\ Waiting(Lockers)' = Waiting(Lockers) + Bit(r.pc \in Lockers)
                                              - Bit(req[p].pc \in Lockers)
  BY <1>1, Moves DEF Bit
<1>4. /\ Waiting(D)' \in Nat /\ Waiting(D) \in Nat
      /\ Waiting(D)' = Waiting(D) + Bit(r.pc = "delCode") - Bit(req[p].pc = "delCode")
  BY <1>1, Moves DEF Bit
<1>5. /\ Bit(req[p].pc = "incr") \in 0..1 /\ Bit(r.pc = "incr") \in 0..1
      /\ Bit(req[p].pc \in Lockers) \in 0..1 /\ Bit(r.pc \in Lockers) \in 0..1
      /\ Bit(req[p].pc = "delCode") \in 0..1 /\ Bit(r.pc = "delCode") \in 0..1
  BY DEF Bit
<1>6. LoginSendsNoCode'
  <2> SUFFICES ASSUME NEW q \in Procs, req'[q].pc = "setCode" \/ req'[q].then = "setCode"
               PROVE  operation # "login"
    BY DEF LoginSendsNoCode, At
  <2> QED  BY <1>1 DEF LoginSendsNoCode, At
<1>7. CounterExpires'
  <2> SUFFICES ASSUME att' # Null, att'.ttl = Null
               PROVE  aborts' > 0 \/ \E q \in Procs : req'[q].pc = "expire"
    BY DEF CounterExpires, At
  <2>1. CASE aborts' > 0  BY <2>1
  <2>2. CASE r.pc = "expire"  BY <2>2, <1>1
  <2>3. CASE att # Null /\ att.ttl = Null /\ req[p].pc # "expire"
    <3>1. aborts > 0 \/ \E q \in Procs : req[q].pc = "expire"
      BY <2>3 DEF CounterExpires, At
    <3>2. CASE aborts > 0  BY <3>2, <1>1
    <3>3. CASE \E q \in Procs : req[q].pc = "expire"  BY <3>3, <2>3, <1>1
    <3> QED  BY <3>1, <3>2, <3>3
  <2> QED  BY <2>1, <2>2, <2>3 DEF Expires
<1>8. guesses' <= Count' + Waiting(I)' + aborts'
  <2>1. guesses <= Count + Waiting(I) + aborts  BY DEF GuessesCounted
  <2> HIDE DEF I, IInv
  <2> QED  BY <1>1, <1>2, <1>5, <2>1 DEF Counts
<1>9. guesses' <= conf.maxAttempts + Waiting(I)' + Waiting(Lockers)' + aborts'
  <2>1. guesses <= conf.maxAttempts + Waiting(I) + Waiting(Lockers) + aborts
    BY DEF GuessesBeyond, Lockers
  <2> HIDE DEF I, IInv
  <2> QED  BY <1>1, <1>2, <1>3, <1>5, <1>8, <2>1 DEF Locks
<1>10. \/ uses' <= Waiting(D)' + aborts'
       \/ otp' = Null /\ uses' = uses
  <2>1. otp # Null => uses <= Waiting(D) + aborts  BY DEF UsesPending
  <2> HIDE DEF D, IInv
  <2> QED  BY <1>1, <1>4, <1>5, <2>1 DEF Deletes
<1>11. CodeServesThoseInFlight'
  <2>1. Waiting(D)' <= Cardinality(Procs)
    <3>1. Waiting(D) <= Cardinality(Procs)  BY OnePlace
    <3>2. IsFiniteSet({q \in Procs : req'[q].pc \in D})  BY ProcsFinite, FS_Subset
    <3> QED  BY ProcsFinite, FS_Subset DEF Waiting
  <2>2. Cardinality(Procs) \in Nat  BY ProcsFinite, FS_CardinalityType
  <2>3. uses <= Cardinality(Procs) + aborts  BY DEF CodeServesThoseInFlight
  <2> HIDE DEF D, IInv
  <2>4. uses' <= Cardinality(Procs) + aborts'
    BY <1>1, <1>4, <1>10, <2>1, <2>2, <2>3 DEF Deletes
  <2> QED  BY <2>4 DEF CodeServesThoseInFlight
<1>12. GuessesCounted'  BY <1>8 DEF GuessesCounted
<1>13. GuessesBeyond'  BY <1>1, <1>9 DEF GuessesBeyond, Lockers
<1>14. UsesPending'  BY <1>10 DEF UsesPending
<1> QED  BY <1>6, <1>7, <1>11, <1>12, <1>13, <1>14

-----------------------------------------------------------------------------
\* Where a request goes on to.
LEMMA Gone ==
    ASSUME NEW p \in Procs, NEW q \in Request, NEW pc \in PCs, Goto(p, pc, q)
    PROVE  \E r \in Request : /\ req' = [req EXCEPT ![p] = r]
                              /\ r.pc = pc
                              /\ r.then = q.then
<1> DEFINE r == [q EXCEPT !.pc = pc]
<1>1. r \in Request /\ r.pc = pc /\ r.then = q.then  BY DEF Request
<1> QED  BY <1>1 DEF Goto

LEMMA Finished ==
    ASSUME NEW p \in Procs, Finish(p)
    PROVE  \E r \in Request : /\ req' = [req EXCEPT ![p] = r]
                              /\ r.pc = "idle"
                              /\ r.then = "idle"
<1>1. Idle \in Request /\ Idle.pc = "idle" /\ Idle.then = "idle"
  BY DEF Request, Idle, PCs
<1> QED  BY <1>1 DEF Finish

\* A step that changes nothing but the request.
LEMMA StepOfRequest ==
    ASSUME IInv, NEW p \in Procs, NEW r \in Request,
           req' = [req EXCEPT ![p] = r],
           r.pc = "setCode" \/ r.then = "setCode" => operation # "login",
           req[p].pc \notin {"incr", "expire", "delCode"},
           req[p].pc \notin Lockers \/ r.pc \in Lockers,
           UNCHANGED <<operation, otp, att, lock, guesses, uses, aborts>>
    PROVE  IInv'
<1>1. TypeOK /\ TypeOK'  BY DEF IInv, TypeOK
<1>2. Count \in Nat /\ Count' = Count /\ guesses \in Nat /\ uses \in Nat /\ aborts \in Nat
  BY <1>1, CountNat, MaxAbortsIsNat DEF TypeOK, Count
<1>3. /\ Bit(req[p].pc = "incr") <= Bit(r.pc = "incr")
      /\ Bit(req[p].pc \in Lockers) <= Bit(r.pc \in Lockers)
      /\ Bit(req[p].pc = "delCode") <= Bit(r.pc = "delCode")
      /\ Bit(req[p].pc = "incr") \in 0..1 /\ Bit(r.pc = "incr") \in 0..1
      /\ Bit(req[p].pc \in Lockers) \in 0..1 /\ Bit(r.pc \in Lockers) \in 0..1
      /\ Bit(req[p].pc = "delCode") \in 0..1 /\ Bit(r.pc = "delCode") \in 0..1
  BY DEF Bit
<1>4. aborts' >= aborts /\ Counts(p, r) /\ Locks(p, r) /\ Deletes(p, r)
  BY <1>2, <1>3 DEF Counts, Locks, Deletes
<1>5. Expires(p, r)  BY DEF Expires
<1> QED  BY <1>1, <1>4, <1>5, StepOfOne

LEMMA InitIInv == Init => IInv
<1> SUFFICES ASSUME Init PROVE IInv
  OBVIOUS
<1> USE DEF Init
<1>1. TypeOK
  BY MaxAbortsIsNat DEF TypeOK, Request, Idle, PCs
<1>2. LoginSendsNoCode /\ CounterExpires
  BY DEF LoginSendsNoCode, CounterExpires, At, Idle
<1>3. /\ Count = 0 /\ conf.maxAttempts \in Nat
      /\ \A pcs : Waiting(pcs) \in Nat
      /\ Cardinality(Procs) \in Nat
  BY <1>1, ConfFacts, WaitingNat, ProcsFinite, FS_CardinalityType DEF Count
<1>4. GuessesCounted /\ GuessesBeyond /\ UsesPending /\ CodeServesThoseInFlight
  BY <1>3 DEF GuessesCounted, GuessesBeyond, UsesPending, CodeServesThoseInFlight
<1> QED  BY <1>1, <1>2, <1>4 DEF IInv

-----------------------------------------------------------------------------
\* Admitted, and on to the next await, with nothing written.
LEMMA Admissions ==
    ASSUME IInv, NEW p \in Procs,
           \/ SendOtp(p)
           \/ \E code \in Codes : VerifyOtp(p, code)
           \/ \E right \in BOOLEAN : Login(p, right) \/ LoginWithPin(p, right)
           \/ AssertPin(p)
    PROVE  IInv'
<1>1. /\ req[p] \in Request
      /\ req[p].then = "setCode" => operation # "login"
      /\ req[p].pc \in {"idle", "assertPin"}
      /\ UNCHANGED <<operation, otp, att, lock, guesses, uses, aborts>>
  BY DEF IInv, TypeOK, LoginSendsNoCode, SendOtp, VerifyOtp, Login, LoginWithPin,
         AssertPin, At, keys
<1> DEFINE Reads == \E r \in Request : /\ req' = [req EXCEPT ![p] = r]
                                       /\ r.pc # "setCode"
                                       /\ r.then = "setCode" => operation # "login"
<1>2. CASE SendOtp(p)
  <2>1. PICK q \in Request : Goto(p, "incr", q) /\ operation # "login"
    <3>1. [Idle EXCEPT !.then = "setCode"] \in Request  BY DEF Request, Idle, PCs
    <3> QED  BY <1>2, <3>1 DEF SendOtp
  <2>2. PICK r \in Request : req' = [req EXCEPT ![p] = r] /\ r.pc = "incr"
    BY <2>1, Gone DEF PCs
  <2> QED  BY <1>1, <2>1, <2>2, StepOfRequest DEF Lockers
<1>3. ASSUME NEW guess \in Codes \cup BOOLEAN,
             NEW pc \in {"getCode", "compare", "assertPin"},
             Goto(p, pc, [Idle EXCEPT !.guess = guess])
      PROVE  Reads
  <2>1. PICK q \in Request : q.then = "idle" /\ Goto(p, pc, q)
    <3>1. /\ [Idle EXCEPT !.guess = guess] \in Request
          /\ [Idle EXCEPT !.guess = guess].then = "idle"
      BY DEF Request, Idle, PCs
    <3> QED  BY <1>3, <3>1
  <2>2. PICK r \in Request : req' = [req EXCEPT ![p] = r] /\ r.pc = pc /\ r.then = "idle"
    BY <2>1, Gone DEF PCs
  <2> QED  BY <2>2
<1>4. ASSUME NEW code \in Codes, VerifyOtp(p, code)
      PROVE  IInv'
  <2>1. Reads  BY <1>3, <1>4 DEF VerifyOtp
  <2> QED  BY <1>1, <2>1, StepOfRequest DEF Lockers
<1>5. ASSUME NEW right \in BOOLEAN, Login(p, right) \/ LoginWithPin(p, right)
      PROVE  IInv'
  <2>1. Reads  BY <1>3, <1>5 DEF Login, LoginWithPin
  <2> QED  BY <1>1, <2>1, StepOfRequest DEF Lockers
<1>6. CASE AssertPin(p)
  <2>1. Reads
    <3>1. CASE Goto(p, "compare", req[p])  BY <1>1, <3>1, Gone DEF PCs
    <3>2. CASE Finish(p)  BY <3>2, Finished
    <3> QED  BY <1>6, <3>1, <3>2 DEF AssertPin
  <2> QED  BY <1>1, <2>1, StepOfRequest DEF Lockers
<1> QED  BY <1>2, <1>4, <1>5, <1>6

\* What a handler in flight brings to the lemmas on steps.
LEMMA InFlight ==
    ASSUME IInv, NEW p \in Procs
    PROVE  /\ req[p] \in Request
           /\ req[p].then = "setCode" => operation # "login"
           /\ req[p].pc = "setCode" => operation # "login"
           /\ Count \in Nat /\ guesses \in Nat /\ uses \in Nat /\ aborts \in Nat
           /\ \A b \in BOOLEAN : Bit(b) \in 0..1
BY MaxAbortsIsNat, CountNat DEF IInv, TypeOK, LoginSendsNoCode, At, Bit

LEMMA GetCodeStep ==
    ASSUME IInv, NEW p \in Procs, GetCode(p)
    PROVE  IInv'
<1>1. /\ req[p].pc = "getCode"
      /\ UNCHANGED <<operation, otp, att, lock, aborts>>
  BY DEF GetCode, At, keys
<1>2. CASE otp = Null /\ Finish(p) /\ UNCHANGED <<guesses, uses>>
  BY <1>1, <1>2, Finished, StepOfRequest DEF Lockers
<1>3. CASE otp # Null /\ uses' = uses + 1 /\ Goto(p, "delCode", req[p]) /\ UNCHANGED guesses
  <2>1. PICK r \in Request : /\ req' = [req EXCEPT ![p] = r]
                             /\ r.pc = "delCode"
                             /\ r.then = req[p].then
    BY <1>3, InFlight, Gone DEF PCs
  <2>2. TypeOK'  BY <1>1, <1>3, <2>1 DEF IInv, TypeOK
  <2>3. Count' = Count  BY <1>1 DEF Count
  <2>4. /\ Bit(req[p].pc = "incr") = 0 /\ Bit(r.pc = "incr") = 0
        /\ Bit(req[p].pc \in Lockers) = 0 /\ Bit(r.pc \in Lockers) = 0
        /\ Bit(req[p].pc = "delCode") = 0 /\ Bit(r.pc = "delCode") = 1
    BY <1>1, <2>1 DEF Bit, Lockers
  <2>5. Counts(p, r) /\ Locks(p, r) /\ Deletes(p, r) /\ Expires(p, r) /\ aborts' >= aborts
    BY <1>1, <1>3, <2>3, <2>4, InFlight DEF Counts, Locks, Deletes, Expires
  <2> QED  BY <1>1, <2>1, <2>2, <2>5, InFlight, StepOfOne
<1>4. CASE guesses' = guesses + 1 /\ Goto(p, "incr", req[p]) /\ UNCHANGED uses
  <2>1. PICK r \in Request : /\ req' = [req EXCEPT ![p] = r]
                             /\ r.pc = "incr"
                             /\ r.then = req[p].then
    BY <1>4, InFlight, Gone DEF PCs
  <2>2. TypeOK'  BY <1>1, <1>4, <2>1 DEF IInv, TypeOK
  <2>3. Count' = Count  BY <1>1 DEF Count
  <2>4. /\ Bit(req[p].pc = "incr") = 0 /\ Bit(r.pc = "incr") = 1
        /\ Bit(req[p].pc \in Lockers) = 0 /\ Bit(r.pc \in Lockers) = 0
        /\ Bit(req[p].pc = "delCode") = 0 /\ Bit(r.pc = "delCode") = 0
    BY <1>1, <2>1 DEF Bit, Lockers
  <2>5. Counts(p, r) /\ Locks(p, r) /\ Deletes(p, r) /\ Expires(p, r) /\ aborts' >= aborts
    BY <1>1, <1>4, <2>3, <2>4, InFlight DEF Counts, Locks, Deletes, Expires
  <2> QED  BY <1>1, <2>1, <2>2, <2>5, InFlight, StepOfOne
<1> QED  BY <1>2, <1>3, <1>4 DEF GetCode

LEMMA DelCodeStep ==
    ASSUME IInv, NEW p \in Procs, DelCode(p)
    PROVE  IInv'
<1>1. /\ req[p].pc = "delCode"
      /\ otp' = Null
      /\ UNCHANGED <<operation, att, lock, guesses, uses, aborts>>
  BY DEF DelCode, At
<1>2. PICK r \in Request : /\ req' = [req EXCEPT ![p] = r]
                           /\ r.pc = "delAttempts"
                           /\ r.then = req[p].then
  BY InFlight, Gone DEF DelCode, PCs
<1>3. TypeOK'  BY <1>1, <1>2 DEF IInv, TypeOK
<1>4. Count' = Count  BY <1>1 DEF Count
<1>5. /\ Bit(req[p].pc = "incr") = 0 /\ Bit(r.pc = "incr") = 0
      /\ Bit(req[p].pc \in Lockers) = 0 /\ Bit(r.pc \in Lockers) = 1
  BY <1>1, <1>2 DEF Bit, Lockers
<1>6. Counts(p, r) /\ Locks(p, r) /\ Deletes(p, r) /\ Expires(p, r) /\ aborts' >= aborts
  BY <1>1, <1>4, <1>5, InFlight DEF Counts, Locks, Deletes, Expires
<1> QED  BY <1>1, <1>2, <1>3, <1>6, InFlight, StepOfOne

LEMMA CompareStep ==
    ASSUME IInv, NEW p \in Procs, Compare(p)
    PROVE  IInv'
<1>1. /\ req[p].pc = "compare"
      /\ UNCHANGED <<operation, otp, att, lock, uses, aborts>>
  BY DEF Compare, At, keys
<1>2. CASE guesses' = guesses + 1 /\ Goto(p, "incr", req[p])
  <2>1. PICK r \in Request : /\ req' = [req EXCEPT ![p] = r]
                             /\ r.pc = "incr"
                             /\ r.then = req[p].then
    BY <1>2, InFlight, Gone DEF PCs
  <2>2. TypeOK'  BY <1>1, <1>2, <2>1 DEF IInv, TypeOK
  <2>3. Count' = Count  BY <1>1 DEF Count
  <2>4. /\ Bit(req[p].pc = "incr") = 0 /\ Bit(r.pc = "incr") = 1
        /\ Bit(req[p].pc \in Lockers) = 0 /\ Bit(r.pc \in Lockers) = 0
        /\ Bit(req[p].pc = "delCode") = 0 /\ Bit(r.pc = "delCode") = 0
    BY <1>1, <2>1 DEF Bit, Lockers
  <2>5. Counts(p, r) /\ Locks(p, r) /\ Expires(p, r) /\ aborts' >= aborts
    BY <1>1, <1>2, <2>3, <2>4, InFlight DEF Counts, Locks, Expires
  <2>6. Deletes(p, r)  BY <1>1, <2>4, InFlight DEF Deletes
  <2> QED  BY <1>1, <2>1, <2>2, <2>5, <2>6, InFlight, StepOfOne
<1>3. CASE Goto(p, "delAttempts", req[p]) /\ UNCHANGED guesses
  <2>1. PICK r \in Request : /\ req' = [req EXCEPT ![p] = r]
                             /\ r.pc = "delAttempts"
                             /\ r.then = req[p].then
    BY <1>3, InFlight, Gone DEF PCs
  <2> QED  BY <1>1, <1>3, <2>1, InFlight, StepOfRequest DEF Lockers
<1>4. CASE Finish(p) /\ UNCHANGED guesses
  BY <1>1, <1>4, Finished, StepOfRequest DEF Lockers
<1> QED  BY <1>2, <1>3, <1>4 DEF Compare

-----------------------------------------------------------------------------
\* INCR; what follows depends on the count it returns.
LEMMA IncrStep ==
    ASSUME IInv, NEW p \in Procs, Incr(p)
    PROVE  IInv'
<1> DEFINE n == Count + 1
<1>1. /\ req[p].pc = "incr"
      /\ att' = [n |-> n, ttl |-> IF att = Null THEN Null ELSE att.ttl]
      /\ AfterIncr(p, n)
      /\ UNCHANGED <<operation, otp, lock, guesses, uses, aborts>>
  BY DEF Incr, At
<1>2. Count \in Nat /\ conf.maxAttempts \in Nat \ {0} /\ n \in Nat \ {0}
  BY InFlight, ConfFacts DEF IInv
<1>3. att' \in Counter /\ Count' = n
  <2>1. att' \in Counter  BY <1>1, <1>2 DEF IInv, TypeOK, Counter
  <2> QED  BY <1>1, <2>1, NullIsOutside DEF Count
<1>4. /\ Bit(req[p].pc = "incr") = 1
      /\ Bit(req[p].pc \in Lockers) = 0
      /\ Bit(req[p].pc = "delCode") = 0
  BY <1>1 DEF Bit, Lockers
<1>5. CASE First(n)
  <2>1. PICK r \in Request : /\ req' = [req EXCEPT ![p] = r]
                             /\ r.pc = "expire"
                             /\ r.then = req[p].then
    BY <1>1, <1>5, InFlight, Gone DEF AfterIncr, PCs
  <2>2. TypeOK'  BY <1>1, <1>3, <2>1 DEF IInv, TypeOK
  <2>3. Count' <= conf.maxAttempts  BY <1>2, <1>3, <1>5 DEF First
  <2>4. Bit(r.pc = "incr") = 0 /\ Bit(r.pc = "delCode") = 0
    BY <2>1 DEF Bit
  <2>5. Counts(p, r) /\ Locks(p, r) /\ Expires(p, r) /\ aborts' >= aborts
    BY <1>1, <1>2, <1>3, <1>4, <2>1, <2>3, <2>4, InFlight DEF Counts, Locks, Expires
  <2>6. Deletes(p, r)  BY <1>1, <1>4, <2>4, InFlight DEF Deletes
  <2> QED  BY <1>1, <2>1, <2>2, <2>5, <2>6, InFlight, StepOfOne
<1>6. ASSUME ~ First(n)
      PROVE  att # Null /\ att'.ttl = att.ttl
  BY <1>1, <1>6 DEF First, Count
<1>7. CASE ~ First(n) /\ Exceeds(n)
  <2>1. PICK r \in Request : /\ req' = [req EXCEPT ![p] = r]
                             /\ r.pc = "setLock"
                             /\ r.then = req[p].then
    BY <1>1, <1>7, InFlight, Gone DEF AfterIncr, PCs
  <2>2. TypeOK'  BY <1>1, <1>3, <2>1 DEF IInv, TypeOK
  <2>3. /\ Bit(r.pc = "incr") = 0
        /\ Bit(r.pc \in Lockers) = 1
        /\ Bit(r.pc = "delCode") = 0
    BY <2>1 DEF Bit, Lockers
  <2>4. Counts(p, r) /\ Locks(p, r) /\ aborts' >= aborts
    BY <1>1, <1>2, <1>3, <1>4, <2>3, InFlight DEF Counts, Locks
  <2>5. Deletes(p, r)  BY <1>1, <1>4, <2>3, InFlight DEF Deletes
  <2>6. Expires(p, r)  BY <1>1, <1>6, <1>7 DEF Expires
  <2> QED  BY <1>1, <2>1, <2>2, <2>4, <2>5, <2>6, InFlight, StepOfOne
<1>8. CASE ~ First(n) /\ ~ Exceeds(n)
  <2>1. PICK r \in Request : /\ req' = [req EXCEPT ![p] = r]
                             /\ r.pc \in {"idle", "setCode"}
                             /\ r.pc = "setCode" \/ r.then = "setCode"
                                  => req[p].then = "setCode"
    <3>1. CASE Finish(p)  BY <3>1, Finished
    <3>2. CASE req[p].then # "idle" /\ Goto(p, "setCode", req[p])
      <4>1. req[p].then = "setCode"  BY <3>2, InFlight DEF Request
      <4> QED  BY <3>2, <4>1, InFlight, Gone DEF PCs
    <3> QED  BY <1>1, <1>8, <3>1, <3>2 DEF AfterIncr
  <2>2. TypeOK'  BY <1>1, <1>3, <2>1 DEF IInv, TypeOK
  <2>3. Bit(r.pc = "incr") = 0 /\ Bit(r.pc = "delCode") = 0
    BY <2>1 DEF Bit
  <2>4. Counts(p, r) /\ Locks(p, r) /\ aborts' >= aborts
    BY <1>1, <1>2, <1>3, <1>4, <1>8, <2>3, InFlight DEF Counts, Locks, Exceeds
  <2>5. Deletes(p, r)  BY <1>1, <1>4, <2>3, InFlight DEF Deletes
  <2>6. Expires(p, r)  BY <1>1, <1>6, <1>8 DEF Expires
  <2> QED  BY <1>1, <2>1, <2>2, <2>4, <2>5, <2>6, InFlight, StepOfOne
<1> QED  BY <1>5, <1>7, <1>8

LEMMA ExpireStep ==
    ASSUME IInv, NEW p \in Procs, Expire(p)
    PROVE  IInv'
<1>1. /\ req[p].pc = "expire"
      /\ att' = IF att = Null THEN Null
                ELSE [att EXCEPT !.ttl = IF conf.otpTtl = Null THEN conf.lockDuration
                                         ELSE conf.otpTtl]
      /\ UNCHANGED <<operation, otp, lock, guesses, uses, aborts>>
  BY DEF Expire, At
<1>2. /\ att = Null => att' = Null
      /\ att # Null => att' \in Counter /\ att'.ttl # Null /\ att'.n = att.n
  BY <1>1, ConfFacts DEF IInv, TypeOK, Counter
<1>3. Count' = Count  BY <1>2, NullIsOutside DEF Count
<1>4. PICK r \in Request : /\ req' = [req EXCEPT ![p] = r]
                           /\ r.pc \in {"idle", "setCode"}
                           /\ r.pc = "setCode" \/ r.then = "setCode"
                                => req[p].then = "setCode"
  <2>1. CASE Finish(p)  BY <2>1, Finished
  <2>2. CASE req[p].then # "idle" /\ Goto(p, "setCode", req[p])
    <3>1. req[p].then = "setCode"  BY <2>2, InFlight DEF Request
    <3> QED  BY <2>2, <3>1, InFlight, Gone DEF PCs
  <2> QED  BY <2>1, <2>2 DEF Expire
<1>5. TypeOK'  BY <1>1, <1>2, <1>4 DEF IInv, TypeOK
<1>6. /\ Bit(req[p].pc = "incr") = 0 /\ Bit(r.pc = "incr") = 0
      /\ Bit(req[p].pc \in Lockers) = 0 /\ Bit(r.pc \in Lockers) = 0
      /\ Bit(req[p].pc = "delCode") = 0 /\ Bit(r.pc = "delCode") = 0
  BY <1>1, <1>4 DEF Bit, Lockers
<1>7. Counts(p, r) /\ Locks(p, r) /\ aborts' >= aborts
  BY <1>1, <1>3, <1>6, InFlight DEF Counts, Locks
<1>8. Deletes(p, r)  BY <1>1, <1>6, InFlight DEF Deletes
<1>9. Expires(p, r)  BY <1>2 DEF Expires
<1> QED  BY <1>1, <1>4, <1>5, <1>7, <1>8, <1>9, InFlight, StepOfOne

LEMMA SetLockStep ==
    ASSUME IInv, NEW p \in Procs, SetLock(p)
    PROVE  IInv'
<1>1. /\ req[p].pc = "setLock"
      /\ lock' = conf.lockDuration
      /\ UNCHANGED <<operation, otp, att, guesses, uses, aborts>>
  BY DEF SetLock, At
<1>2. PICK r \in Request : /\ req' = [req EXCEPT ![p] = r]
                           /\ r.pc = "delAttempts"
                           /\ r.then = req[p].then
  BY InFlight, Gone DEF SetLock, PCs
<1>3. lock' \in Nat  BY <1>1, ConfFacts DEF IInv, Duration
<1>4. TypeOK'  BY <1>1, <1>2, <1>3 DEF IInv, TypeOK
<1>5. Count' = Count  BY <1>1 DEF Count
<1>6. /\ Bit(req[p].pc = "incr") = 0 /\ Bit(r.pc = "incr") = 0
      /\ Bit(req[p].pc \in Lockers) = 1 /\ Bit(r.pc \in Lockers) = 1
      /\ Bit(req[p].pc = "delCode") = 0 /\ Bit(r.pc = "delCode") = 0
  BY <1>1, <1>2 DEF Bit, Lockers
<1>7. Counts(p, r) /\ Locks(p, r) /\ Expires(p, r) /\ aborts' >= aborts
  BY <1>1, <1>5, <1>6, InFlight DEF Counts, Locks, Expires
<1>8. Deletes(p, r)  BY <1>1, <1>6, InFlight DEF Deletes
<1> QED  BY <1>1, <1>2, <1>4, <1>7, <1>8, InFlight, StepOfOne

LEMMA DelAttemptsStep ==
    ASSUME IInv, NEW p \in Procs, DelAttempts(p)
    PROVE  IInv'
<1>1. /\ req[p].pc = "delAttempts"
      /\ att' = Null
      /\ guesses' = 0
      /\ UNCHANGED <<operation, otp, lock, uses, aborts>>
  BY DEF DelAttempts, At
<1>2. PICK r \in Request : /\ req' = [req EXCEPT ![p] = r]
                           /\ r.pc = "idle"
                           /\ r.then = "idle"
  BY Finished DEF DelAttempts
<1>3. TypeOK'  BY <1>1, <1>2 DEF IInv, TypeOK
<1>4. Bit(req[p].pc = "delCode") = 0 /\ Bit(r.pc = "delCode") = 0
  BY <1>1, <1>2 DEF Bit
<1>5. Counts(p, r) /\ Locks(p, r) /\ Expires(p, r) /\ aborts' >= aborts
  BY <1>1, InFlight DEF Counts, Locks, Expires
<1>6. Deletes(p, r)  BY <1>1, <1>4, InFlight DEF Deletes
<1> QED  BY <1>1, <1>2, <1>3, <1>5, <1>6, StepOfOne

LEMMA SetCodeStep ==
    ASSUME IInv, NEW p \in Procs, SetCode(p)
    PROVE  IInv'
<1>1. /\ req[p].pc = "setCode"
      /\ uses' = 0
      /\ UNCHANGED <<operation, att, lock, guesses, aborts>>
  BY DEF SetCode, At
<1>2. otp' \in CodeKey
  <2>1. CodeTtl \in Duration  BY <1>1, InFlight, ConfFacts DEF IInv
  <2> QED  BY <2>1 DEF SetCode, CodeKey
<1>3. PICK r \in Request : /\ req' = [req EXCEPT ![p] = r]
                           /\ r.pc = "idle"
                           /\ r.then = "idle"
  BY Finished DEF SetCode
<1>4. TypeOK'  BY <1>1, <1>2, <1>3 DEF IInv, TypeOK
<1>5. Count' = Count  BY <1>1 DEF Count
<1>6. /\ Bit(req[p].pc = "incr") = 0 /\ Bit(r.pc = "incr") = 0
      /\ Bit(req[p].pc \in Lockers) = 0 /\ Bit(r.pc \in Lockers) = 0
  BY <1>1, <1>3 DEF Bit, Lockers
<1>7. /\ Counts(p, r) /\ Locks(p, r) /\ Deletes(p, r) /\ Expires(p, r)
      /\ aborts' >= aborts
  BY <1>1, <1>5, <1>6, InFlight DEF Counts, Locks, Deletes, Expires
<1> QED  BY <1>1, <1>3, <1>4, <1>7, StepOfOne

-----------------------------------------------------------------------------
LEMMA AbortStep ==
    ASSUME IInv, NEW p \in Procs, Abort(p)
    PROVE  IInv'
<1>1. /\ aborts' = aborts + 1
      /\ aborts < MaxAborts
      /\ UNCHANGED <<operation, otp, att, lock, guesses, uses>>
  BY DEF Abort, keys
<1>2. PICK r \in Request : /\ req' = [req EXCEPT ![p] = r]
                           /\ r.pc = "idle"
                           /\ r.then = "idle"
  BY Finished DEF Abort
<1>3. TypeOK'  BY <1>1, <1>2, MaxAbortsIsNat DEF IInv, TypeOK
<1>4. Count' = Count  BY <1>1 DEF Count
<1>5. /\ Bit(req[p].pc = "incr") \in 0..1 /\ Bit(r.pc = "incr") = 0
      /\ Bit(req[p].pc \in Lockers) \in 0..1 /\ Bit(r.pc \in Lockers) = 0
      /\ Bit(req[p].pc = "delCode") \in 0..1 /\ Bit(r.pc = "delCode") = 0
      /\ Bit(req[p].pc = "incr") + Bit(req[p].pc \in Lockers) <= 1
  BY <1>2 DEF Bit, Lockers
<1>6. Counts(p, r) /\ Locks(p, r) /\ Expires(p, r) /\ aborts' >= aborts
  BY <1>1, <1>4, <1>5, InFlight DEF Counts, Locks, Expires
<1>7. Deletes(p, r)  BY <1>1, <1>5, InFlight DEF Deletes
<1> QED  BY <1>1, <1>2, <1>3, <1>6, <1>7, StepOfOne

\* The command that failed is accounted for as a handler that failed.
LEMMA FirstFailsStep ==
    ASSUME IInv, NEW p \in Procs, FirstFails(p)
    PROVE  IInv'
<1>1. /\ req[p].pc \in {"setLock", "delCode"}
      /\ aborts' = aborts + 1
      /\ aborts < MaxAborts
      /\ UNCHANGED <<operation, otp, att, lock, guesses, uses>>
  BY DEF FirstFails, At, keys
<1>2. PICK r \in Request : /\ req' = [req EXCEPT ![p] = r]
                           /\ r.pc = "delAttempts"
                           /\ r.then = req[p].then
  BY InFlight, Gone DEF FirstFails, PCs
<1>3. TypeOK'  BY <1>1, <1>2, MaxAbortsIsNat DEF IInv, TypeOK
<1>4. Count' = Count  BY <1>1 DEF Count
<1>5. /\ Bit(req[p].pc = "incr") = 0 /\ Bit(r.pc = "incr") = 0
      /\ Bit(req[p].pc \in Lockers) \in 0..1 /\ Bit(r.pc \in Lockers) = 1
      /\ Bit(req[p].pc = "delCode") \in 0..1 /\ Bit(r.pc = "delCode") = 0
  BY <1>1, <1>2 DEF Bit, Lockers
<1>6. Counts(p, r) /\ Locks(p, r) /\ Expires(p, r) /\ aborts' >= aborts
  BY <1>1, <1>4, <1>5, InFlight DEF Counts, Locks, Expires
<1>7. Deletes(p, r)  BY <1>1, <1>5, InFlight DEF Deletes
<1> QED  BY <1>1, <1>2, <1>3, <1>6, <1>7, InFlight, StepOfOne

\* Time makes keys disappear, and with the counter the guesses it stands for.
LEMMA TickStep ==
    ASSUME IInv, Tick
    PROVE  IInv'
<1> USE DEF IInv
<1>1. /\ UNCHANGED <<operation, uses, aborts, req>>
      /\ guesses' = IF att' = Null THEN 0 ELSE guesses
  BY DEF Tick
<1>2. otp' \in CodeKey \cup {Null} /\ (otp = Null => otp' = Null)
  BY NullIsOutside DEF Tick, Aged, TypeOK, CodeKey, Duration
<1>3. /\ att' \in Counter \cup {Null}
      /\ att' # Null => /\ att # Null
                        /\ att'.n = att.n
                        /\ att'.ttl = Null => att.ttl = Null
  BY NullIsOutside DEF Tick, Aged, TypeOK, Counter, Duration
<1>4. TypeOK'  BY <1>1, <1>2, <1>3 DEF TypeOK, Tick
<1>5. /\ Count' \in Nat
      /\ att' # Null => Count' = Count
      /\ conf' = conf /\ conf.maxAttempts \in Nat
      /\ aborts \in Nat /\ uses \in Nat
  BY <1>1, <1>3, <1>4, CountNat, ConfFacts, MaxAbortsIsNat DEF Count, conf, TypeOK
<1>6. \A pcs : Waiting(pcs)' = Waiting(pcs) /\ Waiting(pcs) \in Nat
  BY <1>1, WaitingNat DEF Waiting
<1>7. LoginSendsNoCode' /\ CounterExpires'
  BY <1>1, <1>3 DEF LoginSendsNoCode, CounterExpires, At
<1>8. GuessesCounted'
  BY <1>1, <1>5, <1>6 DEF GuessesCounted
<1>9. GuessesBeyond'
  BY <1>1, <1>5, <1>6 DEF GuessesBeyond
<1>10. UsesPending' /\ CodeServesThoseInFlight'
  BY <1>1, <1>2, <1>6 DEF UsesPending, CodeServesThoseInFlight
<1> QED  BY <1>4, <1>7, <1>8, <1>9, <1>10

LEMMA NextIInv == IInv /\ [Next]_vars => IInv'
<1> SUFFICES ASSUME IInv, [Next]_vars PROVE IInv'
  OBVIOUS
<1>1. CASE UNCHANGED vars
  BY <1>1 DEF vars, keys, IInv, TypeOK, LoginSendsNoCode, CounterExpires, GuessesCounted,
              GuessesBeyond, UsesPending, CodeServesThoseInFlight, At, Count, conf, Waiting
<1>2. CASE Tick  BY <1>2, TickStep
<1>3. ASSUME NEW p \in Procs, Handler(p)
      PROVE  IInv'
  BY <1>3, Admissions, GetCodeStep, DelCodeStep, CompareStep, IncrStep, ExpireStep,
     SetLockStep, DelAttemptsStep, SetCodeStep DEF Handler
<1>4. ASSUME NEW p \in Procs, Abort(p)
      PROVE  IInv'
  BY <1>4, AbortStep
<1>5. ASSUME NEW p \in Procs, FirstFails(p)
      PROVE  IInv'
  BY <1>5, FirstFailsStep
<1> QED  BY <1>1, <1>2, <1>3, <1>4, <1>5 DEF Next

-----------------------------------------------------------------------------
\* The invariant that explains the properties holds.
THEOREM Invariance == Spec => []IInv
<1> QED  BY InitIInv, NextIInv, PTL DEF Spec

\* Keys and requests keep their types: every code that is sent, and every lock, has a
\* time to live, a PIN's code included.
THEOREM TypeCorrect == Spec => []TypeOK
<1>1. IInv => TypeOK  BY DEF IInv
<1> QED  BY <1>1, Invariance, PTL

\* Any number of requests at once test at most maxAttempts wrong guesses, and one each,
\* on one counter, whatever the settings.
THEOREM GuessesBoundedHolds == Spec => []GuessesBounded
<1>1. IInv => GuessesBounded
  <2> SUFFICES ASSUME IInv PROVE GuessesBounded
    OBVIOUS
  <2>1. {"incr"} \cap {"setLock", "delAttempts"} = {}  OBVIOUS
  <2>2. Waiting({"incr"}) + Waiting({"setLock", "delAttempts"}) <= Cardinality(Procs)
    BY <2>1, TwoPlaces
  <2>3. /\ Waiting({"incr"}) \in Nat /\ Waiting({"setLock", "delAttempts"}) \in Nat
        /\ Cardinality(Procs) \in Nat
    BY WaitingNat, ProcsFinite, FS_CardinalityType
  <2>4. conf.maxAttempts \in Nat /\ aborts \in Nat /\ guesses \in Nat
    BY ConfFacts, InFlight, MaxAbortsIsNat DEF IInv, TypeOK
  <2> QED  BY <2>2, <2>3, <2>4 DEF IInv, GuessesBeyond, GuessesBounded
<1> QED  BY <1>1, Invariance, PTL

\* A counter without a time to live has a request about to give it one, or a handler
\* that stopped.
THEOREM CounterExpiresHolds == Spec => []CounterExpires
<1>1. IInv => CounterExpires  BY DEF IInv
<1> QED  BY <1>1, Invariance, PTL

\* A code is found right by no more requests than can hold it at once.
THEOREM CodeServesThoseInFlightHolds == Spec => []CodeServesThoseInFlight
<1>1. IInv => CodeServesThoseInFlight  BY DEF IInv
<1> QED  BY <1>1, Invariance, PTL

=============================================================================
