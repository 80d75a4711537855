------------------------------- MODULE Codes -------------------------------
(***************************************************************************)
(* otp.service.ts and what it guards: codes sent by mail, PINs and         *)
(* passwords, the counter of attempts and the lock they lead to.  All its  *)
(* keys are of one operation and one user, and no request touches two of   *)
(* either: a behaviour follows the keys of one operation of one user.      *)
(*                                                                         *)
(* An action is what a handler does between two awaits, with the command   *)
(* Redis executes for it.  Keys hold the time they have left.              *)
(***************************************************************************)
EXTENDS Integers, FiniteSets

CONSTANTS
    Codes,          \* codes that are sent and typed in
    Procs,          \* requests the server may be serving at the same time
    RedisConf,      \* redisConf: [operation -> settings]
    MaxAborts,      \* bound of the handlers that fail midway
    Null

Operations == {"login", "confirm", "reset", "pin"}

\* Durations are what SETEX and EXPIRE take; otpTtl may be null.
Duration == Nat \ {0}
Settings == [maxAttempts : Nat \ {0}, lockDuration : Duration,
             otpTtl : Duration \cup {Null}]

ASSUME ConfAssumption == RedisConf \in [Operations -> Settings]
ASSUME CodesHaveTtl ==
    RedisConf["confirm"].otpTtl # Null /\ RedisConf["reset"].otpTtl # Null
ASSUME MaxAbortsIsNat == MaxAborts \in Nat
ASSUME ProcsFinite == IsFiniteSet(Procs)

\* The keys otp:* and att:*; a counter has no time to live before EXPIRE.
CodeKey == [code : Codes, ttl : Duration]
Counter == [n : Nat \ {0}, ttl : Duration \cup {Null}]

ASSUME NullIsOutside == Null \notin Nat /\ Null \notin CodeKey /\ Null \notin Counter

VARIABLES
    operation,      \* the operation the keys are of
    otp,            \* otp:*: the code and the time it has left; Null if there is none
    att,            \* att:*: the count, and the time left, Null before EXPIRE
    lock,           \* lock:*: the time left, 0 if there is none
    guesses,        \* wrong guesses tested since att:* was last absent
    uses,           \* how often the code last sent was found right
    aborts,
    req             \* req[p]: the request p is serving

keys == <<otp, att, lock>>
vars == <<operation, otp, att, lock, guesses, uses, aborts, req>>

conf == RedisConf[operation]

\* guess: the code typed in, or whether the password or PIN is right; then: where
\* incrementAttempt returns to.
Idle == [pc |-> "idle", guess |-> Null, then |-> "idle"]

PCs == {"idle", "getCode", "delCode", "assertPin", "compare", "incr", "expire",
        "setLock", "delAttempts", "setCode"}

Request == [pc : PCs, guess : Codes \cup BOOLEAN \cup {Null}, then : {"idle", "setCode"}]

At(p, pc) == req[p].pc = pc
Goto(p, pc, r) == req' = [req EXCEPT ![p] = [r EXCEPT !.pc = pc]]
Finish(p) == req' = [req EXCEPT ![p] = Idle]

-----------------------------------------------------------------------------
\* Mutant: the lock is only written.
AlwaysNotLocked == TRUE

\* assertNotLocked
NotLocked == lock = 0

\* The three sendXxxOtp up to incrementAttempt: a code that is sent counts too.
SendOtp(p) ==
    /\ At(p, "idle")
    /\ operation # "login"
    /\ NotLocked
    /\ Goto(p, "incr", [Idle EXCEPT !.then = "setCode"])
    /\ UNCHANGED <<operation, keys, guesses, uses, aborts>>

VerifyOtp(p, code) ==
    /\ At(p, "idle")
    /\ operation # "login"
    /\ NotLocked
    /\ Goto(p, "getCode", [Idle EXCEPT !.guess = code])
    /\ UNCHANGED <<operation, keys, guesses, uses, aborts>>

Login(p, right) ==
    /\ At(p, "idle")
    /\ operation = "login"
    /\ NotLocked
    /\ Goto(p, "compare", [Idle EXCEPT !.guess = right])
    /\ UNCHANGED <<operation, keys, guesses, uses, aborts>>

\* loginWithPin and checkPin both look at the lock; in between, loginWithPin refuses
\* an account that is gone, blocked or deleted.
LoginWithPin(p, right) ==
    /\ At(p, "idle")
    /\ operation = "pin"
    /\ NotLocked
    /\ Goto(p, "assertPin", [Idle EXCEPT !.guess = right])
    /\ UNCHANGED <<operation, keys, guesses, uses, aborts>>

AssertPin(p) ==
    /\ At(p, "assertPin")
    /\ \/ NotLocked /\ Goto(p, "compare", req[p])
       \/ Finish(p)
    /\ UNCHANGED <<operation, keys, guesses, uses, aborts>>

-----------------------------------------------------------------------------
\* GET otp:*
GetCode(p) ==
    /\ At(p, "getCode")
    /\ \/ otp = Null /\ Finish(p) /\ UNCHANGED <<guesses, uses>>
       \/ /\ otp # Null
          /\ otp.code = req[p].guess
          /\ uses' = uses + 1
          /\ Goto(p, "delCode", req[p])
          /\ UNCHANGED guesses
       \/ /\ otp # Null
          /\ otp.code # req[p].guess
          /\ guesses' = guesses + 1
          /\ Goto(p, "incr", req[p])
          /\ UNCHANGED uses
    /\ UNCHANGED <<operation, keys, aborts>>

\* Mutant: the code stays until it expires.
KeepCode(p) ==
    /\ At(p, "delCode")
    /\ Goto(p, "delAttempts", req[p])
    /\ UNCHANGED <<operation, keys, guesses, uses, aborts>>

\* The first of the two DELs of a right code, whichever code is there by now.
DelCode(p) ==
    /\ At(p, "delCode")
    /\ otp' = Null
    /\ Goto(p, "delAttempts", req[p])
    /\ UNCHANGED <<operation, att, lock, guesses, uses, aborts>>

\* The row is read and the hash compared.  A right password resets the counter,
\* unless assertClientAccess refuses the account; a right PIN does not.  A PIN that
\* is not configured is neither right nor wrong.
Compare(p) ==
    /\ At(p, "compare")
    /\ \/ /\ req[p].guess = FALSE
          /\ guesses' = guesses + 1
          /\ Goto(p, "incr", req[p])
       \/ /\ req[p].guess = TRUE
          /\ operation = "login"
          /\ Goto(p, "delAttempts", req[p])
          /\ UNCHANGED guesses
       \/ /\ req[p].guess = TRUE \/ operation = "pin"
          /\ Finish(p)
          /\ UNCHANGED guesses
    /\ UNCHANGED <<operation, keys, uses, aborts>>

-----------------------------------------------------------------------------
(***************************************************************************)
(* incrementAttempt.  The two commands of its Promise.all, as those of     *)
(* verifyOtp's, are sent in order and executed one by one: another         *)
(* client's may come between, and either may fail.                         *)
(***************************************************************************)
\* Mutant: INCR is taken to return the count before.
FirstFromZero(n) == n = 0

First(n) == n = 1

\* Mutant: one attempt more.
ExceedsByMore(n) == n > conf.maxAttempts + 1

Exceeds(n) == n > conf.maxAttempts

Count == IF att = Null THEN 0 ELSE att.n

\* Goes on to EXPIRE, to the lock, or back to the caller.
AfterIncr(p, n) ==
    IF First(n) THEN Goto(p, "expire", req[p])
    ELSE IF Exceeds(n) THEN Goto(p, "setLock", req[p])
    ELSE IF req[p].then = "idle" THEN Finish(p)
    ELSE Goto(p, "setCode", req[p])

Incr(p) ==
    LET n == Count + 1
    IN  /\ At(p, "incr")
        /\ att' = [n |-> n, ttl |-> IF att = Null THEN Null ELSE att.ttl]
        /\ AfterIncr(p, n)
        /\ UNCHANGED <<operation, otp, lock, guesses, uses, aborts>>

\* EXPIRE of a key that is gone does nothing.
Expire(p) ==
    /\ At(p, "expire")
    /\ att' = IF att = Null THEN Null
              ELSE [att EXCEPT !.ttl = IF conf.otpTtl = Null THEN conf.lockDuration
                                       ELSE conf.otpTtl]
    /\ IF req[p].then = "idle" THEN Finish(p) ELSE Goto(p, "setCode", req[p])
    /\ UNCHANGED <<operation, otp, lock, guesses, uses, aborts>>

SetLock(p) ==
    /\ At(p, "setLock")
    /\ lock' = conf.lockDuration
    /\ Goto(p, "delAttempts", req[p])
    /\ UNCHANGED <<operation, otp, att, guesses, uses, aborts>>

\* The first command of a Promise.all fails: the handler throws, and the second has been
\* sent all the same.  No lock is set, or the code stays.
FirstFails(p) ==
    /\ At(p, "setLock") \/ At(p, "delCode")
    /\ aborts < MaxAborts
    /\ aborts' = aborts + 1
    /\ Goto(p, "delAttempts", req[p])
    /\ UNCHANGED <<operation, keys, guesses, uses>>

\* Of a lock, of a right code, or of a right password (resetAttempts).
DelAttempts(p) ==
    /\ At(p, "delAttempts")
    /\ att' = Null
    /\ guesses' = 0
    /\ Finish(p)
    /\ UNCHANGED <<operation, otp, lock, uses, aborts>>

\* Mutant: a PIN's code lives as its own settings say.
OwnTtl == conf.otpTtl

\* A PIN's code lives as one that confirms an email.
CodeTtl == IF operation = "pin" THEN RedisConf["confirm"].otpTtl ELSE conf.otpTtl

\* apiGenerateOtp and SETEX; the mail is queued next.
SetCode(p) ==
    /\ At(p, "setCode")
    /\ \E code \in Codes : otp' = [code |-> code, ttl |-> CodeTtl]
    /\ uses' = 0
    /\ Finish(p)
    /\ UNCHANGED <<operation, att, lock, guesses, aborts>>

-----------------------------------------------------------------------------
\* The time a key has left; a key with none is gone.
Aged(key) ==
    IF key = Null \/ key.ttl = Null THEN key
    ELSE IF key.ttl = 1 THEN Null
    ELSE [key EXCEPT !.ttl = @ - 1]

Tick ==
    /\ otp' = Aged(otp)
    /\ att' = Aged(att)
    /\ lock' = IF lock = 0 THEN 0 ELSE lock - 1
    /\ guesses' = IF Aged(att) = Null THEN 0 ELSE guesses
    /\ UNCHANGED <<operation, uses, aborts, req>>

\* A command fails, or the server stops.
Abort(p) ==
    /\ req[p].pc # "idle"
    /\ aborts < MaxAborts
    /\ aborts' = aborts + 1
    /\ Finish(p)
    /\ UNCHANGED <<operation, keys, guesses, uses>>

Init ==
    /\ operation \in Operations
    /\ otp = Null
    /\ att = Null
    /\ lock = 0
    /\ guesses = 0
    /\ uses = 0
    /\ aborts = 0
    /\ req = [p \in Procs |-> Idle]

Handler(p) ==
    \/ SendOtp(p)
    \/ \E code \in Codes : VerifyOtp(p, code)
    \/ \E right \in BOOLEAN : Login(p, right) \/ LoginWithPin(p, right)
    \/ AssertPin(p) \/ GetCode(p) \/ DelCode(p) \/ Compare(p)
    \/ Incr(p) \/ Expire(p) \/ SetLock(p) \/ DelAttempts(p) \/ SetCode(p)

Next == Tick \/ \E p \in Procs : Handler(p) \/ FirstFails(p) \/ Abort(p)

\* Time passes, whatever the requests do.
Spec == Init /\ [][Next]_vars /\ WF_vars(Tick)

-----------------------------------------------------------------------------
\* Every variable has the values its comment says: a code, and a lock, has a
\* time to live.
TypeOK ==
    /\ operation \in Operations
    /\ otp \in CodeKey \cup {Null}
    /\ att \in Counter \cup {Null}
    /\ lock \in Nat
    /\ guesses \in Nat
    /\ uses \in Nat
    /\ aborts \in 0..MaxAborts
    /\ req \in [Procs -> Request]

\* However many requests try at once, no more wrong guesses are tested on one
\* counter than maxAttempts, one for each request already admitted, and one for
\* each handler that failed before it counted.
GuessesBounded == guesses <= conf.maxAttempts + Cardinality(Procs) + aborts

\* A counter expires, unless a handler stopped between INCR and EXPIRE.
CounterExpires ==
    att # Null /\ att.ttl = Null => aborts > 0 \/ \E p \in Procs : At(p, "expire")

\* A code serves the requests that had it when it was first found right, and no
\* later one, but for each handler that failed to delete it.
CodeServesThoseInFlight == uses <= Cardinality(Procs) + aborts

-----------------------------------------------------------------------------
(***************************************************************************)
(* Why: what each request in flight has still to count or delete.          *)
(***************************************************************************)
Waiting(pcs) == Cardinality({p \in Procs : req[p].pc \in pcs})

\* Only an operation that has codes comes to setCode.
LoginSendsNoCode ==
    \A p \in Procs : At(p, "setCode") \/ req[p].then = "setCode" => operation # "login"

\* Every wrong guess is in the counter, or on its way to it, or of a handler that failed.
GuessesCounted == guesses <= Count + Waiting({"incr"}) + aborts

\* A guess more than maxAttempts has a request that is going to lock.
GuessesBeyond ==
    guesses <= conf.maxAttempts + Waiting({"incr"})
                 + Waiting({"setLock", "delAttempts"}) + aborts

\* While there is a code, each of its uses has a request that is going to delete it.
UsesPending == otp # Null => uses <= Waiting({"delCode"}) + aborts

IInv ==
    /\ TypeOK
    /\ LoginSendsNoCode
    /\ CounterExpires
    /\ GuessesCounted
    /\ GuessesBeyond
    /\ UsesPending
    /\ CodeServesThoseInFlight

\* Nobody is locked out for ever, however they insist.
LockEnds == lock > 0 ~> lock = 0

=============================================================================
