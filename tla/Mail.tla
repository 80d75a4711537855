-------------------------------- MODULE Mail --------------------------------
(***************************************************************************)
(* Outgoing mail: MailService adds jobs to a BullMQ queue, MailProcessor   *)
(* sends them and listens to how they end, and MailFailedService keeps the *)
(* table mail_failed_jobs, from which administrators retry or abandon.     *)
(*                                                                         *)
(* The queue is in Redis and outlives the server; the listeners of its     *)
(* events do not.  A job's delay between attempts is time it waits.        *)
(***************************************************************************)
EXTENDS Integers, FiniteSets

CONSTANTS
    Mails,          \* what is to be sent, and to whom
    Jobs,           \* ids of jobs; bounds how many are added
    Rows,           \* ids of rows of mail_failed_jobs
    Admins,         \* requests of administrators served at the same time
    Attempts,       \* opts.attempts
    MaxCrashes,     \* bound of the times the server stops
    Null

ASSUME AttemptsPositive == Attempts \in Nat \ {0}
ASSUME MaxCrashesIsNat == MaxCrashes \in Nat
ASSUME NullIsNoId == Null \notin Mails \cup Jobs \cup Rows

MailFailedStatus == {"pending", "abandoned"}

\* from is _retriedFromId, made is attemptsMade.  A job that "failed" or
\* "completed" has its listener to run still; "settled", it has run.  stalled: it
\* was found stalled once, as often as BullMQ forgives.
Job == [mail : Mails, from : Rows \cup {Null}, made : 0..Attempts, stalled : BOOLEAN,
        state : {"waiting", "active", "accepted", "failed", "completed", "settled"}]

FailedJob == [mail : Mails, status : MailFailedStatus \cup {"deleted"}]

ASSUME NullIsNoRecord == Null \notin Job \cup FailedJob

VARIABLES
    jobs,           \* jobs[j]: Null before it is added
    rows,           \* rows[e]: Null before its INSERT
    sent,           \* the mails an SMTP server has accepted
    dropped,        \* the mails given up without a row to say so
    crashes,
    req             \* req[a]: the request administrator a waits for

vars == <<jobs, rows, sent, dropped, crashes, req>>

Idle == [pc |-> "idle", e |-> Null, mail |-> Null]

Request == [pc : {"idle", "add", "abandon"}, e : Rows \cup {Null},
            mail : Mails \cup {Null}]

NewJob(m, e) == [mail |-> m, from |-> e, made |-> 0, stalled |-> FALSE,
                  state |-> "waiting"]

In(j, state) == jobs[j] # Null /\ jobs[j].state = state
Move(j, state) == jobs' = [jobs EXCEPT ![j].state = state]
Stored(e) == rows[e] # Null /\ rows[e].status # "deleted"

-----------------------------------------------------------------------------
\* The four sendXxx of MailService; each mail is asked for once.
Add(m) ==
    /\ \A j \in Jobs : jobs[j] # Null => jobs[j].mail # m
    /\ \E j \in Jobs : /\ jobs[j] = Null
                       /\ jobs' = [jobs EXCEPT ![j] = NewJob(m, Null)]
    /\ UNCHANGED <<rows, sent, dropped, crashes, req>>

\* A worker has one job at a time.
Take(j) ==
    /\ In(j, "waiting")
    /\ \A i \in Jobs : ~In(i, "active") /\ ~In(i, "accepted")
    /\ Move(j, "active")
    /\ UNCHANGED <<rows, sent, dropped, crashes, req>>

\* sendMail; the job is not completed yet.
Accept(j) ==
    /\ In(j, "active")
    /\ sent' = sent \cup {jobs[j].mail}
    /\ Move(j, "accepted")
    /\ UNCHANGED <<rows, dropped, crashes, req>>

Complete(j) ==
    /\ In(j, "accepted")
    /\ Move(j, "completed")
    /\ UNCHANGED <<rows, sent, dropped, crashes, req>>

\* BullMQ tries again while attempts are left.
AfterFailure(job) ==
    LET made == job.made + 1
    IN  [job EXCEPT !.made = made,
                    !.state = IF made < Attempts THEN "waiting" ELSE "failed"]

\* sendMail throws, whether or not a server had accepted the mail.
Fail(j) ==
    /\ In(j, "active") \/ In(j, "accepted")
    /\ jobs' = [jobs EXCEPT ![j] = AfterFailure(jobs[j])]
    /\ UNCHANGED <<rows, sent, dropped, crashes, req>>

-----------------------------------------------------------------------------
\* Mutant: an off-by-one in the early return of onJobFailed.
BeyondAttempts(job) == job.made > Attempts

\* Not returned early.
Exhausted(job) == job.made >= Attempts

\* A retry names the row it is from.
SaveFailedJob(j) ==
    /\ In(j, "failed")
    /\ jobs[j].from = Null
    /\ \/ /\ Exhausted(jobs[j])
          /\ \E e \in Rows : /\ rows[e] = Null
                             /\ rows' = [rows EXCEPT ![e] =
                                   [mail |-> jobs[j].mail, status |-> "pending"]]
          /\ UNCHANGED dropped
       \/ /\ Exhausted(jobs[j])      \* the INSERT fails, which is logged only
          /\ dropped' = dropped \cup {jobs[j].mail}
          /\ UNCHANGED rows
       \/ /\ ~Exhausted(jobs[j])
          /\ UNCHANGED <<rows, dropped>>
    /\ Move(j, "settled")
    /\ UNCHANGED <<sent, crashes, req>>

\* An UPDATE by id, whatever the status has become; a failure is logged only.
UpdateFailedJob(j) ==
    LET e == jobs[j].from
    IN  /\ In(j, "failed")
        /\ e # Null
        /\ rows' \in {rows, IF Exhausted(jobs[j]) /\ Stored(e)
                            THEN [rows EXCEPT ![e].status = "pending"] ELSE rows}
        /\ Move(j, "settled")
        /\ UNCHANGED <<sent, dropped, crashes, req>>

\* onJobCompleted; again, a failure to delete is logged only.
DeleteOnSuccess(j) ==
    LET e == jobs[j].from
    IN  /\ In(j, "completed")
        /\ rows' \in {rows, IF e = Null THEN rows
                            ELSE [rows EXCEPT ![e].status = "deleted"]}
        /\ Move(j, "settled")
        /\ UNCHANGED <<sent, dropped, crashes, req>>

-----------------------------------------------------------------------------
\* Mutant: a row is retried whatever has become of it.
RetryAny(a, e) ==
    /\ req[a] = Idle
    /\ Stored(e)
    /\ req' = [req EXCEPT ![a] = [pc |-> "add", e |-> e, mail |-> rows[e].mail]]
    /\ UNCHANGED <<jobs, rows, sent, dropped, crashes>>

\* retry: the row is pending; the job is added an await later.
Retry(a, e) ==
    /\ req[a] = Idle
    /\ Stored(e)
    /\ rows[e].status = "pending"
    /\ req' = [req EXCEPT ![a] = [pc |-> "add", e |-> e, mail |-> rows[e].mail]]
    /\ UNCHANGED <<jobs, rows, sent, dropped, crashes>>

\* Mutant: the payload is queued as it was saved.
RetryJobUntagged(a) == NewJob(req[a].mail, Null)

\* Mutant: the new job goes on counting the attempts already made.
RetryJobCounting(a) == [NewJob(req[a].mail, req[a].e) EXCEPT !.made = Attempts]

RetryJob(a) == NewJob(req[a].mail, req[a].e)

AddRetry(a) ==
    /\ req[a].pc = "add"
    /\ \E j \in Jobs : jobs[j] = Null /\ jobs' = [jobs EXCEPT ![j] = RetryJob(a)]
    /\ req' = [req EXCEPT ![a] = Idle]
    /\ UNCHANGED <<rows, sent, dropped, crashes>>

Abandon(a, e) ==
    /\ req[a] = Idle
    /\ Stored(e)
    /\ req' = [req EXCEPT ![a] = [pc |-> "abandon", e |-> e, mail |-> Null]]
    /\ UNCHANGED <<jobs, rows, sent, dropped, crashes>>

SetAbandoned(a) ==
    LET e == req[a].e
    IN  /\ req[a].pc = "abandon"
        /\ rows' = IF Stored(e) THEN [rows EXCEPT ![e].status = "abandoned"] ELSE rows
        /\ req' = [req EXCEPT ![a] = Idle]
        /\ UNCHANGED <<jobs, sent, dropped, crashes>>

-----------------------------------------------------------------------------
(***************************************************************************)
(* The server stops: requests and listeners are gone, and the job it was   *)
(* working on is found stalled and waits again.  The second time BullMQ    *)
(* fails it for good: attempts are left, so onJobFailed returns early.     *)
(***************************************************************************)
AfterCrash(job) ==
    CASE job.state \in {"active", "accepted"} /\ ~job.stalled ->
            [job EXCEPT !.state = "waiting", !.stalled = TRUE]
      [] job.state = "waiting" -> job
      [] OTHER                 -> [job EXCEPT !.state = "settled"]

GivenUp(job) ==
    /\ job.from = Null
    /\ \/ job.state = "failed"
       \/ job.state \in {"active", "accepted"} /\ job.stalled

Crash ==
    /\ crashes < MaxCrashes
    /\ crashes' = crashes + 1
    /\ jobs' = [j \in Jobs |-> IF jobs[j] = Null THEN Null ELSE AfterCrash(jobs[j])]
    /\ dropped' = dropped \cup
          {jobs[j].mail : j \in {i \in Jobs : jobs[i] # Null /\ GivenUp(jobs[i])}}
    /\ req' = [a \in Admins |-> Idle]
    /\ UNCHANGED <<rows, sent>>

Init ==
    /\ jobs = [j \in Jobs |-> Null]
    /\ rows = [e \in Rows |-> Null]
    /\ sent = {}
    /\ dropped = {}
    /\ crashes = 0
    /\ req = [a \in Admins |-> Idle]

Listener(j) == SaveFailedJob(j) \/ UpdateFailedJob(j) \/ DeleteOnSuccess(j)

Worker(j) == Take(j) \/ Accept(j) \/ Complete(j) \/ Fail(j)

Next ==
    \/ \E m \in Mails : Add(m)
    \/ \E j \in Jobs : Worker(j) \/ Listener(j)
    \/ \E a \in Admins : \/ \E e \in Rows : Retry(a, e) \/ Abandon(a, e)
                         \/ AddRetry(a) \/ SetAbandoned(a)
    \/ Crash

\* The worker and the event loop go on while the server is up.
Spec == Init /\ [][Next]_vars /\ \A j \in Jobs : WF_vars(Worker(j)) /\ WF_vars(Listener(j))

-----------------------------------------------------------------------------
\* Every variable has the values its comment says.
TypeOK ==
    /\ jobs \in [Jobs -> Job \cup {Null}]
    /\ rows \in [Rows -> FailedJob \cup {Null}]
    /\ sent \subseteq Mails
    /\ dropped \subseteq Mails
    /\ crashes \in 0..MaxCrashes
    /\ req \in [Admins -> Request]

Asked(m) == \E j \in Jobs : jobs[j] # Null /\ jobs[j].mail = m

Kept(m) == \E e \in Rows : Stored(e) /\ rows[e].mail = m

\* A mail that was asked for is sent, on its way, or in the table for an
\* administrator to see, through any retries, abandons and crashes; only a crash
\* or a failing INSERT right after the last attempt loses one, or two crashes in
\* the middle of an attempt.
NoMailLost ==
    \A m \in Mails : Asked(m) =>
        \/ m \in sent \cup dropped
        \/ Kept(m)
        \/ \E j \in Jobs : /\ jobs[j] # Null
                           /\ jobs[j].mail = m
                           /\ jobs[j].state # "settled"

\* However often a mail is retried, and whichever retries fail, it has one row.
OneRowPerMail ==
    \A e, f \in Rows :
        rows[e] # Null /\ rows[f] # Null /\ rows[e].mail = rows[f].mail => e = f

\* The retries of a row: those that an administrator waits for, and those in the queue.
Asking(e) == {a \in Admins : req[a].pc = "add" /\ req[a].e = e}
Retrying(e) == {j \in Jobs : /\ jobs[j] # Null
                             /\ jobs[j].from = e
                             /\ jobs[j].state # "settled"}

\* "already [abandoned] and cannot be retried" (mail-failed.service.ts:93): once a row
\* is abandoned, no retry begins that was not asked for before, and when those have
\* ended it is left as it is.  Until then a retry that fails makes it pending again.
AbandonDrains ==
    [][\A e \in Rows : rows[e] # Null /\ rows[e].status = "abandoned" =>
          /\ Asking(e)' \subseteq Asking(e)
          /\ Asking(e)' = Asking(e) => Retrying(e)' \subseteq Retrying(e)
          /\ Asking(e) = {} /\ Retrying(e) = {} => rows'[e] = rows[e]]_vars

\* The queue does not try for ever: a mail is sent, or reaches the table.
EveryMailSettles ==
    \A m \in Mails : Asked(m) ~> (m \in sent \cup dropped \/ Kept(m))

=============================================================================
