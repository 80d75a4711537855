----------------------------- MODULE Mail_proofs -----------------------------
(***************************************************************************)
(* Outgoing mail, for every number of mails, jobs, administrators, crashes *)
(* and attempts.  The job that MailService adds for a mail (Original) is   *)
(* the only one that may INSERT a row for it, and a job that is a retry    *)
(* names that row: IInv follows the two.                                   *)
(***************************************************************************)
EXTENDS Mail, TLAPS

Original(j) == jobs[j] # Null /\ jobs[j].from = Null

HasRow(m) == \E e \in Rows : rows[e] # Null /\ rows[e].mail = m

OneOriginal ==
    \A i, j \in Jobs : Original(i) /\ Original(j) /\ jobs[i].mail = jobs[j].mail => i = j

\* What the state of a job says of the mail.
StateKnown ==
    \A j \in Jobs : jobs[j] # Null =>
        /\ jobs[j].state \in {"accepted", "completed"} => jobs[j].mail \in sent
        /\ jobs[j].state \in {"waiting", "active", "accepted"} => jobs[j].made < Attempts
        /\ jobs[j].state = "failed" => jobs[j].made >= Attempts

OriginalKnown ==
    \A j \in Jobs : Original(j) =>
        IF jobs[j].state = "settled"
        THEN jobs[j].mail \in sent \cup dropped \/ HasRow(jobs[j].mail)
        ELSE ~HasRow(jobs[j].mail)

RetryKnown ==
    \A j \in Jobs : jobs[j] # Null /\ jobs[j].from # Null =>
        rows[jobs[j].from] # Null /\ rows[jobs[j].from].mail = jobs[j].mail

RowKnown ==
    \A e \in Rows : rows[e] # Null =>
        /\ rows[e].status = "deleted" => rows[e].mail \in sent
        /\ \E j \in Jobs : Original(j) /\ jobs[j].mail = rows[e].mail

RequestKnown ==
    \A a \in Admins :
        /\ req[a].pc # "idle" => req[a].e \in Rows
        /\ req[a].pc = "add" => /\ req[a].mail \in Mails
                                /\ rows[req[a].e] # Null
                                /\ rows[req[a].e].mail = req[a].mail

IInv ==
    /\ TypeOK
    /\ OneOriginal
    /\ StateKnown
    /\ OriginalKnown
    /\ RetryKnown
    /\ RowKnown
    /\ RequestKnown
    /\ OneRowPerMail

USE AttemptsPositive, MaxCrashesIsNat, NullIsNoId, NullIsNoRecord

-----------------------------------------------------------------------------
(***************************************************************************)
(* Steps that neither add a job nor INSERT a row.                          *)
(***************************************************************************)
SameJobs ==
    \A i \in Jobs :
        /\ jobs'[i] = Null <=> jobs[i] = Null
        /\ jobs[i] # Null => jobs'[i].mail = jobs[i].mail /\ jobs'[i].from = jobs[i].from

SameRows ==
    \A e \in Rows :
        /\ rows'[e] = Null <=> rows[e] = Null
        /\ rows[e] # Null => rows'[e].mail = rows[e].mail

\* Then the mails have the original jobs and the rows they had.
LEMMA IdentitiesKept ==
    ASSUME IInv, SameJobs, SameRows
    PROVE  /\ \A i \in Jobs : Original(i)' <=> Original(i)
           /\ \A m : HasRow(m)' <=> HasRow(m)
           /\ OneOriginal' /\ RetryKnown' /\ OneRowPerMail'
           /\ \A e \in Rows : rows'[e] # Null =>
                 \E j \in Jobs : Original(j)' /\ jobs'[j].mail = rows'[e].mail
<1>1. \A i \in Jobs : Original(i)' <=> Original(i)
  BY DEF SameJobs, Original
<1>2. \A m : HasRow(m)' <=> HasRow(m)
  BY DEF SameRows, HasRow
<1>3. OneOriginal'
  BY <1>1 DEF IInv, OneOriginal, SameJobs, Original
<1>4. RetryKnown'
  <2> SUFFICES ASSUME NEW j \in Jobs, jobs'[j] # Null, jobs'[j].from # Null
               PROVE  /\ rows'[jobs'[j].from] # Null
                      /\ rows'[jobs'[j].from].mail = jobs'[j].mail
    BY DEF RetryKnown
  <2>1. jobs[j] # Null /\ jobs'[j].from = jobs[j].from /\ jobs'[j].mail = jobs[j].mail
    BY DEF SameJobs
  <2>2. jobs[j].from \in Rows
    BY <2>1 DEF IInv, TypeOK, Job
  <2>3. QED
    BY <2>1, <2>2 DEF IInv, RetryKnown, SameRows
<1>5. OneRowPerMail'
  BY DEF IInv, OneRowPerMail, SameRows
<1>6. \A e \in Rows : rows'[e] # Null =>
         \E j \in Jobs : Original(j)' /\ jobs'[j].mail = rows'[e].mail
  BY <1>1 DEF IInv, RowKnown, SameRows, SameJobs, Original
<1>7. QED
  BY <1>1, <1>2, <1>3, <1>4, <1>5, <1>6

\* A step in which job j becomes job, with its mail and its row.
LEMMA JobMoves ==
    ASSUME IInv, NEW j \in Jobs, jobs[j] # Null, NEW job \in Job,
           job.mail = jobs[j].mail, job.from = jobs[j].from,
           jobs' = [jobs EXCEPT ![j] = job]
    PROVE  jobs' \in [Jobs -> Job \cup {Null}] /\ SameJobs
BY DEF IInv, TypeOK, SameJobs

\* Changing the state of a job changes nothing else of it.
LEMMA StateMoved ==
    ASSUME NEW job \in Job,
           NEW state \in {"waiting", "active", "accepted", "failed", "completed", "settled"}
    PROVE  LET moved == [job EXCEPT !.state = state]
           IN  /\ moved \in Job
               /\ moved.mail = job.mail /\ moved.from = job.from /\ moved.made = job.made
               /\ moved.state = state
BY DEF Job

\* In which the server goes on with a job, and no row changes.
LEMMA WorkerStep ==
    ASSUME IInv, NEW j \in Jobs, Worker(j)
    PROVE  IInv'
<1>1. /\ TypeOK /\ jobs[j] \in Job /\ jobs[j] # Null
      /\ jobs[j].state \in {"waiting", "active", "accepted"}
  BY DEF IInv, TypeOK, Worker, Take, Accept, Complete, Fail, In
<1>2. UNCHANGED <<rows, dropped, crashes, req>>
  BY DEF Worker, Take, Accept, Complete, Fail
<1>3. PICK job \in Job :
         /\ jobs' = [jobs EXCEPT ![j] = job]
         /\ job.mail = jobs[j].mail /\ job.from = jobs[j].from
         /\ job.state # "settled"
         /\ job.state \in {"accepted", "completed"} => job.mail \in sent'
         /\ job.state \in {"waiting", "active", "accepted"} => job.made < Attempts
         /\ job.state = "failed" => job.made >= Attempts
  <2>1. jobs[j].made < Attempts /\ (jobs[j].state = "accepted" => jobs[j].mail \in sent)
    BY <1>1 DEF IInv, StateKnown
  <2>2. CASE Take(j)
    <3>1. jobs' = [jobs EXCEPT ![j] = [jobs[j] EXCEPT !.state = "active"]]
      BY <2>2 DEF Take, Move
    <3>2. QED
      BY <1>1, <2>1, <3>1, StateMoved
  <2>3. CASE Accept(j)
    <3>1. /\ jobs' = [jobs EXCEPT ![j] = [jobs[j] EXCEPT !.state = "accepted"]]
          /\ jobs[j].mail \in sent'
      BY <2>3 DEF Accept, Move
    <3>2. QED
      BY <1>1, <2>1, <3>1, StateMoved
  <2>4. CASE Complete(j)
    <3>1. /\ jobs' = [jobs EXCEPT ![j] = [jobs[j] EXCEPT !.state = "completed"]]
          /\ jobs[j].mail \in sent'
      BY <2>1, <2>4 DEF Complete, In, Move
    <3>2. QED
      BY <1>1, <3>1, StateMoved
  <2>5. CASE Fail(j)
    <3>0. jobs[j].made + 1 \in 0..Attempts
      BY <1>1, <2>1 DEF Job
    <3>1. AfterFailure(jobs[j]) \in Job
      BY <1>1, <3>0 DEF Job, AfterFailure
    <3>2. /\ AfterFailure(jobs[j]).mail = jobs[j].mail
          /\ AfterFailure(jobs[j]).from = jobs[j].from
          /\ AfterFailure(jobs[j]).made = jobs[j].made + 1
          /\ AfterFailure(jobs[j]).state = IF jobs[j].made + 1 < Attempts
                                           THEN "waiting" ELSE "failed"
      BY <1>1 DEF Job, AfterFailure
    <3>3. jobs[j].made \in Nat
      BY <1>1 DEF Job
    <3>4. jobs' = [jobs EXCEPT ![j] = AfterFailure(jobs[j])]
      BY <2>5 DEF Fail
    <3> DEFINE failed == AfterFailure(jobs[j])
    <3>5. /\ failed.state \in {"waiting", "failed"}
          /\ failed.state = "waiting" => failed.made < Attempts
          /\ failed.state = "failed" => failed.made >= Attempts
      BY <3>2, <3>3
    <3> HIDE DEF failed
    <3>6. failed \in Job /\ failed.mail = jobs[j].mail /\ failed.from = jobs[j].from
      BY <3>1, <3>2 DEF failed
    <3>7. jobs' = [jobs EXCEPT ![j] = failed]
      BY <3>4 DEF failed
    <3>8. QED
      BY <3>5, <3>6, <3>7
  <2>6. QED
    BY <2>2, <2>3, <2>4, <2>5 DEF Worker
<1>4. sent \subseteq sent' /\ sent' \subseteq Mails
  BY <1>1 DEF Worker, Take, Accept, Complete, Fail, TypeOK, Job
<1>5. jobs' \in [Jobs -> Job \cup {Null}] /\ SameJobs /\ SameRows
  BY <1>1, <1>2, <1>3, JobMoves DEF SameRows
<1>6. \A i \in Jobs : i # j => jobs'[i] = jobs[i]
  BY <1>1, <1>3 DEF TypeOK
<1>7. jobs'[j] = job
  BY <1>1, <1>3 DEF TypeOK
<1>8. TypeOK'
  BY <1>1, <1>2, <1>4, <1>5 DEF TypeOK
<1>9. StateKnown'
  BY <1>3, <1>4, <1>6, <1>7 DEF IInv, StateKnown
<1>10. OriginalKnown'
  <2> SUFFICES ASSUME NEW i \in Jobs, Original(i)'
               PROVE  IF jobs'[i].state = "settled"
                      THEN jobs'[i].mail \in sent' \cup dropped' \/ HasRow(jobs[i].mail)'
                      ELSE ~HasRow(jobs[i].mail)'
    BY DEF OriginalKnown
  <2>1. Original(i) /\ jobs'[i].mail = jobs[i].mail
    BY <1>5, IdentitiesKept DEF SameJobs, Original
  <2>2. HasRow(jobs[i].mail)' <=> HasRow(jobs[i].mail)
    BY <1>2, <2>1 DEF HasRow, SameJobs
  <2>3. CASE i = j
    BY <1>1, <1>3, <1>7, <2>1, <2>2, <2>3 DEF IInv, OriginalKnown
  <2>4. CASE i # j
    BY <1>2, <1>4, <1>6, <2>1, <2>2, <2>4 DEF IInv, OriginalKnown
  <2>5. QED
    BY <2>3, <2>4
<1>11. RowKnown'
  BY <1>2, <1>4, <1>5, IdentitiesKept DEF IInv, RowKnown
<1>12. RequestKnown'
  BY <1>2 DEF IInv, RequestKnown
<1>13. QED
  BY <1>5, <1>8, <1>9, <1>10, <1>11, <1>12, IdentitiesKept DEF IInv

-----------------------------------------------------------------------------
(***************************************************************************)
(* Listeners: the job is settled, and its row, if any, changes status.     *)
(***************************************************************************)
\* A job that settles, whose original has reached the table, been sent or dropped.
LEMMA SettleStep ==
    ASSUME IInv, NEW j \in Jobs, jobs[j] # Null, Move(j, "settled"),
           Original(j) => jobs[j].mail \in sent \cup dropped',
           rows' \in [Rows -> FailedJob \cup {Null}], SameRows,
           \A e \in Rows : rows'[e] # Null /\ rows'[e].status = "deleted" =>
              rows'[e].mail \in sent,
           dropped \subseteq dropped', dropped' \subseteq Mails,
           UNCHANGED <<sent, crashes, req>>
    PROVE  IInv'
<1> DEFINE job == [jobs[j] EXCEPT !.state = "settled"]
<1>1. jobs[j] \in Job
  BY DEF IInv, TypeOK
<1>2. /\ job \in Job /\ job.mail = jobs[j].mail /\ job.from = jobs[j].from
      /\ job.state = "settled"
  BY <1>1, StateMoved
<1>3. jobs' = [jobs EXCEPT ![j] = job]
  BY DEF Move
<1> HIDE DEF job
<1>4. jobs' \in [Jobs -> Job \cup {Null}] /\ SameJobs
  BY <1>2, <1>3, JobMoves
<1>5. jobs'[j] = job /\ \A i \in Jobs : i # j => jobs'[i] = jobs[i]
  BY <1>3 DEF IInv, TypeOK
<1>6. TypeOK'
  BY <1>4 DEF IInv, TypeOK
<1>7. StateKnown'
  BY <1>2, <1>5 DEF IInv, StateKnown
<1>8. OriginalKnown'
  <2> SUFFICES ASSUME NEW i \in Jobs, Original(i)'
               PROVE  IF jobs'[i].state = "settled"
                      THEN jobs'[i].mail \in sent' \cup dropped' \/ HasRow(jobs[i].mail)'
                      ELSE ~HasRow(jobs[i].mail)'
    BY <1>4 DEF OriginalKnown, SameJobs, Original, HasRow
  <2>1. Original(i) /\ jobs'[i].mail = jobs[i].mail
    BY <1>4, IdentitiesKept DEF SameJobs, Original
  <2>2. HasRow(jobs[i].mail)' <=> HasRow(jobs[i].mail)
    BY <2>1 DEF HasRow, SameRows
  <2>3. CASE i = j
    BY <1>2, <1>5, <2>1, <2>3
  <2>4. CASE i # j
    BY <1>5, <2>1, <2>2, <2>4 DEF IInv, OriginalKnown
  <2>5. QED
    BY <2>3, <2>4
<1>9. RowKnown'
  BY <1>4, IdentitiesKept DEF RowKnown
<1>10. RequestKnown'
  BY DEF IInv, RequestKnown, SameRows
<1>11. QED
  BY <1>4, <1>6, <1>7, <1>8, <1>9, <1>10, IdentitiesKept DEF IInv

\* The only INSERT of a row: there was none for the mail, and its one original
\* job is settled by it.
LEMMA InsertRowStep ==
    ASSUME IInv, NEW j \in Jobs, In(j, "failed"), Original(j), Move(j, "settled"),
           NEW e \in Rows, rows[e] = Null,
           rows' = [rows EXCEPT ![e] = [mail |-> jobs[j].mail, status |-> "pending"]],
           UNCHANGED <<sent, dropped, crashes, req>>
    PROVE  IInv'
<1> DEFINE job == [jobs[j] EXCEPT !.state = "settled"]
           row == [mail |-> jobs[j].mail, status |-> "pending"]
<1>1. TypeOK /\ jobs[j] \in Job
  BY DEF IInv, TypeOK, In
<1>2. /\ job \in Job /\ job.mail = jobs[j].mail /\ job.from = jobs[j].from
      /\ job.state = "settled"
  BY <1>1, StateMoved
<1>3. row \in FailedJob /\ row.mail = jobs[j].mail /\ row.status = "pending" /\ row # Null
  BY <1>1 DEF FailedJob, Job, MailFailedStatus
<1>4. jobs' = [jobs EXCEPT ![j] = job] /\ rows' = [rows EXCEPT ![e] = row]
  BY DEF Move
<1> HIDE DEF job, row
<1>5. jobs' \in [Jobs -> Job \cup {Null}] /\ SameJobs
  BY <1>2, <1>4, JobMoves DEF In
<1>6. jobs'[j] = job /\ \A i \in Jobs : i # j => jobs'[i] = jobs[i]
  BY <1>1, <1>4 DEF TypeOK
<1>7. rows'[e] = row /\ \A f \in Rows : f # e => rows'[f] = rows[f]
  BY <1>1, <1>4 DEF TypeOK
<1>8. ~HasRow(jobs[j].mail)
  BY DEF IInv, OriginalKnown, In
<1>9. \A i \in Jobs : Original(i)' <=> Original(i)
  BY <1>5 DEF SameJobs, Original
<1>10. TypeOK'
  BY <1>1, <1>3, <1>4, <1>5 DEF TypeOK
<1>11. OneOriginal'
  BY <1>5, <1>9 DEF IInv, OneOriginal, SameJobs, Original
<1>12. StateKnown'
  BY <1>2, <1>6 DEF IInv, StateKnown
<1>13. OriginalKnown'
  <2> SUFFICES ASSUME NEW i \in Jobs, Original(i)'
               PROVE  IF jobs'[i].state = "settled"
                      THEN jobs'[i].mail \in sent' \cup dropped' \/ HasRow(jobs[i].mail)'
                      ELSE ~HasRow(jobs[i].mail)'
    BY <1>5 DEF OriginalKnown, SameJobs, Original, HasRow
  <2>1. Original(i)
    BY <1>9
  <2>2. CASE i = j
    <3>1. HasRow(jobs[i].mail)'
      BY <1>3, <1>5, <1>7, <2>1, <2>2 DEF HasRow, SameJobs, Original
    <3>2. QED
      BY <1>2, <1>6, <2>2, <3>1
  <2>3. CASE i # j
    <3>1. jobs[i].mail # jobs[j].mail
      BY <2>1, <2>3 DEF IInv, OneOriginal
    <3>2. HasRow(jobs[i].mail)' <=> HasRow(jobs[i].mail)
      BY <1>3, <1>6, <1>7, <2>3, <3>1 DEF HasRow
    <3>3. QED
      BY <1>6, <2>1, <2>3, <3>2 DEF IInv, OriginalKnown
  <2>4. QED
    BY <2>2, <2>3
<1>14. RetryKnown'
  <2> SUFFICES ASSUME NEW i \in Jobs, jobs'[i] # Null, jobs'[i].from # Null
               PROVE  /\ rows'[jobs'[i].from] # Null
                      /\ rows'[jobs'[i].from].mail = jobs'[i].mail
    BY DEF RetryKnown
  <2>1. jobs[i] # Null /\ jobs'[i].from = jobs[i].from /\ jobs'[i].mail = jobs[i].mail
    BY <1>5 DEF SameJobs
  <2>2. jobs[i].from \in Rows /\ rows[jobs[i].from] # Null
    BY <1>1, <2>1 DEF IInv, RetryKnown, TypeOK, Job
  <2>3. QED
    BY <1>7, <2>1, <2>2 DEF IInv, RetryKnown
<1>15. RowKnown'
  <2> SUFFICES ASSUME NEW f \in Rows, rows'[f] # Null
               PROVE  /\ rows'[f].status = "deleted" => rows'[f].mail \in sent'
                      /\ \E i \in Jobs : Original(i)' /\ jobs'[i].mail = rows'[f].mail
    BY DEF RowKnown
  <2>1. CASE f = e
    BY <1>3, <1>5, <1>7, <1>9, <2>1 DEF SameJobs, Original
  <2>2. CASE f # e
    BY <1>5, <1>7, <1>9, <2>2 DEF IInv, RowKnown, SameJobs, Original
  <2>3. QED
    BY <2>1, <2>2
<1>16. RequestKnown'
  BY <1>7 DEF IInv, RequestKnown
<1>17. OneRowPerMail'
  BY <1>3, <1>7, <1>8 DEF IInv, OneRowPerMail, HasRow
<1>18. QED
  BY <1>10, <1>11, <1>12, <1>13, <1>14, <1>15, <1>16, <1>17 DEF IInv

\* A row that is given a status keeps its mail.
LEMMA StatusGiven ==
    ASSUME IInv, NEW e \in Rows, rows[e] # Null,
           NEW status \in MailFailedStatus \cup {"deleted"},
           rows' = [rows EXCEPT ![e].status = status]
    PROVE  /\ rows' \in [Rows -> FailedJob \cup {Null}]
           /\ SameRows
           /\ rows'[e].status = status
           /\ \A f \in Rows : f # e => rows'[f] = rows[f]
<1>1. rows[e] \in FailedJob /\ [rows[e] EXCEPT !.status = status] \in FailedJob
  BY DEF IInv, TypeOK, FailedJob
<1>2. [rows[e] EXCEPT !.status = status].mail = rows[e].mail
  BY <1>1 DEF FailedJob
<1>3. [rows[e] EXCEPT !.status = status].status = status
  BY <1>1 DEF FailedJob
<1>4. rows' = [rows EXCEPT ![e] = [rows[e] EXCEPT !.status = status]]
  OBVIOUS
<1>5. QED
  BY <1>1, <1>2, <1>3, <1>4 DEF IInv, TypeOK, SameRows

\* Whatever a listener does of its writes, the rows stay those of the original jobs.
LEMMA ListenerStep ==
    ASSUME IInv, NEW j \in Jobs, Listener(j)
    PROVE  IInv'
<1>1. TypeOK /\ jobs[j] # Null /\ jobs[j] \in Job
  BY DEF IInv, TypeOK, Listener, SaveFailedJob, UpdateFailedJob, DeleteOnSuccess, In
<1>2. /\ jobs[j].state = "failed" => jobs[j].made >= Attempts
      /\ jobs[j].state = "completed" => jobs[j].mail \in sent
      /\ jobs[j].from # Null => /\ jobs[j].from \in Rows
                                /\ rows[jobs[j].from] # Null
                                /\ rows[jobs[j].from].mail = jobs[j].mail
  BY <1>1 DEF IInv, StateKnown, RetryKnown, Job
<1>3. \A e \in Rows : rows[e] # Null /\ rows[e].status = "deleted" => rows[e].mail \in sent
  BY DEF IInv, RowKnown
<1>4. UNCHANGED <<sent, crashes, req>> /\ Move(j, "settled")
  BY DEF Listener, SaveFailedJob, UpdateFailedJob, DeleteOnSuccess
<1>5. rows' = rows => rows' \in [Rows -> FailedJob \cup {Null}] /\ SameRows
  BY <1>1 DEF TypeOK, SameRows
<1>6. CASE SaveFailedJob(j)
  <2>1. Exhausted(jobs[j]) /\ Original(j) /\ In(j, "failed")
    BY <1>1, <1>2, <1>6 DEF SaveFailedJob, Exhausted, In, Original
  <2>2. CASE dropped' = dropped \cup {jobs[j].mail} /\ UNCHANGED rows
    <3>1. dropped' \subseteq Mails
      BY <1>1, <2>2 DEF TypeOK, Job
    <3>2. QED
      BY <1>1, <1>3, <1>4, <1>5, <2>2, <3>1, SettleStep
  <2>3. ASSUME NEW e \in Rows, rows[e] = Null, UNCHANGED dropped,
               rows' = [rows EXCEPT ![e] = [mail |-> jobs[j].mail, status |-> "pending"]]
        PROVE  IInv'
    BY <1>4, <2>1, <2>3, InsertRowStep
  <2>4. QED
    BY <1>6, <2>1, <2>2, <2>3 DEF SaveFailedJob
<1>7. CASE UpdateFailedJob(j)
  <2>1. jobs[j].from # Null /\ UNCHANGED dropped /\ ~Original(j)
    BY <1>7 DEF UpdateFailedJob, Original
  <2>2. dropped \subseteq Mails
    BY <1>1 DEF TypeOK
  <2>3. CASE rows' = rows
    BY <1>1, <1>3, <1>4, <1>5, <2>1, <2>2, <2>3, SettleStep
  <2>4. CASE rows' = [rows EXCEPT ![jobs[j].from].status = "pending"]
    <3>1. /\ rows' \in [Rows -> FailedJob \cup {Null}] /\ SameRows
          /\ rows'[jobs[j].from].status = "pending"
          /\ \A f \in Rows : f # jobs[j].from => rows'[f] = rows[f]
      BY <1>2, <2>1, <2>4, StatusGiven DEF MailFailedStatus
    <3>2. \A e \in Rows : rows'[e] # Null /\ rows'[e].status = "deleted" =>
             rows'[e].mail \in sent
      BY <1>3, <3>1
    <3>3. QED
      BY <1>1, <1>4, <2>1, <2>2, <3>1, <3>2, SettleStep
  <2>5. QED
    BY <1>7, <2>3, <2>4 DEF UpdateFailedJob
<1>8. CASE DeleteOnSuccess(j)
  <2>1. jobs[j].mail \in sent /\ UNCHANGED dropped
    BY <1>2, <1>8 DEF DeleteOnSuccess, In
  <2>2. dropped \subseteq Mails
    BY <1>1 DEF TypeOK
  <2>3. CASE rows' = rows
    BY <1>1, <1>3, <1>4, <1>5, <2>1, <2>2, <2>3, SettleStep
  <2>4. CASE jobs[j].from # Null /\ rows' = [rows EXCEPT ![jobs[j].from].status = "deleted"]
    <3>1. /\ rows' \in [Rows -> FailedJob \cup {Null}] /\ SameRows
          /\ \A f \in Rows : f # jobs[j].from => rows'[f] = rows[f]
      BY <1>2, <2>4, StatusGiven
    <3>2. rows'[jobs[j].from].mail = jobs[j].mail
      BY <1>2, <2>4, <3>1 DEF SameRows
    <3>3. \A e \in Rows : rows'[e] # Null /\ rows'[e].status = "deleted" =>
             rows'[e].mail \in sent
      BY <1>3, <2>1, <3>1, <3>2
    <3>4. QED
      BY <1>1, <1>4, <2>1, <2>2, <3>1, <3>3, SettleStep
  <2>5. QED
    BY <1>8, <2>3, <2>4 DEF DeleteOnSuccess
<1>9. QED
  BY <1>6, <1>7, <1>8 DEF Listener

-----------------------------------------------------------------------------
(***************************************************************************)
(* New jobs.                                                               *)
(***************************************************************************)
\* A job that is added: all the others stay.
LEMMA JobAdded ==
    ASSUME IInv, NEW j \in Jobs, NEW m \in Mails, NEW e \in Rows \cup {Null},
           jobs' = [jobs EXCEPT ![j] = NewJob(m, e)]
    PROVE  /\ jobs' \in [Jobs -> Job \cup {Null}]
           /\ \A i \in Jobs : i # j => jobs'[i] = jobs[i]
           /\ jobs'[j] # Null /\ jobs'[j].mail = m /\ jobs'[j].from = e
           /\ jobs'[j].made = 0 /\ jobs'[j].state = "waiting"
<1> DEFINE job == NewJob(m, e)
<1>1. job \in Job /\ job.mail = m /\ job.from = e /\ job.made = 0 /\ job.state = "waiting"
  BY DEF NewJob, Job
<1>2. job # Null
  BY <1>1
<1> HIDE DEF job
<1>3. jobs' = [jobs EXCEPT ![j] = job]
  BY DEF job
<1>4. QED
  BY <1>1, <1>2, <1>3 DEF IInv, TypeOK

\* Nothing has been asked for the mail, so that it has no row either.
LEMMA AddStep ==
    ASSUME IInv, NEW m \in Mails, Add(m)
    PROVE  IInv'
<1>1. PICK j \in Jobs : jobs[j] = Null /\ jobs' = [jobs EXCEPT ![j] = NewJob(m, Null)]
  BY DEF Add
<1>2. UNCHANGED <<rows, sent, dropped, crashes, req>>
  BY DEF Add
<1>3. /\ jobs' \in [Jobs -> Job \cup {Null}]
      /\ \A i \in Jobs : i # j => jobs'[i] = jobs[i]
      /\ jobs'[j] # Null /\ jobs'[j].mail = m /\ jobs'[j].from = Null
      /\ jobs'[j].made = 0 /\ jobs'[j].state = "waiting"
  BY <1>1, JobAdded
<1>4. \A i \in Jobs : jobs[i] # Null => jobs[i].mail # m
  BY DEF Add
<1>5. ~HasRow(m)
  BY <1>4 DEF IInv, RowKnown, Original, HasRow
<1>6. \A i \in Jobs : Original(i)' <=> Original(i) \/ i = j
  BY <1>1, <1>3 DEF Original
<1>7. TypeOK'
  BY <1>2, <1>3 DEF IInv, TypeOK
<1>8. OneOriginal'
  BY <1>3, <1>4 DEF IInv, OneOriginal, Original
<1>9. StateKnown'
  BY <1>2, <1>3 DEF IInv, StateKnown
<1>10. OriginalKnown'
  <2> SUFFICES ASSUME NEW i \in Jobs, Original(i)'
               PROVE  IF jobs'[i].state = "settled"
                      THEN jobs'[i].mail \in sent' \cup dropped' \/ HasRow(jobs[i].mail)'
                      ELSE ~HasRow(jobs[i].mail)'
    BY DEF OriginalKnown
  <2>1. CASE i = j
    BY <1>2, <1>3, <1>5, <2>1 DEF HasRow
  <2>2. CASE i # j
    BY <1>2, <1>3, <1>6, <2>2 DEF IInv, OriginalKnown, HasRow
  <2>3. QED
    BY <2>1, <2>2
<1>11. RetryKnown'
  BY <1>2, <1>3 DEF IInv, RetryKnown
<1>12. RowKnown'
  BY <1>1, <1>2, <1>3, <1>6 DEF IInv, RowKnown, Original
<1>13. RequestKnown'
  BY <1>2 DEF IInv, RequestKnown
<1>14. OneRowPerMail'
  BY <1>2 DEF IInv, OneRowPerMail
<1>15. QED
  BY <1>7, <1>8, <1>9, <1>10, <1>11, <1>12, <1>13, <1>14 DEF IInv

\* A retry names the row it was asked from, which is of its mail.
LEMMA AddRetryStep ==
    ASSUME IInv, NEW a \in Admins, AddRetry(a)
    PROVE  IInv'
<1>1. PICK j \in Jobs : jobs[j] = Null /\ jobs' = [jobs EXCEPT ![j] = RetryJob(a)]
  BY DEF AddRetry
<1>2. UNCHANGED <<rows, sent, dropped, crashes>> /\ req' = [req EXCEPT ![a] = Idle]
  BY DEF AddRetry
<1> DEFINE m == req[a].mail
           e == req[a].e
<1>3. m \in Mails /\ e \in Rows /\ e # Null /\ rows[e] # Null /\ rows[e].mail = m
  BY DEF AddRetry, IInv, RequestKnown
<1>4. jobs' = [jobs EXCEPT ![j] = NewJob(m, e)]
  BY <1>1 DEF RetryJob
<1> HIDE DEF m, e
<1>5. /\ jobs' \in [Jobs -> Job \cup {Null}]
      /\ \A i \in Jobs : i # j => jobs'[i] = jobs[i]
      /\ jobs'[j] # Null /\ jobs'[j].mail = m /\ jobs'[j].from = e
      /\ jobs'[j].made = 0 /\ jobs'[j].state = "waiting"
  BY <1>3, <1>4, JobAdded
<1>6. \A i \in Jobs : /\ Original(i)' <=> Original(i)
                      /\ Original(i) => jobs'[i] = jobs[i]
  BY <1>1, <1>3, <1>5 DEF Original
<1>7. \A b \in Admins : req'[b] = req[b] \/ req'[b] = Idle
  BY <1>2 DEF IInv, TypeOK
<1>8. TypeOK'
  <2>1. req' \in [Admins -> Request]
    BY <1>2 DEF IInv, TypeOK, Idle, Request
  <2>2. QED
    BY <1>2, <1>5, <2>1 DEF IInv, TypeOK
<1>9. OneOriginal'
  BY <1>6 DEF IInv, OneOriginal
<1>10. StateKnown'
  BY <1>2, <1>5 DEF IInv, StateKnown
<1>11. OriginalKnown'
  BY <1>2, <1>6 DEF IInv, OriginalKnown, HasRow
<1>12. RetryKnown'
  BY <1>2, <1>3, <1>5 DEF IInv, RetryKnown
<1>13. RowKnown'
  BY <1>2, <1>6 DEF IInv, RowKnown
<1>14. RequestKnown'
  BY <1>2, <1>7 DEF IInv, RequestKnown, Idle
<1>15. OneRowPerMail'
  BY <1>2 DEF IInv, OneRowPerMail
<1>16. QED
  BY <1>8, <1>9, <1>10, <1>11, <1>12, <1>13, <1>14, <1>15 DEF IInv

-----------------------------------------------------------------------------
(***************************************************************************)
(* The other steps of administrators, and crashes.                         *)
(***************************************************************************)
\* Steps of requests only: the two reads.
LEMMA ReadStep ==
    ASSUME IInv, NEW a \in Admins, NEW e \in Rows, Retry(a, e) \/ Abandon(a, e)
    PROVE  IInv'
<1>1. UNCHANGED <<jobs, rows, sent, dropped, crashes>>
  BY DEF Retry, Abandon
<1>2. rows[e] # Null /\ rows[e] \in FailedJob /\ rows[e].mail \in Mails
  BY DEF IInv, TypeOK, Retry, Abandon, Stored, FailedJob
<1>3. PICK r \in Request :
         /\ req' = [req EXCEPT ![a] = r]
         /\ r.e = e
         /\ r.pc = "add" => r.mail = rows[e].mail
  <2>1. CASE Retry(a, e)
    <3>1. [pc |-> "add", e |-> e, mail |-> rows[e].mail] \in Request
      BY <1>2 DEF Request
    <3>2. QED
      BY <2>1, <3>1 DEF Retry
  <2>2. CASE Abandon(a, e)
    <3>1. [pc |-> "abandon", e |-> e, mail |-> Null] \in Request
      BY DEF Request
    <3>2. QED
      BY <2>2, <3>1 DEF Abandon
  <2>3. QED
    BY <2>1, <2>2
<1>4. \A b \in Admins : req'[b] = IF b = a THEN r ELSE req[b]
  BY <1>3 DEF IInv, TypeOK
<1>5. TypeOK'
  BY <1>1, <1>3 DEF IInv, TypeOK
<1>6. RequestKnown'
  BY <1>1, <1>2, <1>3, <1>4 DEF IInv, RequestKnown
<1>7. OneOriginal' /\ StateKnown' /\ RetryKnown' /\ OneRowPerMail'
  BY <1>1 DEF IInv, OneOriginal, StateKnown, RetryKnown, OneRowPerMail, Original
<1>8. OriginalKnown' /\ RowKnown'
  BY <1>1 DEF IInv, OriginalKnown, RowKnown, Original, HasRow
<1>9. QED
  BY <1>5, <1>6, <1>7, <1>8 DEF IInv

\* An UPDATE of the status.
LEMMA SetAbandonedStep ==
    ASSUME IInv, NEW a \in Admins, SetAbandoned(a)
    PROVE  IInv'
<1> DEFINE e == req[a].e
<1>1. /\ UNCHANGED <<jobs, sent, dropped, crashes>>
      /\ req' = [req EXCEPT ![a] = Idle]
      /\ e \in Rows
      /\ rows' = IF Stored(e) THEN [rows EXCEPT ![e].status = "abandoned"] ELSE rows
  BY DEF SetAbandoned, IInv, RequestKnown
<1> HIDE DEF e
<1>2. /\ rows' \in [Rows -> FailedJob \cup {Null}]
      /\ SameRows
      /\ \A f \in Rows : rows'[f] # Null /\ rows'[f].status = "deleted" => rows'[f].mail \in sent
  <2>1. \A f \in Rows : rows[f] # Null /\ rows[f].status = "deleted" => rows[f].mail \in sent
    BY DEF IInv, RowKnown
  <2>2. CASE Stored(e)
    <3>1. rows[e] # Null /\ rows' = [rows EXCEPT ![e].status = "abandoned"]
      BY <1>1, <2>2 DEF Stored
    <3>2. /\ rows' \in [Rows -> FailedJob \cup {Null}] /\ SameRows
          /\ rows'[e].status = "abandoned"
          /\ \A f \in Rows : f # e => rows'[f] = rows[f]
      BY <1>1, <3>1, StatusGiven DEF MailFailedStatus
    <3>3. QED
      BY <2>1, <3>2
  <2>3. CASE ~Stored(e)
    BY <1>1, <2>1, <2>3 DEF IInv, TypeOK, SameRows
  <2>4. QED
    BY <2>2, <2>3
<1>3. SameJobs
  BY <1>1 DEF SameJobs
<1>4. TypeOK'
  BY <1>1, <1>2 DEF IInv, TypeOK, Idle, Request
<1>5. StateKnown'
  BY <1>1 DEF IInv, StateKnown
<1>6. \A m : HasRow(m)' <=> HasRow(m)
  BY <1>2 DEF SameRows, HasRow
<1>7. OriginalKnown'
  BY <1>1, <1>6 DEF IInv, OriginalKnown, Original
<1>8. RowKnown'
  BY <1>1, <1>2, <1>3, IdentitiesKept DEF RowKnown
<1>9. \A b \in Admins : req'[b] = req[b] \/ req'[b] = Idle
  BY <1>1 DEF IInv, TypeOK
<1>10. RequestKnown'
  BY <1>2, <1>9 DEF IInv, RequestKnown, SameRows, Idle
<1>11. QED
  BY <1>2, <1>3, <1>4, <1>5, <1>7, <1>8, <1>10, IdentitiesKept DEF IInv

\* What a crash leaves of a job.
LEMMA AfterCrashKeeps ==
    ASSUME NEW job \in Job
    PROVE  /\ AfterCrash(job) \in Job
           /\ AfterCrash(job).mail = job.mail /\ AfterCrash(job).from = job.from
           /\ AfterCrash(job).made = job.made
           /\ AfterCrash(job).state \in {"waiting", "settled"}
           /\ AfterCrash(job).state = "waiting" =>
                 job.state \in {"waiting", "active", "accepted"}
           /\ AfterCrash(job).state = "settled" =>
                 \/ job.state \in {"failed", "completed", "settled"}
                 \/ job.state \in {"active", "accepted"} /\ job.stalled
<1>1. job.state \in {"waiting", "active", "accepted", "failed", "completed", "settled"}
  BY DEF Job
<1>2. CASE job.state \in {"active", "accepted"} /\ ~job.stalled
  <2>1. AfterCrash(job) = [job EXCEPT !.state = "waiting", !.stalled = TRUE]
    BY <1>2 DEF AfterCrash
  <2>2. QED
    BY <1>2, <2>1 DEF Job
<1>3. CASE job.state = "waiting"
  BY <1>3 DEF AfterCrash
<1>4. CASE /\ job.state # "waiting"
           /\ \/ job.state \in {"failed", "completed", "settled"}
              \/ job.state \in {"active", "accepted"} /\ job.stalled
  <2>1. AfterCrash(job) = [job EXCEPT !.state = "settled"]
    BY <1>4 DEF AfterCrash
  <2> DEFINE settled == [job EXCEPT !.state = "settled"]
  <2>2. /\ settled \in Job
        /\ settled.mail = job.mail /\ settled.from = job.from /\ settled.made = job.made
        /\ settled.state = "settled"
    BY StateMoved
  <2> HIDE DEF settled
  <2>3. AfterCrash(job) = settled
    BY <2>1 DEF settled
  <2>4. AfterCrash(job).state = "settled"
    BY <2>2, <2>3
  <2>5. QED
    BY <1>4, <2>2, <2>3, <2>4
<1>5. QED
  BY <1>1, <1>2, <1>3, <1>4

\* A failed original whose listener never ran, or one that stalls again, is dropped.
LEMMA CrashStep ==
    ASSUME IInv, Crash
    PROVE  IInv'
<1>1. /\ UNCHANGED <<rows, sent>> /\ crashes' = crashes + 1 /\ crashes < MaxCrashes
      /\ req' = [a \in Admins |-> Idle]
      /\ jobs' = [j \in Jobs |-> IF jobs[j] = Null THEN Null ELSE AfterCrash(jobs[j])]
  BY DEF Crash
<1>2. \A i \in Jobs : jobs[i] # Null => jobs[i] \in Job
  BY DEF IInv, TypeOK
<1>3. \A i \in Jobs :
         /\ jobs[i] = Null => jobs'[i] = Null
         /\ jobs[i] # Null =>
              /\ jobs'[i] \in Job
              /\ jobs'[i].mail = jobs[i].mail /\ jobs'[i].from = jobs[i].from
              /\ jobs'[i].made = jobs[i].made
              /\ jobs'[i].state \in {"waiting", "settled"}
              /\ jobs'[i].state = "waiting" =>
                    jobs[i].state \in {"waiting", "active", "accepted"}
              /\ jobs'[i].state = "settled" =>
                    jobs[i].state \in {"completed", "settled"} \/ GivenUp(jobs[i])
                       \/ jobs[i].from # Null
  BY <1>1, <1>2, AfterCrashKeeps DEF GivenUp, Job
<1>4. /\ dropped \subseteq dropped' /\ dropped' \subseteq Mails
      /\ \A i \in Jobs : jobs[i] # Null /\ GivenUp(jobs[i]) => jobs[i].mail \in dropped'
  BY <1>2 DEF Crash, IInv, TypeOK, Job
<1>5. jobs' \in [Jobs -> Job \cup {Null}]
  BY <1>1, <1>3
<1>6. SameJobs /\ SameRows
  BY <1>1, <1>3 DEF SameJobs, SameRows
<1>7. TypeOK'
  BY <1>1, <1>4, <1>5 DEF IInv, TypeOK, Idle, Request
<1>8. StateKnown'
  BY <1>1, <1>3 DEF IInv, StateKnown
<1>9. OriginalKnown'
  <2> SUFFICES ASSUME NEW i \in Jobs, Original(i)'
               PROVE  IF jobs'[i].state = "settled"
                      THEN jobs'[i].mail \in sent' \cup dropped' \/ HasRow(jobs[i].mail)'
                      ELSE ~HasRow(jobs[i].mail)'
    BY <1>6 DEF OriginalKnown, SameJobs, Original, HasRow
  <2>1. Original(i) /\ jobs[i] # Null /\ jobs'[i].mail = jobs[i].mail
    BY <1>6, IdentitiesKept DEF SameJobs, Original
  <2>2. HasRow(jobs[i].mail)' <=> HasRow(jobs[i].mail)
    BY <1>1, <2>1 DEF HasRow
  <2>3. CASE jobs'[i].state = "waiting"
    BY <1>3, <2>1, <2>2, <2>3 DEF IInv, OriginalKnown
  <2>4. CASE jobs'[i].state = "settled"
    <3>1. jobs[i].state = "completed" => jobs[i].mail \in sent
      BY <2>1 DEF IInv, StateKnown
    <3>2. GivenUp(jobs[i]) => jobs[i].mail \in dropped'
      BY <1>4, <2>1
    <3>3. jobs[i].state = "settled" =>
             jobs[i].mail \in sent \cup dropped \/ HasRow(jobs[i].mail)
      BY <2>1 DEF IInv, OriginalKnown
    <3>4. QED
      BY <1>1, <1>3, <1>4, <2>1, <2>2, <2>4, <3>1, <3>2, <3>3 DEF Original
  <2>5. QED
    BY <1>3, <2>1, <2>3, <2>4
<1>10. RowKnown'
  BY <1>1, <1>6, IdentitiesKept DEF IInv, RowKnown
<1>11. RequestKnown'
  BY <1>1 DEF RequestKnown, Idle
<1>12. QED
  BY <1>6, <1>7, <1>8, <1>9, <1>10, <1>11, IdentitiesKept DEF IInv

-----------------------------------------------------------------------------
\* The strengthened invariant is inductive.
THEOREM Invariance == Spec => []IInv
<1>1. Init => IInv
  <2> SUFFICES ASSUME Init PROVE IInv
    OBVIOUS
  <2>1. TypeOK
    BY DEF Init, TypeOK, Idle, Request
  <2>2. OneOriginal /\ StateKnown /\ OriginalKnown /\ RetryKnown
    BY DEF Init, OneOriginal, StateKnown, OriginalKnown, RetryKnown, Original
  <2>3. RowKnown /\ RequestKnown /\ OneRowPerMail
    BY DEF Init, RowKnown, RequestKnown, OneRowPerMail, Idle
  <2>4. QED
    BY <2>1, <2>2, <2>3 DEF IInv
<1>2. IInv /\ [Next]_vars => IInv'
  <2> SUFFICES ASSUME IInv, [Next]_vars PROVE IInv'
    OBVIOUS
  <2>1. CASE Next
    BY <2>1, AddStep, WorkerStep, ListenerStep, ReadStep, AddRetryStep, SetAbandonedStep,
       CrashStep DEF Next
  <2>2. CASE UNCHANGED vars
    <3>1. TypeOK' /\ RequestKnown' /\ OneRowPerMail' /\ StateKnown'
      BY <2>2 DEF vars, IInv, TypeOK, RequestKnown, OneRowPerMail, StateKnown
    <3>2. OneOriginal' /\ OriginalKnown' /\ RetryKnown' /\ RowKnown'
      BY <2>2 DEF vars, IInv, OneOriginal, OriginalKnown, RetryKnown, RowKnown,
                  Original, HasRow
    <3>3. QED
      BY <3>1, <3>2 DEF IInv
  <2>3. QED
    BY <2>1, <2>2
<1>3. QED
  BY <1>1, <1>2, PTL DEF Spec

\* Every variable keeps the values its comment says.
THEOREM TypeCorrect == Spec => []TypeOK
<1>1. IInv => TypeOK
  BY DEF IInv
<1>2. QED
  BY <1>1, Invariance, PTL

\* Whatever is retried or abandoned, one row stands for a mail.
THEOREM OneRowPerMailHolds == Spec => []OneRowPerMail
<1>1. IInv => OneRowPerMail
  BY DEF IInv
<1>2. QED
  BY <1>1, Invariance, PTL

\* A mail that was asked for is sent, waiting, in the table, or known to be dropped.
THEOREM NoMailLostHolds == Spec => []NoMailLost
<1>1. IInv => NoMailLost
  <2> SUFFICES ASSUME IInv, NEW m \in Mails, Asked(m), m \notin sent \cup dropped,
                      \A j \in Jobs : jobs[j] # Null /\ jobs[j].mail = m =>
                         jobs[j].state = "settled"
               PROVE  Kept(m)
    BY DEF NoMailLost
  <2>1. PICK j \in Jobs : Original(j) /\ jobs[j].mail = m
    <3>1. PICK i \in Jobs : jobs[i] # Null /\ jobs[i].mail = m
      BY DEF Asked
    <3>2. CASE jobs[i].from = Null
      BY <3>1, <3>2 DEF Original
    <3>3. CASE jobs[i].from # Null
      <4>1. jobs[i].from \in Rows
        BY <3>1, <3>3 DEF IInv, TypeOK, Job
      <4>2. rows[jobs[i].from] # Null /\ rows[jobs[i].from].mail = m
        BY <3>1, <3>3 DEF IInv, RetryKnown
      <4>3. QED
        BY <4>1, <4>2 DEF IInv, RowKnown
    <3>4. QED
      BY <3>2, <3>3
  <2>2. HasRow(m)
    BY <2>1 DEF IInv, OriginalKnown, Original
  <2>3. PICK e \in Rows : rows[e] # Null /\ rows[e].mail = m
    BY <2>2 DEF HasRow
  <2>4. rows[e].status # "deleted"
    BY <2>3 DEF IInv, RowKnown
  <2>5. QED
    BY <2>3, <2>4 DEF Kept, Stored
<1>2. QED
  BY <1>1, Invariance, PTL

-----------------------------------------------------------------------------
(***************************************************************************)
(* An abandoned row.                                                       *)
(***************************************************************************)
\* No retry of it is accepted.
LEMMA NobodyAsks ==
    ASSUME IInv, Next, NEW e \in Rows, rows[e] # Null, rows[e].status = "abandoned"
    PROVE  Asking(e)' \subseteq Asking(e)
<1> SUFFICES ASSUME NEW b \in Admins, req'[b].pc = "add", req'[b].e = e
             PROVE  req'[b] = req[b]
  BY DEF Asking
<1>0. req \in [Admins -> Request]
  BY DEF IInv, TypeOK
<1>1. ASSUME UNCHANGED req PROVE req'[b] = req[b]
  BY <1>1
<1>2. ASSUME NEW a \in Admins, NEW f \in Rows, Retry(a, f) PROVE req'[b] = req[b]
  <2>1. f # e
    BY <1>2 DEF Retry
  <2>2. QED
    BY <1>0, <1>2, <2>1 DEF Retry
<1>3. ASSUME NEW a \in Admins, NEW f \in Rows, Abandon(a, f) PROVE req'[b] = req[b]
  BY <1>0, <1>3 DEF Abandon
<1>4. ASSUME NEW a \in Admins, AddRetry(a) \/ SetAbandoned(a) PROVE req'[b] = req[b]
  BY <1>0, <1>4 DEF AddRetry, SetAbandoned, Idle
<1>5. ~Crash
  BY DEF Crash, Idle
<1>6. QED
  BY <1>1, <1>2, <1>3, <1>4, <1>5
  DEF Next, Add, Worker, Take, Accept, Complete, Fail, Listener, SaveFailedJob,
      UpdateFailedJob, DeleteOnSuccess

\* Its jobs are those of before, and those an administrator had asked for.
LEMMA NothingQueued ==
    ASSUME IInv, Next, NEW e \in Rows, NEW i \in Retrying(e)', i \notin Retrying(e)
    PROVE  Asking(e)' # Asking(e)
<1> DEFINE Same(j) == jobs[j] # Null /\ jobs[j].from = e /\ jobs[j].state # "settled"
<1>0. /\ i \in Jobs /\ jobs'[i] # Null /\ jobs'[i].from = e /\ jobs'[i].state # "settled"
      /\ ~Same(i)
      /\ e # Null
      /\ \A j \in Jobs : jobs[j] # Null => jobs[j] \in Job
      /\ req \in [Admins -> Request]
  BY DEF Retrying, IInv, TypeOK
<1>1. ~(UNCHANGED jobs)
  BY <1>0
<1>2. ASSUME NEW m \in Mails, Add(m) PROVE FALSE
  <2>1. PICK j \in Jobs : jobs[j] = Null /\ jobs' = [jobs EXCEPT ![j] = NewJob(m, Null)]
    BY <1>2 DEF Add
  <2>2. \A k \in Jobs : k # j => jobs'[k] = jobs[k]
    BY <2>1, JobAdded
  <2>3. jobs'[j].from = Null
    BY <2>1, JobAdded
  <2>4. QED
    BY <1>0, <2>2, <2>3
<1>3. ASSUME NEW j \in Jobs, Worker(j) \/ Listener(j) PROVE FALSE
  <2>1. jobs[j] # Null /\ jobs[j].state # "settled" /\ jobs[j] \in Job
    BY <1>0, <1>3 DEF Worker, Take, Accept, Complete, Fail, Listener, SaveFailedJob,
                      UpdateFailedJob, DeleteOnSuccess, In
  <2>2. jobs'[j].from = jobs[j].from /\ \A k \in Jobs : k # j => jobs'[k] = jobs[k]
    <3>1. ASSUME NEW state, Move(j, state)
          PROVE  jobs'[j].from = jobs[j].from /\ \A k \in Jobs : k # j => jobs'[k] = jobs[k]
      BY <2>1, <3>1 DEF Move, Job, IInv, TypeOK
    <3>2. CASE Fail(j)
      BY <2>1, <3>2 DEF Fail, AfterFailure, Job, IInv, TypeOK
    <3>3. QED
      BY <1>3, <3>1, <3>2 DEF Worker, Take, Accept, Complete, Listener, SaveFailedJob,
                              UpdateFailedJob, DeleteOnSuccess
  <2>3. QED
    BY <1>0, <2>1, <2>2
<1>4. ASSUME NEW a \in Admins, AddRetry(a) PROVE Asking(e)' # Asking(e)
  <2>1. PICK j \in Jobs : jobs[j] = Null /\ jobs' = [jobs EXCEPT ![j] = RetryJob(a)]
    BY <1>4 DEF AddRetry
  <2>2. /\ req[a].pc = "add" /\ req'[a] = Idle
        /\ req[a].e \in Rows /\ req[a].mail \in Mails
    BY <1>0, <1>4 DEF AddRetry, IInv, RequestKnown
  <2>3. \A k \in Jobs : k # j => jobs'[k] = jobs[k]
    BY <2>1 DEF IInv, TypeOK
  <2>4. jobs'[j].from = req[a].e
    BY <2>1, <2>2 DEF RetryJob, NewJob, IInv, TypeOK
  <2>5. req[a].e = e
    BY <1>0, <2>3, <2>4
  <2>6. QED
    BY <2>2, <2>5 DEF Asking, Idle
<1>5. ASSUME Crash PROVE FALSE
  BY <1>0, <1>5, AfterCrashKeeps DEF Crash
<1>6. QED
  BY <1>1, <1>2, <1>3, <1>4, <1>5 DEF Next, Retry, Abandon, SetAbandoned

\* Only the listener of one of its retries makes it anything else.
LEMMA LeftAbandoned ==
    ASSUME IInv, Next, NEW e \in Rows, rows[e] # Null, rows[e].status = "abandoned",
           Retrying(e) = {}
    PROVE  rows'[e] = rows[e]
<1>0. rows \in [Rows -> FailedJob \cup {Null}] /\ rows[e] \in FailedJob
  BY DEF IInv, TypeOK
<1>1. ASSUME NEW j \in Jobs, SaveFailedJob(j) PROVE rows'[e] = rows[e]
  BY <1>0, <1>1 DEF SaveFailedJob
<1>2. ASSUME NEW j \in Jobs, UpdateFailedJob(j) \/ DeleteOnSuccess(j) PROVE rows'[e] = rows[e]
  <2>1. jobs[j] # Null /\ jobs[j].state # "settled"
    BY <1>2 DEF UpdateFailedJob, DeleteOnSuccess, In
  <2>2. jobs[j].from # e
    BY <2>1 DEF Retrying
  <2>3. QED
    BY <1>0, <1>2, <2>2 DEF UpdateFailedJob, DeleteOnSuccess
<1>3. ASSUME NEW a \in Admins, SetAbandoned(a) PROVE rows'[e] = rows[e]
  <2>1. [rows[e] EXCEPT !.status = "abandoned"] = rows[e]
    BY <1>0 DEF FailedJob
  <2>2. QED
    BY <1>0, <1>3, <2>1 DEF SetAbandoned
<1>4. QED
  BY <1>1, <1>2, <1>3
  DEF Next, Add, Worker, Take, Accept, Complete, Fail, Listener, Retry, Abandon, AddRetry, Crash

\* Once a row is abandoned, only the retries asked for before may still change
\* it, whatever the other administrators, the worker and the crashes do.
THEOREM AbandonDrainsHolds == Spec => AbandonDrains
<1>1. IInv /\ [Next]_vars =>
         [\A e \in Rows : rows[e] # Null /\ rows[e].status = "abandoned" =>
             /\ Asking(e)' \subseteq Asking(e)
             /\ Asking(e)' = Asking(e) => Retrying(e)' \subseteq Retrying(e)
             /\ Asking(e) = {} /\ Retrying(e) = {} => rows'[e] = rows[e]]_vars
  BY NobodyAsks, NothingQueued, LeftAbandoned
<1>2. QED
  BY <1>1, Invariance, PTL DEF Spec, AbandonDrains

=============================================================================
