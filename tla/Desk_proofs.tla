---------------------------- MODULE Desk_proofs ----------------------------
(***************************************************************************)
(* Proofs about Scrutin when one client serves the operations that change  *)
(* an election (OneDesk), for all values of the constants.  Candidates,    *)
(* voters and the roll are as concurrent as ever.                          *)
(***************************************************************************)
EXTENDS Scrutin_proofs

USE NullIsNoId, NullIsNoRow

ElectionPCs == HoldsElection \cup {"deleteElection"}

-----------------------------------------------------------------------------
(***************************************************************************)
(* What the steps of each service touch: one table, the request of their   *)
(* slot, and the places it may be in next.                                 *)
(***************************************************************************)
Moves(p, pcs) ==
    /\ \A q \in Procs : q # p => req'[q] = req[q]
    /\ req'[p].pc \in pcs \cup {"idle"}

RollTouches(p) ==
    Moves(p, RollPCs \cup BulkPCs) /\ UNCHANGED <<elections, candidacies, votes, now>>

CandidacyTouches(p) ==
    /\ Moves(p, SubmitPCs \cup HoldsCandidacy \cup {"deleteCandidacy"})
    /\ UNCHANGED <<elections, roll, votes, now>>

VoteTouches(p) ==
    Moves(p, CastPCs) /\ UNCHANGED <<elections, candidacies, roll, now>>

ElectionTouches(p) ==
    /\ Moves(p, ElectionPCs \cup {"insertElection"})
    /\ UNCHANGED <<candidacies, roll, votes, now>>

LEMMA ElectionFrame ==
    ASSUME IInv, NEW p \in Procs, ElectionNext(p)
    PROVE  ElectionTouches(p)
<1> USE DEF ElectionTouches, Moves, db, Goto, Finish, Idle, IInv, TypeOK, Request, ElectionPCs,
            HoldsElection
<1>1. ASSUME NEW s \in Scopes, NEW w \in Windows, Create(p, s, w) PROVE ElectionTouches(p)
  BY <1>1 DEF Create
<1>2. ASSUME NEW e \in Elections, NEW w \in Windows, Update(p, e, w) PROVE ElectionTouches(p)
  BY <1>2 DEF Update, HoldElection
<1>3. ASSUME NEW e \in Elections, Activate(p, e) PROVE ElectionTouches(p)
  BY <1>3 DEF Activate, HoldElection
<1>4. ASSUME NEW e \in Elections, Close(p, e) PROVE ElectionTouches(p)
  BY <1>4 DEF Close, HoldElection
<1>5. ASSUME NEW e \in Elections, PublishResults(p, e) PROVE ElectionTouches(p)
  BY <1>5 DEF PublishResults, HoldElection
<1>6. ASSUME NEW e \in Elections, Remove(p, e) PROVE ElectionTouches(p)
  BY <1>6 DEF Remove
<1>7. CASE CountCandidacies(p)
  BY <1>7 DEF CountCandidacies
<1>8. CASE CountRoll(p)
  <2>1. CASE Finish(p)
    BY <1>8, <2>1 DEF CountRoll
  <2>2. CASE Goto(p, "saveElection", [req[p] EXCEPT !.ent.status = "active"])
    <3> DEFINE r == [[req[p] EXCEPT !.ent.status = "active"] EXCEPT !.pc = "saveElection"]
    <3>1. r.pc = "saveElection" /\ req' = [req EXCEPT ![p] = r]
      BY <2>2
    <3> HIDE DEF r
    <3>2. QED
      BY <1>8, <3>1 DEF CountRoll
  <2>3. QED
    BY <1>8, <2>1, <2>2 DEF CountRoll
<1>9. CASE InsertElection(p)
  BY <1>9 DEF InsertElection
<1>10. CASE SaveElection(p)
  <2>1. CASE Finish(p)
    BY <1>10, <2>1 DEF SaveElection
  <2>2. ASSUME NEW cols, Goto(p, "writeElection", [req[p] EXCEPT !.cols = cols])
        PROVE  ElectionTouches(p)
    BY <1>10, <2>2 DEF SaveElection
  <2>3. QED
    BY <1>10, <2>1, <2>2 DEF SaveElection
<1>11. CASE WriteElection(p)
  BY <1>11 DEF WriteElection
<1>12. CASE DeleteElection(p)
  BY <1>12 DEF DeleteElection
<1>13. QED
  BY <1>1, <1>2, <1>3, <1>4, <1>5, <1>6, <1>7, <1>8, <1>9, <1>10, <1>11, <1>12 DEF ElectionNext

LEMMA RollFrame ==
    ASSUME IInv, NEW p \in Procs, RollNext(p)
    PROVE  RollTouches(p)
<1> USE DEF RollTouches, Moves, db, Goto, Finish, Idle, IInv, TypeOK, Request, RollPCs,
            BulkPCs
<1>1. ASSUME NEW e \in Elections, NEW u \in Users, Register(p, e, u) PROVE RollTouches(p)
  BY <1>1 DEF Register
<1>2. ASSUME NEW e \in Elections, NEW u \in Users, RemoveVoter(p, e, u) PROVE RollTouches(p)
  BY <1>2 DEF RemoveVoter
<1>3. ASSUME NEW e \in Elections, NEW us \in SUBSET Users, BulkRegister(p, e, us)
      PROVE  RollTouches(p)
  BY <1>3 DEF BulkRegister
<1>4. CASE FindEntry(p)
  BY <1>4 DEF FindEntry
<1>5. CASE InsertEntry(p)
  BY <1>5 DEF InsertEntry
<1>6. CASE FindEntries(p)
  <2>1. CASE Finish(p)
    BY <1>6, <2>1 DEF FindEntries
  <2>2. ASSUME NEW us, Goto(p, "insertEntries", [req[p] EXCEPT !.us = us])
        PROVE  RollTouches(p)
    BY <1>6, <2>2 DEF FindEntries
  <2>3. QED
    BY <1>6, <2>1, <2>2 DEF FindEntries
<1>7. CASE InsertEntries(p)
  BY <1>7 DEF InsertEntries
<1>8. CASE FindVoter(p)
  BY <1>8 DEF FindVoter
<1>9. CASE DeleteEntry(p)
  BY <1>9 DEF DeleteEntry
<1>10. QED
  BY <1>1, <1>2, <1>3, <1>4, <1>5, <1>6, <1>7, <1>8, <1>9 DEF RollNext

LEMMA CandidacyFrame ==
    ASSUME IInv, NEW p \in Procs, CandidacyNext(p)
    PROVE  CandidacyTouches(p)
<1> USE DEF CandidacyTouches, Moves, db, Goto, Finish, Idle, IInv, TypeOK, Request, SubmitPCs,
            HoldsCandidacy
<1>1. ASSUME NEW e \in Elections, NEW u \in Users, Submit(p, e, u) PROVE CandidacyTouches(p)
  BY <1>1 DEF Submit
<1>2. ASSUME NEW c \in Candidacies, UpdateCandidacy(p, c) PROVE CandidacyTouches(p)
  BY <1>2 DEF UpdateCandidacy, HoldCandidacy
<1>3. ASSUME NEW c \in Candidacies, Withdraw(p, c) PROVE CandidacyTouches(p)
  BY <1>3 DEF Withdraw
<1>4. ASSUME NEW c \in Candidacies, Approve(p, c) PROVE CandidacyTouches(p)
  BY <1>4 DEF Approve, HoldCandidacy
<1>5. ASSUME NEW c \in Candidacies, Reject(p, c) PROVE CandidacyTouches(p)
  BY <1>5 DEF Reject, HoldCandidacy
<1>6. CASE FindCandidacy(p)
  BY <1>6 DEF FindCandidacy
<1>7. CASE InsertCandidacy(p)
  BY <1>7 DEF InsertCandidacy
<1>8. CASE SaveCandidacy(p)
  <2>1. CASE Finish(p)
    BY <1>8, <2>1 DEF SaveCandidacy
  <2>2. ASSUME NEW cols, Goto(p, "writeCandidacy", [req[p] EXCEPT !.cols = cols])
        PROVE  CandidacyTouches(p)
    BY <1>8, <2>2 DEF SaveCandidacy
  <2>3. QED
    BY <1>8, <2>1, <2>2 DEF SaveCandidacy
<1>9. CASE WriteCandidacy(p)
  BY <1>9 DEF WriteCandidacy
<1>10. CASE DeleteCandidacy(p)
  BY <1>10 DEF DeleteCandidacy
<1>11. QED
  BY <1>1, <1>2, <1>3, <1>4, <1>5, <1>6, <1>7, <1>8, <1>9, <1>10 DEF CandidacyNext

LEMMA VoteFrame ==
    ASSUME IInv, NEW p \in Procs, VoteNext(p)
    PROVE  VoteTouches(p)
<1> USE DEF VoteTouches, Moves, db, Goto, Finish, Idle, IInv, TypeOK, Request, CastPCs
<1>1. ASSUME NEW e \in Elections, NEW u \in Users, NEW c \in Candidacies,
             Cast(p, e, u, c)
      PROVE  VoteTouches(p)
  BY <1>1 DEF Cast
<1>2. CASE IsRegistered(p)
  BY <1>2 DEF IsRegistered
<1>3. CASE LoadCandidacy(p)
  BY <1>3 DEF LoadCandidacy
<1>4. CASE FindVote(p)
  BY <1>4 DEF FindVote
<1>5. CASE InsertVote(p)
  BY <1>5 DEF InsertVote
<1>6. QED
  BY <1>1, <1>2, <1>3, <1>4, <1>5 DEF VoteNext

LEMMA AbortFrame ==
    ASSUME IInv, NEW p \in Procs, Abort(p)
    PROVE  Moves(p, {}) /\ UNCHANGED <<db, now>>
BY DEF Abort, Moves, Finish, Idle, IInv, TypeOK

-----------------------------------------------------------------------------
\* A request of p moves on, and no election that another request holds changes.
LEMMA DeskStep ==
    ASSUME IInv, DeskKnown, NEW p \in Procs,
           \A q \in Procs : q # p => req'[q] = req[q],
           req'[p].pc \in ElectionPCs => Desk(p),
           DeskRequest(req[p])',
           \A q \in Procs : q # p /\ req[q].pc \in ElectionPCs =>
              elections'[req[q].e] = elections[req[q].e]
    PROVE  DeskKnown'
<1> SUFFICES ASSUME NEW q \in Procs
             PROVE  /\ req'[q].pc \in ElectionPCs => Desk(q)
                    /\ DeskRequest(req[q])'
  BY DEF DeskKnown, ElectionPCs, Desk, Serving
<1>1. CASE q = p
  BY <1>1
<1>2. CASE q # p
  BY <1>2 DEF DeskKnown, DeskRequest, ElectionPCs, HoldsElection
<1>3. QED
  BY <1>1, <1>2

\* A step outside of the operations on elections.
LEMMA ElsewhereStep ==
    ASSUME IInv, DeskKnown, NEW p \in Procs, UNCHANGED elections,
           \A q \in Procs : q # p => req'[q] = req[q],
           req'[p].pc \notin ElectionPCs
    PROVE  DeskKnown'
BY DeskStep DEF DeskRequest, ElectionPCs, HoldsElection

LEMMA DeskFinish ==
    ASSUME IInv, DeskKnown, NEW p \in Procs, UNCHANGED elections, Finish(p)
    PROVE  DeskKnown'
BY ElsewhereStep DEF Finish, IInv, TypeOK, Idle, ElectionPCs, HoldsElection

-----------------------------------------------------------------------------
\* A write of the desk is a step forward of the election it writes.
LEMMA ForwardWrite ==
    ASSUME IInv, DeskKnown, NEW p \in Procs, WriteElection(p) \/ DeleteElection(p)
    PROVE  /\ Desk(p)
           /\ req[p].e \in Elections
           /\ elections[req[p].e] \in ElectionRow
           /\ \A e \in Elections : e # req[p].e => elections'[e] = elections[e]
           /\ elections'[req[p].e] # Null
           /\ Forward(elections[req[p].e], elections'[req[p].e])
<1> DEFINE e == req[p].e
           row == elections[e]
<1>0. /\ elections \in [Elections -> ElectionRow \cup {Null}]
      /\ req[p] \in Request
      /\ ElectionKnown(req[p])
      /\ DeskRequest(req[p])
      /\ req[p].pc \in ElectionPCs => Desk(p)
  BY DEF IInv, TypeOK, RequestsKnown, DeskKnown, ElectionPCs
<1>1. e \in Elections /\ row \in ElectionRow /\ req[p].pc \in ElectionPCs
  BY <1>0 DEF WriteElection, DeleteElection, At, ElectionKnown, ElectionPCs, HoldsElection
<1>2. CASE WriteElection(p)
  <2>1. elections' = [elections EXCEPT ![e] = Written(row, req[p].ent, req[p].cols)]
    BY <1>2 DEF WriteElection
  <2>2. Forward(row, Written(row, req[p].ent, req[p].cols))
    BY <1>0, <1>2 DEF WriteElection, At, DeskRequest
  <2>3. Written(row, req[p].ent, req[p].cols) \in ElectionRow
    BY <1>0, <1>1, <1>2, ElectionWritten DEF WriteElection, At, ElectionKnown, HoldsElection
  <2>4. QED
    BY <1>0, <1>1, <2>1, <2>2, <2>3
<1>3. CASE DeleteElection(p)
  <2> DEFINE new == [row EXCEPT !.deleted = TRUE]
  <2>1. elections' = [elections EXCEPT ![e] = new]
    BY <1>3 DEF DeleteElection
  <2>2. new \in ElectionRow
    BY <1>1 DEF ElectionRow
  <2>3. Forward(row, new)
    BY <1>0, <1>1, <1>3 DEF DeleteElection, At, DeskRequest, ElectionRow, Forward, NextStatus
  <2>4. QED
    BY <1>0, <1>1, <2>1, <2>2, <2>3
<1>4. QED
  BY <1>2, <1>3

\* A handler of the desk goes on with r, which what it knows allows.
LEMMA DeskGoto ==
    ASSUME IInv, DeskKnown, NEW p \in Procs, UNCHANGED elections, Desk(p),
           NEW r, req' = [req EXCEPT ![p] = r], DeskRequest(r)
    PROVE  DeskKnown'
<1>1. req'[p] = r /\ \A q \in Procs : q # p => req'[q] = req[q]
  BY DEF IInv, TypeOK
<1>2. DeskRequest(req[p])'
  BY <1>1 DEF DeskRequest
<1>3. QED
  BY <1>1, <1>2, DeskStep

\* The handlers that load an election keep a copy that is a step forward of it.
LEMMA DeskLoads ==
    ASSUME IInv, DeskKnown, NEW p \in Procs, NEW e \in Elections,
           NEW row \in ElectionRow, LoadedAs(e, elections[e].status),
           Forward(elections[e], row), Desk(p),
           HoldElection(p, e, row, "saveElection")
    PROVE  DeskKnown'
<1> DEFINE r == [[Idle EXCEPT !.e = e, !.ent = row] EXCEPT !.pc = "saveElection"]
<1>1. r.e = e /\ r.ent = row /\ r.pc = "saveElection"
  BY DEF Idle
<1>2. DeskRequest(r)
  BY <1>1 DEF DeskRequest
<1>3. QED
  BY <1>2, DeskGoto DEF HoldElection, Goto, db

LEMMA DeskElectionStep ==
    ASSUME IInv, OneDesk, DeskKnown, NEW p \in Procs, ElectionNext(p)
    PROVE  DeskKnown'
<1>0. /\ TypeOK
      /\ req[p] \in Request
      /\ ElectionKnown(req[p])
      /\ DeskRequest(req[p])
      /\ req[p].pc \in ElectionPCs => Desk(p)
  BY DEF IInv, TypeOK, RequestsKnown, DeskKnown, ElectionPCs
<1>1. ASSUME NEW s \in Scopes, NEW w \in Windows, Create(p, s, w) PROVE DeskKnown'
  <2>1. /\ UNCHANGED elections
        /\ \A q \in Procs : q # p => req'[q] = req[q]
        /\ req'[p].pc \notin ElectionPCs
    BY <1>0, <1>1 DEF Create, TypeOK, db, Goto, Idle, ElectionPCs, HoldsElection
  <2>2. QED
    BY <2>1, ElsewhereStep
<1>2. CASE InsertElection(p)
  <2>1. /\ req'[p].pc \notin ElectionPCs
        /\ \A q \in Procs : q # p => req'[q] = req[q]
    BY <1>0, <1>2 DEF InsertElection, Finish, Idle, TypeOK, ElectionPCs, HoldsElection
  <2>2. \A q \in Procs : q # p /\ req[q].pc \in ElectionPCs =>
           elections'[req[q].e] = elections[req[q].e]
    BY <1>0, <1>2 DEF InsertElection, TypeOK, IInv, RequestsKnown, ElectionKnown, ElectionPCs
  <2>3. QED
    BY <2>1, <2>2, DeskStep DEF DeskRequest, ElectionPCs, HoldsElection
<1>3. ASSUME NEW e \in Elections, NEW w \in Windows, Update(p, e, w) PROVE DeskKnown'
  <2> DEFINE old    == elections[e]
             starts == IF w.starts # Null THEN w.starts ELSE old.starts
             ends   == IF w.ends # Null THEN w.ends ELSE old.ends
             new    == [old EXCEPT !.starts = starts, !.ends = ends]
  <2>1. old \in ElectionRow /\ old.status = "draft" /\ ~old.deleted /\ Desk(p)
    BY <1>0, <1>3 DEF Update, TypeOK, LoadedAs, FoundElection, Accepts, Desk, Serving,
                        ElectionWriters
  <2>2. starts \in Time \cup {Null} /\ ends \in Time \cup {Null}
    BY <2>1, WindowsAssumption DEF Window, ElectionRow
  <2>3. new \in ElectionRow /\ Forward(old, new)
    BY <2>1, <2>2 DEF ElectionRow, Forward, NextStatus
  <2>4. HoldElection(p, e, new, "saveElection")
    BY <1>3 DEF Update
  <2>5. QED
    BY <1>3, <2>1, <2>3, <2>4, DeskLoads DEF Update, LoadedAs
<1>4. ASSUME NEW e \in Elections, Activate(p, e) PROVE DeskKnown'
  <2> DEFINE r == [[Idle EXCEPT !.e = e, !.ent = elections[e]] EXCEPT !.pc = "countCandidacies"]
  <2>1. Desk(p)
    BY <1>4 DEF Activate, Accepts, Desk, Serving, ElectionWriters
  <2>2. r.e = e /\ r.ent = elections[e] /\ r.pc = "countCandidacies"
    BY DEF Idle
  <2>3. DeskRequest(r)
    BY <1>4, <2>2 DEF DeskRequest, Activate, LoadedAs, FoundElection
  <2>4. QED
    BY <1>4, <2>1, <2>3, DeskGoto DEF Activate, HoldElection, Goto, db
<1>5. ASSUME NEW e \in Elections, Close(p, e) PROVE DeskKnown'
  <2> DEFINE old == elections[e]
             new == [old EXCEPT !.status = "closed"]
  <2>1. old \in ElectionRow /\ old.status = "active" /\ ~old.deleted /\ Desk(p)
    BY <1>0, <1>5 DEF Close, TypeOK, LoadedAs, FoundElection, Accepts, Desk, Serving,
                        ElectionWriters
  <2>2. new \in ElectionRow /\ Forward(old, new)
    BY <2>1 DEF ElectionRow, Forward, NextStatus, Status
  <2>3. QED
    BY <1>5, <2>1, <2>2, DeskLoads DEF Close, LoadedAs
<1>6. ASSUME NEW e \in Elections, PublishResults(p, e) PROVE DeskKnown'
  <2> DEFINE old == elections[e]
             new == [old EXCEPT !.published = TRUE]
  <2>1. old \in ElectionRow /\ old.status = "closed" /\ ~old.deleted /\ Desk(p)
    BY <1>0, <1>6
    DEF PublishResults, TypeOK, LoadedAs, FoundElection, Accepts, Desk, Serving, ElectionWriters
  <2>2. new \in ElectionRow /\ Forward(old, new)
    BY <2>1 DEF ElectionRow, Forward, NextStatus
  <2>3. QED
    BY <1>6, <2>1, <2>2, DeskLoads DEF PublishResults, LoadedAs
<1>7. ASSUME NEW e \in Elections, Remove(p, e) PROVE DeskKnown'
  <2> DEFINE r == [[Idle EXCEPT !.e = e] EXCEPT !.pc = "deleteElection"]
  <2>1. Desk(p)
    BY <1>7 DEF Remove, Accepts, Desk, Serving, ElectionWriters
  <2>2. r.e = e /\ r.pc = "deleteElection"
    BY DEF Idle
  <2>3. DeskRequest(r)
    BY <1>7, <2>2 DEF DeskRequest, Remove, LoadedAs, FoundElection
  <2>4. QED
    BY <1>7, <2>1, <2>3, DeskGoto DEF Remove, Goto, db
<1>8. CASE CountCandidacies(p)
  <2> DEFINE r == [req[p] EXCEPT !.pc = "countRoll"]
  <2>1. CASE Goto(p, "countRoll", req[p])
    <3>1. r.e = req[p].e /\ r.ent = req[p].ent /\ r.pc = "countRoll"
      BY <1>0 DEF Request
    <3>2. DeskRequest(r) /\ Desk(p)
      BY <1>0, <1>8, <3>1 DEF DeskRequest, CountCandidacies, At, ElectionPCs, HoldsElection
    <3>3. QED
      BY <1>8, <2>1, <3>2, DeskGoto DEF CountCandidacies, Goto, db
  <2>2. CASE Finish(p)
    BY <1>8, <2>2, DeskFinish DEF CountCandidacies, db
  <2>3. QED
    BY <1>8, <2>1, <2>2 DEF CountCandidacies
<1>9. CASE CountRoll(p)
  <2> DEFINE row == [req[p].ent EXCEPT !.status = "active"]
             r == [[req[p] EXCEPT !.ent.status = "active"] EXCEPT !.pc = "saveElection"]
  <2>1. CASE Goto(p, "saveElection", [req[p] EXCEPT !.ent.status = "active"])
    <3>1. r.e = req[p].e /\ r.ent = row /\ r.pc = "saveElection"
      BY <1>0 DEF Request
    <3>2. /\ req[p].ent \in ElectionRow
          /\ req[p].ent = elections[req[p].e]
          /\ req[p].ent.status = "draft"
          /\ ~req[p].ent.deleted
          /\ Desk(p)
      BY <1>0, <1>9
      DEF CountRoll, At, ElectionKnown, HoldsElection, DeskRequest, ElectionPCs
    <3>3. Forward(req[p].ent, row)
      BY <3>2 DEF ElectionRow, Forward, NextStatus
    <3>4. DeskRequest(r)
      BY <3>1, <3>2, <3>3 DEF DeskRequest
    <3>5. QED
      BY <1>9, <2>1, <3>2, <3>4, DeskGoto DEF CountRoll, Goto, db
  <2>2. CASE Finish(p)
    BY <1>9, <2>2, DeskFinish DEF CountRoll, db
  <2>3. QED
    BY <1>9, <2>1, <2>2 DEF CountRoll
<1>10. CASE SaveElection(p)
  <2> DEFINE row  == elections[req[p].e]
             ent  == req[p].ent
             cols == Dirty(ent, row)
             r    == [[req[p] EXCEPT !.cols = cols] EXCEPT !.pc = "writeElection"]
  <2>1. CASE Goto(p, "writeElection", [req[p] EXCEPT !.cols = cols])
    <3>1. r.e = req[p].e /\ r.ent = ent /\ r.pc = "writeElection" /\ r.cols = cols
      BY <1>0 DEF Request
    <3>2. row \in ElectionRow /\ ent \in ElectionRow /\ Forward(row, ent) /\ Desk(p)
      BY <1>0, <1>10
      DEF SaveElection, At, ElectionKnown, HoldsElection, DeskRequest, ElectionPCs, TypeOK
    <3>3. Written(row, ent, cols) = ent
      BY <3>2 DEF Written, Dirty, ElectionRow
    <3>4. DeskRequest(r)
      BY <3>1, <3>2, <3>3 DEF DeskRequest
    <3>5. QED
      BY <1>10, <2>1, <3>2, <3>4, DeskGoto DEF SaveElection, Goto, db
  <2>2. CASE Finish(p)
    BY <1>10, <2>2, DeskFinish DEF SaveElection, db
  <2>3. QED
    BY <1>10, <2>1, <2>2 DEF SaveElection
\* Nobody else holds an election: it is the desk that writes.
<1>11. CASE WriteElection(p) \/ DeleteElection(p)
  <2>1. /\ req'[p].pc \notin ElectionPCs
        /\ \A q \in Procs : q # p => req'[q] = req[q]
    BY <1>0, <1>11
    DEF WriteElection, DeleteElection, Finish, Idle, TypeOK, ElectionPCs, HoldsElection
  <2>2. \A q \in Procs : q # p => req[q].pc \notin ElectionPCs
    BY <1>11, ForwardWrite DEF OneDesk, OneClient, Desk, DeskKnown, ElectionPCs
  <2>3. QED
    BY <2>1, <2>2, DeskStep DEF DeskRequest, ElectionPCs, HoldsElection
<1>12. QED
  BY <1>1, <1>2, <1>3, <1>4, <1>5, <1>6, <1>7, <1>8, <1>9, <1>10, <1>11 DEF ElectionNext

-----------------------------------------------------------------------------
LEMMA DeskInit == Init => DeskKnown
BY DEF Init, DeskKnown, DeskRequest, Idle, HoldsElection

LEMMA DeskNext == OneDesk /\ IInv /\ DeskKnown /\ [Next]_vars => DeskKnown'
<1> SUFFICES ASSUME OneDesk, IInv, DeskKnown, [Next]_vars PROVE DeskKnown'
  OBVIOUS
<1>1. ASSUME NEW p \in Procs, RollNext(p) \/ CandidacyNext(p) \/ VoteNext(p)
      PROVE  DeskKnown'
  <2>1. RollTouches(p) \/ CandidacyTouches(p) \/ VoteTouches(p)
    BY <1>1, RollFrame, CandidacyFrame, VoteFrame
  <2>2. /\ UNCHANGED elections
        /\ \A q \in Procs : q # p => req'[q] = req[q]
        /\ req'[p].pc \notin ElectionPCs
    BY <2>1 DEF RollTouches, CandidacyTouches, VoteTouches, Moves, ElectionPCs,
                HoldsElection, RollPCs, BulkPCs, SubmitPCs, HoldsCandidacy, CastPCs
  <2>3. QED
    BY <2>2, ElsewhereStep
<1>2. ASSUME NEW p \in Procs, Abort(p) PROVE DeskKnown'
  BY <1>2, DeskFinish DEF Abort, db
<1>3. CASE Tick \/ UNCHANGED vars
  BY <1>3 DEF Tick, vars, db, DeskKnown, DeskRequest
<1>4. QED
  BY <1>1, <1>2, <1>3, DeskElectionStep DEF Next

\* Every step takes every election forward.
LEMMA ForwardStep ==
    ASSUME IInv, DeskKnown, [Next]_vars, NEW e \in Elections, elections[e] # Null
    PROVE  elections'[e] # Null /\ Forward(elections[e], elections'[e])
<1>0. elections[e] \in ElectionRow /\ Forward(elections[e], elections[e])
  BY DEF IInv, TypeOK, Forward, NextStatus
<1>1. CASE elections'[e] = elections[e]
  BY <1>0, <1>1
<1>2. ASSUME NEW p \in Procs, InsertElection(p) PROVE elections'[e] = elections[e]
  BY <1>2 DEF InsertElection, IInv, TypeOK
<1>3. ASSUME NEW p \in Procs, WriteElection(p) \/ DeleteElection(p)
      PROVE  elections'[e] # Null /\ Forward(elections[e], elections'[e])
  BY <1>0, <1>3, ForwardWrite
<1>4. ASSUME NEW p \in Procs, ElectionNext(p),
             ~InsertElection(p), ~WriteElection(p), ~DeleteElection(p)
      PROVE  UNCHANGED elections
  BY <1>4 DEF ElectionNext, Create, Update, Activate, Close, PublishResults, Remove,
              HoldElection, CountCandidacies, CountRoll, SaveElection, db
<1>5. ASSUME NEW p \in Procs, RollNext(p) \/ CandidacyNext(p) \/ VoteNext(p)
      PROVE  UNCHANGED elections
  BY <1>5, RollFrame, CandidacyFrame, VoteFrame
  DEF RollTouches, CandidacyTouches, VoteTouches
<1>6. QED
  BY <1>1, <1>2, <1>3, <1>4, <1>5 DEF Next, Abort, Tick, vars, db

\* With one client for the operations that change an election, its life cycle
\* only goes forward: draft, active, closed, published.
THEOREM LifecycleHolds == ASSUME OneDesk PROVE Spec => LifecycleForward
<1>1. IInv /\ DeskKnown /\ [Next]_vars =>
         [\A e \in Elections : elections[e] # Null =>
             elections'[e] # Null /\ Forward(elections[e], elections'[e])]_vars
  BY ForwardStep
<1>2. IInv /\ DeskKnown /\ [Next]_vars => DeskKnown'
  BY DeskNext
<1>3. QED
  BY <1>1, <1>2, DeskInit, Invariance, PTL DEF Spec, LifecycleForward

-----------------------------------------------------------------------------
\* A step of VoteService on an election whose voting is closed.
LEMMA ClosedCastStep ==
    ASSUME IInv, NEW p \in Procs, VoteNext(p), NEW e \in Elections, Closed(e)
    PROVE  /\ CastsInFlight(e)' \subseteq CastsInFlight(e)
           /\ CastsInFlight(e) = {} => Ballots(e)' = Ballots(e)
<1> USE DEF CastsInFlight, Ballots
<1>0. TypeOK /\ req[p] \in Request
  BY DEF IInv, TypeOK
<1>1. ASSUME NEW f \in Elections, NEW u \in Users, NEW c \in Candidacies, Cast(p, f, u, c)
      PROVE  UNCHANGED votes /\ CastsInFlight(e)' \subseteq CastsInFlight(e)
  <2>1. f # e /\ UNCHANGED votes
    BY <1>1 DEF Cast, VotingOpen, Closed, db
  <2>2. req'[p].e = f /\ \A q \in Procs : q # p => req'[q] = req[q]
    BY <1>0, <1>1 DEF Cast, Goto, Idle, TypeOK
  <2>3. QED
    BY <2>1, <2>2
<1>2. CASE IsRegistered(p) \/ LoadCandidacy(p) \/ FindVote(p) \/ InsertVote(p)
  <2>1. /\ p \in CastsInFlight(req[p].e)
        /\ req'[p].pc \in CastPCs => req'[p].e = req[p].e
        /\ \A q \in Procs : q # p => req'[q] = req[q]
    BY <1>0, <1>2
    DEF IsRegistered, LoadCandidacy, FindVote, InsertVote, At, Goto, Finish, Idle,
        TypeOK, Request, CastPCs
  <2>2. CastsInFlight(e)' \subseteq CastsInFlight(e)
    BY <2>1
  <2>3. ASSUME req[p].e # e PROVE Ballots(e)' = Ballots(e)
    BY <1>2, <2>3 DEF IsRegistered, LoadCandidacy, FindVote, InsertVote, db
  <2>4. QED
    BY <2>1, <2>2, <2>3
<1>3. QED
  BY <1>1, <1>2 DEF VoteNext

LEMMA DrainStep ==
    ASSUME IInv, DeskKnown, [Next]_vars, NEW e \in Elections, Closed(e)
    PROVE  /\ Closed(e)'
           /\ CastsInFlight(e)' \subseteq CastsInFlight(e)
           /\ CastsInFlight(e) = {} => Ballots(e)' = Ballots(e)
<1>1. Closed(e)'
  BY ForwardStep DEF Closed, Forward, NextStatus
<1>2. ASSUME NEW p \in Procs,
             ElectionNext(p) \/ RollNext(p) \/ CandidacyNext(p) \/ Abort(p)
      PROVE  CastsInFlight(e)' \subseteq CastsInFlight(e) /\ Ballots(e)' = Ballots(e)
  <2>1. \/ ElectionTouches(p) \/ RollTouches(p) \/ CandidacyTouches(p)
        \/ Moves(p, {}) /\ UNCHANGED votes
    BY <1>2, ElectionFrame, RollFrame, CandidacyFrame, AbortFrame DEF db
  <2>2. /\ UNCHANGED votes
        /\ req'[p].pc \notin CastPCs
        /\ \A q \in Procs : q # p => req'[q] = req[q]
    BY <2>1 DEF ElectionTouches, RollTouches, CandidacyTouches, Moves, ElectionPCs,
                HoldsElection, RollPCs, BulkPCs, SubmitPCs, HoldsCandidacy, CastPCs
  <2>3. QED
    BY <2>2 DEF CastsInFlight, Ballots
<1>3. CASE Tick \/ UNCHANGED vars
  <2>1. Ballots(e)' = Ballots(e)
    BY <1>3 DEF Tick, vars, db, Ballots
  <2>2. CastsInFlight(e)' = CastsInFlight(e)
    BY <1>3 DEF Tick, vars, CastsInFlight
  <2>3. QED
    BY <1>1, <2>1, <2>2
<1>4. QED
  BY <1>1, <1>2, <1>3, ClosedCastStep DEF Next

\* With one client for the operations that change an election, closing it ends
\* the voting: the casts in flight drain, no other is admitted, and then the
\* tally does not change.
THEOREM ClosedElectionDrainsHolds == ASSUME OneDesk PROVE Spec => ClosedElectionDrains
<1>1. IInv /\ DeskKnown /\ [Next]_vars =>
         [\A e \in Elections : Closed(e) =>
             /\ Closed(e)'
             /\ CastsInFlight(e)' \subseteq CastsInFlight(e)
             /\ CastsInFlight(e) = {} => Ballots(e)' = Ballots(e)]_vars
  BY DrainStep
<1>2. IInv /\ DeskKnown /\ [Next]_vars => DeskKnown'
  BY DeskNext
<1>3. QED
  BY <1>1, <1>2, DeskInit, Invariance, PTL DEF Spec, ClosedElectionDrains

-----------------------------------------------------------------------------
(***************************************************************************)
(* The roll, edited by as many clients as there are.                       *)
(***************************************************************************)
\* A step of ElectoralRollService on an election that is closed.
LEMMA ClosedRollStep ==
    ASSUME IInv, NEW p \in Procs, RollNext(p), NEW e \in Elections, Closed(e)
    PROVE  /\ RollEdits(e)' \subseteq RollEdits(e)
           /\ RollEdits(e) = {} => RollOf(e)' = RollOf(e)
<1> USE DEF RollEdits
<1>0. TypeOK /\ req[p] \in Request /\ \A q \in Procs : q # p => req'[q] = req[q]
  BY RollFrame DEF IInv, TypeOK, RollTouches, Moves
\* Nobody is admitted to it.
<1>1. ASSUME NEW f \in Elections, OpenForRoll(f), UNCHANGED roll, req'[p].e = f
      PROVE  RollEdits(e)' \subseteq RollEdits(e) /\ RollOf(e)' = RollOf(e)
  <2>1. f # e
    BY <1>1 DEF OpenForRoll, Closed
  <2>2. QED
    BY <1>0, <1>1, <2>1 DEF RollOf
<1>2. ASSUME NEW f \in Elections, NEW u \in Users, Register(p, f, u) \/ RemoveVoter(p, f, u)
      PROVE  RollEdits(e)' \subseteq RollEdits(e) /\ RollOf(e)' = RollOf(e)
  <2>1. OpenForRoll(f) /\ UNCHANGED roll /\ req'[p].e = f
    BY <1>0, <1>2 DEF Register, RemoveVoter, db, Goto, Idle, TypeOK
  <2>2. QED
    BY <1>1, <2>1
<1>3. ASSUME NEW f \in Elections, NEW us \in SUBSET Users, BulkRegister(p, f, us)
      PROVE  RollEdits(e)' \subseteq RollEdits(e) /\ RollOf(e)' = RollOf(e)
  <2>1. OpenForRoll(f) /\ UNCHANGED roll /\ req'[p].e = f
    BY <1>0, <1>3 DEF BulkRegister, db, Goto, Idle, TypeOK
  <2>2. QED
    BY <1>1, <2>1
\* Who was, goes on in the same election.
<1>4. ASSUME \/ FindEntry(p) \/ InsertEntry(p) \/ FindEntries(p)
             \/ InsertEntries(p) \/ FindVoter(p) \/ DeleteEntry(p)
      PROVE  /\ RollEdits(e)' \subseteq RollEdits(e)
             /\ RollEdits(e) = {} => RollOf(e)' = RollOf(e)
  <2>1. p \in RollEdits(req[p].e)
    BY <1>4 DEF FindEntry, InsertEntry, FindEntries, InsertEntries, FindVoter, DeleteEntry,
                At, RollPCs, BulkPCs
  <2>2. req'[p].pc \in RollPCs \cup BulkPCs => req'[p].e = req[p].e
    <3>1. ASSUME NEW us, Goto(p, "insertEntries", [req[p] EXCEPT !.us = us])
          PROVE  req'[p].e = req[p].e
      BY <1>0, <3>1 DEF Goto, TypeOK, Request
    <3>2. ASSUME Finish(p)
          PROVE  req'[p].pc \notin RollPCs \cup BulkPCs
      BY <1>0, <3>2 DEF Finish, Idle, TypeOK, RollPCs, BulkPCs
    <3>3. ASSUME NEW pc, Goto(p, pc, req[p])
          PROVE  req'[p].e = req[p].e
      BY <1>0, <3>3 DEF Goto, TypeOK, Request
    <3>4. QED
      BY <1>4, <3>1, <3>2, <3>3
      DEF FindEntry, InsertEntry, FindEntries, InsertEntries, FindVoter, DeleteEntry
  <2>3. ASSUME req[p].e # e PROVE RollOf(e)' = RollOf(e)
    BY <1>4, <2>3 DEF FindEntry, InsertEntry, FindEntries, InsertEntries, FindVoter,
                      DeleteEntry, Entry, RollOf, db
  <2>4. QED
    BY <1>0, <2>1, <2>2, <2>3
<1>5. QED
  BY <1>2, <1>3, <1>4 DEF RollNext

LEMMA RollDrainStep ==
    ASSUME IInv, DeskKnown, [Next]_vars, NEW e \in Elections, Closed(e)
    PROVE  /\ Closed(e)'
           /\ RollEdits(e)' \subseteq RollEdits(e)
           /\ RollEdits(e) = {} => RollOf(e)' = RollOf(e)
<1>1. Closed(e)'
  BY ForwardStep DEF Closed, Forward, NextStatus
<1>2. ASSUME NEW p \in Procs,
             ElectionNext(p) \/ CandidacyNext(p) \/ VoteNext(p) \/ Abort(p)
      PROVE  RollEdits(e)' \subseteq RollEdits(e) /\ RollOf(e)' = RollOf(e)
  <2>1. \/ ElectionTouches(p) \/ CandidacyTouches(p) \/ VoteTouches(p)
        \/ Moves(p, {}) /\ UNCHANGED roll
    BY <1>2, ElectionFrame, CandidacyFrame, VoteFrame, AbortFrame DEF db
  <2>2. /\ UNCHANGED roll
        /\ req'[p].pc \notin RollPCs \cup BulkPCs
        /\ \A q \in Procs : q # p => req'[q] = req[q]
    BY <2>1 DEF ElectionTouches, CandidacyTouches, VoteTouches, Moves, ElectionPCs,
                HoldsElection, RollPCs, BulkPCs, SubmitPCs, HoldsCandidacy, CastPCs
  <2>3. QED
    BY <2>2 DEF RollEdits, RollOf
<1>3. CASE Tick \/ UNCHANGED vars
  <2>1. RollOf(e)' = RollOf(e)
    BY <1>3 DEF Tick, vars, db, RollOf
  <2>2. RollEdits(e)' = RollEdits(e)
    BY <1>3 DEF Tick, vars, RollEdits
  <2>3. QED
    BY <1>1, <2>1, <2>2
<1>4. QED
  BY <1>1, <1>2, <1>3, ClosedRollStep DEF Next

\* With one client for the operations that change an election, closing it ends
\* the editing of its roll: the edits in flight drain, one entry or many, no
\* other is admitted, and then the roll does not change.
THEOREM ClosedRollDrainsHolds == ASSUME OneDesk PROVE Spec => ClosedRollDrains
<1>1. IInv /\ DeskKnown /\ [Next]_vars =>
         [\A e \in Elections : Closed(e) =>
             /\ Closed(e)'
             /\ RollEdits(e)' \subseteq RollEdits(e)
             /\ RollEdits(e) = {} => RollOf(e)' = RollOf(e)]_vars
  BY RollDrainStep
<1>2. IInv /\ DeskKnown /\ [Next]_vars => DeskKnown'
  BY DeskNext
<1>3. QED
  BY <1>1, <1>2, DeskInit, Invariance, PTL DEF Spec, ClosedRollDrains

=============================================================================
