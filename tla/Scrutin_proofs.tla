--------------------------- MODULE Scrutin_proofs ---------------------------
(***************************************************************************)
(* Proofs about Scrutin: what holds under every interleaving, for all      *)
(* values of the constants.                                                *)
(***************************************************************************)
EXTENDS Scrutin, TLAPS

-----------------------------------------------------------------------------
(***************************************************************************)
(* save() on a row and an entity of the same table.                        *)
(***************************************************************************)
\* The UPDATE leaves a row of the table; a column that the entity and the row
\* agree on keeps its value.
LEMMA ElectionWritten ==
    ASSUME NEW row \in ElectionRow, NEW ent \in ElectionRow, NEW cols,
           ent.scope = row.scope
    PROVE  /\ Written(row, ent, cols) \in ElectionRow
           /\ Written(row, ent, cols).scope = row.scope
BY DEF Written, ElectionRow

\* The same of a candidacy, whose key is the pair (user, election).
LEMMA CandidacyWritten ==
    ASSUME NEW row \in CandidacyRow, NEW ent \in CandidacyRow, NEW cols,
           ent.user = row.user, ent.election = row.election
    PROVE  /\ Written(row, ent, cols) \in CandidacyRow
           /\ Written(row, ent, cols).user = row.user
           /\ Written(row, ent, cols).election = row.election
BY DEF Written, CandidacyRow

\* save() only writes columns of the table.
LEMMA DirtyColumns ==
    ASSUME NEW row, NEW ent \in ElectionRow \cup CandidacyRow
    PROVE  Dirty(ent, row) \subseteq Columns
BY DEF Dirty, ElectionRow, CandidacyRow, Columns

-----------------------------------------------------------------------------
(***************************************************************************)
(* The invariant and the steps that only move a request on.                *)
(***************************************************************************)
\* What a request knows of the tables; abbreviates the parts of RequestsKnown.
Known(r) == ElectionKnown(r) /\ ArgumentsKnown(r) /\ CandidacyKnown(r)

USE NullIsNoId, NullIsNoRow

LEMMA IdleIsRequest == Idle \in Request
BY DEF Idle, Request, PCs

\* An idle request knows nothing, before and after a step.
LEMMA IdleKnown == Known(Idle) /\ Known(Idle)'
BY DEF Known, Idle, ElectionKnown, ArgumentsKnown, CandidacyKnown, HoldsElection,
       RollPCs, BulkPCs, HoldsCandidacy, SubmitPCs, CastPCs

\* A step that reads the database and moves the request of p on to r.
LEMMA RequestStep ==
    ASSUME IInv, NEW p \in Procs, UNCHANGED <<db, now>>,
           NEW r \in Request, Known(r), req' = [req EXCEPT ![p] = r]
    PROVE  IInv'
<1> USE DEF db
<1>1. TypeOK'
  BY DEF IInv, TypeOK
<1>2. RequestsKnown'
  BY DEF IInv, TypeOK, RequestsKnown, Known, ElectionKnown, ArgumentsKnown, CandidacyKnown
<1>3. OneVotePerVoter' /\ BallotInItsElection' /\ OneRowPerKey'
  BY DEF IInv, OneVotePerVoter, BallotInItsElection, OneRowPerKey,
         OneElectionPerScope, OneCandidacyPerUser
<1>4. QED
  BY <1>1, <1>2, <1>3 DEF IInv

\* A handler that returns or throws without writing.
LEMMA FinishStep ==
    ASSUME IInv, NEW p \in Procs, UNCHANGED <<db, now>>, Finish(p)
    PROVE  IInv'
BY RequestStep, IdleIsRequest, IdleKnown DEF Finish

\* A step that writes one table and ends the request of p, when the rows that
\* existed still do, with the key they had.
LEMMA WriteStep ==
    ASSUME IInv, NEW p \in Procs, Finish(p), UNCHANGED now,
           elections' \in [Elections -> ElectionRow \cup {Null}],
           candidacies' \in [Candidacies -> CandidacyRow \cup {Null}],
           roll' \subseteq RollRow,
           votes' \subseteq VoteRow,
           \A e \in Elections : elections[e] # Null =>
              elections'[e] # Null /\ elections'[e].scope = elections[e].scope,
           \A c \in Candidacies : candidacies[c] # Null =>
              /\ candidacies'[c] # Null
              /\ candidacies'[c].user = candidacies[c].user
              /\ candidacies'[c].election = candidacies[c].election,
           OneVotePerVoter', BallotInItsElection', OneRowPerKey'
    PROVE  IInv'
<1>1. TypeOK'
  BY IdleIsRequest DEF IInv, TypeOK, Finish
<1>2. RequestsKnown'
  <2> SUFFICES ASSUME NEW q \in Procs PROVE Known(req[q])'
    BY DEF RequestsKnown, Known
  <2>1. CASE q = p
    BY <2>1, IdleKnown DEF IInv, TypeOK, Finish, Known, ElectionKnown, ArgumentsKnown,
                           CandidacyKnown
  <2>2. CASE q # p
    <3>1. req'[q] = req[q]
      BY <2>2 DEF IInv, TypeOK, Finish
    <3>2. ElectionKnown(req[q])'
      BY <3>1 DEF IInv, RequestsKnown, ElectionKnown
    <3>3. ArgumentsKnown(req[q])'
      BY <3>1 DEF IInv, RequestsKnown, ArgumentsKnown
    <3>4. CandidacyKnown(req[q])'
      BY <3>1 DEF IInv, RequestsKnown, CandidacyKnown, ArgumentsKnown, CastPCs
    <3>5. QED
      BY <3>2, <3>3, <3>4 DEF Known
  <2>3. QED
    BY <2>1, <2>2
<1>3. QED
  BY <1>1, <1>2 DEF IInv

-----------------------------------------------------------------------------
(***************************************************************************)
(* ElectionService.                                                        *)
(***************************************************************************)
\* Loading an election and changing the copy in memory.
LEMMA HoldElectionStep ==
    ASSUME IInv, NEW p \in Procs, NEW e \in Elections, elections[e] # Null,
           NEW row \in ElectionRow, row.scope = elections[e].scope,
           NEW pc \in HoldsElection, HoldElection(p, e, row, pc)
    PROVE  IInv'
<1> DEFINE r == [[Idle EXCEPT !.e = e, !.ent = row] EXCEPT !.pc = pc]
<1>1. r \in Request
  BY DEF Idle, Request, PCs, HoldsElection
<1>2. Known(r)
  BY DEF Known, ElectionKnown, ArgumentsKnown, CandidacyKnown, Idle, HoldsElection,
         RollPCs, BulkPCs, HoldsCandidacy, SubmitPCs, CastPCs
<1>3. QED
  BY <1>1, <1>2, RequestStep DEF HoldElection, Goto

LEMMA ElectionStep ==
    ASSUME IInv, NEW p \in Procs, ElectionNext(p)
    PROVE  IInv'
<1> USE DEF Known, ElectionKnown, ArgumentsKnown, CandidacyKnown, HoldsElection,
            RollPCs, BulkPCs, HoldsCandidacy, SubmitPCs, CastPCs
<1>0. /\ TypeOK
      /\ req[p] \in Request
      /\ Known(req[p])
  BY DEF IInv, TypeOK, RequestsKnown
<1>1. ASSUME NEW s \in Scopes, NEW w \in Windows, Create(p, s, w)
      PROVE  IInv'
  <2> DEFINE row == [scope |-> s, status |-> "draft",
                     starts |-> w.starts, ends |-> w.ends,
                     published |-> FALSE, deleted |-> FALSE]
             r == [[Idle EXCEPT !.ent = row] EXCEPT !.pc = "insertElection"]
  <2>1. row \in ElectionRow
    BY WindowsAssumption DEF ElectionRow, Status, Window
  <2>2. r \in Request
    BY <2>1 DEF Idle, Request, PCs
  <2>3. Known(r)
    BY <2>1 DEF Idle
  <2>4. QED
    BY <1>1, <2>2, <2>3, RequestStep DEF Create, Goto
<1>2. ASSUME NEW e \in Elections, NEW w \in Windows, Update(p, e, w)
      PROVE  IInv'
  <2> DEFINE starts == IF w.starts # Null THEN w.starts ELSE elections[e].starts
             ends   == IF w.ends # Null THEN w.ends ELSE elections[e].ends
             row    == [elections[e] EXCEPT !.starts = starts, !.ends = ends]
  <2>1. elections[e] # Null /\ elections[e] \in ElectionRow
    BY <1>0, <1>2 DEF TypeOK, Update, LoadedAs, FoundElection
  <2>2. row \in ElectionRow /\ row.scope = elections[e].scope
    BY <2>1, WindowsAssumption DEF ElectionRow, Window
  <2>3. HoldElection(p, e, row, "saveElection")
    BY <1>2 DEF Update
  <2>4. QED
    BY <2>1, <2>2, <2>3, HoldElectionStep
<1>3. ASSUME NEW e \in Elections, Activate(p, e)
      PROVE  IInv'
  <2>1. elections[e] # Null /\ elections[e] \in ElectionRow
    BY <1>0, <1>3 DEF TypeOK, Activate, LoadedAs, FoundElection
  <2>2. QED
    BY <1>3, <2>1, HoldElectionStep DEF Activate
<1>4. ASSUME NEW e \in Elections, Close(p, e)
      PROVE  IInv'
  <2>1. elections[e] # Null /\ elections[e] \in ElectionRow
    BY <1>0, <1>4 DEF TypeOK, Close, LoadedAs, FoundElection
  <2>2. /\ [elections[e] EXCEPT !.status = "closed"] \in ElectionRow
        /\ [elections[e] EXCEPT !.status = "closed"].scope = elections[e].scope
    BY <2>1 DEF ElectionRow, Status
  <2>3. QED
    BY <1>4, <2>1, <2>2, HoldElectionStep DEF Close
<1>5. ASSUME NEW e \in Elections, PublishResults(p, e)
      PROVE  IInv'
  <2>1. elections[e] # Null /\ elections[e] \in ElectionRow
    BY <1>0, <1>5 DEF TypeOK, PublishResults, LoadedAs, FoundElection
  <2>2. /\ [elections[e] EXCEPT !.published = TRUE] \in ElectionRow
        /\ [elections[e] EXCEPT !.published = TRUE].scope = elections[e].scope
    BY <2>1 DEF ElectionRow
  <2>3. QED
    BY <1>5, <2>1, <2>2, HoldElectionStep DEF PublishResults
<1>6. ASSUME NEW e \in Elections, Remove(p, e)
      PROVE  IInv'
  <2> DEFINE r == [[Idle EXCEPT !.e = e] EXCEPT !.pc = "deleteElection"]
  <2>1. r \in Request
    BY DEF Idle, Request, PCs
  <2>2. Known(r)
    BY <1>6 DEF Idle, Remove, LoadedAs, FoundElection
  <2>3. QED
    BY <1>6, <2>1, <2>2, RequestStep DEF Remove, Goto
<1>7. CASE CountCandidacies(p)
  <2> DEFINE r == [req[p] EXCEPT !.pc = "countRoll"]
  <2>1. r \in Request
    BY <1>0 DEF Request, PCs
  <2>2. Known(r)
    BY <1>0, <1>7 DEF CountCandidacies, At, Request
  <2>3. CASE Goto(p, "countRoll", req[p])
    BY <1>7, <2>1, <2>2, <2>3, RequestStep DEF CountCandidacies, Goto
  <2>4. CASE Finish(p)
    BY <1>7, <2>4, FinishStep DEF CountCandidacies
  <2>5. QED
    BY <1>7, <2>3, <2>4 DEF CountCandidacies
<1>8. CASE CountRoll(p)
  <2> DEFINE r == [[req[p] EXCEPT !.ent.status = "active"] EXCEPT !.pc = "saveElection"]
  <2>1. /\ [req[p].ent EXCEPT !.status = "active"] \in ElectionRow
        /\ [req[p].ent EXCEPT !.status = "active"].scope = req[p].ent.scope
    BY <1>0, <1>8 DEF CountRoll, At, ElectionRow, Status
  <2>2. r \in Request /\ r.ent = [req[p].ent EXCEPT !.status = "active"] /\ r.e = req[p].e
        /\ r.pc = "saveElection"
    BY <1>0, <2>1 DEF Request, PCs
  <2>3. Known(r)
    BY <1>0, <1>8, <2>1, <2>2 DEF CountRoll, At
  <2>4. CASE Goto(p, "saveElection", [req[p] EXCEPT !.ent.status = "active"])
    BY <1>8, <2>2, <2>3, <2>4, RequestStep DEF CountRoll, Goto
  <2>5. CASE Finish(p)
    BY <1>8, <2>5, FinishStep DEF CountRoll
  <2>6. QED
    BY <1>8, <2>4, <2>5 DEF CountRoll
<1>9. CASE SaveElection(p)
  <2> DEFINE cols == Dirty(req[p].ent, elections[req[p].e])
             r == [[req[p] EXCEPT !.cols = cols] EXCEPT !.pc = "writeElection"]
  <2>1. cols \in SUBSET Columns
    BY <1>0, <1>9, DirtyColumns DEF SaveElection, At
  <2>2. r \in Request
    BY <1>0, <2>1 DEF Request, PCs
  <2>3. Known(r)
    BY <1>0, <1>9 DEF SaveElection, At, Request
  <2>4. CASE Goto(p, "writeElection", [req[p] EXCEPT !.cols = cols])
    BY <1>9, <2>2, <2>3, <2>4, RequestStep DEF SaveElection, Goto
  <2>5. CASE Finish(p)
    BY <1>9, <2>5, FinishStep DEF SaveElection
  <2>6. QED
    BY <1>9, <2>4, <2>5 DEF SaveElection
<1>10. CASE InsertElection(p)
  <2>1. CASE UNCHANGED elections
    BY <1>10, <2>1, FinishStep DEF InsertElection, db
  <2>2. ASSUME NEW e \in Elections, elections[e] = Null,
               ~ScopeTaken(req[p].ent.scope),
               elections' = [elections EXCEPT ![e] = req[p].ent]
        PROVE  IInv'
    <3>1. req[p].ent \in ElectionRow /\ req[p].ent # Null
      BY <1>0, <1>10 DEF InsertElection, At
    <3>2. OneElectionPerScope'
      BY <1>0, <2>2, <3>1 DEF IInv, OneRowPerKey, OneElectionPerScope, ScopeTaken, TypeOK
    <3>3. OneVotePerVoter' /\ BallotInItsElection' /\ OneCandidacyPerUser'
      BY <1>10 DEF InsertElection, IInv, OneRowPerKey, OneVotePerVoter, BallotInItsElection,
                   OneCandidacyPerUser
    <3>4. QED
      BY <1>0, <1>10, <2>2, <3>1, <3>2, <3>3, WriteStep
      DEF InsertElection, OneRowPerKey, TypeOK
  <2>3. QED
    BY <1>10, <2>1, <2>2 DEF InsertElection
<1>11. CASE WriteElection(p)
  <2> DEFINE e == req[p].e
             row == Written(elections[e], req[p].ent, req[p].cols)
  <2>1. e \in Elections /\ elections[e] # Null /\ elections[e] \in ElectionRow
    BY <1>0, <1>11 DEF WriteElection, At, TypeOK
  <2>2. row \in ElectionRow /\ row.scope = elections[e].scope /\ row # Null
    BY <1>0, <1>11, <2>1, ElectionWritten DEF WriteElection, At
  <2>3. elections' = [elections EXCEPT ![e] = row]
    BY <1>11 DEF WriteElection
  <2>4. OneElectionPerScope'
    BY <1>0, <2>1, <2>2, <2>3 DEF IInv, OneRowPerKey, OneElectionPerScope, TypeOK
  <2>5. OneVotePerVoter' /\ BallotInItsElection' /\ OneCandidacyPerUser'
    BY <1>11 DEF WriteElection, IInv, OneRowPerKey, OneVotePerVoter, BallotInItsElection,
                 OneCandidacyPerUser
  <2>6. QED
    BY <1>0, <1>11, <2>1, <2>2, <2>3, <2>4, <2>5, WriteStep
    DEF WriteElection, OneRowPerKey, TypeOK
<1>12. CASE DeleteElection(p)
  <2> DEFINE e == req[p].e
             row == [elections[e] EXCEPT !.deleted = TRUE]
  <2>1. e \in Elections /\ elections[e] # Null /\ elections[e] \in ElectionRow
    BY <1>0, <1>12 DEF DeleteElection, At, TypeOK
  <2>2. row \in ElectionRow /\ row.scope = elections[e].scope /\ row # Null
    BY <2>1 DEF ElectionRow
  <2>3. elections' = [elections EXCEPT ![e] = row]
    BY <1>12 DEF DeleteElection
  <2>4. OneElectionPerScope'
    BY <1>0, <2>1, <2>2, <2>3 DEF IInv, OneRowPerKey, OneElectionPerScope, TypeOK
  <2>5. OneVotePerVoter' /\ BallotInItsElection' /\ OneCandidacyPerUser'
    BY <1>12 DEF DeleteElection, IInv, OneRowPerKey, OneVotePerVoter, BallotInItsElection,
                 OneCandidacyPerUser
  <2>6. QED
    BY <1>0, <1>12, <2>1, <2>2, <2>3, <2>4, <2>5, WriteStep
    DEF DeleteElection, OneRowPerKey, TypeOK
<1>13. QED
  BY <1>1, <1>2, <1>3, <1>4, <1>5, <1>6, <1>7, <1>8, <1>9, <1>10, <1>11, <1>12
  DEF ElectionNext

-----------------------------------------------------------------------------
(***************************************************************************)
(* ElectoralRollService.                                                   *)
(***************************************************************************)
\* A step of the roll that writes it and ends the request.
LEMMA RollWriteStep ==
    ASSUME IInv, NEW p \in Procs, Finish(p), roll' \subseteq RollRow,
           UNCHANGED <<elections, candidacies, votes, now>>
    PROVE  IInv'
<1>1. OneVotePerVoter' /\ BallotInItsElection' /\ OneRowPerKey'
  BY DEF IInv, OneVotePerVoter, BallotInItsElection, OneRowPerKey,
         OneElectionPerScope, OneCandidacyPerUser
<1>2. QED
  BY <1>1, WriteStep DEF IInv, TypeOK

LEMMA RollStep ==
    ASSUME IInv, NEW p \in Procs, RollNext(p)
    PROVE  IInv'
<1> USE DEF Known, ElectionKnown, ArgumentsKnown, CandidacyKnown, HoldsElection,
            RollPCs, BulkPCs, HoldsCandidacy, SubmitPCs, CastPCs
<1>0. /\ TypeOK
      /\ req[p] \in Request
      /\ Known(req[p])
  BY DEF IInv, TypeOK, RequestsKnown
\* The three handlers load the election.
<1>1. ASSUME NEW e \in Elections, NEW u \in Users, Register(p, e, u)
      PROVE  IInv'
  <2> DEFINE r == [[Idle EXCEPT !.e = e, !.u = u] EXCEPT !.pc = "findEntry"]
  <2>1. r \in Request /\ Known(r)
    BY DEF Idle, Request, PCs
  <2>2. QED
    BY <1>1, <2>1, RequestStep DEF Register, Goto
<1>2. ASSUME NEW e \in Elections, NEW u \in Users, RemoveVoter(p, e, u)
      PROVE  IInv'
  <2> DEFINE r == [[Idle EXCEPT !.e = e, !.u = u] EXCEPT !.pc = "findVoter"]
  <2>1. r \in Request /\ Known(r)
    BY DEF Idle, Request, PCs
  <2>2. QED
    BY <1>2, <2>1, RequestStep DEF RemoveVoter, Goto
<1>3. ASSUME NEW e \in Elections, NEW us \in SUBSET Users, BulkRegister(p, e, us)
      PROVE  IInv'
  <2> DEFINE r == [[Idle EXCEPT !.e = e, !.us = us] EXCEPT !.pc = "findEntries"]
  <2>1. r \in Request /\ Known(r)
    BY DEF Idle, Request, PCs
  <2>2. QED
    BY <1>3, <2>1, RequestStep DEF BulkRegister, Goto
\* They look at the roll.
<1>4. CASE FindEntry(p)
  <2> DEFINE r == [req[p] EXCEPT !.pc = "insertEntry"]
  <2>1. r \in Request /\ Known(r)
    BY <1>0, <1>4 DEF FindEntry, At, Request, PCs
  <2>2. CASE Goto(p, "insertEntry", req[p])
    BY <1>4, <2>1, <2>2, RequestStep DEF FindEntry, Goto
  <2>3. QED
    BY <1>4, <2>2, FinishStep DEF FindEntry
<1>5. CASE FindVoter(p)
  <2> DEFINE r == [req[p] EXCEPT !.pc = "deleteEntry"]
  <2>1. r \in Request /\ Known(r)
    BY <1>0, <1>5 DEF FindVoter, At, Request, PCs
  <2>2. CASE Goto(p, "deleteEntry", req[p])
    BY <1>5, <2>1, <2>2, RequestStep DEF FindVoter, Goto
  <2>3. QED
    BY <1>5, <2>2, FinishStep DEF FindVoter
<1>6. CASE FindEntries(p)
  <2> DEFINE toAdd == {u \in req[p].us : ~Registered(req[p].e, u)}
             r == [[req[p] EXCEPT !.us = toAdd] EXCEPT !.pc = "insertEntries"]
  <2>1. r \in Request /\ Known(r)
    BY <1>0, <1>6 DEF FindEntries, At, Request, PCs
  <2>2. CASE Goto(p, "insertEntries", [req[p] EXCEPT !.us = toAdd])
    BY <1>6, <2>1, <2>2, RequestStep DEF FindEntries, Goto
  <2>3. QED
    BY <1>6, <2>2, FinishStep DEF FindEntries
\* They write it.
<1>7. CASE InsertEntry(p)
  <2>1. roll' \subseteq RollRow
    BY <1>0, <1>7 DEF InsertEntry, At, Entry, TypeOK, RollRow
  <2>2. QED
    BY <1>7, <2>1, RollWriteStep DEF InsertEntry
<1>8. CASE InsertEntries(p)
  <2>1. roll' \subseteq RollRow
    BY <1>0, <1>8 DEF InsertEntries, At, Entry, TypeOK, RollRow, Request
  <2>2. QED
    BY <1>8, <2>1, RollWriteStep DEF InsertEntries
<1>9. CASE DeleteEntry(p)
  <2>1. roll' \subseteq RollRow
    BY <1>0, <1>9 DEF DeleteEntry, TypeOK
  <2>2. QED
    BY <1>9, <2>1, RollWriteStep DEF DeleteEntry
<1>10. QED
  BY <1>1, <1>2, <1>3, <1>4, <1>5, <1>6, <1>7, <1>8, <1>9 DEF RollNext

-----------------------------------------------------------------------------
(***************************************************************************)
(* CandidacyService.                                                       *)
(***************************************************************************)
\* Loading a candidacy and changing the copy in memory.
LEMMA HoldCandidacyStep ==
    ASSUME IInv, NEW p \in Procs, NEW c \in Candidacies, candidacies[c] # Null,
           NEW row \in CandidacyRow, row.user = candidacies[c].user,
           row.election = candidacies[c].election, HoldCandidacy(p, c, row)
    PROVE  IInv'
<1> DEFINE r == [[Idle EXCEPT !.c = c, !.ent = row] EXCEPT !.pc = "saveCandidacy"]
<1>1. r \in Request
  BY DEF Idle, Request, PCs
<1>2. Known(r)
  BY DEF Known, ElectionKnown, ArgumentsKnown, CandidacyKnown, Idle, HoldsElection,
         RollPCs, BulkPCs, HoldsCandidacy, SubmitPCs, CastPCs
<1>3. QED
  BY <1>1, <1>2, RequestStep DEF HoldCandidacy, Goto

\* A step of the candidacies that gives the row of c, or inserts it, and ends
\* the request.
LEMMA CandidacyWriteStep ==
    ASSUME IInv, NEW p \in Procs, Finish(p),
           UNCHANGED <<elections, roll, votes, now>>,
           NEW c \in Candidacies, NEW row \in CandidacyRow,
           candidacies' = [candidacies EXCEPT ![c] = row],
           \/ /\ candidacies[c] = Null
              /\ ~CandidacyTaken(row.election, row.user)
           \/ /\ candidacies[c] # Null
              /\ row.user = candidacies[c].user
              /\ row.election = candidacies[c].election
    PROVE  IInv'
<1>1. TypeOK /\ row # Null
  BY DEF IInv
<1>2. OneCandidacyPerUser'
  BY <1>1 DEF IInv, OneRowPerKey, OneCandidacyPerUser, CandidacyTaken, TypeOK
<1>3. OneElectionPerScope' /\ OneVotePerVoter'
  BY DEF IInv, OneRowPerKey, OneElectionPerScope, OneVotePerVoter
<1>4. BallotInItsElection'
  BY <1>1 DEF IInv, BallotInItsElection, TypeOK, VoteRow
<1>5. QED
  BY <1>1, <1>2, <1>3, <1>4, WriteStep DEF OneRowPerKey, TypeOK

LEMMA CandidacyStep ==
    ASSUME IInv, NEW p \in Procs, CandidacyNext(p)
    PROVE  IInv'
<1> USE DEF Known, ElectionKnown, ArgumentsKnown, CandidacyKnown, HoldsElection,
            RollPCs, BulkPCs, HoldsCandidacy, SubmitPCs, CastPCs
<1>0. /\ TypeOK
      /\ req[p] \in Request
      /\ Known(req[p])
  BY DEF IInv, TypeOK, RequestsKnown
<1>1. ASSUME NEW e \in Elections, NEW u \in Users, Submit(p, e, u)
      PROVE  IInv'
  <2> DEFINE r == [[Idle EXCEPT !.e = e, !.u = u] EXCEPT !.pc = "findCandidacy"]
  <2>1. r \in Request /\ Known(r)
    BY DEF Idle, Request, PCs
  <2>2. QED
    BY <1>1, <2>1, RequestStep DEF Submit, Goto
<1>2. CASE FindCandidacy(p)
  <2> DEFINE r == [req[p] EXCEPT !.pc = "insertCandidacy"]
  <2>1. r \in Request /\ Known(r)
    BY <1>0, <1>2 DEF FindCandidacy, At, Request, PCs
  <2>2. CASE Goto(p, "insertCandidacy", req[p])
    BY <1>2, <2>1, <2>2, RequestStep DEF FindCandidacy, Goto
  <2>3. QED
    BY <1>2, <2>2, FinishStep DEF FindCandidacy
<1>3. CASE InsertCandidacy(p)
  <2> DEFINE row == [user |-> req[p].u, election |-> req[p].e,
                     approved |-> FALSE, rejected |-> FALSE, deleted |-> FALSE]
  <2>1. row \in CandidacyRow
    BY <1>0, <1>3 DEF InsertCandidacy, At, CandidacyRow
  <2>2. CASE UNCHANGED candidacies
    BY <1>3, <2>2, FinishStep DEF InsertCandidacy, db
  <2>3. ASSUME NEW c \in Candidacies, candidacies[c] = Null,
               ~CandidacyTaken(req[p].e, req[p].u),
               candidacies' = [candidacies EXCEPT ![c] = row]
        PROVE  IInv'
    BY <1>3, <2>1, <2>3, CandidacyWriteStep DEF InsertCandidacy
  <2>4. QED
    BY <1>3, <2>2, <2>3 DEF InsertCandidacy
\* The four handlers that load a pending candidacy.
<1>4. ASSUME NEW c \in Candidacies,
             UpdateCandidacy(p, c) \/ Withdraw(p, c) \/ Approve(p, c) \/ Reject(p, c)
      PROVE  IInv'
  <2>1. candidacies[c] # Null /\ candidacies[c] \in CandidacyRow
    BY <1>0, <1>4 DEF TypeOK, UpdateCandidacy, Withdraw, Approve, Reject,
                      LoadedPending, FoundCandidacy
  <2>2. CASE UpdateCandidacy(p, c)
    BY <2>1, <2>2, HoldCandidacyStep DEF UpdateCandidacy
  <2>3. CASE Approve(p, c)
    <3> DEFINE row == [candidacies[c] EXCEPT !.approved = TRUE]
    <3>1. /\ row \in CandidacyRow
          /\ row.user = candidacies[c].user
          /\ row.election = candidacies[c].election
      BY <2>1 DEF CandidacyRow
    <3>2. QED
      BY <2>1, <2>3, <3>1, HoldCandidacyStep DEF Approve
  <2>4. CASE Reject(p, c)
    <3> DEFINE row == [candidacies[c] EXCEPT !.rejected = TRUE]
    <3>1. /\ row \in CandidacyRow
          /\ row.user = candidacies[c].user
          /\ row.election = candidacies[c].election
      BY <2>1 DEF CandidacyRow
    <3>2. QED
      BY <2>1, <2>4, <3>1, HoldCandidacyStep DEF Reject
  <2>5. CASE Withdraw(p, c)
    <3> DEFINE r == [[Idle EXCEPT !.c = c] EXCEPT !.pc = "deleteCandidacy"]
    <3>1. r \in Request /\ Known(r)
      BY <2>1 DEF Idle, Request, PCs
    <3>2. QED
      BY <2>5, <3>1, RequestStep DEF Withdraw, Goto
  <2>6. QED
    BY <1>4, <2>2, <2>3, <2>4, <2>5
<1>5. CASE SaveCandidacy(p)
  <2> DEFINE cols == Dirty(req[p].ent, candidacies[req[p].c])
             r == [[req[p] EXCEPT !.cols = cols] EXCEPT !.pc = "writeCandidacy"]
  <2>1. cols \in SUBSET Columns
    BY <1>0, <1>5, DirtyColumns DEF SaveCandidacy, At
  <2>2. r \in Request
    BY <1>0, <2>1 DEF Request, PCs
  <2>3. Known(r)
    BY <1>0, <1>5 DEF SaveCandidacy, At, Request
  <2>4. CASE Goto(p, "writeCandidacy", [req[p] EXCEPT !.cols = cols])
    BY <1>5, <2>2, <2>3, <2>4, RequestStep DEF SaveCandidacy, Goto
  <2>5. CASE Finish(p)
    BY <1>5, <2>5, FinishStep DEF SaveCandidacy
  <2>6. QED
    BY <1>5, <2>4, <2>5 DEF SaveCandidacy
<1>6. CASE WriteCandidacy(p)
  <2> DEFINE c == req[p].c
             row == Written(candidacies[c], req[p].ent, req[p].cols)
  <2>1. c \in Candidacies /\ candidacies[c] # Null /\ candidacies[c] \in CandidacyRow
    BY <1>0, <1>6 DEF WriteCandidacy, At, TypeOK
  <2>2. /\ row \in CandidacyRow
        /\ row.user = candidacies[c].user
        /\ row.election = candidacies[c].election
    BY <1>0, <1>6, <2>1, CandidacyWritten DEF WriteCandidacy, At
  <2>3. candidacies' = [candidacies EXCEPT ![c] = row]
    BY <1>6 DEF WriteCandidacy
  <2>4. QED
    BY <1>6, <2>1, <2>2, <2>3, CandidacyWriteStep DEF WriteCandidacy
<1>7. CASE DeleteCandidacy(p)
  <2> DEFINE c == req[p].c
             row == [candidacies[c] EXCEPT !.deleted = TRUE]
  <2>1. c \in Candidacies /\ candidacies[c] # Null /\ candidacies[c] \in CandidacyRow
    BY <1>0, <1>7 DEF DeleteCandidacy, At, TypeOK
  <2>2. /\ row \in CandidacyRow
        /\ row.user = candidacies[c].user
        /\ row.election = candidacies[c].election
    BY <2>1 DEF CandidacyRow
  <2>3. candidacies' = [candidacies EXCEPT ![c] = row]
    BY <1>7 DEF DeleteCandidacy
  <2>4. QED
    BY <1>7, <2>1, <2>2, <2>3, CandidacyWriteStep DEF DeleteCandidacy
<1>8. QED
  BY <1>1, <1>2, <1>3, <1>4, <1>5, <1>6, <1>7 DEF CandidacyNext

-----------------------------------------------------------------------------
(***************************************************************************)
(* VoteService.                                                            *)
(***************************************************************************)
LEMMA VoteStep ==
    ASSUME IInv, NEW p \in Procs, VoteNext(p)
    PROVE  IInv'
<1> USE DEF Known, ElectionKnown, ArgumentsKnown, CandidacyKnown, HoldsElection,
            RollPCs, BulkPCs, HoldsCandidacy, SubmitPCs, CastPCs
<1>0. /\ TypeOK
      /\ req[p] \in Request
      /\ Known(req[p])
  BY DEF IInv, TypeOK, RequestsKnown
<1>1. ASSUME NEW e \in Elections, NEW u \in Users, NEW c \in Candidacies,
             Cast(p, e, u, c)
      PROVE  IInv'
  <2> DEFINE r == [[Idle EXCEPT !.e = e, !.u = u, !.c = c] EXCEPT !.pc = "isRegistered"]
  <2>1. r \in Request /\ Known(r)
    BY DEF Idle, Request, PCs
  <2>2. QED
    BY <1>1, <2>1, RequestStep DEF Cast, Goto
<1>2. CASE IsRegistered(p)
  <2> DEFINE r == [req[p] EXCEPT !.pc = "loadCandidacy"]
  <2>1. r \in Request /\ Known(r)
    BY <1>0, <1>2 DEF IsRegistered, At, Request, PCs
  <2>2. CASE Goto(p, "loadCandidacy", req[p])
    BY <1>2, <2>1, <2>2, RequestStep DEF IsRegistered, Goto
  <2>3. QED
    BY <1>2, <2>2, FinishStep DEF IsRegistered
<1>3. CASE LoadCandidacy(p)
  <2> DEFINE r == [req[p] EXCEPT !.pc = "findVote"]
  <2>1. CASE Eligible(req[p].c, req[p].e) /\ Goto(p, "findVote", req[p])
    <3>1. r \in Request
      BY <1>0 DEF Request, PCs
    <3>2. Known(r)
      BY <1>0, <1>3, <2>1 DEF LoadCandidacy, At, Request, Eligible, FoundCandidacy
    <3>3. QED
      BY <1>3, <2>1, <3>1, <3>2, RequestStep DEF LoadCandidacy, Goto
  <2>2. QED
    BY <1>3, <2>1, FinishStep DEF LoadCandidacy
<1>4. CASE FindVote(p)
  <2> DEFINE r == [req[p] EXCEPT !.pc = "insertVote"]
  <2>1. r \in Request /\ Known(r)
    BY <1>0, <1>4 DEF FindVote, At, Request, PCs
  <2>2. CASE Goto(p, "insertVote", req[p])
    BY <1>4, <2>1, <2>2, RequestStep DEF FindVote, Goto
  <2>3. QED
    BY <1>4, <2>2, FinishStep DEF FindVote
\* The unique index decides.
<1>5. CASE InsertVote(p)
  <2>1. CASE UNCHANGED votes
    BY <1>5, <2>1, FinishStep DEF InsertVote, db
  <2>2. ASSUME ~VoteTaken(req[p].e, req[p].u), NEW k \in Receipts,
               votes' = votes \cup {[receipt |-> k, user |-> req[p].u,
                                     election |-> req[p].e,
                                     candidacy |-> req[p].c, castAt |-> now]}
        PROVE  IInv'
    <3> DEFINE vote == [receipt |-> k, user |-> req[p].u, election |-> req[p].e,
                        candidacy |-> req[p].c, castAt |-> now]
    <3>1. vote \in VoteRow
      BY <1>0, <1>5 DEF InsertVote, At, VoteRow, TypeOK
    <3>2. votes' \subseteq VoteRow
      BY <1>0, <2>2, <3>1 DEF TypeOK
    <3>3. OneVotePerVoter'
      BY <2>2 DEF IInv, OneVotePerVoter, VoteTaken, HasVoted
    <3>4. BallotInItsElection'
      BY <1>0, <1>5, <2>2 DEF InsertVote, At, IInv, BallotInItsElection
    <3>5. OneRowPerKey'
      BY <1>5 DEF InsertVote, IInv, OneRowPerKey, OneElectionPerScope, OneCandidacyPerUser
    <3>6. QED
      BY <1>0, <1>5, <3>2, <3>3, <3>4, <3>5, WriteStep DEF InsertVote, TypeOK
  <2>3. QED
    BY <1>5, <2>1, <2>2 DEF InsertVote
<1>6. QED
  BY <1>1, <1>2, <1>3, <1>4, <1>5 DEF VoteNext

-----------------------------------------------------------------------------
(***************************************************************************)
(* The invariant, and what it implies.                                     *)
(***************************************************************************)
LEMMA IInvInit == Init => IInv
<1> SUFFICES ASSUME Init PROVE IInv
  OBVIOUS
<1>1. TypeOK
  BY IdleIsRequest, MaxTimeAssumption DEF Init, TypeOK, Time
<1>2. RequestsKnown
  BY IdleKnown DEF Init, RequestsKnown, Known
<1>3. OneVotePerVoter /\ BallotInItsElection /\ OneRowPerKey
  BY DEF Init, OneVotePerVoter, BallotInItsElection, OneRowPerKey,
         OneElectionPerScope, OneCandidacyPerUser
<1>4. QED
  BY <1>1, <1>2, <1>3 DEF IInv

LEMMA IInvNext == IInv /\ [Next]_vars => IInv'
<1> SUFFICES ASSUME IInv, [Next]_vars PROVE IInv'
  OBVIOUS
<1>1. ASSUME NEW p \in Procs, Abort(p) PROVE IInv'
  BY <1>1, FinishStep DEF Abort
<1>2. CASE Tick
  <2>1. TypeOK'
    BY <1>2, MaxTimeAssumption DEF Tick, db, IInv, TypeOK, Time
  <2>2. RequestsKnown'
    BY <1>2 DEF Tick, db, IInv, RequestsKnown, ElectionKnown, ArgumentsKnown, CandidacyKnown
  <2>3. OneVotePerVoter' /\ BallotInItsElection' /\ OneRowPerKey'
    BY <1>2 DEF Tick, db, IInv, OneVotePerVoter, BallotInItsElection, OneRowPerKey,
                OneElectionPerScope, OneCandidacyPerUser
  <2>4. QED
    BY <2>1, <2>2, <2>3 DEF IInv
<1>3. CASE UNCHANGED vars
  BY <1>3 DEF vars, IInv, TypeOK, RequestsKnown, ElectionKnown, ArgumentsKnown,
              CandidacyKnown, OneVotePerVoter, BallotInItsElection, OneRowPerKey,
              OneElectionPerScope, OneCandidacyPerUser
<1>4. QED
  BY <1>1, <1>2, <1>3, ElectionStep, RollStep, CandidacyStep, VoteStep DEF Next

THEOREM Invariance == Spec => []IInv
BY IInvInit, IInvNext, PTL DEF Spec

\* Every handler leaves rows and requests of the declared types.
THEOREM TypeCorrect == Spec => []TypeOK
BY Invariance, PTL DEF IInv

\* One vote per user and election, however the casts interleave.
THEOREM OneVotePerVoterHolds == Spec => []OneVotePerVoter
BY Invariance, PTL DEF IInv

\* A vote is for a candidacy of its election, whatever stale saves rewrite.
THEOREM BallotInItsElectionHolds == Spec => []BallotInItsElection
BY Invariance, PTL DEF IInv

\* No handler, stale save included, gives two rows the same unique key.
THEOREM OneRowPerKeyHolds == Spec => []OneRowPerKey
BY Invariance, PTL DEF IInv

-----------------------------------------------------------------------------
(***************************************************************************)
(* The tables implement BallotBox.                                         *)
(***************************************************************************)
\* A step that keeps the election of every candidacy keeps the slate.
LEMMA SlateKept ==
    ASSUME \A c \in Candidacies :
              /\ (candidacies[c] # Null) <=> (candidacies'[c] # Null)
              /\ candidacies[c] # Null => candidacies'[c].election = candidacies[c].election
    PROVE  UNCHANGED Slate
BY DEF Slate

\* A step of the candidacies nominates one, or keeps the slate.
LEMMA CandidacyBoxStep ==
    ASSUME IInv, NEW p \in Procs, CandidacyNext(p)
    PROVE  [Box!Next]_<<Slate, BallotsCast>>
<1>0. TypeOK /\ CandidacyKnown(req[p]) /\ ArgumentsKnown(req[p])
  BY DEF IInv, RequestsKnown
<1>1. CASE InsertCandidacy(p)
  <2>1. CASE UNCHANGED candidacies
    BY <1>1, <2>1 DEF InsertCandidacy, Slate, BallotsCast
  <2>2. ASSUME NEW c \in Candidacies, candidacies[c] = Null,
               candidacies' = [candidacies EXCEPT ![c] =
                  [user |-> req[p].u, election |-> req[p].e,
                   approved |-> FALSE, rejected |-> FALSE, deleted |-> FALSE]]
        PROVE  Box!Nominate(req[p].e, c)
    <3> DEFINE row == [user |-> req[p].u, election |-> req[p].e,
                       approved |-> FALSE, rejected |-> FALSE, deleted |-> FALSE]
    <3>1. req[p].e \in Elections /\ req[p].u \in Users
      BY <1>0, <1>1 DEF InsertCandidacy, At, ArgumentsKnown, SubmitPCs
    <3>2. row \in CandidacyRow /\ row.election = req[p].e
      BY <3>1 DEF CandidacyRow
    <3>3. \A f \in Elections : c \notin Slate[f]
      BY <2>2 DEF Slate
    <3>4. \A d \in Candidacies : candidacies'[d] = IF d = c THEN row ELSE candidacies[d]
      BY <1>0, <2>2 DEF TypeOK
    <3>5. row # Null
      BY <3>2, NullIsNoRow
    <3> HIDE DEF row
    <3>6. Slate' = [Slate EXCEPT ![req[p].e] = @ \cup {c}]
      <4>1. ASSUME NEW f \in Elections, NEW d \in Candidacies
            PROVE  d \in Slate'[f] <=> d \in Slate[f] \/ (f = req[p].e /\ d = c)
        BY <2>2, <3>2, <3>4, <3>5 DEF Slate
      <4>2. \A f \in Elections : Slate'[f] \subseteq Candidacies /\ Slate[f] \subseteq Candidacies
        BY DEF Slate
      <4>3. \A f \in Elections : f # req[p].e => Slate'[f] = Slate[f]
        BY <4>1, <4>2
      <4>4. Slate'[req[p].e] = Slate[req[p].e] \cup {c}
        BY <2>2, <3>1, <4>1, <4>2
      <4>5. QED
        BY <3>1, <4>3, <4>4 DEF Slate
    <3>7. QED
      BY <1>1, <3>3, <3>6 DEF InsertCandidacy, Box!Nominate, BallotsCast
  <2>3. QED
    BY <1>0, <1>1, <2>1, <2>2
    DEF InsertCandidacy, At, ArgumentsKnown, SubmitPCs, Box!Next
<1>2. CASE WriteCandidacy(p)
  <2> DEFINE c == req[p].c
             row == Written(candidacies[c], req[p].ent, req[p].cols)
  <2>1. c \in Candidacies /\ candidacies[c] # Null /\ candidacies[c] \in CandidacyRow
    BY <1>0, <1>2 DEF WriteCandidacy, At, TypeOK, CandidacyKnown, HoldsCandidacy
  <2>2. row \in CandidacyRow /\ row.election = candidacies[c].election /\ row # Null
    BY <1>0, <1>2, <2>1, CandidacyWritten
    DEF WriteCandidacy, At, CandidacyKnown, HoldsCandidacy
  <2>3. candidacies' = [candidacies EXCEPT ![c] = row]
    BY <1>2 DEF WriteCandidacy
  <2>4. QED
    BY <1>0, <1>2, <2>1, <2>2, <2>3, SlateKept DEF WriteCandidacy, BallotsCast, TypeOK
<1>3. CASE DeleteCandidacy(p)
  <2> DEFINE c == req[p].c
             row == [candidacies[c] EXCEPT !.deleted = TRUE]
  <2>1. c \in Candidacies /\ candidacies[c] # Null /\ candidacies[c] \in CandidacyRow
    BY <1>0, <1>3 DEF DeleteCandidacy, At, TypeOK, CandidacyKnown
  <2>2. row \in CandidacyRow /\ row.election = candidacies[c].election /\ row # Null
    BY <2>1 DEF CandidacyRow
  <2>3. candidacies' = [candidacies EXCEPT ![c] = row]
    BY <1>3 DEF DeleteCandidacy
  <2>4. QED
    BY <1>0, <1>3, <2>1, <2>2, <2>3, SlateKept DEF DeleteCandidacy, BallotsCast, TypeOK
<1>4. CASE UNCHANGED <<candidacies, votes>>
  BY <1>4 DEF Slate, BallotsCast
<1>5. QED
  BY <1>1, <1>2, <1>3, <1>4
  DEF CandidacyNext, Submit, UpdateCandidacy, Withdraw, Approve, Reject,
      HoldCandidacy, FindCandidacy, SaveCandidacy, db

\* The INSERT of a vote casts a ballot; no other step of VoteService does.
LEMMA VoteBoxStep ==
    ASSUME IInv, NEW p \in Procs, VoteNext(p)
    PROVE  [Box!Next]_<<Slate, BallotsCast>>
<1>0. TypeOK /\ CandidacyKnown(req[p]) /\ ArgumentsKnown(req[p])
  BY DEF IInv, RequestsKnown
<1>1. CASE InsertVote(p)
  <2>1. CASE UNCHANGED votes
    BY <1>1, <2>1 DEF InsertVote, Slate, BallotsCast
  <2>2. ASSUME ~VoteTaken(req[p].e, req[p].u), NEW k \in Receipts,
               votes' = votes \cup {[receipt |-> k, user |-> req[p].u,
                                     election |-> req[p].e,
                                     candidacy |-> req[p].c, castAt |-> now]}
        PROVE  Box!Cast(req[p].u, req[p].e, req[p].c)
    <3>1. /\ req[p].e \in Elections
          /\ req[p].c \in Candidacies
          /\ candidacies[req[p].c] # Null
          /\ candidacies[req[p].c].election = req[p].e
      BY <1>0, <1>1 DEF InsertVote, At, ArgumentsKnown, CandidacyKnown, CastPCs
    <3>2. req[p].c \in Slate[req[p].e]
      BY <3>1 DEF Slate
    <3>3. \A d \in Candidacies : <<req[p].u, req[p].e, d>> \notin BallotsCast
      BY <2>2 DEF VoteTaken, HasVoted, BallotsCast
    <3>4. BallotsCast' = BallotsCast \cup {<<req[p].u, req[p].e, req[p].c>>}
      <4> DEFINE vote == [receipt |-> k, user |-> req[p].u, election |-> req[p].e,
                          candidacy |-> req[p].c, castAt |-> now]
      <4>1. <<vote.user, vote.election, vote.candidacy>> = <<req[p].u, req[p].e, req[p].c>>
        OBVIOUS
      <4>2. votes' = votes \cup {vote}
        BY <2>2
      <4> HIDE DEF vote
      <4>3. QED
        BY <4>1, <4>2 DEF BallotsCast
    <3>5. UNCHANGED Slate
      BY <1>1 DEF InsertVote, Slate
    <3>6. QED
      BY <3>2, <3>3, <3>4, <3>5 DEF Box!Cast
  <2>3. QED
    BY <1>0, <1>1, <2>1, <2>2
    DEF InsertVote, At, ArgumentsKnown, CastPCs, Box!Next
<1>2. CASE UNCHANGED <<candidacies, votes>>
  BY <1>2 DEF Slate, BallotsCast
<1>3. QED
  BY <1>1, <1>2 DEF VoteNext, Cast, IsRegistered, LoadCandidacy, FindVote, db

\* The component implements BallotBox, for any number of elections, users,
\* candidacies and concurrent requests.
THEOREM BallotBoxKept == Spec => KeepsBallotBox
<1>1. Init => Box!Init
  BY DEF Init, Box!Init, Slate, BallotsCast
<1>2. IInv /\ [Next]_vars => [Box!Next]_<<Slate, BallotsCast>>
  <2> SUFFICES ASSUME IInv, [Next]_vars PROVE [Box!Next]_<<Slate, BallotsCast>>
    OBVIOUS
  <2>1. CASE UNCHANGED <<candidacies, votes>>
    BY <2>1 DEF Slate, BallotsCast
  <2>2. ASSUME NEW p \in Procs, ElectionNext(p) PROVE UNCHANGED <<candidacies, votes>>
    BY <2>2 DEF ElectionNext, Create, Update, Activate, Close, PublishResults, Remove,
                HoldElection, CountCandidacies, CountRoll, InsertElection,
                SaveElection, WriteElection, DeleteElection, db
  <2>3. ASSUME NEW p \in Procs, RollNext(p) PROVE UNCHANGED <<candidacies, votes>>
    BY <2>3 DEF RollNext, Register, RemoveVoter, BulkRegister, FindEntry, InsertEntry,
                FindEntries, InsertEntries, FindVoter, DeleteEntry, db
  <2>4. QED
    BY <2>1, <2>2, <2>3, CandidacyBoxStep, VoteBoxStep DEF Next, Abort, Tick, vars, db
<1>3. QED
  BY <1>1, <1>2, Invariance, PTL DEF Spec, KeepsBallotBox, Box!Spec

=============================================================================
