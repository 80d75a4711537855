--------------------------- MODULE Outcome_proofs ---------------------------
(***************************************************************************)
(* Proofs about what the outcome of an election rests on: the reviews of   *)
(* its candidacies, the quorum it was opened with, the ballots and the     *)
(* tally that was published.  What supposes one client for some operations *)
(* names them, and leaves the others as concurrent as ever.                *)
(***************************************************************************)
EXTENDS Desk_proofs, FiniteSetTheorems

USE NullIsNoId, NullIsNoRow

-----------------------------------------------------------------------------
(***************************************************************************)
(* Who changes a candidacy, and how.                                       *)
(***************************************************************************)
\* A column of the row after save(): that of the entity if it was written.
LEMMA WrittenDates ==
    ASSUME NEW row \in CandidacyRow, NEW ent, NEW cols
    PROVE  LET new == Written(row, ent, cols) IN
           /\ new.approved = IF "approved" \in cols THEN ent.approved ELSE row.approved
           /\ new.rejected = IF "rejected" \in cols THEN ent.rejected ELSE row.rejected
           /\ new.deleted  = IF "deleted" \in cols THEN ent.deleted ELSE row.deleted
BY DEF Written, CandidacyRow

\* A candidacy that is in the table is changed by the last statement of one
\* request, an UPDATE of the entity it holds or a soft delete.
LEMMA CandidacyChanges ==
    ASSUME IInv, [Next]_vars, NEW c \in Candidacies,
           candidacies[c] # Null, candidacies'[c] # candidacies[c]
    PROVE  \E p \in Procs :
              /\ CandidacyTouches(p)
              /\ req'[p] = Idle
              /\ req[p].c = c
              /\ \/ /\ req[p].pc = "writeCandidacy"
                    /\ candidacies'[c] = Written(candidacies[c], req[p].ent, req[p].cols)
                 \/ /\ req[p].pc = "deleteCandidacy"
                    /\ candidacies'[c] = [candidacies[c] EXCEPT !.deleted = TRUE]
<1>1. PICK p \in Procs : CandidacyNext(p)
  BY ElectionFrame, RollFrame, VoteFrame
  DEF Next, Abort, Tick, vars, db, ElectionTouches, RollTouches, VoteTouches
<1>2. ~InsertCandidacy(p)
  BY DEF InsertCandidacy, IInv, TypeOK
<1>3. WriteCandidacy(p) \/ DeleteCandidacy(p)
  BY <1>1, <1>2 DEF CandidacyNext, Submit, UpdateCandidacy, Withdraw, Approve, Reject,
                    HoldCandidacy, FindCandidacy, SaveCandidacy, db
<1>4. req'[p] = Idle /\ req[p].c = c
  BY <1>3 DEF WriteCandidacy, DeleteCandidacy, Finish, IInv, TypeOK
<1>5. CandidacyTouches(p)
  BY <1>1, CandidacyFrame
<1>6. CASE WriteCandidacy(p)
  <2>1. candidacies'[c] = Written(candidacies[c], req[p].ent, req[p].cols)
    BY <1>4, <1>6 DEF WriteCandidacy, IInv, TypeOK
  <2>2. QED
    BY <1>4, <1>5, <1>6, <2>1 DEF WriteCandidacy, At
<1>7. CASE DeleteCandidacy(p)
  <2>1. candidacies'[c] = [candidacies[c] EXCEPT !.deleted = TRUE]
    BY <1>4, <1>7 DEF DeleteCandidacy, IInv, TypeOK
  <2>2. QED
    BY <1>4, <1>5, <1>7, <2>1 DEF DeleteCandidacy, At
<1>8. QED
  BY <1>3, <1>6, <1>7

\* A candidacy enters the table without a date.
LEMMA CandidacyAppears ==
    ASSUME IInv, [Next]_vars, NEW c \in Candidacies,
           candidacies[c] = Null, candidacies'[c] # Null
    PROVE  ~candidacies'[c].approved /\ ~candidacies'[c].rejected
<1>1. PICK p \in Procs : CandidacyNext(p)
  BY ElectionFrame, RollFrame, VoteFrame
  DEF Next, Abort, Tick, vars, db, ElectionTouches, RollTouches, VoteTouches
<1>2. ~WriteCandidacy(p) /\ ~DeleteCandidacy(p)
  BY DEF WriteCandidacy, DeleteCandidacy, At, IInv, TypeOK, RequestsKnown, CandidacyKnown,
         HoldsCandidacy
<1>3. InsertCandidacy(p)
  BY <1>1, <1>2 DEF CandidacyNext, Submit, UpdateCandidacy, Withdraw, Approve, Reject,
                    HoldCandidacy, FindCandidacy, SaveCandidacy, db
<1>4. QED
  BY <1>3 DEF InsertCandidacy, IInv, TypeOK

\* How a request comes to hold a candidacy, or to be about to remove one.
Admitted(p) ==
    LET r == req'[p] IN
    /\ UNCHANGED candidacies
    /\ r.c \in Candidacies
    /\ LoadedPending(r.c)
    /\ \/ r.pc = "deleteCandidacy" /\ "withdraw" \in Serves[p]
       \/ /\ r.pc = "saveCandidacy"
          /\ \/ r.ent = candidacies[r.c] /\ "updateCandidacy" \in Serves[p]
             \/ /\ r.ent = [candidacies[r.c] EXCEPT !.approved = TRUE]
                /\ "approve" \in Serves[p]
             \/ /\ r.ent = [candidacies[r.c] EXCEPT !.rejected = TRUE]
                /\ "reject" \in Serves[p]

Compared(p) ==
    /\ UNCHANGED candidacies
    /\ req[p].pc = "saveCandidacy"
    /\ req'[p].c = req[p].c
    /\ req'[p].ent = req[p].ent
    /\ req'[p].pc = "writeCandidacy"

LEMMA CandidacyHeld ==
    ASSUME IInv, [Next]_vars, NEW p \in Procs,
           req'[p].pc \in HoldsCandidacy \cup {"deleteCandidacy"}
    PROVE  req'[p] = req[p] \/ Compared(p) \/ Admitted(p)
<1>1. ASSUME NEW q \in Procs, q # p,
             \/ ElectionNext(q) \/ RollNext(q) \/ CandidacyNext(q)
             \/ VoteNext(q) \/ Abort(q)
      PROVE  req'[p] = req[p]
  BY <1>1, ElectionFrame, RollFrame, CandidacyFrame, VoteFrame, AbortFrame
  DEF ElectionTouches, RollTouches, CandidacyTouches, VoteTouches, Moves
<1>2. ASSUME ElectionTouches(p) \/ RollTouches(p) \/ VoteTouches(p) \/ Moves(p, {})
      PROVE  FALSE
  BY <1>2 DEF ElectionTouches, RollTouches, VoteTouches, Moves, ElectionPCs,
              HoldsElection, RollPCs, BulkPCs, HoldsCandidacy, CastPCs
<1>3. ASSUME CandidacyNext(p)
      PROVE  Compared(p) \/ Admitted(p)
  <2> USE DEF db, Goto, Finish, Idle, IInv, TypeOK, Request, HoldsCandidacy, Accepts, At
  <2>1. ASSUME NEW c \in Candidacies, UpdateCandidacy(p, c) PROVE Admitted(p)
    BY <2>1 DEF UpdateCandidacy, HoldCandidacy, Admitted
  <2>2. ASSUME NEW c \in Candidacies, Withdraw(p, c) PROVE Admitted(p)
    BY <2>2 DEF Withdraw, Admitted
  <2>3. ASSUME NEW c \in Candidacies, Approve(p, c) PROVE Admitted(p)
    BY <2>3 DEF Approve, HoldCandidacy, Admitted
  <2>4. ASSUME NEW c \in Candidacies, Reject(p, c) PROVE Admitted(p)
    BY <2>4 DEF Reject, HoldCandidacy, Admitted
  <2>5. CASE SaveCandidacy(p)
    <3>1. ASSUME NEW cols, Goto(p, "writeCandidacy", [req[p] EXCEPT !.cols = cols])
          PROVE  Compared(p)
      BY <2>5, <3>1 DEF SaveCandidacy, Compared
    <3>2. ~Finish(p)
      OBVIOUS
    <3>3. QED
      BY <2>5, <3>1, <3>2 DEF SaveCandidacy
  <2>6. ASSUME NEW e \in Elections, NEW u \in Users, Submit(p, e, u) PROVE FALSE
    BY <2>6 DEF Submit
  <2>7. ~FindCandidacy(p) /\ ~InsertCandidacy(p) /\ ~WriteCandidacy(p) /\ ~DeleteCandidacy(p)
    BY DEF FindCandidacy, InsertCandidacy, WriteCandidacy, DeleteCandidacy
  <2>8. QED
    BY <1>3, <2>1, <2>2, <2>3, <2>4, <2>5, <2>6, <2>7 DEF CandidacyNext
<1>4. QED
  BY <1>1, <1>2, <1>3, ElectionFrame, RollFrame, VoteFrame, AbortFrame
  DEF Next, Tick, vars

\* A reviewed candidacy: nobody comes to hold it, and who does not hold it does
\* not write it.
LEMMA ReviewDrainStep ==
    ASSUME IInv, [Next]_vars, NEW c \in Candidacies, candidacies[c] # Null, ~Pending(c)
    PROVE  /\ Writing(c)' \subseteq Writing(c)
           /\ Writing(c) = {} => candidacies'[c] = candidacies[c]
<1>1. ASSUME NEW q \in Procs, req'[q].c = c,
             req'[q].pc \in HoldsCandidacy \cup {"deleteCandidacy"}
      PROVE  q \in Writing(c)
  <2>1. ~Admitted(q)
    BY <1>1 DEF Admitted, LoadedPending
  <2>2. CASE req'[q] = req[q]
    BY <1>1, <2>2 DEF Writing
  <2>3. CASE Compared(q)
    BY <1>1, <2>3 DEF Compared, Writing, HoldsCandidacy
  <2>4. QED
    BY <1>1, <2>1, <2>2, <2>3, CandidacyHeld
<1>2. ASSUME candidacies'[c] # candidacies[c] PROVE Writing(c) # {}
  <2>1. PICK p \in Procs : /\ req[p].c = c
                           /\ req[p].pc \in {"writeCandidacy", "deleteCandidacy"}
    BY <1>2, CandidacyChanges
  <2>2. QED
    BY <2>1 DEF Writing, HoldsCandidacy
<1>3. QED
  BY <1>1, <1>2 DEF Writing

\* Whoever edits, withdraws or reviews, and as many as they are: once a candidacy
\* is reviewed, who had found it pending drains, nobody else is admitted, and
\* then the decision of the commission is final.
THEOREM ReviewDrainsHolds == Spec => ReviewDrains
<1>1. IInv /\ [Next]_vars =>
         [\A c \in Candidacies : candidacies[c] # Null /\ ~Pending(c) =>
             /\ Writing(c)' \subseteq Writing(c)
             /\ Writing(c) = {} => candidacies'[c] = candidacies[c]]_vars
  BY ReviewDrainStep
<1>2. QED
  BY <1>1, Invariance, PTL DEF Spec, ReviewDrains

-----------------------------------------------------------------------------
(***************************************************************************)
(* One client for the reviews: no candidacy is approved and rejected.      *)
(***************************************************************************)
\* What the requests of others write, a reviewer's or not, sets no date that
\* the row must not have.
LEMMA OthersSetNoDate ==
    ASSUME OneClient(Reviews), IInv, ReviewKnown, [Next]_vars,
           NEW q \in Procs, Serving(q, Reviews),
           req'[q] # Idle, NEW c \in Candidacies, candidacies[c] # Null
    PROVE  /\ candidacies'[c].approved => candidacies[c].approved
           /\ candidacies'[c].rejected => candidacies[c].rejected
<1>0. candidacies[c] \in CandidacyRow
  BY DEF IInv, TypeOK
<1>1. CASE candidacies'[c] = candidacies[c]
  BY <1>1
<1>2. ASSUME NEW p \in Procs, req'[p] = Idle, req[p].c = c, req[p].pc = "writeCandidacy",
             candidacies'[c] = Written(candidacies[c], req[p].ent, req[p].cols)
      PROVE  /\ candidacies'[c].approved => candidacies[c].approved
             /\ candidacies'[c].rejected => candidacies[c].rejected
  <2>1. ~Serving(p, Reviews)
    BY <1>2 DEF OneClient
  <2>2. ~req[p].ent.approved /\ ~req[p].ent.rejected
    BY <1>2, <2>1 DEF ReviewKnown, ReviewRequest, HoldsCandidacy
  <2>3. QED
    BY <1>0, <1>2, <2>2, WrittenDates
<1>3. ASSUME candidacies'[c] = [candidacies[c] EXCEPT !.deleted = TRUE]
      PROVE  /\ candidacies'[c].approved => candidacies[c].approved
             /\ candidacies'[c].rejected => candidacies[c].rejected
  BY <1>0, <1>3 DEF CandidacyRow
<1>4. QED
  BY <1>1, <1>2, <1>3, CandidacyChanges

LEMMA ReviewKnownStep ==
    ASSUME OneClient(Reviews), IInv, ReviewKnown, NeverApprovedAndRejected, [Next]_vars
    PROVE  ReviewKnown'
<1> SUFFICES ASSUME NEW q \in Procs, req'[q].pc \in HoldsCandidacy
             PROVE  ReviewRequest(q, req[q])'
  BY DEF ReviewKnown, ReviewRequest
<1>0. /\ req'[q] # Idle
      /\ req[q] \in Request
      /\ CandidacyKnown(req[q])
  BY DEF IInv, TypeOK, RequestsKnown, HoldsCandidacy, Idle
\* The request of before, with the row it knew of or one that lost dates.
<1>1. ASSUME req'[q] = req[q] \/ Compared(q)
      PROVE  ReviewRequest(q, req[q])'
  <2> DEFINE r == req[q]
             c == req[q].c
  <2>1. /\ req'[q].c = c
        /\ req'[q].ent = r.ent
        /\ r.pc \in HoldsCandidacy
    BY <1>1 DEF Compared, HoldsCandidacy
  <2>2. c \in Candidacies /\ candidacies[c] # Null /\ r.ent \in CandidacyRow
    BY <1>0, <2>1 DEF CandidacyKnown
  <2>3. ReviewRequest(q, r)
    BY DEF ReviewKnown
  <2>4. CASE ~Serving(q, Reviews)
    BY <2>1, <2>3, <2>4 DEF ReviewRequest, Serving
  <2>5. CASE Serving(q, Reviews)
    <3>1. /\ candidacies'[c].approved => candidacies[c].approved
          /\ candidacies'[c].rejected => candidacies[c].rejected
      BY <1>0, <2>2, <2>5, OthersSetNoDate
    <3>2. QED
      BY <2>1, <2>3, <2>5, <3>1 DEF ReviewRequest, Serving
  <2>6. QED
    BY <2>4, <2>5
<1>2. CASE Admitted(q)
  <2> DEFINE c == req'[q].c
  <2>1. /\ c \in Candidacies
        /\ candidacies[c] \in CandidacyRow
        /\ ~candidacies[c].approved
        /\ ~candidacies[c].rejected
    BY <1>2 DEF Admitted, LoadedPending, FoundCandidacy, Pending, IInv, TypeOK
  <2>2. /\ req'[q].ent.approved \/ req'[q].ent.rejected => Serving(q, Reviews)
        /\ req'[q].ent.approved => ~req'[q].ent.rejected
    BY <1>2, <2>1 DEF Admitted, HoldsCandidacy, Serving, Reviews, CandidacyRow
  <2>3. UNCHANGED candidacies
    BY <1>2 DEF Admitted
  <2>4. QED
    BY <2>1, <2>2, <2>3 DEF ReviewRequest, Serving
<1>3. QED
  BY <1>1, <1>2, CandidacyHeld

LEMMA NeverBothStep ==
    ASSUME IInv, ReviewKnown, NeverApprovedAndRejected, [Next]_vars
    PROVE  NeverApprovedAndRejected'
<1> SUFFICES ASSUME NEW c \in Candidacies, candidacies'[c] # Null
             PROVE  ~(candidacies'[c].approved /\ candidacies'[c].rejected)
  BY DEF NeverApprovedAndRejected
<1>1. CASE candidacies[c] = Null
  BY <1>1, CandidacyAppears
<1>2. CASE candidacies[c] # Null /\ candidacies'[c] = candidacies[c]
  BY <1>2 DEF NeverApprovedAndRejected
<1>3. ASSUME candidacies[c] # Null, NEW p \in Procs, req[p].c = c,
             req[p].pc = "writeCandidacy",
             candidacies'[c] = Written(candidacies[c], req[p].ent, req[p].cols)
      PROVE  ~(candidacies'[c].approved /\ candidacies'[c].rejected)
  <2>1. ReviewRequest(p, req[p]) /\ candidacies[c] \in CandidacyRow
    BY <1>3 DEF ReviewKnown, IInv, TypeOK
  <2>2. /\ req[p].ent.approved => ~req[p].ent.rejected /\ ~candidacies[c].rejected
        /\ req[p].ent.rejected => ~candidacies[c].approved
    BY <1>3, <2>1 DEF ReviewRequest, HoldsCandidacy
  <2>3. ~(candidacies[c].approved /\ candidacies[c].rejected)
    BY <1>3 DEF NeverApprovedAndRejected
  <2>4. QED
    BY <1>3, <2>1, <2>2, <2>3, WrittenDates
<1>4. ASSUME candidacies[c] # Null,
             candidacies'[c] = [candidacies[c] EXCEPT !.deleted = TRUE]
      PROVE  ~(candidacies'[c].approved /\ candidacies'[c].rejected)
  BY <1>4 DEF NeverApprovedAndRejected, IInv, TypeOK, CandidacyRow
<1>5. QED
  BY <1>1, <1>2, <1>3, <1>4, CandidacyChanges

\* With one client for the reviews, no candidacy is both approved and rejected,
\* however many stale saves of the candidates the reviews cross.
THEOREM NeverApprovedAndRejectedHolds ==
    ASSUME OneClient(Reviews)
    PROVE  Spec => []NeverApprovedAndRejected
<1>1. Init => ReviewKnown /\ NeverApprovedAndRejected
  BY DEF Init, ReviewKnown, ReviewRequest, NeverApprovedAndRejected, Idle, HoldsCandidacy
<1>2. /\ IInv /\ ReviewKnown /\ NeverApprovedAndRejected
      /\ [Next]_vars
      => ReviewKnown' /\ NeverApprovedAndRejected'
  BY ReviewKnownStep, NeverBothStep
<1>3. QED
  BY <1>1, <1>2, Invariance, PTL DEF Spec

-----------------------------------------------------------------------------
(***************************************************************************)
(* One client for what writes a candidacy: who holds one holds it pending. *)
(***************************************************************************)
LEMMA PendingKnownStep ==
    ASSUME OneClient(CandidacyWriters), IInv, PendingKnown, [Next]_vars
    PROVE  PendingKnown'
<1> SUFFICES ASSUME NEW q \in Procs, req'[q].pc \in HoldsCandidacy \cup {"deleteCandidacy"}
             PROVE  Serving(q, CandidacyWriters) /\ Pending(req[q].c)'
  BY DEF PendingKnown, Serving
<1>1. ASSUME req'[q] = req[q] \/ Compared(q)
      PROVE  Serving(q, CandidacyWriters) /\ Pending(req[q].c)'
  <2> DEFINE c == req[q].c
  <2>1. req'[q].c = c /\ req[q].pc \in HoldsCandidacy \cup {"deleteCandidacy"}
    BY <1>1 DEF Compared, HoldsCandidacy
  <2>2. Serving(q, CandidacyWriters) /\ Pending(c)
    BY <2>1 DEF PendingKnown
  <2>3. c \in Candidacies /\ candidacies[c] # Null
    BY <2>1 DEF IInv, RequestsKnown, CandidacyKnown
  <2>4. candidacies'[c] = candidacies[c]
    <3> SUFFICES ASSUME candidacies'[c] # candidacies[c] PROVE FALSE
      OBVIOUS
    <3>1. PICK p \in Procs : /\ req'[p] = Idle
                             /\ req[p].pc \in {"writeCandidacy", "deleteCandidacy"}
      BY <2>3, CandidacyChanges
    <3>2. p = q
      BY <2>2, <3>1 DEF PendingKnown, OneClient, HoldsCandidacy
    <3>3. QED
      BY <3>1, <3>2 DEF Idle, HoldsCandidacy
  <2>5. QED
    BY <2>1, <2>2, <2>4 DEF Pending
<1>2. CASE Admitted(q)
  <2>1. Pending(req'[q].c) /\ UNCHANGED candidacies
    BY <1>2 DEF Admitted, LoadedPending
  <2>2. Serving(q, CandidacyWriters)
    BY <1>2 DEF Admitted, Serving, CandidacyWriters, Reviews
  <2>3. QED
    BY <2>1, <2>2 DEF Pending
<1>3. QED
  BY <1>1, <1>2, CandidacyHeld

\* A step leaves a reviewed candidacy as it is.
LEMMA ReviewFinalStep ==
    ASSUME IInv, PendingKnown, [Next]_vars, NEW c \in Candidacies,
           candidacies[c] # Null, ~Pending(c)
    PROVE  candidacies'[c] = candidacies[c]
<1> SUFFICES ASSUME candidacies'[c] # candidacies[c] PROVE FALSE
  OBVIOUS
<1>1. PICK p \in Procs : /\ req[p].c = c
                         /\ req[p].pc \in {"writeCandidacy", "deleteCandidacy"}
  BY CandidacyChanges
<1>2. QED
  BY <1>1 DEF PendingKnown, HoldsCandidacy

LEMMA PendingInit == Init => PendingKnown
BY DEF Init, PendingKnown, Idle, HoldsCandidacy

-----------------------------------------------------------------------------
(***************************************************************************)
(* One desk for the elections and one for the candidacies: what is open    *)
(* was opened with a quorum and has it still.                              *)
(***************************************************************************)
\* Approved candidacies are reviewed: none leaves the count, and the count is of
\* a finite set.
LEMMA QuorumStays ==
    ASSUME IInv, PendingKnown, [Next]_vars, NEW e \in Elections, Quorate(e)
    PROVE  Quorate(e)'
<1> DEFINE A == ApprovedCandidacies(e)
           B == {c \in Candidacies : /\ FoundCandidacy(c)'
                                     /\ candidacies'[c].election = e
                                     /\ candidacies'[c].approved}
<1>1. A \subseteq B
  BY ReviewFinalStep DEF ApprovedCandidacies, FoundCandidacy, Pending
<1>2. IsFiniteSet(B)
  BY CandidaciesAreFinite, FS_Subset
<1>3. Cardinality(A) <= Cardinality(B) /\ IsFiniteSet(A)
  BY <1>1, <1>2, FS_Subset
<1>4. Cardinality(A) \in Nat /\ Cardinality(B) \in Nat
  BY <1>2, <1>3, FS_CardinalityType
<1>5. B = ApprovedCandidacies(e)'
  BY DEF ApprovedCandidacies
<1>6. Cardinality(A) >= MIN_APPROVED_CANDIDACIES
  BY DEF Quorate
<1> HIDE DEF A, B
<1>7. Cardinality(B) >= MIN_APPROVED_CANDIDACIES
  BY <1>3, <1>4, <1>6, MinApprovedIsNat
<1>8. Cardinality(ApprovedCandidacies(e)') >= MIN_APPROVED_CANDIDACIES
  BY <1>5, <1>7
<1>9. QED
  BY <1>8 DEF Quorate

\* Whoever writes an election has an open request that only a desk makes.
LEMMA ElectionWriteStep ==
    ASSUME IInv, DeskKnown, [Next]_vars, NEW e \in Elections,
           elections[e] # Null, elections'[e] # elections[e]
    PROVE  \E p \in Procs : Desk(p) /\ (WriteElection(p) \/ DeleteElection(p))
<1>1. PICK p \in Procs : ElectionNext(p)
  BY RollFrame, CandidacyFrame, VoteFrame
  DEF Next, Abort, Tick, vars, db, RollTouches, CandidacyTouches, VoteTouches
<1>2. ~InsertElection(p)
  BY DEF InsertElection, IInv, TypeOK
<1>3. WriteElection(p) \/ DeleteElection(p)
  BY <1>1, <1>2 DEF ElectionNext, Create, Update, Activate, Close, PublishResults, Remove,
                    HoldElection, CountCandidacies, CountRoll, SaveElection, db
<1>4. QED
  BY <1>3, ForwardWrite

\* An election that is in the table is changed by the last statement of the
\* desk's request.
LEMMA ElectionChanges ==
    ASSUME IInv, DeskKnown, [Next]_vars, NEW e \in Elections,
           elections[e] # Null, elections'[e] # elections[e]
    PROVE  \E p \in Procs :
              /\ Desk(p)
              /\ req'[p] = Idle
              /\ req[p].e = e
              /\ \/ /\ req[p].pc = "writeElection"
                    /\ elections'[e] = Written(elections[e], req[p].ent, req[p].cols)
                 \/ /\ req[p].pc = "deleteElection"
                    /\ elections'[e] = [elections[e] EXCEPT !.deleted = TRUE]
<1>1. PICK p \in Procs : Desk(p) /\ (WriteElection(p) \/ DeleteElection(p))
  BY ElectionWriteStep
<1>2. req'[p] = Idle /\ req[p].e = e
  BY <1>1 DEF WriteElection, DeleteElection, Finish, IInv, TypeOK
<1>3. CASE WriteElection(p)
  <2>1. elections'[e] = Written(elections[e], req[p].ent, req[p].cols)
    BY <1>2, <1>3 DEF WriteElection, IInv, TypeOK
  <2>2. QED
    BY <1>1, <1>2, <1>3, <2>1 DEF WriteElection, At
<1>4. CASE DeleteElection(p)
  <2>1. elections'[e] = [elections[e] EXCEPT !.deleted = TRUE]
    BY <1>2, <1>4 DEF DeleteElection, IInv, TypeOK
  <2>2. QED
    BY <1>1, <1>2, <1>4, <2>1 DEF DeleteElection, At
<1>5. QED
  BY <1>1, <1>3, <1>4

\* An election enters the table as the request that creates it holds it.
LEMMA ElectionAppears ==
    ASSUME IInv, [Next]_vars, NEW e \in Elections,
           elections[e] = Null, elections'[e] # Null
    PROVE  \E p \in Procs : req[p].pc = "insertElection" /\ elections'[e] = req[p].ent
<1>1. PICK p \in Procs : ElectionNext(p)
  BY RollFrame, CandidacyFrame, VoteFrame
  DEF Next, Abort, Tick, vars, db, RollTouches, CandidacyTouches, VoteTouches
<1>2. ~WriteElection(p) /\ ~DeleteElection(p)
  BY DEF WriteElection, DeleteElection, At, IInv, TypeOK, RequestsKnown, ElectionKnown,
         HoldsElection
<1>3. InsertElection(p)
  BY <1>1, <1>2 DEF ElectionNext, Create, Update, Activate, Close, PublishResults, Remove,
                    HoldElection, CountCandidacies, CountRoll, SaveElection, db
<1>4. QED
  BY <1>3 DEF InsertElection, At, IInv, TypeOK

\* A request that holds an election is the one of before, or one that its own
\* step has moved on.
LEMMA ElectionHeld ==
    ASSUME IInv, [Next]_vars, NEW p \in Procs,
           req'[p].pc \in ElectionPCs \cup {"insertElection"}
    PROVE  req'[p] = req[p] \/ ElectionNext(p)
<1>1. ASSUME NEW q \in Procs, q # p,
             \/ ElectionNext(q) \/ RollNext(q) \/ CandidacyNext(q)
             \/ VoteNext(q) \/ Abort(q)
      PROVE  req'[p] = req[p]
  BY <1>1, ElectionFrame, RollFrame, CandidacyFrame, VoteFrame, AbortFrame
  DEF ElectionTouches, RollTouches, CandidacyTouches, VoteTouches, Moves
<1>2. ASSUME CandidacyTouches(p) \/ RollTouches(p) \/ VoteTouches(p) \/ Moves(p, {})
      PROVE  FALSE
  BY <1>2 DEF CandidacyTouches, RollTouches, VoteTouches, Moves, ElectionPCs,
              HoldsElection, RollPCs, BulkPCs, SubmitPCs, HoldsCandidacy, CastPCs
<1>3. QED
  BY <1>1, <1>2, CandidacyFrame, RollFrame, VoteFrame, AbortFrame
  DEF Next, Tick, vars

LEMMA DraftKnownStep == IInv /\ DraftKnown /\ [Next]_vars => DraftKnown'
<1> SUFFICES ASSUME IInv, DraftKnown, [Next]_vars,
                    NEW p \in Procs, req'[p].pc = "insertElection"
             PROVE  /\ req'[p].ent.status = "draft"
                    /\ ~req'[p].ent.published
                    /\ ~req'[p].ent.deleted
  BY DEF DraftKnown
<1>1. CASE req'[p] = req[p]
  BY <1>1 DEF DraftKnown
<1>2. CASE ElectionNext(p)
  <2> USE DEF db, Goto, Finish, Idle, IInv, TypeOK, Request
  <2>1. ASSUME NEW s \in Scopes, NEW w \in Windows, Create(p, s, w)
        PROVE  /\ req'[p].ent.status = "draft"
               /\ ~req'[p].ent.published
               /\ ~req'[p].ent.deleted
    BY <2>1 DEF Create
  <2>2. ASSUME NEW pc, NEW r \in Request, pc # "insertElection", Goto(p, pc, r) PROVE FALSE
    BY <2>2
  <2>3. ASSUME NEW e \in Elections, NEW row, NEW pc,
               pc # "insertElection", HoldElection(p, e, row, pc)
        PROVE  FALSE
    BY <2>3 DEF HoldElection
  <2>4. ~Finish(p)
    OBVIOUS
  <2>5. ASSUME NEW e \in Elections, Remove(p, e) PROVE FALSE
    BY <2>5 DEF Remove
  <2>6. ASSUME CountRoll(p) \/ SaveElection(p) PROVE FALSE
    <3>1. ASSUME Goto(p, "saveElection", [req[p] EXCEPT !.ent.status = "active"])
          PROVE  FALSE
      BY <3>1
    <3>2. ASSUME NEW cols, Goto(p, "writeElection", [req[p] EXCEPT !.cols = cols])
          PROVE  FALSE
      BY <3>2
    <3>3. QED
      BY <2>4, <2>6, <3>1, <3>2 DEF CountRoll, SaveElection
  <2>7. ASSUME CountCandidacies(p) PROVE FALSE
    BY <2>2, <2>4, <2>7 DEF CountCandidacies
  <2>8. ~InsertElection(p) /\ ~WriteElection(p) /\ ~DeleteElection(p)
    BY <2>4 DEF InsertElection, WriteElection, DeleteElection
  <2> HIDE DEF db, Goto, Finish, Idle, IInv, TypeOK, Request
  <2>9. QED
    BY <1>2, <2>1, <2>3, <2>5, <2>6, <2>7, <2>8
    DEF ElectionNext, Update, Activate, Close, PublishResults
<1>3. QED
  BY <1>1, <1>2, ElectionHeld

LEMMA DraftInit == Init => DraftKnown
BY DEF Init, DraftKnown, Idle

\* A handler of the election service leaves its request knowing what it has
\* checked: activate the window and the count, close and publishResults what
\* the row they loaded had.
LEMMA OpeningElectionStep ==
    ASSUME IInv, DeskKnown, OpeningKnown, OpenedWithQuorum,
           NEW p \in Procs, ElectionNext(p)
    PROVE  OpeningRequest(req[p])'
<1> DEFINE new == req'[p]
<1>0. /\ TypeOK
      /\ req[p] \in Request
      /\ ElectionKnown(req[p])
      /\ DeskRequest(req[p])
      /\ OpeningRequest(req[p])
  BY DEF IInv, TypeOK, RequestsKnown, DeskKnown, OpeningKnown
\* The count that a request relies on is not changed by this step.
<1>k. ASSUME NEW e \in Elections, new.e = e
      PROVE  Quorate(req[p].e)' <=> Quorate(e)
  <2>1. UNCHANGED candidacies
    BY ElectionFrame DEF ElectionTouches
  <2>2. QED
    BY <1>k, <2>1 DEF Quorate, ApprovedCandidacies, FoundCandidacy
<1>o. ASSUME NEW e \in Elections, NEW row, Opened(e, row),
             new.pc = "saveElection", new.e = e, new.ent = row
      PROVE  OpeningRequest(req[p])'
  BY <1>k, <1>o DEF OpeningRequest, Opened
<1>q. req'[p] = Idle => OpeningRequest(req[p])'
  BY DEF OpeningRequest, Idle
<1>1. ASSUME NEW s \in Scopes, NEW w \in Windows, Create(p, s, w)
      PROVE  OpeningRequest(req[p])'
  <2>1. new.pc = "insertElection"
    BY <1>0, <1>1 DEF Create, Goto, Idle, TypeOK
  <2>2. QED
    BY <2>1 DEF OpeningRequest
\* The handlers that load an election and change it.
<1>2. ASSUME NEW e \in Elections, NEW row, HoldElection(p, e, row, "saveElection"),
             Opened(e, row)
      PROVE  OpeningRequest(req[p])'
  <2>1. new.pc = "saveElection" /\ new.e = e /\ new.ent = row
    BY <1>0, <1>2 DEF HoldElection, Goto, Idle, TypeOK
  <2>2. QED
    BY <1>2, <1>o, <2>1
<1>3. ASSUME NEW e \in Elections, NEW w \in Windows, Update(p, e, w)
      PROVE  OpeningRequest(req[p])'
  <2> DEFINE starts == IF w.starts # Null THEN w.starts ELSE elections[e].starts
             ends   == IF w.ends # Null THEN w.ends ELSE elections[e].ends
             row    == [elections[e] EXCEPT !.starts = starts, !.ends = ends]
  <2>1. elections[e] \in ElectionRow /\ elections[e].status = "draft"
    BY <1>0, <1>3 DEF TypeOK, Update, LoadedAs, FoundElection
  <2>2. row.status = "draft"
    BY <2>1 DEF ElectionRow
  <2>3. HoldElection(p, e, row, "saveElection")
    BY <1>3 DEF Update
  <2>4. QED
    BY <1>2, <2>2, <2>3 DEF Opened
<1>4. ASSUME NEW e \in Elections, Activate(p, e)
      PROVE  OpeningRequest(req[p])'
  <2>1. new.pc = "countCandidacies" /\ new.ent = elections[e]
    BY <1>0, <1>4 DEF Activate, HoldElection, Goto, Idle, TypeOK
  <2>2. elections[e].starts # Null /\ elections[e].ends > elections[e].starts
    BY <1>4 DEF Activate, assertWindow
  <2>3. QED
    BY <2>1, <2>2 DEF OpeningRequest
<1>5. ASSUME NEW e \in Elections, Close(p, e)
      PROVE  OpeningRequest(req[p])'
  <2>1. elections[e] \in ElectionRow /\ elections[e].status = "active"
    BY <1>0, <1>5 DEF TypeOK, Close, LoadedAs, FoundElection
  <2>2. Opened(e, [elections[e] EXCEPT !.status = "closed"])
    BY <1>5, <2>1 DEF Close, LoadedAs, FoundElection, OpenedWithQuorum, Opened, ElectionRow
  <2>3. QED
    BY <1>2, <1>5, <2>2 DEF Close
<1>6. ASSUME NEW e \in Elections, PublishResults(p, e)
      PROVE  OpeningRequest(req[p])'
  <2>1. elections[e] \in ElectionRow /\ elections[e].status = "closed"
    BY <1>0, <1>6 DEF TypeOK, PublishResults, LoadedAs, FoundElection
  <2>2. Opened(e, [elections[e] EXCEPT !.published = TRUE])
    BY <1>6, <2>1
    DEF PublishResults, LoadedAs, FoundElection, OpenedWithQuorum, Opened, ElectionRow
  <2>3. QED
    BY <1>2, <1>6, <2>2 DEF PublishResults
<1>7. ASSUME NEW e \in Elections, Remove(p, e)
      PROVE  OpeningRequest(req[p])'
  <2>1. new.pc = "deleteElection"
    BY <1>0, <1>7 DEF Remove, Goto, Idle, TypeOK
  <2>2. QED
    BY <2>1 DEF OpeningRequest
<1>8. CASE CountCandidacies(p)
  <2>1. CASE Finish(p)
    BY <1>0, <1>q, <2>1 DEF Finish, TypeOK
  <2>2. CASE Goto(p, "countRoll", req[p]) /\ Quorate(req[p].e)
    <3>1. new.pc = "countRoll" /\ new.e = req[p].e /\ new.ent = req[p].ent
      BY <1>0, <2>2 DEF Goto, TypeOK, Request
    <3>2. /\ req[p].e \in Elections
          /\ req[p].ent.starts # Null
          /\ req[p].ent.ends > req[p].ent.starts
      BY <1>0, <1>8 DEF CountCandidacies, At, ElectionKnown, HoldsElection, OpeningRequest
    <3>3. Quorate(req[p].e)'
      BY <1>k, <2>2, <3>1, <3>2
    <3>4. QED
      BY <3>1, <3>2, <3>3 DEF OpeningRequest
  <2>3. QED
    BY <1>8, <2>1, <2>2 DEF CountCandidacies, Quorate
<1>9. CASE CountRoll(p)
  <2>1. CASE Finish(p)
    BY <1>0, <1>q, <2>1 DEF Finish, TypeOK
  <2>2. CASE Goto(p, "saveElection", [req[p] EXCEPT !.ent.status = "active"])
    <3> DEFINE row == [req[p].ent EXCEPT !.status = "active"]
    <3>1. new.pc = "saveElection" /\ new.e = req[p].e /\ new.ent = row
      BY <1>0, <2>2 DEF Goto, TypeOK, Request
    <3>2. /\ req[p].e \in Elections
          /\ req[p].ent \in ElectionRow
          /\ ~req[p].ent.deleted
          /\ req[p].ent.starts # Null
          /\ req[p].ent.ends > req[p].ent.starts
          /\ Quorate(req[p].e)
      BY <1>0, <1>9
      DEF CountRoll, At, ElectionKnown, HoldsElection, DeskRequest, OpeningRequest
    <3>3. Opened(req[p].e, row)
      BY <3>2 DEF Opened, ElectionRow
    <3>4. QED
      BY <1>o, <3>1, <3>2, <3>3
  <2>3. QED
    BY <1>9, <2>1, <2>2 DEF CountRoll

<1>10. CASE SaveElection(p)
  <2> DEFINE row  == elections[req[p].e]
             ent  == req[p].ent
             cols == Dirty(ent, row)
  <2>1. CASE Finish(p)
    BY <1>0, <1>q, <2>1 DEF Finish, TypeOK
  <2>2. CASE Goto(p, "writeElection", [req[p] EXCEPT !.cols = cols])
    <3>1. /\ new.pc = "writeElection"
          /\ new.e = req[p].e
          /\ new.ent = ent
          /\ new.cols = cols
      BY <1>0, <2>2 DEF Goto, TypeOK, Request
    <3>2. /\ req[p].e \in Elections
          /\ row \in ElectionRow
          /\ ent \in ElectionRow
          /\ Opened(req[p].e, ent)
      BY <1>0, <1>10
      DEF SaveElection, At, ElectionKnown, HoldsElection, OpeningRequest, TypeOK
    <3>3. Written(row, ent, cols) = ent
      BY <3>2 DEF Written, Dirty, ElectionRow
    <3>4. UNCHANGED elections
      BY <1>10 DEF SaveElection, db
    <3>5. Written(elections[req[p].e], req[p].ent, req[p].cols)' = ent
      BY <3>1, <3>3, <3>4
    <3>6. Quorate(req[p].e)' <=> Quorate(req[p].e)
      BY <1>k, <3>1, <3>2
    <3>7. QED
      BY <3>1, <3>2, <3>5, <3>6 DEF OpeningRequest, Opened
  <2>3. QED
    BY <1>10, <2>1, <2>2 DEF SaveElection
<1>11. CASE InsertElection(p) \/ WriteElection(p) \/ DeleteElection(p)
  BY <1>0, <1>11, <1>q DEF InsertElection, WriteElection, DeleteElection, Finish, TypeOK
<1>12. QED
  BY <1>1, <1>3, <1>4, <1>5, <1>6, <1>7, <1>8, <1>9, <1>10, <1>11 DEF ElectionNext

LEMMA OpeningKnownStep ==
    ASSUME OneDesk, IInv, DeskKnown, PendingKnown, OpeningKnown, OpenedWithQuorum,
           [Next]_vars
    PROVE  OpeningKnown'
<1> SUFFICES ASSUME NEW q \in Procs PROVE OpeningRequest(req[q])'
  BY DEF OpeningKnown
<1>1. CASE ElectionNext(q)
  BY <1>1, OpeningElectionStep
<1>2. CASE req'[q].pc \notin ElectionPCs \cup {"insertElection"}
  BY <1>2 DEF OpeningRequest, ElectionPCs, HoldsElection
\* Somebody else's step: it is not the desk's if this request is.
<1>3. CASE req'[q] = req[q] /\ req[q].pc \in ElectionPCs \cup {"insertElection"}
  <2>1. OpeningRequest(req[q])
    BY DEF OpeningKnown
  <2>2. CASE req[q].pc = "insertElection"
    BY <1>3, <2>2 DEF OpeningRequest
  <2>3. CASE req[q].pc \in ElectionPCs
    <3>1. PICK e \in Elections : e = req[q].e /\ elections[e] # Null
      BY <2>3 DEF ElectionPCs, IInv, RequestsKnown, ElectionKnown
    <3>2. elections'[e] = elections[e]
      <4> SUFFICES ASSUME elections'[e] # elections[e] PROVE FALSE
        OBVIOUS
      <4>1. PICK p \in Procs : Desk(p) /\ req'[p] = Idle
        BY <3>1, ElectionChanges
      <4>2. p = q
        BY <2>3, <4>1 DEF OneDesk, OneClient, Desk, DeskKnown, ElectionPCs
      <4>3. QED
        BY <1>3, <2>3, <4>1, <4>2 DEF Idle, ElectionPCs, HoldsElection
    <3>3. Quorate(e) => Quorate(e)'
      BY QuorumStays
    <3>4. /\ Quorate(req[q].e)' <=> Quorate(e)'
          /\ Quorate(req[q].e) <=> Quorate(e)
      BY <1>3, <3>1 DEF Quorate, ApprovedCandidacies, FoundCandidacy
    <3>5. Written(elections[req[q].e], req[q].ent, req[q].cols)'
             = Written(elections[req[q].e], req[q].ent, req[q].cols)
      BY <1>3, <3>1, <3>2
    <3>6. QED
      BY <1>3, <2>1, <3>3, <3>4, <3>5 DEF OpeningRequest, Opened
  <2>4. QED
    BY <1>3, <2>2, <2>3
<1>4. QED
  BY <1>1, <1>2, <1>3, ElectionHeld

LEMMA OpenedStep ==
    ASSUME IInv, DeskKnown, PendingKnown, DraftKnown, OpeningKnown, OpenedWithQuorum,
           [Next]_vars
    PROVE  OpenedWithQuorum'
<1> SUFFICES ASSUME NEW e \in Elections, elections'[e] # Null
             PROVE  Opened(e, elections[e])'
  BY DEF OpenedWithQuorum
<1>0. Quorate(e) => Quorate(e)'
  BY QuorumStays
<1>1. CASE elections[e] = Null
  BY <1>1, ElectionAppears DEF DraftKnown, Opened
<1>2. CASE elections[e] # Null /\ elections'[e] = elections[e]
  BY <1>0, <1>2 DEF OpenedWithQuorum, Opened
<1>3. ASSUME elections[e] # Null, NEW p \in Procs, req[p].e = e,
             req[p].pc = "writeElection",
             elections'[e] = Written(elections[e], req[p].ent, req[p].cols)
      PROVE  Opened(e, elections[e])'
  <2>1. Opened(e, elections'[e])
    BY <1>3 DEF OpeningKnown, OpeningRequest
  <2>2. QED
    BY <1>0, <2>1 DEF Opened
<1>4. ASSUME elections[e] # Null, NEW p \in Procs, req[p].e = e,
             req[p].pc = "deleteElection",
             elections'[e] = [elections[e] EXCEPT !.deleted = TRUE]
      PROVE  Opened(e, elections[e])'
  <2>1. elections[e].status = "draft" /\ elections[e] \in ElectionRow
    BY <1>4 DEF DeskKnown, DeskRequest, IInv, TypeOK
  <2>2. elections'[e].status = "draft"
    BY <1>4, <2>1 DEF ElectionRow
  <2>3. QED
    BY <2>2 DEF Opened
<1>5. QED
  BY <1>1, <1>2, <1>3, <1>4, ElectionChanges

\* With one desk for the elections and one for the candidacies, what has been
\* opened has a window and the quorum of approved candidacies.
THEOREM OpenedWithQuorumHolds ==
    ASSUME OneDesk, OneClient(CandidacyWriters)
    PROVE  Spec => []OpenedWithQuorum
<1>1. Init => OpeningKnown /\ OpenedWithQuorum
  BY DEF Init, OpeningKnown, OpeningRequest, OpenedWithQuorum, Idle
<1>2. /\ IInv /\ DeskKnown /\ PendingKnown /\ DraftKnown /\ OpeningKnown /\ OpenedWithQuorum
      /\ [Next]_vars
      => /\ DeskKnown' /\ PendingKnown' /\ DraftKnown'
         /\ OpeningKnown' /\ OpenedWithQuorum'
  BY DeskNext, PendingKnownStep, DraftKnownStep, OpeningKnownStep, OpenedStep
<1>3. QED
  BY <1>1, <1>2, DeskInit, PendingInit, DraftInit, Invariance, PTL DEF Spec

-----------------------------------------------------------------------------
(***************************************************************************)
(* Under the same condition: every ballot counts for a candidacy and in an *)
(* election that are what they were when it was cast.                      *)
(***************************************************************************)
\* How a vote request comes to be where it is.
Joins(p) ==
    LET e == req'[p].e IN
    /\ req'[p].pc = "isRegistered"
    /\ e \in Elections
    /\ FoundElection(e)
    /\ VotingOpen(e)
    /\ "cast" \in Serves[p]

Proceeds(p) ==
    /\ req[p].pc \in CastPCs
    /\ req'[p].e = req[p].e
    /\ req'[p].c = req[p].c
    /\ req'[p].pc \in {"findVote", "insertVote"} =>
          req[p].pc = "findVote" \/ Eligible(req[p].c, req[p].e)

LEMMA CastMoves ==
    ASSUME IInv, NEW p \in Procs, VoteNext(p), req'[p].pc \in CastPCs
    PROVE  UNCHANGED <<db, now>> /\ (Joins(p) \/ Proceeds(p))
<1> USE DEF db, Goto, Finish, Idle, IInv, TypeOK, Request, CastPCs, At
<1>1. ASSUME NEW e \in Elections, NEW u \in Users, NEW c \in Candidacies, Cast(p, e, u, c)
      PROVE  UNCHANGED <<db, now>> /\ Joins(p)
  BY <1>1 DEF Cast, Accepts, Joins
<1>2. CASE IsRegistered(p)
  BY <1>2 DEF IsRegistered, Proceeds
<1>3. CASE LoadCandidacy(p)
  BY <1>3 DEF LoadCandidacy, Proceeds
<1>4. CASE FindVote(p)
  BY <1>4 DEF FindVote, Proceeds
<1>5. ~InsertVote(p)
  BY DEF InsertVote
<1>6. QED
  BY <1>1, <1>2, <1>3, <1>4, <1>5 DEF VoteNext

LEMMA CastHeld ==
    ASSUME IInv, [Next]_vars, NEW p \in Procs, req'[p].pc \in CastPCs
    PROVE  \/ req'[p] = req[p]
           \/ UNCHANGED <<db, now>> /\ (Joins(p) \/ Proceeds(p))
<1>1. ASSUME NEW q \in Procs, q # p,
             \/ ElectionNext(q) \/ RollNext(q) \/ CandidacyNext(q)
             \/ VoteNext(q) \/ Abort(q)
      PROVE  req'[p] = req[p]
  BY <1>1, ElectionFrame, RollFrame, CandidacyFrame, VoteFrame, AbortFrame
  DEF ElectionTouches, RollTouches, CandidacyTouches, VoteTouches, Moves
<1>2. ASSUME ElectionTouches(p) \/ RollTouches(p) \/ CandidacyTouches(p) \/ Moves(p, {})
      PROVE  FALSE
  BY <1>2 DEF ElectionTouches, RollTouches, CandidacyTouches, Moves, ElectionPCs,
              HoldsElection, RollPCs, BulkPCs, SubmitPCs, HoldsCandidacy, CastPCs
<1>3. QED
  BY <1>1, <1>2, CastMoves, ElectionFrame, RollFrame, CandidacyFrame, AbortFrame
  DEF Next, Tick, vars

\* An election that was opened stays in the table, opened, with the start of its
\* window; time does not go back.
OpenSince(e, t) ==
    /\ elections[e] # Null
    /\ elections[e].status # "draft"
    /\ t >= elections[e].starts

LEMMA TimePasses ==
    ASSUME IInv, OpenedWithQuorum, [Next]_vars, NEW e \in Elections, OpenSince(e, now)
    PROVE  OpenSince(e, now')
<1>1. elections[e].starts \in Int /\ now \in Int
  BY DEF OpenSince, OpenedWithQuorum, Opened, IInv, TypeOK, ElectionRow, Time
<1>2. now' = now \/ now' = now + 1
  BY ElectionFrame, RollFrame, CandidacyFrame, VoteFrame
  DEF Next, Abort, Tick, vars, ElectionTouches, RollTouches, CandidacyTouches, VoteTouches
<1>3. QED
  BY <1>1, <1>2 DEF OpenSince

\* A reviewed and approved candidacy stays so.
LEMMA ApprovedStays ==
    ASSUME IInv, PendingKnown, [Next]_vars, NEW c \in Candidacies,
           FoundCandidacy(c), Approved(c)
    PROVE  candidacies'[c] = candidacies[c]
BY ReviewFinalStep DEF FoundCandidacy, Approved, Pending

LEMMA BackedKnownStep ==
    ASSUME IInv, DeskKnown, PendingKnown, OpenedWithQuorum, BackedKnown, [Next]_vars
    PROVE  BackedKnown'
<1> SUFFICES ASSUME NEW q \in Procs, req'[q].pc \in CastPCs
             PROVE  BackedRequest(req[q])'
  BY DEF BackedKnown, BackedRequest, CastPCs
<1> DEFINE e == req'[q].e
           c == req'[q].c
<1>0. e \in Elections /\ c \in Candidacies
  BY IInvNext DEF IInv, RequestsKnown, ArgumentsKnown
<1>1. OpenSince(e, now) /\ (req'[q].pc \in {"findVote", "insertVote"} =>
                               FoundCandidacy(c) /\ Approved(c))
  <2>1. CASE req'[q] = req[q]
    BY <2>1 DEF BackedKnown, BackedRequest, OpenSince
  <2>2. CASE Joins(q)
    <3>1. elections[e] # Null /\ elections[e].status = "active" /\ elections[e].starts # Null
      BY <1>0, <2>2 DEF Joins, FoundElection, VotingOpen, OpenedWithQuorum, Opened
    <3>2. QED
      BY <2>2, <3>1 DEF Joins, VotingOpen, OpenSince
  <2>3. CASE Proceeds(q)
    BY <2>3 DEF Proceeds, BackedKnown, BackedRequest, OpenSince, Eligible
  <2>4. QED
    BY <2>1, <2>2, <2>3, CastHeld
<1>2. OpenSince(e, now')
  BY <1>0, <1>1, TimePasses
<1>3. /\ elections'[e] # Null
      /\ elections'[e].status # "draft"
      /\ now' >= elections'[e].starts
  <2>1. elections[e] # Null /\ elections[e].status # "draft" /\ now' >= elections[e].starts
    BY <1>2 DEF OpenSince
  <2>2. QED
    BY <1>0, <2>1, ForwardStep DEF Forward, NextStatus
<1>4. req'[q].pc \in {"findVote", "insertVote"} =>
         FoundCandidacy(c) /\ Approved(c) /\ candidacies'[c] = candidacies[c]
  BY <1>0, <1>1, ApprovedStays
<1>5. QED
  BY <1>3, <1>4 DEF BackedRequest, FoundCandidacy, Approved

LEMMA BallotsBackedStep ==
    ASSUME IInv, DeskKnown, PendingKnown, OpenedWithQuorum, BackedKnown, BallotsBacked,
           [Next]_vars
    PROVE  BallotsBacked'
<1> SUFFICES ASSUME NEW v \in votes'
             PROVE  /\ FoundCandidacy(v.candidacy)'
                    /\ Approved(v.candidacy)'
                    /\ FoundElection(v.election)'
                    /\ elections'[v.election].status # "draft"
                    /\ v.castAt >= elections'[v.election].starts
  BY DEF BallotsBacked
\* The ballots of before, and the one that is being put in the box.
<1>1. /\ v.candidacy \in Candidacies
      /\ v.election \in Elections
      /\ FoundCandidacy(v.candidacy)
      /\ Approved(v.candidacy)
      /\ OpenSince(v.election, v.castAt)
  <2>1. CASE v \in votes
    BY <2>1 DEF BallotsBacked, OpenSince, FoundElection, IInv, TypeOK, VoteRow
  <2>2. ASSUME v \notin votes
        PROVE  \E p \in Procs : /\ req[p].pc = "insertVote"
                                /\ v.election = req[p].e
                                /\ v.candidacy = req[p].c
                                /\ v.castAt = now
    <3>1. PICK p \in Procs : VoteNext(p)
      BY <2>2, ElectionFrame, RollFrame, CandidacyFrame
      DEF Next, Abort, Tick, vars, db, ElectionTouches, RollTouches, CandidacyTouches
    <3>2. InsertVote(p)
      BY <2>2, <3>1 DEF VoteNext, Cast, IsRegistered, LoadCandidacy, FindVote, db
    <3>3. QED
      BY <2>2, <3>2 DEF InsertVote, At
  <2>3. ASSUME NEW p \in Procs, req[p].pc = "insertVote", v.election = req[p].e,
               v.candidacy = req[p].c, v.castAt = now
        PROVE  /\ v.candidacy \in Candidacies
               /\ v.election \in Elections
               /\ FoundCandidacy(v.candidacy)
               /\ Approved(v.candidacy)
               /\ OpenSince(v.election, v.castAt)
    BY <2>3 DEF IInv, RequestsKnown, ArgumentsKnown, BackedKnown, BackedRequest, CastPCs,
                OpenSince
  <2>4. QED
    BY <2>1, <2>2, <2>3
<1>2. candidacies'[v.candidacy] = candidacies[v.candidacy]
  BY <1>1, ApprovedStays
<1>3. /\ elections'[v.election] # Null
      /\ elections'[v.election].status # "draft"
      /\ v.castAt >= elections'[v.election].starts
  BY <1>1, ForwardStep DEF OpenSince, Forward, NextStatus
<1>4. ~elections'[v.election].deleted
  BY <1>1, ForwardStep DEF OpenSince, Forward, OpenedWithQuorum, Opened
<1>5. QED
  BY <1>1, <1>2, <1>3, <1>4 DEF FoundCandidacy, Approved, FoundElection

\* With one desk for the elections and one for the candidacies, every vote is
\* for an approved candidacy of an election that was opened before it was cast,
\* whatever was closed, saved or withdrawn while the cast was under way.
THEOREM BallotsBackedHolds ==
    ASSUME OneDesk, OneClient(CandidacyWriters)
    PROVE  Spec => []BallotsBacked
<1>1. Init => /\ OpeningKnown /\ OpenedWithQuorum
              /\ BackedKnown /\ BallotsBacked
  BY DEF Init, OpeningKnown, OpeningRequest, OpenedWithQuorum, BackedKnown, BackedRequest,
         BallotsBacked, Idle, CastPCs
<1>2. /\ IInv /\ DeskKnown /\ PendingKnown /\ DraftKnown /\ OpeningKnown /\ OpenedWithQuorum
      /\ BackedKnown /\ BallotsBacked
      /\ [Next]_vars
      => /\ DeskKnown' /\ PendingKnown' /\ DraftKnown'
         /\ OpeningKnown' /\ OpenedWithQuorum'
         /\ BackedKnown' /\ BallotsBacked'
  BY DeskNext, PendingKnownStep, DraftKnownStep, OpeningKnownStep, OpenedStep,
     BackedKnownStep, BallotsBackedStep
<1>3. QED
  BY <1>1, <1>2, DeskInit, PendingInit, DraftInit, Invariance, PTL DEF Spec

-----------------------------------------------------------------------------
(***************************************************************************)
(* One desk, and as many voters as there are: what is published.           *)
(***************************************************************************)
LEMMA PublishedIsClosedStep ==
    ASSUME IInv, DeskKnown, DraftKnown, PublishedIsClosed, [Next]_vars
    PROVE  PublishedIsClosed'
<1> SUFFICES ASSUME NEW e \in Elections, elections'[e] # Null, elections'[e].published
             PROVE  elections'[e].status = "closed"
  BY DEF PublishedIsClosed, Closed
<1>1. CASE elections[e] = Null
  BY <1>1, ElectionAppears DEF DraftKnown
<1>2. CASE elections[e] # Null
  BY <1>2, ForwardStep DEF Forward, NextStatus, PublishedIsClosed, Closed
<1>3. QED
  BY <1>1, <1>2

LEMMA PublishedStep ==
    ASSUME IInv, DeskKnown, PublishedIsClosed, [Next]_vars,
           NEW e \in Elections, elections[e] # Null, elections[e].published
    PROVE  /\ elections'[e].published
           /\ CastsInFlight(e)' \subseteq CastsInFlight(e)
           /\ CastsInFlight(e) = {} => Tally(e)' = Tally(e)
<1>1. Closed(e)
  BY DEF PublishedIsClosed
<1>2. Ballots(e)' = Ballots(e) => Tally(e)' = Tally(e)
  BY DEF Tally
<1>3. elections'[e].published
  BY ForwardStep, IInvNext DEF Forward, IInv, TypeOK, ElectionRow
<1>4. QED
  BY <1>1, <1>2, <1>3, DrainStep

\* With one client for the operations that change an election, results are
\* published for good, and what getResults shows of them goes on changing only
\* with the casts that were in flight when voting closed.
THEOREM PublishedTallyDrainsHolds == ASSUME OneDesk PROVE Spec => PublishedTallyDrains
<1>1. Init => PublishedIsClosed
  BY DEF Init, PublishedIsClosed
<1>2. /\ IInv /\ DeskKnown /\ DraftKnown /\ PublishedIsClosed
      /\ [Next]_vars
      => DeskKnown' /\ DraftKnown' /\ PublishedIsClosed'
  BY DeskNext, DraftKnownStep, PublishedIsClosedStep
<1>3. IInv /\ DeskKnown /\ PublishedIsClosed /\ [Next]_vars =>
         [\A e \in Elections : elections[e] # Null /\ elections[e].published =>
             /\ elections'[e].published
             /\ CastsInFlight(e)' \subseteq CastsInFlight(e)
             /\ CastsInFlight(e) = {} => Tally(e)' = Tally(e)]_vars
  BY PublishedStep
<1>4. QED
  BY <1>1, <1>2, <1>3, DeskInit, DraftInit, Invariance, PTL DEF Spec, PublishedTallyDrains

=============================================================================
