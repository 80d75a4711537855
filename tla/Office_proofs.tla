---------------------------- MODULE Office_proofs ----------------------------
(***************************************************************************)
(* Proofs about Office: what holds under every interleaving, for any       *)
(* number of requests and rows and whoever is served; then what holds with *)
(* one client for the reviews.                                             *)
(*                                                                         *)
(* The inductive invariant says what a request knows of the row it holds   *)
(* in memory.  The row may have changed since it was read, but never the   *)
(* columns nobody writes, and what the entity shows as decided has its     *)
(* entry in the audit log, or is what the handler is about to record.      *)
(***************************************************************************)
EXTENDS Office, FiniteSetTheorems, TLAPS

\* What row shows as decided is accounted for, or is what op decides.
DecisionsKnown(row, op, x) ==
    /\ row.table = "achievements" /\ row.approved =>
          op = "approveAchievement" \/ <<"approveAchievement", x>> \in Accounted
    /\ row.table = "achievements" /\ row.rejected =>
          op = "rejectAchievement" \/ <<"rejectAchievement", x>> \in Accounted
    /\ row.table = "contestations" /\ row.stamped =>
          op = "resolve" \/ <<"resolve", x>> \in Accounted
    /\ row.table = "questions" /\ row.stamped =>
          op = "hide" \/ <<"hide", x>> \in Accounted

\* Where a handler is about to use the row of its id, and where it has made a
\* row that has no id yet.
OnRow == {"save", "write", "assertActivePosition", "assertOwnCandidacy", "softDelete",
          "record", "findPost", "findQuestion", "countLinked", "countChildren"}
Making == {"insert", "findPosition", "findPayment", "findProgram", "findCategory",
           "findParent"}

\* Where it looks for the row that the entity refers to.
LookingUp == {"findParent", "assertJurisdictionExists", "assertActivePosition",
              "assertOwnCandidacy"}

\* The row is there; audited operations alone come to be recorded.
RowKnown(r) ==
    /\ r.x \in Ids => tab[r.x] # Null
    /\ r.pc \in OnRow => r.x \in Ids
    /\ r.pc \in Making => r.x = Null
    /\ r.pc = "record" => r.op \in Audited
    /\ r.op = "updateJurisdiction" => r.pc \in {"save", "write"}
    /\ r.pc = "assertJurisdictionExists" => (r.x = Null <=> r.op = "createUniversity")
    /\ r.pc \in LookingUp => r.ent.ref = r.to

\* The entity agrees with its row on what is never written.
EntityKnown(r) ==
    r.pc \in Holding /\ r.x \in Ids =>
        /\ IsEntity(r.ent)
        /\ r.ent.table = tab[r.x].table
        /\ r.ent.table \in Fixed => /\ r.ent.ref = tab[r.x].ref
                                    /\ r.ent.fee = tab[r.x].fee
        /\ r.cols \subseteq DOMAIN r.ent
        /\ DecisionsKnown(r.ent, r.op, r.x)

\* A contestation is about an approval.
Justified(row) ==
    row.table = "contestations" => <<"approveAchievement", row.ref>> \in Accounted

\* The new row is undecided, and contests an approval.
NewKnown(r) ==
    r.pc \in Making \cup {"assertJurisdictionExists"} /\ r.x = Null =>
        /\ r.ent \in Row
        /\ Undecided(r.ent)
        /\ Justified(r.ent)

Known(r) == RowKnown(r) /\ EntityKnown(r) /\ NewKnown(r)

IInv ==
    /\ TypeOK
    /\ \A x \in Ids : tab[x] # Null => DecisionsKnown(tab[x], "none", x)
    /\ ContestedWasApproved
    /\ OneFilePerCandidacy
    /\ \A p \in Procs : Known(req[p])

-----------------------------------------------------------------------------
(***************************************************************************)
(* What the action properties ask of a step.                               *)
(***************************************************************************)
Drained == \A d \in Ids \X DateColumns :
              d \in DatesSet =>
                 /\ Undoing(d[1], d[2])' \subseteq Undoing(d[1], d[2])
                 /\ Undoing(d[1], d[2]) = {} => d \in DatesSet'

Frozen == \A x \in Ids : tab[x] # Null /\ tab[x].table \in Fixed =>
             tab'[x].ref = tab[x].ref /\ tab'[x].fee = tab[x].fee

NoMore == \A x \in Ids : tab[x] # Null /\ tab[x].deleted =>
             \A p \in Attaching(x)' \ Attaching(x) :
                req'[p].x # Null /\ tab[req'[p].x].ref = x

Right == IInv' /\ Drained /\ Frozen /\ NoMore

\* r, which the request of p is to become, undoes nothing that p did not.
NewHands(p, r) ==
    r.pc \in Holding /\ r.x \in Ids =>
        \A col \in DateColumns \cap DOMAIN r.ent :
           ~r.ent[col] /\ <<r.x, col>> \in DatesSet => p \in Undoing(r.x, col)

\* r attaches to no removed row that p did not.
NewRefs(p, r) ==
    \A x \in Ids :
        r.pc \in Sure /\ r.op # "updateJurisdiction" /\ r.ent.ref = x /\ tab[x] # Null
              /\ tab[x].deleted =>
           p \in Attaching(x) \/ (r.x # Null /\ tab[r.x].ref = x)

USE NullIsNoValue

LEMMA IdleFacts ==
    /\ IsRequest(Idle)
    /\ Known(Idle)
    /\ Known(Idle)'
BY DEF Idle, Request, IsRequest, PCs, Known, RowKnown, EntityKnown, NewKnown, OnRow,
       LookingUp, Making, Holding

\* What is accounted for stays so, when those who are to record go on doing so.
LEMMA AccountedGrows ==
    ASSUME TypeOK, NEW p \in Procs, NEW r, req' = [req EXCEPT ![p] = r],
           log \subseteq log', unlogged \subseteq unlogged',
           At(p, "record") => <<req[p].op, req[p].x>> \in log' \cup unlogged'
    PROVE  Accounted \subseteq Accounted'
<1>1. Recording \subseteq Recording' \cup log' \cup unlogged'
  <2> SUFFICES ASSUME NEW q \in Procs, At(q, "record")
               PROVE  <<req[q].op, req[q].x>> \in Recording' \cup log' \cup unlogged'
    BY DEF Recording
  <2>1. CASE q = p
    BY <2>1
  <2>2. CASE q # p
    <3>1. req'[q] = req[q]
      BY <2>2 DEF TypeOK
    <3>2. QED
      BY <3>1 DEF Recording, At
  <2>3. QED
    BY <2>1, <2>2
<1>2. QED
  BY <1>1 DEF Accounted

\* What a request knows survives the others' steps.
TabKeeps == \A x \in Ids : tab[x] # Null =>
               /\ tab'[x] # Null
               /\ tab'[x].table = tab[x].table
               /\ tab[x].table \in Fixed =>
                     tab'[x].ref = tab[x].ref /\ tab'[x].fee = tab[x].fee

LEMMA KnownStays ==
    ASSUME NEW q, Known(req[q]), req'[q] = req[q], TabKeeps, Accounted \subseteq Accounted'
    PROVE  Known(req[q])'
<1>1. RowKnown(req[q])'
  BY DEF Known, RowKnown, TabKeeps
<1>2. EntityKnown(req[q])'
  BY DEF Known, EntityKnown, DecisionsKnown, TabKeeps, RowKnown
<1>3. NewKnown(req[q])'
  BY DEF Known, NewKnown, Justified
<1>4. QED
  BY <1>1, <1>2, <1>3 DEF Known

\* A step of p that reads the database and moves its request on to r.
LEMMA MoveStep ==
    ASSUME IInv, NEW p \in Procs, Reads, ~At(p, "record"),
           NEW r, IsRequest(r), Known(r), NewHands(p, r), NewRefs(p, r),
           req' = [req EXCEPT ![p] = r]
    PROVE  Right
<1> USE DEF Reads
<1>0. DOMAIN req = Procs /\ DOMAIN req' = Procs
  BY DEF IInv, TypeOK
<1>1. req'[p] = r /\ \A q \in Procs \ {p} : req'[q] = req[q]
  BY <1>0
<1>2. Accounted \subseteq Accounted' /\ TabKeeps
  BY AccountedGrows DEF IInv, TabKeeps
<1>3. TypeOK'
  BY <1>0, <1>1 DEF IInv, TypeOK
<1>4. \A q \in Procs : Known(req[q])'
  <2>1. Known(req[p])'
    BY <1>1, <1>2 DEF Known, RowKnown, EntityKnown, NewKnown, DecisionsKnown, Justified
  <2>2. ASSUME NEW q \in Procs \ {p} PROVE Known(req[q])'
    BY <2>2, <1>1, <1>2, KnownStays DEF IInv
  <2>3. QED
    BY <2>1, <2>2
<1>5. IInv'
  BY <1>2, <1>3, <1>4 DEF IInv, DecisionsKnown, ContestedWasApproved, OneFilePerCandidacy, Rows
<1>6. Drained
  <2> SUFFICES ASSUME NEW d \in Ids \X DateColumns, d \in DatesSet
               PROVE  /\ Undoing(d[1], d[2])' \subseteq Undoing(d[1], d[2])
                      /\ d \in DatesSet'
    BY DEF Drained
  <2>1. d \in DatesSet'
    BY DEF DatesSet, IsSet
  <2>2. ASSUME NEW q \in Undoing(d[1], d[2])' PROVE q \in Undoing(d[1], d[2])
    <3>1. CASE q = p
      BY <2>2, <3>1, <1>1 DEF Undoing, NewHands, DatesSet
    <3>2. CASE q # p
      BY <2>2, <3>2, <1>1 DEF Undoing
    <3>3. QED
      BY <3>1, <3>2
  <2>3. QED
    BY <2>1, <2>2
<1>7. Frozen
  BY DEF Frozen
<1>8. NoMore
  <2> SUFFICES ASSUME NEW x \in Ids, tab[x] # Null /\ tab[x].deleted,
                      NEW q \in Attaching(x)' \ Attaching(x)
               PROVE  req'[q].x # Null /\ tab[req'[q].x].ref = x
    BY DEF NoMore
  <2>1. q = p
    BY <1>1 DEF Attaching
  <2>2. QED
    BY <2>1, <1>1 DEF Attaching, NewRefs
<1>9. QED
  BY <1>5, <1>6, <1>7, <1>8 DEF Right

-----------------------------------------------------------------------------
(***************************************************************************)
(* The kinds of steps that read the database.                              *)
(***************************************************************************)
LEMMA FinishStep ==
    ASSUME IInv, NEW p \in Procs, ~At(p, "record"), Finish(p), Reads
    PROVE  Right
<1>1. NewHands(p, Idle) /\ NewRefs(p, Idle)
  BY DEF NewHands, NewRefs, Idle, Request, Holding, Sure
<1>2. QED
  BY <1>1, IdleFacts, MoveStep DEF Finish

\* A handler that has made a row, and is to insert it or to look first at the
\* row it is about.
LEMMA MakeStep ==
    ASSUME IInv, NEW p \in Procs, ~At(p, "record"),
           NEW pc \in Making \cup {"assertJurisdictionExists"}, NEW op \in Operations,
           NEW ent \in Row, NEW to \in Ids \cup {Null},
           Undecided(ent), Justified(ent),
           pc \in LookingUp => ent.ref = to,
           pc = "assertJurisdictionExists" => op = "createUniversity",
           pc \in Sure /\ ent.ref \in Ids => \/ p \in Attaching(ent.ref)
                                             \/ /\ tab[ent.ref] # Null
                                                /\ ~tab[ent.ref].deleted,
           op # "updateJurisdiction", LookUp(p, pc, op, Null, ent, to)
    PROVE  Right
<1> DEFINE r == [pc |-> pc, op |-> op, x |-> Null, ent |-> ent, to |-> to, cols |-> {}]
<1>1. req' = [req EXCEPT ![p] = r] /\ Reads
  BY DEF LookUp, Hold, Request
<1>2. IsEntity(ent)
  BY DEF IsEntity, Row, Columns
<1>3. IsRequest(r)
  BY <1>2 DEF IsRequest, Idle, Request, PCs, Making
<1>4. Known(r)
  BY DEF Known, RowKnown, EntityKnown, NewKnown, OnRow, LookingUp, Making, Holding
<1>5. NewHands(p, r) /\ NewRefs(p, r)
  BY DEF NewHands, NewRefs
<1>6. QED
  BY <1>1, <1>3, <1>4, <1>5, MoveStep

\* ent may be saved over the row x by op: it shows no date of the row as not set,
\* and as decided only what is, or what op decides.
Follows(ent, x, op) ==
    /\ IsEntity(ent)
    /\ ent.table = tab[x].table
    /\ ent.table \in Fixed => ent.ref = tab[x].ref /\ ent.fee = tab[x].fee
    /\ \A col \in DateColumns \cap DOMAIN ent : tab[x][col] => ent[col]
    /\ ent.table = "achievements" =>
          /\ ent.approved => tab[x].approved \/ op = "approveAchievement"
          /\ ent.rejected => tab[x].rejected \/ op = "rejectAchievement"
    /\ ent.stamped => \/ tab[x].stamped
                      \/ op = "resolve"
                      \/ op = "hide"
                      \/ ent.table = "campaign_posts"
    /\ op = "resolve" => ent.table = "contestations"
    /\ op = "hide" => ent.table = "questions"

\* A handler that has loaded a row and changed it in memory.
LEMMA SaveStep ==
    ASSUME IInv, NEW p \in Procs, ~At(p, "record"),
           NEW pc \in Holding \ {"write"}, NEW op \in Operations,
           NEW x \in Ids, tab[x] # Null, NEW ent, Follows(ent, x, op),
           NEW to \in Ids \cup {Null},
           pc \in LookingUp => ent.ref = to,
           pc = "assertJurisdictionExists" => op # "createUniversity",
           pc = "save" /\ op # "updateJurisdiction" => ent.ref \in {tab[x].ref, Null},
           op = "updateJurisdiction" => pc = "save",
           LookUp(p, pc, op, x, ent, to)
    PROVE  Right
<1> DEFINE r == [pc |-> pc, op |-> op, x |-> x, ent |-> ent, to |-> to, cols |-> {}]
<1>0. req' = [req EXCEPT ![p] = r] /\ Reads
  BY DEF LookUp, Request
<1>1. IsRequest(r)
  BY DEF IsRequest, Idle, Request, PCs, Holding, Follows
<1>2. RowKnown(r) /\ NewKnown(r)
  BY DEF RowKnown, NewKnown, OnRow, LookingUp, Making, Holding
<1>3. DecisionsKnown(ent, op, x)
  BY DEF IInv, DecisionsKnown, Follows
<1>4. EntityKnown(r)
  BY <1>3 DEF EntityKnown, Follows, IsEntity, Columns
<1>5. NewHands(p, r)
  BY DEF NewHands, DatesSet, IsSet, Follows
<1>6. NewRefs(p, r)
  BY DEF NewRefs, Sure, Holding
<1>7. QED
  BY <1>0, <1>1, <1>2, <1>4, <1>5, <1>6, MoveStep DEF Known

\* A handler that has found a row, and keeps its id alone.
LEMMA RowStep ==
    ASSUME IInv, NEW p \in Procs, ~At(p, "record"),
           NEW pc \in {"softDelete", "findPost", "findQuestion", "countLinked"},
           NEW op \in Operations \ {"updateJurisdiction"}, NEW x \in Ids, tab[x] # Null,
           Hold(p, pc, op, x, Null)
    PROVE  Right
<1> DEFINE r == [pc |-> pc, op |-> op, x |-> x, ent |-> Null, to |-> Null, cols |-> {}]
<1>1. req' = [req EXCEPT ![p] = r] /\ Reads
  BY DEF LookUp, Hold, Request
<1>2. IsRequest(r) /\ Known(r) /\ NewHands(p, r) /\ NewRefs(p, r)
  BY DEF IsRequest, Idle, Request, PCs, Known, RowKnown, EntityKnown, NewKnown, NewHands, NewRefs,
         OnRow, LookingUp, Making, Holding, Sure
<1>3. QED
  BY <1>1, <1>2, MoveStep

-----------------------------------------------------------------------------
(***************************************************************************)
(* The handlers, up to their last statement.                               *)
(***************************************************************************)
LEMMA Accepted ==
    ASSUME IInv, NEW p \in Procs, NEW op, Accepts(p, op)
    PROVE  op \in Operations /\ ~At(p, "record")
BY DEF IInv, TypeOK, Accepts, At

LEMMA LiveFacts ==
    ASSUME IInv, NEW x, NEW table, Live(table, x)
    PROVE  /\ x \in Ids
           /\ tab[x] \in Row
           /\ tab[x] # Null
           /\ tab[x].table = table
           /\ ~tab[x].deleted
BY DEF IInv, TypeOK, Live

\* An edited row is saved, or first what it is to refer to is looked at.
LEMMA EditStep ==
    ASSUME IInv, NEW p \in Procs, ~At(p, "record"), NEW op \in Operations,
           NEW pc \in Holding \ {"write"}, NEW x \in Ids, tab[x] \in Row,
           NEW ent \in Row, NEW to \in Ids \cup {Null},
           ent.table = tab[x].table,
           ent.table \in Fixed => ent.ref = tab[x].ref /\ ent.fee = tab[x].fee,
           tab[x].approved => ent.approved,
           tab[x].rejected => ent.rejected,
           tab[x].stamped => ent.stamped,
           tab[x].deleted => ent.deleted,
           ent.table = "achievements" =>
              /\ ent.approved => tab[x].approved \/ op = "approveAchievement"
              /\ ent.rejected => tab[x].rejected \/ op = "rejectAchievement",
           ent.stamped => \/ tab[x].stamped
                          \/ op \in {"resolve", "hide"}
                          \/ ent.table = "campaign_posts",
           op = "resolve" => ent.table = "contestations",
           op = "hide" => ent.table = "questions",
           pc \in LookingUp => ent.ref = to,
           pc = "assertJurisdictionExists" => op # "createUniversity",
           pc = "save" /\ op # "updateJurisdiction" => ent.ref \in {tab[x].ref, Null},
           op = "updateJurisdiction" => pc = "save",
           LookUp(p, pc, op, x, ent, to)
    PROVE  Right
<1>1. IsEntity(ent)
  BY DEF IsEntity, Row, Columns
<1>2. Follows(ent, x, op)
  BY <1>1 DEF Follows, DateColumns
<1>3. tab[x] # Null
  BY NullIsNoValue
<1>4. QED
  BY <1>2, <1>3, SaveStep

LEMMA PositionSteps ==
    ASSUME IInv, NEW p \in Procs,
           \/ \E fee \in Fees \cup {Null} : CreatePosition(p, fee)
           \/ \E x \in Ids, active \in BOOLEAN, fee \in Fees \cup {Null} :
                 UpdatePosition(p, x, active, fee)
           \/ \E x \in Ids : RemovePosition(p, x)
    PROVE  Right
<1>1. ASSUME NEW fee \in Fees \cup {Null}, CreatePosition(p, fee) PROVE Right
  <2>1. "createPosition" \in Operations /\ ~At(p, "record")
    BY <1>1, Accepted DEF CreatePosition
  <2>2. /\ NewPosition(fee) \in Row
        /\ Undecided(NewPosition(fee))
        /\ NewPosition(fee).table = "positions"
        /\ NewPosition(fee).ref = Null
        /\ Justified(NewPosition(fee))
    BY DEF NewPosition, Justified, Blank, Row, Undecided, Tables
  <2>3. LookUp(p, "insert", "createPosition", Null, NewPosition(fee), Null)
    BY <1>1 DEF CreatePosition, Hold
  <2>4. QED
    BY <2>1, <2>2, <2>3, MakeStep DEF Making, LookingUp
<1>2. ASSUME NEW x \in Ids, NEW active \in BOOLEAN, NEW fee \in Fees \cup {Null},
             UpdatePosition(p, x, active, fee)
      PROVE  Right
  <2> DEFINE ent == [tab[x] EXCEPT !.active = active, !.fee = fee]
  <2>1. "updatePosition" \in Operations /\ ~At(p, "record")
    BY <1>2, Accepted DEF UpdatePosition
  <2>2. tab[x] \in Row /\ tab[x].table = "positions"
    BY <1>2, LiveFacts DEF UpdatePosition
  <2>3. ent \in Row /\ ent.table = "positions" /\ ent.ref = tab[x].ref
    BY <2>2 DEF Row
  <2>4. /\ ent.approved = tab[x].approved
        /\ ent.rejected = tab[x].rejected
        /\ ent.stamped = tab[x].stamped
        /\ ent.deleted = tab[x].deleted
    BY <2>2 DEF Row
  <2>5. LookUp(p, "save", "updatePosition", x, ent, Null)
    BY <1>2 DEF UpdatePosition, Hold
  <2>6. QED
    BY <2>1, <2>2, <2>3, <2>4, <2>5, EditStep DEF Fixed, Holding, LookingUp
<1>3. ASSUME NEW x \in Ids, RemovePosition(p, x) PROVE Right
  <2>1. "removePosition" \in Operations /\ ~At(p, "record")
    BY <1>3, Accepted DEF RemovePosition
  <2>2. QED
    BY <1>3, <2>1, LiveFacts, RowStep DEF RemovePosition
<1>4. QED
  BY <1>1, <1>2, <1>3

\* A handler that has looked a row up, or counted some, and goes on.
LEMMA GoOnStep ==
    ASSUME IInv, NEW p \in Procs, NEW found, NEW pc, GoOnIf(p, found, pc), found,
           \/ req[p].pc \in Making \cup {"assertJurisdictionExists"} /\ pc = "insert"
              /\ (req[p].pc = "assertJurisdictionExists" => req[p].op = "createUniversity")
           \/ req[p].pc \in Holding \ {"save", "write"} /\ pc \in {"save", "softDelete"}
              /\ (req[p].pc = "assertJurisdictionExists" => req[p].op # "createUniversity")
           \/ req[p].pc \in {"countLinked", "countChildren"}
              /\ pc \in {"countChildren", "softDelete"},
           pc \in {"insert", "save"} /\ req[p].pc \notin Sure =>
              \/ req[p].ent.ref \in Ids => /\ tab[req[p].ent.ref] # Null
                                           /\ ~tab[req[p].ent.ref].deleted
              \/ req[p].x \in Ids /\ tab[req[p].x].ref = req[p].ent.ref,
           req[p].pc # "record"
    PROVE  Right
<1> DEFINE r == [req[p] EXCEPT !.pc = pc]
<1>1. req' = [req EXCEPT ![p] = r] /\ Reads
  BY DEF GoOnIf, Goto
<1>2. IsRequest(req[p]) /\ Known(req[p]) /\ ~At(p, "record")
  BY DEF IInv, TypeOK, At
<1>3. /\ r.pc = pc
      /\ DOMAIN r = DOMAIN req[p]
      /\ r.op = req[p].op
      /\ r.x = req[p].x
      /\ r.ent = req[p].ent
      /\ r.to = req[p].to
      /\ r.cols = req[p].cols
  BY <1>2 DEF IsRequest, Idle, Request
<1>4. req[p].x \in Ids \cup {Null}
  BY <1>2 DEF IsRequest
<1>5. IsRequest(r)
  BY <1>2, <1>3 DEF IsRequest, PCs
<1>6. Known(r)
  <2>1. RowKnown(r)
    BY <1>2, <1>3, <1>4 DEF Known, RowKnown, OnRow, LookingUp, Making, Holding
  <2>2. EntityKnown(r)
    BY <1>2, <1>3 DEF Known, EntityKnown, RowKnown, OnRow, LookingUp, Making, Holding
  <2>3. NewKnown(r)
    BY <1>2, <1>3 DEF Known, NewKnown, RowKnown, OnRow, LookingUp, Making, Holding
  <2>4. QED
    BY <2>1, <2>2, <2>3 DEF Known
<1>7. NewHands(p, r)
  BY <1>2, <1>3 DEF NewHands, Undoing, Known, RowKnown, OnRow, LookingUp, Making, Holding,
                     DateColumns
<1>8. NewRefs(p, r)
  BY <1>2, <1>3 DEF NewRefs, Attaching, Sure, IsRequest
<1>9. QED
  BY <1>1, <1>2, <1>5, <1>6, <1>7, <1>8, MoveStep

LEMMA CandidacySteps ==
    ASSUME IInv, NEW p \in Procs,
           \/ \E x \in Ids, to \in Ids \cup {Null} : UpdateCandidacy(p, x, to)
           \/ AssertActivePosition(p)
           \/ \E x \in Ids : \/ WithdrawCandidacy(p, x)
                             \/ ApproveCandidacy(p, x)
                             \/ RejectCandidacy(p, x)
    PROVE  Right
<1>1. ASSUME NEW x \in Ids, NEW to \in Ids \cup {Null}, UpdateCandidacy(p, x, to) PROVE Right
  <2> DEFINE ent == [tab[x] EXCEPT !.ref = to]
  <2>1. "updateCandidacy" \in Operations /\ ~At(p, "record")
    BY <1>1, Accepted DEF UpdateCandidacy
  <2>2. tab[x] \in Row /\ tab[x].table = "candidacies"
    BY <1>1, LiveFacts DEF UpdateCandidacy
  <2>3. CASE to = Null
    <3>1. LookUp(p, "save", "updateCandidacy", x, tab[x], Null)
      BY <1>1, <2>3 DEF UpdateCandidacy, Hold
    <3>2. QED
      BY <2>1, <2>2, <3>1, EditStep DEF Fixed, Holding, LookingUp, Row
  <2>4. CASE to # Null
    <3>1. LookUp(p, "assertActivePosition", "updateCandidacy", x, ent, to)
      BY <1>1, <2>4 DEF UpdateCandidacy
    <3>2. /\ ent \in Row
          /\ ent.table = "candidacies"
          /\ ent.ref = to
          /\ ent.approved = tab[x].approved
          /\ ent.rejected = tab[x].rejected
          /\ ent.stamped = tab[x].stamped
          /\ ent.deleted = tab[x].deleted
      BY <2>2 DEF Row
    <3>3. QED
      BY <2>1, <2>2, <3>1, <3>2, EditStep DEF Fixed, Holding, LookingUp
  <2>5. QED
    BY <2>3, <2>4
<1>2. ASSUME AssertActivePosition(p) PROVE Right
  <2>1. CASE ActivePosition(req[p].to)
    <3>1. tab[req[p].to] # Null /\ ~tab[req[p].to].deleted
      BY <2>1, LiveFacts DEF ActivePosition
    <3>2. req[p].ent.ref = req[p].to
      BY <1>2 DEF AssertActivePosition, At, IInv, Known, RowKnown, LookingUp
    <3>3. QED
      BY <1>2, <2>1, <3>1, <3>2, GoOnStep DEF AssertActivePosition, At, Holding
  <2>2. CASE ~ActivePosition(req[p].to)
    BY <1>2, <2>2, FinishStep DEF AssertActivePosition, GoOnIf, At
  <2>3. QED
    BY <2>1, <2>2
<1>3. ASSUME NEW x \in Ids, WithdrawCandidacy(p, x) PROVE Right
  <2>1. "withdrawCandidacy" \in Operations /\ ~At(p, "record")
    BY <1>3, Accepted DEF WithdrawCandidacy
  <2>2. QED
    BY <1>3, <2>1, LiveFacts, RowStep DEF WithdrawCandidacy
<1>4. ASSUME NEW x \in Ids, ApproveCandidacy(p, x) PROVE Right
  <2> DEFINE ent == [tab[x] EXCEPT !.approved = TRUE]
  <2>1. "approveCandidacy" \in Operations /\ ~At(p, "record")
    BY <1>4, Accepted DEF ApproveCandidacy
  <2>2. tab[x] \in Row /\ tab[x].table = "candidacies"
    BY <1>4, LiveFacts DEF ApproveCandidacy
  <2>3. /\ ent \in Row
        /\ ent.table = "candidacies"
        /\ ent.ref = tab[x].ref
        /\ ent.rejected = tab[x].rejected
        /\ ent.stamped = tab[x].stamped
        /\ ent.deleted = tab[x].deleted
        /\ ent.approved
    BY <2>2 DEF Row
  <2>4. LookUp(p, "save", "approveCandidacy", x, ent, Null)
    BY <1>4 DEF ApproveCandidacy, Hold
  <2>5. QED
    BY <2>1, <2>2, <2>3, <2>4, EditStep DEF Fixed, Holding, LookingUp
<1>5. ASSUME NEW x \in Ids, RejectCandidacy(p, x) PROVE Right
  <2> DEFINE ent == [tab[x] EXCEPT !.rejected = TRUE]
  <2>1. "rejectCandidacy" \in Operations /\ ~At(p, "record")
    BY <1>5, Accepted DEF RejectCandidacy
  <2>2. tab[x] \in Row /\ tab[x].table = "candidacies"
    BY <1>5, LiveFacts DEF RejectCandidacy
  <2>3. /\ ent \in Row
        /\ ent.table = "candidacies"
        /\ ent.ref = tab[x].ref
        /\ ent.approved = tab[x].approved
        /\ ent.stamped = tab[x].stamped
        /\ ent.deleted = tab[x].deleted
        /\ ent.rejected
    BY <2>2 DEF Row
  <2>4. LookUp(p, "save", "rejectCandidacy", x, ent, Null)
    BY <1>5 DEF RejectCandidacy, Hold
  <2>5. QED
    BY <2>1, <2>2, <2>3, <2>4, EditStep DEF Fixed, Holding, LookingUp
<1>6. QED
  BY <1>1, <1>2, <1>3, <1>4, <1>5

LEMMA PaymentSteps ==
    ASSUME IInv, NEW p \in Procs,
           \/ \E x \in Ids, text \in Texts : SubmitPayment(p, x, text)
           \/ FindPosition(p) \/ FindPayment(p)
           \/ \E x \in Ids : ApprovePayment(p, x) \/ RejectPayment(p, x)
    PROVE  Right
<1>1. ASSUME NEW x \in Ids, NEW text \in Texts, SubmitPayment(p, x, text) PROVE Right
  <2>1. "submitPayment" \in Operations /\ ~At(p, "record")
    BY <1>1, Accepted DEF SubmitPayment
  <2>2. /\ NewPayment(x, Null, text) \in Row
        /\ Undecided(NewPayment(x, Null, text))
        /\ NewPayment(x, Null, text).table = "candidacy_payments"
        /\ NewPayment(x, Null, text).ref = x
        /\ Justified(NewPayment(x, Null, text))
    BY <1>1 DEF NewPayment, Justified, Blank, Row, Undecided, Tables
  <2>3. x \in Ids /\ tab[x] # Null /\ ~tab[x].deleted
    BY <1>1, LiveFacts DEF SubmitPayment, Live
  <2>4. LookUp(p, "findPosition", "submitPayment", Null, NewPayment(x, Null, text), tab[x].ref)
    BY <1>1 DEF SubmitPayment, Hold
  <2>5. tab[x].ref \in Ids \cup {Null}
    BY <1>1, LiveFacts DEF SubmitPayment, Row
  <2>6. QED
    BY <2>1, <2>2, <2>3, <2>4, <2>5, MakeStep DEF Making, LookingUp
<1>2. ASSUME FindPosition(p) PROVE Right
  <2>1. CASE Live("positions", req[p].to) /\ tab[req[p].to].fee # Null
    <3> DEFINE ent == [req[p].ent EXCEPT !.fee = tab[req[p].to].fee]
    <3>1. At(p, "findPosition") /\ Hold(p, "findPayment", "submitPayment", Null, ent)
      BY <1>2, <2>1 DEF FindPosition
    <3>2. IsRequest(req[p]) /\ Known(req[p])
      BY DEF IInv, TypeOK
    <3>3. /\ req[p].ent \in Row
          /\ Undecided(req[p].ent)
          /\ Justified(req[p].ent)
      BY <3>1, <3>2 DEF Known, RowKnown, NewKnown, At, Making
    <3>4. tab[req[p].to].fee \in Fees \cup {Null}
      BY <2>1, LiveFacts DEF Row
    <3>5. /\ ent \in Row
          /\ Undecided(ent)
          /\ ent.table = req[p].ent.table
          /\ ent.ref = req[p].ent.ref
      BY <3>3, <3>4 DEF Row, Undecided
    <3>6. Justified(ent)
      BY <3>3, <3>5 DEF Justified
    <3>7. "submitPayment" \in Operations /\ p \in Attaching(ent.ref) /\ ~At(p, "record")
      <4>1. req[p].op # "updateJurisdiction"
        BY <3>1, <3>2 DEF Known, RowKnown, At
      <4>2. QED
        BY <3>1, <3>5, <4>1 DEF Operations, Attaching, At, Sure
    <3>8. QED
      BY <3>1, <3>3, <3>5, <3>6, <3>7, MakeStep DEF Making, LookingUp, Hold
  <2>2. CASE ~(Live("positions", req[p].to) /\ tab[req[p].to].fee # Null)
    BY <1>2, <2>2, FinishStep DEF FindPosition, At
  <2>3. QED
    BY <2>1, <2>2
<1>3. ASSUME FindPayment(p) PROVE Right
  <2> DEFINE found == PaymentsOf(req[p].ent.ref)
  <2>1. At(p, "findPayment") /\ Reads /\ ~At(p, "record")
    BY <1>3 DEF FindPayment, At, Hold, LookUp
  <2>2. IsRequest(req[p]) /\ Known(req[p])
    BY DEF IInv, TypeOK
  <2>3. CASE Goto(p, "insert", req[p])
    BY <2>1, <2>3, GoOnStep DEF GoOnIf, At, Making, Sure
  <2>4. CASE Finish(p)
    BY <2>1, <2>4, FinishStep
  <2>5. ASSUME NEW x \in found,
               Hold(p, "save", "submitPayment", x, Resubmitted(tab[x], req[p].ent))
        PROVE  Right
    <3> DEFINE ent == Resubmitted(tab[x], req[p].ent)
    <3>1. req[p].ent \in Row
      BY <2>1, <2>2 DEF Known, RowKnown, NewKnown, At, Making
    <3>2. LookUp(p, "save", "submitPayment", x, ent, Null)
      BY <2>5 DEF Hold
    <3>3. tab[x] \in Row /\ tab[x] # Null /\ x \in Ids
      BY LiveFacts DEF PaymentsOf
    <3>4. Follows(ent, x, "submitPayment")
      <4>1. DOMAIN ent = Columns \ {"rejected"}
        BY DEF Resubmitted
      <4>2. /\ ent.table = tab[x].table /\ ent.ref = tab[x].ref
            /\ ent.fee = tab[x].fee /\ ent.active = tab[x].active
            /\ ent.approved = tab[x].approved /\ ent.stamped = tab[x].stamped
            /\ ent.deleted = tab[x].deleted
            /\ ent.text = req[p].ent.text
        BY DEF Resubmitted, Columns
      <4>3. IsEntity(ent)
        BY <3>1, <3>3, <4>1, <4>2 DEF IsEntity, Row
      <4>4. ent.table = "candidacy_payments"
        BY <4>2 DEF PaymentsOf, Live
      <4>5. QED
        BY <4>1, <4>2, <4>3, <4>4 DEF Follows, DateColumns
    <3>5. ent.ref = tab[x].ref
      BY DEF Resubmitted, Columns
    <3>6. "submitPayment" \in Operations
      BY DEF Operations
    <3>7. QED
      BY <2>1, <3>1, <3>2, <3>3, <3>4, <3>5, <3>6, SaveStep DEF Holding, LookingUp
  <2>6. QED
    BY <1>3, <2>3, <2>4, <2>5 DEF FindPayment
<1>4. ASSUME NEW x \in Ids, ApprovePayment(p, x) PROVE Right
  <2> DEFINE ent == [tab[x] EXCEPT !.approved = TRUE]
  <2>1. "approvePayment" \in Operations /\ ~At(p, "record")
    BY <1>4, Accepted DEF ApprovePayment
  <2>2. tab[x] \in Row /\ tab[x].table = "candidacy_payments"
    BY <1>4, LiveFacts DEF ApprovePayment
  <2>3. /\ ent \in Row
        /\ ent.table = "candidacy_payments"
        /\ ent.ref = tab[x].ref
        /\ ent.fee = tab[x].fee
        /\ ent.rejected = tab[x].rejected
        /\ ent.stamped = tab[x].stamped
        /\ ent.deleted = tab[x].deleted
        /\ ent.approved
    BY <2>2 DEF Row
  <2>4. LookUp(p, "save", "approvePayment", x, ent, Null)
    BY <1>4 DEF ApprovePayment, Hold
  <2>5. QED
    BY <2>1, <2>2, <2>3, <2>4, EditStep DEF Fixed, Holding, LookingUp
<1>5. ASSUME NEW x \in Ids, RejectPayment(p, x) PROVE Right
  <2> DEFINE ent == [tab[x] EXCEPT !.rejected = TRUE]
  <2>1. "rejectPayment" \in Operations /\ ~At(p, "record")
    BY <1>5, Accepted DEF RejectPayment
  <2>2. tab[x] \in Row /\ tab[x].table = "candidacy_payments"
    BY <1>5, LiveFacts DEF RejectPayment
  <2>3. /\ ent \in Row
        /\ ent.table = "candidacy_payments"
        /\ ent.ref = tab[x].ref
        /\ ent.fee = tab[x].fee
        /\ ent.approved = tab[x].approved
        /\ ent.stamped = tab[x].stamped
        /\ ent.deleted = tab[x].deleted
        /\ ent.rejected
    BY <2>2 DEF Row
  <2>4. LookUp(p, "save", "rejectPayment", x, ent, Null)
    BY <1>5 DEF RejectPayment, Hold
  <2>5. QED
    BY <2>1, <2>2, <2>3, <2>4, EditStep DEF Fixed, Holding, LookingUp
<1>6. QED
  BY <1>1, <1>2, <1>3, <1>4, <1>5

LEMMA ProgramSteps ==
    ASSUME IInv, NEW p \in Procs,
           \/ \E x \in Ids, text \in Texts : UpsertProgram(p, x, text)
           \/ FindProgram(p)
    PROVE  Right
<1>1. ASSUME NEW x \in Ids, NEW text \in Texts, UpsertProgram(p, x, text) PROVE Right
  <2>1. "upsertProgram" \in Operations /\ ~At(p, "record")
    BY <1>1, Accepted DEF UpsertProgram
  <2>2. /\ NewProgram(x, text) \in Row
        /\ Undecided(NewProgram(x, text))
        /\ NewProgram(x, text).table = "candidacy_programs"
        /\ NewProgram(x, text).ref = x
        /\ Justified(NewProgram(x, text))
    BY <1>1 DEF NewProgram, Justified, Blank, Row, Undecided, Tables
  <2>3. x \in Ids /\ tab[x] # Null /\ ~tab[x].deleted
    BY <1>1, LiveFacts DEF UpsertProgram, Live
  <2>4. LookUp(p, "findProgram", "upsertProgram", Null, NewProgram(x, text), Null)
    BY <1>1 DEF UpsertProgram, Hold
  <2>5. QED
    BY <2>1, <2>2, <2>3, <2>4, MakeStep DEF Making, LookingUp
<1>2. ASSUME FindProgram(p) PROVE Right
  <2> DEFINE found == ProgramsOf(req[p].ent.ref)
  <2>1. At(p, "findProgram") /\ Reads /\ ~At(p, "record")
    BY <1>2 DEF FindProgram, At, Hold, LookUp
  <2>2. IsRequest(req[p]) /\ Known(req[p])
    BY DEF IInv, TypeOK
  <2>3. CASE Goto(p, "insert", req[p])
    BY <2>1, <2>3, GoOnStep DEF GoOnIf, At, Making, Sure
  <2>4. ASSUME NEW x \in found,
               Hold(p, "save", "upsertProgram", x,
                    [tab[x] EXCEPT !.text = req[p].ent.text])
        PROVE  Right
    <3> DEFINE ent == [tab[x] EXCEPT !.text = req[p].ent.text]
    <3>1. req[p].ent \in Row
      BY <2>1, <2>2 DEF Known, RowKnown, NewKnown, At, Making
    <3>2. LookUp(p, "save", "upsertProgram", x, ent, Null)
      BY <2>4 DEF Hold
    <3>3. x \in Ids /\ tab[x] \in Row
      BY LiveFacts DEF ProgramsOf
    <3>4. /\ ent \in Row
          /\ ent.table = tab[x].table
          /\ ent.table = "candidacy_programs"
          /\ ent.ref = tab[x].ref
          /\ ent.fee = tab[x].fee
          /\ ent.approved = tab[x].approved
          /\ ent.rejected = tab[x].rejected
          /\ ent.stamped = tab[x].stamped
          /\ ent.deleted = tab[x].deleted
      BY <3>1, <3>3 DEF Row, ProgramsOf, Live
    <3>5. "upsertProgram" \in Operations
      BY DEF Operations
    <3>6. QED
      BY <2>1, <3>1, <3>2, <3>3, <3>4, <3>5, EditStep DEF Holding, LookingUp
  <2>5. QED
    BY <1>2, <2>3, <2>4 DEF FindProgram
<1>3. QED
  BY <1>1, <1>2

\* The id that a handler was given is that of a row: it goes on to find it.
LEMMA PostSteps ==
    ASSUME IInv, NEW p \in Procs,
           \/ \E x \in Ids, text \in Texts : CreatePost(p, x, text)
           \/ \E x \in Ids, op \in {"updatePost", "publishPost", "removePost"} : OnPost(p, op, x)
           \/ \E text \in Texts : UpdatePost(p, text)
           \/ PublishPost(p) \/ RemovePost(p) \/ LeavePost(p)
    PROVE  Right
<1>1. ASSUME NEW x \in Ids, NEW text \in Texts, CreatePost(p, x, text) PROVE Right
  <2>1. "createPost" \in Operations /\ ~At(p, "record")
    BY <1>1, Accepted DEF CreatePost
  <2>2. /\ NewPost(x, text) \in Row
        /\ Undecided(NewPost(x, text))
        /\ NewPost(x, text).table = "campaign_posts"
        /\ NewPost(x, text).ref = x
        /\ Justified(NewPost(x, text))
    BY <1>1 DEF NewPost, Justified, Blank, Row, Undecided, Tables
  <2>3. x \in Ids /\ tab[x] # Null /\ ~tab[x].deleted
    BY <1>1, LiveFacts DEF CreatePost, Live
  <2>4. LookUp(p, "insert", "createPost", Null, NewPost(x, text), Null)
    BY <1>1 DEF CreatePost, Hold
  <2>5. QED
    BY <2>1, <2>2, <2>3, <2>4, MakeStep DEF Making, LookingUp
<1>2. ASSUME NEW x \in Ids, NEW op \in {"updatePost", "publishPost", "removePost"},
             OnPost(p, op, x)
      PROVE  Right
  <2>1. op \in Operations \ {"updateJurisdiction"} /\ ~At(p, "record")
    BY <1>2, Accepted DEF OnPost
  <2>2. QED
    BY <1>2, <2>1, RowStep DEF OnPost
<1>3. ASSUME NEW text \in Texts, UpdatePost(p, text) PROVE Right
  <2> DEFINE x == req[p].x
             ent == [tab[x] EXCEPT !.text = text]
  <2>1. /\ Live("campaign_posts", x)
        /\ LookUp(p, "save", "updatePost", x, ent, Null)
        /\ ~At(p, "record")
    BY <1>3 DEF UpdatePost, FoundPost, Hold, At
  <2>2. x \in Ids /\ tab[x] \in Row /\ tab[x].table = "campaign_posts"
    BY <2>1, LiveFacts
  <2>3. /\ ent \in Row
        /\ ent.table = "campaign_posts"
        /\ ent.ref = tab[x].ref
        /\ ent.fee = tab[x].fee
        /\ ent.approved = tab[x].approved
        /\ ent.rejected = tab[x].rejected
        /\ ent.stamped = tab[x].stamped
        /\ ent.deleted = tab[x].deleted
    BY <2>2 DEF Row
  <2>4. "updatePost" \in Operations
    BY DEF Operations
  <2>5. QED
    BY <2>1, <2>2, <2>3, <2>4, EditStep DEF Fixed, Holding, LookingUp
<1>4. ASSUME PublishPost(p) PROVE Right
  <2> DEFINE x == req[p].x
             ent == [tab[x] EXCEPT !.stamped = TRUE]
  <2>1. /\ Live("campaign_posts", x)
        /\ LookUp(p, "save", "publishPost", x, ent, Null)
        /\ ~At(p, "record")
    BY <1>4 DEF PublishPost, FoundPost, Hold, At
  <2>2. x \in Ids /\ tab[x] \in Row /\ tab[x].table = "campaign_posts"
    BY <2>1, LiveFacts
  <2>3. /\ ent \in Row
        /\ ent.table = "campaign_posts"
        /\ ent.ref = tab[x].ref
        /\ ent.fee = tab[x].fee
        /\ ent.approved = tab[x].approved
        /\ ent.rejected = tab[x].rejected
        /\ ent.deleted = tab[x].deleted
        /\ ent.stamped
    BY <2>2 DEF Row
  <2>4. "publishPost" \in Operations
    BY DEF Operations
  <2>5. QED
    BY <2>1, <2>2, <2>3, <2>4, EditStep DEF Fixed, Holding, LookingUp
<1>5. ASSUME RemovePost(p) PROVE Right
  <2>1. /\ Live("campaign_posts", req[p].x)
        /\ Hold(p, "softDelete", "removePost", req[p].x, Null)
        /\ ~At(p, "record")
    BY <1>5 DEF RemovePost, FoundPost, At
  <2>2. "removePost" \in Operations \ {"updateJurisdiction"}
    BY DEF Operations
  <2>3. QED
    BY <2>1, <2>2, LiveFacts, RowStep
<1>6. ASSUME LeavePost(p) PROVE Right
  BY <1>6, FinishStep DEF LeavePost, At
<1>7. QED
  BY <1>1, <1>2, <1>3, <1>4, <1>5, <1>6

LEMMA CampaignSteps ==
    ASSUME IInv, NEW p \in Procs, CampaignNext(p)
    PROVE  Right
BY PositionSteps, CandidacySteps, PaymentSteps, ProgramSteps, PostSteps DEF CampaignNext

LEMMA CategorySteps ==
    ASSUME IInv, NEW p \in Procs,
           \/ CreateCategory(p) \/ FindCategory(p)
           \/ \E x \in Ids, active \in BOOLEAN : UpdateCategory(p, x, active)
           \/ \E x \in Ids : RemoveCategory(p, x)
    PROVE  Right
<1>1. ASSUME CreateCategory(p) PROVE Right
  <2>1. "createCategory" \in Operations /\ ~At(p, "record")
    BY <1>1, Accepted DEF CreateCategory
  <2>2. /\ NewCategory \in Row
        /\ Undecided(NewCategory)
        /\ NewCategory.table = "action_categories"
        /\ NewCategory.ref = Null
        /\ Justified(NewCategory)
    BY <1>1 DEF NewCategory, Justified, Blank, Row, Undecided, Tables
  <2>3. LookUp(p, "insert", "createCategory", Null, NewCategory, Null)
    BY <1>1 DEF CreateCategory, Hold
  <2>4. QED
    BY <2>1, <2>2, <2>3, MakeStep DEF Making, LookingUp
<1>2. ASSUME NEW x \in Ids, NEW active \in BOOLEAN, UpdateCategory(p, x, active)
      PROVE  Right
  <2> DEFINE ent == [tab[x] EXCEPT !.active = active]
  <2>1. "updateCategory" \in Operations /\ ~At(p, "record")
    BY <1>2, Accepted DEF UpdateCategory
  <2>2. tab[x] \in Row /\ tab[x].table = "action_categories"
    BY <1>2, LiveFacts DEF UpdateCategory
  <2>3. /\ ent \in Row
        /\ ent.table = "action_categories"
        /\ ent.ref = tab[x].ref
        /\ ent.approved = tab[x].approved
        /\ ent.rejected = tab[x].rejected
        /\ ent.stamped = tab[x].stamped
        /\ ent.deleted = tab[x].deleted
    BY <2>2 DEF Row
  <2>4. LookUp(p, "save", "updateCategory", x, ent, Null)
    BY <1>2 DEF UpdateCategory, Hold
  <2>5. QED
    BY <2>1, <2>2, <2>3, <2>4, EditStep DEF Fixed, Holding, LookingUp
<1>3. ASSUME NEW x \in Ids, RemoveCategory(p, x) PROVE Right
  <2>1. "removeCategory" \in Operations /\ ~At(p, "record")
    BY <1>3, Accepted DEF RemoveCategory
  <2>2. QED
    BY <1>3, <2>1, LiveFacts, RowStep DEF RemoveCategory
<1>4. ASSUME FindCategory(p) PROVE Right
  <2> DEFINE found == Live("action_categories", req[p].to) /\ tab[req[p].to].active
  <2>1. At(p, "findCategory") /\ GoOnIf(p, found, "insert")
    BY <1>4 DEF FindCategory
  <2>2. CASE found
    BY <2>1, <2>2, GoOnStep DEF At, Making, Sure
  <2>3. CASE ~found
    BY <2>1, <2>3, FinishStep DEF GoOnIf, At
  <2>4. QED
    BY <2>2, <2>3
<1>5. QED
  BY <1>1, <1>2, <1>3, <1>4

LEMMA AchievementSteps ==
    ASSUME IInv, NEW p \in Procs,
           \/ \E x \in Ids, category \in Ids, text \in Texts :
                 CreateAchievement(p, x, category, text)
           \/ \E x \in Ids, text \in Texts : UpdateAchievement(p, x, text)
           \/ \E x \in Ids : \/ WithdrawAchievement(p, x)
                             \/ ApproveAchievement(p, x)
                             \/ RejectAchievement(p, x)
           \/ AssertOwnCandidacy(p)
    PROVE  Right
<1>1. ASSUME NEW x \in Ids, NEW category \in Ids, NEW text \in Texts,
             CreateAchievement(p, x, category, text)
      PROVE  Right
  <2>1. "createAchievement" \in Operations /\ ~At(p, "record")
    BY <1>1, Accepted DEF CreateAchievement
  <2>2. /\ NewAchievement(x, text) \in Row
        /\ Undecided(NewAchievement(x, text))
        /\ NewAchievement(x, text).table = "achievements"
        /\ NewAchievement(x, text).ref = x
        /\ Justified(NewAchievement(x, text))
    BY <1>1 DEF NewAchievement, Justified, Blank, Row, Undecided, Tables
  <2>3. x \in Ids /\ tab[x] # Null /\ ~tab[x].deleted
    BY <1>1, LiveFacts DEF CreateAchievement, Live
  <2>4. LookUp(p, "findCategory", "createAchievement", Null, NewAchievement(x, text), category)
    BY <1>1 DEF CreateAchievement, Hold
  <2>5. QED
    BY <2>1, <2>2, <2>3, <2>4, MakeStep DEF Making, LookingUp
<1>2. ASSUME NEW x \in Ids, NEW text \in Texts, UpdateAchievement(p, x, text)
      PROVE  Right
  <2> DEFINE ent == [tab[x] EXCEPT !.text = text]
  <2>1. "updateAchievement" \in Operations /\ ~At(p, "record")
    BY <1>2, Accepted DEF UpdateAchievement
  <2>2. tab[x] \in Row /\ tab[x].table = "achievements"
    BY <1>2, LiveFacts DEF UpdateAchievement
  <2>3. /\ ent \in Row
        /\ ent.table = "achievements"
        /\ ent.ref = tab[x].ref
        /\ ent.fee = tab[x].fee
        /\ ent.approved = tab[x].approved
        /\ ent.rejected = tab[x].rejected
        /\ ent.stamped = tab[x].stamped
        /\ ent.deleted = tab[x].deleted
    BY <2>2 DEF Row
  <2>4. LookUp(p, "assertOwnCandidacy", "updateAchievement", x, ent, tab[x].ref)
    BY <1>2 DEF UpdateAchievement, Hold
  <2>5. tab[x].ref \in Ids \cup {Null}
    BY <2>2 DEF Row
  <2> HIDE DEF ent
  <2>6. QED
    BY <2>1, <2>2, <2>3, <2>4, <2>5, EditStep DEF Fixed, Holding, LookingUp
<1>3. ASSUME NEW x \in Ids, WithdrawAchievement(p, x) PROVE Right
  <2> DEFINE ent == tab[x]
  <2>1. "withdrawAchievement" \in Operations /\ ~At(p, "record")
    BY <1>3, Accepted DEF WithdrawAchievement
  <2>2. tab[x] \in Row /\ tab[x].table = "achievements"
    BY <1>3, LiveFacts DEF WithdrawAchievement
  <2>3. /\ ent \in Row
        /\ ent.table = "achievements"
        /\ ent.ref = tab[x].ref
        /\ ent.fee = tab[x].fee
        /\ ent.approved = tab[x].approved
        /\ ent.rejected = tab[x].rejected
        /\ ent.stamped = tab[x].stamped
        /\ ent.deleted = tab[x].deleted
    BY <2>2 DEF Row
  <2>4. LookUp(p, "assertOwnCandidacy", "withdrawAchievement", x, ent, tab[x].ref)
    BY <1>3 DEF WithdrawAchievement, Hold
  <2>5. tab[x].ref \in Ids \cup {Null}
    BY <2>2 DEF Row
  <2>6. QED
    BY <2>1, <2>2, <2>3, <2>4, <2>5, EditStep DEF Fixed, Holding, LookingUp
<1>4. ASSUME NEW x \in Ids, ApproveAchievement(p, x) PROVE Right
  <2> DEFINE ent == [tab[x] EXCEPT !.approved = TRUE]
  <2>1. "approveAchievement" \in Operations /\ ~At(p, "record")
    BY <1>4, Accepted DEF ApproveAchievement
  <2>2. tab[x] \in Row /\ tab[x].table = "achievements"
    BY <1>4, LiveFacts DEF ApproveAchievement
  <2>3. /\ ent \in Row
        /\ ent.table = "achievements"
        /\ ent.ref = tab[x].ref
        /\ ent.fee = tab[x].fee
        /\ ent.rejected = tab[x].rejected
        /\ ent.stamped = tab[x].stamped
        /\ ent.deleted = tab[x].deleted
        /\ ent.approved
    BY <2>2 DEF Row
  <2>4. LookUp(p, "save", "approveAchievement", x, ent, Null)
    BY <1>4 DEF ApproveAchievement, Hold
  <2>5. QED
    BY <2>1, <2>2, <2>3, <2>4, EditStep DEF Fixed, Holding, LookingUp
<1>5. ASSUME NEW x \in Ids, RejectAchievement(p, x) PROVE Right
  <2> DEFINE ent == [tab[x] EXCEPT !.rejected = TRUE]
  <2>1. "rejectAchievement" \in Operations /\ ~At(p, "record")
    BY <1>5, Accepted DEF RejectAchievement
  <2>2. tab[x] \in Row /\ tab[x].table = "achievements"
    BY <1>5, LiveFacts DEF RejectAchievement
  <2>3. /\ ent \in Row
        /\ ent.table = "achievements"
        /\ ent.ref = tab[x].ref
        /\ ent.fee = tab[x].fee
        /\ ent.approved = tab[x].approved
        /\ ent.stamped = tab[x].stamped
        /\ ent.deleted = tab[x].deleted
        /\ ent.rejected
    BY <2>2 DEF Row
  <2>4. LookUp(p, "save", "rejectAchievement", x, ent, Null)
    BY <1>5 DEF RejectAchievement, Hold
  <2>5. QED
    BY <2>1, <2>2, <2>3, <2>4, EditStep DEF Fixed, Holding, LookingUp
<1>6. ASSUME AssertOwnCandidacy(p) PROVE Right
  <2> DEFINE found == Live("candidacies", req[p].to) /\ NotTreated(req[p].ent)
             pc == IF req[p].op = "updateAchievement" THEN "save" ELSE "softDelete"
  <2>1. At(p, "assertOwnCandidacy") /\ GoOnIf(p, found, pc)
    BY <1>6 DEF AssertOwnCandidacy
  <2>2. CASE found
    <3>1. req[p].ent.ref = req[p].to
      BY <2>1 DEF IInv, Known, RowKnown, LookingUp, At
    <3>2. tab[req[p].to] # Null /\ ~tab[req[p].to].deleted
      BY <2>2, LiveFacts
    <3>3. pc \in {"save", "softDelete"}
      OBVIOUS
    <3>4. QED
      BY <2>1, <2>2, <3>1, <3>2, <3>3, GoOnStep DEF At, Holding
  <2>3. CASE ~found
    BY <2>1, <2>3, FinishStep DEF GoOnIf, At
  <2>4. QED
    BY <2>2, <2>3
<1>7. QED
  BY <1>1, <1>2, <1>3, <1>4, <1>5, <1>6

LEMMA ContestationSteps ==
    ASSUME IInv, NEW p \in Procs, \E x \in Ids : Contest(p, x) \/ Resolve(p, x)
    PROVE  Right
<1>1. ASSUME NEW x \in Ids, Contest(p, x) PROVE Right
  <2>1. "contest" \in Operations /\ ~At(p, "record")
    BY <1>1, Accepted DEF Contest
  <2>2. /\ NewContestation(x) \in Row
        /\ Undecided(NewContestation(x))
        /\ NewContestation(x).ref = x
    BY DEF NewContestation, Blank, Row, Undecided, Tables
  <2>3. /\ tab[x] # Null
        /\ tab[x].table = "achievements"
        /\ tab[x].approved
        /\ ~tab[x].deleted
    BY <1>1 DEF Contest, Contestable, Live
  <2>4. Justified(NewContestation(x))
    <3>1. DecisionsKnown(tab[x], "none", x)
      BY <2>3 DEF IInv
    <3>2. <<"approveAchievement", x>> \in Accounted
      BY <2>3, <3>1 DEF DecisionsKnown
    <3>3. QED
      BY <2>2, <3>2 DEF Justified
  <2>5. LookUp(p, "insert", "contest", Null, NewContestation(x), Null)
    BY <1>1 DEF Contest, Hold
  <2>6. QED
    BY <2>1, <2>2, <2>3, <2>4, <2>5, MakeStep DEF Making, LookingUp
<1>2. ASSUME NEW x \in Ids, Resolve(p, x) PROVE Right
  <2> DEFINE ent == [tab[x] EXCEPT !.stamped = TRUE]
  <2>1. "resolve" \in Operations /\ ~At(p, "record")
    BY <1>2, Accepted DEF Resolve
  <2>2. tab[x] \in Row /\ tab[x].table = "contestations"
    BY <1>2, LiveFacts DEF Resolve
  <2>3. /\ ent \in Row
        /\ ent.table = "contestations"
        /\ ent.ref = tab[x].ref
        /\ ent.fee = tab[x].fee
        /\ ent.approved = tab[x].approved
        /\ ent.rejected = tab[x].rejected
        /\ ent.deleted = tab[x].deleted
        /\ ent.stamped
    BY <2>2 DEF Row
  <2>4. LookUp(p, "save", "resolve", x, ent, Null)
    BY <1>2 DEF Resolve, Hold
  <2>5. QED
    BY <2>1, <2>2, <2>3, <2>4, EditStep DEF Fixed, Holding, LookingUp
<1>3. QED
  BY <1>1, <1>2

LEMMA QuestionSteps ==
    ASSUME IInv, NEW p \in Procs,
           \/ \E x \in Ids : Ask(p, x) \/ Answer(p, x) \/ Hide(p, x)
           \/ \E text \in Texts : FindQuestion(p, text)
    PROVE  Right
<1>1. ASSUME NEW x \in Ids, Ask(p, x) PROVE Right
  <2>1. "ask" \in Operations /\ ~At(p, "record")
    BY <1>1, Accepted DEF Ask
  <2>2. /\ NewQuestion(x) \in Row
        /\ Undecided(NewQuestion(x))
        /\ NewQuestion(x).table = "questions"
        /\ NewQuestion(x).ref = x
        /\ Justified(NewQuestion(x))
    BY <1>1 DEF NewQuestion, Justified, Blank, Row, Undecided, Tables
  <2>3. x \in Ids /\ tab[x] # Null /\ ~tab[x].deleted
    BY <1>1, LiveFacts DEF Ask, Live
  <2>4. LookUp(p, "insert", "ask", Null, NewQuestion(x), Null)
    BY <1>1 DEF Ask, Hold
  <2>5. QED
    BY <2>1, <2>2, <2>3, <2>4, MakeStep DEF Making, LookingUp
<1>2. ASSUME NEW x \in Ids, Answer(p, x) PROVE Right
  <2>1. "answer" \in Operations /\ ~At(p, "record")
    BY <1>2, Accepted DEF Answer
  <2>2. QED
    BY <1>2, <2>1, RowStep DEF Answer
<1>3. ASSUME NEW x \in Ids, Hide(p, x) PROVE Right
  <2> DEFINE ent == [tab[x] EXCEPT !.stamped = TRUE]
  <2>1. "hide" \in Operations /\ ~At(p, "record")
    BY <1>3, Accepted DEF Hide
  <2>2. tab[x] \in Row /\ tab[x].table = "questions"
    BY <1>3, LiveFacts DEF Hide
  <2>3. /\ ent \in Row
        /\ ent.table = "questions"
        /\ ent.ref = tab[x].ref
        /\ ent.fee = tab[x].fee
        /\ ent.approved = tab[x].approved
        /\ ent.rejected = tab[x].rejected
        /\ ent.deleted = tab[x].deleted
        /\ ent.stamped
    BY <2>2 DEF Row
  <2>4. LookUp(p, "save", "hide", x, ent, Null)
    BY <1>3 DEF Hide, Hold
  <2>5. QED
    BY <2>1, <2>2, <2>3, <2>4, EditStep DEF Fixed, Holding, LookingUp
<1>4. ASSUME NEW text \in Texts, FindQuestion(p, text) PROVE Right
  <2> DEFINE x == req[p].x
             ent == [tab[x] EXCEPT !.text = text]
  <2>1. /\ Live("questions", x)
        /\ LookUp(p, "save", "answer", x, ent, Null)
        /\ ~At(p, "record")
    BY <1>4 DEF FindQuestion, Hold, At
  <2>2. x \in Ids /\ tab[x] \in Row /\ tab[x].table = "questions"
    BY <2>1, LiveFacts
  <2>3. /\ ent \in Row
        /\ ent.table = "questions"
        /\ ent.ref = tab[x].ref
        /\ ent.fee = tab[x].fee
        /\ ent.approved = tab[x].approved
        /\ ent.rejected = tab[x].rejected
        /\ ent.stamped = tab[x].stamped
        /\ ent.deleted = tab[x].deleted
    BY <2>2 DEF Row
  <2>4. "answer" \in Operations
    BY DEF Operations
  <2>5. QED
    BY <2>1, <2>2, <2>3, <2>4, EditStep DEF Fixed, Holding, LookingUp
<1>5. QED
  BY <1>1, <1>2, <1>3, <1>4

LEMMA OversightSteps ==
    ASSUME IInv, NEW p \in Procs, OversightNext(p)
    PROVE  Right
BY CategorySteps, AchievementSteps, ContestationSteps, QuestionSteps DEF OversightNext

LEMMA SponsorSteps ==
    ASSUME IInv, NEW p \in Procs, SponsorNext(p)
    PROVE  Right
<1>1. ASSUME NEW text \in Texts, SubmitSponsor(p, text) PROVE Right
  <2>1. "submitSponsor" \in Operations /\ ~At(p, "record")
    BY <1>1, Accepted DEF SubmitSponsor
  <2>2. /\ NewSponsor(text) \in Row
        /\ Undecided(NewSponsor(text))
        /\ NewSponsor(text).table = "sponsors"
        /\ NewSponsor(text).ref = Null
        /\ Justified(NewSponsor(text))
    BY <1>1 DEF NewSponsor, Justified, Blank, Row, Undecided, Tables
  <2>3. LookUp(p, "insert", "submitSponsor", Null, NewSponsor(text), Null)
    BY <1>1 DEF SubmitSponsor, Hold
  <2>4. QED
    BY <2>1, <2>2, <2>3, MakeStep DEF Making, LookingUp
<1>2. ASSUME NEW text \in Texts, SubmitSponsorByAdmin(p, text) PROVE Right
  <2> DEFINE new == [NewSponsor(text) EXCEPT !.approved = TRUE]
  <2>1. "submitSponsorByAdmin" \in Operations /\ ~At(p, "record")
    BY <1>2, Accepted DEF SubmitSponsorByAdmin
  <2>2. /\ new \in Row
        /\ Undecided(new)
        /\ new.ref = Null
        /\ Justified(new)
    BY DEF NewSponsor, Justified, Blank, Row, Undecided, Tables
  <2>3. LookUp(p, "insert", "submitSponsorByAdmin", Null, new, Null)
    BY <1>2 DEF SubmitSponsorByAdmin, Hold
  <2> HIDE DEF new
  <2>4. QED
    BY <2>1, <2>2, <2>3, MakeStep DEF Making, LookingUp
<1>3. ASSUME NEW x \in Ids, NEW active \in BOOLEAN, NEW text \in Texts,
             UpdateSponsor(p, x, active, text)
      PROVE  Right
  <2> DEFINE ent == Edited(tab[x], active, text)
  <2>1. "updateSponsor" \in Operations /\ ~At(p, "record")
    BY <1>3, Accepted DEF UpdateSponsor
  <2>2. tab[x] \in Row /\ tab[x].table = "sponsors"
    BY <1>3, LiveFacts DEF UpdateSponsor
  <2>3. /\ ent \in Row
        /\ ent.table = "sponsors"
        /\ ent.ref = tab[x].ref
        /\ ent.approved = tab[x].approved
        /\ ent.rejected = tab[x].rejected
        /\ ent.stamped = tab[x].stamped
        /\ ent.deleted = tab[x].deleted
    BY <2>2 DEF Row, Edited
  <2>4. LookUp(p, "save", "updateSponsor", x, ent, Null)
    BY <1>3 DEF UpdateSponsor, Hold, Edited
  <2>5. QED
    BY <2>1, <2>2, <2>3, <2>4, EditStep DEF Fixed, Holding, LookingUp
<1>4. ASSUME NEW x \in Ids, UploadLogo(p, x) PROVE Right
  <2> DEFINE ent == tab[x]
  <2>1. "uploadLogo" \in Operations /\ ~At(p, "record")
    BY <1>4, Accepted DEF UploadLogo
  <2>2. tab[x] \in Row /\ tab[x].table = "sponsors"
    BY <1>4, LiveFacts DEF UploadLogo
  <2>3. /\ ent \in Row
        /\ ent.table = "sponsors"
        /\ ent.ref = tab[x].ref
        /\ ent.approved = tab[x].approved
        /\ ent.rejected = tab[x].rejected
        /\ ent.stamped = tab[x].stamped
        /\ ent.deleted = tab[x].deleted
    BY <2>2 DEF Row
  <2>4. LookUp(p, "save", "uploadLogo", x, ent, Null)
    BY <1>4 DEF UploadLogo, Hold
  <2>5. QED
    BY <2>1, <2>2, <2>3, <2>4, EditStep DEF Fixed, Holding, LookingUp
<1>5. ASSUME NEW x \in Ids, ApproveSponsor(p, x) PROVE Right
  <2> DEFINE ent == [tab[x] EXCEPT !.approved = TRUE]
  <2>1. "approveSponsor" \in Operations /\ ~At(p, "record")
    BY <1>5, Accepted DEF ApproveSponsor
  <2>2. tab[x] \in Row /\ tab[x].table = "sponsors"
    BY <1>5, LiveFacts DEF ApproveSponsor
  <2>3. /\ ent \in Row
        /\ ent.table = "sponsors"
        /\ ent.ref = tab[x].ref
        /\ ent.rejected = tab[x].rejected
        /\ ent.stamped = tab[x].stamped
        /\ ent.deleted = tab[x].deleted
        /\ ent.approved
    BY <2>2 DEF Row
  <2>4. LookUp(p, "save", "approveSponsor", x, ent, Null)
    BY <1>5 DEF ApproveSponsor, Hold
  <2>5. QED
    BY <2>1, <2>2, <2>3, <2>4, EditStep DEF Fixed, Holding, LookingUp
<1>6. ASSUME NEW x \in Ids, RejectSponsor(p, x) PROVE Right
  <2> DEFINE ent == [tab[x] EXCEPT !.rejected = TRUE]
  <2>1. "rejectSponsor" \in Operations /\ ~At(p, "record")
    BY <1>6, Accepted DEF RejectSponsor
  <2>2. tab[x] \in Row /\ tab[x].table = "sponsors"
    BY <1>6, LiveFacts DEF RejectSponsor
  <2>3. /\ ent \in Row
        /\ ent.table = "sponsors"
        /\ ent.ref = tab[x].ref
        /\ ent.approved = tab[x].approved
        /\ ent.stamped = tab[x].stamped
        /\ ent.deleted = tab[x].deleted
        /\ ent.rejected
    BY <2>2 DEF Row
  <2>4. LookUp(p, "save", "rejectSponsor", x, ent, Null)
    BY <1>6 DEF RejectSponsor, Hold
  <2>5. QED
    BY <2>1, <2>2, <2>3, <2>4, EditStep DEF Fixed, Holding, LookingUp
<1>7. ASSUME NEW x \in Ids, RemoveSponsor(p, x) PROVE Right
  <2>1. "removeSponsor" \in Operations /\ ~At(p, "record")
    BY <1>7, Accepted DEF RemoveSponsor
  <2>2. QED
    BY <1>7, <2>1, LiveFacts, RowStep DEF RemoveSponsor
<1>8. QED
  BY <1>1, <1>2, <1>3, <1>4, <1>5, <1>6, <1>7 DEF SponsorNext

LEMMA JurisdictionSteps ==
    ASSUME IInv, NEW p \in Procs,
           \/ \E x \in Ids \cup {Null} : CreateJurisdiction(p, x)
           \/ FindParent(p)
           \/ \E x \in Ids, to \in Ids \cup {Null} : UpdateJurisdiction(p, x, to)
           \/ \E x \in Ids : RemoveJurisdiction(p, x)
           \/ CountLinked(p) \/ CountChildren(p)
    PROVE  Right
<1>1. ASSUME NEW x \in Ids \cup {Null}, CreateJurisdiction(p, x) PROVE Right
  <2>1. "createJurisdiction" \in Operations /\ ~At(p, "record")
    BY <1>1, Accepted DEF CreateJurisdiction
  <2>2. /\ NewJurisdiction(x) \in Row
        /\ Undecided(NewJurisdiction(x))
        /\ NewJurisdiction(x).ref = x
        /\ Justified(NewJurisdiction(x))
    BY DEF NewJurisdiction, Justified, Blank, Row, Undecided, Tables
  <2>3. CASE x = Null
    <3>1. LookUp(p, "insert", "createJurisdiction", Null, NewJurisdiction(x), Null)
      BY <1>1, <2>3 DEF CreateJurisdiction, Hold
    <3>2. QED
      BY <2>1, <2>2, <2>3, <3>1, MakeStep DEF Making, LookingUp
  <2>4. CASE x # Null
    <3>1. LookUp(p, "findParent", "createJurisdiction", Null, NewJurisdiction(x), x)
      BY <1>1, <2>4 DEF CreateJurisdiction
    <3>2. QED
      BY <2>1, <2>2, <2>4, <3>1, MakeStep DEF Making, LookingUp, Sure
  <2>5. QED
    BY <2>3, <2>4
<1>2. ASSUME FindParent(p) PROVE Right
  <2> DEFINE found == Live("jurisdictions", req[p].to)
             pc == "insert"
  <2>1. At(p, "findParent") /\ GoOnIf(p, found, pc)
    BY <1>2 DEF FindParent
  <2>2. CASE found
    <3>1. req[p].ent.ref = req[p].to
      BY <2>1 DEF IInv, Known, RowKnown, LookingUp, At
    <3>2. tab[req[p].to] # Null /\ ~tab[req[p].to].deleted
      BY <2>2, LiveFacts
    <3>3. QED
      BY <2>1, <2>2, <3>1, <3>2, GoOnStep DEF At, Making, Holding
  <2>3. CASE ~found
    BY <2>1, <2>3, FinishStep DEF GoOnIf, At
  <2>4. QED
    BY <2>2, <2>3
<1>3. ASSUME NEW x \in Ids, NEW to \in Ids \cup {Null}, UpdateJurisdiction(p, x, to)
      PROVE  Right
  <2> DEFINE ent == IF to = Null THEN tab[x] ELSE [tab[x] EXCEPT !.ref = to]
  <2>1. "updateJurisdiction" \in Operations /\ ~At(p, "record")
    BY <1>3, Accepted DEF UpdateJurisdiction
  <2>2. tab[x] \in Row /\ tab[x].table = "jurisdictions"
    BY <1>3, LiveFacts DEF UpdateJurisdiction
  <2>3. /\ ent \in Row
        /\ ent.table = "jurisdictions"
        /\ ent.approved = tab[x].approved
        /\ ent.rejected = tab[x].rejected
        /\ ent.stamped = tab[x].stamped
        /\ ent.deleted = tab[x].deleted
    BY <2>2 DEF Row
  <2>4. LookUp(p, "save", "updateJurisdiction", x, ent, Null)
    BY <1>3 DEF UpdateJurisdiction, Hold
  <2> HIDE DEF ent
  <2>5. QED
    BY <2>1, <2>2, <2>3, <2>4, EditStep DEF Fixed, Holding, LookingUp
<1>4. ASSUME NEW x \in Ids, RemoveJurisdiction(p, x) PROVE Right
  <2>1. "removeJurisdiction" \in Operations /\ ~At(p, "record")
    BY <1>4, Accepted DEF RemoveJurisdiction
  <2>2. QED
    BY <1>4, <2>1, LiveFacts, RowStep DEF RemoveJurisdiction
<1>5. ASSUME CountLinked(p) PROVE Right
  <2> DEFINE found == Members("elections", req[p].x) = {}
  <2>1. At(p, "countLinked") /\ GoOnIf(p, found, "countChildren")
    BY <1>5 DEF CountLinked
  <2>2. CASE found
    BY <2>1, <2>2, GoOnStep DEF At, Making, Sure
  <2>3. CASE ~found
    BY <2>1, <2>3, FinishStep DEF GoOnIf, At
  <2>4. QED
    BY <2>2, <2>3
<1>6. ASSUME CountChildren(p) PROVE Right
  <2> DEFINE found == Members("jurisdictions", req[p].x) = {}
  <2>1. At(p, "countChildren") /\ GoOnIf(p, found, "softDelete")
    BY <1>6 DEF CountChildren
  <2>2. CASE found
    BY <2>1, <2>2, GoOnStep DEF At, Making, Sure
  <2>3. CASE ~found
    BY <2>1, <2>3, FinishStep DEF GoOnIf, At
  <2>4. QED
    BY <2>2, <2>3
<1>7. QED
  BY <1>1, <1>2, <1>3, <1>4, <1>5, <1>6

LEMMA UniversitySteps ==
    ASSUME IInv, NEW p \in Procs,
           \/ \E x \in Ids \cup {Null} : CreateUniversity(p, x)
           \/ AssertJurisdictionExists(p)
           \/ \E x \in Ids, to \in Ids \cup {Null} : UpdateUniversity(p, x, to)
           \/ \E x \in Ids : RemoveUniversity(p, x)
    PROVE  Right
<1>1. ASSUME NEW x \in Ids \cup {Null}, CreateUniversity(p, x) PROVE Right
  <2>1. "createUniversity" \in Operations /\ ~At(p, "record")
    BY <1>1, Accepted DEF CreateUniversity
  <2>2. /\ NewUniversity(x) \in Row
        /\ Undecided(NewUniversity(x))
        /\ NewUniversity(x).ref = x
        /\ Justified(NewUniversity(x))
    BY DEF NewUniversity, Justified, Blank, Row, Undecided, Tables
  <2>3. CASE x = Null
    <3>1. LookUp(p, "insert", "createUniversity", Null, NewUniversity(x), Null)
      BY <1>1, <2>3 DEF CreateUniversity, Hold
    <3>2. QED
      BY <2>1, <2>2, <2>3, <3>1, MakeStep DEF Making, LookingUp
  <2>4. CASE x # Null
    <3>1. LookUp(p, "assertJurisdictionExists", "createUniversity", Null, NewUniversity(x), x)
      BY <1>1, <2>4 DEF CreateUniversity
    <3>2. QED
      BY <2>1, <2>2, <2>4, <3>1, MakeStep DEF Making, LookingUp, Sure
  <2>5. QED
    BY <2>3, <2>4
<1>2. ASSUME AssertJurisdictionExists(p) PROVE Right
  <2> DEFINE found == Live("jurisdictions", req[p].to)
             pc == IF req[p].op = "createUniversity" THEN "insert" ELSE "save"
  <2>1. At(p, "assertJurisdictionExists") /\ GoOnIf(p, found, pc)
    BY <1>2 DEF AssertJurisdictionExists
  <2>2. CASE found
    <3>1. req[p].ent.ref = req[p].to
      BY <2>1 DEF IInv, Known, RowKnown, LookingUp, At
    <3>2. tab[req[p].to] # Null /\ ~tab[req[p].to].deleted
      BY <2>2, LiveFacts
    <3>3. QED
      BY <2>1, <2>2, <3>1, <3>2, GoOnStep DEF At, Making, Holding
  <2>3. CASE ~found
    BY <2>1, <2>3, FinishStep DEF GoOnIf, At
  <2>4. QED
    BY <2>2, <2>3
<1>3. ASSUME NEW x \in Ids, NEW j \in Ids \cup {Null}, UpdateUniversity(p, x, j) PROVE Right
  <2> DEFINE ent == [tab[x] EXCEPT !.ref = j]
  <2>1. "updateUniversity" \in Operations /\ ~At(p, "record")
    BY <1>3, Accepted DEF UpdateUniversity
  <2>2. tab[x] \in Row /\ tab[x].table = "universities"
    BY <1>3, LiveFacts DEF UpdateUniversity
  <2>3. /\ ent \in Row
        /\ ent.table = "universities"
        /\ ent.ref = j
        /\ ent.approved = tab[x].approved
        /\ ent.rejected = tab[x].rejected
        /\ ent.stamped = tab[x].stamped
        /\ ent.deleted = tab[x].deleted
    BY <2>2 DEF Row
  <2>4. \/ j # Null /\ LookUp(p, "assertJurisdictionExists", "updateUniversity", x, ent, j)
        \/ j = Null /\ LookUp(p, "save", "updateUniversity", x, ent, Null)
        \/ LookUp(p, "save", "updateUniversity", x, tab[x], Null)
    BY <1>3 DEF UpdateUniversity, Hold
  <2> HIDE DEF ent
  <2>5. CASE j # Null /\ LookUp(p, "assertJurisdictionExists", "updateUniversity", x, ent, j)
    BY <2>1, <2>2, <2>3, <2>5, EditStep DEF Fixed, Holding, LookingUp
  <2>6. CASE j = Null /\ LookUp(p, "save", "updateUniversity", x, ent, Null)
    BY <2>1, <2>2, <2>3, <2>6, EditStep DEF Fixed, Holding, LookingUp
  <2>7. CASE LookUp(p, "save", "updateUniversity", x, tab[x], Null)
    BY <2>1, <2>2, <2>7, EditStep DEF Fixed, Holding, LookingUp, Row
  <2>8. QED
    BY <2>4, <2>5, <2>6, <2>7
<1>4. ASSUME NEW x \in Ids, RemoveUniversity(p, x) PROVE Right
  <2>1. "removeUniversity" \in Operations /\ ~At(p, "record")
    BY <1>4, Accepted DEF RemoveUniversity
  <2>2. QED
    BY <1>4, <2>1, LiveFacts, RowStep DEF RemoveUniversity
<1>5. QED
  BY <1>1, <1>2, <1>3, <1>4

LEMMA ConditionSteps ==
    ASSUME IInv, NEW p \in Procs,
           \/ \E x \in Ids : \/ CreateCondition(p, x) \/ RemoveCondition(p, x)
                             \/ CreateElection(p, x) \/ RemoveElection(p, x)
           \/ \E x \in Ids, active \in BOOLEAN : UpdateCondition(p, x, active)
    PROVE  Right
<1>1. ASSUME NEW x \in Ids, CreateCondition(p, x) PROVE Right
  <2>1. "createCondition" \in Operations /\ ~At(p, "record")
    BY <1>1, Accepted DEF CreateCondition
  <2>2. /\ NewCondition(x) \in Row
        /\ Undecided(NewCondition(x))
        /\ NewCondition(x).table = "conditions"
        /\ NewCondition(x).ref = x
        /\ Justified(NewCondition(x))
    BY <1>1 DEF NewCondition, Justified, Blank, Row, Undecided, Tables
  <2>3. x \in Ids /\ tab[x] # Null /\ ~tab[x].deleted
    BY <1>1, LiveFacts DEF CreateCondition, Live
  <2>4. LookUp(p, "insert", "createCondition", Null, NewCondition(x), Null)
    BY <1>1 DEF CreateCondition, Hold
  <2>5. QED
    BY <2>1, <2>2, <2>3, <2>4, MakeStep DEF Making, LookingUp
<1>2. ASSUME NEW x \in Ids, RemoveCondition(p, x) PROVE Right
  <2>1. "removeCondition" \in Operations /\ ~At(p, "record")
    BY <1>2, Accepted DEF RemoveCondition
  <2>2. QED
    BY <1>2, <2>1, LiveFacts, RowStep DEF RemoveCondition
<1>3. ASSUME NEW x \in Ids, CreateElection(p, x) PROVE Right
  <2>1. "createElection" \in Operations /\ ~At(p, "record")
    BY <1>3, Accepted DEF CreateElection
  <2>2. /\ NewElection(x) \in Row
        /\ Undecided(NewElection(x))
        /\ NewElection(x).table = "elections"
        /\ NewElection(x).ref = x
        /\ Justified(NewElection(x))
    BY <1>3 DEF NewElection, Justified, Blank, Row, Undecided, Tables
  <2>3. x \in Ids /\ tab[x] # Null /\ ~tab[x].deleted
    BY <1>3, LiveFacts DEF CreateElection, Live
  <2>4. LookUp(p, "insert", "createElection", Null, NewElection(x), Null)
    BY <1>3 DEF CreateElection, Hold
  <2>5. QED
    BY <2>1, <2>2, <2>3, <2>4, MakeStep DEF Making, LookingUp
<1>4. ASSUME NEW x \in Ids, RemoveElection(p, x) PROVE Right
  <2>1. "removeElection" \in Operations /\ ~At(p, "record")
    BY <1>4, Accepted DEF RemoveElection
  <2>2. QED
    BY <1>4, <2>1, LiveFacts, RowStep DEF RemoveElection
<1>5. ASSUME NEW x \in Ids, NEW active \in BOOLEAN, UpdateCondition(p, x, active)
      PROVE  Right
  <2> DEFINE ent == [tab[x] EXCEPT !.active = active]
  <2>1. "updateCondition" \in Operations /\ ~At(p, "record")
    BY <1>5, Accepted DEF UpdateCondition
  <2>2. tab[x] \in Row /\ tab[x].table = "conditions"
    BY <1>5, LiveFacts DEF UpdateCondition
  <2>3. /\ ent \in Row
        /\ ent.table = "conditions"
        /\ ent.ref = tab[x].ref
        /\ ent.approved = tab[x].approved
        /\ ent.rejected = tab[x].rejected
        /\ ent.stamped = tab[x].stamped
        /\ ent.deleted = tab[x].deleted
    BY <2>2 DEF Row
  <2>4. LookUp(p, "save", "updateCondition", x, ent, Null)
    BY <1>5 DEF UpdateCondition, Hold
  <2>5. QED
    BY <2>1, <2>2, <2>3, <2>4, EditStep DEF Fixed, Holding, LookingUp
<1>6. QED
  BY <1>1, <1>2, <1>3, <1>4, <1>5

LEMMA CatalogueSteps ==
    ASSUME IInv, NEW p \in Procs, CatalogueNext(p)
    PROVE  Right
BY JurisdictionSteps, UniversitySteps, ConditionSteps DEF CatalogueNext

-----------------------------------------------------------------------------
(***************************************************************************)
(* The statements that end a handler.                                      *)
(***************************************************************************)
\* Dates that p does not undo stay, when it writes.
DatesKept(p) == \A d \in DatesSet : p \in Undoing(d[1], d[2]) \/ d \in DatesSet'

\* A step of p that writes: what it must take care of, and what it need not.
LEMMA TabStep ==
    ASSUME IInv, NEW p \in Procs, UNCHANGED serves,
           tab' \in [Ids -> Row \cup {Null}],
           log' \subseteq Audited \X Ids, unlogged' \subseteq Audited \X Ids,
           TabKeeps, Accounted \subseteq Accounted', DatesKept(p), OneFilePerCandidacy',
           \A x \in Ids : tab'[x] # Null /\ tab'[x] # tab[x] =>
              DecisionsKnown(tab[x], "none", x)' /\ Justified(tab[x])',
           NEW r, req' = [req EXCEPT ![p] = r], IsRequest(r), Known(req[p])',
           NewHands(p, r), NewRefs(p, r)
    PROVE  Right
<1>1. DOMAIN req = Procs /\ DOMAIN req' = Procs
  BY DEF IInv, TypeOK
<1>2. req'[p] = r /\ \A q \in Procs \ {p} : req'[q] = req[q]
  BY <1>1
<1>3. TypeOK'
  BY <1>1, <1>2 DEF IInv, TypeOK
<1>4. \A q \in Procs : Known(req[q])'
  <2>1. ASSUME NEW q \in Procs \ {p} PROVE Known(req[q])'
    BY <2>1, <1>2, KnownStays DEF IInv
  <2>2. QED
    BY <2>1
<1>5. \A x \in Ids : tab'[x] # Null => DecisionsKnown(tab[x], "none", x)'
  <2> SUFFICES ASSUME NEW x \in Ids, tab'[x] # Null PROVE DecisionsKnown(tab[x], "none", x)'
    OBVIOUS
  <2>1. CASE tab'[x] = tab[x]
    BY <2>1 DEF IInv, DecisionsKnown
  <2>2. CASE tab'[x] # tab[x]
    BY <2>2
  <2>3. QED
    BY <2>1, <2>2
<1>6. ContestedWasApproved'
  <2> SUFFICES ASSUME NEW x \in Ids, tab'[x] # Null, tab'[x].table = "contestations"
               PROVE  <<"approveAchievement", tab'[x].ref>> \in Accounted'
    BY DEF ContestedWasApproved, Rows
  <2>1. CASE tab'[x] = tab[x]
    BY <2>1 DEF IInv, ContestedWasApproved, Rows
  <2>2. CASE tab'[x] # tab[x]
    BY <2>2 DEF Justified
  <2>3. QED
    BY <2>1, <2>2
<1>7. IInv'
  BY <1>3, <1>4, <1>5, <1>6 DEF IInv
<1>8. Drained
  <2> SUFFICES ASSUME NEW d \in Ids \X DateColumns, d \in DatesSet
               PROVE  /\ Undoing(d[1], d[2])' \subseteq Undoing(d[1], d[2])
                      /\ Undoing(d[1], d[2]) = {} => d \in DatesSet'
    BY DEF Drained
  <2>1. ASSUME NEW q \in Undoing(d[1], d[2])' PROVE q \in Undoing(d[1], d[2])
    <3>1. CASE q = p
      BY <2>1, <3>1, <1>2 DEF Undoing, NewHands, DatesSet
    <3>2. CASE q # p
      BY <2>1, <3>2, <1>2 DEF Undoing
    <3>3. QED
      BY <3>1, <3>2
  <2>2. QED
    BY <2>1 DEF DatesKept
<1>9. Frozen
  BY DEF Frozen, TabKeeps
<1>10. NoMore
  <2> SUFFICES ASSUME NEW x \in Ids, tab[x] # Null /\ tab[x].deleted,
                      NEW q \in Attaching(x)' \ Attaching(x)
               PROVE  req'[q].x # Null /\ tab[req'[q].x].ref = x
    BY DEF NoMore
  <2>1. q = p
    BY <1>2 DEF Attaching
  <2>2. QED
    BY <2>1, <1>2 DEF Attaching, NewRefs
<1>11. QED
  BY <1>7, <1>8, <1>9, <1>10 DEF Right

\* A request that comes to its end, or to the entry it is to record.
EndFacts(r) == IsRequest(r) /\ RowKnown(r) /\ r.pc \in {"idle", "record"}

LEMMA EndKnown ==
    ASSUME IInv, NEW p \in Procs, NEW r, EndFacts(r), TabKeeps,
           req' = [req EXCEPT ![p] = r]
    PROVE  IsRequest(r) /\ Known(req[p])' /\ NewHands(p, r) /\ NewRefs(p, r)
<1>1. req'[p] = r
  BY DEF IInv, TypeOK
<1>2. RowKnown(req[p])'
  BY <1>1 DEF EndFacts, RowKnown, TabKeeps
<1>3. EntityKnown(req[p])' /\ NewKnown(req[p])'
  BY <1>1 DEF EndFacts, EntityKnown, NewKnown, Holding, Making
<1>4. NewHands(p, r) /\ NewRefs(p, r)
  BY DEF EndFacts, NewHands, NewRefs, Holding, Sure
<1>5. QED
  BY <1>2, <1>3, <1>4 DEF EndFacts, Known

LEMMA IdleEnds == EndFacts(Idle)
BY IdleFacts DEF EndFacts, Known, Idle, Request

LEMMA RecordStep ==
    ASSUME IInv, NEW p \in Procs, Record(p) \/ Abort(p)
    PROVE  Right
<1>1. req' = [req EXCEPT ![p] = Idle] /\ UNCHANGED <<tab, serves>>
  BY DEF Record, Abort, Finish
<1>2. At(p, "record") => <<req[p].op, req[p].x>> \in Audited \X Ids
  BY DEF IInv, Known, RowKnown, OnRow, At
<1>3. /\ log \subseteq log' /\ unlogged \subseteq unlogged'
      /\ log' \subseteq Audited \X Ids /\ unlogged' \subseteq Audited \X Ids
      /\ At(p, "record") => <<req[p].op, req[p].x>> \in log' \cup unlogged'
  BY <1>2 DEF IInv, TypeOK, Record, Abort
<1>4. Accounted \subseteq Accounted'
  BY <1>1, <1>3, AccountedGrows DEF IInv
<1>5. TabKeeps /\ DatesKept(p) /\ OneFilePerCandidacy'
  BY <1>1 DEF TabKeeps, DatesKept, DatesSet, IsSet, IInv, OneFilePerCandidacy, Rows
<1>6. /\ IsRequest(Idle) /\ Known(req[p])'
      /\ NewHands(p, Idle) /\ NewRefs(p, Idle)
  BY <1>1, <1>5, EndKnown, IdleEnds
<1>7. tab' \in [Ids -> Row \cup {Null}] /\ \A x \in Ids : tab'[x] = tab[x]
  BY <1>1 DEF IInv, TypeOK
<1>8. QED
  BY <1>1, <1>3, <1>4, <1>5, <1>6, <1>7, TabStep

LEMMA RemoveStep ==
    ASSUME IInv, NEW p \in Procs, SoftDelete(p)
    PROVE  Right
<1> DEFINE x == req[p].x
<1>1. /\ At(p, "softDelete")
      /\ tab' = [tab EXCEPT ![x].deleted = TRUE]
      /\ req' = [req EXCEPT ![p] = Idle]
      /\ UNCHANGED <<log, unlogged, serves>>
  BY DEF SoftDelete, Finish
<1>2. x \in Ids /\ tab[x] \in Row
  BY <1>1 DEF IInv, TypeOK, Known, RowKnown, OnRow, At
<1>3. /\ \A i \in Ids \ {x} : tab'[i] = tab[i]
      /\ tab'[x] = [tab[x] EXCEPT !.deleted = TRUE]
      /\ tab'[x] \in Row
      /\ tab' \in [Ids -> Row \cup {Null}]
  <2>1. [tab[x] EXCEPT !.deleted = TRUE] \in Row
    BY <1>2 DEF Row
  <2>2. QED
    BY <1>1, <1>2, <2>1 DEF IInv, TypeOK
<1>4. /\ tab'[x].deleted
      /\ tab'[x].table = tab[x].table
      /\ tab'[x].ref = tab[x].ref
      /\ tab'[x].fee = tab[x].fee
      /\ tab'[x].approved = tab[x].approved
      /\ tab'[x].rejected = tab[x].rejected
      /\ tab'[x].stamped = tab[x].stamped
  BY <1>2, <1>3 DEF Row
<1>5. Accounted \subseteq Accounted'
  BY <1>1, AccountedGrows DEF IInv, At
<1>6. TabKeeps
  BY <1>2, <1>3, <1>4 DEF TabKeeps
<1>7. DatesKept(p)
  <2> SUFFICES ASSUME NEW i \in Ids, NEW col \in DateColumns, IsSet(i, col)
               PROVE  IsSet(i, col)'
    BY DEF DatesKept, DatesSet
  <2>1. CASE i = x
    <3>1. tab'[i] # Null /\ tab'[i].table = tab[i].table
      BY <2>1, <1>2, <1>3, <1>4
    <3>2. tab'[i][col]
      BY <2>1, <1>2, <1>3 DEF IsSet, Row, DateColumns
    <3>3. QED
      BY <3>1, <3>2 DEF IsSet
  <2>2. CASE i # x
    BY <2>2, <1>3 DEF IsSet
  <2>3. QED
    BY <2>1, <2>2
<1>8. OneFilePerCandidacy'
  <2>1. \A i \in Ids : tab'[i] # Null =>
           /\ tab[i] # Null
           /\ tab'[i].table = tab[i].table
           /\ tab'[i].ref = tab[i].ref
    BY <1>2, <1>3, <1>4
  <2>2. QED
    BY <2>1 DEF IInv, OneFilePerCandidacy, Rows
<1>9. ASSUME NEW i \in Ids, tab'[i] # Null, tab'[i] # tab[i]
      PROVE  DecisionsKnown(tab[i], "none", i)' /\ Justified(tab[i])'
  <2>1. i = x
    BY <1>3, <1>9
  <2>2. DecisionsKnown(tab[x], "none", x)
    BY <1>2 DEF IInv
  <2>3. Justified(tab[x])
    BY <1>2 DEF IInv, ContestedWasApproved, Rows, Justified
  <2>4. QED
    BY <1>4, <1>5, <2>1, <2>2, <2>3 DEF DecisionsKnown, Justified
<1>10. IsRequest(Idle) /\ Known(req[p])' /\ NewHands(p, Idle) /\ NewRefs(p, Idle)
  BY <1>1, <1>6, EndKnown, IdleEnds
<1>11. log' \subseteq Audited \X Ids /\ unlogged' \subseteq Audited \X Ids
  BY <1>1 DEF IInv, TypeOK
<1>12. QED
  BY <1>1, <1>3, <1>5, <1>6, <1>7, <1>8, <1>9, <1>10, <1>11, TabStep

LEMMA InsertStep ==
    ASSUME IInv, NEW p \in Procs, Insert(p)
    PROVE  Right
<1> DEFINE ent == req[p].ent
<1>1. /\ At(p, "insert")
      /\ req' = [req EXCEPT ![p] = Idle]
      /\ UNCHANGED <<log, unlogged, serves>>
  BY DEF Insert, Finish
<1>2. ent \in Row /\ Undecided(ent) /\ Justified(ent)
  BY <1>1 DEF IInv, Known, RowKnown, NewKnown, Making, At
<1>3. CASE UNCHANGED tab
  BY <1>1, <1>3, FinishStep DEF Finish, Reads, At
<1>4. ASSUME ~Clash(ent), NEW i \in Ids, tab[i] = Null, tab' = [tab EXCEPT ![i] = ent]
      PROVE  Right
  <2>1. /\ tab'[i] = ent
        /\ \A j \in Ids \ {i} : tab'[j] = tab[j]
        /\ tab' \in [Ids -> Row \cup {Null}]
    BY <1>2, <1>4 DEF IInv, TypeOK
  <2>2. Accounted \subseteq Accounted'
    BY <1>1, AccountedGrows DEF IInv, At
  <2>3. TabKeeps /\ DatesKept(p)
    BY <1>4, <2>1 DEF TabKeeps, DatesKept, DatesSet, IsSet
  <2>4. OneFilePerCandidacy'
    BY <1>4, <2>1 DEF IInv, OneFilePerCandidacy, Rows, Clash
  <2>5. ASSUME NEW j \in Ids, tab'[j] # Null, tab'[j] # tab[j]
        PROVE  DecisionsKnown(tab[j], "none", j)' /\ Justified(tab[j])'
    <3>1. tab'[j] = ent
      BY <2>1, <2>5
    <3>2. QED
      BY <1>2, <2>2, <3>1 DEF DecisionsKnown, Justified, Undecided
  <2>6. IsRequest(Idle) /\ Known(req[p])' /\ NewHands(p, Idle) /\ NewRefs(p, Idle)
    BY <1>1, <2>3, EndKnown, IdleEnds
  <2>7. log' \subseteq Audited \X Ids /\ unlogged' \subseteq Audited \X Ids
    BY <1>1 DEF IInv, TypeOK
  <2>8. QED
    BY <1>1, <2>1, <2>2, <2>3, <2>4, <2>5, <2>6, <2>7, TabStep
<1>5. QED
  BY <1>3, <1>4 DEF Insert

\* What Saved leaves of the request.
LEMMA SavedEnds ==
    ASSUME IInv, NEW p \in Procs, req[p].pc \in {"save", "write"}, Saved(p)
    PROVE  \E r : /\ req' = [req EXCEPT ![p] = r]
                  /\ EndFacts(r)
                  /\ req[p].op \in Audited =>
                        r.pc = "record" /\ r.op = req[p].op /\ r.x = req[p].x
<1>1. CASE req[p].op \in Audited
  <2> DEFINE r == [req[p] EXCEPT !.pc = "record"]
  <2>1. req' = [req EXCEPT ![p] = r]
    BY <1>1 DEF Saved, Goto
  <2>2. IsRequest(req[p]) /\ RowKnown(req[p])
    BY DEF IInv, TypeOK, Known
  <2>3. /\ DOMAIN r = DOMAIN req[p]
        /\ r.pc = "record"
        /\ r.op = req[p].op
        /\ r.x = req[p].x
        /\ r.ent = req[p].ent
        /\ r.to = req[p].to
        /\ r.cols = req[p].cols
    BY <2>2 DEF IsRequest, Idle, Request
  <2>4. IsRequest(r)
    BY <2>2, <2>3 DEF IsRequest, PCs
  <2>5. RowKnown(r)
    BY <1>1, <2>2, <2>3 DEF RowKnown, OnRow, Making, LookingUp, Audited
  <2>6. QED
    BY <2>1, <2>3, <2>4, <2>5 DEF EndFacts
<1>2. CASE req[p].op \notin Audited
  BY <1>2, IdleEnds DEF Saved, Finish
<1>3. QED
  BY <1>1, <1>2

LEMMA SelectStep ==
    ASSUME IInv, NEW p \in Procs, Save(p)
    PROVE  Right
<1> DEFINE x == req[p].x
           ent == req[p].ent
           cols == Dirty(ent, tab[x])
<1>1. At(p, "save") /\ Reads /\ ~At(p, "record")
  BY DEF Save, At
<1>2. IsRequest(req[p]) /\ Known(req[p])
  BY DEF IInv, TypeOK
<1>3. CASE Saved(p)
  <2>1. PICK r : req' = [req EXCEPT ![p] = r] /\ EndFacts(r)
    BY <1>1, <1>3, SavedEnds DEF At
  <2>2. Known(r) /\ NewHands(p, r) /\ NewRefs(p, r)
    BY <2>1 DEF EndFacts, Known, EntityKnown, NewKnown, NewHands, NewRefs, Holding, Making,
                Sure
  <2>3. QED
    BY <1>1, <2>1, <2>2, MoveStep DEF EndFacts
<1>4. CASE Goto(p, "write", [req[p] EXCEPT !.cols = cols])
  <2> DEFINE r == [[req[p] EXCEPT !.cols = cols] EXCEPT !.pc = "write"]
  <2>1. req' = [req EXCEPT ![p] = r]
    BY <1>4 DEF Goto
  <2>2. /\ DOMAIN r = DOMAIN req[p]
        /\ r.pc = "write"
        /\ r.op = req[p].op
        /\ r.x = x
        /\ r.ent = ent
        /\ r.to = req[p].to
        /\ r.cols = cols
    BY <1>2 DEF IsRequest, Idle, Request
  <2>3. x \in Ids /\ IsEntity(ent)
    BY <1>1, <1>2 DEF Known, RowKnown, EntityKnown, OnRow, Holding, At
  <2>4. cols \subseteq DOMAIN ent /\ cols \subseteq Columns
    BY <2>3 DEF Dirty, IsEntity
  <2> HIDE DEF r, cols
  <2>5. IsRequest(r)
    BY <1>2, <2>2, <2>4 DEF IsRequest, PCs
  <2>6. Known(r)
    BY <1>1, <1>2, <2>2, <2>3, <2>4 DEF Known, RowKnown, EntityKnown, NewKnown, OnRow,
       LookingUp, Making, Holding, At
  <2>7. NewHands(p, r) /\ NewRefs(p, r)
    BY <1>1, <2>2 DEF NewHands, NewRefs, Undoing, Attaching, DateColumns, Holding, Sure, At
  <2>8. QED
    BY <1>1, <2>1, <2>5, <2>6, <2>7, MoveStep
<1>5. QED
  BY <1>3, <1>4 DEF Save

LEMMA WriteStep ==
    ASSUME IInv, NEW p \in Procs, Write(p)
    PROVE  Right
<1> DEFINE x == req[p].x
           ent == req[p].ent
           cols == req[p].cols
           row == Written(tab[x], ent, cols)
<1>1. /\ At(p, "write")
      /\ tab' = [tab EXCEPT ![x] = row]
      /\ Saved(p)
      /\ UNCHANGED <<log, unlogged, serves>>
  BY DEF Write
<1>2. Known(req[p])
  BY DEF IInv
<1>3. x \in Ids /\ tab[x] \in Row /\ IsEntity(ent) /\ cols \subseteq DOMAIN ent
  BY <1>1, <1>2 DEF IInv, TypeOK, Known, RowKnown, EntityKnown, OnRow, Holding, At
<1>4. PICK r : /\ req' = [req EXCEPT ![p] = r]
               /\ EndFacts(r)
               /\ req[p].op \in Audited =>
                     r.pc = "record" /\ r.op = req[p].op /\ r.x = x
  BY <1>1, SavedEnds DEF At
<1>5. row \in Row
  BY <1>3 DEF Written, Row, IsEntity, Columns
<1>6. /\ tab'[x] = row
      /\ \A i \in Ids \ {x} : tab'[i] = tab[i]
      /\ tab' \in [Ids -> Row \cup {Null}]
  BY <1>1, <1>3, <1>5 DEF IInv, TypeOK
<1>7. /\ row.table = tab[x].table
      /\ row.table \in Fixed => row.ref = tab[x].ref /\ row.fee = tab[x].fee
  BY <1>1, <1>2, <1>3 DEF Known, EntityKnown, Written, Row, Holding, At
<1>8. TabKeeps
  BY <1>3, <1>5, <1>6, <1>7 DEF TabKeeps
<1>9. Accounted \subseteq Accounted'
  BY <1>1, <1>4, AccountedGrows DEF IInv, At
<1>10. req[p].op \in Audited => <<req[p].op, x>> \in Accounted'
  <2>1. req'[p] = r
    BY <1>4 DEF IInv, TypeOK
  <2>2. QED
    BY <2>1, <1>4 DEF Accounted, Recording, At
<1>11. ASSUME NEW i \in Ids, i = x
       PROVE  DecisionsKnown(tab[i], "none", i)' /\ Justified(tab[i])'
  <2>1. DecisionsKnown(tab[i], "none", i) /\ Justified(tab[i])
    BY <1>3, <1>11 DEF IInv, ContestedWasApproved, Rows, Justified
  <2>2. DecisionsKnown(ent, req[p].op, i) /\ ent.table = tab[i].table
    BY <1>1, <1>2, <1>3, <1>11 DEF Known, EntityKnown, Holding, At
  <2>3. /\ row.approved => tab[i].approved \/ ent.approved
        /\ row.rejected => tab[i].rejected \/ ("rejected" \in DOMAIN ent /\ ent.rejected)
        /\ row.stamped => tab[i].stamped \/ ent.stamped
    BY <1>3, <1>11 DEF Written, Row
  <2>4. /\ tab'[i].table = tab[i].table
        /\ tab'[i].table \in Fixed => tab'[i].ref = tab[i].ref
        /\ tab'[i].approved => tab[i].approved \/ ent.approved
        /\ tab'[i].rejected => tab[i].rejected \/ ent.rejected
        /\ tab'[i].stamped => tab[i].stamped \/ ent.stamped
    BY <1>6, <1>7, <1>11, <2>3
  <2>5. DecisionsKnown(tab[i], "none", i)'
    BY <2>1, <2>2, <2>4, <1>9, <1>10, <1>11 DEF DecisionsKnown, Audited
  <2>6. Justified(tab[i])'
    BY <2>1, <2>4, <1>9 DEF Justified, Fixed
  <2>7. QED
    BY <2>5, <2>6
<1>12. DatesKept(p)
  <2> SUFFICES ASSUME NEW i \in Ids, NEW col \in DateColumns, IsSet(i, col),
                      p \notin Undoing(i, col)
               PROVE  IsSet(i, col)'
    BY DEF DatesKept, DatesSet
  <2>1. CASE i = x
    <3>1. row[col]
      <4>1. CASE col \in cols
        BY <1>1, <1>3, <2>1, <4>1 DEF Undoing, Written, Row, DateColumns, Holding, At
      <4>2. CASE col \notin cols
        BY <1>3, <2>1, <4>2 DEF Written, Row, DateColumns, IsSet
      <4>3. QED
        BY <4>1, <4>2
    <3>2. QED
      BY <3>1, <2>1, <1>5, <1>6, <1>7 DEF IsSet
  <2>2. CASE i # x
    BY <2>2, <1>6 DEF IsSet
  <2>3. QED
    BY <2>1, <2>2
<1>13. OneFilePerCandidacy'
  <2>1. \A i \in Ids : tab'[i] # Null /\ tab'[i].table \in Fixed =>
           /\ tab[i] # Null
           /\ tab'[i].table = tab[i].table
           /\ tab'[i].ref = tab[i].ref
    BY <1>3, <1>6, <1>7
  <2>2. Files \subseteq Fixed
    BY DEF Files, Fixed
  <2>3. QED
    BY <2>1, <2>2 DEF IInv, OneFilePerCandidacy, Rows
<1>14. IsRequest(r) /\ Known(req[p])' /\ NewHands(p, r) /\ NewRefs(p, r)
  BY <1>4, <1>8, EndKnown
<1>15. log' \subseteq Audited \X Ids /\ unlogged' \subseteq Audited \X Ids
  BY <1>1 DEF IInv, TypeOK
<1>16. \A i \in Ids : tab'[i] # tab[i] => i = x
  BY <1>6
<1>17. QED
  BY <1>1, <1>4, <1>6, <1>8, <1>9, <1>11, <1>12, <1>13, <1>14, <1>15, <1>16, TabStep

-----------------------------------------------------------------------------
(***************************************************************************)
(* The theorems.                                                           *)
(***************************************************************************)
LEMMA Starting == Init => IInv
<1> SUFFICES ASSUME Init PROVE IInv
  OBVIOUS
<1>1. PICK s \in Starts : tab = s.tab /\ serves = s.serves
  BY DEF Init
<1>2. /\ serves \in [Procs -> SUBSET Operations]
      /\ tab \in [Ids -> Row \cup {Null}]
      /\ \A i \in Ids : tab[i] # Null => /\ Undecided(tab[i])
                                         /\ tab[i].table # "contestations"
                                         /\ tab[i].table \notin Files
  BY <1>1, StartsAreTables
<1>3. log = {} /\ unlogged = {} /\ DOMAIN req = Procs /\ \A p \in Procs : req[p] = Idle
  BY DEF Init
<1>4. TypeOK
  BY <1>2, <1>3, IdleFacts DEF TypeOK
<1>5. \A p \in Procs : Known(req[p])
  BY <1>3, IdleFacts
<1>6. \A x \in Ids : tab[x] # Null => DecisionsKnown(tab[x], "none", x)
  BY <1>2 DEF DecisionsKnown, Undecided
<1>7. ContestedWasApproved /\ OneFilePerCandidacy
  BY <1>2 DEF ContestedWasApproved, OneFilePerCandidacy, Rows
<1>8. QED
  BY <1>4, <1>5, <1>6, <1>7 DEF IInv

LEMMA Stepping == IInv /\ [Next]_vars => Right
<1> SUFFICES ASSUME IInv, [Next]_vars PROVE Right
  OBVIOUS
<1>1. CASE UNCHANGED vars
  <2>1. IInv'
    <3>1. Accounted \subseteq Accounted' /\ TabKeeps
      BY <1>1 DEF vars, Accounted, Recording, At, TabKeeps
    <3>2. \A p \in Procs : Known(req[p])'
      BY <1>1, <3>1, KnownStays DEF vars, IInv
    <3>3. TypeOK' /\ OneFilePerCandidacy'
      BY <1>1 DEF vars, IInv, TypeOK, OneFilePerCandidacy, Rows
    <3>4. \A x \in Ids : tab'[x] # Null => DecisionsKnown(tab[x], "none", x)'
      BY <1>1, <3>1 DEF vars, IInv, DecisionsKnown
    <3>5. ContestedWasApproved'
      BY <1>1, <3>1 DEF vars, IInv, ContestedWasApproved, Rows
    <3>6. QED
      BY <3>2, <3>3, <3>4, <3>5 DEF IInv
  <2>2. Drained /\ Frozen /\ NoMore
    BY <1>1 DEF vars, Drained, DatesSet, IsSet, Undoing, Frozen, NoMore, Attaching
  <2>3. QED
    BY <2>1, <2>2 DEF Right
<1>2. ASSUME NEW p \in Procs,
             \/ CampaignNext(p) \/ OversightNext(p) \/ SponsorNext(p) \/ CatalogueNext(p)
             \/ Insert(p) \/ Save(p) \/ Write(p) \/ SoftDelete(p) \/ Record(p)
             \/ Abort(p)
      PROVE  Right
  BY <1>2, CampaignSteps, OversightSteps, SponsorSteps, CatalogueSteps, InsertStep,
     SelectStep, WriteStep, RemoveStep, RecordStep
<1>3. QED
  BY <1>1, <1>2 DEF Next

LEMMA Invariant == Spec => []IInv
BY Starting, Stepping, PTL DEF Spec, Right

\* The types, whoever is served.
THEOREM TypeCorrect == Spec => []TypeOK
BY Invariant, PTL DEF IInv

\* A candidacy has one payment and one program (candidacy-payment.entity.ts and
\* candidacy-program.entity.ts declare the column unique): the handlers look
\* for one an await before they insert, and the index refuses the second.
THEOREM OneFileEach == Spec => []OneFilePerCandidacy
BY Invariant, PTL DEF IInv

\* Every contestation is about an approval that was accounted for.
THEOREM ContestsApprovals == Spec => []ContestedWasApproved
BY Invariant, PTL DEF IInv

LEMMA Complete == IInv => AuditComplete
<1> SUFFICES ASSUME IInv PROVE AuditComplete
  OBVIOUS
<1>1. \A x \in Ids : tab[x] # Null => DecisionsKnown(tab[x], "none", x)
  BY DEF IInv
<1>2. ASSUME NEW x \in Rows("achievements")
      PROVE  /\ tab[x].approved => <<"approveAchievement", x>> \in Accounted
             /\ tab[x].rejected => <<"rejectAchievement", x>> \in Accounted
  BY <1>1, <1>2 DEF Rows, DecisionsKnown
<1>3. ASSUME NEW x \in Rows("contestations"), tab[x].stamped
      PROVE  <<"resolve", x>> \in Accounted
  BY <1>1, <1>3 DEF Rows, DecisionsKnown
<1>4. ASSUME NEW x \in Rows("questions"), tab[x].stamped
      PROVE  <<"hide", x>> \in Accounted
  BY <1>1, <1>4 DEF Rows, DecisionsKnown
<1>5. QED
  BY <1>2, <1>3, <1>4 DEF AuditComplete, Decided

\* No decision of oversight shows that the audit log does not know, but for the
\* handlers that stopped between their two statements.
THEOREM DecisionsAudited == Spec => []AuditComplete
BY Invariant, Complete, PTL

\* The amount of a payment stays that of its first submission, and no row of a
\* candidacy moves to another, whatever entities are saved.
THEOREM AmountsFrozen == Spec => AmountIsFrozen
<1>1. IInv /\ [Next]_vars =>
         [\A x \in Ids : tab[x] # Null /\ tab[x].table \in Fixed =>
             tab'[x].ref = tab[x].ref /\ tab'[x].fee = tab[x].fee]_vars
  BY Stepping DEF Right, Frozen
<1>2. QED
  BY <1>1, Invariant, PTL DEF Spec, AmountIsFrozen

\* Nothing is attached to a removed row by a request that looks at it later.
THEOREM NothingMoreForRemoved == Spec => RemovedGetsNoMore
<1>1. IInv /\ [Next]_vars =>
         [\A x \in Ids : tab[x] # Null /\ tab[x].deleted =>
             \A p \in Attaching(x)' \ Attaching(x) :
                req'[p].x # Null /\ tab[req'[p].x].ref = x]_vars
  BY Stepping DEF Right, NoMore
<1>2. QED
  BY <1>1, Invariant, PTL DEF Spec, RemovedGetsNoMore

\* The four services together implement Stamps: a date that is set is undone
\* by nobody who read the row after.
THEOREM DatesAreKept == Spec => DecisionsDrain
<1> DEFINE hands == [d \in Ids \X DateColumns |-> Undoing(d[1], d[2])]
<1>1. Init => Dates!Init
  <2> SUFFICES ASSUME Init PROVE Dates!Init
    OBVIOUS
  <2>1. \A p \in Procs : req[p].pc = "idle"
    BY DEF Init, Idle, Request
  <2>2. \A d \in Ids \X DateColumns : Undoing(d[1], d[2]) = {}
    BY <2>1 DEF Undoing, Holding
  <2>3. QED
    BY <2>2 DEF Dates!Init, DatesSet
<1>2. IInv /\ [Next]_vars => [Dates!Next]_<<DatesSet, hands>>
  <2> SUFFICES ASSUME IInv, [Next]_vars PROVE Dates!Next
    OBVIOUS
  <2>1. Drained
    BY Stepping DEF Right
  <2>2. QED
    BY <2>1 DEF Dates!Next, Dates!Drains, Drained
<1>3. QED
  BY <1>1, <1>2, Invariant, PTL DEF Spec, DecisionsDrain, Dates!Spec

-----------------------------------------------------------------------------
(***************************************************************************)
(* What the requests know with one reviewer: of a reviewed row, that an    *)
(* entity which gives it one decision does not meet the other.             *)
(***************************************************************************)
\* Requests are those of their clients, wherever they are.
Served(p, r) ==
    /\ r.pc # "idle" => r.op \in serves[p]
    /\ r.pc \in {"findPosition", "findPayment"} => r.op = "submitPayment"
    /\ r.pc = "findProgram" => r.op = "upsertProgram"
    /\ r.pc = "findQuestion" => r.op = "answer"
    /\ r.pc = "assertOwnCandidacy" => r.op \in {"updateAchievement", "withdrawAchievement"}

Middle == {"findPosition", "findPayment", "findProgram", "findQuestion",
           "assertOwnCandidacy"}

OpServed == \A p \in Procs : Served(p, req[p])

\* Where a handler is to save the entity, whatever else it finds.
Saving == Holding \ {"assertOwnCandidacy"}

\* An entity without a date, or that of a reviewer.
ReviewSafe(r) ==
    \/ ~r.ent.approved /\ ("rejected" \in DOMAIN r.ent => ~r.ent.rejected)
    \/ /\ r.op \in Reviewing
       /\ "rejected" \in DOMAIN r.ent
       /\ r.ent.approved => ~r.ent.rejected /\ ~tab[r.x].rejected
       /\ r.ent.rejected => ~tab[r.x].approved

ReviewKnown(r) ==
    /\ r.pc \in Making \cup {"assertJurisdictionExists"} /\ r.x = Null => ~r.ent.rejected
    /\ r.pc \in Saving /\ r.x \in Ids /\ tab[r.x].table \in Reviewed => ReviewSafe(r)

\* What a handler does that reads the database: p goes on knowing this.
Keeps(p) ==
    /\ UNCHANGED <<tab, serves>>
    /\ \A q \in Procs \ {p} : req'[q] = req[q]
    /\ Served(p, req'[p])
    /\ NeverBoth(tab) /\ ReviewKnown(req[p]) => ReviewKnown(req'[p])

-----------------------------------------------------------------------------
LEMMA EndKeeps ==
    ASSUME IInv, NEW p \in Procs, Finish(p), UNCHANGED <<tab, serves>>
    PROVE  Keeps(p)
<1>1. req'[p] = Idle /\ \A q \in Procs \ {p} : req'[q] = req[q]
  BY DEF Finish, IInv, TypeOK
<1>2. ReviewKnown(Idle)
  BY DEF ReviewKnown, Idle, Request, Making, Saving, Holding
<1>3. QED
  BY <1>1, <1>2 DEF Keeps, Served, Idle, Request

\* A row made in memory.
LEMMA FreshKeeps ==
    ASSUME IInv, NEW p \in Procs, NEW pc \in Making \cup {"assertJurisdictionExists"},
           NEW op \in serves[p], NEW ent, NEW to, LookUp(p, pc, op, Null, ent, to),
           Served(p, Request(pc, op, Null, ent, to)),
           ReviewKnown(req[p]) => ~ent.rejected
    PROVE  Keeps(p)
<1> DEFINE r == Request(pc, op, Null, ent, to)
<1>1. req'[p] = r /\ \A q \in Procs \ {p} : req'[q] = req[q]
  BY DEF LookUp, IInv, TypeOK
<1>2. r.pc = pc /\ r.op = op /\ r.x = Null /\ r.ent = ent
  BY DEF Request
<1>3. (ReviewKnown(req[p]) => ~r.ent.rejected) /\ Served(p, r)
  BY <1>2
<1> HIDE DEF r
<1>4. Null \notin Ids
  OBVIOUS
<1>5. ASSUME ReviewKnown(req[p]) PROVE ReviewKnown(r)
  <2>1. ~r.ent.rejected
    BY <1>3, <1>5
  <2>2. QED
    BY <1>2, <1>4, <2>1 DEF ReviewKnown
<1>6. QED
  BY <1>1, <1>3, <1>5 DEF Keeps, LookUp, Reads

\* A row loaded, and edited or decided in memory.
LEMMA LoadKeeps ==
    ASSUME IInv, NEW p \in Procs, NEW pc \in Holding, NEW op \in serves[p],
           pc = "assertOwnCandidacy" => op \in {"updateAchievement", "withdrawAchievement"},
           NEW table, NEW x, Live(table, x), NEW ent, NEW to,
           LookUp(p, pc, op, x, ent, to),
           table \in Reviewed /\ pc \in Saving /\ NeverBoth(tab) =>
              \/ ~ent.approved /\ ("rejected" \in DOMAIN ent => ~ent.rejected)
              \/ /\ op \in Reviewing
                 /\ "rejected" \in DOMAIN ent
                 /\ ent.approved => ~ent.rejected /\ ~tab[x].rejected
                 /\ ent.rejected => ~tab[x].approved
    PROVE  Keeps(p)
<1> DEFINE r == Request(pc, op, x, ent, to)
<1>1. req'[p] = r /\ \A q \in Procs \ {p} : req'[q] = req[q]
  BY DEF LookUp, IInv, TypeOK
<1>2. r.pc = pc /\ r.op = op /\ r.x = x /\ r.ent = ent
  BY DEF Request
<1> HIDE DEF r
<1>3. x \in Ids /\ x # Null /\ tab[x].table = table
  BY DEF Live
<1>4. ASSUME NeverBoth(tab) PROVE ReviewKnown(r)
  <2>1. ASSUME pc \in Saving, table \in Reviewed PROVE ReviewSafe(r)
    BY <1>2, <1>4, <2>1 DEF ReviewSafe
  <2>2. QED
    BY <1>2, <1>3, <2>1 DEF ReviewKnown, Holding, Making
<1>5. Served(p, r)
  BY <1>2 DEF Served, Holding
<1>6. QED
  BY <1>1, <1>2, <1>4, <1>5 DEF Keeps, LookUp, Reads

\* A row found, of which the id is kept alone.
LEMMA FoundKeeps ==
    ASSUME IInv, NEW p \in Procs, NEW pc \in {"softDelete", "findPost", "findQuestion",
                                             "countLinked"},
           NEW op \in serves[p], pc = "findQuestion" => op = "answer",
           NEW x \in Ids, Hold(p, pc, op, x, Null)
    PROVE  Keeps(p)
<1> DEFINE r == Request(pc, op, x, Null, Null)
<1>1. req'[p] = r /\ \A q \in Procs \ {p} : req'[q] = req[q]
  BY DEF Hold, LookUp, IInv, TypeOK
<1>2. r.pc = pc /\ r.op = op /\ r.x = x
  BY DEF Request
<1> HIDE DEF r
<1>3. ReviewKnown(r)
  BY <1>2 DEF ReviewKnown, Making, Saving, Holding
<1>4. QED
  BY <1>1, <1>2, <1>3 DEF Keeps, Served, Hold, LookUp, Reads

\* A statement that returned: the request goes on to the next one as it is.
LEMMA OnKeeps ==
    ASSUME IInv, OpServed, NEW p \in Procs, ~At(p, "idle"), UNCHANGED <<tab, serves>>,
           NEW r, req' = [req EXCEPT ![p] = r],
           r.op = req[p].op, r.x = req[p].x, r.ent = req[p].ent,
           r.pc \notin Middle,
           r.pc \in Making \cup {"assertJurisdictionExists"} /\ r.x = Null =>
              req[p].pc \in Making \cup {"assertJurisdictionExists"},
           r.pc \in Holding => req[p].pc \in Holding,
           r.pc \in Saving => \/ req[p].pc \in Saving
                              \/ ~r.ent.approved /\ ~r.ent.rejected
    PROVE  Keeps(p)
<1>1. req'[p] = r /\ \A q \in Procs \ {p} : req'[q] = req[q]
  BY DEF IInv, TypeOK
<1>2. Served(p, r)
  BY DEF OpServed, Served, At, Middle
<1>3. ASSUME ReviewKnown(req[p]) PROVE ReviewKnown(r)
  <2>1. ASSUME r.pc \in Saving, r.x \in Ids, tab[r.x].table \in Reviewed
        PROVE  ReviewSafe(r)
    <3>1. CASE req[p].pc \in Saving
      <4>1. ReviewSafe(req[p])
        BY <1>3, <2>1, <3>1 DEF ReviewKnown
      <4>2. QED
        BY <4>1 DEF ReviewSafe
    <3>2. CASE ~r.ent.approved /\ ~r.ent.rejected
      BY <3>2 DEF ReviewSafe
    <3>3. QED
      BY <2>1, <3>1, <3>2
  <2>2. QED
    BY <1>3, <2>1 DEF ReviewKnown
<1>4. QED
  BY <1>1, <1>2, <1>3 DEF Keeps

-----------------------------------------------------------------------------
(***************************************************************************)
(* The handlers, once more.                                                *)
(***************************************************************************)
LEMMA Moved ==
    ASSUME IInv, NEW p \in Procs, NEW pc, Goto(p, pc, req[p])
    PROVE  \E r : /\ req' = [req EXCEPT ![p] = r]
                  /\ r.pc = pc
                  /\ r.op = req[p].op
                  /\ r.x = req[p].x
                  /\ r.ent = req[p].ent
<1> DEFINE r == [req[p] EXCEPT !.pc = pc]
<1>1. req' = [req EXCEPT ![p] = r]
  BY DEF Goto
<1>2. DOMAIN req[p] = DOMAIN Idle
  BY DEF IInv, TypeOK, IsRequest
<1>3. r.pc = pc /\ r.op = req[p].op /\ r.x = req[p].x /\ r.ent = req[p].ent
  BY <1>2 DEF Idle, Request
<1>4. QED
  BY <1>1, <1>3

\* What was looked up or counted: the handler goes on, or answers an error.
LEMMA GoOnKeeps ==
    ASSUME IInv, OpServed, NEW p \in Procs, NEW found, NEW pc, GoOnIf(p, found, pc),
           found =>
              \/ req[p].pc \in Making \cup {"assertJurisdictionExists"} /\ pc = "insert"
              \/ req[p].pc \in Holding /\ pc = "save"
                 /\ (req[p].pc = "assertOwnCandidacy" =>
                       ~req[p].ent.approved /\ ~req[p].ent.rejected)
              \/ pc \in {"countChildren", "softDelete"},
           ~At(p, "idle")
    PROVE  Keeps(p)
<1>1. UNCHANGED <<tab, serves>>
  BY DEF GoOnIf, Reads
<1>2. CASE found
  <2>1. PICK r : /\ req' = [req EXCEPT ![p] = r]
                 /\ r.pc = pc
                 /\ r.op = req[p].op
                 /\ r.x = req[p].x
                 /\ r.ent = req[p].ent
    BY <1>2, Moved DEF GoOnIf
  <2>2. r.pc \in Making \cup {"assertJurisdictionExists"} =>
           req[p].pc \in Making \cup {"assertJurisdictionExists"}
    BY <1>2, <2>1 DEF Making
  <2>3. r.pc \in Holding => req[p].pc \in Holding
    BY <1>2, <2>1 DEF Holding
  <2>4. r.pc \in Saving => \/ req[p].pc \in Saving
                           \/ ~r.ent.approved /\ ~r.ent.rejected
    <3>1. CASE req[p].pc = "assertOwnCandidacy" /\ pc = "save"
      <4>1. ~req[p].ent.approved /\ ~req[p].ent.rejected
        BY <1>2, <3>1 DEF Making
      <4>2. QED
        BY <2>1, <4>1
    <3>2. CASE ~(req[p].pc = "assertOwnCandidacy" /\ pc = "save")
      BY <1>2, <2>1, <3>2 DEF Holding, Saving
    <3>3. QED
      BY <3>1, <3>2
  <2>5. r.pc \notin Middle
    BY <1>2, <2>1 DEF Middle
  <2>6. QED
    BY <1>1, <2>1, <2>2, <2>3, <2>4, <2>5, OnKeeps
<1>3. CASE ~found
  BY <1>1, <1>3, EndKeeps DEF GoOnIf
<1>4. QED
  BY <1>2, <1>3

\* A decision about a row that has none.
LEMMA DecideKeeps ==
    ASSUME IInv, NEW p \in Procs, NEW op \in Reviews, op \in serves[p],
           NEW table \in Reviewed, NEW x, Live(table, x),
           ~tab[x].approved, ~tab[x].rejected, NEW ent,
           \/ ent = [tab[x] EXCEPT !.approved = TRUE]
           \/ ent = [tab[x] EXCEPT !.rejected = TRUE],
           LookUp(p, "save", op, x, ent, Null)
    PROVE  Keeps(p)
<1>1. tab[x] \in Row
  BY LiveFacts
<1>2. "rejected" \in DOMAIN ent
  BY <1>1 DEF Row
<1>3. ent.approved => ~ent.rejected
  BY <1>1 DEF Row
<1>4. op \in Reviewing
  BY DEF Reviewing
<1>5. QED
  BY <1>2, <1>3, <1>4, LoadKeeps DEF Holding

LEMMA PositionKeeps ==
    ASSUME IInv, NEW p \in Procs,
           \/ \E fee \in Fees \cup {Null} : CreatePosition(p, fee)
           \/ \E x \in Ids, active \in BOOLEAN, fee \in Fees \cup {Null} :
                 UpdatePosition(p, x, active, fee)
           \/ \E x \in Ids : RemovePosition(p, x)
    PROVE  Keeps(p)
<1> USE DEF Accepts, Hold, Reviewed, Row
<1>1. ASSUME NEW fee \in Fees \cup {Null}, CreatePosition(p, fee) PROVE Keeps(p)
  BY <1>1, FreshKeeps DEF CreatePosition, NewPosition, Blank, Making, Served, Request
<1>2. ASSUME NEW x \in Ids, NEW active \in BOOLEAN, NEW fee \in Fees \cup {Null},
             UpdatePosition(p, x, active, fee)
      PROVE  Keeps(p)
  <2> DEFINE ent == [tab[x] EXCEPT !.active = active, !.fee = fee]
  <2>1. /\ Live("positions", x)
        /\ "updatePosition" \in serves[p]
        /\ LookUp(p, "save", "updatePosition", x, ent, Null)
    BY <1>2 DEF UpdatePosition
  <2> HIDE DEF ent
  <2>2. QED
    BY <2>1, LoadKeeps DEF Holding
<1>3. ASSUME NEW x \in Ids, RemovePosition(p, x) PROVE Keeps(p)
  BY <1>3, LiveFacts, FoundKeeps DEF RemovePosition
<1>4. QED
  BY <1>1, <1>2, <1>3

LEMMA CandidacyKeeps ==
    ASSUME IInv, OpServed, NEW p \in Procs,
           \/ \E x \in Ids, to \in Ids \cup {Null} : UpdateCandidacy(p, x, to)
           \/ AssertActivePosition(p)
           \/ \E x \in Ids : \/ WithdrawCandidacy(p, x)
                             \/ ApproveCandidacy(p, x)
                             \/ RejectCandidacy(p, x)
    PROVE  Keeps(p)
<1>1. ASSUME NEW x \in Ids, NEW to \in Ids \cup {Null}, UpdateCandidacy(p, x, to)
      PROVE  Keeps(p)
  <2>1. PICK ent \in {tab[x], [tab[x] EXCEPT !.ref = to]},
             pc \in {"save", "assertActivePosition"} :
           LookUp(p, pc, "updateCandidacy", x, ent, to)
    BY <1>1 DEF UpdateCandidacy, Hold
  <2>2. /\ Live("candidacies", x)
        /\ "updateCandidacy" \in serves[p]
        /\ ~tab[x].approved /\ ~tab[x].rejected
    BY <1>1 DEF UpdateCandidacy, Pending, Accepts
  <2>3. ~ent.approved /\ ~ent.rejected
    BY <2>2, LiveFacts DEF Row
  <2>4. QED
    BY <2>1, <2>2, <2>3, LoadKeeps DEF Holding
<1>2. ASSUME AssertActivePosition(p) PROVE Keeps(p)
  BY <1>2, GoOnKeeps DEF AssertActivePosition, At, Holding
<1>3. ASSUME NEW x \in Ids, WithdrawCandidacy(p, x) PROVE Keeps(p)
  BY <1>3, LiveFacts, FoundKeeps DEF WithdrawCandidacy, Accepts
<1>4. ASSUME NEW x \in Ids, ApproveCandidacy(p, x) PROVE Keeps(p)
  BY <1>4, DecideKeeps DEF ApproveCandidacy, Pending, Accepts, Hold, Reviews, Reviewed
<1>5. ASSUME NEW x \in Ids, RejectCandidacy(p, x) PROVE Keeps(p)
  BY <1>5, DecideKeeps DEF RejectCandidacy, Pending, Accepts, Hold, Reviews, Reviewed
<1>6. QED
  BY <1>1, <1>2, <1>3, <1>4, <1>5

LEMMA PaymentKeeps ==
    ASSUME IInv, OpServed, NEW p \in Procs,
           \/ \E x \in Ids, text \in Texts : SubmitPayment(p, x, text)
           \/ FindPosition(p) \/ FindPayment(p)
           \/ \E x \in Ids : ApprovePayment(p, x) \/ RejectPayment(p, x)
    PROVE  Keeps(p)
<1>1. ASSUME NEW x \in Ids, NEW text \in Texts, SubmitPayment(p, x, text) PROVE Keeps(p)
  <2>1. /\ "submitPayment" \in serves[p]
        /\ LookUp(p, "findPosition", "submitPayment", Null, NewPayment(x, Null, text),
                  tab[x].ref)
    BY <1>1 DEF SubmitPayment, Accepts
  <2>2. ~NewPayment(x, Null, text).rejected
    BY DEF NewPayment, Blank
  <2>3. QED
    BY <2>1, <2>2, FreshKeeps DEF Making, Served, Request
<1>2. ASSUME FindPosition(p) PROVE Keeps(p)
  <2>1. CASE Finish(p) /\ Reads
    BY <2>1, EndKeeps DEF Reads
  <2>2. ASSUME Hold(p, "findPayment", "submitPayment", Null,
                    [req[p].ent EXCEPT !.fee = tab[req[p].to].fee])
        PROVE  Keeps(p)
    <3> DEFINE ent == [req[p].ent EXCEPT !.fee = tab[req[p].to].fee]
    <3>1. At(p, "findPosition") /\ "submitPayment" \in serves[p]
      BY <1>2 DEF FindPosition, OpServed, Served, At
    <3>2. req[p].ent \in Row /\ req[p].x = Null
      BY <3>1 DEF IInv, Known, RowKnown, NewKnown, At, Making
    <3>3. ent.rejected = req[p].ent.rejected
      BY <3>2 DEF Row
    <3>4. ReviewKnown(req[p]) => ~ent.rejected
      BY <3>1, <3>2, <3>3 DEF ReviewKnown, At, Making
    <3>5. Served(p, Request("findPayment", "submitPayment", Null, ent, Null))
      BY <3>1 DEF Served, Request
    <3>6. LookUp(p, "findPayment", "submitPayment", Null, ent, Null)
      BY <2>2 DEF Hold
    <3> HIDE DEF ent
    <3>7. QED
      BY <3>1, <3>4, <3>5, <3>6, FreshKeeps DEF Making
  <2>3. QED
    BY <1>2, <2>1, <2>2 DEF FindPosition
<1>3. ASSUME FindPayment(p) PROVE Keeps(p)
  <2>1. At(p, "findPayment") /\ ~At(p, "idle")
    BY <1>3 DEF FindPayment, At
  <2>2. CASE Finish(p) /\ Reads
    BY <2>2, EndKeeps DEF Reads
  <2>3. CASE Goto(p, "insert", req[p]) /\ Reads
    BY <2>1, <2>3, GoOnKeeps DEF GoOnIf, At, Making
  <2>4. ASSUME NEW x \in PaymentsOf(req[p].ent.ref), ~tab[x].approved,
               Hold(p, "save", "submitPayment", x, Resubmitted(tab[x], req[p].ent))
        PROVE  Keeps(p)
    <3> DEFINE ent == Resubmitted(tab[x], req[p].ent)
    <3>1. DOMAIN ent = Columns \ {"rejected"} /\ ~ent.approved
      BY <2>4, LiveFacts DEF Resubmitted, Columns, PaymentsOf
    <3>2. "submitPayment" \in serves[p] /\ Live("candidacy_payments", x)
      BY <2>1 DEF OpServed, Served, At, PaymentsOf
    <3>3. LookUp(p, "save", "submitPayment", x, ent, Null)
      BY <2>4 DEF Hold
    <3> HIDE DEF ent
    <3>4. QED
      BY <3>1, <3>2, <3>3, LoadKeeps DEF Holding
  <2>5. QED
    BY <1>3, <2>2, <2>3, <2>4 DEF FindPayment
<1>4. ASSUME NEW x \in Ids, ApprovePayment(p, x) PROVE Keeps(p)
  BY <1>4, DecideKeeps DEF ApprovePayment, Pending, Accepts, Hold, Reviews, Reviewed
<1>5. ASSUME NEW x \in Ids, RejectPayment(p, x) PROVE Keeps(p)
  BY <1>5, DecideKeeps DEF RejectPayment, Pending, Accepts, Hold, Reviews, Reviewed
<1>6. QED
  BY <1>1, <1>2, <1>3, <1>4, <1>5

LEMMA ProgramKeeps ==
    ASSUME IInv, OpServed, NEW p \in Procs,
           \/ \E x \in Ids, text \in Texts : UpsertProgram(p, x, text)
           \/ FindProgram(p)
    PROVE  Keeps(p)
<1>1. ASSUME NEW x \in Ids, NEW text \in Texts, UpsertProgram(p, x, text) PROVE Keeps(p)
  <2>1. /\ "upsertProgram" \in serves[p]
        /\ LookUp(p, "findProgram", "upsertProgram", Null, NewProgram(x, text), Null)
    BY <1>1 DEF UpsertProgram, Accepts, Hold
  <2>2. ~NewProgram(x, text).rejected
    BY DEF NewProgram, Blank
  <2>3. QED
    BY <2>1, <2>2, FreshKeeps DEF Making, Served, Request
<1>2. ASSUME FindProgram(p) PROVE Keeps(p)
  <2>1. At(p, "findProgram") /\ ~At(p, "idle")
    BY <1>2 DEF FindProgram, At
  <2>2. CASE Goto(p, "insert", req[p]) /\ Reads
    BY <2>1, <2>2, GoOnKeeps DEF GoOnIf, At, Making
  <2>3. ASSUME NEW x \in ProgramsOf(req[p].ent.ref),
               Hold(p, "save", "upsertProgram", x, [tab[x] EXCEPT !.text = req[p].ent.text])
        PROVE  Keeps(p)
    <3> DEFINE ent == [tab[x] EXCEPT !.text = req[p].ent.text]
    <3>1. /\ Live("candidacy_programs", x)
          /\ "upsertProgram" \in serves[p]
          /\ LookUp(p, "save", "upsertProgram", x, ent, Null)
      BY <2>1, <2>3 DEF OpServed, Served, At, ProgramsOf, Hold
    <3> HIDE DEF ent
    <3>2. QED
      BY <3>1, LoadKeeps DEF Holding, Reviewed
  <2>4. QED
    BY <1>2, <2>2, <2>3 DEF FindProgram
<1>3. QED
  BY <1>1, <1>2

LEMMA PostKeeps ==
    ASSUME IInv, OpServed, NEW p \in Procs,
           \/ \E x \in Ids, text \in Texts : CreatePost(p, x, text)
           \/ \E x \in Ids, op \in {"updatePost", "publishPost", "removePost"} :
                 OnPost(p, op, x)
           \/ \E text \in Texts : UpdatePost(p, text)
           \/ PublishPost(p) \/ RemovePost(p) \/ LeavePost(p)
    PROVE  Keeps(p)
<1>1. ASSUME NEW x \in Ids, NEW text \in Texts, CreatePost(p, x, text) PROVE Keeps(p)
  <2>1. /\ "createPost" \in serves[p]
        /\ LookUp(p, "insert", "createPost", Null, NewPost(x, text), Null)
    BY <1>1 DEF CreatePost, Accepts, Hold
  <2>2. ~NewPost(x, text).rejected
    BY DEF NewPost, Blank
  <2>3. QED
    BY <2>1, <2>2, FreshKeeps DEF Making, Served, Request
<1>2. ASSUME NEW x \in Ids, NEW op \in {"updatePost", "publishPost", "removePost"},
             OnPost(p, op, x)
      PROVE  Keeps(p)
  BY <1>2, FoundKeeps DEF OnPost, Accepts
<1>3. ASSUME NEW op, FoundPost(p, op)
      PROVE  /\ Live("campaign_posts", req[p].x)
             /\ op \in serves[p]
             /\ req[p].x \in Ids
             /\ tab[req[p].x] \in Row
             /\ tab[req[p].x].table = "campaign_posts"
  BY <1>3, LiveFacts DEF FoundPost, OpServed, Served, At
<1>4. ASSUME NEW text \in Texts, UpdatePost(p, text) PROVE Keeps(p)
  <2> DEFINE x == req[p].x
             ent == [tab[x] EXCEPT !.text = text]
  <2>1. FoundPost(p, "updatePost") /\ LookUp(p, "save", "updatePost", x, ent, Null)
    BY <1>4 DEF UpdatePost, Hold
  <2> HIDE DEF ent
  <2>2. QED
    BY <2>1, <1>3, LoadKeeps DEF Holding, Reviewed
<1>5. ASSUME PublishPost(p) PROVE Keeps(p)
  <2> DEFINE x == req[p].x
             ent == [tab[x] EXCEPT !.stamped = TRUE]
  <2>1. FoundPost(p, "publishPost") /\ LookUp(p, "save", "publishPost", x, ent, Null)
    BY <1>5 DEF PublishPost, Hold
  <2> HIDE DEF ent
  <2>2. QED
    BY <2>1, <1>3, LoadKeeps DEF Holding, Reviewed
<1>6. ASSUME RemovePost(p) PROVE Keeps(p)
  BY <1>6, <1>3, FoundKeeps DEF RemovePost
<1>7. ASSUME LeavePost(p) PROVE Keeps(p)
  BY <1>7, EndKeeps DEF LeavePost, Reads
<1>8. QED
  BY <1>1, <1>2, <1>4, <1>5, <1>6, <1>7

LEMMA CampaignKeeps ==
    ASSUME IInv, OpServed, NEW p \in Procs, CampaignNext(p)
    PROVE  Keeps(p)
BY PositionKeeps, CandidacyKeeps, PaymentKeeps, ProgramKeeps, PostKeeps DEF CampaignNext

LEMMA CategoryKeeps ==
    ASSUME IInv, OpServed, NEW p \in Procs,
           \/ CreateCategory(p) \/ FindCategory(p)
           \/ \E x \in Ids, active \in BOOLEAN : UpdateCategory(p, x, active)
           \/ \E x \in Ids : RemoveCategory(p, x)
    PROVE  Keeps(p)
<1>1. ASSUME CreateCategory(p) PROVE Keeps(p)
  <2>1. /\ "createCategory" \in serves[p]
        /\ LookUp(p, "insert", "createCategory", Null, NewCategory, Null)
    BY <1>1 DEF CreateCategory, Accepts, Hold
  <2>2. ~NewCategory.rejected
    BY DEF NewCategory, Blank
  <2>3. QED
    BY <2>1, <2>2, FreshKeeps DEF Making, Served, Request
<1>2. ASSUME FindCategory(p) PROVE Keeps(p)
  BY <1>2, GoOnKeeps DEF FindCategory, At, Making
<1>3. ASSUME NEW x \in Ids, NEW active \in BOOLEAN, UpdateCategory(p, x, active)
      PROVE  Keeps(p)
  <2> DEFINE ent == [tab[x] EXCEPT !.active = active]
  <2>1. /\ Live("action_categories", x)
        /\ "updateCategory" \in serves[p]
        /\ LookUp(p, "save", "updateCategory", x, ent, Null)
    BY <1>3 DEF UpdateCategory, Accepts, Hold
  <2> HIDE DEF ent
  <2>2. QED
    BY <2>1, LoadKeeps DEF Holding, Reviewed
<1>4. ASSUME NEW x \in Ids, RemoveCategory(p, x) PROVE Keeps(p)
  BY <1>4, LiveFacts, FoundKeeps DEF RemoveCategory, Accepts
<1>5. QED
  BY <1>1, <1>2, <1>3, <1>4

LEMMA AchievementKeeps ==
    ASSUME IInv, OpServed, NEW p \in Procs,
           \/ \E x \in Ids, category \in Ids, text \in Texts :
                 CreateAchievement(p, x, category, text)
           \/ \E x \in Ids, text \in Texts : UpdateAchievement(p, x, text)
           \/ \E x \in Ids : \/ WithdrawAchievement(p, x)
                             \/ ApproveAchievement(p, x)
                             \/ RejectAchievement(p, x)
           \/ AssertOwnCandidacy(p)
    PROVE  Keeps(p)
<1>1. ASSUME NEW x \in Ids, NEW category \in Ids, NEW text \in Texts,
             CreateAchievement(p, x, category, text)
      PROVE  Keeps(p)
  <2>1. /\ "createAchievement" \in serves[p]
        /\ LookUp(p, "findCategory", "createAchievement", Null, NewAchievement(x, text),
                  category)
    BY <1>1 DEF CreateAchievement, Accepts
  <2>2. ~NewAchievement(x, text).rejected
    BY DEF NewAchievement, Blank
  <2>3. QED
    BY <2>1, <2>2, FreshKeeps DEF Making, Served, Request
<1>2. ASSUME NEW x \in Ids, NEW text \in Texts, UpdateAchievement(p, x, text)
      PROVE  Keeps(p)
  <2> DEFINE ent == [tab[x] EXCEPT !.text = text]
  <2>1. /\ Live("achievements", x)
        /\ "updateAchievement" \in serves[p]
        /\ LookUp(p, "assertOwnCandidacy", "updateAchievement", x, ent, tab[x].ref)
    BY <1>2 DEF UpdateAchievement, Accepts
  <2> HIDE DEF ent
  <2>2. QED
    BY <2>1, LoadKeeps DEF Holding, Saving
<1>3. ASSUME NEW x \in Ids, WithdrawAchievement(p, x) PROVE Keeps(p)
  <2>1. /\ Live("achievements", x)
        /\ "withdrawAchievement" \in serves[p]
        /\ LookUp(p, "assertOwnCandidacy", "withdrawAchievement", x, tab[x], tab[x].ref)
    BY <1>3 DEF WithdrawAchievement, Accepts
  <2>2. QED
    BY <2>1, LoadKeeps DEF Holding, Saving
<1>4. ASSUME AssertOwnCandidacy(p) PROVE Keeps(p)
  <2>1. /\ At(p, "assertOwnCandidacy")
        /\ GoOnIf(p, Live("candidacies", req[p].to) /\ NotTreated(req[p].ent),
                  IF req[p].op = "updateAchievement" THEN "save" ELSE "softDelete")
    BY <1>4 DEF AssertOwnCandidacy
  <2>2. QED
    BY <2>1, GoOnKeeps DEF At, Holding, NotTreated
<1>5. ASSUME NEW x \in Ids, ApproveAchievement(p, x) PROVE Keeps(p)
  BY <1>5, DecideKeeps DEF ApproveAchievement, NotTreated, Accepts, Hold, Reviews, Reviewed
<1>6. ASSUME NEW x \in Ids, RejectAchievement(p, x) PROVE Keeps(p)
  BY <1>6, DecideKeeps DEF RejectAchievement, NotTreated, Accepts, Hold, Reviews, Reviewed
<1>7. QED
  BY <1>1, <1>2, <1>3, <1>4, <1>5, <1>6

LEMMA ContestationKeeps ==
    ASSUME IInv, OpServed, NEW p \in Procs, NEW x \in Ids, Contest(p, x) \/ Resolve(p, x)
    PROVE  Keeps(p)
<1>1. ASSUME Contest(p, x) PROVE Keeps(p)
  <2>1. /\ "contest" \in serves[p]
        /\ LookUp(p, "insert", "contest", Null, NewContestation(x), Null)
    BY <1>1 DEF Contest, Accepts, Hold
  <2>2. ~NewContestation(x).rejected
    BY DEF NewContestation, Blank
  <2>3. QED
    BY <2>1, <2>2, FreshKeeps DEF Making, Served, Request
<1>2. ASSUME Resolve(p, x) PROVE Keeps(p)
  <2> DEFINE ent == [tab[x] EXCEPT !.stamped = TRUE]
  <2>1. /\ Live("contestations", x)
        /\ "resolve" \in serves[p]
        /\ LookUp(p, "save", "resolve", x, ent, Null)
    BY <1>2 DEF Resolve, Accepts, Hold
  <2> HIDE DEF ent
  <2>2. QED
    BY <2>1, LoadKeeps DEF Holding, Reviewed
<1>3. QED
  BY <1>1, <1>2

LEMMA QuestionKeeps ==
    ASSUME IInv, OpServed, NEW p \in Procs,
           \/ \E x \in Ids : Ask(p, x) \/ Answer(p, x) \/ Hide(p, x)
           \/ \E text \in Texts : FindQuestion(p, text)
    PROVE  Keeps(p)
<1>1. ASSUME NEW x \in Ids, Ask(p, x) PROVE Keeps(p)
  <2>1. /\ "ask" \in serves[p]
        /\ LookUp(p, "insert", "ask", Null, NewQuestion(x), Null)
    BY <1>1 DEF Ask, Accepts, Hold
  <2>2. ~NewQuestion(x).rejected
    BY DEF NewQuestion, Blank
  <2>3. QED
    BY <2>1, <2>2, FreshKeeps DEF Making, Served, Request
<1>2. ASSUME NEW x \in Ids, Answer(p, x) PROVE Keeps(p)
  BY <1>2, FoundKeeps DEF Answer, Accepts
<1>3. ASSUME NEW text \in Texts, FindQuestion(p, text) PROVE Keeps(p)
  <2> DEFINE x == req[p].x
             ent == [tab[x] EXCEPT !.text = text]
  <2>1. /\ Live("questions", x)
        /\ "answer" \in serves[p]
        /\ LookUp(p, "save", "answer", x, ent, Null)
    BY <1>3 DEF FindQuestion, OpServed, Served, At, Hold
  <2> HIDE DEF ent
  <2>2. QED
    BY <2>1, LoadKeeps DEF Holding, Reviewed
<1>4. ASSUME NEW x \in Ids, Hide(p, x) PROVE Keeps(p)
  <2> DEFINE ent == [tab[x] EXCEPT !.stamped = TRUE]
  <2>1. /\ Live("questions", x)
        /\ "hide" \in serves[p]
        /\ LookUp(p, "save", "hide", x, ent, Null)
    BY <1>4 DEF Hide, Accepts, Hold
  <2> HIDE DEF ent
  <2>2. QED
    BY <2>1, LoadKeeps DEF Holding, Reviewed
<1>5. QED
  BY <1>1, <1>2, <1>3, <1>4

LEMMA OversightKeeps ==
    ASSUME IInv, OpServed, NEW p \in Procs, OversightNext(p)
    PROVE  Keeps(p)
BY CategoryKeeps, AchievementKeeps, ContestationKeeps, QuestionKeeps DEF OversightNext

LEMMA SponsorKeeps ==
    ASSUME IInv, OpServed, NEW p \in Procs, SponsorNext(p)
    PROVE  Keeps(p)
<1>1. ASSUME NEW text \in Texts, SubmitSponsor(p, text) PROVE Keeps(p)
  <2>1. /\ "submitSponsor" \in serves[p]
        /\ LookUp(p, "insert", "submitSponsor", Null, NewSponsor(text), Null)
    BY <1>1 DEF SubmitSponsor, Accepts, Hold
  <2>2. ~NewSponsor(text).rejected
    BY DEF NewSponsor, Blank
  <2>3. QED
    BY <2>1, <2>2, FreshKeeps DEF Making, Served, Request
<1>2. ASSUME NEW text \in Texts, SubmitSponsorByAdmin(p, text) PROVE Keeps(p)
  <2> DEFINE ent == [NewSponsor(text) EXCEPT !.approved = TRUE]
  <2>1. /\ "submitSponsorByAdmin" \in serves[p]
        /\ LookUp(p, "insert", "submitSponsorByAdmin", Null, ent, Null)
    BY <1>2 DEF SubmitSponsorByAdmin, Accepts, Hold
  <2>2. ~ent.rejected
    BY DEF NewSponsor, Blank
  <2> HIDE DEF ent
  <2>3. QED
    BY <2>1, <2>2, FreshKeeps DEF Making, Served, Request
<1>3. ASSUME NEW x, NEW op \in {"updateSponsor", "uploadLogo"}, op \in serves[p],
             NEW ent, NEW active, NEW text, ent \in {tab[x], Edited(tab[x], active, text)},
             Live("sponsors", x), LookUp(p, "save", op, x, ent, Null)
      PROVE  Keeps(p)
  <2>1. /\ x \in Ids
        /\ tab[x] \in Row
        /\ tab[x].table = "sponsors"
    BY <1>3, LiveFacts
  <2>2. /\ "rejected" \in DOMAIN ent
        /\ ent.approved = tab[x].approved
        /\ ent.rejected = tab[x].rejected
    BY <1>3, <2>1 DEF Edited, Row
  <2>3. NeverBoth(tab) => ~(tab[x].approved /\ tab[x].rejected)
    BY <2>1, LiveFacts DEF NeverBoth, Reviewed
  <2>4. ASSUME NeverBoth(tab)
        PROVE  /\ ent.approved => ~ent.rejected /\ ~tab[x].rejected
               /\ ent.rejected => ~tab[x].approved
    BY <2>2, <2>3, <2>4
  <2>5. op \in Reviewing
    BY DEF Reviewing
  <2>6. QED
    BY <1>3, <2>2, <2>4, <2>5, LoadKeeps DEF Holding
<1>4. ASSUME NEW x \in Ids, NEW active \in BOOLEAN, NEW text \in Texts,
             UpdateSponsor(p, x, active, text)
      PROVE  Keeps(p)
  BY <1>3, <1>4 DEF UpdateSponsor, Accepts, Hold
<1>5. ASSUME NEW x \in Ids, UploadLogo(p, x) PROVE Keeps(p)
  BY <1>3, <1>5 DEF UploadLogo, Accepts, Hold
<1>6. ASSUME NEW x \in Ids, ApproveSponsor(p, x) PROVE Keeps(p)
  BY <1>6, DecideKeeps DEF ApproveSponsor, Waiting, Accepts, Hold, Reviews, Reviewed
<1>7. ASSUME NEW x \in Ids, RejectSponsor(p, x) PROVE Keeps(p)
  BY <1>7, DecideKeeps DEF RejectSponsor, Waiting, Accepts, Hold, Reviews, Reviewed
<1>8. ASSUME NEW x \in Ids, RemoveSponsor(p, x) PROVE Keeps(p)
  BY <1>8, LiveFacts, FoundKeeps DEF RemoveSponsor, Accepts
<1>9. QED
  BY <1>1, <1>2, <1>4, <1>5, <1>6, <1>7, <1>8 DEF SponsorNext

LEMMA JurisdictionKeeps ==
    ASSUME IInv, OpServed, NEW p \in Procs,
           \/ \E parent \in Ids \cup {Null} : CreateJurisdiction(p, parent)
           \/ FindParent(p)
           \/ \E x \in Ids, parent \in Ids \cup {Null} : UpdateJurisdiction(p, x, parent)
           \/ \E x \in Ids : RemoveJurisdiction(p, x)
           \/ CountLinked(p) \/ CountChildren(p)
    PROVE  Keeps(p)
<1>1. ASSUME NEW parent \in Ids \cup {Null}, CreateJurisdiction(p, parent) PROVE Keeps(p)
  <2>1. PICK pc \in {"insert", "findParent"} :
           LookUp(p, pc, "createJurisdiction", Null, NewJurisdiction(parent), parent)
    BY <1>1 DEF CreateJurisdiction, Hold
  <2>2. "createJurisdiction" \in serves[p]
    BY <1>1 DEF CreateJurisdiction, Accepts
  <2>3. ~NewJurisdiction(parent).rejected
    BY DEF NewJurisdiction, Blank
  <2>4. QED
    BY <2>1, <2>2, <2>3, FreshKeeps DEF Making, Served, Request
<1>2. ASSUME FindParent(p) PROVE Keeps(p)
  BY <1>2, GoOnKeeps DEF FindParent, At, Making
<1>3. ASSUME NEW x \in Ids, NEW parent \in Ids \cup {Null}, UpdateJurisdiction(p, x, parent)
      PROVE  Keeps(p)
  <2>1. PICK ent \in {tab[x], [tab[x] EXCEPT !.ref = parent]} :
           LookUp(p, "save", "updateJurisdiction", x, ent, Null)
    BY <1>3 DEF UpdateJurisdiction, Hold
  <2>2. Live("jurisdictions", x) /\ "updateJurisdiction" \in serves[p]
    BY <1>3 DEF UpdateJurisdiction, Accepts
  <2>3. QED
    BY <2>1, <2>2, LoadKeeps DEF Holding, Reviewed
<1>4. ASSUME NEW x \in Ids, RemoveJurisdiction(p, x) PROVE Keeps(p)
  BY <1>4, FoundKeeps DEF RemoveJurisdiction, Accepts
<1>5. ASSUME CountLinked(p) PROVE Keeps(p)
  BY <1>5, GoOnKeeps DEF CountLinked, At
<1>6. ASSUME CountChildren(p) PROVE Keeps(p)
  BY <1>6, GoOnKeeps DEF CountChildren, At
<1>7. QED
  BY <1>1, <1>2, <1>3, <1>4, <1>5, <1>6

LEMMA UniversityKeeps ==
    ASSUME IInv, OpServed, NEW p \in Procs,
           \/ \E j \in Ids \cup {Null} : CreateUniversity(p, j)
           \/ AssertJurisdictionExists(p)
           \/ \E x \in Ids, j \in Ids \cup {Null} : UpdateUniversity(p, x, j)
           \/ \E x \in Ids : RemoveUniversity(p, x)
    PROVE  Keeps(p)
<1>1. ASSUME NEW j \in Ids \cup {Null}, CreateUniversity(p, j) PROVE Keeps(p)
  <2>1. PICK pc \in {"insert", "assertJurisdictionExists"} :
           LookUp(p, pc, "createUniversity", Null, NewUniversity(j), j)
    BY <1>1 DEF CreateUniversity, Hold
  <2>2. "createUniversity" \in serves[p]
    BY <1>1 DEF CreateUniversity, Accepts
  <2>3. ~NewUniversity(j).rejected
    BY DEF NewUniversity, Blank
  <2>4. QED
    BY <2>1, <2>2, <2>3, FreshKeeps DEF Making, Served, Request
<1>2. ASSUME AssertJurisdictionExists(p) PROVE Keeps(p)
  BY <1>2, GoOnKeeps DEF AssertJurisdictionExists, At, Holding
<1>3. ASSUME NEW x \in Ids, NEW j \in Ids \cup {Null}, UpdateUniversity(p, x, j)
      PROVE  Keeps(p)
  <2>1. PICK ent \in {tab[x], [tab[x] EXCEPT !.ref = j]},
             pc \in {"save", "assertJurisdictionExists"} :
           LookUp(p, pc, "updateUniversity", x, ent, j)
    BY <1>3 DEF UpdateUniversity, Hold
  <2>2. Live("universities", x) /\ "updateUniversity" \in serves[p]
    BY <1>3 DEF UpdateUniversity, Accepts
  <2>3. QED
    BY <2>1, <2>2, LoadKeeps DEF Holding, Reviewed
<1>4. ASSUME NEW x \in Ids, RemoveUniversity(p, x) PROVE Keeps(p)
  BY <1>4, LiveFacts, FoundKeeps DEF RemoveUniversity, Accepts
<1>5. QED
  BY <1>1, <1>2, <1>3, <1>4

LEMMA ConditionKeeps ==
    ASSUME IInv, OpServed, NEW p \in Procs, NEW x \in Ids,
           \/ \E active \in BOOLEAN : UpdateCondition(p, x, active)
           \/ CreateCondition(p, x) \/ RemoveCondition(p, x)
           \/ CreateElection(p, x) \/ RemoveElection(p, x)
    PROVE  Keeps(p)
<1>1. ASSUME NEW active \in BOOLEAN, UpdateCondition(p, x, active) PROVE Keeps(p)
  <2> DEFINE ent == [tab[x] EXCEPT !.active = active]
  <2>1. /\ Live("conditions", x)
        /\ "updateCondition" \in serves[p]
        /\ LookUp(p, "save", "updateCondition", x, ent, Null)
    BY <1>1 DEF UpdateCondition, Accepts, Hold
  <2> HIDE DEF ent
  <2>2. QED
    BY <2>1, LoadKeeps DEF Holding, Reviewed
<1>2. ASSUME CreateCondition(p, x) PROVE Keeps(p)
  <2>1. /\ "createCondition" \in serves[p]
        /\ LookUp(p, "insert", "createCondition", Null, NewCondition(x), Null)
    BY <1>2 DEF CreateCondition, Accepts, Hold
  <2>2. ~NewCondition(x).rejected
    BY DEF NewCondition, Blank
  <2>3. QED
    BY <2>1, <2>2, FreshKeeps DEF Making, Served, Request
<1>3. ASSUME CreateElection(p, x) PROVE Keeps(p)
  <2>1. /\ "createElection" \in serves[p]
        /\ LookUp(p, "insert", "createElection", Null, NewElection(x), Null)
    BY <1>3 DEF CreateElection, Accepts, Hold
  <2>2. ~NewElection(x).rejected
    BY DEF NewElection, Blank
  <2>3. QED
    BY <2>1, <2>2, FreshKeeps DEF Making, Served, Request
<1>4. ASSUME RemoveCondition(p, x) PROVE Keeps(p)
  BY <1>4, LiveFacts, FoundKeeps DEF RemoveCondition, Accepts
<1>5. ASSUME RemoveElection(p, x) PROVE Keeps(p)
  BY <1>5, LiveFacts, FoundKeeps DEF RemoveElection, Accepts
<1>6. QED
  BY <1>1, <1>2, <1>3, <1>4, <1>5

LEMMA CatalogueKeeps ==
    ASSUME IInv, OpServed, NEW p \in Procs, CatalogueNext(p)
    PROVE  Keeps(p)
BY JurisdictionKeeps, UniversityKeeps, ConditionKeeps DEF CatalogueNext

\* save()'s SELECT, and what ends a request without a statement.
LEMMA SelectKeeps ==
    ASSUME IInv, OpServed, NEW p \in Procs, Save(p)
    PROVE  Keeps(p)
<1>1. At(p, "save") /\ Reads
  BY DEF Save
<1>2. CASE Finish(p)
  BY <1>1, <1>2, EndKeeps DEF Reads
<1>3. ASSUME NEW r, req' = [req EXCEPT ![p] = r], r.pc \in {"write", "record"},
             r.op = req[p].op, r.x = req[p].x, r.ent = req[p].ent
      PROVE  Keeps(p)
  BY <1>1, <1>3, OnKeeps DEF At, Reads, Middle, Making, Holding, Saving
<1>4. CASE Goto(p, "record", req[p])
  BY <1>3, <1>4, Moved
<1>5. ASSUME NEW cols, Goto(p, "write", [req[p] EXCEPT !.cols = cols]) PROVE Keeps(p)
  <2> DEFINE r == [[req[p] EXCEPT !.cols = cols] EXCEPT !.pc = "write"]
  <2>1. req' = [req EXCEPT ![p] = r]
    BY <1>5 DEF Goto
  <2>2. DOMAIN req[p] = DOMAIN Idle
    BY DEF IInv, TypeOK, IsRequest
  <2>3. r.pc = "write" /\ r.op = req[p].op /\ r.x = req[p].x /\ r.ent = req[p].ent
    BY <2>2 DEF Idle, Request
  <2> HIDE DEF r
  <2>4. QED
    BY <1>3, <2>1, <2>3
<1>6. QED
  BY <1>2, <1>4, <1>5 DEF Save, Saved

LEMMA ReadKeeps ==
    ASSUME IInv, OpServed, NEW p \in Procs,
           \/ CampaignNext(p) \/ OversightNext(p) \/ SponsorNext(p) \/ CatalogueNext(p)
           \/ Save(p) \/ Record(p) \/ Abort(p)
    PROVE  Keeps(p)
BY CampaignKeeps, OversightKeeps, SponsorKeeps, CatalogueKeeps, SelectKeeps, EndKeeps
DEF Record, Abort

-----------------------------------------------------------------------------
(***************************************************************************)
(* The statements that change a row.                                       *)
(***************************************************************************)
LEMMA RequestEnds ==
    ASSUME IInv, OpServed, NEW p \in Procs, Insert(p) \/ Write(p) \/ SoftDelete(p)
    PROVE  /\ UNCHANGED serves
           /\ \A q \in Procs \ {p} : req'[q] = req[q]
           /\ Served(p, req'[p])
           /\ req'[p].pc \in {"idle", "record"}
<1>1. CASE Finish(p)
  <2>1. req'[p] = Idle /\ \A q \in Procs \ {p} : req'[q] = req[q]
    BY <1>1 DEF Finish, IInv, TypeOK
  <2>2. QED
    BY <2>1 DEF Served, Idle, Request, Insert, Write, SoftDelete
<1>2. CASE Goto(p, "record", req[p]) /\ Write(p)
  <2>1. PICK r : /\ req' = [req EXCEPT ![p] = r]
                 /\ r.pc = "record"
                 /\ r.op = req[p].op
    BY <1>2, Moved
  <2>2. req'[p] = r /\ \A q \in Procs \ {p} : req'[q] = req[q]
    BY <2>1 DEF IInv, TypeOK
  <2>3. QED
    BY <1>2, <2>1, <2>2 DEF Served, OpServed, Write, At
<1>3. QED
  BY <1>1, <1>2 DEF Insert, Write, SoftDelete, Saved

\* The one row that a statement changes, and how.
LEMMA RowChanges ==
    ASSUME IInv, NEW p \in Procs, Insert(p) \/ Write(p) \/ SoftDelete(p),
           NEW x \in Ids, tab'[x] # tab[x]
    PROVE  \/ /\ tab[x] = Null
              /\ req[p].pc = "insert"
              /\ req[p].x = Null
              /\ tab'[x] = req[p].ent
           \/ /\ tab[x] # Null
              /\ req[p].pc = "write"
              /\ req[p].x = x
              /\ tab'[x] = Written(tab[x], req[p].ent, req[p].cols)
           \/ /\ tab[x] # Null
              /\ req[p].pc = "softDelete"
              /\ req[p].x = x
              /\ tab'[x] = [tab[x] EXCEPT !.deleted = TRUE]
<1>1. RowKnown(req[p])
  BY DEF IInv, Known
<1>2. CASE Insert(p)
  BY <1>1, <1>2 DEF Insert, At, IInv, TypeOK, RowKnown, Making
<1>3. CASE Write(p)
  BY <1>1, <1>3 DEF Write, At, IInv, TypeOK, RowKnown, OnRow
<1>4. CASE SoftDelete(p)
  BY <1>1, <1>4 DEF SoftDelete, At, IInv, TypeOK, RowKnown, OnRow
<1>5. QED
  BY <1>2, <1>3, <1>4

\* The columns of an UPDATE that the invariants look at.
LEMMA WrittenColumns ==
    ASSUME IInv, NEW p \in Procs, req[p].pc = "write", NEW x \in Ids, req[p].x = x,
           NEW row, row = Written(tab[x], req[p].ent, req[p].cols)
    PROVE  /\ row \in Row
           /\ row.table = tab[x].table
           /\ req[p].ent.table = tab[x].table
           /\ row.approved => tab[x].approved \/ req[p].ent.approved
           /\ row.rejected => \/ tab[x].rejected
                              \/ "rejected" \in DOMAIN req[p].ent /\ req[p].ent.rejected
           /\ row.deleted => tab[x].deleted \/ req[p].ent.deleted
<1>1. Known(req[p])
  BY DEF IInv
<1>2. /\ tab[x] \in Row
      /\ IsEntity(req[p].ent)
      /\ req[p].ent.table = tab[x].table
      /\ req[p].cols \subseteq DOMAIN req[p].ent
  BY <1>1 DEF Known, EntityKnown, RowKnown, Holding, IInv, TypeOK
<1>3. row \in Row
  BY <1>2 DEF Written, Row, IsEntity, Columns
<1>4. /\ row.table = tab[x].table
      /\ row.approved => tab[x].approved \/ req[p].ent.approved
      /\ row.deleted => tab[x].deleted \/ req[p].ent.deleted
  BY <1>2 DEF Written, Row
<1>5. row.rejected => \/ tab[x].rejected
                      \/ "rejected" \in DOMAIN req[p].ent /\ req[p].ent.rejected
  BY <1>2 DEF Written, Row
<1>6. QED
  BY <1>2, <1>3, <1>4, <1>5

\* No row changes tables.
LEMMA SameTable ==
    ASSUME IInv, NEW p \in Procs, Insert(p) \/ Write(p) \/ SoftDelete(p),
           NEW x \in Ids, tab[x] # Null
    PROVE  tab'[x] # Null /\ tab'[x].table = tab[x].table
<1>1. tab[x] \in Row
  BY DEF IInv, TypeOK
<1>2. CASE tab'[x] = tab[x]
  BY <1>2
<1>3. ASSUME req[p].pc = "write", req[p].x = x,
             tab'[x] = Written(tab[x], req[p].ent, req[p].cols)
      PROVE  tab'[x] # Null /\ tab'[x].table = tab[x].table
  BY <1>3, WrittenColumns
<1>4. ASSUME tab'[x] = [tab[x] EXCEPT !.deleted = TRUE]
      PROVE  tab'[x] # Null /\ tab'[x].table = tab[x].table
  BY <1>1, <1>4 DEF Row
<1>5. QED
  BY <1>2, <1>3, <1>4, RowChanges

-----------------------------------------------------------------------------
(***************************************************************************)
(* One reviewer: a row has one decision.                                   *)
(***************************************************************************)
ReviewInv == NeverBoth(tab) /\ \A p \in Procs : ReviewKnown(req[p])

\* What is no reviewer's sets no date.
LEMMA OthersDecideNothing ==
    ASSUME IInv, ReviewInv, NEW p \in Procs, Insert(p) \/ Write(p) \/ SoftDelete(p),
           req[p].op \notin Reviewing,
           NEW x \in Ids, tab[x] # Null, tab[x].table \in Reviewed
    PROVE  /\ tab'[x].approved => tab[x].approved
           /\ tab'[x].rejected => tab[x].rejected
<1>1. CASE tab'[x] = tab[x]
  BY <1>1
<1>2. ASSUME req[p].pc = "write", req[p].x = x,
             tab'[x] = Written(tab[x], req[p].ent, req[p].cols)
      PROVE  /\ tab'[x].approved => tab[x].approved
             /\ tab'[x].rejected => tab[x].rejected
  <2>1. ReviewSafe(req[p])
    BY <1>2 DEF ReviewInv, ReviewKnown, Saving, Holding
  <2>2. /\ ~req[p].ent.approved
        /\ "rejected" \in DOMAIN req[p].ent => ~req[p].ent.rejected
    BY <2>1 DEF ReviewSafe
  <2>3. QED
    BY <1>2, <2>2, WrittenColumns
<1>3. ASSUME tab'[x] = [tab[x] EXCEPT !.deleted = TRUE]
      PROVE  /\ tab'[x].approved => tab[x].approved
             /\ tab'[x].rejected => tab[x].rejected
  BY <1>3 DEF IInv, TypeOK, Row
<1>4. QED
  BY <1>1, <1>2, <1>3, RowChanges

LEMMA ReviewsStay ==
    ASSUME OneClient(serves, Reviewing), IInv, OpServed, ReviewInv,
           NEW p \in Procs, Insert(p) \/ Write(p) \/ SoftDelete(p),
           NEW q \in Procs
    PROVE  ReviewKnown(req[q])'
<1>1. CASE q = p
  <2>1. req'[q].pc \in {"idle", "record"}
    BY <1>1, RequestEnds
  <2>2. QED
    BY <2>1 DEF ReviewKnown, Making, Saving, Holding
<1>2. CASE q # p
  <2>1. req'[q] = req[q] /\ ReviewKnown(req[q])
    BY <1>2, RequestEnds DEF ReviewInv
  <2>2. ASSUME req[q].pc \in Saving, req[q].x \in Ids, tab'[req[q].x].table \in Reviewed
        PROVE  ReviewSafe(req[q])'
    <3> DEFINE x == req[q].x
    <3>1. tab[x] # Null /\ tab[x].table \in Reviewed
      BY <2>2, SameTable DEF IInv, Known, RowKnown
    <3>2. ReviewSafe(req[q])
      BY <2>1, <2>2, <3>1 DEF ReviewKnown
    <3>3. CASE req[q].op \notin Reviewing
      BY <2>1, <3>2, <3>3 DEF ReviewSafe
    <3>4. CASE req[q].op \in Reviewing
      <4>1. req[q].op \in serves[q] \cap Reviewing
        BY <2>2, <3>4 DEF OpServed, Served, Saving, Holding
      <4>2. req[p].op \in serves[p]
        BY DEF OpServed, Served, Insert, Write, SoftDelete, At
      <4>3. req[p].op \notin Reviewing
        BY <1>2, <4>1, <4>2 DEF OneClient
      <4>4. /\ tab'[x].approved => tab[x].approved
            /\ tab'[x].rejected => tab[x].rejected
        BY <2>2, <3>1, <4>3, OthersDecideNothing
      <4>5. QED
        BY <2>1, <3>2, <4>4 DEF ReviewSafe
    <3>5. QED
      BY <3>3, <3>4
  <2>3. QED
    BY <2>1, <2>2 DEF ReviewKnown
<1>3. QED
  BY <1>1, <1>2

LEMMA NeverBothStays ==
    ASSUME IInv, ReviewInv, NEW p \in Procs, Insert(p) \/ Write(p) \/ SoftDelete(p)
    PROVE  NeverBoth(tab')
<1> SUFFICES ASSUME NEW x \in Ids, tab'[x] # Null, tab'[x].table \in Reviewed
             PROVE  ~(tab'[x].approved /\ tab'[x].rejected)
  BY DEF NeverBoth
<1>1. CASE tab'[x] = tab[x]
  BY <1>1 DEF ReviewInv, NeverBoth
<1>2. ASSUME req[p].pc = "insert", req[p].x = Null, tab'[x] = req[p].ent
      PROVE  ~(tab'[x].approved /\ tab'[x].rejected)
  BY <1>2 DEF ReviewInv, ReviewKnown, Making
<1>3. ASSUME tab[x] # Null, req[p].pc = "write", req[p].x = x,
             tab'[x] = Written(tab[x], req[p].ent, req[p].cols)
      PROVE  ~(tab'[x].approved /\ tab'[x].rejected)
  <2>1. tab[x].table \in Reviewed
    BY <1>3, WrittenColumns
  <2>2. ~(tab[x].approved /\ tab[x].rejected)
    BY <1>3, <2>1 DEF ReviewInv, NeverBoth
  <2>3. ReviewSafe(req[p])
    BY <1>3, <2>1 DEF ReviewInv, ReviewKnown, Saving, Holding
  <2>4. /\ tab'[x].approved => tab[x].approved \/ req[p].ent.approved
        /\ tab'[x].rejected => \/ tab[x].rejected
                               \/ "rejected" \in DOMAIN req[p].ent /\ req[p].ent.rejected
    BY <1>3, WrittenColumns
  <2>5. QED
    BY <1>3, <2>2, <2>3, <2>4 DEF ReviewSafe
<1>4. ASSUME tab[x] # Null, tab'[x] = [tab[x] EXCEPT !.deleted = TRUE]
      PROVE  ~(tab'[x].approved /\ tab'[x].rejected)
  <2>1. /\ tab'[x].approved = tab[x].approved
        /\ tab'[x].rejected = tab[x].rejected
        /\ tab'[x].table = tab[x].table
    BY <1>4 DEF IInv, TypeOK, Row
  <2>2. QED
    BY <1>4, <2>1 DEF ReviewInv, NeverBoth
<1>5. QED
  BY <1>1, <1>2, <1>3, <1>4, RowChanges

\* A step that reads leaves every request as knowing as it was.
LEMMA ReadStays ==
    ASSUME ReviewInv, NEW p \in Procs, Keeps(p)
    PROVE  ReviewInv'
<1>1. ASSUME NEW q \in Procs PROVE ReviewKnown(req[q])'
  <2>1. ReviewKnown(req'[q])
    BY DEF Keeps, ReviewInv
  <2>2. QED
    BY <2>1 DEF Keeps, ReviewKnown, ReviewSafe
<1>2. NeverBoth(tab')
  BY DEF Keeps, ReviewInv
<1>3. QED
  BY <1>1, <1>2 DEF ReviewInv

LEMMA ServedStays ==
    ASSUME IInv, OpServed, [Next]_vars
    PROVE  OpServed' /\ UNCHANGED serves
<1>1. ASSUME NEW p \in Procs, Served(p, req'[p]), UNCHANGED serves,
             \A q \in Procs \ {p} : req'[q] = req[q]
      PROVE  OpServed'
  BY <1>1 DEF OpServed, Served
<1>2. ASSUME NEW p \in Procs, Insert(p) \/ Write(p) \/ SoftDelete(p)
      PROVE  OpServed' /\ UNCHANGED serves
  BY <1>1, <1>2, RequestEnds
<1>3. ASSUME NEW p \in Procs,
             \/ CampaignNext(p) \/ OversightNext(p) \/ SponsorNext(p) \/ CatalogueNext(p)
             \/ Save(p) \/ Record(p) \/ Abort(p)
      PROVE  OpServed' /\ UNCHANGED serves
  BY <1>1, <1>3, ReadKeeps DEF Keeps
<1>4. CASE UNCHANGED vars
  BY <1>4 DEF vars, OpServed, Served
<1>5. QED
  BY <1>2, <1>3, <1>4 DEF Next

LEMMA ReviewInvStays ==
    ASSUME OneClient(serves, Reviewing), IInv, OpServed, ReviewInv, [Next]_vars
    PROVE  ReviewInv'
<1>1. ASSUME NEW p \in Procs, Insert(p) \/ Write(p) \/ SoftDelete(p)
      PROVE  ReviewInv'
  <2>1. \A q \in Procs : ReviewKnown(req[q])'
    BY <1>1, ReviewsStay
  <2>2. NeverBoth(tab')
    BY <1>1, NeverBothStays
  <2>3. QED
    BY <2>1, <2>2 DEF ReviewInv
<1>2. ASSUME NEW p \in Procs,
             \/ CampaignNext(p) \/ OversightNext(p) \/ SponsorNext(p) \/ CatalogueNext(p)
             \/ Save(p) \/ Record(p) \/ Abort(p)
      PROVE  ReviewInv'
  BY <1>2, ReadKeeps, ReadStays
<1>3. CASE UNCHANGED vars
  BY <1>3 DEF vars, ReviewInv, ReviewKnown, ReviewSafe
<1>4. QED
  BY <1>1, <1>2, <1>3 DEF Next

LEMMA ServedInit == Init => OpServed
BY DEF Init, OpServed, Served, Idle, Request

\* Who is served, and that a row has one decision, is so at the start.
LEMMA ReviewInit ==
    ASSUME OneReviewer
    PROVE  Init => OneClient(serves, Reviewing) /\ ReviewInv
<1> SUFFICES ASSUME Init PROVE OneClient(serves, Reviewing) /\ ReviewInv
  OBVIOUS
<1>1. PICK s \in Starts : tab = s.tab /\ serves = s.serves
  BY DEF Init
<1>2. OneClient(serves, Reviewing) /\ NeverBoth(tab)
  BY <1>1 DEF OneReviewer
<1>3. \A p \in Procs : ReviewKnown(req[p])
  BY DEF Init, ReviewKnown, Idle, Request, Making, Saving, Holding
<1>4. QED
  BY <1>2, <1>3 DEF ReviewInv

\* Two filters that list the same row would need two decisions about it, and
\* every row without a decision is pending.
LEMMA OneStatus ==
    ASSUME IInv, NeverBoth(tab)
    PROVE  OneStatusEach
<1>1. ASSUME NEW x \in Ids, NEW table \in Reviewed, Live(table, x),
             NEW under \in SUBSET Statuses,
             "pending" \in under <=> ~tab[x].approved /\ ~tab[x].rejected,
             "approved" \in under <=> tab[x].approved,
             "rejected" \in under <=> tab[x].rejected
      PROVE  Cardinality(under) = 1
  <2>1. ~(tab[x].approved /\ tab[x].rejected)
    BY <1>1, LiveFacts DEF NeverBoth
  <2>2. \E s : under = {s}
    <3>1. CASE tab[x].approved
      <4>1. under = {"approved"}
        BY <1>1, <2>1, <3>1 DEF Statuses
      <4>2. QED
        BY <4>1
    <3>2. CASE tab[x].rejected
      <4>1. under = {"rejected"}
        BY <1>1, <2>1, <3>2 DEF Statuses
      <4>2. QED
        BY <4>1
    <3>3. CASE ~tab[x].approved /\ ~tab[x].rejected
      <4>1. under = {"pending"}
        BY <1>1, <3>3 DEF Statuses
      <4>2. QED
        BY <4>1
    <3>4. QED
      BY <3>1, <3>2, <3>3
  <2>3. QED
    BY <2>2, FS_Singleton
<1>2. ASSUME NEW x \in Ids, Live("candidacies", x)
      PROVE  Cardinality(Under(ListCandidacies, x)) = 1
  <2> DEFINE under == {s \in Statuses : x \in ListCandidacies(s)}
  <2>1. /\ "pending" \in under <=> ~tab[x].approved /\ ~tab[x].rejected
        /\ "approved" \in under <=> tab[x].approved
        /\ "rejected" \in under <=> tab[x].rejected
    BY <1>2 DEF ListCandidacies, Statuses, Pending
  <2>2. Cardinality(under) = 1
    <3> HIDE DEF under
    <3>1. under \in SUBSET Statuses
      BY DEF under
    <3>2. QED
      BY <1>1, <1>2, <2>1, <3>1 DEF Reviewed
  <2>3. QED
    BY <2>2 DEF Under
<1>3. ASSUME NEW x \in Ids, Live("achievements", x)
      PROVE  Cardinality(Under(ListAchievements, x)) = 1
  <2> DEFINE under == {s \in Statuses : x \in ListAchievements(s)}
  <2>1. /\ "pending" \in under <=> ~tab[x].approved /\ ~tab[x].rejected
        /\ "approved" \in under <=> tab[x].approved
        /\ "rejected" \in under <=> tab[x].rejected
    BY <1>3 DEF ListAchievements, Statuses, NotTreated
  <2>2. Cardinality(under) = 1
    <3> HIDE DEF under
    <3>1. under \in SUBSET Statuses
      BY DEF under
    <3>2. QED
      BY <1>1, <1>3, <2>1, <3>1 DEF Reviewed
  <2>3. QED
    BY <2>2 DEF Under
<1>4. ASSUME NEW x \in Ids, Live("sponsors", x)
      PROVE  Cardinality(Under(ListSponsors, x)) = 1
  <2> DEFINE under == {s \in Statuses : x \in ListSponsors(s)}
  <2>1. /\ "pending" \in under <=> ~tab[x].approved /\ ~tab[x].rejected
        /\ "approved" \in under <=> tab[x].approved
        /\ "rejected" \in under <=> tab[x].rejected
    BY <1>4 DEF ListSponsors, Statuses, Waiting
  <2>2. Cardinality(under) = 1
    <3> HIDE DEF under
    <3>1. under \in SUBSET Statuses
      BY DEF under
    <3>2. QED
      BY <1>1, <1>4, <2>1, <3>1 DEF Reviewed
  <2>3. QED
    BY <2>2 DEF Under
<1>5. PublicSponsors \cap ListSponsors("rejected") = {}
  BY LiveFacts DEF PublicSponsors, ListSponsors, NeverBoth, Reviewed
<1>6. \A x \in PublicPosts : tab[x].ref \notin ListCandidacies("rejected")
  BY DEF PublicPosts, ListCandidacies
<1>7. \A x \in Rows("candidacy_payments") : ~(tab[x].approved /\ tab[x].rejected)
  BY DEF Rows, NeverBoth, Reviewed
<1>8. QED
  BY <1>2, <1>3, <1>4, <1>5, <1>6, <1>7 DEF OneStatusEach

\* With one client for the reviews, every candidacy, achievement and sponsor is
\* under one status, no payment is accepted and refused, and nothing rejected
\* is public: the services look at one date at a time, and candidates save what
\* they read before a decision.
THEOREM OneStatusHolds ==
    ASSUME OneReviewer
    PROVE  Spec => []OneStatusEach
<1>1. Init => OneClient(serves, Reviewing) /\ OpServed /\ ReviewInv
  BY ReviewInit, ServedInit
<1>2. /\ IInv /\ OneClient(serves, Reviewing) /\ OpServed /\ ReviewInv
      /\ [Next]_vars
      => OneClient(serves, Reviewing)' /\ OpServed' /\ ReviewInv'
  BY ReviewInvStays, ServedStays DEF OneClient
<1>3. IInv /\ ReviewInv => OneStatusEach
  BY OneStatus DEF ReviewInv
<1>4. QED
  BY <1>1, <1>2, <1>3, Invariant, PTL DEF Spec

=============================================================================
