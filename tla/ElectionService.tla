-------------------------- MODULE ElectionService --------------------------
(***************************************************************************)
(* election.service.ts: creation, edition and life cycle of an election.   *)
(* Every handler but create and remove ends in electionRepo.save(election) *)
(* on the entity it loaded first (SaveElection, WriteElection).            *)
(***************************************************************************)
EXTENDS ScrutinData

\* A window with both ends set must be in order.
assertWindow(starts, ends) ==
    starts # Null /\ ends # Null => ends > starts

\* uq_election_year_jurisdiction; the index also counts soft-deleted rows.
ScopeTaken(s) == \E e \in Elections : elections[e] # Null /\ elections[e].scope = s

-----------------------------------------------------------------------------
(***************************************************************************)
(* create: no live election of that scope, a window in order, then INSERT. *)
(***************************************************************************)
Create(p, s, w) ==
    /\ Accepts(p, "create")
    /\ ~\E e \in Elections : FoundElection(e) /\ elections[e].scope = s
    /\ assertWindow(w.starts, w.ends)
    /\ Goto(p, "insertElection",
            [Idle EXCEPT !.ent = [scope |-> s, status |-> "draft",
                                  starts |-> w.starts, ends |-> w.ends,
                                  published |-> FALSE, deleted |-> FALSE]])
    /\ UNCHANGED <<db, now>>

InsertElection(p) ==
    /\ At(p, "insertElection")
    /\ \/ ScopeTaken(req[p].ent.scope) /\ UNCHANGED elections
       \/ /\ ~ScopeTaken(req[p].ent.scope)
          /\ \E e \in Elections :
                /\ elections[e] = Null
                /\ elections' = [elections EXCEPT ![e] = req[p].ent]
    /\ Finish(p)
    /\ UNCHANGED <<candidacies, roll, votes, now>>

-----------------------------------------------------------------------------
(***************************************************************************)
(* The handlers that load an election, check it and change it in memory.   *)
(***************************************************************************)
\* Mutant: the status is not checked.
LoadedInAnyStatus(e, status) == FoundElection(e)

\* getById, then the check of the status.
LoadedAs(e, status) == FoundElection(e) /\ elections[e].status = status

\* The request holds the row it has just read, changed to row.
HoldElection(p, e, row, pc) ==
    /\ Goto(p, pc, [Idle EXCEPT !.e = e, !.ent = row])
    /\ UNCHANGED <<db, now>>

\* An end that is not in the DTO keeps the value of the entity.
Update(p, e, w) ==
    LET row    == elections[e]
        starts == IF w.starts # Null THEN w.starts ELSE row.starts
        ends   == IF w.ends # Null THEN w.ends ELSE row.ends
    IN  /\ Accepts(p, "update")
        /\ LoadedAs(e, "draft")
        /\ assertWindow(starts, ends)
        /\ HoldElection(p, e, [row EXCEPT !.starts = starts, !.ends = ends],
                        "saveElection")

Activate(p, e) ==
    /\ Accepts(p, "activate")
    /\ LoadedAs(e, "draft")
    /\ elections[e].starts # Null
    /\ elections[e].ends # Null
    /\ assertWindow(elections[e].starts, elections[e].ends)
    /\ HoldElection(p, e, elections[e], "countCandidacies")

\* The candidacies activate counts: approvedAt set, rejectedAt not looked at.
ApprovedCandidacies(e) ==
    {c \in Candidacies : /\ FoundCandidacy(c)
                         /\ candidacies[c].election = e
                         /\ candidacies[c].approved}

CountCandidacies(p) ==
    /\ At(p, "countCandidacies")
    /\ IF Cardinality(ApprovedCandidacies(req[p].e)) >= MIN_APPROVED_CANDIDACIES
       THEN Goto(p, "countRoll", req[p])
       ELSE Finish(p)
    /\ UNCHANGED <<db, now>>

RollOf(e) == {r \in roll : r.election = e}

CountRoll(p) ==
    /\ At(p, "countRoll")
    /\ IF RollOf(req[p].e) # {}
       THEN Goto(p, "saveElection", [req[p] EXCEPT !.ent.status = "active"])
       ELSE Finish(p)
    /\ UNCHANGED <<db, now>>

Close(p, e) ==
    /\ Accepts(p, "close")
    /\ LoadedAs(e, "active")
    /\ HoldElection(p, e, [elections[e] EXCEPT !.status = "closed"], "saveElection")

PublishResults(p, e) ==
    /\ Accepts(p, "publishResults")
    /\ LoadedAs(e, "closed")
    /\ HoldElection(p, e, [elections[e] EXCEPT !.published = TRUE], "saveElection")

Remove(p, e) ==
    /\ Accepts(p, "remove")
    /\ LoadedAs(e, "draft")
    /\ Goto(p, "deleteElection", [Idle EXCEPT !.e = e])
    /\ UNCHANGED <<db, now>>

-----------------------------------------------------------------------------
(***************************************************************************)
(* electionRepo.save(election): the SELECT, then the UPDATE of the columns *)
(* that differed; an UPDATE of columns left out of the model has no effect *)
(* on it.  electionRepo.softDelete(id).                                    *)
(***************************************************************************)
SaveElection(p) ==
    /\ At(p, "saveElection")
    /\ LET cols == Dirty(req[p].ent, elections[req[p].e])
       IN  IF cols = {} THEN Finish(p)
           ELSE Goto(p, "writeElection", [req[p] EXCEPT !.cols = cols])
    /\ UNCHANGED <<db, now>>

WriteElection(p) ==
    /\ At(p, "writeElection")
    /\ elections' = [elections EXCEPT
                        ![req[p].e] = Written(@, req[p].ent, req[p].cols)]
    /\ Finish(p)
    /\ UNCHANGED <<candidacies, roll, votes, now>>

DeleteElection(p) ==
    /\ At(p, "deleteElection")
    /\ elections' = [elections EXCEPT ![req[p].e].deleted = TRUE]
    /\ Finish(p)
    /\ UNCHANGED <<candidacies, roll, votes, now>>

ElectionNext(p) ==
    \/ \E s \in Scopes, w \in Windows : Create(p, s, w)
    \/ \E e \in Elections, w \in Windows : Update(p, e, w)
    \/ \E e \in Elections :
          Activate(p, e) \/ Close(p, e) \/ PublishResults(p, e) \/ Remove(p, e)
    \/ CountCandidacies(p) \/ CountRoll(p)
    \/ InsertElection(p) \/ SaveElection(p) \/ WriteElection(p) \/ DeleteElection(p)

=============================================================================
