-------------------------- MODULE CandidacyService --------------------------
(***************************************************************************)
(* candidacy.service.ts: a candidate submits, edits and withdraws; the     *)
(* commission approves or rejects.  The state of a candidacy is the pair   *)
(* (approvedAt, rejectedAt).  The position is taken to exist and to be     *)
(* active: the request that names another is refused and changes nothing.  *)
(***************************************************************************)
EXTENDS ScrutinData

\* Mutant: the index counts live rows only.
CandidacyTakenByLive(e, u) ==
    \E c \in Candidacies : /\ FoundCandidacy(c)
                           /\ candidacies[c].user = u
                           /\ candidacies[c].election = e

\* uq_candidacy_user_election; the index also counts soft-deleted rows.
CandidacyTaken(e, u) ==
    \E c \in Candidacies : /\ candidacies[c] # Null
                           /\ candidacies[c].user = u
                           /\ candidacies[c].election = e

\* Mutant: assertPending looks at one of the two dates only.
NotRejected(c) == ~candidacies[c].rejected

\* assertPending, on the row the handler has just loaded.
Pending(c) == ~candidacies[c].approved /\ ~candidacies[c].rejected

\* Mutant: a reviewed candidacy is loaded like another.
LoadedReviewed(c) == FoundCandidacy(c)

\* getById, assertPending; the owner (update, withdraw) is the one who asks.
LoadedPending(c) == FoundCandidacy(c) /\ Pending(c)

-----------------------------------------------------------------------------
\* Open to any user while the election is not closed.
Submit(p, e, u) ==
    /\ Accepts(p, "submit")
    /\ FoundElection(e)
    /\ elections[e].status # "closed"
    /\ Goto(p, "findCandidacy", [Idle EXCEPT !.e = e, !.u = u])
    /\ UNCHANGED <<db, now>>

FindCandidacy(p) ==
    /\ At(p, "findCandidacy")
    /\ IF \E c \in Candidacies : /\ FoundCandidacy(c)
                                 /\ candidacies[c].user = req[p].u
                                 /\ candidacies[c].election = req[p].e
       THEN Finish(p)
       ELSE Goto(p, "insertCandidacy", req[p])
    /\ UNCHANGED <<db, now>>

InsertCandidacy(p) ==
    /\ At(p, "insertCandidacy")
    /\ \/ CandidacyTaken(req[p].e, req[p].u) /\ UNCHANGED candidacies
       \/ /\ ~CandidacyTaken(req[p].e, req[p].u)
          /\ \E c \in Candidacies :
                /\ candidacies[c] = Null
                /\ candidacies' = [candidacies EXCEPT ![c] =
                      [user |-> req[p].u, election |-> req[p].e,
                       approved |-> FALSE, rejected |-> FALSE, deleted |-> FALSE]]
    /\ Finish(p)
    /\ UNCHANGED <<elections, roll, votes, now>>

-----------------------------------------------------------------------------
HoldCandidacy(p, c, row) ==
    /\ Goto(p, "saveCandidacy", [Idle EXCEPT !.c = c, !.ent = row])
    /\ UNCHANGED <<db, now>>

\* Changes the position or the photo, and saves the whole entity.
UpdateCandidacy(p, c) ==
    /\ Accepts(p, "updateCandidacy")
    /\ LoadedPending(c)
    /\ HoldCandidacy(p, c, candidacies[c])

Withdraw(p, c) ==
    /\ Accepts(p, "withdraw")
    /\ LoadedPending(c)
    /\ Goto(p, "deleteCandidacy", [Idle EXCEPT !.c = c])
    /\ UNCHANGED <<db, now>>

Approve(p, c) ==
    /\ Accepts(p, "approve")
    /\ LoadedPending(c)
    /\ HoldCandidacy(p, c, [candidacies[c] EXCEPT !.approved = TRUE])

Reject(p, c) ==
    /\ Accepts(p, "reject")
    /\ LoadedPending(c)
    /\ HoldCandidacy(p, c, [candidacies[c] EXCEPT !.rejected = TRUE])

-----------------------------------------------------------------------------
(***************************************************************************)
(* candidacyRepo.save(candidacy) and candidacyRepo.softDelete(id).  An     *)
(* UPDATE of the position or of the photo alone has no effect here.        *)
(***************************************************************************)
SaveCandidacy(p) ==
    /\ At(p, "saveCandidacy")
    /\ LET cols == Dirty(req[p].ent, candidacies[req[p].c])
       IN  IF cols = {} THEN Finish(p)
           ELSE Goto(p, "writeCandidacy", [req[p] EXCEPT !.cols = cols])
    /\ UNCHANGED <<db, now>>

WriteCandidacy(p) ==
    /\ At(p, "writeCandidacy")
    /\ candidacies' = [candidacies EXCEPT
                          ![req[p].c] = Written(@, req[p].ent, req[p].cols)]
    /\ Finish(p)
    /\ UNCHANGED <<elections, roll, votes, now>>

\* Mutant: delete(id) for softDelete(id).
DeleteCandidacyHard(p) ==
    /\ At(p, "deleteCandidacy")
    /\ candidacies' = [candidacies EXCEPT ![req[p].c] = Null]
    /\ Finish(p)
    /\ UNCHANGED <<elections, roll, votes, now>>

DeleteCandidacy(p) ==
    /\ At(p, "deleteCandidacy")
    /\ candidacies' = [candidacies EXCEPT ![req[p].c].deleted = TRUE]
    /\ Finish(p)
    /\ UNCHANGED <<elections, roll, votes, now>>

CandidacyNext(p) ==
    \/ \E e \in Elections, u \in Users : Submit(p, e, u)
    \/ \E c \in Candidacies :
          UpdateCandidacy(p, c) \/ Withdraw(p, c) \/ Approve(p, c) \/ Reject(p, c)
    \/ FindCandidacy(p) \/ InsertCandidacy(p)
    \/ SaveCandidacy(p) \/ WriteCandidacy(p) \/ DeleteCandidacy(p)

=============================================================================
