---------------------------- MODULE VoteService ----------------------------
(***************************************************************************)
(* vote.service.ts: cast, whose four checks each read the database before  *)
(* the INSERT, and the tallies.                                            *)
(***************************************************************************)
EXTENDS ScrutinData

\* Mutants: only the status, or only the dates are checked.
VotingOpenByStatus(e) == elections[e].status = "active"

VotingOpenByDates(e) ==
    /\ elections[e].starts # Null => now >= elections[e].starts
    /\ elections[e].ends # Null => now <= elections[e].ends

\* assertVotingOpen, on the row the handler has just loaded.
VotingOpen(e) ==
    /\ elections[e].status = "active"
    /\ elections[e].starts # Null => now >= elections[e].starts
    /\ elections[e].ends # Null => now <= elections[e].ends

HasVoted(e, u) == \E v \in votes : v.user = u /\ v.election = e

\* approvedAt set and rejectedAt not.
Approved(c) == candidacies[c].approved /\ ~candidacies[c].rejected

-----------------------------------------------------------------------------
Cast(p, e, u, c) ==
    /\ Accepts(p, "cast")
    /\ FoundElection(e)
    /\ VotingOpen(e)
    /\ Goto(p, "isRegistered", [Idle EXCEPT !.e = e, !.u = u, !.c = c])
    /\ UNCHANGED <<db, now>>

IsRegistered(p) ==
    /\ At(p, "isRegistered")
    /\ IF Registered(req[p].e, req[p].u) THEN Goto(p, "loadCandidacy", req[p])
       ELSE Finish(p)
    /\ UNCHANGED <<db, now>>

\* Mutant: any approved candidacy will do.
EligibleAnywhere(c, e) == FoundCandidacy(c) /\ Approved(c)

\* The candidacy exists, runs in this election and is approved.
Eligible(c, e) ==
    FoundCandidacy(c) /\ candidacies[c].election = e /\ Approved(c)

LoadCandidacy(p) ==
    /\ At(p, "loadCandidacy")
    /\ IF Eligible(req[p].c, req[p].e) THEN Goto(p, "findVote", req[p])
       ELSE Finish(p)
    /\ UNCHANGED <<db, now>>

FindVote(p) ==
    /\ At(p, "findVote")
    /\ IF HasVoted(req[p].e, req[p].u) THEN Finish(p)
       ELSE Goto(p, "insertVote", req[p])
    /\ UNCHANGED <<db, now>>

\* Mutant: there is no unique index.
VoteNeverTaken(e, u) == FALSE

\* uq_vote_user_election.
VoteTaken(e, u) == HasVoted(e, u)

\* createdAt is the time of the INSERT; the receipt code is drawn at random.
InsertVote(p) ==
    /\ At(p, "insertVote")
    /\ \/ VoteTaken(req[p].e, req[p].u) /\ UNCHANGED votes
       \/ /\ ~VoteTaken(req[p].e, req[p].u)
          /\ \E r \in Receipts \ {v.receipt : v \in votes} :
                votes' = votes \cup {[receipt |-> r, user |-> req[p].u,
                                      election |-> req[p].e,
                                      candidacy |-> req[p].c, castAt |-> now]}
    /\ Finish(p)
    /\ UNCHANGED <<elections, candidacies, roll, now>>

VoteNext(p) ==
    \/ \E e \in Elections, u \in Users, c \in Candidacies : Cast(p, e, u, c)
    \/ IsRegistered(p) \/ LoadCandidacy(p) \/ FindVote(p) \/ InsertVote(p)

-----------------------------------------------------------------------------
(***************************************************************************)
(* What getResults and stats compute when they run.                        *)
(***************************************************************************)
Ballots(e) == {v \in votes : v.election = e}

Tally(e) ==
    [c \in {v.candidacy : v \in Ballots(e)} |->
        Cardinality({v \in Ballots(e) : v.candidacy = c})]

=============================================================================
