------------------------------ MODULE Scrutin ------------------------------
(***************************************************************************)
(* The election component: the requests of ElectionService,                *)
(* ElectoralRollService, CandidacyService and VoteService interleaved over *)
(* the tables they share.                                                  *)
(*                                                                         *)
(* Who may run concurrently with whom is the constant Serves.  One Proc is *)
(* a server that serves one request at a time; with one Proc for all the   *)
(* operations on elections, there is one administrator who waits for an    *)
(* answer before asking for something else; several Procs for the same     *)
(* operation are several clients of it.                                    *)
(***************************************************************************)
EXTENDS ElectionService, ElectoralRollService, CandidacyService, VoteService

Next ==
    \/ \E p \in Procs : \/ ElectionNext(p) \/ RollNext(p)
                        \/ CandidacyNext(p) \/ VoteNext(p)
                        \/ Abort(p)
    \/ Tick

Spec == Init /\ [][Next]_vars

-----------------------------------------------------------------------------
(***************************************************************************)
(* Whatever the interleaving.                                              *)
(***************************************************************************)
\* Every variable has the values its comment in ScrutinData says.
TypeOK ==
    /\ elections \in [Elections -> ElectionRow \cup {Null}]
    /\ candidacies \in [Candidacies -> CandidacyRow \cup {Null}]
    /\ roll \subseteq RollRow
    /\ votes \subseteq VoteRow
    /\ now \in Time
    /\ req \in [Procs -> Request]

\* A user has one vote per election, though cast checks it an await before
\* the INSERT and two casts of one user may both pass the check.
OneVotePerVoter ==
    \A v, w \in votes : v.user = w.user /\ v.election = w.election => v = w

\* A vote is for a candidacy of its own election: cast checks it two awaits
\* before the INSERT, and stale saves rewrite candidacies all the while.
BallotInItsElection ==
    \A v \in votes : /\ candidacies[v.candidacy] # Null
                     /\ candidacies[v.candidacy].election = v.election

\* uq_election_year_jurisdiction and uq_candidacy_user_election, removed and
\* withdrawn rows included: no stale save moves a row onto the key of another.
OneElectionPerScope ==
    \A e, f \in Elections :
        /\ elections[e] # Null
        /\ elections[f] # Null
        /\ elections[e].scope = elections[f].scope
        => e = f

OneCandidacyPerUser ==
    \A c, d \in Candidacies :
        /\ candidacies[c] # Null
        /\ candidacies[d] # Null
        /\ candidacies[c].user = candidacies[d].user
        /\ candidacies[c].election = candidacies[d].election
        => c = d

OneRowPerKey == OneElectionPerScope /\ OneCandidacyPerUser

\* The tables keep the promise of BallotBox: every request handler, stale
\* saves and failed requests included, is a step of it or changes nothing.
Slate == [e \in Elections |->
             {c \in Candidacies : candidacies[c] # Null /\ candidacies[c].election = e}]

BallotsCast == {<<v.user, v.election, v.candidacy>> : v \in votes}

Box == INSTANCE BallotBox WITH slate <- Slate, box <- BallotsCast

KeepsBallotBox == Box!Spec

-----------------------------------------------------------------------------
(***************************************************************************)
(* Why these hold: what the requests in flight know.  The rows they name   *)
(* exist; an entity, however stale, has the key of its row, which no       *)
(* handler changes; a cast past loadCandidacy has a candidacy of its       *)
(* election.                                                               *)
(***************************************************************************)
HoldsElection == {"countCandidacies", "countRoll", "saveElection", "writeElection"}
RollPCs == {"findEntry", "insertEntry", "findVoter", "deleteEntry"}
BulkPCs == {"findEntries", "insertEntries"}
HoldsCandidacy == {"saveCandidacy", "writeCandidacy"}
SubmitPCs == {"findCandidacy", "insertCandidacy"}
CastPCs == {"isRegistered", "loadCandidacy", "findVote", "insertVote"}

ElectionKnown(r) ==
    /\ r.pc = "insertElection" => r.ent \in ElectionRow
    /\ r.pc \in HoldsElection \cup {"deleteElection"} =>
          r.e \in Elections /\ elections[r.e] # Null
    /\ r.pc \in HoldsElection =>
          r.ent \in ElectionRow /\ r.ent.scope = elections[r.e].scope

ArgumentsKnown(r) ==
    /\ r.pc \in RollPCs \cup BulkPCs \cup SubmitPCs \cup CastPCs => r.e \in Elections
    /\ r.pc \in RollPCs \cup SubmitPCs \cup CastPCs => r.u \in Users
    /\ r.pc \in CastPCs => r.c \in Candidacies

CandidacyKnown(r) ==
    /\ r.pc \in HoldsCandidacy \cup {"deleteCandidacy"} =>
          r.c \in Candidacies /\ candidacies[r.c] # Null
    /\ r.pc \in HoldsCandidacy =>
          /\ r.ent \in CandidacyRow
          /\ r.ent.user = candidacies[r.c].user
          /\ r.ent.election = candidacies[r.c].election
    /\ r.pc \in {"findVote", "insertVote"} =>
          candidacies[r.c] # Null /\ candidacies[r.c].election = r.e

RequestsKnown ==
    \A p \in Procs : /\ ElectionKnown(req[p])
                     /\ ArgumentsKnown(req[p])
                     /\ CandidacyKnown(req[p])

\* The inductive invariant of the four properties above.
IInv == TypeOK /\ RequestsKnown /\ OneVotePerVoter /\ BallotInItsElection /\ OneRowPerKey

\* Who has loaded c while it was pending, and is going to write it.
Writing(c) == {p \in Procs : /\ req[p].pc \in HoldsCandidacy \cup {"deleteCandidacy"}
                            /\ req[p].c = c}

\* "Cette candidature a deja ete traitee" (candidacy.service.ts:148): a reviewed
\* candidacy is edited, withdrawn or reviewed again by nobody but those who had
\* found it pending, several reviewers and its candidate alike; they only grow
\* fewer, and when there is none left the review is final.
ReviewDrains ==
    [][\A c \in Candidacies : candidacies[c] # Null /\ ~Pending(c) =>
          /\ Writing(c)' \subseteq Writing(c)
          /\ Writing(c) = {} => candidacies'[c] = candidacies[c]]_vars

-----------------------------------------------------------------------------
(***************************************************************************)
(* With one client for the operations that write elections.                *)
(***************************************************************************)
NextStatus(s, t) ==
    s = t \/ (s = "draft" /\ t = "active") \/ (s = "active" /\ t = "closed")

Forward(old, new) ==
    /\ NextStatus(old.status, new.status)
    /\ new.published # old.published => new.published /\ old.status = "closed"
    /\ new.deleted # old.deleted => new.deleted /\ old.status = "draft"
    /\ old.deleted => new = old
    /\ old.status # "draft" => new.starts = old.starts /\ new.ends = old.ends
    /\ new.scope = old.scope

\* The life cycle of election.enum.ts: draft, active, closed, in that order
\* and one at a time; results are published after closing and stay so; only a
\* draft is removed, for good; the window is fixed once voting is open.
LifecycleForward ==
    [][\A e \in Elections : elections[e] # Null =>
          elections'[e] # Null /\ Forward(elections[e], elections'[e])]_vars

\* Why, with one desk, they hold: no other request changes an election the
\* desk has loaded, so what it is about to write is a step forward.
Serving(p, ops) == Serves[p] \cap ops # {}
OneClient(ops) == \A p, q \in Procs : Serving(p, ops) /\ Serving(q, ops) => p = q

ElectionWriters == {"update", "activate", "close", "publishResults", "remove"}
Desk(p) == Serving(p, ElectionWriters)
OneDesk == OneClient(ElectionWriters)

DeskRequest(r) ==
    LET row == elections[r.e] IN
    /\ r.pc \in {"countCandidacies", "countRoll"} =>
          r.ent = row /\ row.status = "draft" /\ ~row.deleted
    /\ r.pc = "saveElection" => Forward(row, r.ent)
    /\ r.pc = "writeElection" => Forward(row, Written(row, r.ent, r.cols))
    /\ r.pc = "deleteElection" => row.status = "draft" /\ ~row.deleted

DeskKnown ==
    \A p \in Procs :
        /\ req[p].pc \in HoldsElection \cup {"deleteElection"} => Desk(p)
        /\ DeskRequest(req[p])

\* "Les transitions d'etat (draft->active->closed) [...] sont toutes validees
\* ici" (election.service.ts:4-5): no write takes another transition.
OnlyListedTransitions ==
    [][\A e \in Elections : elections[e] # Null =>
          NextStatus(elections[e].status, elections'[e].status)]_vars

CastsInFlight(e) == {p \in Procs : req[p].pc \in CastPCs /\ req[p].e = e}
Closed(e) == elections[e] # Null /\ elections[e].status = "closed"

\* A closed election admits no further vote request: the requests that had
\* passed assertVotingOpen drain, and once they have the tally is final.
ClosedElectionDrains ==
    [][\A e \in Elections : Closed(e) =>
          /\ Closed(e)'
          /\ CastsInFlight(e)' \subseteq CastsInFlight(e)
          /\ CastsInFlight(e) = {} => Ballots(e)' = Ballots(e)]_vars

\* "La liste ne se modifie pas sur une election cloturee"
\* (electoral-roll.service.ts:109), as far as it is so when others edit the roll,
\* one entry or many at a time: those who had found the election open drain,
\* nobody else begins, and once they have the roll is final.
RollEdits(e) == {p \in Procs : req[p].pc \in RollPCs \cup BulkPCs /\ req[p].e = e}

ClosedRollDrains ==
    [][\A e \in Elections : Closed(e) =>
          /\ Closed(e)'
          /\ RollEdits(e)' \subseteq RollEdits(e)
          /\ RollEdits(e) = {} => RollOf(e)' = RollOf(e)]_vars

\* Results are published after closing and for good; they go on changing only
\* with the casts that were in flight, and no longer.
PublishedTallyDrains ==
    [][\A e \in Elections : elections[e] # Null /\ elections[e].published =>
          /\ elections'[e].published
          /\ CastsInFlight(e)' \subseteq CastsInFlight(e)
          /\ CastsInFlight(e) = {} => Tally(e)' = Tally(e)]_vars

\* Why: with one desk, what is published was closed before.
PublishedIsClosed ==
    \A e \in Elections : elections[e] # Null /\ elections[e].published => Closed(e)

\* A candidacy is never approved and rejected at once (candidacy.entity.ts:4-8).
NeverApprovedAndRejected ==
    \A c \in Candidacies :
        candidacies[c] # Null => ~(candidacies[c].approved /\ candidacies[c].rejected)

\* Why, with one client for the reviews: it alone holds an entity with a date
\* set, and whatever the candidate's stale saves do to the row meanwhile, they
\* never set the other date.
Reviews == {"approve", "reject"}

ReviewRequest(p, r) ==
    r.pc \in HoldsCandidacy =>
        /\ r.ent.approved \/ r.ent.rejected => Serving(p, Reviews)
        /\ r.ent.approved => ~r.ent.rejected /\ ~candidacies[r.c].rejected
        /\ r.ent.rejected => ~candidacies[r.c].approved

ReviewKnown == \A p \in Procs : ReviewRequest(p, req[p])

-----------------------------------------------------------------------------
(***************************************************************************)
(* With one client for the elections and one for the candidacies.  Each    *)
(* property is followed by why it holds.                                   *)
(***************************************************************************)
\* With one client for what writes a candidacy, the row it is about to write is
\* as pending as when it loaded it.
CandidacyWriters == {"updateCandidacy", "withdraw"} \cup Reviews

PendingKnown ==
    \A p \in Procs : req[p].pc \in HoldsCandidacy \cup {"deleteCandidacy"} =>
        Serving(p, CandidacyWriters) /\ Pending(req[p].c)

\* An election that is or was open has enough approved candidacies to choose
\* from, and a window.
Quorate(e) == Cardinality(ApprovedCandidacies(e)) >= MIN_APPROVED_CANDIDACIES

Opened(e, row) ==
    row.status # "draft" => /\ Quorate(e)
                            /\ row.starts # Null
                            /\ row.ends > row.starts
                            /\ ~row.deleted

OpenedWithQuorum ==
    \A e \in Elections : elections[e] # Null => Opened(e, elections[e])

\* create makes a draft.
DraftKnown ==
    \A p \in Procs : req[p].pc = "insertElection" =>
        /\ req[p].ent.status = "draft"
        /\ ~req[p].ent.published
        /\ ~req[p].ent.deleted

\* With one client for what writes elections and one for what writes
\* candidacies: what activate has checked and counted stays so until it writes.
OpeningRequest(r) ==
    /\ r.pc \in {"countCandidacies", "countRoll"} =>
          r.ent.starts # Null /\ r.ent.ends > r.ent.starts
    /\ r.pc = "countRoll" => Quorate(r.e)
    /\ r.pc = "saveElection" => Opened(r.e, r.ent)
    /\ r.pc = "writeElection" => Opened(r.e, Written(elections[r.e], r.ent, r.cols))

OpeningKnown == \A p \in Procs : OpeningRequest(req[p])

\* Every vote counts for a candidacy that is approved now, in an election that
\* has been opened, and was cast after the voting window opened.
BallotsBacked ==
    \A v \in votes :
        /\ FoundCandidacy(v.candidacy)
        /\ Approved(v.candidacy)
        /\ FoundElection(v.election)
        /\ elections[v.election].status # "draft"
        /\ v.castAt >= elections[v.election].starts

\* What cast has checked stays so until it writes, voting closed or not.
BackedRequest(r) ==
    /\ r.pc \in CastPCs => /\ elections[r.e] # Null
                           /\ elections[r.e].status # "draft"
                           /\ now >= elections[r.e].starts
    /\ r.pc \in {"findVote", "insertVote"} => FoundCandidacy(r.c) /\ Approved(r.c)

BackedKnown == \A p \in Procs : BackedRequest(req[p])

\* Turnout is a rate: no more votes than entries on the roll, the denominator
\* of stats.
TurnoutAtMostOne ==
    \A e \in Elections : Cardinality(Ballots(e)) <= Cardinality(RollOf(e))

=============================================================================
