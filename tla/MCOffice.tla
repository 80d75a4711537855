------------------------------ MODULE MCOffice ------------------------------
(***************************************************************************)
(* Instances of Office for TLC.  A start is a part of the system with its  *)
(* clients: the commission or an administrator on p1, candidates and       *)
(* citizens on p2 and p3.                                                  *)
(***************************************************************************)
EXTENDS Office, TLC

CONSTANTS i1, i2, i3, i4, p1, p2, p3, f1, f2, t1

Clients(a, b, c) == p1 :> a @@ p2 :> b @@ p3 :> c
Empty == [x \in Ids |-> Null]
\* i4 is free where it makes a difference; elsewhere a category stands in it.
Rowless == [Empty EXCEPT ![i4] = NewCategory]
First(row) == [Rowless EXCEPT ![i1] = row]
Second(row, other) == [First(row) EXCEPT ![i2] = other]

AnyPosition == NewPosition(f1)
Candidate == NewCandidacy(i2)
Elected == [NewCandidacy(Null) EXCEPT !.approved = TRUE]

\* A candidacy under review for one of two positions.
Candidacies == [tab |-> Second(Candidate, AnyPosition),
    serves |-> Clients({"approveCandidacy", "rejectCandidacy"},
                       {"updateCandidacy", "withdrawCandidacy"},
                       {"createPosition", "removePosition"})]

\* A fee, its proofs, and the price that changes meanwhile.
Payments == [tab |-> [Empty EXCEPT ![i1] = Candidate, ![i2] = AnyPosition],
    serves |-> Clients({"approvePayment", "rejectPayment", "updatePosition", "removePosition"},
                       {"submitPayment"}, {"submitPayment"})]

\* One candidate at two screens.
Publications == [tab |-> First(Elected),
    serves |-> Clients({"rejectCandidacy"},
                       {"upsertProgram", "createPost", "updatePost", "publishPost"},
                       {"upsertProgram", "updatePost", "publishPost", "removePost"})]

\* A category that goes while an achievement is filed under it.
Achievements == [tab |-> First(Elected),
    serves |-> Clients({"createCategory", "updateCategory", "removeCategory"},
                       {"createAchievement", "updateAchievement", "withdrawAchievement"},
                       {})]

\* An achievement that is contested, and its author.
Contestations == [tab |-> Second(Elected, NewAchievement(i1, t1)),
    serves |-> Clients({"approveAchievement", "rejectAchievement", "resolve"},
                       {"updateAchievement", "withdrawAchievement"}, {"contest"})]

Questions == [tab |-> Second(Elected, NewQuestion(i1)),
    serves |-> Clients({"hide"}, {"ask", "answer"}, {})]

SponsorDesk == [tab |-> Rowless,
    serves |-> Clients({"submitSponsorByAdmin", "updateSponsor", "uploadLogo",
                        "approveSponsor", "rejectSponsor", "removeSponsor"},
                       {"submitSponsor"}, {})]

\* Two administrators of the tree and its elections.
Jurisdictions == [tab |-> First(NewJurisdiction(Null)),
    serves |-> Clients({"createJurisdiction", "updateJurisdiction", "removeJurisdiction"},
                       {"createJurisdiction", "createElection", "removeElection"}, {})]

\* What hangs on a jurisdiction and on an election.
Universities == [tab |-> [Empty EXCEPT ![i1] = NewJurisdiction(Null), ![i2] = NewElection(i1)],
    serves |-> Clients({"removeJurisdiction", "removeElection"},
                       {"createUniversity", "updateUniversity", "removeUniversity",
                        "createCondition", "updateCondition", "removeCondition"}, {})]

AllStarts == {Candidacies, Payments, Publications, Achievements, Contestations,
              Questions, SponsorDesk, Jurisdictions, Universities}
PaymentStart == {Payments}

ASSUME OneClientForEach == OneReviewer

=============================================================================
