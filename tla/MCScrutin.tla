----------------------------- MODULE MCScrutin -----------------------------
(***************************************************************************)
(* Instances of Scrutin for TLC: who serves what, and where runs start.    *)
(***************************************************************************)
EXTENDS Scrutin, TLC

CONSTANTS u1, u2, e1, e2, c1, c2, r1, r2, p1, p2

NoWindow == [starts |-> Null, ends |-> Null]
Window01 == [starts |-> 0, ends |-> 1]
Window12 == [starts |-> 1, ends |-> 2]

AnyWindow == {NoWindow, Window12}
JustWindow == {Window01}

ElectionOps == {"create", "update", "activate", "close", "publishResults", "remove"}
RollOps == {"register", "bulkRegister", "removeVoter"}
ReviewOps == {"approve", "reject"}
CandidateOps == {"submit", "updateCandidacy", "withdraw"}

\* turnout: one request at a time, of any kind.
SerialServes == (p1 :> Operations)

\* desk: one desk for the elections, with the commission, against candidates,
\* voters and whoever edits the roll.
DeskOps == ElectionOps \cup ReviewOps
DeskServes == (p1 :> DeskOps) @@ (p2 :> CandidateOps \cup RollOps \cup {"cast"})

\* twoDesks: a desk for elections, another for candidacies and roll; voters at both.
TwoDesks == (p1 :> ElectionOps \cup {"cast"})
            @@ (p2 :> RollOps \cup ReviewOps \cup CandidateOps \cup {"cast"})

\* open: two clients, reviewers included, for what leads to votes and away from them.
BallotOps == {"create", "activate", "register", "removeVoter", "submit", "approve",
              "updateCandidacy", "withdraw", "cast"}
OpenServes == (p1 :> BallotOps) @@ (p2 :> BallotOps)

\* twoAdmins: two administrators, the approved candidate served by both.
AdminOps == {"create", "update", "activate", "close", "register", "removeVoter",
             "submit", "approve"}
TwoAdmins == (p1 :> AdminOps) @@ (p2 :> AdminOps)

\* Users, candidacies, receipts and, in open, the two clients are alike.
OpenSymmetry == Permutations(Users) \cup Permutations(Elections)
                \cup Permutations(Candidacies) \cup Permutations(Receipts)
                \cup Permutations(Procs)
DeskSymmetry == Permutations(Users) \cup Permutations(Candidacies)
                \cup Permutations(Receipts)

=============================================================================
