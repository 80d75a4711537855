----------------------------- MODULE BallotBox -----------------------------
(***************************************************************************)
(* What the election component promises of the votes, however its requests *)
(* interleave: a candidacy runs in one election for good, a voter puts at  *)
(* most one ballot in the box of an election, for a candidacy that runs in *)
(* it, and a ballot in the box is neither changed nor taken out.           *)
(***************************************************************************)
CONSTANTS Users, Elections, Candidacies

VARIABLES
    slate,      \* slate[e]: the candidacies that run in e
    box         \* the ballots cast, <<user, election, candidacy>>

Init ==
    /\ slate = [e \in Elections |-> {}]
    /\ box = {}

Nominate(e, c) ==
    /\ \A f \in Elections : c \notin slate[f]
    /\ slate' = [slate EXCEPT ![e] = @ \cup {c}]
    /\ UNCHANGED box

Cast(u, e, c) ==
    /\ c \in slate[e]
    /\ \A d \in Candidacies : <<u, e, d>> \notin box
    /\ box' = box \cup {<<u, e, c>>}
    /\ UNCHANGED slate

Next ==
    \/ \E e \in Elections, c \in Candidacies : Nominate(e, c)
    \/ \E u \in Users, e \in Elections, c \in Candidacies : Cast(u, e, c)

Spec == Init /\ [][Next]_<<slate, box>>

=============================================================================
