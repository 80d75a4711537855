------------------------------- MODULE Stamps -------------------------------
(***************************************************************************)
(* What the dates of diaspovote promise (approvedAt, rejectedAt,           *)
(* publishedAt, hiddenAt, resolvedAt, deletedAt), however the requests     *)
(* interleave.  A handler that holds a row which had no date yet may write *)
(* that back; nobody else takes a date away.  So once a date is set, those *)
(* who may still undo it only grow fewer, and when there is nobody left it *)
(* is set for good.                                                        *)
(***************************************************************************)
CONSTANT Dates      \* pairs of a row and one of its dates

VARIABLES
    set,            \* the dates that are set
    hands           \* hands[d]: the requests that hold the row without its date

Init == set \subseteq Dates /\ hands = [d \in Dates |-> {}]

Drains(d) ==
    d \in set => /\ hands'[d] \subseteq hands[d]
                 /\ hands[d] = {} => d \in set'

Next == \A d \in Dates : Drains(d)

Spec == Init /\ [][Next]_<<set, hands>>

=============================================================================
