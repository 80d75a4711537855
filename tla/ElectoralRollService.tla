------------------------ MODULE ElectoralRollService ------------------------
(***************************************************************************)
(* electoral-roll.service.ts: who is on the roll of an election.           *)
(***************************************************************************)
EXTENDS ScrutinData

\* Mutant: the roll is never closed.
AlwaysOpenForRoll(e) == FoundElection(e)

\* assertElectionOpenForRoll: the election exists and is not closed.
OpenForRoll(e) == FoundElection(e) /\ elections[e].status # "closed"

\* Mutant: the two ids of the entry are swapped.
EntrySwapped(e, u) == [user |-> e, election |-> u]

Entry(e, u) == [user |-> u, election |-> e]

-----------------------------------------------------------------------------
Register(p, e, u) ==
    /\ Accepts(p, "register")
    /\ OpenForRoll(e)
    /\ Goto(p, "findEntry", [Idle EXCEPT !.e = e, !.u = u])
    /\ UNCHANGED <<db, now>>

FindEntry(p) ==
    /\ At(p, "findEntry")
    /\ IF Registered(req[p].e, req[p].u) THEN Finish(p)
       ELSE Goto(p, "insertEntry", req[p])
    /\ UNCHANGED <<db, now>>

\* uq_roll_user_election refuses the INSERT of an entry that came in between.
InsertEntry(p) ==
    /\ At(p, "insertEntry")
    /\ roll' = roll \cup {Entry(req[p].e, req[p].u)}
    /\ Finish(p)
    /\ UNCHANGED <<elections, candidacies, votes, now>>

-----------------------------------------------------------------------------
BulkRegister(p, e, us) ==
    /\ Accepts(p, "bulkRegister")
    /\ OpenForRoll(e)
    /\ Goto(p, "findEntries", [Idle EXCEPT !.e = e, !.us = us])
    /\ UNCHANGED <<db, now>>

\* Sets aside the users already on the roll; nothing to add is not an error.
FindEntries(p) ==
    /\ At(p, "findEntries")
    /\ LET toAdd == {u \in req[p].us : ~Registered(req[p].e, u)}
       IN  IF toAdd = {} THEN Finish(p)
           ELSE Goto(p, "insertEntries", [req[p] EXCEPT !.us = toAdd])
    /\ UNCHANGED <<db, now>>

\* One transaction: an entry that came in between refuses all of them.
InsertEntries(p) ==
    /\ At(p, "insertEntries")
    /\ roll' = IF \E u \in req[p].us : Registered(req[p].e, u) THEN roll
               ELSE roll \cup {Entry(req[p].e, u) : u \in req[p].us}
    /\ Finish(p)
    /\ UNCHANGED <<elections, candidacies, votes, now>>

-----------------------------------------------------------------------------
RemoveVoter(p, e, u) ==
    /\ Accepts(p, "removeVoter")
    /\ OpenForRoll(e)
    /\ Goto(p, "findVoter", [Idle EXCEPT !.e = e, !.u = u])
    /\ UNCHANGED <<db, now>>

FindVoter(p) ==
    /\ At(p, "findVoter")
    /\ IF Registered(req[p].e, req[p].u) THEN Goto(p, "deleteEntry", req[p])
       ELSE Finish(p)
    /\ UNCHANGED <<db, now>>

\* A hard DELETE by (election, user).
DeleteEntry(p) ==
    /\ At(p, "deleteEntry")
    /\ roll' = roll \ {Entry(req[p].e, req[p].u)}
    /\ Finish(p)
    /\ UNCHANGED <<elections, candidacies, votes, now>>

RollNext(p) ==
    \/ \E e \in Elections, u \in Users : Register(p, e, u) \/ RemoveVoter(p, e, u)
    \/ \E e \in Elections, us \in (SUBSET Users) \ {{}} : BulkRegister(p, e, us)
    \/ FindEntry(p) \/ InsertEntry(p)
    \/ FindEntries(p) \/ InsertEntries(p)
    \/ FindVoter(p) \/ DeleteEntry(p)

=============================================================================
