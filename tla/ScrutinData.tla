---------------------------- MODULE ScrutinData ----------------------------
(***************************************************************************)
(* The tables behind the ballot (elections, candidacies, electoral_rolls,  *)
(* votes), the clock, and the HTTP requests the server is in the middle    *)
(* of.  The services of src/election/services extend this module, one      *)
(* module each; Scrutin composes them.                                     *)
(*                                                                         *)
(* Node runs one handler at a time up to its next await, and no handler    *)
(* opens a transaction or takes a lock: between two awaits of a request    *)
(* any other request may run.  An action is what a handler does between    *)
(* two awaits, together with the one database statement it waits for.      *)
(***************************************************************************)
EXTENDS Integers, FiniteSets, TypeOrm

CONSTANTS
    Users,          \* user ids
    Elections,      \* election ids; bounds how many elections are created
    Candidacies,    \* candidacy ids; bounds how many candidacies are created
    Scopes,         \* pairs (year, jurisdiction)
    Receipts,       \* receipt codes; bounds how many votes are inserted
    Procs,          \* requests the server may be serving at the same time
    Serves,         \* Serves[p]: the operations the clients of p ask for
    Windows,        \* voting windows that admins type in
    MaxTime,        \* bound of the clock
    MIN_APPROVED_CANDIDACIES,
    Null

Time == 0..MaxTime

Operations == {"create", "update", "activate", "close", "publishResults",
               "remove", "register", "bulkRegister", "removeVoter", "submit",
               "updateCandidacy", "withdraw", "approve", "reject", "cast"}

Window == [starts : Time \cup {Null}, ends : Time \cup {Null}]

ASSUME MaxTimeAssumption  == MaxTime \in Nat
ASSUME MinApprovedIsNat   == MIN_APPROVED_CANDIDACIES \in Nat
\* Ids are UUIDs: there are many, and finitely many.
ASSUME CandidaciesAreFinite == IsFiniteSet(Candidacies)
ASSUME ServesAssumption   == Serves \in [Procs -> SUBSET Operations]
ASSUME WindowsAssumption  == Windows \subseteq Window
ASSUME NullIsNoTime       == Null \notin Int
ASSUME NullIsNoId         == /\ Null \notin Users
                             /\ Null \notin Elections
                             /\ Null \notin Candidacies

Status == {"draft", "active", "closed"}

\* starts, ends, published, deleted: startsAt, endsAt, resultsPublished and
\* deletedAt.  Titles and descriptions are data nothing here depends on.
ElectionRow == [scope : Scopes, status : Status,
                starts : Time \cup {Null}, ends : Time \cup {Null},
                published : BOOLEAN, deleted : BOOLEAN]

\* approved, rejected, deleted: whether approvedAt, rejectedAt, deletedAt are
\* set.  Position, photo and reviewer are left out.
CandidacyRow == [user : Users, election : Elections,
                 approved : BOOLEAN, rejected : BOOLEAN, deleted : BOOLEAN]

RollRow == [user : Users, election : Elections]

VoteRow == [receipt : Receipts, user : Users, election : Elections,
            candidacy : Candidacies, castAt : Time]

ASSUME NullIsNoRow == Null \notin ElectionRow /\ Null \notin CandidacyRow

VARIABLES
    elections,      \* elections[e]: the row, Null before its INSERT
    candidacies,    \* candidacies[c]: the row, Null before its INSERT
    roll,           \* rows of electoral_rolls
    votes,          \* rows of votes
    now,            \* the clock of the server and of the database
    req             \* req[p]: the request p is serving

db == <<elections, candidacies, roll, votes>>
vars == <<elections, candidacies, roll, votes, now, req>>

(***************************************************************************)
(* A request: where it is (pc), its arguments (e, c, u, us), the entity it *)
(* holds in memory (ent) and the columns its save() is about to write.     *)
(***************************************************************************)
Idle == [pc |-> "idle", e |-> Null, c |-> Null, u |-> Null, us |-> {},
         ent |-> Null, cols |-> {}]

PCs == {"idle",
        "insertElection", "countCandidacies", "countRoll",
        "saveElection", "writeElection", "deleteElection",
        "findEntry", "insertEntry", "findEntries", "insertEntries",
        "findVoter", "deleteEntry",
        "findCandidacy", "insertCandidacy",
        "saveCandidacy", "writeCandidacy", "deleteCandidacy",
        "isRegistered", "loadCandidacy", "findVote", "insertVote"}

Columns == {"scope", "status", "starts", "ends", "published", "deleted",
            "user", "election", "approved", "rejected"}

Request == [pc : PCs, e : Elections \cup {Null}, c : Candidacies \cup {Null},
            u : Users \cup {Null}, us : SUBSET Users,
            ent : ElectionRow \cup CandidacyRow \cup {Null},
            cols : SUBSET Columns]

\* p is free and its clients ask for op.
Accepts(p, op) == req[p].pc = "idle" /\ op \in Serves[p]

At(p, pc) == req[p].pc = pc

\* The request goes on to pc, with whatever r says it now holds.
Goto(p, pc, r) == req' = [req EXCEPT ![p] = [r EXCEPT !.pc = pc]]

\* The handler returns or throws.
Finish(p) == req' = [req EXCEPT ![p] = Idle]

\* findOne({ where: { id } }): rows that exist and are not soft-deleted.
FoundElection(e) == elections[e] # Null /\ ~elections[e].deleted
FoundCandidacy(c) == candidacies[c] # Null /\ ~candidacies[c].deleted

Registered(e, u) == [user |-> u, election |-> e] \in roll

\* An await throws, the client goes away or the server stops: what is left of
\* the handler never runs, and what it already wrote stays.
Abort(p) ==
    /\ req[p].pc # "idle"
    /\ Finish(p)
    /\ UNCHANGED <<db, now>>

Tick ==
    /\ now < MaxTime
    /\ now' = now + 1
    /\ UNCHANGED <<db, req>>

Init ==
    /\ elections = [e \in Elections |-> Null]
    /\ candidacies = [c \in Candidacies |-> Null]
    /\ roll = {}
    /\ votes = {}
    /\ now = 0
    /\ req = [p \in Procs |-> Idle]

=============================================================================
