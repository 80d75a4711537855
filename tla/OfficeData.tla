----------------------------- MODULE OfficeData -----------------------------
(***************************************************************************)
(* The tables that the candidates' desk, the oversight of the elected, the *)
(* sponsors and the catalogue keep, and the HTTP requests the server is in *)
(* the middle of.  Campaign, Oversight, Sponsors and Catalogue extend this *)
(* module; Office composes them.                                           *)
(*                                                                         *)
(* As in ScrutinData, an action is what a handler does between two awaits, *)
(* with the one statement it waits for.  These services have no other      *)
(* statements than findOne, count, save and softDelete, so that the steps  *)
(* which end their handlers are defined here once.                         *)
(***************************************************************************)
EXTENDS Integers, FiniteSets, TypeOrm

CONSTANTS
    Ids,        \* uuids; bounds how many rows are inserted
    Procs,      \* requests the server may be serving at the same time
    Fees,       \* what positions may cost, amount and currency together
    Texts,      \* what users type in or send: contents, answers, proofs
    Starts,     \* where behaviours start: tables, and who is served
    Null

Tables == {"positions", "candidacies", "candidacy_payments",
           "candidacy_programs", "campaign_posts", "action_categories",
           "achievements", "contestations", "questions", "sponsors",
           "jurisdictions", "universities", "conditions", "elections"}

(***************************************************************************)
(* A row.  All tables share one record; a column that a table lacks keeps  *)
(* its value in Blank.  ref is the id of the row it belongs to, fee what a *)
(* position costs or a payment is of, and stamped is publishedAt of posts, *)
(* hiddenAt of questions, resolvedAt of contestations.  The dates are kept *)
(* as whether they are set.                                                *)
(***************************************************************************)
Row == [table : Tables, ref : Ids \cup {Null}, fee : Fees \cup {Null},
        text : Texts \cup {Null}, active : BOOLEAN, approved : BOOLEAN,
        rejected : BOOLEAN, stamped : BOOLEAN, deleted : BOOLEAN]

Columns == {"table", "ref", "fee", "text", "active", "approved", "rejected",
            "stamped", "deleted"}

\* The columns deletedAt and, where there is one, isActive start as they do in
\* audit.ts and the entities.
Blank(table) ==
    [table |-> table, ref |-> Null, fee |-> Null, text |-> Null, active |-> TRUE,
     approved |-> FALSE, rejected |-> FALSE, stamped |-> FALSE, deleted |-> FALSE]

Operations ==
    {"createPosition", "updatePosition", "removePosition",
     "updateCandidacy", "withdrawCandidacy", "approveCandidacy", "rejectCandidacy",
     "submitPayment", "approvePayment", "rejectPayment", "upsertProgram",
     "createPost", "updatePost", "publishPost", "removePost",
     "createCategory", "updateCategory", "removeCategory",
     "createAchievement", "updateAchievement", "withdrawAchievement",
     "approveAchievement", "rejectAchievement",
     "contest", "resolve", "ask", "answer", "hide",
     "submitSponsor", "submitSponsorByAdmin", "updateSponsor", "uploadLogo",
     "approveSponsor", "rejectSponsor", "removeSponsor",
     "createJurisdiction", "updateJurisdiction", "removeJurisdiction",
     "createUniversity", "updateUniversity", "removeUniversity",
     "createCondition", "updateCondition", "removeCondition",
     "createElection", "removeElection"}

\* The handlers that call AuditLogService.record once they have saved.
Audited == {"approveAchievement", "rejectAchievement", "resolve", "hide"}

VARIABLES
    tab,        \* tab[i]: the row of id i, Null before its INSERT
    log,        \* audit_logs: pairs of a handler that records and an id
    unlogged,   \* history: decisions written, whose handler stopped before record
    serves,     \* serves[p]: the operations the clients of p ask for
    req         \* req[p]: the request p is serving

vars == <<tab, log, unlogged, serves, req>>

ASSUME NullIsNoValue == Null \notin Ids \cup Fees \cup Texts /\ Null \notin Row

\* No decision has been taken where a behaviour starts, and nothing contested;
\* payments and programs are yet to be handed in.
Undecided(row) == ~row.stamped /\ (row.table = "achievements" =>
                                      ~row.approved /\ ~row.rejected)
Files == {"candidacy_payments", "candidacy_programs"}

ASSUME StartsAreTables ==
    \A s \in Starts :
        /\ s.serves \in [Procs -> SUBSET Operations]
        /\ s.tab \in [Ids -> Row \cup {Null}]
        /\ \A i \in Ids : s.tab[i] # Null => /\ Undecided(s.tab[i])
                                             /\ s.tab[i].table # "contestations"
                                             /\ s.tab[i].table \notin Files

(***************************************************************************)
(* A request: where it is (pc), for which operation and row (op, x), the   *)
(* entity it holds in memory (ent), the row that one is to refer to (to),  *)
(* and the columns its save() is about to write.                           *)
(***************************************************************************)
Request(pc, op, x, ent, to) ==
    [pc |-> pc, op |-> op, x |-> x, ent |-> ent, to |-> to, cols |-> {}]
Idle == Request("idle", "none", Null, Null, Null)

\* The row x of a table, as findOne finds it: not soft-deleted.
Live(table, x) == x \in Ids /\ tab[x] # Null /\ tab[x].table = table /\ ~tab[x].deleted

Accepts(p, op) == req[p].pc = "idle" /\ op \in serves[p]
At(p, pc) == req[p].pc = pc
Goto(p, pc, r) == req' = [req EXCEPT ![p] = [r EXCEPT !.pc = pc]]
Finish(p) == req' = [req EXCEPT ![p] = Idle]
Reads == UNCHANGED <<tab, log, unlogged, serves>>

\* The handler of op holds ent, to be saved over row x, and waits at pc; it may
\* be looking up the row `to` before it goes on.
LookUp(p, pc, op, x, ent, to) ==
    /\ req' = [req EXCEPT ![p] = Request(pc, op, x, ent, to)]
    /\ Reads

Hold(p, pc, op, x, ent) == LookUp(p, pc, op, x, ent, Null)

\* What was looked up is there or not: go on to pc, or answer an error.
GoOnIf(p, found, pc) ==
    /\ IF found THEN Goto(p, pc, req[p]) ELSE Finish(p)
    /\ Reads

-----------------------------------------------------------------------------
(***************************************************************************)
(* The statements that end a handler.                                      *)
(***************************************************************************)
\* Mutant: payments have no unique index.
ClashOfPrograms(row) ==
    /\ row.table = "candidacy_programs"
    /\ \E i \in Ids : tab[i] # Null /\ tab[i].table = row.table /\ tab[i].ref = row.ref

\* The unique indexes on candidacy_id; they count soft-deleted rows.
Clash(row) ==
    /\ row.table \in Files
    /\ \E i \in Ids : /\ tab[i] # Null
                      /\ tab[i].table = row.table
                      /\ tab[i].ref = row.ref

\* save() of an entity without an id.
Insert(p) ==
    /\ At(p, "insert")
    /\ \/ Clash(req[p].ent) /\ UNCHANGED tab
       \/ /\ ~Clash(req[p].ent)
          /\ \E i \in Ids : tab[i] = Null /\ tab' = [tab EXCEPT ![i] = req[p].ent]
    /\ Finish(p)
    /\ UNCHANGED <<log, unlogged, serves>>

\* Mutants: every handler records; a rejection is not recorded.
SavedRecorded(p) == Goto(p, "record", req[p])
SavedUnlessRejected(p) == IF req[p].op \in Audited \ {"rejectAchievement"}
                          THEN Goto(p, "record", req[p]) ELSE Finish(p)

\* save() has returned.
Saved(p) == IF req[p].op \in Audited THEN Goto(p, "record", req[p]) ELSE Finish(p)

\* save() of an entity with an id: the SELECT, then the UPDATE.
Save(p) ==
    /\ At(p, "save")
    /\ LET cols == Dirty(req[p].ent, tab[req[p].x])
       IN  IF cols = {} THEN Saved(p) ELSE Goto(p, "write", [req[p] EXCEPT !.cols = cols])
    /\ Reads

Write(p) ==
    /\ At(p, "write")
    /\ tab' = [tab EXCEPT ![req[p].x] = Written(@, req[p].ent, req[p].cols)]
    /\ Saved(p)
    /\ UNCHANGED <<log, unlogged, serves>>

SoftDelete(p) ==
    /\ At(p, "softDelete")
    /\ tab' = [tab EXCEPT ![req[p].x].deleted = TRUE]
    /\ Finish(p)
    /\ UNCHANGED <<log, unlogged, serves>>

\* auditLogService.record
Record(p) ==
    /\ At(p, "record")
    /\ log' = log \cup {<<req[p].op, req[p].x>>}
    /\ Finish(p)
    /\ UNCHANGED <<tab, unlogged, serves>>

\* An await throws, the client goes away or the server stops.
Abort(p) ==
    /\ req[p].pc # "idle"
    /\ unlogged' = IF At(p, "record") THEN unlogged \cup {<<req[p].op, req[p].x>>}
                   ELSE unlogged
    /\ Finish(p)
    /\ UNCHANGED <<tab, log, serves>>

Init ==
    /\ \E s \in Starts : tab = s.tab /\ serves = s.serves
    /\ log = {}
    /\ unlogged = {}
    /\ req = [p \in Procs |-> Idle]

=============================================================================
