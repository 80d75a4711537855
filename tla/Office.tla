------------------------------- MODULE Office -------------------------------
(***************************************************************************)
(* Campaign, Oversight, Sponsors and Catalogue: the requests of their      *)
(* services interleaved over the tables they share.  Who is served, and    *)
(* what is in the tables at first, is chosen from Starts.                  *)
(***************************************************************************)
EXTENDS Campaign, Oversight, Sponsors, Catalogue

Next ==
    \E p \in Procs :
        \/ CampaignNext(p) \/ OversightNext(p) \/ SponsorNext(p) \/ CatalogueNext(p)
        \/ Insert(p) \/ Save(p) \/ Write(p) \/ SoftDelete(p) \/ Record(p)
        \/ Abort(p)

Spec == Init /\ [][Next]_vars

-----------------------------------------------------------------------------
(***************************************************************************)
(* Whatever the interleaving.                                              *)
(***************************************************************************)
PCs == {"idle", "insert", "save", "write", "softDelete", "record",
        "assertActivePosition", "findPosition", "findPayment", "findProgram",
        "findPost", "findCategory", "assertOwnCandidacy", "findQuestion",
        "findParent", "countLinked", "countChildren", "assertJurisdictionExists"}

IsEntity(e) == /\ DOMAIN e \in {Columns, Columns \ {"rejected"}}
               /\ e.table \in Tables
               /\ e.ref \in Ids \cup {Null}
               /\ e.fee \in Fees \cup {Null}
               /\ e.text \in Texts \cup {Null}
               /\ e.active \in BOOLEAN
               /\ e.approved \in BOOLEAN
               /\ "rejected" \in DOMAIN e => e.rejected \in BOOLEAN
               /\ e.stamped \in BOOLEAN
               /\ e.deleted \in BOOLEAN

IsRequest(r) == /\ DOMAIN r = DOMAIN Idle
                /\ r.pc \in PCs
                /\ r.op \in Operations \cup {"none"}
                /\ r.x \in Ids \cup {Null}
                /\ r.ent = Null \/ IsEntity(r.ent)
                /\ r.to \in Ids \cup {Null}
                /\ r.cols \subseteq Columns

\* Every variable has the values its comment in OfficeData says.
TypeOK ==
    /\ tab \in [Ids -> Row \cup {Null}]
    /\ log \subseteq Audited \X Ids
    /\ unlogged \subseteq Audited \X Ids
    /\ serves \in [Procs -> SUBSET Operations]
    /\ \A p \in Procs : IsRequest(req[p])
    /\ DOMAIN req = Procs

\* The rows of a table, soft-deleted or not.
Rows(table) == {x \in Ids : tab[x] # Null /\ tab[x].table = table}

\* The dates that are set.  rejectedAt of a payment is left out: candidates are
\* meant to take it away by submitting again.
DateColumns == {"approved", "rejected", "stamped", "deleted"}
IsSet(x, col) == /\ tab[x] # Null
                 /\ tab[x][col]
                 /\ ~(tab[x].table = "candidacy_payments" /\ col = "rejected")
DatesSet == {d \in Ids \X DateColumns : IsSet(d[1], d[2])}

\* Who holds the row x without the date, and is going to save it.
Holding == {"save", "write", "assertActivePosition", "assertOwnCandidacy",
            "assertJurisdictionExists"}
Undoing(x, col) == {p \in Procs : /\ req[p].pc \in Holding
                                  /\ req[p].x = x
                                  /\ col \in DOMAIN req[p].ent
                                  /\ ~req[p].ent[col]}

Dates == INSTANCE Stamps WITH
            Dates <- Ids \X DateColumns,
            set <- DatesSet,
            hands <- [d \in Ids \X DateColumns |-> Undoing(d[1], d[2])]

\* A decision, a publication, a moderation or a removal may be undone by the
\* save() of a request that had read the row before, and by nothing else: when
\* those have ended, it stands.
DecisionsDrain == Dates!Spec

\* The unique indexes on candidacy_id: a candidacy has one payment and one
\* program, though both are looked for an await before they are inserted.
OneFilePerCandidacy ==
    \A table \in Files : \A x, y \in Rows(table) : tab[x].ref = tab[y].ref => x = y

\* "figer le montant meme si le poste change ensuite"
\* (candidacy-payment.entity.ts:8-9): a payment is of the amount of its first
\* submission, whatever is saved later, and no row moves to another parent.
Fixed == {"candidacy_payments", "candidacy_programs", "campaign_posts",
          "achievements", "contestations", "questions"}

AmountIsFrozen ==
    [][\A x \in Ids : tab[x] # Null /\ tab[x].table \in Fixed =>
          tab'[x].ref = tab[x].ref /\ tab'[x].fee = tab[x].fee]_vars

\* The requests that write "belongs to x", and have made sure of it.
Sure == {"insert", "save", "write", "findPosition", "findPayment", "findProgram",
         "findCategory"}
Attaching(x) == {p \in Procs : /\ req[p].pc \in Sure
                               /\ req[p].op # "updateJurisdiction"
                               /\ req[p].ent.ref = x}

\* There is no foreign key: what attaches a row to a candidacy, a position, a
\* jurisdiction or an election looks for it an await earlier, so that a row may
\* come to belong to one that was removed meanwhile.  No request that looks
\* after the removal attaches another row.  (updateJurisdiction does not look.)
RemovedGetsNoMore ==
    [][\A x \in Ids : tab[x] # Null /\ tab[x].deleted =>
          \A p \in Attaching(x)' \ Attaching(x) :
             req'[p].x # Null /\ tab[req'[p].x].ref = x]_vars

\* What has been decided and is to be in the audit log.
Decided ==
    {<<"approveAchievement", x>> : x \in {y \in Rows("achievements") : tab[y].approved}}
    \cup {<<"rejectAchievement", x>> : x \in {y \in Rows("achievements") : tab[y].rejected}}
    \cup {<<"resolve", x>> : x \in {y \in Rows("contestations") : tab[y].stamped}}
    \cup {<<"hide", x>> : x \in {y \in Rows("questions") : tab[y].stamped}}

Recording == {<<req[p].op, req[p].x>> : p \in {q \in Procs : At(q, "record")}}

Accounted == log \cup Recording \cup unlogged

\* "record() est appele apres chaque action de moderation significative
\* (approve/reject/resolve/hide)" (audit-log.service.ts:3-5): what shows as
\* decided has its entry, unless its handler stopped between the two statements.
AuditComplete == Decided \subseteq Accounted

\* "Seule une realisation approuvee peut etre contestee"
\* (contestation.service.ts:31): a contestation is about an approval that the
\* audit log knows, though the approval may have been undone since.
ContestedWasApproved ==
    \A x \in Rows("contestations") : <<"approveAchievement", tab[x].ref>> \in Accounted

-----------------------------------------------------------------------------
(***************************************************************************)
(* With one client for the reviews.                                        *)
(***************************************************************************)
\* What a reviewer does; an administrator edits a sponsor whatever its review.
Reviews == {"approveCandidacy", "rejectCandidacy", "approvePayment", "rejectPayment",
            "approveAchievement", "rejectAchievement", "approveSponsor", "rejectSponsor"}
Reviewing == Reviews \cup {"updateSponsor", "uploadLogo"}

OneClient(clients, ops) ==
    \A p, q \in Procs : clients[p] \cap ops # {} /\ clients[q] \cap ops # {} => p = q

Reviewed == {"candidacies", "candidacy_payments", "achievements", "sponsors"}
NeverBoth(tables) ==
    \A x \in Ids : tables[x] # Null /\ tables[x].table \in Reviewed =>
                      ~(tables[x].approved /\ tables[x].rejected)

OneReviewer == \A s \in Starts : OneClient(s.serves, Reviewing) /\ NeverBoth(s.tab)

Statuses == {"pending", "approved", "rejected"}
Under(List(_), x) == {s \in Statuses : x \in List(s)}

\* A candidacy, an achievement, a sponsor is listed under one status, although
\* the filters look at one date each and candidates edit meanwhile; and nothing
\* that was rejected is shown to the public.
OneStatusEach ==
    /\ \A x \in Ids :
          /\ Live("candidacies", x) => Cardinality(Under(ListCandidacies, x)) = 1
          /\ Live("achievements", x) => Cardinality(Under(ListAchievements, x)) = 1
          /\ Live("sponsors", x) => Cardinality(Under(ListSponsors, x)) = 1
    /\ PublicSponsors \cap ListSponsors("rejected") = {}
    /\ \A x \in PublicPosts : tab[x].ref \notin ListCandidacies("rejected")
    /\ \A x \in Rows("candidacy_payments") : ~(tab[x].approved /\ tab[x].rejected)

-----------------------------------------------------------------------------
\* "Soumettre (ou resoumettre apres rejet) la preuve de paiement"
\* (candidacy.controller.ts:154): what is submitted again waits for a review.
ResubmittedIsPending ==
    [][\A p \in Procs : At(p, "write") /\ req[p].op = "submitPayment" /\ tab' # tab
          => Pending(tab'[req[p].x])]_vars

=============================================================================
