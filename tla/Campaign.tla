------------------------------ MODULE Campaign ------------------------------
(***************************************************************************)
(* What belongs to a candidacy: its position and review, the payment of    *)
(* its fee, its program and its posts.  position.service.ts,               *)
(* candidacy.service.ts, candidacy-payment.service.ts,                     *)
(* candidacy-program.service.ts and campaign-post.service.ts.              *)
(*                                                                         *)
(* Whoever edits a candidacy is taken to be its owner: a request of        *)
(* anybody else is refused, and changes nothing.                           *)
(***************************************************************************)
EXTENDS OfficeData

\* assertPending, on the entity the handler has loaded.
Pending(row) == ~row.approved /\ ~row.rejected

-----------------------------------------------------------------------------
(***************************************************************************)
(* position.service.ts.                                                    *)
(***************************************************************************)
NewPosition(fee) == [Blank("positions") EXCEPT !.fee = fee]

CreatePosition(p, fee) ==
    /\ Accepts(p, "createPosition")
    /\ Hold(p, "insert", "createPosition", Null, NewPosition(fee))

\* A fee, clearFee (Null), or neither, which leaves the entity's fee.
UpdatePosition(p, x, active, fee) ==
    /\ Accepts(p, "updatePosition")
    /\ Live("positions", x)
    /\ Hold(p, "save", "updatePosition", x,
            [tab[x] EXCEPT !.active = active, !.fee = fee])

RemovePosition(p, x) ==
    /\ Accepts(p, "removePosition")
    /\ Live("positions", x)
    /\ Hold(p, "softDelete", "removePosition", x, Null)

-----------------------------------------------------------------------------
(***************************************************************************)
(* candidacy.service.ts; ref is positionId.  Submission is in              *)
(* CandidacyService: behaviours start with candidacies submitted.          *)
(***************************************************************************)
NewCandidacy(position) == [Blank("candidacies") EXCEPT !.ref = position]

\* to is dto.positionId, Null when the photo alone changes.
UpdateCandidacy(p, c, to) ==
    /\ Accepts(p, "updateCandidacy")
    /\ Live("candidacies", c)
    /\ Pending(tab[c])
    /\ IF to = Null THEN Hold(p, "save", "updateCandidacy", c, tab[c])
       ELSE LookUp(p, "assertActivePosition", "updateCandidacy", c,
                   [tab[c] EXCEPT !.ref = to], to)

\* Mutant: removed positions are found too.
ActiveOrRemoved(x) == x \in Ids /\ tab[x] # Null /\ tab[x].table = "positions" /\ tab[x].active
ActivePosition(x) == Live("positions", x) /\ tab[x].active

AssertActivePosition(p) ==
    /\ At(p, "assertActivePosition")
    /\ GoOnIf(p, ActivePosition(req[p].to), "save")

WithdrawCandidacy(p, c) ==
    /\ Accepts(p, "withdrawCandidacy")
    /\ Live("candidacies", c)
    /\ Pending(tab[c])
    /\ Hold(p, "softDelete", "withdrawCandidacy", c, Null)

ApproveCandidacy(p, c) ==
    /\ Accepts(p, "approveCandidacy")
    /\ Live("candidacies", c)
    /\ Pending(tab[c])
    /\ Hold(p, "save", "approveCandidacy", c, [tab[c] EXCEPT !.approved = TRUE])

RejectCandidacy(p, c) ==
    /\ Accepts(p, "rejectCandidacy")
    /\ Live("candidacies", c)
    /\ Pending(tab[c])
    /\ Hold(p, "save", "rejectCandidacy", c, [tab[c] EXCEPT !.rejected = TRUE])

\* list: the candidacies under each of its status filters.
ListCandidacies(status) ==
    {x \in Ids : /\ Live("candidacies", x)
                 /\ status = "pending" => Pending(tab[x])
                 /\ status = "approved" => tab[x].approved
                 /\ status = "rejected" => tab[x].rejected}

-----------------------------------------------------------------------------
(***************************************************************************)
(* candidacy-payment.service.ts; fee is (amount, currency), text proofUrl. *)
(***************************************************************************)
NewPayment(c, fee, proof) ==
    [Blank("candidacy_payments") EXCEPT !.ref = c, !.fee = fee, !.text = proof]

\* Mutant: the amount follows the position.
ResubmittedAtItsPrice(row, new) ==
    [col \in Columns \ {"rejected"} |-> IF col \in {"text", "fee"} THEN new[col] ELSE row[col]]

\* rejectedAt becomes undefined: save() does not compare it.
Resubmitted(row, new) ==
    [col \in Columns \ {"rejected"} |-> IF col = "text" THEN new.text ELSE row[col]]

PaymentsOf(c) == {x \in Ids : Live("candidacy_payments", x) /\ tab[x].ref = c}

SubmitPayment(p, c, proof) ==
    /\ Accepts(p, "submitPayment")
    /\ Live("candidacies", c)
    /\ LookUp(p, "findPosition", "submitPayment", Null, NewPayment(c, Null, proof),
              tab[c].ref)

\* A free position takes no payment.
FindPosition(p) ==
    /\ At(p, "findPosition")
    /\ IF Live("positions", req[p].to) /\ tab[req[p].to].fee # Null
       THEN Hold(p, "findPayment", "submitPayment", Null,
                 [req[p].ent EXCEPT !.fee = tab[req[p].to].fee])
       ELSE Finish(p) /\ Reads

FindPayment(p) ==
    /\ At(p, "findPayment")
    /\ LET found == PaymentsOf(req[p].ent.ref) IN
       \/ found = {} /\ Goto(p, "insert", req[p]) /\ Reads
       \/ \E x \in found : tab[x].approved /\ Finish(p) /\ Reads
       \/ \E x \in found :
             /\ ~tab[x].approved
             /\ Hold(p, "save", "submitPayment", x, Resubmitted(tab[x], req[p].ent))

ApprovePayment(p, x) ==
    /\ Accepts(p, "approvePayment")
    /\ Live("candidacy_payments", x)
    /\ Pending(tab[x])
    /\ Hold(p, "save", "approvePayment", x, [tab[x] EXCEPT !.approved = TRUE])

RejectPayment(p, x) ==
    /\ Accepts(p, "rejectPayment")
    /\ Live("candidacy_payments", x)
    /\ Pending(tab[x])
    /\ Hold(p, "save", "rejectPayment", x, [tab[x] EXCEPT !.rejected = TRUE])

-----------------------------------------------------------------------------
(***************************************************************************)
(* candidacy-program.service.ts.                                           *)
(***************************************************************************)
NewProgram(c, content) ==
    [Blank("candidacy_programs") EXCEPT !.ref = c, !.text = content]

ProgramsOf(c) == {x \in Ids : Live("candidacy_programs", x) /\ tab[x].ref = c}

UpsertProgram(p, c, content) ==
    /\ Accepts(p, "upsertProgram")
    /\ Live("candidacies", c)
    /\ Hold(p, "findProgram", "upsertProgram", Null, NewProgram(c, content))

FindProgram(p) ==
    /\ At(p, "findProgram")
    /\ LET found == ProgramsOf(req[p].ent.ref) IN
       \/ found = {} /\ Goto(p, "insert", req[p]) /\ Reads
       \/ \E x \in found : Hold(p, "save", "upsertProgram", x,
                                [tab[x] EXCEPT !.text = req[p].ent.text])

-----------------------------------------------------------------------------
(***************************************************************************)
(* campaign-post.service.ts; stamped is publishedAt.  Each handler first   *)
(* looks for the candidacy and then, but for create, for the post.         *)
(***************************************************************************)
NewPost(c, content) == [Blank("campaign_posts") EXCEPT !.ref = c, !.text = content]

CreatePost(p, c, content) ==
    /\ Accepts(p, "createPost")
    /\ Live("candidacies", c)
    /\ Hold(p, "insert", "createPost", Null, NewPost(c, content))

\* assertOwnCandidacy
OnPost(p, op, x) ==
    /\ Accepts(p, op)
    /\ tab[x] # Null
    /\ tab[x].table = "campaign_posts"
    /\ Live("candidacies", tab[x].ref)
    /\ Hold(p, "findPost", op, x, Null)

FoundPost(p, op) ==
    At(p, "findPost") /\ req[p].op = op /\ Live("campaign_posts", req[p].x)

UpdatePost(p, content) ==
    /\ FoundPost(p, "updatePost")
    /\ Hold(p, "save", "updatePost", req[p].x, [tab[req[p].x] EXCEPT !.text = content])

PublishPost(p) ==
    /\ FoundPost(p, "publishPost")
    /\ ~tab[req[p].x].stamped
    /\ Hold(p, "save", "publishPost", req[p].x, [tab[req[p].x] EXCEPT !.stamped = TRUE])

RemovePost(p) ==
    /\ FoundPost(p, "removePost")
    /\ Hold(p, "softDelete", "removePost", req[p].x, Null)

\* The post is gone, or is published already and returned as it is.
LeavePost(p) ==
    /\ At(p, "findPost")
    /\ FoundPost(p, req[p].op) => req[p].op = "publishPost" /\ tab[req[p].x].stamped
    /\ Finish(p)
    /\ Reads

\* listAll: the posts the portal shows.
PublicPosts ==
    {x \in Ids : /\ Live("campaign_posts", x)
                 /\ tab[x].stamped
                 /\ Live("candidacies", tab[x].ref)
                 /\ tab[tab[x].ref].approved
                 /\ ~tab[tab[x].ref].rejected}

CampaignNext(p) ==
    \/ \E fee \in Fees \cup {Null} : CreatePosition(p, fee)
    \/ \E x \in Ids, active \in BOOLEAN, fee \in Fees \cup {Null} :
          UpdatePosition(p, x, active, fee)
    \/ \E x \in Ids :
          \/ RemovePosition(p, x) \/ WithdrawCandidacy(p, x)
          \/ ApproveCandidacy(p, x) \/ RejectCandidacy(p, x)
          \/ ApprovePayment(p, x) \/ RejectPayment(p, x)
          \/ \E op \in {"updatePost", "publishPost", "removePost"} : OnPost(p, op, x)
    \/ \E x \in Ids, to \in Ids \cup {Null} : UpdateCandidacy(p, x, to)
    \/ \E x \in Ids, text \in Texts :
          SubmitPayment(p, x, text) \/ UpsertProgram(p, x, text) \/ CreatePost(p, x, text)
    \/ AssertActivePosition(p) \/ FindPosition(p) \/ FindPayment(p) \/ FindProgram(p)
    \/ \E text \in Texts : UpdatePost(p, text)
    \/ PublishPost(p) \/ RemovePost(p) \/ LeavePost(p)

=============================================================================
