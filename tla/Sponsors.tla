------------------------------ MODULE Sponsors ------------------------------
(***************************************************************************)
(* sponsor.service.ts: anybody asks to become a sponsor, the commission    *)
(* approves or rejects; administrators create and edit sponsors.           *)
(***************************************************************************)
EXTENDS OfficeData

NewSponsor(text) == [Blank("sponsors") EXCEPT !.text = text]

\* Mutant: approvedAt only is looked at.
NotApprovedYet(row) == ~row.approved

\* assertPending, on the entity the handler has loaded.
Waiting(row) == ~row.approved /\ ~row.rejected

SubmitSponsor(p, text) ==
    /\ Accepts(p, "submitSponsor")
    /\ Hold(p, "insert", "submitSponsor", Null, NewSponsor(text))

SubmitSponsorByAdmin(p, text) ==
    /\ Accepts(p, "submitSponsorByAdmin")
    /\ Hold(p, "insert", "submitSponsorByAdmin", Null,
            [NewSponsor(text) EXCEPT !.approved = TRUE])

\* Mutant: a sponsor that was edited is to be reviewed again.
EditedForReview(row, active, text) ==
    [row EXCEPT !.active = active, !.text = text, !.approved = FALSE]

\* Reviewed or not.
Edited(row, active, text) == [row EXCEPT !.active = active, !.text = text]

UpdateSponsor(p, x, active, text) ==
    /\ Accepts(p, "updateSponsor")
    /\ Live("sponsors", x)
    /\ Hold(p, "save", "updateSponsor", x, Edited(tab[x], active, text))

\* The logo is a column of its own; what matters is that the entity is saved.
UploadLogo(p, x) ==
    /\ Accepts(p, "uploadLogo")
    /\ Live("sponsors", x)
    /\ Hold(p, "save", "uploadLogo", x, tab[x])

ApproveSponsor(p, x) ==
    /\ Accepts(p, "approveSponsor")
    /\ Live("sponsors", x)
    /\ Waiting(tab[x])
    /\ Hold(p, "save", "approveSponsor", x, [tab[x] EXCEPT !.approved = TRUE])

RejectSponsor(p, x) ==
    /\ Accepts(p, "rejectSponsor")
    /\ Live("sponsors", x)
    /\ Waiting(tab[x])
    /\ Hold(p, "save", "rejectSponsor", x, [tab[x] EXCEPT !.rejected = TRUE])

RemoveSponsor(p, x) ==
    /\ Accepts(p, "removeSponsor")
    /\ Live("sponsors", x)
    /\ Hold(p, "softDelete", "removeSponsor", x, Null)

\* listPublic: the sponsors the portal shows; rejectedAt is not looked at.
PublicSponsors == {x \in Ids : Live("sponsors", x) /\ tab[x].approved /\ tab[x].active}

\* listAdmin: the sponsors under each of its status filters.
ListSponsors(status) ==
    {x \in Ids : /\ Live("sponsors", x)
                 /\ status = "pending" => Waiting(tab[x])
                 /\ status = "approved" => tab[x].approved
                 /\ status = "rejected" => tab[x].rejected}

SponsorNext(p) ==
    \/ \E text \in Texts : SubmitSponsor(p, text) \/ SubmitSponsorByAdmin(p, text)
    \/ \E x \in Ids, active \in BOOLEAN, text \in Texts : UpdateSponsor(p, x, active, text)
    \/ \E x \in Ids : \/ UploadLogo(p, x) \/ ApproveSponsor(p, x)
                      \/ RejectSponsor(p, x) \/ RemoveSponsor(p, x)

=============================================================================
