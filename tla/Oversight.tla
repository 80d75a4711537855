----------------------------- MODULE Oversight -----------------------------
(***************************************************************************)
(* src/oversight: what the elected say they achieved, its review and its   *)
(* contestations, the questions they are asked, and the audit log that     *)
(* approve, reject, resolve and hide write in a second statement.          *)
(***************************************************************************)
EXTENDS OfficeData

-----------------------------------------------------------------------------
(***************************************************************************)
(* action-category.service.ts.                                             *)
(***************************************************************************)
NewCategory == Blank("action_categories")

CreateCategory(p) ==
    /\ Accepts(p, "createCategory")
    /\ Hold(p, "insert", "createCategory", Null, NewCategory)

UpdateCategory(p, x, active) ==
    /\ Accepts(p, "updateCategory")
    /\ Live("action_categories", x)
    /\ Hold(p, "save", "updateCategory", x, [tab[x] EXCEPT !.active = active])

RemoveCategory(p, x) ==
    /\ Accepts(p, "removeCategory")
    /\ Live("action_categories", x)
    /\ Hold(p, "softDelete", "removeCategory", x, Null)

-----------------------------------------------------------------------------
(***************************************************************************)
(* achievement.service.ts.  The category is looked at when an achievement  *)
(* is created and never again, so that the row does not keep it here.      *)
(***************************************************************************)
NewAchievement(c, text) == [Blank("achievements") EXCEPT !.ref = c, !.text = text]

\* assertPending, on the entity the handler has loaded.
NotTreated(row) == ~row.approved /\ ~row.rejected

CreateAchievement(p, c, category, text) ==
    /\ Accepts(p, "createAchievement")
    /\ Live("candidacies", c)
    /\ tab[c].approved
    /\ ~tab[c].rejected
    /\ LookUp(p, "findCategory", "createAchievement", Null, NewAchievement(c, text),
              category)

FindCategory(p) ==
    /\ At(p, "findCategory")
    /\ GoOnIf(p, Live("action_categories", req[p].to) /\ tab[req[p].to].active, "insert")

\* getById, then assertOwnCandidacy, and only then assertPending, on what
\* getById had found.
UpdateAchievement(p, x, text) ==
    /\ Accepts(p, "updateAchievement")
    /\ Live("achievements", x)
    /\ LookUp(p, "assertOwnCandidacy", "updateAchievement", x,
              [tab[x] EXCEPT !.text = text], tab[x].ref)

WithdrawAchievement(p, x) ==
    /\ Accepts(p, "withdrawAchievement")
    /\ Live("achievements", x)
    /\ LookUp(p, "assertOwnCandidacy", "withdrawAchievement", x, tab[x], tab[x].ref)

AssertOwnCandidacy(p) ==
    /\ At(p, "assertOwnCandidacy")
    /\ GoOnIf(p, Live("candidacies", req[p].to) /\ NotTreated(req[p].ent),
              IF req[p].op = "updateAchievement" THEN "save" ELSE "softDelete")

ApproveAchievement(p, x) ==
    /\ Accepts(p, "approveAchievement")
    /\ Live("achievements", x)
    /\ NotTreated(tab[x])
    /\ Hold(p, "save", "approveAchievement", x, [tab[x] EXCEPT !.approved = TRUE])

RejectAchievement(p, x) ==
    /\ Accepts(p, "rejectAchievement")
    /\ Live("achievements", x)
    /\ NotTreated(tab[x])
    /\ Hold(p, "save", "rejectAchievement", x, [tab[x] EXCEPT !.rejected = TRUE])

\* list: the achievements under each of its status filters.
ListAchievements(status) ==
    {x \in Ids : /\ Live("achievements", x)
                 /\ status = "pending" => NotTreated(tab[x])
                 /\ status = "approved" => tab[x].approved
                 /\ status = "rejected" => tab[x].rejected}

-----------------------------------------------------------------------------
(***************************************************************************)
(* contestation.service.ts; ref is the achievement, stamped resolvedAt.    *)
(***************************************************************************)
NewContestation(x) == [Blank("contestations") EXCEPT !.ref = x]

\* Mutant: any achievement may be contested.
ContestableUnreviewed(x) == Live("achievements", x)
Contestable(x) == Live("achievements", x) /\ tab[x].approved

Contest(p, x) ==
    /\ Accepts(p, "contest")
    /\ Contestable(x)
    /\ Hold(p, "insert", "contest", Null, NewContestation(x))

Resolve(p, x) ==
    /\ Accepts(p, "resolve")
    /\ Live("contestations", x)
    /\ ~tab[x].stamped
    /\ Hold(p, "save", "resolve", x, [tab[x] EXCEPT !.stamped = TRUE])

-----------------------------------------------------------------------------
(***************************************************************************)
(* question.service.ts; text is the answer, stamped hiddenAt.              *)
(***************************************************************************)
NewQuestion(c) == [Blank("questions") EXCEPT !.ref = c]

Ask(p, c) ==
    /\ Accepts(p, "ask")
    /\ Live("candidacies", c)
    /\ Hold(p, "insert", "ask", Null, NewQuestion(c))

\* The candidacy first, then the question.
Answer(p, x) ==
    /\ Accepts(p, "answer")
    /\ tab[x] # Null
    /\ tab[x].table = "questions"
    /\ Live("candidacies", tab[x].ref)
    /\ Hold(p, "findQuestion", "answer", x, Null)

FindQuestion(p, text) ==
    /\ At(p, "findQuestion")
    /\ LET x == req[p].x IN
       /\ Live("questions", x)
       /\ Hold(p, "save", "answer", x, [tab[x] EXCEPT !.text = text])

Hide(p, x) ==
    /\ Accepts(p, "hide")
    /\ Live("questions", x)
    /\ ~tab[x].stamped
    /\ Hold(p, "save", "hide", x, [tab[x] EXCEPT !.stamped = TRUE])

OversightNext(p) ==
    \/ CreateCategory(p)
    \/ \E x \in Ids, active \in BOOLEAN : UpdateCategory(p, x, active)
    \/ \E x \in Ids, category \in Ids, text \in Texts :
          CreateAchievement(p, x, category, text)
    \/ \E x \in Ids, text \in Texts : UpdateAchievement(p, x, text)
    \/ \E x \in Ids :
          \/ RemoveCategory(p, x) \/ WithdrawAchievement(p, x)
          \/ ApproveAchievement(p, x) \/ RejectAchievement(p, x)
          \/ Contest(p, x) \/ Resolve(p, x)
          \/ Ask(p, x) \/ Answer(p, x) \/ Hide(p, x)
    \/ FindCategory(p) \/ AssertOwnCandidacy(p)
    \/ \E text \in Texts : FindQuestion(p, text)

=============================================================================
