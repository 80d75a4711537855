----------------------------- MODULE Catalogue -----------------------------
(***************************************************************************)
(* The reference data: jurisdictions, a tree by parentId, the universities *)
(* and elections that belong to them, and the conditions of an election.   *)
(* jurisdiction.service.ts, university.service.ts, condition.service.ts;   *)
(* ref is the jurisdiction or the election a row belongs to.  The database *)
(* has no foreign key between these tables.                                *)
(***************************************************************************)
EXTENDS OfficeData

\* The rows of a table that findOne or count finds with ref = x.
Members(table, x) == {i \in Ids : Live(table, i) /\ tab[i].ref = x}

-----------------------------------------------------------------------------
\* With a parent or (federations always, states maybe) without.
NewJurisdiction(parent) == [Blank("jurisdictions") EXCEPT !.ref = parent]

CreateJurisdiction(p, parent) ==
    /\ Accepts(p, "createJurisdiction")
    /\ IF parent = Null
       THEN Hold(p, "insert", "createJurisdiction", Null, NewJurisdiction(Null))
       ELSE LookUp(p, "findParent", "createJurisdiction", Null,
                   NewJurisdiction(parent), parent)

FindParent(p) ==
    /\ At(p, "findParent")
    /\ GoOnIf(p, Live("jurisdictions", req[p].to), "insert")

\* The new parent is any id but the row's own.
UpdateJurisdiction(p, x, parent) ==
    /\ Accepts(p, "updateJurisdiction")
    /\ Live("jurisdictions", x)
    /\ parent # x
    /\ Hold(p, "save", "updateJurisdiction", x,
            IF parent = Null THEN tab[x] ELSE [tab[x] EXCEPT !.ref = parent])

RemoveJurisdiction(p, x) ==
    /\ Accepts(p, "removeJurisdiction")
    /\ Live("jurisdictions", x)
    /\ Hold(p, "countLinked", "removeJurisdiction", x, Null)

CountLinked(p) ==
    /\ At(p, "countLinked")
    /\ GoOnIf(p, Members("elections", req[p].x) = {}, "countChildren")

CountChildren(p) ==
    /\ At(p, "countChildren")
    /\ GoOnIf(p, Members("jurisdictions", req[p].x) = {}, "softDelete")

-----------------------------------------------------------------------------
NewUniversity(j) == [Blank("universities") EXCEPT !.ref = j]

CreateUniversity(p, j) ==
    /\ Accepts(p, "createUniversity")
    /\ IF j = Null THEN Hold(p, "insert", "createUniversity", Null, NewUniversity(Null))
       ELSE LookUp(p, "assertJurisdictionExists", "createUniversity", Null,
                   NewUniversity(j), j)

AssertJurisdictionExists(p) ==
    /\ At(p, "assertJurisdictionExists")
    /\ GoOnIf(p, Live("jurisdictions", req[p].to),
              IF req[p].op = "createUniversity" THEN "insert" ELSE "save")

\* Another jurisdiction, clearJurisdiction (j = Null), or only another name.
UpdateUniversity(p, x, j) ==
    /\ Accepts(p, "updateUniversity")
    /\ Live("universities", x)
    /\ LET ent == [tab[x] EXCEPT !.ref = j] IN
       \/ /\ j # Null
          /\ LookUp(p, "assertJurisdictionExists", "updateUniversity", x, ent, j)
       \/ j = Null /\ Hold(p, "save", "updateUniversity", x, ent)
       \/ j = Null /\ Hold(p, "save", "updateUniversity", x, tab[x])

RemoveUniversity(p, x) ==
    /\ Accepts(p, "removeUniversity")
    /\ Live("universities", x)
    /\ Hold(p, "softDelete", "removeUniversity", x, Null)

-----------------------------------------------------------------------------
NewCondition(e) == [Blank("conditions") EXCEPT !.ref = e]

\* assertElectionExists
CreateCondition(p, e) ==
    /\ Accepts(p, "createCondition")
    /\ Live("elections", e)
    /\ Hold(p, "insert", "createCondition", Null, NewCondition(e))

UpdateCondition(p, x, active) ==
    /\ Accepts(p, "updateCondition")
    /\ Live("conditions", x)
    /\ Hold(p, "save", "updateCondition", x, [tab[x] EXCEPT !.active = active])

RemoveCondition(p, x) ==
    /\ Accepts(p, "removeCondition")
    /\ Live("conditions", x)
    /\ Hold(p, "softDelete", "removeCondition", x, Null)

-----------------------------------------------------------------------------
(***************************************************************************)
(* election.service.ts, as far as jurisdictions and conditions go: the     *)
(* rest of it is ElectionService.  create looks for the jurisdiction       *)
(* before it inserts; remove is for drafts.                                *)
(***************************************************************************)
NewElection(j) == [Blank("elections") EXCEPT !.ref = j]

CreateElection(p, j) ==
    /\ Accepts(p, "createElection")
    /\ Live("jurisdictions", j)
    /\ Hold(p, "insert", "createElection", Null, NewElection(j))

RemoveElection(p, e) ==
    /\ Accepts(p, "removeElection")
    /\ Live("elections", e)
    /\ Hold(p, "softDelete", "removeElection", e, Null)

CatalogueNext(p) ==
    \/ \E x \in Ids \cup {Null} : CreateJurisdiction(p, x) \/ CreateUniversity(p, x)
    \/ \E x \in Ids, to \in Ids \cup {Null} :
          UpdateJurisdiction(p, x, to) \/ UpdateUniversity(p, x, to)
    \/ \E x \in Ids, active \in BOOLEAN : UpdateCondition(p, x, active)
    \/ \E x \in Ids :
          \/ RemoveJurisdiction(p, x) \/ RemoveUniversity(p, x)
          \/ CreateCondition(p, x) \/ RemoveCondition(p, x)
          \/ CreateElection(p, x) \/ RemoveElection(p, x)
    \/ FindParent(p) \/ CountLinked(p) \/ CountChildren(p)
    \/ AssertJurisdictionExists(p)

=============================================================================
