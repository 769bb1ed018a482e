----------------------------- MODULE StorageRoots -----------------------------
(***************************************************************************)
(* The directories a library indexes or writes to (roots.go, and the root  *)
(* operations of documents.go): planned, confirmed, consolidated under a   *)
(* parent, paused, retired; the views of their sub-directories; and where  *)
(* the scanner places the files it finds.                                  *)
(*                                                                         *)
(* A directory is the sequence of its components, so one is inside another *)
(* when the other is a prefix of it.  A write transaction is one step.     *)
(* The row of a root is named by its directory: no directory that still    *)
(* has a row outside "superseded" is registered again, and one that is     *)
(* superseded stays inside the root that replaced it.                      *)
(*                                                                         *)
(* The steps take what else the transaction reads or writes in Extraction  *)
(* as a parameter or leave it to the step that calls them.                 *)
(***************************************************************************)
EXTENDS Naturals, Sequences, SequencesExt

CONSTANTS
    Libs,       \* libraries
    Dirs,       \* directories that users may register
    Files,      \* linked PDF files
    PathOf,     \* the path of each
    MaxPlans,   \* bound: plans of roots
    Views,      \* logical views of sub-directories
    ViewedDir   \* the sub-directory each shows

None == "none"
Nowhere == << >>
Sources == {"linked", "managed"}

ASSUME RootsAssumption ==
    /\ PathOf \in [Files -> Seq(STRING)] /\ ViewedDir \in [Views -> Seq(STRING)]
    /\ Dirs \subseteq Seq(STRING) \ {<< >>} /\ MaxPlans \in Nat

VARIABLES
    library,        \* mode and current_configuration_revision
    roots,          \* storage_roots; replaced: it was superseded once
    plans,          \* root_plans
    retirements,    \* root_operations of kind "retire"
    located,        \* physical_file_locations with no retired_at
    views,          \* logical_folder_views
    scan            \* the root a scan works with, read before its transactions,
                    \* and the files it has still to visit

tables == <<library, plans, retirements, views>>
rootsVars == <<tables, roots, located, scan>>

Statuses == {"active", "inaccessible", "disabled", "retired", "superseded"}
NoRoot == [status |-> None, lib |-> None, source |-> None, revision |-> 0,
           replaced |-> FALSE]
NoPlace == [root |-> Nowhere, relative |-> <<>>]
NoScan == [root |-> Nowhere, revision |-> 0, todo |-> {}]

\* within and equal together
Within(parent, path) == IsPrefix(parent, path)
Below(parent, path) == SubSeq(path, Len(parent) + 1, Len(path))

Registered(d) == roots[d].status \notin {None, "superseded"}
Verifiable(d) == roots[d].status \in {"active", "inaccessible"}

Place == [root : Dirs, relative : Seq(STRING)]

RootsTypeOK ==
    /\ library \in [Libs -> [mode : Sources \cup {"hybrid"}, revision : Nat]]
    /\ roots \in [Dirs -> {NoRoot} \cup
                  [status : Statuses, lib : Libs, source : Sources,
                   revision : Nat \ {0}, replaced : BOOLEAN]]
    /\ plans \in Seq([lib : Libs, dir : Dirs, source : Sources, revision : Nat,
                      relation : {"distinct", "equal", "descendant", "ancestor"},
                      related : SUBSET Dirs, committed : BOOLEAN])
    /\ Len(plans) <= MaxPlans
    /\ \A r \in retirements : r.root \in Dirs
    /\ located \in [Files -> {NoPlace} \cup Place]
    /\ views \in [Views -> {NoPlace} \cup Place]
    /\ scan = NoScan \/ scan \in [root : Dirs, revision : Nat, todo : SUBSET Files]

-----------------------------------------------------------------------------
(* Plan and confirmation. *)

Related(d) == {r \in Dirs : Registered(r) /\ (Within(r, d) \/ Within(d, r))}

Relation(d) ==
    IF Registered(d) THEN "equal"
    ELSE IF \E r \in Related(d) : Within(r, d) THEN "descendant"
    ELSE IF Related(d) = {} THEN "distinct"
    ELSE "ancestor"

\* An overlap with another library's root is refused, whichever the relation.
OwnOverlaps(l, d) == \A r \in Related(d) : roots[r].lib = l

\* requireRootSource
SourceAdmitted(l, source, related) ==
    /\ source = "managed" => library[l].mode # "linked" /\ related = {}
    /\ source = "linked"  => library[l].mode # "managed"
    /\ \A r \in related : roots[r].source = source

\* Mutant: trusts the relation of the plan, since the library's revision is
\* still the planned one.
UnchangedByRevision(plan) == TRUE

\* What the confirmation finds must be what the plan showed.
Unchanged(plan) ==
    /\ OwnOverlaps(plan.lib, plan.dir)
    /\ plan.relation = Relation(plan.dir)
    /\ plan.related = Related(plan.dir)

Reconfigured(l) == [library EXCEPT ![l].revision = @ + 1]

PlanRoot(l, d, source) ==
    /\ Len(plans) < MaxPlans
    /\ OwnOverlaps(l, d)
    /\ SourceAdmitted(l, source, Related(d))
    /\ plans' = Append(plans,
           [lib |-> l, dir |-> d, source |-> source, committed |-> FALSE,
            relation |-> Relation(d), related |-> Related(d),
            revision |-> library[l].revision])
    /\ UNCHANGED <<library, retirements, views, roots, located, scan>>

\* consolidate: what was placed in a child is placed in the parent instead.
Replanted(place, parent, children) ==
    IF place # NoPlace /\ place.root \in children
    THEN [root |-> parent, relative |-> Below(parent, place.root) \o place.relative]
    ELSE place

\* A plan that expired is one that nobody confirms.  An ancestor needs the
\* user's word for consolidating; given, there is nothing more to it.
ConfirmRoot(p) ==
    LET plan == plans[p] IN
    /\ ~plan.committed
    /\ library[plan.lib].revision = plan.revision
    /\ SourceAdmitted(plan.lib, plan.source, Related(plan.dir))
    /\ Unchanged(plan)
    /\ plan.relation \in {"distinct", "ancestor"}
    /\ roots' = [r \in Dirs |->
           IF r = plan.dir
           THEN [status |-> "active", lib |-> plan.lib, source |-> plan.source,
                 revision |-> 1, replaced |-> FALSE]
           ELSE IF r \in plan.related
           THEN [roots[r] EXCEPT !.status = "superseded", !.replaced = TRUE,
                                 !.revision = @ + 1]
           ELSE roots[r]]
    /\ located' = [f \in Files |-> Replanted(located[f], plan.dir, plan.related)]
    /\ views' = [v \in Views |-> Replanted(views[v], plan.dir, plan.related)]
    /\ library' = Reconfigured(plan.lib)
    /\ plans' = [plans EXCEPT ![p].committed = TRUE]
    /\ UNCHANGED <<retirements, scan>>

AddView(v, d) ==
    /\ views[v] = NoPlace
    /\ Registered(d) /\ Within(d, ViewedDir[v]) /\ d # ViewedDir[v]
    /\ views' = [views EXCEPT ![v] =
           [root |-> d, relative |-> Below(d, ViewedDir[v])]]
    /\ UNCHANGED <<library, plans, retirements, roots, located, scan>>

\* A retired root can be enabled again, one that is superseded cannot.
ConfigureRoot(d, enabled) ==
    /\ Registered(d)
    /\ roots' = [roots EXCEPT ![d].status = IF enabled THEN "active" ELSE "disabled",
                              ![d].revision = @ + 1]
    /\ library' = Reconfigured(roots[d].lib)
    /\ UNCHANGED <<plans, retirements, views, located, scan>>

\* updateSettings: the only change of mode is to hybrid.  UpdateConfiguration
\* counts a revision.
Extend(l) ==
    /\ library[l].mode # "hybrid"
    /\ library' = [Reconfigured(l) EXCEPT ![l].mode = "hybrid"]
    /\ UNCHANGED <<plans, retirements, views, roots, located, scan>>

-----------------------------------------------------------------------------
(* Retirement. *)

References(d) == {f \in Files : located[f] # NoPlace /\ located[f].root = d}

\* impact: the documents of the root that are not deleted.  The revision is read
\* just before the transaction; an older one only makes the plan stale.
RetirementPlan(d, impact) ==
    /\ roots[d] # NoRoot
    /\ retirements' = retirements \cup
           {[root |-> d, revision |-> roots[d].revision,
             references |-> Cardinality(References(d)), impact |-> impact]}
    /\ UNCHANGED <<library, plans, views, roots, located, scan>>

\* Mutant: the revision of the root is taken for all there is to compare.
StillPlannedByRevision(r, impact) == roots[r.root].revision = r.revision

StillPlanned(r, impact) ==
    /\ roots[r.root].revision = r.revision
    /\ Cardinality(References(r.root)) = r.references
    /\ impact = r.impact

\* The status is not looked at: a superseded root can be planned and retired
\* too, which brings it back among those registered.
Retire(r, impact) ==
    /\ StillPlanned(r, impact)
    /\ roots' = [roots EXCEPT ![r.root].status = "retired", ![r.root].revision = @ + 1]
    /\ library' = Reconfigured(roots[r.root].lib)
    /\ UNCHANGED <<plans, retirements, views, located, scan>>

-----------------------------------------------------------------------------
(* Placing what a scan finds.  Reconciliation has the walk; here is only    *)
(* what it does to the tables above.                                        *)

\* checkRootRevision
SameRoot(d, revision) == roots[d].revision = revision /\ Verifiable(d)

BeginScan(d) ==
    /\ scan = NoScan
    /\ Verifiable(d) /\ roots[d].source = "linked"
    /\ scan' = [root |-> d, revision |-> roots[d].revision,
                todo |-> {f \in Files : Within(d, PathOf[f])}]
    /\ UNCHANGED <<tables, roots, located>>

\* ingest: a path that is placed already, in whichever root, stays there.
Ingest(f) ==
    /\ f \in scan.todo
    /\ SameRoot(scan.root, scan.revision)
    /\ located' = [located EXCEPT ![f] =
           IF @ # NoPlace THEN @
           ELSE [root |-> scan.root, relative |-> Below(scan.root, PathOf[f])]]
    /\ scan' = [scan EXCEPT !.todo = @ \ {f}]
    /\ UNCHANGED <<tables, roots>>

\* The last transaction of the scan; a root that could not be read is again
\* active.
EndScan ==
    /\ scan # NoScan /\ scan.todo = {}
    /\ SameRoot(scan.root, scan.revision)
    /\ roots' = [roots EXCEPT ![scan.root].status = "active"]
    /\ scan' = NoScan
    /\ UNCHANGED <<tables, located>>

\* ROOT_PLAN_STALE, in whichever transaction.
AbandonScan ==
    /\ scan # NoScan /\ ~SameRoot(scan.root, scan.revision)
    /\ scan' = NoScan
    /\ UNCHANGED <<tables, roots, located>>

\* scanError with ROOT_UNAVAILABLE: the directory cannot be read.
LoseScan ==
    /\ scan # NoScan
    /\ roots' = IF SameRoot(scan.root, scan.revision)
                THEN [roots EXCEPT ![scan.root].status = "inaccessible"] ELSE roots
    /\ scan' = NoScan
    /\ UNCHANGED <<tables, located>>

-----------------------------------------------------------------------------
\* No registered root lies inside another, in this library or in the rest:
\* each file is watched, scanned and retired through one root ("Raíces sin
\* solapamiento", SCHEMA.md).  The exception is a root that was superseded
\* and, which Retire does not rule out, retired afterwards.
RootsDisjoint ==
    \A d, e \in Dirs :
        Registered(d) /\ Registered(e) /\ d # e /\ Within(d, e) => roots[e].replaced

\* A file and a view stay in a registered root and their relative path names,
\* from there, the same place on disk, whatever consolidations and scans have
\* done (consolidate, ingest).
PlacesHold ==
    /\ \A f \in Files : located[f] # NoPlace =>
          Registered(located[f].root) /\ located[f].root \o located[f].relative = PathOf[f]
    /\ \A v \in Views : views[v] # NoPlace =>
          Registered(views[v].root) /\ views[v].root \o views[v].relative = ViewedDir[v]

\* What makes a root safe to scan and to retire: no directory is watched through
\* two roots, and every file and view of the catalogue stays reachable through
\* the one it was moved to (createRoot, consolidate, ConfigureRoot, ingest).
RootsAreSound == RootsDisjoint /\ PlacesHold
=============================================================================
