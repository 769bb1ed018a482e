------------------------- MODULE StorageRoots_proofs -------------------------
(***************************************************************************)
(* Proofs about StorageRoots for any directories, files, views and plans:  *)
(* every operation on roots keeps them apart and keeps the places of files *)
(* and views.  Library_proofs puts them together with the steps of a       *)
(* library.                                                                *)
(*                                                                         *)
(* That no root lies inside another needs two more facts: a superseded     *)
(* root stays inside a registered one (so that a retirement which brings   *)
(* it back, and one that would be its parent, only concern roots that were *)
(* replaced), and a scan only visits files below its root.                 *)
(***************************************************************************)
EXTENDS StorageRoots, SequenceTheorems, TLAPS

-----------------------------------------------------------------------------
(* Paths. *)

Paths == Seq(STRING)

\* A directory is inside another when it begins with the same components.
LEMMA WithinPointwise ==
    ASSUME NEW s \in Paths, NEW t \in Paths
    PROVE  Within(s, t) <=> Len(s) <= Len(t) /\ \A i \in 1 .. Len(s) : s[i] = t[i]
<1>1. Len(s) \in Nat /\ Len(t) \in Nat
  BY LenProperties DEF Paths
<1>2. SubSeq(s, 1, Len(s)) = s
  BY SubSeqFull DEF Paths
<1>3. ASSUME Len(s) <= Len(t)
      PROVE  SubSeq(s, 1, Len(s)) = SubSeq(t, 1, Len(s))
                <=> \A i \in 1 .. Len(s) : s[i] = t[i]
  <2>1. \A i \in 1 .. Len(s) : t[i] \in STRING
    BY <1>1, <1>3, ElementOfSeq DEF Paths
  <2>2. /\ SubSeq(t, 1, Len(s)) \in Seq(STRING)
        /\ Len(SubSeq(t, 1, Len(s))) = Len(s)
        /\ \A i \in 1 .. Len(s) : SubSeq(t, 1, Len(s))[i] = t[i]
    <3> HIDE DEF Paths
    <3>1. /\ SubSeq(t, 1, Len(s)) \in Seq(STRING)
          /\ Len(SubSeq(t, 1, Len(s))) = IF 1 <= Len(s) THEN Len(s) - 1 + 1 ELSE 0
          /\ \A i \in 1 .. Len(s) - 1 + 1 : SubSeq(t, 1, Len(s))[i] = t[1 + i - 1]
      BY <1>1, <2>1, SubSeqProperties
    <3> QED BY <3>1, <1>1
  <2>3. ASSUME \A i \in 1 .. Len(s) : s[i] = t[i]
        PROVE  s = SubSeq(t, 1, Len(s))
    BY <2>2, <2>3, SeqEqual DEF Paths
  <2> QED BY <1>2, <2>2, <2>3
<1> QED BY <1>3 DEF Within, IsPrefix

LEMMA WithinItself == ASSUME NEW s \in Paths PROVE Within(s, s)
<1> QED BY WithinPointwise, LenProperties DEF Paths

LEMMA WithinTransitive ==
    ASSUME NEW s \in Paths, NEW t \in Paths, NEW u \in Paths, Within(s, t), Within(t, u)
    PROVE  Within(s, u)
<1>1. Len(s) \in Nat /\ Len(t) \in Nat /\ Len(u) \in Nat
  BY LenProperties DEF Paths
<1> QED BY <1>1, WithinPointwise

LEMMA WithinBothWays ==
    ASSUME NEW s \in Paths, NEW t \in Paths, Within(s, t), Within(t, s)
    PROVE  s = t
<1>1. Len(s) \in Nat /\ Len(t) \in Nat
  BY LenProperties DEF Paths
<1> QED BY <1>1, WithinPointwise, SeqEqual DEF Paths

\* A path is the directory it is inside of, followed by what comes below.
LEMMA BelowRebuilds ==
    ASSUME NEW s \in Paths, NEW t \in Paths, Within(s, t)
    PROVE  Below(s, t) \in Paths /\ s \o Below(s, t) = t
<1>1. Len(s) \in Nat /\ Len(t) \in Nat /\ Len(s) <= Len(t)
  BY LenProperties DEF Paths, Within, IsPrefix
<1>2. SubSeq(t, 1, Len(s)) = s
  BY SubSeqFull DEF Paths, Within, IsPrefix
<1>3. SubSeq(t, 1, Len(s)) \o SubSeq(t, Len(s) + 1, Len(t)) = SubSeq(t, 1, Len(t))
  <2>1. /\ t \in Seq(STRING)
        /\ 1 \in 1 .. Len(t) + 1 /\ Len(s) \in 1 - 1 .. Len(t) /\ Len(t) \in Len(s) .. Len(t)
    BY <1>1 DEF Paths
  <2> HIDE DEF Paths
  <2> QED BY ONLY <2>1, ConcatAdjacentSubSeq
<1>4. SubSeq(t, 1, Len(t)) = t
  BY SubSeqFull DEF Paths
<1>5. Below(s, t) \in Paths
  <2>1. \A i \in Len(s) + 1 .. Len(t) : t[i] \in STRING
    BY <1>1, ElementOfSeq DEF Paths
  <2>2. SubSeq(t, Len(s) + 1, Len(t)) \in Seq(STRING)
    BY <1>1, <2>1, SubSeqProperties
  <2> QED BY <2>2 DEF Below, Paths
<1> QED BY <1>2, <1>3, <1>4, <1>5 DEF Below

\* Moving a place from a root to one above it names the same path.
LEMMA ReplantedPath ==
    ASSUME NEW p \in Paths, NEW r \in Paths, NEW relative \in Paths, Within(p, r)
    PROVE  /\ Below(p, r) \o relative \in Paths
           /\ p \o (Below(p, r) \o relative) = r \o relative
<1>1. Below(p, r) \in Paths /\ p \o Below(p, r) = r
  BY BelowRebuilds
<1>2. (p \o Below(p, r)) \o relative = p \o (Below(p, r) \o relative)
  <2>1. p \in Seq(STRING) /\ Below(p, r) \in Seq(STRING) /\ relative \in Seq(STRING)
    BY <1>1 DEF Paths
  <2> QED BY ONLY <2>1, ConcatAssociative
<1> QED BY <1>1, <1>2, ConcatProperties DEF Paths

-----------------------------------------------------------------------------
(* The invariant. *)

\* The parts of RootsTypeOK, for the actions that disturb one of them.
RootTypes == {NoRoot} \cup
    [status : Statuses, lib : Libs, source : Sources, revision : Nat \ {0},
     replaced : BOOLEAN]
LibraryTypes == [mode : Sources \cup {"hybrid"}, revision : Nat]
PlanTypes == [lib : Libs, dir : Dirs, source : Sources, revision : Nat,
              relation : {"distinct", "equal", "descendant", "ancestor"},
              related : SUBSET Dirs, committed : BOOLEAN]

\* A scan visits files below its root.
ScanBelowRoot == scan # NoScan => \A f \in scan.todo : Within(scan.root, PathOf[f])

\* A superseded root was replaced, by a registered root above it.
SupersededInside ==
    \A r \in Dirs : roots[r].status = "superseded" =>
        /\ roots[r].replaced
        /\ \E p \in Dirs : Registered(p) /\ p # r /\ Within(p, r)

\* What was planned to be retired has a row, since rows are never deleted.
PlannedHaveRows == \A r \in retirements : roots[r.root] # NoRoot

RootsInv ==
    /\ RootsTypeOK /\ ScanBelowRoot /\ SupersededInside /\ RootsDisjoint /\ PlacesHold
    /\ PlannedHaveRows

\* What the proofs need to know of the constants.
LEMMA DirsArePaths ==
    /\ \A d \in Dirs : d \in Paths /\ d # Nowhere
    /\ \A f \in Files : PathOf[f] \in Paths
    /\ \A v \in Views : ViewedDir[v] \in Paths
BY RootsAssumption DEF Paths, Nowhere

\* A step that leaves the roots and the places as they are.
LEMMA RootsUnchanged ==
    ASSUME RootsInv, UNCHANGED <<roots, located, views>>,
           library' \in [Libs -> LibraryTypes],
           plans' \in Seq(PlanTypes), Len(plans') <= MaxPlans,
           \A r \in retirements' : r.root \in Dirs /\ roots[r.root] # NoRoot,
           scan' = scan \/ scan' = NoScan
    PROVE  RootsInv'
<1>1. RootsTypeOK'
  BY DEF RootsInv, RootsTypeOK, LibraryTypes, PlanTypes
<1>2. ScanBelowRoot' /\ SupersededInside' /\ RootsDisjoint' /\ PlacesHold'
      /\ PlannedHaveRows'
  BY DEF RootsInv, ScanBelowRoot, SupersededInside, RootsDisjoint, PlacesHold, Registered,
         PlannedHaveRows
<1> QED BY <1>1, <1>2 DEF RootsInv

LEMMA TypesOfRootsInv ==
    ASSUME RootsInv
    PROVE  /\ library \in [Libs -> LibraryTypes]
           /\ roots \in [Dirs -> RootTypes]
           /\ plans \in Seq(PlanTypes) /\ Len(plans) <= MaxPlans
           /\ \A r \in retirements : r.root \in Dirs /\ roots[r.root] # NoRoot
           /\ located \in [Files -> {NoPlace} \cup Place]
           /\ views \in [Views -> {NoPlace} \cup Place]
BY DEF RootsInv, RootsTypeOK, LibraryTypes, RootTypes, PlanTypes, PlannedHaveRows

LEMMA RelationTyped ==
    ASSUME NEW d \in Dirs
    PROVE  /\ Relation(d) \in {"distinct", "equal", "descendant", "ancestor"}
           /\ Related(d) \in SUBSET Dirs
<1>1. Relation(d) \in {"distinct", "equal", "descendant", "ancestor"}
  BY DEF Relation
<1> QED BY <1>1 DEF Related

\* A plan is only a row.
LEMMA PlanRootInv ==
    ASSUME RootsInv, NEW l \in Libs, NEW d \in Dirs, NEW source \in Sources,
           PlanRoot(l, d, source)
    PROVE  RootsInv'
<1> DEFINE plan == [lib |-> l, dir |-> d, source |-> source, committed |-> FALSE,
                    relation |-> Relation(d), related |-> Related(d),
                    revision |-> library[l].revision]
<1>1. plan \in PlanTypes
  <2>1. library[l].revision \in Nat
    BY TypesOfRootsInv DEF LibraryTypes
  <2> QED BY <2>1, RelationTyped DEF PlanTypes
<1>2. plans' = Append(plans, plan) /\ Len(plans) < MaxPlans
  BY DEF PlanRoot
<1>3. plans' \in Seq(PlanTypes) /\ Len(plans') = Len(plans) + 1 /\ Len(plans) \in Nat
  <2> HIDE DEF plan
  <2> QED BY <1>1, <1>2, TypesOfRootsInv, AppendProperties, LenProperties
<1>4. Len(plans') <= MaxPlans
  BY <1>2, <1>3, RootsAssumption
<1>5. UNCHANGED <<library, retirements, views, roots, located, scan>>
  BY DEF PlanRoot
<1> QED BY <1>3, <1>4, <1>5, TypesOfRootsInv, RootsUnchanged

LEMMA RetirementPlanInv ==
    ASSUME RootsInv, NEW d \in Dirs, NEW impact, RetirementPlan(d, impact)
    PROVE  RootsInv'
<1>1. \A r \in retirements' : r.root \in Dirs /\ roots[r.root] # NoRoot
  BY TypesOfRootsInv DEF RetirementPlan
<1>2. UNCHANGED <<library, plans, views, roots, located, scan>>
  BY DEF RetirementPlan
<1> QED BY <1>1, <1>2, TypesOfRootsInv, RootsUnchanged

LEMMA ReconfiguredTyped ==
    ASSUME RootsInv, NEW l \in Libs
    PROVE  Reconfigured(l) \in [Libs -> LibraryTypes]
<1>1. library \in [Libs -> LibraryTypes]
  BY TypesOfRootsInv
<1> QED BY <1>1 DEF Reconfigured, LibraryTypes

LEMMA ExtendInv ==
    ASSUME RootsInv, NEW l \in Libs, Extend(l)
    PROVE  RootsInv'
<1>1. library' \in [Libs -> LibraryTypes]
  BY ReconfiguredTyped DEF Extend, LibraryTypes
<1>2. UNCHANGED <<plans, retirements, views, roots, located, scan>>
  BY DEF Extend
<1> QED BY <1>1, <1>2, TypesOfRootsInv, RootsUnchanged

-----------------------------------------------------------------------------
(* One root changes its status. *)

\* The scan that goes on below its root, or ends.
LEMMA StatusChange ==
    ASSUME RootsInv, NEW d \in Dirs, roots[d] # NoRoot,
           NEW status \in {"active", "inaccessible", "disabled", "retired"},
           Registered(d) \/ status = "retired",
           NEW revision \in Nat \ {0},
           roots' = [roots EXCEPT ![d].status = status, ![d].revision = revision],
           library' \in [Libs -> LibraryTypes],
           UNCHANGED <<plans, retirements, views, located>>,
           scan' = scan \/ scan' = NoScan
    PROVE  RootsInv'
<1>1. roots \in [Dirs -> RootTypes]
  BY TypesOfRootsInv
<1>2. roots[d] \in RootTypes \ {NoRoot}
  BY <1>1
<1>3. /\ roots' \in [Dirs -> RootTypes]
      /\ roots'[d].status = status /\ roots'[d].replaced = roots[d].replaced
      /\ \A r \in Dirs \ {d} : roots'[r] = roots[r]
  BY <1>1, <1>2 DEF RootTypes, Statuses
<1>4. Registered(d)'
  BY <1>3 DEF Registered, None
<1>5. \A r \in Dirs \ {d} : Registered(r)' <=> Registered(r)
  BY <1>3 DEF Registered
<1>6. RootsTypeOK'
  BY <1>3, TypesOfRootsInv DEF RootsInv, RootsTypeOK, LibraryTypes, RootTypes, PlanTypes
<1>7. ScanBelowRoot'
  BY DEF RootsInv, ScanBelowRoot
<1>8. SupersededInside'
  <2> SUFFICES ASSUME NEW r \in Dirs, roots'[r].status = "superseded"
               PROVE  /\ roots'[r].replaced
                      /\ \E p \in Dirs : Registered(p)' /\ p # r /\ Within(p, r)
    BY DEF SupersededInside
  <2>1. r # d
    BY <1>3
  <2> QED BY <2>1, <1>3, <1>4, <1>5 DEF RootsInv, SupersededInside
<1>9. RootsDisjoint'
  <2> SUFFICES ASSUME NEW p \in Dirs, NEW e \in Dirs,
                      Registered(p)', Registered(e)', p # e, Within(p, e)
               PROVE  roots'[e].replaced
    BY DEF RootsDisjoint
  <2>1. roots'[e].replaced = roots[e].replaced
    BY <1>3
  <2>2. CASE Registered(d)
    BY <2>1, <2>2, <1>5 DEF RootsInv, RootsDisjoint
  <2>3. CASE ~Registered(d)
    \* It was superseded: replaced itself, and inside a registered root.
    <3>1. roots[d].status = "superseded"
      BY <2>3, <1>2 DEF Registered, RootTypes, Statuses, None
    <3>2. PICK q \in Dirs : Registered(q) /\ q # d /\ Within(q, d)
      BY <3>1 DEF RootsInv, SupersededInside
    <3>3. CASE e = d
      BY <3>1, <3>3, <2>1 DEF RootsInv, SupersededInside
    <3>4. CASE e # d /\ p # d
      BY <3>4, <2>1, <1>5 DEF RootsInv, RootsDisjoint
    <3>5. CASE e # d /\ p = d
      <4>1. Within(q, e)
        BY <3>2, <3>5, WithinTransitive, DirsArePaths
      <4>2. q # e
        BY <3>2, <3>5, WithinBothWays, DirsArePaths
      <4> QED BY <4>1, <4>2, <3>2, <3>5, <2>1, <1>5 DEF RootsInv, RootsDisjoint
    <3> QED BY <3>3, <3>4, <3>5
  <2> QED BY <2>2, <2>3
<1>10. PlacesHold'
  BY <1>4, <1>5, TypesOfRootsInv DEF RootsInv, PlacesHold, Place
<1>11. PlannedHaveRows'
  BY <1>2, <1>3, TypesOfRootsInv DEF PlannedHaveRows, NoRoot, None
<1> QED BY <1>6, <1>7, <1>8, <1>9, <1>10, <1>11 DEF RootsInv

LEMMA RevisionTyped ==
    ASSUME RootsInv, NEW d \in Dirs, roots[d] # NoRoot
    PROVE  /\ roots[d].lib \in Libs
           /\ roots[d].revision \in Nat \ {0} /\ roots[d].revision + 1 \in Nat \ {0}
BY TypesOfRootsInv DEF RootTypes

LEMMA RegisteredIsRoot ==
    ASSUME NEW d \in Dirs
    PROVE  /\ Registered(d) => roots[d] # NoRoot
           /\ Verifiable(d) => Registered(d)
BY DEF Registered, Verifiable, NoRoot, None

LEMMA ConfigureRootInv ==
    ASSUME RootsInv, NEW d \in Dirs, NEW enabled \in BOOLEAN, ConfigureRoot(d, enabled)
    PROVE  RootsInv'
<1> DEFINE status == IF enabled THEN "active" ELSE "disabled"
<1>1. Registered(d) /\ roots[d] # NoRoot
  BY RegisteredIsRoot DEF ConfigureRoot
<1>2. roots' = [roots EXCEPT ![d].status = status, ![d].revision = roots[d].revision + 1]
  BY TypesOfRootsInv DEF ConfigureRoot, RootTypes
<1>3. library' \in [Libs -> LibraryTypes]
  BY <1>1, RevisionTyped, ReconfiguredTyped DEF ConfigureRoot
<1>4. UNCHANGED <<plans, retirements, views, located, scan>>
  BY DEF ConfigureRoot
<1>5. status \in {"active", "inaccessible", "disabled", "retired"}
  OBVIOUS
<1> QED BY <1>1, <1>2, <1>3, <1>4, <1>5, RevisionTyped, StatusChange

\* Whatever its status was, a root that is retired disturbs no other.
LEMMA RetireInv ==
    ASSUME RootsInv, NEW r \in retirements, NEW impact, Retire(r, impact)
    PROVE  RootsInv'
<1>1. r.root \in Dirs /\ roots[r.root] # NoRoot
  BY TypesOfRootsInv
<1>2. roots' = [roots EXCEPT ![r.root].status = "retired",
                             ![r.root].revision = roots[r.root].revision + 1]
  BY TypesOfRootsInv DEF Retire, RootTypes
<1>3. library' \in [Libs -> LibraryTypes]
  BY <1>1, RevisionTyped, ReconfiguredTyped DEF Retire
<1>4. UNCHANGED <<plans, retirements, views, located, scan>>
  BY DEF Retire
<1> QED BY <1>1, <1>2, <1>3, <1>4, RevisionTyped, StatusChange

-----------------------------------------------------------------------------
(* The scan. *)

LEMMA BeginScanInv ==
    ASSUME RootsInv, NEW d \in Dirs, BeginScan(d)
    PROVE  RootsInv'
<1>1. roots[d].revision \in Nat
  BY RegisteredIsRoot, RevisionTyped DEF BeginScan
<1>2. scan' \in [root : Dirs, revision : Nat, todo : SUBSET Files]
  BY <1>1 DEF BeginScan
<1>3. \A f \in scan'.todo : Within(scan'.root, PathOf[f])
  BY DEF BeginScan
<1>4. RootsTypeOK' /\ ScanBelowRoot'
  BY <1>2, <1>3 DEF BeginScan, tables, RootsInv, RootsTypeOK, ScanBelowRoot
<1>5. SupersededInside' /\ RootsDisjoint' /\ PlacesHold' /\ PlannedHaveRows'
  BY DEF BeginScan, tables, RootsInv, SupersededInside, RootsDisjoint, PlacesHold,
         PlannedHaveRows, Registered
<1> QED BY <1>4, <1>5 DEF RootsInv

\* A file that has no place gets the one below the root of the scan.
LEMMA IngestInv ==
    ASSUME RootsInv, NEW f \in Files, Ingest(f)
    PROVE  RootsInv'
<1> DEFINE place == IF located[f] # NoPlace THEN located[f]
                    ELSE [root |-> scan.root, relative |-> Below(scan.root, PathOf[f])]
<1>1. scan # NoScan
  BY DEF Ingest, NoScan
<1>2. /\ scan \in [root : Dirs, revision : Nat, todo : SUBSET Files]
      /\ Registered(scan.root) /\ Within(scan.root, PathOf[f])
  BY <1>1, RegisteredIsRoot
     DEF Ingest, SameRoot, RootsInv, RootsTypeOK, ScanBelowRoot
<1>3. /\ Below(scan.root, PathOf[f]) \in Paths
      /\ scan.root \o Below(scan.root, PathOf[f]) = PathOf[f]
  BY <1>2, BelowRebuilds, DirsArePaths
<1>4. /\ place \in Place
      /\ Registered(place.root) /\ place.root \o place.relative = PathOf[f]
  BY <1>2, <1>3, TypesOfRootsInv DEF Place, Paths, RootsInv, PlacesHold
<1>5. located' = [located EXCEPT ![f] = place]
  BY DEF Ingest
<1>6. UNCHANGED <<library, plans, retirements, views, roots>>
  BY DEF Ingest, tables
<1>7. scan' = [scan EXCEPT !.todo = scan.todo \ {f}]
  BY DEF Ingest
<1>8. RootsTypeOK'
  <2>1. scan' \in [root : Dirs, revision : Nat, todo : SUBSET Files]
    BY <1>2, <1>7
  <2>2. located' \in [Files -> {NoPlace} \cup Place]
    <3> HIDE DEF place
    <3> QED BY <1>4, <1>5, TypesOfRootsInv
  <2> QED BY <2>1, <2>2, <1>6 DEF RootsInv, RootsTypeOK
<1>9. ScanBelowRoot'
  BY <1>1, <1>2, <1>7 DEF RootsInv, ScanBelowRoot
<1>10. SupersededInside' /\ RootsDisjoint' /\ PlannedHaveRows'
  BY <1>6 DEF RootsInv, SupersededInside, RootsDisjoint, PlannedHaveRows, Registered
<1>11. PlacesHold'
  <2>1. ASSUME NEW g \in Files, located'[g] # NoPlace
        PROVE  Registered(located'[g].root)
               /\ located'[g].root \o located'[g].relative = PathOf[g]
    <3> HIDE DEF place
    <3>1. CASE g # f
      <4>1. located'[g] = located[g]
        BY <3>1, <1>5, TypesOfRootsInv
      <4> QED BY <2>1, <4>1 DEF RootsInv, PlacesHold
    <3>2. CASE g = f
      <4>1. located'[g] = place
        BY <3>2, <1>5, TypesOfRootsInv
      <4> QED BY <3>2, <4>1, <1>4
    <3> QED BY <3>1, <3>2
  <2>2. \A d : Registered(d)' <=> Registered(d)
    BY <1>6 DEF Registered
  <2> QED BY <2>1, <2>2, <1>6 DEF RootsInv, PlacesHold
<1> QED BY <1>8, <1>9, <1>10, <1>11 DEF RootsInv

LEMMA EndScanInv ==
    ASSUME RootsInv, EndScan
    PROVE  RootsInv'
<1>1. scan.root \in Dirs /\ Registered(scan.root) /\ roots[scan.root] # NoRoot
  BY RegisteredIsRoot DEF EndScan, SameRoot, RootsInv, RootsTypeOK
<1>2. roots' = [roots EXCEPT ![scan.root].status = "active",
                             ![scan.root].revision = roots[scan.root].revision]
  BY <1>1, TypesOfRootsInv DEF EndScan, RootTypes
<1>3. UNCHANGED <<library, plans, retirements, views, located>> /\ scan' = NoScan
  BY DEF EndScan, tables
<1> QED BY <1>1, <1>2, <1>3, TypesOfRootsInv, RevisionTyped, StatusChange

LEMMA LoseScanInv ==
    ASSUME RootsInv, LoseScan
    PROVE  RootsInv'
<1>1. UNCHANGED <<library, plans, retirements, views, located>> /\ scan' = NoScan
  BY DEF LoseScan, tables
<1>2. CASE SameRoot(scan.root, scan.revision)
  <2>1. scan.root \in Dirs /\ Registered(scan.root) /\ roots[scan.root] # NoRoot
    BY <1>2, RegisteredIsRoot DEF LoseScan, SameRoot, RootsInv, RootsTypeOK
  <2>2. roots' = [roots EXCEPT ![scan.root].status = "inaccessible",
                               ![scan.root].revision = roots[scan.root].revision]
    BY <1>2, <2>1, TypesOfRootsInv DEF LoseScan, RootTypes
  <2> QED BY <1>1, <2>1, <2>2, TypesOfRootsInv, RevisionTyped, StatusChange
<1>3. CASE ~SameRoot(scan.root, scan.revision)
  <2>1. UNCHANGED roots
    BY <1>3 DEF LoseScan
  <2> QED BY <1>1, <2>1, TypesOfRootsInv, RootsUnchanged
<1> QED BY <1>2, <1>3

LEMMA AbandonScanInv ==
    ASSUME RootsInv, AbandonScan
    PROVE  RootsInv'
BY TypesOfRootsInv, RootsUnchanged DEF AbandonScan, tables

-----------------------------------------------------------------------------
(* A view, and a root that is confirmed. *)

LEMMA AddViewInv ==
    ASSUME RootsInv, NEW v \in Views, NEW d \in Dirs, AddView(v, d)
    PROVE  RootsInv'
<1> DEFINE place == [root |-> d, relative |-> Below(d, ViewedDir[v])]
<1>1. Registered(d) /\ Within(d, ViewedDir[v]) /\ views' = [views EXCEPT ![v] = place]
  BY DEF AddView
<1>2. Below(d, ViewedDir[v]) \in Paths /\ d \o Below(d, ViewedDir[v]) = ViewedDir[v]
  BY <1>1, BelowRebuilds, DirsArePaths
<1>3. place \in Place /\ place.root = d /\ place.root \o place.relative = ViewedDir[v]
  BY <1>2 DEF Place, Paths
<1>4. UNCHANGED <<library, plans, retirements, roots, located, scan>>
  BY DEF AddView
<1> HIDE DEF place
<1>5. /\ views' \in [Views -> {NoPlace} \cup Place]
      /\ views'[v] = place /\ \A u \in Views \ {v} : views'[u] = views[u]
  BY <1>1, <1>3, TypesOfRootsInv
<1>6. RootsTypeOK'
  BY <1>4, <1>5 DEF RootsInv, RootsTypeOK
<1>7. ScanBelowRoot' /\ SupersededInside' /\ RootsDisjoint' /\ PlannedHaveRows'
  BY <1>4 DEF RootsInv, ScanBelowRoot, SupersededInside, RootsDisjoint, PlannedHaveRows,
              Registered
<1>8. PlacesHold'
  <2>1. \A r : Registered(r)' <=> Registered(r)
    BY <1>4 DEF Registered
  <2>2. ASSUME NEW f \in Files, located'[f] # NoPlace
        PROVE  Registered(located'[f].root)
               /\ located'[f].root \o located'[f].relative = PathOf[f]
    BY <2>2, <1>4 DEF RootsInv, PlacesHold
  <2>3. ASSUME NEW u \in Views, views'[u] # NoPlace
        PROVE  Registered(views'[u].root)
               /\ views'[u].root \o views'[u].relative = ViewedDir[u]
    <3>1. CASE u = v
      BY <3>1, <1>1, <1>3, <1>5
    <3>2. CASE u # v
      BY <3>2, <2>3, <1>5 DEF RootsInv, PlacesHold
    <3> QED BY <3>1, <3>2
  <2> QED BY <2>1, <2>2, <2>3 DEF PlacesHold
<1> QED BY <1>6, <1>7, <1>8 DEF RootsInv

\* A file or view at this path is in a registered root, if it has a place.
HeldAt(place, path) ==
    /\ place = NoPlace \/ place \in Place
    /\ place # NoPlace => Registered(place.root) /\ place.root \o place.relative = path

\* Having moved to the parent, or stayed where it was.
MovedAt(new, path, parent, children) ==
    /\ new = NoPlace \/ new \in Place
    /\ new # NoPlace =>
          /\ new.root \o new.relative = path
          /\ \/ new.root = parent
             \/ new.root \in Dirs /\ Registered(new.root) /\ new.root \notin children

\* A place in a child is the same one in the parent.
LEMMA ReplantedHolds ==
    ASSUME RootsInv, NEW parent \in Dirs, NEW children \in SUBSET Dirs,
           \A c \in children : Within(parent, c),
           NEW path, NEW place, HeldAt(place, path)
    PROVE  MovedAt(Replanted(place, parent, children), path, parent, children)
<1> DEFINE new == Replanted(place, parent, children)
<1>0. /\ place = NoPlace \/ place \in Place
      /\ place # NoPlace => Registered(place.root) /\ place.root \o place.relative = path
  BY DEF HeldAt
<1>1. CASE place # NoPlace /\ place.root \in children
  <2>1. place \in Place /\ place.root \in Dirs /\ place.relative \in Paths
    BY <1>0, <1>1 DEF Place, Paths
  <2> DEFINE relative == Below(parent, place.root) \o place.relative
  <2>2. relative \in Paths /\ parent \o relative = place.root \o place.relative
    BY <1>1, <2>1, ReplantedPath, DirsArePaths
  <2>3. new = [root |-> parent, relative |-> relative]
    BY <1>1 DEF Replanted
  <2> HIDE DEF relative, new
  <2>4. new.root = parent /\ new.relative = relative
    BY <2>3
  <2>5. new \in Place
    BY <2>2, <2>3 DEF Place, Paths
  <2> QED BY <1>0, <1>1, <2>2, <2>4, <2>5 DEF MovedAt, new
<1>2. CASE ~(place # NoPlace /\ place.root \in children)
  <2>1. new = place
    BY <1>2 DEF Replanted
  <2>2. place \in Place => place.root \in Dirs
    BY DEF Place
  <2> HIDE DEF new
  <2> QED BY <1>0, <1>2, <2>1, <2>2 DEF MovedAt, new
<1> QED BY <1>1, <1>2

LEMMA SupersededTyped ==
    ASSUME NEW row \in RootTypes \ {NoRoot}, NEW new,
           new = [row EXCEPT !.status = "superseded", !.replaced = TRUE,
                             !.revision = row.revision + 1]
    PROVE  new \in RootTypes /\ new.status = "superseded" /\ new.replaced
<1>1. row \in [status : Statuses, lib : Libs, source : Sources, revision : Nat \ {0},
               replaced : BOOLEAN]
  BY DEF RootTypes
<1>2. row.revision + 1 \in Nat \ {0}
  BY <1>1
<1> QED BY <1>1, <1>2 DEF RootTypes, Statuses

LEMMA ConfirmRootInv ==
    ASSUME RootsInv, NEW p \in DOMAIN plans, ConfirmRoot(p)
    PROVE  RootsInv'
<1> DEFINE dir == plans[p].dir
           related == plans[p].related
           row == [status |-> "active", lib |-> plans[p].lib, source |-> plans[p].source,
                   revision |-> 1, replaced |-> FALSE]
           Now(d) == roots'[d].status \notin {None, "superseded"}
<1>1. plans[p] \in PlanTypes /\ p \in 1 .. Len(plans)
  BY TypesOfRootsInv, ElementOfSeq, LenProperties
<1>2. dir \in Dirs /\ related \in SUBSET Dirs /\ row \in RootTypes
  BY <1>1 DEF PlanTypes, RootTypes, Statuses
<1>3. Relation(dir) \in {"distinct", "ancestor"} /\ related = Related(dir)
  BY DEF ConfirmRoot, Unchanged
<1>4. /\ ~Registered(dir)
      /\ \A r \in related : r \in Dirs /\ Registered(r) /\ Within(dir, r) /\ r # dir
      /\ \A r \in Dirs \ related : Registered(r) => ~Within(r, dir) /\ ~Within(dir, r)
  <2>1. ~Registered(dir)
    BY <1>3 DEF Relation
  <2>2. ~\E r \in Related(dir) : Within(r, dir)
    BY <1>3, <2>1 DEF Relation
  <2> QED BY <1>2, <1>3, <2>1, <2>2 DEF Related
<1>5. roots' = [r \in Dirs |->
           IF r = dir THEN row
           ELSE IF r \in related
           THEN [roots[r] EXCEPT !.status = "superseded", !.replaced = TRUE,
                                 !.revision = roots[r].revision + 1]
           ELSE roots[r]]
  BY DEF ConfirmRoot
<1>6. /\ roots'[dir] = row
      /\ \A r \in related :
            roots'[r] = [roots[r] EXCEPT !.status = "superseded", !.replaced = TRUE,
                                         !.revision = roots[r].revision + 1]
      /\ \A r \in Dirs \ related : r # dir => roots'[r] = roots[r]
      /\ roots' = [r \in Dirs |-> roots'[r]]
  <2> HIDE DEF row, dir, related
  <2> QED BY <1>2, <1>4, <1>5
<1>7. \A r \in related : /\ roots'[r] \in RootTypes
                         /\ roots'[r].status = "superseded" /\ roots'[r].replaced
  <2> SUFFICES ASSUME NEW r \in related
               PROVE  /\ roots'[r] \in RootTypes
                      /\ roots'[r].status = "superseded" /\ roots'[r].replaced
    OBVIOUS
  <2>1. roots[r] \in RootTypes \ {NoRoot}
    BY <1>4, TypesOfRootsInv, RegisteredIsRoot
  <2>2. roots'[r] = [roots[r] EXCEPT !.status = "superseded", !.replaced = TRUE,
                                     !.revision = roots[r].revision + 1]
    BY <1>6
  <2> QED BY <2>1, <2>2, SupersededTyped
<1>8. \A r \in Dirs : Now(r) <=> r = dir \/ (Registered(r) /\ r \notin related)
  <2>1. Now(dir)
    <3>1. roots'[dir].status = "active"
      <4>1. roots'[dir] = row
        BY <1>6
      <4> HIDE DEF dir
      <4> QED BY <4>1
    <3> QED BY <3>1 DEF None
  <2>2. \A r \in related : ~Now(r)
    BY <1>7
  <2>3. \A r \in Dirs \ related : r # dir => (Now(r) <=> Registered(r))
    BY <1>6 DEF Registered
  <2> HIDE DEF row, dir, related, Now
  <2> QED BY <1>2, <1>4, <2>1, <2>2, <2>3
<1>9. roots' \in [Dirs -> RootTypes]
  <2> HIDE DEF row, dir, related
  <2>1. \A r \in Dirs : roots'[r] \in RootTypes
    BY <1>2, <1>6, <1>7, TypesOfRootsInv
  <2> QED BY <1>6, <2>1
<1>10. /\ UNCHANGED <<retirements, scan>>
       /\ located' = [f \in Files |-> Replanted(located[f], dir, related)]
       /\ views' = [v \in Views |-> Replanted(views[v], dir, related)]
       /\ library' = Reconfigured(plans[p].lib)
       /\ plans' = [plans EXCEPT ![p].committed = TRUE]
  BY DEF ConfirmRoot
<1>11. library' \in [Libs -> LibraryTypes]
  BY <1>1, <1>10, ReconfiguredTyped DEF PlanTypes
<1>12. plans' \in Seq(PlanTypes) /\ Len(plans') <= MaxPlans
  <2>1. [plans[p] EXCEPT !.committed = TRUE] \in PlanTypes
    BY <1>1 DEF PlanTypes
  <2>2. plans' = [plans EXCEPT ![p] = [plans[p] EXCEPT !.committed = TRUE]]
    BY <1>10
  <2> QED BY <1>1, <2>1, <2>2, TypesOfRootsInv, ExceptSeq
<1>20. related \in SUBSET Dirs /\ \A c \in related : Within(dir, c)
  BY <1>2, <1>4
<1> HIDE DEF row, dir, related, Now
<1>13. ASSUME NEW f \in Files
       PROVE  /\ located'[f] = NoPlace \/ located'[f] \in Place
              /\ located'[f] # NoPlace => Now(located'[f].root)
                    /\ located'[f].root \o located'[f].relative = PathOf[f]
  <2>1. HeldAt(located[f], PathOf[f])
    BY TypesOfRootsInv DEF RootsInv, PlacesHold, HeldAt
  <2>2. located'[f] = Replanted(located[f], dir, related)
    BY <1>10
  <2>3. MovedAt(located'[f], PathOf[f], dir, related)
    BY ONLY RootsInv, <1>2, <1>20, <2>1, <2>2, ReplantedHolds
  <2> QED BY <1>2, <1>8, <2>3 DEF MovedAt
<1>14. ASSUME NEW v \in Views
       PROVE  /\ views'[v] = NoPlace \/ views'[v] \in Place
              /\ views'[v] # NoPlace => Now(views'[v].root)
                    /\ views'[v].root \o views'[v].relative = ViewedDir[v]
  <2>1. HeldAt(views[v], ViewedDir[v])
    BY TypesOfRootsInv DEF RootsInv, PlacesHold, HeldAt
  <2>2. views'[v] = Replanted(views[v], dir, related)
    BY <1>10
  <2>3. MovedAt(views'[v], ViewedDir[v], dir, related)
    BY ONLY RootsInv, <1>2, <1>20, <2>1, <2>2, ReplantedHolds
  <2> QED BY <1>2, <1>8, <2>3 DEF MovedAt
<1>15. RootsTypeOK'
  BY <1>9, <1>10, <1>11, <1>12, <1>13, <1>14
     DEF RootsInv, RootsTypeOK, LibraryTypes, RootTypes, PlanTypes
<1>16. ScanBelowRoot'
  BY <1>10 DEF RootsInv, ScanBelowRoot
<1>17. SupersededInside'
  <2> SUFFICES ASSUME NEW r \in Dirs, roots'[r].status = "superseded"
               PROVE  /\ roots'[r].replaced
                      /\ \E q \in Dirs : Now(q) /\ q # r /\ Within(q, r)
    BY DEF SupersededInside, Now, Registered
  <2>1. r # dir
    BY <1>4, <1>8 DEF Now
  <2>2. CASE r \in related
    BY <2>2, <1>2, <1>4, <1>7, <1>8
  <2>3. CASE r \notin related
    <3>1. roots[r].status = "superseded" /\ roots'[r].replaced = roots[r].replaced
      BY <2>1, <2>3, <1>6
    <3>2. PICK q \in Dirs : Registered(q) /\ q # r /\ Within(q, r)
      BY <3>1 DEF RootsInv, SupersededInside
    <3>3. CASE q \notin related
      BY <3>1, <3>2, <3>3, <1>8 DEF RootsInv, SupersededInside
    <3>4. CASE q \in related
      <4>1. Within(dir, r)
        BY <3>2, <3>4, <1>2, <1>4, WithinTransitive, DirsArePaths
      <4> QED BY <4>1, <2>1, <3>1, <1>2, <1>8 DEF RootsInv, SupersededInside
    <3> QED BY <3>3, <3>4
  <2> QED BY <2>2, <2>3
<1>18. RootsDisjoint'
  <2> SUFFICES ASSUME NEW d \in Dirs, NEW e \in Dirs,
                      Now(d), Now(e), d # e, Within(d, e)
               PROVE  roots'[e].replaced
    BY DEF RootsDisjoint, Now, Registered
  <2>1. d # dir
    BY <1>4, <1>8
  <2>2. e # dir
    BY <2>1, <1>4, <1>8
  <2>3. Registered(d) /\ Registered(e) /\ roots'[e] = roots[e]
    BY <2>1, <2>2, <1>6, <1>8
  <2> QED BY <2>3 DEF RootsInv, RootsDisjoint
<1>19. PlacesHold'
  BY <1>13, <1>14 DEF PlacesHold, Now, Registered
<1>21. PlannedHaveRows'
  <2>1. roots'[dir] # NoRoot
    <3>1. roots'[dir] = row
      BY <1>6
    <3> QED BY <3>1 DEF row, NoRoot, None
  <2>2. \A r \in related : roots'[r] # NoRoot
    BY <1>7 DEF NoRoot, None
  <2>3. \A r \in Dirs \ related : r # dir => roots'[r] = roots[r]
    BY <1>6
  <2>4. ASSUME NEW r \in Dirs, roots[r] # NoRoot
        PROVE  roots'[r] # NoRoot
    BY <2>1, <2>2, <2>3, <2>4
  <2> QED BY <2>4, <1>10, TypesOfRootsInv DEF PlannedHaveRows
<1> QED BY <1>15, <1>16, <1>17, <1>18, <1>19, <1>21 DEF RootsInv
=============================================================================
