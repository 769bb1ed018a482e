------------------------ MODULE Reconciliation_proofs ------------------------
(***************************************************************************)
(* Proofs about Reconciliation for any tree, files, queue, bounds and      *)
(* incidents.                                                              *)
(*                                                                         *)
(* WalkInv says where the walker is in its row (WalkerPlaced) and that     *)
(* what stayed in place, or was lost before the walk began, is observed or *)
(* is Coming: the walk meets it on the way down from an entry of its       *)
(* queue, or has an error on that way (LossInv).  One lemma about the      *)
(* steps of the walker (LooksCover) carries both.                          *)
(*                                                                         *)
(* SeenInv adds what leads from a change on disk to the walk that sees it: *)
(* a file that is watched, and of which the catalogue is behind, is        *)
(* announced (an event, a mark, an overflow) or will be met by the request *)
(* that is active (Followed), also if the walker holds an older            *)
(* observation of it at that moment (HeldAgain).                           *)
(*                                                                         *)
(* GoneInv, at the end, is what keeps the catalogue from showing what is   *)
(* gone: of all that it has, or will have, the removal would be heard and  *)
(* heeded (Vouched), and whatever is still to be walked is in directories  *)
(* of which that is true (Safe), unless another full walk is due.          *)
(*                                                                         *)
(* Above(S, d) says that an entry of S is on the way from the root to d,   *)
(* as a fact about the sets that are closed upwards, since an induction    *)
(* over the depth of the tree is out of the prover's reach.                *)
(***************************************************************************)
EXTENDS Reconciliation, TLAPS

-----------------------------------------------------------------------------
(* Types.                                                                  *)

Ghost == [unsaid : SUBSET Paths, dropped : SUBSET Paths, steady : SUBSET Paths,
          covered : {"none", "walking", "incomplete", "confirmed"},
          intact : BOOLEAN]
Used  == [changes : 0..MaxChanges, incidents : 0..MaxIncidents, calm : BOOLEAN]

LEMMA MarkedType ==
    ASSUME NEW m \in Mark, NEW x \in Names \cup {Top}
    PROVE  Marked(m, x) \in Mark
BY ReconciliationAssumption DEF Marked, Mark, Names, Dirs

LEMMA ToWalkType ==
    ASSUME NEW e \in Event PROVE ToWalk(e) \in Names \cup {Top}
BY ReconciliationAssumption DEF ToWalk, Event, Names, Dirs

LEMMA ConstantTypes ==
    /\ Top # None /\ Top \in Dirs /\ Dirs \subseteq Places /\ Paths \subseteq Places
    /\ Names \subseteq Places
    /\ Top \notin Paths /\ None \notin Paths /\ None \notin Files
    /\ \A x \in Names : Parent[x] \in Dirs
    /\ Clean \in Mark /\ Resting \in Tick /\ NoRequest \in Request
    /\ NoScan \in ScanRow /\ NoWalk \in Walk /\ NoFile \in Held
    /\ MaxContents \in Nat /\ MaxContents >= 1 /\ QueueSize \in Nat
    /\ MaxChanges \in Nat /\ MaxIncidents \in Nat /\ MaxAttempts \in Nat
BY ReconciliationAssumption
DEF Names, Places, Dirs, Top, None, Clean, Resting, NoRequest, NoScan, NoWalk,
    NoFile, Mark, Tick, Request, ScanRow, Walk, Held

LEMMA TypeInit == Init => TypeOK
<1> SUFFICES ASSUME Init PROVE TypeOK
  OBVIOUS
<1> USE ConstantTypes
<1>1. /\ disk \in [Paths -> Files \cup {None}] /\ folders \subseteq Folders
      /\ content \in [Files -> 1..MaxContents]
      /\ armed \subseteq Dirs /\ directories \subseteq Dirs
  <2>1. content = [f \in Files |-> 1]
    BY Zenon DEF Init
  <2>2. 1 \in 1..MaxContents
    OBVIOUS
  <2> QED BY <2>1, <2>2 DEF Init
<1>2. events \in Seq(Event) /\ Len(events) <= QueueSize
  <2>1. events = <<>>
    BY Zenon DEF Init
  <2> QED BY <2>1
<1>3. overflow \in BOOLEAN /\ degraded \in BOOLEAN /\ initialized \in BOOLEAN
      /\ dirty \in Mark /\ tick \in Tick
  BY DEF Init
<1>4. root \in RootRow
  BY DEF Init, RootRow
<1>5. request \in Request
  BY DEF Init, NoRequest, Request
<1>6. scan \in ScanRow /\ walk \in Walk
  BY DEF Init
<1>7. errors \in [Places -> {"none", "old", "new"}]
  BY DEF Init
<1>8. /\ location \in [Paths -> Files \cup {None}]
      /\ primary \in [Files -> Paths \cup {None}]
      /\ availability \in [Files -> {"none", "available", "missing"}]
      /\ recorded \in [Files -> 0..MaxContents]
  <2>1. /\ location = [p \in Paths |-> None] /\ primary = [f \in Files |-> None]
        /\ availability = [f \in Files |-> "none"] /\ recorded = [f \in Files |-> 0]
    BY Zenon DEF Init
  <2>2. 0 \in 0..MaxContents
    OBVIOUS
  <2> QED BY <2>1, <2>2
<1>9. used \in Used /\ ghost \in Ghost
  <2>1. 0 \in 0..MaxChanges /\ 0 \in 0..MaxIncidents
    OBVIOUS
  <2>2. /\ used = [changes |-> 0, incidents |-> 0, calm |-> TRUE]
        /\ ghost = [unsaid |-> {}, dropped |-> {}, steady |-> {}, covered |-> "none",
                    intact |-> FALSE]
    BY Zenon DEF Init
  <2> QED BY <2>1, <2>2 DEF Used, Ghost
<1> QED BY <1>1, <1>2, <1>3, <1>4, <1>5, <1>6, <1>7, <1>8, <1>9 DEF TypeOK, Used, Ghost

LEMMA ReportType ==
    ASSUME TypeOK, NEW x \in Names, NEW gone \in BOOLEAN, Report(x, gone)
    PROVE  events' \in Seq(Event) /\ Len(events') <= QueueSize /\ overflow' \in BOOLEAN
<1>1. [gone |-> gone, at |-> x] \in Event
  BY DEF Event
<1>2. events \in Seq(Event) /\ Len(events) <= QueueSize /\ overflow \in BOOLEAN
      /\ Len(events) \in Nat /\ QueueSize \in Nat
  BY ConstantTypes DEF TypeOK
<1>3. Heard(x) \in BOOLEAN
  BY DEF Heard
<1>4. CASE Heard(x) /\ Fits
  <2>1. events' = Append(events, [gone |-> gone, at |-> x]) /\ Len(events) < QueueSize
    BY <1>4 DEF Report, Fits
  <2>2. Len(events') = Len(events) + 1 /\ events' \in Seq(Event)
    BY <2>1, <1>1, <1>2
  <2>3. overflow' \in BOOLEAN
    BY DEF Report
  <2> QED BY <2>1, <2>2, <2>3, <1>2
<1>5. CASE ~(Heard(x) /\ Fits)
  BY <1>5, <1>2 DEF Report
<1> QED BY <1>4, <1>5

LEMMA NotedType ==
    ASSUME TypeOK, NEW p \in Paths, ghost' = Noted(p)
    PROVE  ghost' \in Ghost
<1> DEFINE behind == Differing(disk', content', location, recorded)
<1>1. behind \subseteq Paths
  BY DEF Differing
<1>2. ghost \in Ghost
  BY DEF TypeOK, Ghost
<1>3. ghost' = [ghost EXCEPT
           !.unsaid  = ((@ \ {p}) \cup IF Heard(p) /\ ~Fits THEN {p} ELSE {})
                       \cap behind,
           !.dropped = (@ \ {p}) \cap behind,
           !.steady  = @ \cap {q \in Paths : disk'[q] # None}]
  BY DEF Noted
<1> HIDE DEF behind
<1> QED BY <1>1, <1>2, <1>3 DEF Ghost

LEMMA ChangedType == ASSUME TypeOK, Changed PROVE used' \in Used
<1>1. used \in Used
  BY DEF TypeOK, Used
<1>2. used.changes \in Nat /\ used.changes + 1 \in 0..MaxChanges
  BY <1>1, ConstantTypes DEF Changed, Used
<1> QED BY <1>1, <1>2 DEF Changed, Used

LEMMA TypeOutside == ASSUME TypeOK, Outside PROVE TypeOK'
<1> USE ConstantTypes
<1>1. CASE WriteFile
  <2> PICK p \in Paths, f \in Files :
        /\ Changed
        /\ disk[p] = f => /\ content[f] < MaxContents
                          /\ \A q \in Paths \ {p} : disk[q] # f
        /\ disk' = [disk EXCEPT ![p] = f]
        /\ content' = [content EXCEPT ![f] = IF disk[p] = f THEN @ + 1 ELSE @]
        /\ Report(p, FALSE)
        /\ UNCHANGED <<folders, armed, memory, root, request, scan, errors,
                       catalogue, walk>>
        /\ ghost' = Noted(p)
    BY <1>1 DEF WriteFile
  <2>1. disk' \in [Paths -> Files \cup {None}]
    BY DEF TypeOK
  <2>2. content' \in [Files -> 1..MaxContents]
    <3>1. content \in [Files -> 1..MaxContents]
      BY DEF TypeOK
    <3>2. (IF disk[p] = f THEN content[f] + 1 ELSE content[f]) \in 1..MaxContents
      BY <3>1
    <3> QED BY <3>1, <3>2
  <2>3. used' \in Used /\ ghost' \in Ghost
    BY ChangedType, NotedType
  <2>4. events' \in Seq(Event) /\ Len(events') <= QueueSize /\ overflow' \in BOOLEAN
    BY ReportType DEF Names
  <2> QED BY <2>1, <2>2, <2>3, <2>4 DEF TypeOK, Used, Ghost, memory, catalogue
<1>2. CASE RemoveFile
  <2> PICK p \in Paths :
        /\ Changed
        /\ disk' = [disk EXCEPT ![p] = None]
        /\ Report(p, TRUE)
        /\ UNCHANGED <<folders, content, armed, memory, root, request, scan,
                       errors, catalogue, walk>>
        /\ ghost' = Noted(p)
    BY <1>2 DEF RemoveFile
  <2>1. disk' \in [Paths -> Files \cup {None}]
    BY DEF TypeOK
  <2>3. used' \in Used /\ ghost' \in Ghost
    BY ChangedType, NotedType
  <2>4. events' \in Seq(Event) /\ Len(events') <= QueueSize /\ overflow' \in BOOLEAN
    BY ReportType DEF Names
  <2> QED BY <2>1, <2>3, <2>4 DEF TypeOK, Used, Ghost, memory, catalogue
<1>3. CASE AddFolder \/ RemoveFolder
  <2> PICK d \in Folders, gone \in BOOLEAN :
        /\ Changed
        /\ folders' \in {folders \cup {d}, folders \ {d}}
        /\ armed' \in {armed, armed \ {d}}
        /\ Report(d, gone)
        /\ UNCHANGED <<disk, content, memory, root, request, scan, errors,
                       catalogue, walk, ghost>>
    BY <1>3 DEF AddFolder, RemoveFolder, TypeOK
  <2>1. folders' \subseteq Folders /\ armed' \subseteq Dirs
    BY DEF TypeOK
  <2>3. used' \in Used
    BY ChangedType
  <2>4. events' \in Seq(Event) /\ Len(events') <= QueueSize /\ overflow' \in BOOLEAN
    BY ReportType DEF Names
  <2> QED BY <2>1, <2>3, <2>4 DEF TypeOK, Used, memory, catalogue
<1> QED BY <1>1, <1>2, <1>3 DEF Outside

LEMMA MarkDirtyType ==
    ASSUME TypeOK, NEW x \in Names \cup {Top}, MarkDirty(x)
    PROVE  dirty' \in Mark /\ tick' \in Tick
<1>1. dirty \in Mark /\ tick \in Tick
  BY DEF TypeOK
<1>2. dirty' \in Mark
  BY <1>1, MarkedType DEF MarkDirty
<1>3. tick' \in Tick
  BY <1>1 DEF MarkDirty, Tick
<1> QED BY <1>2, <1>3

LEMMA IncidentType == ASSUME TypeOK, NEW k, Incident(k) PROVE used' \in Used
<1>1. used \in Used
  BY DEF TypeOK, Used
<1>2. used.incidents \in Nat /\ used.incidents + 1 \in 0..MaxIncidents
  BY <1>1, ConstantTypes DEF Incident, Used
<1>3. (used.calm /\ k = "restart") \in BOOLEAN
  OBVIOUS
<1> QED BY <1>1, <1>2, <1>3 DEF Incident, Used

LEMMA ModedType ==
    ASSUME NEW r \in RootRow, NEW l \in BOOLEAN PROVE Moded(r, l) \in RootRow
BY DEF Moded, RootRow

LEMMA HeadTailType ==
    ASSUME TypeOK, events # <<>>
    PROVE  /\ Head(events) \in Event /\ Tail(events) \in Seq(Event)
           /\ Len(Tail(events)) = Len(events) - 1 /\ Len(events) \in Nat
BY DEF TypeOK

LEMMA RootFields ==
    ASSUME NEW r \in RootRow
    PROVE  r.loss \in Nat /\ r.recovered \in Nat /\ r.revision \in Nat
BY Zenon DEF RootRow

LEMMA TypeRuntime == ASSUME TypeOK, Runtime PROVE TypeOK'
<1> USE ConstantTypes
<1>1. CASE HandleEvent
  <2>1. Head(events) \in Event /\ events # <<>>
    BY <1>1, HeadTailType DEF HandleEvent
  <2>2. events' \in Seq(Event) /\ Len(events') <= QueueSize
    BY <1>1, <2>1, HeadTailType DEF HandleEvent, TypeOK
  <2>3. dirty' \in Mark /\ tick' \in Tick
    <3>1. CASE UNCHANGED <<dirty, tick>>
      BY <3>1 DEF TypeOK
    <3>2. CASE MarkDirty(ToWalk(Head(events)))
      BY <3>2, <2>1, MarkDirtyType, ToWalkType
    <3> QED BY <1>1, <3>1, <3>2 DEF HandleEvent
  <2>4. directories' \subseteq Dirs
    BY <1>1 DEF HandleEvent, TypeOK
  <2>5. UNCHANGED <<world, armed, overflow, degraded, initialized, root,
                   request, scan, errors, catalogue, walk, used, ghost>>
    BY <1>1 DEF HandleEvent
  <2> QED BY <2>2, <2>3, <2>4, <2>5 DEF TypeOK, world, catalogue
<1>2. CASE EventsLost
  <2>1. root' \in RootRow
    <3>0. root \in RootRow
      BY DEF TypeOK
    <3>1. root.loss + 1 \in Nat
      BY <3>0, RootFields
    <3> QED BY <1>2, <3>0, <3>1 DEF EventsLost, RootRow
  <2>2. dirty' \in Mark /\ tick' \in Tick
    <3>1. CASE UNCHANGED <<dirty, tick>>
      BY <3>1 DEF TypeOK
    <3>2. CASE MarkDirty(Top)
      BY <3>2, MarkDirtyType
    <3> QED BY <1>2, <3>1, <3>2 DEF EventsLost
  <2>3. ghost' \in Ghost
    <3>1. ghost \in Ghost
      BY DEF TypeOK, Ghost
    <3>2. ghost' = [ghost EXCEPT !.unsaid = {},
               !.dropped = IF Verifiable THEN @ \cup ghost.unsaid ELSE @]
      BY <1>2 DEF EventsLost
    <3> QED BY <3>1, <3>2 DEF Ghost
  <2>4. overflow' = FALSE
        /\ UNCHANGED <<world, armed, events, directories, degraded, initialized,
                   request, scan, errors, catalogue, walk, used>>
    BY <1>2 DEF EventsLost
  <2> QED BY <2>1, <2>2, <2>3, <2>4 DEF TypeOK, world, catalogue, Ghost
<1>3. CASE Enqueue
  <2>1. tick' \in Tick /\ dirty' \in Mark
    BY <1>3 DEF Enqueue, TypeOK
  <2>2. request' \in Request
    <3>1. tick.dirty.paths \subseteq Places /\ request \in Request
      BY DEF TypeOK, Tick, Mark
    <3>2. request' = request \/
          request' = [NoRequest EXCEPT !.status = "queued",
                   !.paths = IF tick.due THEN {} ELSE tick.dirty.paths]
      BY <1>3 DEF Enqueue
    <3>3. (IF tick.due THEN {} ELSE tick.dirty.paths) \in SUBSET Places
      BY <3>1
    <3> QED BY <3>1, <3>2, <3>3 DEF Request, NoRequest
  <2>3. UNCHANGED <<world, watcher, directories, degraded, initialized, root,
                   scan, errors, catalogue, walk, used, ghost>>
    BY <1>3 DEF Enqueue
  <2> QED BY <2>1, <2>2, <2>3 DEF TypeOK, world, watcher, catalogue
<1>4. CASE Unwatch
  <2>1. ghost' \in Ghost /\ directories' = {} /\ armed' \subseteq Dirs
    BY <1>4 DEF Unwatch, TypeOK, Ghost
  <2>2. UNCHANGED <<world, events, overflow, degraded, initialized, dirty, tick,
                   root, request, scan, errors, catalogue, walk, used>>
    BY <1>4 DEF Unwatch
  <2> QED BY <2>1, <2>2 DEF TypeOK, world, watcher, catalogue, Ghost
<1>5. ASSUME NEW due \in BOOLEAN, NEW fails \in BOOLEAN, TakeMarks(due, fails)
      PROVE  TypeOK'
  <2> DEFINE marks == IF initialized THEN dirty ELSE Marked(dirty, Top)
  <2>1. marks \in Mark
    BY MarkedType DEF TypeOK
  <2>2. /\ dirty' = marks /\ initialized' = TRUE
        /\ tick' = IF due \/ marks.on
               THEN [pc |-> "enqueue", due |-> due, dirty |-> marks,
                     unchanged |-> TRUE]
               ELSE tick
        /\ IF fails THEN Fault /\ Unregistered(Top)
                ELSE Register(Top) /\ UNCHANGED <<degraded, used>>
        /\ root' = Moded(root, degraded')
        /\ UNCHANGED <<world, events, overflow, request, scan, errors, catalogue,
                   walk, ghost>>
    BY <1>5 DEF TakeMarks
  <2> HIDE DEF marks
  <2>3. tick' \in Tick
    BY <2>1, <2>2 DEF TypeOK, Tick
  <2>4. used' \in Used /\ degraded' \in BOOLEAN
        /\ directories' \subseteq Dirs /\ armed' \subseteq Dirs
    <3>1. CASE fails
      BY <3>1, <2>2, IncidentType DEF Fault, Unregistered, TypeOK
    <3>2. CASE ~fails
      BY <3>2, <2>2 DEF Register, TypeOK, Used
    <3> QED BY <3>1, <3>2
  <2>5. root' \in RootRow
    BY <2>2, <2>4, ModedType DEF TypeOK
  <2> QED BY <2>1, <2>2, <2>3, <2>4, <2>5 DEF TypeOK, world, catalogue, Used
<1> QED BY <1>1, <1>2, <1>3, <1>4, <1>5 DEF Runtime

LEMMA ClosedType ==
    ASSUME NEW s \in {"complete", "failed", "superseded"} PROVE Closed(s) \in ScanRow
BY ConstantTypes DEF Closed, ScanRow

LEMMA EndedType ==
    ASSUME NEW r \in {"ok", "partial", "transient", "cancelled"}
    PROVE  /\ [NoWalk EXCEPT !.pc = "ended", !.result = r] \in Walk
           /\ \A u \in BOOLEAN : [NoWalk EXCEPT !.pc = "ended", !.result = r,
                                               !.unwatched = u] \in Walk
BY ConstantTypes DEF Walk

LEMMA AdvanceType ==
    ASSUME TypeOK, NEW x, NEW more \in SUBSET Places, Advance(x, more)
    PROVE  scan' \in ScanRow
BY DEF TypeOK, Advance, ScanRow

LEMMA CaughtUpType == ASSUME TypeOK, ghost' = CaughtUp PROVE ghost' \in Ghost
<1>1. ghost \in Ghost
  BY DEF TypeOK, Ghost
<1>2. ghost' = [ghost EXCEPT !.unsaid = @ \cap Differing(disk, content, location', recorded'),
                             !.dropped = @ \cap Differing(disk, content, location', recorded')]
  BY DEF CaughtUp
<1> QED BY <1>1, <1>2 DEF Ghost

LEMMA TypeClaim == ASSUME TypeOK, Claim PROVE TypeOK'
<1>1. request' \in Request
  <2>1. request \in Request /\ request.attempts + 1 \in 0..MaxAttempts
    BY ConstantTypes DEF Claim, TypeOK, Request
  <2> QED BY <2>1 DEF Claim, Request
<1>2. walk' \in Walk
  <2>1. root.revision \in Nat
    BY RootFields DEF TypeOK
  <2> QED BY <2>1, ConstantTypes DEF Claim, Walk
<1>3. degraded' \in BOOLEAN
  BY DEF Claim, TypeOK
<1> QED BY <1>1, <1>2, <1>3 DEF Claim, TypeOK, world, watcher, catalogue

LEMMA TypeBeginScan == ASSUME TypeOK, BeginScan PROVE TypeOK'
<1>1. walk' \in Walk
  BY DEF BeginScan, TypeOK, Walk
<1>2. scan' \in ScanRow
  <2>1. walk.revision \in Nat /\ root.loss \in Nat /\ request.paths \subseteq Places
    BY RootFields DEF TypeOK, Walk, Request
  <2>2. scan \in ScanRow
    BY DEF TypeOK
  <2>3. CASE Resumable
    BY <2>2, <2>3 DEF BeginScan
  <2>4. CASE ~Resumable
    <3>1. scan' = [NoScan EXCEPT !.status = "running",
                   !.partial = (request.paths # {}),
                   !.revision = walk.revision, !.loss = root.loss,
                   !.pending = IF request.paths = {} THEN {Top}
                               ELSE request.paths]
      BY <2>4 DEF BeginScan
    <3>2. (request.paths # {}) \in BOOLEAN
          /\ (IF request.paths = {} THEN {Top} ELSE request.paths) \in SUBSET Places
      BY <2>1, ConstantTypes
    <3> QED BY <3>1, <3>2, <2>1, ConstantTypes DEF ScanRow
  <2> QED BY <2>3, <2>4
<1>3. errors' \in [Places -> {"none", "old", "new"}]
  BY DEF BeginScan, TypeOK
<1>4. ghost' \in Ghost
  <2>1. ghost \in Ghost
    BY DEF TypeOK, Ghost
  <2>2. {p \in Paths : disk[p] # None} \subseteq Paths
    OBVIOUS
  <2> QED BY <2>1, <2>2 DEF BeginScan, Ghost
<1> QED BY <1>1, <1>2, <1>3, <1>4 DEF BeginScan, TypeOK, world, watcher, memory, catalogue, Ghost

\* The steps that look at the disk change only these.
LEMMA TypeLook ==
    ASSUME TypeOK, walk' \in Walk, scan' \in ScanRow,
           errors' \in [Places -> {"none", "old", "new"}],
           armed' \subseteq Dirs, directories' \subseteq Dirs, used' \in Used,
           degraded' \in BOOLEAN, root' \in RootRow, ghost' \in Ghost,
           UNCHANGED <<world, events, overflow, initialized, dirty, tick,
                       request, catalogue>>
    PROVE  TypeOK'
BY DEF TypeOK, world, catalogue, Used, Ghost

LEMMA TypeNextEntry == ASSUME TypeOK, NextEntry PROVE TypeOK'
<1> PICK x \in scan.pending :
        /\ walk.pc = "next"
        /\ IF ~Exists(x)
           THEN /\ errors' = [errors EXCEPT ![x] = "new"]
                /\ Advance(x, {})
                /\ UNCHANGED <<armed, directories, walk>>
           ELSE IF x \in Paths
           THEN /\ walk' = [walk EXCEPT !.pc = "entries", !.at = x, !.todo = {x}]
                /\ UNCHANGED <<armed, directories, scan, errors>>
           ELSE /\ Register(x)
                /\ walk' = [walk EXCEPT !.pc = "open", !.at = x]
                /\ UNCHANGED <<scan, errors>>
        /\ UNCHANGED <<world, events, overflow, degraded, initialized, dirty,
                       tick, root, request, catalogue, used, ghost>>
  BY DEF NextEntry
<1>0. x \in Places
  BY DEF TypeOK, ScanRow
<1>1. scan' \in ScanRow
  <2>1. scan \in ScanRow
    BY DEF TypeOK
  <2> QED BY <2>1, AdvanceType
<1>2. walk' \in Walk
  <2>1. walk \in Walk
    BY DEF TypeOK
  <2>2. CASE walk' = walk
    BY <2>1, <2>2
  <2>3. CASE x \in Paths /\ walk' = [walk EXCEPT !.pc = "entries", !.at = x, !.todo = {x}]
    BY <2>1, <2>3, <1>0 DEF Walk
  <2>4. CASE walk' = [walk EXCEPT !.pc = "open", !.at = x]
    BY <2>1, <2>4, <1>0 DEF Walk
  <2> QED BY <2>2, <2>3, <2>4
<1>3. errors' \in [Places -> {"none", "old", "new"}]
  BY <1>0 DEF TypeOK
<1>4. armed' \subseteq Dirs /\ directories' \subseteq Dirs
  BY <1>0 DEF TypeOK, Register, Places
<1> QED BY <1>1, <1>2, <1>3, <1>4, TypeLook DEF TypeOK, Used, Ghost

LEMMA TypeReadFolder == ASSUME TypeOK, ReadFolder PROVE TypeOK'
<1>0. walk.at \in Places /\ walk \in Walk /\ scan \in ScanRow
  BY DEF TypeOK, Walk
<1>1. scan' \in ScanRow
  BY <1>0, AdvanceType DEF ReadFolder
<1>2. walk' \in Walk
  <2>1. {p \in Paths : Parent[p] = walk.at /\ Exists(p)} \in SUBSET Paths
        /\ {d \in folders : Parent[d] = walk.at} \in SUBSET Folders
    BY DEF TypeOK
  <2>2. CASE Exists(walk.at)
    BY <2>1, <2>2, <1>0 DEF ReadFolder, Walk
  <2>3. CASE ~Exists(walk.at)
    BY <2>3, <1>0, ConstantTypes DEF ReadFolder, Walk
  <2> QED BY <2>2, <2>3
<1>3. errors' \in [Places -> {"none", "old", "new"}]
  BY <1>0 DEF TypeOK, ReadFolder
<1> QED BY <1>1, <1>2, <1>3, TypeLook DEF ReadFolder, TypeOK, Used, Ghost, watcher, memory

LEMMA TypeObserve == ASSUME TypeOK, Observe PROVE TypeOK'
<1> PICK p \in walk.todo :
        /\ walk.pc = "entries"
        /\ IF disk[p] # None
           THEN /\ walk' = [walk EXCEPT !.pc = "ingest",
                       !.held = [path |-> p, file |-> disk[p],
                                 content |-> content[disk[p]]]]
                /\ UNCHANGED errors
           ELSE /\ errors' = [errors EXCEPT ![p] = "new"]
                /\ walk' = [walk EXCEPT !.todo = @ \ {p}]
        /\ UNCHANGED <<world, watcher, memory, root, request, scan, catalogue,
                       used, ghost>>
  BY DEF Observe
<1>0. p \in Paths /\ p \in Places /\ walk \in Walk
  BY ConstantTypes DEF TypeOK, Walk
<1>1. ASSUME disk[p] # None
      PROVE  [path |-> p, file |-> disk[p], content |-> content[disk[p]]] \in Held
  <2>1. disk[p] \in Files
    BY <1>0, <1>1 DEF TypeOK
  <2>2. content[disk[p]] \in 0..MaxContents
    <3>1. content[disk[p]] \in 1..MaxContents
      BY <2>1 DEF TypeOK
    <3> QED BY <3>1, ConstantTypes
  <2> QED BY <1>0, <2>1, <2>2 DEF Held
<1>2. walk' \in Walk
  <2>1. CASE disk[p] # None
    <3>1. walk' = [walk EXCEPT !.pc = "ingest",
                       !.held = [path |-> p, file |-> disk[p],
                                 content |-> content[disk[p]]]]
      BY <2>1
    <3> QED BY <3>1, <2>1, <1>0, <1>1 DEF Walk
  <2>2. CASE disk[p] = None
    <3>1. walk' = [walk EXCEPT !.todo = @ \ {p}]
      BY <2>2
    <3> QED BY <3>1, <1>0 DEF Walk
  <2> QED BY <2>1, <2>2
<1>3. errors' \in [Places -> {"none", "old", "new"}]
  BY <1>0 DEF TypeOK
<1> QED BY <1>2, <1>3, TypeLook DEF TypeOK, Used, Ghost, watcher, memory

LEMMA TypePathFails == ASSUME TypeOK, PathFails PROVE TypeOK'
<1>0. walk.at \in Places /\ walk \in Walk /\ scan \in ScanRow
      /\ walk.todo \subseteq Paths /\ walk.found \subseteq Folders
  BY DEF TypeOK, Walk
<1>2. ASSUME NEW p \in walk.todo, errors' = [errors EXCEPT ![p] = "new"],
             walk' = [walk EXCEPT !.todo = @ \ {p}], UNCHANGED scan
      PROVE  walk' \in Walk /\ scan' \in ScanRow
             /\ errors' \in [Places -> {"none", "old", "new"}]
  <2>1. walk' \in Walk
    BY <1>0, <1>2 DEF Walk
  <2> QED BY <1>0, <1>2, <2>1, ConstantTypes DEF TypeOK
<1>3. ASSUME NEW found \in SUBSET walk.found, errors' = [errors EXCEPT ![walk.at] = "new"],
             walk' = [walk EXCEPT !.todo = {}, !.found = found, !.cut = TRUE],
             UNCHANGED scan
      PROVE  walk' \in Walk /\ scan' \in ScanRow
             /\ errors' \in [Places -> {"none", "old", "new"}]
  <2>1. walk' \in Walk
    BY <1>0, <1>3 DEF Walk
  <2> QED BY <1>0, <1>3, <2>1 DEF TypeOK
<1>4. walk' \in Walk /\ scan' \in ScanRow
      /\ errors' \in [Places -> {"none", "old", "new"}]
  <2>1. CASE /\ Advance(walk.at, {})
           /\ errors' = [errors EXCEPT ![walk.at] = "new"]
           /\ walk' = [walk EXCEPT !.pc = "next", !.at = Top]
    <3>1. scan' \in ScanRow
      BY <1>0, <2>1, AdvanceType
    <3>2. walk' \in Walk
      BY <1>0, <2>1, ConstantTypes DEF Walk
    <3> QED BY <1>0, <2>1, <3>1, <3>2 DEF TypeOK
  <2> QED BY <2>1, <1>2, <1>3 DEF PathFails
<1>5. used' \in Used
  BY IncidentType DEF PathFails, Fault
<1> QED BY <1>4, <1>5, TypeLook DEF PathFails, TypeOK, Ghost, watcher, memory

LEMMA TypeWatchRefused == ASSUME TypeOK, WatchRefused PROVE TypeOK'
<1> PICK d \in scan.pending \cap Dirs :
        /\ Fault
        /\ Unregistered(d)
        /\ root' = [root EXCEPT !.mode = "polling", !.error = "WATCH_LIMIT"]
        /\ walk' = [walk EXCEPT !.pc = "open", !.at = d, !.unwatched = TRUE]
        /\ ghost' = [ghost EXCEPT !.intact = FALSE]
        /\ UNCHANGED <<world, events, overflow, initialized, dirty, tick,
                       request, scan, errors, catalogue>>
  BY DEF WatchRefused
<1>1. walk' \in Walk
  BY ConstantTypes DEF TypeOK, Walk
<1>2. root' \in RootRow
  BY DEF TypeOK, RootRow
<1>3. ghost' \in Ghost
  BY DEF TypeOK, Ghost
<1>4. used' \in Used
  BY IncidentType DEF Fault
<1> QED BY <1>1, <1>2, <1>3, <1>4, TypeLook DEF TypeOK, Unregistered

\* What the walker holds is a file that it found at a path.
Holding == walk.pc = "ingest" =>
    walk.held.path \in walk.todo /\ walk.held.file \in Files

LEMMA TypeIngest == ASSUME TypeOK, Holding, Ingest PROVE TypeOK'
<1> DEFINE held == walk.held
           old  == location[held.path]
<1>1. walk \in Walk /\ held \in Held /\ scan \in ScanRow
  BY DEF TypeOK, Walk
<1>2. held.path \in Paths /\ held.file \in Files /\ held.content \in 0..MaxContents
      /\ held.path \in Places
  BY <1>1, ConstantTypes DEF Holding, Ingest, Walk, Held
<1>3. walk' \in Walk
  <2>1. walk' = [walk EXCEPT !.pc = "entries", !.todo = @ \ {held.path}, !.held = NoFile]
    BY DEF Ingest
  <2> QED BY <1>1, <2>1, ConstantTypes DEF Walk
<1>4. /\ location' \in [Paths -> Files \cup {None}]
      /\ primary' \in [Files -> Paths \cup {None}]
      /\ recorded' \in [Files -> 0..MaxContents]
  BY <1>2 DEF TypeOK, Ingest, catalogue
<1>5. availability' \in [Files -> {"none", "available", "missing"}]
  BY DEF TypeOK, Ingest, catalogue
<1>6. scan' \in ScanRow
  <2>1. CASE scan' = [scan EXCEPT !.observed = @ \cup {held.path}]
    BY <2>1, <1>1, <1>2 DEF ScanRow
  <2> QED BY <2>1, <1>1 DEF Ingest
<1>7. errors' \in [Places -> {"none", "old", "new"}]
  BY <1>2 DEF TypeOK, Ingest
<1>8. ghost' \in Ghost
  BY CaughtUpType DEF Ingest
<1>9. UNCHANGED <<world, watcher, memory, root, request, used>>
  BY DEF Ingest
<1> QED BY <1>3, <1>4, <1>5, <1>6, <1>7, <1>8, <1>9 DEF TypeOK, world, watcher, memory, Ghost

LEMMA TypeLeaveEntry == ASSUME TypeOK, LeaveEntry PROVE TypeOK'
<1>0. walk.at \in Places /\ walk \in Walk /\ scan \in ScanRow
      /\ walk.found \subseteq Places
  BY ConstantTypes DEF TypeOK, Walk, Dirs
<1>1. scan' \in ScanRow
  BY <1>0, AdvanceType DEF LeaveEntry
<1>2. walk' \in Walk
  BY <1>0, ConstantTypes DEF LeaveEntry, Walk
<1>3. errors' \in [Places -> {"none", "old", "new"}]
  BY <1>0 DEF TypeOK, LeaveEntry
<1> QED BY <1>1, <1>2, <1>3, TypeLook DEF LeaveEntry, TypeOK, Used, Ghost, watcher, memory

LEMMA TypeCloseScan == ASSUME TypeOK, CloseScan PROVE TypeOK'
<1> DEFINE Rest == UNCHANGED <<world, watcher, memory, request, used>>
<1>1. CASE ~Current
  <2>1. walk' \in Walk
    BY <1>1, EndedType DEF CloseScan
  <2> QED BY <1>1, <2>1 DEF CloseScan, TypeOK, world, watcher, memory, catalogue
<1>2. CASE Current
  <2>1. errors' \in [Places -> {"none", "old", "new"}]
    BY <1>2 DEF CloseScan, Cleared, TypeOK
  <2>2. Rest
    BY DEF CloseScan
  <2>3. CASE CloseUnconfirmed
    <3>1. scan' \in ScanRow
      BY <2>3, ClosedType DEF CloseUnconfirmed
    <3>2. root' \in RootRow
      BY <2>3 DEF CloseUnconfirmed, TypeOK, RootRow
    <3>3. walk' \in Walk
      BY <2>3, EndedType DEF CloseUnconfirmed
    <3>4. ghost' \in Ghost
      BY <2>3 DEF CloseUnconfirmed, TypeOK, Ghost
    <3> QED BY <2>1, <2>2, <2>3, <3>1, <3>2, <3>3, <3>4
            DEF CloseUnconfirmed, TypeOK, world, watcher, memory, catalogue, Ghost
  <2>4. CASE CloseConfirmed
    <3>1. scan' \in ScanRow
      <4>1. Closed("complete") \in ScanRow
        BY ClosedType
      <4> QED BY <2>4, <4>1 DEF CloseConfirmed, ScanRow
    <3>2. root' \in RootRow
      <4>1. root \in RootRow /\ scan.loss \in Nat
        BY DEF TypeOK, ScanRow
      <4>2. CaughtUpLosses \in Nat
        BY <4>1, RootFields DEF CaughtUpLosses
      <4>3. root' = [root EXCEPT !.status = "active",
                       !.recovered = CaughtUpLosses,
                       !.error = IF @ = "WATCH_LIMIT" THEN @
                                 ELSE IF root.loss > CaughtUpLosses
                                 THEN "WATCH_EVENTS_LOST" ELSE ""]
        BY <2>4 DEF CloseConfirmed
      <4> HIDE DEF CaughtUpLosses
      <4> QED BY <4>1, <4>2, <4>3 DEF RootRow
    <3>3. walk' \in Walk
      <4>1. walk.unwatched \in BOOLEAN
        BY DEF TypeOK, Walk
      <4> QED BY <2>4, <4>1, EndedType DEF CloseConfirmed
    <3>4. ghost' \in Ghost
      <4>1. CaughtUp \in Ghost
        <5>1. ghost \in Ghost
          BY DEF TypeOK, Ghost
        <5> QED BY <5>1 DEF CaughtUp, Ghost
      <4> QED BY <2>4, <4>1 DEF CloseConfirmed, Ghost
    <3>5. location' \in [Paths -> Files \cup {None}]
      BY <2>4 DEF CloseConfirmed, TypeOK
    <3>6. availability' \in [Files -> {"none", "available", "missing"}]
      BY <2>4 DEF CloseConfirmed, TypeOK
    <3>7. primary' \in [Files -> Paths \cup {None}]
      <4>1. PICK choice \in [{f \in Files : recorded[f] # 0} -> Paths] :
               primary' = [f \in Files |->
                  IF f \in {g \in Files : recorded[g] # 0}
                     /\ {p \in Paths : location'[p] = f} # {}
                  THEN choice[f] ELSE primary[f]]
        BY <2>4 DEF CloseConfirmed
      <4> QED BY <4>1 DEF TypeOK
    <3>8. UNCHANGED recorded
      BY <2>4 DEF CloseConfirmed
    <3> QED BY <2>1, <2>2, <3>1, <3>2, <3>3, <3>4, <3>5, <3>6, <3>7, <3>8
            DEF TypeOK, world, watcher, memory, Ghost
  <2> QED BY <1>2, <2>3, <2>4 DEF CloseScan
<1> QED BY <1>1, <1>2

LEMMA TypeEnd ==
    ASSUME TypeOK, RootFails \/ Interrupt \/ Finish PROVE TypeOK'
<1>1. CASE RootFails
  <2>1. scan' \in ScanRow
    BY <1>1, ClosedType DEF RootFails, TypeOK
  <2>2. root' \in RootRow
    BY <1>1 DEF RootFails, TypeOK, RootRow
  <2>3. walk' \in Walk /\ used' \in Used
    BY <1>1, EndedType, IncidentType DEF RootFails, Fault
  <2> QED BY <1>1, <2>1, <2>2, <2>3
          DEF RootFails, TypeOK, world, watcher, memory, catalogue, Used
<1>2. CASE Interrupt
  <2>1. walk' \in Walk
    BY <1>2, EndedType DEF Interrupt
  <2> QED BY <1>2, <2>1 DEF Interrupt, TypeOK, world, watcher, memory, catalogue
<1>3. CASE Finish
  <2>1. root' \in RootRow
    BY <1>3 DEF Finish, TypeOK, RootRow
  <2>2. request' \in Request
    BY <1>3, ConstantTypes DEF Finish, TypeOK, Request
  <2>3. ghost' \in Ghost
    <3>1. ghost \in Ghost
      BY DEF TypeOK, Ghost
    <3>2. ghost' = [ghost EXCEPT !.intact = ghost'.intact] /\ ghost'.intact \in BOOLEAN
      BY <1>3, <3>1 DEF Finish, Ghost
    <3> QED BY <3>1, <3>2 DEF Ghost
  <2>4. walk' \in Walk
    BY <1>3, ConstantTypes DEF Finish
  <2> QED BY <1>3, <2>1, <2>2, <2>3, <2>4
          DEF Finish, TypeOK, world, watcher, memory, catalogue, Ghost
<1> QED BY <1>1, <1>2, <1>3

LEMMA TypeUsers == ASSUME TypeOK, Users \/ Restart PROVE TypeOK'
<1>0. root \in RootRow /\ request \in Request /\ scan \in ScanRow /\ ghost \in Ghost
      /\ root.revision + 1 \in Nat
  <2>1. root.revision \in Nat
    BY RootFields DEF TypeOK
  <2> QED BY <2>1 DEF TypeOK, Ghost
<1>1. CASE Cancel
  <2>1. root' \in RootRow /\ request' \in Request /\ ghost' \in Ghost /\ used' \in Used
    <3>1. root' \in RootRow
      BY <1>0, <1>1 DEF Cancel, RootRow
    <3>2. request' \in Request
      BY <1>0, <1>1, ConstantTypes DEF Cancel, Request
    <3>3. ghost' \in Ghost
      BY <1>0, <1>1 DEF Cancel, Ghost
    <3> QED BY <1>1, <3>1, <3>2, <3>3, IncidentType DEF Cancel, Control
  <2> QED BY <1>1, <2>1 DEF Cancel, TypeOK, world, watcher, memory, catalogue, Used, Ghost
<1>2. CASE Verify
  <2>1. root' \in RootRow /\ request' \in Request /\ used' \in Used
    <3>1. root' \in RootRow
      BY <1>0, <1>2 DEF Verify, RootRow
    <3>2. request' \in Request
      BY <1>0, <1>2, ConstantTypes DEF Verify, Request
    <3> QED BY <1>2, <3>1, <3>2, IncidentType DEF Verify, Control
  <2> QED BY <1>2, <2>1 DEF Verify, TypeOK, world, watcher, memory, catalogue, Used
<1>3. CASE RetryScanErrors
  <2>1. scan' \in ScanRow /\ request' \in Request /\ used' \in Used
    <3>1. scan' \in ScanRow
      BY <1>0, <1>3, ClosedType DEF RetryScanErrors
    <3>2. request' = [NoRequest EXCEPT !.status = "queued",
                         !.paths = {x \in Places : errors[x] # "none"}]
      BY <1>3 DEF RetryScanErrors
    <3>3. {x \in Places : errors[x] # "none"} \in SUBSET Places
      OBVIOUS
    <3>4. request' \in Request
      BY <3>2, <3>3, ConstantTypes DEF Request
    <3> QED BY <1>3, <3>1, <3>4, IncidentType DEF RetryScanErrors, Control
  <2> QED BY <1>3, <2>1
          DEF RetryScanErrors, TypeOK, world, watcher, memory, catalogue, Used
<1>4. CASE ConfigureRoot
  <2>1. root' \in RootRow
    BY <1>0, <1>4 DEF ConfigureRoot, RootRow
  <2>2. used' \in Used
    BY <1>4, IncidentType DEF ConfigureRoot, Control
  <2> QED BY <1>4, <2>1, <2>2
          DEF ConfigureRoot, TypeOK, world, watcher, memory, catalogue, Used
<1>5. CASE Restart
  <2>1. request' \in Request
    BY <1>0, <1>5, ConstantTypes DEF Restart, Request
  <2>2. ghost' \in Ghost
    <3>1. ghost' = [ghost EXCEPT !.intact = ghost'.intact, !.unsaid = {}]
          /\ ghost'.intact \in BOOLEAN
      BY <1>0, <1>5 DEF Restart, Ghost
    <3> QED BY <1>0, <3>1 DEF Ghost
  <2>3. used' \in Used
    BY <1>5, IncidentType DEF Restart
  <2>4. events' \in Seq(Event) /\ Len(events') <= QueueSize
    BY <1>5, ConstantTypes DEF Restart
  <2> QED BY <1>5, <2>1, <2>2, <2>3, <2>4, ConstantTypes
          DEF Restart, TypeOK, world, catalogue, Used, Ghost
<1> QED BY <1>1, <1>2, <1>3, <1>4, <1>5 DEF Users

LEMMA TypeStep == ASSUME TypeOK, Holding, [Next]_vars PROVE TypeOK'
<1>1. CASE UNCHANGED vars
  BY <1>1 DEF TypeOK, vars, world, watcher, memory, catalogue
<1>2. CASE Worker
  BY <1>2, TypeClaim, TypeBeginScan, TypeNextEntry, TypeReadFolder, TypeObserve,
     TypeIngest, TypeLeaveEntry, TypeCloseScan, TypeEnd DEF Worker
<1>3. CASE Failures
  BY <1>3, TypeWatchRefused, TypePathFails, TypeEnd DEF Failures
<1> QED BY <1>1, <1>2, <1>3, TypeOutside, TypeRuntime, TypeUsers DEF Next
-----------------------------------------------------------------------------
(* The way up.  U runs through the sets of directories that hold with each *)
(* directory the one above it: the least of them that holds d is the way   *)
(* from d up to the root.                                                  *)

Upward(U) == \A d \in U \ {Top} : Parent[d] \in U

\* S holds d or a directory above it.
Above(S, d) == \A U \in SUBSET Dirs : d \in U /\ Upward(U) => \E x \in S : x \in U

\* A walk of the places S comes to the path p.
Meets(S, p) == p \in S \/ Above(S, Parent[p])

\* A walk that starts at the places S comes to the place x.
Under(S, x) == IF x \in Paths THEN Meets(S, x) ELSE Above(S, x)

\* Every directory, and every file, is in a directory.
Tree == /\ \A d \in folders : Parent[d] \in folders \cup {Top}
        /\ \A p \in Paths : disk[p] # None => Parent[p] \in folders \cup {Top}

LEMMA DirFacts ==
    /\ Top \in Dirs /\ Top \notin Paths /\ Top \notin Folders
    /\ \A d \in Dirs \ {Top} : d \in Folders /\ Parent[d] \in Dirs /\ d \notin Paths
    /\ \A p \in Paths : Parent[p] \in Dirs /\ p \notin Dirs
    /\ \A x \in Places : x \notin Paths => x \in Dirs
BY ReconciliationAssumption DEF Dirs, Top, Places

LEMMA AboveSelf == ASSUME NEW S, NEW x \in S PROVE Above(S, x)
BY DEF Above

\* Who is above each directory of S is above whatever S is above.
LEMMA AboveStep ==
    ASSUME NEW S, NEW T, NEW d, Above(S, d), \A x \in S : x \in Dirs => Above(T, x)
    PROVE  Above(T, d)
<1> SUFFICES ASSUME NEW U \in SUBSET Dirs, d \in U, Upward(U) PROVE \E y \in T : y \in U
  BY DEF Above
<1>1. PICK x \in S : x \in U
  BY DEF Above
<1> QED BY <1>1 DEF Above

LEMMA AboveGrows ==
    ASSUME NEW S, NEW T, NEW d, Above(S, d), \A x \in S : x \in Dirs => x \in T
    PROVE  Above(T, d)
BY AboveStep, AboveSelf

LEMMA AboveTop == ASSUME NEW S, Top \in S, NEW d \in Dirs PROVE Above(S, d)
<1> SUFFICES ASSUME NEW U \in SUBSET Dirs, d \in U, Upward(U) PROVE Top \in U
  BY DEF Above
<1> QED BY TreeAssumption DEF Upward

LEMMA AboveParent ==
    ASSUME NEW S, NEW d \in Folders, Parent[d] \in S PROVE Above(S, d)
BY DirFacts DEF Above, Upward

LEMMA AboveTopOnly == ASSUME NEW S, Above(S, Top) PROVE Top \in S
<1>1. {Top} \in SUBSET Dirs /\ Upward({Top})
  BY DirFacts DEF Upward
<1> QED BY <1>1 DEF Above

LEMMA NothingAbove == ASSUME NEW d \in Dirs PROVE ~Above({}, d)
<1>1. Dirs \in SUBSET Dirs /\ Upward(Dirs)
  BY DirFacts DEF Upward
<1> QED BY <1>1 DEF Above

\* From an existing directory that is not x, the way up that came to x comes
\* to an existing directory in x first.
LEMMA AboveDescends ==
    ASSUME TypeOK, Tree, NEW S, NEW T, NEW x \in Dirs,
           NEW d \in folders \cup {Top}, d # x, Above(S, d),
           \A y \in S : y \in Dirs /\ y # x => y \in T,
           \A c \in folders : Parent[c] = x => c \in T
    PROVE  Above(T, d)
<1> SUFFICES ASSUME NEW U \in SUBSET Dirs, d \in U, Upward(U),
                    \A y \in T : y \notin U
             PROVE  FALSE
  BY DEF Above
<1> DEFINE V == (U \cap (folders \cup {Top})) \ {x}
<1>1. V \in SUBSET Dirs /\ d \in V
  OBVIOUS
<1>2. Upward(V)
  <2> SUFFICES ASSUME NEW c \in V, c # Top PROVE Parent[c] \in V
    BY DEF Upward
  <2>1. c \in folders /\ Parent[c] \in folders \cup {Top} /\ Parent[c] \in U
    BY DEF Tree, Upward
  <2>2. Parent[c] # x
    BY <2>1
  <2> QED BY <2>1, <2>2
<1>3. PICK y \in S : y \in V
  BY <1>1, <1>2 DEF Above
<1> QED BY <1>3

LEMMA MeetsStep ==
    ASSUME NEW S, NEW T, NEW p, Meets(S, p), p \in S => p \in T,
           \A x \in S : x \in Dirs => Above(T, x)
    PROVE  Meets(T, p)
BY AboveStep DEF Meets

LEMMA MeetsGrows ==
    ASSUME NEW S, NEW T, NEW p, Meets(S, p), p \in S => p \in T,
           \A x \in S : x \in Dirs => x \in T
    PROVE  Meets(T, p)
BY AboveGrows DEF Meets

LEMMA MeetsTop == ASSUME NEW S, Top \in S, NEW p \in Paths PROVE Meets(S, p)
BY AboveTop, DirFacts DEF Meets

LEMMA MeetsUnder ==
    ASSUME NEW S, NEW T, NEW p \in Paths, Meets(S, p), \A x \in S : Under(T, x)
    PROVE  Meets(T, p)
<1>1. \A x \in S : x \in Dirs => Above(T, x)
  BY DirFacts DEF Under
<1>2. CASE p \in S
  BY <1>2 DEF Under
<1>3. CASE Above(S, Parent[p])
  BY <1>1, <1>3, AboveStep DEF Meets
<1> QED BY <1>2, <1>3 DEF Meets

LEMMA TreeInit == Init => Tree
BY DEF Init, Tree

LEMMA TreeStep == ASSUME TypeOK, Tree, [Next]_vars PROVE Tree'
<1>1. CASE UNCHANGED <<disk, folders>>
  BY <1>1 DEF Tree
<1>2. CASE WriteFile
  <2>1. PICK p \in Paths, f \in Files : /\ Parent[p] \in folders \cup {Top}
                                       /\ disk' = [disk EXCEPT ![p] = f]
    BY <1>2 DEF WriteFile
  <2> QED BY <2>1, <1>2 DEF WriteFile, Tree, TypeOK
<1>3. CASE RemoveFile
  BY <1>3 DEF RemoveFile, Tree, TypeOK
<1>4. CASE AddFolder
  BY <1>4 DEF AddFolder, Tree
<1>5. CASE RemoveFolder
  <2>1. PICK d \in folders : /\ \A x \in Names : Parent[x] = d => ~Exists(x)
                            /\ folders' = folders \ {d} /\ disk' = disk
    BY <1>5 DEF RemoveFolder
  <2>2. ASSUME NEW c \in folders' PROVE Parent[c] \in folders' \cup {Top}
    <3>1. c \in Names /\ c \notin Paths
      BY <2>1, ReconciliationAssumption DEF TypeOK, Names
    <3>2. Exists(c)
      BY <2>1, <2>2, <3>1 DEF Exists
    <3> QED BY <2>1, <2>2, <3>1, <3>2 DEF Tree
  <2>3. ASSUME NEW p \in Paths, disk'[p] # None PROVE Parent[p] \in folders' \cup {Top}
    <3>1. p \in Names /\ Exists(p)
      BY <2>1, <2>3 DEF Names, Exists
    <3> QED BY <2>1, <2>3, <3>1 DEF Tree
  <2> QED BY <2>2, <2>3 DEF Tree
<1>6. CASE Runtime \/ Worker \/ Failures \/ Users \/ Restart
  BY <1>1, <1>6 DEF Runtime, Worker, Failures, Users, Restart, HandleEvent, EventsLost,
     Enqueue, Unwatch, TakeMarks, Claim, BeginScan, NextEntry, ReadFolder, Observe,
     Ingest, LeaveEntry, CloseScan, Interrupt, Finish, WatchRefused, PathFails,
     RootFails, Cancel, Verify, RetryScanErrors, ConfigureRoot, world
<1> QED BY <1>1, <1>2, <1>3, <1>4, <1>5, <1>6 DEF Next, Outside, vars, world
-----------------------------------------------------------------------------
(* Where the walker is.                                                    *)

Walking == walk.pc \in {"next", "open", "entries", "ingest"}
Listing == walk.pc \in {"entries", "ingest"}

\* The walker runs exactly while its request does, and its row with it.
RunsWithRow ==
    /\ walk.pc # "idle" <=> request.status = "running"
    /\ Walking => scan.status = "running" /\ scan.revision = walk.revision
    /\ walk.pc = "ended" => walk.result # ""
    /\ walk.pc = "ended" /\ walk.result \in {"ok", "partial", "transient"} =>
          scan.status # "running"

\* It is at an entry of its queue, and has read what it holds from there.
AtEntry ==
    /\ walk.pc \in {"open", "entries", "ingest"} => walk.at \in scan.pending
    /\ walk.pc = "open" => walk.at \in Dirs
    /\ ~Listing => walk.todo = {} /\ walk.found = {} /\ ~walk.cut
    /\ \A d \in walk.found : Parent[d] = walk.at
    /\ \A p \in walk.todo : p = walk.at \/ Parent[p] = walk.at

WalkerPlaced == RunsWithRow /\ AtEntry /\ Holding

LEMMA NoWalkFields ==
    /\ NoWalk.pc = "idle" /\ NoWalk.todo = {} /\ NoWalk.found = {} /\ ~NoWalk.cut
    /\ NoWalk.revision = 0
    /\ \A r : /\ [NoWalk EXCEPT !.pc = "ended", !.result = r].pc = "ended"
              /\ [NoWalk EXCEPT !.pc = "ended", !.result = r].result = r
              /\ [NoWalk EXCEPT !.pc = "ended", !.result = r].todo = {}
              /\ [NoWalk EXCEPT !.pc = "ended", !.result = r].found = {}
              /\ ~[NoWalk EXCEPT !.pc = "ended", !.result = r].cut
              /\ [NoWalk EXCEPT !.pc = "ended", !.result = r].revision = 0
BY DEF NoWalk

LEMMA PlacedInit == Init => WalkerPlaced
<1> SUFFICES ASSUME Init PROVE WalkerPlaced
  OBVIOUS
<1>1. walk = NoWalk /\ request.status = "queued"
  BY DEF Init, NoRequest
<1> QED BY <1>1, NoWalkFields DEF WalkerPlaced, RunsWithRow, AtEntry, Holding, Walking, Listing

\* A step that leaves the walker and its row alone.
LEMMA PlacedKept ==
    ASSUME TypeOK, WalkerPlaced, UNCHANGED <<walk, scan>>,
           request'.status = "running" <=> request.status = "running"
    PROVE  WalkerPlaced'
BY DEF WalkerPlaced, RunsWithRow, AtEntry, Holding, Walking, Listing

\* A step that ends the walk.
LEMMA PlacedEnded ==
    ASSUME TypeOK, WalkerPlaced, NEW r \in {"ok", "partial", "transient", "cancelled"},
           walk'.pc = "ended" /\ walk'.result = r
           /\ walk'.todo = {} /\ walk'.found = {} /\ ~walk'.cut,
           request'.status = "running",
           r = "cancelled" \/ scan'.status # "running"
    PROVE  WalkerPlaced'
BY DEF WalkerPlaced, RunsWithRow, AtEntry, Holding, Walking, Listing

LEMMA PlacedIdle ==
    ASSUME TypeOK, WalkerPlaced, walk' = NoWalk, request'.status # "running"
    PROVE  WalkerPlaced'
BY NoWalkFields DEF WalkerPlaced, RunsWithRow, AtEntry, Holding, Walking, Listing

LEMMA PlacedNextEntry == ASSUME TypeOK, WalkerPlaced, NextEntry PROVE WalkerPlaced'
<1> PICK x \in scan.pending :
        /\ walk.pc = "next"
        /\ IF ~Exists(x)
           THEN /\ errors' = [errors EXCEPT ![x] = "new"]
                /\ Advance(x, {})
                /\ UNCHANGED <<armed, directories, walk>>
           ELSE IF x \in Paths
           THEN /\ walk' = [walk EXCEPT !.pc = "entries", !.at = x, !.todo = {x}]
                /\ UNCHANGED <<armed, directories, scan, errors>>
           ELSE /\ Register(x)
                /\ walk' = [walk EXCEPT !.pc = "open", !.at = x]
                /\ UNCHANGED <<scan, errors>>
        /\ UNCHANGED request
  BY DEF NextEntry
<1>0. x \in Places /\ walk \in Walk /\ scan \in ScanRow
  BY DEF TypeOK, ScanRow
<1>a. walk.todo = {} /\ walk.found = {} /\ ~walk.cut /\ scan.status = "running"
      /\ scan.revision = walk.revision /\ request.status = "running"
  BY DEF WalkerPlaced, RunsWithRow, AtEntry, Walking, Listing
<1>1. CASE ~Exists(x)
  <2>1. walk' = walk /\ scan' = [scan EXCEPT !.pending = (@ \ {x}) \cup {}]
    BY <1>1, <1>a DEF Advance
  <2>2. scan'.status = "running" /\ scan'.revision = scan.revision
    BY <2>1, <1>0, <1>a DEF ScanRow
  <2> QED BY <2>1, <2>2, <1>a DEF WalkerPlaced, RunsWithRow, AtEntry, Holding, Walking, Listing
<1>2. CASE Exists(x) /\ x \in Paths
  <2>1. walk' = [walk EXCEPT !.pc = "entries", !.at = x, !.todo = {x}] /\ scan' = scan
    BY <1>2
  <2>2. walk'.pc = "entries" /\ walk'.at = x /\ walk'.todo = {x}
        /\ walk'.found = {} /\ walk'.revision = walk.revision
    BY <2>1, <1>0, <1>a DEF Walk
  <2> QED BY <2>1, <2>2, <1>a DEF WalkerPlaced, RunsWithRow, AtEntry, Holding, Walking, Listing
<1>3. CASE Exists(x) /\ x \notin Paths
  <2>1. walk' = [walk EXCEPT !.pc = "open", !.at = x] /\ scan' = scan
    BY <1>3
  <2>2. walk'.pc = "open" /\ walk'.at = x /\ walk'.todo = {} /\ x \in Dirs
        /\ walk'.found = {} /\ walk'.revision = walk.revision /\ ~walk'.cut
    BY <2>1, <1>0, <1>a, <1>3, DirFacts DEF Walk
  <2> QED BY <2>1, <2>2, <1>a DEF WalkerPlaced, RunsWithRow, AtEntry, Holding, Walking, Listing
<1> QED BY <1>1, <1>2, <1>3

LEMMA PlacedWatchRefused == ASSUME TypeOK, WalkerPlaced, WatchRefused PROVE WalkerPlaced'
<1> PICK d \in scan.pending \cap Dirs :
        /\ walk.pc = "next"
        /\ walk' = [walk EXCEPT !.pc = "open", !.at = d, !.unwatched = TRUE]
        /\ UNCHANGED <<request, scan>>
  BY DEF WatchRefused
<1>1. walk \in Walk
  BY DEF TypeOK
<1>2. walk'.pc = "open" /\ walk'.at = d /\ walk'.todo = walk.todo
      /\ walk'.found = walk.found /\ walk'.revision = walk.revision /\ walk'.cut = walk.cut
  BY <1>1 DEF Walk
<1> QED BY <1>2 DEF WalkerPlaced, RunsWithRow, AtEntry, Holding, Walking, Listing

\* The entry at which the walker is leaves the queue.
LEMMA PlacedOn ==
    ASSUME TypeOK, WalkerPlaced, Walking, NEW more \in SUBSET Places,
           Advance(walk.at, more), walk'.pc = "next",
           walk'.todo = {} /\ walk'.found = {} /\ ~walk'.cut,
           walk'.revision = walk.revision, UNCHANGED request
    PROVE  WalkerPlaced'
<1>1. scan' = [scan EXCEPT !.pending = (@ \ {walk.at}) \cup more] /\ scan \in ScanRow
  BY DEF Advance, TypeOK, WalkerPlaced, RunsWithRow
<1>2. scan'.status = scan.status /\ scan'.revision = scan.revision
  BY <1>1 DEF ScanRow
<1> QED BY <1>2 DEF WalkerPlaced, RunsWithRow, AtEntry, Holding, Walking, Listing

LEMMA PlacedReadFolder == ASSUME TypeOK, WalkerPlaced, ReadFolder PROVE WalkerPlaced'
<1>0. walk \in Walk
  BY DEF TypeOK
<1>a. walk.todo = {} /\ walk.found = {} /\ ~walk.cut /\ Walking
  BY DEF WalkerPlaced, RunsWithRow, AtEntry, Walking, Listing, ReadFolder
<1>1. CASE Exists(walk.at)
  <2>1. /\ walk' = [walk EXCEPT !.pc = "entries",
                   !.todo = {p \in Paths : Parent[p] = walk.at /\ Exists(p)},
                   !.found = {d \in folders : Parent[d] = walk.at}]
        /\ UNCHANGED <<scan, request>>
    BY <1>1 DEF ReadFolder
  <2>2. /\ walk'.pc = "entries" /\ walk'.at = walk.at /\ walk'.revision = walk.revision
        /\ \A p \in walk'.todo : Parent[p] = walk.at
        /\ \A d \in walk'.found : Parent[d] = walk.at
    BY <2>1, <1>0 DEF Walk
  <2> QED BY <2>1, <2>2
          DEF WalkerPlaced, RunsWithRow, AtEntry, Holding, Walking, Listing, ReadFolder
<1>2. CASE ~Exists(walk.at)
  <2>1. walk' = [walk EXCEPT !.pc = "next", !.at = Top] /\ Advance(walk.at, {})
        /\ UNCHANGED request
    BY <1>2 DEF ReadFolder
  <2>2. walk'.pc = "next" /\ walk'.todo = {} /\ walk'.found = {} /\ ~walk'.cut
        /\ walk'.revision = walk.revision
    BY <2>1, <1>a, <1>0 DEF Walk
  <2> QED BY <2>1, <2>2, <1>a, PlacedOn
<1> QED BY <1>1, <1>2

\* The walker stays at its entry, with less to read.
LEMMA PlacedThere ==
    ASSUME TypeOK, WalkerPlaced, Listing, walk'.pc \in {"entries", "ingest"},
           walk'.at = walk.at, walk'.revision = walk.revision,
           walk'.todo \subseteq walk.todo, walk'.found \subseteq walk.found,
           scan'.status = scan.status, scan'.revision = scan.revision,
           scan'.pending = scan.pending, UNCHANGED request, Holding'
    PROVE  WalkerPlaced'
BY DEF WalkerPlaced, RunsWithRow, AtEntry, Walking, Listing

LEMMA PlacedListing ==
    ASSUME TypeOK, WalkerPlaced, Observe \/ PathFails \/ Ingest \/ LeaveEntry
    PROVE  WalkerPlaced'
<1>0. walk \in Walk /\ scan \in ScanRow
  BY DEF TypeOK
<1>1. CASE Observe
  <2>1. PICK p \in walk.todo :
        /\ walk.pc = "entries"
        /\ IF disk[p] # None
           THEN /\ walk' = [walk EXCEPT !.pc = "ingest",
                       !.held = [path |-> p, file |-> disk[p],
                                 content |-> content[disk[p]]]]
           ELSE walk' = [walk EXCEPT !.todo = @ \ {p}]
        /\ UNCHANGED <<request, scan>>
    BY <1>1 DEF Observe
  <2>2. CASE disk[p] # None
    <3>1. disk[p] \in Files
      <4>1. p \in Paths
        BY <2>1, <1>0 DEF Walk
      <4> QED BY <4>1, <2>2 DEF TypeOK
    <3>2. walk' = [walk EXCEPT !.pc = "ingest",
                       !.held = [path |-> p, file |-> disk[p],
                                 content |-> content[disk[p]]]]
      BY <2>1, <2>2
    <3>3. walk'.pc = "ingest" /\ walk'.at = walk.at /\ walk'.revision = walk.revision
          /\ walk'.todo = walk.todo /\ walk'.found = walk.found
          /\ walk'.held.path = p /\ walk'.held.file = disk[p]
      BY <3>2, <1>0 DEF Walk
    <3> QED BY <2>1, <3>1, <3>3, PlacedThere DEF Listing, Holding
  <2>3. CASE disk[p] = None
    <3>1. walk' = [walk EXCEPT !.todo = @ \ {p}]
      BY <2>1, <2>3
    <3>2. walk'.pc = "entries" /\ walk'.at = walk.at /\ walk'.revision = walk.revision
          /\ walk'.todo \subseteq walk.todo /\ walk'.found = walk.found
      BY <2>1, <3>1, <1>0 DEF Walk
    <3> QED BY <2>1, <3>2, PlacedThere DEF Listing, Holding
  <2> QED BY <2>2, <2>3
<1>2. CASE PathFails
  <2>1. CASE /\ walk.pc = "open"
             /\ Advance(walk.at, {})
             /\ walk' = [walk EXCEPT !.pc = "next", !.at = Top]
    <3>1. walk.todo = {} /\ walk.found = {} /\ ~walk.cut /\ Walking
      BY <2>1 DEF WalkerPlaced, AtEntry, Walking, Listing
    <3>2. walk'.pc = "next" /\ walk'.todo = {} /\ walk'.found = {} /\ ~walk'.cut
          /\ walk'.revision = walk.revision
      BY <2>1, <3>1, <1>0 DEF Walk
    <3> QED BY <1>2, <2>1, <3>1, <3>2, PlacedOn DEF PathFails
  <2>2. CASE \E p \in walk.todo :
          /\ walk.pc = "entries"
          /\ walk' = [walk EXCEPT !.todo = @ \ {p}]
          /\ UNCHANGED scan
    <3>1. walk.pc = "entries" /\ walk'.pc = "entries" /\ walk'.at = walk.at
          /\ walk'.revision = walk.revision
          /\ walk'.todo \subseteq walk.todo /\ walk'.found = walk.found
      BY <2>2, <1>0 DEF Walk
    <3> QED BY <1>2, <2>2, <3>1, PlacedThere DEF Listing, Holding, PathFails
  <2>3. CASE \E found \in SUBSET walk.found :
          /\ walk.pc = "entries"
          /\ walk' = [walk EXCEPT !.todo = {}, !.found = found, !.cut = TRUE]
          /\ UNCHANGED scan
    <3>1. walk.pc = "entries" /\ walk'.pc = "entries" /\ walk'.at = walk.at
          /\ walk'.revision = walk.revision
          /\ walk'.todo \subseteq walk.todo /\ walk'.found \subseteq walk.found
      BY <2>3, <1>0 DEF Walk
    <3> QED BY <1>2, <2>3, <3>1, PlacedThere DEF Listing, Holding, PathFails
  <2> QED BY <1>2, <2>1, <2>2, <2>3 DEF PathFails
<1>3. CASE Ingest
  <2>1. walk.pc = "ingest" /\ UNCHANGED request
        /\ walk' = [walk EXCEPT !.pc = "entries", !.todo = @ \ {walk.held.path},
                                !.held = NoFile]
    BY <1>3 DEF Ingest
  <2>2. walk'.pc = "entries" /\ walk'.at = walk.at /\ walk'.revision = walk.revision
        /\ walk'.todo \subseteq walk.todo /\ walk'.found = walk.found
    BY <2>1, <1>0 DEF Walk
  <2>3. scan'.status = scan.status /\ scan'.revision = scan.revision
        /\ scan'.pending = scan.pending
    <3>1. scan' = scan \/ scan' = [scan EXCEPT !.observed = @ \cup {walk.held.path}]
      BY <1>3 DEF Ingest
    <3> QED BY <1>0, <3>1 DEF ScanRow
  <2> QED BY <2>1, <2>2, <2>3, PlacedThere DEF Listing, Holding
<1>4. CASE LeaveEntry
  <2>1. walk.pc = "entries" /\ walk.todo = {} /\ Advance(walk.at, walk.found)
        /\ walk' = [walk EXCEPT !.pc = "next", !.at = Top, !.found = {}, !.cut = FALSE]
        /\ UNCHANGED request
    BY <1>4 DEF LeaveEntry
  <2>2. walk'.pc = "next" /\ walk'.todo = {} /\ walk'.found = {} /\ ~walk'.cut
        /\ walk'.revision = walk.revision
    BY <2>1, <1>0 DEF Walk
  <2>3. walk.found \in SUBSET Places
    BY <1>0, ConstantTypes DEF Walk, Dirs
  <2> QED BY <2>1, <2>2, <2>3, PlacedOn DEF Walking
<1> QED BY <1>1, <1>2, <1>3, <1>4

LEMMA PlacedClaim == ASSUME TypeOK, WalkerPlaced, Claim PROVE WalkerPlaced'
<1>1. walk' = [NoWalk EXCEPT !.revision = root.revision,
                    !.pc = IF Verifiable THEN "begin" ELSE "ended",
                    !.result = IF Verifiable THEN "" ELSE "cancelled"]
      /\ request' = [request EXCEPT !.status = "running", !.attempts = @ + 1]
  BY DEF Claim
<1>2. /\ walk'.pc = IF Verifiable THEN "begin" ELSE "ended"
      /\ walk'.result = IF Verifiable THEN "" ELSE "cancelled"
      /\ walk'.todo = {} /\ walk'.found = {} /\ ~walk'.cut
      /\ request'.status = "running"
  BY <1>1 DEF NoWalk, TypeOK, Request
<1> QED BY <1>2 DEF WalkerPlaced, RunsWithRow, AtEntry, Holding, Walking, Listing

LEMMA PlacedBeginScan == ASSUME TypeOK, WalkerPlaced, BeginScan PROVE WalkerPlaced'
<1>0. walk \in Walk /\ scan \in ScanRow
  BY DEF TypeOK
<1>1. walk.pc = "begin" /\ walk' = [walk EXCEPT !.pc = "next"] /\ request' = request
  BY DEF BeginScan
<1>2. walk'.pc = "next" /\ walk'.todo = walk.todo /\ walk'.found = walk.found
      /\ walk'.cut = walk.cut /\ walk'.revision = walk.revision
  BY <1>0, <1>1 DEF Walk
<1>3. scan'.status = "running" /\ scan'.revision = walk.revision
  BY <1>0 DEF BeginScan, Resumable, NoScan, ScanRow
<1> QED BY <1>1, <1>2, <1>3 DEF WalkerPlaced, RunsWithRow, AtEntry, Holding, Walking, Listing

LEMMA ClosedStatus ==
    \A s : Closed(s).status = s /\ [Closed(s) EXCEPT !.confirms = TRUE].status = s
BY DEF Closed, NoScan

LEMMA PlacedCloseScan == ASSUME TypeOK, WalkerPlaced, CloseScan PROVE WalkerPlaced'
<1>0. request' = request /\ request.status = "running"
  BY DEF CloseScan, WalkerPlaced, RunsWithRow
<1>1. CASE ~Current
  BY <1>0, <1>1, PlacedEnded, NoWalkFields DEF CloseScan
<1>2. CASE CloseUnconfirmed
  <2>1. scan'.status = "complete"
    BY <1>2, ClosedStatus DEF CloseUnconfirmed
  <2>2. PICK r \in {"ok", "partial"} : walk' = [NoWalk EXCEPT !.pc = "ended", !.result = r]
    BY <1>2 DEF CloseUnconfirmed
  <2> QED BY <1>0, <2>1, <2>2, PlacedEnded, NoWalkFields
<1>3. CASE CloseConfirmed
  <2>1. scan'.status = "complete"
    BY <1>3, ClosedStatus DEF CloseConfirmed
  <2>2. walk' = [NoWalk EXCEPT !.pc = "ended", !.result = "ok",
                               !.unwatched = walk.unwatched]
    BY <1>3 DEF CloseConfirmed
  <2>3. walk'.pc = "ended" /\ walk'.result = "ok"
        /\ walk'.todo = {} /\ walk'.found = {} /\ ~walk'.cut
    BY <2>2 DEF NoWalk
  <2> QED BY <1>0, <2>1, <2>3, PlacedEnded
<1> QED BY <1>1, <1>2, <1>3 DEF CloseScan

LEMMA PlacedEnd ==
    ASSUME TypeOK, WalkerPlaced, RootFails \/ Interrupt \/ Finish PROVE WalkerPlaced'
<1>1. CASE RootFails
  <2>1. request' = request /\ request.status = "running"
    BY <1>1 DEF RootFails, WalkerPlaced, RunsWithRow
  <2>2. scan'.status # "running"
    BY <1>1, ClosedStatus DEF RootFails
  <2>3. walk' = [NoWalk EXCEPT !.pc = "ended", !.result = "transient"]
    BY <1>1 DEF RootFails
  <2> QED BY <2>1, <2>2, <2>3, PlacedEnded, NoWalkFields
<1>2. CASE Interrupt
  <2>1. request' = request /\ request.status = "running"
    BY <1>2 DEF Interrupt, WalkerPlaced, RunsWithRow
  <2>2. walk' = [NoWalk EXCEPT !.pc = "ended", !.result = "cancelled"]
    BY <1>2 DEF Interrupt
  <2> QED BY <2>1, <2>2, PlacedEnded, NoWalkFields
<1>3. CASE Finish
  <2>1. walk' = NoWalk
    BY <1>3 DEF Finish
  <2>2. request'.status # "running"
    BY <1>3 DEF Finish, TypeOK, Request, NoRequest
  <2> QED BY <2>1, <2>2, PlacedIdle
<1> QED BY <1>1, <1>2, <1>3

LEMMA PlacedUsers ==
    ASSUME TypeOK, WalkerPlaced, Users \/ Restart PROVE WalkerPlaced'
<1>1. CASE Cancel
  <2>1. UNCHANGED <<walk, scan>>
    BY <1>1 DEF Cancel
  <2>2. request'.status = "running" <=> request.status = "running"
    BY <1>1 DEF Cancel, TypeOK, Request, NoRequest
  <2> QED BY <2>1, <2>2, PlacedKept
<1>2. CASE Verify
  <2>1. UNCHANGED <<walk, scan>>
    BY <1>2 DEF Verify
  <2>2. request'.status = "running" <=> request.status = "running"
    BY <1>2 DEF Verify, NoRequest
  <2> QED BY <2>1, <2>2, PlacedKept
<1>3. CASE RetryScanErrors
  <2>1. UNCHANGED walk /\ walk.pc = "idle"
    BY <1>3 DEF RetryScanErrors, WalkerPlaced, RunsWithRow
  <2>2. request'.status = "queued"
    BY <1>3 DEF RetryScanErrors, NoRequest
  <2> QED BY <2>1, <2>2 DEF WalkerPlaced, RunsWithRow, AtEntry, Holding, Walking, Listing
<1>4. CASE ConfigureRoot
  BY <1>4, PlacedKept DEF ConfigureRoot
<1>5. CASE Restart
  <2>1. walk' = NoWalk
    BY <1>5 DEF Restart
  <2>2. request'.status # "running"
    BY <1>5 DEF Restart, TypeOK, Request, NoRequest
  <2> QED BY <2>1, <2>2, PlacedIdle
<1> QED BY <1>1, <1>2, <1>3, <1>4, <1>5 DEF Users

LEMMA PlacedStep == ASSUME TypeOK, WalkerPlaced, [Next]_vars PROVE WalkerPlaced'
<1>1. CASE UNCHANGED vars
  BY <1>1, PlacedKept DEF vars
<1>2. CASE Outside \/ HandleEvent \/ EventsLost \/ Unwatch
           \/ \E due, fails \in BOOLEAN : TakeMarks(due, fails)
  <2>1. UNCHANGED <<walk, scan, request>>
    BY <1>2 DEF Outside, WriteFile, RemoveFile, AddFolder, RemoveFolder,
       HandleEvent, EventsLost, Unwatch, TakeMarks
  <2> QED BY <2>1, PlacedKept
<1>3. CASE Enqueue
  <2>1. UNCHANGED <<walk, scan>>
    BY <1>3 DEF Enqueue
  <2>2. request'.status = "running" <=> request.status = "running"
    BY <1>3 DEF Enqueue, NoRequest
  <2> QED BY <2>1, <2>2, PlacedKept
<1> QED BY <1>1, <1>2, <1>3, PlacedNextEntry, PlacedWatchRefused, PlacedReadFolder,
        PlacedListing, PlacedClaim, PlacedBeginScan, PlacedCloseScan, PlacedEnd, PlacedUsers
        DEF Next, Runtime, Worker, Failures

\* Events, marks, requests, rows and the walker keep their shape: the walker
\* that is about to write holds a file (scanOne, ingest).
THEOREM TypeCorrect == Spec => []TypeOK
<1> DEFINE I == TypeOK /\ WalkerPlaced
<1>1. Init => I
  BY TypeInit, PlacedInit
<1>2. I /\ [Next]_vars => I'
  <2> SUFFICES ASSUME I, [Next]_vars PROVE I'
    OBVIOUS
  <2> QED BY TypeStep, PlacedStep DEF WalkerPlaced
<1> QED BY <1>1, <1>2, PTL DEF Spec
-----------------------------------------------------------------------------
(* What the running row has still to look at.                              *)

FullWalk == scan.status = "running" /\ ~scan.partial

\* The directory whose listing is complete loses its error when the walk
\* leaves it.
Leaving == IF Listing /\ ~walk.cut THEN {walk.at} \cap Dirs ELSE {}

\* The queue, with what the directory being read will add to it.
Ahead == IF Listing THEN (scan.pending \ {walk.at}) \cup walk.found ELSE scan.pending

\* The errors that the walk will not clear.  At its end a full walk forgets
\* those that are older than it.
Erred == {x \in Places : errors[x] = "new" \/ (errors[x] = "old" /\ ~FullWalk)}
            \ Leaving

Cover == Ahead \cup Erred

\* The walk will look at p, or knows that it could not.
Coming(p) == p \in walk.todo \/ Meets(Cover, p)

Looked(p) == p \in scan.observed \/ Coming(p)

\* The walk stays with its row.
OfTheRow == /\ scan'.status = scan.status /\ scan'.partial = scan.partial
            /\ scan'.loss = scan.loss /\ scan'.revision = scan.revision
            /\ scan.observed \subseteq scan'.observed
            /\ (FullWalk <=> FullWalk')

\* An entry leaves the queue.
LEMMA AdvanceDoes ==
    ASSUME TypeOK, WalkerPlaced, Walking, NEW more \in SUBSET Places, NEW x,
           Advance(x, more)
    PROVE  OfTheRow /\ scan'.pending = (scan.pending \ {x}) \cup more
                    /\ scan'.observed = scan.observed
<1>1. scan' = [scan EXCEPT !.pending = (@ \ {x}) \cup more] /\ scan \in ScanRow
  BY DEF Advance, TypeOK, WalkerPlaced, RunsWithRow
<1> QED BY <1>1 DEF ScanRow, OfTheRow, FullWalk

LEMMA ComingGrows ==
    ASSUME NEW p \in Paths, Coming(p), p \in walk.todo => p \in walk'.todo \/ p \in Cover'
                                   \/ Parent[p] \in Cover',
           p \in Cover => p \in Cover' \/ p \in walk'.todo,
           \A x \in Cover : x \in Dirs => Above(Cover', x)
    PROVE  Coming(p)'
<1>1. CASE p \in walk.todo
  BY <1>1, AboveSelf DEF Coming, Meets
<1>2. CASE p \in Cover
  BY <1>2 DEF Coming, Meets
<1>3. CASE Above(Cover, Parent[p])
  BY <1>3, AboveStep DEF Coming, Meets
<1> QED BY <1>1, <1>2, <1>3 DEF Coming, Meets

LEMMA NextEntryCovers ==
    ASSUME TypeOK, WalkerPlaced, NextEntry
    PROVE  OfTheRow /\ \A p \in Paths : Coming(p) => Coming(p)'
<1> PICK x \in scan.pending :
        /\ walk.pc = "next"
        /\ IF ~Exists(x)
           THEN /\ errors' = [errors EXCEPT ![x] = "new"]
                /\ Advance(x, {})
                /\ UNCHANGED <<armed, directories, walk>>
           ELSE IF x \in Paths
           THEN /\ walk' = [walk EXCEPT !.pc = "entries", !.at = x, !.todo = {x}]
                /\ UNCHANGED <<armed, directories, scan, errors>>
           ELSE /\ Register(x)
                /\ walk' = [walk EXCEPT !.pc = "open", !.at = x]
                /\ UNCHANGED <<scan, errors>>
  BY DEF NextEntry
<1>0. x \in Places /\ walk \in Walk /\ scan \in ScanRow
      /\ errors \in [Places -> {"none", "old", "new"}]
  BY DEF TypeOK, ScanRow
<1>a. walk.todo = {} /\ walk.found = {} /\ Walking /\ ~Listing
  BY DEF WalkerPlaced, AtEntry, Walking, Listing
<1>1. CASE ~Exists(x)
  <2>1. walk' = walk /\ Advance(x, {}) /\ errors' = [errors EXCEPT ![x] = "new"]
    BY <1>1
  <2>2. OfTheRow /\ scan'.pending = scan.pending \ {x}
    BY <2>1, <1>a, AdvanceDoes
  <2>3. Cover \subseteq Cover'
    BY <2>1, <2>2, <1>a, <1>0 DEF Cover, Ahead, Erred, Leaving, Listing, OfTheRow
  <2> QED BY <2>1, <2>2, <2>3, <1>a, ComingGrows, AboveSelf
<1>2. CASE Exists(x) /\ x \in Paths
  <2>1. walk' = [walk EXCEPT !.pc = "entries", !.at = x, !.todo = {x}]
        /\ UNCHANGED <<scan, errors>>
    BY <1>2
  <2>2. walk'.pc = "entries" /\ walk'.at = x /\ walk'.todo = {x} /\ walk'.found = {}
    BY <2>1, <1>0, <1>a DEF Walk
  <2>3. OfTheRow
    BY <2>1 DEF OfTheRow, FullWalk
  <2>4. \A y \in Cover : y # x => y \in Cover'
    BY <1>a, <1>2, <2>1, <2>2, DirFacts DEF Cover, Ahead, Erred, Leaving, Listing, FullWalk
  <2> QED BY <2>2, <2>3, <2>4, <1>a, <1>2, ComingGrows, AboveSelf, DirFacts
<1>3. CASE Exists(x) /\ x \notin Paths
  <2>1. walk' = [walk EXCEPT !.pc = "open", !.at = x] /\ UNCHANGED <<scan, errors>>
    BY <1>3
  <2>2. walk'.pc = "open" /\ walk'.todo = {} /\ ~Listing'
    BY <2>1, <1>0, <1>a DEF Walk, Listing
  <2>3. OfTheRow
    BY <2>1 DEF OfTheRow, FullWalk
  <2>4. Cover = Cover'
    BY <1>a, <2>1, <2>2 DEF Cover, Ahead, Erred, Leaving, FullWalk
  <2> QED BY <2>3, <2>4, <1>a, ComingGrows, AboveSelf
<1> QED BY <1>1, <1>2, <1>3

LEMMA WatchRefusedCovers ==
    ASSUME TypeOK, WalkerPlaced, WatchRefused
    PROVE  OfTheRow /\ \A p \in Paths : Coming(p) => Coming(p)'
<1>1. walk.pc = "next" /\ UNCHANGED <<scan, errors>>
      /\ walk'.pc = "open" /\ walk'.todo = walk.todo
  BY DEF WatchRefused, TypeOK, Walk
<1>2. OfTheRow
  BY <1>1 DEF OfTheRow, FullWalk
<1>3. Cover' = Cover
  BY <1>1 DEF Cover, Ahead, Erred, Leaving, Listing, FullWalk
<1> QED BY <1>1, <1>2, <1>3, ComingGrows, AboveSelf

LEMMA ReadFolderCovers ==
    ASSUME TypeOK, Tree, WalkerPlaced, ReadFolder
    PROVE  OfTheRow /\ \A p \in Paths : disk[p] # None /\ Coming(p) => Coming(p)'
<1>0. walk \in Walk /\ scan \in ScanRow /\ errors \in [Places -> {"none", "old", "new"}]
      /\ walk.at \in Places
  BY DEF TypeOK, Walk
<1>a. walk.todo = {} /\ Walking /\ ~Listing /\ walk.at \in Dirs /\ walk.at \in scan.pending
  BY DEF WalkerPlaced, AtEntry, Walking, Listing, ReadFolder
<1>1. CASE ~Exists(walk.at)
  <2>1. /\ walk' = [walk EXCEPT !.pc = "next", !.at = Top] /\ Advance(walk.at, {})
        /\ errors' = [errors EXCEPT ![walk.at] = "new"]
    BY <1>1 DEF ReadFolder
  <2>2. OfTheRow /\ scan'.pending = scan.pending \ {walk.at}
    BY <2>1, <1>a, AdvanceDoes
  <2>3. walk'.pc = "next" /\ walk'.todo = {} /\ ~Listing'
    BY <2>1, <1>0, <1>a DEF Walk, Listing
  <2>4. Cover \subseteq Cover'
    BY <2>1, <2>2, <2>3, <1>a, <1>0 DEF Cover, Ahead, Erred, Leaving, OfTheRow
  <2> QED BY <2>2, <2>3, <2>4, <1>a, ComingGrows, AboveSelf
<1>2. CASE Exists(walk.at)
  <2>1. /\ walk' = [walk EXCEPT !.pc = "entries",
                   !.todo = {p \in Paths : Parent[p] = walk.at /\ Exists(p)},
                   !.found = {d \in folders : Parent[d] = walk.at}]
        /\ UNCHANGED <<scan, errors>>
    BY <1>2 DEF ReadFolder
  <2>2. /\ walk'.pc = "entries" /\ walk'.at = walk.at /\ walk'.cut = walk.cut
        /\ walk'.todo = {p \in Paths : Parent[p] = walk.at /\ Exists(p)}
        /\ walk'.found = {d \in folders : Parent[d] = walk.at}
    BY <2>1, <1>0 DEF Walk
  <2>3. OfTheRow
    BY <2>1 DEF OfTheRow, FullWalk
  <2>4. \A y \in Cover : y # walk.at => y \in Cover'
    BY <1>a, <2>1, <2>2 DEF Cover, Ahead, Erred, Leaving, Listing, FullWalk
  <2>5. \A c \in folders : Parent[c] = walk.at => c \in Cover'
    BY <2>2 DEF Cover, Ahead, Listing
  <2>6. ASSUME NEW p \in Paths, disk[p] # None, Coming(p) PROVE Coming(p)'
    <3>1. CASE Parent[p] = walk.at
      BY <3>1, <2>2, <2>6 DEF Coming, Exists
    <3>2. CASE p \in Cover
      BY <3>2, <2>4, <1>a, DirFacts DEF Coming, Meets
    <3>3. CASE Parent[p] # walk.at /\ Above(Cover, Parent[p])
      <4>1. Parent[p] \in folders \cup {Top}
        BY <2>6 DEF Tree
      <4>2. Above(Cover', Parent[p])
        BY <4>1, <3>3, <2>4, <2>5, <1>a, AboveDescends
      <4> QED BY <4>2 DEF Coming, Meets
    <3> QED BY <3>1, <3>2, <3>3, <2>6, <1>a DEF Coming, Meets
  <2> QED BY <2>3, <2>6
<1> QED BY <1>1, <1>2

LEMMA ObserveCovers ==
    ASSUME TypeOK, WalkerPlaced, Observe
    PROVE  OfTheRow /\ \A p \in Paths : Coming(p) => Coming(p)'
<1> PICK x \in walk.todo :
        /\ walk.pc = "entries"
        /\ IF disk[x] # None
           THEN /\ walk' = [walk EXCEPT !.pc = "ingest",
                       !.held = [path |-> x, file |-> disk[x],
                                 content |-> content[disk[x]]]]
                /\ UNCHANGED errors
           ELSE /\ errors' = [errors EXCEPT ![x] = "new"]
                /\ walk' = [walk EXCEPT !.todo = @ \ {x}]
        /\ UNCHANGED scan
  BY DEF Observe
<1>0. walk \in Walk /\ errors \in [Places -> {"none", "old", "new"}]
      /\ x \in Paths /\ x \in Places
  BY ConstantTypes DEF TypeOK, Walk
<1>1. OfTheRow
  BY DEF OfTheRow, FullWalk
<1>2. CASE disk[x] # None
  <2>1. walk'.pc = "ingest" /\ walk'.at = walk.at /\ walk'.todo = walk.todo
        /\ walk'.found = walk.found /\ walk'.cut = walk.cut /\ UNCHANGED errors
    BY <1>0, <1>2 DEF Walk
  <2>2. Cover' = Cover
    BY <2>1 DEF Cover, Ahead, Erred, Leaving, Listing, FullWalk
  <2> QED BY <1>1, <2>1, <2>2, ComingGrows, AboveSelf
<1>3. CASE disk[x] = None
  <2>1. walk'.pc = "entries" /\ walk'.at = walk.at /\ walk'.todo = walk.todo \ {x}
        /\ walk'.found = walk.found /\ walk'.cut = walk.cut
        /\ errors' = [errors EXCEPT ![x] = "new"]
    BY <1>0, <1>3 DEF Walk
  <2>2. Cover \subseteq Cover' /\ x \in Cover'
    BY <2>1, <1>0, DirFacts DEF Cover, Ahead, Erred, Leaving, Listing, FullWalk
  <2> QED BY <1>1, <2>1, <2>2, ComingGrows, AboveSelf
<1> QED BY <1>2, <1>3

LEMMA PathFailsCovers ==
    ASSUME TypeOK, WalkerPlaced, PathFails
    PROVE  OfTheRow /\ \A p \in Paths : Coming(p) => Coming(p)'
<1>0. walk \in Walk /\ errors \in [Places -> {"none", "old", "new"}]
      /\ walk.at \in Places
  BY ConstantTypes DEF TypeOK, Walk
<1>1. CASE /\ walk.pc = "open"
           /\ errors' = [errors EXCEPT ![walk.at] = "new"]
           /\ Advance(walk.at, {})
           /\ walk' = [walk EXCEPT !.pc = "next", !.at = Top]
  <2>1. walk.todo = {} /\ Walking /\ ~Listing
    BY <1>1 DEF WalkerPlaced, AtEntry, Walking, Listing
  <2>2. OfTheRow /\ scan'.pending = scan.pending \ {walk.at}
    BY <1>1, <2>1, AdvanceDoes
  <2>3. walk'.pc = "next" /\ walk'.todo = {} /\ ~Listing'
    BY <1>1, <1>0, <2>1 DEF Walk, Listing
  <2>4. Cover \subseteq Cover'
    BY <1>1, <2>1, <2>2, <2>3, <1>0 DEF Cover, Ahead, Erred, Leaving, OfTheRow
  <2> QED BY <2>1, <2>2, <2>3, <2>4, ComingGrows, AboveSelf
<1>2. ASSUME NEW x \in walk.todo, walk.pc = "entries",
             errors' = [errors EXCEPT ![x] = "new"],
             walk' = [walk EXCEPT !.todo = @ \ {x}], UNCHANGED scan
      PROVE  OfTheRow /\ \A p \in Paths : Coming(p) => Coming(p)'
  <2>1. OfTheRow
    BY <1>2 DEF OfTheRow, FullWalk
  <2>2. walk'.pc = "entries" /\ walk'.at = walk.at /\ walk'.todo = walk.todo \ {x}
        /\ walk'.found = walk.found /\ walk'.cut = walk.cut /\ x \in Paths /\ x \in Places
    BY <1>0, <1>2, ConstantTypes DEF Walk
  <2>3. Cover \subseteq Cover' /\ x \in Cover'
    BY <1>0, <1>2, <2>2, DirFacts DEF Cover, Ahead, Erred, Leaving, Listing, FullWalk
  <2> QED BY <2>1, <2>2, <2>3, ComingGrows, AboveSelf
<1>3. ASSUME NEW found \in SUBSET walk.found, walk.pc = "entries", walk.at \in Dirs,
             errors' = [errors EXCEPT ![walk.at] = "new"],
             walk' = [walk EXCEPT !.todo = {}, !.found = found, !.cut = TRUE],
             UNCHANGED scan
      PROVE  OfTheRow /\ \A p \in Paths : Coming(p) => Coming(p)'
  <2>1. OfTheRow
    BY <1>3 DEF OfTheRow, FullWalk
  <2>2. walk'.pc = "entries" /\ walk'.at = walk.at /\ walk'.todo = {}
        /\ walk'.found = found /\ walk'.cut
    BY <1>0, <1>3 DEF Walk
  <2>3. walk.at \in Cover'
    BY <1>0, <1>3, <2>2 DEF Cover, Erred, Leaving, FullWalk
  <2>4. \A y \in Cover : y \in walk.found \/ y \in Cover'
    BY <1>0, <1>3, <2>2 DEF Cover, Ahead, Erred, Leaving, Listing, FullWalk
  <2>5. \A y \in walk.found : y \in Folders /\ Parent[y] = walk.at
    BY <1>0 DEF WalkerPlaced, AtEntry, Walk
  <2>6. \A y \in Cover : y \in Dirs => Above(Cover', y)
    BY <2>3, <2>4, <2>5, AboveSelf, AboveParent
  <2>7. \A p \in walk.todo : Parent[p] = walk.at \/ p \notin Paths
    BY <1>3, DirFacts DEF WalkerPlaced, AtEntry
  <2> QED BY <2>1, <2>3, <2>4, <2>5, <2>6, <2>7, ComingGrows, ReconciliationAssumption
<1> QED BY <1>1, <1>2, <1>3 DEF PathFails

LEMMA IngestCovers ==
    ASSUME TypeOK, WalkerPlaced, Ingest
    PROVE  /\ OfTheRow
           /\ \A p \in Paths \ {walk.held.path} : Coming(p) => Coming(p)'
           /\ \A p \in Paths : p = walk.held.path => p \in scan'.observed \/ Coming(p)'
<1>0. walk \in Walk /\ errors \in [Places -> {"none", "old", "new"}]
      /\ walk.held.path \in Paths /\ walk.held.path \in Places
  BY ConstantTypes DEF TypeOK, Walk, WalkerPlaced, Holding, Ingest
<1> DEFINE x == walk.held.path
<1>1. walk.pc = "ingest" /\ walk'.pc = "entries" /\ walk'.at = walk.at
      /\ walk'.todo = walk.todo \ {x} /\ walk'.found = walk.found /\ walk'.cut = walk.cut
  BY <1>0 DEF Ingest, Walk
<1>2. \/ scan' = [scan EXCEPT !.observed = @ \cup {x}]
         /\ errors' = [errors EXCEPT ![x] = "none"]
      \/ UNCHANGED scan /\ errors' = [errors EXCEPT ![x] = "new"]
  BY DEF Ingest
<1>3. OfTheRow /\ scan'.pending = scan.pending
      /\ (x \in scan'.observed \/ errors' = [errors EXCEPT ![x] = "new"])
  <2>1. CASE scan' = [scan EXCEPT !.observed = @ \cup {x}]
    <3>1. scan \in ScanRow
      BY DEF TypeOK
    <3>2. /\ scan'.status = scan.status /\ scan'.partial = scan.partial
          /\ scan'.loss = scan.loss /\ scan'.revision = scan.revision
          /\ scan'.pending = scan.pending /\ scan'.observed = scan.observed \cup {x}
      BY <2>1, <3>1 DEF ScanRow
    <3> QED BY <3>2 DEF OfTheRow, FullWalk
  <2>2. CASE UNCHANGED scan /\ errors' = [errors EXCEPT ![x] = "new"]
    BY <2>2 DEF OfTheRow, FullWalk
  <2> QED BY <1>2, <2>1, <2>2
<1>4. \A y \in Cover : y # x => y \in Cover'
  BY <1>0, <1>1, <1>2, <1>3 DEF Cover, Ahead, Erred, Leaving, Listing, OfTheRow
<1>5. \A p \in Paths \ {x} : Coming(p) => Coming(p)'
  BY <1>0, <1>1, <1>4, ComingGrows, AboveSelf, DirFacts
<1>6. x \in scan'.observed \/ x \in Cover'
  BY <1>0, <1>1, <1>3, DirFacts DEF Cover, Erred, Leaving
<1>7. \A p \in Paths : p \in Cover' => Coming(p)'
  BY DEF Coming, Meets
<1> QED BY <1>3, <1>5, <1>6, <1>7

LEMMA LeaveEntryCovers ==
    ASSUME TypeOK, WalkerPlaced, LeaveEntry
    PROVE  OfTheRow /\ \A p \in Paths : Coming(p) => Coming(p)'
<1>0. walk \in Walk /\ errors \in [Places -> {"none", "old", "new"}]
      /\ walk.at \in Places
  BY DEF TypeOK, Walk
<1>1. walk.pc = "entries" /\ walk.todo = {} /\ Advance(walk.at, walk.found)
  BY DEF LeaveEntry
<1>2. Walking /\ Listing /\ walk.found \in SUBSET Places
  BY <1>0, <1>1, ConstantTypes DEF Walking, Listing, Walk, Dirs
<1>3. OfTheRow /\ scan'.pending = (scan.pending \ {walk.at}) \cup walk.found
  BY <1>1, <1>2, AdvanceDoes
<1>4. walk'.pc = "next" /\ walk'.todo = {} /\ ~Listing'
  <2>1. walk' = [walk EXCEPT !.pc = "next", !.at = Top, !.found = {}, !.cut = FALSE]
    BY DEF LeaveEntry
  <2> QED BY <1>0, <1>1, <2>1 DEF Walk, Listing
<1>5. Ahead' = Ahead
  BY <1>2, <1>3, <1>4 DEF Ahead
<1>6. Erred \subseteq Erred'
  <2>1. \A y \in Places : errors'[y] = errors[y] \/ y \in Leaving
    BY <1>0, <1>2 DEF LeaveEntry, Leaving
  <2> QED BY <1>3, <1>4, <2>1 DEF Erred, Leaving, OfTheRow
<1> QED BY <1>1, <1>3, <1>4, <1>5, <1>6, ComingGrows, AboveSelf DEF Cover

\* A step of the walk between its first transaction and its last.
Looks == \/ NextEntry \/ WatchRefused \/ ReadFolder \/ Observe \/ PathFails
         \/ Ingest \/ LeaveEntry

LEMMA LooksCover ==
    ASSUME TypeOK, Tree, WalkerPlaced, Looks
    PROVE  OfTheRow /\ \A p \in Paths : disk[p] # None /\ Looked(p) => Looked(p)'
<1>1. CASE Ingest
  <2>1. OfTheRow
    BY <1>1, IngestCovers
  <2>2. ASSUME NEW p \in Paths, Looked(p) PROVE Looked(p)'
    <3>1. CASE p \in scan.observed
      BY <2>1, <3>1 DEF OfTheRow, Looked
    <3>2. CASE p = walk.held.path
      BY <1>1, <3>2, IngestCovers DEF Looked
    <3>3. CASE p # walk.held.path /\ Coming(p)
      BY <1>1, <3>3, IngestCovers DEF Looked
    <3> QED BY <2>2, <3>1, <3>2, <3>3 DEF Looked
  <2> QED BY <2>1, <2>2
<1>2. CASE ~Ingest
  <2>1. OfTheRow /\ \A p \in Paths : disk[p] # None /\ Coming(p) => Coming(p)'
    BY <1>2, NextEntryCovers, WatchRefusedCovers, ReadFolderCovers, ObserveCovers,
       PathFailsCovers, LeaveEntryCovers DEF Looks
  <2> QED BY <2>1 DEF Looked, OfTheRow
<1> QED BY <1>1, <1>2
-----------------------------------------------------------------------------
(* What a full walk owes, and the losses it acknowledges.                  *)

\* What stays in its place during a full walk is looked at.
SteadyLooked == FullWalk => \A p \in ghost.steady : disk[p] # None /\ Looked(p)

\* The walk shows p as it is since the loss, or has still to look.
DroppedSeen(p) ==
    /\ disk[p] # None => Looked(p) /\ (p \in scan.observed => p \notin Behind)
    /\ disk[p] = None => p \notin scan.observed
    /\ walk.pc = "ingest" =>
          /\ p = walk.held.path => disk[p] = walk.held.file
          /\ disk[p] = walk.held.file => content[disk[p]] = walk.held.content

\* A change lost before a full walk is seen by it.
DroppedLooked ==
    FullWalk /\ scan.loss = root.loss => \A p \in ghost.dropped : DroppedSeen(p)

LossesCounted == root.recovered <= root.loss /\ scan.loss <= root.loss

LossInv == LossesCounted /\ SteadyLooked /\ DroppedLooked /\ AcknowledgedMeansSeen

WalkInv == TypeOK /\ Tree /\ WalkerPlaced /\ LossInv

LEMMA GhostFields ==
    ASSUME TypeOK
    PROVE  /\ ghost.dropped \subseteq Paths /\ ghost.steady \subseteq Paths
           /\ ghost.unsaid \subseteq Paths
           /\ root.loss \in Nat /\ root.recovered \in Nat /\ root.revision \in Nat
           /\ scan.loss \in Nat /\ scan.revision \in Nat /\ walk.revision \in Nat
<1>1. ghost.dropped \subseteq Paths /\ ghost.steady \subseteq Paths
      /\ ghost.unsaid \subseteq Paths
  BY DEF TypeOK
<1>2. root.loss \in Nat /\ root.recovered \in Nat /\ root.revision \in Nat
  BY RootFields DEF TypeOK
<1>3. scan.loss \in Nat /\ scan.revision \in Nat /\ walk.revision \in Nat
  BY Zenon DEF TypeOK, ScanRow, Walk
<1> QED BY <1>1, <1>2, <1>3

\* A step that leaves the rows of the walk, and the walker or at least its queue.
Still == /\ UNCHANGED <<scan, errors>>
         /\ UNCHANGED walk \/ (walk'.pc \notin {"entries", "ingest"} /\ walk'.todo = {})

LEMMA StillCovers ==
    ASSUME TypeOK, WalkerPlaced, Still
    PROVE  /\ FullWalk <=> FullWalk'
           /\ \A p \in Paths : Coming(p) => Coming(p)'
           /\ \A p \in Paths : Looked(p) => Looked(p)'
<1>0. FullWalk <=> FullWalk'
  BY DEF Still, FullWalk
<1>1. ASSUME NEW p \in Paths, Coming(p) PROVE Coming(p)'
  <2>1. CASE UNCHANGED walk
    <3>1. Cover' = Cover
      BY <2>1 DEF Still, Cover, Ahead, Erred, Leaving, Listing, FullWalk
    <3> QED BY <1>1, <2>1, <3>1 DEF Coming
  <2>2. CASE walk'.pc \notin {"entries", "ingest"} /\ walk'.todo = {}
    <3>1. Cover' = scan.pending \cup {x \in Places : errors[x] = "new"
                       \/ (errors[x] = "old" /\ ~FullWalk)}
      BY <2>2, <1>0 DEF Still, Cover, Ahead, Erred, Leaving, Listing
    <3>2. \A y \in Cover : y \in Cover' \/ (Listing /\ y \in walk.found)
      BY <3>1 DEF Cover, Ahead, Erred
    <3>3. Listing => walk.at \in Cover'
      BY <3>1 DEF WalkerPlaced, AtEntry, Listing
    <3>4. \A y \in walk.found : y \in Folders /\ Parent[y] = walk.at
      BY DEF WalkerPlaced, AtEntry, TypeOK, Walk
    <3>5. \A y \in Cover : y \in Dirs => Above(Cover', y)
      BY <3>2, <3>3, <3>4, AboveSelf, AboveParent
    <3>6. p \in walk.todo => p \in Cover' \/ Parent[p] \in Cover'
      BY <3>3 DEF WalkerPlaced, AtEntry
    <3> QED BY <1>1, <3>2, <3>4, <3>5, <3>6, ComingGrows, ReconciliationAssumption
  <2> QED BY <2>1, <2>2 DEF Still
<1> QED BY <1>0, <1>1 DEF Looked, Still

\* The step leaves alone what is at p.
Apart(p) == /\ disk'[p] = disk[p]
            /\ disk[p] # None => content'[disk[p]] = content[disk[p]]

LEMMA ApartBehind ==
    ASSUME NEW p \in Paths, Apart(p), UNCHANGED <<location, recorded>>
    PROVE  p \in Behind <=> p \in Behind'
BY DEF Behind, Differing, Apart

\* What a change of a file touches.
LEMMA ChangeApart ==
    ASSUME TypeOK, WriteFile \/ RemoveFile
    PROVE  /\ UNCHANGED <<folders, armed, memory, root, request, scan, errors,
                          catalogue, walk>>
           /\ \E p \in Paths :
                 /\ ghost' = Noted(p)
                 /\ \A q \in Paths \ {p} : Apart(q)
                 /\ \E gone \in BOOLEAN : Report(p, gone) /\ (gone => disk'[p] = None)
<1>1. CASE WriteFile
  <2>1. PICK p \in Paths, f \in Files :
        /\ disk[p] = f => /\ content[f] < MaxContents
                          /\ \A q \in Paths \ {p} : disk[q] # f
        /\ disk' = [disk EXCEPT ![p] = f]
        /\ content' = [content EXCEPT ![f] = IF disk[p] = f THEN @ + 1 ELSE @]
        /\ Report(p, FALSE)
        /\ ghost' = Noted(p)
    BY <1>1 DEF WriteFile
  <2>2. \A q \in Paths \ {p} : Apart(q)
    BY <2>1 DEF TypeOK, Apart
  <2> QED BY <1>1, <2>1, <2>2 DEF WriteFile
<1>2. CASE RemoveFile
  <2>1. PICK p \in Paths :
        /\ disk' = [disk EXCEPT ![p] = None]
        /\ content' = content
        /\ Report(p, TRUE)
        /\ ghost' = Noted(p)
    BY <1>2 DEF RemoveFile
  <2>2. \A q \in Paths \ {p} : Apart(q)
    BY <2>1 DEF TypeOK, Apart
  <2>3. disk'[p] = None
    BY <2>1 DEF TypeOK
  <2> QED BY <1>2, <2>1, <2>2, <2>3 DEF RemoveFile
<1> QED BY <1>1, <1>2

LEMMA NotedFields ==
    ASSUME TypeOK, NEW p \in Paths, ghost' = Noted(p)
    PROVE  /\ \A q \in ghost'.dropped : q \in ghost.dropped /\ q # p
           /\ \A q \in ghost'.steady : q \in ghost.steady /\ disk'[q] # None
           /\ ghost'.intact = ghost.intact
<1> DEFINE behind == Differing(disk', content', location, recorded)
<1>1. ghost' = [ghost EXCEPT
           !.unsaid  = ((@ \ {p}) \cup IF Heard(p) /\ ~Fits THEN {p} ELSE {})
                       \cap behind,
           !.dropped = (@ \ {p}) \cap behind,
           !.steady  = @ \cap {q \in Paths : disk'[q] # None}]
  BY DEF Noted
<1>2. ghost \in Ghost
  BY DEF TypeOK, Ghost
<1> HIDE DEF behind
<1> QED BY <1>1, <1>2 DEF Ghost

\* A step that leaves what the losses and the walk are about, and the history
\* of it.
LEMMA LossKept ==
    ASSUME WalkInv, Still, UNCHANGED <<disk, content, location, recorded>>,
           root'.loss = root.loss, root'.recovered = root.recovered,
           ghost'.steady = ghost.steady, ghost'.dropped = ghost.dropped
    PROVE  LossInv'
<1> USE DEF WalkInv, LossInv
<1>1. LossesCounted'
  BY DEF LossesCounted, Still
<1>2. SteadyLooked'
  BY StillCovers, GhostFields DEF SteadyLooked
<1>3. Behind' = Behind
  BY DEF Behind, Differing
<1>4. ASSUME NEW p \in ghost.dropped, DroppedSeen(p) PROVE DroppedSeen(p)'
  <2>1. p \in Paths /\ scan' = scan
    BY GhostFields DEF Still
  <2>2. walk'.pc = "ingest" => walk' = walk
    BY DEF Still
  <2> QED BY <1>3, <1>4, <2>1, <2>2, StillCovers DEF DroppedSeen
<1>5. DroppedLooked'
  BY <1>4, StillCovers DEF DroppedLooked, Still
<1>6. AcknowledgedMeansSeen'
  BY DEF AcknowledgedMeansSeen
<1> QED BY <1>1, <1>2, <1>5, <1>6

\* A step after which no full walk runs, that acknowledges nothing.
LEMMA LossOver ==
    ASSUME WalkInv, ~FullWalk', scan'.loss <= root'.loss,
           root'.loss = root.loss, root'.recovered = root.recovered,
           ghost'.dropped = ghost.dropped
    PROVE  LossInv'
BY DEF WalkInv, LossInv, LossesCounted, SteadyLooked, DroppedLooked, AcknowledgedMeansSeen

LEMMA LossOutside == ASSUME WalkInv, Outside PROVE LossInv'
<1> USE DEF WalkInv, LossInv
<1>1. CASE AddFolder \/ RemoveFolder
  BY <1>1, LossKept DEF AddFolder, RemoveFolder, Still, catalogue
<1>2. CASE WriteFile \/ RemoveFile
  <2>1. UNCHANGED <<root, scan, errors, catalogue, walk>>
    BY <1>2, ChangeApart
  <2>2. PICK p \in Paths : ghost' = Noted(p) /\ \A q \in Paths \ {p} : Apart(q)
    BY <1>2, ChangeApart
  <2>3. Still
    BY <2>1 DEF Still
  <2>4. LossesCounted'
    BY <2>1 DEF LossesCounted
  <2>5. SteadyLooked'
    BY <2>2, <2>3, StillCovers, NotedFields, GhostFields DEF SteadyLooked
  <2>6. ASSUME NEW q \in ghost'.dropped, DroppedSeen(q) PROVE DroppedSeen(q)'
    <3>1. q \in Paths /\ Apart(q)
      BY <2>2, <2>6, NotedFields, GhostFields
    <3>2. q \in Behind <=> q \in Behind'
      BY <2>1, <3>1, ApartBehind DEF catalogue
    <3>3. Holding
      BY DEF WalkerPlaced
    <3> QED BY <2>1, <2>3, <2>6, <3>1, <3>2, <3>3, StillCovers, ConstantTypes
            DEF DroppedSeen, Apart, Holding
  <2>7. DroppedLooked'
    BY <2>1, <2>2, <2>3, <2>6, StillCovers, NotedFields DEF DroppedLooked
  <2>8. AcknowledgedMeansSeen'
    BY <2>1, <2>2, NotedFields DEF AcknowledgedMeansSeen
  <2> QED BY <2>4, <2>5, <2>7, <2>8
<1> QED BY <1>1, <1>2 DEF Outside

LEMMA LossEventsLost == ASSUME WalkInv, EventsLost PROVE LossInv'
<1> USE DEF WalkInv, LossInv
<1>0. Still /\ UNCHANGED <<disk, content, location, recorded>>
  BY DEF EventsLost, Still, world, catalogue
<1>1. ghost' = [ghost EXCEPT !.unsaid = {},
           !.dropped = IF Verifiable THEN @ \cup ghost.unsaid ELSE @]
      /\ ghost \in Ghost /\ root \in RootRow
  BY DEF EventsLost, TypeOK, Ghost
<1>2. ghost'.steady = ghost.steady
  BY <1>1 DEF Ghost
<1>3. CASE ~Verifiable
  <2>1. root' = root /\ ghost'.dropped = ghost.dropped
    BY <1>1, <1>3 DEF EventsLost, Ghost
  <2> QED BY <1>0, <1>2, <2>1, LossKept
<1>4. CASE Verifiable
  <2>1. root' = [root EXCEPT !.loss = @ + 1, !.mode = "polling",
                                 !.error = "WATCH_EVENTS_LOST"]
    BY <1>4 DEF EventsLost
  <2>2. root'.loss = root.loss + 1 /\ root'.recovered = root.recovered
    BY <1>1, <2>1 DEF RootRow
  <2>3. LossesCounted'
    BY <1>0, <2>2, GhostFields DEF LossesCounted, Still
  <2>4. scan'.loss # root'.loss /\ root'.recovered # root'.loss
    BY <1>0, <2>2, GhostFields DEF LossesCounted, Still
  <2>5. SteadyLooked'
    BY <1>0, <1>2, StillCovers, GhostFields DEF SteadyLooked
  <2> QED BY <2>3, <2>4, <2>5 DEF DroppedLooked, AcknowledgedMeansSeen
<1> QED BY <1>3, <1>4

LEMMA LossBeginScan == ASSUME WalkInv, BeginScan PROVE LossInv'
<1> USE DEF WalkInv, LossInv
<1>0. walk.pc = "begin" /\ walk' = [walk EXCEPT !.pc = "next"] /\ walk \in Walk
      /\ scan \in ScanRow /\ ghost \in Ghost
      /\ UNCHANGED <<disk, content, location, recorded, root>>
  BY DEF BeginScan, TypeOK, world, catalogue, Ghost
<1>1. walk'.pc = "next" /\ walk'.todo = {}
  BY <1>0 DEF Walk, WalkerPlaced, AtEntry, Listing
<1>2. CASE Resumable
  BY <1>0, <1>1, <1>2, LossKept DEF BeginScan, Still
<1>3. CASE ~Resumable
  <2>1. scan' = [NoScan EXCEPT !.status = "running",
                   !.partial = (request.paths # {}),
                   !.revision = walk.revision, !.loss = root.loss,
                   !.pending = IF request.paths = {} THEN {Top}
                               ELSE request.paths]
        /\ ghost' = [ghost EXCEPT
                   !.steady = {p \in Paths : disk[p] # None},
                   !.covered = IF request.paths = {} THEN "walking" ELSE @,
                   !.intact = (@ \/ request.paths = {})]
    BY <1>3 DEF BeginScan
  <2>2. scan'.loss = root.loss /\ scan'.observed = {}
        /\ (~scan'.partial => scan'.pending = {Top})
    BY <2>1 DEF NoScan
  <2>3. ghost'.steady = {p \in Paths : disk[p] # None} /\ ghost'.dropped = ghost.dropped
    BY <1>0, <2>1 DEF Ghost
  <2>4. FullWalk' => \A p \in Paths : Looked(p)'
    <3>1. FullWalk' => Top \in Cover'
      BY <1>1, <2>2 DEF FullWalk, Cover, Ahead, Listing
    <3>2. \A p \in Paths : Top \in Cover' => Meets(Cover', p)
      BY MeetsTop
    <3> QED BY <3>1, <3>2 DEF Looked, Coming
  <2>5. LossesCounted'
    BY <1>0, <2>2, GhostFields DEF LossesCounted
  <2>6. SteadyLooked'
    BY <1>0, <2>3, <2>4 DEF SteadyLooked
  <2>7. DroppedLooked'
    BY <1>0, <1>1, <2>2, <2>3, <2>4, GhostFields DEF DroppedLooked, DroppedSeen
  <2>8. AcknowledgedMeansSeen'
    BY <1>0, <2>3 DEF AcknowledgedMeansSeen
  <2> QED BY <2>5, <2>6, <2>7, <2>8
<1> QED BY <1>2, <1>3

\* What the looks of a walk leave alone.
LEMMA LooksKeep ==
    ASSUME TypeOK, Looks
    PROVE  /\ UNCHANGED <<world, events, overflow, initialized, dirty, tick, request>>
           /\ root'.loss = root.loss /\ root'.recovered = root.recovered
           /\ root'.revision = root.revision
           /\ ~Ingest => UNCHANGED catalogue /\ ghost'.steady = ghost.steady
                         /\ ghost'.dropped = ghost.dropped
           /\ scan'.observed = scan.observed \/ Ingest
<1>1. CASE WatchRefused
  <2>1. root' = [root EXCEPT !.mode = "polling", !.error = "WATCH_LIMIT"]
        /\ ghost' = [ghost EXCEPT !.intact = FALSE] /\ root \in RootRow /\ ghost \in Ghost
    BY <1>1 DEF WatchRefused, TypeOK, Ghost
  <2>2. /\ root'.loss = root.loss /\ root'.recovered = root.recovered
        /\ root'.revision = root.revision
    BY <2>1 DEF RootRow
  <2>3. ghost'.steady = ghost.steady /\ ghost'.dropped = ghost.dropped
    BY <2>1 DEF Ghost
  <2> QED BY <1>1, <2>2, <2>3 DEF WatchRefused
<1>2. CASE Ingest
  BY <1>2 DEF Ingest, memory, watcher
<1>3. CASE ~Ingest /\ ~WatchRefused
  <2>1. UNCHANGED <<world, events, overflow, initialized, dirty, tick, request, root,
                    catalogue, ghost>>
    BY <1>3 DEF Looks, NextEntry, ReadFolder, Observe, PathFails, LeaveEntry, memory, watcher
  <2>2. scan'.observed = scan.observed
    <3>1. scan' = scan \/ \E x, more : Advance(x, more)
      BY <1>3 DEF Looks, NextEntry, ReadFolder, Observe, PathFails, LeaveEntry
    <3> QED BY <3>1 DEF Advance, TypeOK, ScanRow
  <2> QED BY <2>1, <2>2
<1> QED BY <1>1, <1>2, <1>3

\* What the transaction of an observed file writes.
LEMMA IngestWrites ==
    ASSUME TypeOK, WalkerPlaced, Ingest
    PROVE  LET held == walk.held IN
           /\ held.path \in Paths /\ held.file \in Files /\ walk'.pc = "entries"
           /\ ghost'.steady = ghost.steady /\ ghost'.intact = ghost.intact
           /\ \A p \in ghost'.dropped : p \in ghost.dropped /\ p \in Behind'
           /\ \/ /\ UNCHANGED <<location, recorded, scan>>
                 /\ errors' = [errors EXCEPT ![held.path] = "new"]
              \/ /\ location' = [location EXCEPT ![held.path] = held.file]
                 /\ recorded' = [recorded EXCEPT ![held.file] = held.content]
                 /\ scan'.observed = scan.observed \cup {held.path}
                 /\ errors' = [errors EXCEPT ![held.path] = "none"]
<1>0. walk \in Walk /\ scan \in ScanRow /\ ghost \in Ghost
  BY DEF TypeOK, Ghost
<1>1. walk.held.path \in Paths /\ walk.held.file \in Files
  BY <1>0 DEF WalkerPlaced, Holding, Ingest, Walk
<1>2. walk'.pc = "entries"
  BY <1>0 DEF Ingest, Walk
<1>3. /\ ghost'.steady = ghost.steady /\ ghost'.intact = ghost.intact
      /\ \A p \in ghost'.dropped : p \in ghost.dropped /\ p \in Behind'
  <2>1. Differing(disk, content, location', recorded') = Behind'
    BY DEF Behind, Differing, Ingest, world
  <2>2. ghost' = [ghost EXCEPT
           !.unsaid = @ \cap Differing(disk, content, location', recorded'),
           !.dropped = @ \cap Differing(disk, content, location', recorded')]
    BY DEF Ingest, CaughtUp
  <2> QED BY <1>0, <2>1, <2>2 DEF Ghost
<1>4. CASE Current
  <2>1. scan' = [scan EXCEPT !.observed = @ \cup {walk.held.path}]
    BY <1>4 DEF Ingest
  <2>2. scan'.observed = scan.observed \cup {walk.held.path}
    BY <1>0, <2>1 DEF ScanRow
  <2> QED BY <1>1, <1>2, <1>3, <1>4, <2>2 DEF Ingest
<1>5. CASE ~Current
  BY <1>1, <1>2, <1>3, <1>5 DEF Ingest, catalogue
<1> QED BY <1>4, <1>5

LEMMA LossLooks == ASSUME WalkInv, Looks PROVE LossInv'
<1> USE DEF WalkInv, LossInv
<1>0. OfTheRow /\ (\A p \in Paths : disk[p] # None /\ Looked(p) => Looked(p)')
      /\ UNCHANGED <<disk, content>> /\ ghost'.steady = ghost.steady
  BY LooksCover, LooksKeep, IngestWrites DEF world
<1>1. LossesCounted'
  BY <1>0, LooksKeep DEF LossesCounted, OfTheRow
<1>2. SteadyLooked'
  BY <1>0, GhostFields DEF SteadyLooked, OfTheRow
<1>3. CASE ~Ingest
  <2>1. Behind' = Behind /\ ghost'.dropped = ghost.dropped /\ scan'.observed = scan.observed
    BY <1>3, LooksKeep DEF Behind, Differing, world, catalogue
  <2>2. \A p \in Paths :
           walk'.pc = "ingest" =>
              /\ p = walk'.held.path => walk' = walk \/ disk[p] = walk'.held.file
              /\ disk[p] = walk'.held.file =>
                     walk' = walk \/ content[disk[p]] = walk'.held.content
    <3>1. CASE Observe
      <4>1. PICK x \in walk.todo :
            IF disk[x] # None
            THEN walk' = [walk EXCEPT !.pc = "ingest",
                       !.held = [path |-> x, file |-> disk[x],
                                 content |-> content[disk[x]]]]
            ELSE walk.pc = "entries" /\ walk' = [walk EXCEPT !.todo = @ \ {x}]
        BY <3>1 DEF Observe
      <4>2. walk \in Walk
        BY DEF TypeOK
      <4>3. CASE disk[x] # None
        <5>1. walk'.held = [path |-> x, file |-> disk[x], content |-> content[disk[x]]]
          BY <4>1, <4>2, <4>3 DEF Walk
        <5> QED BY <5>1
      <4>4. CASE disk[x] = None
        <5>1. walk'.pc = "entries"
          BY <4>1, <4>2, <4>4 DEF Walk
        <5> QED BY <5>1
      <4> QED BY <4>3, <4>4
    <3>2. CASE ~Observe
      <4>1. walk'.pc # "ingest"
        <5>1. walk \in Walk
          BY DEF TypeOK
        <5>2. CASE NextEntry
          BY <5>1, <5>2 DEF NextEntry, Walk
        <5>3. CASE WatchRefused \/ ReadFolder \/ LeaveEntry
          BY <5>1, <5>3 DEF WatchRefused, ReadFolder, LeaveEntry, Walk
        <5>4. CASE PathFails
          BY <5>1, <5>4 DEF PathFails, Walk
        <5> QED BY <1>3, <3>2, <5>2, <5>3, <5>4 DEF Looks
      <4> QED BY <4>1
    <3> QED BY <3>1, <3>2
  <2>3. ASSUME NEW p \in ghost.dropped, DroppedSeen(p) PROVE DroppedSeen(p)'
    <3>1. p \in Paths
      BY GhostFields
    <3> QED BY <1>0, <2>1, <2>2, <2>3, <3>1 DEF DroppedSeen
  <2>4. DroppedLooked'
    BY <1>0, <2>1, <2>3, LooksKeep DEF DroppedLooked, OfTheRow
  <2>5. AcknowledgedMeansSeen'
    BY <2>1, LooksKeep DEF AcknowledgedMeansSeen
  <2> QED BY <1>1, <1>2, <2>4, <2>5
<1>4. CASE Ingest
  <2> DEFINE held == walk.held
  <2>1. walk.pc = "ingest"
    BY <1>4 DEF Ingest
  <2>2. ASSUME NEW p \in ghost'.dropped, DroppedSeen(p) PROVE DroppedSeen(p)'
    <3>1. p \in Paths /\ p \in Behind' /\ walk'.pc = "entries"
          /\ held.path \in Paths /\ held.file \in Files
      BY <1>4, IngestWrites, GhostFields
    <3>2. CASE UNCHANGED <<location, recorded, scan>>
      BY <1>0, <2>2, <3>1, <3>2 DEF DroppedSeen, Behind, Differing
    <3>3. CASE /\ location' = [location EXCEPT ![held.path] = held.file]
               /\ recorded' = [recorded EXCEPT ![held.file] = held.content]
               /\ scan'.observed = scan.observed \cup {held.path}
      <4>1. location'[held.path] = held.file /\ recorded'[held.file] = held.content
            /\ (\A q \in Paths : q # held.path => location'[q] = location[q])
            /\ (\A f \in Files : f # held.file => recorded'[f] = recorded[f])
        BY <3>1, <3>3 DEF TypeOK
      <4>2. held.file # None
        BY <3>1, ConstantTypes
      <4>3. p # held.path
        BY <1>0, <2>1, <2>2, <3>1, <4>1, <4>2 DEF DroppedSeen, Behind, Differing
      <4>4. disk[p] # None /\ p \in scan.observed => p \notin Behind'
        <5>1. disk[p] \in Files \cup {None}
          BY <3>1 DEF TypeOK
        <5> QED BY <1>0, <2>1, <2>2, <3>1, <4>1, <4>3, <5>1
                DEF DroppedSeen, Behind, Differing
      <4> QED BY <1>0, <2>2, <3>1, <3>3, <4>3, <4>4 DEF DroppedSeen
    <3> QED BY <1>4, <3>2, <3>3, IngestWrites
  <2>3. DroppedLooked'
    BY <1>0, <1>4, <2>2, LooksKeep, IngestWrites DEF DroppedLooked, OfTheRow
  <2>4. AcknowledgedMeansSeen'
    BY <1>4, LooksKeep, IngestWrites DEF AcknowledgedMeansSeen
  <2> QED BY <1>1, <1>2, <2>3, <2>4
<1> QED BY <1>3, <1>4

\* At its last transaction, a full walk without errors has observed whatever
\* was to be looked at.
LEMMA ConfirmedObserved ==
    ASSUME TypeOK, WalkerPlaced, CloseScan, Current, CloseConfirmed,
           ~(scan.partial \/ Remaining # {})
    PROVE  /\ FullWalk
           /\ \A p \in Paths : Looked(p) => p \in scan.observed
           /\ location' = [p \in Paths |->
                  IF p \in scan.observed THEN location[p] ELSE None]
<1>1. walk.pc = "next" /\ scan.pending = {} /\ ~scan.partial /\ Remaining = {}
  BY DEF CloseScan
<1>2. FullWalk /\ ~Listing /\ walk.todo = {}
  BY <1>1 DEF FullWalk, WalkerPlaced, RunsWithRow, AtEntry, Walking, Listing
<1>3. Cover = {}
  <2>1. {x \in Places : errors[x] = "new"} = {}
    BY <1>1 DEF Remaining
  <2> QED BY <1>1, <1>2, <2>1 DEF Cover, Ahead, Erred, Leaving
<1>4. ASSUME NEW p \in Paths, Looked(p) PROVE p \in scan.observed
  <2>1. ~Above({}, Parent[p])
    BY NothingAbove, DirFacts
  <2> QED BY <1>2, <1>3, <1>4, <2>1 DEF Looked, Coming, Meets
<1> QED BY <1>2, <1>4 DEF CloseConfirmed

LEMMA LossCloseScan == ASSUME WalkInv, CloseScan PROVE LossInv'
<1> USE DEF WalkInv, LossInv
<1>0. scan \in ScanRow /\ ghost \in Ghost /\ root \in RootRow
      /\ UNCHANGED <<disk, content>>
  BY DEF TypeOK, Ghost, CloseScan, world
<1>1. CASE ~Current
  <2>1. walk'.pc = "ended" /\ walk'.todo = {}
    BY <1>1, NoWalkFields DEF CloseScan
  <2> QED BY <1>0, <1>1, <2>1, LossKept DEF CloseScan, Still, catalogue
<1>2. CASE Current /\ CloseUnconfirmed
  <2>1. scan'.status = "complete" /\ scan'.loss = 0
    BY <1>2 DEF CloseUnconfirmed, Closed, NoScan
  <2>2. root'.loss = root.loss /\ root'.recovered = root.recovered
    BY <1>0, <1>2 DEF CloseUnconfirmed, RootRow
  <2>3. ghost'.dropped = ghost.dropped
    BY <1>0, <1>2 DEF CloseUnconfirmed, Ghost
  <2> QED BY <2>1, <2>2, <2>3, LossOver, GhostFields DEF FullWalk
<1>3. CASE Current /\ CloseConfirmed /\ ~(scan.partial \/ Remaining # {})
  <2>1. scan'.status = "complete" /\ scan'.loss = 0
    BY <1>3 DEF CloseConfirmed, Closed, NoScan
  <2>2. root'.loss = root.loss /\ root'.recovered = CaughtUpLosses
    <3>1. root' = [root EXCEPT !.status = "active",
                       !.recovered = CaughtUpLosses,
                       !.error = IF @ = "WATCH_LIMIT" THEN @
                                 ELSE IF root.loss > CaughtUpLosses
                                 THEN "WATCH_EVENTS_LOST" ELSE ""]
      BY <1>3 DEF CloseConfirmed
    <3> HIDE DEF CaughtUpLosses
    <3> QED BY <1>0, <3>1 DEF RootRow
  <2>3. LossesCounted'
    BY <2>1, <2>2, GhostFields DEF LossesCounted, CaughtUpLosses
  <2>4. \A p \in ghost'.dropped : p \in ghost.dropped /\ p \in Behind'
    <3>1. Differing(disk, content, location', recorded') = Behind'
      BY <1>0 DEF Behind, Differing
    <3>2. ghost' = [CaughtUp EXCEPT
              !.covered = IF Astray = {} THEN "confirmed" ELSE "incomplete",
              !.steady = {}]
      BY <1>3 DEF CloseConfirmed
    <3>3. CaughtUp = [ghost EXCEPT
           !.unsaid = @ \cap Differing(disk, content, location', recorded'),
           !.dropped = @ \cap Differing(disk, content, location', recorded')]
      BY DEF CaughtUp
    <3>4. ghost'.dropped = ghost.dropped \cap Behind'
      BY <1>0, <3>1, <3>2, <3>3 DEF Ghost
    <3> QED BY <3>4
  <2>5. AcknowledgedMeansSeen'
    <3> SUFFICES ASSUME root'.recovered = root'.loss, NEW p \in ghost'.dropped
                 PROVE  FALSE
      BY DEF AcknowledgedMeansSeen
    <3>1. p \in ghost.dropped /\ p \in Behind' /\ p \in Paths
      BY <2>4, GhostFields
    <3>2. scan.loss = root.loss
      BY <2>2, <3>1, GhostFields DEF AcknowledgedMeansSeen, CaughtUpLosses
    <3>3. DroppedSeen(p)
      BY <1>3, <3>1, <3>2, ConfirmedObserved DEF DroppedLooked
    <3>4. location'[p] = IF p \in scan.observed THEN location[p] ELSE None
      BY <1>3, <3>1, ConfirmedObserved
    <3>5. UNCHANGED recorded
      BY <1>3 DEF CloseConfirmed
    <3>6. Looked(p) => p \in scan.observed
      BY <1>3, <3>1, ConfirmedObserved
    <3> QED BY <1>0, <3>1, <3>3, <3>4, <3>5, <3>6 DEF DroppedSeen, Behind, Differing
  <2> QED BY <2>1, <2>3, <2>5 DEF SteadyLooked, DroppedLooked, FullWalk
<1> QED BY <1>1, <1>2, <1>3 DEF CloseScan

\* The steps that neither lose nor look.
LEMMA LossElsewhere ==
    ASSUME WalkInv,
           \/ HandleEvent \/ Enqueue \/ Unwatch \/ Claim \/ RootFails \/ Interrupt
           \/ Finish \/ Users \/ Restart
           \/ \E due, fails \in BOOLEAN : TakeMarks(due, fails)
    PROVE  LossInv'
<1> USE DEF WalkInv, LossInv
<1>0. root \in RootRow /\ ghost \in Ghost /\ walk \in Walk
  BY DEF TypeOK, Ghost
<1>1. UNCHANGED <<disk, content, location, recorded>>
  BY DEF HandleEvent, Enqueue, Unwatch, Claim, RootFails, Interrupt, Finish, Users,
     Restart, TakeMarks, Cancel, Verify, RetryScanErrors, ConfigureRoot, world, catalogue
<1>2. root'.loss = root.loss /\ root'.recovered = root.recovered
  <2>1. CASE UNCHANGED root
    BY <2>1
  <2>2. CASE RootFails \/ Finish \/ Users
    BY <1>0, <2>2 DEF RootFails, Finish, Users, Cancel, Verify, ConfigureRoot,
       RetryScanErrors, RootRow
  <2>3. ASSUME NEW l, root' = Moded(root, l)
        PROVE  root'.loss = root.loss /\ root'.recovered = root.recovered
    BY <1>0, <2>3 DEF Moded, RootRow
  <2> QED BY <2>1, <2>2, <2>3 DEF HandleEvent, Enqueue, Unwatch, Claim, Interrupt,
          Restart, TakeMarks
<1>3. ghost'.steady = ghost.steady /\ ghost'.dropped = ghost.dropped
  <2>1. CASE UNCHANGED ghost
    BY <2>1
  <2>2. CASE Unwatch \/ Finish \/ Cancel \/ Restart
    BY <1>0, <2>2 DEF Unwatch, Finish, Cancel, Restart, Ghost
  <2> QED BY <2>1, <2>2 DEF HandleEvent, Enqueue, Claim, RootFails, Interrupt, Users,
          TakeMarks, Verify, RetryScanErrors, ConfigureRoot
<1>4. CASE UNCHANGED <<walk, scan, errors>>
  BY <1>1, <1>2, <1>3, <1>4, LossKept DEF Still
<1>5. CASE Claim \/ Interrupt \/ Finish \/ Restart
  <2>1. UNCHANGED <<scan, errors>>
    BY <1>5 DEF Claim, Interrupt, Finish, Restart
  <2>2. walk'.pc \notin {"entries", "ingest"} /\ walk'.todo = {}
    <3>1. CASE Claim
      <4>1. walk' = [NoWalk EXCEPT !.revision = root.revision,
                    !.pc = IF Verifiable THEN "begin" ELSE "ended",
                    !.result = IF Verifiable THEN "" ELSE "cancelled"]
        BY <3>1 DEF Claim
      <4> QED BY <4>1 DEF NoWalk
    <3>2. CASE Interrupt \/ Finish \/ Restart
      BY <3>2, NoWalkFields DEF Interrupt, Finish, Restart
    <3> QED BY <1>5, <3>1, <3>2
  <2> QED BY <1>1, <1>2, <1>3, <2>1, <2>2, LossKept DEF Still
<1>6. CASE RootFails
  <2>1. scan' = Closed("failed") \/ (scan' = scan /\ scan.status # "running")
    BY <1>6 DEF RootFails
  <2>2. ~FullWalk' /\ scan'.loss <= root'.loss
    BY <1>2, <2>1, GhostFields DEF FullWalk, Closed, NoScan, LossesCounted
  <2> QED BY <1>2, <1>3, <2>2, LossOver
<1>7. CASE RetryScanErrors
  <2>1. scan' = Closed("superseded") \/ (scan' = scan /\ scan.status # "running")
    BY <1>7 DEF RetryScanErrors
  <2>2. ~FullWalk' /\ scan'.loss <= root'.loss
    BY <1>2, <2>1, GhostFields DEF FullWalk, Closed, NoScan, LossesCounted
  <2> QED BY <1>2, <1>3, <2>2, LossOver
<1>8. CASE \/ HandleEvent \/ Enqueue \/ Unwatch \/ Cancel \/ Verify \/ ConfigureRoot
           \/ \E due, fails \in BOOLEAN : TakeMarks(due, fails)
  <2>1. UNCHANGED <<walk, scan, errors>>
    BY <1>8 DEF HandleEvent, Enqueue, Unwatch, Cancel, Verify, ConfigureRoot, TakeMarks
  <2> QED BY <1>4, <2>1
<1> QED BY <1>5, <1>6, <1>7, <1>8 DEF Users

LEMMA WalkInit == Init => WalkInv
<1> SUFFICES ASSUME Init PROVE LossInv
  BY TypeInit, TreeInit, PlacedInit DEF WalkInv
<1>1. scan.status = "none" /\ scan.loss = 0
  BY DEF Init, NoScan
<1>2. root.loss = 0 /\ root.recovered = 0 /\ ghost.dropped = {}
  BY DEF Init
<1> QED BY <1>1, <1>2 DEF LossInv, LossesCounted, SteadyLooked, DroppedLooked,
        AcknowledgedMeansSeen, FullWalk

LEMMA WalkStep == ASSUME WalkInv, [Next]_vars PROVE WalkInv'
<1>1. TypeOK' /\ Tree' /\ WalkerPlaced'
  BY TypeStep, TreeStep, PlacedStep DEF WalkInv, WalkerPlaced
<1>2. LossInv'
  <2>1. CASE UNCHANGED vars
    BY <2>1, LossKept DEF vars, world, catalogue, Still, WalkInv
  <2> QED BY <2>1, LossOutside, LossEventsLost, LossBeginScan, LossLooks, LossCloseScan,
          LossElsewhere DEF Next, Runtime, Worker, Failures, Looks
<1> QED BY <1>1, <1>2 DEF WalkInv

\* The generation of a loss is acknowledged only by a walk that looked at
\* every path whose change was discarded, whatever overflow, failure, resumed
\* row or restart came between (eventsLost, the last transaction of Scan).
THEOREM LossesAreLookedAt == Spec => []AcknowledgedMeansSeen
<1>1. WalkInv => AcknowledgedMeansSeen
  BY DEF WalkInv, LossInv
<1> QED BY <1>1, WalkInit, WalkStep, PTL DEF Spec

LEMMA SteadyStays ==
    ASSUME WalkInv, [Next]_vars
    PROVE  [\A p \in ghost.steady :
               location[p] # None /\ walk.pc = "next" => location'[p] # None]_vars
<1> SUFFICES ASSUME NEW p \in ghost.steady, location[p] # None, walk.pc = "next"
             PROVE  location'[p] # None
  OBVIOUS
<1>0. p \in Paths
  BY GhostFields DEF WalkInv
<1>1. CASE CloseScan
  <2>1. CASE UNCHANGED location
    BY <2>1
  <2>2. CASE Current /\ CloseConfirmed /\ ~(scan.partial \/ Remaining # {})
    <3>1. FullWalk /\ (Looked(p) => p \in scan.observed)
          /\ location'[p] = IF p \in scan.observed THEN location[p] ELSE None
      BY <1>0, <1>1, <2>2, ConfirmedObserved DEF WalkInv
    <3> QED BY <3>1 DEF WalkInv, LossInv, SteadyLooked
  <2> QED BY <1>1, <2>1, <2>2 DEF CloseScan, CloseUnconfirmed, catalogue
<1>2. CASE ~CloseScan
  <2>1. UNCHANGED location
    BY <1>2 DEF Next, Outside, Runtime, Worker, Failures, Users, WriteFile, RemoveFile,
       AddFolder, RemoveFolder, HandleEvent, EventsLost, Enqueue, Unwatch, TakeMarks,
       Claim, BeginScan, NextEntry, ReadFolder, Observe, Ingest, LeaveEntry, Interrupt,
       Finish, WatchRefused, PathFails, RootFails, Cancel, Verify, RetryScanErrors,
       ConfigureRoot, Restart, vars, catalogue
  <2> QED BY <2>1
<1> QED BY <1>1, <1>2

\* The last transaction of a walk retires no file that was in its place from
\* the first one on, whatever could not be read (Scan, scanPathError).
THEOREM SteadyFilesStay == Spec => SteadyIsNotRetired
<1>1. WalkInv /\ [Next]_vars =>
        [\A p \in ghost.steady :
            location[p] # None /\ walk.pc = "next" => location'[p] # None]_vars
  BY SteadyStays
<1> QED BY <1>1, WalkInit, WalkStep, PTL DEF Spec, SteadyIsNotRetired
-----------------------------------------------------------------------------
(* What is still to come.                                                  *)

\* A mark is empty, full or of some paths.
Formed(m) == /\ m.full => m.on /\ m.paths = {}
             /\ m.on /\ ~m.full => m.paths # {}

\* A copy of the marks that nothing was marked after is what is marked.
MarksFormed ==
    /\ Formed(dirty) /\ Formed(tick.dirty)
    /\ tick.pc = "enqueue" => initialized /\ (tick.unchanged => tick.dirty = dirty)

RevisionsPast == scan.revision <= root.revision /\ walk.revision <= root.revision

\* What the active request asks for.
Wanted == IF request.paths = {} THEN {Top} ELSE request.paths

\* The row that a request goes on with is of this request, and has to look at
\* nothing that the request does not ask for.
ScanOwned ==
    ghost.intact /\ scan.status = "running" =>
        /\ request.status # "none"
        /\ scan.partial <=> request.paths # {}
        /\ \A x \in scan.pending : Under(Wanted, x)

\* The walk will go on with the running row.
WillResume == /\ scan.status = "running"
              /\ scan.revision = IF walk.pc = "idle" THEN root.revision ELSE walk.revision

\* What the active request has still to look at.
Scope == IF request.status = "none" THEN {}
         ELSE IF walk.pc = "ended"
         THEN IF walk.result = "transient" THEN Wanted ELSE {}
         ELSE IF Walking \/ WillResume THEN Ahead ELSE Wanted

Reach == Scope \cup Erred

\* The walk has ended without a result that counts, and is not tried again.
Doomed == /\ walk.pc = "ended"
          /\ \/ request.cancel
             \/ walk.result = "cancelled"
             \/ walk.result = "transient" /\ request.attempts >= MaxAttempts

\* Nothing that the root was promised has been given up.
Kept == ghost.intact /\ ~Doomed

\* The directory of the root is watched, or all of it will be walked.
TopWatched ==
    Kept /\ initialized /\ Top \notin directories =>
        dirty.full \/ (Top \in Scope /\ ~(walk.pc = "open" /\ walk.at = Top))

\* The runtime will be told of p: its first tick marks all, an overflow marks
\* all, a mark holds it, an event is of it.
Announced(p) ==
    \/ ~initialized
    \/ overflow
    \/ dirty.on /\ (dirty.full \/ p \in dirty.paths)
    \/ \E i \in 1 .. Len(events) : events[i].at = p

\* What moves at p is heard and heeded.
WatchedPath(p) == disk[p] # None /\ Parent[p] \in armed /\ Parent[p] \in directories

\* The catalogue is behind at p, or the running walk would retire it.
NeedsLook(p) == p \in Behind \/ (FullWalk /\ p \notin scan.observed)

Expected(p) == Announced(p) \/ p \in walk.todo \/ Meets(Reach, p)

\* What the walker holds of p is not so any more.
HeldStale(p) ==
    \/ p = walk.held.path /\ disk[p] # walk.held.file
    \/ disk[p] = walk.held.file /\ content[disk[p]] # walk.held.content

\* It is looked at again, once the walker has written what it holds.
ExpectedAgain(p) ==
    \/ Announced(p)
    \/ p # walk.held.path /\ p \in walk.todo
    \/ p # walk.held.path /\ p \in Cover
    \/ Above(Cover, Parent[p])

HeldAgain ==
    Kept /\ walk.pc = "ingest" =>
        \A p \in Paths : WatchedPath(p) /\ HeldStale(p) => ExpectedAgain(p)

\* Of every file that is watched, the catalogue is not behind or will be told.
Followed ==
    Kept => \A p \in Paths : WatchedPath(p) /\ NeedsLook(p) => Expected(p)

ComingInv == /\ MarksFormed /\ RevisionsPast /\ ScanOwned
             /\ TopWatched /\ HeldAgain /\ Followed

SeenInv == WalkInv /\ ComingInv

LEMMA MarkedFormed ==
    ASSUME NEW m \in Mark, Formed(m), NEW x \in Names \cup {Top}
    PROVE  /\ Formed(Marked(m, x))
           /\ Marked(m, x).on
           /\ x = Top \/ m.full => Marked(m, x).full
           /\ Marked(m, x).full \/ (m.paths \cup {x}) \subseteq Marked(m, x).paths
BY DEF Formed, Marked, Mark

LEMMA MarksInit == Init => MarksFormed
<1> SUFFICES ASSUME Init PROVE MarksFormed
  OBVIOUS
<1>1. dirty = Clean /\ tick = Resting
  BY DEF Init
<1> QED BY <1>1 DEF MarksFormed, Formed, Clean, Resting

LEMMA MarkDirtyFormed ==
    ASSUME TypeOK, MarksFormed, NEW x \in Names \cup {Top}, MarkDirty(x), UNCHANGED initialized
    PROVE  MarksFormed'
<1>1. dirty \in Mark /\ tick \in Tick
  BY DEF TypeOK
<1>2. Formed(dirty') /\ dirty' = Marked(dirty, x)
  BY <1>1, MarkedFormed DEF MarkDirty, MarksFormed
<1>3. tick'.dirty = tick.dirty /\ ~tick'.unchanged /\ tick'.pc = tick.pc
  BY <1>1 DEF MarkDirty, Tick
<1> QED BY <1>2, <1>3 DEF MarksFormed, Formed

LEMMA MarksStep == ASSUME TypeOK, MarksFormed, [Next]_vars PROVE MarksFormed'
<1>0. dirty \in Mark /\ tick \in Tick
  BY DEF TypeOK
<1>1. CASE UNCHANGED <<dirty, tick, initialized>>
  BY <1>1 DEF MarksFormed, Formed
<1>2. CASE HandleEvent
  <2>1. events # <<>> /\ UNCHANGED initialized
        /\ (UNCHANGED <<dirty, tick>> \/ MarkDirty(ToWalk(Head(events))))
    BY <1>2 DEF HandleEvent
  <2>2. ToWalk(Head(events)) \in Names \cup {Top}
    BY <2>1, HeadTailType, ToWalkType
  <2> QED BY <1>1, <2>1, <2>2, MarkDirtyFormed
<1>3. CASE EventsLost
  <2>1. UNCHANGED initialized /\ (UNCHANGED <<dirty, tick>> \/ MarkDirty(Top))
    BY <1>3 DEF EventsLost
  <2> QED BY <1>1, <2>1, MarkDirtyFormed
<1>4. CASE Enqueue
  <2>1. tick' = Resting /\ (dirty' = dirty \/ dirty' = Clean)
    BY <1>4 DEF Enqueue
  <2> QED BY <2>1 DEF MarksFormed, Formed, Clean, Resting
<1>5. ASSUME NEW due \in BOOLEAN, NEW fails \in BOOLEAN, TakeMarks(due, fails)
      PROVE  MarksFormed'
  <2> DEFINE marks == IF initialized THEN dirty ELSE Marked(dirty, Top)
  <2>1. /\ dirty' = marks /\ initialized' = TRUE
        /\ tick' = IF due \/ marks.on
               THEN [pc |-> "enqueue", due |-> due, dirty |-> marks,
                     unchanged |-> TRUE]
               ELSE tick
        /\ tick.pc = "idle"
    BY <1>5 DEF TakeMarks
  <2>2. Formed(marks)
    BY <1>0, MarkedFormed DEF MarksFormed
  <2> HIDE DEF marks
  <2> QED BY <2>1, <2>2 DEF MarksFormed, Formed
<1>6. CASE Restart
  BY <1>6 DEF Restart, MarksFormed, Formed, Clean, Resting
<1>7. CASE ~(HandleEvent \/ EventsLost \/ Enqueue \/ Restart)
           /\ ~\E due, fails \in BOOLEAN : TakeMarks(due, fails)
  <2>1. UNCHANGED <<dirty, tick, initialized>>
    BY <1>7 DEF Next, Outside, Runtime, Worker, Failures, Users, WriteFile, RemoveFile,
       AddFolder, RemoveFolder, Unwatch, Claim, BeginScan, NextEntry, ReadFolder, Observe,
       Ingest, LeaveEntry, CloseScan, Interrupt, Finish, WatchRefused, PathFails,
       RootFails, Cancel, Verify, RetryScanErrors, ConfigureRoot, vars, memory
  <2> QED BY <1>1, <2>1
<1> QED BY <1>2, <1>3, <1>4, <1>5, <1>6, <1>7

-----------------------------------------------------------------------------
(* Revisions, and the row of a request.                                    *)

LEMMA RevisionsStep ==
    ASSUME TypeOK, WalkerPlaced, RevisionsPast, [Next]_vars
    PROVE  RevisionsPast'
<1>0. root \in RootRow /\ scan \in ScanRow /\ walk \in Walk
      /\ root.revision \in Nat /\ scan.revision \in Nat /\ walk.revision \in Nat
  BY GhostFields DEF TypeOK
<1> DEFINE WalkOK == walk'.revision \in {0, walk.revision, root.revision}
           ScanOK == scan'.revision \in {0, scan.revision, walk.revision}
           RootOK == root'.revision \in {root.revision, root.revision + 1}
<1>1. ASSUME WalkOK, ScanOK, RootOK PROVE RevisionsPast'
  BY <1>0, <1>1 DEF RevisionsPast
<1>2. RootOK
  <2>1. CASE UNCHANGED root
    BY <2>1
  <2>2. CASE EventsLost
    BY <1>0, <2>2 DEF EventsLost, RootRow
  <2>3. CASE WatchRefused \/ RootFails \/ Finish \/ Cancel \/ Verify \/ ConfigureRoot
    BY <1>0, <2>3 DEF WatchRefused, RootFails, Finish, Cancel, Verify, ConfigureRoot, RootRow
  <2>4. CASE CloseScan
    <3>1. CASE root' = root
      BY <3>1
    <3>2. CASE CloseUnconfirmed
      BY <1>0, <3>2 DEF CloseUnconfirmed, RootRow
    <3>3. CASE CloseConfirmed
      BY <1>0, <3>3 DEF CloseConfirmed, RootRow
    <3> QED BY <2>4, <3>1, <3>2, <3>3 DEF CloseScan
  <2>5. ASSUME NEW due \in BOOLEAN, NEW fails \in BOOLEAN, TakeMarks(due, fails)
        PROVE  RootOK
    BY <1>0, <2>5 DEF TakeMarks, Moded, RootRow
  <2> QED BY <2>1, <2>2, <2>3, <2>4, <2>5
       DEF Next, Outside, Runtime, Worker, Failures, Users, WriteFile, RemoveFile,
       AddFolder, RemoveFolder, HandleEvent, Enqueue, Unwatch, Claim, BeginScan,
       NextEntry, ReadFolder, Observe, Ingest, LeaveEntry, Interrupt, PathFails,
       RetryScanErrors, Restart, vars, memory
<1>3. ScanOK
  <2>1. CASE UNCHANGED scan
    BY <2>1
  <2>2. CASE BeginScan
    BY <1>0, <2>2 DEF BeginScan, NoScan
  <2>3. ASSUME NEW x, NEW more, Advance(x, more) PROVE ScanOK
    BY <1>0, <2>3 DEF Advance, ScanRow
  <2>4. CASE Ingest
    BY <1>0, <2>4 DEF Ingest, ScanRow
  <2>5. CASE CloseScan
    BY <1>0, <2>5 DEF CloseScan, CloseUnconfirmed, CloseConfirmed, Closed, NoScan
  <2>6. CASE RootFails \/ RetryScanErrors
    BY <1>0, <2>6 DEF RootFails, RetryScanErrors, Closed, NoScan
  <2> QED BY <2>1, <2>2, <2>3, <2>4, <2>5, <2>6
       DEF Next, Outside, Runtime, Worker, Failures, Users, WriteFile, RemoveFile,
       AddFolder, RemoveFolder, HandleEvent, EventsLost, Enqueue, Unwatch, TakeMarks,
       Claim, NextEntry, ReadFolder, Observe, LeaveEntry, Interrupt, Finish,
       WatchRefused, PathFails, Cancel, Verify, ConfigureRoot, Restart, vars
<1>4. WalkOK
  <2>1. CASE UNCHANGED walk
    BY <2>1
  <2>2. CASE Claim
    BY <2>2 DEF Claim, NoWalk
  <2>3. CASE BeginScan \/ NextEntry \/ ReadFolder \/ LeaveEntry \/ WatchRefused
    BY <1>0, <2>3 DEF BeginScan, NextEntry, ReadFolder, LeaveEntry, WatchRefused, Walk
  <2>4. CASE Observe
    BY <1>0, <2>4 DEF Observe, Walk
  <2>5. CASE Ingest
    BY <1>0, <2>5 DEF Ingest, Walk
  <2>6. CASE PathFails
    BY <1>0, <2>6 DEF PathFails, Walk
  <2>7. CASE CloseScan
    BY <2>7 DEF CloseScan, CloseUnconfirmed, CloseConfirmed, NoWalk
  <2>8. CASE RootFails \/ Interrupt \/ Finish \/ Restart
    BY <2>8, NoWalkFields DEF RootFails, Interrupt, Finish, Restart
  <2> QED BY <2>1, <2>2, <2>3, <2>4, <2>5, <2>6, <2>7, <2>8
       DEF Next, Outside, Runtime, Worker, Failures, Users, WriteFile, RemoveFile,
       AddFolder, RemoveFolder, HandleEvent, EventsLost, Enqueue, Unwatch, TakeMarks,
       Cancel, Verify, RetryScanErrors, ConfigureRoot, vars
<1> QED BY <1>1, <1>2, <1>3, <1>4

LEMMA AboveChild ==
    ASSUME NEW S, NEW d \in Folders, Above(S, Parent[d]) PROVE Above(S, d)
BY DirFacts DEF Above, Upward

\* A step that leaves the row, or takes entries from it, for the same request.
LEMMA OwnedKept ==
    ASSUME ScanOwned, ghost'.intact => ghost.intact, scan'.status = scan.status,
           scan'.partial = scan.partial, request'.paths = request.paths,
           request.status # "none" => request'.status # "none",
           \A x \in scan'.pending : x \in scan.pending \/
              (x \in Folders /\ Parent[x] \in scan.pending)
    PROVE  ScanOwned'
<1> SUFFICES ASSUME ghost.intact, scan.status = "running", NEW x \in scan'.pending
             PROVE  Under(Wanted', x)
  BY DEF ScanOwned
<1>0. Wanted' = Wanted
  BY DEF Wanted
<1>1. CASE x \in scan.pending
  BY <1>0, <1>1 DEF ScanOwned
<1>2. CASE x \in Folders /\ Parent[x] \in scan.pending
  <2>1. Parent[x] \in Dirs /\ Parent[x] \notin Paths /\ x \notin Paths
    BY <1>2, DirFacts, ReconciliationAssumption DEF Dirs
  <2>2. Above(Wanted, Parent[x])
    BY <1>2, <2>1 DEF ScanOwned, Under
  <2> QED BY <1>0, <1>2, <2>1, <2>2, AboveChild DEF Under
<1> QED BY <1>1, <1>2


\* What the steps that touch the promise do to it.
LEMMA GivenUp ==
    ASSUME TypeOK, Unwatch \/ WatchRefused \/ Cancel PROVE ~ghost'.intact
<1>1. ghost' = [ghost EXCEPT !.intact = FALSE] /\ ghost \in Ghost
  BY DEF Unwatch, WatchRefused, Cancel, TypeOK, Ghost
<1> QED BY <1>1 DEF Ghost

LEMMA FinishDoes ==
    ASSUME TypeOK, Finish
    PROVE  /\ walk.pc = "ended" /\ walk' = NoWalk
           /\ UNCHANGED <<world, watcher, memory, scan, errors, catalogue>>
           /\ root'.revision = root.revision
           /\ ghost'.intact =>
                 /\ ghost.intact
                 /\ \/ /\ walk.result = "transient" /\ request.attempts < MaxAttempts
                       /\ ~request.cancel
                       /\ request'.status = "retry_wait" /\ request'.paths = request.paths
                    \/ /\ walk.result \in {"ok", "partial"} /\ ~request.cancel
                       /\ request'.status = "none"
<1>0. ghost \in Ghost /\ request \in Request /\ root \in RootRow
  BY DEF TypeOK, Ghost
<1>1. root'.revision = root.revision
  BY <1>0 DEF Finish, RootRow
<1> DEFINE again == walk.result = "transient" /\ request.attempts < MaxAttempts
                    /\ ~request.cancel
<1>2. /\ walk.pc = "ended" /\ walk' = NoWalk
      /\ request' = IF again THEN [request EXCEPT !.status = "retry_wait"] ELSE NoRequest
      /\ ghost' = [ghost EXCEPT !.intact =
           @ /\ (again \/ (walk.result \in {"ok", "partial"} /\ ~request.cancel))]
      /\ UNCHANGED <<world, watcher, memory, scan, errors, catalogue>>
  BY DEF Finish
<1>3. ghost'.intact =>
        ghost.intact /\ (again \/ (walk.result \in {"ok", "partial"} /\ ~request.cancel))
  <2>1. ghost'.intact = (ghost.intact /\
           (again \/ (walk.result \in {"ok", "partial"} /\ ~request.cancel)))
    BY <1>0, <1>2, Zenon DEF Ghost
  <2> QED BY <2>1
<1>4. again => request'.status = "retry_wait" /\ request'.paths = request.paths
  BY <1>0, <1>2 DEF Request
<1>5. ~again => request'.status = "none"
  BY <1>2 DEF NoRequest
<1> QED BY <1>1, <1>2, <1>3, <1>4, <1>5

LEMMA RestartDoes ==
    ASSUME TypeOK, Restart
    PROVE  /\ walk' = NoWalk /\ ~initialized' /\ directories' = {}
           /\ UNCHANGED <<world, root, scan, errors, catalogue>>
           /\ ghost'.intact =>
                 /\ ghost.intact /\ request'.paths = request.paths
                 /\ request.status # "none" => request'.status # "none"
<1>0. ghost \in Ghost /\ request \in Request
  BY DEF TypeOK, Ghost
<1> DEFINE lost == request.status = "running" /\
                   (request.cancel \/ request.attempts >= MaxAttempts)
<1>1. /\ walk' = NoWalk /\ ~initialized' /\ directories' = {}
      /\ UNCHANGED <<world, root, scan, errors, catalogue>>
      /\ request' = IF lost THEN NoRequest
                    ELSE IF request.status = "running"
                    THEN [request EXCEPT !.status = "retry_wait"] ELSE request
      /\ ghost' = [ghost EXCEPT !.intact = @ /\ ~lost, !.unsaid = {}]
  BY DEF Restart
<1>2. ghost'.intact => ghost.intact /\ ~lost
  <2>1. ghost'.intact = (ghost.intact /\ ~lost)
    BY <1>0, <1>1, Zenon DEF Ghost
  <2> QED BY <2>1
<1>3. ~lost => request'.paths = request.paths
               /\ (request.status # "none" => request'.status # "none")
  BY <1>0, <1>1 DEF Request
<1> QED BY <1>1, <1>2, <1>3

\* A new request for what nothing asked for.
LEMMA OwnedAsked ==
    ASSUME ScanOwned, request.status = "none", ghost'.intact => ghost.intact,
           scan'.status # "running" \/ scan' = scan
    PROVE  ScanOwned'
BY DEF ScanOwned

LEMMA OwnedUntouched ==
    ASSUME ScanOwned, UNCHANGED <<scan, request>>, ghost'.intact => ghost.intact
    PROVE  ScanOwned'
BY OwnedKept

LEMMA OwnedLooks == ASSUME TypeOK, WalkerPlaced, ScanOwned, Looks PROVE ScanOwned'
<1>0. walk \in Walk /\ scan \in ScanRow
  BY DEF TypeOK
<1>1. CASE WatchRefused
  BY <1>1, GivenUp DEF ScanOwned
<1>2. CASE ~WatchRefused
  <2>1. UNCHANGED request /\ ghost'.intact = ghost.intact
    <3>1. CASE Ingest
      BY <3>1, IngestWrites DEF Ingest
    <3>2. CASE ~Ingest
      BY <1>2, <3>2 DEF Looks, NextEntry, ReadFolder, Observe, PathFails, LeaveEntry
    <3> QED BY <3>1, <3>2
  <2>2. CASE UNCHANGED scan
    BY <2>1, <2>2, OwnedUntouched
  <2>3. ASSUME NEW x, NEW more, Advance(x, more),
               \A y \in more : y \in Folders /\ Parent[y] \in scan.pending
        PROVE  ScanOwned'
    <3>1. scan'.status = scan.status /\ scan'.partial = scan.partial
          /\ (scan'.pending = scan.pending
              \/ scan'.pending = (scan.pending \ {x}) \cup more)
      BY <1>0, <2>3 DEF Advance, ScanRow
    <3> QED BY <2>1, <2>3, <3>1, OwnedKept
  <2>4. CASE Ingest
    <3>1. scan' = scan \/ scan' = [scan EXCEPT !.observed = @ \cup {walk.held.path}]
      BY <2>4 DEF Ingest
    <3>2. scan'.status = scan.status /\ scan'.partial = scan.partial
          /\ scan'.pending = scan.pending
      BY <1>0, <3>1 DEF ScanRow
    <3> QED BY <2>1, <3>2, OwnedKept
  <2>5. CASE LeaveEntry
    <3>1. \A y \in walk.found : y \in Folders /\ Parent[y] \in scan.pending
      BY <1>0, <2>5 DEF LeaveEntry, WalkerPlaced, AtEntry, Walk
    <3> QED BY <2>3, <2>5, <3>1 DEF LeaveEntry
  <2>6. CASE NextEntry \/ ReadFolder \/ PathFails \/ Observe
    <3>1. UNCHANGED scan \/ \E x : Advance(x, {})
      BY <2>6 DEF NextEntry, ReadFolder, PathFails, Observe
    <3> QED BY <2>2, <2>3, <3>1
  <2> QED BY <1>2, <2>4, <2>5, <2>6 DEF Looks
<1> QED BY <1>1, <1>2

LEMMA OwnedBeginScan == ASSUME TypeOK, WalkerPlaced, ScanOwned, BeginScan PROVE ScanOwned'
<1>0. UNCHANGED request /\ request.status = "running"
  BY DEF BeginScan, WalkerPlaced, RunsWithRow
<1>1. CASE Resumable
  BY <1>1, OwnedUntouched DEF BeginScan
<1>2. CASE ~Resumable
  <2>1. scan' = [NoScan EXCEPT !.status = "running",
                   !.partial = (request.paths # {}),
                   !.revision = walk.revision, !.loss = root.loss,
                   !.pending = IF request.paths = {} THEN {Top}
                               ELSE request.paths]
    BY <1>2 DEF BeginScan
  <2>2. scan'.pending = Wanted /\ (scan'.partial <=> request.paths # {})
    BY <2>1 DEF NoScan, Wanted
  <2>3. Wanted' = Wanted
    BY <1>0 DEF Wanted
  <2>4. \A x \in Wanted : Under(Wanted, x)
    BY AboveSelf DEF Under, Meets
  <2> QED BY <1>0, <2>2, <2>3, <2>4 DEF ScanOwned
<1> QED BY <1>1, <1>2

LEMMA OwnedStep ==
    ASSUME TypeOK, WalkerPlaced, ScanOwned, [Next]_vars PROVE ScanOwned'
<1>0. request \in Request
  BY DEF TypeOK
<1>1. CASE Outside \/ HandleEvent \/ EventsLost \/ Interrupt \/ ConfigureRoot \/ UNCHANGED vars
           \/ \E due, fails \in BOOLEAN : TakeMarks(due, fails)
  <2>1. ghost'.intact = ghost.intact
    <3>1. CASE WriteFile \/ RemoveFile
      BY <3>1, ChangeApart, NotedFields
    <3>2. CASE EventsLost
      BY <3>2 DEF EventsLost, TypeOK
    <3> QED BY <1>1, <3>1, <3>2 DEF Outside, AddFolder, RemoveFolder, HandleEvent,
            Interrupt, ConfigureRoot, TakeMarks, vars
  <2>2. UNCHANGED <<scan, request>>
    BY <1>1 DEF Outside, WriteFile, RemoveFile, AddFolder, RemoveFolder, HandleEvent,
            EventsLost, Interrupt, ConfigureRoot, TakeMarks, vars
  <2> QED BY <2>1, <2>2, OwnedUntouched
<1>2. CASE Unwatch \/ WatchRefused \/ Cancel
  BY <1>2, GivenUp DEF ScanOwned
<1>3. CASE Claim
  <2>1. UNCHANGED <<scan, ghost>>
        /\ request' = [request EXCEPT !.status = "running", !.attempts = @ + 1]
    BY <1>3 DEF Claim
  <2>2. request'.status = "running" /\ request'.paths = request.paths
    BY <1>0, <2>1 DEF Request
  <2> QED BY <2>1, <2>2, OwnedKept
<1>4. CASE Enqueue \/ Verify
  <2>1. UNCHANGED <<scan, ghost>>
    BY <1>4 DEF Enqueue, Verify
  <2>2. request.status = "none" \/ UNCHANGED request
    BY <1>4 DEF Enqueue, Verify
  <2> QED BY <2>1, <2>2, OwnedAsked, OwnedUntouched
<1>5. CASE RetryScanErrors
  <2>1. scan'.status # "running" /\ UNCHANGED ghost /\ request.status = "none"
    BY <1>5, ClosedStatus DEF RetryScanErrors
  <2> QED BY <2>1, OwnedAsked
<1>6. CASE RootFails
  <2>1. scan'.status # "running"
    BY <1>6, ClosedStatus DEF RootFails
  <2> QED BY <2>1 DEF ScanOwned
<1>7. CASE CloseScan
  <2>1. CASE ~Current
    BY <1>7, <2>1, OwnedUntouched DEF CloseScan
  <2>2. CASE CloseUnconfirmed \/ CloseConfirmed
    <3>1. CASE CloseUnconfirmed
      BY <3>1, ClosedStatus DEF CloseUnconfirmed, ScanOwned
    <3>2. CASE CloseConfirmed
      BY <3>2, ClosedStatus DEF CloseConfirmed, ScanOwned
    <3> QED BY <2>2, <3>1, <3>2
  <2> QED BY <1>7, <2>1, <2>2 DEF CloseScan
<1>8. CASE Finish
  <2>1. ghost'.intact => scan'.status # "running"
    BY <1>8, FinishDoes DEF WalkerPlaced, RunsWithRow
  <2> QED BY <2>1 DEF ScanOwned
<1>9. CASE Restart
  <2>1. CASE ghost'.intact
    BY <1>9, <2>1, RestartDoes, OwnedKept
  <2> QED BY <2>1 DEF ScanOwned
<1> QED BY <1>1, <1>2, <1>3, <1>4, <1>5, <1>6, <1>7, <1>8, <1>9, OwnedLooks,
        OwnedBeginScan DEF Next, Runtime, Worker, Failures, Users, Looks

-----------------------------------------------------------------------------
(* The steps beside the walk: of the world, the watcher and the runtime.   *)

\* A mark, an overflow and an event stay until they are handled.
AnnouncementsKept == \A p \in Paths : WatchedPath(p)' /\ Announced(p) => Announced(p)'

\* Beside leaves the walk, its rows and its request.
Beside == /\ UNCHANGED <<walk, scan, errors, request, location, recorded>>
          /\ root'.revision = root.revision
          /\ ghost'.intact = ghost.intact

LEMMA BesideKeeps ==
    ASSUME Beside
    PROVE  /\ Scope' = Scope /\ Erred' = Erred /\ Reach' = Reach /\ Cover' = Cover
           /\ Kept' <=> Kept
           /\ FullWalk' <=> FullWalk
<1>1. Listing' = Listing /\ Walking' = Walking /\ (FullWalk' <=> FullWalk)
  BY DEF Beside, Listing, Walking, FullWalk
<1>2. Ahead' = Ahead /\ Erred' = Erred /\ Wanted' = Wanted
  BY <1>1 DEF Beside, Ahead, Erred, Leaving, Wanted
<1>3. WillResume' = WillResume
  BY DEF Beside, WillResume
<1>4. Scope' = Scope
  BY <1>1, <1>2, <1>3 DEF Beside, Scope
<1>5. Kept' <=> Kept
  BY DEF Beside, Kept, Doomed
<1> QED BY <1>1, <1>2, <1>4, <1>5 DEF Reach, Cover

\* Walking is what the request asks for.
LEMMA WalkingScope ==
    ASSUME WalkerPlaced, Walking PROVE Scope = Ahead /\ Reach = Cover
BY DEF WalkerPlaced, RunsWithRow, Walking, Scope, Reach, Cover

\* Such a step keeps what is expected, if it announces what it touches and
\* whatever it starts to watch will be walked.
LEMMA BesideFollows ==
    ASSUME SeenInv, Beside, AnnouncementsKept,
           Kept => \A p \in Paths : WatchedPath(p)' =>
              \/ Announced(p)'
              \/ Apart(p) /\ (WatchedPath(p) \/ Above(Reach, Parent[p]))
    PROVE  Followed' /\ HeldAgain'
<1> USE DEF SeenInv, ComingInv, WalkInv
<1>0. UNCHANGED <<walk, scan, location, recorded>>
  BY DEF Beside
<1>1. ASSUME NEW p \in Paths, Kept, WatchedPath(p)', NeedsLook(p)' PROVE Expected(p)'
  <2>1. CASE Announced(p)'
    BY <2>1 DEF Expected
  <2>2. CASE Above(Reach, Parent[p])
    BY <2>2, BesideKeeps DEF Expected, Meets
  <2>3. CASE Apart(p) /\ WatchedPath(p)
    <3>1. NeedsLook(p)
      BY <1>0, <1>1, <2>3, ApartBehind DEF NeedsLook, FullWalk
    <3>2. Expected(p)
      BY <1>1, <2>3, <3>1 DEF Followed
    <3> QED BY <1>0, <1>1, <3>2, BesideKeeps DEF Expected, AnnouncementsKept
  <2> QED BY <1>1, <2>1, <2>2, <2>3
<1>2. Followed'
  BY <1>1, BesideKeeps DEF Followed
<1>3. ASSUME NEW p \in Paths, Kept, walk.pc = "ingest", WatchedPath(p)', HeldStale(p)'
      PROVE  ExpectedAgain(p)'
  <2>0. Reach = Cover /\ Holding
    BY <1>3, WalkingScope DEF Walking, WalkerPlaced
  <2>1. CASE Announced(p)'
    BY <2>1 DEF ExpectedAgain
  <2>2. CASE Above(Reach, Parent[p])
    BY <2>0, <2>2, BesideKeeps DEF ExpectedAgain
  <2>3. CASE Apart(p) /\ WatchedPath(p)
    <3>1. HeldStale(p)
      BY <1>0, <1>3, <2>0, <2>3, ConstantTypes DEF HeldStale, Apart, Holding, WatchedPath
    <3>2. ExpectedAgain(p)
      BY <1>3, <2>3, <3>1 DEF HeldAgain
    <3> QED BY <1>0, <1>3, <3>2, BesideKeeps DEF ExpectedAgain, AnnouncementsKept
  <2> QED BY <1>3, <2>1, <2>2, <2>3
<1>4. HeldAgain'
  BY <1>0, <1>3, BesideKeeps DEF HeldAgain
<1> QED BY <1>2, <1>4

LEMMA ReportAnnounces ==
    ASSUME TypeOK, NEW x \in Names, NEW gone \in BOOLEAN, Report(x, gone),
           UNCHANGED <<dirty, initialized>>
    PROVE  /\ \A p : Announced(p) => Announced(p)'
           /\ \A p : p = x /\ Heard(x) => Announced(p)'
<1> DEFINE e == [gone |-> gone, at |-> x]
<1>0. events \in Seq(Event) /\ Len(events) \in Nat /\ e \in Event
  BY DEF TypeOK, Event
<1>1. CASE Heard(x) /\ Fits
  <2>1. events' = Append(events, e) /\ overflow' = overflow
    BY <1>1 DEF Report, TypeOK
  <2>2. Len(events') = Len(events) + 1 /\ events'[Len(events) + 1] = e
        /\ \A i \in 1 .. Len(events) : events'[i] = events[i]
    BY <1>0, <2>1
  <2> QED BY <1>0, <2>1, <2>2 DEF Announced
<1>2. CASE ~(Heard(x) /\ Fits)
  BY <1>2 DEF Report, Announced
<1> QED BY <1>1, <1>2

LEMMA FollowedOutside ==
    ASSUME SeenInv, Outside PROVE Followed' /\ HeldAgain' /\ TopWatched'
<1> USE DEF SeenInv, ComingInv, WalkInv
<1>1. CASE WriteFile \/ RemoveFile
  <2>1. UNCHANGED <<folders, armed, memory, root, request, scan, errors, catalogue, walk>>
    BY <1>1, ChangeApart
  <2>2. PICK p \in Paths :
                 /\ ghost' = Noted(p)
                 /\ \A q \in Paths \ {p} : Apart(q)
                 /\ \E gone \in BOOLEAN : Report(p, gone) /\ (gone => disk'[p] = None)
    BY <1>1, ChangeApart
  <2>3. Beside
    BY <2>1, <2>2, NotedFields DEF Beside, catalogue
  <2>4. p \in Names /\ UNCHANGED <<dirty, initialized, directories>>
    BY <2>1 DEF Names, memory
  <2>5. AnnouncementsKept
    BY <2>2, <2>4, ReportAnnounces DEF AnnouncementsKept
  <2>6. ASSUME NEW q \in Paths, WatchedPath(q)'
        PROVE  Announced(q)' \/ (Apart(q) /\ WatchedPath(q))
    <3>1. CASE q = p
      <4>1. Heard(p)
        BY <2>1, <2>6, <3>1 DEF WatchedPath, Heard
      <4> QED BY <2>2, <2>4, <3>1, <4>1, ReportAnnounces
    <3>2. CASE q # p
      BY <2>1, <2>2, <2>6, <3>2 DEF WatchedPath, Apart, memory
    <3> QED BY <3>1, <3>2
  <2>7. TopWatched'
    BY <2>1, <2>3, <2>4, BesideKeeps DEF TopWatched
  <2> QED BY <2>3, <2>5, <2>6, <2>7, BesideFollows
<1>2. CASE AddFolder \/ RemoveFolder
  <2>1. PICK d \in Folders, gone \in BOOLEAN :
        /\ Report(d, gone)
        /\ armed' \subseteq armed
        /\ UNCHANGED <<disk, content, memory, root, request, scan, errors, catalogue,
                       walk, ghost>>
    BY <1>2 DEF AddFolder, RemoveFolder, TypeOK
  <2>2. Beside /\ d \in Names /\ UNCHANGED <<dirty, initialized, directories>>
    BY <2>1 DEF Beside, catalogue, Names, memory
  <2>3. AnnouncementsKept
    BY <2>1, <2>2, ReportAnnounces DEF AnnouncementsKept
  <2>4. \A q \in Paths : WatchedPath(q)' => Apart(q) /\ WatchedPath(q)
    BY <2>1, <2>2 DEF WatchedPath, Apart
  <2>5. TopWatched'
    BY <2>1, <2>2, BesideKeeps DEF TopWatched
  <2> QED BY <2>2, <2>3, <2>4, <2>5, BesideFollows
<1> QED BY <1>1, <1>2 DEF Outside

\* A mark stays, and says more.
LEMMA MarkAnnounces ==
    ASSUME TypeOK, MarksFormed, NEW x \in Names \cup {Top}, MarkDirty(x)
    PROVE  /\ dirty'.on
           /\ dirty.full \/ x = Top => dirty'.full
           /\ \A p : dirty.on /\ (dirty.full \/ p \in dirty.paths) =>
                         dirty'.full \/ p \in dirty'.paths
           /\ dirty'.full \/ x \in dirty'.paths
<1>1. dirty \in Mark /\ dirty' = Marked(dirty, x) /\ Formed(dirty)
  BY DEF TypeOK, MarkDirty, MarksFormed
<1> QED BY <1>1, MarkedFormed

LEMMA FollowedHandleEvent ==
    ASSUME SeenInv, HandleEvent PROVE Followed' /\ HeldAgain' /\ TopWatched'
<1> USE DEF SeenInv, ComingInv, WalkInv
<1> DEFINE e == Head(events)
<1>0. events # <<>> /\ e \in Event /\ events \in Seq(Event) /\ Len(events) \in Nat
  BY HeadTailType DEF HandleEvent, TypeOK
<1>1. /\ IF {Parent[e.at], e.at} \cap directories # {}
         THEN MarkDirty(ToWalk(e)) ELSE UNCHANGED <<dirty, tick>>
      /\ directories' = IF e.gone THEN directories \ {e.at} ELSE directories
      /\ events' = Tail(events)
      /\ UNCHANGED <<world, armed, overflow, initialized, root,
                   request, scan, errors, catalogue, walk, ghost>>
  BY DEF HandleEvent
<1>2. e.at \in Names /\ ToWalk(e) \in Names \cup {Top} /\ e.at # Top /\ events[1] = e
  BY <1>0, ToWalkType, ReconciliationAssumption DEF Event, Names
<1>3. Len(events') = Len(events) - 1 /\ Len(events) >= 1
      /\ \A i \in 2 .. Len(events) : events'[i - 1] = events[i]
  BY <1>0, <1>1
<1> HIDE DEF e
<1>4. Beside
  BY <1>1 DEF Beside, catalogue
<1>5. AnnouncementsKept
  <2> SUFFICES ASSUME NEW p \in Paths, WatchedPath(p)', Announced(p) PROVE Announced(p)'
    BY DEF AnnouncementsKept
  <2>1. CASE ~initialized \/ overflow
    BY <1>1, <2>1 DEF Announced
  <2>2. CASE dirty.on /\ (dirty.full \/ p \in dirty.paths)
    BY <1>1, <1>2, <2>2, MarkAnnounces DEF Announced
  <2>3. CASE e.at = p
    <3>1. Parent[p] \in directories
      BY <1>1 DEF WatchedPath
    <3>2. MarkDirty(ToWalk(e)) /\ ToWalk(e) \in {Top, p}
      BY <1>1, <2>3, <3>1, ReconciliationAssumption DEF ToWalk
    <3> QED BY <1>2, <3>2, MarkAnnounces DEF Announced
  <2>4. ASSUME NEW i \in 1 .. Len(events), events[i].at = p PROVE Announced(p)'
    <3>1. CASE i = 1
      BY <1>2, <2>3, <2>4, <3>1
    <3>2. CASE i # 1
      <4>1. i \in 2 .. Len(events) /\ i - 1 \in 1 .. Len(events')
        BY <1>0, <1>3, <3>2
      <4>2. events'[i - 1] = events[i]
        BY <1>3, <4>1
      <4> QED BY <2>4, <4>1, <4>2 DEF Announced
    <3> QED BY <3>1, <3>2
  <2> QED BY <2>1, <2>2, <2>4 DEF Announced
<1>6. \A p \in Paths : WatchedPath(p)' => Apart(p) /\ WatchedPath(p)
  BY <1>1 DEF WatchedPath, Apart, world
<1>7. TopWatched'
  <2>1. Top \in directories => Top \in directories'
    BY <1>1, <1>2
  <2>2. dirty.full => dirty'.full
    BY <1>1, <1>2, MarkAnnounces
  <2> QED BY <1>1, <1>4, <2>1, <2>2, BesideKeeps DEF TopWatched
<1> QED BY <1>4, <1>5, <1>6, <1>7, BesideFollows

LEMMA FollowedEventsLost ==
    ASSUME SeenInv, EventsLost PROVE Followed' /\ HeldAgain' /\ TopWatched'
<1> USE DEF SeenInv, ComingInv, WalkInv
<1>1. /\ IF directories # {} THEN MarkDirty(Top) ELSE UNCHANGED <<dirty, tick>>
      /\ UNCHANGED <<world, armed, events, directories, initialized,
                   request, scan, errors, catalogue, walk>>
  BY DEF EventsLost
<1>2. Beside
  <2>1. root'.revision = root.revision
    BY DEF EventsLost, TypeOK, RootRow
  <2>2. ghost'.intact = ghost.intact
    BY DEF EventsLost, TypeOK
  <2> QED BY <1>1, <2>1, <2>2 DEF Beside, catalogue
<1>3. \A p \in Paths : WatchedPath(p)' => Announced(p)'
  BY <1>1, MarkAnnounces DEF WatchedPath, Announced
<1>4. TopWatched'
  <2>1. dirty.full => dirty'.full
    BY <1>1, MarkAnnounces
  <2> QED BY <1>1, <1>2, <2>1, BesideKeeps DEF TopWatched
<1> QED BY <1>2, <1>3, <1>4, BesideFollows DEF AnnouncementsKept

LEMMA FollowedTakeMarks ==
    ASSUME SeenInv, NEW due \in BOOLEAN, NEW fails \in BOOLEAN, TakeMarks(due, fails)
    PROVE  Followed' /\ HeldAgain' /\ TopWatched'
<1> USE DEF SeenInv, ComingInv, WalkInv
<1>1. /\ dirty' = IF initialized THEN dirty ELSE Marked(dirty, Top)
      /\ initialized' = TRUE
      /\ IF fails THEN Unregistered(Top) ELSE Register(Top)
      /\ root' = Moded(root, degraded')
      /\ UNCHANGED <<world, events, overflow, request, scan, errors, catalogue,
                   walk, ghost>>
  BY DEF TakeMarks
<1>2. Beside
  <2>1. root'.revision = root.revision
    BY <1>1 DEF Moded, TypeOK, RootRow
  <2> QED BY <1>1, <2>1 DEF Beside, catalogue
<1>3. ~initialized => dirty'.on /\ dirty'.full
  <2>1. dirty \in Mark /\ Formed(dirty)
    BY DEF TypeOK, MarksFormed
  <2> QED BY <1>1, <2>1, MarkedFormed
<1>4. AnnouncementsKept
  BY <1>1, <1>3 DEF AnnouncementsKept, Announced
<1>5. ASSUME NEW p \in Paths, Kept, WatchedPath(p)'
      PROVE  Announced(p)' \/ (Apart(p) /\ (WatchedPath(p) \/ Above(Reach, Parent[p])))
  <2>1. Apart(p)
    BY <1>1 DEF Apart, world
  <2>2. CASE WatchedPath(p)
    BY <2>1, <2>2
  <2>3. CASE ~WatchedPath(p)
    <3>1. Parent[p] = Top /\ Top \notin directories
      BY <1>1, <1>5, <2>3 DEF WatchedPath, Register, Unregistered, world
    <3>2. CASE ~initialized
      BY <1>3, <3>2 DEF Announced
    <3>3. CASE initialized /\ dirty.full
      <4>1. dirty'.on /\ dirty'.full
        BY <1>1, <3>3 DEF MarksFormed, Formed
      <4> QED BY <4>1 DEF Announced
    <3>4. CASE Top \in Scope
      BY <2>1, <3>1, <3>4, AboveSelf DEF Reach
    <3> QED BY <1>5, <3>1, <3>2, <3>3, <3>4 DEF TopWatched
  <2> QED BY <2>2, <2>3
<1>6. TopWatched'
  <2>1. CASE ~initialized
    BY <1>3, <2>1 DEF TopWatched
  <2>2. CASE initialized
    BY <1>1, <1>2, <2>2, BesideKeeps DEF TopWatched, Register, Unregistered
  <2> QED BY <2>1, <2>2
<1> QED BY <1>2, <1>4, <1>5, <1>6, BesideFollows

-----------------------------------------------------------------------------
(* The steps of the walk.                                                  *)

LEMMA LooksWalk == ASSUME TypeOK, WalkerPlaced, Looks PROVE Walking
BY DEF Looks, Walking, NextEntry, WatchRefused, ReadFolder, Observe, PathFails, Ingest,
       LeaveEntry, WalkerPlaced, AtEntry

\* Where the next step finds the walker.
LEMMA LooksWalker ==
    ASSUME TypeOK, WalkerPlaced, Looks
    PROVE  /\ Walking'
           /\ walk'.pc = "ingest" => Observe
           /\ walk'.pc = "open" => NextEntry \/ WatchRefused
<1>0. walk \in Walk
  BY DEF TypeOK
<1>1. CASE NextEntry
  BY <1>0, <1>1 DEF NextEntry, Walk, Walking
<1>2. CASE WatchRefused \/ ReadFolder \/ LeaveEntry
  BY <1>0, <1>2 DEF WatchRefused, ReadFolder, LeaveEntry, Walk, Walking
<1>3. CASE Observe
  BY <1>0, <1>3 DEF Observe, Walk, Walking
<1>4. CASE PathFails
  BY <1>0, <1>4 DEF PathFails, Walk, Walking
<1>5. CASE Ingest
  BY <1>5, IngestWrites DEF Walking
<1> QED BY <1>1, <1>2, <1>3, <1>4, <1>5 DEF Looks

LEMMA LooksFrame ==
    ASSUME TypeOK, WalkerPlaced, Looks, ~WatchRefused
    PROVE  /\ UNCHANGED <<dirty, initialized, overflow, events, disk, content, request>>
           /\ ghost'.intact = ghost.intact
           /\ \A p : Announced(p)' <=> Announced(p)
           /\ Kept' <=> ghost.intact
           /\ Kept <=> ghost.intact
<1>1. UNCHANGED <<dirty, initialized, overflow, events, disk, content, request>>
  BY LooksKeep DEF world
<1>2. ghost'.intact = ghost.intact
  <2>1. CASE Ingest
    BY <2>1, IngestWrites
  <2>2. CASE ~Ingest
    BY <2>2 DEF Looks, NextEntry, ReadFolder, Observe, PathFails, LeaveEntry
  <2> QED BY <2>1, <2>2
<1>3. ~Doomed /\ ~Doomed'
  BY LooksWalk, LooksWalker DEF Doomed, Walking
<1> QED BY <1>1, <1>2, <1>3 DEF Kept, Announced

\* A directory that a step starts to watch is the one that will be read next.
LEMMA LooksWatch ==
    ASSUME TypeOK, WalkerPlaced, Looks, ~WatchRefused
    PROVE  /\ \A p \in Paths : WatchedPath(p)' =>
                  WatchedPath(p) \/ Parent[p] \in Cover'
           /\ Top \in directories => Top \in directories'
<1>0. disk' = disk
  BY LooksFrame
<1>1. CASE NextEntry
  <2> PICK x \in scan.pending :
        /\ walk.pc = "next"
        /\ IF ~Exists(x)
           THEN /\ errors' = [errors EXCEPT ![x] = "new"]
                /\ Advance(x, {})
                /\ UNCHANGED <<armed, directories, walk>>
           ELSE IF x \in Paths
           THEN /\ walk' = [walk EXCEPT !.pc = "entries", !.at = x, !.todo = {x}]
                /\ UNCHANGED <<armed, directories, scan, errors>>
           ELSE /\ Register(x)
                /\ walk' = [walk EXCEPT !.pc = "open", !.at = x]
                /\ UNCHANGED <<scan, errors>>
    BY <1>1 DEF NextEntry
  <2>1. CASE UNCHANGED <<armed, directories>>
    BY <1>0, <2>1 DEF WatchedPath
  <2>2. CASE Exists(x) /\ x \notin Paths
    <3>1. walk'.pc = "open" /\ scan' = scan
      BY <2>2 DEF TypeOK, Walk
    <3>2. x \in Cover'
      BY <3>1 DEF Cover, Ahead, Listing
    <3> QED BY <1>0, <2>2, <3>2 DEF WatchedPath, Register
  <2> QED BY <2>1, <2>2
<1>2. CASE ~NextEntry
  <2>1. UNCHANGED <<armed, directories>>
    BY <1>2 DEF Looks, ReadFolder, Observe, PathFails, Ingest, LeaveEntry, watcher, memory
  <2> QED BY <1>0, <2>1 DEF WatchedPath
<1> QED BY <1>1, <1>2

LEMMA HeldLooks == ASSUME SeenInv, Looks PROVE HeldAgain'
<1> USE DEF SeenInv, ComingInv, WalkInv
<1>1. CASE walk'.pc # "ingest"
  BY <1>1 DEF HeldAgain
<1>2. CASE walk'.pc = "ingest"
  <2>1. Observe /\ UNCHANGED <<disk, content>>
    BY <1>2, LooksWalker, LooksKeep DEF world
  <2>2. PICK x \in walk.todo :
            IF disk[x] # None
            THEN walk' = [walk EXCEPT !.pc = "ingest",
                       !.held = [path |-> x, file |-> disk[x],
                                 content |-> content[disk[x]]]]
            ELSE walk.pc = "entries" /\ walk' = [walk EXCEPT !.todo = @ \ {x}]
    BY <2>1 DEF Observe
  <2>3. walk \in Walk
    BY DEF TypeOK
  <2>4. disk[x] # None
    BY <1>2, <2>2, <2>3 DEF Walk
  <2>5. walk'.held = [path |-> x, file |-> disk[x], content |-> content[disk[x]]]
    BY <2>2, <2>3, <2>4 DEF Walk
  <2> QED BY <2>1, <2>5 DEF HeldAgain, HeldStale
<1> QED BY <1>1, <1>2

LEMMA AdvanceLeaves ==
    ASSUME TypeOK, WalkerPlaced, Walking, NEW x, Advance(x, {})
    PROVE  scan'.pending = scan.pending \ {x}
<1>1. {} \in SUBSET Places
  OBVIOUS
<1>2. scan'.pending = (scan.pending \ {x}) \cup {}
  BY <1>1, AdvanceDoes
<1> QED BY <1>2

LEMMA TopLooks == ASSUME SeenInv, Looks PROVE TopWatched'
<1> USE DEF SeenInv, ComingInv, WalkInv
<1>1. CASE WatchRefused
  BY <1>1, GivenUp DEF TopWatched, Kept
<1>2. CASE ~WatchRefused
  <2> SUFFICES ASSUME ghost.intact, initialized, Top \notin directories', ~dirty.full
               PROVE  Top \in Ahead' /\ ~(walk'.pc = "open" /\ walk'.at = Top)
    <3>1. WalkerPlaced'
      BY PlacedStep DEF Next, Worker, Failures, Looks
    <3>2. Scope' = Ahead'
      <4>1. Walking'
        BY LooksWalker
      <4> QED BY <3>1, <4>1 DEF WalkerPlaced, RunsWithRow, Walking, Scope
    <3> QED BY <1>2, <3>2, LooksFrame DEF TopWatched
  <2>0. walk \in Walk /\ scan \in ScanRow
    BY DEF TypeOK
  <2>1. Top \notin directories /\ Top \in Scope /\ ~(walk.pc = "open" /\ walk.at = Top)
    BY <1>2, LooksWatch, LooksFrame DEF TopWatched
  <2>2. Top \in Ahead /\ Walking
    BY <2>1, LooksWalk, WalkingScope
  <2>3. Top \notin walk.found /\ (Listing => walk.at # Top) /\ Top \in scan.pending
    BY <2>0, <2>2, ReconciliationAssumption DEF Walk, Ahead, WalkerPlaced, AtEntry, Listing
  <2>4. CASE NextEntry
    <3> PICK x \in scan.pending :
        /\ walk.pc = "next"
        /\ IF ~Exists(x)
           THEN /\ Advance(x, {})
                /\ UNCHANGED walk
           ELSE IF x \in Paths
           THEN /\ walk' = [walk EXCEPT !.pc = "entries", !.at = x, !.todo = {x}]
                /\ UNCHANGED scan
           ELSE /\ Register(x)
                /\ walk' = [walk EXCEPT !.pc = "open", !.at = x]
                /\ UNCHANGED scan
      BY <2>4 DEF NextEntry
    <3>1. Exists(Top)
      BY DirFacts DEF Exists
    <3>2. CASE ~Exists(x)
      <4>1. scan'.pending = scan.pending \ {x} /\ walk' = walk
        BY <2>2, <3>2, AdvanceLeaves
      <4> QED BY <2>2, <2>3, <3>1, <3>2, <4>1 DEF Ahead, Listing
    <3>3. CASE Exists(x) /\ x \in Paths
      <4>1. walk'.pc = "entries" /\ walk'.at = x /\ scan' = scan
        BY <2>0, <3>3 DEF Walk
      <4> QED BY <2>3, <3>3, <4>1, DirFacts DEF Ahead, Listing
    <3>4. CASE Exists(x) /\ x \notin Paths
      <4>1. walk'.pc = "open" /\ walk'.at = x /\ scan' = scan /\ x # Top
        BY <2>0, <3>4 DEF Walk, Register
      <4> QED BY <2>3, <4>1 DEF Ahead, Listing
    <3> QED BY <3>2, <3>3, <3>4
  <2>5. CASE ReadFolder
    <3>1. walk.at # Top
      BY <2>1, <2>5 DEF ReadFolder
    <3>2. CASE Exists(walk.at)
      <4>1. walk'.pc = "entries" /\ walk'.at = walk.at /\ scan' = scan
        BY <2>0, <2>5, <3>2 DEF ReadFolder, Walk
      <4> QED BY <2>3, <3>1, <4>1 DEF Ahead, Listing
    <3>3. CASE ~Exists(walk.at)
      <4>1. Advance(walk.at, {}) /\ walk' = [walk EXCEPT !.pc = "next", !.at = Top]
        BY <2>5, <3>3 DEF ReadFolder
      <4>2. scan'.pending = scan.pending \ {walk.at}
        BY <2>2, <4>1, AdvanceLeaves
      <4>3. walk'.pc = "next"
        BY <2>0, <4>1 DEF Walk
      <4> QED BY <2>3, <3>1, <4>2, <4>3 DEF Ahead, Listing
    <3> QED BY <3>2, <3>3
  <2>6. CASE PathFails
    <3>1. CASE /\ walk.at # Top
               /\ Advance(walk.at, {})
               /\ walk' = [walk EXCEPT !.pc = "next", !.at = Top]
      <4>1. scan'.pending = scan.pending \ {walk.at}
        BY <2>2, <3>1, AdvanceLeaves
      <4>2. walk'.pc = "next"
        BY <2>0, <3>1 DEF Walk
      <4> QED BY <2>3, <3>1, <4>1, <4>2 DEF Ahead, Listing
    <3>2. CASE walk.pc = "entries" /\ UNCHANGED scan
               /\ \/ \E p \in walk.todo : walk' = [walk EXCEPT !.todo = @ \ {p}]
                  \/ \E found \in SUBSET walk.found :
                        walk' = [walk EXCEPT !.todo = {}, !.found = found, !.cut = TRUE]
      <4>1. walk'.pc = "entries" /\ walk'.at = walk.at /\ scan' = scan
        BY <2>0, <3>2 DEF Walk
      <4> QED BY <2>3, <3>2, <4>1 DEF Ahead, Listing
    <3> QED BY <2>6, <3>1, <3>2 DEF PathFails
  <2>7. CASE Observe
    <3>1. walk'.pc \in {"entries", "ingest"} /\ walk'.at = walk.at /\ scan' = scan
          /\ walk.pc = "entries"
      BY <2>0, <2>7 DEF Observe, Walk
    <3> QED BY <2>3, <3>1 DEF Ahead, Listing
  <2>8. CASE Ingest
    <3>1. walk'.pc = "entries" /\ walk'.at = walk.at /\ walk.pc = "ingest"
      BY <2>0, <2>8 DEF Ingest, Walk
    <3>2. scan' = scan \/ scan' = [scan EXCEPT !.observed = @ \cup {walk.held.path}]
      BY <2>8 DEF Ingest
    <3>3. scan'.pending = scan.pending
      BY <2>0, <3>2 DEF ScanRow
    <3> QED BY <2>3, <3>1, <3>3 DEF Ahead, Listing
  <2>9. CASE LeaveEntry
    <3>1. Advance(walk.at, walk.found) /\ walk.pc = "entries" /\ walk.found \in SUBSET Places
      BY <2>0, <2>9, ConstantTypes DEF LeaveEntry, Walk, Dirs
    <3>2. scan'.pending = (scan.pending \ {walk.at}) \cup walk.found
      BY <2>2, <3>1, AdvanceDoes
    <3>3. walk'.pc = "next"
      BY <2>0, <2>9 DEF LeaveEntry, Walk
    <3> QED BY <2>3, <3>1, <3>2, <3>3 DEF Ahead, Listing
  <2> QED BY <1>2, <2>4, <2>5, <2>6, <2>7, <2>8, <2>9 DEF Looks
<1> QED BY <1>1, <1>2

LEMMA NewlyErred ==
    ASSUME TypeOK, WalkerPlaced, Ingest, NEW x \in Paths,
           errors' = [errors EXCEPT ![x] = "new"]
    PROVE  x \in Cover'
<1>1. errors'[x] = "new" /\ x \in Places /\ x \notin Dirs
  BY DirFacts, ConstantTypes DEF TypeOK
<1> QED BY <1>1 DEF Cover, Erred, Leaving

LEMMA FollowedLooks == ASSUME SeenInv, Looks PROVE Followed'
<1> USE DEF SeenInv, ComingInv, WalkInv
<1>1. CASE WatchRefused
  BY <1>1, GivenUp DEF Followed, Kept
<1>2. CASE ~WatchRefused
  <2> SUFFICES ASSUME Kept, NEW p \in Paths, WatchedPath(p)', NeedsLook(p)'
               PROVE  Expected(p)'
    BY <1>2, LooksFrame DEF Followed
  <2>0. /\ UNCHANGED <<disk, content>> /\ disk[p] # None
        /\ Announced(p)' <=> Announced(p)
    BY <1>2, LooksFrame DEF WatchedPath
  <2>1. Expected(p) <=> Announced(p) \/ Coming(p)
    BY LooksWalk, WalkingScope DEF Expected, Coming
  <2>2. Announced(p)' \/ Coming(p)' => Expected(p)'
    <3>1. WalkerPlaced'
      BY PlacedStep DEF Next, Worker, Failures, Looks
    <3>2. Reach' = Cover'
      <4>1. Walking'
        BY LooksWalker
      <4> QED BY <3>1, <4>1 DEF WalkerPlaced, RunsWithRow, Walking, Scope, Reach, Cover
    <3> QED BY <3>2 DEF Expected, Coming
  <2>3. CASE Parent[p] \in Cover'
    BY <2>2, <2>3, AboveSelf DEF Coming, Meets
  <2>4. CASE WatchedPath(p) /\ ~Ingest
    <3>1. NeedsLook(p)
      <4>1. UNCHANGED catalogue /\ scan'.observed = scan.observed /\ OfTheRow
        BY <2>4, LooksKeep, LooksCover
      <4> QED BY <2>0, <4>1 DEF NeedsLook, Behind, Differing, catalogue, OfTheRow
    <3>2. Announced(p) \/ Coming(p)
      BY <2>1, <2>4, <3>1 DEF Followed
    <3>3. Coming(p) => Coming(p)'
      BY <2>0, <2>4, NextEntryCovers, WatchRefusedCovers, ReadFolderCovers, ObserveCovers,
         PathFailsCovers, LeaveEntryCovers DEF Looks
    <3> QED BY <2>0, <2>2, <3>2, <3>3
  <2>5. CASE WatchedPath(p) /\ Ingest
    <3> DEFINE held == walk.held
    <3>0. /\ OfTheRow /\ walk.pc = "ingest"
          /\ \A q \in Paths \ {held.path} : Coming(q) => Coming(q)'
      BY <2>5, IngestCovers DEF Ingest
    <3>1. CASE HeldStale(p)
      <4>1. ExpectedAgain(p)
        BY <2>5, <3>0, <3>1 DEF HeldAgain
      <4>2. p # held.path /\ Coming(p) => Coming(p)'
        BY <3>0
      <4>3. Above(Cover, Parent[p]) => Coming(p)'
        <5>1. \A y \in Cover : y \in Dirs => y \in Cover'
          <6>0. walk \in Walk /\ errors \in [Places -> {"none", "old", "new"}]
                /\ held.path \in Paths /\ held.path \in Places
            BY <3>0, ConstantTypes DEF TypeOK, Walk, WalkerPlaced, Holding
          <6>1. walk'.pc = "entries" /\ walk'.at = walk.at
                /\ walk'.found = walk.found /\ walk'.cut = walk.cut
            BY <2>5, <6>0 DEF Ingest, Walk
          <6>2. \A y \in Places : y # held.path => errors'[y] = errors[y]
            BY <2>5, <6>0, IngestWrites DEF TypeOK
          <6>3. scan'.pending = scan.pending
            <7>1. scan' = scan \/ scan' = [scan EXCEPT !.observed = @ \cup {held.path}]
              BY <2>5 DEF Ingest
            <7> QED BY <7>1 DEF TypeOK, ScanRow
          <6>4. Ahead' = Ahead /\ Leaving' = Leaving
            BY <3>0, <6>1, <6>3 DEF Ahead, Leaving, Listing
          <6>5. \A y \in Erred : y # held.path => y \in Erred'
            BY <3>0, <6>2, <6>4 DEF Erred, OfTheRow
          <6> QED BY <6>0, <6>4, <6>5, DirFacts DEF Cover
        <5> QED BY <5>1, AboveGrows DEF Coming, Meets
      <4> QED BY <2>0, <2>2, <4>1, <4>2, <4>3 DEF ExpectedAgain, Coming, Meets
    <3>2. CASE ~HeldStale(p)
      <4>1. held.path \in Paths /\ held.file \in Files
        BY <2>5, IngestWrites
      <4>2. CASE ~Current
        <5>1. UNCHANGED <<location, recorded, scan>>
          BY <2>5, <4>2 DEF Ingest, catalogue
        <5>2. NeedsLook(p)
          BY <2>0, <5>1 DEF NeedsLook, Behind, Differing, FullWalk
        <5>3. Announced(p) \/ Coming(p)
          BY <2>1, <2>5, <5>2 DEF Followed
        <5>4. p = held.path => Coming(p)'
          <6>1. errors' = [errors EXCEPT ![held.path] = "new"]
            BY <2>5, <4>2 DEF Ingest
          <6>2. p = held.path => p \in Cover'
            BY <2>5, <4>1, <6>1, NewlyErred
          <6> QED BY <6>2 DEF Coming, Meets
        <5> QED BY <2>0, <2>2, <3>0, <5>3, <5>4
      <4>3. CASE Current
        <5>1. /\ location' = [location EXCEPT ![held.path] = held.file]
              /\ recorded' = [recorded EXCEPT ![held.file] = held.content]
              /\ scan' = [scan EXCEPT !.observed = @ \cup {held.path}]
          BY <2>5, <4>3 DEF Ingest
        <5>2. /\ location'[held.path] = held.file
              /\ \A q \in Paths \ {held.path} : location'[q] = location[q]
              /\ recorded'[held.file] = held.content
              /\ \A f \in Files \ {held.file} : recorded'[f] = recorded[f]
              /\ scan'.observed = scan.observed \cup {held.path}
          BY <4>1, <5>1 DEF TypeOK, ScanRow
        <5>3. disk[p] \in Files
          BY <2>0 DEF TypeOK
        <5>4. p # held.path
          <6>1. p = held.path => disk[p] = held.file /\ content[disk[p]] = held.content
            BY <3>2 DEF HeldStale
          <6>2. p = held.path => ~NeedsLook(p)'
            BY <2>0, <5>2, <6>1 DEF NeedsLook, Behind, Differing
          <6> QED BY <6>2
        <5>5. NeedsLook(p)
          <6>1. disk[p] = held.file => content[disk[p]] = held.content
            BY <3>2 DEF HeldStale
          <6>2. p \in Behind' => p \in Behind
            BY <2>0, <5>2, <5>3, <5>4, <6>1 DEF Behind, Differing
          <6>3. p \notin scan'.observed => p \notin scan.observed
            BY <5>2
          <6> QED BY <3>0, <6>2, <6>3 DEF NeedsLook, OfTheRow
        <5> QED BY <2>0, <2>1, <2>2, <2>5, <3>0, <5>4, <5>5 DEF Followed
      <4> QED BY <4>2, <4>3
    <3> QED BY <3>1, <3>2
  <2> QED BY <1>2, <2>3, <2>4, <2>5, LooksWatch
<1> QED BY <1>1, <1>2

-----------------------------------------------------------------------------
(* The steps that begin and end a walk, and the users.                     *)

LEMMA GhostKnown == ASSUME TypeOK PROVE ghost \in Ghost
BY DEF TypeOK, Ghost

LEMMA UnderSelf == ASSUME NEW S, NEW x \in S PROVE Under(S, x)
BY AboveSelf DEF Under, Meets

LEMMA UnderGrows == ASSUME NEW S, NEW T, NEW x, Under(S, x), S \subseteq T PROVE Under(T, x)
<1>1. CASE x \in Paths
  BY <1>1, MeetsGrows DEF Under
<1>2. CASE x \notin Paths
  BY <1>2, AboveGrows DEF Under
<1> QED BY <1>1, <1>2

\* A step after which all of the root will be walked.
LEMMA AllExpected ==
    ASSUME SeenInv, walk'.pc \notin {"open", "ingest"}, Kept' => Top \in Scope'
    PROVE  Followed' /\ HeldAgain' /\ TopWatched'
<1>1. ASSUME NEW p \in Paths, Kept' PROVE Expected(p)'
  BY <1>1, MeetsTop DEF Expected, Reach
<1> QED BY <1>1 DEF Followed, HeldAgain, TopWatched

\* A step that hands on what is still to be looked at.
LEMMA HandedOn ==
    ASSUME SeenInv, UNCHANGED <<disk, armed, directories, initialized, overflow, events, dirty>>,
           walk.todo = {}, walk'.pc \notin {"open", "ingest"},
           Kept' => /\ Kept
                    /\ \A p \in Paths : disk[p] # None /\ NeedsLook(p)' => NeedsLook(p)
                    /\ \A x \in Reach : Under(Reach', x)
                    /\ Top \in Scope => Top \in Scope'
    PROVE  Followed' /\ HeldAgain' /\ TopWatched'
<1> USE DEF SeenInv, ComingInv
<1>1. ASSUME NEW p \in Paths, Kept', WatchedPath(p)', NeedsLook(p)' PROVE Expected(p)'
  <2>1. WatchedPath(p) /\ NeedsLook(p) /\ Kept
    BY <1>1 DEF WatchedPath
  <2>2. Announced(p) \/ Meets(Reach, p)
    BY <2>1 DEF Followed, Expected
  <2>3. Announced(p) => Announced(p)'
    BY DEF Announced
  <2>4. Meets(Reach, p) => Meets(Reach', p)
    BY <1>1, MeetsUnder
  <2> QED BY <2>2, <2>3, <2>4 DEF Expected
<1>2. TopWatched'
  BY DEF TopWatched
<1> QED BY <1>1, <1>2 DEF Followed, HeldAgain

\* What the request has still to look at is under what it asks for.
LEMMA ScopeUnderWanted ==
    ASSUME SeenInv, ghost.intact, ~Listing, request.status # "none", NEW x \in Scope
    PROVE  Under(Wanted, x)
<1> USE DEF SeenInv, ComingInv, WalkInv
<1>1. CASE x \in Wanted
  BY <1>1, UnderSelf
<1>2. CASE x \notin Wanted
  <2>1. (Walking \/ WillResume) /\ x \in Ahead
    BY <1>2 DEF Scope
  <2>2. scan.status = "running" /\ x \in scan.pending
    BY <2>1 DEF WillResume, WalkerPlaced, RunsWithRow, Ahead
  <2> QED BY <2>2 DEF ScanOwned
<1> QED BY <1>1, <1>2

LEMMA FollowedClaim == ASSUME SeenInv, Claim PROVE Followed' /\ HeldAgain' /\ TopWatched'
<1> USE DEF SeenInv, ComingInv, WalkInv
<1>1. /\ walk.pc = "idle" /\ request.status \in {"queued", "retry_wait"}
      /\ request' = [request EXCEPT !.status = "running", !.attempts = @ + 1]
      /\ walk' = [NoWalk EXCEPT !.revision = root.revision,
                    !.pc = IF Verifiable THEN "begin" ELSE "ended",
                    !.result = IF Verifiable THEN "" ELSE "cancelled"]
      /\ UNCHANGED <<world, watcher, directories, initialized, dirty, tick, root,
                   scan, errors, catalogue, used, ghost>>
  BY DEF Claim
<1>2. /\ walk'.pc = IF Verifiable THEN "begin" ELSE "ended"
      /\ walk'.result = IF Verifiable THEN "" ELSE "cancelled"
      /\ walk'.revision = root.revision
  BY <1>1 DEF NoWalk
<1>3. request'.status = "running" /\ request'.paths = request.paths
  BY <1>1 DEF TypeOK, Request
<1>4. walk.todo = {} /\ ~Listing /\ ~Listing' /\ ~Walking /\ ~Walking'
  BY <1>1, <1>2 DEF WalkerPlaced, AtEntry, Listing, Walking
<1>5. CASE Verifiable
  <2>1. Erred' = Erred /\ Ahead' = Ahead /\ Wanted' = Wanted
    BY <1>1, <1>3, <1>4 DEF Erred, Leaving, Ahead, FullWalk, Wanted
  <2>2. WillResume' = WillResume
    BY <1>1, <1>2, <1>5 DEF WillResume
  <2>3. Scope' = Scope
    BY <1>1, <1>2, <1>3, <1>4, <1>5, <2>1, <2>2 DEF Scope
  <2>4. \A x \in Reach : Under(Reach', x)
    BY <2>1, <2>3, UnderSelf DEF Reach
  <2>5. Kept' => Kept
    BY <1>1 DEF Kept, Doomed
  <2>6. \A p \in Paths : NeedsLook(p)' => NeedsLook(p)
    BY <1>1 DEF NeedsLook, Behind, Differing, FullWalk, world, catalogue
  <2> QED BY <1>1, <1>2, <1>4, <1>5, <2>3, <2>4, <2>5, <2>6, HandedOn DEF world, watcher
<1>6. CASE ~Verifiable
  <2>1. ~Kept'
    BY <1>2, <1>6 DEF Kept, Doomed
  <2> QED BY <1>2, <1>6, <2>1, AllExpected
<1> QED BY <1>5, <1>6

LEMMA FollowedBeginScan == ASSUME SeenInv, BeginScan PROVE Followed' /\ HeldAgain' /\ TopWatched'
<1> USE DEF SeenInv, ComingInv, WalkInv
<1>1. /\ walk.pc = "begin" /\ walk' = [walk EXCEPT !.pc = "next"]
      /\ UNCHANGED <<world, watcher, memory, root, request, catalogue, used>>
  BY DEF BeginScan
<1>2. walk'.pc = "next" /\ walk'.revision = walk.revision
  BY <1>1 DEF TypeOK, Walk
<1>3. /\ walk.todo = {} /\ ~Listing /\ ~Listing' /\ ~Walking /\ Walking'
      /\ request.status = "running"
  BY <1>1, <1>2 DEF WalkerPlaced, RunsWithRow, AtEntry, Listing, Walking
<1>4. Scope' = scan'.pending
  BY <1>1, <1>2, <1>3 DEF Scope, Ahead
<1>5. Scope = IF Resumable THEN scan.pending ELSE Wanted
  BY <1>1, <1>3 DEF Scope, Ahead, WillResume, Resumable
<1>6. Leaving = {} /\ Leaving' = {}
  BY <1>3 DEF Leaving
<1>7. CASE Resumable
  <2>1. UNCHANGED <<scan, errors, ghost>>
    BY <1>7 DEF BeginScan
  <2>2. Scope' = Scope /\ Erred' = Erred
    BY <1>4, <1>5, <1>6, <1>7, <2>1 DEF Erred, FullWalk
  <2>3. \A x \in Reach : Under(Reach', x)
    BY <2>2, UnderSelf DEF Reach
  <2>4. Kept' => Kept
    BY <1>1, <2>1 DEF Kept, Doomed
  <2>5. \A p \in Paths : NeedsLook(p)' => NeedsLook(p)
    BY <1>1, <2>1 DEF NeedsLook, Behind, Differing, FullWalk, world, catalogue
  <2> QED BY <1>1, <1>2, <1>3, <2>2, <2>3, <2>4, <2>5, HandedOn DEF world, watcher, memory
<1>8. CASE ~Resumable
  <2>1. /\ scan' = [NoScan EXCEPT !.status = "running",
                   !.partial = (request.paths # {}),
                   !.revision = walk.revision, !.loss = root.loss,
                   !.pending = IF request.paths = {} THEN {Top}
                               ELSE request.paths]
        /\ errors' = [x \in Places |->
                   IF errors[x] = "new" THEN "old" ELSE errors[x]]
        /\ ghost' = [ghost EXCEPT
                   !.steady = {p \in Paths : disk[p] # None},
                   !.covered = IF request.paths = {} THEN "walking" ELSE @,
                   !.intact = (@ \/ request.paths = {})]
    BY <1>8 DEF BeginScan
  <2>2. scan'.pending = Wanted /\ scan'.status = "running"
        /\ (scan'.partial <=> request.paths # {})
    BY <2>1 DEF NoScan, Wanted
  <2>3. CASE request.paths = {}
    <3>1. Top \in Scope'
      BY <1>4, <2>2, <2>3 DEF Wanted
    <3> QED BY <1>2, <3>1, AllExpected
  <2>4. CASE request.paths # {}
    <3>1. ghost'.intact = ghost.intact
      <4>1. ghost'.intact = (ghost.intact \/ request.paths = {})
        BY <2>1, GhostKnown, Zenon DEF Ghost
      <4>2. ghost.intact \in BOOLEAN
        BY GhostKnown DEF Ghost
      <4> QED BY <2>4, <4>1, <4>2
    <3>2. ~FullWalk'
      BY <2>2, <2>4 DEF FullWalk
    <3>3. Erred \subseteq Erred'
      BY <1>6, <2>1, <3>2 DEF Erred, TypeOK
    <3>4. Scope' = Scope
      BY <1>4, <1>5, <1>8, <2>2
    <3>5. \A x \in Reach : Under(Reach', x)
      BY <3>3, <3>4, UnderSelf DEF Reach
    <3>6. Kept' => Kept
      BY <1>1, <3>1 DEF Kept, Doomed
    <3>7. \A p \in Paths : NeedsLook(p)' => NeedsLook(p)
      BY <1>1, <3>2 DEF NeedsLook, Behind, Differing, world, catalogue
    <3> QED BY <1>1, <1>2, <1>3, <3>4, <3>5, <3>6, <3>7, HandedOn DEF world, watcher, memory
  <2> QED BY <2>3, <2>4
<1> QED BY <1>7, <1>8
LEMMA FollowedCloseScan == ASSUME SeenInv, CloseScan PROVE Followed' /\ HeldAgain' /\ TopWatched'
<1> USE DEF SeenInv, ComingInv, WalkInv
<1>1. walk.pc = "next" /\ scan.pending = {} /\ Walking /\ ~Listing
      /\ UNCHANGED <<world, watcher, memory, request, used>>
  BY DEF CloseScan, Walking, Listing
<1>2. walk.todo = {} /\ request.status = "running" /\ scan.status = "running"
  BY <1>1 DEF WalkerPlaced, RunsWithRow, AtEntry
<1>3. CASE ~Current
  <2>1. walk'.pc = "ended" /\ walk'.result = "cancelled"
    BY <1>3, NoWalkFields DEF CloseScan
  <2>2. ~Kept'
    BY <2>1 DEF Kept, Doomed
  <2> QED BY <2>1, <2>2, AllExpected
<1>4. CASE Current
  <2>1. errors' = Cleared /\ (IF scan.partial \/ Remaining # {}
               THEN CloseUnconfirmed ELSE CloseConfirmed)
    BY <1>4 DEF CloseScan
  <2>2. /\ walk'.pc = "ended" /\ walk'.result \in {"ok", "partial"}
        /\ scan'.status = "complete" /\ ghost'.intact = ghost.intact
    <3>1. CASE CloseUnconfirmed
      <4>1. ghost'.intact = ghost.intact
        BY <3>1, GhostKnown DEF CloseUnconfirmed, Ghost
      <4> QED BY <3>1, <4>1, ClosedStatus, NoWalkFields DEF CloseUnconfirmed
    <3>2. CASE CloseConfirmed
      <4>1. walk'.pc = "ended" /\ walk'.result = "ok"
        BY <3>2 DEF CloseConfirmed, NoWalk
      <4>2. ghost'.intact = ghost.intact
        BY <3>2, GhostKnown DEF CloseConfirmed, CaughtUp, Ghost
      <4> QED BY <3>2, <4>1, <4>2, ClosedStatus DEF CloseConfirmed
    <3> QED BY <2>1, <3>1, <3>2
  <2>3. Kept' => Kept
    BY <1>1, <2>2 DEF Kept, Doomed
  <2>4. Scope = {} /\ Scope' = {}
    BY <1>1, <1>2, <2>2 DEF Scope, Ahead, Walking
  <2>5. Erred' = Erred
    <3>1. Leaving = {} /\ Leaving' = {} /\ ~FullWalk'
      BY <1>1, <2>2 DEF Leaving, Listing, FullWalk
    <3>2. FullWalk <=> ~scan.partial
      BY <1>2 DEF FullWalk
    <3>3. errors \in [Places -> {"none", "old", "new"}]
      BY DEF TypeOK
    <3>4. \A x \in Places : errors'[x] = IF x \in Remaining THEN errors[x] ELSE "none"
      BY <2>1 DEF Cleared
    <3> QED BY <3>1, <3>2, <3>3, <3>4 DEF Erred, Remaining
  <2>6. \A x \in Reach : Under(Reach', x)
    BY <2>4, <2>5, UnderSelf DEF Reach
  <2>7. ASSUME NEW p \in Paths, disk[p] # None, NeedsLook(p)' PROVE NeedsLook(p)
    <3>1. p \in Behind'
      BY <2>2, <2>7 DEF NeedsLook, FullWalk
    <3>2. UNCHANGED <<disk, content>>
      BY <1>1 DEF world
    <3>3. CASE CloseUnconfirmed
      <4>1. UNCHANGED <<location, recorded>>
        BY <3>3 DEF CloseUnconfirmed, catalogue
      <4> QED BY <3>1, <3>2, <4>1 DEF NeedsLook, Behind, Differing
    <3>4. CASE CloseConfirmed /\ ~scan.partial
      <4>1. location' = [q \in Paths |-> IF q \in scan.observed THEN location[q] ELSE None]
            /\ UNCHANGED recorded
        BY <3>4 DEF CloseConfirmed
      <4>2. CASE p \in scan.observed
        BY <2>7, <3>1, <3>2, <4>1, <4>2 DEF NeedsLook, Behind, Differing
      <4>3. CASE p \notin scan.observed
        BY <1>2, <3>4, <4>3 DEF NeedsLook, FullWalk
      <4> QED BY <4>2, <4>3
    <3> QED BY <2>1, <3>3, <3>4
  <2>8. UNCHANGED <<disk, armed, directories, initialized, overflow, events, dirty>>
    BY <1>1 DEF world, watcher, memory
  <2> HIDE DEF SeenInv, ComingInv, WalkInv
  <2> QED BY <1>2, <2>2, <2>3, <2>4, <2>6, <2>7, <2>8, HandedOn
<1> QED BY <1>3, <1>4

LEMMA FollowedRootFails == ASSUME SeenInv, RootFails PROVE Followed' /\ HeldAgain' /\ TopWatched'
<1>0. TypeOK /\ WalkerPlaced /\ ScanOwned
  BY DEF SeenInv, ComingInv, WalkInv
<1>1. /\ walk.pc \in {"begin", "next", "open"}
      /\ scan' = IF scan.status = "running" THEN Closed("failed") ELSE scan
      /\ walk' = [NoWalk EXCEPT !.pc = "ended", !.result = "transient"]
      /\ UNCHANGED <<world, watcher, memory, request, errors, catalogue, ghost>>
  BY DEF RootFails
<1>2. walk'.pc = "ended" /\ walk'.result = "transient" /\ scan'.status # "running"
  BY <1>1, NoWalkFields, ClosedStatus
<1>3. /\ walk.todo = {} /\ ~Listing /\ ~Listing' /\ request.status = "running"
  BY <1>0, <1>1, <1>2 DEF WalkerPlaced, RunsWithRow, AtEntry, Listing
<1>4. Scope' = Wanted
  BY <1>1, <1>2, <1>3 DEF Scope, Wanted
<1>5. Erred \subseteq Erred'
  BY <1>1, <1>2, <1>3 DEF Erred, Leaving, FullWalk
<1>6. Kept' => Kept
  BY <1>1 DEF Kept, Doomed
<1>7. \A p \in Paths : NeedsLook(p)' => NeedsLook(p)
  BY <1>1, <1>2 DEF NeedsLook, Behind, Differing, FullWalk, world, catalogue
<1>8. ASSUME Kept', NEW x \in Scope PROVE Under(Wanted, x)
  BY <1>3, <1>6, <1>8, ScopeUnderWanted DEF Kept
<1>9. ASSUME Kept', NEW x \in Reach PROVE Under(Reach', x)
  BY <1>4, <1>5, <1>8, <1>9, UnderGrows, UnderSelf DEF Reach
<1>10. ASSUME Kept', Top \in Scope PROVE Top \in Scope'
  BY <1>4, <1>8, <1>10, AboveTopOnly, DirFacts DEF Under
<1> QED BY <1>1, <1>2, <1>3, <1>6, <1>7, <1>9, <1>10, HandedOn DEF world, watcher, memory

LEMMA FollowedInterrupt ==
    ASSUME SeenInv, Interrupt \/ Unwatch \/ WatchRefused \/ Cancel
    PROVE  Followed' /\ HeldAgain' /\ TopWatched'
<1>0. TypeOK
  BY DEF SeenInv, WalkInv
<1>1. ~Kept'
  <2>1. CASE Interrupt
    <3>1. walk' = [NoWalk EXCEPT !.pc = "ended", !.result = "cancelled"]
      BY <2>1 DEF Interrupt
    <3> QED BY <3>1, NoWalkFields DEF Kept, Doomed
  <2> QED BY <1>0, <2>1, GivenUp DEF Kept
<1> QED BY <1>1 DEF Followed, HeldAgain, TopWatched

LEMMA FollowedFinish == ASSUME SeenInv, Finish PROVE Followed' /\ HeldAgain' /\ TopWatched'
<1>0. TypeOK /\ WalkerPlaced
  BY DEF SeenInv, WalkInv
<1>1. /\ walk.pc = "ended" /\ walk' = NoWalk
      /\ UNCHANGED <<world, watcher, memory, scan, errors, catalogue>>
      /\ ghost'.intact => ghost.intact
  BY <1>0, FinishDoes
<1>2. /\ walk.todo = {} /\ ~Listing /\ ~Listing' /\ ~Walking' /\ walk'.pc = "idle"
      /\ request.status = "running"
  BY <1>0, <1>1, NoWalkFields DEF WalkerPlaced, RunsWithRow, AtEntry, Listing, Walking
<1>3. Erred' = Erred
  BY <1>1, <1>2 DEF Erred, Leaving, FullWalk
<1>4. ASSUME Kept' PROVE Kept /\ Scope' = Scope
  <2>1. ghost'.intact
    BY <1>4 DEF Kept
  <2>2. CASE walk.result = "transient" /\ request.attempts < MaxAttempts /\ ~request.cancel
             /\ request'.status = "retry_wait" /\ request'.paths = request.paths
    <3>1. ~Doomed
      <4>1. request.attempts \in Nat /\ MaxAttempts \in Nat
        BY <1>0, ConstantTypes DEF TypeOK, Request
      <4> QED BY <2>2, <4>1 DEF Doomed
    <3>2. Scope = Wanted
      BY <1>1, <1>2, <2>2 DEF Scope
    <3>3. ~WillResume'
      BY <1>0, <1>1, <2>2 DEF WillResume, WalkerPlaced, RunsWithRow
    <3>4. Scope' = Wanted
      BY <1>2, <2>2, <3>3 DEF Scope, Wanted
    <3> QED BY <1>1, <2>1, <3>1, <3>2, <3>4 DEF Kept
  <2>3. CASE walk.result \in {"ok", "partial"} /\ ~request.cancel /\ request'.status = "none"
    <3>1. ~Doomed
      BY <2>3 DEF Doomed
    <3>2. Scope = {} /\ Scope' = {}
      BY <1>1, <2>3 DEF Scope
    <3> QED BY <1>1, <2>1, <3>1, <3>2 DEF Kept
  <2> QED BY <1>0, <2>1, <2>2, <2>3, FinishDoes
<1>5. ASSUME Kept', NEW x \in Reach PROVE Under(Reach', x)
  BY <1>3, <1>4, <1>5, UnderSelf DEF Reach
<1>6. \A p \in Paths : NeedsLook(p)' => NeedsLook(p)
  BY <1>1 DEF NeedsLook, Behind, Differing, FullWalk, world, catalogue
<1> QED BY <1>1, <1>2, <1>4, <1>5, <1>6, HandedOn DEF world, watcher, memory

LEMMA FollowedRestart == ASSUME SeenInv, Restart PROVE Followed' /\ HeldAgain' /\ TopWatched'
<1>0. TypeOK
  BY DEF SeenInv, WalkInv
<1>1. walk' = NoWalk /\ ~initialized'
  BY <1>0, RestartDoes
<1>2. \A p \in Paths : Announced(p)'
  BY <1>1 DEF Announced
<1> QED BY <1>1, <1>2, NoWalkFields DEF Followed, Expected, HeldAgain, TopWatched
\* A request where there was none: the running row is of no request.
LEMMA AskedAnew ==
    ASSUME TypeOK, WalkerPlaced, ScanOwned, request.status = "none",
           request'.status = "queued", walk' = walk, scan' = scan, ghost' = ghost
    PROVE  /\ walk.pc = "idle" /\ walk.todo = {} /\ ~Listing
           /\ Scope = {}
           /\ Kept' <=> Kept
           /\ Kept' => Scope' = Wanted'
<1>1. walk.pc = "idle" /\ walk.todo = {} /\ ~Listing
  BY DEF WalkerPlaced, RunsWithRow, AtEntry, Listing
<1>2. Kept' => ~WillResume'
  BY DEF Kept, ScanOwned, WillResume
<1>3. Kept' <=> Kept
  BY <1>1 DEF Kept, Doomed
<1>4. Kept' => Scope' = Wanted'
  BY <1>1, <1>2 DEF Scope, Walking
<1> QED BY <1>1, <1>3, <1>4 DEF Scope

\* A step that leaves all but the marks' copy and the rows of the root.
LEMMA FollowedBeside ==
    ASSUME SeenInv, Beside,
           UNCHANGED <<disk, content, armed, events, overflow, directories, initialized, dirty>>
    PROVE  Followed' /\ HeldAgain' /\ TopWatched'
<1> USE DEF SeenInv, ComingInv
<1>1. AnnouncementsKept
  BY DEF AnnouncementsKept, Announced
<1>2. \A p \in Paths : WatchedPath(p)' => Apart(p) /\ WatchedPath(p)
  BY DEF WatchedPath, Apart
<1>3. TopWatched'
  BY BesideKeeps DEF TopWatched, Beside
<1> QED BY <1>1, <1>2, <1>3, BesideFollows

LEMMA FollowedEnqueue == ASSUME SeenInv, Enqueue PROVE Followed' /\ HeldAgain' /\ TopWatched'
<1>0. TypeOK /\ WalkerPlaced /\ ScanOwned /\ MarksFormed /\ TopWatched /\ Followed
  BY DEF SeenInv, ComingInv, WalkInv
<1>1. /\ tick.pc = "enqueue"
      /\ UNCHANGED <<world, watcher, directories, degraded, initialized, root,
                   scan, errors, catalogue, walk, used, ghost>>
  BY DEF Enqueue
<1>2. CASE request.status # "none"
  <2>1. UNCHANGED <<request, dirty>>
    BY <1>2 DEF Enqueue
  <2>2. Beside
    BY <1>1, <2>1 DEF Beside, catalogue
  <2> QED BY <1>1, <2>1, <2>2, FollowedBeside DEF world, watcher
<1>3. CASE request.status = "none"
  <2>1. /\ request' = [NoRequest EXCEPT !.status = "queued",
                   !.paths = IF tick.due THEN {} ELSE tick.dirty.paths]
        /\ dirty' = IF CopyHolds THEN Clean ELSE dirty
    BY <1>3 DEF Enqueue
  <2>2. request'.status = "queued"
        /\ request'.paths = IF tick.due THEN {} ELSE tick.dirty.paths
    BY <2>1 DEF NoRequest
  <2>3. /\ walk'.pc = "idle" /\ walk.todo = {} /\ ~Listing /\ Scope = {}
        /\ (Kept' <=> Kept) /\ (Kept' => Scope' = Wanted')
    BY <1>0, <1>1, <1>3, <2>2, AskedAnew
  <2>4. CASE request'.paths = {}
    <3>1. Kept' => Top \in Scope'
      BY <2>3, <2>4 DEF Wanted
    <3> QED BY <2>3, <3>1, AllExpected
  <2>5. CASE request'.paths # {}
    <3>1. Wanted' = tick.dirty.paths /\ ~tick.dirty.full
      BY <1>0, <2>2, <2>5 DEF Wanted, MarksFormed, Formed
    <3>2. CopyHolds => dirty = tick.dirty
      BY <1>0, <1>1 DEF CopyHolds, MarksFormed
    <3>3. ASSUME NEW p \in Paths, Kept', Announced(p) PROVE Announced(p)' \/ p \in Scope'
      <4>1. CASE CopyHolds
        BY <1>1, <2>3, <3>1, <3>2, <3>3, <4>1 DEF Announced, watcher
      <4>2. CASE ~CopyHolds
        BY <1>1, <2>1, <3>3, <4>2 DEF Announced, watcher
      <4> QED BY <4>1, <4>2
    <3>4. Erred' = Erred
      BY <1>1 DEF Erred, Leaving, Listing, FullWalk
    <3>5. Reach \subseteq Reach'
      BY <2>3, <3>4 DEF Reach
    <3>6. ASSUME NEW p \in Paths, Kept', WatchedPath(p)', NeedsLook(p)' PROVE Expected(p)'
      <4>1. WatchedPath(p) /\ NeedsLook(p) /\ Kept
        BY <1>1, <2>3, <3>6 DEF WatchedPath, NeedsLook, Behind, Differing, FullWalk, world,
           watcher, catalogue
      <4>2. Announced(p) \/ Meets(Reach, p)
        BY <1>0, <2>3, <4>1 DEF Followed, Expected
      <4>3. CASE Meets(Reach, p)
        BY <3>5, <4>3, MeetsGrows DEF Expected
      <4>4. CASE Announced(p)
        BY <3>3, <3>6, <4>4 DEF Expected, Meets, Reach
      <4> QED BY <4>2, <4>3, <4>4
    <3>7. TopWatched'
      <4>1. Kept' /\ initialized' /\ Top \notin directories' => dirty.full
        BY <1>0, <1>1, <2>3 DEF TopWatched
      <4>2. dirty.full => dirty' = dirty
        BY <2>1, <3>1, <3>2
      <4> QED BY <4>1, <4>2 DEF TopWatched
    <3> QED BY <2>3, <3>6, <3>7 DEF Followed, HeldAgain
  <2> QED BY <2>4, <2>5
<1> QED BY <1>2, <1>3

LEMMA FollowedVerify == ASSUME SeenInv, Verify PROVE Followed' /\ HeldAgain' /\ TopWatched'
<1>0. TypeOK /\ WalkerPlaced /\ ScanOwned
  BY DEF SeenInv, ComingInv, WalkInv
<1>1. /\ root' = [root EXCEPT !.paused = FALSE]
      /\ request' = IF request.status = "none"
                    THEN [NoRequest EXCEPT !.status = "queued"] ELSE request
      /\ UNCHANGED <<world, watcher, memory, scan, errors, catalogue, walk, ghost>>
  BY DEF Verify
<1>2. CASE request.status # "none"
  <2>1. root'.revision = root.revision
    BY <1>0, <1>1 DEF TypeOK, RootRow
  <2>2. Beside
    BY <1>1, <1>2, <2>1 DEF Beside, catalogue
  <2> QED BY <1>1, <2>2, FollowedBeside DEF world, watcher, memory
<1>3. CASE request.status = "none"
  <2>1. request'.status = "queued" /\ request'.paths = {}
    BY <1>1, <1>3 DEF NoRequest
  <2>2. walk'.pc = "idle" /\ (Kept' => Scope' = Wanted')
    BY <1>0, <1>1, <1>3, <2>1, AskedAnew
  <2>3. Kept' => Top \in Scope'
    BY <2>1, <2>2 DEF Wanted
  <2> QED BY <2>2, <2>3, AllExpected
<1> QED BY <1>2, <1>3

LEMMA FollowedRetryScanErrors ==
    ASSUME SeenInv, RetryScanErrors PROVE Followed' /\ HeldAgain' /\ TopWatched'
<1>0. TypeOK /\ WalkerPlaced /\ ScanOwned
  BY DEF SeenInv, ComingInv, WalkInv
<1>1. /\ request.status = "none"
      /\ scan' = IF scan.status = "running" THEN Closed("superseded") ELSE scan
      /\ UNCHANGED <<world, watcher, memory, root, errors, catalogue, walk, ghost>>
      /\ request'.status = "queued"
  BY DEF RetryScanErrors, NoRequest
<1>2. walk'.pc = "idle" /\ walk.todo = {}
  BY <1>0, <1>1 DEF WalkerPlaced, RunsWithRow, AtEntry, Listing
<1>3. ASSUME Kept' PROVE Kept /\ Scope = {} /\ Erred' = Erred /\ scan' = scan
  <2>1. scan.status # "running"
    BY <1>0, <1>1, <1>3 DEF ScanOwned, Kept
  <2> QED BY <1>0, <1>1, <1>3, <2>1, AskedAnew DEF Erred, Leaving, Listing, FullWalk
<1>4. ASSUME Kept', NEW x \in Reach PROVE Under(Reach', x)
  BY <1>3, <1>4, UnderSelf DEF Reach
<1>5. ASSUME Kept', NEW p \in Paths, NeedsLook(p)' PROVE NeedsLook(p)
  BY <1>1, <1>3, <1>5 DEF NeedsLook, Behind, Differing, FullWalk, world, catalogue
<1> QED BY <1>1, <1>2, <1>3, <1>4, <1>5, HandedOn DEF world, watcher, memory

LEMMA FollowedConfigureRoot ==
    ASSUME SeenInv, ConfigureRoot PROVE Followed' /\ HeldAgain' /\ TopWatched'
<1>0. TypeOK /\ WalkerPlaced /\ ScanOwned /\ RevisionsPast
      /\ Followed /\ HeldAgain /\ TopWatched
  BY DEF SeenInv, ComingInv, WalkInv
<1>1. /\ UNCHANGED <<world, watcher, memory, request, scan, errors,
                     catalogue, walk, ghost>>
      /\ root'.revision = root.revision + 1
  BY <1>0 DEF ConfigureRoot, TypeOK, RootRow
<1>2. /\ Erred' = Erred /\ Ahead' = Ahead /\ Wanted' = Wanted /\ (Kept' <=> Kept)
      /\ Listing' = Listing /\ Walking' = Walking
  BY <1>1 DEF Erred, Leaving, Ahead, Listing, Walking, FullWalk, Wanted, Kept, Doomed
<1>3. \A p \in Paths : /\ NeedsLook(p)' <=> NeedsLook(p)
                       /\ HeldStale(p)' <=> HeldStale(p)
                       /\ WatchedPath(p)' <=> WatchedPath(p)
                       /\ Announced(p)' <=> Announced(p)
  BY <1>1 DEF NeedsLook, Behind, Differing, FullWalk, world, catalogue, HeldStale,
     WatchedPath, watcher, memory, Announced
<1>4. CASE walk.pc # "idle"
  <2>1. WillResume' = WillResume
    BY <1>1, <1>4 DEF WillResume
  <2>2. Scope' = Scope
    BY <1>1, <1>2, <2>1 DEF Scope
  <2>3. Reach' = Reach /\ Cover' = Cover
    BY <1>2, <2>2 DEF Reach, Cover
  <2>4. Followed'
    BY <1>0, <1>1, <1>2, <1>3, <2>3 DEF Followed, Expected
  <2>5. HeldAgain'
    BY <1>0, <1>1, <1>2, <1>3, <2>3 DEF HeldAgain, ExpectedAgain
  <2>6. TopWatched'
    BY <1>0, <1>1, <1>2, <2>2 DEF TopWatched, memory
  <2> QED BY <2>4, <2>5, <2>6
<1>5. CASE walk.pc = "idle"
  <2>1. walk.todo = {} /\ ~Listing /\ ~Walking
    BY <1>0, <1>5 DEF WalkerPlaced, AtEntry, Listing, Walking
  <2>2. ~WillResume'
    <3>1. scan.revision \in Nat /\ root.revision \in Nat
      BY <1>0 DEF TypeOK, RootRow, ScanRow
    <3>2. scan.revision < root'.revision
      BY <1>0, <1>1, <3>1 DEF RevisionsPast
    <3>3. scan'.revision # root'.revision /\ walk'.pc = "idle"
      BY <1>1, <1>5, <3>1, <3>2
    <3> QED BY <3>3 DEF WillResume
  <2>3. CASE request.status = "none"
    <3>1. Scope = {} /\ Scope' = {}
      BY <1>1, <2>3 DEF Scope
    <3>2. \A x \in Reach : Under(Reach', x)
      BY <1>2, <3>1, UnderSelf DEF Reach
    <3> QED BY <1>1, <1>2, <1>3, <1>5, <2>1, <3>1, <3>2, HandedOn
         DEF world, watcher, memory
  <2>4. CASE request.status # "none"
    <3>1. Scope' = Wanted
      BY <1>1, <1>2, <1>5, <2>1, <2>2, <2>4 DEF Scope
    <3>2. ASSUME Kept', NEW x \in Scope PROVE Under(Wanted, x)
      BY <1>2, <2>1, <2>4, <3>2, ScopeUnderWanted DEF Kept
    <3>3. ASSUME Kept', NEW x \in Reach PROVE Under(Reach', x)
      BY <1>2, <3>1, <3>2, <3>3, UnderGrows, UnderSelf DEF Reach
    <3>4. ASSUME Kept', Top \in Scope PROVE Top \in Scope'
      BY <3>1, <3>2, <3>4, AboveTopOnly, DirFacts DEF Under
    <3> QED BY <1>1, <1>2, <1>3, <1>5, <2>1, <3>3, <3>4, HandedOn
         DEF world, watcher, memory
  <2> QED BY <2>3, <2>4
<1> QED BY <1>4, <1>5

LEMMA SeenInit == Init => SeenInv
<1> SUFFICES ASSUME Init PROVE SeenInv
  OBVIOUS
<1>1. WalkInv
  BY WalkInit
<1>2. MarksFormed
  BY MarksInit
<1>3. /\ scan.status = "none" /\ scan.revision = 0 /\ walk.revision = 0
      /\ root.revision = 1 /\ walk.pc = "idle" /\ ~initialized /\ ghost.intact = FALSE
  BY DEF Init, NoScan, NoWalk
<1> QED BY <1>1, <1>2, <1>3
     DEF SeenInv, ComingInv, RevisionsPast, ScanOwned, TopWatched, HeldAgain, Followed, Kept

LEMMA SeenStep == ASSUME SeenInv, [Next]_vars PROVE SeenInv'
<1>0. TypeOK /\ WalkInv /\ WalkerPlaced /\ MarksFormed /\ RevisionsPast /\ ScanOwned
  BY DEF SeenInv, ComingInv, WalkInv
<1>1. WalkInv' /\ MarksFormed' /\ RevisionsPast' /\ ScanOwned'
  BY <1>0, WalkStep, MarksStep, RevisionsStep, OwnedStep
<1>2. Followed' /\ HeldAgain' /\ TopWatched'
  <2>1. CASE UNCHANGED vars
    <3>1. Beside /\ UNCHANGED <<disk, content, armed, events, overflow, directories,
                                initialized, dirty>>
      BY <2>1 DEF vars, Beside, world, watcher, memory, catalogue
    <3> QED BY <3>1, FollowedBeside
  <2>2. CASE Outside
    BY <2>2, FollowedOutside
  <2>3. CASE Runtime
    BY <2>3, FollowedHandleEvent, FollowedEventsLost, FollowedEnqueue, FollowedInterrupt,
       FollowedTakeMarks DEF Runtime
  <2>4. CASE Looks
    BY <2>4, FollowedLooks, HeldLooks, TopLooks
  <2>5. CASE Worker \/ Failures
    BY <2>4, <2>5, FollowedClaim, FollowedBeginScan, FollowedCloseScan, FollowedInterrupt,
       FollowedFinish, FollowedRootFails DEF Worker, Failures, Looks
  <2>6. CASE Users
    BY <2>6, FollowedInterrupt, FollowedVerify, FollowedRetryScanErrors,
       FollowedConfigureRoot DEF Users
  <2>7. CASE Restart
    BY <2>7, FollowedRestart
  <2> QED BY <2>1, <2>2, <2>3, <2>5, <2>6, <2>7 DEF Next
<1> QED BY <1>1, <1>2 DEF SeenInv, ComingInv

LEMMA NothingMissed == ASSUME SeenInv PROVE QuietMeansSeen
<1> SUFFICES ASSUME Attended, NEW p \in Paths, disk[p] # None, p \in Behind PROVE FALSE
  BY DEF QuietMeansSeen
<1>0. TypeOK /\ Tree /\ WalkerPlaced /\ Followed
  BY DEF SeenInv, ComingInv, WalkInv
<1>1. Quiet /\ Watched /\ ghost.intact
  BY DEF Attended
<1>2. walk.pc = "idle" /\ walk.todo = {}
  BY <1>0, <1>1 DEF Quiet, WalkerPlaced, RunsWithRow, AtEntry, Listing
<1>3. Kept
  BY <1>1, <1>2 DEF Kept, Doomed
<1>4. WatchedPath(p)
  BY <1>0, <1>1 DEF Watched, WatchedPath, Tree
<1>5. ~Announced(p)
  BY <1>1 DEF Quiet, Announced
<1>6. Reach = {}
  BY <1>1 DEF Quiet, Reach, Scope, Erred
<1>7. ~Meets(Reach, p)
  BY <1>6, NothingAbove, DirFacts DEF Meets
<1> QED BY <1>0, <1>2, <1>3, <1>4, <1>5, <1>7 DEF Followed, NeedsLook, Expected

\* An attended root has everything that is on disk in the catalogue, whatever
\* the changes, the events, the ticks, the walks and the restarts that led
\* there (Scan, handleWatchEvent, eventsLost, scheduleOnce).
THEOREM QuietRootsAreSeen == Spec => []QuietMeansSeen
<1>1. Init => SeenInv
  BY SeenInit
<1>2. SeenInv /\ [Next]_vars => SeenInv'
  BY SeenStep
<1>3. SeenInv => QuietMeansSeen
  BY NothingMissed
<1> QED BY <1>1, <1>2, <1>3, PTL DEF Spec

-----------------------------------------------------------------------------
(* Nothing stays that is gone.                                             *)

\* The directory d is watched, and what is heard of it is heeded.
Alert(d) == d \in armed /\ d \in directories

\* Directories that are believed watched and are not: their watch went with a
\* former directory of that name.  Their own removal will be heard.
Stuck == {a \in folders : a \in directories /\ a \notin armed /\ Alert(Parent[a])}

\* Something will be heard before d can be watched and quiet without a walk.
Guarded(d) == Alert(d) \/ Above(Stuck, d)

\* A full walk is asked for, and has not begun.
FullAsked == /\ request.status # "none" /\ request.paths = {}
             /\ walk.pc = "ended" => walk.result = "transient"

FullSoon == dirty.full \/ (~FullWalk /\ FullAsked)

\* What disappears at x is heeded, once it is heard.
Heeded(x) == Parent[x] \in directories \/ x \in directories

\* Another full walk is to come.
FullDue == \/ ~initialized \/ overflow \/ FullSoon
           \/ \E i \in 1 .. Len(events) : events[i].gone /\ Heeded(events[i].at)

\* A full walk is at work, or the last one confirmed what it did not see.
Sure == Kept /\ (FullWalk \/ ghost.covered = "confirmed")

\* The catalogue has p, or will: what a full walk has not observed will go.
Known(p) == \/ FullWalk /\ p \in scan.observed
            \/ ~FullWalk /\ location[p] # None
            \/ walk.pc = "ingest" /\ p = walk.held.path

\* It is there and its removal would be heard, or something else will be.
Vouched(p) == \/ disk[p] # None /\ Alert(Parent[p])
              \/ Above(Stuck, Parent[p])

\* A walk of x sees nothing that could go unheard.
Safe(x) == IF x \in Paths THEN Guarded(Parent[x])
           ELSE \/ x = Top \/ x \notin directories
                \/ Guarded(x) \/ Guarded(Parent[x])

\* What has been asked for, or may be asked for again.
Asked == dirty.paths \cup tick.dirty.paths \cup request.paths
         \cup {x \in Places : errors[x] # "none"}

\* Where the walker is.
Base == IF walk.at \in Paths THEN Parent[walk.at] ELSE walk.at

EventsSafe ==
    \A i \in 1 .. Len(events) :
        ~events[i].gone /\ Parent[events[i].at] \in directories
        => Guarded(Parent[events[i].at])

Sound == /\ \A p \in Paths : Known(p) => Vouched(p)
         /\ scan.status = "running" => \A x \in scan.pending : Safe(x)
         /\ walk.pc \in {"open", "entries", "ingest"} => Guarded(Base)
         /\ ~FullWalk => (\A x \in Asked : Safe(x)) /\ EventsSafe

\* No watch is of a directory that does not exist; that of the root is lost
\* only with all the others; a full walk has not confirmed yet.
WatchesHold == /\ armed \subseteq folders \cup {Top}
               /\ Top \in directories => Top \in armed
               /\ FullWalk => ghost.covered = "walking"

\* The root is watched, or nothing of it has been looked at.
TopBegins ==
    Sure /\ initialized /\ Top \notin directories =>
        FullSoon \/ (FullWalk /\ scan.observed = {} /\ scan.pending = {Top})

GoneInv == WatchesHold /\ TopBegins /\ (Sure /\ ~FullDue => Sound)

\* All that the proofs of QuietMeansSynced need.
AllInv == SeenInv /\ GoneInv

\* What is watched stays so, and what joins is really watched.
WatchKept == /\ \A d : Alert(d) => Alert(d)'
             /\ Stuck \subseteq Stuck'
             /\ \A d : d \in directories' => d \in directories \/ Alert(d)'

LEMMA AllParts ==
    ASSUME AllInv
    PROVE  /\ TypeOK /\ Tree /\ WalkerPlaced /\ MarksFormed /\ RevisionsPast
           /\ ScanOwned /\ TopWatched /\ WatchesHold /\ TopBegins /\ GoneInv
           /\ Sure /\ ~FullDue => Sound
BY DEF AllInv, SeenInv, ComingInv, WalkInv, GoneInv

LEMMA GuardKept ==
    ASSUME WatchKept
    PROVE  /\ \A d : Guarded(d) => Guarded(d)'
           /\ \A x : Safe(x) => Safe(x)'
           /\ \A d : Above(Stuck, d) => Above(Stuck, d)'
<1>1. ASSUME NEW d, Above(Stuck, d) PROVE Above(Stuck, d)'
  <2>1. Above(Stuck', d)
    BY <1>1, AboveGrows DEF WatchKept
  <2> QED BY <2>1 DEF Above, Upward
<1>2. \A d : Guarded(d) => Guarded(d)'
  BY <1>1 DEF Guarded, WatchKept
<1>3. ASSUME NEW x, Safe(x) PROVE Safe(x)'
  <2>1. x \notin directories => x \notin directories' \/ Guarded(x)'
    BY DEF WatchKept, Guarded
  <2> QED BY <1>2, <1>3, <2>1 DEF Safe
<1> QED BY <1>1, <1>2, <1>3

LEMMA WatchSame ==
    ASSUME UNCHANGED <<armed, directories, folders>> PROVE WatchKept
BY DEF WatchKept, Alert, Stuck

LEMMA WatchRegister ==
    ASSUME NEW x, Register(x), UNCHANGED folders
    PROVE  /\ WatchKept
           /\ x \notin directories => Alert(x)'
           /\ x \in directories'
           /\ directories \subseteq directories'
BY DEF Register, WatchKept, Alert, Stuck

LEMMA VouchedKept ==
    ASSUME WatchKept, UNCHANGED disk PROVE \A p : Vouched(p) => Vouched(p)'
BY GuardKept DEF Vouched, WatchKept

\* A full walk that is due goes on being so, unless it is the events.
LEMMA DueKept ==
    ASSUME initialized' => initialized, overflow => overflow',
           FullSoon => FullSoon', UNCHANGED events,
           directories \subseteq directories', FullDue
    PROVE  FullDue'
BY DEF FullDue, Heeded

LEMMA GoneInit == Init => GoneInv
<1> SUFFICES ASSUME Init PROVE GoneInv
  OBVIOUS
<1>1. ~ghost.intact
  <2>1. ghost = [unsaid |-> {}, dropped |-> {}, steady |-> {}, covered |-> "none",
                 intact |-> FALSE]
    BY Zenon DEF Init
  <2> QED BY <2>1
<1>2. armed = {} /\ directories = {} /\ scan = NoScan
  BY Zenon DEF Init
<1>3. ~FullWalk
  BY <1>2 DEF FullWalk, NoScan
<1>4. ~Sure
  BY <1>1 DEF Sure, Kept
<1> QED BY <1>2, <1>3, <1>4 DEF GoneInv, WatchesHold, TopBegins

LEMMA NothingGone == ASSUME AllInv PROVE QuietMeansGone
<1> SUFFICES ASSUME Attended, ghost.covered = "confirmed",
                    NEW p \in Paths, disk[p] = None, p \in Behind
             PROVE  FALSE
  BY DEF QuietMeansGone
<1>0. TypeOK /\ WalkerPlaced /\ MarksFormed /\ ScanOwned /\ WatchesHold
      /\ (Sure /\ ~FullDue => Sound)
  BY AllParts
<1>1. Quiet /\ Watched /\ ghost.intact
  BY DEF Attended
<1>2. walk.pc = "idle" /\ ~FullWalk
  BY <1>0, <1>1 DEF Quiet, WalkerPlaced, RunsWithRow, WatchesHold
<1>3. Sure
  BY <1>1, <1>2 DEF Sure, Kept, Doomed
<1>4. ~FullDue
  BY <1>0, <1>1 DEF FullDue, FullSoon, FullAsked, Quiet, MarksFormed, Formed
<1>5. location[p] # None
  BY DEF Behind, Differing
<1>6. Vouched(p)
  BY <1>0, <1>2, <1>3, <1>4, <1>5 DEF Sound, Known
<1>7. Stuck = {}
  BY <1>1 DEF Watched, Stuck
<1> QED BY <1>6, <1>7, NothingAbove, DirFacts DEF Vouched

-----------------------------------------------------------------------------
(* The frame of the steps.                                                 *)

LEMMA GoneGivenUp ==
    ASSUME WatchesHold', ~Sure' PROVE GoneInv'
BY DEF GoneInv, TopBegins

LEMMA BaseKept ==
    ASSUME WatchKept, Guarded(Base), Base' = Base PROVE Guarded(Base)'
<1>1. PICK b : b = Base
  OBVIOUS
<1>2. Guarded(b)'
  BY <1>1, GuardKept
<1>3. b = Base'
  BY <1>1
<1> HIDE DEF Base
<1> QED BY <1>2, <1>3 DEF Guarded, Alert, Above

\* The walk, its rows and its request stay, and what is known with them.
LEMMA SoundBeside ==
    ASSUME AllInv, Beside, ghost'.covered = ghost.covered, Sure, ~FullDue, WatchKept,
           \A p \in Paths : Vouched(p) => Vouched(p)',
           ~FullWalk => /\ \A x \in dirty'.paths \cup tick'.dirty.paths : Safe(x)'
                        /\ EventsSafe'
    PROVE  Sound'
<1>1. Sound /\ (FullWalk' <=> FullWalk)
  BY AllParts, BesideKeeps
<1>2. UNCHANGED <<walk, scan, errors, request, location>>
  BY DEF Beside
<1>3. \A p \in Paths : Known(p)' => Vouched(p)'
  BY <1>1, <1>2 DEF Known, Sound
<1>4. scan'.status = "running" => \A x \in scan'.pending : Safe(x)'
  BY <1>1, <1>2, GuardKept DEF Sound
<1>5. walk'.pc \in {"open", "entries", "ingest"} => Guarded(Base)'
  BY <1>1, <1>2, BaseKept DEF Sound, Base
<1>6. ~FullWalk' => (\A x \in Asked' : Safe(x)') /\ EventsSafe'
  BY <1>1, <1>2, GuardKept DEF Sound, Asked
<1> QED BY <1>3, <1>4, <1>5, <1>6 DEF Sound

LEMMA BesideDue ==
    ASSUME Beside, ghost'.covered = ghost.covered
    PROVE  /\ Sure' <=> Sure
           /\ FullAsked' <=> FullAsked
           /\ (dirty.full => dirty'.full) => (FullSoon => FullSoon')
           /\ FullWalk' <=> FullWalk
<1>1. (Kept' <=> Kept) /\ (FullWalk' <=> FullWalk)
  BY BesideKeeps
<1>2. FullAsked' <=> FullAsked
  BY DEF Beside, FullAsked
<1> QED BY <1>1, <1>2 DEF Sure, FullSoon

LEMMA TopBeside ==
    ASSUME AllInv, Beside, ghost'.covered = ghost.covered, dirty.full => dirty'.full,
           Top \notin directories' => Top \notin directories,
           initialized' => initialized \/ dirty'.full
    PROVE  TopBegins'
<1>1. TopBegins /\ (Sure' <=> Sure) /\ (FullSoon => FullSoon') /\ (FullWalk' <=> FullWalk)
  BY AllParts, BesideDue
<1>2. scan' = scan
  BY DEF Beside
<1> QED BY <1>1, <1>2 DEF TopBegins, FullSoon

LEMMA HoldBeside ==
    ASSUME AllInv, Beside, ghost'.covered = ghost.covered,
           armed' \subseteq folders' \cup {Top},
           Top \in directories' => Top \in armed'
    PROVE  WatchesHold'
<1>1. (FullWalk' <=> FullWalk) /\ (FullWalk => ghost.covered = "walking")
  BY AllParts, BesideDue DEF WatchesHold
<1> QED BY <1>1 DEF WatchesHold

\* A step that hands on the request or its row, and looks at nothing.
LEMMA GoneHandedOn ==
    ASSUME AllInv,
           UNCHANGED <<disk, folders, armed, directories, events, overflow, initialized>>,
           walk'.pc \notin {"open", "entries", "ingest"},
           FullWalk' => ghost'.covered = "walking",
           Sure' => /\ Sure
                    /\ FullWalk' <=> FullWalk
                    /\ FullSoon => FullSoon'
                    /\ FullWalk => scan' = scan
                    /\ ~FullWalk => /\ location' = location
                                    /\ Asked' \subseteq Asked
                                    /\ scan' = scan \/ scan'.status # "running"
                                       \/ scan'.pending \subseteq Asked
    PROVE  GoneInv'
<1>1. WatchesHold'
  BY AllParts DEF WatchesHold
<1>2. TopBegins'
  BY AllParts DEF TopBegins
<1>3. ASSUME Sure', ~FullDue' PROVE Sound'
  <2>1. Sure /\ ~FullDue
    BY <1>3 DEF FullDue, Heeded
  <2>2. Sound
    BY <2>1, AllParts
  <2>3. WatchKept
    BY WatchSame
  <2>4. \A p \in Paths : Known(p)' => Known(p)
    BY <1>3 DEF Known
  <2>5. \A p \in Paths : Known(p)' => Vouched(p)'
    BY <2>2, <2>3, <2>4, VouchedKept DEF Sound
  <2>6. scan'.status = "running" => \A x \in scan'.pending : Safe(x)'
    BY <1>3, <2>2, <2>3, GuardKept DEF Sound
  <2>7. ~FullWalk' => \A x \in Asked' : Safe(x)'
    BY <1>3, <2>2, <2>3, GuardKept DEF Sound
  <2>8. ~FullWalk' => EventsSafe'
    BY <1>3, <2>2, <2>3, GuardKept DEF Sound, EventsSafe
  <2> QED BY <2>5, <2>6, <2>7, <2>8 DEF Sound
<1> QED BY <1>1, <1>2, <1>3 DEF GoneInv

-----------------------------------------------------------------------------
(* The steps beside the walk.                                              *)

\* What is reported, and what a report leaves due.
LEMMA ReportedDue ==
    ASSUME TypeOK, NEW x \in Names, NEW gone \in BOOLEAN, Report(x, gone),
           UNCHANGED <<directories, initialized>>, FullSoon => FullSoon'
    PROVE  /\ FullDue => FullDue'
           /\ gone /\ Heard(x) /\ Heeded(x) => FullDue'
           /\ ~FullDue' => \A i \in 1 .. Len(events') :
                 \/ i \in 1 .. Len(events) /\ events'[i] = events[i]
                 \/ Heard(x) /\ events'[i] = [gone |-> gone, at |-> x]
<1> DEFINE e == [gone |-> gone, at |-> x]
<1>0. events \in Seq(Event) /\ Len(events) \in Nat /\ e \in Event
      /\ e.gone = gone /\ e.at = x
  BY DEF TypeOK, Event
<1>h. \A y : Heeded(y)' <=> Heeded(y)
  BY DEF Heeded
<1>1. CASE Heard(x) /\ Fits
  <2>1. events' = Append(events, e) /\ overflow' = overflow
    BY <1>1 DEF Report, TypeOK
  <2>2. Len(events') = Len(events) + 1 /\ events'[Len(events) + 1] = e
        /\ \A i \in 1 .. Len(events) : events'[i] = events[i]
    BY <1>0, <2>1
  <2> HIDE DEF e
  <2>3. \A i \in 1 .. Len(events') : i = Len(events) + 1 \/ i \in 1 .. Len(events)
    BY <1>0, <2>2
  <2>4. Len(events) + 1 \in 1 .. Len(events')
        /\ \A i \in 1 .. Len(events) : i \in 1 .. Len(events')
    BY <1>0, <2>2
  <2>5. FullDue => FullDue'
    BY <1>h, <2>1, <2>2, <2>4 DEF FullDue
  <2>6. gone /\ Heeded(x) => FullDue'
    BY <1>0, <1>h, <2>2, <2>4 DEF FullDue
  <2> QED BY <1>1, <2>2, <2>3, <2>5, <2>6 DEF e
<1>2. CASE Heard(x) /\ ~Fits
  <2>1. overflow'
    BY <1>2 DEF Report
  <2> QED BY <2>1 DEF FullDue
<1>3. CASE ~Heard(x)
  <2>1. UNCHANGED <<events, overflow>>
    BY <1>3 DEF Report, TypeOK
  <2> QED BY <1>3, <1>h, <2>1 DEF FullDue
<1> QED BY <1>1, <1>2, <1>3

LEMMA EventsSafeIf ==
    ASSUME \A i \in 1 .. Len(events') : ~events'[i].gone =>
              \A d : d = Parent[events'[i].at] /\ d \in directories' => Guarded(d)'
    PROVE  EventsSafe'
<1> SUFFICES ASSUME NEW i \in 1 .. Len(events'), ~events'[i].gone,
                    Parent[events'[i].at] \in directories'
             PROVE  \A d : d = Parent[events'[i].at] => Guarded(d)'
  BY DEF EventsSafe, Guarded, Alert, Above
<1> QED OBVIOUS

LEMMA NotedCovers ==
    ASSUME TypeOK, NEW p \in Paths, ghost' = Noted(p) PROVE ghost'.covered = ghost.covered
<1>1. ghost \in Ghost
  BY GhostKnown
<1> QED BY <1>1 DEF Noted, Ghost

LEMMA GoneOutside == ASSUME AllInv, Outside PROVE GoneInv'
<1>0. TypeOK /\ WatchesHold
  BY AllParts
<1>1. PICK x \in Names, gone \in BOOLEAN :
        /\ Report(x, gone)
        /\ UNCHANGED <<memory, root, request, scan, errors, catalogue, walk>>
        /\ ghost'.intact = ghost.intact /\ ghost'.covered = ghost.covered
        /\ gone => \A p \in Paths : p # x => disk'[p] = disk[p]
        /\ ~gone => \A p \in Paths : disk[p] # None => disk'[p] # None
        /\ folders' = IF gone THEN folders \ {x}
                      ELSE IF x \in Folders THEN folders \cup {x} ELSE folders
        /\ armed' = IF gone THEN armed \ {x} ELSE armed
        /\ x \notin Paths /\ ~gone => x \notin folders
  <2>1. CASE WriteFile
    <3> PICK p \in Paths, f \in Files :
          /\ disk' = [disk EXCEPT ![p] = f]
          /\ Report(p, FALSE)
          /\ UNCHANGED <<folders, armed, memory, root, request, scan, errors,
                         catalogue, walk>>
          /\ ghost' = Noted(p)
      BY <2>1 DEF WriteFile
    <3>1. p \in Names /\ p \notin Folders /\ f # None
      BY ReconciliationAssumption DEF Names
    <3>2. \A q \in Paths : disk[q] # None => disk'[q] # None
      BY <1>0, <3>1 DEF TypeOK
    <3> QED BY <1>0, <3>1, <3>2, NotedCovers, NotedFields
  <2>2. CASE RemoveFile
    <3> PICK p \in Paths :
          /\ disk' = [disk EXCEPT ![p] = None]
          /\ Report(p, TRUE)
          /\ UNCHANGED <<folders, content, armed, memory, root, request, scan,
                         errors, catalogue, walk>>
          /\ ghost' = Noted(p)
      BY <2>2 DEF RemoveFile
    <3>1. p \in Names /\ p \notin folders /\ p \notin armed
      BY <1>0, DirFacts, ReconciliationAssumption DEF Names, TypeOK
    <3>2. \A q \in Paths : q # p => disk'[q] = disk[q]
      BY <1>0 DEF TypeOK
    <3> QED BY <1>0, <3>1, <3>2, NotedCovers, NotedFields
  <2>3. CASE AddFolder
    BY <2>3, ReconciliationAssumption DEF AddFolder, Names
  <2>4. CASE RemoveFolder
    BY <1>0, <2>4, ReconciliationAssumption DEF RemoveFolder, Names, TypeOK
  <2> QED BY <2>1, <2>2, <2>3, <2>4 DEF Outside
<1>2. Beside /\ UNCHANGED <<directories, initialized, dirty, tick>>
  BY <1>1 DEF Beside, catalogue, memory
<1>3. x # Top /\ (x \notin Paths => x \in Folders)
  BY ReconciliationAssumption DEF Names
<1>4. WatchesHold'
  BY <1>0, <1>1, <1>2, <1>3, HoldBeside DEF WatchesHold
<1>5. TopBegins'
  BY <1>2, <1>1, TopBeside
<1>6. ASSUME Sure', ~FullDue' PROVE Sound'
  <2>1. (FullSoon => FullSoon') /\ Sure
    BY <1>1, <1>2, <1>6, BesideDue
  <2>2. ~FullDue /\ ~(gone /\ Heard(x) /\ Heeded(x))
        /\ \A i \in 1 .. Len(events') :
                 \/ i \in 1 .. Len(events) /\ events'[i] = events[i]
                 \/ Heard(x) /\ events'[i] = [gone |-> gone, at |-> x]
    BY <1>0, <1>1, <1>2, <1>6, <2>1, ReportedDue
  <2>3. Sound
    BY <2>1, <2>2, AllParts
  <2>4. \A d : Alert(d) => Alert(d)'
    BY <1>1, <1>2, <2>2 DEF Alert, Heard, Heeded
  <2>5. gone => x \notin Stuck
    BY <2>2 DEF Stuck, Alert, Heard, Heeded
  <2>6. Stuck \subseteq Stuck'
    BY <1>1, <1>2, <2>4, <2>5 DEF Stuck
  <2>7. WatchKept
    BY <1>2, <2>4, <2>6 DEF WatchKept
  <2>8. ASSUME NEW p \in Paths, Vouched(p) PROVE Vouched(p)'
    <3>1. CASE Above(Stuck, Parent[p])
      BY <2>7, <3>1, GuardKept DEF Vouched
    <3>2. CASE disk[p] # None /\ Alert(Parent[p])
      <4>1. ~(gone /\ x = p)
        BY <2>2, <3>2 DEF Alert, Heard, Heeded
      <4>2. disk'[p] # None
        BY <1>1, <3>2, <4>1
      <4> QED BY <2>4, <3>2, <4>2 DEF Vouched
    <3> QED BY <2>8, <3>1, <3>2 DEF Vouched
  <2>9. ~FullWalk => \A y \in dirty'.paths \cup tick'.dirty.paths : Safe(y)'
    BY <1>2, <2>3, <2>7, GuardKept DEF Sound, Asked
  <2>10. ASSUME ~FullWalk PROVE EventsSafe'
    <3> SUFFICES ASSUME NEW i \in 1 .. Len(events'), ~events'[i].gone,
                        NEW d, d = Parent[events'[i].at], d \in directories'
                 PROVE  Guarded(d)'
      BY EventsSafeIf
    <3>1. CASE i \in 1 .. Len(events) /\ events'[i] = events[i]
      BY <1>2, <2>3, <2>7, <2>10, <3>1, GuardKept DEF Sound, EventsSafe
    <3>2. CASE Heard(x) /\ events'[i] = [gone |-> gone, at |-> x]
      <4>1. ~gone /\ events'[i].at = x
        BY <3>2
      <4>2. x \notin armed
        BY <1>0, <1>1, <1>3, <4>1, DirFacts DEF WatchesHold, TypeOK
      <4>3. Alert(d)
        BY <1>2, <3>2, <4>1, <4>2 DEF Alert, Heard
      <4>4. Alert(d)'
        BY <2>4, <4>1, <4>3
      <4> QED BY <4>4 DEF Guarded
    <3> QED BY <2>2, <3>1, <3>2
  <2> QED BY <1>1, <1>2, <2>1, <2>2, <2>7, <2>8, <2>9, <2>10, SoundBeside
<1> QED BY <1>4, <1>5, <1>6 DEF GoneInv

LEMMA GoneHandleEvent == ASSUME AllInv, HandleEvent PROVE GoneInv'
<1> DEFINE e == Head(events)
<1>0. /\ TypeOK /\ MarksFormed /\ WatchesHold
      /\ events # <<>> /\ e \in Event /\ events \in Seq(Event) /\ Len(events) \in Nat
  BY AllParts, HeadTailType DEF HandleEvent, TypeOK
<1>1. /\ IF Heeded(e.at) THEN MarkDirty(ToWalk(e)) ELSE UNCHANGED <<dirty, tick>>
      /\ directories' = IF e.gone THEN directories \ {e.at} ELSE directories
      /\ events' = Tail(events)
      /\ UNCHANGED <<world, armed, overflow, initialized, root,
                   request, scan, errors, catalogue, walk, ghost>>
  BY DEF HandleEvent, Heeded
<1>2. e.at \in Names /\ ToWalk(e) \in Names \cup {Top} /\ e.at # Top /\ events[1] = e
  BY <1>0, ToWalkType, ReconciliationAssumption DEF Event, Names
<1>3. /\ Len(events') = Len(events) - 1 /\ Len(events) >= 1
      /\ \A i \in 2 .. Len(events) : events'[i - 1] = events[i]
      /\ \A i \in 1 .. Len(events') : events'[i] = events[i + 1]
  BY <1>0, <1>1
<1> HIDE DEF e
<1>4. Beside /\ UNCHANGED <<disk, folders, armed, initialized, overflow>>
      /\ ghost'.covered = ghost.covered
  BY <1>1 DEF Beside, catalogue, world
<1>5. dirty.full => dirty'.full
  BY <1>0, <1>1, <1>2, MarkAnnounces
<1>6. WatchesHold'
  BY <1>0, <1>1, <1>2, <1>4, HoldBeside DEF WatchesHold
<1>7. TopBegins'
  BY <1>1, <1>2, <1>4, <1>5, TopBeside
<1>8. ASSUME Sure', ~FullDue' PROVE Sound'
  <2>1. (FullSoon => FullSoon') /\ Sure /\ ~dirty'.full
    BY <1>4, <1>5, <1>8, BesideDue DEF FullDue, FullSoon
  <2>2. e.gone => ~Heeded(e.at)
    <3>1. e.gone /\ Heeded(e.at) => MarkDirty(Top)
      BY <1>1 DEF ToWalk
    <3> QED BY <1>0, <2>1, <3>1, MarkAnnounces
  <2>3. directories' = directories
    BY <1>1, <2>2 DEF Heeded
  <2>4. WatchKept
    BY <1>4, <2>3, WatchSame
  <2>5. ~FullDue
    <3>1. SUFFICES ASSUME NEW i \in 1 .. Len(events), events[i].gone, Heeded(events[i].at)
                   PROVE  FALSE
      BY <1>4, <1>8, <2>1 DEF FullDue
    <3>2. i # 1
      BY <1>2, <2>2, <3>1
    <3>3. i \in 2 .. Len(events) /\ i - 1 \in 1 .. Len(events')
      BY <1>0, <1>3, <3>2
    <3>4. events'[i - 1] = events[i]
      BY <1>3, <3>3
    <3> QED BY <1>8, <2>3, <3>1, <3>3, <3>4 DEF FullDue, Heeded
  <2>6. Sound
    BY <2>1, <2>5, AllParts
  <2>7. \A p \in Paths : Vouched(p) => Vouched(p)'
    BY <1>4, <2>4, VouchedKept
  <2>8. ASSUME ~FullWalk, NEW x \in dirty'.paths \cup tick'.dirty.paths PROVE Safe(x)'
    <3>1. tick'.dirty = tick.dirty
      BY <1>0, <1>1 DEF MarkDirty, TypeOK, Tick
    <3>2. CASE x \in Asked
      BY <2>4, <2>6, <2>8, <3>2, GuardKept DEF Sound
    <3>3. CASE x \notin Asked
      <4>1. Heeded(e.at) /\ x = ToWalk(e)
        BY <1>0, <1>1, <2>1, <2>8, <3>1, <3>3 DEF Asked, MarkDirty, Marked
      <4>2. ~e.gone
        BY <2>2, <4>1
      <4>3. Parent[e.at] \in directories => Guarded(Parent[e.at])
        BY <1>2, <1>3, <2>6, <2>8, <4>2 DEF Sound, EventsSafe
      <4>4. CASE e.at \in Folders
        <5>1. x = Parent[e.at] /\ x \notin Paths
          BY <4>1, <4>2, <4>4, DirFacts, ConstantTypes DEF ToWalk, Names
        <5>2. Safe(x)
          BY <4>3, <5>1 DEF Safe
        <5> QED BY <2>4, <5>2, GuardKept
      <4>5. CASE e.at \notin Folders
        <5>1. x = e.at /\ x \in Paths /\ x \notin directories
          BY <1>0, <1>2, <4>1, <4>2, <4>5, DirFacts DEF ToWalk, Names, TypeOK
        <5>2. Safe(x)
          BY <4>1, <4>3, <5>1 DEF Safe, Heeded
        <5> QED BY <2>4, <5>2, GuardKept
      <4> QED BY <4>4, <4>5
    <3> QED BY <3>2, <3>3
  <2>9. ASSUME ~FullWalk PROVE EventsSafe'
    <3> SUFFICES ASSUME NEW i \in 1 .. Len(events'), ~events'[i].gone,
                        NEW d, d = Parent[events'[i].at], d \in directories'
                 PROVE  Guarded(d)'
      BY EventsSafeIf
    <3>1. i + 1 \in 1 .. Len(events) /\ events'[i] = events[i + 1]
      BY <1>0, <1>3
    <3>2. Guarded(d)
      BY <2>3, <2>6, <2>9, <3>1 DEF Sound, EventsSafe
    <3> QED BY <2>4, <3>2, GuardKept
  <2> QED BY <1>4, <2>1, <2>4, <2>5, <2>7, <2>8, <2>9, SoundBeside
<1> QED BY <1>6, <1>7, <1>8 DEF GoneInv

\* Before a full walk has looked at the root, it stands before it.
LEMMA TopAhead ==
    ASSUME AllInv, Kept, initialized, Top \notin directories, ~dirty.full,
           FullWalk, scan.pending = {Top}
    PROVE  walk.pc \notin {"open", "entries", "ingest"}
<1> SUFFICES ASSUME walk.pc \in {"open", "entries", "ingest"} PROVE FALSE
  OBVIOUS
<1>0. TypeOK /\ WalkerPlaced /\ TopWatched /\ walk \in Walk
  BY AllParts DEF TypeOK
<1>1. Top \in Scope /\ ~(walk.pc = "open" /\ walk.at = Top)
  BY <1>0 DEF TopWatched
<1>2. Top \in Ahead /\ walk.at = Top
  BY <1>0, <1>1, WalkingScope DEF Walking, WalkerPlaced, AtEntry
<1>3. Listing
  BY <1>1, <1>2 DEF Listing
<1>4. Top \notin walk.found
  BY <1>0, DirFacts DEF Walk
<1> QED BY <1>2, <1>3, <1>4 DEF Ahead

LEMMA GoneEventsLost == ASSUME AllInv, EventsLost PROVE GoneInv'
<1>0. TypeOK /\ MarksFormed /\ WalkerPlaced /\ WatchesHold /\ TopBegins
  BY AllParts
<1>1. /\ IF directories # {} THEN MarkDirty(Top) ELSE UNCHANGED <<dirty, tick>>
      /\ UNCHANGED <<world, armed, events, directories, initialized,
                   request, scan, errors, catalogue, walk>>
  BY DEF EventsLost
<1>2. Beside /\ ghost'.covered = ghost.covered
      /\ UNCHANGED <<disk, folders, armed, directories, initialized>>
  <2>1. root'.revision = root.revision
    BY <1>0 DEF EventsLost, TypeOK, RootRow
  <2>2. ghost'.intact = ghost.intact /\ ghost'.covered = ghost.covered
    BY <1>0, GhostKnown DEF EventsLost, Ghost
  <2> QED BY <1>1, <2>1, <2>2 DEF Beside, catalogue, world
<1>3. (dirty.full => dirty'.full) /\ (directories # {} => dirty'.full)
  BY <1>0, <1>1, MarkAnnounces
<1>4. WatchesHold'
  BY <1>0, <1>2, HoldBeside DEF WatchesHold
<1>5. TopBegins'
  BY <1>2, <1>3, TopBeside
<1>6. ASSUME Sure', ~FullDue' PROVE Sound'
  <2>1. (FullSoon => FullSoon') /\ Sure /\ ~dirty'.full /\ initialized /\ ~FullSoon
    BY <1>2, <1>3, <1>6, BesideDue DEF FullDue, FullSoon
  <2>2. directories = {} /\ ~dirty.full
    BY <1>3, <2>1
  <2>3. FullWalk /\ scan.observed = {} /\ scan.pending = {Top}
    BY <1>0, <2>1, <2>2 DEF TopBegins
  <2>4. walk.pc \notin {"open", "entries", "ingest"}
    BY <2>1, <2>2, <2>3, TopAhead DEF Sure
  <2>5. FullWalk' /\ scan' = scan /\ walk' = walk
    BY <1>2, <2>3, BesideDue DEF Beside
  <2>6. Safe(Top)'
    BY DirFacts DEF Safe
  <2> QED BY <2>3, <2>4, <2>5, <2>6 DEF Sound, Known
<1> QED BY <1>4, <1>5, <1>6 DEF GoneInv

LEMMA GoneTakeMarks ==
    ASSUME AllInv, NEW due \in BOOLEAN, NEW fails \in BOOLEAN, TakeMarks(due, fails)
    PROVE  GoneInv'
<1>0. TypeOK /\ MarksFormed /\ WatchesHold /\ TopBegins
  BY AllParts
<1>1. /\ dirty' = IF initialized THEN dirty ELSE Marked(dirty, Top)
      /\ initialized' = TRUE
      /\ IF fails THEN Unregistered(Top) ELSE Register(Top)
      /\ root' = Moded(root, degraded')
      /\ tick'.dirty \in {tick.dirty, dirty'}
      /\ UNCHANGED <<world, events, overflow, request, scan, errors, catalogue,
                   walk, ghost>>
  BY DEF TakeMarks
<1>2. Beside /\ ghost'.covered = ghost.covered
      /\ UNCHANGED <<disk, folders, events, overflow>>
  <2>1. root'.revision = root.revision
    BY <1>0, <1>1 DEF Moded, TypeOK, RootRow
  <2> QED BY <1>1, <2>1 DEF Beside, catalogue, world
<1>3. /\ ~initialized => dirty'.full
      /\ initialized => dirty' = dirty
  <2>1. dirty \in Mark /\ Formed(dirty)
    BY <1>0 DEF TypeOK, MarksFormed
  <2> QED BY <1>1, <2>1, MarkedFormed
<1>4. /\ WatchKept /\ directories \subseteq directories'
      /\ armed' \subseteq armed \cup {Top}
      /\ Top \in directories' => Top \in armed'
  <2>1. CASE fails
    BY <1>0, <1>1, <1>2, <2>1, WatchSame DEF Unregistered, WatchesHold
  <2>2. CASE ~fails
    BY <1>0, <1>1, <1>2, <2>2, WatchRegister DEF Register, WatchesHold
  <2> QED BY <2>1, <2>2
<1>5. WatchesHold'
  BY <1>0, <1>2, <1>4, HoldBeside DEF WatchesHold
<1>6. TopBegins'
  BY <1>0, <1>2, <1>3, <1>4, TopBeside DEF MarksFormed
<1>7. ASSUME Sure', ~FullDue' PROVE Sound'
  <2>1. initialized /\ dirty' = dirty
    BY <1>3, <1>7 DEF FullDue, FullSoon
  <2>2. Sure /\ ~FullDue
    <3>1. Sure /\ (FullSoon => FullSoon')
      BY <1>2, <1>7, <2>1, BesideDue
    <3> QED BY <1>2, <1>4, <1>7, <2>1, <3>1, DueKept
  <2>3. Sound
    BY <2>2, AllParts
  <2>4. \A p \in Paths : Vouched(p) => Vouched(p)'
    BY <1>2, <1>4, VouchedKept
  <2>5. ~FullWalk => \A x \in dirty'.paths \cup tick'.dirty.paths : Safe(x)'
    BY <1>1, <1>4, <2>1, <2>3, GuardKept DEF Sound, Asked
  <2>6. ASSUME ~FullWalk PROVE EventsSafe'
    <3> SUFFICES ASSUME NEW i \in 1 .. Len(events'), ~events'[i].gone,
                        NEW d, d = Parent[events'[i].at], d \in directories'
                 PROVE  Guarded(d)'
      BY EventsSafeIf
    <3>1. CASE d \in directories
      <4>1. Guarded(d)
        BY <1>2, <2>3, <2>6, <3>1 DEF Sound, EventsSafe
      <4> QED BY <1>4, <4>1, GuardKept
    <3>2. CASE d \notin directories
      BY <1>4, <3>2 DEF WatchKept, Guarded
    <3> QED BY <3>1, <3>2
  <2> QED BY <1>2, <1>4, <2>2, <2>4, <2>5, <2>6, SoundBeside
<1> QED BY <1>5, <1>6, <1>7 DEF GoneInv

-----------------------------------------------------------------------------
(* The request and its row.                                                *)

\* Without a request there is no full walk that counts.
LEMMA NothingWalks ==
    ASSUME AllInv, request.status = "none", Sure
    PROVE  walk.pc = "idle" /\ scan.status # "running" /\ ~FullWalk
<1>1. WalkerPlaced /\ ScanOwned /\ ghost.intact
  BY AllParts DEF Sure, Kept
<1> QED BY <1>1 DEF WalkerPlaced, RunsWithRow, ScanOwned, FullWalk

LEMMA GoneEnqueue == ASSUME AllInv, Enqueue PROVE GoneInv'
<1>0. TypeOK /\ MarksFormed /\ WatchesHold
  BY AllParts
<1>1. /\ tick.pc = "enqueue" /\ tick' = Resting
      /\ IF request.status # "none"
         THEN UNCHANGED <<request, dirty>>
         ELSE /\ request' = [NoRequest EXCEPT !.status = "queued",
                   !.paths = IF tick.due THEN {} ELSE tick.dirty.paths]
              /\ dirty' = IF CopyHolds THEN Clean ELSE dirty
      /\ UNCHANGED <<world, watcher, directories, initialized, root, scan,
                     errors, catalogue, walk, ghost>>
  BY DEF Enqueue
<1>2. tick'.dirty.paths = {}
  BY <1>1 DEF Resting, Clean
<1>3. CASE request.status # "none"
  <2>1. Beside /\ ghost'.covered = ghost.covered /\ dirty' = dirty
        /\ UNCHANGED <<disk, folders, armed, directories, events, overflow, initialized>>
    BY <1>1, <1>3 DEF Beside, catalogue, world, watcher
  <2>2. WatchesHold' /\ TopBegins'
    BY <1>0, <2>1, HoldBeside, TopBeside DEF WatchesHold
  <2>3. ASSUME Sure', ~FullDue' PROVE Sound'
    <3>1. Sure /\ ~FullDue /\ WatchKept
      BY <2>1, <2>3, BesideDue, WatchSame DEF FullDue, Heeded
    <3>2. Sound
      BY <3>1, AllParts
    <3>3. ~FullWalk => \A x \in dirty'.paths \cup tick'.dirty.paths : Safe(x)'
      BY <1>2, <2>1, <3>1, <3>2, GuardKept DEF Sound, Asked
    <3>4. ~FullWalk => EventsSafe'
      BY <2>1, <3>1, <3>2, GuardKept DEF Sound, EventsSafe
    <3> QED BY <2>1, <3>1, <3>3, <3>4, VouchedKept, SoundBeside
  <2> QED BY <2>2, <2>3 DEF GoneInv
<1>4. CASE request.status = "none"
  <2>1. /\ request'.status = "queued"
        /\ request'.paths = IF tick.due THEN {} ELSE tick.dirty.paths
    BY <1>1, <1>4 DEF NoRequest
  <2>2. /\ UNCHANGED <<disk, folders, armed, directories, events, overflow, initialized,
                       scan, location, errors, walk, ghost>>
        /\ (FullWalk' <=> FullWalk)
    BY <1>1 DEF world, watcher, catalogue, FullWalk
  <2>3. dirty'.paths \subseteq dirty.paths
    BY <1>1, <1>4 DEF Clean
  <2>4. ASSUME Sure' PROVE Sure /\ ~FullWalk /\ walk.pc = "idle"
    <3>1. walk.pc = "idle"
      BY <1>0, <1>4, AllParts DEF WalkerPlaced, RunsWithRow
    <3>2. Sure
      BY <2>2, <2>4, <3>1 DEF Sure, Kept, Doomed
    <3> QED BY <1>4, <3>1, <3>2, NothingWalks
  <2>5. ASSUME Sure', FullSoon PROVE FullSoon'
    <3>1. dirty.full /\ ~FullWalk' /\ walk'.pc = "idle"
      BY <1>4, <2>2, <2>4, <2>5 DEF FullSoon, FullAsked
    <3>2. CASE CopyHolds
      <4>1. tick.dirty.paths = {}
        BY <1>0, <1>1, <3>1, <3>2 DEF MarksFormed, Formed, CopyHolds
      <4> QED BY <2>1, <3>1, <4>1 DEF FullSoon, FullAsked
    <3>3. CASE ~CopyHolds
      BY <1>1, <1>4, <3>1, <3>3 DEF FullSoon
    <3> QED BY <3>2, <3>3
  <2>6. Asked' \subseteq Asked
    BY <1>2, <2>1, <2>2, <2>3 DEF Asked
  <2>7. walk'.pc \notin {"open", "entries", "ingest"}
    BY <1>0, <1>4, <2>2, AllParts DEF WalkerPlaced, RunsWithRow
  <2> QED BY <1>0, <2>2, <2>4, <2>5, <2>6, <2>7, GoneHandedOn DEF WatchesHold
<1> QED BY <1>3, <1>4

LEMMA GoneClaim == ASSUME AllInv, Claim PROVE GoneInv'
<1>0. TypeOK /\ WatchesHold
  BY AllParts
<1>1. /\ walk.pc = "idle" /\ request.status \in {"queued", "retry_wait"}
      /\ request' = [request EXCEPT !.status = "running", !.attempts = @ + 1]
      /\ walk' = [NoWalk EXCEPT !.revision = root.revision,
                    !.pc = IF Verifiable THEN "begin" ELSE "ended",
                    !.result = IF Verifiable THEN "" ELSE "cancelled"]
      /\ UNCHANGED <<world, watcher, directories, initialized, dirty, tick, root,
                   scan, errors, catalogue, used, ghost>>
  BY DEF Claim
<1>2. /\ walk'.pc = IF Verifiable THEN "begin" ELSE "ended"
      /\ walk'.result = IF Verifiable THEN "" ELSE "cancelled"
      /\ request'.status = "running" /\ request'.paths = request.paths
  BY <1>0, <1>1 DEF NoWalk, TypeOK, Request
<1>3. UNCHANGED <<disk, folders, armed, directories, events, overflow, initialized,
                  scan, location, errors, ghost, dirty, tick>> /\ (FullWalk' <=> FullWalk)
  BY <1>1 DEF world, watcher, catalogue, FullWalk
<1>4. walk'.pc \notin {"open", "entries", "ingest"} /\ (FullWalk' => ghost'.covered = "walking")
  BY <1>0, <1>2, <1>3 DEF WatchesHold
<1>5. ASSUME Sure' PROVE Sure /\ (FullSoon => FullSoon')
  <2>1. walk'.pc = "begin"
    BY <1>2, <1>5 DEF Sure, Kept, Doomed
  <2>2. Sure
    BY <1>1, <1>3, <1>5 DEF Sure, Kept, Doomed
  <2>3. FullSoon => FullSoon'
    BY <1>1, <1>2, <1>3, <2>1 DEF FullSoon, FullAsked
  <2> QED BY <2>2, <2>3
<1>6. Asked' = Asked
  BY <1>2, <1>3 DEF Asked
<1> QED BY <1>3, <1>4, <1>5, <1>6, GoneHandedOn

LEMMA GoneBeginScan == ASSUME AllInv, BeginScan PROVE GoneInv'
<1>0. TypeOK /\ WatchesHold /\ TopBegins /\ ghost \in Ghost /\ WalkerPlaced
  BY AllParts, GhostKnown
<1>1. /\ walk.pc = "begin" /\ walk' = [walk EXCEPT !.pc = "next"]
      /\ UNCHANGED <<world, watcher, memory, root, request, catalogue, used>>
      /\ IF Resumable
         THEN UNCHANGED <<scan, errors, ghost>>
         ELSE /\ scan' = [NoScan EXCEPT !.status = "running",
                   !.partial = (request.paths # {}),
                   !.revision = walk.revision, !.loss = root.loss,
                   !.pending = IF request.paths = {} THEN {Top}
                               ELSE request.paths]
              /\ errors' = [x \in Places |->
                   IF errors[x] = "new" THEN "old" ELSE errors[x]]
              /\ ghost' = [ghost EXCEPT
                   !.steady = {p \in Paths : disk[p] # None},
                   !.covered = IF request.paths = {} THEN "walking" ELSE @,
                   !.intact = (@ \/ request.paths = {})]
  BY DEF BeginScan
<1>2. walk'.pc = "next"
  BY <1>0, <1>1 DEF TypeOK, Walk
<1>3. UNCHANGED <<disk, folders, armed, directories, events, overflow, initialized,
                  location, request, dirty, tick>>
  BY <1>1 DEF world, watcher, memory, catalogue
<1>4. request.status = "running"
  BY <1>0, <1>1 DEF WalkerPlaced, RunsWithRow
<1>5. CASE Resumable
  <2>1. UNCHANGED <<scan, errors, ghost>> /\ (FullWalk' <=> FullWalk)
    BY <1>1, <1>5 DEF FullWalk
  <2>2. (Sure' => Sure) /\ (FullSoon => FullSoon') /\ Asked' = Asked
    BY <1>1, <1>2, <1>3, <2>1 DEF Sure, Kept, Doomed, FullSoon, FullAsked, Asked
  <2> QED BY <1>0, <1>2, <1>3, <2>1, <2>2, GoneHandedOn DEF WatchesHold
<1>6. CASE ~Resumable /\ request.paths = {}
  <2>1. scan'.status = "running" /\ ~scan'.partial /\ scan'.pending = {Top}
        /\ scan'.observed = {}
    BY <1>1, <1>6 DEF NoScan
  <2>2. FullWalk' /\ ghost'.covered = "walking"
    BY <1>0, <1>1, <1>6, <2>1 DEF FullWalk, Ghost
  <2>3. Safe(Top)'
    BY DirFacts DEF Safe
  <2>4. Sound'
    BY <1>2, <2>1, <2>2, <2>3 DEF Sound, Known
  <2>5. WatchesHold' /\ TopBegins'
    BY <1>0, <1>3, <2>1, <2>2 DEF WatchesHold, TopBegins
  <2> QED BY <2>4, <2>5 DEF GoneInv
<1>7. CASE ~Resumable /\ request.paths # {}
  <2>1. scan'.status = "running" /\ scan'.partial /\ scan'.pending = request.paths
    BY <1>1, <1>7 DEF NoScan
  <2>2. ~FullWalk' /\ ghost'.covered = ghost.covered /\ ghost'.intact = ghost.intact
    BY <1>0, <1>1, <1>7, <2>1 DEF FullWalk, Ghost
  <2>3. Sure' => Sure /\ ~FullWalk
    BY <1>0, <1>1, <1>2, <2>2 DEF Sure, Kept, Doomed, WatchesHold
  <2>4. FullSoon => FullSoon'
    BY <1>3, <1>7 DEF FullSoon, FullAsked
  <2>5. Asked' \subseteq Asked
    BY <1>0, <1>1, <1>3, <1>7 DEF Asked, TypeOK
  <2>6. scan'.pending \subseteq Asked
    BY <2>1 DEF Asked
  <2> QED BY <1>2, <1>3, <2>2, <2>3, <2>4, <2>5, <2>6, GoneHandedOn
<1> QED BY <1>5, <1>6, <1>7

LEMMA GoneCloseScan == ASSUME AllInv, CloseScan PROVE GoneInv'
<1>0. /\ TypeOK /\ WatchesHold /\ TopBegins /\ ScanOwned /\ WalkerPlaced
      /\ ghost \in Ghost /\ MarksFormed
  BY AllParts, GhostKnown
<1>1. /\ walk.pc = "next" /\ scan.pending = {}
      /\ UNCHANGED <<world, watcher, memory, request, used>>
  BY DEF CloseScan
<1>2. UNCHANGED <<disk, folders, armed, directories, events, overflow, initialized,
                  request, dirty, tick>>
  BY <1>1 DEF world, watcher, memory
<1>3. request.status = "running" /\ scan.status = "running"
  BY <1>0, <1>1 DEF WalkerPlaced, RunsWithRow, Walking
<1>4. CASE ~Current
  <2>1. walk' = [NoWalk EXCEPT !.pc = "ended", !.result = "cancelled"]
        /\ UNCHANGED <<scan, ghost>>
    BY <1>4 DEF CloseScan
  <2>2. ~Kept'
    BY <2>1, NoWalkFields DEF Kept, Doomed
  <2>3. WatchesHold'
    BY <1>0, <1>2, <2>1 DEF WatchesHold, FullWalk
  <2> QED BY <2>2, <2>3, GoneGivenUp DEF Sure
<1>5. CASE Current /\ (scan.partial \/ Remaining # {})
  <2>1. CloseUnconfirmed /\ errors' = Cleared
    BY <1>5 DEF CloseScan
  <2>2. scan'.status = "complete" /\ ~FullWalk'
    BY <2>1, ClosedStatus DEF CloseUnconfirmed, FullWalk
  <2>3. /\ ghost'.covered = IF scan.partial THEN ghost.covered ELSE "incomplete"
        /\ ghost'.intact = ghost.intact
    BY <1>0, <2>1 DEF CloseUnconfirmed, Ghost
  <2>4. walk'.pc = "ended" /\ walk'.result \in {"partial", "ok"}
    BY <2>1, NoWalkFields DEF CloseUnconfirmed
  <2>5. CASE ~scan.partial
    <3>1. ~Sure'
      BY <2>2, <2>3, <2>5 DEF Sure
    <3>2. WatchesHold'
      BY <1>0, <1>2, <2>2 DEF WatchesHold
    <3> QED BY <3>1, <3>2, GoneGivenUp
  <2>6. CASE scan.partial
    <3>1. ~FullWalk
      BY <2>6 DEF FullWalk
    <3>2. ASSUME Sure' PROVE Sure /\ (FullSoon => FullSoon')
      <4>1. Sure /\ ghost.intact
        BY <1>1, <2>2, <2>3, <2>6, <3>2 DEF Sure, Kept, Doomed
      <4>2. request.paths # {}
        BY <1>0, <1>3, <2>6, <4>1 DEF ScanOwned
      <4> QED BY <1>2, <4>1, <4>2 DEF FullSoon, FullAsked
    <3>3. location' = location
      BY <2>1 DEF CloseUnconfirmed, catalogue
    <3>4. \A x \in Places : errors'[x] # "none" => errors[x] # "none"
      BY <2>1 DEF Cleared
    <3>5. Asked' \subseteq Asked
      BY <1>2, <3>4 DEF Asked
    <3> QED BY <1>2, <2>2, <2>4, <3>1, <3>2, <3>3, <3>5, GoneHandedOn
  <2> QED BY <2>5, <2>6
<1>6. CASE Current /\ ~(scan.partial \/ Remaining # {})
  <2>1. CloseConfirmed /\ errors' = Cleared
    BY <1>6 DEF CloseScan
  <2>2. FullWalk /\ location' = [p \in Paths |->
                   IF p \in scan.observed THEN location[p] ELSE None]
    BY <1>0, <1>6, <2>1, ConfirmedObserved
  <2>3. scan'.status = "complete" /\ ~FullWalk'
    BY <2>1, ClosedStatus DEF CloseConfirmed, FullWalk
  <2>4. walk'.pc = "ended"
    BY <2>1 DEF CloseConfirmed, NoWalk
  <2>5. /\ ghost'.covered = "confirmed" => Astray = {}
        /\ ghost'.intact = ghost.intact
    <3>1. CaughtUp \in Ghost /\ CaughtUp.intact = ghost.intact
      BY <1>0 DEF CaughtUp, Ghost
    <3> HIDE DEF CaughtUp
    <3>2. ghost' = [CaughtUp EXCEPT
               !.covered = IF Astray = {} THEN "confirmed" ELSE "incomplete",
               !.steady = {}]
      BY <2>1 DEF CloseConfirmed
    <3> HIDE DEF Astray
    <3> QED BY <3>1, <3>2 DEF Ghost
  <2>6. WatchesHold'
    BY <1>0, <1>2, <2>3 DEF WatchesHold
  <2>7. Sure' => Sure /\ Astray = {}
    BY <1>1, <2>2, <2>3, <2>5 DEF Sure, Kept, Doomed
  <2>8. FullSoon => FullSoon'
    BY <1>2, <2>2 DEF FullSoon
  <2>9. TopBegins'
    BY <1>0, <1>1, <1>2, <2>7, <2>8 DEF TopBegins
  <2>10. ASSUME Sure', ~FullDue' PROVE Sound'
    <3>1. Sure /\ ~FullDue /\ Astray = {} /\ WatchKept
      BY <1>2, <2>7, <2>8, <2>10, WatchSame DEF FullDue, Heeded
    <3>2. Sound
      BY <3>1, AllParts
    <3>3. \A p \in Paths : Known(p)' => Vouched(p)'
      <4>1. \A p \in Paths : Known(p)' => Known(p)
        BY <2>2, <2>3, <2>4 DEF Known
      <4> QED BY <1>2, <3>1, <3>2, <4>1, VouchedKept DEF Sound
    <3>4. \A x \in dirty.paths \cup tick.dirty.paths
                    \cup {ToWalk(events[i]) : i \in DOMAIN events} :
              Alert(IF x \in Paths THEN Parent[x] ELSE x)
      BY <3>1 DEF Astray, Alert
    <3>5. ASSUME NEW x \in Asked' PROVE Safe(x)'
      <4>1. request'.paths = {}
        BY <1>0, <1>2, <1>3, <1>6, <3>1 DEF ScanOwned, Sure, Kept
      <4>2. \A y \in Places : errors'[y] = "none"
        BY <1>6, <2>1 DEF Cleared
      <4>3. x \in dirty.paths \cup tick.dirty.paths
        BY <1>2, <3>5, <4>1, <4>2 DEF Asked
      <4>4. Safe(x)
        BY <3>4, <4>3 DEF Safe, Guarded
      <4> QED BY <3>1, <4>4, GuardKept
    <3>6. EventsSafe'
      <4> SUFFICES ASSUME NEW i \in 1 .. Len(events'), ~events'[i].gone,
                          NEW d, d = Parent[events'[i].at], d \in directories'
                   PROVE  Guarded(d)'
        BY EventsSafeIf
      <4>1. events \in Seq(Event) /\ i \in DOMAIN events /\ events'[i] = events[i]
        BY <1>0, <1>2 DEF TypeOK
      <4>2. events[i] \in Event /\ ~events[i].gone
        BY <4>1
      <4>3. ToWalk(events[i]) \in Paths => d = Parent[ToWalk(events[i])]
        BY <4>1, <4>2, DirFacts, ConstantTypes, ReconciliationAssumption
        DEF ToWalk, Event, Names
      <4>4. ToWalk(events[i]) \notin Paths => d = ToWalk(events[i])
        BY <4>1, <4>2, DirFacts DEF ToWalk, Event, Names
      <4>5. Alert(d)
        BY <3>4, <4>1, <4>3, <4>4
      <4> QED BY <3>1, <4>5, GuardKept DEF Guarded
    <3> QED BY <2>3, <2>4, <3>3, <3>5, <3>6 DEF Sound
  <2> QED BY <2>6, <2>9, <2>10 DEF GoneInv
<1> QED BY <1>4, <1>5, <1>6

LEMMA GoneRootFails == ASSUME AllInv, RootFails PROVE GoneInv'
<1>0. TypeOK /\ WatchesHold /\ WalkerPlaced /\ MarksFormed
  BY AllParts
<1>1. /\ walk.pc \in {"begin", "next", "open"}
      /\ scan' = IF scan.status = "running" THEN Closed("failed") ELSE scan
      /\ walk' = [NoWalk EXCEPT !.pc = "ended", !.result = "transient"]
      /\ UNCHANGED <<world, watcher, memory, request, errors, catalogue, ghost>>
  BY DEF RootFails
<1>2. UNCHANGED <<disk, folders, armed, directories, events, overflow, initialized,
                  request, dirty, tick, errors, location>>
  BY <1>1 DEF world, watcher, memory, catalogue
<1>3. walk'.pc = "ended" /\ walk'.result = "transient"
  BY <1>1, NoWalkFields
<1>4. scan'.status # "running" /\ ~FullWalk'
  BY <1>1, ClosedStatus DEF FullWalk
<1>5. ASSUME Sure' PROVE Sure /\ ~FullWalk
  BY <1>0, <1>1, <1>4, <1>5 DEF Sure, Kept, Doomed, WatchesHold
<1>6. FullSoon => FullSoon'
  BY <1>2, <1>3, <1>4 DEF FullSoon, FullAsked
<1>7. Asked' = Asked
  BY <1>2 DEF Asked
<1> QED BY <1>2, <1>3, <1>4, <1>5, <1>6, <1>7, GoneHandedOn

LEMMA GoneFinish == ASSUME AllInv, Finish PROVE GoneInv'
<1>0. TypeOK /\ WatchesHold /\ ghost \in Ghost
  BY AllParts, GhostKnown
<1>1. /\ walk.pc = "ended" /\ walk' = NoWalk
      /\ UNCHANGED <<world, watcher, memory, scan, errors, catalogue>>
      /\ ghost'.intact =>
            /\ ghost.intact
            /\ \/ /\ walk.result = "transient" /\ request.attempts < MaxAttempts
                  /\ ~request.cancel
                  /\ request'.status = "retry_wait" /\ request'.paths = request.paths
               \/ /\ walk.result \in {"ok", "partial"} /\ ~request.cancel
                  /\ request'.status = "none"
  BY <1>0, FinishDoes
<1>2. UNCHANGED <<disk, folders, armed, directories, events, overflow, initialized,
                  dirty, tick, errors, scan, location>> /\ (FullWalk' <=> FullWalk)
  BY <1>1 DEF world, watcher, memory, catalogue, FullWalk
<1>3. ghost'.covered = ghost.covered
  BY <1>0 DEF Finish, Ghost
<1>4. request'.paths \subseteq request.paths
  BY <1>0 DEF Finish, NoRequest, TypeOK, Request
<1>5. walk'.pc = "idle"
  BY <1>1, NoWalkFields
<1>6. ASSUME Sure' PROVE Sure /\ (FullSoon => FullSoon')
  <2>1. ghost'.intact
    BY <1>6 DEF Sure, Kept
  <2>2. ~Doomed /\ ghost.intact
    BY <1>0, <1>1, <2>1, ConstantTypes DEF Doomed, TypeOK, Request
  <2>3. Sure
    BY <1>2, <1>3, <1>6, <2>2 DEF Sure, Kept
  <2>4. FullSoon => FullSoon'
    BY <1>1, <1>2, <1>5, <2>1 DEF FullSoon, FullAsked
  <2> QED BY <2>3, <2>4
<1>7. Asked' \subseteq Asked
  BY <1>2, <1>4 DEF Asked
<1> QED BY <1>0, <1>2, <1>3, <1>5, <1>6, <1>7, GoneHandedOn DEF WatchesHold

LEMMA GoneGivingUp ==
    ASSUME AllInv, Interrupt \/ Unwatch \/ WatchRefused \/ Cancel \/ Restart
    PROVE  GoneInv'
<1>0. TypeOK /\ Tree /\ WatchesHold /\ WalkerPlaced /\ ghost \in Ghost
  BY AllParts, GhostKnown
<1>1. CASE Interrupt
  <2>1. walk' = [NoWalk EXCEPT !.pc = "ended", !.result = "cancelled"]
        /\ UNCHANGED <<folders, armed, directories, scan, ghost>>
    BY <1>1 DEF Interrupt, world, watcher, memory
  <2>2. ~Kept'
    BY <2>1, NoWalkFields DEF Kept, Doomed
  <2>3. WatchesHold'
    BY <1>0, <2>1 DEF WatchesHold, FullWalk
  <2> QED BY <2>2, <2>3, GoneGivenUp DEF Sure
<1>2. CASE Unwatch
  <2>1. ~Sure'
    BY <1>0, <1>2, GivenUp DEF Sure, Kept
  <2>2. directories' = {} /\ armed' \subseteq armed /\ UNCHANGED <<folders, scan>>
        /\ ghost'.covered = ghost.covered
    BY <1>0, <1>2 DEF Unwatch, world, Ghost
  <2>3. WatchesHold'
    BY <1>0, <2>2 DEF WatchesHold, FullWalk
  <2> QED BY <2>1, <2>3, GoneGivenUp
<1>3. CASE WatchRefused \/ Cancel
  <2>1. ~Sure'
    BY <1>0, <1>3, GivenUp DEF Sure, Kept
  <2>2. UNCHANGED <<folders, scan, armed, directories>>
        /\ ghost'.covered = ghost.covered
    BY <1>0, <1>3 DEF WatchRefused, Unregistered, Cancel, world, watcher, memory, Ghost
  <2>3. WatchesHold'
    BY <1>0, <2>2 DEF WatchesHold, FullWalk
  <2> QED BY <2>1, <2>3, GoneGivenUp
<1>4. CASE Restart
  <2>1. ~initialized' /\ directories' = {} /\ armed' = {} /\ UNCHANGED scan
        /\ ghost'.covered = ghost.covered
    BY <1>0, <1>4 DEF Restart, Ghost
  <2>2. WatchesHold'
    BY <1>0, <2>1 DEF WatchesHold, FullWalk
  <2> QED BY <2>1, <2>2 DEF GoneInv, TopBegins, FullDue
<1> QED BY <1>1, <1>2, <1>3, <1>4

\* A request that users make, or nothing that matters here.
LEMMA GoneUsers ==
    ASSUME AllInv, Verify \/ RetryScanErrors \/ ConfigureRoot \/ UNCHANGED vars
    PROVE  GoneInv'
<1>0. TypeOK /\ WatchesHold /\ WalkerPlaced /\ MarksFormed
  BY AllParts
<1>1. UNCHANGED <<disk, folders, armed, directories, events, overflow, initialized,
                  dirty, tick, errors, location, walk, ghost>>
  BY DEF Verify, RetryScanErrors, ConfigureRoot, vars, world, watcher, memory, catalogue
<1>2. CASE UNCHANGED <<request, scan>>
  <2>1. (Sure' <=> Sure) /\ (FullSoon' <=> FullSoon) /\ Asked' = Asked
        /\ (FullWalk' <=> FullWalk) /\ (FullDue' <=> FullDue)
    BY <1>1, <1>2 DEF Sure, Kept, Doomed, FullSoon, FullAsked, Asked, FullWalk, FullDue,
                     Heeded
  <2>2. WatchKept
    BY <1>1, WatchSame
  <2>3. WatchesHold' /\ TopBegins'
    BY <1>0, <1>1, <1>2, <2>1, AllParts DEF WatchesHold, TopBegins
  <2>4. ASSUME Sure', ~FullDue' PROVE Sound'
    <3>1. Sound
      BY <2>1, <2>4, AllParts
    <3>2. \A p \in Paths : Known(p)' => Vouched(p)'
      BY <1>1, <1>2, <2>1, <2>2, <3>1, VouchedKept DEF Sound, Known
    <3>3. scan'.status = "running" => \A x \in scan'.pending : Safe(x)'
      BY <1>2, <2>2, <3>1, GuardKept DEF Sound
    <3>4. walk'.pc \in {"open", "entries", "ingest"} => Guarded(Base)'
      BY <1>1, <2>2, <3>1, BaseKept DEF Sound, Base
    <3>5. ~FullWalk' => (\A x \in Asked' : Safe(x)') /\ EventsSafe'
      BY <1>1, <2>1, <2>2, <3>1, GuardKept DEF Sound, EventsSafe
    <3> QED BY <3>2, <3>3, <3>4, <3>5 DEF Sound
  <2> QED BY <2>3, <2>4 DEF GoneInv
<1>3. CASE request.status = "none" /\ request'.status = "queued"
           /\ request'.paths \subseteq {x \in Places : errors[x] # "none"}
           /\ (scan' = scan \/ (scan'.status # "running" /\ scan.status = "running"))
  <2>1. walk.pc = "idle"
    BY <1>0, <1>3 DEF WalkerPlaced, RunsWithRow
  <2>2. FullWalk' => FullWalk
    BY <1>3 DEF FullWalk
  <2>3. ASSUME Sure' PROVE Sure /\ ~FullWalk /\ ~FullWalk' /\ (FullSoon => FullSoon')
    <3>1. Sure
      BY <1>1, <2>1, <2>2, <2>3 DEF Sure, Kept, Doomed
    <3>2. ~FullWalk
      BY <1>3, <3>1, NothingWalks
    <3>3. FullSoon => FullSoon'
      BY <1>1, <1>3 DEF FullSoon, FullAsked
    <3> QED BY <2>2, <3>1, <3>2, <3>3
  <2>4. Asked' \subseteq Asked
    BY <1>1, <1>3 DEF Asked
  <2> QED BY <1>0, <1>1, <1>3, <2>1, <2>2, <2>3, <2>4, GoneHandedOn DEF WatchesHold
<1>4. CASE Verify
  <2>1. scan' = scan /\ request' = IF request.status = "none"
                  THEN [NoRequest EXCEPT !.status = "queued"] ELSE request
    BY <1>4 DEF Verify
  <2>2. request.status = "none" => request'.status = "queued" /\ request'.paths = {}
    BY <2>1 DEF NoRequest
  <2> QED BY <1>2, <1>3, <2>1, <2>2
<1>5. CASE RetryScanErrors
  <2>1. request.status = "none"
        /\ request' = [NoRequest EXCEPT !.status = "queued",
                          !.paths = {x \in Places : errors[x] # "none"}]
        /\ scan' = IF scan.status = "running" THEN Closed("superseded") ELSE scan
    BY <1>5 DEF RetryScanErrors
  <2>2. request'.status = "queued" /\ request'.paths = {x \in Places : errors[x] # "none"}
    BY <2>1 DEF NoRequest
  <2> QED BY <1>3, <2>1, <2>2, ClosedStatus
<1>6. CASE ConfigureRoot \/ UNCHANGED vars
  BY <1>2, <1>6 DEF ConfigureRoot, vars
<1> QED BY <1>4, <1>5, <1>6

-----------------------------------------------------------------------------
(* The steps that look.                                                    *)

\* Where a step that looks leaves what it knows, marks and watches.
LEMMA LooksGone ==
    ASSUME AllInv, Looks, ~WatchRefused
    PROVE  /\ UNCHANGED <<disk, folders, events, overflow, initialized, dirty, tick, request>>
           /\ ghost'.covered = ghost.covered
           /\ OfTheRow
           /\ Sure' <=> Sure
           /\ FullSoon' <=> FullSoon
           /\ Walking /\ Walking'
           /\ ~NextEntry => UNCHANGED <<armed, directories>>
<1>0. TypeOK /\ Tree /\ WalkerPlaced /\ ghost \in Ghost
  BY AllParts, GhostKnown
<1>1. UNCHANGED <<disk, folders, events, overflow, initialized, dirty, tick, request>>
  BY <1>0, LooksKeep DEF world
<1>2. ghost'.covered = ghost.covered
  <2>1. CASE Ingest
    BY <1>0, <2>1 DEF Ingest, CaughtUp, Ghost
  <2>2. CASE ~Ingest
    BY <2>2 DEF Looks, NextEntry, ReadFolder, Observe, PathFails, LeaveEntry
  <2> QED BY <2>1, <2>2
<1>3. OfTheRow
  BY <1>0, LooksCover
<1>4. Walking /\ Walking'
  BY <1>0, LooksWalk, LooksWalker
<1>5. Sure' <=> Sure
  BY <1>0, <1>2, <1>3, LooksFrame DEF Sure, OfTheRow
<1>6. FullSoon' <=> FullSoon
  BY <1>1, <1>3, <1>4 DEF FullSoon, FullAsked, OfTheRow, Walking
<1>7. ~NextEntry => UNCHANGED <<armed, directories>>
  BY DEF Looks, ReadFolder, Observe, PathFails, Ingest, LeaveEntry, watcher, memory
<1> QED BY <1>1, <1>2, <1>3, <1>4, <1>5, <1>6, <1>7

LEMMA NextEntryDoes ==
    ASSUME TypeOK, Tree, WalkerPlaced, NextEntry
    PROVE  \E x \in scan.pending :
              /\ walk.pc = "next"
              /\ \/ /\ ~Exists(x) /\ x # Top
                    /\ errors' = [errors EXCEPT ![x] = "new"]
                    /\ scan'.pending = scan.pending \ {x}
                    /\ UNCHANGED <<armed, directories, walk>>
                 \/ /\ x \in Paths
                    /\ walk'.pc = "entries" /\ walk'.at = x
                    /\ UNCHANGED <<armed, directories, scan, errors>>
                 \/ /\ x \in folders \cup {Top} /\ x \notin Paths
                    /\ Register(x)
                    /\ walk'.pc = "open" /\ walk'.at = x
                    /\ UNCHANGED <<scan, errors>>
<1> PICK x \in scan.pending :
        /\ walk.pc = "next"
        /\ IF ~Exists(x)
           THEN /\ errors' = [errors EXCEPT ![x] = "new"]
                /\ Advance(x, {})
                /\ UNCHANGED <<armed, directories, walk>>
           ELSE IF x \in Paths
           THEN /\ walk' = [walk EXCEPT !.pc = "entries", !.at = x, !.todo = {x}]
                /\ UNCHANGED <<armed, directories, scan, errors>>
           ELSE /\ Register(x)
                /\ walk' = [walk EXCEPT !.pc = "open", !.at = x]
                /\ UNCHANGED <<scan, errors>>
  BY DEF NextEntry
<1>0. walk \in Walk
  BY DEF TypeOK
<1>1. CASE ~Exists(x)
  <2>1. x # Top
    BY <1>1, DirFacts DEF Exists
  <2>2. Walking
    BY DEF Walking
  <2> QED BY <1>1, <2>1, <2>2, AdvanceLeaves
<1>2. CASE Exists(x) /\ x \in Paths
  BY <1>0, <1>2 DEF Walk
<1>3. CASE Exists(x) /\ x \notin Paths
  BY <1>0, <1>3 DEF Walk, Exists
<1> QED BY <1>1, <1>2, <1>3

\* A directory that the walk registers and that is safe is guarded.
LEMMA RegisteredGuarded ==
    ASSUME AllInv, NEW x \in folders \cup {Top}, x \notin Paths, Register(x),
           UNCHANGED folders, Safe(x)
    PROVE  Guarded(x)'
<1>0. TypeOK /\ WatchesHold
  BY AllParts
<1>1. WatchKept
  BY WatchRegister
<1>2. CASE x \notin directories
  BY <1>2, WatchRegister DEF Guarded
<1>3. CASE x \in directories /\ x \in armed
  BY <1>1, <1>3 DEF WatchKept, Guarded, Alert
<1>4. CASE x \in directories /\ x \notin armed
  <2>1. x # Top /\ x \in folders /\ x \in Folders
    BY <1>0, <1>4 DEF WatchesHold, TypeOK
  <2>2. CASE Guarded(x)
    BY <1>1, <2>2, GuardKept
  <2>3. CASE Alert(Parent[x])
    <3>1. x \in Stuck
      BY <1>4, <2>1, <2>3 DEF Stuck
    <3>2. Above(Stuck, x)
      BY <3>1, AboveSelf
    <3> QED BY <1>1, <3>2, GuardKept DEF Guarded
  <2>4. CASE Above(Stuck, Parent[x])
    <3>1. Above(Stuck, x)
      BY <2>1, <2>4, AboveChild
    <3> QED BY <1>1, <3>1, GuardKept DEF Guarded
  <2> QED BY <1>4, <2>1, <2>2, <2>3, <2>4 DEF Safe, Guarded
<1> QED BY <1>2, <1>3, <1>4

LEMMA TopGone ==
    ASSUME AllInv, Looks, ~WatchRefused PROVE WatchKept /\ WatchesHold' /\ TopBegins'
<1>0. TypeOK /\ Tree /\ WalkerPlaced /\ WatchesHold /\ TopBegins
  BY AllParts
<1> USE LooksGone
<1>1. CASE ~NextEntry
  <2>1. WatchKept /\ WatchesHold'
    BY <1>0, <1>1, WatchSame DEF WatchesHold, OfTheRow
  <2>2. ASSUME Sure', initialized', Top \notin directories', ~FullSoon' PROVE FALSE
    <3>1. Sure /\ FullWalk /\ scan.pending = {Top} /\ ~dirty.full
      BY <1>0, <1>1, <2>2 DEF TopBegins, FullSoon
    <3>2. walk.pc \notin {"open", "entries", "ingest"}
      BY <1>1, <2>2, <3>1, TopAhead DEF Sure
    <3>3. walk.pc \in {"open", "entries", "ingest"}
      BY <1>0, <1>1 DEF Looks, ReadFolder, Observe, PathFails, Ingest, LeaveEntry,
                        WalkerPlaced, AtEntry
    <3> QED BY <3>2, <3>3
  <2> QED BY <2>1, <2>2 DEF TopBegins
<1>2. CASE NextEntry
  <2> PICK x \in scan.pending :
              /\ walk.pc = "next"
              /\ \/ /\ ~Exists(x) /\ x # Top
                    /\ UNCHANGED <<armed, directories, walk>>
                 \/ /\ x \in Paths
                    /\ UNCHANGED <<armed, directories, scan, errors>>
                 \/ /\ x \in folders \cup {Top}
                    /\ Register(x)
    BY <1>0, <1>2, NextEntryDoes
  <2>1. WatchKept /\ WatchesHold'
    <3>1. CASE UNCHANGED <<armed, directories>>
      BY <1>0, <3>1, WatchSame DEF WatchesHold, OfTheRow
    <3>2. CASE x \in folders \cup {Top} /\ Register(x)
      <4>1. WatchKept
        BY <3>2, WatchRegister
      <4>2. WatchesHold'
        BY <1>0, <3>2 DEF WatchesHold, Register, OfTheRow
      <4> QED BY <4>1, <4>2
    <3> QED BY <3>1, <3>2
  <2>2. ASSUME Sure', initialized', Top \notin directories', ~FullSoon' PROVE FALSE
    <3>1. Top \notin directories
      BY <2>2 DEF Register
    <3>2. x = Top
      BY <1>0, <2>2, <3>1 DEF TopBegins
    <3>3. Top \in directories'
      BY <3>2, DirFacts DEF Register
    <3> QED BY <2>2, <3>3
  <2> QED BY <2>1, <2>2 DEF TopBegins
<1> QED BY <1>1, <1>2

LEMMA TodoGuarded ==
    ASSUME AllInv, Sound, Listing, NEW p \in walk.todo
    PROVE  p \in Paths /\ Guarded(Parent[p]) /\ Safe(p)
<1>0. TypeOK /\ WalkerPlaced
  BY AllParts
<1>1. p \in Paths /\ (p = walk.at \/ Parent[p] = walk.at) /\ walk.at \in Places
  BY <1>0 DEF WalkerPlaced, AtEntry, TypeOK, Walk
<1>2. Base = Parent[p]
  BY <1>1, DirFacts DEF Base
<1>3. Guarded(Parent[p])
  BY <1>2 DEF Sound, Listing
<1> QED BY <1>1, <1>3 DEF Safe

LEMMA BaseIs == ASSUME NEW b, b = Base', Guarded(b)' PROVE Guarded(Base)'
<1> HIDE DEF Base
<1> QED BY DEF Guarded, Alert, Above

\* What such a step adds is guarded.
LooksOnly ==
    /\ \A p \in Paths : Known(p)' => Known(p) \/ (disk[p] # None /\ Guarded(Parent[p]))
    /\ \A x \in scan'.pending : x \in scan.pending \/ Safe(x)
    /\ \A x \in Places : errors'[x] # "none" => errors[x] # "none" \/ Safe(x)
    /\ walk'.pc \in {"open", "entries", "ingest"} => Guarded(Base)'

LEMMA LooksHandOn ==
    ASSUME AllInv, Looks, ~WatchRefused, Sound, WatchKept, LooksOnly
    PROVE  Sound'
<1>0. TypeOK /\ WalkerPlaced
  BY AllParts
<1>1. UNCHANGED <<disk, events, dirty, tick, request>> /\ (FullWalk' <=> FullWalk)
      /\ scan.status = "running"
  BY <1>0, LooksGone DEF OfTheRow, WalkerPlaced, RunsWithRow
<1>2. ASSUME NEW p \in Paths, Known(p)' PROVE Vouched(p)'
  <2>1. CASE Known(p)
    BY <1>1, <2>1, VouchedKept DEF Sound
  <2>2. CASE disk[p] # None /\ Guarded(Parent[p])
    <3>1. Vouched(p)
      BY <2>2 DEF Vouched, Guarded
    <3> QED BY <1>1, <3>1, VouchedKept
  <2> QED BY <1>2, <2>1, <2>2 DEF LooksOnly
<1>3. \A x \in scan'.pending : Safe(x)'
  BY <1>1, GuardKept DEF LooksOnly, Sound
<1>4. ~FullWalk' => \A x \in Asked' : Safe(x)'
  <2>1. ASSUME ~FullWalk', NEW x \in Asked' PROVE x \in Asked \/ Safe(x)
    BY <1>1, <2>1 DEF LooksOnly, Asked
  <2> QED BY <1>1, <2>1, GuardKept DEF Sound
<1>5. ASSUME ~FullWalk' PROVE EventsSafe'
  <2> SUFFICES ASSUME NEW i \in 1 .. Len(events'), ~events'[i].gone,
                        NEW d, d = Parent[events'[i].at], d \in directories'
                 PROVE  Guarded(d)'
    BY EventsSafeIf
  <2>1. CASE d \in directories
    <3>1. Guarded(d)
      BY <1>1, <1>5, <2>1 DEF Sound, EventsSafe
    <3> QED BY <3>1, GuardKept
  <2>2. CASE d \notin directories
    BY <2>2 DEF WatchKept, Guarded
  <2> QED BY <2>1, <2>2
<1> QED BY <1>2, <1>3, <1>4, <1>5 DEF Sound, LooksOnly

LEMMA LooksOnlyDoes ==
    ASSUME AllInv, Looks, ~WatchRefused, Sound, WatchKept PROVE LooksOnly
<1>0. /\ TypeOK /\ Tree /\ WalkerPlaced /\ walk \in Walk /\ scan \in ScanRow
      /\ errors \in [Places -> {"none", "old", "new"}]
  BY AllParts DEF TypeOK
<1>1. /\ UNCHANGED <<disk, folders>> /\ (FullWalk' <=> FullWalk)
      /\ scan.status = "running" /\ Walking
      /\ \A x \in scan.pending : Safe(x)
  BY <1>0, LooksGone DEF OfTheRow, WalkerPlaced, RunsWithRow, Sound
<1>2. ASSUME ~Ingest, walk'.pc # "ingest", NEW p, Known(p)' PROVE Known(p)
  <2>1. location' = location /\ scan'.observed = scan.observed
    BY <1>0, <1>2, LooksKeep DEF catalogue
  <2> QED BY <1>1, <1>2, <2>1 DEF Known
<1>3. walk.pc \in {"open", "entries", "ingest"} => Guarded(Base) /\ walk.at \in scan.pending
  BY <1>0 DEF Sound, WalkerPlaced, AtEntry
<1>4. ASSUME walk.pc \in {"open", "entries", "ingest"}, walk'.at = walk.at
      PROVE  Guarded(Base)'
  BY <1>3, <1>4, BaseKept DEF Base
<1>5. CASE NextEntry
  <2>0. walk.pc = "next" /\ ~Ingest /\ walk'.pc # "ingest"
    BY <1>0, <1>5, LooksWalker DEF NextEntry, Ingest, Observe
  <2> PICK x \in scan.pending :
              \/ /\ ~Exists(x) /\ x # Top
                 /\ errors' = [errors EXCEPT ![x] = "new"]
                 /\ scan'.pending = scan.pending \ {x}
                 /\ UNCHANGED <<armed, directories, walk>>
              \/ /\ x \in Paths
                 /\ walk'.pc = "entries" /\ walk'.at = x
                 /\ UNCHANGED <<armed, directories, scan, errors>>
              \/ /\ x \in folders \cup {Top} /\ x \notin Paths
                 /\ Register(x)
                 /\ walk'.pc = "open" /\ walk'.at = x
                 /\ UNCHANGED <<scan, errors>>
    BY <1>0, <1>5, NextEntryDoes
  <2>1. /\ \A y \in scan'.pending : y \in scan.pending \/ Safe(y)
        /\ \A y \in Places : errors'[y] # "none" => errors[y] # "none" \/ Safe(y)
    BY <1>0, <1>1
  <2>2. CASE walk' = walk
    BY <1>2, <2>0, <2>1, <2>2 DEF LooksOnly
  <2>3. CASE x \in Paths /\ walk'.at = x
    <3>1. Guarded(Parent[x])'
      <4>1. PICK d : d = Parent[x]
        OBVIOUS
      <4>2. Guarded(d)
        BY <1>1, <2>3, <4>1 DEF Safe
      <4>3. Guarded(d)'
        BY <4>2, GuardKept
      <4> QED BY <4>1, <4>3
    <3>2. Parent[x] = Base'
      BY <2>3 DEF Base
    <3>3. Guarded(Base)'
      BY <3>1, <3>2, BaseIs
    <3> QED BY <1>2, <2>0, <2>1, <3>3 DEF LooksOnly
  <2>4. CASE x \in folders \cup {Top} /\ x \notin Paths /\ Register(x) /\ walk'.at = x
    <3>1. Guarded(x)'
      BY <1>1, <2>4, RegisteredGuarded
    <3>2. x = Base'
      BY <2>4 DEF Base
    <3>3. Guarded(Base)'
      BY <3>1, <3>2, BaseIs
    <3> QED BY <1>2, <2>0, <2>1, <3>3 DEF LooksOnly
  <2> QED BY <2>2, <2>3, <2>4
<1>6. CASE ReadFolder
  <2>0. walk.pc = "open" /\ ~Ingest /\ walk'.pc # "ingest"
    BY <1>0, <1>6, LooksWalker DEF ReadFolder, Ingest, Observe
  <2>1. CASE Exists(walk.at)
    <3>1. walk'.at = walk.at /\ UNCHANGED <<scan, errors>>
      BY <1>0, <1>6, <2>1 DEF ReadFolder, Walk
    <3> QED BY <1>2, <1>4, <2>0, <3>1 DEF LooksOnly
  <2>2. CASE ~Exists(walk.at)
    <3>1. /\ errors' = [errors EXCEPT ![walk.at] = "new"] /\ walk'.pc = "next"
          /\ Advance(walk.at, {})
      BY <1>0, <1>6, <2>2 DEF ReadFolder, Walk
    <3>2. scan'.pending = scan.pending \ {walk.at}
      BY <1>0, <1>1, <3>1, AdvanceLeaves
    <3> QED BY <1>0, <1>1, <1>2, <1>3, <2>0, <3>1, <3>2 DEF LooksOnly
  <2> QED BY <2>1, <2>2
<1>7. CASE Observe
  <2> PICK p \in walk.todo :
        /\ walk.pc = "entries"
        /\ IF disk[p] # None
           THEN /\ walk' = [walk EXCEPT !.pc = "ingest",
                       !.held = [path |-> p, file |-> disk[p],
                                 content |-> content[disk[p]]]]
                /\ UNCHANGED errors
           ELSE /\ errors' = [errors EXCEPT ![p] = "new"]
                /\ walk' = [walk EXCEPT !.todo = @ \ {p}]
        /\ UNCHANGED <<scan, catalogue>>
    BY <1>7 DEF Observe
  <2>1. p \in Paths /\ Guarded(Parent[p]) /\ Safe(p)
    BY TodoGuarded DEF Listing
  <2>2. walk'.at = walk.at /\ (walk'.pc = "ingest" => disk[p] # None /\ walk'.held.path = p)
    <3>1. CASE disk[p] # None
      <4>1. walk' = [walk EXCEPT !.pc = "ingest",
                       !.held = [path |-> p, file |-> disk[p],
                                 content |-> content[disk[p]]]]
        BY <3>1
      <4> QED BY <1>0, <3>1, <4>1 DEF Walk
    <3>2. CASE disk[p] = None
      BY <1>0, <3>2 DEF Walk
    <3> QED BY <3>1, <3>2
  <2>3. \A q \in Paths : Known(q)' => Known(q) \/ (disk[q] # None /\ Guarded(Parent[q]))
    BY <1>1, <2>1, <2>2 DEF Known, catalogue
  <2> QED BY <1>0, <1>4, <2>1, <2>2, <2>3 DEF LooksOnly
<1>8. CASE PathFails
  <2>0. walk.pc \in {"open", "entries"} /\ ~Ingest /\ walk'.pc # "ingest"
    BY <1>0, <1>8 DEF PathFails, Ingest, Walk
  <2>1. CASE /\ walk.pc = "open"
             /\ errors' = [errors EXCEPT ![walk.at] = "new"]
             /\ Advance(walk.at, {})
             /\ walk' = [walk EXCEPT !.pc = "next", !.at = Top]
    <3>1. scan'.pending = scan.pending \ {walk.at} /\ walk'.pc = "next"
      BY <1>0, <1>1, <2>1, AdvanceLeaves DEF Walk
    <3> QED BY <1>0, <1>1, <1>2, <1>3, <2>0, <2>1, <3>1 DEF LooksOnly
  <2>2. ASSUME NEW p \in walk.todo, walk.pc = "entries",
               errors' = [errors EXCEPT ![p] = "new"],
               walk' = [walk EXCEPT !.todo = @ \ {p}], UNCHANGED scan
        PROVE  LooksOnly
    <3>1. Safe(p)
      BY <2>2, TodoGuarded DEF Listing
    <3>2. walk'.at = walk.at
      BY <1>0, <2>2 DEF Walk
    <3> QED BY <1>0, <1>2, <1>4, <2>0, <2>2, <3>1, <3>2 DEF LooksOnly
  <2>3. CASE /\ walk.pc = "entries"
             /\ errors' = [errors EXCEPT ![walk.at] = "new"]
             /\ UNCHANGED scan
             /\ \E found \in SUBSET walk.found :
                   walk' = [walk EXCEPT !.todo = {}, !.found = found, !.cut = TRUE]
    <3>1. walk'.at = walk.at
      BY <1>0, <2>3 DEF Walk
    <3> QED BY <1>0, <1>1, <1>2, <1>3, <1>4, <2>0, <2>3, <3>1 DEF LooksOnly
  <2> QED BY <1>8, <2>1, <2>2, <2>3 DEF PathFails
<1>9. CASE Ingest
  <2>1. walk.pc = "ingest" /\ walk'.pc = "entries" /\ walk'.at = walk.at
    BY <1>0, <1>9 DEF Ingest, Walk
  <2>2. walk.held.path \in walk.todo
    BY <1>0, <2>1 DEF WalkerPlaced, Holding
  <2>3. Safe(walk.held.path) /\ walk.held.path \in Paths
    BY <2>1, <2>2, TodoGuarded DEF Listing
  <2>4. \/ /\ UNCHANGED <<location, scan>>
           /\ errors' = [errors EXCEPT ![walk.held.path] = "new"]
        \/ /\ location' = [location EXCEPT ![walk.held.path] = walk.held.file]
           /\ scan' = [scan EXCEPT !.observed = @ \cup {walk.held.path}]
           /\ errors' = [errors EXCEPT ![walk.held.path] = "none"]
    BY <1>9 DEF Ingest, catalogue
  <2>5. /\ scan'.pending = scan.pending
        /\ \A p \in scan'.observed : p \in scan.observed \/ p = walk.held.path
        /\ \A p \in Paths : location'[p] # None => location[p] # None \/ p = walk.held.path
    BY <1>0, <2>4 DEF ScanRow, TypeOK
  <2>6. \A p \in Paths : Known(p)' => Known(p)
    BY <1>1, <2>1, <2>5 DEF Known
  <2>7. \A x \in Places : errors'[x] # "none" => errors[x] # "none" \/ Safe(x)
    BY <1>0, <2>3, <2>4
  <2> QED BY <1>4, <2>1, <2>5, <2>6, <2>7 DEF LooksOnly
<1>10. CASE LeaveEntry
  <2>0. walk.pc = "entries" /\ ~Ingest /\ walk'.pc # "ingest"
    BY <1>0, <1>10 DEF LeaveEntry, Ingest, Walk
  <2>1. Advance(walk.at, walk.found) /\ walk.found \in SUBSET Places /\ walk'.pc = "next"
    BY <1>0, <1>10, ConstantTypes DEF LeaveEntry, Walk, Dirs
  <2>2. scan'.pending = (scan.pending \ {walk.at}) \cup walk.found
    BY <1>0, <1>1, <2>1, AdvanceDoes
  <2>3. ASSUME NEW d \in walk.found PROVE Safe(d)
    <3>1. d \in Folders /\ Parent[d] = walk.at /\ d # Top /\ d \notin Paths
      BY <1>0, <2>0, ReconciliationAssumption DEF WalkerPlaced, AtEntry, Walk
    <3>2. walk.at \notin Paths
      BY <3>1, DirFacts DEF Dirs
    <3>3. Guarded(Parent[d])
      BY <1>3, <2>0, <3>1, <3>2 DEF Base
    <3> QED BY <3>1, <3>3 DEF Safe
  <2>4. \A x \in Places : errors'[x] # "none" => errors[x] # "none"
    BY <1>0, <1>10 DEF LeaveEntry
  <2> QED BY <1>2, <2>0, <2>1, <2>2, <2>3, <2>4 DEF LooksOnly
<1> QED BY <1>5, <1>6, <1>7, <1>8, <1>9, <1>10 DEF Looks

LEMMA GoneLooks == ASSUME AllInv, Looks, ~WatchRefused PROVE GoneInv'
<1>1. WatchKept /\ WatchesHold' /\ TopBegins'
  BY TopGone
<1>2. ASSUME Sure', ~FullDue' PROVE Sound'
  <2>1. UNCHANGED <<events, overflow, initialized>> /\ Sure /\ (FullSoon => FullSoon')
    BY <1>2, LooksGone
  <2>2. directories \subseteq directories'
    <3>1. CASE ~NextEntry
      BY <3>1, LooksGone
    <3>2. CASE NextEntry
      BY <3>2 DEF NextEntry, Register
    <3> QED BY <3>1, <3>2
  <2>3. ~FullDue
    BY <1>2, <2>1, <2>2, DueKept
  <2>4. Sound
    BY <2>1, <2>3, AllParts
  <2> QED BY <1>1, <2>4, LooksOnlyDoes, LooksHandOn
<1> QED BY <1>1, <1>2 DEF GoneInv

LEMMA GoneStep == ASSUME AllInv, [Next]_vars PROVE AllInv'
<1>1. SeenInv'
  BY SeenStep DEF AllInv
<1>2. GoneInv'
  <2>1. CASE Looks /\ ~WatchRefused
    BY <2>1, GoneLooks
  <2>2. CASE Outside
    BY <2>2, GoneOutside
  <2>3. CASE Runtime
    BY <2>3, GoneHandleEvent, GoneEventsLost, GoneEnqueue, GoneGivingUp, GoneTakeMarks
    DEF Runtime
  <2>4. CASE Claim \/ BeginScan \/ CloseScan \/ RootFails \/ Finish
    BY <2>4, GoneClaim, GoneBeginScan, GoneCloseScan, GoneRootFails, GoneFinish
  <2>5. CASE Interrupt \/ WatchRefused \/ Cancel \/ Restart
    BY <2>5, GoneGivingUp
  <2>6. CASE Verify \/ RetryScanErrors \/ ConfigureRoot \/ UNCHANGED vars
    BY <2>6, GoneUsers
  <2> QED BY <2>1, <2>2, <2>3, <2>4, <2>5, <2>6
       DEF Next, Worker, Failures, Users, Looks
<1> QED BY <1>1, <1>2 DEF AllInv

\* A root that is watched, with nothing left to do and nothing given up, shows
\* what is on disk: everything that is there, and, after a walk that could
\* confirm absences, nothing that is gone.
THEOREM QuietRootsAreSynced == Spec => []QuietMeansSynced
<1>1. Init => AllInv
  BY SeenInit, GoneInit DEF AllInv
<1>2. AllInv /\ [Next]_vars => AllInv'
  BY GoneStep
<1>3. AllInv => QuietMeansSynced
  BY NothingMissed, NothingGone DEF AllInv, QuietMeansSynced
<1> QED BY <1>1, <1>2, <1>3, PTL DEF Spec
=============================================================================
