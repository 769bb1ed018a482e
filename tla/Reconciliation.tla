---------------------------- MODULE Reconciliation ----------------------------
(***************************************************************************)
(* How the catalogue of one linked root follows the directory it indexes:  *)
(* the native watcher and its queue of events (watcher.go), the marks that *)
(* the runtime keeps in memory and the tick that turns them into requests  *)
(* (runtime.go), and the walk that executes a request (scanner.go).        *)
(*                                                                         *)
(* A write transaction of the database is one step; so is one call of the  *)
(* file system.  Between two of them files come and go, events arrive or   *)
(* are lost, users cancel, the process restarts.                           *)
(*                                                                         *)
(* The directory tree has a fixed set of names; what exists at a name      *)
(* changes.  A request here is the one active request of the root, which   *)
(* JobQueue shows to be unique; time is left out: debounce, interval and   *)
(* back-off let a step happen, they never force one.                       *)
(***************************************************************************)
EXTENDS Naturals, FiniteSets, Sequences

CONSTANTS
    Folders,        \* names of the directories below the root
    Paths,          \* names of the PDF files
    Parent,         \* the directory that holds each of them
    Files,          \* physical identities
    MaxContents,    \* bound: contents a file goes through
    MaxChanges,     \* bound: changes from outside
    QueueSize,      \* events the native queue holds
    MaxDirty,       \* paths gathered before a full walk is asked for (256)
    MaxAttempts,    \* attempts of a request (5)
    Incidents,      \* bound: the kinds of incident that occur
    MaxIncidents    \* bound: how many

Top  == "."
None == "none"
Dirs == Folders \cup {Top}

ASSUME ReconciliationAssumption ==
    /\ Folders \cap Paths = {}
    /\ {Top, None} \cap (Folders \cup Paths \cup Files) = {}
    /\ Parent \in [Folders \cup Paths -> Dirs]
    /\ Incidents \subseteq {"fault", "control", "restart"}
    /\ {MaxContents, MaxChanges, QueueSize, MaxDirty, MaxAttempts,
        MaxIncidents} \subseteq Nat
    /\ MaxContents >= 1

\* The directories are a tree: who goes up from any of them comes to the root.
ASSUME TreeAssumption ==
    \A up \in SUBSET Dirs :
        up # {} /\ (\A d \in up \ {Top} : Parent[d] \in up) => Top \in up

VARIABLES
    disk,           \* the file at each path
    folders,        \* the directories that exist
    content,        \* the content of each file
    armed,          \* directories the operating system watches
    events,         \* the queue of the native watcher
    overflow,       \* it has discarded an event and not said so yet
    directories,    \* Runtime.directories: what the runtime believes armed
    degraded,       \* Runtime.degraded
    initialized,    \* Runtime.watchInitialized
    dirty,          \* Runtime.dirty and dirtyPaths
    tick,           \* where scheduleOnce is
    root,           \* the rows of storage_roots, root_scan_controls and
                    \* root_watch_recovery
    request,        \* the active row of jobs for the root
    scan,           \* the running or last row of root_scans, with its
                    \* scan_progress and scan_file_observations
    errors,         \* scan_errors: "old" is older than the scan's started_at
    location,       \* physical_file_locations: the file of the active row
    primary,        \* primary_location_id of each file
    availability,   \* of each file
    recorded,       \* current_content_version_id of each file
    walk,           \* where the scan worker is
    used,           \* what the bounds have spent
    ghost           \* history the properties speak of

world   == <<disk, folders, content>>
watcher == <<armed, events, overflow>>
memory  == <<directories, degraded, initialized, dirty, tick>>
catalogue == <<location, primary, availability, recorded>>
vars == <<world, watcher, memory, root, request, scan, errors, catalogue,
          walk, used, ghost>>

-----------------------------------------------------------------------------
Names  == Folders \cup Paths
Places == Dirs \cup Paths

Event   == [gone : BOOLEAN, at : Names]
Mark    == [on : BOOLEAN, full : BOOLEAN, paths : SUBSET Names]
Tick    == [pc : {"idle", "enqueue"}, due : BOOLEAN, dirty : Mark,
            unchanged : BOOLEAN]
RootRow == [status : {"active", "inaccessible", "disabled"},
            mode : {"native", "polling", "paused"},
            error : {"", "WATCH_EVENTS_LOST", "WATCH_LIMIT", "SCAN"},
            revision : Nat, paused : BOOLEAN, loss : Nat, recovered : Nat]
Request == [status : {"none", "queued", "running", "retry_wait"},
            paths : SUBSET Places, attempts : 0..MaxAttempts,
            cancel : BOOLEAN]
ScanRow == [status : {"none", "running", "complete", "failed", "superseded"},
            partial : BOOLEAN, revision : Nat, pending : SUBSET Places,
            observed : SUBSET Paths, loss : Nat, confirms : BOOLEAN]
Held    == [path : Paths \cup {None}, file : Files \cup {None},
            content : 0..MaxContents]
Walk    == [pc : {"idle", "begin", "next", "open", "entries", "ingest", "ended"},
            revision : Nat, at : Places, todo : SUBSET Paths,
            found : SUBSET Folders, held : Held,
            cut : BOOLEAN, unwatched : BOOLEAN,
            result : {"", "ok", "partial", "transient", "cancelled"}]

NoFile  == [path |-> None, file |-> None, content |-> 0]
Clean   == [on |-> FALSE, full |-> FALSE, paths |-> {}]
Resting == [pc |-> "idle", due |-> FALSE, dirty |-> Clean, unchanged |-> FALSE]
NoRequest == [status |-> "none", paths |-> {}, attempts |-> 0, cancel |-> FALSE]
NoScan  == [status |-> "none", partial |-> FALSE, revision |-> 0,
            pending |-> {}, observed |-> {}, loss |-> 0, confirms |-> FALSE]
NoWalk  == [pc |-> "idle", revision |-> 0, at |-> Top, todo |-> {},
            found |-> {}, held |-> NoFile, cut |-> FALSE, unwatched |-> FALSE,
            result |-> ""]

TypeOK ==
    /\ disk \in [Paths -> Files \cup {None}]
    /\ folders \subseteq Folders
    /\ content \in [Files -> 1..MaxContents]
    /\ armed \subseteq Dirs /\ directories \subseteq Dirs
    /\ events \in Seq(Event) /\ Len(events) <= QueueSize
    /\ overflow \in BOOLEAN /\ degraded \in BOOLEAN /\ initialized \in BOOLEAN
    /\ dirty \in Mark /\ tick \in Tick
    /\ root \in RootRow /\ request \in Request /\ scan \in ScanRow
    /\ errors \in [Places -> {"none", "old", "new"}]
    /\ location \in [Paths -> Files \cup {None}]
    /\ primary \in [Files -> Paths \cup {None}]
    /\ availability \in [Files -> {"none", "available", "missing"}]
    /\ recorded \in [Files -> 0..MaxContents]
    /\ walk \in Walk
    /\ used \in [changes : 0..MaxChanges, incidents : 0..MaxIncidents,
                 calm : BOOLEAN]
    /\ ghost \in [unsaid : SUBSET Paths, dropped : SUBSET Paths, steady : SUBSET Paths,
                  covered : {"none", "walking", "incomplete", "confirmed"},
                  intact : BOOLEAN]

\* A root just added: some tree, a first walk queued, the runtime started.
Init ==
    /\ folders \in SUBSET Folders
    /\ disk \in [Paths -> Files \cup {None}]
    /\ \A x \in folders : Parent[x] \in folders \cup {Top}
    /\ \A p \in Paths : disk[p] # None => Parent[p] \in folders \cup {Top}
    /\ content = [f \in Files |-> 1]
    /\ armed = {} /\ directories = {}
    /\ events = <<>> /\ overflow = FALSE
    /\ degraded = FALSE /\ initialized = FALSE
    /\ dirty = Clean /\ tick = Resting
    /\ root = [status |-> "active", mode |-> "polling", error |-> "",
               revision |-> 1, paused |-> FALSE, loss |-> 0, recovered |-> 0]
    /\ request = [NoRequest EXCEPT !.status = "queued"]
    /\ scan = NoScan
    /\ errors = [x \in Places |-> "none"]
    /\ location = [p \in Paths |-> None]
    /\ primary = [f \in Files |-> None]
    /\ availability = [f \in Files |-> "none"]
    /\ recorded = [f \in Files |-> 0]
    /\ walk = NoWalk
    /\ used = [changes |-> 0, incidents |-> 0, calm |-> TRUE]
    /\ ghost = [unsaid |-> {}, dropped |-> {}, steady |-> {}, covered |-> "none",
                intact |-> FALSE]

-----------------------------------------------------------------------------
\* The file system and the native watcher.

Exists(x) == IF x \in Paths THEN disk[x] # None ELSE x \in folders \cup {Top}

\* The paths of which a catalogue (l, r) says something else than a disk (d, c).
Differing(d, c, l, r) ==
    {p \in Paths : IF d[p] = None THEN l[p] # None
                   ELSE l[p] # d[p] \/ r[d[p]] # c[d[p]]}

Behind == Differing(disk, content, location, recorded)

\* A directory watch reports what happens in the directory and its removal.
Heard(x) == Parent[x] \in armed \/ x \in armed

\* Mutant: the queue takes one event more than it holds.
FitsOneMore == Len(events) <= QueueSize

Fits == Len(events) < QueueSize

\* The event of a change at x; one that does not fit raises the overflow.
Report(x, gone) ==
    /\ events' = IF Heard(x) /\ Fits
                 THEN Append(events, [gone |-> gone, at |-> x]) ELSE events
    /\ overflow' = (overflow \/ (Heard(x) /\ ~Fits))

Changed == /\ used.changes < MaxChanges
           /\ used' = [used EXCEPT !.changes = @ + 1]

\* Ghost: the last change of the path p was announced, or discarded, or
\* made where nothing watches.
Noted(p) ==
    LET behind == Differing(disk', content', location, recorded)
    IN [ghost EXCEPT
           !.unsaid  = ((@ \ {p}) \cup IF Heard(p) /\ ~Fits THEN {p} ELSE {})
                       \cap behind,
           !.dropped = (@ \ {p}) \cap behind,
           !.steady  = @ \cap {q \in Paths : disk'[q] # None}]

\* A file is created, replaced or moved in, or its content changes.  The
\* system announces a change under the name it was made through, so a file
\* is changed only while it has one name: a write through a name that is not
\* watched is out of the watcher's reach.
WriteFile ==
    \E p \in Paths, f \in Files :
        /\ Changed
        /\ Parent[p] \in folders \cup {Top}
        /\ disk[p] = f => /\ content[f] < MaxContents
                          /\ \A q \in Paths \ {p} : disk[q] # f
        /\ disk' = [disk EXCEPT ![p] = f]
        /\ content' = [content EXCEPT ![f] = IF disk[p] = f THEN @ + 1 ELSE @]
        /\ Report(p, FALSE)
        /\ UNCHANGED <<folders, armed, memory, root, request, scan, errors,
                       catalogue, walk>>
        /\ ghost' = Noted(p)

RemoveFile ==
    \E p \in Paths :
        /\ Changed
        /\ disk[p] # None
        /\ disk' = [disk EXCEPT ![p] = None]
        /\ Report(p, TRUE)
        /\ UNCHANGED <<folders, content, armed, memory, root, request, scan,
                       errors, catalogue, walk>>
        /\ ghost' = Noted(p)

AddFolder ==
    \E d \in Folders \ folders :
        /\ Changed
        /\ Parent[d] \in folders \cup {Top}
        /\ folders' = folders \cup {d}
        /\ Report(d, FALSE)
        /\ UNCHANGED <<disk, content, armed, memory, root, request, scan,
                       errors, catalogue, walk, ghost>>

\* Its watch goes with it.
RemoveFolder ==
    \E d \in folders :
        /\ Changed
        /\ \A x \in Names : Parent[x] = d => ~Exists(x)
        /\ folders' = folders \ {d}
        /\ armed' = armed \ {d}
        /\ Report(d, TRUE)
        /\ UNCHANGED <<disk, content, memory, root, request, scan, errors,
                       catalogue, walk, ghost>>

-----------------------------------------------------------------------------
\* The runtime: marks, events, losses, registration.

Verifiable == root.status \in {"active", "inaccessible"}

\* Mutant: the empty path of the root is not a mark.
MarkedNonEmpty(m, x) ==
    IF x = Top THEN m
    ELSE IF m.full \/ Cardinality(m.paths) >= MaxDirty
    THEN [on |-> TRUE, full |-> TRUE, paths |-> {}]
    ELSE [on |-> TRUE, full |-> FALSE, paths |-> m.paths \cup {x}]

\* markDirtyLocked: the path of the root itself asks for a full walk.
Marked(m, x) ==
    IF x = Top \/ m.full \/ Cardinality(m.paths) >= MaxDirty
    THEN [on |-> TRUE, full |-> TRUE, paths |-> {}]
    ELSE [on |-> TRUE, full |-> FALSE, paths |-> m.paths \cup {x}]

MarkDirty(x) == /\ dirty' = Marked(dirty, x)
                /\ tick' = [tick EXCEPT !.unchanged = FALSE]

\* Whatever disappeared asks for a full walk, a new directory for one of its
\* parent, a file for one of itself.
ToWalk(event) ==
    IF event.gone THEN Top
    ELSE IF event.at \in Folders THEN Parent[event.at] ELSE event.at

\* handleWatchEvent
HandleEvent ==
    /\ events # <<>>
    /\ LET event == Head(events)
       IN  /\ IF {Parent[event.at], event.at} \cap directories # {}
              THEN MarkDirty(ToWalk(event)) ELSE UNCHANGED <<dirty, tick>>
           /\ directories' = IF event.gone THEN directories \ {event.at}
                             ELSE directories
    /\ events' = Tail(events)
    /\ UNCHANGED <<world, armed, overflow, degraded, initialized, root,
                   request, scan, errors, catalogue, walk, used, ghost>>

\* eventsLost: the generation of the loss, then a mark if anything is watched.
EventsLost ==
    /\ overflow
    /\ overflow' = FALSE
    /\ root' = IF Verifiable
               THEN [root EXCEPT !.loss = @ + 1, !.mode = "polling",
                                 !.error = "WATCH_EVENTS_LOST"]
               ELSE root
    /\ IF directories # {} THEN MarkDirty(Top) ELSE UNCHANGED <<dirty, tick>>
    /\ ghost' = [ghost EXCEPT !.unsaid = {},
           !.dropped = IF Verifiable THEN @ \cup ghost.unsaid ELSE @]
    /\ UNCHANGED <<world, armed, events, directories, degraded, initialized,
                   request, scan, errors, catalogue, walk, used>>

Incident(kind) ==
    /\ kind \in Incidents
    /\ used.incidents < MaxIncidents
    /\ used' = [used EXCEPT !.incidents = @ + 1,
                            !.calm = @ /\ kind = "restart"]

Fault == Incident("fault")

\* register: nothing to do for a directory the runtime believes watched.
Register(d) ==
    /\ directories' = directories \cup {d}
    /\ armed' = IF d \in directories THEN armed ELSE armed \cup {d}

\* The system refuses the watch, for instance at its limit.
Unregistered(d) ==
    /\ d \notin directories
    /\ degraded' = TRUE
    /\ UNCHANGED <<directories, armed>>

\* The mode and the error that a tick writes, after registering the root.
Moded(r, limited) ==
    IF limited THEN [r EXCEPT !.mode = "polling", !.error = "WATCH_LIMIT"]
    ELSE IF r.error \in {"WATCH_EVENTS_LOST", "WATCH_LIMIT"} THEN r
    ELSE [r EXCEPT !.mode = "native"]

\* scheduleOnce up to its transaction: the first tick marks the root, every
\* tick registers it and takes a copy of the marks.
TakeMarks(due, fails) ==
    LET marks == IF initialized THEN dirty ELSE Marked(dirty, Top) IN
    /\ tick.pc = "idle"
    /\ Verifiable /\ ~root.paused
    /\ initialized' = TRUE
    /\ dirty' = marks
    /\ IF fails THEN Fault /\ Unregistered(Top)
                ELSE Register(Top) /\ UNCHANGED <<degraded, used>>
    /\ root' = Moded(root, degraded')
    /\ tick' = IF due \/ marks.on
               THEN [pc |-> "enqueue", due |-> due, dirty |-> marks,
                     unchanged |-> TRUE]
               ELSE tick
    /\ UNCHANGED <<world, events, overflow, request, scan, errors, catalogue,
                   walk, ghost>>

\* The copy still says everything that is marked.
CopyHolds == tick.dirty.on /\ tick.unchanged

\* The transaction of scheduleOnce and the marks it clears: only if nothing
\* was marked since they were copied.
Enqueue ==
    /\ tick.pc = "enqueue"
    /\ tick' = Resting
    /\ IF request.status # "none"
       THEN UNCHANGED <<request, dirty>>
       ELSE /\ request' = [NoRequest EXCEPT !.status = "queued",
                   !.paths = IF tick.due THEN {} ELSE tick.dirty.paths]
            /\ dirty' = IF CopyHolds THEN Clean ELSE dirty
    /\ UNCHANGED <<world, watcher, directories, degraded, initialized, root,
                   scan, errors, catalogue, walk, used, ghost>>

\* The end of a tick: the watches of a root that is paused or disabled go.
Unwatch ==
    /\ tick.pc = "idle"
    /\ root.paused \/ ~Verifiable
    /\ directories # {}
    /\ directories' = {}
    /\ armed' = armed \ directories
    /\ ghost' = [ghost EXCEPT !.intact = FALSE]
    /\ UNCHANGED <<world, events, overflow, degraded, initialized, dirty, tick,
                   root, request, scan, errors, catalogue, walk, used>>

-----------------------------------------------------------------------------
\* The walk.

\* The claim of the request and the row of the root that Scan reads.
Claim ==
    /\ walk.pc = "idle"
    /\ request.status \in {"queued", "retry_wait"}
    /\ request.attempts < MaxAttempts
    /\ request' = [request EXCEPT !.status = "running", !.attempts = @ + 1]
    /\ degraded' = (degraded /\ request.paths # {})
    /\ walk' = [NoWalk EXCEPT !.revision = root.revision,
                    !.pc = IF Verifiable THEN "begin" ELSE "ended",
                    !.result = IF Verifiable THEN "" ELSE "cancelled"]
    /\ UNCHANGED <<world, watcher, directories, initialized, dirty, tick, root,
                   scan, errors, catalogue, used, ghost>>

\* What a row keeps once it is not running: nothing reads the rest again.
Closed(status) == [NoScan EXCEPT !.status = status]

Resumable == scan.status = "running" /\ scan.revision = walk.revision

\* The first transaction of Scan: a running row of this revision goes on with
\* its own scope and checkpoint; any other is superseded by a new one.
BeginScan ==
    /\ walk.pc = "begin"
    /\ walk' = [walk EXCEPT !.pc = "next"]
    /\ IF Resumable
       THEN UNCHANGED <<scan, errors, ghost>>
       ELSE /\ scan' = [NoScan EXCEPT !.status = "running",
                   !.partial = (request.paths # {}),
                   !.revision = walk.revision, !.loss = root.loss,
                   !.pending = IF request.paths = {} THEN {Top}
                               ELSE request.paths]
            /\ errors' = [x \in Places |->
                   IF errors[x] = "new" THEN "old" ELSE errors[x]]
            /\ ghost' = [ghost EXCEPT
                   !.steady = {p \in Paths : disk[p] # None},
                   !.covered = IF request.paths = {} THEN "walking" ELSE @,
                   !.intact = (@ \/ request.paths = {})]
    /\ UNCHANGED <<world, watcher, memory, root, request, catalogue, used>>

\* The entry x leaves the queue of the walk and of its row.
Advance(x, more) ==
    scan' = IF scan.status = "running"
            THEN [scan EXCEPT !.pending = (@ \ {x}) \cup more] ELSE scan

\* Lstat of the next entry.  One that is gone is an error of its path; a
\* directory is registered before it is opened.
NextEntry ==
    \E x \in scan.pending :
        /\ walk.pc = "next"
        /\ IF ~Exists(x)
           THEN /\ errors' = [errors EXCEPT ![x] = "new"]
                /\ Advance(x, {})
                /\ UNCHANGED <<armed, directories, walk>>
           ELSE IF x \in Paths
           THEN /\ walk' = [walk EXCEPT !.pc = "entries", !.at = x, !.todo = {x}]
                /\ UNCHANGED <<armed, directories, scan, errors>>
           ELSE /\ Register(x)
                /\ walk' = [walk EXCEPT !.pc = "open", !.at = x]
                /\ UNCHANGED <<scan, errors>>
        /\ UNCHANGED <<world, events, overflow, degraded, initialized, dirty,
                       tick, root, request, catalogue, used, ghost>>

\* The watch of a directory is refused: the walk goes on, the mode tells.
WatchRefused ==
    \E d \in scan.pending \cap Dirs :
        /\ walk.pc = "next"
        /\ Exists(d)
        /\ Fault
        /\ Unregistered(d)
        /\ root' = [root EXCEPT !.mode = "polling", !.error = "WATCH_LIMIT"]
        /\ walk' = [walk EXCEPT !.pc = "open", !.at = d, !.unwatched = TRUE]
        /\ ghost' = [ghost EXCEPT !.intact = FALSE]
        /\ UNCHANGED <<world, events, overflow, initialized, dirty, tick,
                       request, scan, errors, catalogue>>

\* The directory is opened and listed; one that is gone is an error.
ReadFolder ==
    /\ walk.pc = "open"
    /\ IF Exists(walk.at)
       THEN /\ walk' = [walk EXCEPT !.pc = "entries",
                   !.todo = {p \in Paths : Parent[p] = walk.at /\ Exists(p)},
                   !.found = {d \in folders : Parent[d] = walk.at}]
            /\ UNCHANGED <<scan, errors>>
       ELSE /\ errors' = [errors EXCEPT ![walk.at] = "new"]
            /\ Advance(walk.at, {})
            /\ walk' = [walk EXCEPT !.pc = "next", !.at = Top]
    /\ UNCHANGED <<world, watcher, memory, root, request, catalogue, used, ghost>>

\* scanOne up to its transaction: the file is opened and observed.
Observe ==
    \E p \in walk.todo :
        /\ walk.pc = "entries"
        /\ IF disk[p] # None
           THEN /\ walk' = [walk EXCEPT !.pc = "ingest",
                       !.held = [path |-> p, file |-> disk[p],
                                 content |-> content[disk[p]]]]
                /\ UNCHANGED errors
           ELSE /\ errors' = [errors EXCEPT ![p] = "new"]
                /\ walk' = [walk EXCEPT !.todo = @ \ {p}]
        /\ UNCHANGED <<world, watcher, memory, root, request, scan, catalogue,
                       used, ghost>>

\* A file that cannot be read yet, a directory that cannot be opened, a
\* listing that breaks off: an error of the path, and the walk goes on.
PathFails ==
    /\ Fault
    /\ \/ /\ walk.pc = "open"
          /\ walk.at # Top
          /\ errors' = [errors EXCEPT ![walk.at] = "new"]
          /\ Advance(walk.at, {})
          /\ walk' = [walk EXCEPT !.pc = "next", !.at = Top]
       \/ \E p \in walk.todo :
          /\ walk.pc = "entries"
          /\ errors' = [errors EXCEPT ![p] = "new"]
          /\ walk' = [walk EXCEPT !.todo = @ \ {p}]
          /\ UNCHANGED scan
       \/ \E found \in SUBSET walk.found :
          /\ walk.pc = "entries" /\ walk.at \in Dirs /\ ~walk.cut
          /\ errors' = [errors EXCEPT ![walk.at] = "new"]
          /\ walk' = [walk EXCEPT !.todo = {}, !.found = found, !.cut = TRUE]
          /\ UNCHANGED scan
    /\ UNCHANGED <<world, watcher, memory, root, request, catalogue, ghost>>

\* Ghost: what the catalogue has just caught up with.
CaughtUp ==
    LET behind == Differing(disk, content, location', recorded')
    IN [ghost EXCEPT !.unsaid = @ \cap behind, !.dropped = @ \cap behind]

\* checkRootRevision
Current == Verifiable /\ root.revision = walk.revision

\* ingest: the location of the path, the file it held before, the version.
Ingest ==
    LET held == walk.held
        old  == location[held.path]
    IN
    /\ walk.pc = "ingest"
    /\ walk' = [walk EXCEPT !.pc = "entries", !.todo = @ \ {held.path},
                            !.held = NoFile]
    /\ IF Current
       THEN /\ location' = [location EXCEPT ![held.path] = held.file]
            /\ primary' = [primary EXCEPT ![held.file] = held.path]
            /\ availability' = [f \in Files |->
                   IF f = held.file THEN "available"
                   ELSE IF f = old /\ primary[f] = held.path THEN "missing"
                   ELSE availability[f]]
            /\ recorded' = [recorded EXCEPT ![held.file] = held.content]
            /\ scan' = [scan EXCEPT !.observed = @ \cup {held.path}]
            /\ errors' = [errors EXCEPT ![held.path] = "none"]
       ELSE /\ errors' = [errors EXCEPT ![held.path] = "new"]
            /\ UNCHANGED <<catalogue, scan>>
    /\ UNCHANGED <<world, watcher, memory, root, request, used>>
    /\ ghost' = CaughtUp

\* After the last entry: a directory whose listing reached its end clears its
\* own error, and its subdirectories join the queue.
LeaveEntry ==
    /\ walk.pc = "entries" /\ walk.todo = {}
    /\ errors' = IF walk.at \in Dirs /\ ~walk.cut
                 THEN [errors EXCEPT ![walk.at] = "none"] ELSE errors
    /\ Advance(walk.at, walk.found)
    /\ walk' = [walk EXCEPT !.pc = "next", !.at = Top, !.found = {},
                            !.cut = FALSE]
    /\ UNCHANGED <<world, watcher, memory, root, request, catalogue, used, ghost>>

\* Mutant: a file that could not be read confirms an absence.
RemainingFolders == IF scan.partial THEN {x \in Places : errors[x] # "none"}
                    ELSE {x \in Dirs : errors[x] = "new"}

\* The error rows that the last transaction of a walk counts.
Remaining == IF scan.partial THEN {x \in Places : errors[x] # "none"}
             ELSE {x \in Places : errors[x] = "new"}

Cleared == [x \in Places |-> IF x \in Remaining THEN errors[x] ELSE "none"]

\* A partial walk, or one that left errors, confirms no absence.
CloseUnconfirmed ==
    LET failed == Remaining # {} IN
    /\ scan' = Closed("complete")
    /\ root' = [root EXCEPT !.status = "active",
           !.error = IF @ \in {"WATCH_EVENTS_LOST", "WATCH_LIMIT"} THEN @
                     ELSE IF failed THEN "SCAN" ELSE ""]
    /\ walk' = [NoWalk EXCEPT !.pc = "ended",
                              !.result = IF failed THEN "partial" ELSE "ok"]
    /\ ghost' = [ghost EXCEPT
           !.covered = IF scan.partial THEN @ ELSE "incomplete",
           !.steady = {}]
    /\ UNCHANGED catalogue

\* Mutant: the losses up to its end are acknowledged.
CaughtUpLate == root.loss

\* The losses acknowledged: those before the start of the walk.
CaughtUpLosses == IF scan.loss > root.recovered THEN scan.loss ELSE root.recovered

\* Ghost: what a mark or an event asks to walk in a directory that is not
\* watched.  That walk may come after the directory was made again, and record
\* a file whose removal nobody hears.
Astray ==
    {x \in dirty.paths \cup tick.dirty.paths
           \cup {ToWalk(events[i]) : i \in DOMAIN events} :
        (IF x \in Paths THEN Parent[x] ELSE x) \notin armed \cap directories}

\* A full walk without errors: what it did not observe is retired, files
\* without a location are missing, the losses before its start acknowledged.
CloseConfirmed ==
    LET kept(f) == {p \in Paths : location'[p] = f}
        touched == {f \in Files : recorded[f] # 0}
    IN
    /\ scan' = [Closed("complete") EXCEPT !.confirms = TRUE]
    /\ location' = [p \in Paths |->
           IF p \in scan.observed THEN location[p] ELSE None]
    /\ \E choice \in [touched -> Paths] :
           /\ \A f \in touched : kept(f) # {} => choice[f] \in kept(f)
           /\ primary' = [f \in Files |->
                  IF f \in touched /\ kept(f) # {} THEN choice[f] ELSE primary[f]]
    /\ availability' = [f \in Files |->
           IF f \in touched /\ kept(f) = {} THEN "missing" ELSE availability[f]]
    /\ root' = [root EXCEPT !.status = "active",
           !.recovered = CaughtUpLosses,
           !.error = IF @ = "WATCH_LIMIT" THEN @
                     ELSE IF root.loss > CaughtUpLosses
                     THEN "WATCH_EVENTS_LOST" ELSE ""]
    /\ walk' = [NoWalk EXCEPT !.pc = "ended", !.result = "ok",
                              !.unwatched = walk.unwatched]
    /\ UNCHANGED recorded
    /\ ghost' = [CaughtUp EXCEPT
           !.covered = IF Astray = {} THEN "confirmed" ELSE "incomplete",
           !.steady = {}]

\* The last transaction of Scan.
CloseScan ==
    /\ walk.pc = "next" /\ scan.pending = {}
    /\ IF ~Current
       THEN /\ walk' = [NoWalk EXCEPT !.pc = "ended", !.result = "cancelled"]
            /\ UNCHANGED <<scan, root, errors, catalogue, ghost>>
       ELSE /\ errors' = Cleared
            /\ IF scan.partial \/ Remaining # {}
               THEN CloseUnconfirmed ELSE CloseConfirmed
    /\ UNCHANGED <<world, watcher, memory, request, used>>

\* scanError: the root itself cannot be read.
RootFails ==
    /\ walk.pc \in {"begin", "next", "open"}
    /\ Fault
    /\ scan' = IF scan.status = "running" THEN Closed("failed") ELSE scan
    /\ root' = IF Current
               THEN [root EXCEPT !.status = "inaccessible", !.error = "SCAN"]
               ELSE root
    /\ walk' = [NoWalk EXCEPT !.pc = "ended", !.result = "transient"]
    /\ UNCHANGED <<world, watcher, memory, request, errors, catalogue, ghost>>

\* monitorCancellation: the context of the walk ends; its row stays running.
Interrupt ==
    /\ request.cancel
    /\ walk.pc \notin {"idle", "ended"}
    /\ walk' = [NoWalk EXCEPT !.pc = "ended", !.result = "cancelled"]
    /\ UNCHANGED <<world, watcher, memory, root, request, scan, errors,
                   catalogue, used, ghost>>

\* The worker after Scan, and finish.  A partial result is not tried again.
Finish ==
    LET full == request.paths = {}
        ok   == walk.result = "ok"
        again == walk.result = "transient" /\ request.attempts < MaxAttempts
                 /\ ~request.cancel
    IN
    /\ walk.pc = "ended"
    /\ root' = IF ok /\ ~walk.unwatched /\ full /\ scan.confirms
               THEN [root EXCEPT
                        !.error = IF @ = "WATCH_LIMIT" THEN "" ELSE @,
                        !.mode = IF root.loss > root.recovered
                                 THEN "polling" ELSE "native"]
               ELSE root
    /\ request' = IF again THEN [request EXCEPT !.status = "retry_wait"]
                  ELSE NoRequest
    /\ ghost' = [ghost EXCEPT !.intact =
           @ /\ (again \/ (walk.result \in {"ok", "partial"} /\ ~request.cancel))]
    /\ walk' = NoWalk
    /\ UNCHANGED <<world, watcher, memory, scan, errors, catalogue, used>>

-----------------------------------------------------------------------------
\* Users and restarts.

Control == Incident("control")

\* CancelJob pauses the root and ends a request that waits.
Cancel ==
    /\ Control
    /\ request.status # "none"
    /\ root' = [root EXCEPT !.paused = TRUE]
    /\ request' = IF request.status = "running"
                  THEN [request EXCEPT !.cancel = TRUE] ELSE NoRequest
    /\ ghost' = [ghost EXCEPT !.intact = FALSE]
    /\ UNCHANGED <<world, watcher, memory, scan, errors, catalogue, walk>>

Verify ==
    /\ Control
    /\ Verifiable
    /\ root' = [root EXCEPT !.paused = FALSE]
    /\ request' = IF request.status = "none"
                  THEN [NoRequest EXCEPT !.status = "queued"] ELSE request
    /\ UNCHANGED <<world, watcher, memory, scan, errors, catalogue, walk, ghost>>

RetryScanErrors ==
    LET paths == {x \in Places : errors[x] # "none"} IN
    /\ Control
    /\ request.status = "none"
    /\ paths # {}
    /\ scan' = IF scan.status = "running"
               THEN Closed("superseded") ELSE scan
    /\ request' = [NoRequest EXCEPT !.status = "queued", !.paths = paths]
    /\ UNCHANGED <<world, watcher, memory, root, errors, catalogue, walk, ghost>>

ConfigureRoot ==
    \E enabled \in BOOLEAN :
        /\ Control
        /\ root' = [root EXCEPT !.revision = @ + 1,
               !.status = IF enabled THEN "active" ELSE "disabled",
               !.mode = IF enabled THEN "polling" ELSE "paused"]
        /\ UNCHANGED <<world, watcher, memory, request, scan, errors,
                       catalogue, walk, ghost>>

\* The process ends and starts again: memory and watches are gone, a running
\* request goes back (recoverJobs).
Restart ==
    /\ Incident("restart")
    /\ armed' = {} /\ events' = <<>> /\ overflow' = FALSE
    /\ directories' = {} /\ degraded' = FALSE /\ initialized' = FALSE
    /\ dirty' = Clean /\ tick' = Resting /\ walk' = NoWalk
    /\ LET lost == request.status = "running" /\
                   (request.cancel \/ request.attempts >= MaxAttempts)
       IN
          /\ request' = IF lost THEN NoRequest
                        ELSE IF request.status = "running"
                        THEN [request EXCEPT !.status = "retry_wait"] ELSE request
          /\ ghost' = [ghost EXCEPT !.intact = @ /\ ~lost, !.unsaid = {}]
    /\ UNCHANGED <<world, root, scan, errors, catalogue>>

-----------------------------------------------------------------------------
Outside == WriteFile \/ RemoveFile \/ AddFolder \/ RemoveFolder
Runtime == \/ HandleEvent \/ EventsLost \/ Enqueue \/ Unwatch
           \/ \E due, fails \in BOOLEAN : TakeMarks(due, fails)
Worker  == \/ Claim \/ BeginScan \/ NextEntry \/ ReadFolder \/ Observe
           \/ Ingest \/ LeaveEntry \/ CloseScan \/ Interrupt \/ Finish
Failures == WatchRefused \/ PathFails \/ RootFails
Users   == Cancel \/ Verify \/ RetryScanErrors \/ ConfigureRoot

Next == Outside \/ Runtime \/ Worker \/ Failures \/ Users \/ Restart

Spec == Init /\ [][Next]_vars

\* The goroutines of the runtime run; a tick may wait for marks, never for
\* the interval, so a walk that only the interval asks for is not promised.
Fairness == /\ WF_vars(HandleEvent)
            /\ WF_vars(EventsLost)
            /\ WF_vars(Enqueue)
            /\ WF_vars(TakeMarks(FALSE, FALSE))
            /\ WF_vars(Worker)

FairSpec == Spec /\ Fairness

-----------------------------------------------------------------------------
\* Properties.

\* Every directory is watched, and the runtime knows that it is.
Watched == {Top} \cup folders \subseteq armed \cap directories

\* Nothing is left to do: no event, no mark, no tick halfway, no request.
Quiet == /\ events = <<>> /\ ~overflow
         /\ initialized /\ ~dirty.on /\ tick.pc = "idle"
         /\ request.status = "none"
         /\ root.status = "active" /\ ~root.paused
         /\ \A x \in Places : errors[x] = "none"

\* Quiet and watched, with no request given up and no watch refused or taken off
\* since the last full walk began.
Attended == Quiet /\ Watched /\ ghost.intact

\* An attended root has everything that is on disk in the catalogue, with its
\* present content: registering before listing, marking what moves during a
\* walk and keeping the marks that a tick did not copy leave no gap (Scan,
\* handleWatchEvent, scheduleOnce).
QuietMeansSeen ==
    Attended /\ ghost.covered \in {"incomplete", "confirmed"}
    => \A p \in Paths : disk[p] # None => p \notin Behind

\* ... and has nothing in the catalogue that is gone from disk, if its last
\* full walk had no errors and left no mark astray: a removal always asks for
\* a walk that may confirm it, and none confirms what it has not looked at.
QuietMeansGone ==
    Attended /\ ghost.covered = "confirmed"
    => \A p \in Paths : disk[p] = None => p \notin Behind

\* In one sentence: a root with nothing left to do shows what is on disk.
QuietMeansSynced == QuietMeansSeen /\ QuietMeansGone

\* A loss of events is acknowledged only when the changes it hid have been
\* looked at (eventsLost and the generations of root_watch_recovery).
AcknowledgedMeansSeen ==
    root.recovered = root.loss => ghost.dropped = {}

\* The last transaction of a walk, whatever failed or was resumed in it, does
\* not retire what stayed in its place from its first step (Scan).
SteadyIsNotRetired ==
    [][\A p \in ghost.steady :
          location[p] # None /\ walk.pc = "next" => location'[p] # None]_vars

\* A file that is in its place, with nothing left to do after a confirmed
\* walk, is not given for missing: only a full walk confirms an absence.
MissingMeansGone ==
    Quiet /\ ghost.covered = "confirmed"
    => \A f \in Files : availability[f] = "missing" =>
           \A p \in Paths : disk[p] # f

\* Whatever order the changes, the events, the ticks and the walks take, and
\* whatever the queue discards, the catalogue of a root left to itself ends
\* up as the disk, for as long as every directory is watched and no user
\* request and no error has come between.
FollowsDisk ==
    <>[](Watched /\ used.calm => Behind = {})
=============================================================================
