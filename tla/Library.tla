------------------------------- MODULE Library -------------------------------
(***************************************************************************)
(* A library from its roots to its index: StorageRoots, Extraction and     *)
(* UploadJournal over one database, with one process that may end and      *)
(* start again.  A scan discovers the files of linked roots, an upload     *)
(* becomes a document, and the workers extract the text of both while      *)
(* users plan, confirm, pause and retire roots, change the languages,      *)
(* remove, cancel and retry.                                               *)
(*                                                                         *)
(* The transactions that belong to two of the modules are steps of both    *)
(* here: Scanned and RetireRoot (Extraction) and Publish of an upload.     *)
(***************************************************************************)
EXTENDS Extraction, UploadJournal

CONSTANTS
    Starts,         \* the modes, roots, views and plans there may be at the start,
                    \* and the commands that led there
    MaxCommands,    \* bound: what users ask for
    MaxIncidents    \* bound: writes to the files, failures and crashes

\* What ConfirmRoot, AddView and PlanRoot can have left: roots apart, each view in
\* one of them.
StartIsSound(start) ==
    /\ start.modes \in [Libs -> Sources \cup {"hybrid"}]
    /\ DOMAIN start.roots \subseteq Dirs
    /\ \A d \in DOMAIN start.roots : start.roots[d] \in Libs
    /\ \A d, e \in DOMAIN start.roots : Within(d, e) => d = e
    /\ \A v \in Views \cap DOMAIN start.views :
          LET place == start.views[v] IN
          /\ place \in Place /\ place.root \in DOMAIN start.roots
          /\ place.root \o place.relative = ViewedDir[v]
    /\ start.plans \in Seq([lib : Libs, dir : Dirs]) /\ Len(start.plans) <= MaxPlans
    /\ start.plans # << >> => DOMAIN start.roots = {}
    /\ start.commands \in 0 .. MaxCommands

ASSUME LibraryAssumption ==
    /\ Uploads = Keys /\ Contents \subseteq 1 .. MaxContents
    /\ \A start \in Starts : StartIsSound(start)
    /\ MaxCommands \in Nat /\ MaxIncidents \in Nat

VARIABLES commands, incidents
counters == <<commands, incidents>>

vars == <<rootsVars, extractionVars, journalVars, counters>>

\* An installation with these roots, just confirmed, with these views, and with
\* these plans, on the pages of users that have still to confirm them.
StartsAs(start) ==
    /\ library = [l \in Libs |-> [mode |-> start.modes[l], revision |-> 1]]
    /\ roots = [d \in Dirs |->
          IF d \in DOMAIN start.roots
          THEN [status |-> "active", lib |-> start.roots[d], source |-> "linked",
                revision |-> 1, replaced |-> FALSE]
          ELSE NoRoot]
    /\ views = [v \in Views |-> IF v \in DOMAIN start.views THEN start.views[v] ELSE NoPlace]
    /\ plans = [p \in DOMAIN start.plans |->
          [lib |-> start.plans[p].lib, dir |-> start.plans[p].dir, source |-> "linked",
           revision |-> 1, relation |-> "distinct", related |-> {}, committed |-> FALSE]]
    /\ commands = start.commands

Init ==
    /\ \E start \in Starts : StartsAs(start)
    /\ retirements = {}
    /\ located = [f \in Files |-> NoPlace]
    /\ scan = NoScan
    /\ onDisk = [f \in Files |-> 1]
    /\ language = [l \in Libs |-> "spa"]
    /\ doc = [d \in Docs |-> NoDoc]
    /\ jobs = [d \in Docs |-> <<>>]
    /\ worker = [d \in Docs |-> NoWorker]
    /\ JournalInit
    /\ incidents = 0

Command  == serving /\ commands < MaxCommands /\ commands' = commands + 1 /\ UNCHANGED incidents
Incident == incidents < MaxIncidents /\ incidents' = incidents + 1 /\ UNCHANGED commands
Works    == serving /\ UNCHANGED counters

-----------------------------------------------------------------------------
(* Uploads. *)

\* requireManaged
AdmitsUploads == library[Home].mode # "linked"

UploadCommand ==
    /\ \E s \in Slots, k \in Keys, c \in Contents : BeginUpload(s, k, c)
    /\ AdmitsUploads
    /\ UNCHANGED <<rootsVars, extractionVars>>

\* The last transaction of Upload makes the document, its version and its job.
Publication(s) ==
    /\ Stage(s)
    /\ AdmitsUploads
    /\ doc' = [doc EXCEPT ![Key(s)] =
           [NoDoc EXCEPT !.version = 1, !.content = uploader[s].content]]
    /\ jobs' = [jobs EXCEPT ![Key(s)] = <<Queued(1)>>]
    /\ UNCHANGED <<onDisk, language, worker>>

UploadStep(s) ==
    /\ \/ Publication(s)
       \/ CallStep(s) /\ UNCHANGED extractionVars
       \/ GiveUp(s) /\ UNCHANGED extractionVars
    /\ UNCHANGED rootsVars

-----------------------------------------------------------------------------
(* Everything else. *)

RootCommand ==
    /\ \/ \E l \in Libs, d \in Dirs, source \in Sources : PlanRoot(l, d, source)
       \/ \E p \in DOMAIN plans : ConfirmRoot(p)
       \/ \E v \in Views, d \in Dirs : AddView(v, d)
       \/ \E d \in Dirs, enabled \in BOOLEAN : ConfigureRoot(d, enabled)
       \/ \E l \in Libs : Extend(l)
       \/ \E d \in Dirs : RetirementPlan(d, {f \in References(d) : ~doc[f].deleted})
    /\ UNCHANGED <<extractionVars, journalVars>>

DocumentCommand ==
    /\ \/ \E r \in retirements : RetireRoot(r)
       \/ \E l \in Libs : SetLanguage(l)
       \/ UNCHANGED rootsVars /\ \E d \in Docs : RemoveIndex(d) \/ CancelJob(d) \/ Retry(d)
    /\ UNCHANGED journalVars

ScanStep ==
    /\ \/ \E f \in Files : Scanned(f)
       \/ (EndScan \/ AbandonScan) /\ UNCHANGED extractionVars
    /\ UNCHANGED journalVars

StartScan(d) == BeginScan(d) /\ UNCHANGED <<extractionVars, journalVars>>

WorkerStep(d) ==
    /\ Claim(d) \/ Prepare(d) \/ Publish(d) \/ Finish(d)
    /\ UNCHANGED <<rootsVars, journalVars>>

Monitor(d) == Interrupted(d) /\ UNCHANGED <<rootsVars, journalVars>>

Fault ==
    \/ \E f \in Files : Edit(f) /\ UNCHANGED <<rootsVars, journalVars>>
    \/ serving /\ LoseScan /\ UNCHANGED <<extractionVars, journalVars>>
    \/ serving /\ (\E d \in Docs : FailToRead(d)) /\ UNCHANGED <<rootsVars, journalVars>>
    \/ /\ serving /\ \E s \in Slots : FilesStay(s) \/ RowStays(s)
       /\ UNCHANGED <<rootsVars, extractionVars>>

\* What the process remembers is lost: its scan, its workers and its calls.
End ==
    /\ serving /\ Crash
    /\ scan' = NoScan /\ worker' = [d \in Docs |-> NoWorker]
    /\ UNCHANGED <<tables, roots, located, onDisk, language, doc, jobs>>

\* Start: recoverUploads, then recoverJobs, then the workers and the requests.
Start ==
    /\ UNCHANGED <<rootsVars, counters>>
    /\ \/ Serve /\ RestartWorkers
       \/ (\E k \in Keys : RecoveryStep(k)) /\ UNCHANGED extractionVars

Next ==
    \/ Command /\ (RootCommand \/ DocumentCommand \/ UploadCommand)
    \/ Works /\ (ScanStep \/ \E d \in Dirs : StartScan(d))
    \/ Works /\ \E d \in Docs : WorkerStep(d) \/ Monitor(d)
    \/ Works /\ \E s \in Slots : UploadStep(s)
    \/ Incident /\ (Fault \/ End)
    \/ Start

Spec == Init /\ [][Next]_vars

\* The goroutines run.  Scans are claimed by creation and each root asks for
\* one at its interval, so the walk of one root is not passed over for ever by
\* those of another.  A call of Upload ends, and a process is started again.
Fairness ==
    /\ WF_vars(Works /\ ScanStep)
    /\ \A d \in Dirs : SF_vars(Works /\ StartScan(d))
    /\ \A d \in Docs : WF_vars(Works /\ WorkerStep(d))
    /\ \A s \in Slots : WF_vars(Works /\ UploadStep(s))
    /\ WF_vars(Start)

FairSpec == Spec /\ Fairness

-----------------------------------------------------------------------------
TypeOK ==
    /\ RootsTypeOK /\ ExtractionTypeOK /\ JournalTypeOK
    /\ commands \in 0 .. MaxCommands /\ incidents \in 0 .. MaxIncidents

\* One of the two places of a document: its file on disk, for as long as it
\* is said to be there.
Reachable(d) == Live(d) /\ Openable(d)

\* Its current text is in the index, or a user has to act: the last job for
\* its version failed or a user cancelled it.
Settled(d) ==
    \/ doc[d].freshness = "current"
    \/ LET last == jobs[d][LastOf(d)] IN
       \/ last.status = "failed"
       \/ last.status = "cancelled" /\ last.cancelled

\* A file is discovered with the content it has.
Seen(f) == doc[f].version # 0 /\ doc[f].content = onDisk[f]

Scannable(f) ==
    \E d \in Dirs : Verifiable(d) /\ roots[d].source = "linked" /\ Within(d, PathOf[f])

\* The index catches up: whatever users, failures and restarts did, the files
\* of the roots that can be read are discovered, with their last content, and
\* the text of every document that can be read reaches the index in the
\* languages of its library, unless its last job failed or a user cancelled it
\* (ingest, prepareExtraction, publish, finish, recoverJobs).
IndexCatchesUp ==
    /\ \A f \in Files : <>[](Scannable(f) => Seen(f))
    /\ \A d \in Docs : <>[](Reachable(d) => Settled(d))

\* The index catches up with the files, and every upload ends stored or failed,
\* whatever restarts, failures and commands come between (Scan, publish,
\* Upload, recoverUploads).
EverythingSettles == IndexCatchesUp /\ UploadsSettle
=============================================================================
