--------------------------- MODULE Materialization ---------------------------
(***************************************************************************)
(* The definitive storage of one managed document: from a staged upload,   *)
(* through its review or direct confirmation, to a file under the managed  *)
(* root and the removal of the private temporary file.                     *)
(*                                                                         *)
(* The journal is the row of `materializations`; the worker is the one     *)
(* that claimed the operation's job.  Each write transaction is one step,  *)
(* and so is each operation on a file or a directory: a crash, an outsider *)
(* who writes in the managed root, a user and the retention sweep may come *)
(* between any two.  `entry` is the managed directory as the processes see *)
(* it and `durable` what its last synchronisation left on the disk.        *)
(*                                                                         *)
(* The lease test of checkMaterializationLease cannot fail while the       *)
(* worker lives: only a restart ends a running materialize job, and it     *)
(* ends the worker too (invariant WorkerOwnsJob).                          *)
(***************************************************************************)
EXTENDS Naturals

CONSTANTS
    Inodes,         \* bound: file identities of the managed volume
    MaxAttempts,    \* max_attempts (5 in the schema)
    Faults,         \* the kinds of fault that occur
    MaxFaults       \* bound: how many faults occur

FaultKinds == {"restart", "power", "finish", "io", "unsynced", "root", "outside", "sweep"}

ASSUME MaterializationAssumption ==
    /\ Inodes \subseteq Nat \ {0}
    /\ MaxAttempts \in Nat \ {0}
    /\ Faults \subseteq FaultKinds
    /\ MaxFaults \in Nat

VARIABLES
    document,       \* the document, its upload_items row and its review
    temp,           \* the private temporary file exists
    checked,        \* a decision has verified the bytes of this revision
    op,             \* the journal row
    job,            \* the latest job of the operation
    root,           \* the managed root
    entry,          \* the names the directory holds (0: absent)
    durable,        \* the names it would hold after a power cut
    content,        \* the bytes of each inode
    flushed,        \* the inodes whose bytes are on the disk
    worker,         \* the content worker that runs the job
    licence,        \* the licence allows the library's writes
    permitted,      \* the approver is enabled and may still approve
    struck,         \* history: an outsider hit the file after its last check
    mislaid,        \* history: a sweep that was rolled back took the private copy
    faults          \* faults so far

vars == <<document, temp, checked, op, job, root, entry, durable, content,
          flushed, worker, licence, permitted, struck, mislaid, faults>>

docVars  == <<document, temp, checked>>
diskVars == <<entry, durable, content, flushed>>
envVars  == <<root, licence, permitted, struck, mislaid, faults>>

-----------------------------------------------------------------------------
Waiting == {"queued", "retry_wait", "paused"}
Active  == Waiting \cup {"running"}

Editable == {"draft", "rejected", "pending_review"}

States == {"none", "planned", "copying", "verified", "published",
           "committed", "cleaned", "failed"}

Settled == {"committed", "cleaned"}

Steps == {"idle", "begin", "look", "adopt", "prepare", "copy", "fill",
          "flush", "mark", "link", "sync", "identify", "record", "reopen",
          "commit", "clean", "drop", "unlink", "settle", "seal", "ended"}

Causes == {"ok", "transient", "fatal", "stale", "license"}

Names == [final : Inodes \cup {0}, partial : Inodes \cup {0}]

TypeOK ==
    /\ document \in [approval : Editable \cup {"materializing", "approved",
                                                "cancelled"},
                     availability : {"staged", "available", "missing"},
                     upload : {"staged", "retained", "cleaned"},
                     expiry : {"none", "set", "due"}]
    /\ temp \in BOOLEAN
    /\ checked \in BOOLEAN
    /\ op \in [state : States, identity : Inodes \cup {0}, rootRev : 0..MaxFaults]
    /\ job \in [status : Active \cup {"none", "succeeded", "failed", "cancelled"},
                attempts : 0..MaxAttempts]
    /\ root \in [status : {"active", "inaccessible", "disabled"},
                 revision : 0..MaxFaults]
    /\ entry \in Names
    /\ durable \in Names
    /\ content \in [Inodes -> {"torn", "whole", "foreign"}]
    /\ flushed \subseteq Inodes
    /\ worker \in [pc : Steps, seen : Inodes \cup {0}, cause : Causes]
    /\ licence \in BOOLEAN
    /\ permitted \in BOOLEAN
    /\ struck \in BOOLEAN
    /\ mislaid \in BOOLEAN
    /\ faults \in 0..MaxFaults

Idle == [pc |-> "idle", seen |-> 0, cause |-> "ok"]

Init ==
    /\ document = [approval |-> "draft", availability |-> "staged",
                   upload |-> "staged", expiry |-> "none"]
    /\ temp = TRUE
    /\ checked = FALSE
    /\ op = [state |-> "none", identity |-> 0, rootRev |-> 0]
    /\ job = [status |-> "none", attempts |-> 0]
    /\ root = [status |-> "active", revision |-> 0]
    /\ entry = [final |-> 0, partial |-> 0]
    /\ durable = entry
    /\ content = [i \in Inodes |-> "torn"]
    /\ flushed = {}
    /\ worker = Idle
    /\ licence = TRUE
    /\ permitted = TRUE
    /\ struck = FALSE
    /\ mislaid = FALSE
    /\ faults = 0

\* Bound: a fault of a kind that the instance has.
Fault(kind) ==
    /\ kind \in Faults
    /\ faults < MaxFaults
    /\ faults' = faults + 1

-----------------------------------------------------------------------------
\* What users and the retention sweep do with the staged document.  Every
\* one of these transactions that changes the document bumps its revision.

Owned == document.upload \in {"staged", "retained"}

\* setUploadRetention, with any number of retention days, none included.
Retained == IF Owned THEN {"none", "set"} ELSE {document.expiry}

Revise(d) ==
    /\ document' = d
    /\ checked' = FALSE
    /\ UNCHANGED <<temp, op, job, diskVars, worker, envVars>>

SubmitReview ==
    /\ licence
    /\ document.approval \in Editable /\ document.availability = "staged"
    /\ Revise([document EXCEPT !.approval = "pending_review", !.expiry = "none"])

Reject ==
    /\ licence
    /\ document.approval = "pending_review"
    /\ \E e \in Retained :
          Revise([document EXCEPT !.approval = "rejected", !.expiry = e])

Classify ==
    /\ licence
    /\ document.approval \in Editable
    /\ Revise([document EXCEPT !.approval = "draft", !.expiry = "none"])

CancelUpload ==
    /\ licence
    /\ document.availability = "staged" /\ document.approval \in Editable
    /\ \E e \in {"none", "set"} :
          Revise([document EXCEPT !.approval = "cancelled",
                                  !.upload = "retained", !.expiry = e])

\* verifyDecisionContent: outside the transaction that decides.
CheckContent ==
    /\ document.approval \in Editable
    /\ document.availability = "staged" /\ Owned /\ temp
    /\ checked' = TRUE
    /\ UNCHANGED <<document, temp, op, job, diskVars, worker, envVars>>

\* Mutant: a decision that does not wait for the verification of the bytes.
DecidedUnchecked ==
    /\ licence /\ permitted
    /\ document.approval \in Editable /\ document.availability = "staged"
    /\ root.status = "active"

\* FinalizeDocument and DecideReview before beginApproval: the revision is
\* still the one whose bytes were verified.
Decided ==
    /\ licence /\ permitted /\ checked
    /\ document.approval \in Editable /\ document.availability = "staged"
    /\ root.status = "active"

Approve ==
    /\ Decided
    /\ op.state = "none"    \* document_id is UNIQUE in materializations
    /\ document' = [document EXCEPT !.approval = "materializing",
                                    !.expiry = "none"]
    /\ checked' = FALSE
    /\ op' = [op EXCEPT !.state = "planned", !.rootRev = root.revision]
    /\ job' = [status |-> "queued", attempts |-> 0]
    /\ UNCHANGED <<temp, diskVars, worker, envVars>>

RetentionEnds ==
    /\ document.expiry = "set"
    /\ document' = [document EXCEPT !.expiry = "due"]
    /\ UNCHANGED <<temp, checked, op, job, diskVars, worker, envVars>>

Expired ==
    /\ licence /\ Owned
    /\ document.expiry = "due"
    /\ document.approval \in {"rejected", "cancelled"}

SweepUpload ==
    /\ Expired
    /\ document' = [document EXCEPT !.upload = "cleaned",
                                    !.availability = "missing"]
    /\ temp' = FALSE
    /\ checked' = FALSE
    /\ UNCHANGED <<op, job, diskVars, worker, envVars>>

-----------------------------------------------------------------------------
\* The job of the operation.

\* The filter of claimLane.
Claimable == job.status \in Waiting /\ job.attempts < MaxAttempts

ClaimJob ==
    /\ licence
    /\ worker.pc = "idle"
    /\ Claimable
    /\ job' = [status |-> "running", attempts |-> job.attempts + 1]
    /\ worker' = [Idle EXCEPT !.pc = "begin"]
    /\ UNCHANGED <<docVars, op, diskVars, envVars>>

\* Mutant: the pause of a job that never started refunds an attempt.
PausedRefunded == [status |-> "paused", attempts |-> job.attempts - 1]

\* claimLane pauses what the licence blocks.
Paused == [job EXCEPT !.status = "paused"]

PauseJob ==
    /\ ~licence
    /\ worker.pc = "idle" /\ job.status \in Waiting
    /\ job' = Paused
    /\ UNCHANGED <<docVars, op, diskVars, worker, envVars>>

\* Mutant: only the published states survive a failed attempt.
JournalAfterLoose(state) ==
    IF state = "cleaned" THEN state ELSE "failed"

\* finish and recoverJobs on the journal row.
JournalAfter(state) ==
    IF state \in Settled THEN state ELSE "failed"

\* Mutant: the budget of attempts is not looked at.
JobAfterUnbounded(cause) ==
    CASE cause = "ok"        -> [job EXCEPT !.status = "succeeded"]
      [] cause = "license"   -> [status |-> "paused", attempts |-> job.attempts - 1]
      [] cause = "stale"     -> [job EXCEPT !.status = "cancelled"]
      [] cause = "transient" -> [job EXCEPT !.status = "retry_wait"]
      [] OTHER               -> [job EXCEPT !.status = "failed"]

\* finish on the job; a licence pause continues in a successor.
JobAfter(cause) ==
    CASE cause = "ok"      -> [job EXCEPT !.status = "succeeded"]
      [] cause = "license" -> [status |-> "paused", attempts |-> job.attempts - 1]
      [] cause = "stale"   -> [job EXCEPT !.status = "cancelled"]
      [] cause = "transient" /\ job.attempts < MaxAttempts ->
                              [job EXCEPT !.status = "retry_wait"]
      [] OTHER             -> [job EXCEPT !.status = "failed"]

FinishJob ==
    /\ worker.pc = "ended"
    /\ job' = JobAfter(worker.cause)
    /\ op' = IF worker.cause \in {"ok", "license"} THEN op
             ELSE [op EXCEPT !.state = JournalAfter(@)]
    /\ worker' = Idle
    /\ UNCHANGED <<docVars, diskVars, envVars>>

\* The error of finish is dropped: the row stays running until a restart.
FinishIsLost ==
    /\ worker.pc = "ended"
    /\ Fault("finish")
    /\ worker' = Idle
    /\ UNCHANGED <<docVars, op, job, root, diskVars, licence, permitted, struck,
                   mislaid>>

\* The process ends and the next one runs recoverJobs.
Recover ==
    /\ worker' = Idle
    /\ checked' = FALSE
    /\ IF job.status = "running"
       THEN /\ job' = [job EXCEPT !.status = IF job.attempts >= MaxAttempts
                                             THEN "failed" ELSE "retry_wait"]
            /\ op' = [op EXCEPT !.state = JournalAfter(@)]
       ELSE UNCHANGED <<job, op>>

\* cleanExpiredUploads unlinks inside its transaction, which then does not
\* commit: the rows stay as they were and the copy does not come back.  Here
\* the process ends between the two.
SweepInterrupted ==
    /\ Expired
    /\ Fault("sweep")
    /\ temp' = FALSE
    /\ Recover
    /\ UNCHANGED <<document, root, diskVars, licence, permitted, struck,
                   mislaid>>

\* Here an UPDATE, the event or the commit fails and the process goes on.  The
\* revision is not bumped, so a verification that has passed still counts.
SweepRolledBack ==
    /\ Expired
    /\ Fault("sweep")
    /\ temp' = FALSE
    /\ mislaid' = TRUE
    /\ UNCHANGED <<document, checked, op, job, root, diskVars, worker, licence,
                   permitted, struck>>

\* A name that was not synchronised is kept or lost, bytes that were not are
\* whole or torn; what the machine finds when it comes back is on the disk.
LoseUnsynced ==
    /\ \E f \in {entry.final, durable.final},
          p \in {entry.partial, durable.partial} :
          /\ entry' = [final |-> f, partial |-> p]
          /\ durable' = entry'
    /\ \E damaged \in SUBSET {i \in Inodes \ flushed : content[i] = "whole"} :
          content' = [i \in Inodes |->
                        IF i \in damaged THEN "torn" ELSE content[i]]
    /\ flushed' = Inodes

\* The process ends, alone or with the machine, and another one starts.
Restart ==
    \E kind \in {"restart", "power"} :
        /\ Fault(kind)
        /\ Recover
        /\ IF kind = "power" THEN LoseUnsynced ELSE UNCHANGED diskVars
        /\ UNCHANGED <<document, temp, root, licence, permitted, struck,
                   mislaid>>

\* The operation is not over and no job is at it.
Retriable == op.state \notin {"none", "cleaned"} /\ job.status \notin Active

RetryMaterialization ==
    /\ licence
    /\ Retriable
    /\ root.status = "active"
    /\ op' = [op EXCEPT !.rootRev = root.revision,
                        !.state = IF @ = "failed" THEN "planned" ELSE @]
    /\ job' = [status |-> "queued", attempts |-> 0]
    /\ UNCHANGED <<docVars, diskVars, worker, envVars>>

-----------------------------------------------------------------------------
\* The steps of Materialize.

LicenceChecks == {"begin", "look", "adopt", "prepare", "mark", "record",
                  "commit", "clean", "seal"}

Go(pc)      == worker' = [worker EXCEPT !.pc = pc]
GoSeen(pc, inode) == worker' = [worker EXCEPT !.pc = pc, !.seen = inode]
Stop(cause) == worker' = [worker EXCEPT !.pc = "ended", !.cause = cause]

\* A step that only looks, and goes on or stops.
Look(pc) == /\ worker.pc = pc
            /\ pc \in LicenceChecks => licence
            /\ UNCHANGED <<docVars, op, job, diskVars, envVars>>

\* materializationState
Journal(state, inode) ==
    op' = [op EXCEPT !.state = state,
                     !.identity = IF inode = 0 THEN @ ELSE inode]

LicenceRefused ==
    /\ worker.pc \in LicenceChecks
    /\ ~licence
    /\ Stop("license")
    /\ UNCHANGED <<docVars, op, job, diskVars, envVars>>

RootReady == root.status = "active" /\ root.revision = op.rootRev

Begin ==
    /\ Look("begin")
    /\ \/ /\ op.state = "cleaned"
          /\ Stop("ok")
       \/ /\ op.state # "cleaned" /\ ~RootReady
          /\ Stop("transient")
       \/ /\ op.state # "cleaned" /\ RootReady
          /\ IF op.state = "committed" THEN GoSeen("clean", op.identity)
             ELSE Go("look")

\* The definitive file is the operation's own.
Ours(inode) == inode \in {op.identity, entry.partial}

Whole(inode) == inode # 0 /\ content[inode] = "whole"

FindFinal ==
    /\ entry.final # 0
    /\ Look("look")
    /\ IF Ours(entry.final) /\ Whole(entry.final)
       THEN GoSeen("adopt", entry.final)
       ELSE Stop("fatal")

FindNothing ==
    /\ entry.final = 0
    /\ op.identity # 0
    /\ Look("look")
    /\ Stop("fatal")

\* Only a partial with the expected bytes can be published; another one is
\* removed.
FindPartial ==
    /\ entry.final = 0 /\ op.identity = 0
    /\ worker.pc = "look" /\ licence
    /\ entry' = [entry EXCEPT !.partial = IF Whole(@) THEN @ ELSE 0]
    /\ Go(IF Whole(entry.partial) THEN "mark" ELSE "prepare")
    /\ UNCHANGED <<docVars, op, job, durable, content, flushed, envVars>>

\* A definitive file found by a retry is recorded as published.
Adopt ==
    /\ worker.pc = "adopt" /\ licence
    /\ Journal("published", worker.seen)
    /\ Go("reopen")
    /\ UNCHANGED <<docVars, job, diskVars, envVars>>

PrepareCopy ==
    /\ worker.pc = "prepare" /\ licence
    /\ Journal("copying", 0)
    /\ Go("copy")
    /\ UNCHANGED <<docVars, job, diskVars, envVars>>

\* An inode that no name refers to may be given again.
Unused == Inodes \ {entry.final, entry.partial, durable.final, durable.partial}

\* openUpload, then the exclusive creation of the partial.
OpenPartial ==
    /\ worker.pc = "copy"
    /\ IF Owned /\ temp
       THEN /\ \E i \in Unused :
                  /\ entry' = [entry EXCEPT !.partial = i]
                  /\ content' = [content EXCEPT ![i] = "torn"]
                  /\ flushed' = flushed \ {i}
            /\ Go("fill")
       ELSE /\ Stop("transient")
            /\ UNCHANGED <<entry, content, flushed>>
    /\ UNCHANGED <<docVars, op, job, durable, envVars>>

FillPartial ==
    /\ worker.pc = "fill"
    /\ content' = [content EXCEPT ![entry.partial] = "whole"]
    /\ Go("flush")
    /\ UNCHANGED <<docVars, op, job, entry, durable, flushed, envVars>>

FlushPartial ==
    /\ worker.pc = "flush"
    /\ flushed' = flushed \cup {entry.partial}
    /\ Go("mark")
    /\ UNCHANGED <<docVars, op, job, entry, durable, content, envVars>>

MarkVerified ==
    /\ worker.pc = "mark" /\ licence
    /\ Journal("verified", 0)
    /\ Go("link")
    /\ UNCHANGED <<docVars, job, diskVars, envVars>>

\* Mutant: the publication replaces what is there, as a rename would.
PublishOver(final, partial) == partial

\* Link refuses to replace a file that is there.
Publish(final, partial) == IF final = 0 THEN partial ELSE final

LinkFinal ==
    /\ worker.pc = "link"
    /\ entry' = [entry EXCEPT !.final = Publish(@, entry.partial)]
    /\ IF entry'.final = entry.partial THEN Go("sync") ELSE Stop("transient")
    /\ UNCHANGED <<docVars, op, job, durable, content, flushed, envVars>>

\* Mutant: the directory is not synchronised (what Windows does).
SyncedNone(names) == durable

\* syncManagedDirectory on Unix.
Synced(names) == names

SyncDirectory ==
    /\ worker.pc = "sync"
    /\ durable' = Synced(entry)
    /\ Go("identify")
    /\ UNCHANGED <<docVars, op, job, entry, content, flushed, envVars>>

IdentifyFinal ==
    /\ Look("identify")
    /\ IF entry.final = 0 THEN Stop("fatal") ELSE GoSeen("record", entry.final)

RecordPublished ==
    /\ worker.pc = "record" /\ licence
    /\ Journal("published", worker.seen)
    /\ Go("reopen")
    /\ UNCHANGED <<docVars, job, diskVars, envVars>>

\* The file is opened again from the recorded root and hashed.
Reopen ==
    /\ Look("reopen")
    /\ \/ entry.final = 0 /\ Stop("transient")
       \/ entry.final # 0 /\ ~Whole(entry.final) /\ Stop("fatal")
       \/ Whole(entry.final) /\ GoSeen("commit", entry.final)

\* Mutant: the approver is not authorised again.
CommitRefusalStale ==
    IF root.revision # op.rootRev \/ root.status = "disabled"
    THEN "stale" ELSE "ok"

\* What commitMaterialization revalidates, in its order.
CommitRefusal ==
    CASE root.revision # op.rootRev \/ root.status = "disabled" -> "stale"
      [] ~permitted \/ document.approval # "materializing"      -> "fatal"
      [] OTHER                                                  -> "ok"

CommitApproval ==
    /\ worker.pc = "commit" /\ licence
    /\ CommitRefusal = "ok"
    /\ document' = [approval |-> "approved", availability |-> "available",
                    upload |-> "cleaned", expiry |-> "none"]
    /\ checked' = FALSE
    /\ op' = [op EXCEPT !.state = "committed", !.identity = worker.seen]
    /\ Go("clean")
    /\ UNCHANGED <<temp, job, diskVars, envVars>>

CommitRefused ==
    /\ Look("commit")
    /\ CommitRefusal # "ok"
    /\ Stop(CommitRefusal)

\* cleanupMaterialization: the definitive file is whole and the one recorded.
Cleanable == Whole(entry.final) /\ entry.final = worker.seen

Clean ==
    /\ Look("clean")
    /\ \/ Cleanable /\ Go("drop")
       \/ ~Cleanable /\ Stop(IF entry.final = 0 THEN "transient" ELSE "fatal")

DropTemporary ==
    /\ worker.pc = "drop"
    /\ temp' = FALSE
    /\ Go("unlink")
    /\ UNCHANGED <<document, checked, op, job, diskVars, envVars>>

UnlinkPartial ==
    /\ worker.pc = "unlink"
    /\ entry' = [entry EXCEPT !.partial = 0]
    /\ Go("settle")
    /\ UNCHANGED <<docVars, op, job, durable, content, flushed, envVars>>

SettleDirectory ==
    /\ worker.pc = "settle"
    /\ durable' = Synced(entry)
    /\ Go("seal")
    /\ UNCHANGED <<docVars, op, job, entry, content, flushed, envVars>>

Seal ==
    /\ worker.pc = "seal" /\ licence
    /\ Journal("cleaned", worker.seen)
    /\ Stop("ok")
    /\ UNCHANGED <<docVars, job, diskVars, envVars>>

\* An operation on the disk fails.  finish retries the codes it lists: those of
\* some places are all there, that of the private copy's removal is not, and at
\* the others it depends on which call fails and how.
Retried == {"flush", "link", "unlink"}

Fallible == {"begin", "look", "copy", "fill", "flush", "link", "sync",
             "identify", "reopen", "clean", "drop", "unlink", "settle"}

DiskFails ==
    /\ worker.pc \in Fallible
    /\ Fault(IF worker.pc \in {"flush", "sync"} THEN "unsynced" ELSE "io")
    /\ \E cause \in {"transient", "fatal"} :
          /\ worker.pc \in Retried => cause = "transient"
          /\ worker.pc = "drop" => cause = "fatal"
          /\ Stop(cause)
    /\ UNCHANGED <<docVars, op, job, root, diskVars, licence, permitted, struck,
                   mislaid>>

-----------------------------------------------------------------------------
\* The rest of the world.

ToggleLicence ==
    /\ licence' = ~licence
    /\ UNCHANGED <<docVars, op, job, root, diskVars, worker, permitted, struck,
                   mislaid, faults>>

TogglePermission ==
    /\ permitted' = ~permitted
    /\ UNCHANGED <<docVars, op, job, root, diskVars, worker, licence, struck,
                   mislaid, faults>>

\* ConfigureRoot
ConfigureRoot ==
    /\ licence
    /\ Fault("root")
    /\ \E s \in {"active", "disabled"} :
          root' = [status |-> s, revision |-> root.revision + 1]
    /\ UNCHANGED <<docVars, op, job, diskVars, worker, licence, permitted, struck,
                   mislaid>>

\* A verification of the root cannot reach it (scanError).
RootUnreachable ==
    /\ root.status = "active"
    /\ Fault("root")
    /\ root' = [root EXCEPT !.status = "inaccessible"]
    /\ UNCHANGED <<docVars, op, job, diskVars, worker, licence, permitted, struck,
                   mislaid>>

\* A verification of the root ends well (VerifyManagedRoot).
RootReachable ==
    /\ root.status = "inaccessible"
    /\ root' = [root EXCEPT !.status = "active"]
    /\ UNCHANGED <<docVars, op, job, diskVars, worker, licence, permitted,
                   struck, mislaid, faults>>

\* An outsider writes at the definitive name.
OutsiderPlaces ==
    /\ entry.final = 0
    /\ Fault("outside")
    /\ \E i \in Unused :
          /\ entry' = [entry EXCEPT !.final = i]
          /\ durable' = [durable EXCEPT !.final = i]
          /\ content' = [content EXCEPT ![i] = "foreign"]
          /\ flushed' = flushed \cup {i}
    /\ UNCHANGED <<docVars, op, job, root, worker, licence, permitted, struck,
                   mislaid>>

\* The last check is past: the private copy is gone or about to go.
LastCheckPast == ~temp \/ worker.pc = "drop"

OutsiderRemoves ==
    /\ entry.final # 0
    /\ Fault("outside")
    /\ entry' = [entry EXCEPT !.final = 0]
    /\ durable' = [durable EXCEPT !.final = 0]
    /\ struck' = (struck \/ LastCheckPast)
    /\ UNCHANGED <<docVars, op, job, root, content, flushed, worker, licence,
                   permitted, mislaid>>

OutsiderAlters ==
    /\ entry.final # 0
    /\ Fault("outside")
    /\ content' = [content EXCEPT ![entry.final] = "foreign"]
    /\ struck' = (struck \/ LastCheckPast)
    /\ UNCHANGED <<docVars, op, job, root, entry, durable, flushed, worker,
                   licence, permitted, mislaid>>

-----------------------------------------------------------------------------
UserStep == \/ SubmitReview \/ Reject \/ Classify \/ CancelUpload
            \/ CheckContent \/ Approve \/ RetryMaterialization

WorkerStep ==
    \/ LicenceRefused \/ Begin
    \/ FindFinal \/ FindNothing \/ FindPartial \/ Adopt
    \/ PrepareCopy \/ OpenPartial \/ FillPartial
    \/ FlushPartial \/ MarkVerified \/ LinkFinal \/ SyncDirectory
    \/ IdentifyFinal \/ RecordPublished
    \/ Reopen \/ CommitApproval \/ CommitRefused
    \/ Clean \/ DropTemporary \/ UnlinkPartial \/ SettleDirectory \/ Seal
    \/ FinishJob

FaultStep ==
    \/ FinishIsLost \/ Restart \/ SweepInterrupted \/ SweepRolledBack \/ DiskFails
    \/ OutsiderPlaces \/ OutsiderRemoves \/ OutsiderAlters

WorldStep ==
    \/ RetentionEnds \/ ToggleLicence \/ TogglePermission
    \/ ConfigureRoot \/ RootUnreachable \/ RootReachable

Next == UserStep \/ SweepUpload \/ ClaimJob \/ PauseJob \/ WorkerStep
        \/ FaultStep \/ WorldStep

Spec == Init /\ [][Next]_vars

\* The runtime keeps a content worker polling and a worker goes on with what
\* it has started; no user, sweep or repair is owed.
FairSpec == Spec /\ WF_vars(ClaimJob) /\ WF_vars(WorkerStep)

-----------------------------------------------------------------------------
\* Properties.

\* The worker runs the job that the queue says is running, and the document
\* of an operation that has not committed waits for it: what a user, a sweep
\* or a retry does meanwhile never takes either from under the worker, so the
\* lease and the revision tested by every transaction are still its own.
WorkerOwnsJob ==
    /\ worker.pc # "idle" => job.status = "running"
    /\ (op.state # "none" /\ op.state \notin Settled) =>
          document.approval = "materializing"

\* The document is approved and readable exactly when the journal says the
\* operation committed, whatever the crashes between the transactions; and a
\* job that succeeded leaves nothing to clean.
JournalAgrees ==
    /\ (op.state \in Settled) <=> (document.approval = "approved")
    /\ (op.state \in Settled) <=> (document.availability = "available")
    /\ job.status = "succeeded" =>
          op.state = "cleaned" /\ ~temp /\ entry.partial = 0

\* The three rows of an approval - its document, its job and its journal - tell
\* one story, although they are written by different transactions.
RowsAgree == WorkerOwnsJob /\ JournalAgrees

\* The document was accepted.  A decision may have been taken over a copy that a
\* rolled-back sweep had taken after its verification: then the document waits
\* for a storage that cannot come, and is excused until it is approved.
Accepted ==
    \/ document.approval = "approved"
    \/ document.approval = "materializing" /\ ~mislaid

\* The bytes of an accepted document exist: the private copy is there, or the
\* definitive file is whole and is the one the journal names, unless somebody
\* struck it after the last verification.
BytesHeld ==
    Accepted =>
        \/ temp
        \/ Whole(entry.final) /\ entry.final = op.identity
        \/ struck

\* A power cut would not lose the bytes either: without the private copy, the
\* definitive name and its bytes are on the disk.
DurableBytes ==
    Accepted =>
        \/ temp
        \/ /\ durable.final # 0
           /\ durable.final \in flushed
           /\ content[durable.final] = "whole"
        \/ struck

\* No restart and no power cut takes a document that was accepted.
BytesSurvive == BytesHeld /\ DurableBytes

\* A document that waits for a review, or for a storage that the journal does not
\* know published, has its private copy: cleanExpiredUploads holds the writer so
\* that "submission/cancellation cannot race retention" (managed_integrity.go:206),
\* and a failure before or during the copy leaves the "Temporal intacto"
\* (docs/STORAGE_WATCHER.md:145).
StagedHasBytes ==
    \/ document.approval = "pending_review"
    \/ document.approval = "materializing" /\ op.state \in {"planned", "copying"}
    => temp

\* Nothing the application does replaces or removes a file found at the
\* definitive name; only an outsider or a power cut does.
NeverReplaced ==
    [][entry'.final # entry.final => entry.final = 0 \/ faults' # faults]_vars

\* The decision that was authorised is not committed for an approver who lost
\* the permission, under another plan of the root, or without the licence.
CommitIsAuthorised ==
    [][document'.approval = "approved" /\ document.approval # "approved" =>
          /\ permitted /\ licence
          /\ root.revision = op.rootRev /\ root.status # "disabled"]_vars

\* The life of the document is that of ManagedPublication.
Publication == INSTANCE ManagedPublication WITH
    decision <- CASE document.approval = "materializing" -> "taken"
                  [] document.approval = "approved"      -> "approved"
                  [] OTHER                               -> "open",
    copy     <- temp,
    verified <- checked,
    final    <- IF entry.final = 0 THEN "absent"
                ELSE IF Whole(entry.final) THEN "whole" ELSE "damaged",
    seen     <- worker.pc \in {"commit", "drop"}

ImplementsPublication == Publication!Spec

\* Once the licence stays, an approval in progress ends: the file is stored and
\* cleaned, or its job ends in a state from which a user can retry it, or the
\* end of the job could not be recorded and waits for the next start.
EndUnrecorded == job.status = "running" /\ worker.pc = "idle"

ApprovalSettles ==
    <>[]licence =>
        (document.approval = "materializing"
            ~> \/ op.state = "cleaned"
               \/ job.status \in {"failed", "cancelled"}
               \/ EndUnrecorded)

=============================================================================
