----------------------- MODULE Materialization_proofs -----------------------
(***************************************************************************)
(* Proofs about Materialization, for any number of inodes, attempts and    *)
(* faults.  Inv relates the rows, the worker's place and the files; it is  *)
(* kept by every step and gives the agreement of the rows, the authority   *)
(* of a commit and the refinement of ManagedPublication.  Kept and OnDisk  *)
(* strengthen it for the bytes: the first says what whoever cleans has     *)
(* seen, the second what a power cut would leave.                          *)
(***************************************************************************)
EXTENDS Materialization, TLAPS

DocumentTypes == [approval : Editable \cup {"materializing", "approved", "cancelled"},
                  availability : {"staged", "available", "missing"},
                  upload : {"staged", "retained", "cleaned"},
                  expiry : {"none", "set", "due"}]
OpTypes     == [state : States, identity : Inodes \cup {0}, rootRev : 0..MaxFaults]
JobTypes    == [status : Active \cup {"none", "succeeded", "failed", "cancelled"},
                attempts : 0..MaxAttempts]
RootTypes   == [status : {"active", "inaccessible", "disabled"}, revision : 0..MaxFaults]
WorkerTypes == [pc : Steps, seen : Inodes \cup {0}, cause : Causes]
ContentTypes == [Inodes -> {"torn", "whole", "foreign"}]

\* TypeOK, with each record's type by its name.
Typed ==
    /\ document \in DocumentTypes /\ temp \in BOOLEAN /\ checked \in BOOLEAN
    /\ op \in OpTypes /\ job \in JobTypes /\ root \in RootTypes
    /\ entry \in Names /\ durable \in Names /\ content \in ContentTypes
    /\ flushed \in SUBSET Inodes /\ worker \in WorkerTypes
    /\ licence \in BOOLEAN /\ permitted \in BOOLEAN /\ struck \in BOOLEAN
    /\ mislaid \in BOOLEAN
    /\ faults \in 0..MaxFaults

\* The steps before the commit, and those after it.
Storing  == {"look", "adopt", "prepare", "copy", "fill", "flush", "mark", "link",
             "sync", "identify", "record", "reopen", "commit"}
Cleaning == {"clean", "drop", "unlink", "settle", "seal"}

\* The rows: a job has its journal, a running one an attempt, and the worker is
\* on the side of the commit on which the journal is.
RowsHold ==
    /\ op.state = "none" <=> job.status = "none"
    /\ job.status = "running" => job.attempts # 0
    /\ worker.pc \in Storing => op.state \notin Settled
    /\ worker.pc \in Cleaning => op.state = "committed"
    /\ worker.pc = "ended" /\ worker.cause = "ok" => op.state = "cleaned"

\* The private copy is there from the check of its content to the cleaning, but
\* for a sweep that was rolled back after the check.
CopyHolds ==
    /\ checked => (temp \/ mislaid) /\ document.approval \in Editable
    /\ document.approval = "materializing" => temp \/ mislaid

\* What the cleaning removed stays removed.
RemovedHolds ==
    /\ worker.pc \in {"unlink", "settle", "seal"} \/ op.state = "cleaned" => ~temp
    /\ worker.pc \in {"settle", "seal"} \/ op.state = "cleaned" => entry.partial = 0
    /\ worker.pc = "seal" \/ op.state = "cleaned" => durable.partial = 0

\* The partial is a file of the worker's own until it is published.
PartialHolds ==
    /\ worker.pc \in {"fill", "flush", "mark", "link"} =>
          entry.partial # 0 /\ entry.partial # entry.final
    /\ worker.pc \in {"flush", "mark", "link"} => content[entry.partial] = "whole"
    /\ durable.final \in {0, entry.final}

Counted == root.revision <= faults

Inv == Typed /\ Counted /\ RowsAgree /\ RowsHold /\ CopyHolds /\ RemovedHolds
       /\ PartialHolds


\* A user's change of the staged document.
LEMMA RevisionInv ==
    ASSUME Inv, NEW d \in DocumentTypes, Revise(d),
           document.approval \in Editable, d.availability = document.availability,
           d.approval \in Editable \cup {"cancelled"}
    PROVE  Inv'
<1>1. document' = d /\ document' \in DocumentTypes
  BY DEF Revise
<1>2. Typed'
  BY <1>1 DEF Inv, Revise, diskVars, envVars, Typed
<1>3. (Counted /\ RowsAgree /\ RowsHold /\ CopyHolds)'
  BY <1>1 DEF Inv, Revise, diskVars, envVars, Counted, RowsAgree, WorkerOwnsJob,
     JournalAgrees,
       RowsHold, CopyHolds, Settled, Editable
<1>4. (RemovedHolds /\ PartialHolds)'
  BY DEF Inv, Revise, diskVars, envVars, RemovedHolds, PartialHolds
<1> QED BY <1>2, <1>3, <1>4 DEF Inv

\* A step of the worker that changes nothing else.
LEMMA LookInv ==
    ASSUME Inv, worker' \in WorkerTypes, UNCHANGED <<docVars, op, job, diskVars>>,
           UNCHANGED <<root, licence, permitted, struck, mislaid>>,
           faults' \in faults .. MaxFaults,
           worker'.pc # "idle" => worker.pc # "idle",
           worker'.pc \in Storing => op.state \notin Settled,
           worker'.pc \in Cleaning => op.state = "committed",
           worker'.pc = "ended" /\ worker'.cause = "ok" => op.state = "cleaned",
           worker'.pc \notin {"unlink", "settle", "seal"},
           worker'.pc \notin {"fill", "flush", "mark", "link"}
    PROVE  Inv'
<1>2. Typed'
  BY MaterializationAssumption DEF Inv, docVars, diskVars, Typed
<1>1. Counted'
  BY MaterializationAssumption DEF Inv, Counted, Typed, RootTypes
<1>3. (RowsAgree /\ RowsHold /\ CopyHolds)'
  BY DEF Inv, docVars, diskVars, RowsAgree, WorkerOwnsJob, JournalAgrees,
       RowsHold, CopyHolds, Settled
<1>4. (RemovedHolds /\ PartialHolds)'
  BY DEF Inv, docVars, diskVars, RemovedHolds, PartialHolds
<1> QED BY <1>1, <1>2, <1>3, <1>4 DEF Inv

\* What users do with the document.
LEMMA UserInv ==
    ASSUME Inv, UserStep
    PROVE  Inv'
<1>0. /\ document \in DocumentTypes /\ op \in OpTypes /\ job \in JobTypes /\ root \in RootTypes
      /\ entry \in Names /\ durable \in Names /\ content \in ContentTypes
      /\ worker \in WorkerTypes /\ faults \in 0 .. MaxFaults
  BY DEF Inv, Typed
<1>1. CASE SubmitReview
  BY <1>0, <1>1, RevisionInv DEF SubmitReview, DocumentTypes, Editable
<1>2. CASE Reject
  BY <1>0, <1>2, RevisionInv DEF Reject, DocumentTypes, Editable, Retained
<1>3. CASE Classify
  BY <1>0, <1>3, RevisionInv DEF Classify, DocumentTypes, Editable
<1>4. CASE CancelUpload
  BY <1>0, <1>4, RevisionInv DEF CancelUpload, DocumentTypes, Editable
<1>5. CASE CheckContent
  <2>1. temp /\ document.approval \in Editable
    BY <1>0, <1>5, MaterializationAssumption DEF CheckContent, diskVars, envVars, Editable
  <2>2. Typed'
    BY <1>5, <2>1, <1>0, MaterializationAssumption DEF Inv, CheckContent, diskVars, envVars,
       Typed
  <2>3. Counted'
    BY <1>5, <2>1, <1>0 DEF Inv, CheckContent, diskVars, envVars, Counted
  <2>4. (RowsAgree /\ RowsHold /\ CopyHolds)'
    BY <1>5, <2>1 DEF Inv, CheckContent, diskVars, envVars, RowsAgree, WorkerOwnsJob,
       JournalAgrees, RowsHold, CopyHolds, Settled, Storing, Cleaning, Editable
  <2>5. (RemovedHolds /\ PartialHolds)'
    BY <1>5, <2>1, <1>0 DEF Inv, CheckContent, diskVars, envVars, RemovedHolds,
       PartialHolds, RowsAgree, JournalAgrees, RowsHold, Settled, Storing, Cleaning
  <2> QED BY <2>2, <2>3, <2>4, <2>5 DEF Inv
<1>6. CASE Approve
  <2>1. document' \in DocumentTypes /\ document'.approval = "materializing"
        /\ document'.availability = document.availability
    BY <1>0, <1>6, MaterializationAssumption DEF Approve, diskVars, envVars, Decided,
       DocumentTypes
  <2>2. op' \in OpTypes /\ op'.state = "planned" /\ op.state = "none"
    BY <1>0, <1>6, <2>1, MaterializationAssumption DEF Approve, diskVars, envVars, Decided,
       OpTypes, RootTypes, States
  <2>3. job' \in JobTypes /\ job'.status = "queued"
    BY <1>0, <1>6, <2>1, <2>2, MaterializationAssumption DEF Approve, diskVars, envVars,
       Decided, JobTypes, Active, Waiting
  <2>4. document.availability = "staged" /\ document.approval \in Editable /\ checked
    BY <1>0, <1>6, <2>1, <2>2, <2>3, MaterializationAssumption DEF Approve, diskVars,
       envVars, Decided, Decided
  <2>5. Typed'
    BY <1>6, <2>1, <2>2, <2>3, <2>4, <1>0, MaterializationAssumption DEF Inv, Approve,
       diskVars, envVars, Decided, Typed
  <2>6. Counted'
    BY <1>6, <2>1, <2>2, <2>3, <2>4, <1>0 DEF Inv, Approve, diskVars, envVars, Decided,
       Counted
  <2>7. (RowsAgree /\ RowsHold /\ CopyHolds)'
    BY <1>6, <2>1, <2>2, <2>3, <2>4 DEF Inv, Approve, diskVars, envVars, Decided, RowsAgree,
       WorkerOwnsJob, JournalAgrees, RowsHold, CopyHolds, Settled, Storing, Cleaning,
       Editable
  <2>8. (RemovedHolds /\ PartialHolds)'
    BY <1>6, <2>1, <2>2, <2>3, <2>4, <1>0 DEF Inv, Approve, diskVars, envVars, Decided,
       RemovedHolds, PartialHolds, RowsAgree, JournalAgrees, RowsHold, Settled, Storing,
       Cleaning
  <2> QED BY <2>5, <2>6, <2>7, <2>8 DEF Inv
<1>7. CASE RetryMaterialization
  <2>1. op' \in OpTypes /\ op'.state = IF op.state = "failed" THEN "planned" ELSE op.state
    BY <1>0, <1>7, MaterializationAssumption DEF RetryMaterialization, docVars, diskVars,
       envVars, OpTypes, RootTypes, States
  <2>2. job' \in JobTypes /\ job'.status = "queued"
    BY <1>0, <1>7, <2>1, MaterializationAssumption DEF RetryMaterialization, docVars,
       diskVars, envVars, JobTypes, Active, Waiting
  <2>3. op.state \notin {"none", "cleaned"} /\ job.status # "running"
    BY <1>0, <1>7, <2>1, <2>2, MaterializationAssumption DEF RetryMaterialization, docVars,
       diskVars, envVars, Retriable, Active
  <2>4. Typed'
    BY <1>7, <2>1, <2>2, <2>3, <1>0, MaterializationAssumption DEF Inv,
       RetryMaterialization, docVars, diskVars, envVars, Typed
  <2>5. Counted'
    BY <1>7, <2>1, <2>2, <2>3, <1>0 DEF Inv, RetryMaterialization, docVars, diskVars,
       envVars, Counted
  <2>6. (RowsAgree /\ RowsHold /\ CopyHolds)'
    BY <1>7, <2>1, <2>2, <2>3 DEF Inv, RetryMaterialization, docVars, diskVars, envVars,
       RowsAgree, WorkerOwnsJob, JournalAgrees, RowsHold, CopyHolds, Settled, Storing,
       Cleaning, Editable
  <2>7. (RemovedHolds /\ PartialHolds)'
    BY <1>7, <2>1, <2>2, <2>3, <1>0 DEF Inv, RetryMaterialization, docVars, diskVars,
       envVars, RemovedHolds, PartialHolds, RowsAgree, JournalAgrees, RowsHold, Settled,
       Storing, Cleaning
  <2> QED BY <2>4, <2>5, <2>6, <2>7 DEF Inv
<1> QED BY <1>1, <1>2, <1>3, <1>4, <1>5, <1>6, <1>7 DEF UserStep

\* The sweep of retention, and the queue.
LEMMA QueueInv ==
    ASSUME Inv, SweepUpload \/ RetentionEnds \/ ClaimJob \/ PauseJob
    PROVE  Inv'
<1>0. /\ document \in DocumentTypes /\ op \in OpTypes /\ job \in JobTypes /\ root \in RootTypes
      /\ entry \in Names /\ durable \in Names /\ content \in ContentTypes
      /\ worker \in WorkerTypes /\ faults \in 0 .. MaxFaults
  BY DEF Inv, Typed
<1>1. CASE SweepUpload
  <2>1. document' \in DocumentTypes /\ document'.approval = document.approval
        /\ document.approval \in {"rejected", "cancelled"}
    BY <1>0, <1>1, MaterializationAssumption DEF SweepUpload, diskVars, envVars,
       DocumentTypes, Expired
  <2>2. document'.availability = "missing"
    BY <1>0, <1>1, <2>1, MaterializationAssumption DEF SweepUpload, diskVars, envVars,
       DocumentTypes
  <2>3. Typed'
    BY <1>1, <2>1, <2>2, <1>0, MaterializationAssumption DEF Inv, SweepUpload, diskVars,
       envVars, Typed
  <2>4. Counted'
    BY <1>1, <2>1, <2>2, <1>0 DEF Inv, SweepUpload, diskVars, envVars, Counted
  <2>5. (RowsAgree /\ RowsHold /\ CopyHolds)'
    BY <1>1, <2>1, <2>2 DEF Inv, SweepUpload, diskVars, envVars, RowsAgree, WorkerOwnsJob,
       JournalAgrees, RowsHold, CopyHolds, Settled, Storing, Cleaning, Editable
  <2>6. (RemovedHolds /\ PartialHolds)'
    BY <1>1, <2>1, <2>2, <1>0 DEF Inv, SweepUpload, diskVars, envVars, RemovedHolds,
       PartialHolds, RowsAgree, JournalAgrees, RowsHold, Settled, Storing, Cleaning
  <2> QED BY <2>3, <2>4, <2>5, <2>6 DEF Inv
<1>2. CASE RetentionEnds
  <2>1. document' \in DocumentTypes /\ document'.approval = document.approval
        /\ document'.availability = document.availability
    BY <1>0, <1>2, MaterializationAssumption DEF RetentionEnds, diskVars, envVars,
       DocumentTypes
  <2>2. Typed'
    BY <1>2, <2>1, <1>0, MaterializationAssumption DEF Inv, RetentionEnds, diskVars,
       envVars, Typed
  <2>3. Counted'
    BY <1>2, <2>1, <1>0 DEF Inv, RetentionEnds, diskVars, envVars, Counted
  <2>4. (RowsAgree /\ RowsHold /\ CopyHolds)'
    BY <1>2, <2>1 DEF Inv, RetentionEnds, diskVars, envVars, RowsAgree, WorkerOwnsJob,
       JournalAgrees, RowsHold, CopyHolds, Settled, Storing, Cleaning, Editable
  <2>5. (RemovedHolds /\ PartialHolds)'
    BY <1>2, <2>1, <1>0 DEF Inv, RetentionEnds, diskVars, envVars, RemovedHolds,
       PartialHolds, RowsAgree, JournalAgrees, RowsHold, Settled, Storing, Cleaning
  <2> QED BY <2>2, <2>3, <2>4, <2>5 DEF Inv
<1>3. CASE ClaimJob
  <2>1. job' \in JobTypes /\ job'.status = "running" /\ job'.attempts # 0
        /\ job.status \notin {"none", "succeeded"}
    BY <1>0, <1>3, MaterializationAssumption DEF ClaimJob, docVars, diskVars, envVars,
       JobTypes, Active, Waiting, Claimable
  <2>2. worker' \in WorkerTypes /\ worker'.pc = "begin"
    BY <1>0, <1>3, <2>1, MaterializationAssumption DEF ClaimJob, docVars, diskVars, envVars,
       WorkerTypes, Steps, Causes, Idle
  <2>3. Typed'
    BY <1>3, <2>1, <2>2, <1>0, MaterializationAssumption DEF Inv, ClaimJob, docVars,
       diskVars, envVars, Typed
  <2>4. Counted'
    BY <1>3, <2>1, <2>2, <1>0 DEF Inv, ClaimJob, docVars, diskVars, envVars, Counted
  <2>5. (RowsAgree /\ RowsHold /\ CopyHolds)'
    BY <1>3, <2>1, <2>2 DEF Inv, ClaimJob, docVars, diskVars, envVars, RowsAgree,
       WorkerOwnsJob, JournalAgrees, RowsHold, CopyHolds, Settled, Storing, Cleaning,
       Editable
  <2>6. (RemovedHolds /\ PartialHolds)'
    BY <1>3, <2>1, <2>2, <1>0 DEF Inv, ClaimJob, docVars, diskVars, envVars, RemovedHolds,
       PartialHolds, RowsAgree, JournalAgrees, RowsHold, Settled, Storing, Cleaning
  <2> QED BY <2>3, <2>4, <2>5, <2>6 DEF Inv
<1>4. CASE PauseJob
  <2>1. job' \in JobTypes /\ job'.status = "paused" /\ job.status \in Waiting
    BY <1>0, <1>4, MaterializationAssumption DEF PauseJob, Waiting, docVars, diskVars,
       envVars, JobTypes, Paused, Active, Waiting
  <2>2. worker.pc = "idle"
    BY <1>0, <1>4, <2>1, MaterializationAssumption DEF PauseJob, Waiting, docVars, diskVars,
       envVars, WorkerTypes
  <2>3. Typed'
    BY <1>4, <2>1, <2>2, <1>0, MaterializationAssumption DEF Inv, PauseJob, Waiting,
       docVars, diskVars, envVars, Typed
  <2>4. Counted'
    BY <1>4, <2>1, <2>2, <1>0 DEF Inv, PauseJob, Waiting, docVars, diskVars, envVars,
       Counted
  <2>5. (RowsAgree /\ RowsHold /\ CopyHolds)'
    BY <1>4, <2>1, <2>2 DEF Inv, PauseJob, Waiting, docVars, diskVars, envVars, RowsAgree,
       WorkerOwnsJob, JournalAgrees, RowsHold, CopyHolds, Settled, Storing, Cleaning,
       Editable
  <2>6. (RemovedHolds /\ PartialHolds)'
    BY <1>4, <2>1, <2>2, <1>0 DEF Inv, PauseJob, Waiting, docVars, diskVars, envVars,
       RemovedHolds, PartialHolds, RowsAgree, JournalAgrees, RowsHold, Settled, Storing,
       Cleaning
  <2> QED BY <2>3, <2>4, <2>5, <2>6 DEF Inv
<1> QED BY <1>1, <1>2, <1>3, <1>4 DEF Inv

\* The steps that only look, and the ends of the worker.
LEMMA LookStepInv ==
    ASSUME Inv, LicenceRefused \/ Begin \/ FindFinal \/ FindNothing \/ IdentifyFinal
           \/ Reopen \/ CommitRefused \/ Clean \/ DiskFails \/ FinishIsLost
    PROVE  Inv'
<1>0. /\ document \in DocumentTypes /\ op \in OpTypes /\ job \in JobTypes /\ root \in RootTypes
      /\ entry \in Names /\ durable \in Names /\ content \in ContentTypes
      /\ worker \in WorkerTypes /\ faults \in 0 .. MaxFaults
  BY DEF Inv, Typed
<1>1. CASE LicenceRefused
  <2>1. worker' \in WorkerTypes
    BY <1>0, <1>1 DEF LicenceRefused, LicenceChecks, Go, GoSeen, Stop, WorkerTypes, Steps,
       Causes, OpTypes, Names
  <2>2. worker.pc # "idle" /\ (worker'.pc = "ended" /\ worker'.cause # "ok")
    BY <1>0, <1>1 DEF LicenceRefused, LicenceChecks, Go, GoSeen, Stop, WorkerTypes
  <2>3. /\ UNCHANGED <<docVars, op, job, diskVars>> /\ UNCHANGED <<root, licence, permitted, struck, mislaid>>
        /\ faults' \in faults .. MaxFaults
    BY <1>0, <1>1, MaterializationAssumption DEF LicenceRefused, LicenceChecks, envVars
  <2> QED BY <2>1, <2>2, <2>3, LookInv DEF Inv, RowsHold, Storing, Cleaning
<1>2. CASE Begin
  <2>1. worker' \in WorkerTypes
    BY <1>0, <1>2 DEF Begin, Look, Settled, Go, GoSeen, Stop, WorkerTypes, Steps, Causes,
       OpTypes, Names
  <2>2. /\ worker.pc = "begin"
        /\ \/ (worker'.pc = "ended" /\ worker'.cause # "ok")
           \/ worker'.pc = "ended" /\ op.state = "cleaned"
           \/ worker'.pc = "clean" /\ op.state = "committed"
           \/ worker'.pc = "look" /\ op.state \notin Settled
    BY <1>0, <1>2 DEF Begin, Look, Settled, Go, GoSeen, Stop, WorkerTypes
  <2>3. /\ UNCHANGED <<docVars, op, job, diskVars>> /\ UNCHANGED <<root, licence, permitted, struck, mislaid>>
        /\ faults' \in faults .. MaxFaults
    BY <1>0, <1>2, MaterializationAssumption DEF Begin, Look, Settled, envVars
  <2> QED BY <2>1, <2>2, <2>3, LookInv DEF Inv, RowsHold, Storing, Cleaning
<1>3. CASE FindFinal
  <2>1. worker' \in WorkerTypes
    BY <1>0, <1>3 DEF FindFinal, Look, Go, GoSeen, Stop, WorkerTypes, Steps, Causes,
       OpTypes, Names
  <2>2. /\ worker.pc = "look"
        /\ (worker'.pc = "ended" /\ worker'.cause # "ok") \/ worker'.pc = "adopt"
    BY <1>0, <1>3 DEF FindFinal, Look, Go, GoSeen, Stop, WorkerTypes
  <2>3. /\ UNCHANGED <<docVars, op, job, diskVars>> /\ UNCHANGED <<root, licence, permitted, struck, mislaid>>
        /\ faults' \in faults .. MaxFaults
    BY <1>0, <1>3, MaterializationAssumption DEF FindFinal, Look, envVars
  <2> QED BY <2>1, <2>2, <2>3, LookInv DEF Inv, RowsHold, Storing, Cleaning
<1>4. CASE FindNothing
  <2>1. worker' \in WorkerTypes
    BY <1>0, <1>4 DEF FindNothing, Look, Go, GoSeen, Stop, WorkerTypes, Steps, Causes,
       OpTypes, Names
  <2>2. worker.pc = "look" /\ (worker'.pc = "ended" /\ worker'.cause # "ok")
    BY <1>0, <1>4 DEF FindNothing, Look, Go, GoSeen, Stop, WorkerTypes
  <2>3. /\ UNCHANGED <<docVars, op, job, diskVars>> /\ UNCHANGED <<root, licence, permitted, struck, mislaid>>
        /\ faults' \in faults .. MaxFaults
    BY <1>0, <1>4, MaterializationAssumption DEF FindNothing, Look, envVars
  <2> QED BY <2>1, <2>2, <2>3, LookInv DEF Inv, RowsHold, Storing, Cleaning
<1>5. CASE IdentifyFinal
  <2>1. worker' \in WorkerTypes
    BY <1>0, <1>5 DEF IdentifyFinal, Look, Go, GoSeen, Stop, WorkerTypes, Steps, Causes,
       OpTypes, Names
  <2>2. /\ worker.pc = "identify"
        /\ (worker'.pc = "ended" /\ worker'.cause # "ok") \/ worker'.pc = "record"
    BY <1>0, <1>5 DEF IdentifyFinal, Look, Go, GoSeen, Stop, WorkerTypes
  <2>3. /\ UNCHANGED <<docVars, op, job, diskVars>> /\ UNCHANGED <<root, licence, permitted, struck, mislaid>>
        /\ faults' \in faults .. MaxFaults
    BY <1>0, <1>5, MaterializationAssumption DEF IdentifyFinal, Look, envVars
  <2> QED BY <2>1, <2>2, <2>3, LookInv DEF Inv, RowsHold, Storing, Cleaning
<1>6. CASE Reopen
  <2>1. worker' \in WorkerTypes
    BY <1>0, <1>6 DEF Reopen, Look, Go, GoSeen, Stop, WorkerTypes, Steps, Causes, OpTypes,
       Names
  <2>2. /\ worker.pc = "reopen"
        /\ (worker'.pc = "ended" /\ worker'.cause # "ok") \/ worker'.pc = "commit"
    BY <1>0, <1>6 DEF Reopen, Look, Go, GoSeen, Stop, WorkerTypes
  <2>3. /\ UNCHANGED <<docVars, op, job, diskVars>> /\ UNCHANGED <<root, licence, permitted, struck, mislaid>>
        /\ faults' \in faults .. MaxFaults
    BY <1>0, <1>6, MaterializationAssumption DEF Reopen, Look, envVars
  <2> QED BY <2>1, <2>2, <2>3, LookInv DEF Inv, RowsHold, Storing, Cleaning
<1>7. CASE CommitRefused
  <2>1. worker' \in WorkerTypes
    BY <1>0, <1>7 DEF CommitRefused, Look, CommitRefusal, Go, GoSeen, Stop, WorkerTypes,
       Steps, Causes, OpTypes, Names
  <2>2. worker.pc = "commit" /\ (worker'.pc = "ended" /\ worker'.cause # "ok")
    BY <1>0, <1>7 DEF CommitRefused, Look, CommitRefusal, Go, GoSeen, Stop, WorkerTypes
  <2>3. /\ UNCHANGED <<docVars, op, job, diskVars>> /\ UNCHANGED <<root, licence, permitted, struck, mislaid>>
        /\ faults' \in faults .. MaxFaults
    BY <1>0, <1>7, MaterializationAssumption DEF CommitRefused, Look, CommitRefusal, envVars
  <2> QED BY <2>1, <2>2, <2>3, LookInv DEF Inv, RowsHold, Storing, Cleaning
<1>8. CASE Clean
  <2>1. worker' \in WorkerTypes
    BY <1>0, <1>8 DEF Clean, Look, Go, GoSeen, Stop, WorkerTypes, Steps, Causes, OpTypes,
       Names
  <2>2. /\ worker.pc = "clean"
        /\ (worker'.pc = "ended" /\ worker'.cause # "ok") \/ worker'.pc = "drop"
    BY <1>0, <1>8 DEF Clean, Look, Go, GoSeen, Stop, WorkerTypes
  <2>3. /\ UNCHANGED <<docVars, op, job, diskVars>> /\ UNCHANGED <<root, licence, permitted, struck, mislaid>>
        /\ faults' \in faults .. MaxFaults
    BY <1>0, <1>8, MaterializationAssumption DEF Clean, Look, envVars
  <2> QED BY <2>1, <2>2, <2>3, LookInv DEF Inv, RowsHold, Storing, Cleaning
<1>9. CASE DiskFails
  <2>1. worker' \in WorkerTypes
    BY <1>0, <1>9 DEF DiskFails, Fallible, Fault, Go, GoSeen, Stop, WorkerTypes, Steps,
       Causes, OpTypes, Names
  <2>2. worker.pc # "idle" /\ (worker'.pc = "ended" /\ worker'.cause # "ok")
    BY <1>0, <1>9 DEF DiskFails, Fallible, Fault, Go, GoSeen, Stop, WorkerTypes
  <2>3. /\ UNCHANGED <<docVars, op, job, diskVars>> /\ UNCHANGED <<root, licence, permitted, struck, mislaid>>
        /\ faults' \in faults .. MaxFaults
    BY <1>0, <1>9, MaterializationAssumption DEF DiskFails, Fallible, Fault, envVars
  <2> QED BY <2>1, <2>2, <2>3, LookInv DEF Inv, RowsHold, Storing, Cleaning
<1>10. CASE FinishIsLost
  <2>1. worker' \in WorkerTypes
    BY <1>0, <1>10 DEF FinishIsLost, Fault, Idle, Go, GoSeen, Stop, WorkerTypes, Steps,
       Causes, OpTypes, Names
  <2>2. worker'.pc = "idle"
    BY <1>0, <1>10 DEF FinishIsLost, Fault, Idle, Go, GoSeen, Stop, WorkerTypes
  <2>3. /\ UNCHANGED <<docVars, op, job, diskVars>> /\ UNCHANGED <<root, licence, permitted, struck, mislaid>>
        /\ faults' \in faults .. MaxFaults
    BY <1>0, <1>10, MaterializationAssumption DEF FinishIsLost, Fault, Idle, envVars
  <2> QED BY <2>1, <2>2, <2>3, LookInv DEF Inv, RowsHold, Storing, Cleaning
<1> QED BY <1>1, <1>2, <1>3, <1>4, <1>5, <1>6, <1>7, <1>8, <1>9, <1>10 DEF Inv

\* The steps that write the journal.
LEMMA JournalInv ==
    ASSUME Inv, Adopt \/ PrepareCopy \/ MarkVerified \/ RecordPublished \/ Seal \/ CommitApproval
    PROVE  Inv'
<1>0. /\ document \in DocumentTypes /\ op \in OpTypes /\ job \in JobTypes /\ root \in RootTypes
      /\ entry \in Names /\ durable \in Names /\ content \in ContentTypes
      /\ worker \in WorkerTypes /\ faults \in 0 .. MaxFaults
  BY DEF Inv, Typed
<1>1. CASE Adopt
  <2>1. worker' \in WorkerTypes /\ worker.pc = "adopt" /\ worker'.pc = "reopen"
    BY <1>0, <1>1, MaterializationAssumption DEF Adopt, docVars, diskVars, envVars, Go,
       GoSeen, Stop, WorkerTypes, Steps, Causes
  <2>2. op' \in OpTypes /\ op'.state = "published"
    BY <1>0, <1>1, <2>1, MaterializationAssumption DEF Adopt, docVars, diskVars, envVars,
       Journal, OpTypes, WorkerTypes, States
  <2>3. op.state # "none"
    BY <1>0, <1>1, <2>1, <2>2, MaterializationAssumption DEF Adopt, docVars, diskVars,
       envVars, Inv, RowsAgree, RowsHold, WorkerOwnsJob, Settled, WorkerTypes
  <2>4. Typed'
    BY <1>1, <2>1, <2>2, <2>3, <1>0, MaterializationAssumption DEF Inv, Adopt, docVars,
       diskVars, envVars, Typed
  <2>5. Counted'
    BY <1>1, <2>1, <2>2, <2>3, <1>0 DEF Inv, Adopt, docVars, diskVars, envVars, Counted
  <2>6. (RowsAgree /\ RowsHold /\ CopyHolds)'
    BY <1>1, <2>1, <2>2, <2>3 DEF Inv, Adopt, docVars, diskVars, envVars, RowsAgree,
       WorkerOwnsJob, JournalAgrees, RowsHold, CopyHolds, Settled, Storing, Cleaning,
       Editable
  <2>7. (RemovedHolds /\ PartialHolds)'
    BY <1>1, <2>1, <2>2, <2>3, <1>0 DEF Inv, Adopt, docVars, diskVars, envVars,
       RemovedHolds, PartialHolds, RowsAgree, JournalAgrees, RowsHold, Settled, Storing,
       Cleaning
  <2> QED BY <2>4, <2>5, <2>6, <2>7 DEF Inv
<1>2. CASE PrepareCopy
  <2>1. worker' \in WorkerTypes /\ worker.pc = "prepare" /\ worker'.pc = "copy"
    BY <1>0, <1>2, MaterializationAssumption DEF PrepareCopy, docVars, diskVars, envVars,
       Go, GoSeen, Stop, WorkerTypes, Steps, Causes
  <2>2. op' \in OpTypes /\ op'.state = "copying"
    BY <1>0, <1>2, <2>1, MaterializationAssumption DEF PrepareCopy, docVars, diskVars,
       envVars, Journal, OpTypes, WorkerTypes, States
  <2>3. op.state # "none"
    BY <1>0, <1>2, <2>1, <2>2, MaterializationAssumption DEF PrepareCopy, docVars, diskVars,
       envVars, Inv, RowsAgree, RowsHold, WorkerOwnsJob, Settled, WorkerTypes
  <2>4. Typed'
    BY <1>2, <2>1, <2>2, <2>3, <1>0, MaterializationAssumption DEF Inv, PrepareCopy,
       docVars, diskVars, envVars, Typed
  <2>5. Counted'
    BY <1>2, <2>1, <2>2, <2>3, <1>0 DEF Inv, PrepareCopy, docVars, diskVars, envVars,
       Counted
  <2>6. (RowsAgree /\ RowsHold /\ CopyHolds)'
    BY <1>2, <2>1, <2>2, <2>3 DEF Inv, PrepareCopy, docVars, diskVars, envVars, RowsAgree,
       WorkerOwnsJob, JournalAgrees, RowsHold, CopyHolds, Settled, Storing, Cleaning,
       Editable
  <2>7. (RemovedHolds /\ PartialHolds)'
    BY <1>2, <2>1, <2>2, <2>3, <1>0 DEF Inv, PrepareCopy, docVars, diskVars, envVars,
       RemovedHolds, PartialHolds, RowsAgree, JournalAgrees, RowsHold, Settled, Storing,
       Cleaning
  <2> QED BY <2>4, <2>5, <2>6, <2>7 DEF Inv
<1>3. CASE MarkVerified
  <2>1. worker' \in WorkerTypes /\ worker.pc = "mark" /\ worker'.pc = "link"
    BY <1>0, <1>3, MaterializationAssumption DEF MarkVerified, docVars, diskVars, envVars,
       Go, GoSeen, Stop, WorkerTypes, Steps, Causes
  <2>2. op' \in OpTypes /\ op'.state = "verified"
    BY <1>0, <1>3, <2>1, MaterializationAssumption DEF MarkVerified, docVars, diskVars,
       envVars, Journal, OpTypes, WorkerTypes, States
  <2>3. op.state # "none"
    BY <1>0, <1>3, <2>1, <2>2, MaterializationAssumption DEF MarkVerified, docVars,
       diskVars, envVars, Inv, RowsAgree, RowsHold, WorkerOwnsJob, Settled, WorkerTypes
  <2>4. Typed'
    BY <1>3, <2>1, <2>2, <2>3, <1>0, MaterializationAssumption DEF Inv, MarkVerified,
       docVars, diskVars, envVars, Typed
  <2>5. Counted'
    BY <1>3, <2>1, <2>2, <2>3, <1>0 DEF Inv, MarkVerified, docVars, diskVars, envVars,
       Counted
  <2>6. (RowsAgree /\ RowsHold /\ CopyHolds)'
    BY <1>3, <2>1, <2>2, <2>3 DEF Inv, MarkVerified, docVars, diskVars, envVars, RowsAgree,
       WorkerOwnsJob, JournalAgrees, RowsHold, CopyHolds, Settled, Storing, Cleaning,
       Editable
  <2>7. (RemovedHolds /\ PartialHolds)'
    BY <1>3, <2>1, <2>2, <2>3, <1>0 DEF Inv, MarkVerified, docVars, diskVars, envVars,
       RemovedHolds, PartialHolds, RowsAgree, JournalAgrees, RowsHold, Settled, Storing,
       Cleaning
  <2> QED BY <2>4, <2>5, <2>6, <2>7 DEF Inv
<1>4. CASE RecordPublished
  <2>1. worker' \in WorkerTypes /\ worker.pc = "record" /\ worker'.pc = "reopen"
    BY <1>0, <1>4, MaterializationAssumption DEF RecordPublished, docVars, diskVars,
       envVars, Go, GoSeen, Stop, WorkerTypes, Steps, Causes
  <2>2. op' \in OpTypes /\ op'.state = "published"
    BY <1>0, <1>4, <2>1, MaterializationAssumption DEF RecordPublished, docVars, diskVars,
       envVars, Journal, OpTypes, WorkerTypes, States
  <2>3. op.state # "none"
    BY <1>0, <1>4, <2>1, <2>2, MaterializationAssumption DEF RecordPublished, docVars,
       diskVars, envVars, Inv, RowsAgree, RowsHold, WorkerOwnsJob, Settled, WorkerTypes
  <2>4. Typed'
    BY <1>4, <2>1, <2>2, <2>3, <1>0, MaterializationAssumption DEF Inv, RecordPublished,
       docVars, diskVars, envVars, Typed
  <2>5. Counted'
    BY <1>4, <2>1, <2>2, <2>3, <1>0 DEF Inv, RecordPublished, docVars, diskVars, envVars,
       Counted
  <2>6. (RowsAgree /\ RowsHold /\ CopyHolds)'
    BY <1>4, <2>1, <2>2, <2>3 DEF Inv, RecordPublished, docVars, diskVars, envVars,
       RowsAgree, WorkerOwnsJob, JournalAgrees, RowsHold, CopyHolds, Settled, Storing,
       Cleaning, Editable
  <2>7. (RemovedHolds /\ PartialHolds)'
    BY <1>4, <2>1, <2>2, <2>3, <1>0 DEF Inv, RecordPublished, docVars, diskVars, envVars,
       RemovedHolds, PartialHolds, RowsAgree, JournalAgrees, RowsHold, Settled, Storing,
       Cleaning
  <2> QED BY <2>4, <2>5, <2>6, <2>7 DEF Inv
<1>5. CASE Seal
  <2>1. worker' \in WorkerTypes /\ worker.pc = "seal" /\ worker'.pc = "ended"
    BY <1>0, <1>5, MaterializationAssumption DEF Seal, docVars, diskVars, envVars, Go,
       GoSeen, Stop, WorkerTypes, Steps, Causes
  <2>2. op' \in OpTypes /\ op'.state = "cleaned"
    BY <1>0, <1>5, <2>1, MaterializationAssumption DEF Seal, docVars, diskVars, envVars,
       Journal, OpTypes, WorkerTypes, States
  <2>3. Typed'
    BY <1>5, <2>1, <2>2, <1>0, MaterializationAssumption DEF Inv, Seal, docVars, diskVars,
       envVars, Typed
  <2>4. Counted'
    BY <1>5, <2>1, <2>2, <1>0 DEF Inv, Seal, docVars, diskVars, envVars, Counted
  <2>5. (RowsAgree /\ RowsHold /\ CopyHolds)'
    BY <1>5, <2>1, <2>2 DEF Inv, Seal, docVars, diskVars, envVars, RowsAgree, WorkerOwnsJob,
       JournalAgrees, RowsHold, CopyHolds, Settled, Storing, Cleaning, Editable
  <2>6. (RemovedHolds /\ PartialHolds)'
    BY <1>5, <2>1, <2>2, <1>0 DEF Inv, Seal, docVars, diskVars, envVars, RemovedHolds,
       PartialHolds, RowsAgree, JournalAgrees, RowsHold, Settled, Storing, Cleaning
  <2> QED BY <2>3, <2>4, <2>5, <2>6 DEF Inv
<1>6. CASE CommitApproval
  <2>1. worker' \in WorkerTypes /\ worker.pc = "commit" /\ worker'.pc = "clean"
    BY <1>0, <1>6, MaterializationAssumption DEF CommitApproval, docVars, diskVars, envVars,
       Go, GoSeen, Stop, WorkerTypes, Steps, Causes
  <2>2. op' \in OpTypes /\ op'.state = "committed"
    BY <1>0, <1>6, <2>1, MaterializationAssumption DEF CommitApproval, docVars, diskVars,
       envVars, OpTypes, WorkerTypes, States
  <2>3. document' \in DocumentTypes /\ document'.approval = "approved"
        /\ document'.availability = "available"
    BY <1>0, <1>6, <2>1, <2>2, MaterializationAssumption DEF CommitApproval, docVars,
       diskVars, envVars, DocumentTypes
  <2>4. Typed'
    BY <1>6, <2>1, <2>2, <2>3, <1>0, MaterializationAssumption DEF Inv, CommitApproval,
       docVars, diskVars, envVars, Typed
  <2>5. Counted'
    BY <1>6, <2>1, <2>2, <2>3, <1>0 DEF Inv, CommitApproval, docVars, diskVars, envVars,
       Counted
  <2>6. (RowsAgree /\ RowsHold /\ CopyHolds)'
    BY <1>6, <2>1, <2>2, <2>3 DEF Inv, CommitApproval, docVars, diskVars, envVars,
       RowsAgree, WorkerOwnsJob, JournalAgrees, RowsHold, CopyHolds, Settled, Storing,
       Cleaning, Editable
  <2>7. (RemovedHolds /\ PartialHolds)'
    BY <1>6, <2>1, <2>2, <2>3, <1>0 DEF Inv, CommitApproval, docVars, diskVars, envVars,
       RemovedHolds, PartialHolds, RowsAgree, JournalAgrees, RowsHold, Settled, Storing,
       Cleaning
  <2> QED BY <2>4, <2>5, <2>6, <2>7 DEF Inv
<1> QED BY <1>1, <1>2, <1>3, <1>4, <1>5, <1>6 DEF Inv

\* The steps on files and directories.
LEMMA DiskInv ==
    ASSUME Inv, FindPartial \/ OpenPartial \/ FillPartial \/ FlushPartial \/ LinkFinal
           \/ SyncDirectory \/ DropTemporary \/ UnlinkPartial \/ SettleDirectory
    PROVE  Inv'
<1>0. /\ document \in DocumentTypes /\ op \in OpTypes /\ job \in JobTypes /\ root \in RootTypes
      /\ entry \in Names /\ durable \in Names /\ content \in ContentTypes
      /\ worker \in WorkerTypes /\ faults \in 0 .. MaxFaults
  BY DEF Inv, Typed
<1>1. CASE FindPartial
  <2>1. worker' \in WorkerTypes /\ worker.pc = "look"
        /\ worker'.pc = IF Whole(entry.partial) THEN "mark" ELSE "prepare"
    BY <1>0, <1>1, MaterializationAssumption DEF FindPartial, docVars, diskVars, envVars,
       Go, GoSeen, Stop, WorkerTypes, Steps, Causes
  <2>2. entry' \in Names /\ entry'.final = entry.final /\ entry.final = 0
        /\ entry'.partial = IF Whole(entry.partial) THEN entry.partial ELSE 0
    BY <1>0, <1>1, <2>1, MaterializationAssumption DEF FindPartial, docVars, diskVars,
       envVars, Names
  <2>3. Whole(entry.partial) => entry.partial # 0 /\ content[entry.partial] = "whole"
    BY <1>0, <1>1, <2>1, <2>2, MaterializationAssumption DEF FindPartial, docVars, diskVars,
       envVars, Whole
  <2>4. Typed'
    BY <1>1, <2>1, <2>2, <2>3, <1>0, MaterializationAssumption DEF Inv, FindPartial,
       docVars, diskVars, envVars, Typed
  <2>5. Counted'
    BY <1>1, <2>1, <2>2, <2>3, <1>0 DEF Inv, FindPartial, docVars, diskVars, envVars,
       Counted
  <2>6. (RowsAgree /\ RowsHold /\ CopyHolds)'
    BY <1>1, <2>1, <2>2, <2>3 DEF Inv, FindPartial, docVars, diskVars, envVars, RowsAgree,
       WorkerOwnsJob, JournalAgrees, RowsHold, CopyHolds, Settled, Storing, Cleaning,
       Editable
  <2>7. (RemovedHolds /\ PartialHolds)'
    BY <1>1, <2>1, <2>2, <2>3, <1>0 DEF Inv, FindPartial, docVars, diskVars, envVars,
       RemovedHolds, PartialHolds, RowsAgree, JournalAgrees, RowsHold, Settled, Storing,
       Cleaning
  <2> QED BY <2>4, <2>5, <2>6, <2>7 DEF Inv
<1>2. CASE OpenPartial
  <2>1. CASE ~(Owned /\ temp)
    <3>1. worker' \in WorkerTypes /\ worker.pc = "copy" /\ worker'.pc = "ended" /\ worker'.cause # "ok"
      BY <1>0, <1>2, <2>1 DEF OpenPartial, Stop, WorkerTypes, Steps, Causes
    <3> QED BY <1>0, <1>2, <2>1, <3>1, MaterializationAssumption, LookInv
               DEF OpenPartial, diskVars, envVars, Storing, Cleaning
  <2>2. ASSUME NEW i \in Unused, Owned, temp,
               entry' = [entry EXCEPT !.partial = i],
               content' = [content EXCEPT ![i] = "torn"], flushed' = flushed \ {i}, Go("fill")
        PROVE  Inv'
    <3>1. worker' \in WorkerTypes /\ worker.pc = "copy" /\ worker'.pc = "fill"
      BY <1>0, <1>2, <2>2 DEF OpenPartial, Go, WorkerTypes, Steps, Causes
    <3>2. entry' \in Names /\ entry'.final = entry.final /\ entry'.partial = i
          /\ i # 0 /\ i # entry.final /\ i \in Inodes
      BY <1>0, <2>2, MaterializationAssumption DEF Unused, Names
    <3>3. content' \in ContentTypes
      BY <1>0, <2>2 DEF ContentTypes
    <3>4. Typed'
      BY <1>0, <1>2, <2>2, <3>1, <3>2, <3>3, MaterializationAssumption
         DEF Inv, OpenPartial, docVars, envVars, Typed
    <3>5. (Counted /\ RowsAgree /\ RowsHold /\ CopyHolds)'
      BY <1>2, <3>1, <3>2 DEF Inv, OpenPartial, docVars, envVars, Counted, RowsAgree,
         WorkerOwnsJob, JournalAgrees, RowsHold, CopyHolds, Settled, Storing, Cleaning
    <3>6. (RemovedHolds /\ PartialHolds)'
      BY <1>2, <2>2, <3>1, <3>2 DEF Inv, OpenPartial, docVars, envVars, RemovedHolds,
         PartialHolds, RowsHold, Settled, Storing
    <3> QED BY <3>4, <3>5, <3>6 DEF Inv
  <2> QED BY <1>2, <2>1, <2>2 DEF OpenPartial
<1>3. CASE FillPartial
  <2>1. worker' \in WorkerTypes /\ worker.pc = "fill" /\ worker'.pc = "flush"
    BY <1>0, <1>3, MaterializationAssumption DEF FillPartial, docVars, envVars, Go, GoSeen,
       Stop, WorkerTypes, Steps, Causes
  <2>2. content' \in ContentTypes /\ content'[entry.partial] = "whole" /\ entry.partial # 0
    BY <1>0, <1>3, <2>1, MaterializationAssumption DEF FillPartial, docVars, envVars, Inv,
       PartialHolds, ContentTypes, Names
  <2>3. Typed'
    BY <1>3, <2>1, <2>2, <1>0, MaterializationAssumption DEF Inv, FillPartial, docVars,
       envVars, Typed
  <2>4. Counted'
    BY <1>3, <2>1, <2>2, <1>0 DEF Inv, FillPartial, docVars, envVars, Counted
  <2>5. (RowsAgree /\ RowsHold /\ CopyHolds)'
    BY <1>3, <2>1, <2>2 DEF Inv, FillPartial, docVars, envVars, RowsAgree, WorkerOwnsJob,
       JournalAgrees, RowsHold, CopyHolds, Settled, Storing, Cleaning, Editable
  <2>6. (RemovedHolds /\ PartialHolds)'
    BY <1>3, <2>1, <2>2, <1>0 DEF Inv, FillPartial, docVars, envVars, RemovedHolds,
       PartialHolds, RowsAgree, JournalAgrees, RowsHold, Settled, Storing, Cleaning
  <2> QED BY <2>3, <2>4, <2>5, <2>6 DEF Inv
<1>4. CASE FlushPartial
  <2>1. worker' \in WorkerTypes /\ worker.pc = "flush" /\ worker'.pc = "mark"
    BY <1>0, <1>4, MaterializationAssumption DEF FlushPartial, docVars, envVars, Go, GoSeen,
       Stop, WorkerTypes, Steps, Causes
  <2>2. flushed' \in SUBSET Inodes
    BY <1>0, <1>4, <2>1, MaterializationAssumption DEF FlushPartial, docVars, envVars, Inv,
       Typed, PartialHolds, Names
  <2>3. Typed'
    BY <1>4, <2>1, <2>2, <1>0, MaterializationAssumption DEF Inv, FlushPartial, docVars,
       envVars, Typed
  <2>4. Counted'
    BY <1>4, <2>1, <2>2, <1>0 DEF Inv, FlushPartial, docVars, envVars, Counted
  <2>5. (RowsAgree /\ RowsHold /\ CopyHolds)'
    BY <1>4, <2>1, <2>2 DEF Inv, FlushPartial, docVars, envVars, RowsAgree, WorkerOwnsJob,
       JournalAgrees, RowsHold, CopyHolds, Settled, Storing, Cleaning, Editable
  <2>6. (RemovedHolds /\ PartialHolds)'
    BY <1>4, <2>1, <2>2, <1>0 DEF Inv, FlushPartial, docVars, envVars, RemovedHolds,
       PartialHolds, RowsAgree, JournalAgrees, RowsHold, Settled, Storing, Cleaning
  <2> QED BY <2>3, <2>4, <2>5, <2>6 DEF Inv
<1>5. CASE LinkFinal
  <2>1. worker.pc = "link" /\ (Go("sync") \/ Stop("transient"))
    BY <1>0, <1>5, MaterializationAssumption DEF LinkFinal, docVars, envVars, LinkFinal
  <2>2. worker' \in WorkerTypes /\ worker'.pc \in {"sync", "ended"}
    BY <1>0, <2>1 DEF Go, GoSeen, Stop, WorkerTypes, Steps, Causes
  <2>3. worker'.pc = "ended" => worker'.cause # "ok"
    BY <1>0, <2>1 DEF Go, Stop, WorkerTypes
  <2>4. entry' \in Names /\ entry'.partial = entry.partial
        /\ entry'.final = IF entry.final = 0 THEN entry.partial ELSE entry.final
    BY <1>0, <1>5, <2>1, <2>2, <2>3, MaterializationAssumption DEF LinkFinal, docVars,
       envVars, Names, Publish
  <2>5. Typed'
    BY <1>5, <2>1, <2>2, <2>3, <2>4, <1>0, MaterializationAssumption DEF Inv, LinkFinal,
       docVars, envVars, Typed
  <2>6. Counted'
    BY <1>5, <2>1, <2>2, <2>3, <2>4, <1>0 DEF Inv, LinkFinal, docVars, envVars, Counted
  <2>7. (RowsAgree /\ RowsHold /\ CopyHolds)'
    BY <1>5, <2>1, <2>2, <2>3, <2>4 DEF Inv, LinkFinal, docVars, envVars, RowsAgree,
       WorkerOwnsJob, JournalAgrees, RowsHold, CopyHolds, Settled, Storing, Cleaning,
       Editable
  <2>8. (RemovedHolds /\ PartialHolds)'
    BY <1>5, <2>1, <2>2, <2>3, <2>4, <1>0 DEF Inv, LinkFinal, docVars, envVars,
       RemovedHolds, PartialHolds, RowsAgree, JournalAgrees, RowsHold, Settled, Storing,
       Cleaning
  <2> QED BY <2>5, <2>6, <2>7, <2>8 DEF Inv
<1>6. CASE SyncDirectory
  <2>1. worker' \in WorkerTypes /\ worker.pc = "sync" /\ worker'.pc = "identify"
    BY <1>0, <1>6, MaterializationAssumption DEF SyncDirectory, docVars, envVars, Go,
       GoSeen, Stop, WorkerTypes, Steps, Causes
  <2>2. durable' = entry
    BY <1>0, <1>6, <2>1, MaterializationAssumption DEF SyncDirectory, docVars, envVars,
       Synced
  <2>3. Typed'
    BY <1>6, <2>1, <2>2, <1>0, MaterializationAssumption DEF Inv, SyncDirectory, docVars,
       envVars, Typed
  <2>4. Counted'
    BY <1>6, <2>1, <2>2, <1>0 DEF Inv, SyncDirectory, docVars, envVars, Counted
  <2>5. (RowsAgree /\ RowsHold /\ CopyHolds)'
    BY <1>6, <2>1, <2>2 DEF Inv, SyncDirectory, docVars, envVars, RowsAgree, WorkerOwnsJob,
       JournalAgrees, RowsHold, CopyHolds, Settled, Storing, Cleaning, Editable
  <2>6. (RemovedHolds /\ PartialHolds)'
    BY <1>6, <2>1, <2>2, <1>0 DEF Inv, SyncDirectory, docVars, envVars, RemovedHolds,
       PartialHolds, RowsAgree, JournalAgrees, RowsHold, Settled, Storing, Cleaning
  <2> QED BY <2>3, <2>4, <2>5, <2>6 DEF Inv
<1>7. CASE DropTemporary
  <2>1. worker' \in WorkerTypes /\ worker.pc = "drop" /\ worker'.pc = "unlink"
    BY <1>0, <1>7, MaterializationAssumption DEF DropTemporary, docVars, diskVars, envVars,
       Go, GoSeen, Stop, WorkerTypes, Steps, Causes
  <2>2. document.approval = "approved" /\ op.state = "committed"
    BY <1>0, <1>7, <2>1, MaterializationAssumption DEF DropTemporary, docVars, diskVars,
       envVars, Inv, RowsHold, RowsAgree, JournalAgrees, Settled, Cleaning
  <2>3. ~checked
    BY <1>0, <1>7, <2>1, <2>2, MaterializationAssumption DEF DropTemporary, docVars,
       diskVars, envVars, Inv, CopyHolds, RowsHold, RowsAgree, JournalAgrees, Settled,
       Cleaning, Editable
  <2>4. Typed'
    BY <1>7, <2>1, <2>2, <2>3, <1>0, MaterializationAssumption DEF Inv, DropTemporary,
       docVars, diskVars, envVars, Typed
  <2>5. Counted'
    BY <1>7, <2>1, <2>2, <2>3, <1>0 DEF Inv, DropTemporary, docVars, diskVars, envVars,
       Counted
  <2>6. (RowsAgree /\ RowsHold /\ CopyHolds)'
    BY <1>7, <2>1, <2>2, <2>3 DEF Inv, DropTemporary, docVars, diskVars, envVars, RowsAgree,
       WorkerOwnsJob, JournalAgrees, RowsHold, CopyHolds, Settled, Storing, Cleaning,
       Editable
  <2>7. (RemovedHolds /\ PartialHolds)'
    BY <1>7, <2>1, <2>2, <2>3, <1>0 DEF Inv, DropTemporary, docVars, diskVars, envVars,
       RemovedHolds, PartialHolds, RowsAgree, JournalAgrees, RowsHold, Settled, Storing,
       Cleaning
  <2> QED BY <2>4, <2>5, <2>6, <2>7 DEF Inv
<1>8. CASE UnlinkPartial
  <2>1. worker' \in WorkerTypes /\ worker.pc = "unlink" /\ worker'.pc = "settle"
    BY <1>0, <1>8, MaterializationAssumption DEF UnlinkPartial, docVars, envVars, Go,
       GoSeen, Stop, WorkerTypes, Steps, Causes
  <2>2. entry' \in Names /\ entry'.partial = 0 /\ entry'.final = entry.final
    BY <1>0, <1>8, <2>1, MaterializationAssumption DEF UnlinkPartial, docVars, envVars,
       Names
  <2>3. Typed'
    BY <1>8, <2>1, <2>2, <1>0, MaterializationAssumption DEF Inv, UnlinkPartial, docVars,
       envVars, Typed
  <2>4. Counted'
    BY <1>8, <2>1, <2>2, <1>0 DEF Inv, UnlinkPartial, docVars, envVars, Counted
  <2>5. (RowsAgree /\ RowsHold /\ CopyHolds)'
    BY <1>8, <2>1, <2>2 DEF Inv, UnlinkPartial, docVars, envVars, RowsAgree, WorkerOwnsJob,
       JournalAgrees, RowsHold, CopyHolds, Settled, Storing, Cleaning, Editable
  <2>6. (RemovedHolds /\ PartialHolds)'
    BY <1>8, <2>1, <2>2, <1>0 DEF Inv, UnlinkPartial, docVars, envVars, RemovedHolds,
       PartialHolds, RowsAgree, JournalAgrees, RowsHold, Settled, Storing, Cleaning
  <2> QED BY <2>3, <2>4, <2>5, <2>6 DEF Inv
<1>9. CASE SettleDirectory
  <2>1. worker' \in WorkerTypes /\ worker.pc = "settle" /\ worker'.pc = "seal"
    BY <1>0, <1>9, MaterializationAssumption DEF SettleDirectory, docVars, envVars, Go,
       GoSeen, Stop, WorkerTypes, Steps, Causes
  <2>2. durable' = entry
    BY <1>0, <1>9, <2>1, MaterializationAssumption DEF SettleDirectory, docVars, envVars,
       Synced
  <2>3. Typed'
    BY <1>9, <2>1, <2>2, <1>0, MaterializationAssumption DEF Inv, SettleDirectory, docVars,
       envVars, Typed
  <2>4. Counted'
    BY <1>9, <2>1, <2>2, <1>0 DEF Inv, SettleDirectory, docVars, envVars, Counted
  <2>5. (RowsAgree /\ RowsHold /\ CopyHolds)'
    BY <1>9, <2>1, <2>2 DEF Inv, SettleDirectory, docVars, envVars, RowsAgree,
       WorkerOwnsJob, JournalAgrees, RowsHold, CopyHolds, Settled, Storing, Cleaning,
       Editable
  <2>6. (RemovedHolds /\ PartialHolds)'
    BY <1>9, <2>1, <2>2, <1>0 DEF Inv, SettleDirectory, docVars, envVars, RemovedHolds,
       PartialHolds, RowsAgree, JournalAgrees, RowsHold, Settled, Storing, Cleaning
  <2> QED BY <2>3, <2>4, <2>5, <2>6 DEF Inv
<1> QED BY <1>1, <1>2, <1>3, <1>4, <1>5, <1>6, <1>7, <1>8, <1>9 DEF Inv

-----------------------------------------------------------------------------
(* The end of an attempt, recorded by itself or by the next process.         *)

\* What is recorded of the operation and its job.
RowsKept ==
    /\ op' \in OpTypes /\ job' \in JobTypes
    /\ op'.identity = op.identity
    /\ op'.state = op.state \/ (op'.state = "failed" /\ op.state \notin Settled \cup {"none"})
    /\ job'.status # "running"
    /\ job'.status = "none" <=> job.status = "none"
    /\ job'.status = "succeeded" => op.state = "cleaned"

LEMMA RecoverRows ==
    ASSUME Inv, Recover
    PROVE  RowsKept /\ worker' = Idle /\ checked' = FALSE
<1>1. /\ worker' = Idle /\ checked' = FALSE
      /\ op \in OpTypes /\ job \in JobTypes
      /\ job.status = "none" <=> op.state = "none"
      /\ job.status = "succeeded" => op.state = "cleaned"
  BY DEF Recover, Inv, Typed, RowsHold, RowsAgree, JournalAgrees
<1>2. CASE job.status # "running"
  BY <1>1, <1>2 DEF Recover, RowsKept
<1>3. CASE job.status = "running"
  <2>1. job' \in JobTypes /\ job'.status \in {"failed", "retry_wait"}
    BY <1>1, <1>3 DEF Recover, JobTypes, Active, Waiting
  <2>2. op' \in OpTypes /\ op'.identity = op.identity /\ op'.state = JournalAfter(op.state)
    BY <1>1, <1>3 DEF Recover, OpTypes, JournalAfter, States
  <2> QED BY <1>1, <1>3, <2>1, <2>2 DEF RowsKept, JournalAfter
<1> QED BY <1>1, <1>2, <1>3

LEMMA FinishRows ==
    ASSUME Inv, FinishJob
    PROVE  RowsKept
<1>1. /\ job \in JobTypes /\ op \in OpTypes /\ worker.cause \in Causes
      /\ worker.pc = "ended" /\ job.status = "running" /\ job.attempts # 0
      /\ op.state # "none" /\ (worker.cause = "ok" => op.state = "cleaned")
  BY DEF Inv, Typed, WorkerTypes, FinishJob, RowsAgree, WorkerOwnsJob, RowsHold
<1>2. /\ job' \in JobTypes /\ job'.status \notin {"none", "running"}
      /\ job'.status = "succeeded" => worker.cause = "ok"
  <2>1. job' = JobAfter(worker.cause) /\ job.attempts - 1 \in 0 .. MaxAttempts
    BY <1>1, MaterializationAssumption DEF FinishJob, JobTypes
  <2>2. \A s \in {"succeeded", "cancelled", "retry_wait", "failed"} :
           /\ [job EXCEPT !.status = s] \in JobTypes
           /\ [job EXCEPT !.status = s].status = s
    BY <1>1 DEF JobTypes, Active, Waiting
  <2>3. [status |-> "paused", attempts |-> job.attempts - 1] \in JobTypes
    BY <2>1 DEF JobTypes, Active, Waiting
  <2>4. CASE worker.cause = "ok"
    BY <2>1, <2>2, <2>4 DEF JobAfter
  <2>5. CASE worker.cause = "license"
    BY <2>1, <2>3, <2>5 DEF JobAfter
  <2>6. CASE worker.cause = "stale"
    BY <2>1, <2>2, <2>6 DEF JobAfter
  <2>7. CASE worker.cause \in {"transient", "fatal"}
    <3>1. JobAfter(worker.cause) = [job EXCEPT !.status = "retry_wait"]
          \/ JobAfter(worker.cause) = [job EXCEPT !.status = "failed"]
      BY <2>7 DEF JobAfter
    <3> QED BY <2>1, <2>2, <3>1
  <2> QED BY <1>1, <2>4, <2>5, <2>6, <2>7 DEF Causes
<1>3. /\ op' \in OpTypes /\ op'.identity = op.identity
      /\ op'.state = op.state \/ op'.state = JournalAfter(op.state)
  BY <1>1 DEF FinishJob, OpTypes, JournalAfter, States
<1> QED BY <1>1, <1>2, <1>3 DEF RowsKept, JournalAfter

LEMMA EndInv ==
    ASSUME Inv, RowsKept, worker' = Idle, document' = document,
           temp' = temp \/ (temp' = FALSE /\ document.approval \in {"rejected", "cancelled"}),
           checked' = FALSE \/ (checked' = checked /\ temp' = temp),
           UNCHANGED <<root, licence, permitted, struck, mislaid>>,
           faults' \in faults .. MaxFaults,
           entry' \in Names, durable' \in Names, content' \in ContentTypes,
           flushed' \in SUBSET Inodes, durable'.final \in {0, entry'.final},
           entry'.partial \in {entry.partial, durable.partial},
           durable'.partial \in {entry.partial, durable.partial}
    PROVE  Inv'
<1>1. Idle \in WorkerTypes /\ Idle.pc = "idle"
  BY DEF Idle, WorkerTypes, Steps, Causes
<1>2. Typed'
  <2>1. faults' \in 0 .. MaxFaults
    BY MaterializationAssumption DEF Inv, Typed
  <2>2. temp' \in BOOLEAN /\ checked' \in BOOLEAN
    BY DEF Inv, Typed
  <2> QED BY <1>1, <2>1, <2>2 DEF Inv, Typed, RowsKept
<1>3. Counted'
  BY MaterializationAssumption DEF Inv, Counted, Typed, RootTypes
<1>4. (RowsAgree /\ RowsHold /\ CopyHolds /\ RemovedHolds /\ PartialHolds)'
  BY <1>1 DEF Inv, RowsKept, RowsAgree, WorkerOwnsJob, JournalAgrees, RowsHold, CopyHolds,
     RemovedHolds, PartialHolds, Settled, Storing, Cleaning, Editable
<1> QED BY <1>2, <1>3, <1>4 DEF Inv

LEMMA PowerCutFiles ==
    ASSUME Inv, LoseUnsynced
    PROVE  /\ entry' \in Names /\ durable' = entry' /\ content' \in ContentTypes
           /\ flushed' = Inodes
           /\ entry'.partial \in {entry.partial, durable.partial}
           /\ entry'.final \in {entry.final, durable.final}
           /\ \A i \in Inodes : content'[i] # content[i] =>
                 i \notin flushed /\ content[i] = "whole" /\ content'[i] = "torn"
<1>1. entry \in Names /\ durable \in Names /\ content \in ContentTypes
  BY DEF Inv, Typed
<1>2. /\ entry' \in Names /\ durable' = entry' /\ flushed' = Inodes
      /\ entry'.partial \in {entry.partial, durable.partial}
      /\ entry'.final \in {entry.final, durable.final}
  BY <1>1 DEF LoseUnsynced, Names
<1>3. PICK damaged \in SUBSET {i \in Inodes \ flushed : content[i] = "whole"} :
         content' = [i \in Inodes |-> IF i \in damaged THEN "torn" ELSE content[i]]
  BY DEF LoseUnsynced
<1> QED BY <1>1, <1>2, <1>3 DEF ContentTypes

LEMMA AttemptEndsInv ==
    ASSUME Inv, FinishJob \/ SweepInterrupted \/ Restart
    PROVE  Inv'
<1>0. /\ document \in DocumentTypes /\ entry \in Names /\ durable \in Names
      /\ content \in ContentTypes /\ flushed \in SUBSET Inodes /\ faults \in 0 .. MaxFaults
      /\ durable.final \in {0, entry.final} /\ faults \in faults .. MaxFaults
  BY MaterializationAssumption DEF Inv, Typed, PartialHolds
<1>1. CASE FinishJob
  BY <1>0, <1>1, FinishRows, EndInv DEF FinishJob, docVars, diskVars, envVars
<1>2. ASSUME NEW kind, Fault(kind)
      PROVE  faults' \in faults .. MaxFaults
  BY <1>0, <1>2, MaterializationAssumption DEF Fault
<1>3. CASE SweepInterrupted
  <2>1. Recover /\ faults' \in faults .. MaxFaults /\ UNCHANGED <<document, root, diskVars, licence, permitted, struck, mislaid>>
        /\ temp' = FALSE /\ document.approval \in {"rejected", "cancelled"}
    BY <1>2, <1>3 DEF SweepInterrupted, Expired
  <2> QED BY <1>0, <2>1, RecoverRows, EndInv DEF diskVars
<1>4. CASE Restart
  <2>1. /\ Recover /\ faults' \in faults .. MaxFaults
        /\ UNCHANGED <<document, temp, root, licence, permitted, struck, mislaid>>
        /\ LoseUnsynced \/ UNCHANGED diskVars
    BY <1>2, <1>4 DEF Restart
  <2>2. CASE LoseUnsynced
    BY <1>0, <2>1, <2>2, PowerCutFiles, RecoverRows, EndInv
  <2>3. CASE UNCHANGED diskVars
    BY <1>0, <2>1, <2>3, RecoverRows, EndInv DEF diskVars
  <2> QED BY <2>1, <2>2, <2>3
<1> QED BY <1>1, <1>3, <1>4

\* A sweep that is rolled back leaves everything but the copy as it was.
LEMMA RolledBackInv ==
    ASSUME Inv, SweepRolledBack
    PROVE  Inv'
<1>1. /\ document.approval \in {"rejected", "cancelled"} /\ temp' = FALSE /\ mislaid' = TRUE
      /\ UNCHANGED <<document, checked, op, job, root, diskVars, worker, licence,
                     permitted, struck>>
  BY DEF SweepRolledBack, Expired
<1>2. faults' \in faults .. MaxFaults
  BY MaterializationAssumption DEF SweepRolledBack, Fault, Inv, Typed
<1>3. (Typed /\ Counted)'
  <2>1. faults' \in 0 .. MaxFaults /\ root.revision <= faults'
    BY <1>2, MaterializationAssumption DEF Inv, Typed, Counted, RootTypes
  <2> QED BY <1>1, <2>1 DEF Inv, Typed, Counted, diskVars
<1>4. (RowsAgree /\ RowsHold /\ CopyHolds /\ RemovedHolds /\ PartialHolds)'
  BY <1>1 DEF Inv, RowsAgree, WorkerOwnsJob, JournalAgrees, RowsHold, CopyHolds,
     RemovedHolds, PartialHolds, Settled, Storing, Cleaning, diskVars
<1> QED BY <1>3, <1>4 DEF Inv

\* The rest of the world.
LEMMA WorldInv ==
    ASSUME Inv, ToggleLicence \/ TogglePermission \/ ConfigureRoot \/ RootUnreachable
           \/ RootReachable \/ OutsiderPlaces \/ OutsiderRemoves \/ OutsiderAlters
    PROVE  Inv'
<1>0. /\ document \in DocumentTypes /\ op \in OpTypes /\ job \in JobTypes /\ root \in RootTypes
      /\ entry \in Names /\ durable \in Names /\ content \in ContentTypes
      /\ worker \in WorkerTypes /\ faults \in 0 .. MaxFaults
  BY DEF Inv, Typed
<1>1. CASE ToggleLicence
  <2>1. licence' \in BOOLEAN
    BY <1>0, <1>1, MaterializationAssumption DEF ToggleLicence, Inv, Typed
  <2>2. (Typed /\ Counted)'
    BY <1>0, <1>1, <2>1, MaterializationAssumption DEF Inv, ToggleLicence, docVars,
       diskVars, Typed, Counted
  <2>3. (RowsAgree /\ RowsHold /\ CopyHolds /\ RemovedHolds /\ PartialHolds)'
    BY <1>1 DEF Inv, ToggleLicence, docVars, diskVars, RowsAgree, WorkerOwnsJob,
       JournalAgrees, RowsHold, CopyHolds,
       RemovedHolds, PartialHolds
  <2> QED BY <2>2, <2>3 DEF Inv
<1>2. CASE TogglePermission
  <2>1. permitted' \in BOOLEAN
    BY <1>0, <1>2, MaterializationAssumption DEF TogglePermission, Inv, Typed
  <2>2. (Typed /\ Counted)'
    BY <1>0, <1>2, <2>1, MaterializationAssumption DEF Inv, TogglePermission, docVars,
       diskVars, Typed, Counted
  <2>3. (RowsAgree /\ RowsHold /\ CopyHolds /\ RemovedHolds /\ PartialHolds)'
    BY <1>2 DEF Inv, TogglePermission, docVars, diskVars, RowsAgree, WorkerOwnsJob,
       JournalAgrees, RowsHold, CopyHolds,
       RemovedHolds, PartialHolds
  <2> QED BY <2>2, <2>3 DEF Inv
<1>3. CASE ConfigureRoot
  <2>1. root' \in RootTypes /\ faults' \in 0 .. MaxFaults /\ root'.revision <= faults'
    BY <1>0, <1>3, MaterializationAssumption DEF ConfigureRoot, Fault, RootTypes, Inv,
       Counted
  <2>2. (Typed /\ Counted)'
    BY <1>0, <1>3, <2>1, MaterializationAssumption DEF Inv, ConfigureRoot, docVars,
       diskVars, Typed, Counted
  <2>3. (RowsAgree /\ RowsHold /\ CopyHolds /\ RemovedHolds /\ PartialHolds)'
    BY <1>3 DEF Inv, ConfigureRoot, docVars, diskVars, RowsAgree, WorkerOwnsJob,
       JournalAgrees, RowsHold, CopyHolds,
       RemovedHolds, PartialHolds
  <2> QED BY <2>2, <2>3 DEF Inv
<1>4. CASE RootUnreachable
  <2>1. root' \in RootTypes /\ faults' \in 0 .. MaxFaults /\ root'.revision <= faults'
    BY <1>0, <1>4, MaterializationAssumption DEF RootUnreachable, Fault, RootTypes, Inv,
       Counted
  <2>2. (Typed /\ Counted)'
    BY <1>0, <1>4, <2>1, MaterializationAssumption DEF Inv, RootUnreachable, docVars,
       diskVars, Typed, Counted
  <2>3. (RowsAgree /\ RowsHold /\ CopyHolds /\ RemovedHolds /\ PartialHolds)'
    BY <1>4 DEF Inv, RootUnreachable, docVars, diskVars, RowsAgree, WorkerOwnsJob,
       JournalAgrees, RowsHold, CopyHolds,
       RemovedHolds, PartialHolds
  <2> QED BY <2>2, <2>3 DEF Inv
<1>5. CASE RootReachable
  <2>1. root' \in RootTypes /\ faults' \in 0 .. MaxFaults /\ root'.revision <= faults'
    BY <1>0, <1>5, MaterializationAssumption DEF RootReachable, Fault, RootTypes, Inv,
       Counted
  <2>2. (Typed /\ Counted)'
    BY <1>0, <1>5, <2>1, MaterializationAssumption DEF Inv, RootReachable, docVars,
       diskVars, Typed, Counted
  <2>3. (RowsAgree /\ RowsHold /\ CopyHolds /\ RemovedHolds /\ PartialHolds)'
    BY <1>5 DEF Inv, RootReachable, docVars, diskVars, RowsAgree, WorkerOwnsJob,
       JournalAgrees, RowsHold, CopyHolds,
       RemovedHolds, PartialHolds
  <2> QED BY <2>2, <2>3 DEF Inv
<1>6. CASE OutsiderPlaces
  <2>0. faults' \in 0 .. MaxFaults /\ root.revision <= faults'
    BY <1>0, <1>6, MaterializationAssumption DEF OutsiderPlaces, Fault, Inv, Counted,
       RootTypes
  <2>P. PICK i \in Unused : /\ entry' = [entry EXCEPT !.final = i]
                            /\ durable' = [durable EXCEPT !.final = i]
                            /\ content' = [content EXCEPT ![i] = "foreign"]
                            /\ flushed' = flushed \cup {i}
    BY <1>6 DEF OutsiderPlaces
  <2>1. /\ entry' \in Names /\ durable' \in Names /\ content' \in ContentTypes
        /\ flushed' \in SUBSET Inodes
        /\ entry'.final = i /\ durable'.final = i /\ i # entry.partial
        /\ entry'.partial = entry.partial /\ durable'.partial = durable.partial
        /\ \A k \in Inodes \ {i} : content'[k] = content[k]
    BY <1>0, <1>6, <2>P, MaterializationAssumption DEF OutsiderPlaces, Names, ContentTypes,
       Unused, Inv, Typed
  <2>2. (Typed /\ Counted)'
    BY <1>0, <1>6, <2>P, <2>0, <2>1, MaterializationAssumption DEF Inv, OutsiderPlaces,
       docVars, LastCheckPast, Typed, Counted
  <2>3. (RowsAgree /\ RowsHold /\ CopyHolds /\ RemovedHolds /\ PartialHolds)'
    BY <1>6, <2>P, <2>1 DEF Inv, OutsiderPlaces, docVars, RowsAgree, WorkerOwnsJob,
       JournalAgrees, RowsHold,
       CopyHolds, RemovedHolds, PartialHolds
  <2> QED BY <2>2, <2>3 DEF Inv
<1>7. CASE OutsiderRemoves
  <2>0. faults' \in 0 .. MaxFaults /\ root.revision <= faults'
    BY <1>0, <1>7, MaterializationAssumption DEF OutsiderRemoves, Fault, Inv, Counted,
       RootTypes
  <2>1. /\ entry' \in Names /\ durable' \in Names
        /\ entry'.final = 0 /\ durable'.final = 0
        /\ entry'.partial = entry.partial /\ durable'.partial = durable.partial
    BY <1>0, <1>7, MaterializationAssumption DEF OutsiderRemoves, Names, Inv, Typed
  <2>2. (Typed /\ Counted)'
    BY <1>0, <1>7, <2>0, <2>1, MaterializationAssumption DEF Inv, OutsiderRemoves, docVars,
       LastCheckPast, Typed, Counted
  <2>3. (RowsAgree /\ RowsHold /\ CopyHolds /\ RemovedHolds /\ PartialHolds)'
    BY <1>7, <2>1 DEF Inv, OutsiderRemoves, docVars, RowsAgree, WorkerOwnsJob,
       JournalAgrees, RowsHold,
       CopyHolds, RemovedHolds, PartialHolds
  <2> QED BY <2>2, <2>3 DEF Inv
<1>8. CASE OutsiderAlters
  <2>0. faults' \in 0 .. MaxFaults /\ root.revision <= faults'
    BY <1>0, <1>8, MaterializationAssumption DEF OutsiderAlters, Fault, Inv, Counted,
       RootTypes
  <2>1. /\ content' \in ContentTypes
        /\ \A k \in Inodes \ {entry.final} : content'[k] = content[k]
    BY <1>0, <1>8, MaterializationAssumption DEF OutsiderAlters, ContentTypes, Inv, Typed
  <2>2. (Typed /\ Counted)'
    BY <1>0, <1>8, <2>0, <2>1, MaterializationAssumption DEF Inv, OutsiderAlters, docVars,
       LastCheckPast, Typed, Counted
  <2>3. (RowsAgree /\ RowsHold /\ CopyHolds /\ RemovedHolds /\ PartialHolds)'
    BY <1>8, <2>1 DEF Inv, OutsiderAlters, docVars, RowsAgree, WorkerOwnsJob, JournalAgrees,
       RowsHold,
       CopyHolds, RemovedHolds, PartialHolds
  <2> QED BY <2>2, <2>3 DEF Inv
<1> QED BY <1>1, <1>2, <1>3, <1>4, <1>5, <1>6, <1>7, <1>8 DEF Inv

-----------------------------------------------------------------------------
LEMMA InitInv == Init => Inv
<1> SUFFICES ASSUME Init PROVE Inv
  OBVIOUS
<1>1. Typed
  <2>1. document \in DocumentTypes /\ op \in OpTypes
    BY MaterializationAssumption DEF Init, DocumentTypes, OpTypes, States, Editable
  <2>2. job \in JobTypes /\ root \in RootTypes
    BY MaterializationAssumption DEF Init, JobTypes, RootTypes
  <2>3. entry \in Names /\ durable \in Names /\ content \in ContentTypes
    BY DEF Init, Names, ContentTypes
  <2>4. worker \in WorkerTypes /\ faults \in 0 .. MaxFaults
    BY MaterializationAssumption DEF Init, WorkerTypes, Idle, Steps, Causes
  <2> QED BY <2>1, <2>2, <2>3, <2>4 DEF Init, Typed
<1>2. Counted /\ RowsAgree /\ RowsHold /\ CopyHolds /\ RemovedHolds /\ PartialHolds
  BY DEF Init, Counted, RowsAgree, WorkerOwnsJob, JournalAgrees, RowsHold, CopyHolds,
         RemovedHolds, PartialHolds, Idle, Storing, Cleaning, Settled
<1> QED BY <1>1, <1>2 DEF Inv

LEMMA NextInv == Inv /\ [Next]_vars => Inv'
<1> SUFFICES ASSUME Inv, [Next]_vars PROVE Inv'
  OBVIOUS
<1>1. CASE UNCHANGED vars
  BY <1>1 DEF vars, Inv, Typed, Counted, RowsAgree, WorkerOwnsJob, JournalAgrees, RowsHold,
              CopyHolds, RemovedHolds, PartialHolds
<1>2. CASE WorkerStep
  BY <1>2, LookStepInv, JournalInv, DiskInv, AttemptEndsInv DEF WorkerStep
<1>3. CASE FaultStep
  BY <1>3, LookStepInv, AttemptEndsInv, RolledBackInv, WorldInv DEF FaultStep
<1>4. CASE WorldStep
  BY <1>4, QueueInv, WorldInv DEF WorldStep
<1> QED BY <1>1, <1>2, <1>3, <1>4, UserInv, QueueInv DEF Next

LEMMA Invariance == Spec => []Inv
BY InitInv, NextInv, PTL DEF Spec

\* Rows, files and the worker keep their form, and no job exceeds its attempts.
THEOREM TypeCorrect == Spec => []TypeOK
<1>1. Inv => TypeOK
  BY DEF Inv, Typed, TypeOK, DocumentTypes, OpTypes, JobTypes, RootTypes, ContentTypes,
         WorkerTypes
<1> QED BY <1>1, Invariance, PTL

\* The document, its job and its journal tell one story, whatever crashes, lost
\* outcomes, retries and sweeps come between the transactions that write them
\* (beginApproval, commitMaterialization, finish, recoverJobs,
\* RetryMaterialization).
THEOREM RowsStayAgreed == Spec => []RowsAgree
<1>1. Inv => RowsAgree
  BY DEF Inv
<1> QED BY <1>1, Invariance, PTL

\* Only an outsider or a power cut takes the definitive name from a file; the
\* worker gives it once, to its own partial (Link, cleanupMaterialization).
THEOREM FilesAreNotReplaced == Spec => NeverReplaced
<1>1. Inv /\ [Next]_vars =>
         [entry'.final # entry.final => entry.final = 0 \/ faults' # faults]_vars
  <2> SUFFICES ASSUME Inv, Next
               PROVE  entry'.final # entry.final => entry.final = 0 \/ faults' # faults
    OBVIOUS
  <2>0. entry \in Names /\ faults \in 0 .. MaxFaults
    BY DEF Inv, Typed
  <2>1. ASSUME NEW kind, Fault(kind)
        PROVE  faults' # faults
    BY <2>0, <2>1, MaterializationAssumption DEF Fault
  <2>2. CASE UserStep
    BY <2>2 DEF UserStep, SubmitReview, Reject, Classify, CancelUpload, CheckContent,
       Approve,
                RetryMaterialization, Revise, diskVars
  <2>3. CASE SweepUpload \/ ClaimJob \/ PauseJob
    BY <2>3 DEF SweepUpload, ClaimJob, PauseJob, diskVars
  <2>4. CASE FindPartial \/ OpenPartial \/ LinkFinal \/ UnlinkPartial
    BY <2>0, <2>4 DEF FindPartial, OpenPartial, LinkFinal, Publish, UnlinkPartial, Names
  <2>5. CASE WorkerStep /\ ~(FindPartial \/ OpenPartial \/ LinkFinal \/ UnlinkPartial)
    BY <2>5 DEF WorkerStep, LicenceRefused, Begin, FindFinal, FindNothing, Adopt,
       PrepareCopy,
                FillPartial, FlushPartial, MarkVerified, SyncDirectory, IdentifyFinal,
                RecordPublished, Reopen, CommitApproval, CommitRefused, Clean, DropTemporary,
                SettleDirectory, Seal, FinishJob, Look, diskVars
  <2>6. CASE FaultStep
    BY <2>1, <2>6 DEF FaultStep, FinishIsLost, Restart, SweepInterrupted, SweepRolledBack,
                DiskFails,
                OutsiderPlaces, OutsiderRemoves, OutsiderAlters
  <2>7. CASE WorldStep
    BY <2>7 DEF WorldStep, RetentionEnds, ToggleLicence, TogglePermission, ConfigureRoot,
                RootUnreachable, RootReachable, diskVars
  <2> QED BY <2>2, <2>3, <2>4, <2>5, <2>6, <2>7 DEF Next
<1> QED BY <1>1, Invariance, PTL DEF Spec, NeverReplaced

\* An approval decided long before is committed only for an approver who may
\* still approve, under the plan of the root it was decided for and with the
\* licence (commitMaterialization).
THEOREM CommitsAreAuthorised == Spec => CommitIsAuthorised
<1>1. Inv /\ [Next]_vars =>
         [document'.approval = "approved" /\ document.approval # "approved" =>
             /\ permitted /\ licence
             /\ root.revision = op.rootRev /\ root.status # "disabled"]_vars
  <2> SUFFICES ASSUME Inv, Next, document'.approval = "approved",
                      document.approval # "approved"
               PROVE  /\ permitted /\ licence
                      /\ root.revision = op.rootRev /\ root.status # "disabled"
    OBVIOUS
  <2>0. document \in DocumentTypes /\ document' # document
    BY DEF Inv, Typed
  <2>1. CASE UserStep
    BY <2>0, <2>1 DEF UserStep, SubmitReview, Reject, Classify, CancelUpload, CheckContent,
                Approve, RetryMaterialization, Revise, docVars, DocumentTypes
  <2>2. CASE SweepUpload \/ ClaimJob \/ PauseJob
    BY <2>0, <2>2 DEF SweepUpload, ClaimJob, PauseJob, docVars, DocumentTypes
  <2>3. CASE CommitApproval
    BY <2>3 DEF CommitApproval, CommitRefusal
  <2>4. CASE WorkerStep /\ ~CommitApproval
    BY <2>0, <2>4 DEF WorkerStep, LicenceRefused, Begin, FindFinal, FindNothing,
       FindPartial,
                Adopt, PrepareCopy, OpenPartial, FillPartial, FlushPartial, MarkVerified,
                LinkFinal, SyncDirectory, IdentifyFinal, RecordPublished, Reopen, CommitRefused,
                Clean, DropTemporary, UnlinkPartial, SettleDirectory, Seal, FinishJob, Look,
                docVars
  <2>5. CASE FaultStep
    BY <2>0, <2>5 DEF FaultStep, FinishIsLost, Restart, SweepInterrupted, SweepRolledBack,
                DiskFails,
                OutsiderPlaces, OutsiderRemoves, OutsiderAlters, docVars
  <2>6. CASE WorldStep
    BY <2>0, <2>6 DEF WorldStep, RetentionEnds, ToggleLicence, TogglePermission,
       ConfigureRoot,
                RootUnreachable, RootReachable, docVars, DocumentTypes
  <2> QED BY <2>1, <2>2, <2>3, <2>4, <2>5, <2>6 DEF Next
<1> QED BY <1>1, Invariance, PTL DEF Spec, CommitIsAuthorised

-----------------------------------------------------------------------------
(* A decision taken over a copy that a rolled-back sweep had taken.          *)

\* Nothing of the operation has reached the managed root.
Bare == entry.partial = 0 /\ durable.partial = 0 /\ op.identity = 0

\* Without the private copy the attempts end where they would open it, so that
\* nothing is written, published or committed.
Barren ==
    /\ op.state = "none" => Bare
    /\ mislaid => /\ ~temp /\ Bare /\ op.state \notin Settled
                  /\ worker.pc \in {"idle", "begin", "look", "prepare", "copy", "ended"}

\* Steps that leave the directory and the journal's identity alone and after
\* which no attempt is past the copy.
LEMMA BarrenStays ==
    ASSUME Inv, Barren, UNCHANGED mislaid, temp' = temp \/ temp' = FALSE,
           Bare => Bare', op'.state = "none" => op.state = "none",
           mislaid => op'.state \notin Settled,
           mislaid => worker'.pc = worker.pc \/ worker'.pc \in {"idle", "begin", "ended"}
    PROVE  Barren'
BY DEF Barren, Bare, Inv, Typed

LEMMA OtherBarren ==
    ASSUME Inv, Barren, UserStep \/ SweepUpload \/ ClaimJob \/ PauseJob \/ WorldStep
    PROVE  Barren'
<1>0. op \in OpTypes /\ document \in DocumentTypes
  BY DEF Inv, Typed
<1>1. UNCHANGED <<mislaid, entry, durable>> /\ (temp' = temp \/ temp' = FALSE)
  <2>1. CASE UserStep
    BY <2>1 DEF UserStep, SubmitReview, Reject, Classify, CancelUpload, CheckContent,
       Approve, RetryMaterialization, Revise, diskVars, envVars, docVars
  <2>2. CASE SweepUpload \/ ClaimJob \/ PauseJob
    BY <2>2 DEF SweepUpload, ClaimJob, PauseJob, diskVars, envVars, docVars
  <2>3. CASE WorldStep
    BY <2>3 DEF WorldStep, RetentionEnds, ToggleLicence, TogglePermission, ConfigureRoot,
       RootUnreachable, RootReachable, diskVars, envVars, docVars
  <2> QED BY <2>1, <2>2, <2>3
<1>2. /\ op'.identity = op.identity
      /\ op'.state = op.state \/ op'.state = "planned"
  <2>1. CASE UserStep
    BY <1>0, <2>1 DEF UserStep, SubmitReview, Reject, Classify, CancelUpload, CheckContent,
       Approve, RetryMaterialization, Revise, OpTypes
  <2>2. CASE SweepUpload \/ ClaimJob \/ PauseJob
    BY <2>2 DEF SweepUpload, ClaimJob, PauseJob
  <2>3. CASE WorldStep
    BY <2>3 DEF WorldStep, RetentionEnds, ToggleLicence, TogglePermission, ConfigureRoot,
       RootUnreachable, RootReachable
  <2> QED BY <2>1, <2>2, <2>3
<1>3. worker'.pc = worker.pc \/ worker'.pc = "begin"
  <2>1. CASE UserStep
    BY <2>1 DEF UserStep, SubmitReview, Reject, Classify, CancelUpload, CheckContent,
       Approve, RetryMaterialization, Revise
  <2>2. CASE SweepUpload \/ ClaimJob \/ PauseJob
    BY <2>2 DEF SweepUpload, ClaimJob, PauseJob, Idle
  <2>3. CASE WorldStep
    BY <2>3 DEF WorldStep, RetentionEnds, ToggleLicence, TogglePermission, ConfigureRoot,
       RootUnreachable, RootReachable, envVars
  <2> QED BY <2>1, <2>2, <2>3
<1> QED BY <1>1, <1>2, <1>3, BarrenStays DEF Barren, Bare, Settled

LEMMA WorkerBarren ==
    ASSUME Inv, Barren, WorkerStep
    PROVE  Barren'
<1>0. /\ worker \in WorkerTypes /\ entry \in Names /\ durable \in Names
      /\ op \in OpTypes /\ op.state # "none"
  <2>1. worker.pc # "idle"
    BY DEF WorkerStep, LicenceRefused, Begin, FindFinal, FindNothing, FindPartial, Adopt,
       PrepareCopy, OpenPartial, FillPartial, FlushPartial, MarkVerified, LinkFinal,
       SyncDirectory, IdentifyFinal, RecordPublished, Reopen, CommitApproval, CommitRefused,
       Clean, DropTemporary, UnlinkPartial, SettleDirectory, Seal, FinishJob, Look,
       LicenceChecks
  <2> QED BY <2>1 DEF Inv, Typed, RowsAgree, WorkerOwnsJob, RowsHold
<1>S. /\ \A cause : Stop(cause) => worker'.pc = "ended"
      /\ \A pc : Go(pc) => worker'.pc = pc
      /\ \A pc, inode : GoSeen(pc, inode) => worker'.pc = pc
  BY <1>0 DEF Stop, Go, GoSeen, WorkerTypes
<1>1. UNCHANGED mislaid /\ op'.state # "none"
  <2>1. CASE FinishJob
    BY <1>0, <2>1, FinishRows DEF FinishJob, RowsKept, envVars
  <2>2. CASE WorkerStep /\ ~FinishJob
    BY <1>0, <2>2 DEF WorkerStep, LicenceRefused, Begin, FindFinal, FindNothing,
       FindPartial, Adopt, PrepareCopy, OpenPartial, FillPartial, FlushPartial,
       MarkVerified, LinkFinal, SyncDirectory, IdentifyFinal, RecordPublished, Reopen,
       CommitApproval, CommitRefused, Clean, DropTemporary, UnlinkPartial, SettleDirectory,
       Seal, Look, Journal, OpTypes, envVars
  <2> QED BY <2>1, <2>2
<1>2. CASE ~mislaid
  BY <1>1, <1>2 DEF Barren
<1> SUFFICES ASSUME mislaid PROVE Barren'
  BY <1>2
<1>3. /\ ~temp /\ Bare /\ op.state \notin Settled
      /\ worker.pc \in {"idle", "begin", "look", "prepare", "copy", "ended"}
  BY DEF Barren
<1>4. CASE LicenceRefused
  <2>1. worker'.pc = "ended" /\ UNCHANGED <<temp, entry, durable, op>>
    BY <1>S, <1>4 DEF LicenceRefused, docVars, diskVars
  <2> QED BY <1>1, <1>3, <2>1 DEF Barren, Bare
<1>5. CASE Begin
  <2>1. worker'.pc \in {"look", "ended"} /\ UNCHANGED <<temp, entry, durable, op>>
    BY <1>S, <1>3, <1>5 DEF Begin, Look, docVars, diskVars, Settled
  <2> QED BY <1>1, <1>3, <2>1 DEF Barren, Bare
<1>6. CASE FindFinal
  <2>1. ~Ours(entry.final)
    BY <1>3, <1>6 DEF FindFinal, Ours, Bare
  <2>2. worker'.pc = "ended" /\ UNCHANGED <<temp, entry, durable, op>>
    BY <1>S, <1>6, <2>1 DEF FindFinal, Look, docVars, diskVars
  <2> QED BY <1>1, <1>3, <2>2 DEF Barren, Bare
<1>7. CASE FindPartial
  <2>1. ~Whole(entry.partial)
    BY <1>3 DEF Whole, Bare
  <2>2. /\ worker'.pc = "prepare" /\ entry'.partial = 0
        /\ UNCHANGED <<temp, durable, op>>
    BY <1>0, <1>S, <1>7, <2>1 DEF FindPartial, docVars, Names
  <2> QED BY <1>1, <1>3, <2>2 DEF Barren, Bare
<1>8. CASE PrepareCopy
  <2>1. /\ worker'.pc = "copy" /\ op'.identity = op.identity /\ op'.state = "copying"
        /\ UNCHANGED <<temp, entry, durable>>
    BY <1>0, <1>S, <1>8 DEF PrepareCopy, Journal, docVars, diskVars, OpTypes
  <2> QED BY <1>1, <1>3, <2>1 DEF Barren, Bare, Settled
<1>9. CASE OpenPartial
  <2>1. worker'.pc = "ended" /\ UNCHANGED <<temp, entry, durable, op>>
    BY <1>S, <1>3, <1>9 DEF OpenPartial, docVars
  <2> QED BY <1>1, <1>3, <2>1 DEF Barren, Bare
<1>10. CASE FinishJob
  <2>1. RowsKept /\ worker'.pc = "idle" /\ UNCHANGED <<temp, entry, durable>>
    BY <1>10, FinishRows DEF FinishJob, Idle, docVars, diskVars
  <2> QED BY <1>1, <1>3, <2>1 DEF Barren, Bare, RowsKept, Settled
<1>11. CASE FindNothing
  BY <1>3, <1>11 DEF FindNothing, Bare
<1>12. CASE \/ Adopt \/ FillPartial \/ FlushPartial \/ MarkVerified \/ LinkFinal
            \/ SyncDirectory \/ IdentifyFinal \/ RecordPublished \/ Reopen
            \/ CommitApproval \/ CommitRefused \/ Clean \/ DropTemporary \/ UnlinkPartial
            \/ SettleDirectory \/ Seal
  BY <1>3, <1>12 DEF Adopt, FillPartial, FlushPartial, MarkVerified, LinkFinal,
     SyncDirectory, IdentifyFinal, RecordPublished, Reopen, CommitApproval, CommitRefused,
     Clean, DropTemporary, UnlinkPartial, SettleDirectory, Seal, Look
<1> QED BY <1>4, <1>5, <1>6, <1>7, <1>8, <1>9, <1>10, <1>11, <1>12 DEF WorkerStep

LEMMA FaultBarren ==
    ASSUME Inv, Barren, FaultStep
    PROVE  Barren'
<1>0. /\ worker \in WorkerTypes /\ entry \in Names /\ durable \in Names
      /\ temp \in BOOLEAN
  BY DEF Inv, Typed
<1>1. CASE FinishIsLost \/ DiskFails
  <2>1. worker'.pc \in {"idle", "ended"}
    <3>1. CASE FinishIsLost
      BY <3>1 DEF FinishIsLost, Idle
    <3>2. CASE DiskFails
      BY <1>0, <3>2 DEF DiskFails, Stop, WorkerTypes
    <3> QED BY <1>1, <3>1, <3>2
  <2>2. UNCHANGED <<temp, op, entry, durable, mislaid>>
    BY <1>1 DEF FinishIsLost, DiskFails, docVars, diskVars
  <2> QED BY <2>1, <2>2, BarrenStays DEF Barren, Bare
<1>2. CASE SweepInterrupted \/ Restart
  <2>1. /\ RowsKept /\ worker'.pc = "idle" /\ UNCHANGED mislaid
        /\ temp' = temp \/ temp' = FALSE
    <3>1. Recover /\ UNCHANGED <<document, mislaid>>
      BY <1>2 DEF SweepInterrupted, Restart
    <3>2. temp' = temp \/ temp' = FALSE
      BY <1>2 DEF SweepInterrupted, Restart
    <3>3. RowsKept /\ worker' = Idle
      BY <3>1, RecoverRows DEF Recover
    <3> QED BY <3>1, <3>2, <3>3 DEF Idle
  <2>2. entry'.partial \in {entry.partial, durable.partial}
        /\ durable'.partial \in {entry.partial, durable.partial}
    <3>1. CASE LoseUnsynced
      BY <3>1, PowerCutFiles
    <3>2. CASE UNCHANGED diskVars
      BY <3>2 DEF diskVars
    <3> QED BY <1>2, <3>1, <3>2 DEF SweepInterrupted, Restart
  <2>3. Bare => Bare'
    BY <2>1, <2>2 DEF Bare, RowsKept
  <2> QED BY <2>1, <2>3, BarrenStays DEF Barren, RowsKept, Settled
<1>3. CASE SweepRolledBack
  <2>1. /\ document.approval \in {"rejected", "cancelled"} /\ temp' = FALSE
        /\ UNCHANGED <<op, entry, durable, worker>>
    BY <1>3 DEF SweepRolledBack, Expired, diskVars
  <2>2. op.state = "none"
    BY <2>1 DEF Inv, RowsAgree, WorkerOwnsJob, JournalAgrees
  <2>3. worker.pc = "idle"
    BY <2>2 DEF Inv, RowsAgree, WorkerOwnsJob, RowsHold
  <2> QED BY <2>1, <2>2, <2>3 DEF Barren, Bare, Settled
<1>4. CASE OutsiderPlaces \/ OutsiderRemoves \/ OutsiderAlters
  <2>1. /\ UNCHANGED <<temp, op, worker, mislaid>>
        /\ entry'.partial = entry.partial /\ durable'.partial = durable.partial
    BY <1>0, <1>4 DEF OutsiderPlaces, OutsiderRemoves, OutsiderAlters, docVars, Names
  <2> QED BY <2>1, BarrenStays DEF Barren, Bare
<1> QED BY <1>1, <1>2, <1>3, <1>4 DEF FaultStep

LEMMA NextBarren == Inv /\ Barren /\ [Next]_vars => Barren'
<1> SUFFICES ASSUME Inv, Barren, [Next]_vars PROVE Barren'
  OBVIOUS
<1>1. CASE UNCHANGED vars
  BY <1>1 DEF vars, Barren, Bare
<1> QED BY <1>1, OtherBarren, WorkerBarren, FaultBarren DEF Next

LEMMA InitBarren == Init => Barren
BY DEF Init, Barren, Bare

LEMMA BarrenInvariance == Spec => []Barren
BY InitBarren, NextBarren, Invariance, PTL DEF Spec

-----------------------------------------------------------------------------
(* The steps of the storage are those of ManagedPublication.                 *)

Decision == CASE document.approval = "materializing" -> "taken"
              [] document.approval = "approved"      -> "approved"
              [] OTHER                               -> "open"

Final == IF entry.final = 0 THEN "absent"
         ELSE IF Whole(entry.final) THEN "whole" ELSE "damaged"

Seen == worker.pc \in {"commit", "drop"}

\* What a step may do besides going on with the publication.
Disturbed == /\ Seen' => Seen
             /\ Final' \in {Final, "absent", "damaged"}
             /\ checked' \in {checked, FALSE}
             /\ UNCHANGED <<Decision, temp>>

LEMMA DisturbedIsStep ==
    ASSUME Disturbed
    PROVE  Publication!Next
<1>1. Seen \in BOOLEAN /\ Seen' \in BOOLEAN
  BY DEF Seen
<1>2. Seen' \in {Seen, FALSE}
  BY <1>1 DEF Disturbed
<1> QED BY <1>2 DEF Disturbed, Decision, Final, Seen, Publication!Next, Publication!Disturb

\* A step after which nothing is seen, and which leaves the definitive file.
LEMMA QuietStep ==
    ASSUME UNCHANGED <<document, temp>>, checked' \in {checked, FALSE},
           worker'.pc \notin {"commit", "drop"},
           entry'.final = entry.final,
           entry.final # 0 => content'[entry.final] = content[entry.final]
    PROVE  Disturbed
BY DEF Disturbed, Decision, Final, Seen, Whole

LEMMA UserPublication ==
    ASSUME Inv, UserStep \/ SweepUpload \/ RetentionEnds \/ ClaimJob \/ PauseJob
    PROVE  Publication!Next \/ Disturbed
<1>0. document \in DocumentTypes
  BY DEF Inv, Typed
<1>1. ASSUME NEW d, Revise(d), document.approval \in Editable,
             d.approval \in Editable \cup {"cancelled"}
      PROVE  Disturbed
  BY <1>1 DEF Revise, Disturbed, Decision, Final, Seen, Whole, diskVars, Editable
<1>2. CASE SubmitReview
  BY <1>0, <1>1, <1>2 DEF SubmitReview, DocumentTypes, Editable
<1>3. CASE Reject
  BY <1>0, <1>1, <1>3 DEF Reject, DocumentTypes, Editable
<1>4. CASE Classify
  BY <1>0, <1>1, <1>4 DEF Classify, DocumentTypes, Editable
<1>5. CASE CancelUpload
  BY <1>0, <1>1, <1>5 DEF CancelUpload, DocumentTypes, Editable
<1>6. CASE RetryMaterialization \/ PauseJob
  BY <1>6 DEF RetryMaterialization, PauseJob, Disturbed, Decision, Final, Seen, Whole,
     diskVars, docVars
<1>11. CASE CheckContent
  <2>1. document.approval \in Editable /\ temp /\ checked' = TRUE
        /\ UNCHANGED <<document, temp, entry, content, worker>>
    BY <1>11 DEF CheckContent, diskVars
  <2> QED BY <2>1 DEF Publication!Next, Publication!Verify, Whole, Editable
<1>7. CASE Approve
  <2>1. /\ document.approval \in Editable /\ document'.approval = "materializing"
        /\ checked = TRUE /\ checked' = FALSE
    BY <1>0, <1>7 DEF Inv, Typed, Approve, Decided, DocumentTypes
  <2>2. UNCHANGED <<temp, entry, content, worker>>
    BY <1>7 DEF Approve, diskVars
  <2> QED BY <2>1, <2>2 DEF Publication!Next, Publication!Decide, Whole, Editable
<1>8. CASE SweepUpload
  <2>1. /\ document.approval \in {"rejected", "cancelled"}
        /\ document'.approval = document.approval /\ temp' = FALSE /\ checked' = FALSE
        /\ UNCHANGED <<entry, content, worker>>
    BY <1>0, <1>8 DEF SweepUpload, Expired, DocumentTypes, diskVars
  <2> QED BY <2>1 DEF Publication!Next, Publication!Discard, Whole
<1>9. CASE RetentionEnds
  <2>1. document'.approval = document.approval
    BY <1>0, <1>9 DEF RetentionEnds, DocumentTypes
  <2> QED BY <1>9, <2>1 DEF RetentionEnds, Disturbed, Decision, Final, Seen, Whole, diskVars
<1>10. CASE ClaimJob
  <2>1. worker'.pc = "begin"
    BY <1>10 DEF ClaimJob, Idle
  <2> QED BY <1>10, <2>1, QuietStep DEF ClaimJob, diskVars, docVars
<1> QED BY <1>2, <1>3, <1>4, <1>5, <1>6, <1>7, <1>8, <1>9, <1>10, <1>11
    DEF UserStep

\* What a worker finds before and after the commit: from the opening of the
\* private copy on, it is there.
LEMMA WorkerDecision ==
    ASSUME Inv, Barren
    PROVE  /\ worker.pc \in Storing =>
                 document.approval = "materializing" /\ (temp \/ mislaid)
           /\ worker.pc \in Storing \ {"look", "prepare", "copy"} => temp /\ ~mislaid
           /\ worker.pc \in Cleaning => document.approval = "approved"
<1>1. worker.pc \in Storing => op.state \notin Settled /\ op.state # "none"
  BY DEF Inv, RowsAgree, WorkerOwnsJob, RowsHold, Storing
<1> QED BY <1>1 DEF Inv, RowsAgree, WorkerOwnsJob, JournalAgrees, RowsHold, CopyHolds,
   Settled, Storing, Barren

LEMMA WorkerPublication ==
    ASSUME Inv, Barren, WorkerStep
    PROVE  Publication!Next \/ Disturbed
<1>0. /\ worker \in WorkerTypes /\ entry \in Names /\ content \in ContentTypes
      /\ document \in DocumentTypes
  BY DEF Inv, Typed
<1>1. CASE LicenceRefused \/ Begin \/ FindFinal \/ FindNothing \/ IdentifyFinal \/ CommitRefused
           \/ Adopt \/ PrepareCopy \/ MarkVerified \/ RecordPublished \/ Seal \/ FinishJob
  <2>1. UNCHANGED <<docVars, diskVars>>
    BY <1>1 DEF LicenceRefused, Begin, FindFinal, FindNothing, IdentifyFinal, CommitRefused,
                Adopt, PrepareCopy, MarkVerified, RecordPublished, Seal, FinishJob, Look
  <2>2. worker'.pc \notin {"commit", "drop"}
    <3>0. ASSUME NEW cause, Stop(cause)
          PROVE  worker'.pc = "ended"
      BY <1>0, <3>0 DEF Stop, WorkerTypes
    <3>1. CASE LicenceRefused \/ FindNothing \/ CommitRefused \/ Seal
      BY <3>0, <3>1 DEF LicenceRefused, FindNothing, CommitRefused, Seal
    <3>4. CASE FinishJob
      BY <3>4 DEF FinishJob, Idle
    <3>2. CASE Begin \/ FindFinal \/ IdentifyFinal
      BY <1>0, <3>2 DEF Begin, FindFinal, IdentifyFinal, Go, GoSeen, Stop, WorkerTypes
    <3>3. CASE Adopt \/ PrepareCopy \/ MarkVerified \/ RecordPublished
      BY <1>0, <3>3 DEF Adopt, PrepareCopy, MarkVerified, RecordPublished, Go, WorkerTypes
    <3> QED BY <1>1, <3>1, <3>2, <3>3, <3>4
  <2> QED BY <2>1, <2>2, QuietStep DEF docVars, diskVars
<1>2. CASE FindPartial \/ UnlinkPartial \/ SyncDirectory \/ SettleDirectory \/ FlushPartial
  <2>1. UNCHANGED <<docVars, content>> /\ entry'.final = entry.final
    BY <1>0, <1>2 DEF FindPartial, UnlinkPartial, SyncDirectory, SettleDirectory,
       FlushPartial,
                      Names
  <2>2. worker'.pc \notin {"commit", "drop"}
    BY <1>0, <1>2 DEF FindPartial, UnlinkPartial, SyncDirectory, SettleDirectory,
       FlushPartial,
                      Go, WorkerTypes
  <2> QED BY <2>1, <2>2, QuietStep DEF docVars
<1>3. CASE OpenPartial
  <2>1. UNCHANGED docVars /\ worker'.pc \notin {"commit", "drop"}
    BY <1>0, <1>3 DEF OpenPartial, Go, Stop, WorkerTypes
  <2>2. /\ entry'.final = entry.final
        /\ entry.final # 0 => content'[entry.final] = content[entry.final]
    BY <1>0, <1>3 DEF OpenPartial, Unused, Names, ContentTypes
  <2> QED BY <2>1, <2>2, QuietStep DEF docVars
<1>4. CASE FillPartial
  <2>1. UNCHANGED docVars /\ worker'.pc = "flush" /\ entry' = entry
    BY <1>0, <1>4 DEF FillPartial, Go, WorkerTypes
  <2>2. entry.final # 0 => content'[entry.final] = content[entry.final]
    BY <1>0, <1>4 DEF Inv, PartialHolds, FillPartial, Names, ContentTypes
  <2> QED BY <2>1, <2>2, QuietStep DEF docVars
<1>5. CASE LinkFinal
  <2>1. UNCHANGED <<docVars, content>> /\ worker.pc = "link"
        /\ entry'.final = Publish(entry.final, entry.partial)
    BY <1>0, <1>5 DEF LinkFinal, Names
  <2>2. worker'.pc \in {"sync", "ended"}
    BY <1>0, <1>5 DEF LinkFinal, Go, Stop, WorkerTypes
  <2>3. CASE entry.final # 0
    BY <2>1, <2>2, <2>3, QuietStep DEF Publish, docVars
  <2>4. CASE entry.final = 0
    <3>1. entry.partial # 0 /\ content[entry.partial] = "whole"
      BY <2>1 DEF Inv, PartialHolds
    <3>2. document.approval = "materializing" /\ temp
      BY <2>1, WorkerDecision DEF Storing
    <3> QED BY <2>1, <2>2, <2>4, <3>1, <3>2
            DEF Publish, docVars, Whole, Publication!Next, Publication!Publish
  <2> QED BY <2>3, <2>4
<1>6. CASE Reopen \/ Clean
  <2>1. UNCHANGED <<docVars, diskVars>> /\ worker.pc \in {"reopen", "clean"}
    BY <1>6 DEF Reopen, Clean, Look
  <2>2. /\ worker'.pc \in {"commit", "drop", "ended"}
        /\ worker'.pc \in {"commit", "drop"} => Whole(entry.final)
    BY <1>0, <1>6 DEF Reopen, Clean, Cleanable, Go, GoSeen, Stop, WorkerTypes
  <2>3. document.approval \in {"materializing", "approved"}
    BY <2>1, WorkerDecision DEF Storing, Cleaning
  <2>4. CASE worker'.pc = "ended"
    BY <2>1, <2>4, QuietStep DEF docVars, diskVars
  <2>5. CASE worker'.pc \in {"commit", "drop"}
    BY <2>1, <2>2, <2>3, <2>5 DEF docVars, diskVars, Whole, Publication!Next,
       Publication!See
  <2> QED BY <2>2, <2>4, <2>5
<1>7. CASE CommitApproval
  <2>1. /\ UNCHANGED <<temp, diskVars>> /\ worker.pc = "commit" /\ worker'.pc = "clean"
        /\ document'.approval = "approved" /\ checked' = FALSE
    BY <1>0, <1>7 DEF CommitApproval, Go, WorkerTypes
  <2>2. document.approval = "materializing" /\ checked = FALSE
    BY <2>1, WorkerDecision DEF Storing, Inv, Typed, CopyHolds, Editable
  <2>3. UNCHANGED <<temp, checked, entry, content>>
    BY <2>1, <2>2 DEF diskVars
  <2> QED BY <2>1, <2>2, <2>3 DEF Whole, Publication!Next, Publication!Approve
<1>8. CASE DropTemporary
  <2>1. /\ UNCHANGED <<document, checked, diskVars>> /\ worker.pc = "drop" /\ worker'.pc = "unlink"
        /\ temp' = FALSE
    BY <1>0, <1>8 DEF DropTemporary, Go, WorkerTypes
  <2>2. document.approval = "approved"
    BY <2>1, WorkerDecision DEF Cleaning
  <2> QED BY <2>1, <2>2 DEF diskVars, Whole, Publication!Next, Publication!Release
<1> QED BY <1>1, <1>2, <1>3, <1>4, <1>5, <1>6, <1>7, <1>8 DEF WorkerStep

LEMMA FaultPublication ==
    ASSUME Inv, Barren, FaultStep
    PROVE  Publication!Next \/ Disturbed
<1>0. /\ worker \in WorkerTypes /\ entry \in Names /\ content \in ContentTypes
      /\ document \in DocumentTypes /\ durable.final \in {0, entry.final}
  BY DEF Inv, Typed, PartialHolds
<1>1. CASE FinishIsLost \/ DiskFails
  <2>1. UNCHANGED <<docVars, diskVars>> /\ worker'.pc \in {"idle", "ended"}
    <3>1. CASE FinishIsLost
      BY <3>1 DEF FinishIsLost, Idle
    <3>2. CASE DiskFails
      <4>1. PICK cause : Stop(cause)
        BY <3>2 DEF DiskFails
      <4> QED BY <1>0, <3>2, <4>1 DEF DiskFails, Stop, WorkerTypes
    <3> QED BY <1>1, <3>1, <3>2
  <2> QED BY <2>1, QuietStep DEF docVars, diskVars
<1>2. CASE Restart
  <2>1. /\ UNCHANGED <<document, temp>> /\ checked' = FALSE /\ worker'.pc = "idle"
        /\ LoseUnsynced \/ UNCHANGED diskVars
    BY <1>2 DEF Restart, Recover, Idle
  <2>2. CASE UNCHANGED diskVars
    BY <2>1, <2>2, QuietStep DEF diskVars
  <2>3. CASE LoseUnsynced
    <3>1. entry'.final \in {0, entry.final}
      BY <1>0, <2>3 DEF LoseUnsynced
    <3>2. entry.final # 0 => content'[entry.final] \in {content[entry.final], "torn"}
      BY <1>0, <2>3 DEF LoseUnsynced, Names
    <3> QED BY <2>1, <3>1, <3>2 DEF Disturbed, Decision, Final, Seen, Whole
  <2> QED BY <2>1, <2>2, <2>3
<1>3. CASE SweepInterrupted
  <2>1. /\ document.approval \in {"rejected", "cancelled"} /\ document' = document
        /\ temp' = FALSE /\ checked' = FALSE /\ worker'.pc = "idle"
        /\ UNCHANGED <<entry, content>>
    BY <1>3 DEF SweepInterrupted, Expired, Recover, Idle, diskVars
  <2>2. worker.pc \notin {"commit", "drop"}
    BY <2>1, WorkerDecision DEF Storing, Cleaning
  <2> QED BY <2>1, <2>2 DEF Publication!Next, Publication!Discard, Whole
<1>4. CASE OutsiderPlaces \/ OutsiderRemoves \/ OutsiderAlters
  <2>1. UNCHANGED <<docVars, worker>>
    BY <1>4 DEF OutsiderPlaces, OutsiderRemoves, OutsiderAlters
  <2>2. entry'.final = 0 \/ content'[entry'.final] = "foreign"
    BY <1>0, <1>4 DEF OutsiderPlaces, OutsiderRemoves, OutsiderAlters, Unused, Names,
                      ContentTypes
  <2> QED BY <2>1, <2>2 DEF docVars, Disturbed, Decision, Final, Seen, Whole
<1>5. CASE SweepRolledBack
  <2>1. /\ document.approval \in {"rejected", "cancelled"} /\ temp' = FALSE
        /\ UNCHANGED <<document, checked, entry, content, worker>>
    BY <1>5 DEF SweepRolledBack, Expired, diskVars
  <2> QED BY <2>1 DEF Publication!Next, Publication!Mislay, Whole
<1> QED BY <1>1, <1>2, <1>3, <1>4, <1>5 DEF FaultStep

\* The storage of a document is a publication: it is decided only over a copy
\* that was verified, its private copy is discarded only before a decision, or
\* released on a definitive file just seen whole, and the document is approved
\* only on such a file, whatever crashes, faults and outsiders come between the
\* steps (Materialize, cleanupMaterialization, cleanExpiredUploads).  The sweep
\* that is rolled back after its unlink is a Mislay: the decision may then lack
\* its copy, and what is proved is that nothing is published or approved from it.
THEOREM StorageIsPublication == Spec => ImplementsPublication
<1>1. Init => Publication!Init
  BY DEF Init, Idle, Publication!Init
<1>2. Inv /\ Barren /\ [Next]_vars => [Publication!Next]_Publication!vars
  <2> SUFFICES ASSUME Inv, Barren, [Next]_vars
               PROVE  Publication!Next \/ UNCHANGED Publication!vars
    OBVIOUS
  <2>1. CASE UNCHANGED vars
    BY <2>1 DEF vars, docVars, diskVars, Publication!vars, Whole
  <2>2. CASE WorldStep
    <3>1. CASE RetentionEnds
      BY <3>1, UserPublication, DisturbedIsStep
    <3>2. CASE ~RetentionEnds
      BY <2>2, <3>2 DEF WorldStep, ToggleLicence, TogglePermission, ConfigureRoot,
             RootUnreachable, RootReachable, docVars, diskVars, Publication!vars, Whole
    <3> QED BY <3>1, <3>2
  <2> QED BY <2>1, <2>2, UserPublication, WorkerPublication, FaultPublication,
     DisturbedIsStep
          DEF Next
<1> QED BY <1>1, <1>2, Invariance, BarrenInvariance, PTL
    DEF Spec, ImplementsPublication, Publication!Spec

-----------------------------------------------------------------------------
(* The bytes.                                                                *)

FileHeld == (Whole(entry.final) /\ entry.final = op.identity) \/ struck

\* Whoever cleans has seen the file that the journal names, and the private
\* copy goes away over that file only.
Kept ==
    /\ worker.pc \in Cleaning => worker.seen = op.identity
    /\ worker.pc = "drop" => FileHeld
    /\ BytesHeld

\* Between two attempts nothing that was published or can be adopted waits for
\* a synchronisation.
OnDisk ==
    /\ entry.final # 0 => entry.final \in flushed
    /\ entry.final # 0 /\ worker.pc # "sync" => durable.final = entry.final
    /\ entry.partial # 0 /\ content[entry.partial] = "whole" /\ worker.pc # "flush" =>
          entry.partial \in flushed

\* With the private copy there, or no document to hold it for, only the journal
\* must be right.
LEMMA KeptByCopy ==
    ASSUME temp' \/ ~Accepted', worker'.pc \notin Cleaning
    PROVE  Kept'
BY DEF Kept, BytesHeld, Cleaning

\* The definitive file is left as it is.
LEMMA KeptByFile ==
    ASSUME Kept, UNCHANGED <<struck, mislaid>>, op'.identity = op.identity,
           entry'.final = entry.final,
           entry.final # 0 => content'[entry.final] = content[entry.final],
           Accepted' => temp' \/ (Accepted /\ temp' = temp),
           \/ worker'.pc \notin Cleaning
           \/ /\ worker.pc \in Cleaning /\ worker'.seen = worker.seen
              /\ worker'.pc = "drop" => worker.pc = "drop"
    PROVE  Kept'
BY DEF Kept, BytesHeld, FileHeld, Accepted, Whole, Cleaning

LEMMA UserKept ==
    ASSUME Inv, Barren, Kept, UserStep \/ SweepUpload \/ ClaimJob \/ PauseJob \/ WorldStep
    PROVE  Kept'
<1>0. document \in DocumentTypes /\ op \in OpTypes
  BY DEF Inv, Typed
<1>1. UNCHANGED <<entry, content, struck, mislaid>> /\ op'.identity = op.identity
  <2>1. CASE UserStep
    BY <1>0, <2>1 DEF UserStep, SubmitReview, Reject, Classify, CancelUpload, CheckContent,
                Approve, RetryMaterialization, Revise, diskVars, envVars, OpTypes
  <2>2. CASE SweepUpload \/ ClaimJob \/ PauseJob
    BY <2>2 DEF SweepUpload, ClaimJob, PauseJob, diskVars, envVars
  <2>3. CASE WorldStep
    BY <2>3 DEF WorldStep, RetentionEnds, ToggleLicence, TogglePermission, ConfigureRoot,
                RootUnreachable, RootReachable, diskVars, envVars
  <2> QED BY <2>1, <2>2, <2>3
<1>2. \/ worker'.pc \notin Cleaning
      \/ /\ worker.pc \in Cleaning /\ worker'.seen = worker.seen
         /\ worker'.pc = "drop" => worker.pc = "drop"
  <2>1. CASE UserStep
    BY <2>1 DEF UserStep, SubmitReview, Reject, Classify, CancelUpload, CheckContent,
                Approve, RetryMaterialization, Revise
  <2>2. CASE ClaimJob
    BY <2>2 DEF ClaimJob, Idle, Cleaning
  <2>3. CASE SweepUpload \/ PauseJob
    BY <2>3 DEF SweepUpload, PauseJob
  <2>4. CASE WorldStep
    BY <2>4 DEF WorldStep, RetentionEnds, ToggleLicence, TogglePermission, ConfigureRoot,
                RootUnreachable, RootReachable, envVars
  <2> QED BY <2>1, <2>2, <2>3, <2>4
<1>3. Accepted' => temp' \/ (Accepted /\ temp' = temp)
  <2>1. CASE SubmitReview \/ Reject \/ Classify \/ CancelUpload
    <3>1. document'.approval \notin {"materializing", "approved"}
      BY <1>0, <2>1 DEF SubmitReview, Reject, Classify, CancelUpload, Revise, DocumentTypes
    <3> QED BY <3>1 DEF Accepted
  <2>2. CASE CheckContent \/ RetryMaterialization
    BY <1>1, <2>2 DEF CheckContent, RetryMaterialization, docVars, Accepted
  <2>3. CASE Approve
    <3>1. document'.approval = "materializing" /\ temp' = temp /\ (temp \/ mislaid)
      BY <1>0, <2>3 DEF Approve, Decided, Inv, CopyHolds, DocumentTypes
    <3> QED BY <1>1, <3>1 DEF Accepted
  <2>4. CASE SweepUpload
    BY <1>0, <2>4 DEF SweepUpload, Expired, DocumentTypes, Accepted
  <2>5. CASE ClaimJob \/ PauseJob
    BY <1>1, <2>5 DEF ClaimJob, PauseJob, docVars, Accepted
  <2>6. CASE WorldStep
    <3>1. document'.approval = document.approval /\ temp' = temp
      BY <1>0, <2>6 DEF WorldStep, RetentionEnds, ToggleLicence, TogglePermission,
         ConfigureRoot, RootUnreachable, RootReachable, docVars, DocumentTypes
    <3> QED BY <1>1, <3>1 DEF Accepted
  <2> QED BY <2>1, <2>2, <2>3, <2>4, <2>5, <2>6 DEF UserStep
<1> QED BY <1>1, <1>2, <1>3, KeptByFile

\* The end of an attempt on a file that the step leaves alone.
LEMMA EndKept ==
    ASSUME Inv, Barren, Kept, UNCHANGED <<document, temp, diskVars, struck, mislaid>>,
           op'.identity = op.identity, worker'.pc \notin Cleaning
    PROVE  Kept'
BY KeptByFile DEF diskVars, Accepted

LEMMA WorkerKept ==
    ASSUME Inv, Barren, Kept, WorkerStep
    PROVE  Kept'
<1>0. /\ worker \in WorkerTypes /\ entry \in Names /\ content \in ContentTypes
      /\ document \in DocumentTypes /\ op \in OpTypes
  BY DEF Inv, Typed
<1>S. ASSUME NEW cause, Stop(cause)
      PROVE  worker'.pc = "ended"
  BY <1>0, <1>S DEF Stop, WorkerTypes
<1>1. CASE LicenceRefused \/ FindFinal \/ FindNothing \/ IdentifyFinal \/ Reopen \/ CommitRefused
  <2>1. UNCHANGED <<document, temp, diskVars, struck, mislaid, op>>
    BY <1>1 DEF LicenceRefused, FindFinal, FindNothing, IdentifyFinal, Reopen,
       CommitRefused,
                Look, docVars, envVars
  <2>2. worker'.pc \in {"ended", "adopt", "record", "commit"}
    <3>1. CASE LicenceRefused \/ FindNothing \/ CommitRefused
      BY <1>S, <3>1 DEF LicenceRefused, FindNothing, CommitRefused
    <3>2. CASE FindFinal \/ IdentifyFinal \/ Reopen
      BY <1>0, <1>S, <3>2 DEF FindFinal, IdentifyFinal, Reopen, GoSeen, WorkerTypes
    <3> QED BY <1>1, <3>1, <3>2
  <2> QED BY <2>1, <2>2, EndKept DEF Cleaning
<1>2. CASE FinishJob
  <2>1. RowsKept /\ worker'.pc = "idle"
    BY <1>2, FinishRows DEF FinishJob, Idle
  <2> QED BY <1>2, <2>1, EndKept DEF FinishJob, RowsKept, docVars, envVars, Cleaning
<1>3. CASE Begin
  <2>1. UNCHANGED <<document, temp, diskVars, struck, mislaid, op>>
    BY <1>3 DEF Begin, Look, docVars, envVars
  <2>2. CASE worker'.pc \in {"ended", "look"}
    BY <2>1, <2>2, EndKept DEF Cleaning
  <2>3. CASE worker' = [worker EXCEPT !.pc = "clean", !.seen = op.identity]
    <3>1. worker'.pc = "clean" /\ worker'.seen = op'.identity
      BY <1>0, <2>1, <2>3 DEF WorkerTypes
    <3>2. (Accepted <=> Accepted') /\ UNCHANGED <<temp, op, entry, content, struck>>
      BY <2>1 DEF Accepted, diskVars
    <3> QED BY <3>1, <3>2 DEF Kept, BytesHeld, Whole
  <2>4. worker'.pc \in {"ended", "look"} \/ worker' = [worker EXCEPT !.pc = "clean", !.seen = op.identity]
    BY <1>0, <1>3, <1>S DEF Begin, Go, GoSeen, WorkerTypes
  <2> QED BY <2>2, <2>3, <2>4
<1>4. CASE Adopt \/ PrepareCopy \/ MarkVerified \/ RecordPublished \/ FindPartial \/ OpenPartial
           \/ FillPartial \/ FlushPartial \/ LinkFinal \/ SyncDirectory
  <2>1. worker.pc \in Storing
    BY <1>4 DEF Adopt, PrepareCopy, MarkVerified, RecordPublished, FindPartial, OpenPartial,
                FillPartial, FlushPartial, LinkFinal, SyncDirectory, Storing
  <2>2. /\ UNCHANGED <<document, temp, mislaid>>
        /\ Stop("transient") \/ \E pc \in Storing : Go(pc)
    BY <1>4, <2>1 DEF Adopt, PrepareCopy, MarkVerified, RecordPublished,
                FindPartial, OpenPartial, FillPartial, FlushPartial, LinkFinal, SyncDirectory,
                docVars, envVars, Storing
  <2>3. worker'.pc \notin Cleaning
    BY <1>0, <1>S, <2>2 DEF Go, WorkerTypes, Storing, Cleaning
  <2>4. temp' \/ ~Accepted'
    BY <2>1, <2>2, WorkerDecision DEF Accepted
  <2> QED BY <2>3, <2>4, KeptByCopy
<1>5. CASE CommitApproval
  <2>1. temp' /\ worker'.pc = "clean" /\ worker'.seen = worker.seen /\ op'.identity = worker.seen
    BY <1>0, <1>5, WorkerDecision DEF CommitApproval, Go, WorkerTypes, OpTypes, Storing
  <2> QED BY <2>1 DEF Kept, BytesHeld
<1>6. CASE Clean
  <2>1. UNCHANGED <<document, temp, diskVars, struck, mislaid, op>> /\ worker.pc = "clean"
    BY <1>6 DEF Clean, Look, docVars, envVars
  <2>2. CASE Cleanable /\ Go("drop")
    <3>1. worker'.pc = "drop" /\ worker'.seen = worker.seen
      BY <1>0, <2>2 DEF Go, WorkerTypes
    <3>2. Whole(entry.final) /\ entry.final = op.identity
      BY <2>1, <2>2 DEF Kept, Cleanable, Cleaning
    <3> QED BY <2>1, <3>1, <3>2 DEF Kept, FileHeld, BytesHeld, Whole, diskVars, Cleaning
  <2>3. CASE worker'.pc = "ended"
    BY <2>1, <2>3, EndKept DEF Cleaning
  <2> QED BY <1>6, <1>S, <2>2, <2>3 DEF Clean
<1>7. CASE DropTemporary
  <2>1. /\ worker.pc = "drop" /\ worker'.pc = "unlink" /\ worker'.seen = worker.seen
        /\ UNCHANGED <<document, op, entry, content, struck, mislaid>>
    BY <1>0, <1>7 DEF DropTemporary, Go, WorkerTypes, diskVars, envVars
  <2> QED BY <2>1 DEF Kept, FileHeld, BytesHeld, Whole, Cleaning
<1>8. CASE UnlinkPartial \/ SettleDirectory
  <2>1. /\ worker.pc \in {"unlink", "settle"} /\ worker'.pc \in {"settle", "seal"}
        /\ worker'.seen = worker.seen
    BY <1>0, <1>8 DEF UnlinkPartial, SettleDirectory, Go, WorkerTypes
  <2>2. /\ UNCHANGED <<document, temp, op, content, struck, mislaid>> /\ entry'.final = entry.final
    BY <1>0, <1>8 DEF UnlinkPartial, SettleDirectory, docVars, envVars, Names
  <2> QED BY <2>1, <2>2, KeptByFile DEF Cleaning, Accepted
<1>9. CASE Seal
  <2>1. worker.seen = op.identity /\ UNCHANGED <<document, temp, diskVars, struck, mislaid>>
    BY <1>9 DEF Seal, Kept, Cleaning, docVars, envVars
  <2>2. op'.identity = op.identity /\ worker'.pc = "ended"
    BY <1>0, <1>9, <1>S, <2>1 DEF Seal, Journal, OpTypes
  <2> QED BY <2>1, <2>2, EndKept DEF Cleaning
<1> QED BY <1>1, <1>2, <1>3, <1>4, <1>5, <1>6, <1>7, <1>8, <1>9 DEF WorkerStep

\* A power cut is the one fault that needs what was published to be on the disk.
LEMMA FaultKept ==
    ASSUME Inv, Barren, Kept, FaultStep, OnDisk \/ "power" \notin Faults
    PROVE  Kept'
<1>0. /\ worker \in WorkerTypes /\ entry \in Names /\ content \in ContentTypes
      /\ document \in DocumentTypes
  BY DEF Inv, Typed
<1>1. CASE FinishIsLost \/ DiskFails
  <2>1. worker'.pc \in {"idle", "ended"}
    <3>1. CASE FinishIsLost
      BY <3>1 DEF FinishIsLost, Idle
    <3>2. CASE DiskFails
      <4>1. PICK cause : Stop(cause)
        BY <3>2 DEF DiskFails
      <4> QED BY <1>0, <4>1 DEF Stop, WorkerTypes
    <3> QED BY <1>1, <3>1, <3>2
  <2> QED BY <1>1, <2>1, EndKept DEF FinishIsLost, DiskFails, docVars, Cleaning
<1>2. CASE Restart
  <2>1. /\ op'.identity = op.identity /\ worker'.pc = "idle"
        /\ UNCHANGED <<document, temp, struck, mislaid>>
        /\ UNCHANGED diskVars \/ (LoseUnsynced /\ OnDisk)
    <3>1. PICK kind \in {"restart", "power"} :
             /\ Fault(kind) /\ Recover /\ UNCHANGED <<document, temp, struck, mislaid>>
             /\ IF kind = "power" THEN LoseUnsynced ELSE UNCHANGED diskVars
      BY <1>2 DEF Restart
    <3>2. op'.identity = op.identity /\ worker'.pc = "idle"
      BY <3>1, RecoverRows DEF RowsKept, Idle
    <3>3. CASE kind = "power"
      BY <3>1, <3>2, <3>3 DEF Fault
    <3>4. CASE kind # "power"
      BY <3>1, <3>2, <3>4
    <3> QED BY <3>3, <3>4
  <2>2. CASE UNCHANGED diskVars
    BY <2>1, <2>2, EndKept DEF Cleaning
  <2>3. CASE LoseUnsynced /\ OnDisk
    <3>1. CASE temp
      BY <2>1, <3>1, KeptByCopy DEF Cleaning
    <3>2. CASE ~Accepted
      BY <2>1, <3>2 DEF Kept, BytesHeld, Accepted, Cleaning
    <3>3. CASE ~temp /\ Accepted
      <4>1. worker.pc # "sync"
        BY <3>3, WorkerDecision DEF Storing
      <4>2. CASE struck
        BY <2>1, <4>2 DEF Kept, BytesHeld, Cleaning
      <4>3. CASE ~struck
        <5>1. Whole(entry.final) /\ entry.final = op.identity
          BY <3>3, <4>3 DEF Kept, BytesHeld, Accepted
        <5>2. entry'.final = entry.final
          BY <2>3, <4>1, <5>1 DEF LoseUnsynced, OnDisk, Whole
        <5>3. content'[entry.final] = content[entry.final]
          BY <1>0, <2>3, <5>1 DEF LoseUnsynced, OnDisk, Whole, Names
        <5> QED BY <2>1, <5>1, <5>2, <5>3 DEF Kept, BytesHeld, Whole, Cleaning
      <4> QED BY <4>2, <4>3
    <3> QED BY <3>1, <3>2, <3>3
  <2> QED BY <2>1, <2>2, <2>3
<1>3. CASE SweepInterrupted
  <2>1. document'.approval \in {"rejected", "cancelled"} /\ worker'.pc = "idle"
    BY <1>3 DEF SweepInterrupted, Expired, Recover, Idle
  <2> QED BY <2>1 DEF Kept, BytesHeld, Accepted, Cleaning
<1>4. CASE OutsiderPlaces
  <2>1. entry.final = 0 /\ UNCHANGED <<document, temp, op, worker, struck, mislaid>>
    BY <1>4 DEF OutsiderPlaces, docVars
  <2> QED BY <2>1 DEF Kept, FileHeld, BytesHeld, Accepted, Whole
<1>5. CASE OutsiderRemoves \/ OutsiderAlters
  <2>1. /\ UNCHANGED <<document, temp, op, worker, mislaid>>
        /\ struck' = (struck \/ LastCheckPast)
    BY <1>5 DEF OutsiderRemoves, OutsiderAlters, docVars
  <2> QED BY <2>1 DEF Kept, FileHeld, BytesHeld, Accepted, LastCheckPast
<1>6. CASE SweepRolledBack
  <2>1. /\ document'.approval \in {"rejected", "cancelled"}
        /\ document.approval \in {"rejected", "cancelled"} /\ worker' = worker
    BY <1>6 DEF SweepRolledBack, Expired
  <2>2. worker.pc \notin Cleaning
    BY <2>1, WorkerDecision
  <2> QED BY <2>1, <2>2 DEF Kept, BytesHeld, Accepted, Cleaning
<1> QED BY <1>1, <1>2, <1>3, <1>4, <1>5, <1>6 DEF FaultStep

LEMMA NextKept ==
    ASSUME Inv, Barren, Kept, [Next]_vars, OnDisk \/ "power" \notin Faults
    PROVE  Kept'
<1>1. CASE UNCHANGED vars
  BY <1>1 DEF vars, Kept, FileHeld, BytesHeld, Accepted, Whole
<1> QED BY <1>1, UserKept, WorkerKept, FaultKept DEF Next

LEMMA InitKept == Init => Kept
BY DEF Init, Kept, BytesHeld, Idle, Cleaning

\* No end of the process takes the bytes of a document that was accepted, and no
\* failure of the disk does, while the machine stays up: the private copy is
\* removed only over the file that the journal names (cleanupMaterialization).
\* Accepted leaves out the document decided over a copy that a rolled-back sweep
\* had taken: until it is approved, which the theorem shows needs the bytes.
THEOREM BytesAreHeld ==
    ASSUME "power" \notin Faults
    PROVE  Spec => []BytesHeld
<1>1. Inv /\ Barren /\ Kept /\ [Next]_vars => Kept'
  BY NextKept
<1>2. Kept => BytesHeld
  BY DEF Kept
<1> QED BY <1>1, <1>2, InitKept, Invariance, BarrenInvariance, PTL DEF Spec

\* The steps that leave the disk alone never come from the two that prepare it.
LEMMA DiskUntouched ==
    ASSUME OnDisk, UNCHANGED diskVars,
           worker'.pc = worker.pc \/ worker.pc \notin {"sync", "flush"}
    PROVE  OnDisk'
BY DEF OnDisk, diskVars

LEMMA WorkerOnDisk ==
    ASSUME Inv, Barren, OnDisk, WorkerStep
    PROVE  OnDisk'
<1>0. /\ worker \in WorkerTypes /\ entry \in Names /\ content \in ContentTypes
      /\ flushed \in SUBSET Inodes /\ PartialHolds
  BY DEF Inv, Typed
<1>S. /\ \A cause : Stop(cause) => worker'.pc = "ended"
      /\ \A pc : Go(pc) => worker'.pc = pc
  BY <1>0 DEF Stop, Go, WorkerTypes
<1>1. CASE LicenceRefused \/ Begin \/ FindFinal \/ FindNothing \/ IdentifyFinal \/ CommitRefused
           \/ Adopt \/ PrepareCopy \/ MarkVerified \/ RecordPublished \/ Reopen
  <2>1. UNCHANGED diskVars /\ worker.pc \notin {"sync", "flush"}
    BY <1>1 DEF LicenceRefused, Begin, FindFinal, FindNothing, IdentifyFinal, CommitRefused,
                Adopt, PrepareCopy, MarkVerified, RecordPublished, Reopen, Look, LicenceChecks
  <2> QED BY <2>1, DiskUntouched
<1>2. CASE CommitApproval \/ Clean \/ DropTemporary \/ Seal \/ FinishJob
  <2>1. UNCHANGED diskVars /\ worker.pc \notin {"sync", "flush"}
    BY <1>2 DEF CommitApproval, Clean, DropTemporary, Seal, FinishJob, Look
  <2> QED BY <2>1, DiskUntouched
<1>3. CASE FindPartial \/ UnlinkPartial
  <2>1. /\ worker.pc \notin {"sync", "flush"} /\ entry'.final = entry.final
        /\ entry'.partial \in {0, entry.partial} /\ UNCHANGED <<durable, content, flushed>>
    BY <1>0, <1>3 DEF FindPartial, UnlinkPartial, Names
  <2> QED BY <2>1 DEF OnDisk
<1>4. CASE OpenPartial
  <2>1. CASE UNCHANGED <<entry, content, flushed>>
    BY <1>4, <2>1, DiskUntouched DEF OpenPartial, diskVars
  <2>2. ASSUME NEW i \in Unused, entry' = [entry EXCEPT !.partial = i],
               content' = [content EXCEPT ![i] = "torn"], flushed' = flushed \ {i}
        PROVE  OnDisk'
    <3>1. /\ i # entry.final /\ i \in Inodes /\ entry'.final = entry.final
          /\ entry'.partial = i /\ content'[i] = "torn"
      BY <1>0, <2>2 DEF Unused, Names, ContentTypes
    <3>2. worker.pc = "copy" /\ durable' = durable
      BY <1>4 DEF OpenPartial
    <3> QED BY <2>2, <3>1, <3>2 DEF OnDisk
  <2> QED BY <1>4, <2>1, <2>2 DEF OpenPartial
<1>5. CASE FillPartial
  <2>1. /\ worker.pc = "fill" /\ worker'.pc = "flush" /\ UNCHANGED <<entry, durable, flushed>>
    BY <1>5, <1>S DEF FillPartial
  <2> QED BY <2>1 DEF OnDisk
<1>6. CASE FlushPartial
  <2>1. /\ worker.pc = "flush" /\ flushed' = flushed \cup {entry.partial}
        /\ UNCHANGED <<entry, durable, content>>
    BY <1>6 DEF FlushPartial
  <2> QED BY <2>1 DEF OnDisk
<1>7. CASE LinkFinal
  <2>1. /\ worker.pc = "link" /\ UNCHANGED <<durable, content, flushed>>
        /\ entry'.final = Publish(entry.final, entry.partial) /\ entry'.partial = entry.partial
    BY <1>0, <1>7 DEF LinkFinal, Names
  <2>2. entry.partial # 0 /\ content[entry.partial] = "whole"
    BY <1>0, <2>1 DEF PartialHolds
  <2>3. CASE entry.final = 0
    <3>1. worker'.pc = "sync"
      BY <1>S, <1>7, <2>1, <2>3 DEF LinkFinal, Publish
    <3> QED BY <2>1, <2>2, <2>3, <3>1 DEF OnDisk, Publish
  <2>4. CASE entry.final # 0
    BY <2>1, <2>4 DEF OnDisk, Publish
  <2> QED BY <2>3, <2>4
<1>8. CASE SyncDirectory \/ SettleDirectory
  <2>1. /\ worker.pc # "flush" /\ durable' = entry /\ UNCHANGED <<entry, content, flushed>>
    BY <1>8 DEF SyncDirectory, SettleDirectory, Synced
  <2> QED BY <2>1 DEF OnDisk
<1> QED BY <1>1, <1>2, <1>3, <1>4, <1>5, <1>6, <1>7, <1>8 DEF WorkerStep

LEMMA FaultOnDisk ==
    ASSUME Inv, Barren, OnDisk, FaultStep, Inv', Faults \cap {"restart", "unsynced"} = {}
    PROVE  OnDisk'
<1>0. /\ worker \in WorkerTypes /\ entry \in Names /\ durable \in Names
      /\ content \in ContentTypes /\ flushed \in SUBSET Inodes /\ entry' \in Names
  BY DEF Inv, Typed
<1>1. CASE FinishIsLost
  BY <1>1, DiskUntouched DEF FinishIsLost
<1>2. CASE DiskFails
  <2>1. UNCHANGED diskVars /\ worker.pc \notin {"sync", "flush"}
    BY <1>2 DEF DiskFails, Fault
  <2> QED BY <2>1, DiskUntouched
<1>3. CASE Restart
  <2>1. LoseUnsynced
    BY <1>3 DEF Restart, Fault
  <2>2. entry' = durable' /\ flushed' = Inodes
    BY <2>1 DEF LoseUnsynced
  <2> QED BY <1>0, <2>2 DEF OnDisk, Names
<1>4. CASE SweepInterrupted \/ SweepRolledBack
  <2>1. document.approval \in {"rejected", "cancelled"} /\ UNCHANGED diskVars
    BY <1>4 DEF SweepInterrupted, SweepRolledBack, Expired
  <2>2. worker.pc \notin {"sync", "flush"}
    BY <2>1, WorkerDecision DEF Storing
  <2> QED BY <2>1, <2>2, DiskUntouched
<1>5. CASE OutsiderPlaces
  <2>1. PICK i \in Unused : /\ entry' = [entry EXCEPT !.final = i]
                            /\ durable' = [durable EXCEPT !.final = i]
                            /\ content' = [content EXCEPT ![i] = "foreign"]
                            /\ flushed' = flushed \cup {i}
    BY <1>5 DEF OutsiderPlaces
  <2>2. /\ entry'.final = i /\ durable'.final = i /\ entry'.partial = entry.partial
        /\ entry.partial # i
        /\ entry.partial # 0 => content'[entry.partial] = content[entry.partial]
    BY <1>0, <2>1 DEF Unused, Names, ContentTypes
  <2> QED BY <1>5, <2>1, <2>2 DEF OutsiderPlaces, OnDisk
<1>6. CASE OutsiderRemoves
  <2>1. /\ entry'.final = 0 /\ entry'.partial = entry.partial
        /\ UNCHANGED <<content, flushed, worker>>
    BY <1>0, <1>6 DEF OutsiderRemoves, Names
  <2> QED BY <2>1 DEF OnDisk
<1>7. CASE OutsiderAlters
  <2>1. /\ UNCHANGED <<entry, durable, flushed, worker>>
        /\ entry.partial # 0 /\ content'[entry.partial] = "whole" =>
              content[entry.partial] = "whole"
    BY <1>0, <1>7 DEF OutsiderAlters, Names, ContentTypes
  <2> QED BY <2>1 DEF OnDisk
<1> QED BY <1>1, <1>2, <1>3, <1>4, <1>5, <1>6, <1>7 DEF FaultStep

LEMMA NextOnDisk ==
    ASSUME Inv, Barren, OnDisk, [Next]_vars, Inv', Faults \cap {"restart", "unsynced"} = {}
    PROVE  OnDisk'
<1>1. CASE UNCHANGED vars
  BY <1>1 DEF vars, OnDisk
<1>2. CASE UserStep \/ SweepUpload \/ PauseJob
  <2>1. UNCHANGED <<diskVars, worker>>
    BY <1>2 DEF UserStep, SubmitReview, Reject, Classify, CancelUpload, CheckContent,
       Approve,
                RetryMaterialization, Revise, SweepUpload, PauseJob
  <2> QED BY <2>1, DiskUntouched
<1>3. CASE ClaimJob
  BY <1>3, DiskUntouched DEF ClaimJob
<1>4. CASE WorldStep
  <2>1. UNCHANGED <<diskVars, worker>>
    BY <1>4 DEF WorldStep, RetentionEnds, ToggleLicence, TogglePermission, ConfigureRoot,
                RootUnreachable, RootReachable
  <2> QED BY <2>1, DiskUntouched
<1> QED BY <1>1, <1>2, <1>3, <1>4, WorkerOnDisk, FaultOnDisk DEF Next

LEMMA InitOnDisk == Init => OnDisk
BY DEF Init, OnDisk

\* No power cut takes the bytes of a document that was accepted either, as long as
\* no attempt that published a file ends between the link and the synchronisation
\* of its directory, or between the copy and the flush of its bytes, on a machine
\* that stays up: a retry adopts what it finds and synchronises nothing
\* (Materialize, at the adoption of the definitive file).
THEOREM BytesOutlivePower ==
    ASSUME Faults \cap {"restart", "unsynced"} = {}
    PROVE  Spec => []BytesSurvive
<1>1. Inv /\ Barren /\ Kept /\ OnDisk /\ [Next]_vars /\ Inv' => Kept' /\ OnDisk'
  BY NextKept, NextOnDisk
<1>2. Inv /\ Barren /\ Kept /\ OnDisk => BytesSurvive
  <2> SUFFICES ASSUME Inv, Barren, Kept, OnDisk, Accepted, ~temp, ~struck
               PROVE  BytesSurvive
    BY DEF Kept, BytesSurvive, BytesHeld, DurableBytes, Accepted
  <2>1. Whole(entry.final) /\ entry.final = op.identity
    BY DEF Kept, BytesHeld, Accepted
  <2>2. worker.pc # "sync"
    BY WorkerDecision DEF Storing
  <2> QED BY <2>1, <2>2 DEF BytesSurvive, BytesHeld, DurableBytes, OnDisk, Whole
<1> QED BY <1>1, <1>2, InitKept, InitOnDisk, Invariance, BarrenInvariance, PTL DEF Spec

=============================================================================
