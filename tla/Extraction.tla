------------------------------ MODULE Extraction ------------------------------
(***************************************************************************)
(* The text of each document: which content version is current (the scan's *)
(* ingest, scanner.go), which jobs extract it, what a worker has read when *)
(* it starts (prepareExtraction) and whether it may still publish when it  *)
(* ends (publish, extraction.go), with the user's commands that come in    *)
(* between: another OCR language (service.go), removal from the index,     *)
(* retirement of the root, cancellation and retry.                         *)
(*                                                                         *)
(* JobQueue has the queue itself and ContentLanes the workers; of them are *)
(* kept the states of a job, that a file has one running job, and that the *)
(* outcome is recorded after the publication, in another transaction.      *)
(***************************************************************************)
EXTENDS StorageRoots, FiniteSets

CONSTANTS
    Uploads,        \* uploaded files, which are in no root
    Home,           \* the library they belong to
    MaxContents,    \* bound: contents of a linked file
    MaxAttempts     \* attempts of a job that fails for a passing reason (5)

Docs == Files \cup Uploads
Languages == {"spa", "eng"}

ASSUME ExtractionAssumption ==
    /\ Files \cap Uploads = {} /\ None \notin Docs /\ Home \in Libs
    /\ MaxContents \in Nat \ {0} /\ MaxAttempts \in Nat \ {0}

VARIABLES
    onDisk,     \* the content of each linked file
    language,   \* ocr_languages of each library
    doc,        \* physical_files with documents, content_versions and
                \* extraction_runs
    jobs,       \* the extract jobs of each document, by created_at
    worker      \* what the worker of a document's running job has read

extractionVars == <<onDisk, language, doc, jobs, worker>>

\* What was extracted: the version and the language it was read in.
NoText == [version |-> 0, language |-> None]
\* version 0: not discovered.  shown: it has rows in indexed_pages.
NoDoc == [version |-> 0, content |-> 0, freshness |-> None, indexed |-> NoText,
          shown |-> FALSE, deleted |-> FALSE]

Queued(version) ==
    [version |-> version, status |-> "queued", attempts |-> 0, cancelled |-> FALSE,
     retried |-> FALSE]

\* stage: "claimed", "reading" after prepareExtraction, "ended" with the code
\* that finish will record ("": the text was published)
NoWorker == [stage |-> "idle", job |-> 0, code |-> "", content |-> 0,
             language |-> None, root |-> Nowhere, revision |-> 0]

Terminal == {"succeeded", "failed", "cancelled"}
Codes == {"", "VERSION_SUPERSEDED", "ROOT_DISABLED", "ROOT_PLAN_STALE",
          "USER_CANCELLED", "DOCUMENT_UNAVAILABLE", "FILE_UNSTABLE", "OCR_FAILED"}
Stale == {"VERSION_SUPERSEDED", "ROOT_DISABLED", "ROOT_PLAN_STALE", "USER_CANCELLED"}
Transient == {"DOCUMENT_UNAVAILABLE", "FILE_UNSTABLE"}

ExtractionTypeOK ==
    /\ onDisk \in [Files -> 1 .. MaxContents]
    /\ language \in [Libs -> Languages]
    /\ doc \in [Docs ->
          [version : Nat, content : 0 .. MaxContents, freshness : {None, "stale", "current"},
           indexed : [version : Nat, language : Languages \cup {None}],
           shown : BOOLEAN, deleted : BOOLEAN]]
    /\ jobs \in [Docs ->
          Seq([version : Nat, status : Terminal \cup {"queued", "running"},
               attempts : 0 .. MaxAttempts, cancelled : BOOLEAN, retried : BOOLEAN])]
    /\ worker \in [Docs ->
          [stage : {"idle", "claimed", "reading", "ended"}, job : Nat, code : Codes,
           content : 0 .. MaxContents, language : Languages \cup {None},
           root : Dirs \cup {Nowhere}, revision : Nat]]

\* The library of a document; a root stays in the library it was added to.
OwnerOf(d) == IF d \in Uploads THEN Home ELSE roots[located[d].root].lib

Live(d) == doc[d].version # 0 /\ ~doc[d].deleted
Running(d) == worker[d].stage # "idle"
Job(d) == jobs[d][worker[d].job]

\* The last job for the current version, which is what the scan looks at.
OfVersion(d) == {i \in DOMAIN jobs[d] : jobs[d][i].version = doc[d].version}
LastOf(d) == CHOOSE i \in OfVersion(d) : \A k \in OfVersion(d) : k <= i

-----------------------------------------------------------------------------
(* The worker of a job. *)

\* claimLane: one running job for a file.
Claim(d) ==
    /\ ~Running(d)
    /\ \E i \in DOMAIN jobs[d] :
          /\ jobs[d][i].status = "queued"
          /\ jobs' = [jobs EXCEPT ![d][i].status = "running", ![d][i].attempts = @ + 1]
          /\ worker' = [worker EXCEPT ![d] =
                [NoWorker EXCEPT !.stage = "claimed", !.job = i]]
    /\ UNCHANGED <<onDisk, language, doc>>

Ended(d, code) == worker' = [worker EXCEPT ![d].stage = "ended", ![d].code = code]

\* The document to open: an upload is in the private directory, a linked file
\* in the root of its place.
Openable(d) ==
    \/ d \in Uploads
    \/ located[d] # NoPlace /\ Verifiable(located[d].root)

\* prepareExtraction: one read of the tables, then the file is copied and its
\* hash compared.
Prepare(d) ==
    /\ worker[d].stage = "claimed"
    /\ IF ~Live(d) \/ Job(d).version # doc[d].version
       THEN Ended(d, "VERSION_SUPERSEDED")
       ELSE IF ~Openable(d) THEN Ended(d, "ROOT_DISABLED")
       ELSE IF d \in Files /\ onDisk[d] # doc[d].content THEN Ended(d, "FILE_UNSTABLE")
       ELSE worker' = [worker EXCEPT ![d] =
               [@ EXCEPT !.stage = "reading", !.language = language[OwnerOf(d)],
                         !.content = doc[d].content,
                         !.root = IF d \in Uploads THEN Nowhere ELSE located[d].root,
                         !.revision = IF d \in Uploads THEN 0
                                      ELSE roots[located[d].root].revision]]
    /\ UNCHANGED <<onDisk, language, doc, jobs>>

\* The file cannot be opened just now, or its text cannot be extracted.
FailToRead(d) ==
    /\ worker[d].stage \in {"claimed", "reading"}
    /\ \E code \in {"DOCUMENT_UNAVAILABLE", "OCR_FAILED"} : Ended(d, code)
    /\ UNCHANGED <<onDisk, language, doc, jobs>>

\* monitorCancellation ends the work wherever it is.
Interrupted(d) ==
    /\ worker[d].stage \in {"claimed", "reading"}
    /\ Job(d).cancelled
    /\ Ended(d, "USER_CANCELLED")
    /\ UNCHANGED <<onDisk, language, doc, jobs>>

\* Mutant: the languages are those the worker read when it started.
RefusalAnyLanguage(d) ==
    IF worker[d].root # Nowhere /\ ~SameRoot(worker[d].root, worker[d].revision)
    THEN "ROOT_PLAN_STALE"
    ELSE IF Job(d).cancelled \/ doc[d].version # Job(d).version \/ doc[d].deleted
    THEN "VERSION_SUPERSEDED"
    ELSE ""

\* Everything read at the start is looked at again; the fence cannot differ
\* while the worker lives, the operation that bumps it being CancelUpload.
Refusal(d) ==
    IF worker[d].root # Nowhere /\ ~SameRoot(worker[d].root, worker[d].revision)
    THEN "ROOT_PLAN_STALE"
    ELSE IF \/ worker[d].language # language[OwnerOf(d)]
            \/ Job(d).cancelled
            \/ doc[d].version # Job(d).version
            \/ doc[d].deleted
    THEN "VERSION_SUPERSEDED"
    ELSE ""

\* complete and publish.  The size and time of the open file are compared just
\* before the transaction, so a change of it may or may not be noticed.
Publish(d) ==
    /\ worker[d].stage = "reading"
    /\ \/ /\ d \in Files /\ onDisk[d] # worker[d].content
          /\ Ended(d, "FILE_UNSTABLE")
          /\ UNCHANGED doc
       \/ /\ Ended(d, Refusal(d))
          /\ doc' = IF Refusal(d) # "" THEN doc
                    ELSE [doc EXCEPT ![d].freshness = "current", ![d].shown = TRUE,
                             ![d].indexed = [version |-> Job(d).version,
                                             language |-> worker[d].language]]
    /\ UNCHANGED <<onDisk, language, jobs>>

\* Mutant: a passing failure is always tried again.
RecordedUnbounded(job, code) ==
    IF job.cancelled \/ code \in Stale THEN "cancelled"
    ELSE IF code = "" THEN "succeeded"
    ELSE IF code \in Transient THEN "queued"
    ELSE "failed"

Recorded(job, code) ==
    IF job.cancelled \/ code \in Stale THEN "cancelled"
    ELSE IF code = "" THEN "succeeded"
    ELSE IF code \in Transient /\ job.attempts < MaxAttempts THEN "queued"
    ELSE "failed"

\* The control of the user is read before the transaction, which matters to
\* JobQueue and not here.
Finish(d) ==
    /\ worker[d].stage = "ended"
    /\ jobs' = [jobs EXCEPT ![d][worker[d].job].status = Recorded(Job(d), worker[d].code)]
    /\ worker' = [worker EXCEPT ![d] = NoWorker]
    /\ UNCHANGED <<onDisk, language, doc>>

\* recoverJobs, for the jobs of one document.
Recovered(job) ==
    IF job.status # "running" THEN job
    ELSE [job EXCEPT !.status = IF job.cancelled THEN "cancelled"
                                ELSE IF job.attempts >= MaxAttempts THEN "failed"
                                ELSE "queued"]

RestartWorkers ==
    /\ worker' = [d \in Docs |-> NoWorker]
    /\ jobs' = [d \in Docs |-> [i \in DOMAIN jobs[d] |-> Recovered(jobs[d][i])]]
    /\ UNCHANGED <<onDisk, language, doc>>

-----------------------------------------------------------------------------
(* Content. *)

\* Somebody writes the file.
Edit(f) ==
    /\ \E c \in 1 .. MaxContents : c # onDisk[f] /\ onDisk' = [onDisk EXCEPT ![f] = c]
    /\ UNCHANGED <<language, doc, jobs, worker>>

\* A document with the same bytes is given another job if its last one was
\* cancelled, but not by the user.
Resumable(d) ==
    /\ doc[d].freshness # "current" /\ ~doc[d].deleted
    /\ OfVersion(d) # {}
    /\ LET last == jobs[d][LastOf(d)] IN last.status = "cancelled" /\ ~last.cancelled

Renewed(row, version, content) ==
    [row EXCEPT !.version = version, !.content = content,
                !.freshness = IF row.indexed = NoText THEN None ELSE "stale"]

\* ingest, after the place of the file: a new version with its job, or perhaps
\* a job for the version there was.
Observe(f) ==
    IF onDisk[f] # doc[f].content
    THEN /\ doc' = [doc EXCEPT ![f] = Renewed(@, @.version + 1, onDisk[f])]
         /\ jobs' = [jobs EXCEPT ![f] = Append(@, Queued(doc[f].version + 1))]
    ELSE /\ jobs' = IF Resumable(f)
                    THEN [jobs EXCEPT ![f] = Append(@, Queued(doc[f].version))]
                    ELSE jobs
         /\ UNCHANGED doc

Scanned(f) ==
    /\ Ingest(f)
    /\ Observe(f)
    /\ UNCHANGED <<onDisk, language, worker>>

-----------------------------------------------------------------------------
(* Commands of the users. *)

\* UpdateConfiguration: every document is extracted again, whatever job it has.
Requeued(l, d) ==
    IF Live(d) /\ OwnerOf(d) = l THEN Append(jobs[d], Queued(doc[d].version)) ELSE jobs[d]

SetLanguage(l) ==
    /\ language' = [language EXCEPT ![l] = CHOOSE other \in Languages : other # @]
    /\ jobs' = [d \in Docs |-> Requeued(l, d)]
    /\ doc' = [d \in Docs |-> IF doc[d].indexed # NoText /\ OwnerOf(d) = l
                              THEN [doc[d] EXCEPT !.freshness = "stale"] ELSE doc[d]]
    /\ library' = Reconfigured(l)
    /\ UNCHANGED <<onDisk, worker, plans, retirements, views, roots, located, scan>>

Removed(row) == [row EXCEPT !.deleted = TRUE, !.shown = FALSE]

RemoveIndex(d) ==
    /\ Live(d)
    /\ doc' = [doc EXCEPT ![d] = Removed(@)]
    /\ UNCHANGED <<onDisk, language, jobs, worker>>

CancelJob(d) ==
    /\ \E i \in DOMAIN jobs[d] :
          LET job == jobs[d][i] IN
          /\ job.status \notin Terminal
          /\ jobs' = [jobs EXCEPT
                ![d][i].cancelled = TRUE,
                ![d][i].status = IF job.status = "running" THEN "running" ELSE "cancelled"]
    /\ UNCHANGED <<onDisk, language, doc, worker>>

\* One retry for a job; the second request is given the first one's.
Retry(d) ==
    /\ \E i \in DOMAIN jobs[d] :
          LET job == jobs[d][i] IN
          /\ job.status \in {"failed", "cancelled"} /\ ~job.retried
          /\ jobs' = [jobs EXCEPT ![d] =
                Append([@ EXCEPT ![i].retried = TRUE], Queued(job.version))]
    /\ UNCHANGED <<onDisk, language, doc, worker>>

Impact(r) == {f \in References(r) : ~doc[f].deleted}

\* With either policy for what the root holds.
RetireRoot(r) ==
    /\ Retire(r, Impact(r.root))
    /\ \/ UNCHANGED doc
       \/ doc' = [d \in Docs |-> IF d \in References(r.root) THEN Removed(doc[d]) ELSE doc[d]]
    /\ UNCHANGED <<onDisk, language, jobs, worker>>

-----------------------------------------------------------------------------
\* A text said to be current is the text of the current bytes in the present
\* languages, and what was taken out of the index is not found by a search,
\* whatever happened while the text was being extracted (publish).
IndexIsTrue ==
    \A d \in Docs :
        /\ doc[d].freshness = "current" =>
              doc[d].indexed = [version |-> doc[d].version, language |-> language[OwnerOf(d)]]
        /\ doc[d].shown => ~doc[d].deleted

\* Work is not lost: a document whose text is not current has, as the last job
\* for its version, one that is active, one that failed or was cancelled by
\* the user, which a retry takes up, or, if it is linked, one cancelled for a
\* passing reason, which the next scan of its root takes up (ingest).
WorkRemains ==
    \A d \in Docs :
        Live(d) /\ doc[d].freshness # "current" =>
            /\ OfVersion(d) # {}
            /\ LET last == jobs[d][LastOf(d)] IN
               \/ last.status \in {"queued", "running", "failed"}
               \/ last.status = "cancelled" /\ (last.cancelled \/ d \in Files)

\* What a search finds as current is current and was not withdrawn, and whatever
\* is not current has work, a scan or a user that will make it so (publish,
\* ingest, Retry, finish).
IndexIsSound == IndexIsTrue /\ WorkRemains

\* A retirement takes out of the index the documents its plan showed to the
\* user and no others, although scans go on between the two (Retire).
OnlyPlannedAreRemoved ==
    [][\A r \in Dirs :
          roots[r].status # "retired" /\ roots'[r].status = "retired" =>
              \E plan \in retirements :
                  /\ plan.root = r /\ plan.revision = roots[r].revision
                  /\ {d \in Docs : ~doc[d].deleted /\ doc'[d].deleted} \subseteq plan.impact
      ]_<<rootsVars, extractionVars>>

\* "Cancelar extracción no vuelve a encolarla durante el siguiente scan sin
\* cambios" (docs/REVISION-PROCESAMIENTO.md): only a new content, a language
\* or a retry brings back what a user cancelled.
CancelledStays ==
    [][\A f \in Files :
          /\ Len(jobs'[f]) > Len(jobs[f])
          /\ scan' # scan /\ doc'[f].version = doc[f].version
          => ~jobs[f][LastOf(f)].cancelled]_<<rootsVars, extractionVars>>

\* No document leaves the index with a root whose plan did not show it, and no
\* extraction a user cancelled returns to the workers with an unchanged file
\* (Retire, ingest).
OnlyAsAsked == OnlyPlannedAreRemoved /\ CancelledStays
=============================================================================
