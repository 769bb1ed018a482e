-------------------------- MODULE Extraction_proofs --------------------------
(***************************************************************************)
(* Proofs about Extraction for any documents, libraries, contents and      *)
(* attempts: each operation keeps what the index calls current true, and   *)
(* leaves whoever has to bring the rest up to date.                        *)
(*                                                                         *)
(* IndexIsTrue needs that a document never changes library, and so that    *)
(* one which is known has a place (PlacedOnceKnown).  WorkRemains needs to *)
(* know how the running job may end: when it ends well, or as superseded,  *)
(* something newer is queued or the text is current (OutcomeIsRight).      *)
(*                                                                         *)
(* The invariant is about each document on its own, so its parts are       *)
(* stated of the document's row, its list of jobs and its worker's call.   *)
(***************************************************************************)
EXTENDS Extraction, StorageRoots_proofs

JobTypes == [version : Nat, status : Terminal \cup {"queued", "running"},
             attempts : 0 .. MaxAttempts, cancelled : BOOLEAN, retried : BOOLEAN]
DocTypes == [version : Nat, content : 0 .. MaxContents,
             freshness : {None, "stale", "current"},
             indexed : [version : Nat, language : Languages \cup {None}],
             shown : BOOLEAN, deleted : BOOLEAN]
WorkerTypes == [stage : {"idle", "claimed", "reading", "ended"}, job : Nat, code : Codes,
                content : 0 .. MaxContents, language : Languages \cup {None},
                root : Dirs \cup {Nowhere}, revision : Nat]

\* The job that LastOf names.
Latest(row, list, i) ==
    /\ i \in DOMAIN list /\ list[i].version = row.version
    /\ \A k \in DOMAIN list : list[k].version = row.version => k <= i

\* A job that will extract, or that a retry or a scan will take up.
Hopeful(d, job) ==
    \/ job.status \in {"queued", "running", "failed"}
    \/ job.status = "cancelled" /\ (job.cancelled \/ d \in Files)

Outdated(row) == row.version # 0 /\ ~row.deleted /\ row.freshness # "current"

\* A job that waits has an attempt left, and a worker has a running job.
JobsAreSound(list, call) ==
    /\ \A i \in DOMAIN list : list[i].status = "queued" => list[i].attempts < MaxAttempts
    /\ call.stage # "idle" => call.job \in DOMAIN list /\ list[call.job].status = "running"

UnknownIsEmpty(row, list) ==
    row.version = 0 =>
        row.freshness = None /\ ~row.shown /\ row.indexed = NoText /\ list = << >>

TextIsTrue(row, lang) ==
    /\ row.freshness = "current" =>
          row.indexed = [version |-> row.version, language |-> lang]
    /\ row.shown => ~row.deleted

WorkIsLeft(d, row, list) ==
    Outdated(row) => \E i \in DOMAIN list : Latest(row, list, i) /\ Hopeful(d, list[i])

\* What the worker of the job that counts may still do.
OutcomeIsRight(d, row, list, call, lang) ==
    /\ Outdated(row) /\ call.stage # "idle" /\ Latest(row, list, call.job) =>
          /\ call.stage = "ended" =>
                /\ call.code # ""
                /\ call.code \in Stale => list[call.job].cancelled \/ d \in Files
          /\ call.stage = "reading" /\ d \notin Files => call.language = lang
    /\ call.stage = "reading" /\ d \notin Files => call.root = Nowhere
    /\ call.stage = "reading" => call.language \in Languages

Sound(d, row, list, call, lang) ==
    /\ JobsAreSound(list, call) /\ UnknownIsEmpty(row, list) /\ TextIsTrue(row, lang)
    /\ WorkIsLeft(d, row, list) /\ OutcomeIsRight(d, row, list, call, lang)

LanguageOf(d) == language[OwnerOf(d)]

\* A file that is known has a place.
PlacedOnceKnown == \A f \in Files : doc[f].version # 0 => located[f] # NoPlace

ExtractionInv ==
    /\ ExtractionTypeOK /\ PlacedOnceKnown
    /\ \A d \in Docs : Sound(d, doc[d], jobs[d], worker[d], LanguageOf(d))

LEMMA ExtractionTypes ==
    ASSUME ExtractionInv
    PROVE  /\ onDisk \in [Files -> 1 .. MaxContents]
           /\ language \in [Libs -> Languages]
           /\ doc \in [Docs -> DocTypes]
           /\ jobs \in [Docs -> Seq(JobTypes)]
           /\ worker \in [Docs -> WorkerTypes]
BY DEF ExtractionInv, ExtractionTypeOK, JobTypes, DocTypes, WorkerTypes

LEMMA ListProperties ==
    ASSUME NEW list \in Seq(JobTypes)
    PROVE  /\ Len(list) \in Nat /\ DOMAIN list = 1 .. Len(list)
           /\ \A i \in DOMAIN list : i \in Nat /\ list[i] \in JobTypes
BY LenProperties, ElementOfSeq

LEMMA QueuedTyped ==
    ASSUME NEW v \in Nat
    PROVE  Queued(v) \in JobTypes /\ Queued(v).status = "queued" /\ Queued(v).version = v
           /\ Queued(v).attempts < MaxAttempts
BY ExtractionAssumption DEF Queued, JobTypes

\* The invariant says what the index promises.
LEMMA ExtractionInvSound ==
    ASSUME ExtractionInv
    PROVE  IndexIsSound
<1>1. IndexIsTrue
  BY DEF ExtractionInv, Sound, TextIsTrue, IndexIsTrue, LanguageOf
<1>2. WorkRemains
  <2> SUFFICES ASSUME NEW d \in Docs, Live(d), doc[d].freshness # "current"
               PROVE  /\ OfVersion(d) # {}
                      /\ \/ jobs[d][LastOf(d)].status \in {"queued", "running", "failed"}
                         \/ /\ jobs[d][LastOf(d)].status = "cancelled"
                            /\ jobs[d][LastOf(d)].cancelled \/ d \in Files
    BY DEF WorkRemains
  <2>1. PICK i \in DOMAIN jobs[d] : Latest(doc[d], jobs[d], i) /\ Hopeful(d, jobs[d][i])
    BY DEF ExtractionInv, Sound, WorkIsLeft, Outdated, Live
  <2>2. \A k \in OfVersion(d) : k \in Nat
    BY ExtractionTypes, ListProperties DEF OfVersion
  <2>3. i \in OfVersion(d) /\ \A k \in OfVersion(d) : k <= i
    BY <2>1 DEF Latest, OfVersion
  <2>4. LastOf(d) \in OfVersion(d) /\ \A k \in OfVersion(d) : k <= LastOf(d)
    BY <2>3 DEF LastOf
  <2>5. LastOf(d) = i
    BY <2>2, <2>3, <2>4
  <2> QED BY <2>1, <2>3, <2>5 DEF Hopeful
<1> QED BY <1>1, <1>2 DEF IndexIsSound

-----------------------------------------------------------------------------
(* One document: its row, its jobs, its worker. *)

\* One job of the list becomes another.
Changes(list, new, i, job) ==
    /\ i \in DOMAIN list /\ DOMAIN new = DOMAIN list /\ new[i] = job
    /\ job.version = list[i].version
    /\ \A k \in DOMAIN list \ {i} : new[k] = list[k]

\* A job is added; of those there were, what matters here stays.
Extends(list, new, version) ==
    /\ DOMAIN new = 1 .. Len(list) + 1 /\ new[Len(list) + 1] = Queued(version)
    /\ \A k \in DOMAIN list :
          /\ new[k].version = list[k].version /\ new[k].status = list[k].status
          /\ new[k].attempts = list[k].attempts /\ new[k].cancelled = list[k].cancelled

LEMMA ChangesKeepLatest ==
    ASSUME NEW row \in DocTypes, NEW list \in Seq(JobTypes), NEW new,
           NEW i, NEW job, Changes(list, new, i, job), NEW k
    PROVE  Latest(row, new, k) <=> Latest(row, list, k)
BY DEF Changes, Latest

\* claimLane
LEMMA ClaimSound ==
    ASSUME NEW d \in Docs, NEW row \in DocTypes, NEW list \in Seq(JobTypes), NEW lang,
           NEW call \in WorkerTypes, Sound(d, row, list, call, lang),
           NEW i, NEW job, NEW new, Changes(list, new, i, job),
           list[i].status = "queued", job.status = "running",
           NEW next, next.stage = "claimed", next.job = i
    PROVE  Sound(d, row, new, next, lang)
<1>1. JobsAreSound(new, next)
  BY DEF Sound, JobsAreSound, Changes
<1>2. UnknownIsEmpty(row, new)
  BY DEF Sound, UnknownIsEmpty, Changes
<1>3. WorkIsLeft(d, row, new)
  BY ChangesKeepLatest DEF Sound, WorkIsLeft, Changes, Hopeful
<1>4. OutcomeIsRight(d, row, new, next, lang)
  BY DEF OutcomeIsRight
<1> QED BY <1>1, <1>2, <1>3, <1>4 DEF Sound

\* The worker goes on with what it reads, or ends with an error.
LEMMA CallSound ==
    ASSUME NEW d \in Docs, NEW row \in DocTypes, NEW list \in Seq(JobTypes), NEW lang,
           NEW call \in WorkerTypes, Sound(d, row, list, call, lang), call.stage # "idle",
           NEW next, next.job = call.job, next.stage \in {"reading", "ended"},
           OutcomeIsRight(d, row, list, next, lang)
    PROVE  Sound(d, row, list, next, lang)
BY DEF Sound, JobsAreSound

\* An error is one that a retry or a scan takes up, if the job is the last.
LEMMA EndedSound ==
    ASSUME NEW d \in Docs, NEW row \in DocTypes, NEW list \in Seq(JobTypes), NEW lang,
           NEW call \in WorkerTypes, Sound(d, row, list, call, lang), call.stage # "idle",
           NEW next, next.job = call.job, next.stage = "ended",
           \/ ~Outdated(row) \/ ~Latest(row, list, call.job)
           \/ /\ next.code # ""
              /\ next.code \in Stale => list[call.job].cancelled \/ d \in Files
    PROVE  Sound(d, row, list, next, lang)
BY CallSound DEF OutcomeIsRight

\* finish
LEMMA FinishSound ==
    ASSUME NEW d \in Docs, NEW row \in DocTypes, NEW list \in Seq(JobTypes), NEW lang,
           NEW call \in WorkerTypes, Sound(d, row, list, call, lang), call.stage = "ended",
           NEW job, NEW new, Changes(list, new, call.job, job),
           job.status = Recorded(list[call.job], call.code),
           job.attempts = list[call.job].attempts, job.cancelled = list[call.job].cancelled
    PROVE  Sound(d, row, new, NoWorker, lang)
<1>0. job.status = "queued" => job.attempts < MaxAttempts
  BY DEF Recorded
<1>1. JobsAreSound(new, NoWorker)
  BY <1>0 DEF Sound, JobsAreSound, Changes, NoWorker
<1>2. UnknownIsEmpty(row, new)
  BY DEF Sound, UnknownIsEmpty, Changes
<1>3. WorkIsLeft(d, row, new)
  <2> SUFFICES ASSUME Outdated(row)
               PROVE  \E k \in DOMAIN new : Latest(row, new, k) /\ Hopeful(d, new[k])
    BY DEF WorkIsLeft
  <2>1. PICK k \in DOMAIN list : Latest(row, list, k) /\ Hopeful(d, list[k])
    BY DEF Sound, WorkIsLeft
  <2>2. CASE k # call.job
    BY <2>1, <2>2, ChangesKeepLatest DEF Changes
  <2>3. CASE k = call.job
    <3>1. /\ call.code # ""
          /\ call.code \in Stale => list[call.job].cancelled \/ d \in Files
      BY <2>1, <2>3 DEF Sound, OutcomeIsRight
    <3>2. Hopeful(d, job)
      BY <3>1 DEF Recorded, Hopeful
    <3> QED BY <2>1, <2>3, <3>2, ChangesKeepLatest DEF Changes
  <2> QED BY <2>2, <2>3
<1>4. OutcomeIsRight(d, row, new, NoWorker, lang)
  BY DEF OutcomeIsRight, NoWorker
<1> QED BY <1>1, <1>2, <1>3, <1>4 DEF Sound

\* The text reaches the index: there is no more to do for this document.
LEMMA PublishedSound ==
    ASSUME NEW d \in Docs, NEW row \in DocTypes, NEW list \in Seq(JobTypes), NEW lang,
           NEW call \in WorkerTypes, Sound(d, row, list, call, lang), call.stage = "reading",
           NEW new, new.version = row.version, new.deleted = row.deleted, ~row.deleted,
           new.freshness = "current",
           new.indexed = [version |-> row.version, language |-> lang],
           NEW next, next.job = call.job, next.stage = "ended"
    PROVE  Sound(d, new, list, next, lang)
<1>1. list # << >>
  BY ListProperties DEF Sound, JobsAreSound
<1>2. row.version # 0
  BY <1>1 DEF Sound, UnknownIsEmpty
<1>3. ~Outdated(new)
  BY DEF Outdated
<1> QED BY <1>2, <1>3
        DEF Sound, JobsAreSound, UnknownIsEmpty, TextIsTrue, WorkIsLeft, OutcomeIsRight

\* A job is added for the version there is now: nothing that runs counts any more.
LEMMA RenewedSound ==
    ASSUME NEW d \in Docs, NEW row \in DocTypes, NEW list \in Seq(JobTypes), NEW lang,
           NEW call \in WorkerTypes, Sound(d, row, list, call, lang),
           NEW new \in DocTypes, new.version # 0, new.shown => ~new.deleted,
           NEW other,
           new.freshness = "current" =>
               new.indexed = [version |-> new.version, language |-> other],
           NEW longer, Extends(list, longer, new.version)
    PROVE  Sound(d, new, longer, call, other)
<1>0. /\ Len(list) \in Nat /\ DOMAIN list = 1 .. Len(list)
      /\ \A k \in DOMAIN list : k \in Nat
  BY ListProperties
<1> DEFINE last == Len(list) + 1
<1>1. /\ longer[last] = Queued(new.version) /\ last \in DOMAIN longer /\ last \in Nat
      /\ \A k \in DOMAIN longer : k \in DOMAIN list \/ k = last
      /\ \A k \in DOMAIN longer : k <= last
      /\ last \notin DOMAIN list
  BY <1>0 DEF Extends
<1>2. /\ longer[last].status = "queued" /\ longer[last].version = new.version
      /\ longer[last].attempts < MaxAttempts
  BY <1>1, QueuedTyped DEF DocTypes
<1>3. \A k \in DOMAIN list :
         /\ k \in DOMAIN longer
         /\ longer[k].status = list[k].status /\ longer[k].attempts = list[k].attempts
  BY <1>0 DEF Extends
<1> HIDE DEF last
<1>4. JobsAreSound(longer, call)
  BY <1>1, <1>2, <1>3 DEF Sound, JobsAreSound
<1>5. UnknownIsEmpty(new, longer) /\ TextIsTrue(new, other)
  BY DEF UnknownIsEmpty, TextIsTrue
<1>6. Latest(new, longer, last)
  BY <1>1, <1>2 DEF Latest
<1>7. WorkIsLeft(d, new, longer)
  BY <1>1, <1>2, <1>6 DEF WorkIsLeft, Hopeful
<1>8. call.stage # "idle" => ~Latest(new, longer, call.job)
  <2> SUFFICES ASSUME call.stage # "idle", Latest(new, longer, call.job) PROVE FALSE
    OBVIOUS
  <2>1. call.job \in DOMAIN list /\ call.job <= Len(list)
    BY <1>0 DEF Sound, JobsAreSound
  <2>2. last <= call.job
    BY <1>1, <1>2 DEF Latest
  <2> QED BY <1>0, <2>1, <2>2 DEF last
<1>9. OutcomeIsRight(d, new, longer, call, other)
  BY <1>8 DEF Sound, OutcomeIsRight
<1> QED BY <1>4, <1>5, <1>7, <1>9 DEF Sound

\* A job is added for another version, which is a retry of an old job.
LEMMA RetriedSound ==
    ASSUME NEW d \in Docs, NEW row \in DocTypes, NEW list \in Seq(JobTypes), NEW lang,
           NEW call \in WorkerTypes, Sound(d, row, list, call, lang), list # << >>,
           NEW version \in Nat, NEW longer, Extends(list, longer, version)
    PROVE  Sound(d, row, longer, call, lang)
<1>1. row.version # 0
  BY DEF Sound, UnknownIsEmpty
<1>2. CASE version = row.version
  BY <1>1, <1>2, RenewedSound DEF Sound, TextIsTrue
<1>3. CASE version # row.version
  <2>0. /\ Len(list) \in Nat /\ DOMAIN list = 1 .. Len(list)
        /\ \A k \in DOMAIN list : k \in Nat
    BY ListProperties
  <2> DEFINE last == Len(list) + 1
  <2>1. /\ longer[last] = Queued(version) /\ last \notin DOMAIN list
        /\ \A k \in DOMAIN longer : k \in DOMAIN list \/ k = last
        /\ \A k \in DOMAIN list : k \in DOMAIN longer
    BY <2>0 DEF Extends
  <2>2. /\ longer[last].status = "queued" /\ longer[last].version # row.version
        /\ longer[last].attempts < MaxAttempts
    BY <1>3, <2>1, QueuedTyped
  <2>3. \A k \in DOMAIN list :
           /\ longer[k].version = list[k].version /\ longer[k].status = list[k].status
           /\ longer[k].attempts = list[k].attempts /\ longer[k].cancelled = list[k].cancelled
    BY DEF Extends
  <2> HIDE DEF last
  <2>4. \A k : Latest(row, longer, k) <=> Latest(row, list, k)
    BY <2>1, <2>2, <2>3 DEF Latest
  <2>5. JobsAreSound(longer, call)
    BY <2>1, <2>2, <2>3 DEF Sound, JobsAreSound
  <2>6. WorkIsLeft(d, row, longer)
    <3> SUFFICES ASSUME Outdated(row)
                 PROVE  \E k \in DOMAIN longer : Latest(row, longer, k) /\ Hopeful(d, longer[k])
      BY DEF WorkIsLeft
    <3>1. PICK k \in DOMAIN list : Latest(row, list, k) /\ Hopeful(d, list[k])
      BY DEF Sound, WorkIsLeft
    <3> QED BY <2>1, <2>3, <2>4, <3>1 DEF Hopeful
  <2>7. OutcomeIsRight(d, row, longer, call, lang)
    <3>1. call.stage # "idle" => longer[call.job].cancelled = list[call.job].cancelled
      BY <2>3 DEF Sound, JobsAreSound
    <3> QED BY <2>4, <3>1 DEF Sound, OutcomeIsRight
  <2> QED BY <1>1, <2>5, <2>6, <2>7 DEF Sound, UnknownIsEmpty
<1> QED BY <1>2, <1>3

\* The user cancels a job, which ends it at once if it is only queued.
LEMMA CancelledSound ==
    ASSUME NEW d \in Docs, NEW row \in DocTypes, NEW list \in Seq(JobTypes), NEW lang,
           NEW call \in WorkerTypes, Sound(d, row, list, call, lang),
           NEW i, NEW job, NEW new, Changes(list, new, i, job), job.cancelled,
           job.status = IF list[i].status = "running" THEN "running" ELSE "cancelled"
    PROVE  Sound(d, row, new, call, lang)
<1>1. JobsAreSound(new, call)
  BY DEF Sound, JobsAreSound, Changes
<1>2. UnknownIsEmpty(row, new)
  BY DEF Sound, UnknownIsEmpty, Changes
<1>3. WorkIsLeft(d, row, new)
  BY ChangesKeepLatest DEF Sound, WorkIsLeft, Changes, Hopeful
<1>4. OutcomeIsRight(d, row, new, call, lang)
  BY ChangesKeepLatest DEF Sound, OutcomeIsRight, Changes, JobsAreSound
<1> QED BY <1>1, <1>2, <1>3, <1>4 DEF Sound

\* The document is taken out of the index.
LEMMA RemovedSound ==
    ASSUME NEW d \in Docs, NEW row \in DocTypes, NEW list \in Seq(JobTypes), NEW lang,
           NEW call \in WorkerTypes, Sound(d, row, list, call, lang)
    PROVE  Sound(d, Removed(row), list, call, lang) /\ Removed(row) \in DocTypes
           /\ Removed(row).version = row.version
<1>1. /\ Removed(row) \in DocTypes /\ Removed(row).version = row.version
      /\ Removed(row).freshness = row.freshness /\ Removed(row).indexed = row.indexed
      /\ Removed(row).deleted /\ ~Removed(row).shown
  BY DEF Removed, DocTypes
<1>2. ~Outdated(Removed(row))
  BY <1>1 DEF Outdated
<1> QED BY <1>1, <1>2
        DEF Sound, JobsAreSound, UnknownIsEmpty, TextIsTrue, WorkIsLeft, OutcomeIsRight

\* Nobody works on it any more.
LEMMA IdleSound ==
    ASSUME NEW d \in Docs, NEW row, NEW list, NEW call, NEW lang,
           Sound(d, row, list, call, lang)
    PROVE  Sound(d, row, list, NoWorker, lang)
BY DEF Sound, JobsAreSound, OutcomeIsRight, NoWorker

\* recoverJobs
LEMMA RecoveredSound ==
    ASSUME NEW d \in Docs, NEW row \in DocTypes, NEW list \in Seq(JobTypes), NEW lang,
           NEW call \in WorkerTypes, Sound(d, row, list, call, lang)
    PROVE  LET new == [i \in DOMAIN list |-> Recovered(list[i])] IN
           Sound(d, row, new, NoWorker, lang) /\ new \in Seq(JobTypes)
<1> DEFINE new == [i \in DOMAIN list |-> Recovered(list[i])]
<1>0. /\ Len(list) \in Nat /\ DOMAIN list = 1 .. Len(list)
      /\ \A k \in DOMAIN list : k \in Nat /\ list[k] \in JobTypes
  BY ListProperties
<1>1. \A i \in DOMAIN list :
         /\ new[i] \in JobTypes /\ new[i].version = list[i].version
         /\ new[i].attempts = list[i].attempts /\ new[i].cancelled = list[i].cancelled
         /\ list[i].status # "running" => new[i].status = list[i].status
         /\ list[i].status = "running" =>
               \/ new[i].status = "cancelled" /\ new[i].cancelled
               \/ new[i].status = "failed"
               \/ new[i].status = "queued" /\ new[i].attempts < MaxAttempts
  BY <1>0, ExtractionAssumption DEF Recovered, JobTypes, Terminal
<1>2. DOMAIN new = DOMAIN list
  OBVIOUS
<1> HIDE DEF new
<1>3. new \in Seq(JobTypes)
  <2>1. new \in [1 .. Len(list) -> JobTypes]
    BY <1>0, <1>1, <1>2 DEF new
  <2> QED BY <1>0, <2>1, SeqDef
<1>4. JobsAreSound(new, NoWorker)
  BY <1>1, <1>2 DEF Sound, JobsAreSound, NoWorker
<1>5. UnknownIsEmpty(row, new)
  BY <1>2, <1>3, ListProperties DEF Sound, UnknownIsEmpty
<1>6. WorkIsLeft(d, row, new)
  BY <1>1, <1>2 DEF Sound, WorkIsLeft, Latest, Hopeful
<1>7. OutcomeIsRight(d, row, new, NoWorker, lang)
  BY DEF OutcomeIsRight, NoWorker
<1> QED BY <1>3, <1>4, <1>5, <1>6, <1>7 DEF Sound, new

-----------------------------------------------------------------------------
(* All documents. *)

\* A document stays in its library.
OwnersStay ==
    \A f \in Files : located[f] # NoPlace =>
        located'[f] # NoPlace /\ roots'[located'[f].root].lib = roots[located[f].root].lib

\* A document that is not known is sound in any language.
LEMMA UnknownSound ==
    ASSUME NEW d, NEW row, NEW list, NEW call, NEW lang, Sound(d, row, list, call, lang),
           row.version = 0, NEW other
    PROVE  Sound(d, row, list, call, other)
<1>1. list = << >> /\ call.stage = "idle" /\ row.freshness = None /\ ~row.shown
  BY DEF Sound, UnknownIsEmpty, JobsAreSound
<1> QED BY <1>1 DEF Sound, UnknownIsEmpty, JobsAreSound, TextIsTrue, WorkIsLeft, Outdated,
                    OutcomeIsRight, None

LEMMA LanguageStays ==
    ASSUME ExtractionInv, OwnersStay, UNCHANGED language, NEW d \in Docs, doc[d].version # 0
    PROVE  LanguageOf(d)' = LanguageOf(d)
<1>1. CASE d \in Uploads
  BY <1>1 DEF LanguageOf, OwnerOf
<1>2. CASE d \notin Uploads
  BY <1>2 DEF LanguageOf, OwnerOf, OwnersStay, Docs, ExtractionInv, PlacedOnceKnown
<1> QED BY <1>1, <1>2

\* Each document is as it was, or as the step leaves it.
LEMMA DocumentsSound ==
    ASSUME ExtractionInv, OwnersStay,
           onDisk' \in [Files -> 1 .. MaxContents], UNCHANGED language,
           doc' \in [Docs -> DocTypes], jobs' \in [Docs -> Seq(JobTypes)],
           worker' \in [Docs -> WorkerTypes],
           \A f \in Files : doc'[f].version # doc[f].version => located'[f] # NoPlace,
           \A d \in Docs :
              \/ doc'[d] = doc[d] /\ jobs'[d] = jobs[d] /\ worker'[d] = worker[d]
              \/ Sound(d, doc'[d], jobs'[d], worker'[d], LanguageOf(d)')
    PROVE  ExtractionInv'
<1>1. ExtractionTypeOK'
  BY ExtractionTypes DEF ExtractionTypeOK, JobTypes, DocTypes, WorkerTypes
<1>2. PlacedOnceKnown'
  BY DEF PlacedOnceKnown, ExtractionInv, OwnersStay
<1>3. ASSUME NEW d \in Docs
      PROVE  Sound(d, doc'[d], jobs'[d], worker'[d], LanguageOf(d)')
  <2> SUFFICES ASSUME doc'[d] = doc[d], jobs'[d] = jobs[d], worker'[d] = worker[d]
               PROVE  Sound(d, doc[d], jobs[d], worker[d], LanguageOf(d)')
    OBVIOUS
  <2>1. Sound(d, doc[d], jobs[d], worker[d], LanguageOf(d))
    BY DEF ExtractionInv
  <2> QED BY <2>1, LanguageStays, UnknownSound
<1> QED BY <1>1, <1>2, <1>3 DEF ExtractionInv

\* A step about one document, in which the tables of the roots stay.
LEMMA OneDocument ==
    ASSUME ExtractionInv, UNCHANGED <<onDisk, language, roots, located>>, NEW d \in Docs,
           doc' \in [Docs -> DocTypes], jobs' \in [Docs -> Seq(JobTypes)],
           worker' \in [Docs -> WorkerTypes],
           \A e \in Docs \ {d} :
              doc'[e] = doc[e] /\ jobs'[e] = jobs[e] /\ worker'[e] = worker[e],
           d \in Files => doc'[d].version = doc[d].version,
           Sound(d, doc'[d], jobs'[d], worker'[d], LanguageOf(d))
    PROVE  ExtractionInv'
<1>1. OwnersStay
  BY DEF OwnersStay
<1>2. LanguageOf(d)' = LanguageOf(d)
  BY DEF LanguageOf, OwnerOf
<1>3. \A f \in Files : doc'[f].version = doc[f].version
  BY DEF Docs
<1>4. \A e \in Docs :
         \/ doc'[e] = doc[e] /\ jobs'[e] = jobs[e] /\ worker'[e] = worker[e]
         \/ Sound(e, doc'[e], jobs'[e], worker'[e], LanguageOf(e)')
  BY <1>2
<1>5. UNCHANGED language /\ onDisk' \in [Files -> 1 .. MaxContents]
  BY ExtractionTypes
<1> QED BY <1>1, <1>3, <1>4, <1>5, DocumentsSound

LEMMA DocumentsUnchanged ==
    ASSUME ExtractionInv, OwnersStay, UNCHANGED extractionVars
    PROVE  ExtractionInv'
<1>1. UNCHANGED <<onDisk, language, doc, jobs, worker>>
  BY DEF extractionVars
<1> QED BY <1>1, ExtractionTypes, DocumentsSound

-----------------------------------------------------------------------------
(* The worker. *)

LEMMA DocumentTypes ==
    ASSUME ExtractionInv, NEW d \in Docs
    PROVE  /\ doc[d] \in DocTypes /\ jobs[d] \in Seq(JobTypes) /\ worker[d] \in WorkerTypes
           /\ \A i \in DOMAIN jobs[d] : i \in Nat /\ jobs[d][i] \in JobTypes
           /\ Sound(d, doc[d], jobs[d], worker[d], LanguageOf(d))
           /\ worker[d].stage # "idle" =>
                 worker[d].job \in DOMAIN jobs[d] /\ jobs[d][worker[d].job].status = "running"
BY ExtractionTypes, ListProperties DEF ExtractionInv, Sound, JobsAreSound

LEMMA ChangedList ==
    ASSUME NEW list \in Seq(JobTypes), NEW i \in DOMAIN list, NEW job \in JobTypes,
           job.version = list[i].version
    PROVE  /\ [list EXCEPT ![i] = job] \in Seq(JobTypes)
           /\ Changes(list, [list EXCEPT ![i] = job], i, job)
BY ListProperties, ExceptSeq DEF Changes

LEMMA LongerList ==
    ASSUME NEW list \in Seq(JobTypes), NEW version \in Nat
    PROVE  /\ Append(list, Queued(version)) \in Seq(JobTypes)
           /\ Extends(list, Append(list, Queued(version)), version)
<1>1. Queued(version) \in JobTypes
  BY QueuedTyped
<1>2. /\ Append(list, Queued(version)) \in Seq(JobTypes)
      /\ Len(Append(list, Queued(version))) = Len(list) + 1
      /\ \A i \in 1 .. Len(list) : Append(list, Queued(version))[i] = list[i]
      /\ Append(list, Queued(version))[Len(list) + 1] = Queued(version)
  BY <1>1, AppendProperties
<1> QED BY <1>2, ListProperties DEF Extends

LEMMA NoWorkerTyped == NoWorker \in WorkerTypes
BY ExtractionAssumption DEF WorkerTypes, NoWorker, Codes

LEMMA ClaimedCall ==
    ASSUME NEW i \in Nat
    PROVE  LET call == [NoWorker EXCEPT !.stage = "claimed", !.job = i] IN
           call \in WorkerTypes /\ call.stage = "claimed" /\ call.job = i
<1>1. NoWorker \in WorkerTypes
  BY NoWorkerTyped
<1>2. \A call \in WorkerTypes : [call EXCEPT !.stage = "claimed", !.job = i] \in WorkerTypes
  BY DEF WorkerTypes
<1> QED BY <1>1, <1>2 DEF NoWorker

LEMMA EndedCall ==
    ASSUME NEW call \in WorkerTypes, NEW code \in Codes
    PROVE  LET next == [call EXCEPT !.stage = "ended", !.code = code] IN
           /\ next \in WorkerTypes
           /\ next.stage = "ended" /\ next.code = code /\ next.job = call.job
<1>1. [call EXCEPT !.stage = "ended", !.code = code] \in WorkerTypes
  BY DEF WorkerTypes
<1> QED BY <1>1 DEF WorkerTypes

\* The call of a worker that has prepared its reading.
Reading(call, lang, content, root, revision) ==
    [call EXCEPT !.stage = "reading", !.language = lang, !.content = content,
                 !.root = root, !.revision = revision]

LEMMA ReadingCall ==
    ASSUME NEW call \in WorkerTypes, NEW lang \in Languages, NEW content \in 0 .. MaxContents,
           NEW root \in Dirs \cup {Nowhere}, NEW revision \in Nat
    PROVE  LET next == Reading(call, lang, content, root, revision) IN
           /\ next \in WorkerTypes
           /\ next.stage = "reading" /\ next.language = lang /\ next.root = root
           /\ next.job = call.job
<1>1. Reading(call, lang, content, root, revision) \in WorkerTypes
  BY DEF WorkerTypes, Reading
<1> QED BY <1>1 DEF WorkerTypes, Reading

LEMMA ClaimInv ==
    ASSUME ExtractionInv, NEW d \in Docs, Claim(d), UNCHANGED <<roots, located>>
    PROVE  ExtractionInv'
<1>1. PICK i \in DOMAIN jobs[d] :
         /\ jobs[d][i].status = "queued"
         /\ jobs' = [jobs EXCEPT ![d][i].status = "running", ![d][i].attempts = @ + 1]
         /\ worker' = [worker EXCEPT ![d] = [NoWorker EXCEPT !.stage = "claimed", !.job = i]]
  BY DEF Claim
<1> DEFINE job == [version |-> jobs[d][i].version, status |-> "running",
                   attempts |-> jobs[d][i].attempts + 1,
                   cancelled |-> jobs[d][i].cancelled, retried |-> jobs[d][i].retried]
           new == [jobs[d] EXCEPT ![i] = job]
<1>2. jobs[d][i] \in JobTypes /\ jobs[d][i].attempts < MaxAttempts
  BY <1>1, DocumentTypes DEF Sound, JobsAreSound
<1>3. job \in JobTypes /\ job.version = jobs[d][i].version /\ job.status = "running"
  BY <1>2, ExtractionAssumption DEF JobTypes
<1>4. jobs' = [jobs EXCEPT ![d] = new]
  BY <1>1, <1>2, ExtractionTypes DEF JobTypes
<1> HIDE DEF job
<1>5. new \in Seq(JobTypes) /\ Changes(jobs[d], new, i, job)
  BY <1>3, DocumentTypes, ChangedList
<1> HIDE DEF new
<1>6. /\ jobs' \in [Docs -> Seq(JobTypes)] /\ jobs'[d] = new
      /\ \A e \in Docs \ {d} : jobs'[e] = jobs[e]
  BY <1>4, <1>5, ExtractionTypes
<1>7. /\ worker' \in [Docs -> WorkerTypes]
      /\ worker'[d].stage = "claimed" /\ worker'[d].job = i
      /\ \A e \in Docs \ {d} : worker'[e] = worker[e]
  <2> DEFINE call == [NoWorker EXCEPT !.stage = "claimed", !.job = i]
  <2>1. call \in WorkerTypes /\ call.stage = "claimed" /\ call.job = i
    BY DocumentTypes, ClaimedCall
  <2> HIDE DEF call
  <2> QED BY <1>1, <2>1, ExtractionTypes DEF call
<1>8. UNCHANGED <<onDisk, language, doc>>
  BY DEF Claim
<1>9. Sound(d, doc[d], new, worker'[d], LanguageOf(d))
  <2>1. /\ doc[d] \in DocTypes /\ jobs[d] \in Seq(JobTypes) /\ worker[d] \in WorkerTypes
        /\ Sound(d, doc[d], jobs[d], worker[d], LanguageOf(d))
    BY DocumentTypes
  <2>2. Changes(jobs[d], new, i, job) /\ jobs[d][i].status = "queued" /\ job.status = "running"
    BY <1>1, <1>3, <1>5
  <2> QED BY <1>7, <2>1, <2>2, ClaimSound
<1> QED BY <1>6, <1>7, <1>8, <1>9, ExtractionTypes, OneDocument

\* The worker's call is another, and nothing else.
LEMMA WorkerCallInv ==
    ASSUME ExtractionInv, NEW d \in Docs, NEW call \in WorkerTypes,
           worker' = [worker EXCEPT ![d] = call],
           UNCHANGED <<onDisk, language, doc, jobs, roots, located>>,
           Sound(d, doc[d], jobs[d], call, LanguageOf(d))
    PROVE  ExtractionInv'
<1>1. /\ worker' \in [Docs -> WorkerTypes] /\ worker'[d] = call
      /\ \A e \in Docs \ {d} : worker'[e] = worker[e]
  BY ExtractionTypes
<1> QED BY <1>1, ExtractionTypes, OneDocument

\* The call of a worker that has ended with a code.
EndedWith(d, code) == [worker[d] EXCEPT !.stage = "ended", !.code = code]

LEMMA EndedTyped ==
    ASSUME ExtractionInv, NEW d \in Docs, NEW code \in Codes, Ended(d, code)
    PROVE  /\ EndedWith(d, code) \in WorkerTypes
           /\ worker' = [worker EXCEPT ![d] = EndedWith(d, code)]
           /\ EndedWith(d, code).stage = "ended" /\ EndedWith(d, code).code = code
           /\ EndedWith(d, code).job = worker[d].job
<1>1. worker[d] \in WorkerTypes /\ worker \in [Docs -> WorkerTypes]
  BY ExtractionTypes
<1>2. worker' = [worker EXCEPT ![d] = EndedWith(d, code)]
  BY <1>1 DEF Ended, WorkerTypes, EndedWith
<1> QED BY <1>1, <1>2, EndedCall DEF EndedWith

LEMMA EndedInv ==
    ASSUME ExtractionInv, NEW d \in Docs, NEW code \in Codes, Ended(d, code),
           UNCHANGED <<onDisk, language, doc, jobs, roots, located>>,
           worker[d].stage # "idle",
           \/ ~Outdated(doc[d]) \/ ~Latest(doc[d], jobs[d], worker[d].job)
           \/ /\ code # ""
              /\ code \in Stale => Job(d).cancelled \/ d \in Files
    PROVE  ExtractionInv'
<1> DEFINE call == EndedWith(d, code)
<1>1. /\ call \in WorkerTypes /\ worker' = [worker EXCEPT ![d] = call]
      /\ call.stage = "ended" /\ call.code = code /\ call.job = worker[d].job
  BY EndedTyped
<1> HIDE DEF call
<1>2. Sound(d, doc[d], jobs[d], call, LanguageOf(d))
  BY <1>1, DocumentTypes, EndedSound DEF Job
<1> QED BY <1>1, <1>2, WorkerCallInv

LEMMA FailToReadInv ==
    ASSUME ExtractionInv, NEW d \in Docs, FailToRead(d), UNCHANGED <<roots, located>>
    PROVE  ExtractionInv'
<1>1. PICK code \in {"DOCUMENT_UNAVAILABLE", "OCR_FAILED"} : Ended(d, code)
  BY DEF FailToRead
<1>2. code \in Codes /\ code \notin Stale /\ code # ""
  BY DEF Codes, Stale
<1> QED BY <1>1, <1>2, EndedInv DEF FailToRead

LEMMA InterruptedInv ==
    ASSUME ExtractionInv, NEW d \in Docs, Interrupted(d), UNCHANGED <<roots, located>>
    PROVE  ExtractionInv'
<1>1. "USER_CANCELLED" \in Codes
  BY DEF Codes
<1> QED BY <1>1, EndedInv DEF Interrupted

\* The library of a document that can be opened is one.
LEMMA OwnerTyped ==
    ASSUME RootsInv, ExtractionInv, NEW d \in Docs, Openable(d)
    PROVE  /\ LanguageOf(d) \in Languages
           /\ d \notin Uploads => located[d] \in Place /\ roots[located[d].root].revision \in Nat
<1>1. CASE d \in Uploads
  BY <1>1, ExtractionAssumption, ExtractionTypes DEF LanguageOf, OwnerOf
<1>2. CASE d \notin Uploads
  <2>1. d \in Files /\ located[d] \in Place /\ located[d].root \in Dirs
    BY <1>2, TypesOfRootsInv DEF Openable, Docs, Place
  <2>2. roots[located[d].root] # NoRoot
    BY <1>2, <2>1, RegisteredIsRoot DEF Openable
  <2>3. roots[located[d].root].lib \in Libs /\ roots[located[d].root].revision \in Nat
    BY <2>1, <2>2, RevisionTyped
  <2> QED BY <1>2, <2>1, <2>3, ExtractionTypes DEF LanguageOf, OwnerOf
<1> QED BY <1>1, <1>2

LEMMA PrepareInv ==
    ASSUME RootsInv, ExtractionInv, NEW d \in Docs, Prepare(d), UNCHANGED <<roots, located>>
    PROVE  ExtractionInv'
<1>0. /\ worker[d].stage = "claimed" /\ UNCHANGED <<onDisk, language, doc, jobs>>
      /\ worker[d].stage # "idle"
  BY DEF Prepare
<1>1. CASE ~Live(d) \/ Job(d).version # doc[d].version
  <2>1. ~Outdated(doc[d]) \/ ~Latest(doc[d], jobs[d], worker[d].job)
    BY <1>1 DEF Outdated, Latest, Live, Job
  <2>2. "VERSION_SUPERSEDED" \in Codes /\ Ended(d, "VERSION_SUPERSEDED")
    BY <1>1 DEF Codes, Prepare
  <2> QED BY <1>0, <2>1, <2>2, EndedInv
<1>2. CASE Ended(d, "ROOT_DISABLED") /\ ~Openable(d)
  <2>1. d \in Files /\ "ROOT_DISABLED" \in Codes
    BY <1>2 DEF Openable, Docs, Codes
  <2> QED BY <1>0, <1>2, <2>1, EndedInv
<1>3. CASE Ended(d, "FILE_UNSTABLE")
  <2>1. "FILE_UNSTABLE" \in Codes /\ "FILE_UNSTABLE" \notin Stale
    BY DEF Codes, Stale
  <2> QED BY <1>0, <1>3, <2>1, EndedInv
<1> DEFINE root == IF d \in Uploads THEN Nowhere ELSE located[d].root
           revision == IF d \in Uploads THEN 0 ELSE roots[located[d].root].revision
           call == Reading(worker[d], LanguageOf(d), doc[d].content, root, revision)
<1>4. CASE Openable(d) /\ worker' = [worker EXCEPT ![d] = call]
  <2>1. root \in Dirs \cup {Nowhere} /\ revision \in Nat /\ LanguageOf(d) \in Languages
    BY <1>4, OwnerTyped DEF Place
  <2>2. d \notin Files => root = Nowhere
    BY DEF Docs
  <2> HIDE DEF root, revision
  <2>3. /\ call \in WorkerTypes /\ call.job = worker[d].job
        /\ call.stage = "reading" /\ call.language = LanguageOf(d) /\ call.root = root
    <3>1. worker[d] \in WorkerTypes /\ doc[d].content \in 0 .. MaxContents
      BY DocumentTypes DEF DocTypes
    <3> QED BY <2>1, <3>1, ReadingCall
  <2> HIDE DEF call
  <2>4. OutcomeIsRight(d, doc[d], jobs[d], call, LanguageOf(d))
    BY <2>1, <2>2, <2>3 DEF OutcomeIsRight
  <2>6. Sound(d, doc[d], jobs[d], call, LanguageOf(d))
    BY <1>0, <2>3, <2>4, DocumentTypes, CallSound
  <2> QED BY <1>0, <1>4, <2>3, <2>6, WorkerCallInv
<1>5. \/ ~Live(d) \/ Job(d).version # doc[d].version
      \/ Ended(d, "ROOT_DISABLED") /\ ~Openable(d)
      \/ Ended(d, "FILE_UNSTABLE")
      \/ Openable(d) /\ worker' = [worker EXCEPT ![d] = call]
  BY DEF Prepare, LanguageOf, Reading
<1> QED BY <1>1, <1>2, <1>3, <1>4, <1>5

\* The row of a document whose text has been published.
Published(row, version, lang) ==
    [row EXCEPT !.freshness = "current", !.shown = TRUE,
                !.indexed = [version |-> version, language |-> lang]]

LEMMA PublishedRow ==
    ASSUME NEW row \in DocTypes, NEW version \in Nat, NEW lang \in Languages
    PROVE  LET new == Published(row, version, lang) IN
           /\ new \in DocTypes
           /\ new.version = row.version /\ new.deleted = row.deleted
           /\ new.freshness = "current"
           /\ new.indexed = [version |-> version, language |-> lang]
<1>1. Published(row, version, lang) \in DocTypes
  BY DEF DocTypes, Published
<1> QED BY <1>1 DEF DocTypes, Published

LEMMA PublishInv ==
    ASSUME ExtractionInv, NEW d \in Docs, Publish(d), UNCHANGED <<roots, located>>
    PROVE  ExtractionInv'
<1>0. /\ worker[d].stage = "reading" /\ UNCHANGED <<onDisk, language, jobs>>
      /\ worker[d].stage # "idle"
  BY DEF Publish
<1>1. CASE Ended(d, "FILE_UNSTABLE") /\ UNCHANGED doc
  <2>1. "FILE_UNSTABLE" \in Codes /\ "FILE_UNSTABLE" \notin Stale
    BY DEF Codes, Stale
  <2> QED BY <1>0, <1>1, <2>1, EndedInv
<1>2. /\ worker[d].job \in DOMAIN jobs[d] /\ Job(d) \in JobTypes /\ doc[d] \in DocTypes
      /\ Sound(d, doc[d], jobs[d], worker[d], LanguageOf(d))
  BY <1>0, DocumentTypes DEF Job
<1>3. worker[d].root # Nowhere => d \in Files
  BY <1>0, <1>2 DEF Sound, OutcomeIsRight
<1>4. CASE Ended(d, "ROOT_PLAN_STALE") /\ UNCHANGED doc /\ worker[d].root # Nowhere
  <2>1. "ROOT_PLAN_STALE" \in Codes
    BY DEF Codes
  <2> QED BY <1>0, <1>3, <1>4, <2>1, EndedInv
<1>5. CASE /\ Ended(d, "VERSION_SUPERSEDED") /\ UNCHANGED doc
           /\ \/ worker[d].language # LanguageOf(d)
              \/ Job(d).cancelled \/ doc[d].version # Job(d).version \/ doc[d].deleted
  <2>1. "VERSION_SUPERSEDED" \in Codes
    BY DEF Codes
  <2>2. Outdated(doc[d]) /\ Latest(doc[d], jobs[d], worker[d].job) =>
           Job(d).cancelled \/ d \in Files
    BY <1>0, <1>2, <1>5 DEF Sound, OutcomeIsRight, Outdated, Latest, Job
  <2> QED BY <1>0, <1>5, <2>1, <2>2, EndedInv
<1> DEFINE row == Published(doc[d], Job(d).version, worker[d].language)
<1>6. CASE /\ Ended(d, "") /\ doc' = [doc EXCEPT ![d] = row]
           /\ worker[d].language = LanguageOf(d)
           /\ doc[d].version = Job(d).version /\ ~doc[d].deleted
  <2>1. worker[d].language \in Languages
    BY <1>0, <1>2 DEF Sound, OutcomeIsRight
  <2>2. Job(d).version \in Nat
    BY <1>2 DEF JobTypes
  <2>3. /\ row \in DocTypes /\ row.version = doc[d].version /\ row.deleted = doc[d].deleted
        /\ row.freshness = "current"
        /\ row.indexed = [version |-> doc[d].version, language |-> LanguageOf(d)]
    <3>1. /\ row \in DocTypes /\ row.version = doc[d].version
          /\ row.deleted = doc[d].deleted /\ row.freshness = "current"
          /\ row.indexed = [version |-> Job(d).version, language |-> worker[d].language]
      BY <1>2, <1>6, <2>1, <2>2, PublishedRow
    <3> HIDE DEF row
    <3> QED BY <1>6, <3>1
  <2> HIDE DEF row
  <2>4. /\ doc' \in [Docs -> DocTypes] /\ doc'[d] = row
        /\ \A e \in Docs \ {d} : doc'[e] = doc[e]
    BY <1>6, <2>3, ExtractionTypes
  <2> DEFINE call == EndedWith(d, "")
  <2>5. /\ call \in WorkerTypes /\ worker' = [worker EXCEPT ![d] = call]
        /\ call.stage = "ended" /\ call.job = worker[d].job
    BY <1>6, EndedTyped DEF Codes
  <2> HIDE DEF call
  <2>6. /\ worker' \in [Docs -> WorkerTypes] /\ worker'[d] = call
        /\ \A e \in Docs \ {d} : worker'[e] = worker[e]
    BY <2>5, ExtractionTypes
  <2>7. Sound(d, row, jobs[d], call, LanguageOf(d))
    BY <1>0, <1>2, <1>6, <2>3, <2>5, DocumentTypes, PublishedSound
  <2> QED BY <1>0, <2>3, <2>4, <2>6, <2>7, ExtractionTypes, OneDocument
<1>7. \/ Ended(d, "FILE_UNSTABLE") /\ UNCHANGED doc
      \/ Ended(d, "ROOT_PLAN_STALE") /\ UNCHANGED doc /\ worker[d].root # Nowhere
      \/ /\ Ended(d, "VERSION_SUPERSEDED") /\ UNCHANGED doc
         /\ \/ worker[d].language # LanguageOf(d)
            \/ Job(d).cancelled \/ doc[d].version # Job(d).version \/ doc[d].deleted
      \/ /\ Ended(d, "") /\ doc' = [doc EXCEPT ![d] = row]
         /\ worker[d].language = LanguageOf(d)
         /\ doc[d].version = Job(d).version /\ ~doc[d].deleted
  BY <1>2 DEF Publish, Refusal, LanguageOf, Published, DocTypes
<1> QED BY <1>1, <1>4, <1>5, <1>6, <1>7

-----------------------------------------------------------------------------
(* The jobs. *)

\* The list of a document's jobs becomes another, and perhaps its worker's call.
LEMMA JobsInv ==
    ASSUME ExtractionInv, UNCHANGED <<onDisk, language, doc, roots, located>>, NEW d \in Docs,
           NEW new \in Seq(JobTypes), jobs' = [jobs EXCEPT ![d] = new],
           NEW call \in WorkerTypes, worker' = [worker EXCEPT ![d] = call],
           Sound(d, doc[d], new, call, LanguageOf(d))
    PROVE  ExtractionInv'
<1>1. /\ jobs' \in [Docs -> Seq(JobTypes)] /\ jobs'[d] = new
      /\ \A e \in Docs \ {d} : jobs'[e] = jobs[e]
  BY ExtractionTypes
<1>2. /\ worker' \in [Docs -> WorkerTypes] /\ worker'[d] = call
      /\ \A e \in Docs \ {d} : worker'[e] = worker[e]
  BY ExtractionTypes
<1> QED BY <1>1, <1>2, ExtractionTypes, OneDocument

LEMMA WorkersUnchanged ==
    ASSUME ExtractionInv, UNCHANGED worker, NEW d \in Docs
    PROVE  worker' = [worker EXCEPT ![d] = worker[d]]
BY ExtractionTypes

LEMMA FinishInv ==
    ASSUME ExtractionInv, NEW d \in Docs, Finish(d), UNCHANGED <<roots, located>>
    PROVE  ExtractionInv'
<1> DEFINE i == worker[d].job
           status == Recorded(Job(d), worker[d].code)
           job == [jobs[d][i] EXCEPT !.status = status]
           new == [jobs[d] EXCEPT ![i] = job]
<1>1. /\ worker[d].stage = "ended" /\ i \in DOMAIN jobs[d] /\ jobs[d][i] \in JobTypes
      /\ Sound(d, doc[d], jobs[d], worker[d], LanguageOf(d))
      /\ doc[d] \in DocTypes /\ jobs[d] \in Seq(JobTypes) /\ worker[d] \in WorkerTypes
  BY DocumentTypes DEF Finish
<1>2. status \in Terminal \cup {"queued", "running"}
  BY DEF Recorded, Terminal
<1>3. /\ job \in JobTypes /\ job.status = status /\ job.version = jobs[d][i].version
      /\ job.attempts = jobs[d][i].attempts /\ job.cancelled = jobs[d][i].cancelled
  <2> HIDE DEF status
  <2> QED BY <1>1, <1>2 DEF JobTypes
<1>4. jobs' = [jobs EXCEPT ![d] = new]
  BY <1>1, ExtractionTypes DEF Finish, JobTypes
<1> HIDE DEF job
<1>5. new \in Seq(JobTypes) /\ Changes(jobs[d], new, i, job)
  BY <1>1, <1>3, ChangedList
<1> HIDE DEF new
<1>6. Sound(d, doc[d], new, NoWorker, LanguageOf(d))
  BY <1>1, <1>3, <1>5, FinishSound DEF Job
<1>7. NoWorker \in WorkerTypes
  BY NoWorkerTyped
<1>8. UNCHANGED <<onDisk, language, doc>> /\ worker' = [worker EXCEPT ![d] = NoWorker]
  BY DEF Finish
<1> QED BY <1>4, <1>5, <1>6, <1>7, <1>8, JobsInv

LEMMA CancelJobInv ==
    ASSUME ExtractionInv, NEW d \in Docs, CancelJob(d), UNCHANGED <<roots, located>>
    PROVE  ExtractionInv'
<1>1. PICK i \in DOMAIN jobs[d] :
         /\ jobs[d][i].status \notin Terminal
         /\ jobs' = [jobs EXCEPT ![d][i].cancelled = TRUE, ![d][i].status =
               IF jobs[d][i].status = "running" THEN "running" ELSE "cancelled"]
  BY DEF CancelJob
<1> DEFINE status == IF jobs[d][i].status = "running" THEN "running" ELSE "cancelled"
           job == [jobs[d][i] EXCEPT !.cancelled = TRUE, !.status = status]
           new == [jobs[d] EXCEPT ![i] = job]
<1>2. /\ jobs[d][i] \in JobTypes
      /\ Sound(d, doc[d], jobs[d], worker[d], LanguageOf(d))
      /\ doc[d] \in DocTypes /\ jobs[d] \in Seq(JobTypes) /\ worker[d] \in WorkerTypes
  BY DocumentTypes
<1>3. status \in Terminal \cup {"queued", "running"}
  BY DEF Terminal
<1>4. /\ job \in JobTypes /\ job.status = status /\ job.version = jobs[d][i].version
      /\ job.cancelled
  <2> HIDE DEF status
  <2> QED BY <1>2, <1>3 DEF JobTypes
<1>5. jobs' = [jobs EXCEPT ![d] = new]
  <2>1. jobs' = [jobs EXCEPT ![d][i].cancelled = TRUE, ![d][i].status = status]
    BY <1>1
  <2> HIDE DEF status
  <2> QED BY <1>2, <2>1, ExtractionTypes DEF JobTypes
<1> HIDE DEF job
<1>6. new \in Seq(JobTypes) /\ Changes(jobs[d], new, i, job)
  BY <1>2, <1>4, ChangedList
<1> HIDE DEF new
<1>7. Sound(d, doc[d], new, worker[d], LanguageOf(d))
  BY <1>2, <1>4, <1>6, CancelledSound
<1> QED BY <1>2, <1>5, <1>6, <1>7, WorkersUnchanged, JobsInv DEF CancelJob

LEMMA RetryInv ==
    ASSUME ExtractionInv, NEW d \in Docs, Retry(d), UNCHANGED <<roots, located>>
    PROVE  ExtractionInv'
<1>1. PICK i \in DOMAIN jobs[d] :
         jobs' = [jobs EXCEPT ![d] =
             Append([jobs[d] EXCEPT ![i].retried = TRUE], Queued(jobs[d][i].version))]
  BY ExtractionTypes DEF Retry
<1>2. /\ jobs[d][i] \in JobTypes
      /\ Sound(d, doc[d], jobs[d], worker[d], LanguageOf(d))
      /\ doc[d] \in DocTypes /\ jobs[d] \in Seq(JobTypes) /\ worker[d] \in WorkerTypes
  BY DocumentTypes
<1> DEFINE version == jobs[d][i].version
           job == [jobs[d][i] EXCEPT !.retried = TRUE]
           marked == [jobs[d] EXCEPT ![i] = job]
           new == Append(marked, Queued(version))
<1>3. /\ job \in JobTypes /\ job.version = version /\ job.status = jobs[d][i].status
      /\ job.attempts = jobs[d][i].attempts /\ job.cancelled = jobs[d][i].cancelled
      /\ version \in Nat
  BY <1>2 DEF JobTypes
<1>4. jobs' = [jobs EXCEPT ![d] = new]
  BY <1>1
<1> HIDE DEF job
<1>5. marked \in Seq(JobTypes) /\ Changes(jobs[d], marked, i, job)
  BY <1>2, <1>3, ChangedList
<1> HIDE DEF marked, version
<1>6. new \in Seq(JobTypes) /\ Extends(marked, new, version)
  BY <1>3, <1>5, LongerList
<1> HIDE DEF new
<1>7. Extends(jobs[d], new, version)
  <2>1. /\ Len(marked) = Len(jobs[d]) /\ DOMAIN marked = DOMAIN jobs[d]
    BY <1>2, <1>5, ListProperties DEF Changes
  <2>2. \A k \in DOMAIN jobs[d] :
           /\ marked[k].version = jobs[d][k].version /\ marked[k].status = jobs[d][k].status
           /\ marked[k].attempts = jobs[d][k].attempts
           /\ marked[k].cancelled = jobs[d][k].cancelled
    BY <1>3, <1>5 DEF Changes, version
  <2> QED BY <1>6, <2>1, <2>2 DEF Extends
<1>8. jobs[d] # << >>
  BY <1>1
<1>9. Sound(d, doc[d], new, worker[d], LanguageOf(d))
  BY <1>2, <1>3, <1>7, <1>8, RetriedSound
<1> QED BY <1>2, <1>4, <1>6, <1>9, WorkersUnchanged, JobsInv DEF Retry

LEMMA RemoveIndexInv ==
    ASSUME ExtractionInv, NEW d \in Docs, RemoveIndex(d), UNCHANGED <<roots, located>>
    PROVE  ExtractionInv'
<1>1. doc' = [doc EXCEPT ![d] = Removed(doc[d])] /\ UNCHANGED <<onDisk, language, jobs, worker>>
  BY ExtractionTypes DEF RemoveIndex
<1>2. /\ Sound(d, Removed(doc[d]), jobs[d], worker[d], LanguageOf(d))
      /\ Removed(doc[d]) \in DocTypes /\ Removed(doc[d]).version = doc[d].version
  BY DocumentTypes, RemovedSound
<1>3. /\ doc' \in [Docs -> DocTypes] /\ doc'[d] = Removed(doc[d])
      /\ \A e \in Docs \ {d} : doc'[e] = doc[e]
  BY <1>1, <1>2, ExtractionTypes
<1> QED BY <1>1, <1>2, <1>3, ExtractionTypes, OneDocument

\* The workers of a process that ends or begins.
LEMMA WorkersLost ==
    ASSUME ExtractionInv, worker' = [d \in Docs |-> NoWorker],
           UNCHANGED <<onDisk, language, doc, jobs, roots, located>>
    PROVE  ExtractionInv'
<1>1. NoWorker \in WorkerTypes
  BY NoWorkerTyped
<1>2. worker' \in [Docs -> WorkerTypes] /\ \A d \in Docs : worker'[d] = NoWorker
  BY <1>1
<1>3. OwnersStay
  BY DEF OwnersStay
<1>4. ASSUME NEW d \in Docs
      PROVE  Sound(d, doc'[d], jobs'[d], worker'[d], LanguageOf(d)')
  <2>1. LanguageOf(d)' = LanguageOf(d)
    BY DEF LanguageOf, OwnerOf
  <2>2. Sound(d, doc[d], jobs[d], NoWorker, LanguageOf(d))
    BY DocumentTypes, IdleSound
  <2> QED BY <1>2, <2>1, <2>2
<1> QED BY <1>2, <1>3, <1>4, ExtractionTypes, DocumentsSound DEF Docs

LEMMA RestartWorkersInv ==
    ASSUME ExtractionInv, RestartWorkers, UNCHANGED <<roots, located>>
    PROVE  ExtractionInv'
<1>1. NoWorker \in WorkerTypes
  BY NoWorkerTyped
<1>2. worker' \in [Docs -> WorkerTypes] /\ \A d \in Docs : worker'[d] = NoWorker
  BY <1>1 DEF RestartWorkers
<1>3. OwnersStay /\ UNCHANGED <<onDisk, language, doc>>
  BY DEF OwnersStay, RestartWorkers
<1>4. ASSUME NEW d \in Docs
      PROVE  /\ Sound(d, doc'[d], jobs'[d], worker'[d], LanguageOf(d)')
             /\ jobs'[d] \in Seq(JobTypes)
  <2>1. LanguageOf(d)' = LanguageOf(d)
    BY <1>3 DEF LanguageOf, OwnerOf
  <2>2. jobs'[d] = [i \in DOMAIN jobs[d] |-> Recovered(jobs[d][i])]
    BY DEF RestartWorkers
  <2>3. /\ Sound(d, doc[d], jobs'[d], NoWorker, LanguageOf(d))
        /\ jobs'[d] \in Seq(JobTypes)
    BY <2>2, DocumentTypes, RecoveredSound
  <2> QED BY <1>2, <1>3, <2>1, <2>3
<1>5. jobs' \in [Docs -> Seq(JobTypes)]
  BY <1>4 DEF RestartWorkers
<1> QED BY <1>2, <1>3, <1>4, <1>5, ExtractionTypes, DocumentsSound DEF Docs

-----------------------------------------------------------------------------
(* The content of the files, and the languages. *)

LEMMA EditInv ==
    ASSUME ExtractionInv, NEW f \in Files, Edit(f), UNCHANGED <<roots, located>>
    PROVE  ExtractionInv'
<1>1. onDisk' \in [Files -> 1 .. MaxContents] /\ UNCHANGED <<language, doc, jobs, worker>>
  BY ExtractionTypes DEF Edit
<1>2. OwnersStay
  BY DEF OwnersStay
<1> QED BY <1>1, <1>2, ExtractionTypes, DocumentsSound DEF Docs

LEMMA RenewedRow ==
    ASSUME NEW row \in DocTypes, NEW version \in Nat, NEW content \in 0 .. MaxContents
    PROVE  LET new == Renewed(row, version, content) IN
           /\ new \in DocTypes /\ new.version = version /\ new.freshness # "current"
           /\ new.shown = row.shown /\ new.deleted = row.deleted
<1> DEFINE freshness == IF row.indexed = NoText THEN None ELSE "stale"
<1>1. freshness \in {None, "stale", "current"} /\ freshness # "current"
  BY DEF None
<1>2. Renewed(row, version, content) =
         [row EXCEPT !.version = version, !.content = content, !.freshness = freshness]
  BY DEF Renewed
<1> HIDE DEF freshness
<1>3. Renewed(row, version, content) \in DocTypes
  BY <1>1, <1>2 DEF DocTypes
<1> QED BY <1>1, <1>2, <1>3 DEF DocTypes

LEMMA ScannedInv ==
    ASSUME RootsInv, ExtractionInv, NEW f \in Files, Scanned(f)
    PROVE  ExtractionInv'
<1>1. UNCHANGED <<onDisk, language, worker, roots>> /\ Observe(f)
  BY DEF Scanned, Ingest
<1>2. /\ \A g \in Files : located[g] # NoPlace => located'[g] = located[g]
      /\ located'[f] # NoPlace
  <2>1. f \in scan.todo /\ scan # NoScan
    BY DEF Scanned, Ingest, NoScan
  <2>2. scan.root # Nowhere
    BY <2>1, DirsArePaths DEF RootsInv, RootsTypeOK
  <2> QED BY <2>2, TypesOfRootsInv DEF Scanned, Ingest, NoPlace
<1>3. OwnersStay
  BY <1>1, <1>2 DEF OwnersStay
<1>4. f \in Docs /\ \A g \in Files : g \in Docs
  BY DEF Docs
<1>5. /\ doc[f] \in DocTypes /\ jobs[f] \in Seq(JobTypes) /\ worker[f] \in WorkerTypes
      /\ Sound(f, doc[f], jobs[f], worker[f], LanguageOf(f))
      /\ doc[f].version \in Nat
  BY <1>4, DocumentTypes DEF DocTypes
<1>6. CASE onDisk[f] # doc[f].content
  <2> DEFINE version == doc[f].version + 1
             row == Renewed(doc[f], version, onDisk[f])
             new == Append(jobs[f], Queued(version))
  <2>1. doc' = [doc EXCEPT ![f] = row] /\ jobs' = [jobs EXCEPT ![f] = new]
    BY <1>1, <1>6, ExtractionTypes DEF Observe
  <2>2. version \in Nat /\ version # 0 /\ onDisk[f] \in 0 .. MaxContents
    BY <1>5, ExtractionTypes, ExtractionAssumption
  <2> HIDE DEF version
  <2>3. /\ row \in DocTypes /\ row.version = version /\ row.freshness # "current"
        /\ row.shown = doc[f].shown /\ row.deleted = doc[f].deleted
    BY <1>5, <2>2, RenewedRow
  <2>4. new \in Seq(JobTypes) /\ Extends(jobs[f], new, version)
    BY <1>5, <2>2, LongerList
  <2> HIDE DEF row, new
  <2>5. row.shown => ~row.deleted
    BY <1>5, <2>3 DEF Sound, TextIsTrue
  <2>6. Sound(f, row, new, worker[f], LanguageOf(f)')
    BY <1>4, <1>5, <2>2, <2>3, <2>4, <2>5, RenewedSound
  <2>7. /\ doc' \in [Docs -> DocTypes] /\ doc'[f] = row
        /\ \A e \in Docs \ {f} : doc'[e] = doc[e]
    BY <1>4, <2>1, <2>3, ExtractionTypes
  <2>8. /\ jobs' \in [Docs -> Seq(JobTypes)] /\ jobs'[f] = new
        /\ \A e \in Docs \ {f} : jobs'[e] = jobs[e]
    BY <1>4, <2>1, <2>4, ExtractionTypes
  <2>9. \A g \in Files : doc'[g].version # doc[g].version => located'[g] # NoPlace
    BY <1>2, <1>4, <2>7
  <2>10. \A e \in Docs :
            \/ doc'[e] = doc[e] /\ jobs'[e] = jobs[e] /\ worker'[e] = worker[e]
            \/ Sound(e, doc'[e], jobs'[e], worker'[e], LanguageOf(e)')
    BY <1>1, <2>6, <2>7, <2>8
  <2> QED BY <1>1, <1>3, <2>7, <2>8, <2>9, <2>10, ExtractionTypes, DocumentsSound
<1>7. CASE UNCHANGED <<doc, jobs>>
  BY <1>1, <1>3, <1>7, DocumentsUnchanged DEF extractionVars
<1> DEFINE new == Append(jobs[f], Queued(doc[f].version))
<1>8. CASE UNCHANGED doc /\ Resumable(f) /\ jobs' = [jobs EXCEPT ![f] = new]
  <2>1. jobs[f] # << >>
    BY <1>8 DEF Resumable, OfVersion
  <2>2. doc[f].version # 0
    BY <1>5, <2>1 DEF Sound, UnknownIsEmpty
  <2>3. new \in Seq(JobTypes) /\ Extends(jobs[f], new, doc[f].version)
    BY <1>5, LongerList
  <2> HIDE DEF new
  <2>4. LanguageOf(f)' = LanguageOf(f)
    BY <1>1, <1>3, <1>4, <2>2, LanguageStays
  <2>5. Sound(f, doc[f], new, worker[f], LanguageOf(f))
    BY <1>4, <1>5, <2>1, <2>3, RetriedSound
  <2>6. /\ jobs' \in [Docs -> Seq(JobTypes)] /\ jobs'[f] = new
        /\ \A e \in Docs \ {f} : jobs'[e] = jobs[e]
    BY <1>4, <1>8, <2>3, ExtractionTypes
  <2>7. \A e \in Docs :
            \/ doc'[e] = doc[e] /\ jobs'[e] = jobs[e] /\ worker'[e] = worker[e]
            \/ Sound(e, doc'[e], jobs'[e], worker'[e], LanguageOf(e)')
    BY <1>1, <1>8, <2>4, <2>5, <2>6
  <2> QED BY <1>1, <1>3, <1>8, <2>6, <2>7, ExtractionTypes, DocumentsSound
<1> QED BY <1>1, <1>6, <1>7, <1>8, ExtractionTypes DEF Observe

\* A known document belongs to a library.
LEMMA KnownOwner ==
    ASSUME RootsInv, ExtractionInv, NEW d \in Docs, doc[d].version # 0
    PROVE  OwnerOf(d) \in Libs
<1>1. CASE d \in Uploads
  BY <1>1, ExtractionAssumption DEF OwnerOf
<1>2. CASE d \notin Uploads
  <2>1. d \in Files /\ located[d] # NoPlace
    BY <1>2 DEF Docs, ExtractionInv, PlacedOnceKnown
  <2>2. located[d].root \in Dirs /\ roots[located[d].root] # NoRoot
    BY <2>1, TypesOfRootsInv, RegisteredIsRoot DEF RootsInv, PlacesHold, Place
  <2> QED BY <1>2, <2>2, RevisionTyped DEF OwnerOf
<1> QED BY <1>1, <1>2

\* A document that was taken out of the index and is not current has no text to
\* be true and no work to be done.
LEMMA WithdrawnSound ==
    ASSUME NEW d, NEW row, NEW list, NEW call, NEW lang, Sound(d, row, list, call, lang),
           row.version # 0, row.deleted,
           NEW new, new.version = row.version, new.deleted, ~new.shown,
           new.freshness # "current", NEW other
    PROVE  Sound(d, new, list, call, other)
BY DEF Sound, UnknownIsEmpty, TextIsTrue, WorkIsLeft, OutcomeIsRight, Outdated

LEMMA SetLanguageInv ==
    ASSUME RootsInv, ExtractionInv, NEW l \in Libs, SetLanguage(l)
    PROVE  ExtractionInv'
<1>1. UNCHANGED <<onDisk, worker, roots, located>>
  BY DEF SetLanguage
<1> DEFINE other == CHOOSE o \in Languages : o # language[l]
<1>2. other \in Languages
  BY ExtractionTypes DEF Languages
<1>3. language' = [language EXCEPT ![l] = other]
  BY ExtractionTypes DEF SetLanguage
<1> HIDE DEF other
<1>4. /\ language' \in [Libs -> Languages]
      /\ \A m \in Libs \ {l} : language'[m] = language[m]
  BY <1>2, <1>3, ExtractionTypes
<1>5. ASSUME NEW d \in Docs
      PROVE  /\ doc'[d] \in DocTypes /\ doc'[d].version = doc[d].version
             /\ jobs'[d] \in Seq(JobTypes)
             /\ Sound(d, doc'[d], jobs'[d], worker[d], LanguageOf(d)')
  <2>1. /\ doc[d] \in DocTypes /\ jobs[d] \in Seq(JobTypes) /\ worker[d] \in WorkerTypes
        /\ Sound(d, doc[d], jobs[d], worker[d], LanguageOf(d))
    BY DocumentTypes
  <2>2. /\ jobs'[d] = Requeued(l, d)
        /\ doc'[d] = IF doc[d].indexed # NoText /\ OwnerOf(d) = l
                     THEN [doc[d] EXCEPT !.freshness = "stale"] ELSE doc[d]
    BY DEF SetLanguage
  <2>3. /\ doc'[d] \in DocTypes /\ doc'[d].version = doc[d].version
        /\ doc'[d].deleted = doc[d].deleted /\ doc'[d].shown = doc[d].shown
        /\ doc[d].indexed # NoText /\ OwnerOf(d) = l => doc'[d].freshness = "stale"
        /\ doc[d].indexed = NoText \/ OwnerOf(d) # l => doc'[d] = doc[d]
    BY <2>1, <2>2 DEF DocTypes
  <2>4. doc[d].version # 0 /\ doc[d].freshness = "current" => doc[d].indexed # NoText
    BY <2>1 DEF Sound, TextIsTrue, NoText
  <2>5. CASE doc[d].version = 0
    <3>1. doc'[d] = doc[d] /\ jobs'[d] = jobs[d]
      BY <2>1, <2>2, <2>3, <2>5 DEF Requeued, Live, Sound, UnknownIsEmpty
    <3> QED BY <2>1, <2>3, <2>5, <3>1, UnknownSound
  <2>6. CASE doc[d].version # 0 /\ OwnerOf(d) # l
    <3>1. doc'[d] = doc[d] /\ jobs'[d] = jobs[d]
      BY <2>2, <2>3, <2>6 DEF Requeued
    <3>2. LanguageOf(d)' = LanguageOf(d)
      <4>1. OwnerOf(d) \in Libs \ {l}
        BY <2>6, KnownOwner
      <4>2. OwnerOf(d)' = OwnerOf(d)
        BY <1>1 DEF OwnerOf
      <4> QED BY <1>4, <4>1, <4>2 DEF LanguageOf
    <3> QED BY <2>1, <2>3, <3>1, <3>2
  <2>7. CASE doc[d].version # 0 /\ OwnerOf(d) = l
    <3>1. doc'[d].freshness # "current"
      BY <2>3, <2>4, <2>7
    <3>2. CASE doc[d].deleted
      <4>1. jobs'[d] = jobs[d]
        BY <2>2, <3>2 DEF Requeued, Live
      <4>2. ~doc'[d].shown
        BY <2>1, <2>3, <3>2 DEF Sound, TextIsTrue
      <4> QED BY <2>1, <2>3, <2>7, <3>1, <3>2, <4>1, <4>2, WithdrawnSound
    <3>3. CASE ~doc[d].deleted
      <4>1. jobs'[d] = Append(jobs[d], Queued(doc[d].version))
        BY <2>2, <2>7, <3>3 DEF Requeued, Live
      <4>2. /\ jobs'[d] \in Seq(JobTypes)
            /\ Extends(jobs[d], jobs'[d], doc'[d].version)
        BY <2>1, <2>3, <4>1, LongerList DEF DocTypes
      <4>3. Sound(d, doc'[d], jobs'[d], worker[d], LanguageOf(d)')
        BY <2>1, <2>3, <2>7, <3>1, <3>3, <4>2, RenewedSound
      <4> QED BY <2>3, <4>2, <4>3
    <3> QED BY <3>2, <3>3
  <2> QED BY <2>5, <2>6, <2>7
<1>6. doc' \in [Docs -> DocTypes] /\ jobs' \in [Docs -> Seq(JobTypes)]
  BY <1>5 DEF SetLanguage
<1>7. ExtractionTypeOK'
  BY <1>1, <1>4, <1>6, ExtractionTypes DEF ExtractionTypeOK, JobTypes, DocTypes, WorkerTypes
<1>8. PlacedOnceKnown'
  BY <1>1, <1>5 DEF PlacedOnceKnown, ExtractionInv, Docs
<1> QED BY <1>1, <1>5, <1>7, <1>8 DEF ExtractionInv

-----------------------------------------------------------------------------
(* The roots: a document stays in its library. *)

LEMMA LibsStay ==
    ASSUME RootsInv, UNCHANGED located, \A d \in Dirs : roots'[d].lib = roots[d].lib
    PROVE  OwnersStay
BY TypesOfRootsInv DEF OwnersStay, Place

LEMMA RetireRootInv ==
    ASSUME RootsInv, ExtractionInv, NEW r \in retirements, RetireRoot(r)
    PROVE  ExtractionInv'
<1>1. UNCHANGED <<onDisk, language, jobs, worker, located>>
  BY DEF RetireRoot, Retire
<1>2. OwnersStay
  BY <1>1, TypesOfRootsInv, LibsStay DEF RetireRoot, Retire, RootTypes
<1>3. CASE UNCHANGED doc
  BY <1>1, <1>2, <1>3, DocumentsUnchanged DEF extractionVars
<1>4. CASE doc' = [d \in Docs |->
              IF d \in References(r.root) THEN Removed(doc[d]) ELSE doc[d]]
  <2>1. ASSUME NEW d \in Docs
        PROVE  /\ doc'[d] \in DocTypes /\ doc'[d].version = doc[d].version
               /\ Sound(d, doc'[d], jobs[d], worker[d], LanguageOf(d)')
    <3>1. /\ doc[d] \in DocTypes /\ jobs[d] \in Seq(JobTypes) /\ worker[d] \in WorkerTypes
          /\ Sound(d, doc[d], jobs[d], worker[d], LanguageOf(d))
      BY DocumentTypes
    <3>2. /\ Sound(d, Removed(doc[d]), jobs[d], worker[d], LanguageOf(d))
          /\ Removed(doc[d]) \in DocTypes /\ Removed(doc[d]).version = doc[d].version
      BY <3>1, RemovedSound
    <3>3. doc'[d] = Removed(doc[d]) \/ doc'[d] = doc[d]
      BY <1>4
    <3>4. /\ doc'[d] \in DocTypes /\ doc'[d].version = doc[d].version
          /\ Sound(d, doc'[d], jobs[d], worker[d], LanguageOf(d))
      BY <3>1, <3>2, <3>3
    <3> QED BY <1>1, <1>2, <3>4, LanguageStays, UnknownSound
  <2>2. doc' \in [Docs -> DocTypes]
    BY <1>4, <2>1
  <2>3. \A f \in Files : doc'[f].version = doc[f].version
    BY <2>1 DEF Docs
  <2> QED BY <1>1, <1>2, <2>1, <2>2, <2>3, ExtractionTypes, DocumentsSound
<1> QED BY <1>3, <1>4 DEF RetireRoot

LEMMA ConfirmRootOwners ==
    ASSUME RootsInv, NEW p \in DOMAIN plans, ConfirmRoot(p)
    PROVE  OwnersStay
<1> DEFINE plan == plans[p]
<1>1. plan \in PlanTypes
  BY TypesOfRootsInv, LenProperties, ElementOfSeq
<1>2. plan.dir \in Dirs /\ plan.dir # Nowhere
  BY <1>1, DirsArePaths DEF PlanTypes
<1>3. /\ \A r \in plan.related : roots[r].lib = plan.lib
      /\ plan.relation = Relation(plan.dir) /\ plan.relation \in {"distinct", "ancestor"}
      /\ roots' = [r \in Dirs |->
           IF r = plan.dir
           THEN [status |-> "active", lib |-> plan.lib, source |-> plan.source,
                 revision |-> 1, replaced |-> FALSE]
           ELSE IF r \in plan.related
           THEN [roots[r] EXCEPT !.status = "superseded", !.replaced = TRUE,
                                 !.revision = @ + 1]
           ELSE roots[r]]
      /\ located' = [f \in Files |-> Replanted(located[f], plan.dir, plan.related)]
  BY DEF ConfirmRoot, Unchanged, OwnOverlaps
<1>4. ~Registered(plan.dir)
  BY <1>3 DEF Relation
<1> HIDE DEF plan
<1> SUFFICES ASSUME NEW f \in Files, located[f] # NoPlace
             PROVE  /\ located'[f] # NoPlace
                    /\ roots'[located'[f].root].lib = roots[located[f].root].lib
  BY DEF OwnersStay
<1>5. /\ located[f].root \in Dirs /\ located[f].root # plan.dir
  BY <1>4, TypesOfRootsInv DEF RootsInv, PlacesHold, Place
<1>6. CASE located[f].root \in plan.related
  <2>1. located'[f].root = plan.dir /\ located'[f] # NoPlace
    BY <1>2, <1>3, <1>6 DEF Replanted, NoPlace
  <2>2. roots'[plan.dir].lib = plan.lib
    BY <1>2, <1>3
  <2> QED BY <1>3, <1>6, <2>1, <2>2
<1>7. CASE located[f].root \notin plan.related
  <2>1. located'[f] = located[f]
    BY <1>3, <1>7 DEF Replanted
  <2>2. roots'[located[f].root] = roots[located[f].root]
    BY <1>3, <1>5, <1>7
  <2> QED BY <2>1, <2>2
<1> QED BY <1>6, <1>7

\* The other steps on roots do not write their library.
LEMMA OwnersKept ==
    ASSUME RootsInv,
           \/ \E l \in Libs, d \in Dirs, source \in Sources : PlanRoot(l, d, source)
           \/ \E v \in Views, d \in Dirs : AddView(v, d)
           \/ \E d \in Dirs, enabled \in BOOLEAN : ConfigureRoot(d, enabled)
           \/ \E l \in Libs : Extend(l)
           \/ \E d \in Dirs : \E impact : RetirementPlan(d, impact)
           \/ \E d \in Dirs : BeginScan(d)
           \/ EndScan \/ AbandonScan \/ LoseScan
    PROVE  OwnersStay
<1>1. UNCHANGED located
  BY DEF PlanRoot, AddView, ConfigureRoot, Extend, RetirementPlan, BeginScan, EndScan,
         AbandonScan, LoseScan
<1>2. CASE UNCHANGED roots
  BY <1>1, <1>2 DEF OwnersStay
<1>3. ASSUME NEW d \in Dirs, ConfigureRoot(d, TRUE) \/ ConfigureRoot(d, FALSE)
      PROVE  OwnersStay
  <2>1. PICK status \in {"active", "disabled"} :
           roots' = [roots EXCEPT ![d].status = status, ![d].revision = @ + 1]
    BY <1>3 DEF ConfigureRoot
  <2>2. roots \in [Dirs -> RootTypes]
    BY TypesOfRootsInv
  <2>3. \A e \in Dirs : roots'[e].lib = roots[e].lib
    BY <2>1, <2>2 DEF RootTypes
  <2> QED BY <1>1, <2>3, LibsStay
<1>4. CASE EndScan \/ LoseScan
  <2>1. \/ UNCHANGED roots
        \/ \E status \in {"active", "inaccessible"} :
              roots' = [roots EXCEPT ![scan.root].status = status]
    BY <1>4 DEF EndScan, LoseScan
  <2>2. roots \in [Dirs -> RootTypes]
    BY TypesOfRootsInv
  <2>3. ASSUME NEW status \in {"active", "inaccessible"},
               roots' = [roots EXCEPT ![scan.root].status = status]
        PROVE  \A e \in Dirs : roots'[e].lib = roots[e].lib
    BY <2>2, <2>3 DEF RootTypes
  <2> QED BY <1>1, <1>2, <2>1, <2>3, LibsStay
<1> QED BY <1>2, <1>3, <1>4 DEF PlanRoot, AddView, Extend, RetirementPlan, BeginScan,
                                AbandonScan
=============================================================================
