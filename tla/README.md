# Verification of the document manager (AIBID, `gestor-documental`)

TLA+ models of the part of the program that works unattended, TLC
configurations that check them on small instances, and TLAPS proofs of the
properties that matter most for every size of the instance. Paths are relative
to the root of the repository; `libraries/` stands for `internal/libraries/`.

| module | models | TLC | TLAPS |
|---|---|---|---|
| `JobQueue` | the persistent job queue | `JobQueueFiles`, `JobQueueRoots` | `JobQueue_proofs` |
| `JobRequests` | abstract: what the queue promises of a request | property of `JobQueueRoots` | refinement in `JobQueue_proofs` |
| `ContentLanes` | native and OCR workers, their slots, their channel, their snapshots | `ContentLanes` | `ContentLanes_proofs` |
| `Materialization` | definitive storage of one managed document | `MaterializationStore`, `...Restart`, `...Sweep` | `Materialization_proofs` |
| `ManagedPublication` | abstract: what that storage promises | property of `MaterializationStore` | refinement in `Materialization_proofs` |
| `Reconciliation` | how the catalogue of a linked root follows its directory: watcher, marks, walk | `Reconciliation`, `ReconciliationLive`, `ReconciliationLinks` | `Reconciliation_proofs` |
| `LicenseClient` | licence, clock, identity and provider | `LicenseClient` | `LicenseClient_proofs` |
| `StorageRoots` | roots, views and the places of files | in `Library` | `StorageRoots_proofs` |
| `Extraction` | versions, languages, text and its publication | in `Library` | `Extraction_proofs` |
| `UploadJournal` | receiving a file, and undoing it | in `Library` | in `Library_proofs` |
| `Library` | the three composed, over one database and one process | `Library` | `Library_proofs` |
| `ReaderPool` | the connections of the database and who waits for them | `ReaderPool` | |
| `MCJobQueue`, `MCContentLanes`, `MCMaterialization`, `MCReconciliation`, `MCLicenseClient`, `MCLibrary` | instances | | |

To run: `tlc -config JobQueueFiles.cfg MCJobQueue`, `tlapm JobQueue_proofs.tla`,
and so on. The longest run takes about three minutes with two workers.


## 1. The system

One Go process serves an HTTP API to a browser client and works in the
background on document libraries. It holds a lock on its state directory
(no second process), one SQLite database with **one** writer connection, every
write a `BEGIN IMMEDIATE` transaction, and four reader connections
(`internal/storage/database.go`), and the files: *linked* roots, which it only
reads; *managed* roots, where it stores approved documents; and a private
directory with uploads and snapshots.

    HTTP API -> identity -> libraries ---- SQLite (1 writer, 4 readers)
                                |   \----- linked / managed roots, private files
    fsnotify -> watcher --------|
    scheduler (tick) -----------+--> jobs --> 8 content workers --> channel --> 4 OCR workers
                                          \-> 1 scan worker
    licensing client (own clock, own journal) -> what the library may do

Actors that interleave: any number of users; the scheduler; the watcher; 13
workers; one cancellation monitor for each operation; the licence, which can
change between any two transactions; other programs that write in the roots; and
the end of the process, orderly or not.

### Components

| component | state | operations | interacts with | hard behaviour | what makes it correct |
|---|---|---|---|---|---|
| **Job queue** `libraries/runtime.go`, `job_control.go` | `jobs`, `job_controls`, `root_scan_controls`, `job_attempts` | enqueue, claim, finish, licence pause and successor, cancel, retry, recover | everything that works in the background | control row read outside the finishing transaction; a job revoked under its worker; leases that expire only on paper | one worker per job, budgets, linear continuations, terminal means final, every job ends |
| **Content lanes** `ocr_workers.go`, `runtime.go`, `processing_configuration.go` | two slot counters, a bounded channel, private snapshots, effective limits | acquire, release, hand over, take, complete, close, start | queue, settings, extraction | settings read before the mutex; blocked senders at close; starvation of OCR | counters equal the workers at work; limits; no task lost or held twice; no snapshot orphaned; OCR served; close ends |
| **Definitive storage** `materialization.go` | journal `materializations`, managed directory, private copy | copy, link, synchronise, record, commit, clean | workflow, queue, roots, licence, outsiders | four separate effects; a crash, a power cut or an outsider between any two | bytes never lost, nothing replaced, approval only with bytes and authority |
| **Workflow** `workflow.go`, `workflow_queries.go`, `classification.go` | approval state, revision, reviews | classify, submit, reject, approve, finalize, cancel | storage, retention | content verified outside the deciding transaction | a decision is about the bytes that were verified |
| **Retention and integrity** `managed_integrity.go` | upload expiry, file availability, root status | sweep of expired uploads, verification of a managed root | workflow, storage | an unlink inside a transaction cannot be rolled back | no open document without bytes |
| **Reconciliation** `scanner.go`, `scan_cache.go` | `root_scans` with a checkpoint, locations, absence marks | scan, resume, infer absence, ingest | queue, watcher | walk that is resumed, partial or superseded | absence only from a complete walk |
| **Watcher** `watcher.go` | dirty paths, degraded roots, loss generations | register, debounce, barrier scan | reconciliation | events lost while a scan runs | a loss is acknowledged only by a full scan begun after it |
| **Extraction** `extraction.go`, `scanner.go`, `documents.go` | versions, freshness, indexed text, languages | prepare, publish, remove, cancel, retry, resume, change of languages | lanes, queue, roots, uploads | version, languages, root or document change while the text is read | what the index calls current is current; what is not has work |
| **Uploads** `uploads.go` | journal rows, `.part` and definitive files | upload, replay, undo, recover | extraction, retention | rename before the registering transaction; a cleanup that fails silently | a row with its file or neither; a client that was told of success has it |
| **Roots** `roots.go`, `folders.go`, `documents.go` | `storage_roots`, plans, views, places of files | plan, confirm with consolidation, configure, retire | queue, storage, extraction, scans | a plan confirmed after others; a scan under a consolidation or a retirement | no root inside another; places keep naming the same files; only what was shown is retired |
| **Licence client** `internal/licensing` | `license_state`, floors, journal of requests, identity files | online requests, renewal loop, import, export, recovery | provider, every write | clock set back, answers lost or late, recovery interrupted | monotone clock and floors; a lapsed right does not return; a seat is never stranded |
| **Library licence checks** `license.go`, `internal/licensing/policy.go` | none | pure decisions | queue, storage | | |
| **Identity** `internal/identity` | users, sessions, permissions | login, change, revoke | every authorised write | permission lost while an operation runs | authority at commit |
| **Database** `internal/storage` | schema, connections | migrate, back up, write | all | nested readers in a pool of four | atomic writes |
| Catalogues, cases, settings, duplicates, search (but for its connections), audit, API, configuration, network, launcher, maintenance, client | rows or none | CRUD, queries | | little: one transaction each | |

The hazards of this code, each at the line where it bites and with the
properties that watch it, are listed under `hazards` in `PROJECT.json`.


## 2. JobQueue

*State.* `job` is a row of `jobs` joined with its `job_controls`; `holder` what
each worker has in hand (`Job` of `runtime.go:13`, the cause of its outcome, how
far it is); `attempt` the rows of `job_attempts`; `rootPaused` is
`root_scan_controls`; `withdrawn` the cancelled uploads; `licence` the state of
the installed licence.

*Actions.* Each write transaction is one step (one writer connection). What a
worker does between transactions is a step of its own, so anything can come
between *the operation ended*, *the control row was read* (`runtime.go:432`) and
*the outcome was recorded*.

| action | code |
|---|---|
| `EnqueueExtract`, `ScheduleRoot`, `Verify`, `RetryScanErrors`, `Retry` | `ingest`, `scheduleOnce`, `Verify`, `RetryScanErrors`, `Retry` |
| `Claim`, `ClaimNothing` | `claimLane`, with the loop that pauses the candidates the licence blocks |
| `Publish`, `Fail` | the operation ends well (for an extraction: the guards of `publish`) or with a cause |
| `ReadControl`, `Finish`, `FinishStale`, `FinishBlocked`, `FinishLost` | end of `worker` and `completeTask`; `finish` with the lease, without it, with a licence error, and when its transaction fails |
| `CancelJob`, `CancelUpload` | the user, on a waiting or a running job; the withdrawal of an upload revokes the job under its worker |
| `BecomeDue`, `ChangeLicence`, `Restart` | time, the licence, the end of the process and `recoverJobs` |

The order of claims (`created_at, id`) is abstracted, and with it the limit of 64
candidates that a claim looks at (`runtime.go:290`): any claimable job of the lane may
be claimed, so that 64 blocked candidates in front of one that is not are not a subject.
`ScheduleRoot` looks at the pause and the licence in the step that inserts; the code
reads both before its transaction (`runtime.go:203`, `:209`), so a request may be inserted
for a root paused a moment ago, and waits. No property rests on that.
An orderly `Close` leaves the same rows as a crash (`runtime.go:426`), so one
`Restart` stands for both.

*Runs.*

| run | instance | shows |
|---|---|---|
| `queue_files` | 1 file, 2 content holders, 3 rows, 2 attempts, 1 restart, licence complete or without OCR; holders symmetric; 2 586 247 states | `WaitingHasBudget`, `HeldOnce`, `AttemptsAreTrue`, `LinearChains`, `TerminalIsFinal` |
| `queue_roots` | 1 linked root, scan worker, 3 rows, 2 attempts, 1 restart, 1 lost finish, licence complete or expired; 598 171 states | `ExclusiveTargets`, `RunningIsHeld`, `EveryJobEnds`, and that the rows implement `JobRequests` |

`ExclusiveTargets` speaks of roots here, the instance having no file; one running job
per file is in the theorem `TargetsAreExclusive` alone.

`AttemptsAreTrue` joins two things: the open rows of `job_attempts` are those of the
workers at work, and their number along a chain is what `attempt_count` charged.

*Why the bounds are enough.* Three rows hold a job, its licence successor and a
manual retry that competes with it, which is every shape of a chain the code
can grow in one step; two attempts separate the last attempt from the others;
two holders are two workers with the same job in mind, one of which lost its
lease. `Spare` keeps a row free for each successor still possible, so that no
outcome is blocked by the bound itself. The proofs have no bounds.

*Abstraction.* `JobRequests` says what a user may expect of one request: it
waits or runs until it is done, starts at most `Budget` times, gives its attempt
back when the licence interrupts it, and once done is never taken up. The
queue keeps this with **several** rows: a pause cancels the row and inserts a
successor with what is left of the budget. The end of `JobQueue` gives the mapping: the
rows of a request are the smallest set that holds its job and every successor of one of
them (`Carries`), and the request is in the state of the one nothing continues (`Last`).
TLC checks the implementation on the instance, and it is proved (section 9).

*Fairness.* The workers' tickers run for ever and every operation runs under a
timeout or a context (`runtime.go:341`, `:362`, `extraction.go:44`); waiting times
elapse. So each worker's claim, end, control read and finish are weakly fair,
worker by worker. Requests, users, the licence and restarts are free.
`EveryJobEnds` assumes the licence stays complete from some point on: without
it a job legitimately waits paused.


## 3. ContentLanes

`JobQueue` only says that a claimed extraction lives in some holder. This module
says in which, who has a slot meanwhile, and who removes the private snapshot.

*State.* The worker goroutines (`native`, `ocr`: how far each is, its task and the
settings it read), the counters `nativeActive` and `ocrActive`, the channel
`queue` with its `capacity`, the effective `settings`, the jobs `claimed` by this
process, those whose context is `cancelled`, the `snapshots` on disk.

*Actions.* A section under `contentMutex` is one step. The settings are read
before it (`ocr_workers.go:20`), so `NativeAsks` and `NativeAcquires` are two
steps, and so for OCR. A native worker claims, takes its snapshot, and either
ends the operation itself or releases the slot, joins the channel and goes
on when the send went through (`HandOver`, `HandedOver`). The channel is a buffer
followed by its blocked senders, as in the Go runtime: a task past `capacity` is
a sender that waits, and only such a sender can give up (`GiveUpHanding`, the
other case of the `select`). Where both cases are ready, as for a worker that
has not sent yet, either may be chosen. `Close` cancels, waits for all workers,
then drains the channel; `Crash` leaves only the snapshots; `Start` removes
them and makes a channel for the settings of that moment. Claiming needs no rows
here: the queue may offer any job nobody has.

The jobs are two names, used again when nobody has them in hand. A worker that is
idle when the process closes counts as returned.

*Run* `lanes`: 2 native and 2 OCR workers, 2 jobs, limits (1,1,1) and (2,2,2) with
one change between them, one end of the process, one place in the channel for each
OCR worker (the code has two); 187 380 states.

* `SlotsBounded`: the counters are the workers between `acquireContent` and
  `releaseContent`, and these respect the limits of *some* settings. The settings in
  force at the moment is not what the code promises: it interrupts nobody when they
  shrink (`docs/REVISION-R4.md`).
* `TasksHeld`: a claimed job is with a native worker, in the channel or with an OCR
  worker, and nowhere twice, also when a hand-over is cancelled; every snapshot has
  such a task, so whoever ends the task removes it.
* `OcrServed`: a waiting task is taken. It needs the reservation of one slot
  (`ocr_workers.go:38`): without it TLC finds native work that always gets there
  first.
* `CloseCompletes`: an orderly close ends, also with native workers blocked on a full
  channel that nobody reads any more, and leaves no snapshot behind.

*Bounds.* Two workers of each lane let them compete within and across lanes; with
capacity 1 or 2 and two jobs, a full channel with a blocked sender occurs
(limits (1,1,1)); the changed settings meet workers that read the old ones.

*Fairness.* Each worker is weakly fair (it ticks, its operations end under
timeouts of an hour), and so is the drain. Claims are included: a worker with a
slot goes on, with a job or without. Cancellations, changes, closes and starts
are free.

*A limit of the code, not an assumption of the model:* with an effective total of
1, which `Recommend` gives when the memory is unknown, no slot can be reserved
and nothing guarantees that the OCR worker ever acquires one while native work
keeps coming; only the timing of the tickers (150 against 300 ms) makes it
likely. `OcrServed` therefore has `total > 1` as its hypothesis.


## 4. Materialization

*State.* One document with its upload and review (`document`, `temp`, `checked`),
the journal row `op`, the latest `job` of the operation, the managed `root`, the
managed directory: `entry` as the processes see it and `durable` as the disk has
it, the bytes of each inode (`content`, `flushed`), the `worker`, the `licence`
and whether the approver is still `permitted`.

*Actions.* Each transaction and each operation on a file or a directory is a
step: copy, flush, verify, link without replacement, synchronise the directory,
identify, record, reopen, commit, remove the private copy, remove the
partial, seal. The user submits, rejects, classifies, cancels, approves and
retries; the retention sweep removes expired uploads. Faults: an end of the
process; a power cut, which keeps of the unsynchronised names and bytes
any subset; a finish that fails; a disk error; a new plan of the root or a root
that cannot be reached; an outsider who places, alters or removes the definitive
file; a sweep that does not commit after its unlink.

The sweep unlinks inside its transaction (`managed_integrity.go:227`), and what follows may
fail in two ways. `SweepInterrupted` is the end of the process, which also ends every
decision in flight. `SweepRolledBack` is an UPDATE, the event or the commit that fails
while the process goes on (`:230-239`): the rows are as before, the revision is not bumped,
so a decision that verified the bytes still counts them as verified, and the copy is
gone. `mislaid` remembers it.

An error of the disk ends the attempt with the code of the call that fails. Those of the
flush, the link and the removal of the partial are retried (`runtime.go:468`), that of the
removal of the private copy is not, and elsewhere both are possible (`DiskFails`).

`CheckContent` (the digest before a decision) and the decision are two steps;
the revision binds them (`checked`). The lease test
(`checkMaterializationLease`) is not a branch of its own: it cannot fail while
the worker lives, which is part of what `RowsAgree` checks.

*Runs.*

| run | faults | shows |
|---|---|---|
| `storage_faults` | 3 of power, sweep, finish, io, root, outside; 1 289 012 states | `RowsAgree`, `BytesSurvive`, `NeverReplaced`, `CommitIsAuthorised`, `ApprovalSettles`; implements `ManagedPublication` |
| `storage_restart`, `storage_sweep` | 1 restart; 1 sweep that does not commit | violations, see section 10 |

`RowsAgree`: the journal, the document, the job and the worker tell one story.
`BytesSurvive`: a document that is being stored or is approved has its bytes, in the
private copy or under its definitive name, and once the private copy is dropped they are
on the disk. It has two exceptions, each with a history variable of its own. `struck` is
what nobody can prevent, an outsider who touches the file after its last verification.
`mislaid` is half of the disagreement of `storage_sweep`: a document may be decided over
a copy that a rolled-back sweep had taken, and then has no bytes. `Accepted` leaves it out
while it waits and not once it is approved, so `BytesSurvive` still says that
no approval is ever committed without bytes.
`ManagedPublication` names the same exception as a step, `Mislay`: a discard whose record
is undone. What it forbids is to decide without a verification, and to publish,
approve or release without what each of these needs.

*Bounds.* Three faults are a crash, a second one during the recovery, and a
disturbance from outside. Two attempts separate the last from the others. The four
inodes are two copies of the worker and two of an outsider; an operation that
would need a fifth waits, in runs whose faults are already used up by then.
In `storage_faults` the process ends by power cuts, which includes losing
nothing; a plain restart on a machine that stays up is the first finding, and is
checked in a run of its own so that the others say something beyond it.

*Fairness.* `WF(ClaimJob)` and `WF(WorkerStep)`: a content worker polls and goes
on with what it started. No user, sweep or repair is owed: `ApprovalSettles`
ends in a stored document or in a job the user can retry.


## 5. Reconciliation

*State.* The world: `disk` (the file at each path), `folders`, the `content` of each
file. The native watcher: the directories it has `armed`, its queue of `events`, an
`overflow` not yet reported. The memory of `Runtime`: `directories` (what it
believes watched), `dirty`, `degraded`, `initialized`, and how far a `tick` of
the scheduler is. The rows: `root` with its pause and its generations of loss, the
active `request`, the last `scan` with its checkpoint and scope, `errors`,
`location`, `primary`, `availability`, `recorded`. The scan worker: `walk`. `used`
counts what the bounds allow; `ghost` keeps the history the properties speak of
and no action reads it.

| action | code |
|---|---|
| `WriteFile`, `RemoveFile`, `AddFolder`, `RemoveFolder` | other programs; the event fits in the queue, is discarded, or nobody hears it |
| `HandleEvent`, `EventsLost` | `handleWatchEvent`, `eventsLost` |
| `TakeMarks`, `Enqueue`, `Unwatch` | `scheduleOnce`: registers the root and copies the marks; the transaction, and the marks it clears; the watches of roots that are not active |
| `Claim`, `BeginScan`, `NextEntry`, `ReadFolder`, `Observe`, `Ingest`, `LeaveEntry`, `CloseScan`, `Finish` | the scan worker, `Scan`, `scanOne`, `ingest`, and what the worker writes afterwards |
| `WatchRefused`, `PathFails`, `RootFails`, `Interrupt` | a watch the system refuses; `scanPathError`; `scanError`; `monitorCancellation` |
| `Cancel`, `Verify`, `RetryScanErrors`, `ConfigureRoot`, `Restart` | the user, and the end of the process with `recoverJobs` |

Each call of the file system and each transaction is a step, so a directory changes
between its registration and its listing, a file between its observation and its
row, the marks between their copy and their clearing. The request is the one active
request of the root, which `JobQueue` shows to be unique (`ExclusiveTargets`).

*Abstraction.* The order of the queue of a walk is left open. The cache of hashes
(`scan_cache.go`) is taken to answer what a reading would; that size and time of
modification identify a content is the code's assumption. A root that fails is always
made inaccessible and its request tried again (`RootFails`), where `scanError` leaves it
active, or fails for good, on some codes (`scanner.go:424-427`); `ghost.intact` ends
either way. `Unwatch` asks again whether the root is active, and `TakeMarks` writes the
watch mode in one step, where the tick decides both by rows it read at its start
(`runtime.go:196-212`, `:239`, `:275-284`). `handleWatchEvent`
forgets a directory and marks the path in two critical sections, and
`eventsLost` writes and then marks: here they are one step, since the second part
uses nothing that may change in between and the event is unhandled until then.
Time is left out: debounce and interval let a step happen and force none. The
system announces a change under the name it was made through, so `WriteFile`
changes a content in place only while the file has one name.

*Runs.*

| run | instance | shows |
|---|---|---|
| `catalogue_walk` | a file in the root, one in a directory; 2 changes, 1 failure, restart or user request, 2 attempts; 5 266 456 states | `QuietMeansSynced`, `AcknowledgedMeansSeen`, `SteadyIsNotRetired` |
| `catalogue_follows` | a directory and its file; 2 changes, 1 failure, restart or user request; 735 080 states | `FollowsDisk` |
| `catalogue_links` | two names in the root, two files, 1 change | a violation, see section 10 |

* `QuietMeansSynced` has two parts. `QuietMeansSeen`: with no event, mark, tick or
  request left, every directory watched, no error listed, and no request given up and no
  watch refused or taken off since the last full walk began, whatever is on disk is in
  the catalogue with its present content. This is what the barrier walk, registering before listing, and the
  comparison of `dirtyAt` before the marks are cleared are for.
  `QuietMeansGone`: then nothing that is gone from disk is in the catalogue either, if
  that walk confirmed absences and left no mark astray (`Astray`, below).
* `AcknowledgedMeansSeen`: `ghost.unsaid` are the paths whose last change the
  queue discarded, `ghost.dropped` those of reported losses. A recovered
  generation leaves none of the latter, also if the walk that
  recovers it was begun before the loss and resumed after a restart.
* `SteadyIsNotRetired`: the last transaction of a walk retires nothing that was in
  its place all along, whatever failed, was resumed or was handled meanwhile.
* `FollowsDisk`: the same as an outcome that is reached, not only consistent.

*Bounds.* A queue of one event and a set of one marked path make overflow and the
widening of marks to a full walk frequent. Two changes are a change during
the walk that the first one asked for; the initial walk is always there. One
incident is a failure, a restart or a request of the user at any point. Larger
instances were explored while the module was written: three changes without
incidents on the two paths, and three changes with one incident of any kind on one
path (6 M states), without a violation.

*Hypotheses that are not decoration.* `Watched` is needed: a root disabled and enabled
again keeps no watch but that of its own directory (`runtime.go:280`), and a directory
whose removal was discarded stays in `directories`; changes below are then seen by the
periodic walk only. `ghost.intact` ends with a refused watch: a directory that could not
be registered and is later, by a walk of something else, has had changes nobody heard.
`Astray` in `QuietMeansGone`: a mark may outlive the directory it is in (marks are kept
while a root is paused, `runtime.go:267-271`; an overflow may be handled before the events
that wait, `runtime.go:165-170`). If the directory is made again, the partial walk of that
mark records a file before the directory is registered, and its removal in between is
heard by nobody. The periodic walk repairs it. `used.calm` in `FollowsDisk` excludes
failures and user requests: a partial result is not tried again and a cancelled root is
paused, both on purpose.

*Fairness.* Weak fairness of the goroutines: `HandleEvent`, `EventsLost`, `Enqueue`,
the scan worker, and the tick *without* the interval having elapsed
(`TakeMarks(FALSE, FALSE)`). So the periodic walk, which would repair anything, is
possible and never owed.


## 6. LicenseClient

*State.* Two clocks: `now`, the provider's, and `wall`, the machine's, which somebody
may set. The service that runs (`process`, with the identity it loaded and its
`lastEffective`); the rows `license_state` (`row`), `license_revision_floors`
(`floor`), `license_operations` (`op`) and `license_installation` (`anchor`); the
files of the identity and of its recovery (`disk`); the one `call` that
`operationMutex` admits; the `wire`; and the provider: its `seat`s, its `challenge`s,
the answers it repeats (`cached`), the offline requests (`slips`) and the `.lic`
`files`. The provider is external: its protocol is what
`internal/licensefixture/mock.go` answers.

| action | code |
|---|---|
| `Status`, `ObserveClock` | `effectiveTime` with and without its record |
| `Online`, `AutoRefresh`, `ProviderChallenges`, `Prepare`, `AnswerStep`, `GiveUp` | `Online` and `Run`: a retry sends the journalled bytes again, a new request asks for a challenge, is journalled and then sent |
| `Import`, `OfflineRequest` | `Import`, which ends in `acceptLicense` like an online answer, and `OfflineRequest`, the file for the provider |
| `ProviderStep`, `ProviderIssues`, `Revise`, `ChallengeExpires` | the provider: replay by identifier, execution, refusal, revisions and revocations |
| `CreateIdentity`, `Start`, `Restart`, `Stop`, `LoseIdentity` | the installation files and the service around them |
| `RecoverIdentity` | `RecoverIdentity`, a step for each file and for the transaction, so that it may stop between any two and be run again |

Nothing orders the wire: a request arrives late, more than once or never, and an
answer may be given up by its call while the provider keeps it.

*Run* `licence`: two installations, two seats, two requests, the instants 0 and 1, and
two incidents among a clock that is set, an identity that is lost, a revision and
an offline exchange; 434 094 states.

* `ClockNeverGoesBack`: the two recorded marks never decrease, nor does the time
  by which a living process judges.
* `RightsDoNotReturn`: a right to write that lapsed comes back only with another
  licence. Across a restart this holds if the clock had been recorded, which the loop
  does once a minute and every acceptance does.
* `FloorsHold`, `CurrentIsAccepted`: no lower revision is accepted, no seat that was
  deactivated is accepted again, and the licence in use is the one its floor
  remembers and belongs to the anchored installation.
* `SeatIsReachable`: a lost answer strands no seat: the journal repeats the
  request or a file of the provider still brings it. Without the identifier being
  kept, TLC finds the seat taken by a licence nobody holds.
* `RefreshSettles`: a refresh that is pending is settled once the answers arrive.
  Its exception is a limit of the code: an answer overtaken by a newer licence is
  refused by `acceptLicense` (`artifacts.go:139`) with a code that is not the
  provider's, so the request stays prepared (`network.go:297-306`) and the loop goes
  on asking for it instead of a new one (`:342-347`).

*Bounds.* Two seats are one deactivated and one taken after; two requests are a pending
one and another of any action, or two refreshes of which one overtakes the other;
two instants are before and after the expiry, with its grace (the duration of both is one
unit). Two incidents are a recovery with a late answer, a clock set back with a
revocation, and every other pair.

*Fairness.* `SF(AutoRefresh)`: `operationMutex` hands itself to who has waited, so a due
contact is not passed over for ever by other calls. The provider answers what reaches
it. That no answer is lost from some moment on is a hypothesis of `RefreshSettles`.


## 7. Library: StorageRoots, Extraction, UploadJournal

`Library` composes three modules over one database and one process that ends and
starts again. Each transaction is one step, also where it belongs to two
modules: `Scanned` is `Ingest` (a place) and `Observe` (a version and a job),
`RetireRoot` is `Retire` (the root) and the removal of its documents, `Publication`
is the last transaction of an upload and the birth of its document.

**StorageRoots.** `library` (mode, revision), `roots` by their directory, `plans` with
the relation and the roots they showed, `retirements` with the impact they showed,
`located`, `views`, the `scan` that is under way. A directory is the sequence of its
components, and being inside is being longer. Where a directory is both the same as one
root and inside another, `Relation` says the first and `inspect` the last in the order
of the identifiers (`roots.go:151-157`); both are refused. `Ingest` takes the digest in the
step that writes the place, and leaves out a file that may not be read twice
(`FILE_AUTHORIZATION_CONFLICT`, `scanner.go:451`) and a path that changes its file
(`scanner.go:480-487`, which `Reconciliation` has). A consolidation of a view that both
roots already show, which the unique index refuses, is left out. `PlanRoot` and `ConfirmRoot` (with the
consolidation of the roots inside), `AddView`, `ConfigureRoot`, `Extend`,
`RetirementPlan`, `Retire`; `BeginScan`, `Ingest`, `EndScan`, `AbandonScan`,
`LoseScan` are what a walk does to these tables (the walk itself is
`Reconciliation`'s).

**Extraction.** `doc` joins the document, its versions and its indexed text; `jobs` are
its extractions by creation; `worker` is what the worker read in `prepareExtraction`
and takes into `publish`. Between the two anything may happen: a scan that finds
another content, `SetLanguage`, `RemoveIndex`, `RetireRoot`, `CancelJob`, a new plan
of the root. `Publish` and `Finish` are two transactions, and two steps. `Prepare` is one
reading, where the code reads the document and then its root (`extraction.go:89`, `:101`):
the publication looks at everything again. Two of its refusals, by the licence and for a
withdrawn upload (`extraction.go:173`, `:189`), are `JobQueue`'s.

**UploadJournal.** `item` is the row, `private` the `.part` and the definitive file,
`uploader` the call in each slot, `told` the successes answered, `undone` what a
cleanup failed to remove or to write without noticing. Creation, rename and
registration are steps of their own; `RecoveryStep` is one step for each row
that `recoverUploads` undoes, so that a start may be interrupted too.

*Run* `library`: two libraries, a directory inside another, one linked file, one view,
one upload with two contents; three commands of users, one incident (a write to the
file, an unreadable file, a cleanup that fails or a crash); three starts, so that the
commands need not be spent on getting there: one root with a view, two plans waiting
for confirmation, and a library that takes uploads. 537 265 states.

* `RootsAreSound`: no registered root lies inside another, and every file and view stays
  in a registered root and names from there the same path. The exception is a root
  that was superseded and then retired: `Retire` does not look at the status
  (`documents.go:548-647`), so an old page can retire a root that a consolidation
  replaced, after which it counts as registered and can be enabled. `SCHEMA.md` says
  *sin solapamiento*; the client does not offer it. The three commands of the instance do
  not suffice to get there; the proof needs the exception.
* `IndexIsSound`: what the index calls current is the current version in the present
  languages, what was removed is not shown, and whatever is not current has a job, a scan
  or a user to take it up.
* `OnlyAsAsked`: a retirement removes no document that its plan did not show, and a
  scan does not bring back what a user cancelled.
* `UploadsHold`: rows and files agree, and a client that was told of a success has its
  content stored, in all but the two silent failures in `undone`. The instance has one
  slot for calls: two calls side by side are in the theorem `UploadsStayExact` alone.
* `EverythingSettles`: files that can be read are discovered with their last content,
  texts become current or their last job failed or was cancelled by a user, and every
  upload ends stored or failed.

*Bounds.* Two nested directories in two libraries give every relation between roots
and every refusal; one file is enough for a consolidation, a retirement or a new plan
under its scan and its extraction. Three commands are, for example, a plan, its
confirmation and a retirement; the walk, the workers and the calls are not bounded.
Two attempts separate the last from the others. The proofs have no bounds.

*Fairness.* Weak for the step of a scan, of each worker and of each call, and for the
start; strong for the beginning of the scan of each root, because the scan worker
takes requests by age and each root asks again at its interval. A scan ends after
finitely many files. No command of a user is owed.

*Limits of the code that the properties respect.* A scan that wrote a place and lost the
race with a new revision does not resume the extraction it cancelled: the next
periodic scan does (a day by default). Managed and uploaded documents are not scanned:
a job of theirs that a change cancels waits for a user. The rename of an upload
is not followed by a synchronisation of its directory, and a file that could not be
removed stays for good.


## 8. ReaderPool

The database has one connection for writing and four for reading
(`internal/storage/database.go`). A request is the sequence of connections its function
takes and gives back (`Write`, `Search`, `Processing`), and may be left by its client at
any point. `PoolServes` is what `search.go:200-203` says: that the readers are never
all held by requests that wait for one more. `Search` keeps it, since it asks for the
licence before its transaction. `Processing` does not (section 10); with `Roots = 0`, a
library without rows to ask a permission for, TLC finds no violation.


## 9. Proofs

Everything is proved for any value of the constants under the named assumptions of the
modules (`QueueAssumption`, `LanesAssumption`, `MaterializationAssumption`,
`ConstantsAssumption`, `RootsAssumption`, `ExtractionAssumption`, `JournalAssumption`,
`LibraryAssumption`, `NoJobAssumption`, `ReconciliationAssumption`, `TreeAssumption`),
without fairness. They say that identifiers are numbers or paths, that bounds are numbers
and, in `LibraryAssumption`, that an installation starts with roots apart and views inside
them, in `TreeAssumption`, that going up from any directory leads to the root; TLC
evaluates each in a run.

**JobQueue_proofs** (`QueueTypeCorrect`, `WaitingJobsHaveBudget`, `JobsAreHeldOnce`,
`EndedJobsStayEnded`, `ChainsAreLinear`, `TargetsAreExclusive`, `RunningJobsAreHeld`,
`AttemptHistoryIsTrue`, `RowsAreRequests`). `HeldOnce` is not inductive: that a claim takes a job nobody
holds follows only if whatever is held has been *started* and cannot have returned to the
queue. So

    IInv == TypeOK /\ WaitingHasBudget /\ RunningCharged /\ HeldRows /\ HeldOnce

`Advances(old, new)` states what any step may do to one row, `Keeps` what a step
does to a row that nobody claims or finishes. One lemma for each action shows that
its rows advance (`RowsOfStep`), and one that the holders agree
(`HoldersOfStep`); type correctness of the rows, the budget and the
action property `TerminalIsFinal` follow from the row relation alone. The
second layer adds

    HistoryInv == IInv /\ FollowersOfEnded /\ LinearChains /\ ExclusiveTargets

because the predecessor named by a row must have ended and must have no follower
yet; `InsertionsOfStep` says that a step inserts at most one row and what that
row may follow and target. The third is about `job_attempts`:

    AttemptInv == HistoryInv /\ RunningIsHeld /\ OpenAttemptsAreHeld
                  /\ AttemptsAreLeases /\ Inherits /\ AttemptsAccounted

No two rows of it share job and fence, so that whoever closes an attempt closes one
(`AttemptsAreLeases`); what a continuation inherits is a count of a row that has ended
(`Inherits`), so that it does not change under it. A step that leaves a row running, or
an attempt open, without a worker is a failed `finish`, which adds one to `lost`.

`RowsAreRequests` proves that the rows implement `JobRequests`, for any number of
continuations. Following a chain row by row would need an induction the provers do not
do; as the mapping takes the smallest closed set instead, two invariants are enough:

    RequestInv == AttemptInv /\ OneRequest /\ OneEnd

every row belongs to exactly one request, and every request has exactly one row that
nothing continues, so that `Last` is that row and a row at work is the last of one request
alone. Only the licence pause adds a row to a request, and `ExtendedRows` says that
it adds it to that one (`AttemptInv` gives that a row that is continued has ended and that
the new row was absent). `StepKinds` sorts the steps by what they do to the rows, and one
lemma for each sort names the abstract step: `KeepingEnds`, `AddingOpens`, `ClaimStarts`,
`FinishEnds`, `RestartRecovers`, `BlockedInterrupts`.

**ContentLanes_proofs** (`LanesTypeCorrect`, `SlotsAreCounted`, `LimitsHold`,
`SlotsStayBounded`, `TasksStayHeld`, `CloseLeavesNone`). The type invariant needs
`nativeActive <= NativeWorkers`, which holds only because the counter *is* the number of
holders; the limits hold because it is tested under the mutex. So

    LanesInv == Typed /\ SlotsMatchHolders /\ CountersWithin

and the case analysis is over what a step does to the holders of a lane:
nothing, one joins and the counter grows, one leaves and it shrinks, or both
lanes are emptied (`NativeTurn`, `OcrTurn`, `Emptied`; `TurnOfStep`). The
library's facts on finite sets then give the counters, and the settings the
joining worker read give the limits, even if they are no longer in force. Where the
tasks are is

    TasksInv == LanesInv /\ Placed /\ TasksMatchSteps /\ SnapshotsClaimed
                /\ NothingHeldDown

`Placed` says that no job is twice among the native workers, the channel and the OCR
workers, where one that is handing its task over has given it up (`NativeTask`); that a
start finds nothing (`NothingHeldDown`) is what keeps it over restarts.

**Materialization_proofs** (`TypeCorrect`, `RowsStayAgreed`, `FilesAreNotReplaced`,
`CommitsAreAuthorised`, `StorageIsPublication`, `BytesAreHeld`, `BytesOutlivePower`).

    Inv == Typed /\ Counted /\ RowsAgree /\ RowsHold /\ CopyHolds /\ RemovedHolds
           /\ PartialHolds

`RowsAgree` alone is not inductive: that a finished job leaves nothing to clean needs to
know on which side of the commit each step of the worker is (`RowsHold`) and that what
the cleaning removed does not come back (`RemovedHolds`); that the publication puts a whole
file there needs the partial to be the worker's own (`PartialHolds`), and that it happens
over a private copy needs the copy to be there since the content check (`CopyHolds`),
unless a sweep mislaid it.
From `Inv` every step is one of `ManagedPublication` or leaves its variables in
`Disturbed`, the case of an ended attempt or a damaged file: `UserPublication`,
`WorkerPublication` and `FaultPublication` go through the actions. That nothing comes of a
decision whose copy was mislaid is

    Barren == /\ op.state = "none" => Bare
              /\ mislaid => ~temp, Bare, not committed, and no attempt past the copy

(`BarrenInvariance`): nothing of the operation is in the managed root when the sweep takes
the copy (`Bare`), so no attempt finds a file to adopt or a partial to publish, and each ends
where it would open the copy. For the bytes two more
parts are needed. `Kept` says that whoever cleans has seen the file the journal names
(`worker.seen = op.identity`), and it is inductive without power cuts, so that
`BytesAreHeld` needs only `"power" \notin Faults`. `OnDisk` says that outside two steps of
an attempt (`sync`, `flush`) nothing waits for a synchronisation. A restart of the process
alone, or a synchronisation that fails, breaks it: this is the first disagreement of
section 10, so `BytesOutlivePower` assumes
`Faults \cap {"restart", "unsynced"} = {}` and says that there is no other way.

**LicenseClient_proofs** (`TypeCorrect`, `CurrentAlwaysAccepted`, `ClockIsMonotone`,
`FloorsOnlyGrow`, `RightsStayLapsed`, `SeatsStayReachable`). `CurrentIsAccepted` rests on
who may speak for a request: that an answer accepted as a deactivation is about the
licence in force needs the request that waits to be the one in the journal, with its seat
and its installation, and the provider to have answered nothing it never received:

    Inv == TypeOK /\ CallServed /\ IdentityAnchored /\ JournalKnown
           /\ SentAreKnown /\ WaitingIsKnown /\ LiveSeats /\ CurrentIsAccepted

One lemma for each action keeps it. The action properties follow step by step:
`Effective` is a maximum of the marks it may replace, `Acceptable` compares with the
floor, and a lapsed right stays lapsed because the licence, its floor and the marks
do. `SeatsStayReachable` is about both sides at once:

    SeatsInv == Inv /\ IdentitiesUsed /\ RevokedAtProvider /\ KeptAnswers
                /\ CallsAnswered /\ FinishedIsFinal /\ SeatIsReachable

A licence may be dropped from the journal only if another way to its seat remains: a
request ends with an answer the provider keeps, or refused by a provider that will never
execute it (`FinishedIsFinal`), and what it keeps for a request of this installation
names its seat (`KeptAnswers`).

**Reconciliation_proofs** (`TypeCorrect`, `LossesAreLookedAt`, `SteadyFilesStay`,
`QuietRootsAreSeen`, `QuietRootsAreSynced`), for any tree. The tree is not gone through by induction, which is
out of the prover's reach: `Above(S, d)` says that a set `S` of entries has one on the way
from the root to `d` through the sets of directories that are closed upwards, and the few
lemmas about it (`AboveParent`, `AboveDescends`, `NothingAbove`) are all that is used.

    WalkInv == TypeOK /\ Tree /\ WalkerPlaced /\ LossInv
    SeenInv == WalkInv /\ MarksFormed /\ RevisionsPast /\ ScanOwned
               /\ TopWatched /\ HeldAgain /\ Followed

* *One walk.* `Coming(p)` says that the running row will meet `p`: it is in the listing
  the walker holds, or an entry of the queue, or an error, is on its way. Every step of
  the walker keeps what is `Looked` at, observed or coming (`LooksCover`), so a walk
  that ends without errors has observed whatever stood still since its first transaction
  or was lost before it. `LossInv` says it of both, with the generations
  (`root.recovered <= root.loss`, `scan.loss <= root.loss`) that tell an acknowledged
  loss from a later one; it covers rows resumed after a restart, too.
* *From a change to the walk that sees it.* `Followed`: of a file that is watched, and of
  which the catalogue is behind or which the running full walk would retire, the
  runtime will be told, or the active request will meet it. The walker may hold an
  observation made before a change that is already handled: it is told again after
  (`HeldAgain`). That the rest of an interrupted walk is the rest of what the request
  asks for, and not of an older one, is `ScanOwned`; that the watch of the root is
  there whenever something is promised is `TopWatched`.
* *From what the catalogue has to the walk that drops it.* A removal asks for a full walk,
  so nothing has to be found again but the removal heard:

      GoneInv == WatchesHold /\ TopBegins /\ (Sure /\ ~FullDue => Sound)

  Unless another full walk is due (`FullDue`), each path that is known, or that the full
  walk at work has observed, is there and its directory is watched and heeded, or is below
  a directory that lost its watch and whose own removal will be heard (`Vouched`, `Stuck`);
  and no place that is still to be walked, asked for or announced lies where a removal
  would go unheard (`Safe`). The last is what the confirming transaction needs `Astray`
  for. A full walk starts from nothing and from the root (`TopBegins`), and each directory
  it opens is registered before (`RegisteredGuarded`).

**StorageRoots_proofs, Extraction_proofs** have the invariants and the lemmas of their
modules, **Library_proofs** those of `UploadJournal`, the composition and the theorems
(`TypeCorrect`, `RootsStaySound`, `IndexStaysSound`, `UploadsStayExact`,
`OnlyWhatWasAsked`).

    LibraryInv   == RootsInv /\ JournalInv /\ ExtractionInv /\ StoredOnceKnown /\ Bounds
    RootsInv     == RootsTypeOK /\ ScanBelowRoot /\ SupersededInside /\ RootsDisjoint
                    /\ PlacesHold /\ PlannedHaveRows
    JournalInv   == JournalTypeOK /\ Progress /\ OneCallPerKey /\ UploadsHold

* *Roots.* That a consolidation leaves roots apart needs more than that they were:
  what is inside the new root must be superseded, and what is superseded must be
  inside something registered (`SupersededInside`), or a later plan would find the
  directory free. That a place found by a scan is right needs the files of the scan
  to be below the root it read (`ScanBelowRoot`), also if the root was superseded
  meanwhile. The facts on prefixes (`Within`, `Below`) are lemmas of their own.
* *Index.* `ExtractionInv` says of each document on its own that it is `Sound`: its
  jobs, its row and its worker as three values, so that the lemmas about a
  publication, a new version or an outcome mention no state and apply to any step
  (`JobsAreSound`, `UnknownIsEmpty`, `TextIsTrue`, `WorkIsLeft`, `OutcomeIsRight`).
  `OutcomeIsRight` is the strengthening: between `publish` and `finish` the text is
  published and its job still runs, so a worker whose outcome is to be recorded as done
  must have left a current text, or one for which newer work is listed. `OwnersStay` is
  why a document keeps the languages of its library when its root is consolidated.
* *Uploads.* `Progress` says what a call finds in the private directory at each of
  its steps, `OneCallPerKey` that no second call touches it. `StoredOnceKnown` joins the
  two modules: an upload that is not staged is not a document.
* `OnlyAsAsked` is proved over the steps: only `RetireRoot` makes a root retired, and it
  compares the impact it finds with the one shown; only `Scanned` changes the scan and
  adds a job.

**What the proofs changed.** Three properties that every run had confirmed were false
beyond its bounds, and were found when their invariant would not close. A seat that the
provider has revoked may be out of reach (`SeatIsReachable` now speaks of seats that are
not). A file may be missed by a quiet root after three refused watches (`ghost.intact`
is now ended by one). A file that is gone may stay after six changes and a pause in a
tree of three levels (`Astray`, section 5), which TLC then found in an instance made for
it. None contradicts a sentence of the repository.

**Only model-checked:** every liveness property (`EveryJobEnds`, `OcrServed`, `CloseEnds` in `CloseCompletes`,
`ApprovalSettles`, `FollowsDisk`, `RefreshSettles`, `EverythingSettles`): liveness under
fairness is beyond the prover. Every invariant, every action property and both refinements of
the passing runs are proved.


## 10. What the models disagree with

Four runs expect a violation; each is a sentence of the repository that the code
does not keep.

1. **A recovered file may not be synchronised** (`storage_restart`). The process
   dies after the link; the recovery finds the file whole, adopts it
   (`materialization.go:384`), records, commits and removes the private copy. On this path
   the directory is synchronised only after that removal (`:648`, `:654`); the one that
   links does it at once (`:454`). A power cut in between can take the only name.
   `docs/STORAGE_WATCHER.md:136-137` puts the synchronisation before.
2. **A document may wait for review, or for its storage, without bytes**
   (`storage_sweep`). The sweep unlinks inside its transaction; if that does not commit,
   the rows are as before (`managed_integrity.go:227-239`). Then the document can be
   submitted again: TLC's trace, of six states. Or, in a process that goes on, a user who
   confirms the rejected upload directly (`FinalizeDocument`) had its digest verified just
   before the unlink; the revision is as it was, so the decision commits `materializing`:
   TLC's trace, of seven states, when only the second disjunct of `StagedHasBytes` is
   asked for. Every attempt then ends where it would open the copy
   (`materialization.go:420`), and the document can be neither stored, classified,
   cancelled nor decided again; nothing is approved (section 4). The comment at
   `managed_integrity.go:205-206` says that submission cannot race retention, and
   `docs/STORAGE_WATCHER.md:145` that a failure before or during the copy leaves the
   private file intact.
3. **A hard-linked file goes missing while it is in its place** (`catalogue_links`).
   When a path holds another file, `ingest` marks the former one missing if that
   path was its primary location (`scanner.go:484`) and does not ask whether
   another of its locations is active. A partial walk of the replaced name is
   enough, and the document stays missing until a later walk ingests the other
   name. `docs/H3.md:22` says that only a full walk may confirm an absence,
   `docs/H3.md:18-19` that hard links share a document.
4. **Four requests can hold the database still** (`reader_pool`). `Processing` asks for
   a permission on each row of an open query (`processing.go:78`, `:89`), which takes a
   second reader. Four such requests hold the four readers and wait for a fifth, and no
   write goes on either, since each one reads the licence through the same pool
   (`service.go:61`), until clients leave. The comment in `search.go` at the licence check
   says that this must not be nested.

Three more observations are no runs of their own. A scan that the licence interrupts and
the user cancels before its outcome is recorded is programmed again, because `finish`
copies the successor from `jobs` alone (`runtime.go:457`;
`docs/REVISION-PROCESAMIENTO.md:57-58` says that cancelling also pauses the programming).
A superseded root can be retired and enabled again, and an overtaken refresh is asked for
without end (sections 7 and 6).
## 11. Not modelled, and why

*Abstracted inside the models:* audit rows, progress rows and metadata (nothing decides on
them); priorities and exact times (`due`, `expiry`); priorities between lanes; the content
of documents (torn, whole or foreign); the licence, reduced outside `LicenseClient` to
what it allows; permissions, reduced to "may still approve". The 13 workers are 1, 2 or 4
in the instances, any number in the proofs.

*Assumed:* SQLite commits a transaction or nothing; the state lock excludes a
second process; a mutex excludes; `os.Link` does not replace; names are
synchronised by `fsync` of the directory (on Unix;
`materialization_sync_unix.go`).

*Left out for good:* catalogues, cases, duplicates, search results, audit,
configuration, launcher, HTTP API and web client are sequential code over one
transaction or none, and unit tests reach them well. Migration and backup run before
the service. Path validation and PDF tools are string handling and external programs.

*Left out of `Library`:* files that disappear (`Reconciliation`), the pause of scans by a
user (`JobQueue`), where managed documents are stored (`Materialization`), aliases of a
directory through links or letter case, quotas of uploads, and a disabled default
managed root, with which `updateSettings` refuses every update. The jobs of a document are
claimed in any order.


## 12. Plan

Done, in this order: `JobQueue` with `JobRequests` and its proofs,
`Materialization` with `ManagedPublication` and its proofs, `ContentLanes` with its proofs,
`Reconciliation` with its proofs, `LicenseClient` with its proofs, `StorageRoots`,
`Extraction` and `UploadJournal` with `Library` and their proofs, `ReaderPool`.

| next | subject | what for |
|---|---|---|
| managed root verification | `VerifyManagedRoot` with its marks on each file | retention and reviews over several documents |
