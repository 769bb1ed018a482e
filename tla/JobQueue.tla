------------------------------ MODULE JobQueue ------------------------------
(***************************************************************************)
(* The persistent job queue of internal/libraries: the rows of `jobs`,     *)
(* `job_controls`, `root_scan_controls` and `job_attempts`, the workers    *)
(* that claim, run and finish them, the licence that pauses them, the user *)
(* who cancels and retries them, and the restart that recovers them.       *)
(*                                                                         *)
(* The database has one writer connection and opens every write with       *)
(* BEGIN IMMEDIATE, so each write transaction is one step.  What a worker  *)
(* does between two transactions (read a control row, run an operation) is *)
(* a step of its own: everything else may happen in between.               *)
(*                                                                         *)
(* Two kinds of request target a root (a walk of a linked root, a check of *)
(* a managed one) and run on the scan lane; extraction targets a file and  *)
(* runs on the content lane.  Materialization, the fourth kind, has its    *)
(* own module.                                                             *)
(***************************************************************************)
EXTENDS Naturals, FiniteSets

CONSTANTS
    Files,              \* physical_files rows
    LinkedRoots,        \* storage_roots with storage_source = linked
    ManagedRoots,       \* storage_roots with storage_source = managed
    ContentHolders,     \* places a claimed extraction can live: a native
                        \* worker, an OCR queue entry, an OCR worker
    ScanHolders,        \* the scan worker
    Licences,           \* bound: the licence states that occur
    MaxJobs,            \* bound: rows of `jobs`
    MaxAttempts,        \* max_attempts (5 in the schema)
    MaxRestarts,        \* bound: restarts of the process
    MaxLostFinishes     \* bound: finish transactions that fail

ASSUME QueueAssumption ==
    /\ "full" \in Licences
    /\ Licences \subseteq {"full", "no_ocr", "expired", "recovery"}
    /\ MaxJobs \in Nat
    /\ MaxAttempts \in Nat \ {0}
    /\ MaxRestarts \in Nat
    /\ MaxLostFinishes \in Nat
    /\ ContentHolders \cap ScanHolders = {}
    /\ Files \cap (LinkedRoots \cup ManagedRoots) = {}
    /\ LinkedRoots \cap ManagedRoots = {}

VARIABLES
    job,                \* the rows of jobs, joined with job_controls
    holder,             \* what each worker holds
    attempt,            \* the rows of job_attempts
    withdrawn,          \* files whose upload the owner cancelled
    rootPaused,         \* root_scan_controls.paused
    licence,            \* what the installed licence allows
    restarts, lost      \* counters of the bounded faults

vars == <<job, holder, attempt, withdrawn, rootPaused, licence,
          restarts, lost>>

-----------------------------------------------------------------------------
JobIds  == 1..MaxJobs
Roots   == LinkedRoots \cup ManagedRoots
Targets == Files \cup Roots
Holders == ContentHolders \cup ScanHolders

Kinds    == {"scan", "verify_managed", "extract"}
Waiting  == {"queued", "retry_wait", "paused"}
Active   == Waiting \cup {"running"}
Terminal == {"succeeded", "failed", "cancelled"}
Statuses == Active \cup Terminal \cup {"absent"}

Causes == {"ok", "transient", "fatal", "withdrawn", "license", "user_cancelled"}

Kind(t) == IF t \in Files THEN "extract"
           ELSE IF t \in LinkedRoots THEN "scan" ELSE "verify_managed"

\* checkStatus and CheckFeatures: verification needs only ReadAllowed.
Licensed(kind, l) ==
    \/ kind = "verify_managed" /\ l # "recovery"
    \/ kind = "scan" /\ l \in {"full", "no_ocr"}
    \/ kind = "extract" /\ l = "full"

WriteAllowed == licence \in {"full", "no_ocr"}

Row == [target   : Targets \cup {"none"},
        status   : Statuses,
        attempts : 0..MaxAttempts,  \* the CHECK of the schema
        fence    : Nat,
        cancel   : BOOLEAN,         \* job_controls.cancel_requested
        due      : BOOLEAN,         \* available_at <= now
        retryOf  : 0..MaxJobs,      \* retry_of_job_id, 0 for NULL
        resumes  : BOOLEAN]         \* inserted as resumes_as of retryOf

NoRow(t) == [target |-> t, status |-> "absent", attempts |-> 0, fence |-> 0,
             cancel |-> FALSE, due |-> FALSE, retryOf |-> 0, resumes |-> FALSE]

HolderStates == {"idle", "working", "ended", "finishing"}

Held == [pc : HolderStates, job : 0..MaxJobs, fence : Nat, attempts : Nat,
         cause : Causes]

Idle == [pc |-> "idle", job |-> 0, fence |-> 0, attempts |-> 0, cause |-> "ok"]

AttemptRow == [job : JobIds, fence : Nat, open : BOOLEAN]

TypeOK ==
    /\ job \in [JobIds -> Row]
    /\ holder \in [Holders -> Held]
    /\ attempt \subseteq AttemptRow
    /\ withdrawn \subseteq Files
    /\ rootPaused \in [Roots -> BOOLEAN]
    /\ licence \in Licences
    /\ restarts \in 0..MaxRestarts
    /\ lost \in 0..MaxLostFinishes

Init ==
    /\ job = [j \in JobIds |-> NoRow("none")]
    /\ holder = [w \in Holders |-> Idle]
    /\ attempt = {}
    /\ withdrawn = {}
    /\ rootPaused = [r \in Roots |-> FALSE]
    /\ licence = "full"
    /\ restarts = 0
    /\ lost = 0

-----------------------------------------------------------------------------
\* Inserting rows.

Fresh(j) == /\ job[j].status = "absent"
            /\ \A i \in JobIds : i < j => job[i].status # "absent"

\* Bound: requests leave a row for every licence successor still possible.
Spare == Cardinality({j \in JobIds : job[j].status = "absent"})

RoomForSuccessors == Spare >= Cardinality(Holders)

RoomForRequest ==
    Spare > IF licence = "full"
            THEN Cardinality({w \in Holders : holder[w].cause = "license"})
            ELSE Cardinality(Holders)

Queued(t, prior) ==
    [NoRow(t) EXCEPT !.status = "queued", !.due = TRUE, !.retryOf = prior]

\* Mutant: the list of statuses forgets the jobs the licence paused.
ActiveOnUnpaused(r) ==
    \E j \in JobIds : job[j].target = r /\ job[j].status \in Active \ {"paused"}

ActiveOn(r) == \E j \in JobIds : job[j].target = r /\ job[j].status \in Active

\* A new version, a resumed observation, an upload or a change of language.
EnqueueExtract(f) ==
    /\ RoomForRequest
    /\ \E j \in JobIds : Fresh(j) /\ job' = [job EXCEPT ![j] = Queued(f, 0)]
    /\ UNCHANGED <<holder, attempt, withdrawn, rootPaused, licence,
                   restarts, lost>>

\* The scheduler skips a root that is paused, unlicensed or already requested.
ScheduleRoot(r) ==
    /\ RoomForRequest
    /\ ~rootPaused[r]
    /\ Licensed(Kind(r), licence)
    /\ ~ActiveOn(r)
    /\ \E j \in JobIds : Fresh(j) /\ job' = [job EXCEPT ![j] = Queued(r, 0)]
    /\ UNCHANGED <<holder, attempt, withdrawn, rootPaused, licence,
                   restarts, lost>>

\* "Verificar": lifts the pause; coalesces with the request already active.
Verify(r) ==
    /\ WriteAllowed
    /\ rootPaused' = [rootPaused EXCEPT ![r] = FALSE]
    /\ IF ActiveOn(r)
       THEN UNCHANGED job
       ELSE /\ RoomForRequest
            /\ \E j \in JobIds : Fresh(j) /\ job' = [job EXCEPT ![j] = Queued(r, 0)]
    /\ UNCHANGED <<holder, attempt, withdrawn, licence, restarts, lost>>

\* The scan of the paths a walk could not read; the root stays paused.
RetryScanErrors(r) ==
    /\ WriteAllowed
    /\ RoomForRequest
    /\ r \in LinkedRoots
    /\ ~ActiveOn(r)
    /\ \E j \in JobIds : Fresh(j) /\ job' = [job EXCEPT ![j] = Queued(r, 0)]
    /\ UNCHANGED <<holder, attempt, withdrawn, rootPaused, licence,
                   restarts, lost>>

\* Mutant: only an active follower is seen.
HasActiveFollower(j) == \E i \in JobIds : job[i].retryOf = j /\ job[i].status \in Active

HasFollower(j) == \E i \in JobIds : job[i].retryOf = j

\* Manual retry: answers with the successor or the active request when there
\* is one, and otherwise inserts a job with a budget of its own.
Retry(j) ==
    /\ WriteAllowed
    /\ RoomForRequest
    /\ job[j].status \in {"failed", "cancelled"}
    /\ ~HasFollower(j)
    /\ job[j].target \in Roots => ~ActiveOn(job[j].target)
    /\ rootPaused' = [r \in Roots |->
                        rootPaused[r] /\ (r \in ManagedRoots \/ r # job[j].target)]
    /\ \E i \in JobIds :
          Fresh(i) /\ job' = [job EXCEPT ![i] = Queued(job[j].target, j)]
    /\ UNCHANGED <<holder, attempt, withdrawn, licence, restarts, lost>>

-----------------------------------------------------------------------------
\* Claiming and running.

\* The backoff of a retry or of a licence pause elapses.
BecomeDue(j) ==
    /\ job[j].status \in Waiting
    /\ ~job[j].due
    /\ job' = [job EXCEPT ![j].due = TRUE]
    /\ UNCHANGED <<holder, attempt, withdrawn, rootPaused, licence,
                   restarts, lost>>

Lane(w) == IF w \in ScanHolders THEN {"scan", "verify_managed"} ELSE {"extract"}

\* Mutant: a job paused by the licence is no longer a candidate.
ClaimableUnpaused(w) ==
    {j \in JobIds :
        /\ Kind(job[j].target) \in Lane(w)
        /\ job[j].status \in Waiting \ {"paused"}
        /\ job[j].due
        /\ job[j].attempts < MaxAttempts
        /\ \A i \in JobIds :
              job[i].status = "running" => job[i].target # job[j].target}

\* Mutant: a running job is taken over as if its lease had expired.
ClaimableExpired(w) ==
    {j \in JobIds :
        /\ Kind(job[j].target) \in Lane(w)
        /\ job[j].status \in Waiting \cup {"running"}
        /\ job[j].due
        /\ job[j].attempts < MaxAttempts
        /\ \A i \in JobIds \ {j} :
              job[i].status = "running" => job[i].target # job[j].target}

\* The candidates of claimLane for the lane of w.
Claimable(w) ==
    {j \in JobIds :
        /\ Kind(job[j].target) \in Lane(w)
        /\ job[j].status \in Waiting
        /\ job[j].due
        /\ job[j].attempts < MaxAttempts
        /\ \A i \in JobIds :
              job[i].status = "running" => job[i].target # job[j].target}

Blocked(j) == ~Licensed(Kind(job[j].target), licence)

\* Candidates are taken in order of creation; those the licence blocks before
\* the one that is claimed are paused by the same transaction.
PauseBlocked(skipped) ==
    [j \in JobIds |->
        IF j \in skipped
        THEN [job[j] EXCEPT !.status = "paused", !.due = FALSE]
        ELSE job[j]]

Claim(w, j) ==
    LET skipped == {i \in Claimable(w) : i < j}
        number  == job[j].attempts + 1
        fence   == job[j].fence + 1
    IN  /\ holder[w].pc = "idle"
        /\ j \in Claimable(w) /\ ~Blocked(j)
        /\ \A i \in skipped : Blocked(i)
        /\ job' = [PauseBlocked(skipped) EXCEPT
                     ![j].status = "running", ![j].attempts = number,
                     ![j].fence = fence]
        /\ attempt' = attempt \cup {[job |-> j, fence |-> fence, open |-> TRUE]}
        /\ holder' = [holder EXCEPT ![w] =
                        [pc |-> "working", job |-> j, fence |-> fence,
                         attempts |-> number, cause |-> "ok"]]
        /\ UNCHANGED <<withdrawn, rootPaused, licence, restarts, lost>>

\* Every candidate is blocked: all are paused and nothing is claimed.
ClaimNothing(w) ==
    /\ holder[w].pc = "idle"
    /\ Claimable(w) # {}
    /\ \A j \in Claimable(w) : Blocked(j)
    /\ job' = PauseBlocked(Claimable(w))
    /\ UNCHANGED <<holder, attempt, withdrawn, rootPaused, licence,
                   restarts, lost>>

\* Mutant: the worker trusts the lease it was given.
LeaseAssumed(w) == job[holder[w].job].fence >= 0

HasLease(w) ==
    /\ job[holder[w].job].status = "running"
    /\ job[holder[w].job].fence = holder[w].fence

EndOperation(w, cause) ==
    holder' = [holder EXCEPT ![w].pc = "ended", ![w].cause = cause]

\* The transaction that makes the work visible.  Only extraction is fenced;
\* the walks of a root write without looking at their job.
Publish(w) ==
    LET j == holder[w].job
    IN  /\ holder[w].pc = "working"
        /\ Licensed(Kind(job[j].target), licence)
        /\ job[j].target \in Files =>
              HasLease(w) /\ ~job[j].cancel /\ job[j].target \notin withdrawn
        /\ EndOperation(w, "ok")
        /\ UNCHANGED <<job, attempt, withdrawn, rootPaused, licence, restarts, lost>>

\* The operation ends without publishing.
Fail(w, cause) ==
    LET j == holder[w].job
    IN  /\ holder[w].pc = "working"
        /\ cause \in {"transient", "fatal", "withdrawn", "license"}
        /\ cause = "license" => Blocked(j)
        /\ EndOperation(w, cause)
        /\ UNCHANGED <<job, attempt, withdrawn, rootPaused, licence,
                       restarts, lost>>

\* worker and completeTask: the control row is read outside the transaction
\* that records the outcome.
ReadControl(w) ==
    /\ holder[w].pc = "ended"
    /\ holder' = [holder EXCEPT
                    ![w].pc = "finishing",
                    ![w].cause = IF job[holder[w].job].cancel
                                 THEN "user_cancelled" ELSE @]
    /\ UNCHANGED <<job, attempt, withdrawn, rootPaused, licence,
                   restarts, lost>>

-----------------------------------------------------------------------------
\* finish.

\* Mutant: one attempt too many.
OutcomeStatusLate(cause, attempts) ==
    CASE cause = "ok" -> "succeeded"
      [] cause = "transient" /\ attempts <= MaxAttempts -> "retry_wait"
      [] cause \in {"withdrawn", "user_cancelled"} -> "cancelled"
      [] OTHER -> "failed"

OutcomeStatus(cause, attempts) ==
    CASE cause = "ok" -> "succeeded"
      [] cause = "transient" /\ attempts < MaxAttempts -> "retry_wait"
      [] cause \in {"withdrawn", "user_cancelled"} -> "cancelled"
      [] OTHER -> "failed"

\* Mutant: only the holder of the lease closes its attempt.
CloseLeasedAttempt(w) ==
    attempt' = {IF a.job = holder[w].job /\ a.fence = holder[w].fence /\ HasLease(w)
                THEN [a EXCEPT !.open = FALSE] ELSE a : a \in attempt}

\* The row of the worker's own attempt is closed whatever the lease says.
CloseAttempt(w) ==
    attempt' = {IF a.job = holder[w].job /\ a.fence = holder[w].fence
                THEN [a EXCEPT !.open = FALSE] ELSE a : a \in attempt}

Release(w) == holder' = [holder EXCEPT ![w] = Idle]

\* The update is fenced: without the lease it changes no job.
FinishStale(w) ==
    /\ holder[w].pc = "finishing"
    /\ ~HasLease(w)
    /\ CloseAttempt(w)
    /\ Release(w)
    /\ UNCHANGED <<job, withdrawn, rootPaused, licence, restarts, lost>>

Finish(w) ==
    LET j == holder[w].job
        s == OutcomeStatus(holder[w].cause, holder[w].attempts)
    IN  /\ holder[w].pc = "finishing"
        /\ holder[w].cause # "license"
        /\ HasLease(w)
        /\ job' = [job EXCEPT ![j].status = s, ![j].due = (s # "retry_wait")]
        /\ CloseAttempt(w)
        /\ Release(w)
        /\ UNCHANGED <<withdrawn, rootPaused, licence, restarts, lost>>

\* Mutant: the interrupted attempt is returned twice.
SuccessorRefunded(j) ==
    [job[j] EXCEPT !.status = "paused", !.attempts = @ - 2, !.fence = 0,
                   !.cancel = FALSE, !.due = TRUE, !.retryOf = j, !.resumes = TRUE]

\* The successor of a job the licence interrupted: the attempt is given back,
\* the control row is not copied.
Successor(j) ==
    [job[j] EXCEPT !.status = "paused", !.attempts = @ - 1, !.fence = 0,
                   !.cancel = FALSE, !.due = TRUE, !.retryOf = j, !.resumes = TRUE]

FinishBlocked(w) ==
    LET j == holder[w].job
    IN  /\ holder[w].pc = "finishing"
        /\ holder[w].cause = "license"
        /\ HasLease(w)
        /\ \E k \in JobIds :
              /\ Fresh(k)
              /\ job' = [job EXCEPT ![j].status = "cancelled", ![k] = Successor(j)]
        /\ CloseAttempt(w)
        /\ Release(w)
        /\ UNCHANGED <<withdrawn, rootPaused, licence, restarts, lost>>

\* The finish transaction fails; its error is dropped and the worker goes on.
FinishLost(w) ==
    /\ holder[w].pc = "finishing"
    /\ lost < MaxLostFinishes
    /\ lost' = lost + 1
    /\ Release(w)
    /\ UNCHANGED <<job, attempt, withdrawn, rootPaused, licence, restarts>>

-----------------------------------------------------------------------------
\* Users, the licence and restarts.

\* Cancelling a scan pauses its root and withdraws the scans that wait on it.
CancelJob(j) ==
    LET t == job[j].target
        withdrawnScan(i) == Kind(t) = "scan" /\ job[i].target = t /\ job[i].status \in Waiting
        own(i)           == i = j /\ job[i].status # "running"
    IN  /\ WriteAllowed
        /\ Kind(t) \in {"scan", "extract"}
        /\ job[j].status \in Active
        /\ job' = [i \in JobIds |->
                     [job[i] EXCEPT
                        !.cancel = @ \/ i = j,
                        !.status = IF withdrawnScan(i) \/ own(i) THEN "cancelled" ELSE @]]
        /\ rootPaused' = [r \in Roots |-> rootPaused[r] \/ (Kind(t) = "scan" /\ r = t)]
        /\ UNCHANGED <<holder, attempt, withdrawn, licence, restarts, lost>>

\* The owner cancels a staged upload: jobs paused by the licence are left.
CancelUpload(f) ==
    LET revoked(i) == job[i].target = f /\ job[i].status \in {"queued", "running", "retry_wait"}
    IN  /\ WriteAllowed
        /\ f \notin withdrawn
        /\ withdrawn' = withdrawn \cup {f}
        /\ job' = [i \in JobIds |->
                     IF revoked(i)
                     THEN [job[i] EXCEPT !.status = "cancelled", !.fence = @ + 1]
                     ELSE job[i]]
        /\ UNCHANGED <<holder, attempt, rootPaused, licence, restarts, lost>>

\* Bound: a licence is lost only while its successors still have rows.
ChangeLicence(l) ==
    /\ l # licence
    /\ l = "full" \/ RoomForSuccessors
    /\ licence' = l
    /\ UNCHANGED <<job, holder, attempt, withdrawn, rootPaused,
                   restarts, lost>>

\* Mutants: a cancelled job is left to its worker; the budget is not looked at.
RecoveredUncancelled(row) ==
    IF row.status # "running" \/ row.cancel THEN row
    ELSE [row EXCEPT !.status = IF row.attempts >= MaxAttempts THEN "failed" ELSE "retry_wait",
                     !.fence = @ + 1, !.due = TRUE]

RecoveredUnbounded(row) ==
    IF row.status # "running" THEN row
    ELSE [row EXCEPT !.status = IF row.cancel THEN "cancelled" ELSE "retry_wait",
                     !.fence = @ + 1, !.due = TRUE]

\* The process ends at any point and the next one recovers the queue before
\* it starts a worker; an orderly Close leaves the same rows as a crash.
Recovered(row) ==
    IF row.status # "running" THEN row
    ELSE [row EXCEPT !.status = IF row.cancel THEN "cancelled"
                                ELSE IF row.attempts >= MaxAttempts THEN "failed"
                                ELSE "retry_wait",
                     !.fence = @ + 1, !.due = TRUE]

Restart ==
    /\ restarts < MaxRestarts
    /\ restarts' = restarts + 1
    /\ job' = [j \in JobIds |-> Recovered(job[j])]
    /\ attempt' = {[a EXCEPT !.open = FALSE] : a \in attempt}
    /\ holder' = [w \in Holders |-> Idle]
    /\ UNCHANGED <<withdrawn, rootPaused, licence, lost>>

-----------------------------------------------------------------------------
Request ==
    \/ \E f \in Files : EnqueueExtract(f)
    \/ \E r \in Roots : ScheduleRoot(r)
    \/ \E r \in Roots : Verify(r)
    \/ \E r \in Roots : RetryScanErrors(r)
    \/ \E j \in JobIds : Retry(j)

EndsOperation(w) ==
    \/ Publish(w)
    \/ \E cause \in Causes : Fail(w, cause)

Finishes(w) ==
    \/ FinishStale(w)
    \/ Finish(w)
    \/ FinishBlocked(w)

Work(w) ==
    \/ \E j \in JobIds : Claim(w, j)
    \/ ClaimNothing(w)
    \/ EndsOperation(w)
    \/ ReadControl(w)
    \/ Finishes(w)

Next ==
    \/ Request
    \/ \E j \in JobIds : BecomeDue(j)
    \/ \E w \in Holders : Work(w)
    \/ \E w \in Holders : FinishLost(w)
    \/ \E j \in JobIds : CancelJob(j)
    \/ \E f \in Files : CancelUpload(f)
    \/ \E l \in Licences : ChangeLicence(l)
    \/ Restart

Spec == Init /\ [][Next]_vars

\* Every worker ticks forever and every operation ends (each runs under a
\* timeout or a context); waiting times elapse.  Requests, users, the licence
\* and restarts are free.
Fairness ==
    /\ \A w \in Holders : WF_vars(\E j \in JobIds : Claim(w, j))
    /\ \A w \in Holders : WF_vars(ClaimNothing(w))
    /\ \A w \in Holders : WF_vars(EndsOperation(w))
    /\ \A w \in Holders : WF_vars(ReadControl(w))
    /\ \A w \in Holders : WF_vars(Finishes(w))
    /\ \A j \in JobIds : WF_vars(BecomeDue(j))

FairSpec == Spec /\ Fairness

-----------------------------------------------------------------------------
(***************************************************************************)
(* Properties.                                                             *)
(***************************************************************************)

\* One running job per physical file and one active request per root: what
\* the unique indexes jobs_one_running_file and jobs_one_root_verification
\* demand, so that no transaction of the queue can fail on them.
ExclusiveTargets ==
    \A i, j \in JobIds :
        i # j /\ job[i].target = job[j].target =>
            /\ ~(job[i].status = "running" /\ job[j].status = "running")
            /\ job[i].target \in Roots =>
                  ~(job[i].status \in Active /\ job[j].status \in Active)

\* A job that waits can be claimed: it never waits with its budget spent
\* (claimLane filters on attempt_count < max_attempts and would leave it, and
\* its root, waiting for ever).
WaitingHasBudget ==
    \A j \in JobIds : job[j].status \in Waiting => job[j].attempts < MaxAttempts

\* No job is ever in the hands of two workers, and none holds a fence its row
\* has not reached, however often the job was revoked, recovered, retried or
\* claimed meanwhile: leases expire only on paper (lease_expires_at is never
\* read), so a job returns to the queue only through its worker or a restart.
Busy(w) == holder[w].pc # "idle"

HeldOnce ==
    \A w \in Holders :
        Busy(w) =>
            /\ holder[w].fence <= job[holder[w].job].fence
            /\ \A v \in Holders : Busy(v) /\ v # w => holder[v].job # holder[w].job

\* A job is running only while some worker will finish it: a running row
\* without a worker blocks its file or its root until the next restart.  Only
\* a finish transaction that failed can leave one.
Unheld == {j \in JobIds : /\ job[j].status = "running"
                          /\ ~\E w \in Holders : Busy(w) /\ holder[w].job = j /\ HasLease(w)}

RunningIsHeld == Cardinality(Unheld) <= lost

\* The history of attempts stays closed: every open row of job_attempts is the
\* attempt of a worker at work, also after its job was revoked under it.
OpenAttemptsAreHeld ==
    Cardinality({a \in attempt : /\ a.open
                                 /\ ~\E w \in Holders : /\ Busy(w)
                                                        /\ holder[w].job = a.job
                                                        /\ holder[w].fence = a.fence})
        <= lost

\* docs/H6.md: jobs the licence blocks do not consume attempts and the
\* successor keeps the remaining budget.  The count of a row is the number of
\* its own attempts plus what it inherited, the interrupted attempt returned.
Own(j) == Cardinality({a \in attempt : a.job = j})

AttemptsAccounted ==
    \A j \in JobIds :
        job[j].attempts = Own(j) + (IF job[j].resumes THEN job[job[j].retryOf].attempts - 1 ELSE 0)

\* The history of attempts is the truth about the queue: nothing in it is left
\* open by nobody, and each row's count can be told from it.
AttemptsAreTrue == OpenAttemptsAreHeld /\ AttemptsAccounted

\* A job has at most one follower: a licence pause and a manual retry of the
\* same job, in either order, never both continue it.
LinearChains ==
    \A i, j \in JobIds :
        i # j /\ job[i].retryOf # 0 => job[i].retryOf # job[j].retryOf

\* What ended stays ended: no worker that lost its lease, no restart and no
\* claim brings a job back or rewrites how it ended.
TerminalIsFinal ==
    [][\A j \in JobIds : job[j].status \in Terminal => job'[j].status = job[j].status]_vars

\* Every request ends once the licence stays complete: retries are finite,
\* paused jobs resume, a revoked or recovered job is not forgotten.  Requests
\* are finitely many here, so they all end when nothing waits or runs again and
\* again; unless a finish transaction was lost, whose row holds its target
\* until a restart.
EveryJobEnds ==
    <>[](licence = "full") =>
        []<>(\/ \A j \in JobIds : job[j].status \notin Active
             \/ Unheld # {})

-----------------------------------------------------------------------------
(***************************************************************************)
(* The requests the rows carry.  A request is a job that resumes nothing,  *)
(* together with the licence successors that continue it one after the     *)
(* other; its state is that of the last of them.                           *)
(***************************************************************************)

Successors == {k \in JobIds : job[k].resumes}

\* The rows hold whatever continues one of them.
HoldsSuccessors(rows) == \A k \in Successors : job[k].retryOf \in rows => k \in rows

\* k is a row of the request j: no such set with j in it leaves k out.
Carries(j, k) ==
    \A later \in SUBSET Successors :
        k \in {j} \cup later \/ ~HoldsSuccessors({j} \cup later)

Continued(j) == \E k \in JobIds : job[k].resumes /\ job[k].retryOf = j

\* The row of the request that nothing continues: its own when the licence
\* never interrupted it.
Last(j) ==
    IF ~Continued(j) THEN j
    ELSE CHOOSE k \in Successors : ~Continued(k) /\ Carries(j, k)

Phase(status) == CASE status \in Waiting  -> "open"
                   [] status \in Terminal -> "done"
                   [] status = "running"  -> "running"
                   [] OTHER               -> "none"

requestPhase ==
    [j \in JobIds |-> IF job[j].resumes THEN "none" ELSE Phase(job[Last(j)].status)]

requestSpent ==
    [j \in JobIds |-> IF job[j].resumes THEN 0 ELSE job[Last(j)].attempts]

Requested == INSTANCE JobRequests WITH
    Requests <- JobIds,
    Budget   <- MaxAttempts,
    phase    <- requestPhase,
    spent    <- requestSpent

\* The rows of a request behave as one request: pausing it as a cancelled row
\* with a successor neither ends it, nor lets it run twice, nor grows its
\* budget (runtime.go finish, recoverJobs and documents.go Retry together).
ImplementsRequests == Requested!Spec
=============================================================================
