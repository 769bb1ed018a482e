--------------------------- MODULE JobQueue_proofs ---------------------------
(***************************************************************************)
(* Proofs about JobQueue for every number of jobs, attempts, workers,      *)
(* files and roots.                                                        *)
(*                                                                         *)
(* The argument has two layers.  Advances says what any step may do to one *)
(* row; the first half of the module shows that every action makes every   *)
(* row advance.  The invariants and the action property then follow from   *)
(* that relation and from the few actions that move a worker or insert a   *)
(* row; those about the history of attempts also from what a step does to  *)
(* the rows of job_attempts.                                               *)
(***************************************************************************)
EXTENDS JobQueue, FiniteSetTheorems, TLAPS

\* A row some worker has claimed, or that has ended.
Started == {"running"} \cup Terminal

\* What a step may do to a row.
Advances(old, new) ==
    /\ new \in Row
    /\ old.status # "absent" =>
          /\ new.status # "absent" /\ new.target = old.target
          /\ new.retryOf = old.retryOf
          /\ new.resumes = old.resumes
          /\ new.fence >= old.fence
    /\ old.status \in Started => new.attempts = old.attempts
    /\ old.status \in Terminal => new.status = old.status
    /\ new.status \in Waiting => new.attempts < MaxAttempts
    /\ new.status = "running" => new.attempts >= 1

\* What it does to a row that no worker claims or finishes: it neither starts
\* nor returns to the queue, and keeps its attempts and a running row's lease.
Keeps(old, new) ==
    /\ Advances(old, new)
    /\ old.status \in Started => new.status \in Started
    /\ new.status = "running" => old.status = "running" /\ new.fence = old.fence
    /\ old.status # "absent" => new.attempts = old.attempts

AllAdvance == \A j \in JobIds : Advances(job[j], job'[j])
AllKeep    == \A j \in JobIds : Keeps(job[j], job'[j])

\* A running job has been charged at least one attempt.
RunningCharged ==
    \A j \in JobIds : job[j].status = "running" => job[j].attempts >= 1

\* What a worker holds is a row that was claimed and has not been queued
\* again, and the worker knows the attempts it was charged.
HeldRows ==
    \A w \in Holders :
        Busy(w) =>
            /\ holder[w].job \in JobIds
            /\ job[holder[w].job].status \in Started
            /\ job[holder[w].job].attempts = holder[w].attempts

IInv == TypeOK /\ WaitingHasBudget /\ RunningCharged /\ HeldRows /\ HeldOnce
-----------------------------------------------------------------------------
\* Statuses and rows.

LEMMA StatusSets ==
    /\ "absent" \in Statuses /\ "absent" \notin Active /\ "absent" \notin Started
    /\ {"queued", "retry_wait", "paused", "running", "succeeded", "failed", "cancelled"} \subseteq Statuses
    /\ {"queued", "retry_wait", "paused"} = Waiting
    /\ {"succeeded", "failed", "cancelled"} = Terminal
    /\ Waiting \cap Started = {} /\ "running" \in Started /\ "running" \notin Terminal
    /\ Started = {"running"} \cup Terminal
    /\ Active = Waiting \cup {"running"}
  BY DEF Statuses, Active, Waiting, Terminal, Started

LEMMA RowFields ==
    ASSUME NEW row \in Row
    PROVE  /\ row.target \in Targets \cup {"none"} /\ row.status \in Statuses
           /\ row.attempts \in Nat /\ row.attempts \in 0..MaxAttempts
           /\ row.fence \in Nat /\ row.cancel \in BOOLEAN /\ row.due \in BOOLEAN
           /\ row.retryOf \in 0..MaxJobs /\ row.resumes \in BOOLEAN
  BY QueueAssumption DEF Row

LEMMA NoRowIsRow ==
    ASSUME NEW t \in Targets \cup {"none"}
    PROVE  /\ NoRow(t) \in Row /\ NoRow(t).status = "absent" /\ NoRow(t).attempts = 0
           /\ NoRow(t).target = t /\ NoRow(t).retryOf = 0 /\ NoRow(t).resumes = FALSE
  BY QueueAssumption, StatusSets DEF NoRow, Row

LEMMA QueuedRow ==
    ASSUME NEW t \in Targets \cup {"none"}, NEW prior \in 0..MaxJobs
    PROVE  /\ Queued(t, prior) \in Row /\ Queued(t, prior).status = "queued"
           /\ Queued(t, prior).attempts = 0 /\ Queued(t, prior).target = t
           /\ Queued(t, prior).retryOf = prior /\ Queued(t, prior).resumes = FALSE
<1> DEFINE row == NoRow(t)
           new == [row EXCEPT !.status = "queued", !.due = TRUE, !.retryOf = prior]
<1>1. row \in Row /\ row.attempts = 0 /\ row.target = t /\ row.resumes = FALSE
    BY NoRowIsRow
<1>2. "queued" \in Statuses
    BY StatusSets
<1>3. Queued(t, prior) = new
    BY DEF Queued
<1> HIDE DEF row
<1>4. /\ new \in Row /\ new.status = "queued" /\ new.attempts = row.attempts
      /\ new.target = row.target /\ new.retryOf = prior /\ new.resumes = row.resumes
    BY <1>1, <1>2 DEF Row
<1> QED BY <1>1, <1>3, <1>4

-----------------------------------------------------------------------------
\* Every action makes every row advance.

LEMMA SameRow ==
    ASSUME IInv, NEW j \in JobIds PROVE Keeps(job[j], job[j]) /\ job[j] \in Row
<1>1. job[j] \in Row
    BY DEF IInv, TypeOK
<1> QED BY <1>1, RowFields DEF IInv, WaitingHasBudget, RunningCharged, Keeps, Advances

LEMMA SameRows ==
    ASSUME IInv, UNCHANGED job PROVE AllKeep
  BY SameRow DEF AllKeep

LEMMA Insert ==
    ASSUME IInv, NEW k \in JobIds, Fresh(k), NEW new \in Row,
           new.status \in Waiting, new.attempts < MaxAttempts,
           job' = [job EXCEPT ![k] = new]
    PROVE  AllKeep
<1> SUFFICES ASSUME NEW j \in JobIds PROVE Keeps(job[j], job'[j])
    BY DEF AllKeep
<1>1. CASE j # k
    BY <1>1, SameRow DEF IInv, TypeOK
<1>2. CASE j = k
  <2>1. job'[j] = new /\ job[j].status = "absent"
      BY <1>2 DEF IInv, TypeOK, Fresh
  <2> QED BY <2>1, StatusSets DEF Keeps, Advances
<1> QED BY <1>1, <1>2

LEMMA InsertQueued ==
    ASSUME IInv, NEW t \in Targets \cup {"none"}, NEW prior \in 0..MaxJobs, NEW k \in JobIds,
           Fresh(k) /\ job' = [job EXCEPT ![k] = Queued(t, prior)]
    PROVE  AllKeep
<1>1. /\ Queued(t, prior) \in Row /\ Queued(t, prior).status = "queued"
      /\ Queued(t, prior).attempts = 0
    BY QueuedRow
<1>2. "queued" \in Waiting /\ 0 < MaxAttempts
    BY StatusSets, QueueAssumption
<1> QED BY <1>1, <1>2, Insert

LEMMA RequestKeeps ==
    ASSUME IInv, Request PROVE AllKeep
<1>0. ASSUME NEW t \in Files \cup Roots,
             \E k \in JobIds : Fresh(k) /\ job' = [job EXCEPT ![k] = Queued(t, 0)]
      PROVE  AllKeep
  <2>1. t \in Targets \cup {"none"} /\ 0 \in 0..MaxJobs
      BY QueueAssumption DEF Targets
  <2>2. PICK k \in JobIds : Fresh(k) /\ job' = [job EXCEPT ![k] = Queued(t, 0)]
      BY <1>0
  <2> QED BY <2>1, <2>2, InsertQueued
<1>1. CASE \E f \in Files : EnqueueExtract(f)
    BY <1>0, <1>1 DEF EnqueueExtract
<1>2. CASE \E r \in Roots : ScheduleRoot(r)
    BY <1>0, <1>2 DEF ScheduleRoot
<1>3. CASE \E r \in Roots : Verify(r)
    BY <1>0, <1>3, SameRows DEF Verify
<1>4. CASE \E r \in Roots : RetryScanErrors(r)
    BY <1>0, <1>4 DEF RetryScanErrors
<1>5. CASE \E j \in JobIds : Retry(j)
  <2>1. PICK j \in JobIds : Retry(j)
      BY <1>5
  <2>2. PICK i \in JobIds : Fresh(i) /\ job' = [job EXCEPT ![i] = Queued(job[j].target, j)]
      BY <2>1 DEF Retry
  <2>3. job[j].target \in Targets \cup {"none"} /\ j \in 0..MaxJobs
      BY SameRow, RowFields DEF JobIds
  <2> QED BY <2>2, <2>3, InsertQueued
<1> QED BY <1>1, <1>2, <1>3, <1>4, <1>5 DEF Request

LEMMA BecomeDueKeeps ==
    ASSUME IInv, NEW k \in JobIds, BecomeDue(k) PROVE AllKeep
<1> SUFFICES ASSUME NEW j \in JobIds PROVE Keeps(job[j], job'[j])
    BY DEF AllKeep
<1> DEFINE old == job[j]
           new == [old EXCEPT !.due = TRUE]
<1>1. job'[j] = IF j = k THEN new ELSE old
    BY DEF BecomeDue, IInv, TypeOK
<1>2. Keeps(old, old) /\ old \in Row
    BY SameRow
<1> HIDE DEF old
<1>3. /\ new \in Row /\ new.status = old.status /\ new.target = old.target
      /\ new.attempts = old.attempts /\ new.fence = old.fence /\ new.retryOf = old.retryOf
      /\ new.resumes = old.resumes
    BY <1>2 DEF Row
<1> HIDE DEF new
<1>4. Keeps(old, new)
    BY <1>2, <1>3 DEF Keeps, Advances
<1> QED BY <1>1, <1>2, <1>4 DEF old

LEMMA PauseBlockedRow ==
    ASSUME IInv, NEW w \in Holders, NEW skipped \in SUBSET Claimable(w), NEW j \in JobIds
    PROVE  /\ Keeps(job[j], PauseBlocked(skipped)[j])
           /\ j \notin skipped => PauseBlocked(skipped)[j] = job[j]
           /\ j \in skipped => PauseBlocked(skipped)[j].status = "paused"
           /\ PauseBlocked(skipped)[j].target = job[j].target
           /\ PauseBlocked(skipped)[j].retryOf = job[j].retryOf
<1> DEFINE old == job[j]
           new == [old EXCEPT !.status = "paused", !.due = FALSE]
<1>0. Keeps(old, old) /\ old \in Row
    BY SameRow
<1>1. PauseBlocked(skipped)[j] = IF j \in skipped THEN new ELSE old
    BY DEF PauseBlocked
<1>2. j \in skipped => old.status \in Waiting /\ old.attempts < MaxAttempts
    BY DEF Claimable
<1> HIDE DEF old
<1>3. "paused" \in Statuses /\ "paused" \in Waiting /\ Waiting \cap Started = {}
      /\ "absent" \notin Waiting /\ Terminal \subseteq Started /\ "paused" # "running"
    BY StatusSets DEF Waiting
<1>4. /\ new \in Row /\ new.status = "paused" /\ new.target = old.target
      /\ new.attempts = old.attempts /\ new.fence = old.fence /\ new.retryOf = old.retryOf
      /\ new.resumes = old.resumes
    BY <1>0, <1>3 DEF Row
<1> HIDE DEF new
<1>5. j \in skipped => Keeps(old, new)
    BY <1>0, <1>2, <1>3, <1>4, RowFields DEF Keeps, Advances
<1> QED BY <1>0, <1>1, <1>4, <1>5 DEF old

LEMMA ClaimNothingKeeps ==
    ASSUME IInv, NEW w \in Holders, ClaimNothing(w) PROVE AllKeep
  BY PauseBlockedRow DEF ClaimNothing, AllKeep

\* The row that is claimed was waiting; one attempt is charged to it.
LEMMA ClaimRows ==
    ASSUME IInv, NEW w \in Holders, NEW k \in JobIds, Claim(w, k)
    PROVE  /\ Advances(job[k], job'[k])
           /\ \A j \in JobIds \ {k} : Keeps(job[j], job'[j])
           /\ job[k].status \in Waiting
           /\ job'[k].status = "running"
           /\ job'[k].attempts = job[k].attempts + 1
           /\ job'[k].fence = job[k].fence + 1
           /\ job'[k].retryOf = job[k].retryOf
           /\ job'[k].resumes = job[k].resumes
<1> DEFINE skipped == {i \in Claimable(w) : i < k}
           row == PauseBlocked(skipped)[k]
<1>1. k \notin skipped /\ job[k].status \in Waiting /\ job[k].attempts < MaxAttempts
    BY DEF Claim, Claimable, JobIds
<1>2. PauseBlocked(skipped)[k] = job[k]
    BY <1>1 DEF PauseBlocked
<1>3. job' = [PauseBlocked(skipped) EXCEPT ![k].status = "running",
                  ![k].attempts = job[k].attempts + 1, ![k].fence = job[k].fence + 1]
    BY DEF Claim
<1>4. job'[k] = [job[k] EXCEPT !.status = "running",
                  !.attempts = job[k].attempts + 1, !.fence = job[k].fence + 1]
    BY <1>2, <1>3 DEF PauseBlocked
<1>5. job[k].attempts + 1 \in 0..MaxAttempts /\ job[k].fence + 1 \in Nat /\ "running" \in Statuses
    BY <1>1, SameRow, RowFields, StatusSets, QueueAssumption
<1>6. /\ job'[k] \in Row /\ job'[k].status = "running" /\ job'[k].attempts = job[k].attempts + 1
      /\ job'[k].fence = job[k].fence + 1 /\ job'[k].target = job[k].target
      /\ job'[k].retryOf = job[k].retryOf /\ job'[k].resumes = job[k].resumes
  <2> DEFINE old == job[k]
             n == job[k].attempts + 1
             f == job[k].fence + 1
             new == [old EXCEPT !.status = "running", !.attempts = n, !.fence = f]
  <2>1. old \in Row /\ n \in 0..MaxAttempts /\ f \in Nat /\ "running" \in Statuses
      BY <1>5, SameRow
  <2>2. job'[k] = new
      BY <1>4
  <2> HIDE DEF old, n, f
  <2>3. /\ new \in Row /\ new.status = "running" /\ new.attempts = n /\ new.fence = f
        /\ new.target = old.target /\ new.retryOf = old.retryOf
        /\ new.resumes = old.resumes
      BY <2>1 DEF Row
  <2> QED BY <2>2, <2>3 DEF old, n, f
<1>7. Advances(job[k], job'[k])
    BY <1>1, <1>6, SameRow, RowFields, StatusSets DEF Advances
<1>8. ASSUME NEW j \in JobIds, j # k PROVE Keeps(job[j], job'[j])
  <2>1. job'[j] = PauseBlocked(skipped)[j]
      BY <1>3, <1>8 DEF PauseBlocked
  <2> QED BY <2>1, PauseBlockedRow
<1> QED BY <1>1, <1>6, <1>7, <1>8

\* The outcome of an attempt: it ends, or waits with budget left.
LEMMA Outcome ==
    ASSUME NEW cause \in Causes, NEW n \in Nat
    PROVE  /\ OutcomeStatus(cause, n) \in {"succeeded", "retry_wait", "cancelled", "failed"}
           /\ OutcomeStatus(cause, n) = "retry_wait" => n < MaxAttempts
  BY DEF OutcomeStatus, Causes

\* What a worker that has its lease knows of its row.
LEMMA Leased ==
    ASSUME IInv, NEW w \in Holders, holder[w].pc = "finishing", HasLease(w)
    PROVE  /\ holder[w].job \in JobIds /\ holder[w].cause \in Causes
           /\ holder[w].attempts \in Nat
           /\ job[holder[w].job].status = "running"
           /\ job[holder[w].job].attempts = holder[w].attempts
           /\ job[holder[w].job].attempts >= 1
<1>1. Busy(w)
    BY DEF Busy
<1>2. holder[w].job \in JobIds /\ job[holder[w].job].attempts = holder[w].attempts
    BY <1>1 DEF IInv, HeldRows
<1>3. job[holder[w].job].status = "running" /\ job[holder[w].job].attempts >= 1
    BY <1>2 DEF HasLease, IInv, RunningCharged
<1>4. job[holder[w].job].attempts \in Nat
    BY <1>2, SameRow, RowFields
<1>5. holder[w].cause \in Causes
    BY DEF IInv, TypeOK, Held
<1> QED BY <1>2, <1>3, <1>4, <1>5

LEMMA FinishAdvances ==
    ASSUME IInv, NEW w \in Holders, Finish(w), NEW j \in JobIds
    PROVE  /\ Advances(job[j], job'[j])
           /\ j # holder[w].job => Keeps(job[j], job'[j])
           /\ j = holder[w].job => job'[j].status # "running" /\ job'[j].attempts = job[j].attempts
<1> DEFINE k == holder[w].job
           s == OutcomeStatus(holder[w].cause, holder[w].attempts)
           d == s # "retry_wait"
           old == job[k]
           new == [old EXCEPT !.status = s, !.due = d]
<1>1. job' = [job EXCEPT ![k].status = s, ![k].due = d]
    BY DEF Finish
<1>2. /\ k \in JobIds /\ old.status = "running" /\ old.attempts >= 1
      /\ old.attempts = holder[w].attempts /\ holder[w].cause \in Causes
      /\ holder[w].attempts \in Nat
    BY Leased DEF Finish
<1>3. s \in {"succeeded", "retry_wait", "cancelled", "failed"} /\ (s = "retry_wait" => old.attempts < MaxAttempts)
    BY <1>2, Outcome
<1>4. old \in Row
    BY <1>2, SameRow
<1>5. j = k => job'[j] = new
    BY <1>1, <1>2 DEF IInv, TypeOK
<1>6. j # k => job'[j] = job[j]
    BY <1>1 DEF IInv, TypeOK
<1>7. s \in Statuses /\ d \in BOOLEAN
    BY <1>3, StatusSets
<1> HIDE DEF s, d, old, k
<1>8. /\ new \in Row /\ new.status = s /\ new.target = old.target
      /\ new.attempts = old.attempts /\ new.fence = old.fence /\ new.retryOf = old.retryOf
      /\ new.resumes = old.resumes
    BY <1>4, <1>7 DEF Row
<1> HIDE DEF new
<1>9. Advances(old, new)
    BY <1>2, <1>3, <1>4, <1>8, RowFields DEF Advances, Started, Waiting, Terminal
<1> QED BY <1>3, <1>5, <1>6, <1>8, <1>9, SameRow DEF old, k, Keeps

LEMMA SuccessorRow ==
    ASSUME NEW j \in JobIds, job[j] \in Row, job[j].attempts >= 1
    PROVE  /\ Successor(j) \in Row /\ Successor(j).status = "paused"
           /\ Successor(j).attempts = job[j].attempts - 1
           /\ Successor(j).target = job[j].target /\ Successor(j).retryOf = j
           /\ Successor(j).resumes = TRUE
<1> DEFINE old == job[j]
           n == old.attempts - 1
           new == [old EXCEPT !.status = "paused", !.attempts = n, !.fence = 0, !.cancel = FALSE,
                              !.due = TRUE, !.retryOf = j, !.resumes = TRUE]
<1>1. Successor(j) = new
    BY DEF Successor
<1>2. "paused" \in Statuses /\ n \in 0..MaxAttempts /\ j \in 0..MaxJobs
    BY StatusSets, RowFields, QueueAssumption DEF JobIds
<1>3. old \in Row
    OBVIOUS
<1> HIDE DEF old, n
<1>4. /\ new \in Row /\ new.status = "paused" /\ new.attempts = n
      /\ new.target = old.target /\ new.retryOf = j /\ new.resumes = TRUE
    BY <1>2, <1>3 DEF Row
<1> QED BY <1>1, <1>4 DEF old, n

\* The interrupted row ends and one that was absent continues it.
LEMMA FinishBlockedRows ==
    ASSUME IInv, NEW w \in Holders, FinishBlocked(w)
    PROVE  /\ AllKeep
           /\ \E k \in JobIds :
                 /\ Fresh(k)
                 /\ job[holder[w].job].status = "running"
                 /\ job'[holder[w].job].status = "cancelled"
                 /\ job'[k].status = "paused"
                 /\ job'[k].target = job[holder[w].job].target
                 /\ job'[k].retryOf = holder[w].job /\ job'[k].resumes = TRUE
                 /\ job'[k].attempts = job[holder[w].job].attempts - 1
                 /\ \A i \in JobIds \ {k, holder[w].job} : job'[i] = job[i]
<1> DEFINE j == holder[w].job
           old == job[j]
           new == [old EXCEPT !.status = "cancelled"]
<1>1. /\ j \in JobIds /\ old.status = "running" /\ old.attempts >= 1
    BY Leased DEF FinishBlocked
<1>2. PICK k \in JobIds : Fresh(k) /\ job' = [job EXCEPT ![j].status = "cancelled", ![k] = Successor(j)]
    BY DEF FinishBlocked
<1>3. j # k /\ job[k].status = "absent"
    BY <1>1, <1>2 DEF Fresh
<1>4. /\ job'[j] = new /\ job'[k] = Successor(j)
      /\ \A i \in JobIds \ {k, j} : job'[i] = job[i]
    BY <1>1, <1>2, <1>3 DEF IInv, TypeOK
<1>5. old \in Row /\ old.attempts <= MaxAttempts
    BY <1>1, SameRow, RowFields, QueueAssumption
<1>6. /\ Successor(j) \in Row /\ Successor(j).status = "paused"
      /\ Successor(j).attempts = old.attempts - 1
      /\ Successor(j).target = old.target /\ Successor(j).retryOf = j /\ Successor(j).resumes = TRUE
    BY <1>1, <1>5, SuccessorRow
<1>7. "cancelled" \in Statuses
    BY StatusSets
<1> HIDE DEF old
<1>8. /\ new \in Row /\ new.status = "cancelled" /\ new.target = old.target
      /\ new.attempts = old.attempts /\ new.fence = old.fence /\ new.retryOf = old.retryOf
      /\ new.resumes = old.resumes
    BY <1>5, <1>7 DEF Row
<1> HIDE DEF new
<1>9. Keeps(old, new)
    BY <1>1, <1>5, <1>8, RowFields DEF Keeps, Advances, Started, Waiting, Terminal
<1>10. old.attempts \in Nat
    BY <1>5, RowFields
<1>11. Keeps(job[k], Successor(j))
    BY <1>3, <1>5, <1>6, <1>10, QueueAssumption DEF Keeps, Advances, Started, Waiting, Terminal
<1>12. AllKeep
    BY <1>4, <1>9, <1>11, SameRow DEF AllKeep, old
<1>13. /\ Fresh(k) /\ job[j].status = "running" /\ job'[j].status = "cancelled"
       /\ job'[k].status = "paused" /\ job'[k].target = job[j].target
       /\ job'[k].retryOf = j /\ job'[k].resumes = TRUE
       /\ job'[k].attempts = job[j].attempts - 1
       /\ \A i \in JobIds \ {k, j} : job'[i] = job[i]
    BY <1>1, <1>2, <1>4, <1>6, <1>8 DEF old
<1> HIDE DEF j
<1> QED BY <1>12, <1>13 DEF j

LEMMA CancelJobKeeps ==
    ASSUME IInv, NEW k \in JobIds, CancelJob(k) PROVE AllKeep
<1> SUFFICES ASSUME NEW j \in JobIds PROVE Keeps(job[j], job'[j])
    BY DEF AllKeep
<1> DEFINE old == job[j]
           t == job[k].target
           ended == \/ Kind(t) = "scan" /\ old.target = t /\ old.status \in Waiting
                    \/ j = k /\ old.status # "running"
           c == old.cancel \/ j = k
           s == IF ended THEN "cancelled" ELSE old.status
           new == [old EXCEPT !.cancel = c, !.status = s]
<1>1. job'[j] = new
    BY DEF CancelJob
<1>2. Keeps(old, old) /\ old \in Row
    BY SameRow
<1>3. ended => old.status \in Waiting
    BY StatusSets DEF CancelJob
<1>4. c \in BOOLEAN
    OBVIOUS
<1> HIDE DEF old, c, ended
<1>5. s \in Statuses /\ (s = "cancelled" \/ s = old.status)
    BY <1>2, RowFields, StatusSets
<1>6. s # old.status => s = "cancelled" /\ old.status \in Waiting
    BY <1>3
<1> HIDE DEF s
<1>7. /\ new \in Row /\ new.status = s /\ new.target = old.target
      /\ new.attempts = old.attempts /\ new.fence = old.fence /\ new.retryOf = old.retryOf
      /\ new.resumes = old.resumes
    BY <1>2, <1>4, <1>5 DEF Row
<1> HIDE DEF new
<1>8. Keeps(old, new)
    BY <1>2, <1>6, <1>7 DEF Keeps, Advances, Started, Waiting, Terminal
<1> QED BY <1>1, <1>8 DEF old

LEMMA CancelUploadKeeps ==
    ASSUME IInv, NEW f \in Files, CancelUpload(f) PROVE AllKeep
<1> SUFFICES ASSUME NEW j \in JobIds PROVE Keeps(job[j], job'[j])
    BY DEF AllKeep
<1> DEFINE old == job[j]
           revoked == old.target = f /\ old.status \in {"queued", "running", "retry_wait"}
           next == old.fence + 1
           new == [old EXCEPT !.status = "cancelled", !.fence = next]
<1>1. job'[j] = IF revoked THEN new ELSE old
    BY DEF CancelUpload
<1>2. Keeps(old, old) /\ old \in Row
    BY SameRow
<1> HIDE DEF old
<1>3. old.fence \in Nat /\ next \in Nat /\ next >= old.fence /\ "cancelled" \in Statuses
    BY <1>2, RowFields, StatusSets
<1> HIDE DEF next
<1>4. /\ new \in Row /\ new.status = "cancelled" /\ new.target = old.target
      /\ new.attempts = old.attempts /\ new.fence = next /\ new.retryOf = old.retryOf
      /\ new.resumes = old.resumes
    BY <1>2, <1>3 DEF Row
<1> HIDE DEF new
<1>5. revoked => Keeps(old, new)
    BY <1>2, <1>3, <1>4 DEF Keeps, Advances, Started, Waiting, Terminal
<1> QED BY <1>1, <1>2, <1>5 DEF old

LEMMA RestartAdvances ==
    ASSUME IInv, Restart, NEW j \in JobIds
    PROVE  /\ Advances(job[j], job'[j]) /\ job'[j].status # "running"
           /\ job'[j].attempts = job[j].attempts
<1> DEFINE old == job[j]
           s == IF old.cancel THEN "cancelled"
                ELSE IF old.attempts >= MaxAttempts THEN "failed" ELSE "retry_wait"
           next == old.fence + 1
           new == [old EXCEPT !.status = s, !.fence = next, !.due = TRUE]
<1>1. job'[j] = IF old.status # "running" THEN old ELSE new
    BY DEF Restart, Recovered
<1>2. Advances(old, old) /\ old \in Row
    BY SameRow DEF Keeps
<1> HIDE DEF old
<1>3. old.fence \in Nat /\ next \in Nat /\ next >= old.fence
    BY <1>2, RowFields
<1>4. s \in {"cancelled", "failed", "retry_wait"} /\ s \in Statuses
    BY StatusSets
<1>5. s = "retry_wait" => old.attempts < MaxAttempts
    BY <1>2, RowFields, QueueAssumption
<1> HIDE DEF next, s
<1>6. /\ new \in Row /\ new.status = s /\ new.target = old.target
      /\ new.attempts = old.attempts /\ new.fence = next /\ new.retryOf = old.retryOf
      /\ new.resumes = old.resumes
    BY <1>2, <1>3, <1>4 DEF Row
<1> HIDE DEF new
<1>7. old.status = "running" => Advances(old, new)
    BY <1>2, <1>3, <1>4, <1>5, <1>6 DEF Advances, Started, Waiting, Terminal
<1> QED BY <1>1, <1>2, <1>4, <1>6, <1>7 DEF old

-----------------------------------------------------------------------------
\* The rows of a step together.

LEMMA RowsOfStep ==
    ASSUME IInv, Next
    PROVE  /\ AllAdvance
           /\ \A j \in JobIds :
                 \/ Keeps(job[j], job'[j])
                 \/ \E w \in Holders : Claim(w, j)
                 \/ /\ Restart \/ \E w \in Holders : Finish(w) /\ holder[w].job = j
                    /\ job'[j].status # "running" /\ job'[j].attempts = job[j].attempts
<1> DEFINE Goal == /\ AllAdvance
                   /\ \A j \in JobIds :
                         \/ Keeps(job[j], job'[j])
                         \/ \E w \in Holders : Claim(w, j)
                         \/ /\ Restart \/ \E w \in Holders : Finish(w) /\ holder[w].job = j
                            /\ job'[j].status # "running" /\ job'[j].attempts = job[j].attempts
<1>0. AllKeep => Goal
    BY DEF AllKeep, AllAdvance, Keeps
<1>1. CASE Request
    BY <1>0, <1>1, RequestKeeps
<1>2. CASE \E j \in JobIds : BecomeDue(j)
    BY <1>0, <1>2, BecomeDueKeeps
<1>3. ASSUME NEW w \in Holders, Work(w) PROVE Goal
  <2>1. CASE \E j \in JobIds : Claim(w, j)
      BY <2>1, ClaimRows DEF AllAdvance, Keeps
  <2>2. CASE ClaimNothing(w)
      BY <1>0, <2>2, ClaimNothingKeeps
  <2>3. CASE EndsOperation(w)
      BY <1>0, <2>3, SameRows DEF EndsOperation, Publish, Fail
  <2>4. CASE ReadControl(w)
      BY <1>0, <2>4, SameRows DEF ReadControl
  <2>5. CASE FinishStale(w)
      BY <1>0, <2>5, SameRows DEF FinishStale
  <2>6. CASE Finish(w)
      BY <2>6, FinishAdvances DEF AllAdvance
  <2>7. CASE FinishBlocked(w)
      BY <1>0, <2>7, FinishBlockedRows
  <2> QED BY <1>3, <2>1, <2>2, <2>3, <2>4, <2>5, <2>6, <2>7 DEF Work, Finishes
<1>4. CASE \E w \in Holders : FinishLost(w)
    BY <1>0, <1>4, SameRows DEF FinishLost
<1>5. CASE \E j \in JobIds : CancelJob(j)
    BY <1>0, <1>5, CancelJobKeeps
<1>6. CASE \E f \in Files : CancelUpload(f)
    BY <1>0, <1>6, CancelUploadKeeps
<1>7. CASE \E l \in Licences : ChangeLicence(l)
    BY <1>0, <1>7, SameRows DEF ChangeLicence
<1>8. CASE Restart
    BY <1>8, RestartAdvances DEF AllAdvance
<1> QED BY <1>1, <1>2, <1>3, <1>4, <1>5, <1>6, <1>7, <1>8 DEF Next

LEMMA RowsTyped ==
    ASSUME IInv, Next PROVE job' \in [JobIds -> Row]
<1>1. \A j \in JobIds : job'[j] \in Row
    BY RowsOfStep DEF AllAdvance, Advances
<1>2. job' = [j \in JobIds |-> job'[j]]
  <2> USE DEF IInv, TypeOK
  <2>1. CASE Request
      BY <2>1 DEF Request, EnqueueExtract, ScheduleRoot, Verify, RetryScanErrors, Retry
  <2>2. CASE \E j \in JobIds : BecomeDue(j)
      BY <2>2 DEF BecomeDue
  <2>3. ASSUME NEW w \in Holders, Work(w) PROVE job' = [j \in JobIds |-> job'[j]]
    <3>1. CASE \E j \in JobIds : Claim(w, j)
        BY <3>1 DEF Claim, PauseBlocked
    <3>2. CASE ClaimNothing(w)
        BY <3>2 DEF ClaimNothing, PauseBlocked
    <3>3. CASE EndsOperation(w) \/ ReadControl(w) \/ FinishStale(w)
        BY <3>3 DEF EndsOperation, Publish, Fail, ReadControl, FinishStale
    <3>4. CASE Finish(w) \/ FinishBlocked(w)
        BY <3>4 DEF Finish, FinishBlocked
    <3> QED BY <2>3, <3>1, <3>2, <3>3, <3>4 DEF Work, Finishes
  <2>4. CASE \E w \in Holders : FinishLost(w)
      BY <2>4 DEF FinishLost
  <2>5. CASE \E j \in JobIds : CancelJob(j)
      BY <2>5 DEF CancelJob
  <2>6. CASE \E f \in Files : CancelUpload(f)
      BY <2>6 DEF CancelUpload
  <2>7. CASE \E l \in Licences : ChangeLicence(l)
      BY <2>7 DEF ChangeLicence
  <2>8. CASE Restart
      BY <2>8 DEF Restart
  <2> QED BY <2>1, <2>2, <2>3, <2>4, <2>5, <2>6, <2>7, <2>8 DEF Next
<1> QED BY <1>1, <1>2

\* Every step leaves a worker with what it held, or idle, or holding the row
\* it has just claimed.
LEMMA HoldersOfStep ==
    ASSUME IInv, Next
    PROVE  /\ holder' \in [Holders -> Held]
           /\ \A w \in Holders :
                 \/ holder'[w].pc = "idle"
                 \/ /\ Busy(w)
                    /\ holder'[w].job = holder[w].job
                    /\ holder'[w].fence = holder[w].fence
                    /\ holder'[w].attempts = holder[w].attempts
                    /\ ~Restart /\ ~Finish(w)
                 \/ \E j \in JobIds : Claim(w, j)
<1> DEFINE Goal == /\ holder' \in [Holders -> Held]
                   /\ \A w \in Holders :
                         \/ holder'[w].pc = "idle"
                         \/ /\ Busy(w)
                            /\ holder'[w].job = holder[w].job
                            /\ holder'[w].fence = holder[w].fence
                            /\ holder'[w].attempts = holder[w].attempts
                         \/ \E j \in JobIds : Claim(w, j)
<1>1. Idle \in Held /\ Idle.pc = "idle"
    BY QueueAssumption DEF Idle, Held, HolderStates, Causes
<1>2. UNCHANGED holder => Goal
    BY DEF IInv, TypeOK, Busy
<1>3. ASSUME NEW w \in Holders, Release(w) PROVE Goal
    BY <1>1, <1>3 DEF Release, IInv, TypeOK, Busy
<1>4. ASSUME NEW w \in Holders, Work(w) PROVE Goal
  <2>1. ASSUME NEW k \in JobIds, Claim(w, k) PROVE Goal
    <3> DEFINE new == [pc |-> "working", job |-> k, fence |-> job[k].fence + 1,
                       attempts |-> job[k].attempts + 1, cause |-> "ok"]
    <3>1. job[k].fence + 1 \in Nat /\ job[k].attempts + 1 \in Nat /\ k \in 0..MaxJobs
        BY SameRow, RowFields, QueueAssumption DEF JobIds
    <3>2. new \in Held
        BY <3>1 DEF Held, HolderStates, Causes
    <3>3. holder' = [holder EXCEPT ![w] = new]
        BY <2>1 DEF Claim
    <3> QED BY <2>1, <3>2, <3>3 DEF IInv, TypeOK, Busy
  <2>2. ASSUME NEW cause \in Causes, holder[w].pc # "idle", EndOperation(w, cause) PROVE Goal
    <3> DEFINE old == holder[w]
               new == [old EXCEPT !.pc = "ended", !.cause = cause]
    <3>1. holder' = [holder EXCEPT ![w] = new]
        BY <2>2 DEF EndOperation
    <3>2. old \in Held
        BY DEF IInv, TypeOK
    <3>3. new \in Held /\ new.job = old.job /\ new.fence = old.fence /\ new.attempts = old.attempts
        BY <3>2 DEF Held, HolderStates
    <3> HIDE DEF new
    <3> QED BY <2>2, <3>1, <3>3 DEF IInv, TypeOK, Busy
  <2>3. CASE ReadControl(w)
    <3> DEFINE old == holder[w]
               cause == IF job[old.job].cancel THEN "user_cancelled" ELSE old.cause
               new == [old EXCEPT !.pc = "finishing", !.cause = cause]
    <3>1. holder' = [holder EXCEPT ![w] = new] /\ old.pc # "idle"
        BY <2>3 DEF ReadControl
    <3>2. old \in Held
        BY DEF IInv, TypeOK
    <3>3. cause \in Causes
        BY <3>2 DEF Held, Causes
    <3> HIDE DEF cause
    <3>4. new \in Held /\ new.job = old.job /\ new.fence = old.fence /\ new.attempts = old.attempts
        BY <3>2, <3>3 DEF Held, HolderStates
    <3> HIDE DEF new
    <3> QED BY <3>1, <3>4 DEF IInv, TypeOK, Busy
  <2>4. CASE ClaimNothing(w)
      BY <1>2, <2>4 DEF ClaimNothing
  <2>5. CASE Finishes(w)
      BY <1>3, <2>5 DEF Finishes, FinishStale, Finish, FinishBlocked
  <2>6. CASE EndsOperation(w)
      BY <2>2, <2>6 DEF EndsOperation, Publish, Fail, Causes
  <2> QED BY <1>4, <2>1, <2>3, <2>4, <2>5, <2>6 DEF Work
<1>5. CASE Restart
    BY <1>1, <1>5 DEF Restart
<1>6. Next => Goal
    BY <1>2, <1>3, <1>4, <1>5 DEF Next, Request, EnqueueExtract, ScheduleRoot, Verify,
       RetryScanErrors, Retry, BecomeDue, FinishLost, CancelJob, CancelUpload, ChangeLicence
<1>7. \A w \in Holders : Restart \/ Finish(w) => holder'[w].pc = "idle"
    BY <1>1 DEF Restart, Finish, Release, IInv, TypeOK
<1> QED BY <1>6, <1>7

LEMMA AttemptsTyped ==
    ASSUME IInv, Next PROVE attempt' \subseteq AttemptRow
<1>1. ASSUME NEW a \in AttemptRow PROVE [a EXCEPT !.open = FALSE] \in AttemptRow
    BY DEF AttemptRow
<1>2. UNCHANGED attempt => attempt' \subseteq AttemptRow
    BY DEF IInv, TypeOK
<1>3. ASSUME NEW w \in Holders, CloseAttempt(w) PROVE attempt' \subseteq AttemptRow
    BY <1>1, <1>3 DEF CloseAttempt, IInv, TypeOK
<1>4. ASSUME NEW w \in Holders, NEW k \in JobIds, Claim(w, k) PROVE attempt' \subseteq AttemptRow
  <2>1. job[k].fence + 1 \in Nat
      BY SameRow, RowFields
  <2>2. [job |-> k, fence |-> job[k].fence + 1, open |-> TRUE] \in AttemptRow
      BY <2>1 DEF AttemptRow
  <2> QED BY <1>4, <2>2 DEF Claim, IInv, TypeOK
<1>5. CASE Restart
    BY <1>1, <1>5 DEF Restart, IInv, TypeOK
<1> QED BY <1>2, <1>3, <1>4, <1>5 DEF Next, Request, EnqueueExtract, ScheduleRoot, Verify,
    RetryScanErrors, Retry, BecomeDue, Work, ClaimNothing, EndsOperation, Publish, Fail,
    ReadControl, Finishes, FinishStale, Finish, FinishBlocked, FinishLost, CancelJob,
    CancelUpload, ChangeLicence

LEMMA RestTyped ==
    ASSUME IInv, Next
    PROVE  /\ withdrawn' \subseteq Files
           /\ rootPaused' \in [Roots -> BOOLEAN]
           /\ licence' \in Licences
           /\ restarts' \in 0..MaxRestarts
           /\ lost' \in 0..MaxLostFinishes
<1> USE DEF IInv, TypeOK
<1>1. withdrawn' \subseteq Files
    BY DEF Next, Request, EnqueueExtract, ScheduleRoot, Verify,
    RetryScanErrors, Retry, BecomeDue, Work, Claim, ClaimNothing, EndsOperation, Publish, Fail,
    ReadControl, Finishes, FinishStale, Finish, FinishBlocked, FinishLost, CancelJob,
    CancelUpload, ChangeLicence, Restart
<1>2. rootPaused' \in [Roots -> BOOLEAN]
  <2>1. CASE \E j \in JobIds : CancelJob(j)
      BY <2>1 DEF CancelJob
  <2>2. CASE \E j \in JobIds : Retry(j)
      BY <2>2 DEF Retry
  <2>3. CASE \E r \in Roots : Verify(r)
      BY <2>3 DEF Verify
  <2> QED BY <2>1, <2>2, <2>3 DEF Next, Request, EnqueueExtract, ScheduleRoot,
      RetryScanErrors, BecomeDue, Work, Claim, ClaimNothing, EndsOperation, Publish, Fail,
      ReadControl, Finishes, FinishStale, Finish, FinishBlocked, FinishLost,
      CancelUpload, ChangeLicence, Restart
<1>3. licence' \in Licences
    BY DEF Next, Request, EnqueueExtract, ScheduleRoot, Verify,
    RetryScanErrors, Retry, BecomeDue, Work, Claim, ClaimNothing, EndsOperation, Publish, Fail,
    ReadControl, Finishes, FinishStale, Finish, FinishBlocked, FinishLost, CancelJob,
    CancelUpload, ChangeLicence, Restart
<1>4. restarts' = restarts \/ (restarts < MaxRestarts /\ restarts' = restarts + 1)
    BY DEF Next, Request, EnqueueExtract, ScheduleRoot, Verify,
    RetryScanErrors, Retry, BecomeDue, Work, Claim, ClaimNothing, EndsOperation, Publish, Fail,
    ReadControl, Finishes, FinishStale, Finish, FinishBlocked, FinishLost, CancelJob,
    CancelUpload, ChangeLicence, Restart
<1>5. lost' = lost \/ (lost < MaxLostFinishes /\ lost' = lost + 1)
    BY DEF Next, Request, EnqueueExtract, ScheduleRoot, Verify,
    RetryScanErrors, Retry, BecomeDue, Work, Claim, ClaimNothing, EndsOperation, Publish, Fail,
    ReadControl, Finishes, FinishStale, Finish, FinishBlocked, FinishLost, CancelJob,
    CancelUpload, ChangeLicence, Restart
<1>6. restarts \in 0..MaxRestarts /\ lost \in 0..MaxLostFinishes
    OBVIOUS
<1> HIDE DEF IInv, TypeOK
<1>7. restarts' \in 0..MaxRestarts /\ lost' \in 0..MaxLostFinishes
    BY <1>4, <1>5, <1>6, QueueAssumption
<1> QED BY <1>1, <1>2, <1>3, <1>7

LEMMA InitIInv == Init => IInv
<1> SUFFICES ASSUME Init PROVE IInv
    OBVIOUS
<1>1. NoRow("none") \in Row /\ NoRow("none").status = "absent"
    BY NoRowIsRow
<1>2. job \in [JobIds -> Row] /\ \A j \in JobIds : job[j].status = "absent"
    BY <1>1 DEF Init
<1>3. Idle \in Held /\ Idle.pc = "idle"
    BY QueueAssumption DEF Idle, Held, HolderStates, Causes
<1>4. holder \in [Holders -> Held] /\ \A w \in Holders : ~Busy(w)
    BY <1>3 DEF Init, Busy
<1>5. TypeOK
    BY <1>2, <1>4, QueueAssumption DEF Init, TypeOK
<1>6. WaitingHasBudget /\ RunningCharged
    BY <1>2, StatusSets DEF WaitingHasBudget, RunningCharged
<1>7. HeldRows /\ HeldOnce
    BY <1>4 DEF HeldRows, HeldOnce
<1> QED BY <1>5, <1>6, <1>7 DEF IInv

\* A worker that holds a row keeps it among the rows that were claimed.
LEMMA StepIInv == IInv /\ [Next]_vars => IInv'
<1> SUFFICES ASSUME IInv, [Next]_vars PROVE IInv'
    OBVIOUS
<1>1. CASE UNCHANGED vars
    BY <1>1 DEF vars, IInv, TypeOK, WaitingHasBudget, RunningCharged, HeldRows, HeldOnce, Busy
<1>2. CASE Next
  <2>1. TypeOK'
      BY <1>2, RowsTyped, HoldersOfStep, AttemptsTyped, RestTyped DEF TypeOK
  <2>2. WaitingHasBudget' /\ RunningCharged'
      BY <1>2, RowsOfStep DEF AllAdvance, Advances, WaitingHasBudget, RunningCharged
  <2>3. ASSUME NEW w \in Holders, Busy(w), ~Restart, ~Finish(w),
               holder'[w].job = holder[w].job, holder'[w].fence = holder[w].fence,
               holder'[w].attempts = holder[w].attempts
        PROVE  /\ holder'[w].job \in JobIds
               /\ job'[holder'[w].job].status \in Started
               /\ job'[holder'[w].job].attempts = holder'[w].attempts
               /\ holder'[w].fence <= job'[holder'[w].job].fence
    <3> DEFINE j == holder[w].job
    <3>1. /\ j \in JobIds /\ job[j].status \in Started
          /\ job[j].attempts = holder[w].attempts /\ holder[w].fence <= job[j].fence
        BY <2>3 DEF IInv, HeldRows, HeldOnce
    <3>2. ~\E v \in Holders : Finish(v) /\ holder[v].job = j
        BY <2>3 DEF Finish, Busy, IInv, HeldOnce
    <3>3. Keeps(job[j], job'[j])
      <4>1. ~\E v \in Holders : Claim(v, j)
          BY <3>1, ClaimRows, StatusSets
      <4> QED BY <1>2, <2>3, <3>1, <3>2, <4>1, RowsOfStep
    <3>4. job'[j].status \in Started /\ job'[j].attempts = job[j].attempts /\ job'[j].fence >= job[j].fence
        BY <3>1, <3>3, StatusSets DEF Keeps, Advances
    <3>5. holder[w].fence \in Nat /\ job[j].fence \in Nat /\ job'[j].fence \in Nat
        BY <3>1, <3>3, SameRow, RowFields DEF Keeps, Advances, IInv, TypeOK, Held
    <3> QED BY <2>3, <3>1, <3>4, <3>5
  <2>4. ASSUME NEW w \in Holders, NEW k \in JobIds, Claim(w, k)
        PROVE  /\ holder'[w].job = k /\ job'[k].status \in Started
               /\ job'[k].attempts = holder'[w].attempts
               /\ holder'[w].fence = job'[k].fence
               /\ job[k].status \in Waiting
               /\ \A v \in Holders : v # w => holder'[v] = holder[v]
    <3>1. /\ job[k].status \in Waiting /\ job'[k].status = "running"
          /\ job'[k].attempts = job[k].attempts + 1 /\ job'[k].fence = job[k].fence + 1
        BY <2>4, ClaimRows
    <3>2. holder' = [holder EXCEPT ![w] =
                       [pc |-> "working", job |-> k, fence |-> job[k].fence + 1,
                        attempts |-> job[k].attempts + 1, cause |-> "ok"]]
        BY <2>4 DEF Claim
    <3> QED BY <3>1, <3>2, StatusSets DEF IInv, TypeOK
  <2>5. HeldRows'
      BY <1>2, <2>3, <2>4, HoldersOfStep DEF HeldRows, Busy
  <2>6. \A w \in Holders : Busy(w)' => holder'[w].fence <= job'[holder'[w].job].fence
    <3> SUFFICES ASSUME NEW w \in Holders, Busy(w)'
                 PROVE  holder'[w].fence <= job'[holder'[w].job].fence
        OBVIOUS
    <3>1. CASE \E k \in JobIds : Claim(w, k)
        BY <2>1, <2>4, <3>1, RowFields DEF TypeOK
    <3>2. CASE ~\E k \in JobIds : Claim(w, k)
        BY <1>2, <2>3, <3>2, HoldersOfStep DEF Busy
    <3> QED BY <3>1, <3>2
  <2>7. ASSUME NEW w \in Holders, NEW v \in Holders, v # w, Busy(w)', Busy(v)',
               holder'[v].job = holder'[w].job
        PROVE  FALSE
    <3>1. ASSUME NEW x \in Holders, NEW y \in Holders, x # y, Busy(y)', NEW k \in JobIds, Claim(x, k)
          PROVE  holder'[y].job # k
      <4>1. holder'[y] = holder[y] /\ Busy(y) /\ job[k].status \in Waiting
          BY <2>4, <3>1 DEF Busy
      <4>2. job[holder[y].job].status \in Started
          BY <4>1 DEF IInv, HeldRows
      <4> QED BY <4>1, <4>2, StatusSets
    <3>2. CASE \E k \in JobIds : Claim(w, k) \/ Claim(v, k)
        BY <2>4, <2>7, <3>1, <3>2
    <3>3. CASE ~\E k \in JobIds : Claim(w, k) \/ Claim(v, k)
        BY <1>2, <2>7, <3>3, HoldersOfStep DEF Busy, IInv, HeldOnce
    <3> QED BY <3>2, <3>3
  <2>8. HeldOnce'
      BY <2>6, <2>7 DEF HeldOnce, Busy
  <2> QED BY <2>1, <2>2, <2>5, <2>8 DEF IInv
<1> QED BY <1>1, <1>2

\* The invariant behind the theorems holds in every reachable state.
LEMMA Invariant == Spec => []IInv
<1> QED BY InitIInv, StepIInv, PTL DEF Spec

-----------------------------------------------------------------------------
(***************************************************************************)
(* Theorems.                                                               *)
(***************************************************************************)

\* Every variable keeps its type; in particular no row is charged more than
\* max_attempts attempts, the CHECK constraint of the table jobs, so no claim
\* and no licence successor is ever rejected by it.
THEOREM QueueTypeCorrect == Spec => []TypeOK
<1>1. IInv => TypeOK
    BY DEF IInv
<1> QED BY <1>1, Invariant, PTL

\* A job that waits always has an attempt left, so that the filter of claimLane
\* never hides it, whatever mix of retries, licence pauses and restarts.
THEOREM WaitingJobsHaveBudget == Spec => []WaitingHasBudget
<1>1. IInv => WaitingHasBudget
    BY DEF IInv
<1> QED BY <1>1, Invariant, PTL

\* Two workers never hold the same job, and the fence a worker holds is never
\* ahead of its row, however many workers, jobs, cancellations and restarts.
THEOREM JobsAreHeldOnce == Spec => []HeldOnce
<1>1. IInv => HeldOnce
    BY DEF IInv
<1> QED BY <1>1, Invariant, PTL

\* A job that has ended never changes its status again.
THEOREM EndedJobsStayEnded == Spec => TerminalIsFinal
<1>1. IInv /\ [Next]_vars => [\A j \in JobIds : job[j].status \in Terminal => job'[j].status = job[j].status]_vars
  <2> SUFFICES ASSUME IInv, Next
               PROVE  \A j \in JobIds : job[j].status \in Terminal => job'[j].status = job[j].status
      OBVIOUS
  <2> QED BY RowsOfStep DEF AllAdvance, Advances
<1> QED BY <1>1, Invariant, PTL DEF Spec, TerminalIsFinal


-----------------------------------------------------------------------------
\* Inserted rows.

StaysAbsent(i) ==
    job[i].status = "absent" =>
        /\ job'[i].status = "absent" /\ job'[i].retryOf = job[i].retryOf
        /\ job'[i].resumes = job[i].resumes /\ job'[i].attempts = job[i].attempts

InsertsNothing == \A i \in JobIds : StaysAbsent(i)

\* An inserted row follows nothing, or a job that has ended without a follower;
\* if its target is a root, it is the only active row of that root.  It starts
\* without attempts, or with those of the job it resumes but one.
Inserts(k) ==
    /\ job[k].status = "absent"
    /\ \A i \in JobIds \ {k} : StaysAbsent(i)
    /\ job'[k].status \in Waiting
    /\ \/ job'[k].retryOf = 0
       \/ /\ job'[k].retryOf \in JobIds /\ ~HasFollower(job'[k].retryOf)
          /\ job'[job'[k].retryOf].status \in Terminal
    /\ \/ ~job'[k].resumes /\ job'[k].attempts = 0
       \/ /\ job'[k].resumes /\ job'[k].retryOf # 0
          /\ job'[k].attempts = job[job'[k].retryOf].attempts - 1
    /\ job'[k].target \in Roots =>
          \A i \in JobIds \ {k} :
              job'[i].target = job'[k].target => job'[i].status \notin Active

\* A row that resumes nothing is inserted, and it alone changes.
Adds(k) == Inserts(k) /\ ~job'[k].resumes /\ \A i \in JobIds \ {k} : job'[i] = job[i]

\* A row names as its predecessor one that has ended.
FollowersOfEnded ==
    \A i \in JobIds :
        /\ job[i].status = "absent" => job[i].retryOf = 0
        /\ job[i].retryOf # 0 => job[job[i].retryOf].status \in Terminal

HistoryInv == IInv /\ FollowersOfEnded /\ LinearChains /\ ExclusiveTargets

LEMMA InsertedQueued ==
    ASSUME HistoryInv, NEW t \in Targets \cup {"none"}, NEW prior \in 0..MaxJobs, NEW k \in JobIds,
           Fresh(k) /\ job' = [job EXCEPT ![k] = Queued(t, prior)],
           prior # 0 => prior \in JobIds /\ ~HasFollower(prior) /\ job[prior].status \in Terminal,
           t \in Roots => ~ActiveOn(t)
    PROVE  Adds(k)
<1>1. /\ Queued(t, prior).status = "queued" /\ Queued(t, prior).target = t
      /\ Queued(t, prior).retryOf = prior /\ Queued(t, prior).attempts = 0
      /\ Queued(t, prior).resumes = FALSE
    BY QueuedRow
<1>2. job[k].status = "absent" /\ job'[k] = Queued(t, prior)
      /\ \A i \in JobIds \ {k} : job'[i] = job[i]
    BY DEF Fresh, HistoryInv, IInv, TypeOK
<1>3. "queued" \in Waiting /\ "absent" \notin Terminal
    BY StatusSets DEF Terminal
<1> QED BY <1>1, <1>2, <1>3 DEF Adds, Inserts, StaysAbsent, ActiveOn

\* A request leaves the rows alone or inserts one that resumes nothing.
LEMMA RequestInserts ==
    ASSUME HistoryInv, Request
    PROVE  InsertsNothing \/ \E k \in JobIds : Adds(k)
<1> DEFINE Goal == InsertsNothing \/ \E k \in JobIds : Adds(k)
<1>0. IInv
    BY DEF HistoryInv
<1>1. UNCHANGED job => Goal
    BY DEF InsertsNothing, StaysAbsent
<1>2. ASSUME NEW t \in Files \cup Roots, t \in Roots => ~ActiveOn(t),
             \E k \in JobIds : Fresh(k) /\ job' = [job EXCEPT ![k] = Queued(t, 0)]
      PROVE  Goal
  <2>1. t \in Targets \cup {"none"} /\ 0 \in 0..MaxJobs
      BY QueueAssumption DEF Targets
  <2>2. PICK k \in JobIds : Fresh(k) /\ job' = [job EXCEPT ![k] = Queued(t, 0)]
      BY <1>2
  <2>3. Adds(k)
      BY <1>2, <2>1, <2>2, InsertedQueued
  <2> QED BY <2>3
<1>3. CASE \E f \in Files : EnqueueExtract(f)
  <2>1. Files \cap Roots = {}
      BY QueueAssumption DEF Roots
  <2> QED BY <1>2, <1>3, <2>1 DEF EnqueueExtract
<1>4. CASE \E r \in Roots : ScheduleRoot(r)
    BY <1>2, <1>4 DEF ScheduleRoot
<1>5. CASE \E r \in Roots : Verify(r)
    BY <1>1, <1>2, <1>5 DEF Verify
<1>6. CASE \E r \in Roots : RetryScanErrors(r)
    BY <1>2, <1>6 DEF RetryScanErrors
<1>7. CASE \E j \in JobIds : Retry(j)
  <2>1. PICK j \in JobIds : Retry(j)
      BY <1>7
  <2>2. PICK k \in JobIds : Fresh(k) /\ job' = [job EXCEPT ![k] = Queued(job[j].target, j)]
      BY <2>1 DEF Retry
  <2>3. /\ job[j].target \in Targets \cup {"none"} /\ j \in 0..MaxJobs
      BY <1>0, SameRow, RowFields DEF JobIds
  <2>4. /\ job[j].status \in Terminal /\ ~HasFollower(j)
        /\ job[j].target \in Roots => ~ActiveOn(job[j].target)
      BY <2>1 DEF Retry, Terminal
  <2>5. Adds(k)
      BY <2>2, <2>3, <2>4, InsertedQueued
  <2> QED BY <2>5
<1> QED BY <1>3, <1>4, <1>5, <1>6, <1>7 DEF Request

LEMMA ClaimInserts ==
    ASSUME NEW w \in Holders, NEW k \in JobIds, Claim(w, k) PROVE InsertsNothing
<1>1. job' = [PauseBlocked({i \in Claimable(w) : i < k}) EXCEPT
                 ![k].status = "running", ![k].attempts = job[k].attempts + 1,
                 ![k].fence = job[k].fence + 1]
    BY DEF Claim
<1>2. \A i \in JobIds : i # k => job'[i] = PauseBlocked({x \in Claimable(w) : x < k})[i]
    BY <1>1 DEF PauseBlocked
<1>3. \A i \in Claimable(w) : job[i].status # "absent"
    BY DEF Claimable, Waiting
<1>4. job[k].status # "absent"
    BY <1>3 DEF Claim
<1> QED BY <1>2, <1>3, <1>4 DEF InsertsNothing, StaysAbsent, PauseBlocked

LEMMA FinishBlockedInserts ==
    ASSUME HistoryInv, NEW w \in Holders, FinishBlocked(w)
    PROVE  \E k \in JobIds : Inserts(k)
<1> DEFINE j == holder[w].job
<1>0. IInv
    BY DEF HistoryInv
<1>1. PICK k \in JobIds : /\ Fresh(k)
                          /\ job[j].status = "running" /\ job'[j].status = "cancelled"
                          /\ job'[k].status = "paused"
                          /\ job'[k].target = job[j].target /\ job'[k].retryOf = j
                          /\ job'[k].attempts = job[j].attempts - 1 /\ job'[k].resumes = TRUE
                          /\ \A i \in JobIds \ {k, j} : job'[i] = job[i]
    BY <1>0, FinishBlockedRows
<1>2. j \in JobIds
    BY <1>0, Leased DEF FinishBlocked
<1>3. job[k].status = "absent" /\ k # j
    BY <1>1 DEF Fresh
<1>4. ~HasFollower(j)
    BY <1>1, <1>2, StatusSets DEF HasFollower, HistoryInv, FollowersOfEnded, JobIds
<1>5. \A i \in JobIds \ {k} :
          job'[i].target = job[j].target /\ job[j].target \in Roots => job'[i].status \notin Active
    BY <1>1, <1>2, <1>3, StatusSets DEF HistoryInv, ExclusiveTargets, Terminal, Active, Waiting
<1>6. "paused" \in Waiting /\ "cancelled" \in Terminal
    BY StatusSets
<1>7. Inserts(k)
    BY <1>1, <1>2, <1>3, <1>4, <1>5, <1>6 DEF Inserts, StaysAbsent, JobIds
<1> QED BY <1>7

LEMMA CancelJobInserts ==
    ASSUME IInv, NEW k \in JobIds, CancelJob(k) PROVE InsertsNothing
<1> SUFFICES ASSUME NEW i \in JobIds, job[i].status = "absent"
             PROVE  /\ job'[i].status = "absent" /\ job'[i].retryOf = job[i].retryOf
                    /\ job'[i].resumes = job[i].resumes /\ job'[i].attempts = job[i].attempts
    BY DEF InsertsNothing, StaysAbsent
<1>1. i # k /\ job[i].status \notin Waiting
    BY DEF CancelJob, Active, Waiting
<1>2. job[i] \in Row
    BY SameRow
<1> DEFINE old == job[i]
           c == old.cancel \/ i = k
           s == old.status
           new == [old EXCEPT !.cancel = c, !.status = s]
<1>3. job'[i] = new
    BY <1>1 DEF CancelJob
<1>4. c \in BOOLEAN /\ s \in Statuses
    BY <1>2, RowFields
<1> HIDE DEF c, s
<1>5. /\ new.status = s /\ new.retryOf = old.retryOf
      /\ new.resumes = old.resumes
      /\ new.attempts = old.attempts
    BY <1>2, <1>4 DEF Row
<1> QED BY <1>3, <1>5 DEF s

\* A step keeps the rows there are, or adds a request, or interrupts, claims,
\* finishes or recovers.
LEMMA StepKinds ==
    ASSUME HistoryInv, Next
    PROVE  \/ AllKeep /\ InsertsNothing
           \/ AllKeep /\ \E k \in JobIds : Adds(k)
           \/ \E w \in Holders : FinishBlocked(w)
           \/ InsertsNothing /\ \E w \in Holders : Finish(w) \/ \E k \in JobIds : Claim(w, k)
           \/ InsertsNothing /\ Restart
<1> DEFINE Goal == \/ AllKeep /\ InsertsNothing
                   \/ AllKeep /\ \E k \in JobIds : Adds(k)
                   \/ \E w \in Holders : FinishBlocked(w)
                   \/ InsertsNothing /\ \E w \in Holders :
                          Finish(w) \/ \E k \in JobIds : Claim(w, k)
                   \/ InsertsNothing /\ Restart
<1>0. IInv
    BY DEF HistoryInv
<1>1. UNCHANGED job => Goal
    BY <1>0, SameRows DEF InsertsNothing, StaysAbsent
<1>2. CASE Request
    BY <1>0, <1>2, RequestKeeps, RequestInserts
<1>3. CASE \E j \in JobIds : BecomeDue(j)
  <2>1. InsertsNothing
      BY <1>0, <1>3, StatusSets DEF BecomeDue, InsertsNothing, StaysAbsent, IInv, TypeOK, Waiting
  <2> QED BY <1>0, <1>3, <2>1, BecomeDueKeeps
<1>4. ASSUME NEW w \in Holders, Work(w) PROVE Goal
  <2>1. CASE \E k \in JobIds : Claim(w, k)
      BY <2>1, ClaimInserts
  <2>2. CASE ClaimNothing(w)
    <3>1. InsertsNothing
        BY <2>2 DEF ClaimNothing, PauseBlocked, InsertsNothing, StaysAbsent, Claimable, Waiting
    <3> QED BY <1>0, <2>2, <3>1, ClaimNothingKeeps
  <2>3. CASE EndsOperation(w) \/ ReadControl(w) \/ FinishStale(w)
      BY <1>1, <2>3 DEF EndsOperation, Publish, Fail, ReadControl, FinishStale
  <2>4. CASE Finish(w)
    <3>1. holder[w].job \in JobIds /\ job[holder[w].job].status = "running"
        BY <1>0, <2>4, Leased DEF Finish
    <3>2. InsertsNothing
        BY <1>0, <2>4, <3>1 DEF Finish, InsertsNothing, StaysAbsent, IInv, TypeOK
    <3> QED BY <2>4, <3>2
  <2>5. CASE FinishBlocked(w)
      BY <2>5
  <2> QED BY <1>4, <2>1, <2>2, <2>3, <2>4, <2>5 DEF Work, Finishes
<1>5. CASE \E w \in Holders : FinishLost(w)
    BY <1>1, <1>5 DEF FinishLost
<1>6. CASE \E j \in JobIds : CancelJob(j)
    BY <1>0, <1>6, CancelJobKeeps, CancelJobInserts
<1>7. CASE \E f \in Files : CancelUpload(f)
  <2>1. InsertsNothing
      BY <1>7 DEF CancelUpload, InsertsNothing, StaysAbsent
  <2> QED BY <1>0, <1>7, <2>1, CancelUploadKeeps
<1>8. CASE \E l \in Licences : ChangeLicence(l)
    BY <1>1, <1>8 DEF ChangeLicence
<1>9. CASE Restart
    BY <1>9 DEF Restart, Recovered, InsertsNothing, StaysAbsent
<1> QED BY <1>2, <1>3, <1>4, <1>5, <1>6, <1>7, <1>8, <1>9 DEF Next

LEMMA InsertionsOfStep ==
    ASSUME HistoryInv, Next PROVE InsertsNothing \/ \E k \in JobIds : Inserts(k)
  BY StepKinds, FinishBlockedInserts DEF Adds

LEMMA InitHistory == Init => HistoryInv
<1> SUFFICES ASSUME Init PROVE HistoryInv
    OBVIOUS
<1>1. \A j \in JobIds : job[j].status = "absent" /\ job[j].retryOf = 0
    BY NoRowIsRow DEF Init
<1> QED BY <1>1, InitIInv, StatusSets DEF HistoryInv, FollowersOfEnded, LinearChains, ExclusiveTargets

\* What the insertions of a step mean for the followers.
LEMMA StepChains ==
    ASSUME HistoryInv, Next PROVE FollowersOfEnded' /\ LinearChains'
<1>0. IInv /\ AllAdvance /\ (\A i \in JobIds : job[i] \in Row)
    BY RowsOfStep, SameRow DEF HistoryInv
<1>1. \A i \in JobIds : job[i].status # "absent" => job'[i].status # "absent" /\ job'[i].retryOf = job[i].retryOf
    BY <1>0 DEF AllAdvance, Advances
<1>2. \A i \in JobIds : job[i].status \in Terminal => job'[i].status \in Terminal
    BY <1>0 DEF AllAdvance, Advances
<1>3. \A i \in JobIds : job[i].retryOf # 0 => job[i].retryOf \in JobIds
    BY <1>0, RowFields, QueueAssumption DEF JobIds
<1>4. CASE InsertsNothing
  <2>1. \A i \in JobIds : job'[i].retryOf = job[i].retryOf /\ (job'[i].status = "absent" => job[i].status = "absent")
      BY <1>1, <1>4 DEF InsertsNothing, StaysAbsent
  <2> QED BY <1>2, <1>3, <2>1 DEF HistoryInv, FollowersOfEnded, LinearChains
<1>5. ASSUME NEW k \in JobIds, Inserts(k) PROVE FollowersOfEnded' /\ LinearChains'
  <2>1. \A i \in JobIds \ {k} : job'[i].retryOf = job[i].retryOf /\ (job'[i].status = "absent" => job[i].status = "absent")
      BY <1>1, <1>5 DEF Inserts, StaysAbsent
  <2>2. /\ job'[k].status # "absent"
        /\ \/ job'[k].retryOf = 0
           \/ /\ job'[k].retryOf \in JobIds /\ ~HasFollower(job'[k].retryOf)
              /\ job'[job'[k].retryOf].status \in Terminal
      BY <1>5, StatusSets DEF Inserts, Waiting
  <2>3. FollowersOfEnded'
      BY <1>2, <1>3, <2>1, <2>2 DEF HistoryInv, FollowersOfEnded
  <2>4. LinearChains'
      BY <2>1, <2>2 DEF HistoryInv, LinearChains, HasFollower
  <2> QED BY <2>3, <2>4
<1> QED BY <1>4, <1>5, InsertionsOfStep

\* A row becomes active only when it is inserted, and running only when a
\* worker claims it.
LEMMA StepExclusive ==
    ASSUME HistoryInv, Next PROVE ExclusiveTargets'
<1>0. IInv /\ AllAdvance
    BY RowsOfStep DEF HistoryInv
<1> SUFFICES ASSUME NEW i \in JobIds, NEW j \in JobIds, i # j, job'[i].target = job'[j].target
             PROVE  /\ ~(job'[i].status = "running" /\ job'[j].status = "running")
                    /\ job'[i].target \in Roots =>
                          ~(job'[i].status \in Active /\ job'[j].status \in Active)
    BY DEF ExclusiveTargets
<1>1. \A x \in JobIds : job[x].status # "absent" => job'[x].target = job[x].target
    BY <1>0 DEF AllAdvance, Advances
<1>2. \A x \in JobIds : job'[x].status = "running" =>
          job[x].status = "running" \/ \E w \in Holders : Claim(w, x)
    BY <1>0, RowsOfStep DEF Keeps
<1>3. ASSUME NEW w \in Holders, NEW x \in JobIds, NEW y \in JobIds, x # y, Claim(w, x),
             job'[x].target = job'[y].target, job'[y].status = "running"
      PROVE  FALSE
  <2>1. job[x].status \in Waiting /\ Keeps(job[y], job'[y])
      BY <1>0, <1>3, ClaimRows
  <2>2. job[y].status = "running"
      BY <1>3, <2>1 DEF Keeps
  <2>3. job[x].target = job[y].target
      BY <1>1, <1>3, <2>1, <2>2, StatusSets DEF Waiting
  <2> QED BY <1>3, <2>2, <2>3 DEF Claim, Claimable
<1>4. ~(job'[i].status = "running" /\ job'[j].status = "running")
  <2> SUFFICES ASSUME job'[i].status = "running", job'[j].status = "running" PROVE FALSE
      OBVIOUS
  <2>1. job[i].status = "running" /\ job[j].status = "running"
      BY <1>2, <1>3
  <2>2. job[i].target = job[j].target
      BY <1>1, <2>1
  <2> QED BY <2>1, <2>2 DEF HistoryInv, ExclusiveTargets
<1>5. ASSUME NEW x \in JobIds, StaysAbsent(x), job'[x].status \in Active
      PROVE  job[x].status \in Active /\ job'[x].target = job[x].target
  <2>1. job[x] \in Row /\ Advances(job[x], job'[x])
      BY <1>0, SameRow DEF AllAdvance
  <2>2. job[x].status \in Statuses
      BY <2>1, RowFields
  <2>3. job[x].status \notin Terminal
      BY <1>5, <2>1 DEF Advances, Active, Waiting, Terminal
  <2>4. job[x].status # "absent"
      BY <1>5, StatusSets DEF StaysAbsent
  <2> QED BY <1>1, <2>2, <2>3, <2>4 DEF Statuses
<1>6. job'[i].target \in Roots => ~(job'[i].status \in Active /\ job'[j].status \in Active)
  <2> SUFFICES ASSUME job'[i].target \in Roots, job'[i].status \in Active, job'[j].status \in Active
               PROVE  FALSE
      OBVIOUS
  <2>1. CASE InsertsNothing
      BY <1>5, <2>1 DEF InsertsNothing, HistoryInv, ExclusiveTargets
  <2>2. ASSUME NEW k \in JobIds, Inserts(k) PROVE FALSE
    <3>1. i # k /\ j # k
        BY <2>2 DEF Inserts
    <3> QED BY <1>5, <2>2, <3>1 DEF Inserts, HistoryInv, ExclusiveTargets
  <2> QED BY <2>1, <2>2, InsertionsOfStep
<1> QED BY <1>4, <1>6

LEMMA StepHistory == HistoryInv /\ [Next]_vars => HistoryInv'
<1> SUFFICES ASSUME HistoryInv, [Next]_vars PROVE HistoryInv'
    OBVIOUS
<1>1. CASE UNCHANGED vars
    BY <1>1, StepIInv DEF vars, HistoryInv, FollowersOfEnded, LinearChains, ExclusiveTargets
<1>2. CASE Next
    BY <1>2, StepIInv, StepChains, StepExclusive DEF HistoryInv
<1> QED BY <1>1, <1>2

\* A job has at most one follower, of whichever kind: a licence pause and a
\* manual retry never both continue it, so no work is queued twice.
THEOREM ChainsAreLinear == Spec => []LinearChains
<1>1. HistoryInv => LinearChains
    BY DEF HistoryInv
<1> QED BY <1>1, InitHistory, StepHistory, PTL DEF Spec

\* The partial unique indexes of jobs are never violated: no file and no root
\* has two running jobs, and no root has two active ones, so no transaction of
\* the queue fails on them.
THEOREM TargetsAreExclusive == Spec => []ExclusiveTargets
<1>1. HistoryInv => ExclusiveTargets
    BY DEF HistoryInv
<1> QED BY <1>1, InitHistory, StepHistory, PTL DEF Spec

-----------------------------------------------------------------------------
\* The history of attempts.

AttemptsOf(j) == {a \in attempt : a.job = j}

OpenUnheld ==
    {a \in attempt : /\ a.open
                     /\ ~\E w \in Holders : /\ Busy(w)
                                            /\ holder[w].job = a.job
                                            /\ holder[w].fence = a.fence}

\* Each row of the history is one lease of one job: no two share job and fence,
\* and none is ahead of the fence of its job.
AttemptsAreLeases ==
    /\ IsFiniteSet(attempt)
    /\ \A a \in attempt : job[a.job].status # "absent" /\ a.fence <= job[a.job].fence
    /\ \A a, b \in attempt : a.job = b.job /\ a.fence = b.fence => a = b

\* What a row inherits is a count of the row it resumes.
Inherits ==
    \A j \in JobIds :
        /\ job[j].status = "absent" => job[j].attempts = 0 /\ ~job[j].resumes
        /\ job[j].resumes => job[j].retryOf # 0

AttemptInv ==
    /\ HistoryInv /\ RunningIsHeld /\ OpenAttemptsAreHeld
    /\ AttemptsAreLeases /\ Inherits /\ AttemptsAccounted

\* A worker gives up what it holds by finishing it, by failing to, or because
\* the process ends.
LEMMA ReleasedOfStep ==
    ASSUME IInv, Next, NEW w \in Holders, Busy(w), holder'[w].pc = "idle"
    PROVE  Restart \/ Finishes(w) \/ FinishLost(w)
<1> USE DEF IInv, TypeOK, Busy
<1>1. UNCHANGED holder => FALSE
    OBVIOUS
<1>2. ASSUME NEW v \in Holders, Work(v) PROVE Finishes(w)
  <2>1. CASE v # w
      BY <1>2, <2>1 DEF Work, Claim, ClaimNothing, EndsOperation, Publish, Fail, EndOperation,
         ReadControl, Finishes, FinishStale, Finish, FinishBlocked, Release
  <2>2. CASE v = w
    <3>1. ~(\E k \in JobIds : Claim(w, k)) /\ ~ClaimNothing(w)
        BY DEF Claim, ClaimNothing
    <3>2. \A cause : ~EndOperation(w, cause)
      <4>1. ASSUME NEW cause, EndOperation(w, cause) PROVE holder'[w].pc = "ended"
        <5> DEFINE new == [holder[w] EXCEPT !.pc = "ended", !.cause = cause]
        <5>1. holder' = [holder EXCEPT ![w] = new]
            BY <4>1 DEF EndOperation
        <5>2. new.pc = "ended"
            BY DEF Held
        <5> QED BY <5>1, <5>2
      <4> QED BY <4>1
    <3>3. ~ReadControl(w)
      <4> SUFFICES ASSUME ReadControl(w) PROVE FALSE
          OBVIOUS
      <4> DEFINE cause == IF job[holder[w].job].cancel THEN "user_cancelled" ELSE holder[w].cause
                 new == [holder[w] EXCEPT !.pc = "finishing", !.cause = cause]
      <4>1. holder' = [holder EXCEPT ![w] = new]
          BY DEF ReadControl
      <4>2. new.pc = "finishing"
          BY DEF Held
      <4> QED BY <4>1, <4>2
    <3> QED BY <1>2, <2>2, <3>1, <3>2, <3>3 DEF Work, EndsOperation, Publish, Fail
  <2> QED BY <2>1, <2>2
<1>3. ASSUME NEW v \in Holders, FinishLost(v) PROVE FinishLost(w)
    BY <1>3 DEF FinishLost, Release
<1> QED BY <1>1, <1>2, <1>3 DEF Next, Request, EnqueueExtract, ScheduleRoot, Verify,
    RetryScanErrors, Retry, BecomeDue, CancelJob, CancelUpload, ChangeLicence

\* Only one worker loses its finish in a step.
LEMMA LosesOne ==
    ASSUME IInv, NEW v \in Holders, NEW w \in Holders, FinishLost(v), FinishLost(w)
    PROVE  v = w
<1>1. Idle.pc = "idle" /\ holder'[v] = Idle /\ (w # v => holder'[v] = holder[v])
    BY DEF FinishLost, Release, Idle, IInv, TypeOK
<1> QED BY <1>1 DEF FinishLost

\* A running row stays in the hands of its worker: a step that leaves another
\* one unheld is a finish that failed.
LEMMA UnheldOfStep ==
    ASSUME IInv, Next, NEW j \in Unheld', j \notin Unheld
    PROVE  \E w \in Holders : FinishLost(w) /\ j = holder[w].job
<1>1. j \in JobIds /\ job'[j].status = "running"
    BY DEF Unheld
<1>2. ~\E w \in Holders : Claim(w, j)
  <2> SUFFICES ASSUME NEW w \in Holders, Claim(w, j) PROVE FALSE
      OBVIOUS
  <2>1. job'[j].fence = job[j].fence + 1
      BY <1>1, ClaimRows
  <2>2. holder' = [holder EXCEPT ![w] =
                     [pc |-> "working", job |-> j, fence |-> job[j].fence + 1,
                      attempts |-> job[j].attempts + 1, cause |-> "ok"]]
      BY DEF Claim
  <2>3. holder'[w].pc = "working" /\ holder'[w].job = j /\ holder'[w].fence = job'[j].fence
      BY <2>1, <2>2 DEF IInv, TypeOK
  <2> QED BY <1>1, <2>3 DEF Unheld, Busy, HasLease
<1>3. Keeps(job[j], job'[j])
    BY <1>1, <1>2, RowsOfStep
<1>4. job[j].status = "running" /\ job'[j].fence = job[j].fence
    BY <1>1, <1>3 DEF Keeps
<1>5. PICK w \in Holders : Busy(w) /\ holder[w].job = j /\ HasLease(w)
    BY <1>1, <1>4 DEF Unheld
<1>6. ~(holder'[w].pc # "idle" /\ holder'[w].job = holder[w].job /\ holder'[w].fence = holder[w].fence)
    BY <1>1, <1>4, <1>5 DEF Unheld, Busy, HasLease
<1>7. ~\E k \in JobIds : Claim(w, k)
    BY <1>5 DEF Claim, Busy
<1>8. holder'[w].pc = "idle"
    BY <1>6, <1>7, HoldersOfStep
<1>9. Restart \/ Finishes(w) \/ FinishLost(w)
    BY <1>5, <1>8, ReleasedOfStep
<1>10. ~Restart
    BY <1>1, RestartAdvances
<1>11. ~FinishStale(w)
    BY <1>5 DEF FinishStale
<1>12. ~Finish(w)
    BY <1>1, <1>5, FinishAdvances
<1>13. ~FinishBlocked(w)
    BY <1>1, <1>5, FinishBlockedRows
<1> QED BY <1>5, <1>9, <1>10, <1>11, <1>12, <1>13 DEF Finishes

LEMMA LostGrows ==
    ASSUME IInv, Next
    PROVE  /\ lost \in Nat /\ lost' \in Nat /\ lost <= lost'
           /\ (\E w \in Holders : FinishLost(w)) => lost' = lost + 1
<1>1. lost \in 0..MaxLostFinishes /\ lost' \in 0..MaxLostFinishes
    BY RestTyped DEF IInv, TypeOK
<1>2. lost' = lost \/ lost' = lost + 1
    BY DEF Next, Request, EnqueueExtract, ScheduleRoot, Verify,
    RetryScanErrors, Retry, BecomeDue, Work, Claim, ClaimNothing, EndsOperation, Publish, Fail,
    ReadControl, Finishes, FinishStale, Finish, FinishBlocked, FinishLost, CancelJob,
    CancelUpload, ChangeLicence, Restart
<1>3. (\E w \in Holders : FinishLost(w)) => lost' = lost + 1
    BY DEF FinishLost
<1> QED BY <1>1, <1>2, <1>3, QueueAssumption

\* A set that grows by at most one element, and only when the counter does.
LEMMA GrowsWithLost ==
    ASSUME IInv, Next, NEW S, IsFiniteSet(S), Cardinality(S) <= lost, NEW T, NEW x,
           T \subseteq S \/ (T \subseteq S \cup {x} /\ \E w \in Holders : FinishLost(w))
    PROVE  Cardinality(T) <= lost'
<1>1. /\ lost \in Nat /\ lost' \in Nat /\ lost <= lost'
      /\ (\E w \in Holders : FinishLost(w)) => lost' = lost + 1
    BY LostGrows
<1>2. Cardinality(S) \in Nat
    BY FS_CardinalityType
<1>3. CASE T \subseteq S
  <2>1. IsFiniteSet(T) /\ Cardinality(T) <= Cardinality(S)
      BY <1>3, FS_Subset
  <2>2. Cardinality(T) \in Nat
      BY <2>1, FS_CardinalityType
  <2> QED BY <1>1, <1>2, <2>1, <2>2
<1>4. CASE T \subseteq S \cup {x} /\ \E w \in Holders : FinishLost(w)
  <2> DEFINE U == S \cup {x}
  <2>1. IsFiniteSet(U) /\ Cardinality(U) = IF x \in S THEN Cardinality(S) ELSE Cardinality(S) + 1
      BY FS_AddElement
  <2>2. IsFiniteSet(T) /\ Cardinality(T) <= Cardinality(U)
      BY <1>4, <2>1, FS_Subset
  <2>3. Cardinality(T) \in Nat
      BY <2>2, FS_CardinalityType
  <2> QED BY <1>1, <1>2, <1>4, <2>1, <2>2, <2>3
<1> QED BY <1>3, <1>4

LEMMA StepRunningIsHeld ==
    ASSUME IInv, RunningIsHeld, Next PROVE RunningIsHeld'
<1>1. IsFiniteSet(JobIds)
    BY FS_Interval, QueueAssumption DEF JobIds
<1>2. Unheld \in SUBSET JobIds
    BY DEF Unheld
<1>3. IsFiniteSet(Unheld) /\ Cardinality(Unheld) <= lost
    BY <1>1, <1>2, FS_Subset DEF RunningIsHeld
<1>4. CASE \E w \in Holders : FinishLost(w)
  <2>1. PICK w \in Holders : FinishLost(w)
      BY <1>4
  <2>2. Unheld' \subseteq Unheld \cup {holder[w].job}
      BY <2>1, UnheldOfStep, LosesOne
  <2> QED BY <1>3, <2>1, <2>2, GrowsWithLost DEF RunningIsHeld
<1>5. CASE ~\E w \in Holders : FinishLost(w)
  <2>1. Unheld' \subseteq Unheld
      BY <1>5, UnheldOfStep
  <2> QED BY <1>3, <2>1, GrowsWithLost DEF RunningIsHeld
<1> QED BY <1>4, <1>5

LEMMA AttemptsOfStep ==
    ASSUME IInv, Next
    PROVE  \/ UNCHANGED attempt \/ Restart
           \/ \E w \in Holders : Finishes(w)
           \/ \E w \in Holders : \E k \in JobIds : Claim(w, k)
  BY DEF Next, Request, EnqueueExtract, ScheduleRoot, Verify,
    RetryScanErrors, Retry, BecomeDue, Work, ClaimNothing, EndsOperation, Publish, Fail,
    ReadControl, FinishLost, CancelJob, CancelUpload, ChangeLicence

LEMMA FinishesClose ==
    ASSUME NEW w \in Holders, Finishes(w) PROVE CloseAttempt(w)
  BY DEF Finishes, FinishStale, Finish, FinishBlocked

\* A worker's attempt is open only while it works on it, unless its finish
\* failed.
LEMMA OpenUnheldOfStep ==
    ASSUME IInv, Next, NEW a \in OpenUnheld', a \notin OpenUnheld
    PROVE  \E w \in Holders :
              /\ FinishLost(w)
              /\ a = [job |-> holder[w].job, fence |-> holder[w].fence, open |-> TRUE]
<1>1. a \in attempt' /\ a.open /\ a \in AttemptRow /\ attempt \subseteq AttemptRow
    BY AttemptsTyped DEF OpenUnheld, IInv, TypeOK
<1>2. ~Restart
    BY <1>1 DEF Restart, AttemptRow
<1>3. ASSUME NEW w \in Holders, Finishes(w)
      PROVE  a \in attempt /\ ~(a.job = holder[w].job /\ a.fence = holder[w].fence)
  <2>1. PICK b \in attempt : a = IF b.job = holder[w].job /\ b.fence = holder[w].fence
                                 THEN [b EXCEPT !.open = FALSE] ELSE b
      BY <1>1, <1>3, FinishesClose DEF CloseAttempt
  <2>2. ~(b.job = holder[w].job /\ b.fence = holder[w].fence)
      BY <1>1, <2>1 DEF AttemptRow
  <2> QED BY <2>1, <2>2
<1>4. ASSUME NEW w \in Holders, NEW k \in JobIds, Claim(w, k) PROVE a \in attempt
  <2> DEFINE f == job[k].fence + 1
  <2>1. attempt' = attempt \cup {[job |-> k, fence |-> f, open |-> TRUE]}
      BY <1>4 DEF Claim
  <2>2. holder' = [holder EXCEPT ![w] =
                     [pc |-> "working", job |-> k, fence |-> f,
                      attempts |-> job[k].attempts + 1, cause |-> "ok"]]
      BY <1>4 DEF Claim
  <2>3. holder'[w].pc = "working" /\ holder'[w].job = k /\ holder'[w].fence = f
      BY <2>2 DEF IInv, TypeOK
  <2> HIDE DEF f
  <2> QED BY <1>1, <2>1, <2>3 DEF OpenUnheld, Busy
<1>5. a \in attempt
    BY <1>1, <1>2, <1>3, <1>4, AttemptsOfStep
<1>6. PICK w \in Holders : Busy(w) /\ holder[w].job = a.job /\ holder[w].fence = a.fence
    BY <1>1, <1>5 DEF OpenUnheld
<1>7. ~(holder'[w].pc # "idle" /\ holder'[w].job = holder[w].job /\ holder'[w].fence = holder[w].fence)
    BY <1>6 DEF OpenUnheld, Busy
<1>8. ~\E k \in JobIds : Claim(w, k)
    BY <1>6 DEF Claim, Busy
<1>9. holder'[w].pc = "idle"
    BY <1>7, <1>8, HoldersOfStep
<1>10. FinishLost(w)
    BY <1>2, <1>3, <1>6, <1>9, ReleasedOfStep
<1>11. a = [job |-> holder[w].job, fence |-> holder[w].fence, open |-> TRUE]
    BY <1>1, <1>6 DEF AttemptRow
<1> QED BY <1>10, <1>11

LEMMA StepOpenAttempts ==
    ASSUME IInv, IsFiniteSet(attempt), OpenAttemptsAreHeld, Next PROVE OpenAttemptsAreHeld'
<1>1. OpenUnheld \in SUBSET attempt
    BY DEF OpenUnheld
<1>2. IsFiniteSet(OpenUnheld) /\ Cardinality(OpenUnheld) <= lost
    BY <1>1, FS_Subset DEF OpenAttemptsAreHeld, OpenUnheld
<1>3. Cardinality(OpenUnheld') <= lost'
  <2>1. CASE \E w \in Holders : FinishLost(w)
    <3>1. PICK w \in Holders : FinishLost(w)
        BY <2>1
    <3>2. OpenUnheld' \subseteq OpenUnheld \cup
              {[job |-> holder[w].job, fence |-> holder[w].fence, open |-> TRUE]}
        BY <3>1, OpenUnheldOfStep, LosesOne
    <3> QED BY <1>2, <3>1, <3>2, GrowsWithLost
  <2>2. CASE ~\E w \in Holders : FinishLost(w)
    <3>1. OpenUnheld' \subseteq OpenUnheld
        BY <2>2, OpenUnheldOfStep
    <3> QED BY <1>2, <3>1, GrowsWithLost
  <2> QED BY <2>1, <2>2
<1> QED BY <1>3 DEF OpenAttemptsAreHeld, OpenUnheld

\* Closing rows of the history neither adds nor merges any.
LEMMA ClosedRows ==
    ASSUME NEW S \in SUBSET AttemptRow, IsFiniteSet(S), NEW f \in [S -> AttemptRow],
           \A a \in S : f[a].job = a.job /\ f[a].fence = a.fence,
           \A a, b \in S : a.job = b.job /\ a.fence = b.fence => a = b,
           NEW T, \A a \in S : f[a] \in T, \A t \in T : \E a \in S : t = f[a]
    PROVE  /\ IsFiniteSet(T)
           /\ \A a, b \in T : a.job = b.job /\ a.fence = b.fence => a = b
           /\ \A j : Cardinality({a \in T : a.job = j}) = Cardinality({a \in S : a.job = j})
<1>1. IsFiniteSet(T)
  <2>1. f \in Surjection(S, T)
      BY DEF Surjection
  <2> QED BY <2>1, FS_Surjection
<1>2. \A a, b \in T : a.job = b.job /\ a.fence = b.fence => a = b
    OBVIOUS
<1>3. ASSUME NEW j PROVE Cardinality({a \in T : a.job = j}) = Cardinality({a \in S : a.job = j})
  <2> DEFINE A == {a \in S : a.job = j}
             B == {a \in T : a.job = j}
             g == [a \in A |-> f[a]]
  <2>1. g \in [A -> B]
      OBVIOUS
  <2>2. \A a, b \in A : g[a] = g[b] => a = b
      OBVIOUS
  <2>3. \A b \in B : \E a \in A : g[a] = b
      OBVIOUS
  <2>4. IsFiniteSet(A)
      BY FS_Subset
  <2> HIDE DEF A, B, g
  <2>5. g \in Bijection(A, B)
      BY <2>1, <2>2, <2>3 DEF Bijection, Injection, Surjection, IsInjective
  <2>6. ExistsBijection(A, B)
      BY <2>5 DEF ExistsBijection
  <2>7. Cardinality(B) = Cardinality(A)
      BY <2>4, <2>6, FS_Bijection
  <2> QED BY <2>7 DEF A, B
<1> QED BY <1>1, <1>2, <1>3

\* A claim adds the row of its lease, a finish and a restart close rows, and
\* nothing else touches the history.
LEMMA LeasesOfStep ==
    ASSUME IInv, AttemptsAreLeases, Next
    PROVE  /\ AttemptsAreLeases'
           /\ \A j \in JobIds :
                 Own(j)' = IF \E w \in Holders : Claim(w, j) THEN Own(j) + 1 ELSE Own(j)
<1> DEFINE Goal == /\ AttemptsAreLeases'
                   /\ \A j \in JobIds :
                         Own(j)' = IF \E w \in Holders : Claim(w, j) THEN Own(j) + 1 ELSE Own(j)
<1>1. attempt \in SUBSET AttemptRow /\ attempt' \in SUBSET AttemptRow
    BY AttemptsTyped DEF IInv, TypeOK
<1>2. ASSUME NEW a \in attempt
      PROVE  /\ a.job \in JobIds /\ a.fence \in Nat /\ job'[a.job].status # "absent"
             /\ job[a.job].fence \in Nat /\ job'[a.job].fence \in Nat
             /\ a.fence <= job[a.job].fence /\ a.fence <= job'[a.job].fence
  <2>1. a.job \in JobIds /\ a.fence \in Nat
      BY <1>1 DEF AttemptRow
  <2>2. Advances(job[a.job], job'[a.job]) /\ job[a.job] \in Row
      BY <2>1, RowsOfStep, SameRow DEF AllAdvance
  <2>3. job[a.job].fence \in Nat /\ job'[a.job].fence \in Nat
      BY <2>2, RowFields DEF Advances
  <2> QED BY <2>1, <2>2, <2>3 DEF AttemptsAreLeases, Advances
<1>3. CASE \E w \in Holders : \E k \in JobIds : Claim(w, k)
  <2>1. PICK w \in Holders, k \in JobIds : Claim(w, k)
      BY <1>3
  <2> DEFINE f == job[k].fence + 1
             r == [job |-> k, fence |-> f, open |-> TRUE]
  <2>2. attempt' = attempt \cup {r}
      BY <2>1 DEF Claim
  <2>3. /\ job'[k].status = "running" /\ job'[k].fence = f
        /\ \A j \in JobIds \ {k} : Keeps(job[j], job'[j]) /\ ~\E v \in Holders : Claim(v, j)
      BY <2>1, ClaimRows, StatusSets DEF Keeps
  <2>4. f \in Nat /\ \A a \in attempt : a.job = k => a.fence < f
      BY <1>2, SameRow, RowFields
  <2>5. r.job = k /\ r.fence = f /\ r \notin attempt
      BY <2>4
  <2> HIDE DEF f, r
  <2>6. IsFiniteSet(attempt')
      BY <2>2, FS_AddElement DEF AttemptsAreLeases
  <2>7. \A a \in attempt' : job'[a.job].status # "absent" /\ a.fence <= job'[a.job].fence
      BY <1>2, <2>2, <2>3, <2>4, <2>5
  <2>8. \A a, b \in attempt' : a.job = b.job /\ a.fence = b.fence => a = b
    <3>1. \A a \in attempt : ~(a.job = r.job /\ a.fence = r.fence)
        BY <1>2, <2>4, <2>5
    <3> QED BY <2>2, <3>1 DEF AttemptsAreLeases
  <2>9. Own(k)' = Own(k) + 1
    <3>1. AttemptsOf(k)' = AttemptsOf(k) \cup {r} /\ r \notin AttemptsOf(k)
        BY <2>2, <2>5 DEF AttemptsOf
    <3>2. IsFiniteSet(AttemptsOf(k))
        BY FS_Subset DEF AttemptsOf, AttemptsAreLeases
    <3> QED BY <3>1, <3>2, FS_AddElement DEF Own, AttemptsOf
  <2>10. ASSUME NEW j \in JobIds \ {k} PROVE Own(j)' = Own(j)
    <3>1. {a \in attempt' : a.job = j} = {a \in attempt : a.job = j}
        BY <2>2, <2>5
    <3> QED BY <3>1 DEF Own
  <2> QED BY <2>1, <2>3, <2>6, <2>7, <2>8, <2>9, <2>10 DEF AttemptsAreLeases
<1>4. ASSUME ~(\E w \in Holders : \E k \in JobIds : Claim(w, k)), UNCHANGED attempt PROVE Goal
    BY <1>2, <1>4 DEF AttemptsAreLeases, Own
<1>5. ASSUME ~(\E w \in Holders : \E k \in JobIds : Claim(w, k)),
             NEW f \in [attempt -> AttemptRow],
             \A a \in attempt : f[a].job = a.job /\ f[a].fence = a.fence,
             attempt' = {f[a] : a \in attempt}
      PROVE  Goal
  <2> DEFINE T == {f[a] : a \in attempt}
  <2>1. /\ IsFiniteSet(T)
        /\ \A a, b \in T : a.job = b.job /\ a.fence = b.fence => a = b
        /\ \A j : Cardinality({a \in T : a.job = j}) = Cardinality({a \in attempt : a.job = j})
    <3>1. IsFiniteSet(attempt) /\ \A a, b \in attempt : a.job = b.job /\ a.fence = b.fence => a = b
        BY DEF AttemptsAreLeases
    <3>2. (\A a \in attempt : f[a] \in T) /\ (\A t \in T : \E a \in attempt : t = f[a])
        OBVIOUS
    <3> HIDE DEF T
    <3> QED BY <1>1, <1>5, <3>1, <3>2, ClosedRows, ZenonT(60)
  <2>2. \A a \in attempt' : job'[a.job].status # "absent" /\ a.fence <= job'[a.job].fence
      BY <1>2, <1>5
  <2>3. attempt' = T
      BY <1>5
  <2> HIDE DEF T
  <2>4. AttemptsAreLeases'
      BY <2>1, <2>2, <2>3 DEF AttemptsAreLeases
  <2>5. ASSUME NEW j \in JobIds PROVE Own(j)' = Own(j)
      BY <2>1, <2>3 DEF Own
  <2> QED BY <1>5, <2>4, <2>5
<1>6. ASSUME NEW a \in attempt
      PROVE  /\ [a EXCEPT !.open = FALSE] \in AttemptRow
             /\ [a EXCEPT !.open = FALSE].job = a.job /\ [a EXCEPT !.open = FALSE].fence = a.fence
    BY <1>1 DEF AttemptRow
<1>7. ASSUME ~(\E w \in Holders : \E k \in JobIds : Claim(w, k)), Restart PROVE Goal
  <2> DEFINE f == [a \in attempt |-> [a EXCEPT !.open = FALSE]]
  <2>1. f \in [attempt -> AttemptRow] /\ \A a \in attempt : f[a].job = a.job /\ f[a].fence = a.fence
      BY <1>6
  <2>2. attempt' = {f[a] : a \in attempt}
      BY <1>7 DEF Restart
  <2> HIDE DEF f
  <2> QED BY <1>5, <1>7, <2>1, <2>2
<1>8. ASSUME ~(\E w \in Holders : \E k \in JobIds : Claim(w, k)), NEW w \in Holders, Finishes(w)
      PROVE  Goal
  <2> DEFINE f == [a \in attempt |-> IF a.job = holder[w].job /\ a.fence = holder[w].fence
                                     THEN [a EXCEPT !.open = FALSE] ELSE a]
  <2>1. f \in [attempt -> AttemptRow] /\ \A a \in attempt : f[a].job = a.job /\ f[a].fence = a.fence
      BY <1>1, <1>6
  <2>2. attempt' = {f[a] : a \in attempt}
      BY <1>8, FinishesClose DEF CloseAttempt
  <2> HIDE DEF f
  <2> QED BY <1>5, <1>8, <2>1, <2>2
<1> QED BY <1>3, <1>4, <1>7, <1>8, AttemptsOfStep

\* The count of a row moves with its claims, and starts where the row it
\* resumes was left.
LEMMA StepAccounted ==
    ASSUME AttemptInv, Next PROVE Inherits' /\ AttemptsAccounted'
<1>0. HistoryInv /\ IInv /\ AttemptsAreLeases
    BY DEF AttemptInv, HistoryInv
<1>1. \A j \in JobIds : job[j] \in Row /\ job'[j] \in Row /\ Advances(job[j], job'[j])
    BY <1>0, RowsOfStep, SameRow DEF AllAdvance, Advances
<1>2. \A j \in JobIds : Own(j) \in Nat
  <2>1. \A j \in JobIds : {a \in attempt : a.job = j} \in SUBSET attempt
      OBVIOUS
  <2> QED BY <1>0, <2>1, FS_Subset, FS_CardinalityType DEF Own, AttemptsAreLeases
<1>3. \A j \in JobIds :
          Own(j)' = IF \E w \in Holders : Claim(w, j) THEN Own(j) + 1 ELSE Own(j)
    BY <1>0, LeasesOfStep
<1>4. ASSUME NEW j \in JobIds, job[j].status # "absent"
      PROVE  job'[j].attempts = IF \E w \in Holders : Claim(w, j) THEN job[j].attempts + 1
                                ELSE job[j].attempts
  <2>1. CASE \E w \in Holders : Claim(w, j)
      BY <1>0, <2>1, ClaimRows
  <2>2. CASE ~\E w \in Holders : Claim(w, j)
      BY <1>0, <1>4, <2>2, RowsOfStep DEF Keeps
  <2> QED BY <2>1, <2>2
<1>5. ASSUME NEW j \in JobIds, job[j].status = "absent" PROVE ~\E w \in Holders : Claim(w, j)
    BY <1>0, <1>5, ClaimRows, StatusSets DEF Waiting
<1>6. ASSUME NEW p \in JobIds, job[p].status # "absent", job'[p].status \in Terminal
      PROVE  job'[p].attempts = job[p].attempts
    BY <1>0, <1>4, <1>6, ClaimRows, StatusSets
<1>7. ASSUME NEW j \in JobIds, job[j].status # "absent"
      PROVE  /\ job'[j].status # "absent" /\ (job'[j].resumes => job'[j].retryOf # 0)
             /\ job'[j].attempts = Own(j)' + (IF job'[j].resumes THEN job'[job'[j].retryOf].attempts - 1 ELSE 0)
  <2> DEFINE p == job[j].retryOf
  <2>1. job'[j].status # "absent" /\ job'[j].resumes = job[j].resumes /\ job'[j].retryOf = p
      BY <1>1, <1>7 DEF Advances
  <2>2. job[j].attempts = Own(j) + (IF job[j].resumes THEN job[p].attempts - 1 ELSE 0)
      BY DEF AttemptInv, AttemptsAccounted
  <2>3. job[j].resumes => p # 0
      BY DEF AttemptInv, Inherits
  <2>4. job[j].resumes => job'[p].attempts = job[p].attempts /\ job[p].attempts \in Nat
    <3> SUFFICES ASSUME job[j].resumes PROVE job'[p].attempts = job[p].attempts /\ job[p].attempts \in Nat
        OBVIOUS
    <3>1. p \in JobIds
        BY <1>1, <2>3, RowFields, QueueAssumption DEF JobIds
    <3>2. job[p].status \in Terminal
        BY <1>0, <2>3 DEF HistoryInv, FollowersOfEnded
    <3> QED BY <1>1, <3>1, <3>2, RowFields, StatusSets DEF Advances
  <2>5. job[j].attempts \in Nat /\ Own(j) \in Nat
      BY <1>1, <1>2, RowFields
  <2> HIDE DEF p
  <2> QED BY <1>3, <1>4, <1>7, <2>1, <2>2, <2>3, <2>4, <2>5
<1>8. ASSUME NEW j \in JobIds, job[j].status = "absent", StaysAbsent(j)
      PROVE  /\ job'[j].attempts = 0 /\ ~job'[j].resumes
             /\ job'[j].attempts = Own(j)'
  <2>1. job'[j].attempts = job[j].attempts /\ job[j].attempts = 0 /\ ~job[j].resumes /\ ~job'[j].resumes
      BY <1>8 DEF StaysAbsent, AttemptInv, Inherits
  <2>2. Own(j) = 0
      BY <1>2, <2>1 DEF AttemptInv, AttemptsAccounted
  <2> QED BY <1>3, <1>5, <1>8, <2>1, <2>2
<1>9. ASSUME NEW j \in JobIds, Inserts(j)
      PROVE  /\ job'[j].status # "absent" /\ (job'[j].resumes => job'[j].retryOf # 0)
             /\ job'[j].attempts = Own(j)' + (IF job'[j].resumes THEN job'[job'[j].retryOf].attempts - 1 ELSE 0)
  <2> DEFINE p == job'[j].retryOf
  <2>1. job[j].status = "absent" /\ job'[j].status \in Waiting /\ job'[j].status # "absent"
      BY <1>9, StatusSets DEF Inserts, Waiting
  <2>2. Own(j)' = 0
    <3>1. job[j].attempts = 0 /\ ~job[j].resumes
        BY <2>1 DEF AttemptInv, Inherits
    <3>2. Own(j) = 0
        BY <1>2, <3>1 DEF AttemptInv, AttemptsAccounted
    <3> QED BY <1>3, <1>5, <2>1, <3>2
  <2>3. CASE ~job'[j].resumes /\ job'[j].attempts = 0
      BY <2>1, <2>2, <2>3
  <2>4. CASE job'[j].resumes /\ p # 0 /\ job'[j].attempts = job[p].attempts - 1
    <3>1. p \in JobIds /\ job'[p].status \in Terminal
        BY <1>9, <2>4 DEF Inserts
    <3>2. p # j
        BY <2>1, <3>1, StatusSets
    <3>3. job[p].status # "absent"
        BY <1>9, <3>1, <3>2, StatusSets DEF Inserts, StaysAbsent, Terminal
    <3>4. job'[p].attempts = job[p].attempts /\ job[p].attempts \in Nat
        BY <1>1, <1>6, <3>1, <3>3, RowFields
    <3> HIDE DEF p
    <3>5. job'[j].attempts = Own(j)' + (job'[p].attempts - 1)
        BY <2>2, <2>4, <3>4
    <3> QED BY <2>1, <2>4, <3>5 DEF p
  <2> QED BY <1>9, <2>3, <2>4 DEF Inserts
<1>10. \A j \in JobIds : job[j].status = "absent" => StaysAbsent(j) \/ Inserts(j)
    BY <1>0, InsertionsOfStep DEF InsertsNothing, Inserts
<1>11. Inherits'
    BY <1>7, <1>8, <1>9, <1>10 DEF Inherits
<1>12. AttemptsAccounted'
    BY <1>7, <1>8, <1>9, <1>10 DEF AttemptsAccounted
<1> QED BY <1>11, <1>12

LEMMA StepAttemptInv == AttemptInv /\ [Next]_vars => AttemptInv'
<1> SUFFICES ASSUME AttemptInv, [Next]_vars PROVE AttemptInv'
    OBVIOUS
<1>0. HistoryInv /\ IInv /\ HistoryInv'
    BY StepHistory DEF AttemptInv, HistoryInv
<1>1. CASE UNCHANGED vars
    BY <1>0, <1>1 DEF vars, AttemptInv, RunningIsHeld, Unheld, HasLease, Busy, OpenAttemptsAreHeld,
       AttemptsAreLeases, Inherits, AttemptsAccounted, Own
<1>2. CASE Next
    BY <1>0, <1>2, StepRunningIsHeld, StepOpenAttempts, LeasesOfStep, StepAccounted
       DEF AttemptInv, AttemptsAreLeases
<1> QED BY <1>1, <1>2

LEMMA InitAttemptInv == Init => AttemptInv
<1> SUFFICES ASSUME Init PROVE AttemptInv
    OBVIOUS
<1>1. HistoryInv
    BY InitHistory
<1>2. \A j \in JobIds : job[j].status = "absent" /\ job[j].attempts = 0 /\ job[j].resumes = FALSE
    BY NoRowIsRow DEF Init
<1>3. Inherits
    BY <1>2 DEF Inherits
<1>4. IsFiniteSet({}) /\ Cardinality({}) = 0
    BY FS_EmptySet
<1>5. Unheld = {} /\ \A j : {a \in attempt : a.job = j} = {}
    BY <1>2, StatusSets DEF Unheld, Init
<1>6. RunningIsHeld /\ OpenAttemptsAreHeld /\ AttemptsAreLeases
  <2>1. OpenUnheld = {}
      BY DEF OpenUnheld, Init
  <2>2. lost = 0 /\ attempt = {}
      BY DEF Init
  <2> QED BY <1>4, <1>5, <2>1, <2>2 DEF RunningIsHeld, OpenAttemptsAreHeld, OpenUnheld, AttemptsAreLeases
<1>7. AttemptsAccounted
  <2>1. \A j : Own(j) = 0
      BY <1>4, <1>5 DEF Own
  <2> QED BY <1>2, <2>1 DEF AttemptsAccounted
<1> QED BY <1>1, <1>3, <1>6, <1>7 DEF AttemptInv

LEMMA AttemptInvariant == Spec => []AttemptInv
<1> QED BY InitAttemptInv, StepAttemptInv, PTL DEF Spec

\* A running job is in the hands of a worker that will finish it: neither a
\* revocation, nor a retry, nor a restart leaves a running row that blocks its
\* file or its root; only a finish transaction that failed does, one row each.
THEOREM RunningJobsAreHeld == Spec => []RunningIsHeld
<1>1. AttemptInv => RunningIsHeld
    BY DEF AttemptInv
<1> QED BY <1>1, AttemptInvariant, PTL

\* The history of attempts can be trusted: an open row of job_attempts has a
\* worker at work on it (but for the finishes that failed), and the count of
\* every job is that of its own attempts plus what a licence pause handed on.
THEOREM AttemptHistoryIsTrue == Spec => []AttemptsAreTrue
<1>1. AttemptInv => AttemptsAreTrue
    BY DEF AttemptInv, AttemptsAreTrue
<1> QED BY <1>1, AttemptInvariant, PTL
-----------------------------------------------------------------------------
(***************************************************************************)
(* The rows of a request.  Every row belongs to exactly one request and    *)
(* every request has exactly one row that nothing continues; both survive  *)
(* the one step that adds a row to a request, so Last is always that row,  *)
(* and the state of the request changes as its last row does.              *)
(***************************************************************************)

Asked(r) == ~job[r].resumes

\* The last row of a request, as a relation.
Ends(r, k) == Carries(r, k) /\ ~Continued(k)

OneRequest ==
    \A k \in JobIds :
        \E r \in JobIds : /\ Asked(r) /\ Carries(r, k)
                        /\ \A q \in JobIds : Asked(q) /\ Carries(q, k) => q = r

OneEnd ==
    \A r \in JobIds :
        Asked(r) => \E k \in JobIds : Ends(r, k) /\ \A l \in JobIds : Ends(r, l) => l = k

RequestInv == AttemptInv /\ OneRequest /\ OneEnd

LEMMA CarriesSelf ==
    ASSUME NEW r \in JobIds PROVE Carries(r, r)
  BY DEF Carries

LEMMA CarriesNext ==
    ASSUME NEW r \in JobIds, NEW i \in Successors, Carries(r, job[i].retryOf)
    PROVE  Carries(r, i)
  BY DEF Carries, HoldsSuccessors

\* What a request carries is in every set that holds it and its successors.
LEMMA CarriesOnly ==
    ASSUME NEW r \in JobIds, NEW k \in JobIds, Carries(r, k), NEW later \in SUBSET Successors,
           HoldsSuccessors({r} \cup later)
    PROVE  k \in {r} \cup later
  BY DEF Carries

LEMMA CarriesSuccessors ==
    ASSUME NEW r \in JobIds, NEW k \in JobIds, Carries(r, k) PROVE k = r \/ k \in Successors
<1>1. HoldsSuccessors({r} \cup Successors)
    BY DEF HoldsSuccessors
<1> QED BY <1>1, CarriesOnly

\* A row nothing continues carries itself alone.
LEMMA CarriesAlone ==
    ASSUME NEW r \in JobIds, NEW k \in JobIds, ~Continued(r), Carries(r, k) PROVE k = r
<1>1. HoldsSuccessors({r} \cup {})
    BY DEF HoldsSuccessors, Continued, Successors
<1>2. k \in {r} \cup {}
  <2>1. {} \in SUBSET Successors
      OBVIOUS
  <2> QED BY <1>1, <2>1, CarriesOnly
<1> QED BY <1>2

EndIsLast ==
    \A r, k \in JobIds :
        Ends(r, k) /\ (\A l \in JobIds : Ends(r, l) => l = k) => Last(r) = k

LEMMA LastIs == EndIsLast
<1> SUFFICES ASSUME NEW r \in JobIds, NEW k \in JobIds, Ends(r, k),
                    \A l \in JobIds : Ends(r, l) => l = k
             PROVE  Last(r) = k
    BY DEF EndIsLast
<1>1. CASE ~Continued(r)
  <2>1. Ends(r, r)
      BY <1>1, CarriesSelf DEF Ends
  <2> QED BY <1>1, <2>1 DEF Last
<1>2. CASE Continued(r)
  <2>1. k # r /\ k \in Successors
      BY <1>2, CarriesSuccessors DEF Ends
  <2>2. \A l \in Successors : (~Continued(l) /\ Carries(r, l)) <=> l = k
      BY <2>1 DEF Ends, Successors
  <2>3. (CHOOSE l \in Successors : ~Continued(l) /\ Carries(r, l)) = k
      BY <2>1, <2>2
  <2> QED BY <1>2, <2>3 DEF Last
<1> QED BY <1>1, <1>2

LEMMA NextLastIs == EndIsLast'
  BY LastIs, PTL

LEMMA LastOfRequest ==
    ASSUME OneEnd, NEW r \in JobIds, Asked(r)
    PROVE  Last(r) \in JobIds /\ Ends(r, Last(r))
  BY LastIs DEF EndIsLast, OneEnd

\* Two requests never have the same last row, and a row nothing continues is
\* the last of one.
LEMMA LastsDiffer ==
    ASSUME OneRequest, OneEnd, NEW r \in JobIds, NEW q \in JobIds, Asked(r), Asked(q), Last(r) = Last(q)
    PROVE  r = q
  BY LastOfRequest DEF OneRequest, Ends

LEMMA LastOfSome ==
    ASSUME OneRequest, OneEnd, NEW k \in JobIds, ~Continued(k)
    PROVE  \E r \in JobIds : Asked(r) /\ Last(r) = k
<1>1. PICK r \in JobIds : Asked(r) /\ Carries(r, k)
    BY DEF OneRequest
<1>2. Ends(r, k)
    BY <1>1 DEF Ends
<1> QED BY <1>1, <1>2, LastIs DEF EndIsLast, OneEnd

\* A row that is continued has ended, and one that is absent continues nothing.
LEMMA ContinuedEnded ==
    ASSUME AttemptInv
    PROVE  /\ \A i \in Successors : /\ job[i].retryOf \in JobIds /\ job[i].status # "absent"
                                    /\ job[job[i].retryOf].status \in Terminal
           /\ \A k \in JobIds : Continued(k) => job[k].status \in Terminal
<1>1. \A i \in JobIds : job[i] \in Row
    BY SameRow DEF AttemptInv, HistoryInv
<1>2. \A i \in Successors : /\ i \in JobIds /\ job[i].status # "absent" /\ job[i].retryOf # 0
                            /\ job[i].retryOf \in 0..MaxJobs
    BY <1>1, RowFields DEF Successors, AttemptInv, Inherits
<1>3. \A i \in Successors : job[i].retryOf \in JobIds /\ job[job[i].retryOf].status \in Terminal
    BY <1>2, QueueAssumption DEF JobIds, AttemptInv, HistoryInv, FollowersOfEnded
<1> QED BY <1>2, <1>3 DEF Continued, Successors

\* A step that adds no successor leaves every request its rows.
LEMMA SameLinks ==
    ASSUME OneRequest, OneEnd,
           \A i \in JobIds : /\ job'[i].resumes = job[i].resumes
                             /\ job[i].resumes => job'[i].retryOf = job[i].retryOf
    PROVE  /\ OneRequest' /\ OneEnd'
           /\ \A r \in JobIds : Asked(r)' <=> Asked(r)
           /\ \A r \in JobIds : Asked(r) => Last(r)' = Last(r)
<1>1. Successors' = Successors /\ \A r \in JobIds : Asked(r)' <=> Asked(r)
    BY DEF Successors, Asked
<1>2. \A k \in JobIds : Continued(k)' <=> Continued(k)
    BY DEF Continued
<1>3. \A rows : HoldsSuccessors(rows)' <=> HoldsSuccessors(rows)
    BY <1>1 DEF HoldsSuccessors, Successors
<1>4. \A r, k \in JobIds : Carries(r, k)' <=> Carries(r, k)
    BY <1>1, <1>3 DEF Carries
<1>5. \A r, k \in JobIds : Ends(r, k)' <=> Ends(r, k)
    BY <1>2, <1>4 DEF Ends
<1>6. OneRequest' /\ OneEnd'
    BY <1>1, <1>4, <1>5 DEF OneRequest, OneEnd
<1>7. ASSUME NEW r \in JobIds, Asked(r) PROVE Last(r)' = Last(r)
  <2>1. PICK k \in JobIds : Ends(r, k) /\ \A l \in JobIds : Ends(r, l) => l = k
      BY <1>7 DEF OneEnd
  <2>2. Last(r) = k
      BY <2>1, LastIs DEF EndIsLast
  <2>3. Last(r)' = k
      BY <1>5, <2>1, NextLastIs DEF EndIsLast
  <2> QED BY <2>2, <2>3
<1> QED BY <1>1, <1>6, <1>7

\* A step that gives the last row j of a request the successor k adds k to
\* the rows of that request and to no other.
Extends(j, k) ==
    /\ j # k /\ ~job[k].resumes /\ ~Continued(k)
    /\ Successors' = Successors \cup {k}
    /\ job'[k].retryOf = j
    /\ \A i \in Successors : job'[i].retryOf = job[i].retryOf

LEMMA ExtendedRows ==
    ASSUME NEW j \in JobIds, NEW k \in JobIds, Extends(j, k), NEW r \in JobIds, r # k,
           NEW x \in JobIds
    PROVE  Carries(r, x)' <=> (Carries(r, x) \/ (x = k /\ Carries(r, j)))
<1>0. /\ Successors' = Successors \cup {k} /\ k \notin Successors /\ job'[k].retryOf = j
      /\ \A i \in Successors : job'[i].retryOf = job[i].retryOf /\ job[i].retryOf # k
    BY DEF Extends, Successors, Continued
<1>1. ASSUME NEW later \in SUBSET Successors', HoldsSuccessors({r} \cup later)', NEW y \in JobIds, Carries(r, y)
      PROVE  y \in {r} \cup later /\ y # k
  <2>1. HoldsSuccessors({r} \cup (later \ {k}))
      BY <1>0, <1>1 DEF HoldsSuccessors
  <2>2. later \ {k} \in SUBSET Successors
      BY <1>0
  <2>3. y \in {r} \cup (later \ {k})
      BY <1>1, <2>1, <2>2, CarriesOnly
  <2> QED BY <2>3
<1>2. Carries(r, x) => Carries(r, x)'
    BY <1>1 DEF Carries
<1>3. ASSUME Carries(r, j) PROVE Carries(r, k)'
  <2> SUFFICES ASSUME NEW later \in SUBSET Successors', HoldsSuccessors({r} \cup later)'
               PROVE  k \in {r} \cup later
      BY DEF Carries
  <2>1. j \in {r} \cup later
      BY <1>1, <1>3
  <2> QED BY <1>0, <2>1 DEF HoldsSuccessors
<1>4. ASSUME Carries(r, x)' PROVE Carries(r, x) \/ (x = k /\ Carries(r, j))
  <2>1. PICK later \in SUBSET JobIds :
            later = {i \in Successors : Carries(r, i)} \cup {i \in {k} : Carries(r, j)}
      BY DEF Successors
  <2>2. later \in SUBSET Successors'
      BY <1>0, <2>1
  <2>3. ASSUME NEW i \in Successors', job'[i].retryOf \in {r} \cup later PROVE i \in {r} \cup later
    <3>1. CASE i = k
      <4>1. j = r \/ Carries(r, j)
          BY <1>0, <2>1, <2>3, <3>1 DEF Extends
      <4> QED BY <2>1, <3>1, <4>1, CarriesSelf
    <3>2. CASE i \in Successors
      <4>1. job[i].retryOf = r \/ Carries(r, job[i].retryOf)
          BY <1>0, <2>1, <2>3, <3>2
      <4>2. Carries(r, i)
          BY <3>2, <4>1, CarriesSelf, CarriesNext
      <4> QED BY <2>1, <3>2, <4>2
    <3> QED BY <1>0, <3>1, <3>2
  <2>4. HoldsSuccessors({r} \cup later)'
      BY <2>3 DEF HoldsSuccessors
  <2>5. x \in {r} \cup later
      BY <1>4, <2>2, <2>4 DEF Carries
  <2>6. CASE x = r
      BY <2>6 DEF Carries
  <2>7. CASE x \in later
    <3>1. \A i \in later : Carries(r, i) \/ (i = k /\ Carries(r, j))
        BY <2>1
    <3> QED BY <2>7, <3>1
  <2> QED BY <2>5, <2>6, <2>7
<1> QED BY <1>2, <1>3, <1>4

LEMMA ExtendedEnds ==
    ASSUME AttemptInv, OneRequest, OneEnd,
           NEW j \in JobIds, NEW k \in JobIds, Extends(j, k), ~Continued(j)
    PROVE  /\ OneRequest' /\ OneEnd'
           /\ \A r \in JobIds : Asked(r) /\ r # k => Last(r)' = IF Last(r) = j THEN k ELSE Last(r)
<1>0. /\ j # k /\ ~Continued(k) /\ Asked(k) /\ ~Asked(k)'
      /\ \A r \in JobIds \ {k} : Asked(r)' <=> Asked(r)
    BY DEF Extends, Successors, Asked
<1>1. \A r, x \in JobIds : r # k => (Carries(r, x)' <=> (Carries(r, x) \/ (x = k /\ Carries(r, j))))
    BY ExtendedRows
<1>2. \A x \in JobIds : Continued(x)' <=> (Continued(x) \/ x = j)
    BY DEF Extends, Continued, Successors
<1>3. \A x \in JobIds : Carries(k, x) => x = k
    BY <1>0, CarriesAlone
<1>4. \A r \in JobIds : Asked(r) /\ Carries(r, k) => r = k
    BY <1>0, CarriesSelf DEF OneRequest
<1>5. OneRequest'
  <2> SUFFICES ASSUME NEW x \in JobIds
               PROVE  \E r \in JobIds : /\ Asked(r)' /\ Carries(r, x)'
                                       /\ \A q \in JobIds : Asked(q)' /\ Carries(q, x)' => q = r
      BY DEF OneRequest
  <2> DEFINE y == IF x = k THEN j ELSE x
  <2>1. y \in JobIds /\ y # k
      BY <1>0
  <2>2. PICK r \in JobIds : /\ Asked(r) /\ Carries(r, y)
                            /\ \A q \in JobIds : Asked(q) /\ Carries(q, y) => q = r
      BY <2>1 DEF OneRequest
  <2>3. r # k
      BY <1>3, <2>1, <2>2
  <2>4. \A q \in JobIds \ {k} : Asked(q) => (Carries(q, x)' <=> Carries(q, y))
    <3> SUFFICES ASSUME NEW q \in JobIds, q # k, Asked(q) PROVE Carries(q, x)' <=> Carries(q, y)
        OBVIOUS
    <3>1. (Carries(q, x)' <=> (Carries(q, x) \/ (x = k /\ Carries(q, j)))) /\ ~Carries(q, k)
        BY <1>1, <1>4
    <3>2. CASE x = k
        BY <3>1, <3>2
    <3>3. CASE x # k
      <4>1. Carries(q, x) <=> Carries(q, y)
          BY <3>3
      <4> QED BY <3>1, <3>3, <4>1
    <3> QED BY <3>2, <3>3
  <2> QED BY <1>0, <2>2, <2>3, <2>4
<1>6. ASSUME NEW r \in JobIds, Asked(r), r # k,
             NEW e \in JobIds, e = IF Last(r) = j THEN k ELSE Last(r)
      PROVE  Ends(r, e)' /\ \A l \in JobIds : Ends(r, l)' => l = e
  <2>1. /\ Last(r) \in JobIds /\ Ends(r, Last(r))
        /\ \A l \in JobIds : Ends(r, l) => l = Last(r)
      BY <1>6, LastOfRequest DEF OneEnd
  <2>2. Carries(r, j) => Last(r) = j
      BY <2>1 DEF Ends
  <2>3. ~Carries(r, k)
      BY <1>4, <1>6
  <2>4. \A l \in JobIds : Ends(r, l)' <=> /\ Carries(r, l) \/ (l = k /\ Carries(r, j))
                                          /\ ~Continued(l) /\ l # j
      BY <1>1, <1>2, <1>6 DEF Ends
  <2>5. \A l \in JobIds : Carries(r, l) /\ ~Continued(l) => l = Last(r)
      BY <2>1 DEF Ends
  <2>6. Carries(r, Last(r)) /\ ~Continued(Last(r))
      BY <2>1 DEF Ends
  <2>7. CASE Last(r) = j
    <3>1. \A l \in JobIds : Ends(r, l)' => l = k
        BY <2>4, <2>5, <2>7
    <3>2. Ends(r, k)'
        BY <1>0, <2>4, <2>6, <2>7
    <3> QED BY <1>6, <2>7, <3>1, <3>2
  <2>8. CASE Last(r) # j
    <3>1. \A l \in JobIds : Ends(r, l)' => l = Last(r)
        BY <2>2, <2>4, <2>5, <2>8
    <3>2. Last(r) \in JobIds /\ e = Last(r)
        BY <1>6, <2>1, <2>8
    <3>3. Carries(r, e) /\ ~Continued(e) /\ e # j
        BY <2>6, <2>8, <3>2 DEF Carries, Continued
    <3>4. Ends(r, e)'
        BY <2>4, <3>3
    <3> QED BY <3>1, <3>2, <3>4
  <2> QED BY <2>7, <2>8
<1>7. ASSUME NEW r \in JobIds, Asked(r), r # k
      PROVE  /\ \E e \in JobIds : Ends(r, e)' /\ \A l \in JobIds : Ends(r, l)' => l = e
             /\ Last(r)' = IF Last(r) = j THEN k ELSE Last(r)
  <2>1. PICK e \in JobIds : e = IF Last(r) = j THEN k ELSE Last(r)
      BY <1>7, LastOfRequest
  <2>2. Ends(r, e)' /\ \A l \in JobIds : Ends(r, l)' => l = e
      BY <1>6, <1>7, <2>1
  <2>3. Last(r)' = e
      BY <2>2, NextLastIs DEF EndIsLast
  <2> QED BY <2>1, <2>2, <2>3
<1>8. OneEnd'
    BY <1>0, <1>7 DEF OneEnd
<1> QED BY <1>5, <1>7, <1>8

-----------------------------------------------------------------------------
\* How each kind of step maps to the requests.

LEMMA PhaseOfStatus ==
    ASSUME NEW s \in Statuses
    PROVE  /\ s \in Waiting => Phase(s) = "open"
           /\ s \in Terminal => Phase(s) = "done"
           /\ s = "running" => Phase(s) = "running"
           /\ s = "absent" => Phase(s) = "none"
           /\ s \in Waiting \/ s \in Terminal \/ s = "running" \/ s = "absent"
  BY StatusSets DEF Phase, Statuses, Active, Waiting, Terminal

LEMMA Mapped ==
    /\ requestPhase = [r \in JobIds |-> IF Asked(r) THEN Phase(job[Last(r)].status) ELSE "none"]
    /\ requestSpent = [r \in JobIds |-> IF Asked(r) THEN job[Last(r)].attempts ELSE 0]
  BY DEF requestPhase, requestSpent, Asked

LEMMA NextMapped ==
    /\ requestPhase' = [r \in JobIds |->
                           IF Asked(r)' THEN Phase(job'[Last(r)'].status) ELSE "none"]
    /\ requestSpent' = [r \in JobIds |-> IF Asked(r)' THEN job'[Last(r)'].attempts ELSE 0]
  BY DEF requestPhase, requestSpent, Asked

\* A step that inserts nothing changes a request as it changes its last row.
LEMMA MappedStep ==
    ASSUME RequestInv, Next, InsertsNothing \/ \E k \in JobIds : Adds(k)
    PROVE  /\ OneRequest' /\ OneEnd'
           /\ requestPhase' = [r \in JobIds |->
                                  IF Asked(r) THEN Phase(job'[Last(r)].status) ELSE "none"]
           /\ requestSpent' = [r \in JobIds |-> IF Asked(r) THEN job'[Last(r)].attempts ELSE 0]
<1>1. \A i \in JobIds : job[i] \in Row /\ job'[i] \in Row /\ Advances(job[i], job'[i])
    BY RowsOfStep, SameRow DEF AllAdvance, Advances, RequestInv, AttemptInv, HistoryInv
<1>2. \A i \in JobIds : job[i].resumes \in BOOLEAN /\ job'[i].resumes \in BOOLEAN
    BY <1>1, RowFields
<1>3. \A i \in JobIds : job[i].status = "absent" => ~job[i].resumes
    BY DEF RequestInv, AttemptInv, Inherits
<1>4. \A i \in JobIds : job[i].status = "absent" => ~job'[i].resumes
    BY <1>3 DEF InsertsNothing, StaysAbsent, Adds
<1>5. \A i \in JobIds : /\ job'[i].resumes = job[i].resumes
                        /\ job[i].resumes => job'[i].retryOf = job[i].retryOf
    BY <1>1, <1>2, <1>3, <1>4 DEF Advances
<1>6. /\ OneRequest' /\ OneEnd'
      /\ \A r \in JobIds : Asked(r)' <=> Asked(r)
      /\ \A r \in JobIds : Asked(r) => Last(r)' = Last(r)
    BY <1>5, SameLinks DEF RequestInv
<1> QED BY <1>6, NextMapped

\* The last rows: each has a row of the table, and a row at work is the last
\* row of one request alone.
LEMMA LastRows ==
    ASSUME RequestInv
    PROVE  /\ \A r \in JobIds : Asked(r) => Last(r) \in JobIds
           /\ \A k \in JobIds : job[k].status \notin Terminal =>
                 \E r \in JobIds : /\ Asked(r) /\ Last(r) = k
                                 /\ \A q \in JobIds : Asked(q) /\ q # r => Last(q) # k
           /\ \A k \in JobIds : job[k].status = "absent" =>
                 /\ Asked(k) /\ Last(k) = k /\ job[k].attempts = 0
                 /\ \A q \in JobIds : Asked(q) /\ q # k => Last(q) # k
<1>1. \A r \in JobIds : Asked(r) => Last(r) \in JobIds
    BY LastOfRequest DEF RequestInv
<1>2. \A k \in JobIds : job[k].status \notin Terminal => ~Continued(k)
    BY ContinuedEnded DEF RequestInv
<1>3. \A r, q \in JobIds : Asked(r) /\ Asked(q) /\ Last(r) = Last(q) => r = q
    BY LastsDiffer DEF RequestInv
<1>4. \A k \in JobIds : job[k].status \notin Terminal => \E r \in JobIds : Asked(r) /\ Last(r) = k
    BY <1>2, LastOfSome DEF RequestInv
<1>5. ASSUME NEW k \in JobIds, job[k].status = "absent"
      PROVE  Asked(k) /\ Last(k) = k /\ job[k].attempts = 0
  <2>1. Asked(k) /\ job[k].attempts = 0
      BY <1>5 DEF RequestInv, AttemptInv, Inherits, Asked
  <2>2. Last(k) = k
      BY <1>2, <1>5, StatusSets DEF Last, Terminal
  <2> QED BY <2>1, <2>2
<1> QED BY <1>1, <1>3, <1>4, <1>5

LEMMA RowPhases ==
    ASSUME RequestInv, Next
    PROVE  \A i \in JobIds :
              /\ job[i].status \in Statuses /\ job'[i].status \in Statuses
              /\ Advances(job[i], job'[i])
<1>1. \A i \in JobIds : job[i] \in Row /\ job'[i] \in Row /\ Advances(job[i], job'[i])
    BY RowsOfStep, SameRow DEF AllAdvance, Advances, RequestInv, AttemptInv, HistoryInv
<1> QED BY <1>1, RowFields

\* Nothing starts, nothing returns: the requests whose last row ended are done.
LEMMA KeepingEnds ==
    ASSUME RequestInv, Next, AllKeep, InsertsNothing
    PROVE  \E ended \in SUBSET Requested!Unended : Requested!End(ended)
<1> USE DEF Asked
<1>1. /\ requestPhase' = [r \in JobIds |->
                             IF Asked(r) THEN Phase(job'[Last(r)].status) ELSE "none"]
      /\ requestSpent' = [r \in JobIds |-> IF Asked(r) THEN job'[Last(r)].attempts ELSE 0]
    BY MappedStep
<1>2. PICK ended \in SUBSET JobIds :
          ended = {r \in JobIds : requestPhase[r] \in {"open", "running"} /\ requestPhase'[r] = "done"}
    OBVIOUS
<1>3. ASSUME NEW i \in JobIds
      PROVE  /\ job'[i].attempts = job[i].attempts
             /\ \/ Phase(job'[i].status) = Phase(job[i].status)
                \/ Phase(job[i].status) \in {"open", "running"} /\ Phase(job'[i].status) = "done"
  <2>1. /\ job[i].status \in Statuses /\ job'[i].status \in Statuses
        /\ Keeps(job[i], job'[i]) /\ StaysAbsent(i)
      BY RowPhases DEF AllKeep, InsertsNothing
  <2>2. job'[i].attempts = job[i].attempts
      BY <2>1 DEF Keeps, StaysAbsent
  <2>3. CASE job[i].status = "absent"
      BY <2>1, <2>2, <2>3 DEF StaysAbsent
  <2>4. CASE job[i].status \in Waiting
    <3>1. job'[i].status \in Waiting \/ job'[i].status \in Terminal
        BY <2>1, <2>4, PhaseOfStatus, StatusSets DEF Keeps, Advances
    <3> QED BY <2>1, <2>2, <2>4, <3>1, PhaseOfStatus
  <2>5. CASE job[i].status = "running"
    <3>1. job'[i].status = "running" \/ job'[i].status \in Terminal
        BY <2>1, <2>5 DEF Keeps, Started
    <3> QED BY <2>1, <2>2, <2>5, <3>1, PhaseOfStatus
  <2>6. CASE job[i].status \in Terminal
      BY <2>1, <2>2, <2>6 DEF Keeps, Advances
  <2> QED BY <2>1, <2>3, <2>4, <2>5, <2>6, PhaseOfStatus
<1>4. \A r \in JobIds : Asked(r) => Last(r) \in JobIds
    BY LastRows
<1>5. requestSpent' = requestSpent
    BY <1>1, <1>3, <1>4, Mapped
<1>6. \A r \in JobIds : requestPhase'[r] = IF r \in ended THEN "done" ELSE requestPhase[r]
    BY <1>1, <1>2, <1>3, <1>4, Mapped
<1>7. requestPhase' = [r \in JobIds |-> IF r \in ended THEN "done" ELSE requestPhase[r]]
    BY <1>1, <1>6
<1>8. ended \subseteq Requested!Unended
    BY <1>2 DEF Requested!Unended
<1> QED BY <1>5, <1>7, <1>8 DEF Requested!End

LEMMA AddingOpens ==
    ASSUME RequestInv, Next, NEW k \in JobIds, Adds(k)
    PROVE  Requested!Open(k)
<1> USE DEF Asked
<1>1. /\ requestPhase' = [r \in JobIds |->
                             IF Asked(r) THEN Phase(job'[Last(r)].status) ELSE "none"]
      /\ requestSpent' = [r \in JobIds |-> IF Asked(r) THEN job'[Last(r)].attempts ELSE 0]
    BY MappedStep
<1>2. /\ job[k].status = "absent" /\ job'[k].status \in Waiting
      /\ ~job'[k].resumes /\ job'[k].attempts = 0
      /\ \A i \in JobIds \ {k} : job'[i] = job[i]
    BY DEF Adds, Inserts
<1>3. /\ Asked(k) /\ Last(k) = k /\ job[k].attempts = 0
      /\ \A q \in JobIds : Asked(q) /\ q # k => Last(q) # k /\ Last(q) \in JobIds
    BY <1>2, LastRows
<1>4. Phase(job[k].status) = "none" /\ Phase(job'[k].status) = "open"
    BY <1>2, RowPhases, PhaseOfStatus
<1>5. \A q \in JobIds : Asked(q) /\ q # k => job'[Last(q)] = job[Last(q)]
    BY <1>2, <1>3
<1>6. requestPhase[k] = "none" /\ requestPhase' = [requestPhase EXCEPT ![k] = "open"]
    BY <1>1, <1>3, <1>4, <1>5, Mapped
<1>7. requestSpent' = requestSpent
    BY <1>1, <1>2, <1>3, <1>5, Mapped
<1> QED BY <1>6, <1>7 DEF Requested!Open

LEMMA ClaimStarts ==
    ASSUME RequestInv, Next, NEW w \in Holders, NEW k \in JobIds, Claim(w, k)
    PROVE  \E r \in JobIds : Requested!Start(r)
<1> USE DEF Asked
<1>0. IInv /\ InsertsNothing
    BY ClaimInserts DEF RequestInv, AttemptInv, HistoryInv
<1>1. /\ requestPhase' = [r \in JobIds |->
                             IF Asked(r) THEN Phase(job'[Last(r)].status) ELSE "none"]
      /\ requestSpent' = [r \in JobIds |-> IF Asked(r) THEN job'[Last(r)].attempts ELSE 0]
    BY <1>0, MappedStep
<1>2. /\ job[k].status \in Waiting /\ job'[k].status = "running"
      /\ job'[k].attempts = job[k].attempts + 1 /\ job[k].attempts < MaxAttempts
    BY <1>0, ClaimRows DEF Claim, Claimable
<1>3. PICK r \in JobIds : /\ Asked(r) /\ Last(r) = k
                          /\ \A q \in JobIds : Asked(q) /\ q # r => Last(q) # k
    BY <1>2, LastRows, StatusSets DEF Terminal
<1>4. \A q \in JobIds : Asked(q) => Last(q) \in JobIds
    BY LastRows
<1>5. ASSUME NEW i \in JobIds \ {k}
      PROVE  Phase(job'[i].status) = Phase(job[i].status) /\ job'[i].attempts = job[i].attempts
  <2>1. PICK skipped \in SUBSET Claimable(w) : skipped = {x \in Claimable(w) : x < k}
      OBVIOUS
  <2>2. job'[i] = PauseBlocked(skipped)[i]
      BY <2>1 DEF Claim, PauseBlocked
  <2>3. CASE i \notin skipped
      BY <1>0, <2>2, <2>3, PauseBlockedRow
  <2>4. CASE i \in skipped
    <3>1. job'[i].status = "paused" /\ Keeps(job[i], job'[i]) /\ job[i].status \in Waiting
        BY <1>0, <2>2, <2>4, PauseBlockedRow DEF Claimable
    <3>2. job'[i].attempts = job[i].attempts
        BY <3>1, StatusSets DEF Keeps
    <3>3. Phase(job'[i].status) = "open" /\ Phase(job[i].status) = "open"
        BY <3>1, RowPhases, PhaseOfStatus, StatusSets
    <3> QED BY <3>2, <3>3
  <2> QED BY <2>3, <2>4
<1>6. Phase(job[k].status) = "open" /\ Phase(job'[k].status) = "running"
    BY <1>2, RowPhases, PhaseOfStatus
<1>7. requestPhase[r] = "open" /\ requestPhase' = [requestPhase EXCEPT ![r] = "running"]
    BY <1>1, <1>3, <1>4, <1>5, <1>6, Mapped
<1>8. /\ requestSpent[r] < MaxAttempts
      /\ requestSpent' = [requestSpent EXCEPT ![r] = @ + 1]
    BY <1>1, <1>2, <1>3, <1>4, <1>5, Mapped
<1> QED BY <1>7, <1>8 DEF Requested!Start

LEMMA FinishEnds ==
    ASSUME RequestInv, Next, NEW w \in Holders, Finish(w), InsertsNothing
    PROVE  \/ \E r \in JobIds : Requested!Retry(r)
           \/ \E ended \in SUBSET Requested!Unended : Requested!End(ended)
<1> USE DEF Asked
<1> DEFINE k == holder[w].job
<1>0. IInv
    BY DEF RequestInv, AttemptInv, HistoryInv
<1>1. /\ requestPhase' = [r \in JobIds |->
                             IF Asked(r) THEN Phase(job'[Last(r)].status) ELSE "none"]
      /\ requestSpent' = [r \in JobIds |-> IF Asked(r) THEN job'[Last(r)].attempts ELSE 0]
    BY MappedStep
<1>2. k \in JobIds /\ job[k].status = "running"
    BY <1>0, Leased DEF Finish
<1>3. PICK r \in JobIds : /\ Asked(r) /\ Last(r) = k
                          /\ \A q \in JobIds : Asked(q) /\ q # r => Last(q) # k
    BY <1>2, LastRows, StatusSets DEF Terminal
<1>4. \A q \in JobIds : Asked(q) => Last(q) \in JobIds
    BY LastRows
<1>5. \A i \in JobIds \ {k} : job'[i] = job[i]
    BY <1>0 DEF Finish, IInv, TypeOK
<1>6. /\ job'[k].status # "running" /\ job'[k].attempts = job[k].attempts
      /\ Advances(job[k], job'[k]) /\ job'[k].status \in Statuses
    BY <1>0, <1>2, FinishAdvances, RowPhases
<1>7. requestSpent' = requestSpent
    BY <1>1, <1>3, <1>4, <1>5, <1>6, Mapped
<1>8. requestPhase[r] = "running" /\ requestSpent[r] = job[k].attempts
    BY <1>2, <1>3, Mapped, RowPhases, PhaseOfStatus
<1>9. requestPhase' = [requestPhase EXCEPT ![r] = Phase(job'[k].status)]
    BY <1>1, <1>3, <1>4, <1>5, Mapped
<1>10. CASE job'[k].status \in Waiting
  <2>1. Phase(job'[k].status) = "open" /\ job[k].attempts < MaxAttempts
      BY <1>6, <1>10, PhaseOfStatus DEF Advances
  <2> QED BY <1>7, <1>8, <1>9, <2>1 DEF Requested!Retry
<1>11. CASE job'[k].status \in Terminal
  <2>1. Phase(job'[k].status) = "done"
      BY <1>6, <1>11, PhaseOfStatus
  <2>2. requestPhase' = [q \in JobIds |-> IF q \in {r} THEN "done" ELSE requestPhase[q]]
      BY <1>9, <2>1, Mapped
  <2>3. {r} \in SUBSET Requested!Unended
      BY <1>8 DEF Requested!Unended
  <2> QED BY <1>7, <2>2, <2>3 DEF Requested!End
<1>12. job'[k].status # "absent"
    BY <1>2, <1>6 DEF Advances
<1> QED BY <1>6, <1>10, <1>11, <1>12, PhaseOfStatus

LEMMA RestartRecovers ==
    ASSUME RequestInv, Next, Restart, InsertsNothing
    PROVE  \E ended \in SUBSET Requested!Running,
              returned \in SUBSET {r \in Requested!Running : requestSpent[r] < MaxAttempts} :
                 Requested!Recover(ended, returned)
<1> USE DEF Asked
<1>0. IInv
    BY DEF RequestInv, AttemptInv, HistoryInv
<1>1. /\ requestPhase' = [r \in JobIds |->
                             IF Asked(r) THEN Phase(job'[Last(r)].status) ELSE "none"]
      /\ requestSpent' = [r \in JobIds |-> IF Asked(r) THEN job'[Last(r)].attempts ELSE 0]
    BY MappedStep
<1>2. PICK ended \in SUBSET JobIds, returned \in SUBSET JobIds :
          /\ ended = {r \in JobIds : requestPhase[r] = "running" /\ requestPhase'[r] = "done"}
          /\ returned = {r \in JobIds : requestPhase[r] = "running" /\ requestPhase'[r] = "open"}
    OBVIOUS
<1>3. ASSUME NEW i \in JobIds
      PROVE  /\ job'[i].attempts = job[i].attempts
             /\ \/ Phase(job'[i].status) = Phase(job[i].status) /\ Phase(job[i].status) # "running"
                \/ Phase(job[i].status) = "running" /\ Phase(job'[i].status) = "done"
                \/ /\ Phase(job[i].status) = "running" /\ Phase(job'[i].status) = "open"
                   /\ job[i].attempts < MaxAttempts
  <2>1. /\ job[i].status \in Statuses /\ job'[i].status \in Statuses
        /\ Advances(job[i], job'[i]) /\ job'[i].status # "running"
        /\ job'[i].attempts = job[i].attempts
      BY <1>0, RowPhases, RestartAdvances
  <2>2. CASE job[i].status # "running"
    <3>1. job'[i] = job[i]
        BY <2>2 DEF Restart, Recovered
    <3> QED BY <2>1, <2>2, <3>1, PhaseOfStatus
  <2>3. CASE job[i].status = "running"
    <3>1. job'[i].status # "absent" /\ (job'[i].status \in Waiting => job[i].attempts < MaxAttempts)
        BY <2>1, <2>3 DEF Advances
    <3> QED BY <2>1, <2>3, <3>1, PhaseOfStatus
  <2> QED BY <2>2, <2>3
<1>4. \A r \in JobIds : Asked(r) => Last(r) \in JobIds
    BY LastRows
<1>5. requestSpent' = requestSpent
    BY <1>1, <1>3, <1>4, Mapped
<1>6. \A r \in JobIds : requestPhase'[r] = IF r \in ended THEN "done"
                                          ELSE IF r \in returned THEN "open" ELSE requestPhase[r]
    BY <1>1, <1>2, <1>3, <1>4, Mapped
<1>7. requestPhase' = [r \in JobIds |-> IF r \in ended THEN "done"
                                       ELSE IF r \in returned THEN "open" ELSE requestPhase[r]]
    BY <1>1, <1>6
<1>8. /\ ended \subseteq Requested!Running
      /\ returned \subseteq {r \in Requested!Running : requestSpent[r] < MaxAttempts}
    BY <1>1, <1>2, <1>3, <1>4, Mapped DEF Requested!Running
<1> QED BY <1>5, <1>7, <1>8 DEF Requested!Recover

\* The interrupted row ends and its successor is the last row from then on.
LEMMA BlockedInterrupts ==
    ASSUME RequestInv, Next, NEW w \in Holders, FinishBlocked(w)
    PROVE  OneRequest' /\ OneEnd' /\ \E r \in JobIds : Requested!Interrupt(r)
<1> DEFINE j == holder[w].job
<1>0. IInv
    BY DEF RequestInv, AttemptInv, HistoryInv
<1>1. PICK k \in JobIds : /\ job[k].status = "absent" /\ job[j].status = "running"
                          /\ job'[j].status = "cancelled" /\ job'[k].status = "paused"
                          /\ job'[k].retryOf = j /\ job'[k].resumes = TRUE
                          /\ job'[k].attempts = job[j].attempts - 1
                          /\ \A i \in JobIds \ {k, j} : job'[i] = job[i]
    BY <1>0, FinishBlockedRows DEF Fresh
<1>2. j \in JobIds /\ j # k
    BY <1>0, <1>1, Leased DEF FinishBlocked
<1>3. /\ job'[j].resumes = job[j].resumes /\ job'[j].retryOf = job[j].retryOf
    BY <1>1, <1>2, RowPhases DEF Advances
<1>4. /\ Asked(k) /\ Last(k) = k /\ job[k].attempts = 0
      /\ \A q \in JobIds : Asked(q) /\ q # k => Last(q) # k
    BY <1>1, LastRows
<1>5. PICK r \in JobIds : /\ Asked(r) /\ Last(r) = j
                          /\ \A q \in JobIds : Asked(q) /\ q # r => Last(q) # j
    BY <1>1, <1>2, LastRows, StatusSets DEF Terminal
<1>6. \A q \in JobIds : Asked(q) => Last(q) \in JobIds
    BY LastRows
<1>7. ~Continued(j) /\ ~Continued(k)
    BY <1>1, <1>2, ContinuedEnded, StatusSets DEF RequestInv, Terminal
<1>8. Extends(j, k)
  <2>1. Successors' = Successors \cup {k}
      BY <1>1, <1>2, <1>3 DEF Successors
  <2>2. \A i \in Successors : job'[i].retryOf = job[i].retryOf
      BY <1>1, <1>3, <1>4 DEF Successors, Asked
  <2> QED BY <1>1, <1>2, <1>4, <1>7, <2>1, <2>2 DEF Extends, Asked
<1>9. /\ OneRequest' /\ OneEnd'
      /\ \A q \in JobIds : Asked(q) /\ q # k => Last(q)' = IF Last(q) = j THEN k ELSE Last(q)
    BY <1>2, <1>7, <1>8, ExtendedEnds DEF RequestInv
<1>10. ~Asked(k)' /\ \A q \in JobIds \ {k} : Asked(q)' <=> Asked(q)
    BY <1>1, <1>2, <1>3 DEF Asked
<1>11. r # k
    BY <1>2, <1>4, <1>5
<1>12. Last(r)' = k /\ \A q \in JobIds : Asked(q) /\ q # k /\ q # r => Last(q)' = Last(q)
    BY <1>5, <1>9, <1>11
<1>13. \A q \in JobIds : Asked(q) /\ q # k /\ q # r => job'[Last(q)] = job[Last(q)]
    BY <1>1, <1>4, <1>5, <1>6
<1>14. /\ Phase(job[j].status) = "running" /\ Phase(job[k].status) = "none"
       /\ Phase(job'[k].status) = "open"
    BY <1>1, <1>2, RowPhases, PhaseOfStatus, StatusSets
<1>15. ASSUME NEW q \in JobIds
       PROVE  /\ requestPhase'[q] = IF q = r THEN "open" ELSE requestPhase[q]
              /\ requestSpent'[q] = IF q = r THEN requestSpent[q] - 1 ELSE requestSpent[q]
  <2>1. CASE q = k
      BY <1>4, <1>10, <1>11, <1>14, <2>1, Mapped, NextMapped
  <2>2. CASE q = r
      BY <1>1, <1>5, <1>10, <1>11, <1>12, <1>14, <2>2, Mapped, NextMapped
  <2>3. CASE q # k /\ q # r /\ Asked(q)
      BY <1>10, <1>12, <1>13, <2>3, Mapped, NextMapped
  <2>4. CASE q # k /\ q # r /\ ~Asked(q)
      BY <1>10, <2>4, Mapped, NextMapped
  <2> QED BY <2>1, <2>2, <2>3, <2>4
<1>16. requestPhase[r] = "running"
    BY <1>5, <1>14, Mapped
<1>17. /\ requestPhase' = [requestPhase EXCEPT ![r] = "open"]
       /\ requestSpent' = [requestSpent EXCEPT ![r] = @ - 1]
    BY <1>15, Mapped, NextMapped
<1> QED BY <1>9, <1>16, <1>17 DEF Requested!Interrupt

LEMMA StepRequested ==
    ASSUME RequestInv, Next PROVE RequestInv' /\ Requested!Next
<1>0. HistoryInv /\ IInv /\ AttemptInv'
    BY StepAttemptInv DEF RequestInv, AttemptInv, HistoryInv
<1>1. CASE AllKeep /\ InsertsNothing
  <2>1. OneRequest' /\ OneEnd'
      BY <1>1, MappedStep
  <2> QED BY <1>0, <1>1, <2>1, KeepingEnds DEF RequestInv, Requested!Next
<1>2. CASE \E k \in JobIds : Adds(k)
  <2>1. OneRequest' /\ OneEnd'
      BY <1>2, MappedStep
  <2> QED BY <1>0, <1>2, <2>1, AddingOpens DEF RequestInv, Requested!Next
<1>3. CASE \E w \in Holders : FinishBlocked(w)
    BY <1>0, <1>3, BlockedInterrupts DEF RequestInv, Requested!Next
<1>4. ASSUME InsertsNothing, NEW w \in Holders, Finish(w) \/ \E k \in JobIds : Claim(w, k)
      PROVE  RequestInv' /\ Requested!Next
  <2>1. OneRequest' /\ OneEnd'
      BY <1>4, MappedStep
  <2>2. CASE Finish(w)
      BY <1>0, <1>4, <2>1, <2>2, FinishEnds DEF RequestInv, Requested!Next
  <2>3. CASE \E k \in JobIds : Claim(w, k)
      BY <1>0, <2>1, <2>3, ClaimStarts DEF RequestInv, Requested!Next
  <2> QED BY <1>4, <2>2, <2>3
<1>5. CASE InsertsNothing /\ Restart
  <2>1. OneRequest' /\ OneEnd'
      BY <1>5, MappedStep
  <2> QED BY <1>0, <1>5, <2>1, RestartRecovers DEF RequestInv, Requested!Next
<1> QED BY <1>0, <1>1, <1>2, <1>3, <1>4, <1>5, StepKinds

LEMMA StillRequested ==
    ASSUME RequestInv, UNCHANGED vars
    PROVE  RequestInv' /\ UNCHANGED Requested!requestVars
<1>1. AttemptInv'
    BY StepAttemptInv DEF RequestInv
<1>2. /\ OneRequest' /\ OneEnd'
      /\ \A r \in JobIds : Asked(r)' <=> Asked(r)
      /\ \A r \in JobIds : Asked(r) => Last(r)' = Last(r)
    BY SameLinks DEF vars, RequestInv
<1>3. job' = job
    BY DEF vars
<1>4. requestPhase' = requestPhase /\ requestSpent' = requestSpent
    BY <1>2, <1>3, Mapped, NextMapped
<1> QED BY <1>1, <1>2, <1>4 DEF RequestInv, Requested!requestVars

LEMMA InitRequested == Init => RequestInv /\ Requested!Init
<1> SUFFICES ASSUME Init PROVE RequestInv /\ Requested!Init
    OBVIOUS
<1>1. AttemptInv
    BY InitAttemptInv
<1>2. \A j \in JobIds : job[j].status = "absent" /\ job[j].attempts = 0 /\ job[j].resumes = FALSE
    BY NoRowIsRow DEF Init
<1>3. \A j \in JobIds : Asked(j) /\ ~Continued(j) /\ Last(j) = j
    BY <1>2 DEF Asked, Continued, Last
<1>4. \A r, k \in JobIds : Carries(r, k) <=> r = k
    BY <1>3, CarriesSelf, CarriesAlone
<1>5. OneRequest
    BY <1>3, <1>4 DEF OneRequest
<1>6. OneEnd
    BY <1>3, <1>4 DEF OneEnd, Ends
<1>7. \A j \in JobIds : Phase(job[j].status) = "none"
    BY <1>2, PhaseOfStatus, StatusSets
<1>8. Requested!Init
    BY <1>2, <1>3, <1>7, Mapped DEF Requested!Init
<1> QED BY <1>1, <1>5, <1>6, <1>8 DEF RequestInv

\* The queue implements the requests it is asked: through any number of
\* retries, licence pauses with their successor rows, cancellations, lost
\* finishes and restarts, a request runs once at a time, starts at most
\* max_attempts times that the licence does not give back, and never comes
\* back once it is done.
THEOREM RowsAreRequests == Spec => ImplementsRequests
<1>1. Init => RequestInv /\ Requested!Init
    BY InitRequested
<1>2. RequestInv /\ [Next]_vars => RequestInv' /\ [Requested!Next]_(Requested!requestVars)
    BY StepRequested, StillRequested
<1> QED BY <1>1, <1>2, PTL DEF Spec, ImplementsRequests, Requested!Spec
=============================================================================
