----------------------------- MODULE ContentLanes -----------------------------
(***************************************************************************)
(* The two lanes of content work of a Runtime: native workers that claim a *)
(* job and prepare it, OCR workers that complete the ones with scanned     *)
(* pages, the channel between them and the slots that bound both           *)
(* (internal/libraries/ocr_workers.go and the content part of runtime.go). *)
(*                                                                         *)
(* Where JobQueue only says that a claimed extraction lives in some        *)
(* holder, this module says in which, who holds a slot meanwhile, and who  *)
(* removes the private snapshot.  A section under contentMutex is one      *)
(* step; the settings are read before it, so they may be stale in it.      *)
(***************************************************************************)
EXTENDS Naturals, Sequences, FiniteSets

CONSTANTS
    NativeWorkers,  \* goroutines of the native lane (8)
    OcrWorkers,     \* goroutines of the OCR lane (4)
    Settings,       \* bound: the effective settings that occur
    PerOcrWorker,   \* documents of the channel for each OCR worker (2)
    Jobs,           \* bound: the content jobs that can be at hand at once
    MaxChanges,     \* bound: changes of the settings
    MaxStops        \* bound: ends of the process, orderly or not

ASSUME LanesAssumption ==
    /\ NativeWorkers \in Nat /\ OcrWorkers \in Nat
    /\ Settings # {}
    /\ \A s \in Settings :      \* Concurrency.Validate, Recommend
          /\ s \in [native : Nat \ {0}, ocr : Nat \ {0}, total : Nat \ {0}]
          /\ s.native <= s.total /\ s.ocr <= s.total
    /\ PerOcrWorker \in Nat \ {0}
    /\ MaxChanges \in Nat /\ MaxStops \in Nat

VARIABLES
    phase,          \* of the process
    settings,       \* the effective settings
    native, ocr,    \* the workers of each lane
    nativeActive,   \* Runtime.nativeActive
    ocrActive,      \* Runtime.ocrActive
    queue,          \* the OCR channel: its buffer, then its blocked senders
    capacity,       \* of the buffer
    claimed,        \* the jobs this process has claimed and not finished
    cancelled,      \* the jobs whose operation context is cancelled
    snapshots,      \* the jobs that have a private snapshot on disk
    changes, stops  \* counters of the bounded steps

vars == <<phase, settings, native, ocr, nativeActive, ocrActive, queue,
          capacity, claimed, cancelled, snapshots, changes, stops>>

laneVars == <<native, ocr, nativeActive, ocrActive>>
bounds   == <<settings, capacity, changes, stops>>

-----------------------------------------------------------------------------
NativeIds == 0 .. NativeWorkers - 1
OcrIds    == 0 .. OcrWorkers - 1

NoSettings == [native |-> 0, ocr |-> 0, total |-> 0]

NativeSteps == {"idle", "asked", "slot", "prepare", "snapshot", "prepared",
                "handing", "finish"}
OcrSteps    == {"idle", "asked", "slot", "recognise", "settle"}

\* The steps between acquireContent and releaseContent.
NativeHolding == {"slot", "prepare", "snapshot"}
OcrHolding    == {"slot", "recognise"}

NoJob == "none"

ASSUME NoJobAssumption == NoJob \notin Jobs

Worker(steps) == [pc : steps, task : Jobs \cup {NoJob},
                  seen : Settings \cup {NoSettings}]

Idle == [pc |-> "idle", task |-> NoJob, seen |-> NoSettings]

TypeOK ==
    /\ phase \in {"up", "closing", "down"}
    /\ settings \in Settings
    /\ native \in [NativeIds -> Worker(NativeSteps)]
    /\ ocr \in [OcrIds -> Worker(OcrSteps)]
    /\ nativeActive \in 0 .. NativeWorkers
    /\ ocrActive \in 0 .. OcrWorkers
    /\ queue \in Seq(Jobs)
    /\ capacity \in Nat \ {0}
    /\ claimed \subseteq Jobs
    /\ cancelled \subseteq Jobs
    /\ snapshots \subseteq Jobs
    /\ changes \in 0 .. MaxChanges
    /\ stops \in 0 .. MaxStops

\* The channel holds two documents for each OCR worker configured at start.
Capacity(s) == PerOcrWorker * s.ocr

Init ==
    /\ phase = "up"
    /\ settings \in Settings
    /\ native = [w \in NativeIds |-> Idle]
    /\ ocr = [w \in OcrIds |-> Idle]
    /\ nativeActive = 0 /\ ocrActive = 0
    /\ queue = <<>>
    /\ capacity = Capacity(settings)
    /\ claimed = {} /\ cancelled = {} /\ snapshots = {}
    /\ changes = 0 /\ stops = 0

-----------------------------------------------------------------------------
\* Slots.

Busy == nativeActive + ocrActive

\* Mutant: a waiting OCR task reserves nothing.
NativeLimitUnreserved(s) == s.total

\* While OCR waits and none runs, native work leaves one slot to it.
NativeLimit(s) ==
    IF queue # <<>> /\ s.total > 1 /\ ocrActive = 0 THEN s.total - 1 ELSE s.total

\* Mutant: the lanes do not count each other.
NativeMayStartAlone(w) ==
    LET s == native[w].seen
    IN  w < s.native /\ nativeActive < s.native /\ nativeActive < NativeLimit(s)

\* acquireContent, with the settings read before the mutex.
NativeMayStart(w) ==
    LET s == native[w].seen
    IN  w < s.native /\ nativeActive < s.native /\ Busy < NativeLimit(s)

OcrMayStart(w) ==
    LET s == ocr[w].seen
    IN  w < s.ocr /\ ocrActive < s.ocr /\ Busy < s.total

-----------------------------------------------------------------------------
\* A native worker.

NativeGoes(w, pc) == native' = [native EXCEPT ![w].pc = pc]

NativeReset(w) == native' = [native EXCEPT ![w] = Idle]

\* A tick: the settings are read.  An idle worker whose context has ended
\* returns; if a tick was due as well it may follow it once more, as a worker
\* that ticked just before the end does.
NativeAsks(w) ==
    /\ phase = "up"
    /\ native[w].pc = "idle"
    /\ native' = [native EXCEPT ![w].pc = "asked", ![w].seen = settings]
    /\ UNCHANGED <<phase, ocr, nativeActive, ocrActive, queue, claimed,
                   cancelled, snapshots, bounds>>

NativeAcquires(w) ==
    /\ native[w].pc = "asked"
    /\ IF NativeMayStart(w)
       THEN native' = [native EXCEPT ![w] = [Idle EXCEPT !.pc = "slot"]]
            /\ nativeActive' = nativeActive + 1
       ELSE NativeReset(w) /\ UNCHANGED nativeActive
    /\ UNCHANGED <<phase, ocr, ocrActive, queue, claimed, cancelled, snapshots,
                   bounds>>

\* Bound: the name of a job is used again once nobody has it in hand.
Spare(j) ==
    /\ j \notin claimed
    /\ \A w \in NativeIds : native[w].task # j

\* claimLane; nothing can be claimed once the context has ended.
ClaimJob(w, j) ==
    /\ native[w].pc = "slot" /\ phase = "up"
    /\ Spare(j)
    /\ native' = [native EXCEPT ![w].pc = "prepare", ![w].task = j]
    /\ claimed' = claimed \cup {j}
    /\ UNCHANGED <<phase, ocr, nativeActive, ocrActive, queue, cancelled,
                   snapshots, bounds>>

ClaimNothing(w) ==
    /\ native[w].pc = "slot"
    /\ NativeReset(w)
    /\ nativeActive' = nativeActive - 1
    /\ UNCHANGED <<phase, ocr, ocrActive, queue, claimed, cancelled, snapshots,
                   bounds>>

\* cleanup
Cleaned(j) == snapshots \ {j}

\* prepareExtraction creates its private directory.
TakeSnapshot(w) ==
    /\ native[w].pc = "prepare"
    /\ NativeGoes(w, "snapshot")
    /\ snapshots' = snapshots \cup {native[w].task}
    /\ UNCHANGED <<phase, ocr, nativeActive, ocrActive, queue, claimed,
                   cancelled, bounds>>

\* The operation ends in this lane, well or not: a job that is no extraction,
\* a preparation that fails, a document whose pages all have text.
EndNative(w) ==
    /\ native[w].pc \in {"prepare", "snapshot"}
    /\ NativeGoes(w, "finish")
    /\ nativeActive' = nativeActive - 1
    /\ snapshots' = Cleaned(native[w].task)
    /\ UNCHANGED <<phase, ocr, ocrActive, queue, claimed, cancelled, bounds>>

\* The slot is released before the task is sent.
Released == nativeActive - 1

\* NeedsOCR
Prepared(w) ==
    /\ native[w].pc = "snapshot"
    /\ NativeGoes(w, "prepared")
    /\ nativeActive' = Released
    /\ UNCHANGED <<phase, ocr, ocrActive, queue, claimed, cancelled, snapshots,
                   bounds>>

\* The task joins the channel, behind its buffer when that is full.
HandOver(w) ==
    /\ native[w].pc = "prepared"
    /\ NativeGoes(w, "handing")
    /\ queue' = Append(queue, native[w].task)
    /\ UNCHANGED <<phase, ocr, nativeActive, ocrActive, claimed, cancelled,
                   snapshots, bounds>>

\* Mutant: the worker goes on to record the outcome of a task it handed over.
AfterHandingFinish == "finish"

AfterHanding == "idle"

Place(j) == CHOOSE k \in 1 .. Len(queue) : queue[k] = j

Waiting(j) == \E k \in 1 .. Len(queue) : queue[k] = j

\* The send went through: the task is in the buffer, or was taken from it.
HandedOver(w) ==
    LET j == native[w].task
    IN  /\ native[w].pc = "handing"
        /\ Waiting(j) => Place(j) <= capacity
        /\ native' = [native EXCEPT ![w] =
                        [@ EXCEPT !.pc = AfterHanding,
                                  !.task = IF AfterHanding = "idle" THEN NoJob ELSE @]]
        /\ UNCHANGED <<phase, ocr, nativeActive, ocrActive, queue, claimed,
                       cancelled, snapshots, bounds>>

Without(k) ==
    [i \in 1 .. Len(queue) - 1 |-> IF i < k THEN queue[i] ELSE queue[i + 1]]

\* Mutant: the send does not watch the context.
InterruptedNever(j) == FALSE

\* The context of an operation ends when its job or the process is cancelled.
Interrupted(j) == j \in cancelled \/ phase = "closing"

\* The other case of the select, for a sender that has not been served: the
\* task ends here and completeTask removes its snapshot.
GiveUpHanding(w) ==
    LET j == native[w].task
    IN  /\ Interrupted(j)
        /\ \/ native[w].pc = "prepared" /\ UNCHANGED queue
           \/ /\ native[w].pc = "handing"
              /\ Waiting(j) /\ Place(j) > capacity
              /\ queue' = Without(Place(j))
        /\ snapshots' = Cleaned(j)
        /\ NativeGoes(w, "finish")
        /\ UNCHANGED <<phase, ocr, nativeActive, ocrActive, claimed, cancelled,
                       bounds>>

\* finish; when the process is closing the row is left to the next recovery.
Settle(j) == claimed' = claimed \ {j} /\ cancelled' = cancelled \ {j}

FinishNative(w) ==
    /\ native[w].pc = "finish"
    /\ Settle(native[w].task)
    /\ NativeReset(w)
    /\ UNCHANGED <<phase, ocr, nativeActive, ocrActive, queue, snapshots, bounds>>

-----------------------------------------------------------------------------
\* An OCR worker.

OcrGoes(w, pc) == ocr' = [ocr EXCEPT ![w].pc = pc]

OcrReset(w) == ocr' = [ocr EXCEPT ![w] = Idle]

OcrAsks(w) ==
    /\ phase = "up"
    /\ ocr[w].pc = "idle"
    /\ queue # <<>>
    /\ ocr' = [ocr EXCEPT ![w].pc = "asked", ![w].seen = settings]
    /\ UNCHANGED <<phase, native, nativeActive, ocrActive, queue, claimed,
                   cancelled, snapshots, bounds>>

OcrAcquires(w) ==
    /\ ocr[w].pc = "asked"
    /\ IF OcrMayStart(w)
       THEN ocr' = [ocr EXCEPT ![w] = [Idle EXCEPT !.pc = "slot"]]
            /\ ocrActive' = ocrActive + 1
       ELSE OcrReset(w) /\ UNCHANGED ocrActive
    /\ UNCHANGED <<phase, native, nativeActive, queue, claimed, cancelled,
                   snapshots, bounds>>

OcrTakes(w) ==
    /\ ocr[w].pc = "slot"
    /\ queue # <<>>
    /\ ocr' = [ocr EXCEPT ![w].pc = "recognise", ![w].task = Head(queue)]
    /\ queue' = Tail(queue)
    /\ UNCHANGED <<phase, native, nativeActive, ocrActive, claimed, cancelled,
                   snapshots, bounds>>

\* Mutant: the slot of a worker that found nothing is released twice.
EmptyHandedTwice == ocrActive - 2

EmptyHanded == ocrActive - 1

\* Another worker took the task meanwhile.
OcrFindsNothing(w) ==
    /\ ocr[w].pc = "slot"
    /\ queue = <<>>
    /\ OcrReset(w)
    /\ ocrActive' = EmptyHanded
    /\ UNCHANGED <<phase, native, nativeActive, queue, claimed, cancelled,
                   snapshots, bounds>>

\* complete ends, well or not.
EndOcr(w) ==
    /\ ocr[w].pc = "recognise"
    /\ OcrGoes(w, "settle")
    /\ ocrActive' = ocrActive - 1
    /\ UNCHANGED <<phase, native, nativeActive, queue, claimed, cancelled,
                   snapshots, bounds>>

\* completeTask
CompleteTask(w) ==
    /\ ocr[w].pc = "settle"
    /\ snapshots' = Cleaned(ocr[w].task)
    /\ Settle(ocr[w].task)
    /\ OcrReset(w)
    /\ UNCHANGED <<phase, native, nativeActive, ocrActive, queue, bounds>>

-----------------------------------------------------------------------------
\* The user and the process.

\* The monitor of the operation sees the request of CancelJob.
CancelOperation(j) ==
    /\ phase = "up"
    /\ j \in claimed \ cancelled
    /\ cancelled' = cancelled \cup {j}
    /\ UNCHANGED <<phase, laneVars, queue, claimed, snapshots, bounds>>

ConfigureProcessing(s) ==
    /\ changes < MaxChanges
    /\ s # settings
    /\ settings' = s
    /\ changes' = changes + 1
    /\ UNCHANGED <<phase, laneVars, queue, capacity, claimed, cancelled,
                   snapshots, stops>>

Close ==
    /\ phase = "up"
    /\ stops < MaxStops
    /\ phase' = "closing"
    /\ stops' = stops + 1
    /\ UNCHANGED <<settings, laneVars, queue, capacity, claimed, cancelled,
                   snapshots, changes>>

AllReturned ==
    /\ \A w \in NativeIds : native[w].pc = "idle"
    /\ \A w \in OcrIds : ocr[w].pc = "idle"

\* Close removes the snapshots of the tasks left in the channel.
Drained == {queue[k] : k \in 1 .. Len(queue)}

Drain ==
    /\ phase = "closing"
    /\ AllReturned
    /\ phase' = "down"
    /\ snapshots' = snapshots \ Drained
    /\ claimed' = claimed \ {queue[k] : k \in 1 .. Len(queue)}
    /\ cancelled' = {}
    /\ queue' = <<>>
    /\ UNCHANGED <<laneVars, bounds>>

\* The process dies: of all this, only the snapshots are left.
Crash ==
    /\ phase # "down"
    /\ stops < MaxStops
    /\ phase' = "down"
    /\ stops' = stops + 1
    /\ native' = [w \in NativeIds |-> Idle]
    /\ ocr' = [w \in OcrIds |-> Idle]
    /\ nativeActive' = 0 /\ ocrActive' = 0
    /\ queue' = <<>>
    /\ claimed' = {} /\ cancelled' = {}
    /\ UNCHANGED <<settings, capacity, snapshots, changes>>

\* Start removes the snapshots left over and makes a channel for the settings
\* of now.
Start ==
    /\ phase = "down"
    /\ phase' = "up"
    /\ capacity' = Capacity(settings)
    /\ snapshots' = {}
    /\ UNCHANGED <<settings, laneVars, queue, claimed, cancelled, changes, stops>>

-----------------------------------------------------------------------------
NativeWorks(w) ==
    \/ NativeAsks(w) \/ NativeAcquires(w)
    \/ \E j \in Jobs : ClaimJob(w, j)
    \/ ClaimNothing(w)
    \/ TakeSnapshot(w) \/ EndNative(w)
    \/ Prepared(w) \/ HandOver(w) \/ HandedOver(w) \/ GiveUpHanding(w)
    \/ FinishNative(w)

OcrWorks(w) ==
    \/ OcrAsks(w) \/ OcrAcquires(w) \/ OcrTakes(w) \/ OcrFindsNothing(w)
    \/ EndOcr(w) \/ CompleteTask(w)

Next ==
    \/ \E w \in NativeIds : NativeWorks(w)
    \/ \E w \in OcrIds : OcrWorks(w)
    \/ \E j \in Jobs : CancelOperation(j)
    \/ \E s \in Settings : ConfigureProcessing(s)
    \/ Close \/ Drain \/ Crash \/ Start

Spec == Init /\ [][Next]_vars

\* Every worker ticks and every operation ends (each stage has a timeout of an
\* hour).  Nobody owes a job, a cancellation, a change, an end or a start.
Fairness ==
    /\ \A w \in NativeIds : WF_vars(NativeWorks(w))
    /\ \A w \in OcrIds : WF_vars(OcrWorks(w))
    /\ WF_vars(Drain)

FairSpec == Spec /\ Fairness

-----------------------------------------------------------------------------
\* Properties.

NativeHolders == {w \in NativeIds : native[w].pc \in NativeHolding}
OcrHolders    == {w \in OcrIds : ocr[w].pc \in OcrHolding}

\* The counters are the number of workers between acquireContent and
\* releaseContent, through every early exit, hand-over and failure: a slot
\* released twice or never would change the limits until the next start.
SlotsMatchHolders ==
    /\ nativeActive = Cardinality(NativeHolders)
    /\ ocrActive = Cardinality(OcrHolders)

\* docs/REVISION-R4.md: separate limits and a global limit of the operations
\* at work, counted by the workers at work and not by the counters.  A change
\* of settings interrupts nobody, so the limit is that of some settings used.
WithinLimits ==
    /\ \E s \in Settings : Cardinality(NativeHolders) <= s.native
    /\ \E s \in Settings : Cardinality(OcrHolders) <= s.ocr
    /\ \E s \in Settings : Cardinality(NativeHolders) + Cardinality(OcrHolders) <= s.total

\* Taken together: the limits that acquireContent keeps with its counters are
\* limits of the work that is really going on.
SlotsBounded == SlotsMatchHolders /\ WithinLimits

\* Where a job is: with a native worker that has not handed it over, in the
\* channel, or with an OCR worker.
WithNative(j) == {w \in NativeIds : native[w].task = j /\ native[w].pc # "handing"}
InChannel(j)  == {k \in 1 .. Len(queue) : queue[k] = j}
WithOcr(j)    == {w \in OcrIds : ocr[w].task = j}

\* A claimed job is in exactly one place, across the
\* hand-over, a cancelled hand-over and a taken task: nobody records an outcome
\* twice and no task is dropped between the lanes.
HeldInOnePlace ==
    \A j \in Jobs :
        Cardinality(WithNative(j)) + Cardinality(InChannel(j)) + Cardinality(WithOcr(j))
            = IF j \in claimed THEN 1 ELSE 0

\* Every private snapshot has an owner who will remove it: a worker, or the
\* channel that Close drains.  After a crash the next start removes them.
SnapshotsOwned ==
    phase # "down" =>
        \A j \in snapshots : WithNative(j) # {} \/ InChannel(j) # {} \/ WithOcr(j) # {}

\* Claimed job and private snapshot follow each other through the lanes.
TasksHeld == HeldInOnePlace /\ SnapshotsOwned

\* An orderly close removes the snapshots of the tasks nobody took; only a
\* crash leaves some.
CloseLeavesNoSnapshot ==
    [][phase = "closing" /\ phase' = "down" /\ stops' = stops => snapshots' = {}]_vars

\* ocr_workers.go:17: one slot is reserved so that native work cannot starve
\* the OCR lane.  A task that waits for OCR is taken, provided the total in
\* force allows a reservation at all.
OcrServed ==
    <>[](settings.total > 1) => \A j \in Jobs : (Waiting(j) ~> ~Waiting(j))

\* An orderly close comes to an end whatever the workers were doing, also
\* those blocked on a full channel that nobody reads any more.
CloseEnds == phase = "closing" ~> phase = "down"

\* Close returns, and with nothing of the private content left (runtime.go).
CloseCompletes == CloseLeavesNoSnapshot /\ CloseEnds

=============================================================================
