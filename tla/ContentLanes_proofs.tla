------------------------ MODULE ContentLanes_proofs ------------------------
(***************************************************************************)
(* Proofs about the slots of ContentLanes for any number of workers, jobs, *)
(* settings, changes and ends of the process.                              *)
(*                                                                         *)
(* Every step either leaves the holders of a lane and its counter alone,   *)
(* or makes one worker a holder and adds one to the counter, or takes one  *)
(* worker out and subtracts one, or empties the lanes (Crash).  NativeTurn *)
(* and OcrTurn state that case analysis; the counters and the limits       *)
(* follow from it.                                                         *)
(*                                                                         *)
(* The second part says where the claimed jobs are (TasksInv): in one      *)
(* place, the queue, the heap of native work or a worker, and nowhere once *)
(* the process is down.                                                    *)
(***************************************************************************)
EXTENDS ContentLanes, FiniteSetTheorems, SequenceTheorems, TLAPS

NativeWithJob == {"prepare", "snapshot", "prepared", "handing", "finish"}

\* The types, the counters apart.
Typed ==
    /\ phase \in {"up", "closing", "down"}
    /\ settings \in Settings
    /\ native \in [NativeIds -> Worker(NativeSteps)]
    /\ \A w \in NativeIds : native[w].pc \in NativeWithJob => native[w].task \in Jobs
    /\ ocr \in [OcrIds -> Worker(OcrSteps)]
    /\ queue \in Seq(Jobs)
    /\ capacity \in Nat \ {0}
    /\ claimed \subseteq Jobs
    /\ cancelled \subseteq Jobs
    /\ snapshots \subseteq Jobs
    /\ changes \in 0 .. MaxChanges
    /\ stops \in 0 .. MaxStops

\* The limits, for the counters.
CountersWithin ==
    /\ \E s \in Settings : nativeActive <= s.native
    /\ \E s \in Settings : ocrActive <= s.ocr
    /\ \E s \in Settings : Busy <= s.total

LanesInv == Typed /\ SlotsMatchHolders /\ CountersWithin

-----------------------------------------------------------------------------
\* Finite sets of workers.

LEMMA LaneSizes ==
    /\ IsFiniteSet(NativeIds) /\ Cardinality(NativeIds) = NativeWorkers
    /\ IsFiniteSet(OcrIds) /\ Cardinality(OcrIds) = OcrWorkers
<1>1. NativeWorkers \in Nat /\ OcrWorkers \in Nat
  BY LanesAssumption
<1>2. ASSUME NEW n \in Nat
      PROVE  IsFiniteSet(0 .. n - 1) /\ Cardinality(0 .. n - 1) = n
  <2>1. 0 \in Int /\ n - 1 \in Int
    OBVIOUS
  <2>2. IsFiniteSet(0 .. n - 1) /\ Cardinality(0 .. n - 1) = IF 0 > n - 1 THEN 0 ELSE n - 1 - 0 + 1
    BY <2>1, FS_Interval, Zenon
  <2> QED BY <2>2
<1> QED BY <1>1, <1>2 DEF NativeIds, OcrIds

LEMMA HoldersFinite ==
    /\ IsFiniteSet(NativeHolders) /\ Cardinality(NativeHolders) \in 0 .. NativeWorkers
    /\ IsFiniteSet(OcrHolders) /\ Cardinality(OcrHolders) \in 0 .. OcrWorkers
<1>1. NativeHolders \in SUBSET NativeIds /\ OcrHolders \in SUBSET OcrIds
  BY DEF NativeHolders, OcrHolders
<1>2. /\ IsFiniteSet(NativeHolders) /\ Cardinality(NativeHolders) <= NativeWorkers
      /\ IsFiniteSet(OcrHolders) /\ Cardinality(OcrHolders) <= OcrWorkers
  BY <1>1, LaneSizes, FS_Subset
<1>3. Cardinality(NativeHolders) \in Nat /\ Cardinality(OcrHolders) \in Nat
  BY <1>2, FS_CardinalityType
<1> QED BY <1>2, <1>3, LanesAssumption

\* The lanes' share of TypeOK and WithinLimits.
LEMMA InvariantGivesBounds == LanesInv => TypeOK /\ WithinLimits
<1> SUFFICES ASSUME LanesInv PROVE TypeOK /\ WithinLimits
  OBVIOUS
<1>1. /\ nativeActive = Cardinality(NativeHolders)
      /\ ocrActive = Cardinality(OcrHolders)
  BY DEF LanesInv, SlotsMatchHolders
<1>2. TypeOK
  BY <1>1, HoldersFinite DEF LanesInv, Typed, TypeOK
<1>3. WithinLimits
  BY <1>1 DEF LanesInv, CountersWithin, WithinLimits, Busy
<1> QED BY <1>2, <1>3

-----------------------------------------------------------------------------
\* What a step does to the holders of a lane.

NativeSame == NativeHolders' = NativeHolders /\ nativeActive' = nativeActive
OcrSame    == OcrHolders' = OcrHolders /\ ocrActive' = ocrActive

NativeJoins ==
    /\ \E w \in NativeIds \ NativeHolders : NativeHolders' = NativeHolders \cup {w}
    /\ nativeActive' = nativeActive + 1
    /\ \E s \in Settings : nativeActive < s.native /\ Busy < s.total

NativeLeaves ==
    /\ \E w \in NativeHolders : NativeHolders' = NativeHolders \ {w}
    /\ nativeActive' = nativeActive - 1

OcrJoins ==
    /\ \E w \in OcrIds \ OcrHolders : OcrHolders' = OcrHolders \cup {w}
    /\ ocrActive' = ocrActive + 1
    /\ \E s \in Settings : ocrActive < s.ocr /\ Busy < s.total

OcrLeaves ==
    /\ \E w \in OcrHolders : OcrHolders' = OcrHolders \ {w}
    /\ ocrActive' = ocrActive - 1

NativeTurn == (NativeSame \/ NativeJoins \/ NativeLeaves) /\ OcrSame
OcrTurn    == (OcrSame \/ OcrJoins \/ OcrLeaves) /\ NativeSame

Emptied == /\ NativeHolders' = {} /\ nativeActive' = 0
           /\ OcrHolders' = {} /\ ocrActive' = 0

\* Worker w moves to step pc and the others stay where they are.
NativeMoves(w, pc) ==
    \A v \in NativeIds : native'[v].pc = IF v = w THEN pc ELSE native[v].pc

OcrMoves(w, pc) ==
    \A v \in OcrIds : ocr'[v].pc = IF v = w THEN pc ELSE ocr[v].pc

LEMMA NativeUpdate ==
    ASSUME NEW w \in NativeIds, NEW pc, NativeMoves(w, pc)
    PROVE  /\ pc \in NativeHolding => NativeHolders' = NativeHolders \cup {w}
           /\ pc \notin NativeHolding => NativeHolders' = NativeHolders \ {w}
BY DEF NativeHolders, NativeMoves

LEMMA OcrUpdate ==
    ASSUME NEW w \in OcrIds, NEW pc, OcrMoves(w, pc)
    PROVE  /\ pc \in OcrHolding => OcrHolders' = OcrHolders \cup {w}
           /\ pc \notin OcrHolding => OcrHolders' = OcrHolders \ {w}
BY DEF OcrHolders, OcrMoves

\* acquireContent refuses a worker that has no settings, and the others are
\* bounded by the settings they read.
LEMMA NativeMayStartBound ==
    ASSUME Typed, nativeActive \in Nat, ocrActive \in Nat,
           NEW w \in NativeIds, NativeMayStart(w)
    PROVE  \E s \in Settings : nativeActive < s.native /\ Busy < s.total
<1>1. native[w].seen \in Settings \cup {NoSettings}
  BY DEF Typed, Worker
<1>2. CASE native[w].seen = NoSettings
  <2>1. w < 0
    BY <1>2 DEF NativeMayStart, NoSettings
  <2> QED BY <2>1, LanesAssumption DEF NativeIds
<1>3. CASE native[w].seen \in Settings
  <2> DEFINE s == native[w].seen
  <2>1. s.total \in Nat /\ s.native \in Nat
    BY <1>3, LanesAssumption
  <2>2. NativeLimit(s) \in {s.total, s.total - 1}
    BY DEF NativeLimit
  <2>3. nativeActive < s.native /\ Busy < NativeLimit(s)
    BY DEF NativeMayStart
  <2>4. Busy \in Nat
    BY DEF Busy
  <2>5. Busy < s.total
    BY <2>1, <2>2, <2>3, <2>4
  <2> QED BY <1>3, <2>3, <2>5
<1> QED BY <1>1, <1>2, <1>3

LEMMA OcrMayStartBound ==
    ASSUME Typed, nativeActive \in Nat, ocrActive \in Nat,
           NEW w \in OcrIds, OcrMayStart(w)
    PROVE  \E s \in Settings : ocrActive < s.ocr /\ Busy < s.total
<1>1. ocr[w].seen \in Settings \cup {NoSettings}
  BY DEF Typed, Worker
<1>2. CASE ocr[w].seen = NoSettings
  BY <1>2, LanesAssumption DEF OcrMayStart, NoSettings, OcrIds
<1>3. CASE ocr[w].seen \in Settings
  BY <1>3 DEF OcrMayStart
<1> QED BY <1>1, <1>2, <1>3

-----------------------------------------------------------------------------
\* Every step takes a turn.

LEMMA TurnOfNativeWorker ==
    ASSUME LanesInv, NEW w \in NativeIds, NativeWorks(w)
    PROVE  NativeTurn
<1> DEFINE at(pc) == native[w].pc = pc
<1>0. /\ native \in [NativeIds -> Worker(NativeSteps)]
      /\ nativeActive \in Nat /\ ocrActive \in Nat /\ Typed
  BY HoldersFinite DEF LanesInv, Typed, SlotsMatchHolders
<1>1. OcrSame
  BY DEF NativeWorks, NativeAsks, NativeAcquires, ClaimJob, ClaimNothing, TakeSnapshot,
         EndNative, Prepared, HandOver, HandedOver, GiveUpHanding, FinishNative,
         OcrSame, OcrHolders
<1>2. w \in NativeHolders <=> native[w].pc \in NativeHolding
  BY DEF NativeHolders
<1>3. CASE NativeAsks(w)
  <2>1. NativeMoves(w, "asked")
    BY <1>3, <1>0 DEF NativeAsks, NativeMoves, Worker
  <2>2. NativeHolders' = NativeHolders \ {w}
    BY <2>1, NativeUpdate DEF NativeHolding
  <2> QED BY <1>1, <1>2, <1>3, <2>2 DEF NativeAsks, NativeTurn, NativeSame, NativeHolding
<1>4. CASE NativeAcquires(w)
  <2>1. CASE NativeMayStart(w)
    <3>1. NativeMoves(w, "slot")
      BY <1>0, <1>4, <2>1 DEF NativeAcquires, NativeMoves, Worker, Idle
    <3>2. NativeHolders' = NativeHolders \cup {w}
      BY <3>1, NativeUpdate DEF NativeHolding
    <3>3. w \notin NativeHolders
      BY <1>2, <1>4 DEF NativeAcquires, NativeHolding
    <3>4. \E s \in Settings : nativeActive < s.native /\ Busy < s.total
      BY <1>0, <2>1, NativeMayStartBound
    <3> QED BY <1>1, <1>4, <2>1, <3>2, <3>3, <3>4 DEF NativeAcquires, NativeTurn, NativeJoins
  <2>2. CASE ~NativeMayStart(w)
    <3>1. NativeMoves(w, "idle")
      BY <1>0, <1>4, <2>2 DEF NativeAcquires, NativeReset, NativeMoves, Worker, Idle
    <3>2. NativeHolders' = NativeHolders \ {w}
      BY <3>1, NativeUpdate DEF NativeHolding
    <3> QED BY <1>1, <1>2, <1>4, <2>2, <3>2
            DEF NativeAcquires, NativeTurn, NativeSame, NativeHolding
  <2> QED BY <2>1, <2>2
<1>5. CASE \E j \in Jobs : ClaimJob(w, j)
  <2> PICK j \in Jobs : ClaimJob(w, j)
    BY <1>5
  <2>1. NativeMoves(w, "prepare")
    BY <1>0 DEF ClaimJob, NativeMoves, Worker
  <2>2. NativeHolders' = NativeHolders \cup {w}
    BY <2>1, NativeUpdate DEF NativeHolding
  <2> QED BY <1>1, <1>2, <2>2 DEF ClaimJob, NativeTurn, NativeSame, NativeHolding
<1>6. CASE ClaimNothing(w)
  <2>0. NativeMoves(w, "idle")
    BY <1>0, <1>6 DEF ClaimNothing, NativeReset, NativeMoves, Worker, Idle
  <2>1. NativeHolders' = NativeHolders \ {w}
    BY <2>0, NativeUpdate DEF NativeHolding
  <2> QED BY <1>1, <1>2, <1>6, <2>1 DEF ClaimNothing, NativeTurn, NativeLeaves, NativeHolding
<1>7. CASE TakeSnapshot(w)
  <2>1. NativeMoves(w, "snapshot")
    BY <1>0, <1>7 DEF TakeSnapshot, NativeGoes, NativeMoves, Worker
  <2>2. NativeHolders' = NativeHolders \cup {w}
    BY <2>1, NativeUpdate DEF NativeHolding
  <2> QED BY <1>1, <1>2, <1>7, <2>2 DEF TakeSnapshot, NativeTurn, NativeSame, NativeHolding
<1>8. CASE EndNative(w)
  <2>1. NativeMoves(w, "finish")
    BY <1>0, <1>8 DEF EndNative, NativeGoes, NativeMoves, Worker
  <2>2. NativeHolders' = NativeHolders \ {w}
    BY <2>1, NativeUpdate DEF NativeHolding
  <2> QED BY <1>1, <1>2, <1>8, <2>2 DEF EndNative, NativeTurn, NativeLeaves, NativeHolding
<1>9. CASE Prepared(w)
  <2>1. NativeMoves(w, "prepared")
    BY <1>0, <1>9 DEF Prepared, NativeGoes, NativeMoves, Worker
  <2>2. NativeHolders' = NativeHolders \ {w}
    BY <2>1, NativeUpdate DEF NativeHolding
  <2> QED BY <1>1, <1>2, <1>9, <2>2
          DEF Prepared, Released, NativeTurn, NativeLeaves, NativeHolding
<1>10. CASE HandOver(w)
  <2>1. NativeMoves(w, "handing")
    BY <1>0, <1>10 DEF HandOver, NativeGoes, NativeMoves, Worker
  <2>2. NativeHolders' = NativeHolders \ {w}
    BY <2>1, NativeUpdate DEF NativeHolding
  <2> QED BY <1>1, <1>2, <1>10, <2>2 DEF HandOver, NativeTurn, NativeSame, NativeHolding
<1>11. CASE HandedOver(w)
  <2>1. NativeMoves(w, "idle")
    BY <1>0, <1>11 DEF HandedOver, AfterHanding, NativeMoves, Worker
  <2>2. NativeHolders' = NativeHolders \ {w}
    BY <2>1, NativeUpdate DEF NativeHolding
  <2> QED BY <1>1, <1>2, <1>11, <2>2 DEF HandedOver, NativeTurn, NativeSame, NativeHolding
<1>12. CASE GiveUpHanding(w)
  <2>1. NativeMoves(w, "finish")
    BY <1>0, <1>12 DEF GiveUpHanding, NativeGoes, NativeMoves, Worker
  <2>2. NativeHolders' = NativeHolders \ {w}
    BY <2>1, NativeUpdate DEF NativeHolding
  <2> QED BY <1>1, <1>2, <1>12, <2>2 DEF GiveUpHanding, NativeTurn, NativeSame, NativeHolding
<1>13. CASE FinishNative(w)
  <2>0. NativeMoves(w, "idle")
    BY <1>0, <1>13 DEF FinishNative, NativeReset, NativeMoves, Worker, Idle
  <2>1. NativeHolders' = NativeHolders \ {w}
    BY <2>0, NativeUpdate DEF NativeHolding
  <2> QED BY <1>1, <1>2, <1>13, <2>1 DEF FinishNative, NativeTurn, NativeSame, NativeHolding
<1> QED BY <1>3, <1>4, <1>5, <1>6, <1>7, <1>8, <1>9, <1>10, <1>11, <1>12, <1>13
        DEF NativeWorks

LEMMA TurnOfOcrWorker ==
    ASSUME LanesInv, NEW w \in OcrIds, OcrWorks(w)
    PROVE  OcrTurn
<1>0. /\ ocr \in [OcrIds -> Worker(OcrSteps)]
      /\ nativeActive \in Nat /\ ocrActive \in Nat /\ Typed
  BY HoldersFinite DEF LanesInv, Typed, SlotsMatchHolders
<1>1. NativeSame
  BY DEF OcrWorks, OcrAsks, OcrAcquires, OcrTakes, OcrFindsNothing, EndOcr, CompleteTask,
         NativeSame, NativeHolders
<1>2. w \in OcrHolders <=> ocr[w].pc \in OcrHolding
  BY DEF OcrHolders
<1>3. CASE OcrAsks(w)
  <2>1. OcrMoves(w, "asked")
    BY <1>3, <1>0 DEF OcrAsks, OcrMoves, Worker
  <2>2. OcrHolders' = OcrHolders \ {w}
    BY <2>1, OcrUpdate DEF OcrHolding
  <2> QED BY <1>1, <1>2, <1>3, <2>2 DEF OcrAsks, OcrTurn, OcrSame, OcrHolding
<1>4. CASE OcrAcquires(w)
  <2>1. CASE OcrMayStart(w)
    <3>1. OcrMoves(w, "slot")
      BY <1>0, <1>4, <2>1 DEF OcrAcquires, OcrMoves, Worker, Idle
    <3>2. OcrHolders' = OcrHolders \cup {w}
      BY <3>1, OcrUpdate DEF OcrHolding
    <3>3. w \notin OcrHolders
      BY <1>2, <1>4 DEF OcrAcquires, OcrHolding
    <3>4. \E s \in Settings : ocrActive < s.ocr /\ Busy < s.total
      BY <1>0, <2>1, OcrMayStartBound
    <3> QED BY <1>1, <1>4, <2>1, <3>2, <3>3, <3>4 DEF OcrAcquires, OcrTurn, OcrJoins
  <2>2. CASE ~OcrMayStart(w)
    <3>0. OcrMoves(w, "idle")
      BY <1>0, <1>4, <2>2 DEF OcrAcquires, OcrReset, OcrMoves, Worker, Idle
    <3>1. OcrHolders' = OcrHolders \ {w}
      BY <3>0, OcrUpdate DEF OcrHolding
    <3> QED BY <1>1, <1>2, <1>4, <2>2, <3>1 DEF OcrAcquires, OcrTurn, OcrSame, OcrHolding
  <2> QED BY <2>1, <2>2
<1>5. CASE OcrTakes(w)
  <2>1. OcrMoves(w, "recognise")
    BY <1>0, <1>5 DEF OcrTakes, OcrMoves, Worker
  <2>2. OcrHolders' = OcrHolders \cup {w}
    BY <2>1, OcrUpdate DEF OcrHolding
  <2> QED BY <1>1, <1>2, <1>5, <2>2 DEF OcrTakes, OcrTurn, OcrSame, OcrHolding
<1>6. CASE OcrFindsNothing(w)
  <2>0. OcrMoves(w, "idle")
    BY <1>0, <1>6 DEF OcrFindsNothing, OcrReset, OcrMoves, Worker, Idle
  <2>1. OcrHolders' = OcrHolders \ {w}
    BY <2>0, OcrUpdate DEF OcrHolding
  <2> QED BY <1>1, <1>2, <1>6, <2>1
          DEF OcrFindsNothing, EmptyHanded, OcrTurn, OcrLeaves, OcrHolding
<1>7. CASE EndOcr(w)
  <2>1. OcrMoves(w, "settle")
    BY <1>0, <1>7 DEF EndOcr, OcrGoes, OcrMoves, Worker
  <2>2. OcrHolders' = OcrHolders \ {w}
    BY <2>1, OcrUpdate DEF OcrHolding
  <2> QED BY <1>1, <1>2, <1>7, <2>2 DEF EndOcr, OcrTurn, OcrLeaves, OcrHolding
<1>8. CASE CompleteTask(w)
  <2>0. OcrMoves(w, "idle")
    BY <1>0, <1>8 DEF CompleteTask, OcrReset, OcrMoves, Worker, Idle
  <2>1. OcrHolders' = OcrHolders \ {w}
    BY <2>0, OcrUpdate DEF OcrHolding
  <2> QED BY <1>1, <1>2, <1>8, <2>1 DEF CompleteTask, OcrTurn, OcrSame, OcrHolding
<1> QED BY <1>3, <1>4, <1>5, <1>6, <1>7, <1>8 DEF OcrWorks

LEMMA TurnOfStep ==
    ASSUME LanesInv, [Next]_vars
    PROVE  NativeTurn \/ OcrTurn \/ Emptied
<1>1. CASE \E w \in NativeIds : NativeWorks(w)
  BY <1>1, TurnOfNativeWorker
<1>2. CASE \E w \in OcrIds : OcrWorks(w)
  BY <1>2, TurnOfOcrWorker
<1>3. CASE Crash
  BY <1>3 DEF Crash, Emptied, NativeHolders, OcrHolders, Idle, NativeHolding, OcrHolding
<1>4. CASE laneVars' = laneVars
  BY <1>4 DEF laneVars, NativeTurn, NativeSame, OcrSame, NativeHolders, OcrHolders
<1>5. CASE \/ \E j \in Jobs : CancelOperation(j)
           \/ \E s \in Settings : ConfigureProcessing(s)
           \/ Close \/ Drain \/ Start
  <2>1. laneVars' = laneVars
    BY <1>5 DEF CancelOperation, ConfigureProcessing, Close, Drain, Start, laneVars
  <2> QED BY <2>1, <1>4
<1>6. CASE UNCHANGED vars
  BY <1>4, <1>6 DEF vars, laneVars
<1> QED BY <1>1, <1>2, <1>3, <1>5, <1>6 DEF Next

-----------------------------------------------------------------------------
\* The counters follow the holders.

LEMMA StepSlots ==
    ASSUME LanesInv, NativeTurn \/ OcrTurn \/ Emptied
    PROVE  SlotsMatchHolders'
<1>1. /\ IsFiniteSet(NativeHolders) /\ nativeActive = Cardinality(NativeHolders)
      /\ IsFiniteSet(OcrHolders) /\ ocrActive = Cardinality(OcrHolders)
      /\ nativeActive \in Nat /\ ocrActive \in Nat
  BY HoldersFinite DEF LanesInv, SlotsMatchHolders
<1>2. CASE Emptied
  BY <1>2, FS_EmptySet DEF Emptied, SlotsMatchHolders
<1>3. ASSUME NativeSame \/ NativeJoins \/ NativeLeaves
      PROVE  nativeActive' = Cardinality(NativeHolders')
  <2>1. CASE NativeSame
    BY <1>1, <2>1 DEF NativeSame
  <2>2. CASE NativeJoins
    <3>1. PICK w \in NativeIds \ NativeHolders : NativeHolders' = NativeHolders \cup {w}
      BY <2>2 DEF NativeJoins
    <3>2. Cardinality(NativeHolders') = Cardinality(NativeHolders) + 1
      BY <1>1, <3>1, FS_AddElement
    <3> QED BY <1>1, <2>2, <3>2 DEF NativeJoins
  <2>3. CASE NativeLeaves
    <3>1. PICK w \in NativeHolders : NativeHolders' = NativeHolders \ {w}
      BY <2>3 DEF NativeLeaves
    <3>2. Cardinality(NativeHolders') = Cardinality(NativeHolders) - 1
      BY <1>1, <3>1, FS_RemoveElement
    <3> QED BY <1>1, <2>3, <3>2 DEF NativeLeaves
  <2> QED BY <1>3, <2>1, <2>2, <2>3
<1>4. ASSUME OcrSame \/ OcrJoins \/ OcrLeaves
      PROVE  ocrActive' = Cardinality(OcrHolders')
  <2>1. CASE OcrSame
    BY <1>1, <2>1 DEF OcrSame
  <2>2. CASE OcrJoins
    <3>1. PICK w \in OcrIds \ OcrHolders : OcrHolders' = OcrHolders \cup {w}
      BY <2>2 DEF OcrJoins
    <3>2. Cardinality(OcrHolders') = Cardinality(OcrHolders) + 1
      BY <1>1, <3>1, FS_AddElement
    <3> QED BY <1>1, <2>2, <3>2 DEF OcrJoins
  <2>3. CASE OcrLeaves
    <3>1. PICK w \in OcrHolders : OcrHolders' = OcrHolders \ {w}
      BY <2>3 DEF OcrLeaves
    <3>2. Cardinality(OcrHolders') = Cardinality(OcrHolders) - 1
      BY <1>1, <3>1, FS_RemoveElement
    <3> QED BY <1>1, <2>3, <3>2 DEF OcrLeaves
  <2> QED BY <1>4, <2>1, <2>2, <2>3
<1> QED BY <1>2, <1>3, <1>4 DEF NativeTurn, OcrTurn, SlotsMatchHolders

LEMMA SettingsAreNumbers ==
    ASSUME NEW s \in Settings
    PROVE  /\ s.native \in Nat \ {0} /\ s.ocr \in Nat \ {0} /\ s.total \in Nat \ {0}
           /\ Capacity(s) \in Nat \ {0}
<1>1. s.native \in Nat \ {0} /\ s.ocr \in Nat \ {0} /\ s.total \in Nat \ {0}
  BY LanesAssumption
<1>2. ASSUME NEW m \in Nat \ {0}, NEW n \in Nat \ {0} PROVE m * n \in Nat \ {0}
  OBVIOUS
<1> QED BY <1>1, <1>2, LanesAssumption DEF Capacity

LEMMA StepLimits ==
    ASSUME LanesInv, NativeTurn \/ OcrTurn \/ Emptied
    PROVE  CountersWithin'
<1>1. nativeActive \in Nat /\ ocrActive \in Nat
  BY HoldersFinite DEF LanesInv, SlotsMatchHolders
<1>2. /\ \E s \in Settings : nativeActive <= s.native
      /\ \E s \in Settings : ocrActive <= s.ocr
      /\ \E s \in Settings : nativeActive + ocrActive <= s.total
  BY DEF LanesInv, CountersWithin, Busy
<1>3. /\ nativeActive' = nativeActive /\ ocrActive' = ocrActive => CountersWithin'
      /\ nativeActive' = nativeActive - 1 /\ ocrActive' = ocrActive => CountersWithin'
      /\ nativeActive' = nativeActive /\ ocrActive' = ocrActive - 1 => CountersWithin'
  BY <1>1, <1>2, SettingsAreNumbers DEF CountersWithin, Busy
<1>4. CASE NativeJoins /\ OcrSame
  <2>1. PICK s \in Settings : nativeActive < s.native /\ Busy < s.total
    BY <1>4 DEF NativeJoins
  <2>2. nativeActive' = nativeActive + 1 /\ ocrActive' = ocrActive
    BY <1>4 DEF NativeJoins, OcrSame
  <2>3. nativeActive' <= s.native /\ Busy' <= s.total
    BY <1>1, <2>1, <2>2, SettingsAreNumbers DEF Busy
  <2> QED BY <1>2, <2>2, <2>3 DEF CountersWithin
<1>5. CASE OcrJoins /\ NativeSame
  <2>1. PICK s \in Settings : ocrActive < s.ocr /\ Busy < s.total
    BY <1>5 DEF OcrJoins
  <2>2. ocrActive' = ocrActive + 1 /\ nativeActive' = nativeActive
    BY <1>5 DEF OcrJoins, NativeSame
  <2>3. ocrActive' <= s.ocr /\ Busy' <= s.total
    BY <1>1, <2>1, <2>2, SettingsAreNumbers DEF Busy
  <2> QED BY <1>2, <2>2, <2>3 DEF CountersWithin
<1>6. CASE Emptied
  BY <1>6, LanesAssumption, SettingsAreNumbers DEF Emptied, CountersWithin, Busy
<1> QED BY <1>3, <1>4, <1>5, <1>6
        DEF NativeTurn, OcrTurn, NativeSame, OcrSame, NativeLeaves, OcrLeaves

-----------------------------------------------------------------------------
\* Types.

LEMMA QueueStaysTyped ==
    ASSUME queue \in Seq(Jobs), NEW j \in Jobs
    PROVE  /\ Append(queue, j) \in Seq(Jobs)
           /\ Waiting(j) => Without(Place(j)) \in Seq(Jobs)
           /\ queue # <<>> => Head(queue) \in Jobs /\ Tail(queue) \in Seq(Jobs)
<1>1. ASSUME Waiting(j) PROVE Without(Place(j)) \in Seq(Jobs)
  <2> DEFINE k == Place(j)
  <2>1. Len(queue) \in Nat /\ k \in 1 .. Len(queue)
    BY <1>1 DEF Place, Waiting
  <2> HIDE DEF k
  <2>2. Len(queue) - 1 \in Nat
    BY <2>1
  <2>3. \A i \in 1 .. Len(queue) - 1 : (IF i < k THEN queue[i] ELSE queue[i + 1]) \in Jobs
    BY <2>1
  <2>4. Without(k) \in [1 .. Len(queue) - 1 -> Jobs]
    BY <2>3 DEF Without
  <2>5. Without(k) \in Seq(Jobs)
    BY <2>2, <2>4, SeqDef
  <2> QED BY <2>5 DEF k
<1>2. queue # <<>> => Head(queue) \in Jobs /\ Tail(queue) \in Seq(Jobs)
  OBVIOUS
<1> QED BY <1>1, <1>2

\* The part of Typed about the native workers.
NativeTyped ==
    /\ native \in [NativeIds -> Worker(NativeSteps)]
    /\ \A w \in NativeIds : native[w].pc \in NativeWithJob => native[w].task \in Jobs

LEMMA NativeStaysTyped ==
    ASSUME NativeTyped, NEW w \in NativeIds, NEW r \in Worker(NativeSteps),
           r.pc \in NativeWithJob => r.task \in Jobs,
           native' = [native EXCEPT ![w] = r]
    PROVE  NativeTyped'
BY DEF NativeTyped

LEMMA StepTypedNative ==
    ASSUME LanesInv, NEW w \in NativeIds, NativeWorks(w)
    PROVE  Typed'
<1>1. /\ Typed /\ NativeTyped /\ native[w] \in Worker(NativeSteps)
      /\ native \in [NativeIds -> Worker(NativeSteps)]
  BY DEF LanesInv, Typed, NativeTyped
<1>2. ASSUME NativeTyped', queue' \in Seq(Jobs), claimed' \subseteq Jobs,
             cancelled' \subseteq Jobs, snapshots' \subseteq Jobs,
             UNCHANGED <<phase, ocr, bounds>>
      PROVE  Typed'
  BY <1>1, <1>2 DEF Typed, NativeTyped, bounds
<1>3. /\ queue \in Seq(Jobs) /\ claimed \subseteq Jobs /\ cancelled \subseteq Jobs
      /\ snapshots \subseteq Jobs /\ settings \in Settings
  BY <1>1 DEF Typed
<1>4. native[w].pc \in NativeWithJob => native[w].task \in Jobs
  BY <1>1 DEF NativeTyped
<1>5. NativeReset(w) => NativeTyped'
  BY <1>1, NativeStaysTyped DEF NativeReset, Idle, Worker, NativeSteps, NativeWithJob
<1>6. ASSUME NEW pc \in NativeSteps, NativeGoes(w, pc),
             pc \in NativeWithJob => native[w].pc \in NativeWithJob
      PROVE  NativeTyped'
  <2>1. native' = [native EXCEPT ![w] = [native[w] EXCEPT !.pc = pc]]
    BY <1>1, <1>6 DEF NativeGoes
  <2>2. [native[w] EXCEPT !.pc = pc] \in Worker(NativeSteps)
    BY <1>1 DEF Worker
  <2>3. /\ [native[w] EXCEPT !.pc = pc].pc = pc
        /\ [native[w] EXCEPT !.pc = pc].task = native[w].task
    BY <1>1 DEF Worker
  <2> QED BY <1>1, <1>4, <1>6, <2>1, <2>2, <2>3, NativeStaysTyped
<1>7. CASE NativeAsks(w)
  <2>1. NativeTyped'
    BY <1>1, <1>3, <1>7 DEF NativeAsks, NativeTyped, Worker, NativeSteps, NativeWithJob
  <2> QED BY <1>2, <1>3, <1>7, <2>1 DEF NativeAsks
<1>8. CASE NativeAcquires(w)
  <2>1. NativeMayStart(w) => NativeTyped'
    BY <1>1, <1>8
       DEF NativeAcquires, NativeTyped, Idle, Worker, NativeSteps, NativeWithJob
  <2>2. NativeTyped'
    BY <1>5, <1>8, <2>1 DEF NativeAcquires
  <2> QED BY <1>2, <1>3, <1>8, <2>2 DEF NativeAcquires
<1>9. ASSUME NEW j \in Jobs, ClaimJob(w, j) PROVE Typed'
  <2>1. NativeTyped'
    BY <1>1, <1>9 DEF ClaimJob, NativeTyped, Worker, NativeSteps, NativeWithJob
  <2> QED BY <1>2, <1>3, <1>9, <2>1 DEF ClaimJob
<1>10. CASE ClaimNothing(w)
  BY <1>2, <1>3, <1>5, <1>10 DEF ClaimNothing
<1>11. CASE TakeSnapshot(w)
  <2>1. NativeTyped'
    BY <1>6, <1>11 DEF TakeSnapshot, NativeSteps, NativeWithJob
  <2>2. native[w].task \in Jobs
    BY <1>4, <1>11 DEF TakeSnapshot, NativeWithJob
  <2> QED BY <1>2, <1>3, <1>11, <2>1, <2>2 DEF TakeSnapshot
<1>12. CASE EndNative(w)
  <2>1. NativeTyped'
    BY <1>6, <1>12 DEF EndNative, NativeSteps, NativeWithJob
  <2> QED BY <1>2, <1>3, <1>12, <2>1 DEF EndNative, Cleaned
<1>13. CASE Prepared(w)
  <2>1. NativeTyped'
    BY <1>6, <1>13 DEF Prepared, NativeSteps, NativeWithJob
  <2> QED BY <1>2, <1>3, <1>13, <2>1 DEF Prepared
<1>14. CASE HandOver(w)
  <2>1. NativeTyped'
    BY <1>6, <1>14 DEF HandOver, NativeSteps, NativeWithJob
  <2>2. native[w].task \in Jobs
    BY <1>4, <1>14 DEF HandOver, NativeWithJob
  <2>3. queue' \in Seq(Jobs)
    BY <1>3, <1>14, <2>2, QueueStaysTyped DEF HandOver
  <2> QED BY <1>2, <1>3, <1>14, <2>1, <2>3 DEF HandOver
<1>15. CASE HandedOver(w)
  <2>1. NativeTyped'
    BY <1>1, <1>15
       DEF HandedOver, AfterHanding, NativeTyped, Worker, NativeSteps, NativeWithJob
  <2> QED BY <1>2, <1>3, <1>15, <2>1 DEF HandedOver
<1>16. CASE GiveUpHanding(w)
  <2>1. NativeTyped'
    BY <1>6, <1>16 DEF GiveUpHanding, NativeSteps, NativeWithJob
  <2>2. native[w].task \in Jobs
    BY <1>4, <1>16 DEF GiveUpHanding, NativeWithJob
  <2>3. queue' \in Seq(Jobs)
    BY <1>3, <1>16, <2>2, QueueStaysTyped DEF GiveUpHanding
  <2> QED BY <1>2, <1>3, <1>16, <2>1, <2>3 DEF GiveUpHanding, Cleaned
<1>17. CASE FinishNative(w)
  BY <1>2, <1>3, <1>5, <1>17 DEF FinishNative, Settle
<1> QED BY <1>7, <1>8, <1>9, <1>10, <1>11, <1>12, <1>13, <1>14, <1>15, <1>16, <1>17
        DEF NativeWorks

LEMMA StepTypedOcr ==
    ASSUME LanesInv, NEW w \in OcrIds, OcrWorks(w)
    PROVE  Typed'
<1>1. /\ Typed /\ ocr \in [OcrIds -> Worker(OcrSteps)]
      /\ queue \in Seq(Jobs) /\ settings \in Settings /\ snapshots \subseteq Jobs
      /\ claimed \subseteq Jobs /\ cancelled \subseteq Jobs
  BY DEF LanesInv, Typed
<1>2. ASSUME ocr' \in [OcrIds -> Worker(OcrSteps)], queue' \in Seq(Jobs),
             claimed' \subseteq Jobs, cancelled' \subseteq Jobs, snapshots' \subseteq Jobs,
             UNCHANGED <<phase, native, bounds>>
      PROVE  Typed'
  BY <1>1, <1>2 DEF Typed, bounds
<1>3. OcrReset(w) => ocr' \in [OcrIds -> Worker(OcrSteps)]
  BY <1>1 DEF OcrReset, Idle, Worker, OcrSteps
<1>4. CASE OcrAsks(w)
  <2>1. ocr' \in [OcrIds -> Worker(OcrSteps)]
    BY <1>1, <1>4 DEF OcrAsks, Worker, OcrSteps
  <2> QED BY <1>1, <1>2, <1>4, <2>1 DEF OcrAsks
<1>5. CASE OcrAcquires(w)
  <2>1. OcrMayStart(w) => ocr' \in [OcrIds -> Worker(OcrSteps)]
    BY <1>1, <1>5 DEF OcrAcquires, Idle, Worker, OcrSteps
  <2> QED BY <1>1, <1>2, <1>3, <1>5, <2>1 DEF OcrAcquires
<1>6. CASE OcrTakes(w)
  <2>1. \E j \in Jobs : Head(queue) = j /\ Tail(queue) \in Seq(Jobs)
    BY <1>1, <1>6 DEF OcrTakes
  <2>2. ocr' \in [OcrIds -> Worker(OcrSteps)]
    BY <1>1, <1>6, <2>1 DEF OcrTakes, Worker, OcrSteps
  <2> QED BY <1>1, <1>2, <1>6, <2>1, <2>2 DEF OcrTakes
<1>7. CASE OcrFindsNothing(w)
  BY <1>1, <1>2, <1>3, <1>7 DEF OcrFindsNothing
<1>8. CASE EndOcr(w)
  <2>1. ocr' \in [OcrIds -> Worker(OcrSteps)]
    BY <1>1, <1>8 DEF EndOcr, OcrGoes, Worker, OcrSteps
  <2> QED BY <1>1, <1>2, <1>8, <2>1 DEF EndOcr
<1>9. CASE CompleteTask(w)
  BY <1>1, <1>2, <1>3, <1>9 DEF CompleteTask, Cleaned, Settle
<1> QED BY <1>4, <1>5, <1>6, <1>7, <1>8, <1>9 DEF OcrWorks

LEMMA StepTyped ==
    ASSUME LanesInv, [Next]_vars
    PROVE  Typed'
<1>1. Typed
  BY DEF LanesInv
<1>2. CASE \E w \in NativeIds : NativeWorks(w)
  BY <1>2, StepTypedNative
<1>3. CASE \E w \in OcrIds : OcrWorks(w)
  BY <1>3, StepTypedOcr
<1>4. CASE \E j \in Jobs : CancelOperation(j)
  BY <1>1, <1>4 DEF CancelOperation, Typed, laneVars, bounds
<1>5. CASE \E s \in Settings : ConfigureProcessing(s)
  BY <1>1, <1>5, LanesAssumption DEF ConfigureProcessing, Typed, laneVars
<1>6. CASE Close
  BY <1>1, <1>6, LanesAssumption DEF Close, Typed, laneVars
<1>7. CASE Drain
  BY <1>1, <1>7 DEF Drain, Typed, laneVars, bounds
<1>8. CASE Crash
  <2>1. /\ native' \in [NativeIds -> Worker(NativeSteps)]
        /\ \A w \in NativeIds : native'[w].pc \notin NativeWithJob
        /\ ocr' \in [OcrIds -> Worker(OcrSteps)]
    BY <1>8 DEF Crash, Idle, Worker, NativeSteps, OcrSteps, NativeWithJob
  <2> QED BY <1>1, <1>8, <2>1, LanesAssumption DEF Crash, Typed
<1>9. CASE Start
  <2>1. capacity' \in Nat \ {0}
    BY <1>1, <1>9, SettingsAreNumbers DEF Start, Typed
  <2> QED BY <1>1, <1>9, <2>1 DEF Start, Typed, laneVars
<1>10. CASE UNCHANGED vars
  BY <1>1, <1>10 DEF vars, Typed
<1> QED BY <1>2, <1>3, <1>4, <1>5, <1>6, <1>7, <1>8, <1>9, <1>10 DEF Next

-----------------------------------------------------------------------------
\* The invariant.

LEMMA InitLanesInv == Init => LanesInv
<1> SUFFICES ASSUME Init PROVE LanesInv
  OBVIOUS
<1>1. Typed
  BY SettingsAreNumbers, LanesAssumption
     DEF Init, Typed, Idle, Worker, NativeSteps, OcrSteps, NativeWithJob
<1>2. NativeHolders = {} /\ OcrHolders = {}
  BY DEF Init, NativeHolders, OcrHolders, Idle, NativeHolding, OcrHolding
<1>3. SlotsMatchHolders
  BY <1>2, FS_EmptySet DEF Init, SlotsMatchHolders
<1>4. CountersWithin
  BY SettingsAreNumbers DEF Init, CountersWithin, Busy
<1> QED BY <1>1, <1>3, <1>4 DEF LanesInv

LEMMA StepLanesInv == LanesInv /\ [Next]_vars => LanesInv'
<1> SUFFICES ASSUME LanesInv, [Next]_vars PROVE LanesInv'
  OBVIOUS
<1>1. NativeTurn \/ OcrTurn \/ Emptied
  BY TurnOfStep
<1> QED BY <1>1, StepTyped, StepSlots, StepLimits DEF LanesInv

LEMMA LanesInvHolds == Spec => []LanesInv
BY InitLanesInv, StepLanesInv, PTL DEF Spec

\* The variables keep their types, whatever the settings read by a worker that
\* acquires its slot after they were changed.
THEOREM LanesTypeCorrect == Spec => []TypeOK
BY LanesInvHolds, InvariantGivesBounds, PTL

\* ocr_workers.go: each early exit, hand-over, failure and crash gives back
\* exactly the slot its worker holds.
THEOREM SlotsAreCounted == Spec => []SlotsMatchHolders
<1>1. LanesInv => SlotsMatchHolders
  BY DEF LanesInv
<1> QED BY <1>1, LanesInvHolds, PTL

\* ocr_workers.go, acquireContent: neither lane, nor both together, has more
\* workers between acquireContent and releaseContent than some settings allow.
THEOREM LimitsHold == Spec => []WithinLimits
BY LanesInvHolds, InvariantGivesBounds, PTL

\* acquireContent decides with its counters, the limits are about the work: for
\* any workers and settings both agree, so what it keeps is what was promised.
THEOREM SlotsStayBounded == Spec => []SlotsBounded
<1>1. SlotsMatchHolders /\ WithinLimits => SlotsBounded
  BY DEF SlotsBounded
<1> QED BY <1>1, SlotsAreCounted, LimitsHold, PTL

-----------------------------------------------------------------------------
(***************************************************************************)
(* Where the claimed jobs are.                                             *)
(*                                                                         *)
(* Placed says that the tasks of the native workers, the channel and the   *)
(* tasks of the OCR workers are disjoint, without repetitions and together *)
(* the claimed jobs.  A step changes the task of one worker, by what it    *)
(* takes from the channel, leaves in it, claims or settles.                *)
(***************************************************************************)

\* A worker that has sent its task answers no more for it.
NativeTask(w) == IF native[w].pc = "handing" THEN NoJob ELSE native[w].task
OcrTask(w)    == ocr[w].task

Distinct == \A k, l \in 1 .. Len(queue) : queue[k] = queue[l] => k = l

Placed ==
    /\ Distinct
    /\ \A v, w \in NativeIds : NativeTask(v) # NoJob /\ NativeTask(v) = NativeTask(w) => v = w
    /\ \A v, w \in OcrIds : OcrTask(v) # NoJob /\ OcrTask(v) = OcrTask(w) => v = w
    /\ \A v \in NativeIds : NativeTask(v) \notin Drained
    /\ \A v \in OcrIds : OcrTask(v) \notin Drained
    /\ \A v \in NativeIds, w \in OcrIds : NativeTask(v) # NoJob => NativeTask(v) # OcrTask(w)
    /\ \A j \in Jobs : j \in claimed <=> \/ \E v \in NativeIds : NativeTask(v) = j
                                         \/ j \in Drained
                                         \/ \E v \in OcrIds : OcrTask(v) = j

\* A worker has a task exactly while it works on one.
TasksMatchSteps ==
    /\ \A w \in NativeIds : native[w].pc \notin NativeWithJob => native[w].task = NoJob
    /\ \A w \in OcrIds : ocr[w].task \in Jobs <=> ocr[w].pc \in {"recognise", "settle"}

\* The snapshots of a process that is not down are of claimed jobs, and a job
\* that only its outcome is missing from has none.
SnapshotsClaimed ==
    /\ phase # "down" => snapshots \subseteq claimed
    /\ \A w \in NativeIds : native[w].pc = "finish" => native[w].task \notin snapshots

NothingHeldDown == phase = "down" => AllReturned /\ queue = <<>>

TasksInv == LanesInv /\ Placed /\ TasksMatchSteps /\ SnapshotsClaimed /\ NothingHeldDown

-----------------------------------------------------------------------------
\* The channel.

LEMMA ChannelSteps ==
    ASSUME queue \in Seq(Jobs), Distinct, NEW j \in Jobs
    PROVE  /\ j \in Drained <=> Waiting(j)
           /\ queue' = Append(queue, j) /\ j \notin Drained =>
                 Distinct' /\ Drained' = Drained \cup {j}
           /\ Waiting(j) /\ queue' = Without(Place(j)) =>
                 Distinct' /\ Drained' = Drained \ {j}
           /\ queue # <<>> /\ queue' = Tail(queue) =>
                 Head(queue) \in Drained /\ Distinct' /\ Drained' = Drained \ {Head(queue)}
<1> DEFINE n == Len(queue)
<1>1. n \in Nat /\ \A k \in 1 .. n : queue[k] \in Jobs
  OBVIOUS
<1>2. j \in Drained <=> Waiting(j)
  BY DEF Drained, Waiting
<1>3. ASSUME queue' = Append(queue, j), j \notin Drained
      PROVE  Distinct' /\ Drained' = Drained \cup {j}
  <2>1. /\ Len(queue') = n + 1 /\ queue'[n + 1] = j
        /\ \A k \in 1 .. n : queue'[k] = queue[k]
    BY <1>1, <1>3
  <2>2. \A k \in 1 .. n : queue[k] # j
    BY <1>3 DEF Drained
  <2>3. 1 .. n + 1 = (1 .. n) \cup {n + 1}
    BY <1>1
  <2> HIDE DEF n
  <2>4. Distinct'
    BY <2>1, <2>2, <2>3 DEF Distinct, n
  <2>5. Drained' = Drained \cup {j}
    BY <2>1, <2>3 DEF Drained, n
  <2> QED BY <2>4, <2>5
<1>4. ASSUME Waiting(j), queue' = Without(Place(j))
      PROVE  Distinct' /\ Drained' = Drained \ {j}
  <2> DEFINE p == Place(j)
  <2>1. p \in 1 .. n /\ queue[p] = j
    BY <1>4 DEF Place, Waiting
  <2> HIDE DEF p
  <2>2. queue' = [i \in 1 .. n - 1 |-> IF i < p THEN queue[i] ELSE queue[i + 1]]
    BY <1>4 DEF Without, p
  <2>3. Len(queue') = n - 1
  <3>1. n - 1 \in Nat
    BY <1>1, <2>1
  <3> QED BY <2>2, <3>1, LenProperties
  <2>4. \A i \in 1 .. n - 1 : queue'[i] = IF i < p THEN queue[i] ELSE queue[i + 1]
    BY <2>2
  <2> HIDE DEF n
  <2>5. Distinct'
    <3> SUFFICES ASSUME NEW k \in 1 .. n - 1, NEW l \in 1 .. n - 1, queue'[k] = queue'[l]
                 PROVE  k = l
      BY <2>3 DEF Distinct
    <3> DEFINE s(i) == IF i < p THEN i ELSE i + 1
    <3>1. s(k) \in 1 .. n /\ s(l) \in 1 .. n /\ queue[s(k)] = queue[s(l)]
      BY <1>1, <2>1, <2>4
    <3>2. s(k) = s(l)
      BY <3>1 DEF Distinct, n
    <3> QED BY <1>1, <2>1, <3>2
  <2>6. ASSUME NEW x PROVE x \in Drained' <=> x \in Drained /\ x # j
    <3>1. ASSUME x \in Drained' PROVE x \in Drained /\ x # j
      <4>1. PICK i \in 1 .. n - 1 : x = queue'[i]
        BY <2>3, <3>1 DEF Drained
      <4> DEFINE m == IF i < p THEN i ELSE i + 1
      <4>2. m \in 1 .. n /\ m # p /\ x = queue[m]
        BY <1>1, <2>1, <2>4, <4>1
      <4> QED BY <2>1, <4>2 DEF Distinct, Drained, n
    <3>2. ASSUME x \in Drained, x # j PROVE x \in Drained'
      <4>1. PICK m \in 1 .. n : x = queue[m]
        BY <3>2 DEF Drained, n
      <4> DEFINE i == IF m < p THEN m ELSE m - 1
      <4>2. m # p
        BY <2>1, <3>2, <4>1
      <4>3. i \in 1 .. n - 1 /\ x = queue'[i]
        BY <1>1, <2>1, <2>4, <4>1, <4>2
      <4> QED BY <2>3, <4>3 DEF Drained
    <3> QED BY <3>1, <3>2
  <2> QED BY <2>5, <2>6
<1>5. ASSUME queue # <<>>, queue' = Tail(queue)
      PROVE  Head(queue) \in Drained /\ Distinct' /\ Drained' = Drained \ {Head(queue)}
  <2>1. n >= 1 /\ Head(queue) = queue[1]
    BY <1>5
  <2>2. Len(queue') = n - 1 /\ \A i \in 1 .. n - 1 : queue'[i] = queue[i + 1]
    BY <1>1, <1>5, <2>1
  <2> HIDE DEF n
  <2>3. Head(queue) \in Drained
    BY <1>1, <2>1 DEF Drained, n
  <2>4. Distinct'
    <3> SUFFICES ASSUME NEW k \in 1 .. n - 1, NEW l \in 1 .. n - 1, queue'[k] = queue'[l]
                 PROVE  k = l
      BY <2>2 DEF Distinct
    <3>1. k + 1 \in 1 .. n /\ l + 1 \in 1 .. n /\ queue[k + 1] = queue[l + 1]
      BY <1>1, <2>2
    <3> QED BY <3>1 DEF Distinct, n
  <2>5. ASSUME NEW x PROVE x \in Drained' <=> x \in Drained /\ x # queue[1]
    <3>1. ASSUME x \in Drained' PROVE x \in Drained /\ x # queue[1]
      <4>1. PICK i \in 1 .. n - 1 : x = queue'[i]
        BY <2>2, <3>1 DEF Drained
      <4>2. i + 1 \in 1 .. n /\ 1 \in 1 .. n /\ i + 1 # 1 /\ x = queue[i + 1]
        BY <1>1, <2>1, <2>2, <4>1
      <4> QED BY <4>2 DEF Distinct, Drained, n
    <3>2. ASSUME x \in Drained, x # queue[1] PROVE x \in Drained'
      <4>1. PICK m \in 1 .. n : x = queue[m]
        BY <3>2 DEF Drained, n
      <4>2. m - 1 \in 1 .. n - 1 /\ x = queue'[m - 1]
        BY <1>1, <2>2, <3>2, <4>1
      <4> QED BY <2>2, <4>2 DEF Drained
    <3> QED BY <3>1, <3>2
  <2> QED BY <2>1, <2>3, <2>4, <2>5
<1> QED BY <1>2, <1>3, <1>4, <1>5

-----------------------------------------------------------------------------
\* One worker changes its task.

NativeTakes(w, x) == \A v \in NativeIds : NativeTask(v)' = IF v = w THEN x ELSE NativeTask(v)
OcrTakesTask(w, x) == \A v \in OcrIds : OcrTask(v)' = IF v = w THEN x ELSE OcrTask(v)

LEMMA TaskTypes ==
    ASSUME TasksInv
    PROVE  /\ NoJob \notin Jobs /\ Drained \subseteq Jobs /\ NoJob \notin Drained
           /\ \A w \in NativeIds : NativeTask(w) \in Jobs \cup {NoJob}
           /\ \A w \in OcrIds : OcrTask(w) \in Jobs \cup {NoJob}
<1>1. Typed
  BY DEF TasksInv, LanesInv
<1>2. Drained \subseteq Jobs
  BY <1>1 DEF Typed, Drained
<1> QED BY <1>1, <1>2, NoJobAssumption DEF Typed, Worker, NativeTask, OcrTask

LEMMA NativePlaces ==
    ASSUME TasksInv, NEW w \in NativeIds, NEW x, NativeTakes(w, x), Distinct',
           \A v \in OcrIds : OcrTask(v)' = OcrTask(v),
           \/ x = NativeTask(w) /\ Drained' = Drained /\ claimed' = claimed
           \/ /\ NativeTask(w) = NoJob /\ x \in Jobs \ claimed
              /\ Drained' = Drained /\ claimed' = claimed \cup {x}
           \/ /\ NativeTask(w) \in Jobs /\ x = NoJob
              /\ Drained' = Drained \cup {NativeTask(w)} /\ claimed' = claimed
           \/ /\ NativeTask(w) = NoJob /\ x \in Drained
              /\ Drained' = Drained \ {x} /\ claimed' = claimed
           \/ /\ NativeTask(w) \in Jobs /\ x = NoJob
              /\ Drained' = Drained /\ claimed' = claimed \ {NativeTask(w)}
    PROVE  Placed'
<1>1. Placed
  BY DEF TasksInv
<1>2. CASE x = NativeTask(w) /\ Drained' = Drained /\ claimed' = claimed
  BY <1>1, <1>2, TaskTypes DEF Placed, NativeTakes
<1>3. CASE /\ NativeTask(w) = NoJob /\ x \in Jobs \ claimed
           /\ Drained' = Drained /\ claimed' = claimed \cup {x}
  BY <1>1, <1>3, TaskTypes DEF Placed, NativeTakes
<1>4. CASE /\ NativeTask(w) \in Jobs /\ x = NoJob
           /\ Drained' = Drained \cup {NativeTask(w)} /\ claimed' = claimed
  BY <1>1, <1>4, TaskTypes DEF Placed, NativeTakes
<1>5. CASE /\ NativeTask(w) = NoJob /\ x \in Drained
           /\ Drained' = Drained \ {x} /\ claimed' = claimed
  BY <1>1, <1>5, TaskTypes DEF Placed, NativeTakes
<1>6. CASE /\ NativeTask(w) \in Jobs /\ x = NoJob
           /\ Drained' = Drained /\ claimed' = claimed \ {NativeTask(w)}
  BY <1>1, <1>6, TaskTypes DEF Placed, NativeTakes
<1> QED BY <1>2, <1>3, <1>4, <1>5, <1>6

LEMMA OcrPlaces ==
    ASSUME TasksInv, NEW w \in OcrIds, NEW x, OcrTakesTask(w, x), Distinct',
           \A v \in NativeIds : NativeTask(v)' = NativeTask(v),
           \/ x = OcrTask(w) /\ Drained' = Drained /\ claimed' = claimed
           \/ /\ OcrTask(w) = NoJob /\ x \in Drained
              /\ Drained' = Drained \ {x} /\ claimed' = claimed
           \/ /\ OcrTask(w) \in Jobs /\ x = NoJob
              /\ Drained' = Drained /\ claimed' = claimed \ {OcrTask(w)}
    PROVE  Placed'
<1>1. Placed
  BY DEF TasksInv
<1>2. CASE x = OcrTask(w) /\ Drained' = Drained /\ claimed' = claimed
  BY <1>1, <1>2, TaskTypes DEF Placed, OcrTakesTask
<1>3. CASE /\ OcrTask(w) = NoJob /\ x \in Drained
           /\ Drained' = Drained \ {x} /\ claimed' = claimed
  BY <1>1, <1>3, TaskTypes DEF Placed, OcrTakesTask
<1>4. CASE /\ OcrTask(w) \in Jobs /\ x = NoJob
           /\ Drained' = Drained /\ claimed' = claimed \ {OcrTask(w)}
  BY <1>1, <1>4, TaskTypes DEF Placed, OcrTakesTask
<1> QED BY <1>2, <1>3, <1>4

-----------------------------------------------------------------------------
\* Every step keeps the jobs in their places.

TasksKept == Placed' /\ TasksMatchSteps' /\ SnapshotsClaimed' /\ NothingHeldDown'

\* What changes of worker w when it becomes r.
LEMMA NativeBecomes ==
    ASSUME TasksInv, NEW w \in NativeIds, NEW r, native' = [native EXCEPT ![w] = r],
           r.pc \notin NativeWithJob => r.task = NoJob, UNCHANGED ocr
    PROVE  /\ NativeTakes(w, IF r.pc = "handing" THEN NoJob ELSE r.task)
           /\ \A v \in OcrIds : OcrTask(v)' = OcrTask(v)
           /\ TasksMatchSteps'
<1>1. native \in [NativeIds -> Worker(NativeSteps)]
  BY DEF TasksInv, LanesInv, Typed
<1> QED BY <1>1 DEF NativeTakes, NativeTask, OcrTask, TasksMatchSteps, TasksInv

LEMMA OcrBecomes ==
    ASSUME TasksInv, NEW w \in OcrIds, NEW r, ocr' = [ocr EXCEPT ![w] = r],
           r.task \in Jobs <=> r.pc \in {"recognise", "settle"}, UNCHANGED native
    PROVE  /\ OcrTakesTask(w, r.task)
           /\ \A v \in NativeIds : NativeTask(v)' = NativeTask(v)
           /\ TasksMatchSteps'
<1>1. ocr \in [OcrIds -> Worker(OcrSteps)]
  BY DEF TasksInv, LanesInv, Typed
<1> QED BY <1>1 DEF OcrTakesTask, NativeTask, OcrTask, TasksMatchSteps, TasksInv

\* A worker at work on a task answers for it alone.
LEMMA NativeAnswers ==
    ASSUME TasksInv, NEW w \in NativeIds, native[w].pc \in NativeWithJob
    PROVE  /\ native[w].task \in Jobs /\ phase # "down"
           /\ native[w].pc # "handing" =>
                 /\ NativeTask(w) = native[w].task /\ native[w].task \in claimed
                 /\ native[w].task \notin Drained
                 /\ \A v \in NativeIds : v # w => NativeTask(v) # native[w].task
<1>1. native[w].task \in Jobs
  BY DEF TasksInv, LanesInv, Typed
<1>2. phase # "down"
  BY DEF TasksInv, NothingHeldDown, AllReturned, NativeWithJob
<1> QED BY <1>1, <1>2, NoJobAssumption DEF TasksInv, Placed, NativeTask

LEMMA TasksOfNative ==
    ASSUME TasksInv, NEW w \in NativeIds, NativeWorks(w)
    PROVE  TasksKept
<1>0. /\ Typed /\ Placed /\ Distinct /\ TasksMatchSteps /\ SnapshotsClaimed /\ NothingHeldDown
      /\ native \in [NativeIds -> Worker(NativeSteps)] /\ native[w] \in Worker(NativeSteps)
      /\ queue \in Seq(Jobs)
  BY DEF TasksInv, LanesInv, Typed, Placed
<1>1. /\ Idle.pc = "idle" /\ Idle.task = NoJob /\ "idle" \notin NativeWithJob
      /\ "asked" \notin NativeWithJob /\ "slot" \notin NativeWithJob
  BY DEF Idle, NativeWithJob
<1>2. phase' = phase /\ ocr' = ocr
  BY DEF NativeWorks, NativeAsks, NativeAcquires, ClaimJob, ClaimNothing, TakeSnapshot,
         EndNative, Prepared, HandOver, HandedOver, GiveUpHanding, FinishNative
<1>3. phase # "down"
  <2>1. native[w].pc # "idle" => phase # "down"
    BY <1>0 DEF NothingHeldDown, AllReturned
  <2> QED BY <2>1 DEF NativeWorks, NativeAsks, NativeAcquires, ClaimJob, ClaimNothing, TakeSnapshot,
         EndNative, Prepared, HandOver, HandedOver, GiveUpHanding, FinishNative
<1>4. NothingHeldDown'
  BY <1>2, <1>3 DEF NothingHeldDown
<1>5. ASSUME NEW pc, NativeGoes(w, pc)
      PROVE  /\ native' = [native EXCEPT ![w] = [native[w] EXCEPT !.pc = pc]]
             /\ [native[w] EXCEPT !.pc = pc].pc = pc
             /\ [native[w] EXCEPT !.pc = pc].task = native[w].task
  BY <1>0, <1>5 DEF NativeGoes, Worker
\* A worker without a task that stays without one.
<1>6. ASSUME native[w].pc \notin NativeWithJob,
             NEW r, native' = [native EXCEPT ![w] = r], r.pc \notin NativeWithJob, r.task = NoJob,
             UNCHANGED <<queue, claimed, snapshots>>
      PROVE  TasksKept
  <2>1. NativeTask(w) = NoJob /\ r.pc # "handing" /\ r.pc # "finish"
    BY <1>0, <1>6 DEF NativeTask, TasksMatchSteps, NativeWithJob
  <2>2. /\ NativeTakes(w, NoJob) /\ (\A v \in OcrIds : OcrTask(v)' = OcrTask(v)) /\ TasksMatchSteps'
    BY <1>2, <1>6, <2>1, NativeBecomes
  <2>3. Distinct' /\ Drained' = Drained /\ claimed' = claimed
    BY <1>0, <1>6 DEF Distinct, Drained
  <2>4. Placed'
    BY <2>1, <2>2, <2>3, NativePlaces
  <2>5. SnapshotsClaimed'
    BY <1>0, <1>2, <1>6, <2>1 DEF SnapshotsClaimed
  <2> QED BY <1>4, <2>2, <2>4, <2>5 DEF TasksKept
\* A worker that keeps its task.
<1>7. ASSUME native[w].pc \in NativeWithJob \ {"handing"}, NEW pc \in NativeWithJob \ {"handing"},
             NativeGoes(w, pc), UNCHANGED <<queue, claimed>>,
             \/ pc # "finish" /\ snapshots' \subseteq snapshots \cup {native[w].task}
             \/ snapshots' = Cleaned(native[w].task)
      PROVE  TasksKept
  <2> DEFINE r == [native[w] EXCEPT !.pc = pc]
             j == native[w].task
  <2>1. native' = [native EXCEPT ![w] = r] /\ r.pc = pc /\ r.task = j
    BY <1>5, <1>7
  <2>2. /\ j \in Jobs /\ NativeTask(w) = j /\ j \in claimed
        /\ \A v \in NativeIds : v # w => NativeTask(v) # j
    BY <1>7, NativeAnswers
  <2> HIDE DEF r
  <2>3. NativeTakes(w, j) /\ (\A v \in OcrIds : OcrTask(v)' = OcrTask(v)) /\ TasksMatchSteps'
    BY <1>2, <1>7, <2>1, NativeBecomes
  <2>4. Distinct' /\ Drained' = Drained /\ claimed' = claimed
    BY <1>0, <1>7 DEF Distinct, Drained
  <2>5. Placed'
    BY <2>2, <2>3, <2>4, NativePlaces
  <2>6. SnapshotsClaimed'
    <3>1. snapshots' \subseteq claimed'
      BY <1>0, <1>2, <1>3, <1>7, <2>2 DEF SnapshotsClaimed, Cleaned
    <3>2. ASSUME NEW v \in NativeIds, native'[v].pc = "finish" PROVE native'[v].task \notin snapshots'
      <4>1. CASE v = w
        BY <1>0, <1>7, <2>1, <3>2, <4>1 DEF Cleaned
      <4>2. CASE v # w
        <5>1. native'[v] = native[v] /\ native[v].task \notin snapshots /\ native[v].task # j
          BY <1>0, <2>1, <2>2, <3>2, <4>2 DEF SnapshotsClaimed, NativeTask
        <5> QED BY <1>7, <5>1 DEF Cleaned
      <4> QED BY <4>1, <4>2
    <3> QED BY <3>1, <3>2 DEF SnapshotsClaimed
  <2> QED BY <1>4, <2>3, <2>5, <2>6 DEF TasksKept
<1>8. CASE NativeAsks(w)
  <2> DEFINE r == [native[w] EXCEPT !.pc = "asked", !.seen = settings]
  <2>1. native' = [native EXCEPT ![w] = r] /\ native[w].pc = "idle"
    BY <1>0, <1>8 DEF NativeAsks
  <2>2. r.pc = "asked" /\ r.task = NoJob
    BY <1>0, <1>1, <2>1 DEF Worker, TasksMatchSteps
  <2> HIDE DEF r
  <2> QED BY <1>1, <1>6, <1>8, <2>1, <2>2 DEF NativeAsks
<1>9. CASE NativeAcquires(w)
  <2>1. native[w].pc \notin NativeWithJob
    BY <1>1, <1>9 DEF NativeAcquires
  <2>2. CASE NativeMayStart(w)
    <3> DEFINE r == [Idle EXCEPT !.pc = "slot"]
    <3>1. r.pc = "slot" /\ r.task = NoJob
      BY DEF Idle
    <3>2. native' = [native EXCEPT ![w] = r]
      BY <1>9, <2>2 DEF NativeAcquires
    <3> HIDE DEF r
    <3> QED BY <1>1, <1>6, <1>9, <2>1, <3>1, <3>2 DEF NativeAcquires
  <2>3. CASE ~NativeMayStart(w)
    BY <1>1, <1>6, <1>9, <2>1, <2>3 DEF NativeAcquires, NativeReset
  <2> QED BY <2>2, <2>3
<1>10. ASSUME NEW j \in Jobs, ClaimJob(w, j) PROVE TasksKept
  <2> DEFINE r == [native[w] EXCEPT !.pc = "prepare", !.task = j]
  <2>1. native' = [native EXCEPT ![w] = r] /\ native[w].pc = "slot" /\ j \notin claimed
        /\ (\A v \in NativeIds : native[v].task # j)
    BY <1>0, <1>10 DEF ClaimJob, Spare
  <2>2. r.pc = "prepare" /\ r.task = j /\ "prepare" \in NativeWithJob
    BY <1>0 DEF Worker, NativeWithJob
  <2>3. NativeTask(w) = NoJob
    BY <1>0, <1>1, <2>1 DEF NativeTask, TasksMatchSteps
  <2> HIDE DEF r
  <2>4. NativeTakes(w, j) /\ (\A v \in OcrIds : OcrTask(v)' = OcrTask(v)) /\ TasksMatchSteps'
    BY <1>2, <2>1, <2>2, NativeBecomes
  <2>5. Distinct' /\ Drained' = Drained /\ claimed' = claimed \cup {j} /\ snapshots' = snapshots
    BY <1>0, <1>10 DEF Distinct, Drained, ClaimJob
  <2>6. Placed'
    BY <2>1, <2>3, <2>4, <2>5, NativePlaces
  <2>7. SnapshotsClaimed'
    <3>1. snapshots' \subseteq claimed'
      BY <1>0, <1>3, <2>5 DEF SnapshotsClaimed
    <3>2. \A v \in NativeIds : native'[v].pc = "finish" => native'[v].task \notin snapshots'
      BY <1>0, <2>1, <2>2, <2>5 DEF SnapshotsClaimed
    <3> QED BY <3>1, <3>2 DEF SnapshotsClaimed
  <2> QED BY <1>4, <2>4, <2>6, <2>7 DEF TasksKept
<1>11. CASE ClaimNothing(w)
  BY <1>1, <1>6, <1>11 DEF ClaimNothing, NativeReset
<1>12. CASE TakeSnapshot(w)
  BY <1>7, <1>12 DEF TakeSnapshot, NativeWithJob
<1>13. CASE EndNative(w)
  BY <1>7, <1>13 DEF EndNative, NativeWithJob
<1>14. CASE Prepared(w)
  BY <1>7, <1>14 DEF Prepared, NativeWithJob
<1>15. CASE HandOver(w)
  <2> DEFINE r == [native[w] EXCEPT !.pc = "handing"]
             j == native[w].task
  <2>1. /\ native' = [native EXCEPT ![w] = r] /\ r.pc = "handing" /\ r.task = j
        /\ native[w].pc = "prepared" /\ queue' = Append(queue, j)
        /\ claimed' = claimed /\ snapshots' = snapshots
    BY <1>5, <1>15 DEF HandOver
  <2>2. j \in Jobs /\ NativeTask(w) = j /\ j \notin Drained
    BY <2>1, NativeAnswers DEF NativeWithJob
  <2> HIDE DEF r
  <2>3. "handing" \in NativeWithJob /\ "handing" # "finish"
    BY DEF NativeWithJob
  <2>4. NativeTakes(w, NoJob) /\ (\A v \in OcrIds : OcrTask(v)' = OcrTask(v)) /\ TasksMatchSteps'
    BY <1>2, <2>1, <2>3, NativeBecomes
  <2>5. Distinct' /\ Drained' = Drained \cup {j}
    BY <1>0, <2>1, <2>2, ChannelSteps
  <2>6. Placed'
    BY <2>1, <2>2, <2>4, <2>5, NativePlaces
  <2>7. SnapshotsClaimed'
    BY <1>0, <1>2, <2>1, <2>3 DEF SnapshotsClaimed
  <2> QED BY <1>4, <2>4, <2>6, <2>7 DEF TasksKept
<1>16. CASE HandedOver(w)
  <2> DEFINE r == [native[w] EXCEPT !.pc = "idle", !.task = NoJob]
  <2>1. /\ native' = [native EXCEPT ![w] = r] /\ native[w].pc = "handing"
        /\ queue' = queue /\ claimed' = claimed /\ snapshots' = snapshots
    BY <1>0, <1>16 DEF HandedOver, AfterHanding
  <2>2. r.pc = "idle" /\ r.task = NoJob
    BY <1>0 DEF Worker
  <2> HIDE DEF r
  <2>3. NativeTask(w) = NoJob
    BY <2>1 DEF NativeTask
  <2>4. NativeTakes(w, NoJob) /\ (\A v \in OcrIds : OcrTask(v)' = OcrTask(v)) /\ TasksMatchSteps'
    BY <1>2, <2>1, <2>2, NativeBecomes
  <2>5. Distinct' /\ Drained' = Drained
    BY <1>0, <2>1 DEF Distinct, Drained
  <2>6. Placed'
    BY <2>1, <2>3, <2>4, <2>5, NativePlaces
  <2>7. SnapshotsClaimed'
    BY <1>0, <1>2, <2>1, <2>2 DEF SnapshotsClaimed
  <2> QED BY <1>4, <2>4, <2>6, <2>7 DEF TasksKept
<1>17. CASE GiveUpHanding(w)
  <2> DEFINE r == [native[w] EXCEPT !.pc = "finish"]
             j == native[w].task
  <2>1. CASE native[w].pc = "prepared" /\ UNCHANGED queue
    BY <1>7, <1>17, <2>1 DEF GiveUpHanding, NativeWithJob
  <2>2. CASE native[w].pc = "handing" /\ Waiting(j) /\ queue' = Without(Place(j))
    <3>1. /\ native' = [native EXCEPT ![w] = r] /\ r.pc = "finish" /\ r.task = j
          /\ claimed' = claimed /\ snapshots' = Cleaned(j)
      BY <1>5, <1>17 DEF GiveUpHanding
    <3>2. j \in Jobs /\ NativeTask(w) = NoJob
      BY <2>2, NativeAnswers DEF NativeWithJob, NativeTask
    <3> HIDE DEF r
    <3>3. "finish" \in NativeWithJob
      BY DEF NativeWithJob
    <3>4. NativeTakes(w, j) /\ (\A v \in OcrIds : OcrTask(v)' = OcrTask(v)) /\ TasksMatchSteps'
      BY <1>2, <3>1, <3>3, NativeBecomes
    <3>5. Distinct' /\ Drained' = Drained \ {j} /\ j \in Drained
      BY <1>0, <2>2, <3>2, ChannelSteps
    <3>6. Placed'
      BY <3>1, <3>2, <3>4, <3>5, NativePlaces
    <3>7. SnapshotsClaimed'
      BY <1>0, <1>2, <3>1 DEF SnapshotsClaimed, Cleaned
    <3> QED BY <1>4, <3>4, <3>6, <3>7 DEF TasksKept
  <2> QED BY <1>17, <2>1, <2>2 DEF GiveUpHanding
<1>18. CASE FinishNative(w)
  <2> DEFINE j == native[w].task
  <2>1. /\ native' = [native EXCEPT ![w] = Idle] /\ native[w].pc = "finish" /\ queue' = queue
        /\ claimed' = claimed \ {j} /\ snapshots' = snapshots
    BY <1>18 DEF FinishNative, NativeReset, Settle
  <2>2. j \in Jobs /\ NativeTask(w) = j
    BY <2>1, NativeAnswers DEF NativeWithJob
  <2>3. NativeTakes(w, NoJob) /\ (\A v \in OcrIds : OcrTask(v)' = OcrTask(v)) /\ TasksMatchSteps'
    BY <1>1, <1>2, <2>1, NativeBecomes
  <2>4. Distinct' /\ Drained' = Drained
    BY <1>0, <2>1 DEF Distinct, Drained
  <2>5. Placed'
    BY <2>1, <2>2, <2>3, <2>4, NativePlaces
  <2>6. SnapshotsClaimed'
    BY <1>0, <1>1, <1>2, <2>1 DEF SnapshotsClaimed
  <2> QED BY <1>4, <2>3, <2>5, <2>6 DEF TasksKept
<1> QED BY <1>8, <1>9, <1>10, <1>11, <1>12, <1>13, <1>14, <1>15, <1>16, <1>17, <1>18
        DEF NativeWorks

LEMMA TasksOfOcr ==
    ASSUME TasksInv, NEW w \in OcrIds, OcrWorks(w)
    PROVE  TasksKept
<1>0. /\ Typed /\ Placed /\ Distinct /\ TasksMatchSteps /\ SnapshotsClaimed /\ NothingHeldDown
      /\ ocr \in [OcrIds -> Worker(OcrSteps)] /\ ocr[w] \in Worker(OcrSteps)
      /\ queue \in Seq(Jobs)
  BY DEF TasksInv, LanesInv, Typed, Placed
<1>1. Idle.pc = "idle" /\ Idle.task = NoJob /\ NoJob \notin Jobs
  BY NoJobAssumption DEF Idle
<1>2. phase' = phase /\ native' = native
  BY DEF OcrWorks, OcrAsks, OcrAcquires, OcrTakes, OcrFindsNothing, EndOcr, CompleteTask
<1>3. phase # "down"
  <2>1. ocr[w].pc # "idle" => phase # "down"
    BY <1>0 DEF NothingHeldDown, AllReturned
  <2> QED BY <2>1 DEF OcrWorks, OcrAsks, OcrAcquires, OcrTakes, OcrFindsNothing, EndOcr,
                      CompleteTask
<1>4. NothingHeldDown'
  BY <1>2, <1>3 DEF NothingHeldDown
<1>5. /\ ocr[w].pc \in {"recognise", "settle"} => ocr[w].task \in Jobs
      /\ ocr[w].pc \notin {"recognise", "settle"} => ocr[w].task = NoJob
  BY <1>0, <1>1 DEF TasksMatchSteps, Worker
\* A worker whose task stays what it was.
<1>6. ASSUME NEW r, ocr' = [ocr EXCEPT ![w] = r], r.task = ocr[w].task,
             r.task \in Jobs <=> r.pc \in {"recognise", "settle"},
             UNCHANGED <<queue, claimed, snapshots>>
      PROVE  TasksKept
  <2>1. OcrTakesTask(w, OcrTask(w)) /\ (\A v \in NativeIds : NativeTask(v)' = NativeTask(v))
        /\ TasksMatchSteps'
    <3>1. OcrTakesTask(w, r.task) /\ (\A v \in NativeIds : NativeTask(v)' = NativeTask(v))
          /\ TasksMatchSteps'
      BY <1>2, <1>6, OcrBecomes
    <3>2. r.task = OcrTask(w)
      BY <1>6 DEF OcrTask
    <3> QED BY <3>1, <3>2
  <2>2. Distinct' /\ Drained' = Drained /\ claimed' = claimed
    BY <1>0, <1>6 DEF Distinct, Drained
  <2>3. Placed'
    BY <2>1, <2>2, OcrPlaces
  <2>4. SnapshotsClaimed'
    BY <1>0, <1>2, <1>6 DEF SnapshotsClaimed
  <2> QED BY <1>4, <2>1, <2>3, <2>4 DEF TasksKept
<1>7. CASE OcrAsks(w)
  <2> DEFINE r == [ocr[w] EXCEPT !.pc = "asked", !.seen = settings]
  <2>1. ocr' = [ocr EXCEPT ![w] = r] /\ ocr[w].pc = "idle"
    BY <1>0, <1>7 DEF OcrAsks
  <2>2. r.pc = "asked" /\ r.task = ocr[w].task
    BY <1>0 DEF Worker
  <2> HIDE DEF r
  <2> QED BY <1>1, <1>5, <1>6, <1>7, <2>1, <2>2 DEF OcrAsks
<1>8. CASE OcrAcquires(w)
  <2>1. ocr[w].task = NoJob
    BY <1>5, <1>8 DEF OcrAcquires
  <2>2. CASE OcrMayStart(w)
    <3> DEFINE r == [Idle EXCEPT !.pc = "slot"]
    <3>1. r.pc = "slot" /\ r.task = NoJob
      BY DEF Idle
    <3>2. ocr' = [ocr EXCEPT ![w] = r]
      BY <1>8, <2>2 DEF OcrAcquires
    <3> HIDE DEF r
    <3> QED BY <1>1, <1>6, <1>8, <2>1, <3>1, <3>2 DEF OcrAcquires
  <2>3. CASE ~OcrMayStart(w)
    BY <1>1, <1>6, <1>8, <2>1, <2>3 DEF OcrAcquires, OcrReset
  <2> QED BY <2>2, <2>3
<1>9. CASE OcrTakes(w)
  <2> DEFINE j == Head(queue)
             r == [ocr[w] EXCEPT !.pc = "recognise", !.task = j]
  <2>1. /\ ocr' = [ocr EXCEPT ![w] = r] /\ ocr[w].pc = "slot" /\ queue # <<>>
        /\ queue' = Tail(queue) /\ claimed' = claimed /\ snapshots' = snapshots
    BY <1>0, <1>9 DEF OcrTakes
  <2>2. r.pc = "recognise" /\ r.task = j /\ j \in Jobs
    BY <1>0, <2>1 DEF Worker
  <2>3. j \in Drained /\ Distinct' /\ Drained' = Drained \ {j}
    BY <1>0, <2>1, <2>2, ChannelSteps
  <2> HIDE DEF j, r
  <2>4. OcrTask(w) = NoJob
    BY <1>5, <2>1 DEF OcrTask
  <2>5. OcrTakesTask(w, j) /\ (\A v \in NativeIds : NativeTask(v)' = NativeTask(v))
        /\ TasksMatchSteps'
    BY <1>2, <2>1, <2>2, OcrBecomes
  <2>6. Placed'
    BY <2>1, <2>3, <2>4, <2>5, OcrPlaces
  <2>7. SnapshotsClaimed'
    BY <1>0, <1>2, <2>1 DEF SnapshotsClaimed
  <2> QED BY <1>4, <2>5, <2>6, <2>7 DEF TasksKept
<1>10. CASE OcrFindsNothing(w)
  BY <1>1, <1>5, <1>6, <1>10 DEF OcrFindsNothing, OcrReset
<1>11. CASE EndOcr(w)
  <2> DEFINE r == [ocr[w] EXCEPT !.pc = "settle"]
  <2>1. ocr' = [ocr EXCEPT ![w] = r] /\ ocr[w].pc = "recognise"
    BY <1>11 DEF EndOcr, OcrGoes
  <2>2. r.pc = "settle" /\ r.task = ocr[w].task
    BY <1>0 DEF Worker
  <2> HIDE DEF r
  <2> QED BY <1>5, <1>6, <1>11, <2>1, <2>2 DEF EndOcr
<1>12. CASE CompleteTask(w)
  <2> DEFINE j == ocr[w].task
  <2>1. /\ ocr' = [ocr EXCEPT ![w] = Idle] /\ ocr[w].pc = "settle" /\ queue' = queue
        /\ claimed' = claimed \ {j} /\ snapshots' = snapshots \ {j}
    BY <1>12 DEF CompleteTask, OcrReset, Settle, Cleaned
  <2>2. j \in Jobs /\ OcrTask(w) = j
    BY <1>5, <2>1 DEF OcrTask
  <2>3. OcrTakesTask(w, NoJob) /\ (\A v \in NativeIds : NativeTask(v)' = NativeTask(v))
        /\ TasksMatchSteps'
    BY <1>1, <1>2, <2>1, OcrBecomes
  <2>4. Distinct' /\ Drained' = Drained
    BY <1>0, <2>1 DEF Distinct, Drained
  <2>5. Placed'
    BY <2>1, <2>2, <2>3, <2>4, OcrPlaces
  <2>6. SnapshotsClaimed'
    BY <1>0, <1>2, <2>1 DEF SnapshotsClaimed
  <2> QED BY <1>4, <2>3, <2>5, <2>6 DEF TasksKept
<1> QED BY <1>7, <1>8, <1>9, <1>10, <1>11, <1>12 DEF OcrWorks

\* With every worker idle, the channel holds all that is claimed.
LEMMA IdleLanes ==
    ASSUME TasksInv, AllReturned
    PROVE  claimed = Drained
<1>1. /\ \A w \in NativeIds : NativeTask(w) = NoJob
      /\ \A w \in OcrIds : OcrTask(w) \notin Jobs
  BY DEF TasksInv, TasksMatchSteps, AllReturned, NativeWithJob, NativeTask, OcrTask
<1>2. claimed \subseteq Jobs /\ Drained \subseteq Jobs /\ NoJob \notin Jobs
  BY TaskTypes DEF TasksInv, LanesInv, Typed
<1> QED BY <1>1, <1>2 DEF TasksInv, Placed

LEMMA TasksOfDrain ==
    ASSUME TasksInv, Drain
    PROVE  TasksKept /\ snapshots' = {}
<1>1. /\ phase = "closing" /\ AllReturned /\ phase' = "down" /\ UNCHANGED <<native, ocr>>
      /\ snapshots' = snapshots \ Drained /\ claimed' = claimed \ Drained /\ queue' = <<>>
  BY DEF Drain, laneVars, Drained
<1>2. claimed = Drained
  BY <1>1, IdleLanes
<1>3. claimed' = {} /\ snapshots' = {}
  BY <1>1, <1>2 DEF TasksInv, SnapshotsClaimed
<1>4. Distinct' /\ Drained' = {}
  BY <1>1 DEF Distinct, Drained
<1>5. /\ \A w \in NativeIds : NativeTask(w) = NoJob
      /\ \A w \in OcrIds : OcrTask(w) \notin Jobs
  BY <1>1 DEF TasksInv, TasksMatchSteps, AllReturned, NativeWithJob, NativeTask, OcrTask
<1>6. /\ \A w \in NativeIds : NativeTask(w)' = NativeTask(w)
      /\ \A w \in OcrIds : OcrTask(w)' = OcrTask(w)
  BY <1>1 DEF NativeTask, OcrTask
<1>7. Placed'
  BY <1>3, <1>4, <1>5, <1>6, TaskTypes DEF Placed
<1>8. TasksMatchSteps' /\ SnapshotsClaimed' /\ NothingHeldDown'
  BY <1>1, <1>3 DEF TasksInv, TasksMatchSteps, SnapshotsClaimed, NothingHeldDown, AllReturned
<1> QED BY <1>3, <1>7, <1>8 DEF TasksKept

\* All workers idle, the channel empty and nothing claimed.
LEMMA NothingHeld ==
    ASSUME native = [w \in NativeIds |-> Idle], ocr = [w \in OcrIds |-> Idle],
           queue = <<>>, claimed = {}
    PROVE  /\ Placed /\ TasksMatchSteps /\ AllReturned
           /\ \A w \in NativeIds : native[w].pc # "finish"
<1>1. Idle.pc = "idle" /\ Idle.task = NoJob
  BY DEF Idle
<1>2. Drained = {} /\ Distinct
  BY DEF Drained, Distinct
<1> QED BY <1>1, <1>2, NoJobAssumption
        DEF Placed, TasksMatchSteps, AllReturned, NativeTask, OcrTask, NativeWithJob

LEMMA NothingHeldNext ==
    ASSUME native' = [w \in NativeIds |-> Idle], ocr' = [w \in OcrIds |-> Idle],
           queue' = <<>>, claimed' = {}
    PROVE  /\ Placed' /\ TasksMatchSteps' /\ AllReturned'
           /\ \A w \in NativeIds : native'[w].pc # "finish"
<1>1. Idle.pc = "idle" /\ Idle.task = NoJob
  BY DEF Idle
<1>2. Drained' = {} /\ Distinct'
  BY DEF Drained, Distinct
<1> QED BY <1>1, <1>2, NoJobAssumption
        DEF Placed, TasksMatchSteps, AllReturned, NativeTask, OcrTask, NativeWithJob

LEMMA StepTasks ==
    ASSUME TasksInv, [Next]_vars
    PROVE  TasksKept
<1>1. CASE \E w \in NativeIds : NativeWorks(w)
  BY <1>1, TasksOfNative
<1>2. CASE \E w \in OcrIds : OcrWorks(w)
  BY <1>2, TasksOfOcr
<1>3. ASSUME UNCHANGED <<native, ocr, queue, claimed, snapshots>>, phase' # "down" \/ phase' = phase,
             phase' = "down" \/ phase # "down"
      PROVE  TasksKept
  BY <1>3 DEF TasksInv, TasksKept, Placed, Distinct, Drained, NativeTask, OcrTask,
     TasksMatchSteps, SnapshotsClaimed, NothingHeldDown, AllReturned
<1>4. CASE \E j \in Jobs : CancelOperation(j)
  BY <1>3, <1>4 DEF CancelOperation, laneVars, bounds
<1>5. CASE \E s \in Settings : ConfigureProcessing(s)
  BY <1>3, <1>5 DEF ConfigureProcessing, laneVars
<1>6. CASE Close
  BY <1>3, <1>6 DEF Close, laneVars
<1>7. CASE Drain
  BY <1>7, TasksOfDrain
<1>8. CASE Crash
  <2>1. /\ phase' = "down" /\ queue' = <<>>
        /\ Placed' /\ TasksMatchSteps' /\ AllReturned'
        /\ \A w \in NativeIds : native'[w].pc # "finish"
    BY <1>8, NothingHeldNext DEF Crash
  <2> QED BY <2>1 DEF TasksKept, SnapshotsClaimed, NothingHeldDown
<1>9. CASE Start
  <2>1. /\ phase' = "up" /\ snapshots' = {} /\ UNCHANGED <<native, ocr, queue, claimed>>
    BY <1>9 DEF Start, laneVars
  <2>2. Placed' /\ TasksMatchSteps'
    BY <2>1 DEF TasksInv, Placed, Distinct, Drained, NativeTask, OcrTask, TasksMatchSteps
  <2> QED BY <2>1, <2>2 DEF TasksKept, SnapshotsClaimed, NothingHeldDown
<1>10. CASE UNCHANGED vars
  BY <1>3, <1>10 DEF vars
<1> QED BY <1>1, <1>2, <1>4, <1>5, <1>6, <1>7, <1>8, <1>9, <1>10 DEF Next

LEMMA InitTasksInv == Init => TasksInv
<1> SUFFICES ASSUME Init PROVE TasksInv
  OBVIOUS
<1>1. Placed /\ TasksMatchSteps /\ \A w \in NativeIds : native[w].pc # "finish"
  BY NothingHeld DEF Init
<1> QED BY <1>1, InitLanesInv DEF Init, TasksInv, SnapshotsClaimed, NothingHeldDown

LEMMA StepTasksInv == TasksInv /\ [Next]_vars => TasksInv'
BY StepTasks, StepLanesInv DEF TasksInv, TasksKept

LEMMA TasksInvHolds == Spec => []TasksInv
BY InitTasksInv, StepTasksInv, PTL DEF Spec

\* The places of a job are at most one worker of each lane and one position.
LEMMA PlacesAreOne ==
    ASSUME TasksInv, NEW j \in Jobs
    PROVE  /\ WithNative(j) = {} \/ \E w : WithNative(j) = {w}
           /\ InChannel(j) = {} \/ \E k : InChannel(j) = {k}
           /\ WithOcr(j) = {} \/ \E w : WithOcr(j) = {w}
           /\ WithNative(j) # {} => InChannel(j) = {} /\ WithOcr(j) = {}
           /\ InChannel(j) # {} => WithOcr(j) = {}
           /\ j \in claimed <=> WithNative(j) # {} \/ InChannel(j) # {} \/ WithOcr(j) # {}
<1>1. j # NoJob
  BY NoJobAssumption
<1>2. /\ WithNative(j) = {w \in NativeIds : NativeTask(w) = j}
      /\ WithOcr(j) = {w \in OcrIds : OcrTask(w) = j}
      /\ InChannel(j) # {} <=> j \in Drained
  BY <1>1 DEF WithNative, WithOcr, NativeTask, OcrTask, InChannel, Drained
<1>3. Placed
  BY DEF TasksInv
<1>4. WithNative(j) = {} \/ \E w : WithNative(j) = {w}
  BY <1>1, <1>2, <1>3 DEF Placed
<1>5. WithOcr(j) = {} \/ \E w : WithOcr(j) = {w}
  BY <1>1, <1>2, <1>3 DEF Placed
<1>6. InChannel(j) = {} \/ \E k : InChannel(j) = {k}
  <2>1. ASSUME NEW k \in InChannel(j) PROVE InChannel(j) = {k}
    <3>1. \A l \in InChannel(j) : l = k
      BY <1>3 DEF Placed, Distinct, InChannel
    <3> QED BY <3>1
  <2> QED BY <2>1
<1>7. /\ WithNative(j) # {} => InChannel(j) = {} /\ WithOcr(j) = {}
      /\ InChannel(j) # {} => WithOcr(j) = {}
      /\ j \in claimed <=> WithNative(j) # {} \/ InChannel(j) # {} \/ WithOcr(j) # {}
  BY <1>1, <1>2, <1>3 DEF Placed
<1> QED BY <1>4, <1>5, <1>6, <1>7

LEMMA TasksInvGivesTasksHeld == TasksInv => TasksHeld
<1> SUFFICES ASSUME TasksInv PROVE TasksHeld
  OBVIOUS
<1>1. Cardinality({}) = 0 /\ \A x : Cardinality({x}) = 1
  BY FS_EmptySet, FS_Singleton
<1>2. HeldInOnePlace
  <2> SUFFICES ASSUME NEW j \in Jobs
               PROVE  Cardinality(WithNative(j)) + Cardinality(InChannel(j)) + Cardinality(WithOcr(j))
                        = IF j \in claimed THEN 1 ELSE 0
    BY DEF HeldInOnePlace
  <2> DEFINE n == Cardinality(WithNative(j))
             c == Cardinality(InChannel(j))
             o == Cardinality(WithOcr(j))
  <2>1. /\ n = IF WithNative(j) = {} THEN 0 ELSE 1
        /\ c = IF InChannel(j) = {} THEN 0 ELSE 1
        /\ o = IF WithOcr(j) = {} THEN 0 ELSE 1
    BY <1>1, PlacesAreOne
  <2> HIDE DEF n, c, o
  <2>2. n + c + o = IF j \in claimed THEN 1 ELSE 0
    BY <2>1, PlacesAreOne
  <2> QED BY <2>2 DEF n, c, o
<1>3. SnapshotsOwned
  <2>1. snapshots \subseteq Jobs
    BY DEF TasksInv, LanesInv, Typed
  <2> QED BY <2>1, PlacesAreOne DEF SnapshotsOwned, TasksInv, SnapshotsClaimed
<1> QED BY <1>2, <1>3 DEF TasksHeld

\* ocr_workers.go: across the hand-over, a cancelled hand-over, a taken task, a
\* close and a crash, a claimed job is in exactly one place and its private
\* snapshot always has an owner that will remove it.
THEOREM TasksStayHeld == Spec => []TasksHeld
BY TasksInvHolds, TasksInvGivesTasksHeld, PTL

\* Runtime.Close removes the snapshots of all the tasks nobody took: none is
\* left, whatever the workers were doing when the process was told to end.
THEOREM CloseLeavesNone == Spec => CloseLeavesNoSnapshot
<1>1. TasksInv /\ [Next]_vars =>
          [phase = "closing" /\ phase' = "down" /\ stops' = stops => snapshots' = {}]_vars
  <2> SUFFICES ASSUME TasksInv, Next, phase = "closing", phase' = "down", stops' = stops
               PROVE  snapshots' = {}
    OBVIOUS
  <2>1. stops \in Nat
    BY LanesAssumption DEF TasksInv, LanesInv, Typed
  <2>2. ~Crash
    BY <2>1 DEF Crash
  <2>3. \A w \in NativeIds : ~NativeWorks(w)
    BY DEF NativeWorks, NativeAsks, NativeAcquires, ClaimJob, ClaimNothing, TakeSnapshot,
           EndNative, Prepared, HandOver, HandedOver, GiveUpHanding, FinishNative
  <2>4. \A w \in OcrIds : ~OcrWorks(w)
    BY DEF OcrWorks, OcrAsks, OcrAcquires, OcrTakes, OcrFindsNothing, EndOcr, CompleteTask
  <2>5. Drain
    BY <2>2, <2>3, <2>4 DEF Next, CancelOperation, ConfigureProcessing, Close, Start
  <2> QED BY <2>5, TasksOfDrain
<1> QED BY <1>1, TasksInvHolds, PTL DEF Spec, CloseLeavesNoSnapshot
=============================================================================
