---------------------------- MODULE Library_proofs ----------------------------
(***************************************************************************)
(* Proofs about Library for any libraries, directories, files, clients and *)
(* bounds: RootsInv, ExtractionInv and JournalInv hold of the parts, by    *)
(* the lemmas about their operations, and are put together here step by    *)
(* step.  The one fact about two of the parts is that an upload which is   *)
(* not stored is not a document (StoredOnceKnown).                         *)
(*                                                                         *)
(* The first part is about UploadJournal alone: no order of calls,         *)
(* failures, crashes and recoveries leaves a row without its file, a file  *)
(* without its row, or a client with a success that is not one, but for    *)
(* the two failures the cleanup does not look at.  UploadsHold is not      *)
(* inductive: that publishing finds the whole file under its definitive    *)
(* name follows from what each call has done so far (Progress), and only   *)
(* because no two calls work on the same key (OneCallPerKey).              *)
(***************************************************************************)
EXTENDS Library, Extraction_proofs

-----------------------------------------------------------------------------
(* Uploads.                                                                *)

Phases == {"open", "written", "renamed", "cleanup", "removed"}
Working(s) == uploader[s].pc \in Phases

FilesMayBeLeft(k) == private[k] = NoFile \/ [key |-> k, what |-> "files"] \in undone

\* What a call has done so far, in the directory and in its row.
Progress ==
    \A s \in Slots :
        /\ Working(s) =>
              serving /\ item[Key(s)].status = "receiving" /\ uploader[s].content \in Contents
        /\ At(s, "written") => private[Key(s)].part = uploader[s].content
        /\ At(s, "renamed") => private[Key(s)] = [part |-> 0, file |-> uploader[s].content]
        /\ At(s, "removed") => FilesMayBeLeft(Key(s))
        /\ At(s, "replay") => item[Key(s)].status = "staged" /\ uploader[s].content \in Contents

OneCallPerKey == \A s, t \in Slots : Working(s) /\ Working(t) /\ Key(s) = Key(t) => s = t

JournalInv == JournalTypeOK /\ Progress /\ OneCallPerKey /\ UploadsHold

ItemTypes == [status : {"none", "receiving", "staged", "failed"}, content : Contents \cup {0}]
FileTypes == [part : Contents \cup {0}, file : Contents \cup {0}]
CallTypes == [pc : {"idle", "replay"} \cup Phases, key : Keys, content : Contents \cup {0}]

LEMMA JournalTypes ==
    ASSUME JournalInv
    PROVE  /\ serving \in BOOLEAN
           /\ item \in [Keys -> ItemTypes]
           /\ private \in [Keys -> FileTypes]
           /\ uploader \in [Slots -> CallTypes]
           /\ told \subseteq [key : Keys, content : Contents]
           /\ undone \subseteq [key : Keys, what : {"files", "row"}]
           /\ \A s \in Slots : Key(s) \in Keys
BY DEF JournalInv, JournalTypeOK, ItemTypes, FileTypes, CallTypes, Phases, Key

LEMMA TypesSuffice ==
    ASSUME serving \in BOOLEAN, item \in [Keys -> ItemTypes],
           private \in [Keys -> FileTypes], uploader \in [Slots -> CallTypes],
           told \subseteq [key : Keys, content : Contents],
           undone \subseteq [key : Keys, what : {"files", "row"}]
    PROVE  JournalTypeOK
BY DEF JournalTypeOK, ItemTypes, FileTypes, CallTypes, Phases

LEMMA IdleTyped ==
    /\ Idle \in CallTypes /\ Idle.pc = "idle"
BY JournalAssumption DEF Idle, NoUpload, CallTypes

LEMMA JournalInitInv ==
    ASSUME JournalInit
    PROVE  JournalInv
<1>1. JournalTypeOK
  BY IdleTyped, TypesSuffice DEF JournalInit, ItemTypes, FileTypes, NoItem, NoFile
<1>2. \A s \in Slots : At(s, "idle")
  BY IdleTyped DEF JournalInit, At
<1>3. Progress /\ OneCallPerKey
  BY <1>2 DEF Progress, OneCallPerKey, Working, Phases, At
<1>4. UploadsHold
  BY DEF JournalInit, UploadsHold, NoItem, NoFile
<1> QED BY <1>1, <1>3, <1>4 DEF JournalInv

LEMMA JournalUnchanged ==
    ASSUME JournalInv, UNCHANGED journalVars
    PROVE  JournalInv'
BY DEF JournalInv, journalVars, JournalTypeOK, Progress, OneCallPerKey, UploadsHold,
       Working, At, Key, FilesMayBeLeft, Uploading

-----------------------------------------------------------------------------
(* The call. *)

\* A call that has begun only touches its own row and files ...
CallKeeps(s, k) ==
    /\ UNCHANGED serving
    /\ uploader' \in [Slots -> CallTypes]
    /\ \A t \in Slots \ {s} : uploader'[t] = uploader[t]
    /\ item' \in [Keys -> ItemTypes] /\ \A m \in Keys \ {k} : item'[m] = item[m]
    /\ private' \in [Keys -> FileTypes] /\ \A m \in Keys \ {k} : private'[m] = private[m]
    /\ undone \subseteq undone' /\ undone' \subseteq [key : Keys, what : {"files", "row"}]

\* ... so what it leaves there is all there is to look at.
CallGoesOn(s, k, pc) ==
    /\ uploader'[s].pc = pc /\ pc \in Phases
    /\ uploader'[s].key = k /\ uploader'[s].content = uploader[s].content
    /\ item'[k].status = "receiving" /\ UNCHANGED told
    /\ pc = "written" => private'[k].part = uploader[s].content
    /\ pc = "renamed" => private'[k] = [part |-> 0, file |-> uploader[s].content]
    /\ pc = "removed" => private'[k] = NoFile \/ [key |-> k, what |-> "files"] \in undone'

CallEnds(s, k) ==
    /\ uploader'[s].pc = "idle"
    /\ \/ /\ item'[k] = [status |-> "staged", content |-> uploader[s].content]
          /\ private'[k] = [part |-> 0, file |-> uploader[s].content]
          /\ told' = Told(s)
       \/ /\ UNCHANGED told /\ item'[k].status = "failed"
          /\ private'[k] = NoFile \/ [key |-> k, what |-> "files"] \in undone'
       \/ /\ UNCHANGED told /\ item'[k].status = "receiving"
          /\ [key |-> k, what |-> "row"] \in undone'

\* A success that was told is of a stored row.
LEMMA ToldAreStaged ==
    ASSUME JournalInv, NEW r \in told
    PROVE  /\ r.key \in Keys /\ r.content \in Contents
           /\ item[r.key] = [status |-> "staged", content |-> r.content]
           /\ item[r.key].status = "staged"
<1>1. r.key \in Keys /\ r.content \in Contents
  BY JournalTypes
<1>2. item[r.key] = [status |-> "staged", content |-> r.content]
  BY DEF JournalInv, UploadsHold
<1> QED BY <1>1, <1>2

\* UploadsHold in two parts.
Answers == \A r \in told : item[r.key] = [status |-> "staged", content |-> r.content]
RowHolds(k) ==
    /\ item[k].status = "staged" => private[k] = [part |-> 0, file |-> item[k].content]
    /\ item[k].status \in {"none", "failed"} => FilesMayBeLeft(k)
    /\ item[k].status = "receiving" =>
          Uploading(k) \/ ~serving \/ [key |-> k, what |-> "row"] \in undone

LEMMA UploadsHoldParts == UploadsHold <=> Answers /\ \A k \in Keys : RowHolds(k)
BY DEF UploadsHold, Answers, RowHolds, FilesMayBeLeft

LEMMA CallInv ==
    ASSUME JournalInv, NEW s \in Slots, Working(s), NEW k \in Keys, k = Key(s),
           CallKeeps(s, k),
           CallEnds(s, k) \/ \E pc \in Phases : CallGoesOn(s, k, pc)
    PROVE  JournalInv'
<1>1. /\ serving /\ item[k].status = "receiving" /\ uploader[s].content \in Contents
      /\ \A t \in Slots \ {s} : Key(t) = k => ~Working(t) /\ ~At(t, "replay")
  BY DEF JournalInv, Progress, OneCallPerKey, At
<1>2. told' \subseteq [key : Keys, content : Contents]
  BY <1>1, JournalTypes DEF Told, CallEnds, CallGoesOn
<1>3. JournalTypeOK'
  BY <1>2, JournalTypes
     DEF CallKeeps, JournalTypeOK, ItemTypes, FileTypes, CallTypes, Phases
<1>4. Progress'
  <2> SUFFICES ASSUME NEW t \in Slots
               PROVE  (/\ Working(t) => /\ serving /\ item[Key(t)].status = "receiving"
                                        /\ uploader[t].content \in Contents
                       /\ At(t, "written") => private[Key(t)].part = uploader[t].content
                       /\ At(t, "renamed") =>
                             private[Key(t)] = [part |-> 0, file |-> uploader[t].content]
                       /\ At(t, "removed") => FilesMayBeLeft(Key(t))
                       /\ At(t, "replay") => item[Key(t)].status = "staged"
                                             /\ uploader[t].content \in Contents)'
    BY DEF Progress
  <2>1. CASE t = s /\ CallEnds(s, k)
    BY <2>1 DEF CallEnds, Working, At, Phases
  <2>2. CASE t = s /\ \E pc \in Phases : CallGoesOn(s, k, pc)
    <3>1. PICK pc \in Phases : CallGoesOn(s, k, pc)
      BY <2>2
    <3>2. uploader'[t].key = k /\ serving' /\ uploader'[t].pc = pc
      BY <3>1, <2>2, <1>1 DEF CallGoesOn, CallKeeps
    <3> QED BY <3>1, <3>2, <2>2, <1>1
            DEF CallGoesOn, Working, At, Key, FilesMayBeLeft, Phases
  <2>3. CASE t # s
    <3>1. Key(t) \in Keys /\ uploader'[t] = uploader[t]
      BY <2>3, JournalTypes DEF CallKeeps
    <3>2. CASE Key(t) = k
      BY <3>1, <3>2, <2>3, <1>1 DEF Working, At, Key, Phases
    <3>3. CASE Key(t) # k
      <4>1. item'[Key(t)] = item[Key(t)] /\ private'[Key(t)] = private[Key(t)]
            /\ uploader'[t].key = Key(t) /\ serving' = serving /\ undone \subseteq undone'
        BY <3>1, <3>3 DEF CallKeeps, Key
      <4> QED BY <3>1, <4>1 DEF JournalInv, Progress, Working, At, Key, FilesMayBeLeft
    <3> QED BY <3>2, <3>3
  <2> QED BY <2>1, <2>2, <2>3
<1>5. OneCallPerKey'
  <2> SUFFICES ASSUME NEW t \in Slots, NEW u \in Slots,
                      (Working(t) /\ Working(u) /\ Key(t) = Key(u))'
               PROVE  t = u
    BY DEF OneCallPerKey
  <2>1. \A v \in Slots \ {s} : Working(v)' => Working(v) /\ uploader'[v].key = Key(v)
    BY DEF Working, Key, CallKeeps
  <2>2. Working(s)' => uploader'[s].key = k
    BY DEF Working, Phases, CallEnds, CallGoesOn
  <2> QED BY <1>1, <2>1, <2>2 DEF JournalInv, OneCallPerKey, Key
<1>6. Answers'
  <2> SUFFICES ASSUME NEW r \in told'
               PROVE  item'[r.key] = [status |-> "staged", content |-> r.content]
    BY DEF Answers
  <2>1. CASE r \in told
    <3>1. r.key \in Keys \ {k}
      BY <1>1, <2>1, ToldAreStaged
    <3> QED BY <2>1, <3>1, ToldAreStaged DEF CallKeeps
  <2>2. CASE r \notin told
    <3>1. /\ r = [key |-> k, content |-> uploader[s].content]
          /\ item'[k] = [status |-> "staged", content |-> uploader[s].content]
      BY <2>2 DEF CallEnds, CallGoesOn, Told
    <3> QED BY <3>1
  <2> QED BY <2>1, <2>2
<1>7. ASSUME NEW m \in Keys
      PROVE  RowHolds(m)'
  <2>1. CASE m # k
    <3>1. item'[m] = item[m] /\ private'[m] = private[m] /\ undone \subseteq undone'
          /\ serving' = serving
      BY <2>1 DEF CallKeeps
    <3>2. Uploading(m) => Uploading(m)'
      BY <2>1 DEF Uploading, At, Key, CallKeeps
    <3> QED BY <3>1, <3>2, UploadsHoldParts DEF JournalInv, RowHolds, FilesMayBeLeft
  <2>2. CASE m = k /\ CallEnds(s, k)
    <3>1. item'[k] \in ItemTypes
      BY DEF CallKeeps
    <3> QED BY <2>2, <3>1 DEF CallEnds, RowHolds, FilesMayBeLeft, ItemTypes
  <2>3. CASE m = k /\ \E pc \in Phases : CallGoesOn(s, k, pc)
    <3>1. Uploading(m)' /\ item'[m].status = "receiving"
      BY <2>3 DEF CallGoesOn, Uploading, At, Key, Phases
    <3> QED BY <3>1 DEF RowHolds
  <2> QED BY <2>1, <2>2, <2>3
<1>8. UploadsHold'
  BY <1>6, <1>7 DEF UploadsHold, Answers, RowHolds, FilesMayBeLeft
<1> QED BY <1>3, <1>4, <1>5, <1>8 DEF JournalInv

\* What a call has in hand.
LEMMA CallTyped ==
    ASSUME JournalInv, NEW s \in Slots, Working(s)
    PROVE  /\ Key(s) \in Keys /\ uploader[s].content \in Contents
           /\ uploader[s].key = Key(s) /\ item[Key(s)].status = "receiving"
BY JournalTypes DEF JournalInv, Progress, Key

LEMMA GoTyped ==
    ASSUME JournalInv, NEW s \in Slots, Working(s), NEW pc \in Phases, Go(s, pc)
    PROVE  /\ uploader' \in [Slots -> CallTypes]
           /\ \A t \in Slots \ {s} : uploader'[t] = uploader[t]
           /\ uploader'[s].pc = pc /\ uploader'[s].key = Key(s)
           /\ uploader'[s].content = uploader[s].content
BY JournalTypes DEF Go, CallTypes, Key

LEMMA EndTyped ==
    ASSUME JournalInv, NEW s \in Slots, uploader' = [uploader EXCEPT ![s] = Idle]
    PROVE  /\ uploader' \in [Slots -> CallTypes]
           /\ \A t \in Slots \ {s} : uploader'[t] = uploader[t]
           /\ uploader'[s].pc = "idle"
BY JournalTypes, IdleTyped

\* The bytes reach the partial file, or the call gives up on it.
LEMMA ReceiveInv ==
    ASSUME JournalInv, NEW s \in Slots, Receive(s)
    PROVE  JournalInv'
<1>1. Working(s) /\ UNCHANGED <<serving, item, told, undone>>
  BY DEF Receive, Working, At, Phases
<1>2. PICK k \in Keys : k = Key(s)
  BY <1>1, CallTyped
<1>3. PICK pc \in {"written", "cleanup"} : Go(s, pc)
  BY DEF Receive
<1>4. /\ private' \in [Keys -> FileTypes] /\ private'[k].part = uploader[s].content
      /\ \A m \in Keys \ {k} : private'[m] = private[m]
  BY <1>1, <1>2, CallTyped, JournalTypes DEF Receive, FileTypes
<1>5. pc \in Phases
  BY DEF Phases
<1>6. CallKeeps(s, k)
  BY <1>1, <1>2, <1>3, <1>4, <1>5, GoTyped, JournalTypes DEF CallKeeps
<1>7. CallGoesOn(s, k, pc)
  BY <1>1, <1>2, <1>3, <1>4, <1>5, GoTyped, CallTyped DEF CallGoesOn
<1> QED BY <1>1, <1>2, <1>5, <1>6, <1>7, CallInv

\* The whole partial gets its definitive name.
LEMMA RenameInv ==
    ASSUME JournalInv, NEW s \in Slots, Rename(s)
    PROVE  JournalInv'
<1>1. Working(s) /\ At(s, "written") /\ Go(s, "renamed")
      /\ UNCHANGED <<serving, item, told, undone>>
  BY DEF Rename, Working, At, Phases
<1>2. PICK k \in Keys : k = Key(s)
  BY <1>1, CallTyped
<1>3. private[k].part = uploader[s].content
  BY <1>1, <1>2 DEF JournalInv, Progress
<1>4. /\ private' \in [Keys -> FileTypes]
      /\ private'[k] = [part |-> 0, file |-> uploader[s].content]
      /\ \A m \in Keys \ {k} : private'[m] = private[m]
  BY <1>2, <1>3, JournalTypes DEF Rename, FileTypes
<1>5. "renamed" \in Phases
  BY DEF Phases
<1>6. CallKeeps(s, k)
  BY <1>1, <1>2, <1>4, <1>5, GoTyped, JournalTypes DEF CallKeeps
<1>7. CallGoesOn(s, k, "renamed")
  BY <1>1, <1>2, <1>4, <1>5, GoTyped, CallTyped DEF CallGoesOn
<1> QED BY <1>1, <1>2, <1>5, <1>6, <1>7, CallInv

\* The row is published with the file that is there, and the client told so.
LEMMA StageInv ==
    ASSUME JournalInv, NEW s \in Slots, Stage(s)
    PROVE  JournalInv'
<1>1. Working(s) /\ At(s, "renamed") /\ UNCHANGED <<serving, private, undone>>
      /\ told' = Told(s)
  BY DEF Stage, Working, At, Phases
<1>2. PICK k \in Keys : k = Key(s)
  BY <1>1, CallTyped
<1>3. private[k] = [part |-> 0, file |-> uploader[s].content]
  BY <1>1, <1>2 DEF JournalInv, Progress
<1>4. /\ item' \in [Keys -> ItemTypes]
      /\ item'[k] = [status |-> "staged", content |-> uploader[s].content]
      /\ \A m \in Keys \ {k} : item'[m] = item[m]
  BY <1>1, <1>2, CallTyped, JournalTypes DEF Stage, ItemTypes
<1>5. item'[k].status = "staged" /\ item'[k].content = uploader[s].content
  BY <1>4
<1>6. uploader' = [uploader EXCEPT ![s] = Idle]
  BY DEF Stage
<1>7. CallKeeps(s, k)
  BY <1>1, <1>2, <1>3, <1>4, <1>6, EndTyped, JournalTypes DEF CallKeeps
<1>8. CallEnds(s, k)
  BY <1>1, <1>2, <1>3, <1>4, <1>6, EndTyped DEF CallEnds
<1> QED BY <1>1, <1>2, <1>7, <1>8, CallInv

LEMMA GiveUpInv ==
    ASSUME JournalInv, NEW s \in Slots, GiveUp(s)
    PROVE  JournalInv'
<1>1. Working(s) /\ Go(s, "cleanup") /\ UNCHANGED <<serving, item, private, told, undone>>
  BY DEF GiveUp, Working, Phases
<1>2. PICK k \in Keys : k = Key(s)
  BY <1>1, CallTyped
<1>3. "cleanup" \in Phases
  BY DEF Phases
<1>6. CallKeeps(s, k)
  BY <1>1, <1>2, <1>3, GoTyped, JournalTypes DEF CallKeeps
<1>7. CallGoesOn(s, k, "cleanup")
  BY <1>1, <1>2, <1>3, GoTyped, CallTyped DEF CallGoesOn
<1> QED BY <1>1, <1>2, <1>3, <1>6, <1>7, CallInv

LEMMA CleanupInv ==
    ASSUME JournalInv, NEW s \in Slots, Cleanup(s)
    PROVE  JournalInv'
<1>1. Working(s) /\ Go(s, "removed") /\ UNCHANGED <<serving, item, told, undone>>
  BY DEF Cleanup, Working, At, Phases
<1>2. PICK k \in Keys : k = Key(s)
  BY <1>1, CallTyped
<1>3. /\ private' \in [Keys -> FileTypes] /\ private'[k] = NoFile
      /\ \A m \in Keys \ {k} : private'[m] = private[m]
  BY <1>2, JournalTypes DEF Cleanup, FileTypes, NoFile
<1>4. "removed" \in Phases
  BY DEF Phases
<1>6. CallKeeps(s, k)
  BY <1>1, <1>2, <1>3, <1>4, GoTyped, JournalTypes DEF CallKeeps
<1>7. CallGoesOn(s, k, "removed")
  BY <1>1, <1>2, <1>3, <1>4, GoTyped, CallTyped DEF CallGoesOn
<1> QED BY <1>1, <1>2, <1>4, <1>6, <1>7, CallInv

LEMMA FilesStayInv ==
    ASSUME JournalInv, NEW s \in Slots, FilesStay(s)
    PROVE  JournalInv'
<1>1. Working(s) /\ Go(s, "removed") /\ UNCHANGED <<serving, item, private, told>>
  BY DEF FilesStay, Working, At, Phases
<1>2. PICK k \in Keys : k = Key(s)
  BY <1>1, CallTyped
<1>3. /\ undone \subseteq undone' /\ undone' \subseteq [key : Keys, what : {"files", "row"}]
      /\ [key |-> k, what |-> "files"] \in undone'
  BY <1>2, JournalTypes DEF FilesStay
<1>4. "removed" \in Phases
  BY DEF Phases
<1>6. CallKeeps(s, k)
  BY <1>1, <1>2, <1>3, <1>4, GoTyped, JournalTypes DEF CallKeeps
<1>7. CallGoesOn(s, k, "removed")
  BY <1>1, <1>2, <1>3, <1>4, GoTyped, CallTyped DEF CallGoesOn
<1> QED BY <1>1, <1>2, <1>4, <1>6, <1>7, CallInv

\* The row of a call that is over.
LEMMA FailedRowTyped ==
    ASSUME JournalInv, NEW k \in Keys, item[k].status = "receiving", item' = FailedRow(k)
    PROVE  /\ item' \in [Keys -> ItemTypes] /\ item'[k].status = "failed"
           /\ \A m \in Keys \ {k} : item'[m] = item[m]
BY JournalTypes DEF FailedRow, ItemTypes

LEMMA FailUploadInv ==
    ASSUME JournalInv, NEW s \in Slots, FailUpload(s)
    PROVE  JournalInv'
<1>1. Working(s) /\ At(s, "removed") /\ UNCHANGED <<serving, private, told, undone>>
  BY DEF FailUpload, Working, At, Phases
<1>2. PICK k \in Keys : k = Key(s)
  BY <1>1, CallTyped
<1>3. FilesMayBeLeft(k)
  BY <1>1, <1>2 DEF JournalInv, Progress
<1>4. item' = FailedRow(k) /\ uploader' = [uploader EXCEPT ![s] = Idle]
  BY <1>2 DEF FailUpload
<1>7. CallKeeps(s, k)
  BY <1>1, <1>2, <1>3, <1>4, FailedRowTyped, CallTyped, EndTyped, JournalTypes DEF CallKeeps
<1>8. CallEnds(s, k)
  BY <1>1, <1>2, <1>3, <1>4, FailedRowTyped, CallTyped, EndTyped DEF CallEnds, FilesMayBeLeft
<1> QED BY <1>1, <1>2, <1>7, <1>8, CallInv

LEMMA RowStaysInv ==
    ASSUME JournalInv, NEW s \in Slots, RowStays(s)
    PROVE  JournalInv'
<1>1. Working(s) /\ UNCHANGED <<serving, item, private, told>>
      /\ uploader' = [uploader EXCEPT ![s] = Idle]
  BY DEF RowStays, Working, At, Phases
<1>2. PICK k \in Keys : k = Key(s)
  BY <1>1, CallTyped
<1>3. /\ undone \subseteq undone' /\ undone' \subseteq [key : Keys, what : {"files", "row"}]
      /\ [key |-> k, what |-> "row"] \in undone'
  BY <1>2, JournalTypes DEF RowStays
<1>7. CallKeeps(s, k)
  BY <1>1, <1>2, <1>3, CallTyped, EndTyped, JournalTypes DEF CallKeeps
<1>8. CallEnds(s, k)
  BY <1>1, <1>2, <1>3, CallTyped, EndTyped DEF CallEnds
<1> QED BY <1>1, <1>2, <1>7, <1>8, CallInv

\* A call goes on with its own key: nobody else works on it.
LEMMA BeginUploadInv ==
    ASSUME JournalInv, NEW s \in Slots, NEW k \in Keys, NEW c \in Contents,
           BeginUpload(s, k, c)
    PROVE  JournalInv'
<1>1. UNCHANGED <<serving, private, told, undone>> /\ serving /\ At(s, "idle")
  BY DEF BeginUpload
<1>2. CASE /\ item[k].status = "none"
           /\ item' = [item EXCEPT ![k].status = "receiving"]
           /\ uploader' = [uploader EXCEPT ![s] = [pc |-> "open", key |-> k, content |-> c]]
  <2>1. /\ item' \in [Keys -> ItemTypes]
        /\ item'[k].status = "receiving"
        /\ \A m \in Keys \ {k} : item'[m] = item[m]
    BY <1>2, JournalTypes DEF ItemTypes
  <2>2. /\ uploader' \in [Slots -> CallTypes]
        /\ uploader'[s] = [pc |-> "open", key |-> k, content |-> c]
        /\ \A t \in Slots \ {s} : uploader'[t] = uploader[t]
    <3>1. [pc |-> "open", key |-> k, content |-> c] \in CallTypes
      BY DEF CallTypes, Phases
    <3> QED BY <3>1, <1>2, JournalTypes
  <2>3. \A t \in Slots \ {s} : Key(t) = k => ~Working(t) /\ ~At(t, "replay")
    BY <1>2 DEF JournalInv, Progress
  <2>4. JournalTypeOK'
    BY <1>1, <2>1, <2>2, JournalTypes
       DEF JournalTypeOK, ItemTypes, FileTypes, CallTypes, Phases
  <2>5. Progress'
    <3> SUFFICES ASSUME NEW t \in Slots
                 PROVE  (/\ Working(t) => /\ serving /\ item[Key(t)].status = "receiving"
                                          /\ uploader[t].content \in Contents
                         /\ At(t, "written") => private[Key(t)].part = uploader[t].content
                         /\ At(t, "renamed") =>
                               private[Key(t)] = [part |-> 0, file |-> uploader[t].content]
                         /\ At(t, "removed") => FilesMayBeLeft(Key(t))
                         /\ At(t, "replay") => item[Key(t)].status = "staged"
                                               /\ uploader[t].content \in Contents)'
      BY DEF Progress
    <3>1. CASE t = s
      BY <3>1, <1>1, <2>1, <2>2 DEF Working, At, Key
    <3>2. CASE t # s /\ Key(t) = k
      BY <3>2, <2>2, <2>3 DEF Working, At, Phases
    <3>3. CASE t # s /\ Key(t) # k
      <4>1. item'[Key(t)] = item[Key(t)] /\ uploader'[t] = uploader[t]
        BY <3>3, <2>1, <2>2, JournalTypes
      <4> QED BY <4>1, <1>1 DEF JournalInv, Progress, Working, At, Key, FilesMayBeLeft
    <3> QED BY <3>1, <3>2, <3>3
  <2>6. OneCallPerKey'
    BY <2>2, <2>3 DEF JournalInv, OneCallPerKey, Working, Phases, Key
  <2>7. UploadsHold'
    <3>1. \A m \in Keys \ {k} : Uploading(m) => Uploading(m)'
      BY <1>1, <2>2 DEF Uploading, At, Key
    <3>2. Uploading(k)'
      BY <2>2 DEF Uploading, At, Key
    <3>3. Answers'
      <4> SUFFICES ASSUME NEW r \in told
                   PROVE  item'[r.key] = [status |-> "staged", content |-> r.content]
        BY <1>1 DEF Answers
      <4>1. r.key \in Keys \ {k}
        BY <1>2, ToldAreStaged
      <4> QED BY <4>1, <2>1, ToldAreStaged
    <3>4. ASSUME NEW m \in Keys
          PROVE  RowHolds(m)'
      <4>1. CASE m = k
        BY <4>1, <2>1, <3>2 DEF RowHolds
      <4>2. CASE m # k
        BY <4>2, <1>1, <2>1, <3>1, UploadsHoldParts
           DEF JournalInv, RowHolds, FilesMayBeLeft
      <4> QED BY <4>1, <4>2
    <3> QED BY <3>3, <3>4 DEF UploadsHold, Answers, RowHolds, FilesMayBeLeft
  <2> QED BY <2>4, <2>5, <2>6, <2>7 DEF JournalInv
<1>3. CASE /\ item[k].status = "staged"
           /\ uploader' = [uploader EXCEPT ![s] = [pc |-> "replay", key |-> k, content |-> c]]
           /\ UNCHANGED item
  <2>2. /\ uploader' \in [Slots -> CallTypes]
        /\ uploader'[s] = [pc |-> "replay", key |-> k, content |-> c]
        /\ \A t \in Slots \ {s} : uploader'[t] = uploader[t]
    <3>1. [pc |-> "replay", key |-> k, content |-> c] \in CallTypes
      BY DEF CallTypes, Phases
    <3> QED BY <3>1, <1>3, JournalTypes
  <2>4. JournalTypeOK'
    BY <1>1, <1>3, <2>2 DEF JournalInv, JournalTypeOK, CallTypes, Phases
  <2>5. Progress' /\ OneCallPerKey'
    BY <1>1, <1>3, <2>2
       DEF JournalInv, Progress, OneCallPerKey, Working, Phases, At, Key, FilesMayBeLeft
  <2>7. UploadsHold'
    <3>1. \A m \in Keys : Uploading(m) => Uploading(m)'
      BY <1>1, <2>2 DEF Uploading, At, Key
    <3> QED BY <1>1, <1>3, <3>1 DEF JournalInv, UploadsHold
  <2> QED BY <2>4, <2>5, <2>7 DEF JournalInv
<1> QED BY <1>2, <1>3 DEF BeginUpload

\* An answer given again is true of the row it is about.
LEMMA ReplayInv ==
    ASSUME JournalInv, NEW s \in Slots, Replay(s)
    PROVE  JournalInv'
<1>1. /\ UNCHANGED <<serving, item, private, undone>>
      /\ At(s, "replay") /\ uploader' = [uploader EXCEPT ![s] = Idle]
  BY DEF Replay
<1>2. PICK k \in Keys : k = Key(s)
  BY JournalTypes
<1>3. item[k].status = "staged" /\ uploader[s].content \in Contents
  BY <1>1, <1>2 DEF JournalInv, Progress
<1>4. \A r \in told' :
         \/ r \in told
         \/ /\ r = [key |-> k, content |-> uploader[s].content]
            /\ item[k].content = r.content
  BY <1>2 DEF Replay, SameContent, Told
<1>5. told' \subseteq [key : Keys, content : Contents]
  BY <1>3, <1>4, JournalTypes
<1>6. JournalTypeOK'
  BY <1>1, <1>5, EndTyped DEF JournalInv, JournalTypeOK, CallTypes, Phases
<1>7. Progress' /\ OneCallPerKey'
  <2>1. \A t \in Slots \ {s} : uploader'[t] = uploader[t]
    BY <1>1, EndTyped
  <2>2. ~Working(s)' /\ uploader'[s].pc = "idle"
    BY <1>1, EndTyped DEF Working, Phases
  <2>3. OneCallPerKey'
    BY <2>1, <2>2 DEF JournalInv, OneCallPerKey, Working, Key
  <2>4. Progress'
    BY <1>1, <2>1, <2>2 DEF JournalInv, Progress, Working, At, Key, FilesMayBeLeft
  <2> QED BY <2>3, <2>4
<1>8. UploadsHold'
  <2>1. \A m \in Keys : Uploading(m) => Uploading(m)'
    BY <1>1, EndTyped DEF Uploading, At, Key
  <2>2. item[k] = [status |-> "staged", content |-> item[k].content]
    BY <1>3, JournalTypes DEF ItemTypes
  <2>3. \A r \in told' : item[r.key] = [status |-> "staged", content |-> r.content]
    <3> SUFFICES ASSUME NEW r \in told'
                 PROVE  item[r.key] = [status |-> "staged", content |-> r.content]
      OBVIOUS
    <3>1. CASE r \in told
      BY <3>1, ToldAreStaged
    <3>2. CASE r \notin told
      <4>1. r.key = k /\ item[k].content = r.content
        BY <3>2, <1>4
      <4> QED BY <4>1, <2>2
    <3> QED BY <3>1, <3>2
  <2> QED BY <1>1, <2>1, <2>3 DEF JournalInv, UploadsHold
<1> QED BY <1>6, <1>7, <1>8 DEF JournalInv

-----------------------------------------------------------------------------
(* The end of a process and the start of the next. *)

LEMMA CrashInv ==
    ASSUME JournalInv, Crash
    PROVE  JournalInv'
<1>1. UNCHANGED <<item, private, told, undone>> /\ serving' = FALSE
      /\ uploader' = [s \in Slots |-> Idle]
  BY DEF Crash
<1>2. \A s \in Slots : uploader'[s].pc = "idle"
  BY <1>1, IdleTyped
<1>3. JournalTypeOK'
  BY <1>1, IdleTyped DEF JournalInv, JournalTypeOK, CallTypes, Phases
<1>4. Progress' /\ OneCallPerKey'
  BY <1>2 DEF Progress, OneCallPerKey, Working, Phases, At
<1>5. UploadsHold'
  BY <1>1 DEF JournalInv, UploadsHold
<1> QED BY <1>3, <1>4, <1>5 DEF JournalInv

\* While nothing is served there are no calls.
LEMMA RecoveryInv ==
    ASSUME JournalInv, NEW k \in Keys, ~serving, item[k].status = "receiving",
           UNCHANGED <<serving, uploader, told, undone>>,
           private' \in [Keys -> FileTypes], \A m \in Keys \ {k} : private'[m] = private[m],
           item' \in [Keys -> ItemTypes], \A m \in Keys \ {k} : item'[m] = item[m],
           \/ item'[k].status = "receiving"
           \/ item'[k].status = "failed" /\ private'[k] = NoFile
    PROVE  JournalInv'
<1>1. \A s \in Slots : ~Working(s)
  BY DEF JournalInv, Progress
<1>2. \A s \in Slots : At(s, "replay") => Key(s) # k
  BY DEF JournalInv, Progress
<1>3. JournalTypeOK'
  BY DEF JournalInv, JournalTypeOK, ItemTypes, FileTypes
<1>4. Progress' /\ OneCallPerKey'
  BY <1>1, <1>2, JournalTypes
     DEF JournalInv, Progress, OneCallPerKey, Working, Phases, At, Key
<1>5. UploadsHold'
  <2>1. \A r \in told : r.key \in Keys \ {k}
    BY ToldAreStaged
  <2>2. Answers'
    BY <2>1, ToldAreStaged DEF Answers
  <2>3. ASSUME NEW m \in Keys
        PROVE  RowHolds(m)'
    <3>1. CASE m = k
      BY <3>1 DEF RowHolds, FilesMayBeLeft
    <3>2. CASE m # k
      BY <3>2, UploadsHoldParts DEF JournalInv, RowHolds, FilesMayBeLeft
    <3> QED BY <3>1, <3>2
  <2> QED BY <2>2, <2>3 DEF UploadsHold, Answers, RowHolds, FilesMayBeLeft
<1> QED BY <1>3, <1>4, <1>5 DEF JournalInv

LEMMA RecoveryStepInv ==
    ASSUME JournalInv, NEW k \in Keys, RecoveryStep(k)
    PROVE  JournalInv'
<1>1. CASE RecoverFiles(k)
  <2>1. private' \in [Keys -> FileTypes] /\ \A m \in Keys \ {k} : private'[m] = private[m]
    BY <1>1, JournalTypes DEF RecoverFiles, FileTypes, NoFile
  <2> QED BY <1>1, <2>1, JournalTypes, RecoveryInv DEF RecoverFiles
<1>2. CASE RecoverRow(k)
  <2>1. /\ item' = FailedRow(k) /\ item[k].status = "receiving" /\ private[k] = NoFile
        /\ ~serving /\ UNCHANGED <<serving, private, uploader, told, undone>>
    BY <1>2 DEF RecoverRow, FilesAreGone
  <2> QED BY <2>1, FailedRowTyped, JournalTypes, RecoveryInv
<1> QED BY <1>1, <1>2 DEF RecoveryStep

\* Requests are taken when no row is left half received.
LEMMA ServeInv ==
    ASSUME JournalInv, Serve
    PROVE  JournalInv'
<1>1. /\ UNCHANGED <<item, private, uploader, told, undone>> /\ serving' = TRUE
      /\ \A k \in Keys : item[k].status # "receiving"
  BY DEF Serve, Undone
<1>2. JournalTypeOK'
  BY <1>1 DEF JournalInv, JournalTypeOK
<1>3. Progress' /\ OneCallPerKey'
  BY <1>1 DEF JournalInv, Progress, OneCallPerKey, Working, Phases, At, Key, FilesMayBeLeft
<1>4. UploadsHold'
  BY <1>1 DEF JournalInv, UploadsHold
<1> QED BY <1>2, <1>3, <1>4 DEF JournalInv

LEMMA CallStepInv ==
    ASSUME JournalInv, NEW s \in Slots, CallStep(s)
    PROVE  JournalInv'
BY ReplayInv, ReceiveInv, RenameInv, CleanupInv, FailUploadInv DEF CallStep

-----------------------------------------------------------------------------
(* The parts together.                                                     *)

StoredOnceKnown == \A k \in Keys : item[k].status # "staged" => doc[k].version = 0

LEMMA StartedPlans ==
    ASSUME NEW start \in Starts,
           plans = [p \in DOMAIN start.plans |->
              [lib |-> start.plans[p].lib, dir |-> start.plans[p].dir, source |-> "linked",
               revision |-> 1, relation |-> "distinct", related |-> {}, committed |-> FALSE]]
    PROVE  plans \in Seq(PlanTypes) /\ Len(plans) <= MaxPlans
<1> DEFINE planned == start.plans
<1>1. planned \in Seq([lib : Libs, dir : Dirs]) /\ Len(planned) <= MaxPlans
  BY LibraryAssumption DEF StartIsSound
<1>2. /\ Len(planned) \in Nat /\ DOMAIN planned = 1 .. Len(planned)
      /\ \A p \in 1 .. Len(planned) : planned[p] \in [lib : Libs, dir : Dirs]
  BY <1>1, LenProperties, ElementOfSeq
<1>3. plans = [p \in 1 .. Len(planned) |->
              [lib |-> planned[p].lib, dir |-> planned[p].dir, source |-> "linked",
               revision |-> 1, relation |-> "distinct", related |-> {}, committed |-> FALSE]]
  BY <1>2
<1> HIDE DEF planned
<1>4. \A p \in 1 .. Len(planned) :
         [lib |-> planned[p].lib, dir |-> planned[p].dir, source |-> "linked",
          revision |-> 1, relation |-> "distinct", related |-> {}, committed |-> FALSE]
             \in PlanTypes
  BY <1>2 DEF PlanTypes, Sources
<1>5. plans \in [1 .. Len(planned) -> PlanTypes]
  BY <1>3, <1>4
<1>6. plans \in Seq(PlanTypes)
  BY <1>2, <1>5, SeqDef
<1>7. DOMAIN plans = 1 .. Len(planned) /\ DOMAIN plans = 1 .. Len(plans) /\ Len(plans) \in Nat
  BY <1>5, <1>6, LenProperties
<1>8. Len(plans) = Len(planned)
  BY <1>2, <1>7
<1> QED BY <1>1, <1>6, <1>8

\* However a library starts, its roots are apart and its views in them.
LEMMA RootsInitInv ==
    ASSUME Init
    PROVE  RootsInv
<1>1. PICK start \in Starts : StartsAs(start)
  BY DEF Init
<1>2. StartIsSound(start)
  BY LibraryAssumption
<1> DEFINE begun == DOMAIN start.roots
<1>3. /\ roots \in [Dirs -> RootTypes]
      /\ \A d \in Dirs \ begun : roots[d] = NoRoot
      /\ \A d \in begun : roots[d].status = "active"
  BY <1>1, <1>2 DEF StartsAs, StartIsSound, RootTypes, Statuses, Sources
<1>4. /\ views \in [Views -> {NoPlace} \cup Place]
      /\ \A v \in Views : views[v] # NoPlace =>
            views[v].root \in begun /\ views[v].root \o views[v].relative = ViewedDir[v]
  BY <1>1, <1>2 DEF StartsAs, StartIsSound
<1>5. /\ begun \subseteq Dirs /\ \A d, e \in begun : Within(d, e) => d = e
  BY <1>2 DEF StartIsSound
<1>6. library \in [Libs -> LibraryTypes]
  BY <1>1, <1>2 DEF StartsAs, StartIsSound, LibraryTypes
<1>7. plans \in Seq(PlanTypes) /\ Len(plans) <= MaxPlans
  BY <1>1, StartedPlans DEF StartsAs
<1>8. retirements = {} /\ located = [f \in Files |-> NoPlace] /\ scan = NoScan
  BY DEF Init
<1>9. RootsTypeOK
  BY <1>3, <1>4, <1>6, <1>7, <1>8 DEF RootsTypeOK, RootTypes, PlanTypes, LibraryTypes
<1>10. \A d \in Dirs : Registered(d) <=> d \in begun
  BY <1>3 DEF Registered, NoRoot, None
<1> HIDE DEF begun
<1>11. SupersededInside
  BY <1>3 DEF SupersededInside, NoRoot, None
<1>12. RootsDisjoint
  BY <1>5, <1>10 DEF RootsDisjoint
<1>13. PlacesHold
  BY <1>4, <1>5, <1>8, <1>10 DEF PlacesHold
<1>14. ScanBelowRoot /\ PlannedHaveRows
  BY <1>8 DEF ScanBelowRoot, PlannedHaveRows
<1> QED BY <1>9, <1>11, <1>12, <1>13, <1>14 DEF RootsInv

\* Every step keeps the roots apart and the places where they are.
LEMMA RootsNextInv ==
    ASSUME RootsInv, [Next]_vars
    PROVE  RootsInv'
<1>1. ASSUME UNCHANGED rootsVars PROVE RootsInv'
  BY <1>1, TypesOfRootsInv, RootsUnchanged DEF rootsVars, tables
<1>2. CASE RootCommand
  BY <1>2, PlanRootInv, ConfirmRootInv, AddViewInv, ConfigureRootInv, ExtendInv,
     RetirementPlanInv DEF RootCommand
<1>3. CASE DocumentCommand
  <2>1. CASE \E r \in retirements : RetireRoot(r)
    BY <2>1, RetireInv DEF RetireRoot
  <2>2. CASE \E l \in Libs : SetLanguage(l)
    BY <2>2, TypesOfRootsInv, ReconfiguredTyped, RootsUnchanged DEF SetLanguage
  <2> QED BY <1>1, <1>3, <2>1, <2>2 DEF DocumentCommand
<1>4. CASE ScanStep
  BY <1>4, IngestInv, EndScanInv, AbandonScanInv DEF ScanStep, Scanned
<1>5. CASE \E d \in Dirs : StartScan(d)
  BY <1>5, BeginScanInv DEF StartScan
<1>6. CASE Fault
  BY <1>1, <1>6, LoseScanInv DEF Fault
<1>7. CASE End
  BY <1>7, TypesOfRootsInv, RootsUnchanged DEF End, tables
<1>8. CASE UploadCommand \/ Start \/ UNCHANGED vars
  BY <1>1, <1>8 DEF UploadCommand, Start, vars
<1>9. CASE \E d \in Docs : WorkerStep(d) \/ Monitor(d)
  BY <1>1, <1>9 DEF WorkerStep, Monitor
<1>10. CASE \E s \in Slots : UploadStep(s)
  BY <1>1, <1>10 DEF UploadStep
<1> QED BY <1>2, <1>3, <1>4, <1>5, <1>6, <1>7, <1>8, <1>9, <1>10 DEF Next

LEMMA JournalNextInv ==
    ASSUME JournalInv, [Next]_vars
    PROVE  JournalInv'
<1>1. ASSUME UNCHANGED journalVars PROVE JournalInv'
  BY <1>1, JournalUnchanged
<1>2. CASE RootCommand \/ DocumentCommand \/ ScanStep
  BY <1>1, <1>2 DEF RootCommand, DocumentCommand, ScanStep
<1>3. CASE (\E d \in Dirs : StartScan(d)) \/ \E d \in Docs : WorkerStep(d) \/ Monitor(d)
  BY <1>1, <1>3 DEF StartScan, WorkerStep, Monitor
<1>4. CASE UploadCommand
  BY <1>4, BeginUploadInv DEF UploadCommand
<1>5. CASE \E s \in Slots : UploadStep(s)
  BY <1>5, StageInv, CallStepInv, GiveUpInv DEF UploadStep, Publication
<1>6. CASE Fault
  BY <1>1, <1>6, FilesStayInv, RowStaysInv DEF Fault
<1>7. CASE End
  BY <1>7, CrashInv DEF End
<1>8. CASE Start
  BY <1>8, ServeInv, RecoveryStepInv DEF Start
<1>9. CASE UNCHANGED vars
  BY <1>1, <1>9 DEF vars
<1> QED BY <1>2, <1>3, <1>4, <1>5, <1>6, <1>7, <1>8, <1>9 DEF Next

-----------------------------------------------------------------------------
(* The documents. *)

LEMMA KeysAreDocuments ==
    /\ \A k \in Keys : k \in Docs /\ k \in Uploads /\ k \notin Files
    /\ \A c \in Contents : c \in 0 .. MaxContents
BY LibraryAssumption, ExtractionAssumption DEF Docs

LEMMA DocumentsInitInv ==
    ASSUME Init
    PROVE  ExtractionInv /\ StoredOnceKnown
<1>1. /\ onDisk = [f \in Files |-> 1] /\ language = [l \in Libs |-> "spa"]
      /\ doc = [d \in Docs |-> NoDoc] /\ jobs = [d \in Docs |-> << >>]
      /\ worker = [d \in Docs |-> NoWorker]
  BY DEF Init
<1>2. NoDoc \in DocTypes /\ << >> \in Seq(JobTypes)
  BY ExtractionAssumption DEF NoDoc, DocTypes, NoText
<1>3. /\ onDisk \in [Files -> 1 .. MaxContents] /\ language \in [Libs -> Languages]
      /\ doc \in [Docs -> DocTypes] /\ jobs \in [Docs -> Seq(JobTypes)]
      /\ worker \in [Docs -> WorkerTypes]
  BY <1>1, <1>2, NoWorkerTyped, ExtractionAssumption DEF Languages
<1>4. ExtractionTypeOK
  BY <1>3 DEF ExtractionTypeOK, JobTypes, DocTypes, WorkerTypes
<1>5. ASSUME NEW d \in Docs
      PROVE  Sound(d, doc[d], jobs[d], worker[d], LanguageOf(d))
  <2>1. doc[d] = NoDoc /\ jobs[d] = << >> /\ worker[d] = NoWorker
    BY <1>1
  <2>2. /\ NoDoc.version = 0 /\ NoDoc.freshness = None /\ NoDoc.shown = FALSE
        /\ NoDoc.indexed = NoText /\ NoWorker.stage = "idle"
    BY DEF NoDoc, NoWorker
  <2> QED BY <2>1, <2>2 DEF Sound, JobsAreSound, UnknownIsEmpty, TextIsTrue, WorkIsLeft,
                            Outdated, OutcomeIsRight, None
<1>6. \A d \in Docs : doc[d].version = 0
  BY <1>1 DEF NoDoc
<1> QED BY <1>4, <1>5, <1>6, KeysAreDocuments
        DEF ExtractionInv, PlacedOnceKnown, StoredOnceKnown, Docs

\* The document that an upload becomes has its first job.
LEMMA PublicationInv ==
    ASSUME RootsInv, JournalInv, ExtractionInv, StoredOnceKnown,
           NEW s \in Slots, Publication(s), UNCHANGED rootsVars
    PROVE  ExtractionInv'
<1>1. PICK k \in Keys : k = Key(s)
  BY JournalTypes
<1>2. /\ Working(s) /\ item[k].status = "receiving" /\ uploader[s].content \in Contents
  BY <1>1, CallTyped DEF Publication, Stage, Working, At, Phases
<1>3. k \in Docs /\ k \notin Files /\ doc[k].version = 0
  BY <1>2, KeysAreDocuments DEF StoredOnceKnown
<1>4. /\ doc[k] \in DocTypes /\ jobs[k] \in Seq(JobTypes) /\ worker[k] \in WorkerTypes
      /\ Sound(k, doc[k], jobs[k], worker[k], LanguageOf(k))
  BY <1>3, DocumentTypes
<1>5. jobs[k] = << >>
  BY <1>3, <1>4 DEF Sound, UnknownIsEmpty
<1> DEFINE row == [NoDoc EXCEPT !.version = 1, !.content = uploader[s].content]
           new == << Queued(1) >>
<1>6. /\ row \in DocTypes /\ row.version = 1 /\ row.shown = FALSE
      /\ row.freshness # "current"
  <2>1. uploader[s].content \in 0 .. MaxContents
    BY <1>2, KeysAreDocuments
  <2>2. NoDoc \in DocTypes /\ NoDoc.shown = FALSE /\ NoDoc.freshness # "current"
    BY ExtractionAssumption DEF NoDoc, DocTypes, NoText, None
  <2>3. row \in DocTypes
    BY <2>1, <2>2 DEF DocTypes
  <2> QED BY <2>1, <2>2, <2>3 DEF DocTypes, NoDoc
<1>7. new \in Seq(JobTypes) /\ Extends(jobs[k], new, 1)
  <2>1. new = Append(<< >>, Queued(1))
    OBVIOUS
  <2> HIDE DEF new
  <2> QED BY <1>4, <1>5, <2>1, LongerList
<1>8. doc' = [doc EXCEPT ![k] = row] /\ jobs' = [jobs EXCEPT ![k] = new]
      /\ UNCHANGED <<onDisk, language, worker, roots, located>>
  BY <1>1 DEF Publication, rootsVars
<1> HIDE DEF row, new
<1>9. Sound(k, row, new, worker[k], LanguageOf(k))
  <2>1. Extends(jobs[k], new, row.version) /\ row.version # 0 /\ (row.shown => ~row.deleted)
    BY <1>6, <1>7
  <2> QED BY <1>3, <1>4, <1>6, <2>1, RenewedSound
<1>10. /\ doc' \in [Docs -> DocTypes] /\ doc'[k] = row
       /\ \A e \in Docs \ {k} : doc'[e] = doc[e]
  BY <1>3, <1>6, <1>8, ExtractionTypes
<1>11. /\ jobs' \in [Docs -> Seq(JobTypes)] /\ jobs'[k] = new
       /\ \A e \in Docs \ {k} : jobs'[e] = jobs[e]
  BY <1>3, <1>7, <1>8, ExtractionTypes
<1> QED BY <1>3, <1>8, <1>9, <1>10, <1>11, ExtractionTypes, OneDocument

LEMMA DocumentsNextInv ==
    ASSUME RootsInv, JournalInv, ExtractionInv, StoredOnceKnown, [Next]_vars
    PROVE  ExtractionInv'
<1>1. ASSUME UNCHANGED rootsVars PROVE UNCHANGED <<roots, located>> /\ OwnersStay
  BY <1>1 DEF rootsVars, OwnersStay
<1>2. CASE RootCommand
  <2>1. OwnersStay
    BY <1>2, ConfirmRootOwners, OwnersKept DEF RootCommand
  <2> QED BY <1>2, <2>1, DocumentsUnchanged DEF RootCommand
<1>3. CASE DocumentCommand
  BY <1>1, <1>3, RetireRootInv, SetLanguageInv, RemoveIndexInv, CancelJobInv, RetryInv
     DEF DocumentCommand
<1>4. CASE ScanStep
  <2>1. CASE (EndScan \/ AbandonScan) /\ UNCHANGED extractionVars
    BY <2>1, OwnersKept, DocumentsUnchanged
  <2> QED BY <1>4, <2>1, ScannedInv DEF ScanStep
<1>5. CASE \E d \in Dirs : StartScan(d)
  <2>1. OwnersStay
    BY <1>5, OwnersKept DEF StartScan
  <2> QED BY <1>5, <2>1, DocumentsUnchanged DEF StartScan
<1>6. CASE Fault
  <2>1. CASE \E f \in Files : Edit(f) /\ UNCHANGED rootsVars
    BY <1>1, <2>1, EditInv
  <2>2. CASE LoseScan /\ UNCHANGED extractionVars
    BY <2>2, OwnersKept, DocumentsUnchanged
  <2>3. CASE (\E d \in Docs : FailToRead(d)) /\ UNCHANGED rootsVars
    BY <1>1, <2>3, FailToReadInv
  <2>4. CASE UNCHANGED <<rootsVars, extractionVars>>
    BY <1>1, <2>4, DocumentsUnchanged
  <2> QED BY <1>6, <2>1, <2>2, <2>3, <2>4 DEF Fault
<1>7. CASE End
  BY <1>7, WorkersLost DEF End
<1>8. CASE Start
  BY <1>1, <1>8, RestartWorkersInv, DocumentsUnchanged DEF Start
<1>9. CASE \E d \in Docs : WorkerStep(d) \/ Monitor(d)
  BY <1>1, <1>9, ClaimInv, PrepareInv, PublishInv, FinishInv, InterruptedInv
     DEF WorkerStep, Monitor
<1>10. CASE \E s \in Slots : UploadStep(s)
  BY <1>1, <1>10, PublicationInv, DocumentsUnchanged DEF UploadStep
<1>11. CASE UploadCommand \/ UNCHANGED vars
  BY <1>1, <1>11, DocumentsUnchanged DEF UploadCommand, vars
<1> QED BY <1>2, <1>3, <1>4, <1>5, <1>6, <1>7, <1>8, <1>9, <1>10, <1>11 DEF Next

\* Only the transaction that stores an upload makes it a document.
LEMMA StoredOnceNextInv ==
    ASSUME RootsInv, JournalInv, ExtractionInv, StoredOnceKnown, [Next]_vars
    PROVE  StoredOnceKnown'
<1>1. \A k \in Keys : item[k].status = "staged" => item'[k].status = "staged"
  <2>1. CASE UNCHANGED item
    BY <2>1
  <2>2. ASSUME NEW k \in Keys, item' = FailedRow(k)
        PROVE  \A m \in Keys : item[m].status = "staged" => item'[m].status = "staged"
    BY <2>2, JournalTypes DEF FailedRow, ItemTypes
  <2>3. ASSUME NEW s \in Slots, Stage(s)
        PROVE  \A m \in Keys : item[m].status = "staged" => item'[m].status = "staged"
    BY <2>3, JournalTypes DEF Stage, ItemTypes
  <2>4. ASSUME NEW k \in Keys, item[k].status = "none",
               item' = [item EXCEPT ![k].status = "receiving"]
        PROVE  \A m \in Keys : item[m].status = "staged" => item'[m].status = "staged"
    BY <2>4, JournalTypes DEF ItemTypes
  <2>5. CASE RootCommand \/ DocumentCommand \/ ScanStep \/ End \/ Fault \/ UNCHANGED vars
    BY <2>1, <2>5 DEF RootCommand, DocumentCommand, ScanStep, End, Fault, Crash, FilesStay,
                      RowStays, vars, journalVars
  <2>6. CASE UploadCommand
    BY <2>1, <2>4, <2>6 DEF UploadCommand, BeginUpload
  <2>7. CASE (\E d \in Dirs : StartScan(d)) \/ \E d \in Docs : WorkerStep(d) \/ Monitor(d)
    BY <2>1, <2>7 DEF StartScan, WorkerStep, Monitor, journalVars
  <2>8. ASSUME NEW s \in Slots, UploadStep(s)
        PROVE  \A m \in Keys : item[m].status = "staged" => item'[m].status = "staged"
    <3>1. Key(s) \in Keys
      BY JournalTypes
    <3> QED BY <2>1, <2>2, <2>3, <2>8, <3>1
            DEF UploadStep, Publication, CallStep, GiveUp, Replay, Receive, Rename, Cleanup,
                FailUpload
  <2>9. CASE Start
    BY <2>1, <2>2, <2>9 DEF Start, Serve, RecoveryStep, RecoverFiles, RecoverRow
  <2> QED BY <2>5, <2>6, <2>7, <2>8, <2>9 DEF Next
<1>2. ASSUME NEW k \in Keys
      PROVE  doc'[k].version = doc[k].version \/ item'[k].status = "staged"
  <2>0. /\ k \in Docs /\ k \notin Files /\ doc[k] \in DocTypes /\ doc \in [Docs -> DocTypes]
    BY KeysAreDocuments, ExtractionTypes
  <2>1. CASE UNCHANGED doc
    BY <2>1
  <2>2. ASSUME NEW row \in DocTypes
        PROVE  Removed(row).version = row.version
    BY DEF Removed, DocTypes
  <2>3. ASSUME NEW s \in Slots, UploadStep(s)
        PROVE  doc'[k].version = doc[k].version \/ item'[k].status = "staged"
    <3>1. CASE UNCHANGED extractionVars
      BY <2>1, <3>1 DEF extractionVars
    <3>2. CASE Publication(s) /\ Key(s) = k
      BY <3>2, JournalTypes DEF Publication, Stage
    <3>3. CASE Publication(s) /\ Key(s) # k
      BY <2>0, <3>3 DEF Publication
    <3> QED BY <2>3, <3>1, <3>2, <3>3 DEF UploadStep
  <2>4. CASE RootCommand \/ UploadCommand \/ End \/ UNCHANGED vars
    BY <2>1, <2>4 DEF RootCommand, UploadCommand, End, vars, extractionVars
  <2>5. CASE DocumentCommand
    <3>1. CASE \E r \in retirements : RetireRoot(r)
      BY <2>0, <2>1, <2>2, <3>1 DEF RetireRoot
    <3>2. CASE \E l \in Libs : SetLanguage(l)
      BY <2>0, <3>2 DEF SetLanguage, DocTypes
    <3>3. CASE \E d \in Docs : RemoveIndex(d)
      BY <2>0, <2>2, <3>3 DEF RemoveIndex
    <3>4. CASE \E d \in Docs : CancelJob(d) \/ Retry(d)
      BY <2>1, <3>4 DEF CancelJob, Retry
    <3> QED BY <2>5, <3>1, <3>2, <3>3, <3>4 DEF DocumentCommand
  <2>6. CASE ScanStep
    BY <2>0, <2>1, <2>6 DEF ScanStep, Scanned, Observe, extractionVars
  <2>7. CASE \E d \in Dirs : StartScan(d)
    BY <2>1, <2>7 DEF StartScan, extractionVars
  <2>8. CASE Fault
    BY <2>1, <2>8 DEF Fault, Edit, FailToRead, extractionVars
  <2>9. CASE Start
    BY <2>1, <2>9 DEF Start, RestartWorkers, extractionVars
  <2>10. CASE \E d \in Docs : WorkerStep(d) \/ Monitor(d)
    <3>1. ASSUME NEW d \in Docs, Publish(d)
          PROVE  doc'[k].version = doc[k].version
      <4>1. CASE doc' = [doc EXCEPT ![d] = Published(doc[d], Job(d).version, worker[d].language)]
        BY <2>0, <4>1 DEF Published, DocTypes
      <4> QED BY <2>0, <2>1, <3>1, <4>1, ExtractionTypes DEF Publish, Published, DocTypes
    <3> QED BY <2>1, <2>10, <3>1 DEF WorkerStep, Monitor, Claim, Prepare, Finish, Interrupted
  <2> QED BY <2>3, <2>4, <2>5, <2>6, <2>7, <2>8, <2>9, <2>10 DEF Next
<1> QED BY <1>1, <1>2 DEF StoredOnceKnown

-----------------------------------------------------------------------------
(* Together. *)

Bounds == commands \in 0 .. MaxCommands /\ incidents \in 0 .. MaxIncidents

LibraryInv == RootsInv /\ JournalInv /\ ExtractionInv /\ StoredOnceKnown /\ Bounds

LEMMA LibraryInit ==
    ASSUME Init
    PROVE  LibraryInv
<1>1. Bounds
  <2>1. PICK start \in Starts : StartsAs(start)
    BY DEF Init
  <2>2. StartIsSound(start)
    BY LibraryAssumption
  <2> QED BY <2>1, <2>2, LibraryAssumption DEF Init, StartsAs, StartIsSound, Bounds
<1> QED BY <1>1, RootsInitInv, JournalInitInv, DocumentsInitInv DEF LibraryInv, Init

LEMMA LibraryNext ==
    ASSUME LibraryInv, [Next]_vars
    PROVE  LibraryInv'
<1>1. Bounds'
  <2>1. \/ UNCHANGED counters
        \/ commands < MaxCommands /\ commands' = commands + 1 /\ UNCHANGED incidents
        \/ incidents < MaxIncidents /\ incidents' = incidents + 1 /\ UNCHANGED commands
    BY DEF Next, Command, Incident, Works, Start, vars
  <2> QED BY <2>1, LibraryAssumption DEF LibraryInv, Bounds, counters
<1> QED BY <1>1, RootsNextInv, JournalNextInv, DocumentsNextInv, StoredOnceNextInv
        DEF LibraryInv

LEMMA Invariance == Spec => []LibraryInv
<1> QED BY LibraryInit, LibraryNext, PTL DEF Spec

\* Rows, files and what the process remembers keep their form and bounds.
THEOREM TypeCorrect == Spec => []TypeOK
<1>1. LibraryInv => TypeOK
  BY DEF LibraryInv, TypeOK, RootsInv, JournalInv, ExtractionInv, Bounds
<1> QED BY <1>1, Invariance, PTL

\* Whatever users plan, confirm, pause and retire and scans find, no directory
\* is watched through two roots, and each file and view stays where its path
\* says (createRoot, consolidate, retireRoot, ingest).
THEOREM RootsStaySound == Spec => []RootsAreSound
<1>1. LibraryInv => RootsAreSound
  BY DEF LibraryInv, RootsInv, RootsAreSound
<1> QED BY <1>1, Invariance, PTL

\* Whatever changes while a text is being extracted, what is said to be current
\* is, what was withdrawn is not shown, and what is not current has somebody
\* who will make it so (publish, finish, ingest, recoverJobs, Retry).
THEOREM IndexStaysSound == Spec => []IndexIsSound
<1>1. LibraryInv => IndexIsSound
  BY ExtractionInvSound DEF LibraryInv
<1> QED BY <1>1, Invariance, PTL

\* Whatever calls, failures, ends of the process and recoveries come between,
\* a client that was told of a success has its content stored, and no file or
\* row is left half-way, but for the two failures the cleanup does not look
\* at (Upload, failUpload, recoverUploads).
THEOREM UploadsStayExact == Spec => []UploadsHold
<1>1. LibraryInv => UploadsHold
  BY DEF LibraryInv, JournalInv
<1> QED BY <1>1, Invariance, PTL

-----------------------------------------------------------------------------
(* What a step may not do. *)

RemovalIsPlanned ==
    \A r \in Dirs :
        roots[r].status # "retired" /\ roots'[r].status = "retired" =>
            \E plan \in retirements :
                /\ plan.root = r /\ plan.revision = roots[r].revision
                /\ {d \in Docs : ~doc[d].deleted /\ doc'[d].deleted} \subseteq plan.impact

CancelledIsKept ==
    \A f \in Files :
        /\ Len(jobs'[f]) > Len(jobs[f])
        /\ scan' # scan /\ doc'[f].version = doc[f].version
        => ~jobs[f][LastOf(f)].cancelled

LEMMA RemovalStep ==
    ASSUME LibraryInv, [Next]_vars
    PROVE  RemovalIsPlanned
<1> SUFFICES ASSUME NEW r \in Dirs,
                    roots[r].status # "retired", roots'[r].status = "retired"
             PROVE  \E plan \in retirements :
                       /\ plan.root = r /\ plan.revision = roots[r].revision
                       /\ {d \in Docs : ~doc[d].deleted /\ doc'[d].deleted}
                             \subseteq plan.impact
  BY DEF RemovalIsPlanned
<1>0. roots \in [Dirs -> RootTypes] /\ roots' # roots
  BY TypesOfRootsInv DEF LibraryInv
<1>1. ASSUME NEW q \in retirements, RetireRoot(q)
      PROVE  q.root = r /\ StillPlanned(q, Impact(q.root))
             /\ {d \in Docs : ~doc[d].deleted /\ doc'[d].deleted} \subseteq Impact(q.root)
  <2>1. q.root = r /\ StillPlanned(q, Impact(q.root))
    BY <1>0, <1>1 DEF RetireRoot, Retire
  <2>2. \A d \in Docs : d \in References(q.root) => d \in Files
    BY DEF References
  <2> QED BY <1>1, <2>1, <2>2 DEF RetireRoot, Impact
<1>2. ASSUME NEW d, NEW status \in {"active", "disabled", "inaccessible"},
             \/ roots' = [roots EXCEPT ![d].status = status]
             \/ roots' = [roots EXCEPT ![d].status = status, ![d].revision = @ + 1]
      PROVE  FALSE
  <2>1. roots[r] \in RootTypes
    BY <1>0
  <2>2. CASE d # r
    BY <1>0, <1>2, <2>2
  <2>3. CASE d = r
    <3>1. roots'[r].status = status
      BY <1>0, <1>2, <2>1, <2>3 DEF RootTypes, NoRoot
    <3> QED BY <3>1
  <2> QED BY <2>2, <2>3
<1>3. CASE DocumentCommand
  BY <1>0, <1>1, <1>3 DEF DocumentCommand, SetLanguage, StillPlanned, rootsVars
<1>4. CASE RootCommand
  <2>1. ASSUME NEW p \in DOMAIN plans, ConfirmRoot(p)
        PROVE  FALSE
    <3>1. roots'[r] = IF r = plans[p].dir
                      THEN [status |-> "active", lib |-> plans[p].lib,
                            source |-> plans[p].source, revision |-> 1, replaced |-> FALSE]
                      ELSE IF r \in plans[p].related
                      THEN [roots[r] EXCEPT !.status = "superseded", !.replaced = TRUE,
                                            !.revision = @ + 1]
                      ELSE roots[r]
      BY <2>1 DEF ConfirmRoot
    <3>2. CASE r = plans[p].dir
      BY <3>1, <3>2
    <3>3. CASE r # plans[p].dir /\ r \in plans[p].related
      <4>1. roots[r] \in RootTypes
        BY <1>0
      <4> QED BY <3>1, <3>3, <4>1 DEF RootTypes, NoRoot
    <3> QED BY <3>1, <3>2, <3>3
  <2>2. ASSUME NEW d \in Dirs, NEW enabled \in BOOLEAN, ConfigureRoot(d, enabled)
        PROVE  FALSE
    BY <1>2, <2>2 DEF ConfigureRoot
  <2> QED BY <1>0, <1>4, <2>1, <2>2
          DEF RootCommand, PlanRoot, AddView, Extend, RetirementPlan
<1>5. CASE ScanStep
  BY <1>0, <1>2, <1>5 DEF ScanStep, Scanned, Ingest, EndScan, AbandonScan
<1>6. CASE Fault
  BY <1>0, <1>2, <1>6 DEF Fault, LoseScan, rootsVars
<1>7. CASE \E d \in Dirs : StartScan(d)
  BY <1>0, <1>7 DEF StartScan, BeginScan
<1>8. CASE \E d \in Docs : WorkerStep(d) \/ Monitor(d)
  BY <1>0, <1>8 DEF WorkerStep, Monitor, rootsVars
<1>9. CASE \E s \in Slots : UploadStep(s)
  BY <1>0, <1>9 DEF UploadStep, rootsVars
<1>10. CASE UploadCommand \/ End \/ Start \/ UNCHANGED vars
  BY <1>0, <1>10 DEF UploadCommand, End, Start, rootsVars, vars
<1> QED BY <1>3, <1>4, <1>5, <1>6, <1>7, <1>8, <1>9, <1>10 DEF Next

LEMMA CancelledStep ==
    ASSUME LibraryInv, [Next]_vars
    PROVE  CancelledIsKept
<1> SUFFICES ASSUME NEW f \in Files, Len(jobs'[f]) > Len(jobs[f]),
                    scan' # scan, doc'[f].version = doc[f].version
             PROVE  ~jobs[f][LastOf(f)].cancelled
  BY DEF CancelledIsKept
<1>0. /\ jobs'[f] # jobs[f] /\ f \in Docs /\ doc[f].version \in Nat
      /\ doc \in [Docs -> DocTypes] /\ jobs \in [Docs -> Seq(JobTypes)]
  BY ExtractionTypes, DocumentTypes, ListProperties DEF LibraryInv, Docs, DocTypes
<1>1. ASSUME NEW g \in Files, Scanned(g)
      PROVE  ~jobs[f][LastOf(f)].cancelled
  <2>1. g = f /\ g \in Docs
    BY <1>0, <1>1 DEF Scanned, Observe, Docs
  <2>2. CASE onDisk[g] # doc[g].content
    <3>1. doc'[f] = Renewed(doc[f], doc[f].version + 1, onDisk[f])
      BY <1>0, <1>1, <2>1, <2>2 DEF Scanned, Observe
    <3>2. doc'[f].version = doc[f].version + 1
      BY <1>0, <3>1 DEF Renewed, DocTypes
    <3> QED BY <1>0, <3>2
  <2>3. CASE onDisk[g] = doc[g].content
    BY <1>0, <1>1, <2>1, <2>3 DEF Scanned, Observe, Resumable
  <2> QED BY <2>2, <2>3
<1>2. CASE UNCHANGED jobs \/ UNCHANGED scan
  BY <1>0, <1>2
<1>3. CASE RootCommand \/ UploadCommand \/ End \/ UNCHANGED vars
  BY <1>2, <1>3 DEF RootCommand, UploadCommand, End, vars, extractionVars
<1>4. CASE DocumentCommand
  BY <1>2, <1>4 DEF DocumentCommand, RetireRoot, SetLanguage, rootsVars
<1>5. CASE ScanStep
  BY <1>1, <1>2, <1>5 DEF ScanStep, extractionVars
<1>6. CASE \E d \in Dirs : StartScan(d)
  BY <1>2, <1>6 DEF StartScan, extractionVars
<1>7. CASE \E d \in Docs : WorkerStep(d) \/ Monitor(d)
  BY <1>2, <1>7 DEF WorkerStep, Monitor, rootsVars
<1>8. CASE \E s \in Slots : UploadStep(s)
  BY <1>2, <1>8 DEF UploadStep, rootsVars
<1>9. CASE Fault
  BY <1>2, <1>9 DEF Fault, extractionVars, rootsVars
<1>10. CASE Start
  BY <1>2, <1>10 DEF Start, rootsVars
<1> QED BY <1>3, <1>4, <1>5, <1>6, <1>7, <1>8, <1>9, <1>10 DEF Next

\* No document leaves the index with a root whose plan did not show it, and no
\* extraction that a user cancelled returns with an unchanged file (retireRoot,
\* ingest).
THEOREM OnlyWhatWasAsked == Spec => OnlyAsAsked
<1>1. LibraryInv /\ [Next]_vars => RemovalIsPlanned /\ CancelledIsKept
  BY RemovalStep, CancelledStep
<1>2. Spec => [][RemovalIsPlanned]_<<rootsVars, extractionVars>>
  BY <1>1, Invariance, PTL DEF Spec
<1>3. Spec => [][CancelledIsKept]_<<rootsVars, extractionVars>>
  BY <1>1, Invariance, PTL DEF Spec
<1> QED BY <1>2, <1>3, PTL
        DEF OnlyAsAsked, OnlyPlannedAreRemoved, CancelledStays, RemovalIsPlanned,
            CancelledIsKept
=============================================================================
