---------------------------- MODULE UploadJournal ----------------------------
(***************************************************************************)
(* Receiving a PDF into the private directory (uploads.go): a journal row, *)
(* a partial file, its definitive name, and the transaction that makes it  *)
(* a document; what the deferred cleanup undoes when one of them fails,    *)
(* and what recoverUploads undoes at the start of a process that followed  *)
(* another one.                                                            *)
(*                                                                         *)
(* One batch of one user.  A key names a row for good: a failed one is not *)
(* taken again and one that is stored only answers again.  Sizes, names    *)
(* and the inspection of the PDF are abstracted into the choice between    *)
(* going on and giving up.                                                 *)
(***************************************************************************)
EXTENDS Naturals

CONSTANTS
    Keys,       \* client_file_id of the requests
    Slots,      \* uploadSlots
    Contents    \* what clients send

ASSUME JournalAssumption == Keys # {} /\ Contents \subseteq Nat \ {0}

VARIABLES
    serving,    \* Start has recovered what there was and takes requests
    item,       \* upload_items
    private,    \* the files of each row in the private directory, by content
    uploader,   \* the Upload call that holds each slot
    told,       \* the successes answered: the key and the content sent
    undone      \* rows whose cleanup failed: "files" could not be removed, or
                \* the "row" could not be written in five seconds

journalVars == <<serving, item, private, uploader, told, undone>>

NoItem  == [status |-> "none", content |-> 0]
NoFile  == [part |-> 0, file |-> 0]
NoUpload(k) == [pc |-> "idle", key |-> k, content |-> 0]
Idle == NoUpload(CHOOSE k \in Keys : TRUE)

JournalTypeOK ==
    /\ serving \in BOOLEAN
    /\ item \in [Keys -> [status : {"none", "receiving", "staged", "failed"},
                          content : Contents \cup {0}]]
    /\ private \in [Keys -> [part : Contents \cup {0}, file : Contents \cup {0}]]
    /\ uploader \in [Slots -> [pc : {"idle", "open", "written", "renamed", "cleanup",
                                     "removed", "replay"},
                               key : Keys, content : Contents \cup {0}]]
    /\ told \subseteq [key : Keys, content : Contents]
    /\ undone \subseteq [key : Keys, what : {"files", "row"}]

JournalInit ==
    /\ serving = TRUE
    /\ item = [k \in Keys |-> NoItem]
    /\ private = [k \in Keys |-> NoFile]
    /\ uploader = [s \in Slots |-> Idle]
    /\ told = {} /\ undone = {}

At(s, pc) == uploader[s].pc = pc
Go(s, pc) == uploader' = [uploader EXCEPT ![s].pc = pc]
Key(s) == uploader[s].key

-----------------------------------------------------------------------------
(* One call. *)

\* The transaction of the journal.  UPLOAD_IN_PROGRESS and UPLOAD_RETRY_KEY
\* change nothing.
BeginUpload(s, k, c) ==
    /\ serving /\ At(s, "idle")
    /\ \/ /\ item[k].status = "none"
          /\ item' = [item EXCEPT ![k].status = "receiving"]
          /\ uploader' = [uploader EXCEPT ![s] = [pc |-> "open", key |-> k, content |-> c]]
       \/ /\ item[k].status = "staged"
          /\ uploader' = [uploader EXCEPT ![s] = [pc |-> "replay", key |-> k, content |-> c]]
          /\ UNCHANGED item
    /\ UNCHANGED <<serving, private, told, undone>>

SameContent(k, c) == item[k].content = c

Told(s) == told \cup {[key |-> Key(s), content |-> uploader[s].content]}

Replay(s) ==
    /\ At(s, "replay")
    /\ told' = IF SameContent(Key(s), uploader[s].content) THEN Told(s) ELSE told
    /\ uploader' = [uploader EXCEPT ![s] = Idle]
    /\ UNCHANGED <<serving, item, private, undone>>

\* The partial is created, filled and synced; or only created, when the
\* client leaves or the disk fails.
Receive(s) ==
    /\ At(s, "open")
    /\ private' = [private EXCEPT ![Key(s)].part = uploader[s].content]
    /\ \E pc \in {"written", "cleanup"} : Go(s, pc)
    /\ UNCHANGED <<serving, item, told, undone>>

Rename(s) ==
    /\ At(s, "written")
    /\ private' = [private EXCEPT ![Key(s)] = [part |-> 0, file |-> @.part]]
    /\ Go(s, "renamed")
    /\ UNCHANGED <<serving, item, told, undone>>

\* The transaction that publishes: the row must still be being received.
Stage(s) ==
    /\ At(s, "renamed")
    /\ item[Key(s)].status = "receiving"
    /\ item' = [item EXCEPT ![Key(s)] =
           [status |-> "staged", content |-> uploader[s].content]]
    /\ told' = Told(s)
    /\ uploader' = [uploader EXCEPT ![s] = Idle]
    /\ UNCHANGED <<serving, private, undone>>

\* Whatever fails: the copy, the checks, the permission, the transaction.
GiveUp(s) ==
    /\ uploader[s].pc \in {"open", "written", "renamed"}
    /\ Go(s, "cleanup")
    /\ UNCHANGED <<serving, item, private, told, undone>>

\* The deferred cleanup takes the files away first; it does not look at
\* whether it could.
Cleanup(s) ==
    /\ At(s, "cleanup")
    /\ private' = [private EXCEPT ![Key(s)] = NoFile]
    /\ Go(s, "removed")
    /\ UNCHANGED <<serving, item, told, undone>>

FilesStay(s) ==
    /\ At(s, "cleanup")
    /\ undone' = undone \cup {[key |-> Key(s), what |-> "files"]}
    /\ Go(s, "removed")
    /\ UNCHANGED <<serving, item, private, told>>

\* Mutant: a row is failed only by the next start.
FailedRowLater(k) == item

\* failUpload
FailedRow(k) == [item EXCEPT ![k].status = IF @ = "receiving" THEN "failed" ELSE @]

FailUpload(s) ==
    /\ At(s, "removed")
    /\ item' = FailedRow(Key(s))
    /\ uploader' = [uploader EXCEPT ![s] = Idle]
    /\ UNCHANGED <<serving, private, told, undone>>

RowStays(s) ==
    /\ At(s, "removed")
    /\ undone' = undone \cup {[key |-> Key(s), what |-> "row"]}
    /\ uploader' = [uploader EXCEPT ![s] = Idle]
    /\ UNCHANGED <<serving, item, private, told>>

-----------------------------------------------------------------------------
(* The end of a process and the start of the next. *)

Crash ==
    /\ serving' = FALSE
    /\ uploader' = [s \in Slots |-> Idle]
    /\ UNCHANGED <<item, private, told, undone>>

\* recoverUploads goes through the rows being received: the files, then the
\* row.  If it cannot, the process ends and the next one begins again.
RecoverFiles(k) ==
    /\ ~serving /\ item[k].status = "receiving"
    /\ private[k] # NoFile
    /\ private' = [private EXCEPT ![k] = NoFile]
    /\ UNCHANGED <<serving, item, uploader, told, undone>>

\* Mutant: the row is failed whether or not its files are gone.
FilesMayStay(k) == TRUE

FilesAreGone(k) == private[k] = NoFile

RecoverRow(k) ==
    /\ ~serving /\ item[k].status = "receiving"
    /\ FilesAreGone(k)
    /\ item' = FailedRow(k)
    /\ UNCHANGED <<serving, private, uploader, told, undone>>

Undone(k) == item[k].status # "receiving"

Serve ==
    /\ ~serving /\ \A k \in Keys : Undone(k)
    /\ serving' = TRUE
    /\ UNCHANGED <<item, private, uploader, told, undone>>

CallStep(s) ==
    \/ Replay(s) \/ Receive(s) \/ Rename(s) \/ Cleanup(s) \/ FailUpload(s)

RecoveryStep(k) == RecoverFiles(k) \/ RecoverRow(k)

-----------------------------------------------------------------------------
Uploading(k) == \E s \in Slots : ~At(s, "idle") /\ ~At(s, "replay") /\ Key(s) = k

\* A client that was told of a success has it: its content is stored under its
\* key, however many times and from how many calls it was sent.  A file in the
\* private directory belongs to a stored row, or to one that a call or the
\* next start will undo; a row being received has that call, or the start to
\* come ("a crash is completed by recoverUploads at startup").  The exceptions
\* are the two failures that the cleanup does not look at.
UploadsHold ==
    /\ \A t \in told : item[t.key] = [status |-> "staged", content |-> t.content]
    /\ \A k \in Keys :
          /\ item[k].status = "staged" =>
                private[k] = [part |-> 0, file |-> item[k].content]
          /\ item[k].status \in {"none", "failed"} =>
                private[k] = NoFile \/ [key |-> k, what |-> "files"] \in undone
          /\ item[k].status = "receiving" =>
                Uploading(k) \/ ~serving \/ [key |-> k, what |-> "row"] \in undone

\* While the process lives a call ends, and with it its row is stored or
\* failed, unless that could not be written; and a start comes to serve.
UploadsSettle ==
    \A k \in Keys :
        []<>(item[k].status # "receiving" \/ [key |-> k, what |-> "row"] \in undone)
=============================================================================
