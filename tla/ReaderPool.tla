----------------------------- MODULE ReaderPool -----------------------------
(***************************************************************************)
(* The connections of the database (storage.Open): one for writing and a   *)
(* pool of them for reading, taken by the requests in the order in which   *)
(* each function opens and closes its queries and transactions.  What they *)
(* read is left out.                                                       *)
(*                                                                         *)
(* A query that returns rows holds its connection until the rows are       *)
(* closed; one that returns a single row gives it back at once.            *)
(***************************************************************************)
EXTENDS Naturals, Sequences, SequencesExt

CONSTANTS
    Requests,   \* requests that are served at once
    Readers,    \* SetMaxOpenConns of Reader (4), at least 1
    Roots       \* roots with a scan in the library that is asked for, or none

VARIABLES
    serving     \* the function each request runs and how far it has come

Query == <<"take", "give">>

\* Status reads the licence in a transaction of its own; Check asks for it.
LicenseCheck == Query

\* Read: the session, the licence and the permission.
Read == Query \o LicenseCheck \o Query

\* write: the write transaction looks at the licence twice, for writing at all
\* and for the features the request needs.
Write == <<"lock">> \o LicenseCheck \o LicenseCheck \o <<"unlock">>

\* The licence first, then one transaction for all that is read, then the audit
\* of the search.
Search == LicenseCheck \o <<"take", "give">> \o <<"lock", "unlock">>

\* The permission to see paths is asked for on each row of the open query.  The
\* queries before and after it come one at a time.
Processing ==
    LET eachRow == FlattenSeq([n \in 1 .. Roots |-> Query]) IN
    Read \o Query \o <<"take">> \o eachRow \o <<"give">> \o Query

Functions == [write |-> Write, search |-> Search, processing |-> Processing]

-----------------------------------------------------------------------------
Idle == [function |-> "none", done |-> << >>]
Busy(r) == serving[r] # Idle

Todo(r) == LET all == Functions[serving[r].function] IN
           SubSeq(all, Len(serving[r].done) + 1, Len(all))
Wants(r, step) == Busy(r) /\ Todo(r) # << >> /\ Head(Todo(r)) = step

Steps(r, step) == Len(SelectSeq(serving[r].done, LAMBDA s : s = step))
Holds(r) == Steps(r, "take") - Steps(r, "give")
Locks(r) == Steps(r, "lock") > Steps(r, "unlock")

Held == FoldFunctionOnSet(+, 0, [r \in Requests |-> Holds(r)], Requests)

Init == serving = [r \in Requests |-> Idle]

Arrive(r) ==
    /\ ~Busy(r)
    /\ \E f \in DOMAIN Functions :
          serving' = [serving EXCEPT ![r] = [function |-> f, done |-> << >>]]

Step(r) ==
    /\ \E step \in {"take", "give", "lock", "unlock"} :
          /\ Wants(r, step)
          /\ step = "take" => Held < Readers
          /\ step = "lock" => \A other \in Requests : ~Locks(other)
          /\ serving' = [serving EXCEPT ![r].done = Append(@, step)]

\* It ends, or its client leaves, or (Search) its ten seconds do: the deferred
\* calls give back what it held.
Leave(r) == Busy(r) /\ serving' = [serving EXCEPT ![r] = Idle]

Next == \E r \in Requests : Arrive(r) \/ Step(r) \/ Leave(r)

Spec == Init /\ [][Next]_serving

-----------------------------------------------------------------------------
\* "Do not nest it after acquiring a reader: concurrent searches could otherwise
\* exhaust the four-reader pool" (search.go): the readers are never all held by
\* requests that wait, each, for one more, after which neither they nor any
\* write goes on until clients leave.
PoolServes ==
    Held = Readers => \E r \in Requests : Holds(r) > 0 /\ ~Wants(r, "take")
=============================================================================
