-------------------------- MODULE ManagedPublication --------------------------
(***************************************************************************)
(* What the storage of a managed document promises: a decision is taken    *)
(* over a copy that was verified and not discarded since, the definitive   *)
(* file appears whole and at once, the document is approved and the        *)
(* private copy released only on a definitive file just seen whole, and    *)
(* the private copy goes away only then, or before any decision.           *)
(*                                                                         *)
(* A discard may be taken back after the copy is gone (Mislay): whoever    *)
(* had verified the copy does not learn of it and may decide, but nothing  *)
(* is ever published or approved from such a decision.  Outsiders and      *)
(* power cuts may damage the definitive file at any time, or take it away. *)
(***************************************************************************)
VARIABLES
    decision,   \* "open", "taken" (the document is being stored), "approved"
    copy,       \* the private copy exists
    verified,   \* the copy was verified, for a decision on the present revision
    final,      \* the definitive name: "absent", "whole" or "damaged"
    seen        \* the definitive file was found whole and is about to count

vars == <<decision, copy, verified, final, seen>>

Init ==
    /\ decision = "open" /\ copy = TRUE /\ verified = FALSE
    /\ final = "absent" /\ seen = FALSE

Verify ==
    /\ decision = "open" /\ copy
    /\ verified' = TRUE
    /\ UNCHANGED <<decision, copy, final, seen>>

\* The retention of a rejected or cancelled upload ends.
Discard ==
    /\ decision = "open" /\ copy' = FALSE
    /\ verified' = FALSE
    /\ UNCHANGED <<decision, final, seen>>

\* The discard fails after the copy went, and its record is undone.
Mislay ==
    /\ decision = "open" /\ copy' = FALSE
    /\ UNCHANGED <<decision, verified, final, seen>>

Decide ==
    /\ decision = "open" /\ verified
    /\ decision' = "taken" /\ verified' = FALSE
    /\ UNCHANGED <<copy, final, seen>>

Publish ==
    /\ decision = "taken" /\ copy /\ final = "absent"
    /\ final' = "whole"
    /\ UNCHANGED <<decision, copy, verified, seen>>

See ==
    /\ decision \in {"taken", "approved"} /\ final = "whole"
    /\ seen' = TRUE
    /\ UNCHANGED <<decision, copy, verified, final>>

Approve ==
    /\ decision = "taken" /\ seen
    /\ decision' = "approved" /\ seen' = FALSE
    /\ UNCHANGED <<copy, verified, final>>

Release ==
    /\ decision = "approved" /\ seen
    /\ copy' = FALSE /\ seen' = FALSE
    /\ UNCHANGED <<decision, verified, final>>

\* The attempt ends, by itself or because the machine stops, and with it what
\* it saw; the document changes, or whoever verified it goes away; the file may
\* come to harm.
Disturb ==
    /\ seen' \in {seen, FALSE}
    /\ verified' \in {verified, FALSE}
    /\ final' \in {final, "absent", "damaged"}
    /\ UNCHANGED <<decision, copy>>

Next == Verify \/ Discard \/ Mislay \/ Decide \/ Publish \/ See \/ Approve
        \/ Release \/ Disturb

Spec == Init /\ [][Next]_vars
=============================================================================
