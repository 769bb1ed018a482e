---------------------------- MODULE JobRequests -----------------------------
(***************************************************************************)
(* What the queue promises about one request, whatever rows it takes: it   *)
(* is open or running until it is done, a start consumes one of a fixed    *)
(* number of attempts, an interruption by the licence gives its attempt    *)
(* back, and a request that is done is never taken up again.               *)
(***************************************************************************)
EXTENDS Naturals

CONSTANTS Requests, Budget

VARIABLES phase, spent

requestVars == <<phase, spent>>

Init == /\ phase = [r \in Requests |-> "none"]
        /\ spent = [r \in Requests |-> 0]

Open(r) ==
    /\ phase[r] = "none"
    /\ phase' = [phase EXCEPT ![r] = "open"]
    /\ UNCHANGED spent

Start(r) ==
    /\ phase[r] = "open" /\ spent[r] < Budget
    /\ phase' = [phase EXCEPT ![r] = "running"]
    /\ spent' = [spent EXCEPT ![r] = @ + 1]

\* An attempt fails and another one is left.
Retry(r) ==
    /\ phase[r] = "running" /\ spent[r] < Budget
    /\ phase' = [phase EXCEPT ![r] = "open"]
    /\ UNCHANGED spent

\* The licence interrupts the attempt.
Interrupt(r) ==
    /\ phase[r] = "running"
    /\ phase' = [phase EXCEPT ![r] = "open"]
    /\ spent' = [spent EXCEPT ![r] = @ - 1]

Running == {r \in Requests : phase[r] = "running"}
Unended == {r \in Requests : phase[r] \in {"open", "running"}}

\* One user action can withdraw several requests; a restart returns or ends
\* several running ones.
End(ended) ==
    /\ phase' = [r \in Requests |-> IF r \in ended THEN "done" ELSE phase[r]]
    /\ UNCHANGED spent

Recover(ended, returned) ==
    /\ phase' = [r \in Requests |-> IF r \in ended THEN "done"
                                    ELSE IF r \in returned THEN "open" ELSE phase[r]]
    /\ UNCHANGED spent

Next ==
    \/ \E r \in Requests : Open(r) \/ Start(r) \/ Retry(r) \/ Interrupt(r)
    \/ \E ended \in SUBSET Unended : End(ended)
    \/ \E ended \in SUBSET Running, returned \in SUBSET {r \in Running : spent[r] < Budget} :
          Recover(ended, returned)

Spec == Init /\ [][Next]_requestVars
=============================================================================
