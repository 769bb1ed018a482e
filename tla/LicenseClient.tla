---------------------------- MODULE LicenseClient ----------------------------
(***************************************************************************)
(* The licence client (internal/licensing) against the provider's contract *)
(* (internal/licensefixture): the clock that is never put back, the signed *)
(* licence and the floor under its revision, the journal of online         *)
(* requests whose answers may be lost, the exchange of files, and the      *)
(* recovery of the identity of the installation.  One commercial key, so   *)
(* at most one seat at a time.  Signatures, formats and the fingerprint of *)
(* the machine are abstracted: what verifies, verifies.                    *)
(***************************************************************************)
EXTENDS Naturals, FiniteSets

CONSTANTS
    Installations,  \* the identities this state directory may have, in order
    Activations,    \* the seats the provider may hand out, in order
    Requests,       \* the identifiers of online requests, in order of creation
    MaxTime,        \* the last instant told apart from the later ones
    Incidents,      \* what may happen besides online requests
    MaxIncidents    \* how often

Kinds == {"clock", "identity", "revise", "offline"}

ASSUME ConstantsAssumption ==
    /\ Installations \subseteq Nat \ {0}
    /\ Activations \subseteq Nat \ {0}
    /\ Requests \subseteq Nat \ {0}
    /\ MaxTime \in Nat /\ MaxIncidents \in Nat
    /\ Incidents \subseteq Kinds

VARIABLES
    now,        \* the time of the provider
    wall,       \* the clock of the machine, which somebody may set
    process,    \* the running service: its identity (0: identityError) and
                \* lastEffective advanced by what elapsed since
    row,        \* the row of license_state
    floor,      \* license_revision_floors; revision 0: no row
    op,         \* license_operations
    call,       \* the Online call in progress; operationMutex admits one
    wire,       \* the requests sent that have not reached the provider
    disk,       \* installation.json, recovery.json (0: no file) and the
                \* installation the journal replaces
    anchor,     \* the installation in license_installation (0: no row)
    seat,       \* the provider's activations
    challenge,  \* the provider's challenge for a request
    cached,     \* the provider's answer to a request
    slips,      \* offline requests on their way to the provider
    files,      \* .lic files the provider issued
    incidents

clockVars    == <<now, wall>>
callVars     == <<op, call, wire>>
identityVars == <<disk, anchor>>
providerVars == <<seat, challenge, cached, slips, files>>
vars == <<clockVars, process, row, floor, callVars, identityVars, providerVars,
          incidents>>

Times == 0 .. MaxTime
Later(t) == IF t < MaxTime THEN t + 1 ELSE MaxTime
Latest(s, t) == IF s > t THEN s ELSE t

Claims == [seat : Activations, installation : Installations, revision : Nat \ {0},
           issued : Times, expires : Times, revoked : BOOLEAN]
NoJws  == [seat |-> 0, installation |-> 0, revision |-> 0,
           issued |-> 0, expires |-> 0, revoked |-> FALSE]

Actions == {"activate", "refresh", "deactivate"}

\* What the provider answers: a licence, the evidence of a deactivation, or a
\* final code.  A temporary one is like no answer.
NoAnswer == [kind |-> "none", jws |-> NoJws, time |-> 0]
Answers  == [kind : {"none", "licence", "deactivated", "refused"},
             jws : Claims \cup {NoJws}, time : Times]

NoOp   == [status |-> "none", action |-> "none", seat |-> 0, installation |-> 0]
NoCall == [phase |-> "idle", request |-> 0, action |-> "none", seat |-> 0,
           answer |-> NoAnswer]

TypeOK ==
    /\ now \in Times /\ wall \in Times
    /\ process \in [running : BOOLEAN, effective : Times,
                    identity : Installations \cup {0}]
    /\ row \in [jws : Claims \cup {NoJws}, deactivated : BOOLEAN,
                pending : BOOLEAN, trusted : Times, observed : Times]
    /\ floor \in [Activations -> [jws : Claims \cup {NoJws}, deactivated : BOOLEAN]]
    /\ op \in [Requests -> [status : {"none", "prepared", "succeeded", "failed"},
                            action : Actions \cup {"none"},
                            seat : Activations \cup {0},
                            installation : Installations \cup {0}]]
    /\ call \in [phase : {"idle", "challenge", "prepare", "wait"},
                 request : Requests \cup {0}, action : Actions \cup {"none"},
                 seat : Activations \cup {0}, answer : Answers]
    /\ wire \subseteq Requests
    /\ disk \in [identity : Installations \cup {0}, journal : Installations \cup {0},
                 previous : Installations \cup {0}]
    /\ anchor \in Installations \cup {0}
    /\ seat \in [Activations -> [status : {"free", "live", "retired"},
                                 jws : Claims \cup {NoJws}]]
    /\ challenge \in [Requests -> {"none", "open", "gone"}]
    /\ cached \in [Requests -> Answers]
    /\ slips \subseteq [action : {"activate", "renew", "deactivate"},
                        seat : Activations \cup {0}, installation : Installations]
    /\ files \subseteq Claims
    /\ incidents \in Nat

Init ==
    /\ now = 0 /\ wall = 0
    /\ process = [running |-> FALSE, effective |-> 0, identity |-> 0]
    /\ row = [jws |-> NoJws, deactivated |-> FALSE, pending |-> FALSE,
              trusted |-> 0, observed |-> 0]
    /\ floor = [a \in Activations |-> [jws |-> NoJws, deactivated |-> FALSE]]
    /\ op = [r \in Requests |-> NoOp]
    /\ call = NoCall /\ wire = {}
    /\ disk = [identity |-> 0, journal |-> 0, previous |-> 0] /\ anchor = 0
    /\ seat = [a \in Activations |-> [status |-> "free", jws |-> NoJws]]
    /\ challenge = [r \in Requests |-> "none"]
    /\ cached = [r \in Requests |-> NoAnswer]
    /\ slips = {} /\ files = {}
    /\ incidents = 0

Incident(kind) ==
    /\ kind \in Incidents /\ incidents < MaxIncidents
    /\ incidents' = incidents + 1

\* The service runs with a usable identity.
Served == process.running /\ process.identity # 0

-----------------------------------------------------------------------------
(* The clock.                                                              *)

\* Mutant: the clock of the machine is believed once it is past the licence.
EffectiveWall == Latest(wall, row.trusted)

\* Mutant: what elapsed since the process last looked is not counted.
EffectiveRecorded == Latest(wall, Latest(row.trusted, row.observed))

\* effectiveTime
Effective == Latest(Latest(wall, process.effective), Latest(row.trusted, row.observed))

\* Time passes for everybody; a running process measures it without the clock.
Tick ==
    /\ now < MaxTime
    /\ now' = now + 1 /\ wall' = Later(wall)
    /\ process' = [process EXCEPT !.effective =
                       IF process.running THEN Later(@) ELSE @]
    /\ UNCHANGED <<row, floor, callVars, identityVars, providerVars,
                   incidents>>

\* Somebody sets the clock, or the machine sleeps.
SetClock ==
    /\ Incident("clock")
    /\ wall' \in Times \ {wall}
    /\ UNCHANGED <<now, process, row, floor, callVars, identityVars, providerVars>>

\* Every check of the licence samples the clock, without recording it.
Status ==
    /\ process.running
    /\ process' = [process EXCEPT !.effective = Effective]
    /\ UNCHANGED <<clockVars, row, floor, callVars, identityVars, providerVars,
                   incidents>>

ObserveClock ==
    /\ process.running
    /\ process' = [process EXCEPT !.effective = Effective]
    /\ row' = [row EXCEPT !.observed = Effective]
    /\ UNCHANGED <<clockVars, floor, callVars, identityVars, providerVars,
                   incidents>>

\* The subscription ends; it is tolerated for as long again.
GraceEnd(jws) == jws.expires + 1

\* Verify: whatever was signed is well formed, so the binding decides.
Verified(jws) == jws # NoJws /\ jws.installation = process.identity

\* What Status answers to checkStatus at an instant: the licence is this
\* installation's, is the one its floor remembers, is not past its grace and
\* was not revoked or retired.
WriteAllowed(time) ==
    /\ Served /\ Verified(row.jws)
    /\ floor[row.jws.seat].jws = row.jws
    /\ time < GraceEnd(row.jws)
    /\ ~row.jws.revoked /\ ~row.deactivated /\ ~floor[row.jws.seat].deactivated

-----------------------------------------------------------------------------
(* Accepting a signed licence.                                             *)

\* The licence in force binds the installation to its seat.
Bound == row.jws # NoJws /\ ~row.deactivated /\ ~row.jws.revoked

\* Mutant: an older revision is taken as well.
AcceptableAnyRevision(jws) ==
    /\ Bound => jws.seat = row.jws.seat
    /\ ~floor[jws.seat].deactivated

\* The refusals of acceptLicense.
Acceptable(jws) ==
    /\ Bound => jws.seat = row.jws.seat
    /\ ~floor[jws.seat].deactivated
    /\ \/ jws.revision > floor[jws.seat].jws.revision
       \/ jws = floor[jws.seat].jws

\* Mutant: what was accepted is not remembered as the floor.
NewFloorForgotten(jws) == floor

NewFloor(jws) == [floor EXCEPT ![jws.seat].jws = jws]

Trusted(jws, server) == Latest(Latest(jws.issued, server), row.trusted)

\* acceptLicense
Accept(jws, server) ==
    /\ row' = [row EXCEPT !.jws = jws, !.deactivated = FALSE,
                          !.trusted = Trusted(jws, server),
                          !.observed = Latest(Effective, Trusted(jws, server))]
    /\ floor' = NewFloor(jws)
    /\ process' = [process EXCEPT !.effective = Effective]

Import ==
    /\ Served
    /\ \E jws \in files :
          /\ Verified(jws) /\ Acceptable(jws)
          /\ Accept(jws, 0)
    /\ UNCHANGED <<clockVars, callVars, identityVars, providerVars,
                   incidents>>

OfflineRequest ==
    /\ Served
    /\ Incident("offline")
    /\ \E action \in {"activate", "renew", "deactivate"} :
          /\ action # "activate" => row.jws # NoJws
          /\ slips' = slips \cup {[action |-> action, installation |-> process.identity,
                                   seat |-> IF action = "activate" THEN 0
                                            ELSE row.jws.seat]}
          /\ row' = [row EXCEPT !.pending = @ \/ action = "deactivate"]
    /\ UNCHANGED <<clockVars, process, floor, callVars, identityVars, seat,
                   challenge, cached, files>>

-----------------------------------------------------------------------------
(* Online.  The journal keeps the exact request, so that a retry repeats   *)
(* the bytes of the first attempt; a request of another action or key is   *)
(* refused before anything changes.                                        *)

Prepared(r) == op[r].status = "prepared"

\* The requests that are not in the journal come next, in order.
Unborn(r) == op[r].status = "none" /\ \A q \in Requests : q < r => op[q].status # "none"

\* What must hold before a new request: an activation to refresh or retire, or
\* none in force.
Admitted(action) ==
    IF action = "activate" THEN ~Bound ELSE row.jws # NoJws /\ ~row.deactivated

\* A retry sends the journalled request, a new one asks for a challenge first.
Begin(r, action) ==
    /\ Served /\ call.phase = "idle"
    /\ \/ /\ Prepared(r) /\ op[r].action = action
          /\ call' = [NoCall EXCEPT !.phase = "wait", !.request = r,
                                    !.action = action, !.seat = op[r].seat]
          /\ wire' = wire \cup {r}
       \/ /\ Unborn(r) /\ Admitted(action)
          /\ call' = [NoCall EXCEPT !.phase = "challenge", !.request = r, !.action = action,
                         !.seat = IF action = "activate" THEN 0 ELSE row.jws.seat]
          /\ UNCHANGED wire
    /\ UNCHANGED <<clockVars, process, row, floor, op, identityVars, providerVars,
                   incidents>>

Online == \E r \in Requests, action \in Actions : Begin(r, action)

\* The refresh that the loop of Run takes up again: the first prepared one of
\* this activation and this installation.
Pending(r) == /\ Prepared(r) /\ op[r].action = "refresh"
              /\ op[r].seat = row.jws.seat /\ op[r].installation = process.identity

\* Mutant: the loop always makes a new request.
ResumedNever(r) == Unborn(r)

Resumed(r) == IF \E q \in Requests : Pending(q)
              THEN Pending(r) /\ \A q \in Requests : Pending(q) => r <= q
              ELSE Unborn(r)

\* Run, when a contact is due.
AutoRefresh ==
    /\ row.jws # NoJws /\ ~row.deactivated
    /\ \E r \in Requests : Resumed(r) /\ Begin(r, "refresh")

\* The provider gives a challenge, good for one use.
ProviderChallenges ==
    /\ call.phase = "challenge"
    /\ challenge' = [challenge EXCEPT ![call.request] = "open"]
    /\ call' = [call EXCEPT !.phase = "prepare"]
    /\ UNCHANGED <<clockVars, process, row, floor, op, wire, identityVars, seat,
                   cached, slips, files, incidents>>

\* The signed request is journalled, then sent.
Prepare ==
    /\ call.phase = "prepare"
    /\ op' = [op EXCEPT ![call.request] =
                 [status |-> "prepared", action |-> call.action,
                  seat |-> call.seat, installation |-> process.identity]]
    /\ wire' = wire \cup {call.request}
    /\ call' = [call EXCEPT !.phase = "wait"]
    /\ UNCHANGED <<clockVars, process, row, floor, identityVars, providerVars,
                   incidents>>

\* The call ends without an answer that decides: no contact, a timeout, a
\* temporary code, or who asked lost the right.  Only the error is recorded.
GiveUp ==
    /\ call.phase # "idle"
    /\ call' = NoCall
    /\ UNCHANGED <<clockVars, process, row, floor, op, wire, identityVars,
                   providerVars, incidents>>

\* Mutant: a request whose answer is not accepted is given up for good.
UnacceptedFailed == "failed"

\* A refusal of the client itself leaves the request in the journal.
Unaccepted == "prepared"

Ended(status) ==
    /\ op' = [op EXCEPT ![call.request].status = status]
    /\ call' = NoCall
    /\ UNCHANGED <<clockVars, wire, identityVars, providerVars, incidents>>

Answered(kind) == call.phase = "wait" /\ call.answer.kind = kind

AnswerLicence ==
    /\ Answered("licence")
    /\ LET jws == call.answer.jws
       IN IF Verified(jws) /\ Acceptable(jws)
          THEN Accept(jws, call.answer.time) /\ Ended("succeeded")
          ELSE Ended(Unaccepted) /\ UNCHANGED <<process, row, floor>>

RetiredFloor == [floor EXCEPT ![call.seat].deactivated = TRUE]

AnswerDeactivated ==
    /\ Answered("deactivated")
    /\ IF row.jws.seat = call.seat
       THEN /\ row' = [row EXCEPT !.deactivated = TRUE, !.pending = FALSE]
            /\ floor' = RetiredFloor
            /\ Ended("succeeded")
       ELSE Ended(Unaccepted) /\ UNCHANGED <<row, floor>>
    /\ UNCHANGED process

AnswerRefused ==
    /\ Answered("refused")
    /\ Ended("failed")
    /\ UNCHANGED <<process, row, floor>>

-----------------------------------------------------------------------------
(* The provider, as its contract is simulated.                             *)

Live  == {a \in Activations : seat[a].status = "live"}
Free  == {a \in Activations : seat[a].status = "free"}

Reply(r, answer) ==
    call' = IF call.phase = "wait" /\ call.request = r
            THEN [call EXCEPT !.answer = answer] ELSE call

Handles(r) ==
    /\ r \in wire
    /\ wire' = wire \ {r}
    /\ UNCHANGED <<clockVars, process, row, floor, op, identityVars, slips, files,
                   incidents>>

Keep(r, answer) ==
    /\ cached' = [cached EXCEPT ![r] = answer]
    /\ Reply(r, answer)

Licence(jws) == [kind |-> "licence", jws |-> jws, time |-> now]

\* The key of a subscription about to enter its grace.
NewSeat(a, installation) ==
    [status |-> "live",
     jws |-> [seat |-> a, installation |-> installation, revision |-> 1,
              issued |-> now, expires |-> now, revoked |-> FALSE]]

Renewed(jws) == [jws EXCEPT !.revision = @ + 1, !.issued = now]

\* The first free seat, when the key has no other in use.
Grantable(a) == Live = {} /\ a \in Free /\ \A b \in Free : a <= b

\* A request already answered gets the same answer.
AnswersAgain(r) == cached[r].kind # "none"

Replay(r) ==
    /\ Handles(r) /\ AnswersAgain(r)
    /\ Reply(r, cached[r])
    /\ UNCHANGED <<seat, challenge, cached>>

\* The challenge must be open; it is used up whatever comes of it.
Proven(r) == ~AnswersAgain(r) /\ challenge[r] = "open"

Known(r) == /\ op[r].seat \in Live
            /\ seat[op[r].seat].jws.installation = op[r].installation

Executable(r) == IF op[r].action = "activate" THEN \E a \in Activations : Grantable(a)
                 ELSE Known(r)

Refuse(r) ==
    /\ Handles(r) /\ ~AnswersAgain(r)
    /\ ~(Proven(r) /\ Executable(r))
    /\ challenge' = [challenge EXCEPT ![r] = "gone"]
    /\ Reply(r, [NoAnswer EXCEPT !.kind = "refused"])
    /\ UNCHANGED <<seat, cached>>

Execute(r) ==
    /\ Handles(r) /\ Proven(r) /\ Executable(r)
    /\ challenge' = [challenge EXCEPT ![r] = "gone"]
    /\ \/ /\ op[r].action = "activate"
          /\ \E a \in Activations :
                /\ Grantable(a)
                /\ seat' = [seat EXCEPT ![a] = NewSeat(a, op[r].installation)]
                /\ Keep(r, Licence(NewSeat(a, op[r].installation).jws))
       \/ /\ op[r].action = "refresh"
          /\ seat' = [seat EXCEPT ![op[r].seat].jws = Renewed(@)]
          /\ Keep(r, Licence(Renewed(seat[op[r].seat].jws)))
       \/ /\ op[r].action = "deactivate"
          /\ seat' = [seat EXCEPT ![op[r].seat].status = "retired"]
          /\ Keep(r, [NoAnswer EXCEPT !.kind = "deactivated"])

ProviderStep(r) == Replay(r) \/ Refuse(r) \/ Execute(r)

\* Three minutes pass, or the provider restarts: a challenge is gone.
ChallengeExpires ==
    /\ \E r \in Requests :
          /\ challenge[r] = "open" /\ call.phase \notin {"challenge", "prepare"}
          /\ challenge' = [challenge EXCEPT ![r] = "gone"]
    /\ UNCHANGED <<clockVars, process, row, floor, callVars, identityVars, seat,
                   cached, slips, files, incidents>>

\* The provider processes a .licreq; doing it again gives the same file.
ProviderIssues ==
    /\ \E s \in slips :
          /\ slips' = slips \ {s}
          /\ \/ /\ s.action = "activate"
                /\ \E a \in Activations :
                      /\ Grantable(a)
                      /\ seat' = [seat EXCEPT ![a] = NewSeat(a, s.installation)]
                      /\ files' = files \cup {NewSeat(a, s.installation).jws}
             \/ /\ s.action # "activate"
                /\ s.seat \in Live /\ seat[s.seat].jws.installation = s.installation
                /\ IF s.action = "renew"
                   THEN /\ seat' = [seat EXCEPT ![s.seat].jws = Renewed(@)]
                        /\ files' = files \cup {Renewed(seat[s.seat].jws)}
                   ELSE /\ seat' = [seat EXCEPT ![s.seat].status = "retired"]
                        /\ UNCHANGED files
    /\ UNCHANGED <<clockVars, process, row, floor, callVars, identityVars, challenge,
                   cached, incidents>>

\* The provider revokes the licence or extends it; the next refresh tells.
Revise ==
    /\ Incident("revise")
    /\ \E a \in Live :
          \/ seat' = [seat EXCEPT ![a].jws.revoked = TRUE]
          \/ seat' = [seat EXCEPT ![a].jws.expires = Later(@)]
    /\ UNCHANGED <<clockVars, process, row, floor, callVars, identityVars, challenge,
                   cached, slips, files>>

-----------------------------------------------------------------------------
(* The process and the identity of the installation.                       *)

\* Newer than every identity this directory had.
Fresh == 1 + Latest(Latest(disk.identity, disk.journal), anchor)

\* The first start writes the identity before it anchors it in the database.
CreateIdentity ==
    /\ ~process.running
    /\ disk.identity = 0 /\ disk.journal = 0 /\ anchor = 0
    /\ Fresh \in Installations
    /\ disk' = [disk EXCEPT !.identity = Fresh]
    /\ UNCHANGED <<clockVars, process, row, floor, callVars, anchor, providerVars,
                   incidents>>

\* loadInstallation: no recovery is pending and the file is the anchored one.
Usable ==
    /\ disk.journal = 0
    /\ disk.identity # 0 /\ anchor \in {0, disk.identity}

\* New, without a usable identity, goes on with identityError.
Started ==
    /\ process' = [running |-> TRUE, effective |-> 0,
                   identity |-> IF Usable THEN disk.identity ELSE 0]
    /\ anchor' = IF Usable THEN disk.identity ELSE anchor
    /\ UNCHANGED <<clockVars, row, floor, op, wire, disk, providerVars,
                   incidents>>

Start ==
    /\ ~process.running
    /\ disk.identity = 0 => anchor # 0 \/ disk.journal # 0
    /\ Started
    /\ UNCHANGED call

\* The process ends, orderly or not, and starts again; what it sent is still on
\* its way.
Restart ==
    /\ process.running
    /\ Started
    /\ call' = NoCall

\* The service is stopped for an administrator who will recover the identity.
Stop ==
    /\ process.running
    /\ Incident("identity")
    /\ process' = [running |-> FALSE, effective |-> 0, identity |-> 0]
    /\ call' = NoCall
    /\ UNCHANGED <<clockVars, row, floor, op, wire, identityVars, providerVars>>

\* The identity file is lost.
LoseIdentity ==
    /\ ~process.running /\ disk.identity # 0 /\ incidents > 0
    /\ disk' = [disk EXCEPT !.identity = 0]
    /\ UNCHANGED <<clockVars, process, row, floor, callVars, anchor, providerVars,
                   incidents>>

\* RecoverIdentity, with the service stopped.  Each step may be the last one
\* before an interruption; run again, the command goes on from the files.
RecoveryStep ==
    /\ ~process.running
    /\ UNCHANGED <<clockVars, process, call, wire, providerVars, incidents>>

OpenJournal ==
    /\ RecoveryStep
    /\ disk.journal = 0 /\ Fresh \in Installations
    /\ disk' = [disk EXCEPT !.journal = Fresh, !.previous = anchor]
    /\ UNCHANGED <<row, floor, op, anchor>>

ArchiveIdentity ==
    /\ RecoveryStep
    /\ disk.journal # 0 /\ disk.identity \notin {0, disk.journal}
    /\ disk' = [disk EXCEPT !.identity = 0]
    /\ UNCHANGED <<row, floor, op, anchor>>

WriteIdentity ==
    /\ RecoveryStep
    /\ disk.journal # 0 /\ disk.identity = 0
    /\ disk' = [disk EXCEPT !.identity = disk.journal]
    /\ UNCHANGED <<row, floor, op, anchor>>

\* Mutant: a status the column does not admit.
AbandonedOther == [r \in Requests |->
                      IF Prepared(r) THEN [op[r] EXCEPT !.status = "abandoned"] ELSE op[r]]

\* Nothing prepared under the former identity can be proved any more.
Abandoned == [r \in Requests |->
                 IF Prepared(r) THEN [op[r] EXCEPT !.status = "failed"] ELSE op[r]]

\* One transaction retires every activation, clears the licence, abandons the
\* requests and anchors the new identity.
CommitIdentity ==
    /\ RecoveryStep
    /\ disk.journal # 0 /\ disk.identity = disk.journal
    /\ anchor # disk.journal /\ anchor = disk.previous
    /\ floor' = [a \in Activations |->
                     [floor[a] EXCEPT !.deactivated = floor[a].jws # NoJws]]
    /\ row' = [row EXCEPT !.jws = NoJws, !.deactivated = FALSE, !.pending = FALSE]
    /\ op' = Abandoned
    /\ anchor' = disk.journal
    /\ UNCHANGED disk

CloseJournal ==
    /\ RecoveryStep
    /\ disk.journal # 0 /\ disk.identity = disk.journal /\ anchor = disk.journal
    /\ disk' = [disk EXCEPT !.journal = 0, !.previous = 0]
    /\ UNCHANGED <<row, floor, op, anchor>>

RecoverIdentity == \/ OpenJournal \/ ArchiveIdentity \/ WriteIdentity
                   \/ CommitIdentity \/ CloseJournal

-----------------------------------------------------------------------------
AnswerStep == AnswerLicence \/ AnswerDeactivated \/ AnswerRefused

Next ==
    \/ Tick \/ SetClock \/ Status \/ ObserveClock
    \/ Import \/ OfflineRequest
    \/ Online \/ AutoRefresh \/ ProviderChallenges \/ Prepare \/ GiveUp \/ AnswerStep
    \/ (\E r \in Requests : ProviderStep(r)) \/ ChallengeExpires
    \/ ProviderIssues \/ Revise
    \/ CreateIdentity \/ Start \/ Restart \/ Stop \/ LoseIdentity \/ RecoverIdentity

Spec == Init /\ [][Next]_vars

\* The loop of Run comes round every minute and operationMutex hands itself to
\* who has waited, so a due contact gets its turn however often somebody else
\* asks; the provider answers what reaches it.
FairSpec ==
    /\ Spec
    /\ SF_vars(AutoRefresh) /\ WF_vars(ProviderChallenges) /\ WF_vars(Prepare)
    /\ WF_vars(AnswerStep)
    /\ \A r \in Requests : WF_vars(ProviderStep(r))

-----------------------------------------------------------------------------
\* The recorded high-water marks never go back, whatever the clock does and
\* whichever instants the provider vouches for; nor does, while the process
\* lives, the time by which it judged a licence (effectiveTime, acceptLicense).
ClockNeverGoesBack ==
    [][/\ row'.observed >= row.observed /\ row'.trusted >= row.trusted
       /\ process.running /\ process'.running /\ ~Restart =>
             process'.effective >= process.effective]_vars

\* The right to write does not come back by itself: once the licence in force
\* was judged expired or was withdrawn, only another accepted licence restores
\* it; a restart does not either, if the clock had been recorded (Status,
\* ObserveClock).
Lapsed == \/ row.observed >= GraceEnd(row.jws)
          \/ Served /\ ~WriteAllowed(process.effective)

RightsDoNotReturn ==
    [][/\ row.jws # NoJws /\ row'.jws = row.jws /\ Lapsed
       /\ Restart => row.observed >= GraceEnd(row.jws)
       => ~WriteAllowed(Effective)']_vars

\* What the floor of an activation remembers only grows: no older revision, no
\* other licence of the same revision, and a retired activation stays retired
\* (acceptLicense, RecoverIdentity).
FloorsHold ==
    [][\A a \in Activations :
          /\ floor'[a].jws.revision >= floor[a].jws.revision
          /\ floor'[a].jws.revision = floor[a].jws.revision
                => floor'[a].jws = floor[a].jws
          /\ floor[a].deactivated => floor'[a].deactivated]_vars

\* The licence in force is the one its floor remembers, with the same word on
\* whether it was retired, and belongs to the anchored installation, as do the
\* requests that can still be retried.
CurrentIsAccepted ==
    /\ row.jws # NoJws =>
          /\ floor[row.jws.seat].jws = row.jws
          /\ floor[row.jws.seat].deactivated <=> row.deactivated
          /\ row.jws.installation = anchor
    /\ \A r \in Requests : Prepared(r) => op[r].installation = anchor

\* A lost answer never strands a seat: the seat the provider holds for this
\* installation is in force here, or a request in the journal or an issued file
\* still brings its licence ("do not prepare another only because the answer
\* was lost", docs/H6.md).  A seat the provider revoked is promised nothing: its
\* revoked licence binds no more, and that of an earlier activation, if it is
\* kept in a file, may be imported over it (acceptLicense).
SeatIsReachable ==
    \A a \in Live :
        seat[a].jws.installation = anchor /\ ~seat[a].jws.revoked =>
            \/ row.jws.seat = a /\ ~row.deactivated
            \/ \E r \in Requests : Prepared(r) /\ cached[r].jws.seat = a
            \/ \E jws \in files : jws.seat = a

\* A refresh whose answer is older than what was accepted meanwhile.
Overtaken(r) ==
    Pending(r) /\ cached[r].kind = "licence" /\ cached[r].jws.revision < row.jws.revision

\* Once answers arrive and the service stays up, a refresh that once lost its
\* answer is settled by the loop, with the identifier it had, unless
\* another licence overtook it: that one is refused by acceptLicense, stays in
\* the journal, and is what the loop asks for ever after (Run).
RefreshSettles ==
    (<>[]Served /\ <>[][~Restart /\ ~GiveUp]_vars) =>
        []<>((\E r \in Requests : Pending(r)) =>
                row.deactivated \/ \E r \in Requests : Overtaken(r))
=============================================================================
