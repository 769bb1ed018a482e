------------------------ MODULE LicenseClient_proofs ------------------------
(***************************************************************************)
(* Proofs about LicenseClient for any number of installations, seats,      *)
(* requests, instants and incidents.                                       *)
(*                                                                         *)
(* The inductive invariant adds to the types that an online call belongs   *)
(* to the running, usable identity, that this identity is the anchored     *)
(* one, that what was sent is in the journal, and that a live seat has a   *)
(* licence.  With it each accepted licence is this installation's, which   *)
(* is why the licence in force, its floor and the anchor stay together.    *)
(*                                                                         *)
(* The last part is about the seats (SeatsInv): a request is only finished *)
(* with the answer the provider keeps, or cannot be executed any more, and *)
(* an identity is never used twice, so no live seat is left without a way  *)
(* to its licence.                                                         *)
(***************************************************************************)
EXTENDS LicenseClient, TLAPS

\* Online holds operationMutex only in a process with its identity.
CallServed == call.phase # "idle" => Served

\* The identity a process uses is the one the database is anchored to.
IdentityAnchored == Served => process.identity = anchor

\* A request in the journal has its action and its installation.
JournalKnown ==
    \A r \in Requests : op[r].status # "none" =>
        op[r].action \in Actions /\ op[r].installation \in Installations

\* What was sent was journalled before.
SentAreKnown == \A r \in wire : op[r].status # "none"

\* The call that waits has its request prepared in the journal.
WaitingIsKnown ==
    /\ call.phase \in {"prepare", "challenge"} =>
          call.request \in Requests /\ call.action \in Actions
    /\ call.phase = "wait" =>
          call.request \in Requests /\ Prepared(call.request)

\* A seat in use has a licence.
LiveSeats == \A a \in Activations : seat[a].status = "live" => seat[a].jws \in Claims

\* The types of the variables with parts.
ProcessTypes == [running : BOOLEAN, effective : Times, identity : Installations \cup {0}]
RowTypes == [jws : Claims \cup {NoJws}, deactivated : BOOLEAN,
             pending : BOOLEAN, trusted : Times, observed : Times]
FloorTypes == [Activations -> [jws : Claims \cup {NoJws}, deactivated : BOOLEAN]]
OpTypes == [Requests -> [status : {"none", "prepared", "succeeded", "failed"},
                         action : Actions \cup {"none"},
                         seat : Activations \cup {0},
                         installation : Installations \cup {0}]]
CallTypes == [phase : {"idle", "challenge", "prepare", "wait"},
              request : Requests \cup {0}, action : Actions \cup {"none"},
              seat : Activations \cup {0}, answer : Answers]
SeatTypes == [Activations -> [status : {"free", "live", "retired"},
                              jws : Claims \cup {NoJws}]]

Inv == /\ TypeOK
       /\ CallServed
       /\ IdentityAnchored
       /\ JournalKnown
       /\ SentAreKnown
       /\ WaitingIsKnown
       /\ LiveSeats
       /\ CurrentIsAccepted

-----------------------------------------------------------------------------
LEMMA PartTypes ==
    ASSUME Inv
    PROVE  /\ TypeOK
           /\ process \in ProcessTypes /\ row \in RowTypes /\ floor \in FloorTypes
           /\ op \in OpTypes /\ call \in CallTypes /\ seat \in SeatTypes
BY DEF Inv, TypeOK, ProcessTypes, RowTypes, FloorTypes, OpTypes, CallTypes, SeatTypes

\* The operators on instants.

LEMMA InstantTypes ==
    ASSUME NEW s \in Times, NEW t \in Times
    PROVE  /\ Latest(s, t) \in Times
           /\ Latest(s, t) >= s /\ Latest(s, t) >= t
           /\ Later(t) \in Times /\ Later(t) >= t
BY ConstantsAssumption DEF Latest, Later, Times

LEMMA NoJwsIsNoClaim == NoJws \notin Claims
BY ConstantsAssumption DEF NoJws, Claims

LEMMA EffectiveType ==
    ASSUME TypeOK
    PROVE  /\ Effective \in Times
           /\ Effective >= process.effective
           /\ Effective >= row.trusted /\ Effective >= row.observed
<1>1. /\ wall \in Times /\ process.effective \in Times
      /\ row.trusted \in Times /\ row.observed \in Times
  BY DEF TypeOK
<1>2. /\ Latest(wall, process.effective) \in Times
      /\ Latest(wall, process.effective) >= process.effective
      /\ Latest(row.trusted, row.observed) \in Times
      /\ Latest(row.trusted, row.observed) >= row.trusted
      /\ Latest(row.trusted, row.observed) >= row.observed
  BY <1>1, InstantTypes
<1>3. /\ Effective \in Times
      /\ Effective >= Latest(wall, process.effective)
      /\ Effective >= Latest(row.trusted, row.observed)
  BY <1>2, InstantTypes DEF Effective
<1> QED BY <1>1, <1>2, <1>3, ConstantsAssumption DEF Times

\* What acceptLicense changes keeps the types and puts no mark back.
LEMMA AcceptTypes ==
    ASSUME Inv, NEW jws \in Claims, NEW server \in Times, Accept(jws, server)
    PROVE  /\ row' \in RowTypes /\ row'.jws = jws /\ row'.deactivated = FALSE
           /\ row'.trusted >= row.trusted /\ row'.observed >= row.observed
           /\ floor' = [floor EXCEPT ![jws.seat].jws = jws]
           /\ process' \in ProcessTypes /\ process'.effective >= process.effective
           /\ process'.running = process.running
           /\ process'.identity = process.identity
<1>1. jws.issued \in Times /\ jws.seat \in Activations
  BY DEF Claims
<1>2. row.trusted \in Times /\ row.observed \in Times
  BY PartTypes DEF RowTypes
<1>3. Latest(jws.issued, server) \in Times
  BY <1>1, InstantTypes
<1>4. Trusted(jws, server) \in Times /\ Trusted(jws, server) >= row.trusted
  BY <1>2, <1>3, InstantTypes DEF Trusted
<1>5. Effective \in Times /\ Effective >= process.effective /\ Effective >= row.observed
  BY PartTypes, EffectiveType
<1>6. /\ Latest(Effective, Trusted(jws, server)) \in Times
      /\ Latest(Effective, Trusted(jws, server)) >= Effective
  BY <1>4, <1>5, InstantTypes
<1>7. Latest(Effective, Trusted(jws, server)) >= row.observed
  BY <1>2, <1>5, <1>6, ConstantsAssumption DEF Times
<1>8. row' = [row EXCEPT !.jws = jws, !.deactivated = FALSE,
                         !.trusted = Trusted(jws, server),
                         !.observed = Latest(Effective, Trusted(jws, server))]
  BY DEF Accept
<1>9. /\ row' \in RowTypes /\ row'.jws = jws /\ row'.deactivated = FALSE
      /\ row'.trusted >= row.trusted /\ row'.observed >= row.observed
  BY <1>4, <1>6, <1>7, <1>8, PartTypes DEF RowTypes
<1>10. process' = [process EXCEPT !.effective = Effective]
  BY DEF Accept
<1>11. /\ process' \in ProcessTypes /\ process'.effective >= process.effective
       /\ process'.running = process.running /\ process'.identity = process.identity
  BY <1>5, <1>10, PartTypes DEF ProcessTypes
<1>12. floor' = [floor EXCEPT ![jws.seat].jws = jws]
  BY DEF Accept, NewFloor
<1> QED BY <1>9, <1>11, <1>12

LEMMA IdleCallType ==
    /\ NoAnswer \in Answers
    /\ NoCall \in CallTypes
    /\ NoCall.phase = "idle"
<1>1. NoAnswer \in Answers
  BY ConstantsAssumption DEF NoAnswer, Answers, Times
<1> QED BY <1>1 DEF NoCall, CallTypes

-----------------------------------------------------------------------------
\* Each step keeps the invariant.

LEMMA TickInv ==
    ASSUME Inv, Tick
    PROVE  Inv'
<1>0. /\ now' \in Times /\ wall' \in Times /\ process' \in ProcessTypes
      /\ process'.identity = process.identity /\ process'.running = process.running
  <2>1. /\ now \in Times /\ wall \in Times /\ process \in ProcessTypes
        /\ process.effective \in Times
    BY PartTypes DEF TypeOK, ProcessTypes
  <2>2. now' \in Times /\ wall' \in Times
    BY <2>1, InstantTypes, ConstantsAssumption DEF Tick, Times
  <2>3. process' \in ProcessTypes
    BY <2>1, InstantTypes DEF Tick, ProcessTypes
  <2> QED BY <2>1, <2>2, <2>3 DEF Tick, ProcessTypes
<1>1. TypeOK'
  BY <1>0 DEF Inv, TypeOK, Tick, ProcessTypes, clockVars, callVars, identityVars, providerVars
<1>2. (CallServed /\ IdentityAnchored /\ JournalKnown /\ SentAreKnown
        /\ WaitingIsKnown /\ LiveSeats /\ CurrentIsAccepted)'
  BY ConstantsAssumption
     DEF Inv, TypeOK, Tick, Served, Prepared,
         CallServed, IdentityAnchored, JournalKnown, SentAreKnown,
         WaitingIsKnown, LiveSeats, CurrentIsAccepted,
         clockVars, callVars, identityVars, providerVars
<1> QED BY <1>1, <1>2 DEF Inv

LEMMA SetClockInv ==
    ASSUME Inv, SetClock
    PROVE  Inv'
<1>1. TypeOK'
  BY ConstantsAssumption
     DEF Inv, TypeOK, SetClock, Incident,
         clockVars, callVars, identityVars, providerVars
<1>2. (CallServed /\ IdentityAnchored /\ JournalKnown /\ SentAreKnown
        /\ WaitingIsKnown /\ LiveSeats /\ CurrentIsAccepted)'
  BY ConstantsAssumption
     DEF Inv, TypeOK, SetClock, Incident, Served, Prepared,
         CallServed, IdentityAnchored, JournalKnown, SentAreKnown,
         WaitingIsKnown, LiveSeats, CurrentIsAccepted,
         clockVars, callVars, identityVars, providerVars
<1> QED BY <1>1, <1>2 DEF Inv

LEMMA StatusInv ==
    ASSUME Inv, Status
    PROVE  Inv'
<1>1. Effective \in Times
  BY PartTypes, EffectiveType
<1>2. process' \in ProcessTypes
  BY <1>1, PartTypes DEF Status, ProcessTypes
<1>3. TypeOK'
  BY <1>2
     DEF Inv, TypeOK, Status, ProcessTypes,
         clockVars, callVars, identityVars, providerVars
<1>4. (CallServed /\ IdentityAnchored /\ JournalKnown /\ SentAreKnown
        /\ WaitingIsKnown /\ LiveSeats /\ CurrentIsAccepted)'
  BY PartTypes
     DEF Inv, TypeOK, Status, Served, Prepared, ProcessTypes,
         CallServed, IdentityAnchored, JournalKnown, SentAreKnown,
         WaitingIsKnown, LiveSeats, CurrentIsAccepted,
         clockVars, callVars, identityVars, providerVars
<1> QED BY <1>3, <1>4 DEF Inv

LEMMA ObserveClockInv ==
    ASSUME Inv, ObserveClock
    PROVE  Inv'
<1>1. Effective \in Times
  BY PartTypes, EffectiveType
<1>2. process' \in ProcessTypes /\ row' \in RowTypes
  BY <1>1, PartTypes DEF ObserveClock, ProcessTypes, RowTypes
<1>3. TypeOK'
  BY <1>2
     DEF Inv, TypeOK, ObserveClock, ProcessTypes, RowTypes,
         clockVars, callVars, identityVars, providerVars
<1>4. (CallServed /\ IdentityAnchored /\ JournalKnown /\ SentAreKnown
        /\ WaitingIsKnown /\ LiveSeats /\ CurrentIsAccepted)'
  BY PartTypes
     DEF Inv, TypeOK, ObserveClock, Served, Prepared, ProcessTypes, RowTypes,
         CallServed, IdentityAnchored, JournalKnown, SentAreKnown,
         WaitingIsKnown, LiveSeats, CurrentIsAccepted,
         clockVars, callVars, identityVars, providerVars
<1> QED BY <1>3, <1>4 DEF Inv

LEMMA OfflineRequestInv ==
    ASSUME Inv, OfflineRequest
    PROVE  Inv'
<1>1. row' \in RowTypes
  BY PartTypes DEF OfflineRequest, RowTypes
<1>2. slips' \subseteq [action : {"activate", "renew", "deactivate"},
                   seat : Activations \cup {0}, installation : Installations]
  BY PartTypes DEF OfflineRequest, Served, TypeOK, ProcessTypes, RowTypes, Claims
<1>3. incidents' \in Nat
  BY DEF Inv, TypeOK, OfflineRequest, Incident
<1>4. TypeOK'
  BY <1>1, <1>2, <1>3
     DEF Inv, TypeOK, OfflineRequest, RowTypes,
         clockVars, callVars, identityVars, providerVars
<1>5. (CallServed /\ IdentityAnchored /\ JournalKnown /\ SentAreKnown
        /\ WaitingIsKnown /\ LiveSeats /\ CurrentIsAccepted)'
  BY ConstantsAssumption
     DEF Inv, TypeOK, OfflineRequest, Served, Prepared,
         CallServed, IdentityAnchored, JournalKnown, SentAreKnown,
         WaitingIsKnown, LiveSeats, CurrentIsAccepted,
         clockVars, callVars, identityVars, providerVars
<1> QED BY <1>4, <1>5 DEF Inv

LEMMA ProviderChallengesInv ==
    ASSUME Inv, ProviderChallenges
    PROVE  Inv'
<1>1. TypeOK'
  BY ConstantsAssumption
     DEF Inv, TypeOK, ProviderChallenges,
         clockVars, callVars, identityVars, providerVars
<1>2. (CallServed /\ IdentityAnchored /\ JournalKnown /\ SentAreKnown
        /\ WaitingIsKnown /\ LiveSeats /\ CurrentIsAccepted)'
  BY ConstantsAssumption
     DEF Inv, TypeOK, ProviderChallenges, Served, Prepared,
         CallServed, IdentityAnchored, JournalKnown, SentAreKnown,
         WaitingIsKnown, LiveSeats, CurrentIsAccepted,
         clockVars, callVars, identityVars, providerVars
<1> QED BY <1>1, <1>2 DEF Inv

LEMMA PrepareInv ==
    ASSUME Inv, Prepare
    PROVE  Inv'
<1>1. /\ process.identity \in Installations /\ process.identity = anchor
      /\ call.request \in Requests /\ call.action \in Actions
  BY PartTypes DEF Inv, Prepare, CallServed, Served, IdentityAnchored, WaitingIsKnown, ProcessTypes
<1>2. op' \in OpTypes /\ call' \in CallTypes
  BY <1>1, PartTypes DEF Prepare, OpTypes, CallTypes
<1>3. TypeOK'
  BY <1>1, <1>2
     DEF Inv, TypeOK, Prepare, OpTypes, CallTypes,
         clockVars, callVars, identityVars, providerVars
<1>4. (CallServed /\ IdentityAnchored /\ JournalKnown /\ SentAreKnown
        /\ WaitingIsKnown /\ LiveSeats /\ CurrentIsAccepted)'
  BY <1>1, PartTypes
     DEF Inv, TypeOK, Prepare, Served, Prepared, OpTypes, CallTypes,
         CallServed, IdentityAnchored, JournalKnown, SentAreKnown,
         WaitingIsKnown, LiveSeats, CurrentIsAccepted,
         clockVars, callVars, identityVars, providerVars
<1> QED BY <1>3, <1>4 DEF Inv

LEMMA GiveUpInv ==
    ASSUME Inv, GiveUp
    PROVE  Inv'
<1>1. call' \in CallTypes /\ call'.phase = "idle"
  BY IdleCallType DEF GiveUp
<1>2. TypeOK'
  BY <1>1
     DEF Inv, TypeOK, GiveUp, CallTypes,
         clockVars, callVars, identityVars, providerVars
<1>3. (CallServed /\ IdentityAnchored /\ JournalKnown /\ SentAreKnown
        /\ WaitingIsKnown /\ LiveSeats /\ CurrentIsAccepted)'
  BY <1>1
     DEF Inv, TypeOK, GiveUp, Served, Prepared,
         CallServed, IdentityAnchored, JournalKnown, SentAreKnown,
         WaitingIsKnown, LiveSeats, CurrentIsAccepted,
         clockVars, callVars, identityVars, providerVars
<1> QED BY <1>2, <1>3 DEF Inv

LEMMA ChallengeExpiresInv ==
    ASSUME Inv, ChallengeExpires
    PROVE  Inv'
<1>1. TypeOK'
  BY ConstantsAssumption
     DEF Inv, TypeOK, ChallengeExpires,
         clockVars, callVars, identityVars, providerVars
<1>2. (CallServed /\ IdentityAnchored /\ JournalKnown /\ SentAreKnown
        /\ WaitingIsKnown /\ LiveSeats /\ CurrentIsAccepted)'
  BY ConstantsAssumption
     DEF Inv, TypeOK, ChallengeExpires, Served, Prepared,
         CallServed, IdentityAnchored, JournalKnown, SentAreKnown,
         WaitingIsKnown, LiveSeats, CurrentIsAccepted,
         clockVars, callVars, identityVars, providerVars
<1> QED BY <1>1, <1>2 DEF Inv

LEMMA ReviseInv ==
    ASSUME Inv, Revise
    PROVE  Inv'
<1>1. seat' \in SeatTypes /\ LiveSeats'
  <2>1. PICK a \in Live : \/ seat' = [seat EXCEPT ![a].jws.revoked = TRUE]
                         \/ seat' = [seat EXCEPT ![a].jws.expires = Later(@)]
    BY DEF Revise
  <2>2. a \in Activations /\ seat[a].status = "live" /\ seat[a].jws \in Claims
    BY DEF Inv, Live, LiveSeats
  <2>3. /\ [seat[a].jws EXCEPT !.revoked = TRUE] \in Claims
        /\ [seat[a].jws EXCEPT !.expires = Later(@)] \in Claims
    BY <2>2, InstantTypes DEF Claims
  <2> QED BY <2>1, <2>2, <2>3, PartTypes DEF Inv, SeatTypes, LiveSeats
<1>2. incidents' \in Nat
  BY DEF Inv, TypeOK, Revise, Incident
<1>3. TypeOK'
  BY <1>1, <1>2
     DEF Inv, TypeOK, Revise, SeatTypes,
         clockVars, callVars, identityVars, providerVars
<1>4. (CallServed /\ IdentityAnchored /\ JournalKnown /\ SentAreKnown
        /\ WaitingIsKnown /\ LiveSeats /\ CurrentIsAccepted)'
  BY <1>1
     DEF Inv, TypeOK, Revise, Served, Prepared,
         CallServed, IdentityAnchored, JournalKnown, SentAreKnown,
         WaitingIsKnown, LiveSeats, CurrentIsAccepted,
         clockVars, callVars, identityVars, providerVars
<1> QED BY <1>3, <1>4 DEF Inv

LEMMA CreateIdentityInv ==
    ASSUME Inv, CreateIdentity
    PROVE  Inv'
<1>1. TypeOK'
  BY ConstantsAssumption
     DEF Inv, TypeOK, CreateIdentity,
         clockVars, callVars, identityVars, providerVars
<1>2. (CallServed /\ IdentityAnchored /\ JournalKnown /\ SentAreKnown
        /\ WaitingIsKnown /\ LiveSeats /\ CurrentIsAccepted)'
  BY ConstantsAssumption
     DEF Inv, TypeOK, CreateIdentity, Served, Prepared,
         CallServed, IdentityAnchored, JournalKnown, SentAreKnown,
         WaitingIsKnown, LiveSeats, CurrentIsAccepted,
         clockVars, callVars, identityVars, providerVars
<1> QED BY <1>1, <1>2 DEF Inv

\* New anchors a first identity, and accepts no other: with an anchor of its
\* own nothing was accepted or prepared yet.
LEMMA StartedInv ==
    ASSUME Inv, Started, call'.phase = "idle", call' \in CallTypes
    PROVE  Inv'
<1>1. /\ process' \in ProcessTypes /\ anchor' \in Installations \cup {0}
      /\ Served' => process'.identity = anchor'
  BY PartTypes, ConstantsAssumption
     DEF Inv, TypeOK, Started, Usable, ProcessTypes, Times, Served
<1>2. anchor' = anchor \/ anchor = 0
  BY DEF Started, Usable
<1>3. TypeOK'
  BY <1>1 DEF Inv, TypeOK, Started, ProcessTypes, CallTypes, clockVars, providerVars
<1>4. CurrentIsAccepted'
  <2>1. CASE anchor' = anchor
    BY <2>1 DEF Inv, Started, CurrentIsAccepted, Prepared
  <2>2. CASE anchor = 0
    <3>1. row.jws = NoJws
      BY <2>2, ConstantsAssumption DEF Inv, TypeOK, CurrentIsAccepted, Claims
    <3>2. \A r \in Requests : ~Prepared(r)
      BY <2>2, ConstantsAssumption DEF Inv, CurrentIsAccepted, JournalKnown, Prepared
    <3> QED BY <3>1, <3>2 DEF Started, CurrentIsAccepted, Prepared
  <2> QED BY <1>2, <2>1, <2>2
<1>5. (CallServed /\ IdentityAnchored /\ JournalKnown /\ SentAreKnown
        /\ WaitingIsKnown /\ LiveSeats)'
  BY <1>1 DEF Inv, Started, CallServed, IdentityAnchored, JournalKnown, SentAreKnown,
         WaitingIsKnown, LiveSeats, clockVars, providerVars
<1> QED BY <1>3, <1>4, <1>5 DEF Inv

LEMMA StartInv ==
    ASSUME Inv, Start
    PROVE  Inv'
<1>1. call.phase = "idle" /\ call' = call
  BY DEF Inv, Start, CallServed, Served
<1> QED BY <1>1, StartedInv, PartTypes DEF Start

LEMMA RestartInv ==
    ASSUME Inv, Restart
    PROVE  Inv'
BY StartedInv, IdleCallType DEF Restart

LEMMA StopInv ==
    ASSUME Inv, Stop
    PROVE  Inv'
<1>1. call' \in CallTypes /\ call'.phase = "idle"
  BY IdleCallType DEF Stop
<1>2. process' \in ProcessTypes /\ ~Served'
  BY ConstantsAssumption DEF Stop, ProcessTypes, Served, Times
<1>3. incidents' \in Nat
  BY DEF Inv, TypeOK, Stop, Incident
<1>4. TypeOK'
  BY <1>1, <1>2, <1>3
     DEF Inv, TypeOK, Stop, CallTypes, ProcessTypes,
         clockVars, callVars, identityVars, providerVars
<1>5. (CallServed /\ IdentityAnchored /\ JournalKnown /\ SentAreKnown
        /\ WaitingIsKnown /\ LiveSeats /\ CurrentIsAccepted)'
  BY <1>1, <1>2
     DEF Inv, TypeOK, Stop, Prepared,
         CallServed, IdentityAnchored, JournalKnown, SentAreKnown,
         WaitingIsKnown, LiveSeats, CurrentIsAccepted,
         clockVars, callVars, identityVars, providerVars
<1> QED BY <1>4, <1>5 DEF Inv

LEMMA LoseIdentityInv ==
    ASSUME Inv, LoseIdentity
    PROVE  Inv'
<1>1. TypeOK'
  BY ConstantsAssumption
     DEF Inv, TypeOK, LoseIdentity,
         clockVars, callVars, identityVars, providerVars
<1>2. (CallServed /\ IdentityAnchored /\ JournalKnown /\ SentAreKnown
        /\ WaitingIsKnown /\ LiveSeats /\ CurrentIsAccepted)'
  BY ConstantsAssumption
     DEF Inv, TypeOK, LoseIdentity, Served, Prepared,
         CallServed, IdentityAnchored, JournalKnown, SentAreKnown,
         WaitingIsKnown, LiveSeats, CurrentIsAccepted,
         clockVars, callVars, identityVars, providerVars
<1> QED BY <1>1, <1>2 DEF Inv

LEMMA OpenJournalInv ==
    ASSUME Inv, OpenJournal
    PROVE  Inv'
<1>1. TypeOK'
  BY ConstantsAssumption
     DEF Inv, TypeOK, OpenJournal, RecoveryStep,
         clockVars, callVars, identityVars, providerVars
<1>2. (CallServed /\ IdentityAnchored /\ JournalKnown /\ SentAreKnown
        /\ WaitingIsKnown /\ LiveSeats /\ CurrentIsAccepted)'
  BY ConstantsAssumption
     DEF Inv, TypeOK, OpenJournal, RecoveryStep, Served, Prepared,
         CallServed, IdentityAnchored, JournalKnown, SentAreKnown,
         WaitingIsKnown, LiveSeats, CurrentIsAccepted,
         clockVars, callVars, identityVars, providerVars
<1> QED BY <1>1, <1>2 DEF Inv

LEMMA ArchiveIdentityInv ==
    ASSUME Inv, ArchiveIdentity
    PROVE  Inv'
<1>1. TypeOK'
  BY ConstantsAssumption
     DEF Inv, TypeOK, ArchiveIdentity, RecoveryStep,
         clockVars, callVars, identityVars, providerVars
<1>2. (CallServed /\ IdentityAnchored /\ JournalKnown /\ SentAreKnown
        /\ WaitingIsKnown /\ LiveSeats /\ CurrentIsAccepted)'
  BY ConstantsAssumption
     DEF Inv, TypeOK, ArchiveIdentity, RecoveryStep, Served, Prepared,
         CallServed, IdentityAnchored, JournalKnown, SentAreKnown,
         WaitingIsKnown, LiveSeats, CurrentIsAccepted,
         clockVars, callVars, identityVars, providerVars
<1> QED BY <1>1, <1>2 DEF Inv

LEMMA WriteIdentityInv ==
    ASSUME Inv, WriteIdentity
    PROVE  Inv'
<1>1. TypeOK'
  BY ConstantsAssumption
     DEF Inv, TypeOK, WriteIdentity, RecoveryStep,
         clockVars, callVars, identityVars, providerVars
<1>2. (CallServed /\ IdentityAnchored /\ JournalKnown /\ SentAreKnown
        /\ WaitingIsKnown /\ LiveSeats /\ CurrentIsAccepted)'
  BY ConstantsAssumption
     DEF Inv, TypeOK, WriteIdentity, RecoveryStep, Served, Prepared,
         CallServed, IdentityAnchored, JournalKnown, SentAreKnown,
         WaitingIsKnown, LiveSeats, CurrentIsAccepted,
         clockVars, callVars, identityVars, providerVars
<1> QED BY <1>1, <1>2 DEF Inv

LEMMA CloseJournalInv ==
    ASSUME Inv, CloseJournal
    PROVE  Inv'
<1>1. TypeOK'
  BY ConstantsAssumption
     DEF Inv, TypeOK, CloseJournal, RecoveryStep,
         clockVars, callVars, identityVars, providerVars
<1>2. (CallServed /\ IdentityAnchored /\ JournalKnown /\ SentAreKnown
        /\ WaitingIsKnown /\ LiveSeats /\ CurrentIsAccepted)'
  BY ConstantsAssumption
     DEF Inv, TypeOK, CloseJournal, RecoveryStep, Served, Prepared,
         CallServed, IdentityAnchored, JournalKnown, SentAreKnown,
         WaitingIsKnown, LiveSeats, CurrentIsAccepted,
         clockVars, callVars, identityVars, providerVars
<1> QED BY <1>1, <1>2 DEF Inv

LEMMA CommitIdentityInv ==
    ASSUME Inv, CommitIdentity
    PROVE  Inv'
<1>1. op' \in OpTypes /\ \A r \in Requests : ~Prepared(r)'
  BY PartTypes DEF CommitIdentity, Abandoned, OpTypes, Prepared
<1>2. row' \in RowTypes /\ row'.jws = NoJws /\ floor' \in FloorTypes
  BY PartTypes DEF CommitIdentity, RowTypes, FloorTypes
<1>3. ~process.running
  BY DEF CommitIdentity, RecoveryStep
<1>4. TypeOK'
  BY <1>1, <1>2
     DEF Inv, TypeOK, CommitIdentity, RecoveryStep, OpTypes, RowTypes, FloorTypes,
         clockVars, callVars, identityVars, providerVars
<1>5. (CallServed /\ IdentityAnchored /\ JournalKnown /\ SentAreKnown
        /\ WaitingIsKnown /\ LiveSeats /\ CurrentIsAccepted)'
  BY <1>1, <1>2, <1>3, PartTypes
     DEF Inv, TypeOK, CommitIdentity, RecoveryStep, Abandoned, Served, Prepared, OpTypes,
         CallServed, IdentityAnchored, JournalKnown, SentAreKnown,
         WaitingIsKnown, LiveSeats, CurrentIsAccepted,
         clockVars, callVars, identityVars, providerVars
<1> QED BY <1>4, <1>5 DEF Inv

\* An accepted licence is of this installation, and its floor remembers it.
LEMMA AcceptKeeps ==
    ASSUME Inv, NEW jws \in Claims, NEW server \in Times,
           Served, Verified(jws), Acceptable(jws), Accept(jws, server)
    PROVE  /\ process' \in ProcessTypes /\ row' \in RowTypes /\ floor' \in FloorTypes
           /\ process'.running = process.running /\ process'.identity = process.identity
           /\ row'.jws.installation = anchor
           /\ ~row'.deactivated
           /\ floor'[row'.jws.seat].jws = row'.jws
           /\ ~floor'[row'.jws.seat].deactivated
<1>1. jws.seat \in Activations /\ jws.installation = anchor
  BY DEF Claims, Verified, Inv, IdentityAnchored
<1>2. ~floor[jws.seat].deactivated
  BY DEF Acceptable
<1>3. /\ process' \in ProcessTypes /\ row' \in RowTypes
      /\ row'.jws = jws /\ row'.deactivated = FALSE
      /\ floor' = [floor EXCEPT ![jws.seat].jws = jws]
      /\ process'.running = process.running /\ process'.identity = process.identity
  BY AcceptTypes
<1>4. floor' \in FloorTypes
  BY <1>3, PartTypes DEF FloorTypes
<1>5. floor'[jws.seat].jws = jws /\ floor'[jws.seat].deactivated = floor[jws.seat].deactivated
  BY <1>1, <1>3, PartTypes DEF FloorTypes
<1> QED BY <1>1, <1>2, <1>3, <1>4, <1>5

LEMMA ImportInv ==
    ASSUME Inv, Import
    PROVE  Inv'
<1>1. PICK jws \in files : Verified(jws) /\ Acceptable(jws) /\ Accept(jws, 0)
  BY DEF Import
<1>2. jws \in Claims /\ 0 \in Times /\ Served
  BY PartTypes, ConstantsAssumption DEF TypeOK, Times, Import
<1>3. /\ process' \in ProcessTypes /\ row' \in RowTypes /\ floor' \in FloorTypes
      /\ process'.running = process.running /\ process'.identity = process.identity
      /\ row'.jws.installation = anchor
      /\ ~row'.deactivated
      /\ floor'[row'.jws.seat].jws = row'.jws
      /\ ~floor'[row'.jws.seat].deactivated
  BY <1>1, <1>2, AcceptKeeps
<1>4. TypeOK'
  BY <1>3
     DEF Inv, TypeOK, Import, ProcessTypes, RowTypes, FloorTypes,
         clockVars, callVars, identityVars, providerVars
<1>5. (CallServed /\ IdentityAnchored /\ JournalKnown /\ SentAreKnown
        /\ WaitingIsKnown /\ LiveSeats /\ CurrentIsAccepted)'
  BY <1>3
     DEF Inv, Import, Served, Prepared,
         CallServed, IdentityAnchored, JournalKnown, SentAreKnown,
         WaitingIsKnown, LiveSeats, CurrentIsAccepted,
         clockVars, callVars, identityVars, providerVars
<1> QED BY <1>4, <1>5 DEF Inv

LEMMA BeginInv ==
    ASSUME Inv, NEW r \in Requests, NEW action \in Actions,
           Begin(r, action)
    PROVE  Inv'
<1>1. /\ call'.phase \in {"challenge", "wait"} /\ call' \in CallTypes
      /\ call'.request = r /\ call'.action = action
  BY PartTypes, IdleCallType, NoJwsIsNoClaim
     DEF Begin, Admitted, CallTypes, OpTypes, RowTypes, Claims
<1>2. \/ wire' = wire \cup {r} /\ Prepared(r)
      \/ wire' = wire /\ call'.phase = "challenge"
  BY IdleCallType DEF Begin, CallTypes, NoCall
<1>3. Served /\ UNCHANGED <<clockVars, process, row, floor, op, identityVars, providerVars, incidents>>
  BY DEF Begin
<1>4. TypeOK'
  BY <1>1, <1>2, <1>3
     DEF Inv, TypeOK, CallTypes,
         clockVars, callVars, identityVars, providerVars
<1>5. (CallServed /\ IdentityAnchored /\ JournalKnown /\ SentAreKnown
        /\ WaitingIsKnown /\ LiveSeats /\ CurrentIsAccepted)'
  BY <1>1, <1>2, <1>3
     DEF Inv, Served, Prepared,
         CallServed, IdentityAnchored, JournalKnown, SentAreKnown,
         WaitingIsKnown, LiveSeats, CurrentIsAccepted,
         clockVars, callVars, identityVars, providerVars
<1> QED BY <1>4, <1>5 DEF Inv

\* A call that ends leaves its request settled or still prepared.
LEMMA EndedTypes ==
    ASSUME Inv, NEW status \in {"prepared", "succeeded", "failed"},
           call.phase = "wait", Ended(status)
    PROVE  /\ op' \in OpTypes /\ call' \in CallTypes /\ call'.phase = "idle"
           /\ \A r \in Requests :
                 /\ op'[r].status # "none" <=> op[r].status # "none"
                 /\ op'[r].status = "prepared" => op[r].status = "prepared"
                 /\ op'[r].action = op[r].action
                 /\ op'[r].installation = op[r].installation
<1>1. call.request \in Requests /\ op[call.request].status = "prepared"
  BY DEF Inv, WaitingIsKnown, Prepared
<1>2. op' = [op EXCEPT ![call.request].status = status] /\ call' = NoCall
  BY DEF Ended
<1> QED BY <1>1, <1>2, PartTypes, IdleCallType DEF OpTypes

\* What is left of the invariant when a call ends.
LEMMA EndedKeeps ==
    ASSUME Inv, NEW status \in {"prepared", "succeeded", "failed"},
           call.phase = "wait", Ended(status),
           process' \in ProcessTypes, row' \in RowTypes, floor' \in FloorTypes,
           process'.running = process.running, process'.identity = process.identity,
           row'.jws # NoJws =>
              /\ floor'[row'.jws.seat].jws = row'.jws
              /\ floor'[row'.jws.seat].deactivated <=> row'.deactivated
              /\ row'.jws.installation = anchor
    PROVE  Inv'
<1>1. /\ op' \in OpTypes /\ call' \in CallTypes /\ call'.phase = "idle"
      /\ \A r \in Requests :
            /\ op'[r].status # "none" <=> op[r].status # "none"
            /\ op'[r].status = "prepared" => op[r].status = "prepared"
            /\ op'[r].action = op[r].action
            /\ op'[r].installation = op[r].installation
      /\ UNCHANGED <<clockVars, wire, identityVars, providerVars, incidents>>
  BY EndedTypes DEF Ended
<1>2. TypeOK'
  BY <1>1
     DEF Inv, TypeOK, ProcessTypes, RowTypes, FloorTypes, OpTypes, CallTypes,
         clockVars, identityVars, providerVars
<1>3. (CallServed /\ IdentityAnchored)'
  BY <1>1 DEF Inv, Served, CallServed, IdentityAnchored, identityVars
<1>4. (JournalKnown /\ SentAreKnown /\ WaitingIsKnown)'
  <2>1. \A r \in wire : r \in Requests
    BY DEF Inv, TypeOK
  <2> QED BY <1>1, <2>1 DEF Inv, JournalKnown, SentAreKnown, WaitingIsKnown
<1>5. LiveSeats'
  BY <1>1 DEF Inv, LiveSeats, providerVars
<1>6. CurrentIsAccepted'
  <2>1. \A r \in Requests : Prepared(r)' => op'[r].installation = anchor
    BY <1>1 DEF Inv, CurrentIsAccepted, Prepared
  <2> QED BY <1>1, <2>1 DEF CurrentIsAccepted, identityVars
<1> QED BY <1>2, <1>3, <1>4, <1>5, <1>6 DEF Inv

LEMMA AnswerLicenceInv ==
    ASSUME Inv, AnswerLicence
    PROVE  Inv'
<1> DEFINE jws == call.answer.jws
<1>1. /\ call.phase = "wait" /\ Served
      /\ jws \in Claims \cup {NoJws} /\ call.answer.time \in Times
  BY PartTypes DEF AnswerLicence, Answered, CallTypes, Answers, Inv, CallServed
<1>2. CASE Verified(jws) /\ Acceptable(jws)
  <2>1. jws \in Claims
    BY <1>1, <1>2 DEF Verified
  <2>2. Accept(jws, call.answer.time) /\ Ended("succeeded")
    BY <1>2 DEF AnswerLicence
  <2>3. /\ process' \in ProcessTypes /\ row' \in RowTypes /\ floor' \in FloorTypes
        /\ process'.running = process.running /\ process'.identity = process.identity
        /\ row'.jws.installation = anchor
        /\ ~row'.deactivated
        /\ floor'[row'.jws.seat].jws = row'.jws
        /\ ~floor'[row'.jws.seat].deactivated
    BY <1>1, <1>2, <2>1, <2>2, AcceptKeeps
  <2> QED BY <1>1, <2>2, <2>3, EndedKeeps
<1>3. CASE ~(Verified(jws) /\ Acceptable(jws))
  <2>1. Ended("prepared") /\ UNCHANGED <<process, row, floor>>
    BY <1>3 DEF AnswerLicence, Unaccepted
  <2>2. row.jws # NoJws =>
              /\ floor[row.jws.seat].jws = row.jws
              /\ floor[row.jws.seat].deactivated <=> row.deactivated
              /\ row.jws.installation = anchor
    BY DEF Inv, CurrentIsAccepted
  <2> QED BY <1>1, <2>1, <2>2, EndedKeeps, PartTypes
<1> QED BY <1>2, <1>3

LEMMA AnswerDeactivatedInv ==
    ASSUME Inv, AnswerDeactivated
    PROVE  Inv'
<1>1. call.phase = "wait" /\ process' = process /\ call.seat \in Activations \cup {0}
  BY PartTypes DEF AnswerDeactivated, Answered, CallTypes
<1>2. row.jws # NoJws =>
              /\ row.jws.seat \in Activations
              /\ floor[row.jws.seat].jws = row.jws
              /\ floor[row.jws.seat].deactivated <=> row.deactivated
              /\ row.jws.installation = anchor
  BY PartTypes DEF Inv, CurrentIsAccepted, RowTypes, Claims
<1>3. CASE row.jws.seat = call.seat
  <2>1. /\ row' = [row EXCEPT !.deactivated = TRUE, !.pending = FALSE]
        /\ floor' = [floor EXCEPT ![call.seat].deactivated = TRUE]
        /\ Ended("succeeded")
    BY <1>3 DEF AnswerDeactivated, RetiredFloor
  <2>2. row' \in RowTypes /\ row'.jws = row.jws /\ row'.deactivated
    BY <2>1, PartTypes DEF RowTypes
  <2>3. floor' \in FloorTypes
    BY <2>1, PartTypes DEF FloorTypes
  <2>4. row.jws # NoJws =>
              /\ floor'[row.jws.seat].jws = row.jws
              /\ floor'[row.jws.seat].deactivated
    BY <1>2, <1>3, <2>1, PartTypes DEF FloorTypes
  <2> QED BY <1>1, <1>2, <2>1, <2>2, <2>3, <2>4, EndedKeeps, PartTypes
<1>4. CASE row.jws.seat # call.seat
  <2>1. Ended("prepared") /\ UNCHANGED <<process, row, floor>>
    BY <1>4 DEF AnswerDeactivated, Unaccepted
  <2> QED BY <1>1, <1>2, <2>1, EndedKeeps, PartTypes
<1> QED BY <1>3, <1>4

LEMMA AnswerRefusedInv ==
    ASSUME Inv, AnswerRefused
    PROVE  Inv'
<1>1. call.phase = "wait" /\ Ended("failed") /\ UNCHANGED <<process, row, floor>>
  BY DEF AnswerRefused, Answered
<1>2. row.jws # NoJws =>
              /\ floor[row.jws.seat].jws = row.jws
              /\ floor[row.jws.seat].deactivated <=> row.deactivated
              /\ row.jws.installation = anchor
  BY DEF Inv, CurrentIsAccepted
<1> QED BY <1>1, <1>2, EndedKeeps, PartTypes

-----------------------------------------------------------------------------
\* The provider.

LEMMA LicenceTypes ==
    ASSUME Inv
    PROVE  /\ NoAnswer \in Answers
           /\ [NoAnswer EXCEPT !.kind = "refused"] \in Answers
           /\ [NoAnswer EXCEPT !.kind = "deactivated"] \in Answers
           /\ \A jws \in Claims : Licence(jws) \in Answers /\ Renewed(jws) \in Claims
           /\ \A a \in Activations, i \in Installations :
                 /\ NewSeat(a, i).jws \in Claims /\ NewSeat(a, i).status = "live"
                 /\ NewSeat(a, i) \in [status : {"free", "live", "retired"},
                                       jws : Claims \cup {NoJws}]
<1>1. now \in Times /\ 0 \in Times
  BY ConstantsAssumption DEF Inv, TypeOK, Times
<1>2. /\ NoAnswer \in Answers
      /\ [NoAnswer EXCEPT !.kind = "refused"] \in Answers
      /\ [NoAnswer EXCEPT !.kind = "deactivated"] \in Answers
  BY <1>1 DEF NoAnswer, Answers
<1>3. \A jws \in Claims : Licence(jws) \in Answers
  BY <1>1 DEF Licence, Answers
<1>4. ASSUME NEW jws \in Claims PROVE Renewed(jws) \in Claims
  <2>1. jws.revision + 1 \in Nat \ {0}
    BY DEF Claims
  <2>2. Renewed(jws) = [jws EXCEPT !.revision = jws.revision + 1, !.issued = now]
    BY DEF Renewed
  <2> QED BY <1>1, <2>1, <2>2 DEF Claims
<1>5. \A a \in Activations, i \in Installations :
         /\ NewSeat(a, i).jws \in Claims /\ NewSeat(a, i).status = "live"
         /\ NewSeat(a, i) \in [status : {"free", "live", "retired"},
                               jws : Claims \cup {NoJws}]
  BY <1>1 DEF NewSeat, Claims
<1> QED BY <1>2, <1>3, <1>4, <1>5

\* An answer that arrives changes the call alone.
LEMMA ReplyTypes ==
    ASSUME Inv, NEW r \in Requests, NEW answer \in Answers, Reply(r, answer)
    PROVE  /\ call' \in CallTypes /\ call'.phase = call.phase
           /\ call'.request = call.request /\ call'.action = call.action
BY PartTypes DEF Reply, CallTypes

\* What the provider does to its own seats and answers keeps the invariant, if
\* its seats stay well formed.
LEMMA HandlesKeeps ==
    ASSUME Inv, NEW r \in Requests, Handles(r), NEW answer \in Answers, Reply(r, answer),
           seat' \in SeatTypes, LiveSeats',
           cached' \in [Requests -> Answers],
           challenge' \in [Requests -> {"none", "open", "gone"}]
    PROVE  Inv'
<1>1. /\ call' \in CallTypes /\ call'.phase = call.phase
      /\ call'.request = call.request /\ call'.action = call.action
  BY ReplyTypes
<1>2. /\ wire' \subseteq wire
      /\ UNCHANGED <<clockVars, process, row, floor, op, identityVars, slips, files,
                     incidents>>
  BY DEF Handles
<1>3. TypeOK'
  BY <1>1, <1>2 DEF Inv, TypeOK, CallTypes, SeatTypes, clockVars, identityVars
<1>4. (CallServed /\ IdentityAnchored /\ JournalKnown /\ SentAreKnown
        /\ WaitingIsKnown /\ CurrentIsAccepted)'
  BY <1>1, <1>2
     DEF Inv, CallServed, Served, IdentityAnchored, JournalKnown, SentAreKnown,
         WaitingIsKnown, Prepared, CurrentIsAccepted, clockVars, identityVars
<1> QED BY <1>3, <1>4 DEF Inv

LEMMA ReplayInv ==
    ASSUME Inv, NEW r \in Requests, Replay(r)
    PROVE  Inv'
<1>1. /\ Handles(r) /\ Reply(r, cached[r]) /\ cached[r] \in Answers
      /\ UNCHANGED <<seat, challenge, cached>>
  BY DEF Replay, Inv, TypeOK
<1>2. LiveSeats' /\ seat' \in SeatTypes
  BY <1>1, PartTypes DEF Inv, LiveSeats
<1> QED BY <1>1, <1>2, HandlesKeeps DEF Inv, TypeOK

LEMMA RefuseInv ==
    ASSUME Inv, NEW r \in Requests, Refuse(r)
    PROVE  Inv'
<1> DEFINE answer == [NoAnswer EXCEPT !.kind = "refused"]
<1>1. Handles(r) /\ Reply(r, answer) /\ answer \in Answers
  BY LicenceTypes DEF Refuse
<1>2. LiveSeats' /\ seat' \in SeatTypes
  BY PartTypes DEF Refuse, Inv, LiveSeats
<1>3. /\ cached' \in [Requests -> Answers]
      /\ challenge' \in [Requests -> {"none", "open", "gone"}]
  BY DEF Refuse, Inv, TypeOK
<1> QED BY <1>1, <1>2, <1>3, HandlesKeeps

\* A seat given, renewed or retired leaves every live seat with a licence.
LEMMA SeatChanges ==
    ASSUME Inv, NEW a \in Activations
    PROVE  /\ \A i \in Installations :
                 seat' = [seat EXCEPT ![a] = NewSeat(a, i)] => seat' \in SeatTypes /\ LiveSeats'
           /\ a \in Live /\ seat' = [seat EXCEPT ![a].jws = Renewed(@)]
                 => seat' \in SeatTypes /\ LiveSeats'
           /\ seat' = [seat EXCEPT ![a].status = "retired"]
                 => seat' \in SeatTypes /\ LiveSeats'
<1>1. \A i \in Installations :
         seat' = [seat EXCEPT ![a] = NewSeat(a, i)] => seat' \in SeatTypes /\ LiveSeats'
  BY PartTypes, LicenceTypes DEF Inv, LiveSeats, SeatTypes
<1>2. a \in Live /\ seat' = [seat EXCEPT ![a].jws = Renewed(@)]
         => seat' \in SeatTypes /\ LiveSeats'
  <2>1. SUFFICES ASSUME a \in Live, seat' = [seat EXCEPT ![a].jws = Renewed(@)]
                 PROVE  seat' \in SeatTypes /\ LiveSeats'
    OBVIOUS
  <2>2. Renewed(seat[a].jws) \in Claims
    BY <2>1, LicenceTypes DEF Inv, LiveSeats, Live
  <2> QED BY <2>1, <2>2, PartTypes DEF Inv, LiveSeats, SeatTypes
<1>3. seat' = [seat EXCEPT ![a].status = "retired"] => seat' \in SeatTypes /\ LiveSeats'
  BY PartTypes DEF Inv, LiveSeats, SeatTypes
<1> QED BY <1>1, <1>2, <1>3

LEMMA ExecuteInv ==
    ASSUME Inv, NEW r \in Requests, Execute(r)
    PROVE  Inv'
<1>1. /\ Handles(r) /\ Executable(r)
      /\ challenge' = [challenge EXCEPT ![r] = "gone"]
  BY DEF Execute
<1>2. op[r].action \in Actions /\ op[r].installation \in Installations
  BY <1>1 DEF Inv, SentAreKnown, JournalKnown, Handles
<1>3. challenge' \in [Requests -> {"none", "open", "gone"}]
  BY <1>1 DEF Inv, TypeOK
<1>4. SUFFICES \E answer \in Answers :
                  Keep(r, answer) /\ seat' \in SeatTypes /\ LiveSeats'
  <2>1. PICK answer \in Answers : Keep(r, answer) /\ seat' \in SeatTypes /\ LiveSeats'
    BY <1>4
  <2>2. cached' \in [Requests -> Answers]
    BY <2>1 DEF Keep, Inv, TypeOK
  <2>3. Reply(r, answer)
    BY <2>1 DEF Keep
  <2> QED BY <1>1, <1>3, <2>1, <2>2, <2>3, HandlesKeeps
<1>5. CASE op[r].action = "activate"
  <2>1. PICK a \in Activations :
           /\ seat' = [seat EXCEPT ![a] = NewSeat(a, op[r].installation)]
           /\ Keep(r, Licence(NewSeat(a, op[r].installation).jws))
    BY <1>5 DEF Execute
  <2>2. Licence(NewSeat(a, op[r].installation).jws) \in Answers
    BY <1>2, LicenceTypes
  <2> QED BY <1>2, <2>1, <2>2, SeatChanges
<1>6. CASE op[r].action = "refresh"
  <2>1. /\ seat' = [seat EXCEPT ![op[r].seat].jws = Renewed(@)]
        /\ Keep(r, Licence(Renewed(seat[op[r].seat].jws)))
    BY <1>6 DEF Execute
  <2>2. op[r].seat \in Activations /\ op[r].seat \in Live
    BY <1>1, <1>6 DEF Executable, Known, Live
  <2>3. Licence(Renewed(seat[op[r].seat].jws)) \in Answers
    BY <2>2, LicenceTypes DEF Inv, LiveSeats, Live
  <2> QED BY <2>1, <2>2, <2>3, SeatChanges
<1>7. CASE op[r].action = "deactivate"
  <2>1. /\ seat' = [seat EXCEPT ![op[r].seat].status = "retired"]
        /\ Keep(r, [NoAnswer EXCEPT !.kind = "deactivated"])
    BY <1>7 DEF Execute
  <2>2. op[r].seat \in Activations
    BY <1>1, <1>7 DEF Executable, Known, Live
  <2> QED BY <2>1, <2>2, SeatChanges, LicenceTypes
<1> QED BY <1>2, <1>5, <1>6, <1>7 DEF Actions

LEMMA ProviderIssuesInv ==
    ASSUME Inv, ProviderIssues
    PROVE  Inv'
<1>1. PICK s \in slips :
         /\ slips' = slips \ {s}
         /\ \/ /\ s.action = "activate"
               /\ \E a \in Activations :
                     /\ Grantable(a)
                     /\ seat' = [seat EXCEPT ![a] = NewSeat(a, s.installation)]
                     /\ files' = files \cup {NewSeat(a, s.installation).jws}
            \/ /\ s.action # "activate"
               /\ s.seat \in Live /\ seat[s.seat].jws.installation = s.installation
               /\ IF s.action = "renew"
                  THEN /\ seat' = [seat EXCEPT ![s.seat].jws = Renewed(@)]
                       /\ files' = files \cup {Renewed(seat[s.seat].jws)}
                  ELSE /\ seat' = [seat EXCEPT ![s.seat].status = "retired"]
                       /\ UNCHANGED files
  BY DEF ProviderIssues
<1>2. s.installation \in Installations
  BY DEF Inv, TypeOK
<1>3. seat' \in SeatTypes /\ LiveSeats' /\ files' \subseteq Claims
  <2>1. CASE s.action = "activate"
    BY <1>1, <1>2, <2>1, SeatChanges, LicenceTypes DEF Inv, TypeOK
  <2>2. CASE s.action # "activate"
    <3>1. s.seat \in Live /\ s.seat \in Activations /\ seat[s.seat].jws \in Claims
      BY <1>1, <2>2 DEF Live, Inv, LiveSeats
    <3>2. Renewed(seat[s.seat].jws) \in Claims
      BY <3>1, LicenceTypes
    <3>3. files \subseteq Claims
      BY DEF Inv, TypeOK
    <3>4. CASE s.action = "renew"
      <4>1. /\ seat' = [seat EXCEPT ![s.seat].jws = Renewed(@)]
            /\ files' = files \cup {Renewed(seat[s.seat].jws)}
        BY <1>1, <2>2, <3>4
      <4> QED BY <3>1, <3>2, <3>3, <4>1, SeatChanges
    <3>5. CASE s.action # "renew"
      <4>1. /\ seat' = [seat EXCEPT ![s.seat].status = "retired"]
            /\ files' = files
        BY <1>1, <2>2, <3>5
      <4> QED BY <3>1, <3>3, <4>1, SeatChanges
    <3> QED BY <3>4, <3>5
  <2> QED BY <2>1, <2>2
<1>4. UNCHANGED <<clockVars, process, row, floor, callVars, identityVars, challenge,
                  cached, incidents>>
  BY DEF ProviderIssues
<1>5. TypeOK'
  BY <1>1, <1>3, <1>4
     DEF Inv, TypeOK, SeatTypes, clockVars, callVars, identityVars
<1>6. (CallServed /\ IdentityAnchored /\ JournalKnown /\ SentAreKnown
        /\ WaitingIsKnown /\ CurrentIsAccepted)'
  BY <1>4
     DEF Inv, CallServed, Served, IdentityAnchored, JournalKnown, SentAreKnown,
         WaitingIsKnown, Prepared, CurrentIsAccepted, clockVars, callVars, identityVars
<1> QED BY <1>3, <1>5, <1>6 DEF Inv

-----------------------------------------------------------------------------
LEMMA InitInv == Init => Inv
<1> SUFFICES ASSUME Init PROVE Inv
  OBVIOUS
<1>1. TypeOK
  BY IdleCallType, ConstantsAssumption DEF Init, TypeOK, Times, NoOp, CallTypes
<1> QED
  BY <1>1, IdleCallType DEF Inv, Init, CallServed, Served, IdentityAnchored, JournalKnown,
     SentAreKnown, WaitingIsKnown, LiveSeats, CurrentIsAccepted, NoOp, Prepared

LEMMA NextInv == Inv /\ [Next]_vars => Inv'
<1> SUFFICES ASSUME Inv, [Next]_vars PROVE Inv'
  OBVIOUS
<1>1. CASE Tick \/ SetClock \/ Status \/ ObserveClock \/ Import \/ OfflineRequest
  BY <1>1, TickInv, SetClockInv, StatusInv, ObserveClockInv, ImportInv, OfflineRequestInv
<1>2. CASE Online \/ AutoRefresh
  BY <1>2, BeginInv DEF Online, AutoRefresh, Actions
<1>3. CASE ProviderChallenges \/ Prepare \/ GiveUp \/ AnswerStep
  BY <1>3, ProviderChallengesInv, PrepareInv, GiveUpInv, AnswerLicenceInv,
     AnswerDeactivatedInv, AnswerRefusedInv DEF AnswerStep
<1>4. CASE \E r \in Requests : ProviderStep(r)
  BY <1>4, ReplayInv, RefuseInv, ExecuteInv DEF ProviderStep
<1>5. CASE ChallengeExpires \/ ProviderIssues \/ Revise
  BY <1>5, ChallengeExpiresInv, ProviderIssuesInv, ReviseInv
<1>6. CASE CreateIdentity \/ Start \/ Restart \/ Stop \/ LoseIdentity
  BY <1>6, CreateIdentityInv, StartInv, RestartInv, StopInv, LoseIdentityInv
<1>7. CASE RecoverIdentity
  BY <1>7, OpenJournalInv, ArchiveIdentityInv, WriteIdentityInv, CommitIdentityInv,
     CloseJournalInv DEF RecoverIdentity
<1>8. CASE UNCHANGED vars
  BY <1>8 DEF vars, clockVars, callVars, identityVars, providerVars, Inv, TypeOK,
     CallServed, Served, IdentityAnchored, JournalKnown, SentAreKnown, WaitingIsKnown,
     LiveSeats, CurrentIsAccepted, Prepared
<1> QED BY <1>1, <1>2, <1>3, <1>4, <1>5, <1>6, <1>7, <1>8 DEF Next

\* Every state the client reaches is well typed (the types of New, acceptLicense,
\* Online and RecoverIdentity taken together).
THEOREM TypeCorrect == Spec => []TypeOK
<1>1. Inv => TypeOK
  BY DEF Inv
<1> QED BY <1>1, InitInv, NextInv, PTL DEF Spec

\* The licence in force is always the accepted one of the anchored installation,
\* whatever is imported, answered late, retired or recovered (acceptLicense,
\* RecoverIdentity).
THEOREM CurrentAlwaysAccepted == Spec => []CurrentIsAccepted
<1>1. Inv => CurrentIsAccepted
  BY DEF Inv
<1> QED BY <1>1, InitInv, NextInv, PTL DEF Spec

-----------------------------------------------------------------------------
\* What a step may do to the marks of the clock and to the identity in use.

LEMMA ClockStep ==
    ASSUME Inv, [Next]_vars
    PROVE  /\ row'.observed >= row.observed /\ row'.trusted >= row.trusted
           /\ process.running /\ process'.running /\ ~Restart =>
                 /\ process'.effective >= process.effective
                 /\ process'.identity = process.identity
<1>1. /\ row.observed \in Nat /\ row.trusted \in Nat /\ process.effective \in Nat
      /\ process.effective \in Times
  BY PartTypes, ConstantsAssumption DEF RowTypes, ProcessTypes, Times
<1>2. /\ Effective >= process.effective /\ Effective >= row.observed
  BY PartTypes, EffectiveType
<1>3. ASSUME NEW jws \in Claims, NEW server \in Times, Accept(jws, server)
      PROVE  /\ row'.trusted >= row.trusted /\ row'.observed >= row.observed
             /\ process'.effective >= process.effective
             /\ process'.identity = process.identity
  BY <1>3, AcceptTypes
<1>4. CASE Import
  <2>1. PICK jws \in files : Accept(jws, 0)
    BY <1>4 DEF Import
  <2>2. jws \in Claims /\ 0 \in Times
    BY PartTypes, ConstantsAssumption DEF TypeOK, Times
  <2> QED BY <1>3, <2>1, <2>2
<1>5. CASE AnswerLicence
  <2>1. call.answer.jws \in Claims \cup {NoJws} /\ call.answer.time \in Times
    BY PartTypes DEF CallTypes, Answers
  <2>2. CASE Accept(call.answer.jws, call.answer.time) /\ Verified(call.answer.jws)
    <3>1. call.answer.jws \in Claims
      BY <2>1, <2>2 DEF Verified
    <3> QED BY <1>3, <2>1, <2>2, <3>1
  <2>3. CASE UNCHANGED <<process, row, floor>>
    BY <1>1, <2>3
  <2> QED BY <1>5, <2>2, <2>3 DEF AnswerLicence
<1>6. CASE Tick
  BY <1>1, <1>6, InstantTypes, PartTypes DEF Tick, ProcessTypes
<1>7. CASE Status \/ ObserveClock
  BY <1>1, <1>2, <1>7, PartTypes DEF Status, ObserveClock, ProcessTypes, RowTypes
<1>8. CASE OfflineRequest \/ AnswerDeactivated \/ AnswerRefused \/ CommitIdentity
  <2>1. process' = process
    BY <1>8 DEF OfflineRequest, AnswerDeactivated, AnswerRefused, CommitIdentity, RecoveryStep
  <2>2. row'.observed = row.observed /\ row'.trusted = row.trusted
    BY <1>8, PartTypes
       DEF OfflineRequest, AnswerDeactivated, AnswerRefused, CommitIdentity, RowTypes
  <2> QED BY <1>1, <2>1, <2>2
<1>9. CASE Start \/ Restart \/ Stop
  BY <1>1, <1>9 DEF Start, Restart, Stop, Started
<1>10. CASE SetClock \/ ChallengeExpires \/ ProviderIssues \/ Revise \/ CreateIdentity
            \/ LoseIdentity \/ ProviderChallenges \/ Prepare \/ GiveUp
  BY <1>1, <1>10 DEF SetClock, ChallengeExpires, ProviderIssues, Revise, CreateIdentity,
     LoseIdentity, ProviderChallenges, Prepare, GiveUp
<1>11. CASE Online \/ AutoRefresh
  <2>1. UNCHANGED <<row, process>>
    BY <1>11 DEF Online, AutoRefresh, Begin
  <2> QED BY <1>1, <2>1
<1>12. CASE \E r \in Requests : ProviderStep(r)
  BY <1>1, <1>12 DEF ProviderStep, Replay, Refuse, Execute, Handles
<1>13. CASE OpenJournal \/ ArchiveIdentity \/ WriteIdentity \/ CloseJournal
  BY <1>1, <1>13 DEF OpenJournal, ArchiveIdentity, WriteIdentity, CloseJournal, RecoveryStep
<1>14. CASE UNCHANGED vars
  BY <1>1, <1>14 DEF vars
<1> QED BY <1>4, <1>5, <1>6, <1>7, <1>8, <1>9, <1>10, <1>11, <1>12, <1>13, <1>14
        DEF Next, AnswerStep, RecoverIdentity

\* The four things that may happen to the floors: nothing, a licence accepted,
\* an activation retired, all of them retired.
LEMMA FloorStep ==
    ASSUME Inv, [Next]_vars
    PROVE  \/ floor' = floor
           \/ \E jws \in Claims : Acceptable(jws) /\ floor' = [floor EXCEPT ![jws.seat].jws = jws]
           \/ \E a \in Activations : /\ floor[a].jws # NoJws
                                     /\ floor' = [floor EXCEPT ![a].deactivated = TRUE]
           \/ floor' = [a \in Activations |->
                           [floor[a] EXCEPT !.deactivated = floor[a].jws # NoJws]]
<1>1. CASE Import
  <2>1. PICK jws \in files : Acceptable(jws) /\ Accept(jws, 0)
    BY <1>1 DEF Import
  <2>2. jws \in Claims
    BY PartTypes DEF TypeOK
  <2> QED BY <2>1, <2>2 DEF Accept, NewFloor
<1>2. CASE AnswerLicence
  <2>1. call.answer.jws \in Claims \cup {NoJws}
    BY PartTypes DEF CallTypes, Answers
  <2> QED BY <1>2, <2>1 DEF AnswerLicence, Accept, NewFloor, Verified
<1>3. CASE AnswerDeactivated
  <2>1. CASE row.jws.seat = call.seat /\ floor' = RetiredFloor
    <3>1. call.seat \in Activations \cup {0}
      BY PartTypes DEF CallTypes
    <3>2. CASE call.seat = 0
      <4>1. 0 \notin Activations
        BY ConstantsAssumption
      <4> QED BY <2>1, <3>2, <4>1, PartTypes DEF RetiredFloor, FloorTypes
    <3>3. CASE call.seat \in Activations /\ call.seat # 0
      <4>1. row.jws # NoJws
        BY <2>1, <3>3 DEF NoJws
      <4>2. floor[call.seat].jws # NoJws
        BY <2>1, <4>1 DEF Inv, CurrentIsAccepted
      <4> QED BY <2>1, <3>3, <4>2 DEF RetiredFloor
    <3> QED BY <3>1, <3>2, <3>3
  <2>2. CASE UNCHANGED floor
    BY <2>2
  <2> QED BY <1>3, <2>1, <2>2 DEF AnswerDeactivated
<1>4. CASE CommitIdentity
  BY <1>4 DEF CommitIdentity
<1>5. CASE Tick \/ SetClock \/ Status \/ ObserveClock \/ OfflineRequest \/ AnswerRefused
  BY <1>5 DEF Tick, SetClock, Status, ObserveClock, OfflineRequest, AnswerRefused
<1>6. CASE Start \/ Restart \/ Stop
  BY <1>6 DEF Start, Restart, Stop, Started
<1>7. CASE ChallengeExpires \/ ProviderIssues \/ Revise \/ CreateIdentity
           \/ LoseIdentity \/ ProviderChallenges \/ Prepare \/ GiveUp
  BY <1>7 DEF ChallengeExpires, ProviderIssues, Revise, CreateIdentity,
     LoseIdentity, ProviderChallenges, Prepare, GiveUp
<1>8. CASE Online \/ AutoRefresh
  BY <1>8 DEF Online, AutoRefresh, Begin
<1>9. CASE \E r \in Requests : ProviderStep(r)
  BY <1>9 DEF ProviderStep, Replay, Refuse, Execute, Handles
<1>10. CASE OpenJournal \/ ArchiveIdentity \/ WriteIdentity \/ CloseJournal
  BY <1>10 DEF OpenJournal, ArchiveIdentity, WriteIdentity, CloseJournal, RecoveryStep
<1>11. CASE UNCHANGED vars
  BY <1>11 DEF vars
<1> QED BY <1>1, <1>2, <1>3, <1>4, <1>5, <1>6, <1>7, <1>8, <1>9, <1>10, <1>11
        DEF Next, AnswerStep, RecoverIdentity

\* Only an activation that had a licence is retired.
RetiredHadLicence == \A a \in Activations : floor[a].deactivated => floor[a].jws # NoJws

LEMMA FloorsGrow ==
    ASSUME Inv, RetiredHadLicence, [Next]_vars
    PROVE  /\ RetiredHadLicence'
           /\ \A a \in Activations :
                 /\ floor'[a].jws.revision >= floor[a].jws.revision
                 /\ floor'[a].jws.revision = floor[a].jws.revision
                       => floor'[a].jws = floor[a].jws
                 /\ floor[a].deactivated => floor'[a].deactivated
<1> SUFFICES ASSUME NEW a \in Activations
             PROVE  /\ floor'[a].deactivated => floor'[a].jws # NoJws
                    /\ floor'[a].jws.revision >= floor[a].jws.revision
                    /\ floor'[a].jws.revision = floor[a].jws.revision
                          => floor'[a].jws = floor[a].jws
                    /\ floor[a].deactivated => floor'[a].deactivated
  BY DEF RetiredHadLicence
<1>1. floor[a].jws.revision \in Nat /\ (floor[a].deactivated => floor[a].jws # NoJws)
  BY PartTypes DEF FloorTypes, Claims, NoJws, RetiredHadLicence
<1>2. CASE floor' = floor
  BY <1>1, <1>2
<1>3. ASSUME NEW jws \in Claims, Acceptable(jws), floor' = [floor EXCEPT ![jws.seat].jws = jws]
      PROVE  /\ floor'[a].deactivated => floor'[a].jws # NoJws
             /\ floor'[a].jws.revision >= floor[a].jws.revision
             /\ floor'[a].jws.revision = floor[a].jws.revision
                   => floor'[a].jws = floor[a].jws
             /\ floor[a].deactivated => floor'[a].deactivated
  <2>1. jws.revision \in Nat /\ jws # NoJws
    BY NoJwsIsNoClaim DEF Claims
  <2>2. CASE a = jws.seat
    <3>1. floor'[a].jws = jws /\ floor'[a].deactivated = floor[a].deactivated
      BY <1>3, <2>2, PartTypes DEF FloorTypes
    <3>2. jws.revision > floor[a].jws.revision \/ jws = floor[a].jws
      BY <1>3, <2>2 DEF Acceptable
    <3> QED BY <1>1, <2>1, <3>1, <3>2
  <2>3. CASE a # jws.seat
    <3>1. floor'[a] = floor[a]
      BY <1>3, <2>3, PartTypes DEF FloorTypes
    <3> QED BY <1>1, <3>1
  <2> QED BY <2>2, <2>3
<1>4. ASSUME NEW b \in Activations, floor[b].jws # NoJws,
             floor' = [floor EXCEPT ![b].deactivated = TRUE]
      PROVE  /\ floor'[a].deactivated => floor'[a].jws # NoJws
             /\ floor'[a].jws = floor[a].jws
             /\ floor[a].deactivated => floor'[a].deactivated
  BY <1>1, <1>4, PartTypes DEF FloorTypes
<1>5. CASE floor' = [b \in Activations |->
                        [floor[b] EXCEPT !.deactivated = floor[b].jws # NoJws]]
  <2>1. /\ floor'[a].jws = floor[a].jws
        /\ floor'[a].deactivated <=> floor[a].jws # NoJws
    BY <1>5, PartTypes DEF FloorTypes
  <2> QED BY <1>1, <2>1
<1>6. CASE \E b \in Activations : /\ floor[b].jws # NoJws
                                  /\ floor' = [floor EXCEPT ![b].deactivated = TRUE]
  <2>1. /\ floor'[a].deactivated => floor'[a].jws # NoJws
        /\ floor'[a].jws = floor[a].jws
        /\ floor[a].deactivated => floor'[a].deactivated
    BY <1>4, <1>6
  <2> QED BY <1>1, <2>1
<1> QED BY <1>2, <1>3, <1>5, <1>6, FloorStep

LEMMA Invariant == Spec => [](Inv /\ RetiredHadLicence)
<1>1. Init => Inv /\ RetiredHadLicence
  BY InitInv DEF Init, RetiredHadLicence
<1>2. Inv /\ RetiredHadLicence /\ [Next]_vars => (Inv /\ RetiredHadLicence)'
  BY NextInv, FloorsGrow
<1> QED BY <1>1, <1>2, PTL DEF Spec

\* No step puts the recorded clock back, and while the process lives nothing
\* puts its own instant back (effectiveTime, acceptLicense), whoever sets the
\* clock of the machine and however often.
THEOREM ClockIsMonotone == Spec => ClockNeverGoesBack
<1>1. Inv /\ [Next]_vars =>
        [/\ row'.observed >= row.observed /\ row'.trusted >= row.trusted
         /\ process.running /\ process'.running /\ ~Restart =>
               process'.effective >= process.effective]_vars
  BY ClockStep
<1> QED BY <1>1, Invariant, PTL DEF Spec, ClockNeverGoesBack

\* The floors only grow, so no older licence and no retired activation is ever
\* accepted again (acceptLicense), in any number of imports, answers and
\* recoveries.
THEOREM FloorsOnlyGrow == Spec => FloorsHold
<1>1. Inv /\ RetiredHadLicence /\ [Next]_vars =>
        [\A a \in Activations :
            /\ floor'[a].jws.revision >= floor[a].jws.revision
            /\ floor'[a].jws.revision = floor[a].jws.revision
                  => floor'[a].jws = floor[a].jws
            /\ floor[a].deactivated => floor'[a].deactivated]_vars
  BY FloorsGrow
<1> QED BY <1>1, Invariant, PTL DEF Spec, FloorsHold

\* One step keeps what lapsed lapsed.
LEMMA LapsedStep ==
    ASSUME Inv, RetiredHadLicence, [Next]_vars,
           row.jws # NoJws, row'.jws = row.jws, Lapsed,
           Restart => row.observed >= GraceEnd(row.jws)
    PROVE  ~WriteAllowed(Effective)'
<1> DEFINE jws == row.jws
<1>1. Inv' /\ jws \in Claims
  BY NextInv, PartTypes DEF RowTypes
<1>2. /\ jws.seat \in Activations /\ GraceEnd(jws) \in Nat
      /\ row.observed \in Nat /\ process.effective \in Nat
  BY <1>1, PartTypes, ConstantsAssumption
     DEF Claims, GraceEnd, RowTypes, ProcessTypes, Times
<1>3. /\ Effective' \in Times /\ Effective' >= process'.effective
      /\ Effective' >= row'.observed
      /\ row'.observed \in Times /\ process'.effective \in Times
  <2>1. TypeOK'
    BY <1>1 DEF Inv
  <2>2. (TypeOK => Effective \in Times /\ Effective >= process.effective
                      /\ Effective >= row.observed)'
    BY EffectiveType, PTL
  <2> QED BY <2>1, <2>2 DEF TypeOK
<1>4. Times \subseteq Nat
  BY ConstantsAssumption DEF Times
<1>5. GraceEnd(row'.jws) = GraceEnd(jws)
  OBVIOUS
<1>6. ASSUME Effective' >= GraceEnd(jws) PROVE ~WriteAllowed(Effective)'
  <2>1. ~(Effective' < GraceEnd(jws))
    BY <1>2, <1>3, <1>4, <1>6
  <2> QED BY <1>5, <2>1 DEF WriteAllowed, GraceEnd
<1>7. CASE row.observed >= GraceEnd(jws)
  <2>1. row'.observed >= row.observed
    BY ClockStep
  <2>2. Effective' \in Nat /\ row'.observed \in Nat
    BY <1>3, <1>4
  <2>3. Effective' >= GraceEnd(jws)
    BY <1>2, <1>3, <1>7, <2>1, <2>2
  <2> QED BY <1>6, <2>3
<1>8. CASE ~(row.observed >= GraceEnd(jws))
  <2>1. Served /\ ~WriteAllowed(process.effective) /\ ~Restart
    BY <1>8 DEF Lapsed
  <2> SUFFICES ASSUME WriteAllowed(Effective)' PROVE FALSE
    OBVIOUS
  <2>2. Served' /\ Verified(jws)'
    BY DEF WriteAllowed, Verified
  <2>3. /\ process'.identity = process.identity
        /\ process'.effective >= process.effective
    BY <2>1, <2>2, ClockStep DEF Served
  <2>4. Verified(jws) /\ floor[jws.seat].jws = jws
    BY <2>2, <2>3 DEF Verified, Inv, CurrentIsAccepted
  <2>5. process.effective < GraceEnd(jws)
    <3>1. Effective' < GraceEnd(jws)
      BY <1>5 DEF WriteAllowed, GraceEnd
    <3> QED BY <1>2, <1>3, <1>4, <2>3, <3>1
  <2>6. ~jws.revoked /\ ~floor'[jws.seat].deactivated
    BY DEF WriteAllowed
  <2>7. ~floor[jws.seat].deactivated /\ ~row.deactivated
    BY <1>2, <2>6, FloorsGrow DEF Inv, CurrentIsAccepted
  <2> QED BY <2>1, <2>4, <2>5, <2>6, <2>7 DEF WriteAllowed
<1> QED BY <1>7, <1>8

\* A right that lapsed does not come back without another accepted licence
\* (Status, ObserveClock, acceptLicense), for any clock and any order of events.
THEOREM RightsStayLapsed == Spec => RightsDoNotReturn
<1>1. Inv /\ RetiredHadLicence /\ [Next]_vars =>
        [/\ row.jws # NoJws /\ row'.jws = row.jws /\ Lapsed
         /\ Restart => row.observed >= GraceEnd(row.jws)
         => ~WriteAllowed(Effective)']_vars
  BY LapsedStep
<1> QED BY <1>1, Invariant, PTL DEF Spec, RightsDoNotReturn

-----------------------------------------------------------------------------
(* The seats.  A live seat is answered for by the licence in force, by a   *)
(* request that is still prepared or by a file.  What could take it away:  *)
(* a request that fails although it was executed, an answer that is not    *)
(* the one the provider keeps, another licence in force, and an identity   *)
(* that had been used before.                                              *)

\* The identities that requests, slips and seats were made for are not newer
\* than the anchored one; the one of a recovery is.
IdentitiesUsed ==
    /\ \A r \in Requests : op[r].status # "none" => op[r].installation <= anchor
    /\ \A s \in slips : s.installation <= anchor
    /\ \A a \in Activations : seat[a].status # "free" => seat[a].jws.installation <= anchor
    /\ disk.journal # 0 => disk.journal >= anchor

\* What is revoked in a licence the provider issued is revoked in its seat; the
\* licence of a seat names it, and a seat not yet given has none.
RevokedAtProvider ==
    /\ row.jws.revoked => seat[row.jws.seat].jws.revoked
    /\ \A r \in Requests : cached[r].jws.revoked => seat[cached[r].jws.seat].jws.revoked
    /\ \A jws \in files : jws.revoked => seat[jws.seat].jws.revoked
    /\ \A a \in Activations : seat[a].status = "free" => ~seat[a].jws.revoked
    /\ \A a \in Activations : seat[a].status # "free" => seat[a].jws.seat = a

\* What the provider keeps for a request: a licence, or the evidence of a
\* deactivation that happened.
KeptAnswers ==
    \A r \in Requests :
        /\ cached[r].kind # "licence" => cached[r].jws = NoJws
        /\ cached[r].kind = "deactivated" =>
              op[r].seat \in Activations /\ seat[op[r].seat].status = "retired"
        /\ cached[r].kind # "none" => op[r].status # "none"
        /\ cached[r].kind # "refused"

\* The call that waits has the seat of its request, and an answer that the
\* provider keeps or a refusal of a request it will never execute; one that
\* does not wait yet has a request that is not in the journal.
CallsAnswered ==
    /\ call.phase \in {"challenge", "prepare"} =>
          op[call.request].status = "none" /\ call.answer.kind = "none"
    /\ call.phase = "wait" =>
          /\ call.seat = op[call.request].seat
          /\ call.answer.kind \in {"licence", "deactivated"} =>
                call.answer = cached[call.request]
          /\ call.answer.kind = "refused" =>
                challenge[call.request] = "gone" /\ cached[call.request].kind = "none"

\* A request is only finished with an answer, or with a challenge that cannot be
\* used again, or under a former identity.
FinishedIsFinal ==
    \A r \in Requests :
        /\ op[r].status = "succeeded" => cached[r].kind # "none"
        /\ op[r].status = "failed" =>
              \/ challenge[r] = "gone" /\ cached[r].kind = "none"
              \/ op[r].installation # anchor

SeatParts == /\ IdentitiesUsed
             /\ RevokedAtProvider
             /\ KeptAnswers
             /\ CallsAnswered
             /\ FinishedIsFinal
             /\ SeatIsReachable

SeatsInv == Inv /\ SeatParts

LEMMA SeatTypesKnown ==
    ASSUME SeatsInv
    PROVE  /\ row \in RowTypes /\ op \in OpTypes /\ call \in CallTypes /\ seat \in SeatTypes
           /\ cached \in [Requests -> Answers] /\ files \subseteq Claims
           /\ challenge \in [Requests -> {"none", "open", "gone"}]
           /\ anchor \in Nat /\ disk.journal \in Nat /\ disk.identity \in Nat
           /\ \A r \in Requests : op[r].installation \in Nat
           /\ \A s \in slips : s.installation \in Nat
           /\ \A a \in Activations : seat[a].jws.installation \in Nat
           /\ wire \subseteq Requests
<1>1. Inv
  BY DEF SeatsInv
<1>2. /\ row \in RowTypes /\ op \in OpTypes /\ call \in CallTypes /\ seat \in SeatTypes
      /\ TypeOK
  BY <1>1, PartTypes
<1>3. \A i \in Installations \cup {0} : i \in Nat
  BY ConstantsAssumption
<1>4. \A r \in Requests : op[r].installation \in Nat
  BY <1>2, <1>3 DEF OpTypes
<1>5. \A a \in Activations : seat[a].jws.installation \in Nat
  <2>1. \A jws \in Claims \cup {NoJws} : jws.installation \in Installations \cup {0}
    BY DEF Claims, NoJws
  <2> QED BY <1>2, <1>3, <2>1 DEF SeatTypes
<1>6. \A s \in slips : s.installation \in Nat
  BY <1>2, <1>3 DEF TypeOK
<1>7. anchor \in Nat /\ disk.journal \in Nat /\ disk.identity \in Nat
  BY <1>2, <1>3 DEF TypeOK
<1> QED BY <1>2, <1>4, <1>5, <1>6, <1>7 DEF TypeOK

LEMMA NoJwsIsNobodys ==
    /\ NoJws.seat = 0 /\ 0 \notin Activations /\ ~NoJws.revoked
    /\ NoAnswer.jws = NoJws /\ NoAnswer.kind = "none"
    /\ NoCall.phase = "idle" /\ NoCall.answer = NoAnswer
BY ConstantsAssumption DEF NoJws, NoAnswer, NoCall

\* A step that leaves the seats, the journal, the answers and the licence in
\* force as they are.
LEMMA SeatsStay ==
    ASSUME SeatsInv, IdentitiesUsed',
           UNCHANGED <<op, anchor, seat, challenge, cached, files>>,
           row'.jws = row.jws, row'.deactivated = row.deactivated,
           call' = call \/ call'.phase = "idle"
    PROVE  SeatParts'
<1>1. RevokedAtProvider' /\ KeptAnswers'
  BY DEF SeatsInv, SeatParts, RevokedAtProvider, KeptAnswers
<1>2. CallsAnswered'
  BY DEF SeatsInv, SeatParts, CallsAnswered
<1>3. FinishedIsFinal'
  BY DEF SeatsInv, SeatParts, FinishedIsFinal
<1>4. SeatIsReachable'
  BY DEF SeatsInv, SeatParts, SeatIsReachable, Live, Prepared
<1> QED BY <1>1, <1>2, <1>3, <1>4 DEF SeatParts

\* The clock, the calls given up and the offline requests.
LEMMA SeatsOfClock ==
    ASSUME SeatsInv, Tick \/ SetClock \/ Status \/ ObserveClock \/ GiveUp
    PROVE  SeatParts'
<1>1. /\ UNCHANGED <<op, anchor, seat, challenge, cached, files, slips, disk>>
      /\ row'.jws = row.jws /\ row'.deactivated = row.deactivated
  BY SeatTypesKnown DEF Tick, SetClock, Status, ObserveClock, GiveUp, callVars, identityVars,
     providerVars, RowTypes
<1>2. call' = call \/ call'.phase = "idle"
  BY NoJwsIsNobodys DEF Tick, SetClock, Status, ObserveClock, GiveUp, callVars
<1>3. IdentitiesUsed'
  BY <1>1 DEF SeatsInv, SeatParts, IdentitiesUsed
<1> QED BY <1>1, <1>2, <1>3, SeatsStay

LEMMA SeatsOfOfflineRequest ==
    ASSUME SeatsInv, OfflineRequest
    PROVE  SeatParts'
<1>1. /\ UNCHANGED <<op, call, anchor, seat, challenge, cached, files, disk>>
      /\ row'.jws = row.jws /\ row'.deactivated = row.deactivated
  BY SeatTypesKnown DEF OfflineRequest, callVars, identityVars, RowTypes
<1>2. process.identity = anchor
  BY DEF OfflineRequest, SeatsInv, Inv, IdentityAnchored
<1>3. \A s \in slips' : s.installation <= anchor
  BY <1>2, SeatTypesKnown DEF OfflineRequest, SeatsInv, SeatParts, IdentitiesUsed
<1>4. IdentitiesUsed'
  BY <1>1, <1>3 DEF SeatsInv, SeatParts, IdentitiesUsed
<1> QED BY <1>1, <1>4, SeatsStay

\* Every step of a recovery but its transaction, and the end of the process.
LEMMA SeatsOfFiles ==
    ASSUME SeatsInv,
           CreateIdentity \/ Stop \/ LoseIdentity \/ OpenJournal \/ ArchiveIdentity
             \/ WriteIdentity \/ CloseJournal
    PROVE  SeatParts'
<1>1. /\ UNCHANGED <<op, anchor, seat, challenge, cached, files, slips, row>>
      /\ call' = call \/ call'.phase = "idle"
  BY NoJwsIsNobodys
     DEF CreateIdentity, Stop, LoseIdentity, OpenJournal, ArchiveIdentity, WriteIdentity,
     CloseJournal, RecoveryStep, callVars, identityVars, providerVars
<1>2. disk'.journal # 0 => disk'.journal >= anchor
  <2>1. disk.journal # 0 => disk.journal >= anchor
    BY DEF SeatsInv, SeatParts, IdentitiesUsed
  <2>2. CASE OpenJournal
    <3>1. disk' = [disk EXCEPT !.journal = Fresh, !.previous = anchor]
      BY <2>2 DEF OpenJournal
    <3>2. Fresh \in Nat /\ Fresh >= anchor
      BY SeatTypesKnown DEF Fresh, Latest
    <3>3. disk'.journal = Fresh
      BY <3>1 DEF SeatsInv, Inv, TypeOK
    <3> QED BY <3>2, <3>3
  <2>3. CASE CreateIdentity \/ LoseIdentity \/ ArchiveIdentity \/ WriteIdentity \/ Stop
    <3>1. disk'.journal = disk.journal
      BY <2>3 DEF CreateIdentity, LoseIdentity, ArchiveIdentity, WriteIdentity, Stop,
         identityVars, SeatsInv, Inv, TypeOK
    <3> QED BY <2>1, <3>1
  <2>4. CASE CloseJournal
    BY <2>4 DEF CloseJournal, SeatsInv, Inv, TypeOK
  <2> QED BY <2>2, <2>3, <2>4
<1>3. IdentitiesUsed'
  BY <1>1, <1>2 DEF SeatsInv, SeatParts, IdentitiesUsed
<1> QED BY <1>1, <1>3, SeatsStay

\* The first identity has no seat, request or slip yet: an anchor that changes
\* from none finds none.
LEMMA SeatsOfStarted ==
    ASSUME SeatsInv, Started, call' = call \/ call'.phase = "idle"
    PROVE  SeatParts'
<1>1. UNCHANGED <<op, seat, challenge, cached, files, slips, row, disk>>
  BY DEF Started, providerVars
<1>2. CASE anchor' = anchor
  <2>1. IdentitiesUsed'
    BY <1>1, <1>2 DEF SeatsInv, SeatParts, IdentitiesUsed
  <2> QED BY <1>1, <1>2, <2>1, SeatsStay
<1>3. CASE anchor' # anchor
  <2>1. anchor = 0 /\ anchor' = disk.identity /\ anchor' \in Nat /\ disk.journal = 0
    BY <1>3, SeatTypesKnown DEF Started, Usable
  <2>2. \A r \in Requests : op[r].status = "none"
    <3>1. \A r \in Requests : op[r].status # "none" => op[r].installation \in Nat \ {0}
      BY ConstantsAssumption DEF SeatsInv, Inv, JournalKnown
    <3> QED BY <2>1, <3>1 DEF SeatsInv, SeatParts, IdentitiesUsed
  <2>3. \A s \in slips : FALSE
    <3>1. \A s \in slips : s.installation \in Nat \ {0}
      BY ConstantsAssumption DEF SeatsInv, Inv, TypeOK
    <3> QED BY <2>1, <3>1 DEF SeatsInv, SeatParts, IdentitiesUsed
  <2>4. \A a \in Activations : seat[a].status # "live"
    <3>1. \A a \in Activations : seat[a].status = "live" =>
             seat[a].jws.installation \in Nat \ {0}
      BY ConstantsAssumption DEF SeatsInv, Inv, LiveSeats, Claims
    <3> QED BY <2>1, <3>1 DEF SeatsInv, SeatParts, IdentitiesUsed
  <2>5. IdentitiesUsed'
    <3>1. \A a \in Activations : seat[a].status # "free" => seat[a].jws.installation <= anchor'
      BY <2>1, SeatTypesKnown DEF SeatsInv, SeatParts, IdentitiesUsed
    <3> QED BY <1>1, <2>1, <2>2, <2>3, <3>1 DEF IdentitiesUsed
  <2>6. RevokedAtProvider' /\ KeptAnswers'
    BY <1>1 DEF SeatsInv, SeatParts, RevokedAtProvider, KeptAnswers
  <2>7. CallsAnswered'
    BY <1>1 DEF SeatsInv, SeatParts, CallsAnswered
  <2>8. FinishedIsFinal'
    BY <1>1, <2>2 DEF FinishedIsFinal
  <2>9. SeatIsReachable'
    BY <1>1, <2>4 DEF SeatIsReachable, Live
  <2> QED BY <2>5, <2>6, <2>7, <2>8, <2>9 DEF SeatParts
<1> QED BY <1>2, <1>3

LEMMA SeatsOfStart ==
    ASSUME SeatsInv, Start \/ Restart
    PROVE  SeatParts'
BY SeatsOfStarted, NoJwsIsNobodys DEF Start, Restart

\* The identity that a recovery commits is newer than every one in use, so no
\* seat is its own; what was prepared fails under the former one.
LEMMA SeatsOfCommitIdentity ==
    ASSUME SeatsInv, CommitIdentity
    PROVE  SeatParts'
<1>1. /\ UNCHANGED <<disk, call, seat, challenge, cached, files, slips>>
      /\ anchor' = disk.journal /\ anchor' \in Nat /\ anchor' > anchor
      /\ op' = Abandoned
  <2>1. disk.journal # 0 /\ disk.journal # anchor /\ disk.journal >= anchor
    BY DEF CommitIdentity, SeatsInv, SeatParts, IdentitiesUsed
  <2>2. disk.journal \in Nat /\ anchor \in Nat
    BY SeatTypesKnown
  <2>3. disk.journal > anchor
    BY <2>1, <2>2
  <2> QED BY <2>2, <2>3 DEF CommitIdentity, RecoveryStep, providerVars
<1>2. row'.jws = NoJws
  BY SeatTypesKnown DEF CommitIdentity, RowTypes
<1>3. \A r \in Requests :
         /\ op'[r].status = op[r].status \/ (Prepared(r) /\ op'[r].status = "failed")
         /\ op'[r].installation = op[r].installation /\ op'[r].seat = op[r].seat
  BY <1>1, SeatTypesKnown DEF Abandoned, Prepared, OpTypes
<1>4. \A r \in Requests : op[r].status # "none" => op[r].installation < anchor'
  BY <1>1, SeatTypesKnown DEF SeatsInv, SeatParts, IdentitiesUsed
<1>5. \A s \in slips : s.installation < anchor'
  BY <1>1, SeatTypesKnown DEF SeatsInv, SeatParts, IdentitiesUsed
<1>6. \A a \in Activations : seat[a].status # "free" => seat[a].jws.installation < anchor'
  BY <1>1, SeatTypesKnown DEF SeatsInv, SeatParts, IdentitiesUsed
<1>7. IdentitiesUsed'
  BY <1>1, <1>3, <1>4, <1>5, <1>6, SeatTypesKnown DEF IdentitiesUsed, Prepared
<1>8. RevokedAtProvider'
  BY <1>1, <1>2, NoJwsIsNobodys DEF SeatsInv, SeatParts, RevokedAtProvider
<1>9. KeptAnswers'
  BY <1>1, <1>3 DEF SeatsInv, SeatParts, KeptAnswers, Prepared
<1>10. CallsAnswered'
  <2>1. call.phase = "idle"
    BY DEF CommitIdentity, RecoveryStep, SeatsInv, Inv, CallServed, Served
  <2> QED BY <1>1, <2>1 DEF CallsAnswered
<1>11. FinishedIsFinal'
  <2>1. \A r \in Requests : op[r].status # "none" => op'[r].installation # anchor'
    BY <1>1, <1>3, <1>4, SeatTypesKnown
  <2> QED BY <1>1, <1>3, <2>1 DEF SeatsInv, SeatParts, FinishedIsFinal, Prepared
<1>12. SeatIsReachable'
  BY <1>1, <1>6, SeatTypesKnown DEF SeatIsReachable, Live
<1> QED BY <1>7, <1>8, <1>9, <1>10, <1>11, <1>12 DEF SeatParts

-----------------------------------------------------------------------------
\* The online requests.

LEMMA SeatsOfBegin ==
    ASSUME SeatsInv, NEW r \in Requests, NEW action \in Actions, Begin(r, action)
    PROVE  SeatParts'
<1>1. UNCHANGED <<op, row, anchor, disk, seat, challenge, cached, files, slips>>
  BY DEF Begin, identityVars, providerVars
<1>2. /\ call'.request = r /\ call'.answer = NoAnswer
      /\ \/ call'.phase = "wait" /\ call'.seat = op[r].seat
         \/ call'.phase = "challenge" /\ op[r].status = "none"
  BY NoJwsIsNobodys DEF Begin, NoCall, Unborn
<1>3. CallsAnswered'
  BY <1>1, <1>2, NoJwsIsNobodys DEF CallsAnswered
<1>4. IdentitiesUsed' /\ RevokedAtProvider' /\ KeptAnswers'
  BY <1>1 DEF SeatsInv, SeatParts, IdentitiesUsed, RevokedAtProvider, KeptAnswers
<1>5. FinishedIsFinal'
  BY <1>1 DEF SeatsInv, SeatParts, FinishedIsFinal
<1>6. SeatIsReachable'
  BY <1>1 DEF SeatsInv, SeatParts, SeatIsReachable, Live, Prepared
<1> QED BY <1>3, <1>4, <1>5, <1>6 DEF SeatParts

\* A challenge is opened for a request that is not in the journal, and expires
\* for any other.
LEMMA SeatsOfChallenges ==
    ASSUME SeatsInv, ProviderChallenges \/ ChallengeExpires
    PROVE  SeatParts'
<1>1. UNCHANGED <<op, row, anchor, disk, seat, cached, files, slips>>
  BY DEF ProviderChallenges, ChallengeExpires, callVars, identityVars
<1>2. \A r \in Requests : challenge[r] = "gone" =>
         challenge'[r] = "gone" \/ (ProviderChallenges /\ r = call.request)
  BY SeatTypesKnown DEF ProviderChallenges, ChallengeExpires
<1>3. ProviderChallenges => op[call.request].status = "none" /\ call.answer.kind = "none"
  BY DEF ProviderChallenges, SeatsInv, SeatParts, CallsAnswered
<1>4. call'.request = call.request /\ call'.answer = call.answer /\ call'.seat = call.seat
  BY SeatTypesKnown DEF ProviderChallenges, ChallengeExpires, callVars, CallTypes
<1>5. CallsAnswered'
  <2>1. CASE ProviderChallenges
    <3>1. call'.phase = "prepare"
      BY <2>1, SeatTypesKnown DEF ProviderChallenges, CallTypes
    <3> QED BY <1>1, <1>3, <1>4, <2>1, <3>1 DEF CallsAnswered
  <2>2. CASE ChallengeExpires
    <3>1. call' = call
      BY <2>2 DEF ChallengeExpires, callVars
    <3>2. \A r \in Requests : challenge[r] = "gone" => challenge'[r] = "gone"
      BY <2>2, SeatTypesKnown DEF ChallengeExpires
    <3>3. call.phase = "wait" => call.request \in Requests
      BY DEF SeatsInv, Inv, WaitingIsKnown
    <3> QED BY <1>1, <3>1, <3>2, <3>3 DEF SeatsInv, SeatParts, CallsAnswered
  <2> QED BY <2>1, <2>2
<1>6. IdentitiesUsed' /\ RevokedAtProvider' /\ KeptAnswers'
  BY <1>1 DEF SeatsInv, SeatParts, IdentitiesUsed, RevokedAtProvider, KeptAnswers
<1>7. FinishedIsFinal'
  BY <1>1, <1>2, <1>3 DEF SeatsInv, SeatParts, FinishedIsFinal
<1>8. SeatIsReachable'
  BY <1>1 DEF SeatsInv, SeatParts, SeatIsReachable, Live, Prepared
<1> QED BY <1>5, <1>6, <1>7, <1>8 DEF SeatParts

LEMMA SeatsOfPrepare ==
    ASSUME SeatsInv, Prepare
    PROVE  SeatParts'
<1>1. UNCHANGED <<row, anchor, disk, seat, challenge, cached, files, slips>>
  BY DEF Prepare, identityVars, providerVars
<1>2. call.request \in Requests /\ op[call.request].status = "none" /\ call.answer.kind = "none"
  BY DEF Prepare, SeatsInv, Inv, WaitingIsKnown, SeatParts, CallsAnswered
<1>3. process.identity = anchor
  BY DEF Prepare, SeatsInv, Inv, CallServed, IdentityAnchored
<1>4. /\ op'[call.request].status = "prepared" /\ op'[call.request].installation = anchor
      /\ op'[call.request].seat = call.seat
      /\ \A r \in Requests \ {call.request} : op'[r] = op[r]
  BY <1>2, <1>3, SeatTypesKnown DEF Prepare, OpTypes
<1>5. call'.request = call.request /\ call'.answer = call.answer /\ call'.seat = call.seat
      /\ call'.phase = "wait"
  BY SeatTypesKnown DEF Prepare, CallTypes
<1>6. IdentitiesUsed'
  BY <1>1, <1>4, SeatTypesKnown DEF SeatsInv, SeatParts, IdentitiesUsed
<1>7. RevokedAtProvider'
  BY <1>1 DEF SeatsInv, SeatParts, RevokedAtProvider
<1>8. KeptAnswers'
  BY <1>1, <1>2, <1>4 DEF SeatsInv, SeatParts, KeptAnswers
<1>9. CallsAnswered'
  BY <1>2, <1>4, <1>5 DEF CallsAnswered
<1>10. FinishedIsFinal'
  BY <1>1, <1>4 DEF SeatsInv, SeatParts, FinishedIsFinal
<1>11. SeatIsReachable'
  <2>1. \A r \in Requests : Prepared(r) => Prepared(r)'
    BY <1>2, <1>4 DEF Prepared
  <2> QED BY <1>1, <2>1 DEF SeatsInv, SeatParts, SeatIsReachable, Live
<1> QED BY <1>6, <1>7, <1>8, <1>9, <1>10, <1>11 DEF SeatParts

\* A licence is accepted over the one in force only if that one was retired or
\* revoked, or has the same seat.  The accepted licence answers for its own
\* seat, a prepared request and a file for theirs.
LEMMA AcceptReaches ==
    ASSUME SeatsInv, NEW jws \in Claims, NEW server \in Times,
           Acceptable(jws), Accept(jws, server),
           jws.revoked => seat[jws.seat].jws.revoked,
           UNCHANGED <<anchor, seat, cached, files>>,
           \A r \in Requests : Prepared(r) /\ cached[r].jws.seat # jws.seat => Prepared(r)'
    PROVE  SeatIsReachable' /\ RevokedAtProvider'
<1>1. row'.jws = jws /\ row'.deactivated = FALSE
  BY AcceptTypes DEF SeatsInv
<1>2. RevokedAtProvider'
  BY <1>1 DEF SeatsInv, SeatParts, RevokedAtProvider
<1>3. ASSUME NEW a \in Activations, seat[a].status = "live",
             seat[a].jws.installation = anchor, ~seat[a].jws.revoked
      PROVE  \/ row'.jws.seat = a /\ ~row'.deactivated
             \/ \E r \in Requests : Prepared(r)' /\ cached[r].jws.seat = a
             \/ \E file \in files : file.seat = a
  <2>1. CASE jws.seat = a
    BY <1>1, <2>1
  <2>2. CASE jws.seat # a
    <3>1. ~(row.jws.seat = a /\ ~row.deactivated)
      <4>1. SUFFICES ASSUME row.jws.seat = a, ~row.deactivated PROVE FALSE
        OBVIOUS
      <4>2. row.jws # NoJws
        BY <4>1, NoJwsIsNobodys
      <4>3. row.jws.revoked
        BY <2>2, <4>1, <4>2 DEF Acceptable, Bound
      <4> QED BY <1>3, <4>1, <4>3 DEF SeatsInv, SeatParts, RevokedAtProvider
    <3> QED BY <1>3, <2>2, <3>1 DEF SeatsInv, SeatParts, SeatIsReachable, Live
  <2> QED BY <2>1, <2>2
<1>4. SeatIsReachable'
  BY <1>3 DEF SeatIsReachable, Live
<1> QED BY <1>2, <1>4

LEMMA SeatsOfImport ==
    ASSUME SeatsInv, Import
    PROVE  SeatParts'
<1>1. PICK jws \in files : Verified(jws) /\ Acceptable(jws) /\ Accept(jws, 0)
  BY DEF Import
<1>2. jws \in Claims /\ 0 \in Times
  BY SeatTypesKnown, ConstantsAssumption DEF Times
<1>3. UNCHANGED <<op, call, anchor, disk, seat, challenge, cached, files, slips>>
  BY DEF Import, callVars, identityVars, providerVars
<1>4. jws.revoked => seat[jws.seat].jws.revoked
  BY DEF SeatsInv, SeatParts, RevokedAtProvider
<1>5. \A r \in Requests : Prepared(r) => Prepared(r)'
  BY <1>3 DEF Prepared
<1>6. SeatIsReachable' /\ RevokedAtProvider'
  BY <1>1, <1>2, <1>3, <1>4, <1>5, AcceptReaches
<1>7. IdentitiesUsed' /\ KeptAnswers'
  BY <1>3 DEF SeatsInv, SeatParts, IdentitiesUsed, KeptAnswers
<1>8. CallsAnswered'
  BY <1>3 DEF SeatsInv, SeatParts, CallsAnswered
<1>9. FinishedIsFinal'
  BY <1>3 DEF SeatsInv, SeatParts, FinishedIsFinal
<1> QED BY <1>6, <1>7, <1>8, <1>9 DEF SeatParts

\* A call that ends settles its own request and nothing of the provider.
LEMMA SeatsOfEnded ==
    ASSUME SeatsInv, NEW status \in {"prepared", "succeeded", "failed"},
           call.phase = "wait", Ended(status),
           status = "succeeded" => cached[call.request].kind # "none",
           status = "failed" => challenge[call.request] = "gone"
                                /\ cached[call.request].kind = "none"
    PROVE  /\ IdentitiesUsed' /\ KeptAnswers' /\ CallsAnswered' /\ FinishedIsFinal'
           /\ UNCHANGED <<anchor, seat, cached, files>>
           /\ call.request \in Requests
           /\ \A r \in Requests \ {call.request} : op'[r] = op[r]
           /\ op'[call.request].status = status
<1>1. call.request \in Requests /\ Prepared(call.request)
  BY DEF SeatsInv, Inv, WaitingIsKnown
<1>2. /\ \A r \in Requests \ {call.request} : op'[r] = op[r]
      /\ op'[call.request].status = status
      /\ op'[call.request].seat = op[call.request].seat
      /\ op'[call.request].installation = op[call.request].installation
      /\ call'.phase = "idle"
  BY <1>1, SeatTypesKnown, NoJwsIsNobodys DEF Ended, OpTypes
<1>3. UNCHANGED <<anchor, disk, seat, challenge, cached, files, slips>>
  BY DEF Ended, identityVars, providerVars
<1>4. IdentitiesUsed'
  BY <1>1, <1>2, <1>3 DEF SeatsInv, SeatParts, IdentitiesUsed, Prepared
<1>5. KeptAnswers'
  BY <1>1, <1>2, <1>3 DEF SeatsInv, SeatParts, KeptAnswers, Prepared
<1>6. CallsAnswered'
  BY <1>2 DEF CallsAnswered
<1>7. FinishedIsFinal'
  BY <1>2, <1>3 DEF SeatsInv, SeatParts, FinishedIsFinal
<1> QED BY <1>1, <1>2, <1>3, <1>4, <1>5, <1>6, <1>7

LEMMA SeatsOfAnswerLicence ==
    ASSUME SeatsInv, AnswerLicence
    PROVE  SeatParts'
<1> DEFINE jws == call.answer.jws
<1>1. /\ call.phase = "wait" /\ call.answer.kind = "licence"
      /\ call.answer = cached[call.request] /\ call.answer \in Answers
  BY SeatTypesKnown DEF AnswerLicence, Answered, SeatsInv, SeatParts, CallsAnswered, CallTypes
<1>2. call.answer.time \in Times /\ jws \in Claims \cup {NoJws}
  BY <1>1 DEF Answers
<1>3. CASE Verified(jws) /\ Acceptable(jws)
  <2>1. jws \in Claims
    BY <1>2, <1>3 DEF Verified
  <2>2. Accept(jws, call.answer.time) /\ Ended("succeeded")
    BY <1>3 DEF AnswerLicence
  <2>3. /\ IdentitiesUsed' /\ KeptAnswers' /\ CallsAnswered' /\ FinishedIsFinal'
        /\ UNCHANGED <<anchor, seat, cached, files>>
        /\ call.request \in Requests
        /\ \A r \in Requests \ {call.request} : op'[r] = op[r]
    BY <1>1, <2>2, SeatsOfEnded
  <2>4. jws.revoked => seat[jws.seat].jws.revoked
    BY <1>1, <2>3 DEF SeatsInv, SeatParts, RevokedAtProvider
  <2>5. \A r \in Requests : Prepared(r) /\ cached[r].jws.seat # jws.seat => Prepared(r)'
    BY <1>1, <2>3 DEF Prepared
  <2>6. SeatIsReachable' /\ RevokedAtProvider'
    BY <1>2, <1>3, <2>1, <2>2, <2>3, <2>4, <2>5, AcceptReaches
  <2> QED BY <2>3, <2>6 DEF SeatParts
<1>4. CASE ~(Verified(jws) /\ Acceptable(jws))
  <2>1. Ended("prepared") /\ row' = row
    BY <1>4 DEF AnswerLicence, Unaccepted
  <2>2. /\ IdentitiesUsed' /\ KeptAnswers' /\ CallsAnswered' /\ FinishedIsFinal'
        /\ UNCHANGED <<anchor, seat, cached, files>>
        /\ \A r \in Requests \ {call.request} : op'[r] = op[r]
        /\ op'[call.request].status = "prepared"
    BY <1>1, <2>1, SeatsOfEnded
  <2>3. \A r \in Requests : Prepared(r) => Prepared(r)'
    BY <2>2 DEF Prepared
  <2>4. SeatIsReachable'
    BY <2>1, <2>2, <2>3 DEF SeatsInv, SeatParts, SeatIsReachable, Live
  <2>5. RevokedAtProvider'
    BY <2>1, <2>2 DEF SeatsInv, SeatParts, RevokedAtProvider
  <2> QED BY <2>2, <2>4, <2>5 DEF SeatParts
<1> QED BY <1>3, <1>4

\* The evidence of a deactivation retires here what the provider has retired.
LEMMA SeatsOfAnswerDeactivated ==
    ASSUME SeatsInv, AnswerDeactivated
    PROVE  SeatParts'
<1>1. /\ call.phase = "wait" /\ call.answer.kind = "deactivated"
      /\ call.answer = cached[call.request] /\ call.seat = op[call.request].seat
      /\ call.request \in Requests
  BY DEF AnswerDeactivated, Answered, SeatsInv, SeatParts, CallsAnswered, Inv, WaitingIsKnown
<1>2. /\ cached[call.request].jws = NoJws /\ seat[call.seat].status = "retired"
      /\ call.seat \in Activations
  BY <1>1 DEF SeatsInv, SeatParts, KeptAnswers
<1>3. Ended("succeeded") \/ Ended("prepared")
  BY DEF AnswerDeactivated, Unaccepted
<1>4. /\ IdentitiesUsed' /\ KeptAnswers' /\ CallsAnswered' /\ FinishedIsFinal'
      /\ UNCHANGED <<anchor, seat, cached, files>>
      /\ \A r \in Requests \ {call.request} : op'[r] = op[r]
  BY <1>1, <1>3, SeatsOfEnded
<1>5. row'.jws = row.jws /\ (row'.deactivated = row.deactivated \/ row.jws.seat = call.seat)
  BY SeatTypesKnown DEF AnswerDeactivated, RowTypes
<1>6. RevokedAtProvider'
  BY <1>4, <1>5 DEF SeatsInv, SeatParts, RevokedAtProvider
<1>7. \A r \in Requests : Prepared(r) /\ cached[r].jws.seat \in Activations => Prepared(r)'
  BY <1>1, <1>2, <1>4, NoJwsIsNobodys DEF Prepared
<1>8. SeatIsReachable'
  BY <1>2, <1>4, <1>5, <1>7 DEF SeatsInv, SeatParts, SeatIsReachable, Live
<1> QED BY <1>4, <1>6, <1>8 DEF SeatParts

LEMMA SeatsOfAnswerRefused ==
    ASSUME SeatsInv, AnswerRefused
    PROVE  SeatParts'
<1>1. /\ call.phase = "wait" /\ Ended("failed") /\ row' = row
      /\ challenge[call.request] = "gone" /\ cached[call.request].kind = "none"
      /\ call.request \in Requests
  BY DEF AnswerRefused, Answered, SeatsInv, SeatParts, CallsAnswered, Inv, WaitingIsKnown
<1>2. /\ IdentitiesUsed' /\ KeptAnswers' /\ CallsAnswered' /\ FinishedIsFinal'
      /\ UNCHANGED <<anchor, seat, cached, files>>
      /\ \A r \in Requests \ {call.request} : op'[r] = op[r]
  BY <1>1, SeatsOfEnded
<1>3. cached[call.request].jws = NoJws
  BY <1>1 DEF SeatsInv, SeatParts, KeptAnswers
<1>4. RevokedAtProvider'
  BY <1>1, <1>2 DEF SeatsInv, SeatParts, RevokedAtProvider
<1>5. \A r \in Requests : Prepared(r) /\ cached[r].jws.seat \in Activations => Prepared(r)'
  BY <1>2, <1>3, NoJwsIsNobodys DEF Prepared
<1>6. SeatIsReachable'
  BY <1>1, <1>2, <1>5 DEF SeatsInv, SeatParts, SeatIsReachable, Live
<1> QED BY <1>2, <1>4, <1>6 DEF SeatParts

-----------------------------------------------------------------------------
\* The provider.

LEMMA SeatsOfReplay ==
    ASSUME SeatsInv, NEW r \in Requests, Replay(r)
    PROVE  SeatParts'
<1>1. /\ UNCHANGED <<seat, challenge, cached, op, row, anchor, disk, slips, files>>
      /\ Reply(r, cached[r]) /\ cached[r].kind \notin {"none", "refused"}
  BY DEF Replay, Handles, AnswersAgain, identityVars, SeatsInv, SeatParts, KeptAnswers
<1>2. CallsAnswered'
  <2>1. CASE call.phase = "wait" /\ call.request = r
    <3>1. /\ call'.phase = "wait" /\ call'.request = r /\ call'.seat = call.seat
          /\ call'.answer = cached[r]
      BY <1>1, <2>1, SeatTypesKnown DEF Reply, CallTypes
    <3> QED BY <1>1, <2>1, <3>1 DEF SeatsInv, SeatParts, CallsAnswered
  <2>2. CASE ~(call.phase = "wait" /\ call.request = r)
    <3>1. call' = call
      BY <1>1, <2>2 DEF Reply
    <3> QED BY <1>1, <3>1 DEF SeatsInv, SeatParts, CallsAnswered
  <2> QED BY <2>1, <2>2
<1>3. IdentitiesUsed' /\ RevokedAtProvider' /\ KeptAnswers'
  BY <1>1 DEF SeatsInv, SeatParts, IdentitiesUsed, RevokedAtProvider, KeptAnswers
<1>4. FinishedIsFinal'
  BY <1>1 DEF SeatsInv, SeatParts, FinishedIsFinal
<1>5. SeatIsReachable'
  BY <1>1 DEF SeatsInv, SeatParts, SeatIsReachable, Live, Prepared
<1> QED BY <1>2, <1>3, <1>4, <1>5 DEF SeatParts

LEMMA SeatsOfRefuse ==
    ASSUME SeatsInv, NEW r \in Requests, Refuse(r)
    PROVE  SeatParts'
<1> DEFINE answer == [NoAnswer EXCEPT !.kind = "refused"]
<1>1. /\ UNCHANGED <<seat, cached, op, row, anchor, disk, slips, files>>
      /\ Reply(r, answer) /\ cached[r].kind = "none" /\ answer.kind = "refused"
  BY DEF Refuse, Handles, AnswersAgain, identityVars, NoAnswer
<1>2. challenge'[r] = "gone" /\ \A q \in Requests : challenge[q] = "gone" => challenge'[q] = "gone"
  BY SeatTypesKnown DEF Refuse
<1>3. CallsAnswered'
  <2>1. CASE call.phase = "wait" /\ call.request = r
    <3>1. /\ call'.phase = "wait" /\ call'.request = r /\ call'.seat = call.seat
          /\ call'.answer = answer
      BY <1>1, <2>1, SeatTypesKnown DEF Reply, CallTypes
    <3> QED BY <1>1, <1>2, <2>1, <3>1 DEF SeatsInv, SeatParts, CallsAnswered
  <2>2. CASE ~(call.phase = "wait" /\ call.request = r)
    <3>1. call' = call
      BY <1>1, <2>2 DEF Reply
    <3>2. call.phase = "wait" => call.request \in Requests
      BY DEF SeatsInv, Inv, WaitingIsKnown
    <3> QED BY <1>1, <1>2, <3>1, <3>2 DEF SeatsInv, SeatParts, CallsAnswered
  <2> QED BY <2>1, <2>2
<1>4. IdentitiesUsed' /\ RevokedAtProvider' /\ KeptAnswers'
  BY <1>1 DEF SeatsInv, SeatParts, IdentitiesUsed, RevokedAtProvider, KeptAnswers
<1>5. FinishedIsFinal'
  BY <1>1, <1>2 DEF SeatsInv, SeatParts, FinishedIsFinal
<1>6. SeatIsReachable'
  BY <1>1 DEF SeatsInv, SeatParts, SeatIsReachable, Live, Prepared
<1> QED BY <1>3, <1>4, <1>5, <1>6 DEF SeatParts

\* The provider changes one seat: it stays given, of the same or an anchored
\* identity, revoked if it was, retired if it was, and a seat it makes live is
\* answered for.
LEMMA SeatsOfOneSeat ==
    ASSUME SeatsInv, NEW a \in Activations,
           \A b \in Activations \ {a} : seat'[b] = seat[b],
           seat'[a].status \in {"live", "retired"}, seat'[a].jws.seat = a,
           seat'[a].jws.installation <= anchor,
           seat[a].jws.revoked => seat'[a].jws.revoked,
           UNCHANGED <<op, row, anchor, disk>>, slips' \subseteq slips, files \subseteq files',
           \A r \in Requests :
              \/ cached'[r] = cached[r]
              \/ /\ cached[r].kind = "none"
                 /\ cached'[r].jws.revoked => seat'[cached'[r].jws.seat].jws.revoked,
           \A jws \in files' : jws \in files \/ (jws.revoked => seat'[jws.seat].jws.revoked),
           seat'[a].status = "live" =>
              \/ seat[a].status = "live" /\ seat'[a].jws.installation = seat[a].jws.installation
              \/ seat'[a].jws.installation # anchor
              \/ \E r \in Requests : Prepared(r) /\ cached'[r].jws.seat = a
              \/ \E jws \in files' : jws.seat = a
    PROVE  IdentitiesUsed' /\ RevokedAtProvider' /\ SeatIsReachable'
<1>1. IdentitiesUsed'
  BY DEF SeatsInv, SeatParts, IdentitiesUsed
<1>2. \A jws \in Claims \cup {NoJws} : jws.revoked => jws.seat \in Activations
  BY NoJwsIsNobodys DEF Claims
<1>3. \A jws \in Claims \cup {NoJws} :
         jws.revoked /\ seat[jws.seat].jws.revoked => seat'[jws.seat].jws.revoked
  BY <1>2
<1>4. /\ row.jws \in Claims \cup {NoJws}
      /\ \A r \in Requests : cached[r].jws \in Claims \cup {NoJws}
      /\ \A jws \in files : jws \in Claims \cup {NoJws}
  BY SeatTypesKnown DEF RowTypes, Answers
<1>5. RevokedAtProvider'
  <2>1. row'.jws.revoked => seat'[row'.jws.seat].jws.revoked
    BY <1>3, <1>4 DEF SeatsInv, SeatParts, RevokedAtProvider
  <2>2. \A r \in Requests : cached'[r].jws.revoked => seat'[cached'[r].jws.seat].jws.revoked
    BY <1>3, <1>4 DEF SeatsInv, SeatParts, RevokedAtProvider
  <2>3. \A jws \in files' : jws.revoked => seat'[jws.seat].jws.revoked
    BY <1>3, <1>4 DEF SeatsInv, SeatParts, RevokedAtProvider
  <2>4. \A b \in Activations : seat'[b].status = "free" => ~seat'[b].jws.revoked
    BY DEF SeatsInv, SeatParts, RevokedAtProvider
  <2>5. \A b \in Activations : seat'[b].status # "free" => seat'[b].jws.seat = b
    BY DEF SeatsInv, SeatParts, RevokedAtProvider
  <2> QED BY <2>1, <2>2, <2>3, <2>4, <2>5 DEF RevokedAtProvider
<1>6. \A r \in Requests : cached[r].jws.seat \in Activations => cached'[r] = cached[r]
  BY NoJwsIsNobodys DEF SeatsInv, SeatParts, KeptAnswers
<1>7. ASSUME NEW b \in Activations, seat'[b].status = "live",
             seat'[b].jws.installation = anchor, ~seat'[b].jws.revoked
      PROVE  \/ row.jws.seat = b /\ ~row.deactivated
             \/ \E r \in Requests : Prepared(r) /\ cached'[r].jws.seat = b
             \/ \E jws \in files' : jws.seat = b
  <2>1. CASE seat[b].status = "live" /\ seat[b].jws.installation = anchor
    <3>1. ~seat[b].jws.revoked
      BY <1>7
    <3>2. \/ row.jws.seat = b /\ ~row.deactivated
          \/ \E r \in Requests : Prepared(r) /\ cached[r].jws.seat = b
          \/ \E jws \in files : jws.seat = b
      BY <2>1, <3>1 DEF SeatsInv, SeatParts, SeatIsReachable, Live
    <3> QED BY <1>6, <3>2
  <2>2. CASE ~(seat[b].status = "live" /\ seat[b].jws.installation = anchor)
    BY <1>7, <2>2
  <2> QED BY <2>1, <2>2
<1>8. SeatIsReachable'
  BY <1>7 DEF SeatIsReachable, Live, Prepared
<1> QED BY <1>1, <1>5, <1>8

LEMMA RenewedKeeps ==
    ASSUME NEW jws \in Claims
    PROVE  /\ Renewed(jws).seat = jws.seat /\ Renewed(jws).revoked = jws.revoked
           /\ Renewed(jws).installation = jws.installation
BY DEF Renewed, Claims

LEMMA NewSeatIs ==
    ASSUME NEW a, NEW i
    PROVE  /\ NewSeat(a, i).status = "live" /\ NewSeat(a, i).jws.seat = a
           /\ NewSeat(a, i).jws.installation = i /\ ~NewSeat(a, i).jws.revoked
BY DEF NewSeat

\* The answer of an executed request is kept and, if its call still waits, told.
LEMMA SeatsOfKept ==
    ASSUME SeatsInv, NEW r \in Requests, Handles(r), Proven(r), NEW answer \in Answers,
           Keep(r, answer), challenge' = [challenge EXCEPT ![r] = "gone"],
           \/ answer.kind = "licence"
           \/ /\ answer.kind = "deactivated" /\ answer.jws = NoJws
              /\ op[r].seat \in Activations /\ seat'[op[r].seat].status = "retired",
           \A a \in Activations : seat[a].status = "retired" => seat'[a].status = "retired"
    PROVE  KeptAnswers' /\ CallsAnswered' /\ FinishedIsFinal'
<1>1. /\ cached[r].kind = "none" /\ challenge[r] = "open" /\ op' = op /\ anchor' = anchor
      /\ op[r].status # "none"
  BY DEF Proven, AnswersAgain, Handles, identityVars, SeatsInv, Inv, SentAreKnown
<1>2. /\ cached'[r] = answer /\ \A q \in Requests \ {r} : cached'[q] = cached[q]
      /\ challenge'[r] = "gone" /\ \A q \in Requests \ {r} : challenge'[q] = challenge[q]
  BY SeatTypesKnown DEF Keep
<1>3. KeptAnswers'
  BY <1>1, <1>2 DEF SeatsInv, SeatParts, KeptAnswers
<1>4. CallsAnswered'
  <2>1. CASE call.phase = "wait" /\ call.request = r
    <3>1. /\ call'.phase = "wait" /\ call'.request = r /\ call'.seat = call.seat
          /\ call'.answer = answer
      BY <2>1, SeatTypesKnown DEF Keep, Reply, CallTypes
    <3> QED BY <1>1, <1>2, <2>1, <3>1 DEF SeatsInv, SeatParts, CallsAnswered
  <2>2. CASE ~(call.phase = "wait" /\ call.request = r)
    <3>1. call' = call
      BY <2>2 DEF Keep, Reply
    <3>2. call.phase = "wait" => call.request \in Requests
      BY DEF SeatsInv, Inv, WaitingIsKnown
    <3> QED BY <1>1, <1>2, <2>2, <3>1, <3>2 DEF SeatsInv, SeatParts, CallsAnswered
  <2> QED BY <2>1, <2>2
<1>5. FinishedIsFinal'
  BY <1>1, <1>2 DEF SeatsInv, SeatParts, FinishedIsFinal
<1> QED BY <1>3, <1>4, <1>5

\* A request that is executed is still in the journal, or its identity is a
\* former one.
LEMMA ExecutedIsPrepared ==
    ASSUME SeatsInv, NEW r \in Requests, Handles(r), Proven(r)
    PROVE  Prepared(r) \/ op[r].installation # anchor
<1>1. op[r].status \in {"none", "prepared", "succeeded", "failed"} /\ op[r].status # "none"
  BY SeatTypesKnown DEF OpTypes, Handles, SeatsInv, Inv, SentAreKnown
<1> QED BY <1>1 DEF Proven, AnswersAgain, Prepared, SeatsInv, SeatParts, FinishedIsFinal

LEMMA SeatsOfExecute ==
    ASSUME SeatsInv, NEW r \in Requests, Execute(r)
    PROVE  SeatParts'
<1>1. /\ Handles(r) /\ Proven(r) /\ Executable(r)
      /\ challenge' = [challenge EXCEPT ![r] = "gone"]
      /\ UNCHANGED <<op, row, anchor, disk, slips, files>>
      /\ cached[r].kind = "none"
  BY DEF Execute, Handles, identityVars, Proven, AnswersAgain
<1>2. op[r].action \in Actions /\ op[r].installation <= anchor /\ op[r].status # "none"
      /\ op[r].installation \in Installations
  BY <1>1 DEF Handles, SeatsInv, Inv, SentAreKnown, JournalKnown, SeatParts, IdentitiesUsed
<1>3. CASE op[r].action = "activate"
  <2>1. PICK a \in Activations :
           /\ Grantable(a)
           /\ seat' = [seat EXCEPT ![a] = NewSeat(a, op[r].installation)]
           /\ Keep(r, Licence(NewSeat(a, op[r].installation).jws))
    BY <1>3 DEF Execute
  <2> DEFINE answer == Licence(NewSeat(a, op[r].installation).jws)
  <2>2. answer \in Answers /\ answer.kind = "licence"
        /\ answer.jws = NewSeat(a, op[r].installation).jws
    BY <1>2, LicenceTypes DEF SeatsInv, Licence
  <2>3. /\ \A b \in Activations \ {a} : seat'[b] = seat[b]
        /\ seat'[a] = NewSeat(a, op[r].installation) /\ seat[a].status = "free"
    BY <2>1, SeatTypesKnown DEF SeatTypes, Grantable, Free
  <2>4. ~seat[a].jws.revoked
    BY <2>3 DEF SeatsInv, SeatParts, RevokedAtProvider
  <2>5. KeptAnswers' /\ CallsAnswered' /\ FinishedIsFinal'
    BY <1>1, <2>1, <2>2, <2>3, SeatsOfKept
  <2>6. cached'[r] = answer /\ \A q \in Requests \ {r} : cached'[q] = cached[q]
    BY <2>1, SeatTypesKnown DEF Keep
  <2>7. Prepared(r) \/ op[r].installation # anchor
    BY <1>1, ExecutedIsPrepared
  <2>8. IdentitiesUsed' /\ RevokedAtProvider' /\ SeatIsReachable'
    <3> HIDE DEF answer
    <3>1. seat'[a].jws.installation = op[r].installation /\ seat'[a].status = "live"
          /\ seat'[a].jws.seat = a /\ cached'[r].jws.seat = a /\ ~cached'[r].jws.revoked
      BY <2>2, <2>3, <2>6, NewSeatIs
    <3> QED BY <1>1, <1>2, <2>3, <2>4, <2>6, <2>7, <3>1, SeatsOfOneSeat
  <2> QED BY <2>5, <2>8 DEF SeatParts
<1>4. CASE op[r].action = "refresh"
  <2> DEFINE a == op[r].seat
             answer == Licence(Renewed(seat[a].jws))
  <2>1. /\ seat' = [seat EXCEPT ![a].jws = Renewed(@)]
        /\ Keep(r, answer)
    BY <1>4 DEF Execute
  <2>2. a \in Activations /\ seat[a].status = "live" /\ seat[a].jws \in Claims
    BY <1>1, <1>4 DEF Executable, Known, Live, SeatsInv, Inv, LiveSeats
  <2>3. answer \in Answers /\ answer.kind = "licence" /\ answer.jws = Renewed(seat[a].jws)
    BY <2>2, LicenceTypes DEF SeatsInv, Licence
  <2>4. /\ \A b \in Activations \ {a} : seat'[b] = seat[b]
        /\ seat'[a].jws = Renewed(seat[a].jws) /\ seat'[a].status = "live"
    BY <2>1, <2>2, SeatTypesKnown DEF SeatTypes
  <2>5. KeptAnswers' /\ CallsAnswered' /\ FinishedIsFinal'
    BY <1>1, <2>1, <2>2, <2>3, <2>4, SeatsOfKept
  <2>6. cached'[r] = answer /\ \A q \in Requests \ {r} : cached'[q] = cached[q]
    BY <2>1, SeatTypesKnown DEF Keep
  <2>7. /\ seat[a].jws.seat = a /\ seat[a].jws.installation <= anchor
    BY <2>2 DEF SeatsInv, SeatParts, RevokedAtProvider, IdentitiesUsed
  <2>8. IdentitiesUsed' /\ RevokedAtProvider' /\ SeatIsReachable'
    <3>1. /\ seat'[a].jws.seat = a /\ seat'[a].jws.installation = seat[a].jws.installation
          /\ seat'[a].jws.revoked = seat[a].jws.revoked
          /\ cached'[r].jws.seat = a /\ cached'[r].jws.revoked = seat[a].jws.revoked
      BY <2>2, <2>3, <2>4, <2>6, <2>7, RenewedKeeps
    <3> HIDE DEF a, answer
    <3> QED BY <1>1, <2>2, <2>4, <2>6, <2>7, <3>1, SeatsOfOneSeat
  <2> QED BY <2>5, <2>8 DEF SeatParts
<1>5. CASE op[r].action = "deactivate"
  <2> DEFINE a == op[r].seat
             answer == [NoAnswer EXCEPT !.kind = "deactivated"]
  <2>1. /\ seat' = [seat EXCEPT ![a].status = "retired"]
        /\ Keep(r, answer)
    BY <1>5 DEF Execute
  <2>2. a \in Activations /\ seat[a].status = "live"
    BY <1>1, <1>5 DEF Executable, Known, Live
  <2>3. answer \in Answers /\ answer.kind = "deactivated" /\ answer.jws = NoJws
    BY LicenceTypes DEF SeatsInv, NoAnswer
  <2>4. /\ \A b \in Activations \ {a} : seat'[b] = seat[b]
        /\ seat'[a].jws = seat[a].jws /\ seat'[a].status = "retired"
    BY <2>1, <2>2, SeatTypesKnown DEF SeatTypes
  <2>5. KeptAnswers' /\ CallsAnswered' /\ FinishedIsFinal'
    BY <1>1, <2>1, <2>2, <2>3, <2>4, SeatsOfKept
  <2>6. cached'[r] = answer /\ \A q \in Requests \ {r} : cached'[q] = cached[q]
    BY <2>1, SeatTypesKnown DEF Keep
  <2>7. /\ seat[a].jws.seat = a /\ seat[a].jws.installation <= anchor
    BY <2>2 DEF SeatsInv, SeatParts, RevokedAtProvider, IdentitiesUsed
  <2>8. IdentitiesUsed' /\ RevokedAtProvider' /\ SeatIsReachable'
    <3>1. ~cached'[r].jws.revoked
      BY <2>3, <2>6, NoJwsIsNobodys
    <3> HIDE DEF a, answer
    <3> QED BY <1>1, <2>2, <2>4, <2>6, <2>7, <3>1, SeatsOfOneSeat
  <2> QED BY <2>5, <2>8 DEF SeatParts
<1> QED BY <1>2, <1>3, <1>4, <1>5 DEF Actions

\* What the provider does with files and by itself leaves the calls alone.
LEMMA CallsUntouched ==
    ASSUME SeatsInv, UNCHANGED <<op, call, anchor, challenge, cached>>,
           \A a \in Activations : seat[a].status = "retired" => seat'[a].status = "retired"
    PROVE  KeptAnswers' /\ CallsAnswered' /\ FinishedIsFinal'
<1>1. KeptAnswers'
  BY DEF SeatsInv, SeatParts, KeptAnswers
<1>2. CallsAnswered'
  BY DEF SeatsInv, SeatParts, CallsAnswered
<1>3. FinishedIsFinal'
  BY DEF SeatsInv, SeatParts, FinishedIsFinal
<1> QED BY <1>1, <1>2, <1>3

LEMMA SeatsOfProviderIssues ==
    ASSUME SeatsInv, ProviderIssues
    PROVE  SeatParts'
<1>1. PICK s \in slips :
         /\ slips' = slips \ {s}
         /\ \/ /\ s.action = "activate"
               /\ \E a \in Activations :
                     /\ Grantable(a)
                     /\ seat' = [seat EXCEPT ![a] = NewSeat(a, s.installation)]
                     /\ files' = files \cup {NewSeat(a, s.installation).jws}
            \/ /\ s.action # "activate"
               /\ s.seat \in Live /\ seat[s.seat].jws.installation = s.installation
               /\ IF s.action = "renew"
                  THEN /\ seat' = [seat EXCEPT ![s.seat].jws = Renewed(@)]
                       /\ files' = files \cup {Renewed(seat[s.seat].jws)}
                  ELSE /\ seat' = [seat EXCEPT ![s.seat].status = "retired"]
                       /\ UNCHANGED files
  BY DEF ProviderIssues
<1>2. /\ UNCHANGED <<op, call, row, anchor, disk, challenge, cached>>
      /\ s.installation <= anchor /\ slips' \subseteq slips
  BY <1>1 DEF ProviderIssues, callVars, identityVars, SeatsInv, SeatParts, IdentitiesUsed
<1>3. CASE s.action = "activate"
  <2>1. PICK a \in Activations :
           /\ Grantable(a)
           /\ seat' = [seat EXCEPT ![a] = NewSeat(a, s.installation)]
           /\ files' = files \cup {NewSeat(a, s.installation).jws}
    BY <1>1, <1>3
  <2>2. /\ \A b \in Activations \ {a} : seat'[b] = seat[b]
        /\ seat'[a] = NewSeat(a, s.installation) /\ seat[a].status = "free"
    BY <2>1, SeatTypesKnown DEF SeatTypes, Grantable, Free
  <2>3. ~seat[a].jws.revoked
    BY <2>2 DEF SeatsInv, SeatParts, RevokedAtProvider
  <2>4. KeptAnswers' /\ CallsAnswered' /\ FinishedIsFinal'
    BY <1>2, <2>2, CallsUntouched
  <2>5. /\ seat'[a].jws.installation = s.installation /\ seat'[a].status = "live"
        /\ seat'[a].jws.seat = a /\ ~NewSeat(a, s.installation).jws.revoked
    BY <2>2, NewSeatIs
  <2>6. IdentitiesUsed' /\ RevokedAtProvider' /\ SeatIsReachable'
    <3>1. \E jws \in files' : jws.seat = a
      BY <2>1, NewSeatIs
    <3>2. \A jws \in files' : jws \in files \/ ~jws.revoked
      BY <2>1, <2>5
    <3>3. files \subseteq files'
      BY <2>1
    <3> QED BY <1>2, <2>2, <2>3, <2>5, <3>1, <3>2, <3>3, SeatsOfOneSeat
  <2> QED BY <2>4, <2>6 DEF SeatParts
<1>4. CASE s.action # "activate"
  <2> DEFINE a == s.seat
  <2>1. /\ a \in Activations /\ seat[a].status = "live" /\ seat[a].jws \in Claims
        /\ seat[a].jws.seat = a /\ seat[a].jws.installation <= anchor
    BY <1>1, <1>4 DEF Live, SeatsInv, SeatParts, RevokedAtProvider, IdentitiesUsed, Inv, LiveSeats
  <2>2. CASE s.action = "renew"
    <3>1. /\ seat' = [seat EXCEPT ![a].jws = Renewed(@)]
          /\ files' = files \cup {Renewed(seat[a].jws)}
      BY <1>1, <1>4, <2>2
    <3>2. /\ \A b \in Activations \ {a} : seat'[b] = seat[b]
          /\ seat'[a].jws = Renewed(seat[a].jws) /\ seat'[a].status = "live"
      BY <2>1, <3>1, SeatTypesKnown DEF SeatTypes
    <3>3. /\ seat'[a].jws.seat = a /\ seat'[a].jws.installation = seat[a].jws.installation
          /\ seat'[a].jws.revoked = seat[a].jws.revoked
          /\ \A jws \in files' : jws \in files \/ (jws.revoked => seat'[jws.seat].jws.revoked)
      BY <2>1, <3>1, <3>2, RenewedKeeps
    <3>4. KeptAnswers' /\ CallsAnswered' /\ FinishedIsFinal'
      BY <1>2, <2>1, <3>2, CallsUntouched
    <3>5. files \subseteq files'
      BY <3>1
    <3>6. IdentitiesUsed' /\ RevokedAtProvider' /\ SeatIsReachable'
      <4> HIDE DEF a
      <4> QED BY <1>2, <2>1, <3>2, <3>3, <3>5, SeatsOfOneSeat
    <3> QED BY <3>4, <3>6 DEF SeatParts
  <2>3. CASE s.action # "renew"
    <3>1. seat' = [seat EXCEPT ![a].status = "retired"] /\ files' = files
      BY <1>1, <1>4, <2>3
    <3>2. /\ \A b \in Activations \ {a} : seat'[b] = seat[b]
          /\ seat'[a].jws = seat[a].jws /\ seat'[a].status = "retired"
      BY <2>1, <3>1, SeatTypesKnown DEF SeatTypes
    <3>3. KeptAnswers' /\ CallsAnswered' /\ FinishedIsFinal'
      BY <1>2, <2>1, <3>2, CallsUntouched
    <3>4. IdentitiesUsed' /\ RevokedAtProvider' /\ SeatIsReachable'
      <4> HIDE DEF a
      <4> QED BY <1>2, <2>1, <3>1, <3>2, SeatsOfOneSeat
    <3> QED BY <3>3, <3>4 DEF SeatParts
  <2> QED BY <2>2, <2>3
<1> QED BY <1>3, <1>4

LEMMA SeatsOfRevise ==
    ASSUME SeatsInv, Revise
    PROVE  SeatParts'
<1>1. PICK a \in Live :
         \/ seat' = [seat EXCEPT ![a].jws.revoked = TRUE]
         \/ seat' = [seat EXCEPT ![a].jws.expires = Later(@)]
  BY DEF Revise
<1>2. /\ a \in Activations /\ seat[a].status = "live" /\ seat[a].jws \in Claims
      /\ seat[a].jws.seat = a /\ seat[a].jws.installation <= anchor
  BY DEF Live, SeatsInv, SeatParts, RevokedAtProvider, IdentitiesUsed, Inv, LiveSeats
<1>3. /\ \A b \in Activations \ {a} : seat'[b] = seat[b]
      /\ seat'[a].status = "live" /\ seat'[a].jws.seat = a
      /\ seat'[a].jws.installation = seat[a].jws.installation
      /\ seat[a].jws.revoked => seat'[a].jws.revoked
  BY <1>1, <1>2, SeatTypesKnown DEF SeatTypes, Claims
<1>4. UNCHANGED <<op, call, row, anchor, disk, challenge, cached, slips, files>>
  BY DEF Revise, callVars, identityVars
<1>5. KeptAnswers' /\ CallsAnswered' /\ FinishedIsFinal'
  BY <1>2, <1>3, <1>4, CallsUntouched
<1>6. IdentitiesUsed' /\ RevokedAtProvider' /\ SeatIsReachable'
  BY <1>2, <1>3, <1>4, SeatsOfOneSeat
<1> QED BY <1>5, <1>6 DEF SeatParts

-----------------------------------------------------------------------------
LEMMA SeatsInvInit == Init => SeatsInv
<1> SUFFICES ASSUME Init PROVE SeatParts
  BY InitInv DEF SeatsInv
<1>1. /\ IdentitiesUsed /\ RevokedAtProvider
  BY NoJwsIsNobodys DEF Init, IdentitiesUsed, RevokedAtProvider, NoOp
<1>2. KeptAnswers /\ CallsAnswered /\ FinishedIsFinal
  BY NoJwsIsNobodys DEF Init, KeptAnswers, CallsAnswered, FinishedIsFinal, NoOp
<1>3. SeatIsReachable
  BY DEF Init, SeatIsReachable, Live
<1> QED BY <1>1, <1>2, <1>3 DEF SeatParts

LEMMA SeatsInvNext == SeatsInv /\ [Next]_vars => SeatsInv'
<1> SUFFICES ASSUME SeatsInv, [Next]_vars PROVE SeatParts'
  BY NextInv DEF SeatsInv
<1>1. CASE Tick \/ SetClock \/ Status \/ ObserveClock \/ GiveUp
  BY <1>1, SeatsOfClock
<1>2. CASE Import \/ OfflineRequest
  BY <1>2, SeatsOfImport, SeatsOfOfflineRequest
<1>3. CASE Online \/ AutoRefresh
  BY <1>3, SeatsOfBegin DEF Online, AutoRefresh, Actions
<1>4. CASE ProviderChallenges \/ ChallengeExpires \/ Prepare
  BY <1>4, SeatsOfChallenges, SeatsOfPrepare
<1>5. CASE AnswerStep
  BY <1>5, SeatsOfAnswerLicence, SeatsOfAnswerDeactivated, SeatsOfAnswerRefused DEF AnswerStep
<1>6. CASE \E r \in Requests : ProviderStep(r)
  BY <1>6, SeatsOfReplay, SeatsOfRefuse, SeatsOfExecute DEF ProviderStep
<1>7. CASE ProviderIssues \/ Revise
  BY <1>7, SeatsOfProviderIssues, SeatsOfRevise
<1>8. CASE CreateIdentity \/ Start \/ Restart \/ Stop \/ LoseIdentity
  BY <1>8, SeatsOfFiles, SeatsOfStart
<1>9. CASE RecoverIdentity
  BY <1>9, SeatsOfFiles, SeatsOfCommitIdentity DEF RecoverIdentity
<1>10. CASE UNCHANGED vars
  <2>1. IdentitiesUsed'
    BY <1>10 DEF SeatsInv, SeatParts, IdentitiesUsed, vars, callVars, identityVars, providerVars
  <2> QED BY <1>10, <2>1, SeatsStay DEF vars, callVars, identityVars, providerVars
<1> QED BY <1>1, <1>2, <1>3, <1>4, <1>5, <1>6, <1>7, <1>8, <1>9, <1>10 DEF Next

\* However many answers are lost, requests given up and repeated, files exchanged
\* and identities recovered, the seat that the provider holds for this
\* installation and has not revoked is in force here or can still be had: from
\* the request in the journal, or from a file (Online, acceptLicense,
\* RecoverIdentity).
THEOREM SeatsStayReachable == Spec => []SeatIsReachable
<1>1. SeatsInv => SeatIsReachable
  BY DEF SeatsInv, SeatParts
<1> QED BY <1>1, SeatsInvInit, SeatsInvNext, PTL DEF Spec
=============================================================================
