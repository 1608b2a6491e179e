--------------------- MODULE RemoteApprovalGatewayProofs --------------------
(***************************************************************************)
(* Proofs about RemoteApprovalGateway for every set of challenges,         *)
(* enrollments and callbacks: the type invariant, that a registration is   *)
(* decided once and never after its revocation, and that the table         *)
(* implements a registry of single-use approvals.                          *)
(***************************************************************************)
EXTENDS RemoteApprovalGateway, TLAPS

(***************************************************************************)
(* Types.                                                                  *)
(***************************************************************************)

LEMMA InitType == Init => TypeOK
BY GatewayAssumption DEF Init, TypeOK, Times, Places

LEMMA RegisterType ==
    ASSUME TypeOK, NEW c \in Signed, NEW e \in Enrollments, NEW t \in 0..clock,
           Register(c, e, t)
    PROVE  TypeOK'
<1>1. c.id \in Ids
  BY DEF Ids
<1>2. [signed |-> c, enrollment |-> e, state |-> "ACTIVE", event |-> None] \in Row
  BY DEF Row
<1>3. row' \in [Ids -> Row \cup {None}]
  BY <1>2 DEF TypeOK, Register
<1>4. registrations' \in [Ids -> 0..MaxRegistrations]
  <2>1. registrations[c.id] + 1 \in 0..MaxRegistrations
    BY <1>1, GatewayAssumption DEF TypeOK, Register
  <2> QED
    BY <2>1 DEF TypeOK, Register
<1> QED
  BY <1>3, <1>4 DEF TypeOK, Register

LEMMA RevokeType ==
    ASSUME TypeOK, NEW i \in Ids, Revoke(i)
    PROVE  TypeOK'
<1>1. [row[i] EXCEPT !.state = "REVOKED"] \in Row
  BY DEF TypeOK, Revoke, Row
<1>2. row' \in [Ids -> Row \cup {None}]
  BY <1>1 DEF TypeOK, Revoke
<1>3. <<i, registrations[i]>> \in Ids \X Nat
  BY GatewayAssumption DEF TypeOK
<1> QED
  BY <1>2, <1>3 DEF TypeOK, Revoke

LEMMA ResolveType ==
    ASSUME TypeOK, NEW k \in Callbacks, Resolve(k)
    PROVE  TypeOK'
<1>1. PICK i \in Ids :
          /\ row[i] # None
          /\ seen' = [seen EXCEPT ![k] = [signed |-> row[i].signed,
                                          enrollment |-> row[i].enrollment,
                                          registration |-> 0]]
  BY DEF Resolve
<1>2. [signed |-> row[i].signed, enrollment |-> row[i].enrollment, registration |-> 0] \in Seen
  BY <1>1 DEF TypeOK, Row, Seen
<1>3. seen' \in [Callbacks -> Seen \cup {None}]
  BY <1>1, <1>2 DEF TypeOK
<1> QED
  BY <1>3 DEF TypeOK, Resolve, Places

LEMMA DecideType ==
    ASSUME TypeOK, NEW k \in Callbacks, seen[k] # None, Decide(k)
    PROVE  TypeOK'
<1> DEFINE c == seen[k].signed
<1>1. seen[k] \in Seen /\ c \in Signed /\ c.id \in Ids
  BY DEF TypeOK, Seen, Ids
<1>2. row[c.id] \in Row
  BY <1>1 DEF TypeOK, Decide, Consumable
<1>3. k.event \in Events
  BY DEF Events
<1>4. row' \in [Ids -> Row \cup {None}]
  <2>1. [row[c.id] EXCEPT !.state = "CONSUMED", !.event = k.event] \in Row
    BY <1>2, <1>3 DEF Row
  <2>2. row' = [row EXCEPT ![c.id] = [row[c.id] EXCEPT !.state = "CONSUMED", !.event = k.event]]
    BY DEF Decide, TypeOK
  <2> QED
    BY <1>1, <2>1, <2>2 DEF TypeOK
<1>5. seen' \in [Callbacks -> Seen \cup {None}]
  <2>1. registrations[c.id] \in Nat
    BY <1>1, GatewayAssumption DEF TypeOK
  <2>2. [seen[k] EXCEPT !.registration = registrations[c.id]] \in Seen
    BY <1>1, <2>1 DEF Seen
  <2> QED
    BY <2>2 DEF TypeOK, Decide
<1> QED
  BY <1>4, <1>5 DEF TypeOK, Decide, Places

LEMMA EvidenceType ==
    ASSUME TypeOK, NEW k \in Callbacks, seen[k] # None
    PROVE  EvidenceOf(k) \in Evidence
BY GatewayAssumption DEF TypeOK, Seen, EvidenceOf, Evidence, Times

(***************************************************************************)
(* The inductive invariant.                                                *)
(***************************************************************************)

\* A row is its challenge's, was registered, and has an event when consumed.
RowsAreRegistered ==
    \A i \in Ids : row[i] # None =>
        /\ row[i].signed.id = i
        /\ [signed |-> row[i].signed, enrollment |-> row[i].enrollment] \in registered
        /\ row[i].state # "CONSUMED" => row[i].event = None

\* A callback past resolve holds a registered challenge and enrollment.
CopiesAreRegistered ==
    \A k \in Callbacks : pc[k] \in {"resolved", "consumed"} =>
        /\ seen[k] # None
        /\ [signed |-> seen[k].signed, enrollment |-> seen[k].enrollment] \in registered

\* A callback that consumed its challenge had passed every check.
ConsumedWasAcceptable ==
    \A k \in Callbacks : pc[k] = "consumed" =>
        Acceptable(k, seen[k].signed, seen[k].enrollment, now[k])

\* What was taken of the latest registration shows in its row.
TakenShows ==
    \A x \in Taken :
        /\ x.registration <= registrations[x.signed.id]
        /\ x.registration = registrations[x.signed.id] /\ row[x.signed.id] # None
               => row[x.signed.id].state = "CONSUMED"

\* So does what a caller was told revoked.
ToldShows ==
    \A i \in Ids, g \in Nat : <<i, g>> \in told =>
        /\ g <= registrations[i]
        /\ g = registrations[i] /\ row[i] # None => row[i].state = "REVOKED"

Inv ==
    /\ TypeOK
    /\ RowsAreRegistered
    /\ CopiesAreRegistered
    /\ ConsumedWasAcceptable
    /\ TakenShows
    /\ ToldShows
    /\ OneDecisionPerRegistration
    /\ RevocationHolds
    /\ EvidenceIsBound
    /\ EventsAreSpentOnce

LEMMA InitInv == Init => Inv
<1> SUFFICES ASSUME Init PROVE Inv
  OBVIOUS
<1>1. TypeOK
  BY InitType
<1>2. Taken = {}
  BY DEF Init, Taken, Pending
<1> QED
  BY <1>1, <1>2 DEF Init, Inv, RowsAreRegistered, CopiesAreRegistered, ConsumedWasAcceptable,
     TakenShows, ToldShows, OneDecisionPerRegistration, RevocationHolds, EvidenceIsBound,
     EventsAreSpentOnce

LEMMA TakenType == ASSUME Inv PROVE Taken \subseteq Evidence
BY EvidenceType DEF Inv, TypeOK, CopiesAreRegistered, Taken, Pending

\* The steps of the table's other users leave the callbacks alone.
LEMMA TakenUnchanged ==
    ASSUME UNCHANGED <<pc, now, seen, evidence>>
    PROVE  Taken' = Taken /\ Pending' = Pending
BY DEF Taken, Pending, EvidenceOf

LEMMA TickInv == ASSUME Inv, Tick PROVE Inv'
<1>1. TypeOK'
  BY GatewayAssumption DEF Inv, TypeOK, Tick, Times
<1>2. Taken' = Taken
  BY TakenUnchanged DEF Tick
<1> QED
  BY <1>1, <1>2 DEF Inv, Tick, RowsAreRegistered, CopiesAreRegistered, ConsumedWasAcceptable,
     Acceptable, VerifiedAt, ActiveAt, ValidChallenge, TakenShows, ToldShows,
     OneDecisionPerRegistration, RevocationHolds, EvidenceIsBound, EventsAreSpentOnce

LEMMA RegisterInv ==
    ASSUME Inv, NEW c \in Signed, NEW e \in Enrollments, NEW t \in 0..clock,
           Register(c, e, t)
    PROVE  Inv'
<1>0. TypeOK /\ c.id \in Ids
  BY DEF Inv, Ids
<1>1. TypeOK'
  BY RegisterType DEF Inv
<1>2. Taken' = Taken /\ Taken \subseteq Evidence
  BY TakenUnchanged, TakenType DEF Register
<1>3. registered \subseteq registered'
  BY DEF Register
<1>4. /\ row'[c.id] = [signed |-> c, enrollment |-> e, state |-> "ACTIVE", event |-> None]
      /\ \A i \in Ids : i # c.id => row'[i] = row[i]
  BY <1>0 DEF TypeOK, Register
<1>5. RowsAreRegistered'
  BY <1>3, <1>4 DEF Inv, RowsAreRegistered, Register
<1>6. CopiesAreRegistered' /\ ConsumedWasAcceptable'
  BY <1>3 DEF Inv, Register, CopiesAreRegistered, ConsumedWasAcceptable, Acceptable, VerifiedAt,
     ActiveAt, ValidChallenge
<1>7. /\ registrations'[c.id] = registrations[c.id] + 1
      /\ \A i \in Ids : i # c.id => registrations'[i] = registrations[i]
      /\ \A i \in Ids : registrations[i] \in Nat
  BY <1>0, GatewayAssumption DEF TypeOK, Register
<1>8. TakenShows'
  <2> SUFFICES ASSUME NEW x \in Taken
               PROVE  /\ x.registration <= registrations'[x.signed.id]
                      /\ x.registration = registrations'[x.signed.id] /\ row'[x.signed.id] # None
                             => row'[x.signed.id].state = "CONSUMED"
    BY <1>2 DEF TakenShows
  <2>1. x.registration \in Nat /\ x.signed.id \in Ids
    BY <1>2 DEF Evidence, Ids
  <2>2. x.registration <= registrations[x.signed.id]
    BY DEF Inv, TakenShows
  <2>3. CASE x.signed.id = c.id
    BY <1>7, <2>1, <2>2, <2>3
  <2>4. CASE x.signed.id # c.id
    BY <1>4, <1>7, <2>1, <2>4 DEF Inv, TakenShows
  <2> QED
    BY <2>3, <2>4
<1>9. ToldShows'
  <2> SUFFICES ASSUME NEW i \in Ids, NEW g \in Nat, <<i, g>> \in told
               PROVE  /\ g <= registrations'[i]
                      /\ g = registrations'[i] /\ row'[i] # None => row'[i].state = "REVOKED"
    BY DEF ToldShows, Register
  <2>1. /\ g <= registrations[i]
        /\ g = registrations[i] /\ row[i] # None => row[i].state = "REVOKED"
    BY DEF Inv, ToldShows
  <2> QED
    BY <1>4, <1>7, <2>1
<1>10. OneDecisionPerRegistration' /\ RevocationHolds'
  BY <1>2 DEF Inv, Register, OneDecisionPerRegistration, RevocationHolds
<1>11. EvidenceIsBound'
  BY <1>3 DEF Inv, Register, EvidenceIsBound
<1>12. EventsAreSpentOnce'
  BY <1>4 DEF Inv, EventsAreSpentOnce
<1> QED
  BY <1>1, <1>5, <1>6, <1>8, <1>9, <1>10, <1>11, <1>12 DEF Inv

LEMMA RevokeInv ==
    ASSUME Inv, NEW i \in Ids, Revoke(i)
    PROVE  Inv'
<1>0. TypeOK /\ row[i] \in Row
  BY DEF Inv, TypeOK, Revoke
<1>1. TypeOK'
  BY RevokeType DEF Inv
<1>2. Taken' = Taken /\ Taken \subseteq Evidence
  BY TakenUnchanged, TakenType DEF Revoke
<1>3. /\ row'[i] # None
      /\ row'[i].signed = row[i].signed
      /\ row'[i].enrollment = row[i].enrollment
      /\ row'[i].event = row[i].event
      /\ row'[i].state = "REVOKED"
      /\ \A j \in Ids : j # i => row'[j] = row[j]
  <2>1. row' = [row EXCEPT ![i] = [row[i] EXCEPT !.state = "REVOKED"]]
    BY DEF Revoke
  <2>2. row'[i] = [row[i] EXCEPT !.state = "REVOKED"] /\ \A j \in Ids : j # i => row'[j] = row[j]
    BY <1>0, <2>1 DEF TypeOK
  <2> QED
    BY <1>0, <2>2, GatewayAssumption DEF Row
<1>4. RowsAreRegistered'
  BY <1>3 DEF Inv, RowsAreRegistered, Revoke
<1>5. CopiesAreRegistered' /\ ConsumedWasAcceptable' /\ EvidenceIsBound'
  BY DEF Inv, Revoke, CopiesAreRegistered, ConsumedWasAcceptable, Acceptable, VerifiedAt,
     ActiveAt, ValidChallenge, EvidenceIsBound
<1>6. \A x \in Taken : ~(x.signed.id = i /\ x.registration = registrations[i])
  BY DEF Inv, TakenShows, Revoke
<1>7. TakenShows'
  BY <1>2, <1>3, <1>6 DEF Inv, TakenShows, Revoke, Evidence, Ids
<1>8. ToldShows'
  BY <1>0, <1>3, GatewayAssumption DEF Inv, ToldShows, Revoke, TypeOK
<1>9. OneDecisionPerRegistration'
  BY <1>2 DEF Inv, OneDecisionPerRegistration
<1>10. RevocationHolds'
  BY <1>2, <1>6 DEF Inv, RevocationHolds, Revoke
<1>11. EventsAreSpentOnce'
  BY <1>3 DEF Inv, EventsAreSpentOnce, Revoke
<1> QED
  BY <1>1, <1>4, <1>5, <1>7, <1>8, <1>9, <1>10, <1>11 DEF Inv

LEMMA PruneInv ==
    ASSUME Inv, NEW t \in 0..clock, PruneExpired(t)
    PROVE  Inv'
<1>1. TypeOK'
  BY DEF Inv, TypeOK, PruneExpired
<1>2. Taken' = Taken /\ Taken \subseteq Evidence
  BY TakenUnchanged, TakenType DEF PruneExpired
<1>3. \A i \in Ids : row'[i] = None \/ row'[i] = row[i]
  BY DEF PruneExpired
<1>4. RowsAreRegistered' /\ ToldShows' /\ EventsAreSpentOnce'
  BY <1>3 DEF Inv, RowsAreRegistered, ToldShows, EventsAreSpentOnce, PruneExpired
<1>5. TakenShows'
  BY <1>2, <1>3 DEF Inv, TakenShows, PruneExpired, Evidence, Ids
<1>6. CopiesAreRegistered' /\ ConsumedWasAcceptable' /\ EvidenceIsBound'
  BY DEF Inv, PruneExpired, CopiesAreRegistered, ConsumedWasAcceptable, Acceptable, VerifiedAt,
     ActiveAt, ValidChallenge, EvidenceIsBound
<1>7. OneDecisionPerRegistration' /\ RevocationHolds'
  BY <1>2 DEF Inv, OneDecisionPerRegistration, RevocationHolds, PruneExpired
<1> QED
  BY <1>1, <1>4, <1>5, <1>6, <1>7 DEF Inv

(***************************************************************************)
(* The steps of a callback.                                                *)
(***************************************************************************)

\* A callback that has not consumed yet takes nothing.
LEMMA TakenBefore ==
    ASSUME TypeOK, NEW k \in Callbacks,
           pc[k] # "consumed", pc'[k] # "consumed",
           \A l \in Callbacks : l # k => /\ pc'[l] = pc[l]
                                        /\ now'[l] = now[l]
                                        /\ seen'[l] = seen[l],
           evidence' = evidence
    PROVE  Taken' = Taken /\ Pending' = Pending
<1>1. {l \in Callbacks : pc'[l] = "consumed"} = {l \in Callbacks : pc[l] = "consumed"}
  OBVIOUS
<1>2. \A l \in Callbacks : pc[l] = "consumed" => EvidenceOf(l)' = EvidenceOf(l)
  BY DEF EvidenceOf
<1>3. Pending' = Pending
  BY <1>1, <1>2 DEF Pending
<1> QED
  BY <1>3 DEF Taken

LEMMA ReceiveInv ==
    ASSUME Inv, NEW k \in Callbacks, Receive(k)
    PROVE  Inv'
<1>1. TypeOK'
  BY DEF Inv, TypeOK, Receive, Places
<1>2. Taken' = Taken
  BY TakenBefore DEF Inv, TypeOK, Receive
<1>3. CopiesAreRegistered' /\ ConsumedWasAcceptable'
  BY DEF Inv, TypeOK, Receive, CopiesAreRegistered, ConsumedWasAcceptable, Acceptable, VerifiedAt,
     ActiveAt, ValidChallenge
<1> QED
  BY <1>1, <1>2, <1>3 DEF Inv, Receive, RowsAreRegistered, TakenShows, ToldShows,
     OneDecisionPerRegistration, RevocationHolds, EvidenceIsBound, EventsAreSpentOnce

LEMMA ResolveInv ==
    ASSUME Inv, NEW k \in Callbacks, Resolve(k)
    PROVE  Inv'
<1>0. TypeOK
  BY DEF Inv
<1>1. TypeOK'
  BY <1>0, ResolveType
<1>2. PICK i \in Ids :
          /\ row[i] # None
          /\ seen' = [seen EXCEPT ![k] = [signed |-> row[i].signed,
                                          enrollment |-> row[i].enrollment,
                                          registration |-> 0]]
  BY DEF Resolve
<1>3. /\ seen'[k] = [signed |-> row[i].signed, enrollment |-> row[i].enrollment, registration |-> 0]
      /\ \A l \in Callbacks : l # k => seen'[l] = seen[l]
  BY <1>0, <1>2 DEF TypeOK
<1>4. /\ pc[k] = "received" /\ pc'[k] = "resolved"
      /\ \A l \in Callbacks : l # k => pc'[l] = pc[l]
      /\ now' = now /\ evidence' = evidence
  BY <1>0 DEF TypeOK, Resolve
<1>5. Taken' = Taken
  BY <1>0, <1>3, <1>4, TakenBefore
<1>6. seen'[k] # None
  <2>1. seen'[k] \in Seen
    BY <1>0, <1>2, <1>3 DEF TypeOK, Row, Seen
  <2> QED
    BY <2>1, GatewayAssumption
<1>7. CopiesAreRegistered'
  BY <1>2, <1>3, <1>4, <1>6 DEF Inv, RowsAreRegistered, CopiesAreRegistered, Resolve
<1>8. ConsumedWasAcceptable'
  BY <1>3, <1>4 DEF Inv, ConsumedWasAcceptable, Acceptable, VerifiedAt, ActiveAt, ValidChallenge
<1> QED
  BY <1>1, <1>5, <1>7, <1>8 DEF Inv, Resolve, RowsAreRegistered, TakenShows, ToldShows,
     OneDecisionPerRegistration, RevocationHolds, EvidenceIsBound, EventsAreSpentOnce

\* What consume does: the latest registration's row, until now active, is
\* consumed, and its evidence is all that is added to what was taken.
LEMMA DecideEffect ==
    ASSUME Inv, NEW k \in Callbacks, Decide(k)
    PROVE  /\ seen[k] \in Seen
           /\ seen[k].signed.id \in Ids
           /\ row[seen[k].signed.id] \in Row
           /\ row[seen[k].signed.id].state = "ACTIVE"
           /\ LET i == seen[k].signed.id
              IN  /\ row'[i] # None
                  /\ row'[i].signed = row[i].signed
                  /\ row'[i].enrollment = row[i].enrollment
                  /\ row'[i].event = k.event
                  /\ row'[i].state = "CONSUMED"
                  /\ \A j \in Ids : j # i => row'[j] = row[j]
                  /\ EvidenceOf(k)' = [callback |-> k, signed |-> seen[k].signed,
                                       enrollment |-> seen[k].enrollment,
                                       registration |-> registrations[i], now |-> now[k]]
           /\ Taken' = Taken \cup {EvidenceOf(k)'}
           /\ Pending' = Pending \cup {EvidenceOf(k)'}
<1> DEFINE i == seen[k].signed.id
<1>0. TypeOK /\ seen[k] # None
  BY DEF Inv, CopiesAreRegistered, Decide
<1>1. seen[k] \in Seen /\ i \in Ids
  BY <1>0 DEF TypeOK, Seen, Ids
<1>2. row[i] \in Row /\ row[i].state = "ACTIVE"
  BY <1>0, <1>1 DEF TypeOK, Decide, Consumable
<1>3. row'[i] = [row[i] EXCEPT !.state = "CONSUMED", !.event = k.event]
      /\ \A j \in Ids : j # i => row'[j] = row[j]
  <2>1. row' = [row EXCEPT ![i] = [row[i] EXCEPT !.state = "CONSUMED", !.event = k.event]]
    BY <1>0, <1>1 DEF Decide, TypeOK
  <2> QED
    BY <1>0, <1>1, <2>1 DEF TypeOK
<1>4. /\ row'[i] # None
      /\ row'[i].signed = row[i].signed
      /\ row'[i].enrollment = row[i].enrollment
      /\ row'[i].event = k.event
      /\ row'[i].state = "CONSUMED"
  <2>1. k.event \in Events
    BY DEF Events
  <2>2. row'[i] \in Row
    BY <1>2, <1>3, <2>1 DEF Row
  <2>3. row'[i] # None
    BY <2>2, GatewayAssumption
  <2>4. /\ row'[i].signed = row[i].signed
        /\ row'[i].enrollment = row[i].enrollment
        /\ row'[i].event = k.event
        /\ row'[i].state = "CONSUMED"
    BY <1>2, <1>3 DEF Row
  <2> QED
    BY <2>3, <2>4
<1>5. /\ seen'[k] = [seen[k] EXCEPT !.registration = registrations[i]]
      /\ \A l \in Callbacks : l # k => seen'[l] = seen[l]
  BY <1>0 DEF TypeOK, Decide
<1>6. /\ pc[k] = "resolved" /\ pc'[k] = "consumed"
      /\ \A l \in Callbacks : l # k => pc'[l] = pc[l]
      /\ now' = now /\ evidence' = evidence
  BY <1>0 DEF TypeOK, Decide
<1>7. EvidenceOf(k)' = [callback |-> k, signed |-> seen[k].signed,
                        enrollment |-> seen[k].enrollment,
                        registration |-> registrations[i], now |-> now[k]]
  BY <1>1, <1>5, <1>6 DEF EvidenceOf, Seen
<1>8. Pending' = Pending \cup {EvidenceOf(k)'}
  <2>1. \A l \in Callbacks : pc[l] = "consumed" => EvidenceOf(l)' = EvidenceOf(l)
    BY <1>5, <1>6 DEF EvidenceOf
  <2>2. {l \in Callbacks : pc'[l] = "consumed"} = {l \in Callbacks : pc[l] = "consumed"} \cup {k}
    BY <1>6
  <2> QED
    BY <2>1, <2>2 DEF Pending
<1>9. Taken' = Taken \cup {EvidenceOf(k)'}
  BY <1>6, <1>8 DEF Taken
<1> QED
  BY <1>1, <1>2, <1>3, <1>4, <1>7, <1>8, <1>9

LEMMA DecideInv ==
    ASSUME Inv, NEW k \in Callbacks, Decide(k)
    PROVE  Inv'
<1>0. TypeOK /\ seen[k] # None
  BY DEF Inv, CopiesAreRegistered, Decide
<1>1. TypeOK'
  BY <1>0, DecideType
<1>2. PICK i \in Ids : i = seen[k].signed.id
  BY DecideEffect
<1>3. /\ row[i] \in Row
      /\ row[i].state = "ACTIVE"
      /\ row'[i] # None
      /\ row'[i].signed = row[i].signed
      /\ row'[i].enrollment = row[i].enrollment
      /\ row'[i].event = k.event
      /\ row'[i].state = "CONSUMED"
      /\ \A j \in Ids : j # i => row'[j] = row[j]
  BY <1>2, DecideEffect
<1>4. PICK x : x = EvidenceOf(k)'
  OBVIOUS
<1>5. /\ x = [callback |-> k, signed |-> seen[k].signed, enrollment |-> seen[k].enrollment,
              registration |-> registrations[i], now |-> now[k]]
      /\ Taken' = Taken \cup {x}
  BY <1>2, <1>4, DecideEffect
<1>6. x.signed.id = i /\ x.registration = registrations[i]
  BY <1>2, <1>5
<1>7. UNCHANGED <<now, evidence, registrations, registered, told>>
  BY DEF Decide
<1>8. row[i] # None
  BY <1>3, GatewayAssumption
<1>9. \A y \in Taken : ~(y.signed.id = i /\ y.registration = registrations[i])
  BY <1>3, <1>8 DEF Inv, TakenShows
<1>10. <<i, registrations[i]>> \notin told
  <2>1. registrations[i] \in Nat
    BY <1>0, GatewayAssumption DEF TypeOK
  <2> QED
    BY <1>3, <1>8, <2>1 DEF Inv, ToldShows
<1>11. RowsAreRegistered'
  BY <1>3, <1>7, <1>8 DEF Inv, RowsAreRegistered
<1>12. /\ \A l \in Callbacks : l # k => seen'[l] = seen[l] /\ pc'[l] = pc[l]
       /\ seen'[k] = [seen[k] EXCEPT !.registration = registrations[i]]
       /\ seen[k] \in Seen
       /\ pc[k] = "resolved"
       /\ Acceptable(k, seen[k].signed, seen[k].enrollment, now[k])
  BY <1>0, <1>2 DEF TypeOK, Decide
<1>13. /\ seen'[k] # None
       /\ seen'[k].signed = seen[k].signed
       /\ seen'[k].enrollment = seen[k].enrollment
  <2>1. registrations[i] \in Nat
    BY <1>0, GatewayAssumption DEF TypeOK
  <2>2. seen'[k] \in Seen
    BY <1>12, <2>1 DEF Seen
  <2>3. seen'[k] # None
    BY <2>2, GatewayAssumption
  <2>4. seen'[k].signed = seen[k].signed /\ seen'[k].enrollment = seen[k].enrollment
    BY <1>12 DEF Seen
  <2> QED
    BY <2>3, <2>4
<1>14. CopiesAreRegistered'
  BY <1>7, <1>12, <1>13 DEF Inv, CopiesAreRegistered
<1>15. ConsumedWasAcceptable'
  <2> SUFFICES ASSUME NEW l \in Callbacks, pc'[l] = "consumed"
               PROVE  Acceptable(l, seen'[l].signed, seen'[l].enrollment, now'[l])
    BY DEF ConsumedWasAcceptable, Acceptable, VerifiedAt, ActiveAt, ValidChallenge
  <2>1. CASE l = k
    BY <1>7, <1>12, <1>13, <2>1
  <2>2. CASE l # k
    BY <1>7, <1>12, <2>2 DEF Inv, ConsumedWasAcceptable
  <2> QED
    BY <2>1, <2>2
<1>16. TakenShows'
  <2>1. Taken \subseteq Evidence
    BY TakenType
  <2>2. registrations[i] <= registrations[i]
    BY <1>0, GatewayAssumption DEF TypeOK
  <2>3. \A y \in Taken : /\ y.registration <= registrations'[y.signed.id]
                         /\ y.registration = registrations'[y.signed.id] /\ row'[y.signed.id] # None
                                => row'[y.signed.id].state = "CONSUMED"
    BY <1>3, <1>7, <2>1 DEF Inv, TakenShows, Evidence, Ids
  <2> QED
    BY <1>3, <1>5, <1>6, <1>7, <2>2, <2>3 DEF TakenShows
<1>17. ToldShows'
  BY <1>0, <1>3, <1>7, <1>10, GatewayAssumption DEF Inv, ToldShows, TypeOK
<1>18. OneDecisionPerRegistration'
  BY <1>5, <1>6, <1>9 DEF Inv, OneDecisionPerRegistration, SameRegistration
<1>19. RevocationHolds'
  BY <1>5, <1>6, <1>7, <1>10 DEF Inv, RevocationHolds
<1>20. EvidenceIsBound'
  BY <1>7 DEF Inv, EvidenceIsBound
<1>21. EventsAreSpentOnce'
  <2>1. \A j \in Ids : row[j] # None => row[j].event # k.event
    BY DEF Decide, Consumable
  <2> QED
    BY <1>3, <2>1 DEF Inv, EventsAreSpentOnce
<1> QED
  BY <1>1, <1>11, <1>14, <1>15, <1>16, <1>17, <1>18, <1>19, <1>20, <1>21 DEF Inv

\* A call that ends takes at most what it had pending with it.
LEMMA FinishEffect ==
    ASSUME Inv, NEW k \in Callbacks, Finish(k)
    PROVE  /\ pc'[k] = "done"
           /\ \A l \in Callbacks : l # k => /\ pc'[l] = pc[l]
                                          /\ now'[l] = now[l]
                                          /\ seen'[l] = seen[l]
           /\ pc' \in [Callbacks -> Places]
           /\ now' \in [Callbacks -> Times]
           /\ seen' \in [Callbacks -> Seen \cup {None}]
           /\ Pending' = {EvidenceOf(l) : l \in {m \in Callbacks : pc[m] = "consumed"} \ {k}}
<1>1. /\ pc'[k] = "done"
      /\ \A l \in Callbacks : l # k => /\ pc'[l] = pc[l]
                                     /\ now'[l] = now[l]
                                     /\ seen'[l] = seen[l]
  BY DEF Inv, TypeOK, Finish
<1>2. /\ pc' \in [Callbacks -> Places]
      /\ now' \in [Callbacks -> Times]
      /\ seen' \in [Callbacks -> Seen \cup {None}]
  BY GatewayAssumption DEF Inv, TypeOK, Finish, Places, Times
<1>3. {m \in Callbacks : pc'[m] = "consumed"} = {m \in Callbacks : pc[m] = "consumed"} \ {k}
  BY <1>1
<1>4. \A l \in Callbacks : l # k => EvidenceOf(l)' = EvidenceOf(l)
  BY <1>1 DEF EvidenceOf
<1>5. Pending' = {EvidenceOf(l) : l \in {m \in Callbacks : pc[m] = "consumed"} \ {k}}
  BY <1>3, <1>4 DEF Pending
<1> QED
  BY <1>1, <1>2, <1>5

LEMMA FinishInv ==
    ASSUME Inv, NEW k \in Callbacks, Finish(k), Taken' \subseteq Taken,
           UNCHANGED <<row, clock, registrations, registered, told>>,
           evidence' \subseteq Evidence, EvidenceIsBound'
    PROVE  Inv'
<1>1. TypeOK'
  BY FinishEffect DEF Inv, TypeOK
<1>2. CopiesAreRegistered' /\ ConsumedWasAcceptable'
  BY FinishEffect DEF Inv, CopiesAreRegistered, ConsumedWasAcceptable, Acceptable, VerifiedAt,
     ActiveAt, ValidChallenge
<1> QED
  BY <1>1, <1>2 DEF Inv, RowsAreRegistered, TakenShows, ToldShows,
     OneDecisionPerRegistration, RevocationHolds, EventsAreSpentOnce

LEMMA ReturnInv ==
    ASSUME Inv, NEW k \in Callbacks, Return(k)
    PROVE  Inv'
<1>1. Taken' \subseteq Taken
  BY FinishEffect DEF Return, Taken, Pending
<1>2. seen[k] # None /\ TypeOK /\ pc[k] = "consumed"
  BY DEF Inv, CopiesAreRegistered, Return
<1>3. evidence' \subseteq Evidence
  BY <1>2, EvidenceType DEF TypeOK, Return
<1>4. EvidenceIsBound'
  <2> DEFINE c == seen[k].signed
             e == seen[k].enrollment
  <2>1. Acceptable(k, c, e, now[k]) /\ [signed |-> c, enrollment |-> e] \in registered
    BY <1>2 DEF Inv, ConsumedWasAcceptable, CopiesAreRegistered
  <2>2. c \in Signed
    BY <1>2 DEF TypeOK, Seen
  <2>3. k.decision \in {"AllowOnce", "DenyAction"} => c.subject = "Action"
    BY <2>1, <2>2, GatewayAssumption DEF Acceptable, VerifiedAt, ValidChallenge
  <2>4. /\ EvidenceOf(k).callback = k /\ EvidenceOf(k).signed = c
        /\ EvidenceOf(k).enrollment = e /\ EvidenceOf(k).now = now[k]
    BY DEF EvidenceOf
  <2>5. evidence' = evidence \cup {EvidenceOf(k)} /\ registered' = registered
    BY DEF Return
  <2> QED
    BY <2>1, <2>3, <2>4, <2>5 DEF Inv, EvidenceIsBound, Acceptable, VerifiedAt, ActiveAt
<1> QED
  BY <1>1, <1>3, <1>4, FinishInv DEF Return

LEMMA GiveUpInv ==
    ASSUME Inv, NEW k \in Callbacks, GiveUp(k)
    PROVE  Inv'
<1>1. Taken' \subseteq Taken
  BY FinishEffect DEF GiveUp, Taken, Pending
<1>2. evidence' \subseteq Evidence /\ EvidenceIsBound'
  BY DEF Inv, TypeOK, GiveUp, EvidenceIsBound
<1> QED
  BY <1>1, <1>2, FinishInv DEF GiveUp

LEMMA StutterInv == ASSUME Inv, UNCHANGED vars PROVE Inv'
<1>1. Taken' = Taken
  BY TakenUnchanged DEF vars
<1> QED
  BY <1>1 DEF vars, Inv, TypeOK, RowsAreRegistered, CopiesAreRegistered, ConsumedWasAcceptable,
     Acceptable, VerifiedAt, ActiveAt, ValidChallenge, TakenShows, ToldShows,
     OneDecisionPerRegistration, RevocationHolds, EvidenceIsBound, EventsAreSpentOnce

\* The invariant of the gateway holds in every reachable state.
THEOREM GatewayInvariant == Spec => []Inv
<1>1. Init => Inv
  BY InitInv
<1>2. Inv /\ [Next]_vars => Inv'
  <2> SUFFICES ASSUME Inv, [Next]_vars PROVE Inv'
    OBVIOUS
  <2>1. CASE UNCHANGED vars
    BY <2>1, StutterInv
  <2>2. CASE Tick
    BY <2>2, TickInv
  <2>3. CASE \E c \in Signed, e \in Enrollments, t \in 0..clock : Register(c, e, t)
    BY <2>3, RegisterInv
  <2>4. CASE \E i \in Ids : Revoke(i)
    BY <2>4, RevokeInv
  <2>5. CASE \E t \in 0..clock : PruneExpired(t)
    BY <2>5, PruneInv
  <2>6. ASSUME NEW k \in Callbacks,
               Receive(k) \/ Resolve(k) \/ Decide(k) \/ Return(k) \/ GiveUp(k)
        PROVE  Inv'
    BY <2>6, ReceiveInv, ResolveInv, DecideInv, ReturnInv, GiveUpInv
  <2> QED
    BY <2>1, <2>2, <2>3, <2>4, <2>5, <2>6 DEF Next
<1> QED
  BY <1>1, <1>2, PTL DEF Spec

\* Every variable of the gateway keeps its type.
THEOREM GatewayTypes == Spec => []TypeOK
BY GatewayInvariant, PTL DEF Inv

\* However callbacks, revocations, cleanups and registrations interleave, a
\* registration of a challenge is decided by one callback at most.
THEOREM DecidedOnce == Spec => []OneDecisionPerRegistration
BY GatewayInvariant, PTL DEF Inv

\* No callback decides a registration whose revocation was acknowledged.
THEOREM RevokedIsNeverDecided == Spec => []RevocationHolds
BY GatewayInvariant, PTL DEF Inv

\* Evidence is bound to a registered challenge and enrollment in force.
THEOREM EvidenceBinding == Spec => []EvidenceIsBound
BY GatewayInvariant, PTL DEF Inv

\* A provider event is spent on one challenge of the table.
THEOREM EventsUnique == Spec => []EventsAreSpentOnce
BY GatewayInvariant, PTL DEF Inv

(***************************************************************************)
(* What a step does to the rows.                                           *)
(***************************************************************************)

RowIsFinal(i) ==
    \/ row'[i] = row[i]
    \/ row'[i] = None /\ row[i].signed.expires <= clock
    \/ /\ row[i].state = "ACTIVE"
       /\ row'[i] # None
       /\ row'[i].signed = row[i].signed
       /\ row'[i].enrollment = row[i].enrollment

LEMMA StepKeepsRows ==
    ASSUME Inv, [Next]_vars, NEW i \in Ids, row[i] # None
    PROVE  RowIsFinal(i)
<1>0. TypeOK /\ row[i] \in Row
  BY DEF Inv, TypeOK
<1>1. CASE row' = row
  BY <1>1 DEF RowIsFinal
<1>2. ASSUME NEW c \in Signed, NEW e \in Enrollments, NEW t \in 0..clock, Register(c, e, t)
      PROVE  RowIsFinal(i)
  BY <1>0, <1>2 DEF Register, Conflicts, TypeOK, RowIsFinal
<1>3. ASSUME NEW j \in Ids, Revoke(j) PROVE RowIsFinal(i)
  <2>1. CASE j # i
    BY <1>0, <1>3, <2>1 DEF Revoke, TypeOK, RowIsFinal
  <2>2. CASE j = i
    <3>1. row'[i] = [row[i] EXCEPT !.state = "REVOKED"]
      BY <1>0, <1>3, <2>2 DEF Revoke, TypeOK
    <3>2. row'[i] \in Row
      BY <1>0, <3>1 DEF Row
    <3>3. row'[i] # None
      BY <3>2, GatewayAssumption
    <3>4. row'[i].signed = row[i].signed /\ row'[i].enrollment = row[i].enrollment
      BY <1>0, <3>1 DEF Row
    <3>5. CASE row[i].state = "ACTIVE"
      BY <3>3, <3>4, <3>5 DEF RowIsFinal
    <3>6. CASE row[i].state = "REVOKED"
      <4>1. row'[i] = row[i]
        BY <1>0, <3>1, <3>6 DEF Row
      <4> QED
        BY <4>1 DEF RowIsFinal
    <3> QED
      BY <1>3, <2>2, <3>5, <3>6 DEF Revoke
  <2> QED
    BY <2>1, <2>2
<1>4. ASSUME NEW t \in 0..clock, PruneExpired(t) PROVE RowIsFinal(i)
  <2>1. CASE ~ Expired(i, t)
    BY <1>4, <2>1 DEF PruneExpired, RowIsFinal
  <2>2. CASE Expired(i, t)
    <3>1. row'[i] = None
      BY <1>4, <2>2 DEF PruneExpired
    <3>2. row[i].signed.expires <= t /\ t <= clock /\ clock \in Nat /\ t \in Nat
      BY <1>0, <1>4, <2>2, GatewayAssumption DEF Expired, TypeOK, Times
    <3>3. row[i].signed.expires \in Nat
      BY <1>0, GatewayAssumption DEF Row
    <3>4. row[i].signed.expires <= clock
      BY <3>2, <3>3
    <3> QED
      BY <3>1, <3>4 DEF RowIsFinal
  <2> QED
    BY <2>1, <2>2
<1>5. ASSUME NEW k \in Callbacks, Decide(k) PROVE RowIsFinal(i)
  BY <1>5, DecideEffect DEF RowIsFinal
<1> QED
  <2>1. CASE Tick
    BY <1>1, <2>1 DEF Tick
  <2>2. ASSUME NEW k \in Callbacks, Receive(k) \/ Resolve(k) \/ Return(k) \/ GiveUp(k)
        PROVE  row' = row
    BY <2>2 DEF Receive, Resolve, Return, GiveUp
  <2> QED
    BY <1>1, <1>2, <1>3, <1>4, <1>5, <2>1, <2>2 DEF Next, vars

\* A revoked or consumed row never changes, an active one keeps its challenge
\* and enrollment, and a row disappears only after its challenge's expiry.
THEOREM RowsAreFinal == Spec => RecordsAreFinal
<1>1. Inv /\ [Next]_vars =>
          [\A i \in Ids : row[i] # None =>
              \/ row'[i] = row[i]
              \/ row'[i] = None /\ row[i].signed.expires <= clock
              \/ /\ row[i].state = "ACTIVE"
                 /\ row'[i] # None
                 /\ row'[i].signed = row[i].signed
                 /\ row'[i].enrollment = row[i].enrollment]_vars
  BY StepKeepsRows DEF RowIsFinal
<1> QED
  BY <1>1, GatewayInvariant, PTL DEF Spec, RecordsAreFinal

(***************************************************************************)
(* The refinement.                                                         *)
(***************************************************************************)

LEMMA StatusCases ==
    /\ StatusOf(None) = "unknown"
    /\ \A r \in Row : /\ r.state = "ACTIVE" => StatusOf(r) = "open"
                      /\ r.state = "REVOKED" => StatusOf(r) = "withdrawn"
                      /\ r.state = "CONSUMED" => StatusOf(r) = "decided"
BY GatewayAssumption DEF StatusOf

LEMMA RefineInit == Init => SingleUse!Init
BY DEF Init, SingleUse!Init, StatusOf, Status, SpentEvent, Answers, Pending

\* A step that changes one row changes one approval.
LEMMA OneRow ==
    ASSUME TypeOK, NEW i \in Ids, row'[i] \in Row,
           \A j \in Ids : j # i => row'[j] = row[j]
    PROVE  /\ Status' = [Status EXCEPT ![i] = StatusOf(row'[i])]
           /\ SpentEvent' = [SpentEvent EXCEPT ![i] = row'[i].event]
<1>1. row'[i] # None
  BY GatewayAssumption
<1>2. \A j \in Ids : j # i => StatusOf(row'[j]) = StatusOf(row[j])
  OBVIOUS
<1>3. Status' = [j \in Ids |-> StatusOf(row'[j])]
  BY DEF Status, StatusOf
<1>4. Status' = [Status EXCEPT ![i] = StatusOf(row'[i])]
  BY <1>2, <1>3 DEF Status
<1> QED
  BY <1>1, <1>4 DEF SpentEvent

LEMMA RefineRegister ==
    ASSUME Inv, NEW c \in Signed, NEW e \in Enrollments, NEW t \in 0..clock, Register(c, e, t)
    PROVE  SingleUse!Open(c.id)
<1>0. TypeOK /\ c.id \in Ids
  BY DEF Inv, Ids
<1>1. /\ row[c.id] = None
      /\ row' = [row EXCEPT ![c.id] = [signed |-> c, enrollment |-> e,
                                       state |-> "ACTIVE", event |-> None]]
      /\ registrations' = [registrations EXCEPT ![c.id] = registrations[c.id] + 1]
      /\ evidence' = evidence
  BY <1>0 DEF Register, Conflicts
<1>2. Pending' = Pending
  BY TakenUnchanged DEF Register
<1>4. /\ row'[c.id] = [signed |-> c, enrollment |-> e, state |-> "ACTIVE", event |-> None]
      /\ \A i \in Ids : i # c.id => row'[i] = row[i]
  BY <1>0, <1>1 DEF TypeOK
<1>5. row'[c.id] \in Row /\ row'[c.id].event = None /\ row'[c.id].state = "ACTIVE"
  BY <1>4 DEF Row
<1>6. Status' = [Status EXCEPT ![c.id] = "open"]
  BY <1>0, <1>4, <1>5, OneRow, StatusCases
<1>7. SpentEvent' = SpentEvent
  BY <1>0, <1>1, <1>4, <1>5 DEF SpentEvent
<1>8. Status[c.id] = "unknown"
  BY <1>0, <1>1, StatusCases DEF Status
<1>9. Answers(Pending)' = Answers(Pending) /\ Answers(evidence)' = Answers(evidence)
  BY <1>1, <1>2 DEF Answers, AnswerOf
<1> QED
  BY <1>1, <1>6, <1>7, <1>8, <1>9 DEF SingleUse!Open

LEMMA RefineRevoke ==
    ASSUME Inv, NEW i \in Ids, Revoke(i)
    PROVE  SingleUse!Withdraw(i) \/ UNCHANGED SingleUse!vars
<1>0. TypeOK /\ row[i] \in Row
  BY DEF Inv, TypeOK, Revoke
<1>1. row'[i] = [row[i] EXCEPT !.state = "REVOKED"] /\ \A j \in Ids : j # i => row'[j] = row[j]
  BY <1>0 DEF TypeOK, Revoke
<1>2. row'[i] \in Row /\ row'[i].state = "REVOKED" /\ row'[i].event = row[i].event
  BY <1>0, <1>1 DEF Row
<1>3. Pending' = Pending /\ evidence' = evidence /\ registrations' = registrations
  BY TakenUnchanged DEF Revoke
<1>4. Answers(Pending)' = Answers(Pending) /\ Answers(evidence)' = Answers(evidence)
  BY <1>3 DEF Answers, AnswerOf
<1>5. Status' = [Status EXCEPT ![i] = "withdrawn"]
  BY <1>0, <1>1, <1>2, OneRow, StatusCases
<1>6. SpentEvent[i] = row[i].event
  BY <1>0, GatewayAssumption DEF SpentEvent
<1>7. SpentEvent' = SpentEvent
  BY <1>0, <1>1, <1>2, <1>6, OneRow DEF SpentEvent
<1>8. CASE row[i].state = "ACTIVE"
  <2>1. Status[i] = "open"
    BY <1>0, <1>8, StatusCases DEF Status
  <2> QED
    BY <1>3, <1>4, <1>5, <1>7, <2>1 DEF SingleUse!Withdraw
<1>9. CASE row[i].state = "REVOKED"
  <2>1. Status[i] = "withdrawn"
    BY <1>0, <1>9, StatusCases DEF Status
  <2>2. Status' = Status
    BY <1>5, <2>1 DEF Status
  <2> QED
    BY <1>3, <1>4, <1>7, <2>2 DEF SingleUse!vars
<1> QED
  BY <1>8, <1>9 DEF Revoke

LEMMA RefinePrune ==
    ASSUME Inv, NEW t \in 0..clock, PruneExpired(t)
    PROVE  \E A \in SUBSET Ids : SingleUse!Forget(A)
<1> DEFINE A == {i \in Ids : Expired(i, t)}
<1>1. \A i \in Ids : row'[i] = IF i \in A THEN None ELSE row[i]
  BY DEF PruneExpired
<1> HIDE DEF A
<1>2. Status' = [i \in Ids |-> IF i \in A THEN "unknown" ELSE Status[i]]
  <2>1. Status' = [i \in Ids |-> StatusOf(row'[i])]
    BY DEF Status, StatusOf
  <2> QED
    BY <1>1, <2>1, StatusCases DEF Status
<1>3. SpentEvent' = [i \in Ids |-> IF i \in A THEN None ELSE SpentEvent[i]]
  BY <1>1 DEF SpentEvent
<1>4. Pending' = Pending /\ evidence' = evidence /\ registrations' = registrations
  BY TakenUnchanged DEF PruneExpired
<1>5. Answers(Pending)' = Answers(Pending) /\ Answers(evidence)' = Answers(evidence)
  BY <1>4 DEF Answers, AnswerOf
<1>6. SingleUse!Forget(A)
  BY <1>2, <1>3, <1>4, <1>5 DEF SingleUse!Forget
<1> QED
  BY <1>6 DEF A

LEMMA RefineDecide ==
    ASSUME Inv, NEW k \in Callbacks, Decide(k)
    PROVE  \E i \in Ids, v \in Events : SingleUse!Decide(i, v)
<1>0. TypeOK /\ k.event \in Events
  BY DEF Inv, Events
<1>1. PICK i \in Ids : i = seen[k].signed.id
  BY DecideEffect
<1>2. /\ row[i] \in Row
      /\ row[i].state = "ACTIVE"
      /\ row'[i].event = k.event
      /\ row'[i].state = "CONSUMED"
      /\ \A j \in Ids : j # i => row'[j] = row[j]
  BY <1>1, DecideEffect
<1>3. row'[i] \in Row
  <2>1. TypeOK' /\ row'[i] # None
    BY <1>1, DecideInv, DecideEffect DEF Inv
  <2> QED
    BY <2>1 DEF TypeOK
<1>4. Status[i] = "open"
  BY <1>2, StatusCases DEF Status
<1>5. Status' = [Status EXCEPT ![i] = "decided"] /\ SpentEvent' = [SpentEvent EXCEPT ![i] = k.event]
  BY <1>0, <1>2, <1>3, OneRow, StatusCases
<1>6. \A j \in Ids : SpentEvent[j] # k.event
  BY <1>0, GatewayAssumption DEF Decide, Consumable, SpentEvent
<1>7. AnswerOf(EvidenceOf(k)') = SingleUse!Answer(i, k.event)
  <2>1. EvidenceOf(k)' = [callback |-> k, signed |-> seen[k].signed,
                          enrollment |-> seen[k].enrollment,
                          registration |-> registrations[i], now |-> now[k]]
    BY <1>1, DecideEffect
  <2> QED
    BY <1>1, <2>1 DEF AnswerOf, SingleUse!Answer
<1>8. Pending' = Pending \cup {EvidenceOf(k)'}
  BY DecideEffect
<1>9. Answers(Pending)' = Answers(Pending) \cup {SingleUse!Answer(i, k.event)}
  <2>1. Answers(Pending)' = {AnswerOf(x) : x \in Pending'}
    BY DEF Answers, AnswerOf
  <2> QED
    BY <1>7, <1>8, <2>1 DEF Answers
<1>10. Answers(evidence)' = Answers(evidence) /\ registrations' = registrations
  BY DEF Decide, Answers, AnswerOf
<1>11. SingleUse!Decide(i, k.event)
  BY <1>4, <1>5, <1>6, <1>9, <1>10 DEF SingleUse!Decide
<1> QED
  BY <1>0, <1>11

\* What a call that ends had pending is no other call's.
LEMMA FinishAnswers ==
    ASSUME Inv, NEW k \in Callbacks, pc[k] = "consumed", Finish(k)
    PROVE  /\ AnswerOf(EvidenceOf(k)) \in Answers(Pending)
           /\ Answers(Pending)' = Answers(Pending) \ {AnswerOf(EvidenceOf(k))}
<1>1. EvidenceOf(k) \in Pending
  BY DEF Pending
<1>2. AnswerOf(EvidenceOf(k)) \in Answers(Pending)
  BY <1>1 DEF Answers
<1>3. ASSUME NEW l \in Callbacks, pc[l] = "consumed",
             AnswerOf(EvidenceOf(l)) = AnswerOf(EvidenceOf(k))
      PROVE  l = k
  <2>1. SameRegistration(EvidenceOf(l), EvidenceOf(k))
    BY <1>3 DEF AnswerOf, SameRegistration
  <2>2. EvidenceOf(l) \in Taken /\ EvidenceOf(k) \in Taken
    BY <1>1, <1>3 DEF Taken, Pending
  <2>3. EvidenceOf(l) = EvidenceOf(k)
    BY <2>1, <2>2 DEF Inv, OneDecisionPerRegistration
  <2> QED
    BY <2>3 DEF EvidenceOf
<1>4. Pending' = {EvidenceOf(l) : l \in {m \in Callbacks : pc[m] = "consumed"} \ {k}}
  BY FinishEffect
<1>5. Answers(Pending)' = {AnswerOf(x) : x \in Pending'}
  BY DEF Answers, AnswerOf
<1>6. ASSUME NEW a PROVE a \in Answers(Pending)' <=> a \in Answers(Pending) \ {AnswerOf(EvidenceOf(k))}
  BY <1>3, <1>4, <1>5 DEF Answers, Pending
<1> QED
  BY <1>2, <1>6

LEMMA RefineReturn ==
    ASSUME Inv, NEW k \in Callbacks, Return(k)
    PROVE  \E a \in Answers(Pending) : SingleUse!HandOut(a)
<1>1. /\ AnswerOf(EvidenceOf(k)) \in Answers(Pending)
      /\ Answers(Pending)' = Answers(Pending) \ {AnswerOf(EvidenceOf(k))}
  BY FinishAnswers DEF Return
<1>2. Answers(evidence)' = Answers(evidence) \cup {AnswerOf(EvidenceOf(k))}
  <2>1. evidence' = evidence \cup {EvidenceOf(k)}
    BY DEF Return
  <2>2. Answers(evidence)' = {AnswerOf(x) : x \in evidence'}
    BY DEF Answers, AnswerOf
  <2> QED
    BY <2>1, <2>2 DEF Answers
<1>3. Status' = Status /\ SpentEvent' = SpentEvent /\ registrations' = registrations
  BY DEF Return, Status, StatusOf, SpentEvent
<1>4. SingleUse!HandOut(AnswerOf(EvidenceOf(k)))
  BY <1>1, <1>2, <1>3 DEF SingleUse!HandOut
<1> QED
  BY <1>1, <1>4

\* A step that leaves the table, the evidence and the pending answers alone.
LEMMA RefineStutter ==
    ASSUME row' = row, registrations' = registrations, evidence' = evidence, Pending' = Pending
    PROVE  UNCHANGED SingleUse!vars
BY DEF SingleUse!vars, Status, StatusOf, SpentEvent, Answers, AnswerOf

LEMMA RefineGiveUp ==
    ASSUME Inv, NEW k \in Callbacks, GiveUp(k)
    PROVE  \/ \E a \in Answers(Pending) : SingleUse!Lose(a)
           \/ UNCHANGED SingleUse!vars
<1>1. CASE pc[k] = "consumed"
  <2>1. /\ AnswerOf(EvidenceOf(k)) \in Answers(Pending)
        /\ Answers(Pending)' = Answers(Pending) \ {AnswerOf(EvidenceOf(k))}
    BY <1>1, FinishAnswers DEF GiveUp
  <2>2. /\ Status' = Status /\ SpentEvent' = SpentEvent /\ registrations' = registrations
        /\ Answers(evidence)' = Answers(evidence)
    BY DEF GiveUp, Status, StatusOf, SpentEvent, Answers, AnswerOf
  <2>3. SingleUse!Lose(AnswerOf(EvidenceOf(k)))
    BY <2>1, <2>2 DEF SingleUse!Lose
  <2> QED
    BY <2>1, <2>3
<1>2. CASE pc[k] # "consumed"
  <2>1. Pending' = Pending
    BY <1>2, FinishEffect DEF GiveUp, Pending
  <2> QED
    BY <2>1, RefineStutter DEF GiveUp
<1> QED
  BY <1>1, <1>2

LEMMA RefineLocal ==
    ASSUME Inv, NEW k \in Callbacks, Receive(k) \/ Resolve(k)
    PROVE  UNCHANGED SingleUse!vars
<1>1. /\ pc[k] # "consumed" /\ pc'[k] # "consumed"
      /\ \A l \in Callbacks : l # k => pc'[l] = pc[l] /\ now'[l] = now[l] /\ seen'[l] = seen[l]
      /\ evidence' = evidence /\ row' = row /\ registrations' = registrations
  BY DEF Inv, TypeOK, Receive, Resolve
<1>2. Pending' = Pending
  BY <1>1, TakenBefore DEF Inv
<1> QED
  BY <1>1, <1>2, RefineStutter

\* The gateway implements the registry of single-use approvals: every step of
\* a callback, a revocation or a cleanup is one of the registry's, or none.
THEOREM GatewayRefinesSingleUse == Spec => ImplementsSingleUse
<1>1. Init => SingleUse!Init
  BY RefineInit
<1>2. Inv /\ [Next]_vars => [SingleUse!Next]_(SingleUse!vars)
  <2> SUFFICES ASSUME Inv, [Next]_vars PROVE SingleUse!Next \/ UNCHANGED SingleUse!vars
    OBVIOUS
  <2>1. CASE UNCHANGED vars \/ Tick
    BY <2>1, TakenUnchanged, RefineStutter DEF vars, Tick
  <2>2. ASSUME NEW c \in Signed, NEW e \in Enrollments, NEW t \in 0..clock, Register(c, e, t)
        PROVE  SingleUse!Next
    BY <2>2, RefineRegister DEF SingleUse!Next, Ids
  <2>3. ASSUME NEW i \in Ids, Revoke(i) PROVE SingleUse!Next \/ UNCHANGED SingleUse!vars
    BY <2>3, RefineRevoke DEF SingleUse!Next
  <2>4. ASSUME NEW t \in 0..clock, PruneExpired(t) PROVE SingleUse!Next
    BY <2>4, RefinePrune DEF SingleUse!Next
  <2>5. ASSUME NEW k \in Callbacks, Decide(k) PROVE SingleUse!Next
    BY <2>5, RefineDecide DEF SingleUse!Next
  <2>6. ASSUME NEW k \in Callbacks, Return(k) PROVE SingleUse!Next
    BY <2>6, RefineReturn DEF SingleUse!Next
  <2>7. ASSUME NEW k \in Callbacks, GiveUp(k) PROVE SingleUse!Next \/ UNCHANGED SingleUse!vars
    BY <2>7, RefineGiveUp DEF SingleUse!Next
  <2>8. ASSUME NEW k \in Callbacks, Receive(k) \/ Resolve(k) PROVE UNCHANGED SingleUse!vars
    BY <2>8, RefineLocal
  <2> QED
    BY <2>1, <2>2, <2>3, <2>4, <2>5, <2>6, <2>7, <2>8 DEF Next
<1> QED
  BY <1>1, <1>2, GatewayInvariant, PTL DEF Spec, ImplementsSingleUse, SingleUse!Spec
=============================================================================
