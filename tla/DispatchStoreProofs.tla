------------------------- MODULE DispatchStoreProofs -------------------------
(***************************************************************************)
(* Proofs about DispatchStore for every set of authorizations, resources,  *)
(* workers and requests and every value of the time bounds: the type       *)
(* invariant, the safety invariants, and that the store implements         *)
(* exclusive, single use of a physical resource.                           *)
(*                                                                         *)
(* The inductive invariant says the same thing about each authorization    *)
(* (Good), so an action is looked at for the authorization it is about and *)
(* changes nothing for the others (Same).                                  *)
(***************************************************************************)
EXTENDS DispatchStore, TLAPS

(***************************************************************************)
(* The inductive invariant.                                                *)
(***************************************************************************)

\* Broker operations are the latest acquisition's.
Tracked(a) ==
    \A k \in Kinds : Phase(a, k) # "None" => claim[a] # None /\ journal[a][k].origin = claim[a].latest

\* They come in order, and the review last.
Ordered(a) ==
    /\ Phase(a, "Issue") # "None" \/ Phase(a, "Delete") # "None" => Phase(a, "Create") = "Committed"
    /\ review[a] # "None" => BrokerLineage(a)

\* A token request is sent once, and only when it is on record.
Sent(a) ==
    /\ <<a, "Issue">> \in wire => Phase(a, "Issue") # "None" /\ token[a] = "none"
    /\ token[a] # "none" => Phase(a, "Issue") # "None"
    /\ Phase(a, "Issue") = "Committed" => token[a] # "none"
    /\ Phase(a, "Issue") # "None" => issuedAt[a] # None

\* What has been read of the Secret still says something about it.
Placed(a) ==
    /\ Phase(a, "Create") = "Committed" \/ get[a] = "matching" => secret[a] # "none"
    /\ Phase(a, "Delete") \in {"ReconcileOnly", "Absent"} /\ get[a] = "absent"
       => secret[a] \in {"gone", "foreign"}
    /\ Phase(a, "Delete") = "Committed" => secret[a] \in {"gone", "foreign"}

\* How the dates on record relate to what happened in the cluster.
Timed(a) ==
    /\ goneAt[a] # None => goneAt[a] <= clock /\ secret[a] \in {"gone", "foreign"}
    /\ token[a] # "none" /\ secret[a] # "bound" => goneAt[a] # None
    /\ token[a] = "live" /\ goneAt[a] # None => clock < goneAt[a] + Propagation
    /\ Phase(a, "Delete") = "Committed" =>
          /\ deletedAt[a] # None
          /\ goneAt[a] # None => deletedAt[a] + Skew >= goneAt[a]
    /\ claim[a] # None /\ claim[a].safeAfter # None =>
          /\ Phase(a, "Delete") = "Committed"
          /\ claim[a].safeAfter = deletedAt[a] + Propagation + Skew

\* A claim that gave up its resource has no token and will get none.
Closed(a) ==
    /\ claim[a] # None /\ claim[a].state \in Released =>
          /\ token[a] # "live"
          /\ Phase(a, "Delete") = "Committed" \/ Phase(a, "Issue") = "None"
    /\ claim[a] # None /\ claim[a].state = "Terminal" => effect[a] # {}

\* What was let through was reviewed, and its claim is never closed as not sent.
Admitted(a) ==
    /\ effect[a] \subseteq {admission[a]}
    /\ admission[a] # None =>
          /\ claim[a] # None /\ claim[a].state \in {"AttemptInFlight", "Terminal"}
          /\ review[a] = "Authenticated"

Good(a) == Tracked(a) /\ Ordered(a) /\ Sent(a) /\ Placed(a) /\ Timed(a) /\ Closed(a) /\ Admitted(a)

DispatchInvariant ==
    /\ TypeOK
    /\ ReservationMatchesClaims
    /\ \A a \in Authorizations : Good(a)

(***************************************************************************)
(* Constants, and what the two kinds of update do.                         *)
(***************************************************************************)

LEMMA Constants ==
    /\ Authorizations \subseteq Nat /\ None \notin Authorizations /\ None \notin Acquisitions
    /\ None \notin Requests /\ None \notin Nat /\ None \notin Claim /\ None \notin Acquisition
    /\ DispatchWindow \in Nat /\ Skew \in Nat
    /\ Lease \in Nat /\ Lifetime \in Nat
    /\ Propagation \in Nat /\ Propagation > 0
    /\ \A a \in Authorizations : ResourceOf[a] \in Resources
BY QueueAssumption, ResourceAssumption, NoneAssumption, TimeAssumption

\* A row of the journal changes, in its phase or as a whole, and no other.
RowSet(a, k, row) ==
    /\ journal' \in [Authorizations -> [Kinds -> Row]]
    /\ journal'[a][k] = row
    /\ \A j \in Kinds \ {k} : journal'[a][j] = journal[a][j]
    /\ \A b \in Authorizations \ {a} : journal'[b] = journal[b]

LEMMA WholeRow ==
    ASSUME TypeOK, NEW a \in Authorizations, NEW k \in Kinds, NEW row \in Row,
           journal' = [journal EXCEPT ![a][k] = row]
    PROVE  RowSet(a, k, row)
BY DEF TypeOK, RowSet

LEMMA RowPhase ==
    ASSUME TypeOK, NEW a \in Authorizations, NEW k \in Kinds, NEW p \in Phases, SetRow(a, k, p)
    PROVE  /\ [phase |-> p, origin |-> journal[a][k].origin] \in Row
           /\ RowSet(a, k, [phase |-> p, origin |-> journal[a][k].origin])
<1>1. journal[a][k] \in Row
  BY DEF TypeOK
<1>2. [phase |-> p, origin |-> journal[a][k].origin] \in Row
  BY <1>1 DEF Row
<1>3. [journal[a][k] EXCEPT !.phase = p] = [phase |-> p, origin |-> journal[a][k].origin]
  BY <1>1 DEF Row
<1>4. journal' = [journal EXCEPT ![a] = [journal[a] EXCEPT ![k] = [journal[a][k] EXCEPT !.phase = p]]]
  BY DEF SetRow, TypeOK
<1>5. journal' = [journal EXCEPT ![a] = [journal[a] EXCEPT ![k] = [phase |-> p, origin |-> journal[a][k].origin]]]
  BY <1>3, <1>4
<1> QED
  BY <1>2, <1>5 DEF TypeOK, RowSet

\* A claim changes its state, and no other claim changes.
ClaimSet(a, c) ==
    /\ claim' \in [Authorizations -> Claim \cup {None}]
    /\ claim'[a] = c
    /\ \A b \in Authorizations \ {a} : claim'[b] = claim[b]

LEMMA ClaimState ==
    ASSUME TypeOK, NEW a \in Authorizations, claim[a] # None, NEW s \in Live \cup Released, SetState(a, s)
    PROVE  /\ [state |-> s, latest |-> claim[a].latest, safeAfter |-> claim[a].safeAfter] \in Claim
           /\ ClaimSet(a, [state |-> s, latest |-> claim[a].latest, safeAfter |-> claim[a].safeAfter])
<1>1. claim[a] \in Claim
  BY DEF TypeOK
<1>2. [claim[a] EXCEPT !.state = s] = [state |-> s, latest |-> claim[a].latest, safeAfter |-> claim[a].safeAfter]
  BY <1>1 DEF Claim
<1>3. [state |-> s, latest |-> claim[a].latest, safeAfter |-> claim[a].safeAfter] \in Claim
  BY <1>1 DEF Claim
<1>4. claim' = [claim EXCEPT ![a] = [claim[a] EXCEPT !.state = s]]
  BY DEF SetState, TypeOK
<1> QED
  BY <1>2, <1>3, <1>4 DEF TypeOK, ClaimSet

LEMMA WholeClaim ==
    ASSUME TypeOK, NEW a \in Authorizations, NEW c \in Claim, claim' = [claim EXCEPT ![a] = c]
    PROVE  ClaimSet(a, c)
BY DEF TypeOK, ClaimSet

LEMMA SampleIsTime ==
    ASSUME TypeOK, NEW t \in Samples
    PROVE  t \in Nat /\ t <= clock /\ t + Skew >= clock
BY DEF TypeOK, Samples
(***************************************************************************)
(* Types.                                                                  *)
(***************************************************************************)

LEMMA InitType == Init => TypeOK
<1>1. NoRow \in Row
  BY DEF NoRow, Row, Phases
<1> QED
  BY <1>1 DEF Init, TypeOK

LEMMA QueueType ==
    ASSUME TypeOK, NEW a \in Authorizations, NEW t \in Samples,
           Consume(a, t) \/ RevokeGrant(a) \/ ActivateAuthority \/ ReviewAdmission(a, t)
           \/ \E q \in Acquisitions : Recover(q, t) \/ Revalidate(q, t)
    PROVE  TypeOK'
BY SampleIsTime
   DEF TypeOK, Consume, RevokeGrant, ActivateAuthority, ReviewAdmission, Recover, Revalidate,
       queue, claims, records, cluster

LEMMA AcquireType ==
    ASSUME TypeOK, NEW q \in Acquisitions, NEW a \in Authorizations, NEW t \in Samples, Acquire(q, a, t)
    PROVE  TypeOK'
<1>1. consumed[a] \in Nat /\ t \in Nat
  BY SampleIsTime DEF TypeOK, Acquire, Chosen, Candidates
<1>2. [auth |-> a, until |-> IF t + Lease <= Deadline(a) THEN t + Lease ELSE Deadline(a)] \in Acquisition
  BY <1>1, Constants DEF Acquisition, Deadline
<1>3. [state |-> "Claimed", latest |-> q, safeAfter |-> None] \in Claim
  BY DEF Claim, Live
<1>4. /\ claim' \in [Authorizations -> Claim \cup {None}]
      /\ acquisition' \in [Acquisitions -> Acquisition \cup {None}]
  BY <1>2, <1>3 DEF TypeOK, Acquire
<1>5. reservation' \in [Resources -> Authorizations \cup {None}]
  BY DEF TypeOK, Acquire
<1> QED
  BY <1>1, <1>4, <1>5 DEF TypeOK, Acquire, queue, records, cluster

LEMMA ReleaseType ==
    ASSUME TypeOK, NEW a \in Authorizations, Release(a)
    PROVE  reservation' \in [Resources -> Authorizations \cup {None}]
BY DEF TypeOK, Release

LEMMA DisposeType ==
    ASSUME TypeOK, NEW q \in Acquisitions, NEW a \in Authorizations, NEW t \in Samples, Dispose(q, a, t)
    PROVE  TypeOK'
<1>1. t \in Nat
  BY SampleIsTime
<1>2. claim' \in [Authorizations -> Claim \cup {None}]
  <2>1. CASE claim[a] # None
    BY <2>1, ClaimState DEF Dispose, ClaimSet, Released
  <2>2. CASE claim[a] = None
    BY <2>2 DEF Dispose, TypeOK
  <2> QED
    BY <2>1, <2>2
<1>3. reservation' \in [Resources -> Authorizations \cup {None}]
  BY ReleaseType DEF Dispose, TypeOK
<1> QED
  BY <1>1, <1>2, <1>3 DEF TypeOK, Dispose, records, cluster

LEMMA BeginType ==
    ASSUME TypeOK, NEW q \in Acquisitions, NEW k \in Kinds, NEW t \in Samples, Begin(q, k, t)
    PROVE  TypeOK'
<1>1. t \in Nat /\ acquisition[q].auth \in Authorizations
  BY SampleIsTime DEF TypeOK, Begin, Revalidated, ControlAcquisition, Acquisition
<1>2. [phase |-> "InFlight", origin |-> q] \in Row
  BY DEF Row, Phases
<1>3. journal' \in [Authorizations -> [Kinds -> Row]]
  BY <1>1, <1>2, WholeRow DEF Begin, RowSet
<1> QED
  BY <1>1, <1>3 DEF TypeOK, Begin, queue, claims

LEMMA AnswerType ==
    ASSUME TypeOK, NEW a \in Authorizations, Answer(a)
    PROVE  TypeOK'
<1>1. PICK k \in Kinds, p \in Phases : SetRow(a, k, p)
  BY DEF Answer, CommitCreate, CommitTokenIssue, MarkUnknown, Kinds, Phases
<1>2. journal' \in [Authorizations -> [Kinds -> Row]]
  BY <1>1, RowPhase DEF RowSet
<1> QED
  BY <1>2 DEF TypeOK, Answer, CommitCreate, CommitTokenIssue, MarkUnknown, queue, claims, cluster

LEMMA WorkerType ==
    ASSUME TypeOK, NEW q \in Acquisitions, NEW t \in Samples,
           BeginReview(q, t) \/ RecordAuthenticated(q, t) \/ MarkAttempt(q, t)
    PROVE  TypeOK'
<1> DEFINE a == acquisition[q].auth
<1>1. t \in Nat /\ a \in Authorizations /\ claim[a] # None
  BY SampleIsTime
     DEF TypeOK, BeginReview, RecordAuthenticated, MarkAttempt, Revalidated, ControlAcquisition, Acquisition
<1>2. CASE BeginReview(q, t) \/ RecordAuthenticated(q, t)
  BY <1>1, <1>2 DEF TypeOK, BeginReview, RecordAuthenticated, queue, claims, cluster
<1>3. CASE MarkAttempt(q, t)
  <2>1. SetState(a, "AttemptInFlight")
    BY <1>3 DEF MarkAttempt
  <2>2. claim' \in [Authorizations -> Claim \cup {None}]
    BY <1>1, <2>1, ClaimState DEF ClaimSet, Live
  <2> QED
    BY <1>1, <1>3, <2>2 DEF TypeOK, MarkAttempt, queue, records, cluster
<1> QED
  BY <1>2, <1>3

LEMMA CloseType ==
    ASSUME TypeOK, NEW q \in Acquisitions, CloseNoSend(q) \/ RetireCreateAbsent(q)
    PROVE  TypeOK'
<1> DEFINE a == acquisition[q].auth
<1>1. a \in Authorizations /\ claim[a] # None
  BY DEF TypeOK, CloseNoSend, RetireCreateAbsent, NoSendLineage, Acquisition
<1>2. PICK s \in Live \cup Released : SetState(a, s)
  BY DEF CloseNoSend, RetireCreateAbsent, Live, Released
<1>3. claim' \in [Authorizations -> Claim \cup {None}]
  BY <1>1, <1>2, ClaimState DEF ClaimSet
<1>4. reservation' \in [Resources -> Authorizations \cup {None}]
  BY <1>1, ReleaseType DEF TypeOK, CloseNoSend, RetireCreateAbsent
<1> QED
  BY <1>3, <1>4 DEF TypeOK, CloseNoSend, RetireCreateAbsent, queue, records, cluster
LEMMA AdmissionType ==
    ASSUME TypeOK, NEW a \in Authorizations, NEW u \in Requests, NEW t \in Samples,
           AuthorizeAdmission(a, u, t) \/ RecordRejected(a, t)
    PROVE  TypeOK'
BY SampleIsTime DEF TypeOK, AuthorizeAdmission, RecordRejected, queue, claims, cluster

LEMMA PrepareType ==
    ASSUME TypeOK, NEW a \in Authorizations, NEW t \in Samples, PrepareCleanup(a, t)
    PROVE  TypeOK'
<1>1. t \in Nat
  BY SampleIsTime
<1>2. journal[a]["Create"] \in Row
  BY DEF TypeOK, Kinds
<1>3. [phase |-> "Intent", origin |-> journal[a]["Create"].origin] \in Row
  BY <1>2 DEF Row, Phases
<1>4. journal' \in [Authorizations -> [Kinds -> Row]]
  <2>1. CASE Phase(a, "Delete") = "None"
    BY <2>1, <1>3, WholeRow DEF PrepareCleanup, RowSet, Kinds
  <2>2. CASE Phase(a, "Delete") # "None"
    BY <2>2 DEF PrepareCleanup, TypeOK
  <2> QED
    BY <2>1, <2>2
<1> QED
  BY <1>1, <1>4 DEF TypeOK, PrepareCleanup, queue, claims, cluster

LEMMA DeleteType ==
    ASSUME TypeOK, NEW a \in Authorizations, NEW t \in Samples, BeginDelete(a, t)
    PROVE  TypeOK'
<1>1. t \in Nat
  BY SampleIsTime
<1>2. journal' \in [Authorizations -> [Kinds -> Row]]
  BY RowPhase DEF BeginDelete, RowSet, Kinds, Phases
<1> QED
  BY <1>1, <1>2 DEF TypeOK, BeginDelete, queue, claims, Kinds

LEMMA ReconciledPhase ==
    ASSUME NEW k, NEW seen
    PROVE  Reconciled(k, seen) \in {"Absent", "Committed", "ReconcileOnly", "Terminal"}
BY DEF Reconciled

LEMMA ReconcileType ==
    ASSUME TypeOK, NEW a \in Authorizations, NEW k \in Kinds, NEW t \in Samples,
           BeginReconciliation(a, k, t) \/ CommitReconciliation(a, k, t)
    PROVE  TypeOK'
<1>1. t \in Nat
  BY SampleIsTime
<1>2. CASE BeginReconciliation(a, k, t)
  <2>1. journal' \in [Authorizations -> [Kinds -> Row]]
    <3>1. CASE Phase(a, k) = "Absent"
      BY <1>2, <3>1 DEF BeginReconciliation, TypeOK
    <3>2. CASE Phase(a, k) # "Absent"
      BY <1>2, <3>2, RowPhase DEF BeginReconciliation, RowSet, Phases
    <3> QED
      BY <3>1, <3>2
  <2> QED
    BY <1>1, <1>2, <2>1 DEF TypeOK, BeginReconciliation, queue, claims
<1>3. CASE CommitReconciliation(a, k, t)
  <2>1. Reconciled(k, get[a]) \in Phases
    BY ReconciledPhase DEF Phases
  <2>2. journal' \in [Authorizations -> [Kinds -> Row]]
    BY <1>3, <2>1, RowPhase DEF CommitReconciliation, RowSet
  <2> QED
    BY <1>1, <1>3, <2>2 DEF TypeOK, CommitReconciliation, queue, claims
<1> QED
  BY <1>2, <1>3

\* The bound of a no-send recovery is the same whether or not it was fixed.
LEMMA SafeAfterIs ==
    ASSUME TypeOK, NEW a \in Authorizations, Good(a), claim[a] # None, Phase(a, "Delete") = "Committed"
    PROVE  /\ deletedAt[a] \in Nat
           /\ SafeAfter(a) = deletedAt[a] + Propagation + Skew
           /\ SafeAfter(a) \in Nat
<1>1. deletedAt[a] \in Nat
  BY DEF TypeOK, Good, Timed
<1>2. SafeAfter(a) = deletedAt[a] + Propagation + Skew
  BY DEF SafeAfter, Good, Timed
<1> QED
  BY <1>1, <1>2, Constants

LEMMA RetireType ==
    ASSUME TypeOK, NEW q \in Acquisitions, NEW t \in Samples, RetireNoSend(q, t),
           \A a \in Authorizations : Good(a)
    PROVE  TypeOK'
<1> DEFINE a == acquisition[q].auth
<1>1. t \in Nat /\ a \in Authorizations /\ claim[a] # None /\ claim[a] \in Claim
  BY SampleIsTime DEF TypeOK, RetireNoSend, NoSendLineage, Acquisition
<1>2. SafeAfter(a) \in Nat
  BY <1>1, SafeAfterIs DEF RetireNoSend
<1>3. [claim[a] EXCEPT !.safeAfter = SafeAfter(a)] \in Claim
  BY <1>1, <1>2 DEF Claim
<1>4. [state |-> "RecoveryRetired", latest |-> q, safeAfter |-> SafeAfter(a)] \in Claim
  BY <1>2 DEF Claim, Released
<1>5. claim' \in [Authorizations -> Claim \cup {None}]
  <2>1. CASE claim' = [claim EXCEPT ![a].safeAfter = SafeAfter(a)]
    <3>1. claim' = [claim EXCEPT ![a] = [claim[a] EXCEPT !.safeAfter = SafeAfter(a)]]
      BY <2>1 DEF TypeOK
    <3> QED
      BY <1>1, <1>3, <3>1 DEF TypeOK
  <2>2. CASE claim' = [claim EXCEPT ![a] = [state |-> "RecoveryRetired", latest |-> q,
                                              safeAfter |-> SafeAfter(a)]]
    BY <1>1, <1>4, <2>2 DEF TypeOK
  <2> QED
    BY <2>1, <2>2 DEF RetireNoSend
<1>6. reservation' \in [Resources -> Authorizations \cup {None}]
  BY <1>1, ReleaseType DEF RetireNoSend, TypeOK
<1> QED
  BY <1>1, <1>5, <1>6 DEF TypeOK, RetireNoSend, queue, records, cluster

LEMMA TerminalType ==
    ASSUME TypeOK, NEW a \in Authorizations, NEW t \in Samples, FinalizeTerminal(a, t)
    PROVE  TypeOK'
<1>1. t \in Nat /\ claim[a] # None
  BY SampleIsTime DEF FinalizeTerminal, PostAttempt
<1>2. claim' \in [Authorizations -> Claim \cup {None}]
  BY <1>1, ClaimState DEF FinalizeTerminal, ClaimSet, Released
<1>3. reservation' \in [Resources -> Authorizations \cup {None}]
  BY ReleaseType DEF FinalizeTerminal
<1> QED
  BY <1>1, <1>2, <1>3 DEF TypeOK, FinalizeTerminal, queue, records, cluster

LEMMA ClusterType ==
    ASSUME TypeOK, Cluster
    PROVE  TypeOK'
<1>1. ASSUME NEW a \in Authorizations,
             CreateLands(a) \/ TokenLands(a) \/ DeleteLands(a) \/ NameTaken(a) \/ TokenDies(a)
      PROVE  TypeOK'
  <2>1. CASE CreateLands(a) \/ NameTaken(a)
    BY <2>1 DEF TypeOK, CreateLands, NameTaken, store, queue, claims, records
  <2>2. CASE TokenLands(a) \/ TokenDies(a)
    BY <2>2 DEF TypeOK, TokenLands, TokenDies, store, queue, claims, records
  <2>3. CASE DeleteLands(a)
    BY <2>3 DEF TypeOK, DeleteLands, store, queue, claims, records
  <2> QED
    BY <1>1, <2>1, <2>2, <2>3
<1>2. ASSUME NEW a \in Authorizations, ReadSecret(a)
      PROVE  TypeOK'
  BY <1>2 DEF TypeOK, ReadSecret, store, queue, claims, records
<1>3. ASSUME NEW a \in Authorizations, NEW u \in Requests, Apply(a, u)
      PROVE  TypeOK'
  BY <1>3 DEF TypeOK, Apply, store, queue, claims, records
<1>4. CASE Tick
  BY <1>4 DEF TypeOK, Tick, store, queue, claims, records, cluster
<1> QED
  BY <1>1, <1>2, <1>3, <1>4 DEF Cluster
(***************************************************************************)
(* One authorization at a time.                                            *)
(***************************************************************************)

\* Nothing the invariant says about an authorization has changed.
Same(b) ==
    /\ clock' = clock /\ issuedAt'[b] = issuedAt[b]
    /\ claim'[b] = claim[b] /\ journal'[b] = journal[b]
    /\ review'[b] = review[b] /\ deletedAt'[b] = deletedAt[b] /\ admission'[b] = admission[b]
    /\ secret'[b] = secret[b] /\ goneAt'[b] = goneAt[b] /\ token'[b] = token[b]
    /\ get'[b] = get[b] /\ effect'[b] = effect[b]
    /\ <<b, "Issue">> \in wire' <=> <<b, "Issue">> \in wire

LEMMA Frame ==
    ASSUME NEW b \in Authorizations, Good(b), Same(b)
    PROVE  Good(b)'
<1> USE DEF Good, Same, Phase
<1>1. Tracked(b)'
  BY DEF Tracked
<1>2. Ordered(b)' /\ Sent(b)'
  BY DEF Ordered, Sent, BrokerLineage
<1>3. Placed(b)' /\ Timed(b)'
  BY DEF Placed, Timed
<1>4. Closed(b)' /\ Admitted(b)'
  BY DEF Closed, Admitted
<1> QED
  BY <1>1, <1>2, <1>3, <1>4

LEMMA AcquireGood ==
    ASSUME TypeOK, NEW q \in Acquisitions, NEW a \in Authorizations, NEW t \in Samples,
           Acquire(q, a, t), Good(a)
    PROVE  Good(a)' /\ \A b \in Authorizations \ {a} : Same(b)
<1>1. \A b \in Authorizations \ {a} : Same(b)
  BY DEF Acquire, Same, TypeOK, records, cluster
<1>2. /\ claim'[a] = [state |-> "Claimed", latest |-> q, safeAfter |-> None]
      /\ claim'[a] # None
  BY Constants DEF Acquire, TypeOK, Claim, Live
<1>3. \A k \in Kinds : Phase(a, k) = "None"
  BY DEF Acquire, Chosen, Selectable, Artifacts, Good, Tracked
<1>4. review[a] = "None" /\ admission[a] = None
  BY <1>3 DEF Acquire, Chosen, Selectable, Good, Ordered, BrokerLineage, Admitted, Kinds
<1>5. UNCHANGED <<clock, issuedAt, journal, review, deletedAt, admission, secret, goneAt, token, wire, get, effect>>
  BY DEF Acquire, records, cluster
<1>6. Tracked(a)' /\ Ordered(a)' /\ Sent(a)'
  BY <1>3, <1>4, <1>5 DEF Good, Tracked, Ordered, Sent, BrokerLineage, Phase, Kinds
<1>7. Placed(a)' /\ Timed(a)'
  BY <1>2, <1>5 DEF Good, Placed, Timed, Phase
<1>8. Closed(a)' /\ Admitted(a)'
  BY <1>2, <1>4, <1>5 DEF Good, Closed, Admitted, Released
<1> QED
  BY <1>1, <1>6, <1>7, <1>8 DEF Good

LEMMA DisposeGood ==
    ASSUME TypeOK, NEW q \in Acquisitions, NEW a \in Authorizations, NEW t \in Samples,
           Dispose(q, a, t), Good(a)
    PROVE  Good(a)' /\ \A b \in Authorizations \ {a} : Same(b)
<1>1. UNCHANGED <<clock, issuedAt, journal, review, deletedAt, admission, secret, goneAt, token, wire, get, effect>>
  BY DEF Dispose, records, cluster
<1>2. CASE claim[a] = None
  BY <1>1, <1>2, Frame DEF Dispose, Same
<1>3. CASE claim[a] # None
  <2>1. /\ claim'[a] = [state |-> "Disposed", latest |-> claim[a].latest, safeAfter |-> claim[a].safeAfter]
        /\ claim'[a] # None
        /\ \A b \in Authorizations \ {a} : claim'[b] = claim[b]
    BY <1>3, ClaimState, Constants DEF Dispose, ClaimSet, Released
  <2>2. \A b \in Authorizations \ {a} : Same(b)
    BY <1>1, <2>1 DEF Same
  <2>3. (\A k \in Kinds : Phase(a, k) = "None") /\ claim[a].state = "Claimed"
    BY <1>3 DEF Dispose, Chosen, Selectable, Artifacts
  <2>4. admission[a] = None /\ token[a] = "none" /\ Phase(a, "Issue") = "None"
    BY <2>3 DEF Good, Admitted, Sent, Kinds
  <2>5. Tracked(a)' /\ Ordered(a)' /\ Sent(a)' /\ Placed(a)'
    BY <1>1, <2>1 DEF Good, Tracked, Ordered, Sent, Placed, BrokerLineage, Phase
  <2>6. Timed(a)'
    BY <1>1, <1>3, <2>1 DEF Good, Timed, Phase
  <2>7. Closed(a)' /\ Admitted(a)'
    BY <1>1, <2>1, <2>4 DEF Good, Closed, Admitted, Phase
  <2> QED
    BY <2>2, <2>5, <2>6, <2>7 DEF Good
<1> QED
  BY <1>2, <1>3
LEMMA BeginCreateGood ==
    ASSUME TypeOK, NEW q \in Acquisitions, NEW t \in Samples, BeginCreate(q, t),
           \A b \in Authorizations : Good(b)
    PROVE  \A b \in Authorizations : Good(b)'
<1>1. PICK a \in Authorizations : a = acquisition[q].auth /\ claim[a] # None /\ claim[a].latest = q
  BY DEF TypeOK, BeginCreate, Begin, Revalidated, ControlAcquisition, Acquisition
<1>2. RowSet(a, "Create", [phase |-> "InFlight", origin |-> q])
  BY <1>1, WholeRow DEF BeginCreate, Begin, Row, Phases, Kinds
<1>3. wire' = wire \cup {<<a, "Create">>}
  BY <1>1 DEF BeginCreate, Begin
<1>4. UNCHANGED <<clock, issuedAt, claim, review, deletedAt, admission, secret, goneAt, token, get, effect>>
  BY DEF BeginCreate, Begin, claims
<1>5. \A b \in Authorizations : <<b, "Issue">> \in wire' <=> <<b, "Issue">> \in wire
  BY <1>3
<1>6. \A b \in Authorizations \ {a} : Same(b)
  BY <1>2, <1>4, <1>5 DEF Same, RowSet
<1>7. Good(a) /\ Phase(a, "Create") = "None"
  BY <1>1 DEF BeginCreate, Begin
<1>8. \A k \in Kinds : Phase(a, k) = "None"
  BY <1>7 DEF Good, Ordered, Kinds
<1>9. /\ Phase(a, "Create")' = "InFlight"
      /\ Phase(a, "Issue")' = "None" /\ Phase(a, "Delete")' = "None"
  BY <1>2, <1>8 DEF RowSet, Phase, Kinds
<1>10. Tracked(a)'
  BY <1>1, <1>2, <1>4, <1>8 DEF Tracked, RowSet, Phase, Kinds
<1>11. Ordered(a)' /\ Sent(a)' /\ Placed(a)'
  BY <1>1, <1>4, <1>5, <1>7, <1>8, <1>9 DEF Good, Ordered, Sent, Placed, BrokerLineage, Kinds
<1>12. Timed(a)' /\ Closed(a)' /\ Admitted(a)'
  BY <1>4, <1>7, <1>8, <1>9 DEF Good, Timed, Closed, Admitted, Kinds
<1>13. Good(a)'
  BY <1>10, <1>11, <1>12 DEF Good
<1> QED
  BY <1>6, <1>13, Frame

LEMMA BeginIssueGood ==
    ASSUME TypeOK, NEW q \in Acquisitions, NEW t \in Samples, BeginIssue(q, t),
           \A b \in Authorizations : Good(b)
    PROVE  \A b \in Authorizations : Good(b)'
<1>1. PICK a \in Authorizations :
          /\ a = acquisition[q].auth /\ claim[a] # None /\ claim[a].latest = q
          /\ claim[a].state = "Claimed" /\ Phase(a, "Delete") = "None"
  BY DEF TypeOK, BeginIssue, Begin, Revalidated, ControlAcquisition, Acquisition
<1>2. RowSet(a, "Issue", [phase |-> "InFlight", origin |-> q])
  BY <1>1, WholeRow DEF BeginIssue, Begin, Row, Phases, Kinds
<1>3. wire' = wire \cup {<<a, "Issue">>}
  BY <1>1 DEF BeginIssue, Begin
<1>4. UNCHANGED <<clock, claim, review, deletedAt, admission, secret, goneAt, token, get, effect>>
  BY DEF BeginIssue, Begin, claims
<1>5. issuedAt'[a] # None /\ \A b \in Authorizations \ {a} : issuedAt'[b] = issuedAt[b]
  BY <1>1, SampleIsTime, Constants DEF BeginIssue, Begin, TypeOK
<1>6. \A b \in Authorizations \ {a} : Same(b)
  BY <1>2, <1>3, <1>4, <1>5 DEF Same, RowSet
<1>7. Good(a) /\ Phase(a, "Issue") = "None" /\ Phase(a, "Create") = "Committed"
  BY <1>1 DEF BeginIssue, Begin
<1>8. /\ Phase(a, "Issue")' = "InFlight" /\ Phase(a, "Create")' = "Committed"
      /\ Phase(a, "Delete")' = "None"
  BY <1>1, <1>2, <1>7 DEF RowSet, Phase, Kinds
<1>9. review[a] = "None" /\ token[a] = "none"
  BY <1>7 DEF Good, Ordered, Sent, BrokerLineage
<1>10. Tracked(a)'
  BY <1>1, <1>2, <1>4, <1>7 DEF Good, Tracked, RowSet, Phase
<1>11. Ordered(a)' /\ Sent(a)' /\ Placed(a)'
  BY <1>4, <1>7, <1>8, <1>9, <1>5 DEF Good, Ordered, Sent, Placed, BrokerLineage
<1>12. Timed(a)' /\ Closed(a)' /\ Admitted(a)'
  BY <1>1, <1>4, <1>7, <1>8 DEF Good, Timed, Closed, Admitted, Released
<1>13. Good(a)'
  BY <1>10, <1>11, <1>12 DEF Good
<1> QED
  BY <1>6, <1>13, Frame

\* The journal alone changes: a row moves on, and its operation is not closed.
LEMMA RowMoves ==
    ASSUME TypeOK, NEW a \in Authorizations, NEW k \in Kinds, NEW p \in Phases \ {"None", "Committed"},
           SetRow(a, k, p), Phase(a, k) \notin {"None", "Committed"},
           UNCHANGED <<clock, issuedAt, claim, review, deletedAt, admission, secret, goneAt, token, effect>>,
           \A b \in Authorizations : <<b, "Issue">> \in wire' <=> <<b, "Issue">> \in wire,
           \A b \in Authorizations \ {a} : get'[b] = get[b],
           (get'[a] = get[a] /\ p \notin {"ReconcileOnly", "Absent"}) \/ get'[a] \in {"none", "asked"},
           \A b \in Authorizations : Good(b)
    PROVE  \A b \in Authorizations : Good(b)'
<1>1. RowSet(a, k, [phase |-> p, origin |-> journal[a][k].origin])
  BY RowPhase
<1>2. \A b \in Authorizations \ {a} : Same(b)
  BY <1>1 DEF Same, RowSet
<1>3. Good(a)
  OBVIOUS
<1>4. /\ Phase(a, k)' = p
      /\ \A j \in Kinds \ {k} : Phase(a, j)' = Phase(a, j)
      /\ \A j \in Kinds : journal'[a][j].origin = journal[a][j].origin
  BY <1>1 DEF RowSet, Phase
<1>5. \A j \in Kinds : /\ Phase(a, j)' = "None" <=> Phase(a, j) = "None"
                       /\ Phase(a, j)' = "Committed" <=> Phase(a, j) = "Committed"
  BY <1>4
<1>6. Tracked(a)'
  BY <1>3, <1>4, <1>5 DEF Good, Tracked
<1>7. Ordered(a)' /\ Sent(a)'
  BY <1>3, <1>5 DEF Good, Ordered, Sent, BrokerLineage, Kinds
<1>8. Placed(a)'
  <2>1. Phase(a, "Create")' = "Committed" \/ get'[a] = "matching" => secret'[a] # "none"
    BY <1>3, <1>5 DEF Good, Placed, Kinds
  <2>2. Phase(a, "Delete")' \in {"ReconcileOnly", "Absent"} /\ get'[a] = "absent"
        => secret'[a] \in {"gone", "foreign"}
    BY <1>3, <1>4 DEF Good, Placed, Kinds
  <2>3. Phase(a, "Delete")' = "Committed" => secret'[a] \in {"gone", "foreign"}
    BY <1>3, <1>5 DEF Good, Placed, Kinds
  <2> QED
    BY <2>1, <2>2, <2>3 DEF Placed
<1>9. Timed(a)'
  BY <1>3, <1>5 DEF Good, Timed, Kinds
<1>10. Closed(a)' /\ Admitted(a)'
  BY <1>3, <1>5 DEF Good, Closed, Admitted, Kinds
<1>11. Good(a)'
  BY <1>6, <1>7, <1>8, <1>9, <1>10 DEF Good
<1> QED
  BY <1>2, <1>11, Frame
\* A create or a token request, or the deletion, goes on record as done.
LEMMA RowCommits ==
    ASSUME TypeOK, NEW a \in Authorizations, NEW k \in Kinds, SetRow(a, k, "Committed"),
           Phase(a, k) \notin {"None", "Committed"},
           UNCHANGED <<clock, issuedAt, claim, review, admission, secret, goneAt, token, wire, effect>>,
           \A b \in Authorizations \ {a} : get'[b] = get[b] /\ deletedAt'[b] = deletedAt[b],
           get'[a] \in {get[a], "none"},
           k = "Create" => secret[a] # "none",
           k = "Issue" => token[a] # "none",
           IF k = "Delete"
           THEN /\ secret[a] \in {"gone", "foreign"} /\ deletedAt'[a] # None
                /\ goneAt[a] # None => deletedAt'[a] + Skew >= goneAt[a]
           ELSE deletedAt'[a] = deletedAt[a],
           \A b \in Authorizations : Good(b)
    PROVE  \A b \in Authorizations : Good(b)'
<1>1. RowSet(a, k, [phase |-> "Committed", origin |-> journal[a][k].origin])
  BY RowPhase DEF Phases
<1>2. \A b \in Authorizations \ {a} : Same(b)
  BY <1>1 DEF Same, RowSet
<1>3. Good(a)
  OBVIOUS
<1>4. /\ Phase(a, k)' = "Committed"
      /\ \A j \in Kinds \ {k} : Phase(a, j)' = Phase(a, j)
      /\ \A j \in Kinds : journal'[a][j].origin = journal[a][j].origin
  BY <1>1 DEF RowSet, Phase
<1>5. \A j \in Kinds : Phase(a, j)' = "None" <=> Phase(a, j) = "None"
  BY <1>4
<1>6. \A j \in Kinds : Phase(a, j) = "Committed" => Phase(a, j)' = "Committed"
  BY <1>4
<1>7. Tracked(a)'
  BY <1>3, <1>4, <1>5 DEF Good, Tracked
<1>8. Ordered(a)' /\ Sent(a)'
  BY <1>3, <1>4, <1>5, <1>6 DEF Good, Ordered, Sent, BrokerLineage, Kinds
<1>9. Placed(a)'
  BY <1>3, <1>4 DEF Good, Placed, Kinds
<1>10. Timed(a)'
  <2>1. CASE k = "Delete"
    BY <1>3, <1>4, <2>1 DEF Good, Timed, Kinds
  <2>2. CASE k # "Delete"
    BY <1>3, <1>4, <2>2 DEF Good, Timed, Kinds
  <2> QED
    BY <2>1, <2>2
<1>11. Closed(a)' /\ Admitted(a)'
  BY <1>3, <1>5, <1>6 DEF Good, Closed, Admitted, Kinds
<1>12. Good(a)'
  BY <1>7, <1>8, <1>9, <1>10, <1>11 DEF Good
<1> QED
  BY <1>2, <1>12, Frame

LEMMA AnswerGood ==
    ASSUME TypeOK, NEW a \in Authorizations, Answer(a), \A b \in Authorizations : Good(b)
    PROVE  \A b \in Authorizations : Good(b)'
<1>1. CASE CommitCreate(a)
  <2>1. /\ SetRow(a, "Create", "Committed") /\ Phase(a, "Create") \notin {"None", "Committed"}
        /\ UNCHANGED <<clock, issuedAt, claim, review, admission, secret, goneAt, token, wire, effect, get, deletedAt>>
        /\ secret[a] # "none"
    BY <1>1 DEF CommitCreate, claims, cluster
  <2> QED
    BY <2>1, RowCommits DEF Kinds
<1>2. CASE CommitTokenIssue(a)
  <2>1. /\ SetRow(a, "Issue", "Committed") /\ Phase(a, "Issue") \notin {"None", "Committed"}
        /\ UNCHANGED <<clock, issuedAt, claim, review, admission, secret, goneAt, token, wire, effect, get, deletedAt>>
        /\ token[a] # "none"
    BY <1>2 DEF CommitTokenIssue, claims, cluster
  <2> QED
    BY <2>1, RowCommits DEF Kinds
<1>3. ASSUME NEW k \in Kinds, MarkUnknown(a, k)
      PROVE  \A b \in Authorizations : Good(b)'
  <2>1. /\ SetRow(a, k, "Unknown") /\ Phase(a, k) \notin {"None", "Committed"}
        /\ UNCHANGED <<clock, issuedAt, claim, review, admission, secret, goneAt, token, wire, effect, get, deletedAt>>
    BY <1>3 DEF MarkUnknown, claims, cluster
  <2>2. "Unknown" \in Phases \ {"None", "Committed"}
    BY DEF Phases
  <2> QED
    BY <2>1, <2>2, RowMoves
<1> QED
  BY <1>1, <1>2, <1>3 DEF Answer

LEMMA BeginDeleteGood ==
    ASSUME TypeOK, NEW a \in Authorizations, NEW t \in Samples, BeginDelete(a, t),
           \A b \in Authorizations : Good(b)
    PROVE  \A b \in Authorizations : Good(b)'
<1>1. /\ SetRow(a, "Delete", "InFlight") /\ Phase(a, "Delete") \notin {"None", "Committed"}
      /\ UNCHANGED <<clock, issuedAt, claim, review, admission, secret, goneAt, token, effect, get, deletedAt>>
      /\ wire' = wire \cup {<<a, "Delete">>}
  BY DEF BeginDelete, claims
<1>2. \A b \in Authorizations : <<b, "Issue">> \in wire' <=> <<b, "Issue">> \in wire
  BY <1>1
<1>3. "InFlight" \in Phases \ {"None", "Committed"} /\ "Delete" \in Kinds
  BY DEF Phases, Kinds
<1> QED
  BY <1>1, <1>2, <1>3, RowMoves

LEMMA BeginReconciliationGood ==
    ASSUME TypeOK, NEW a \in Authorizations, NEW k \in Kinds, NEW t \in Samples,
           BeginReconciliation(a, k, t), \A b \in Authorizations : Good(b)
    PROVE  \A b \in Authorizations : Good(b)'
<1>1. /\ UNCHANGED <<clock, issuedAt, claim, review, admission, secret, goneAt, token, effect, wire, deletedAt>>
      /\ get'[a] = "asked" /\ \A b \in Authorizations \ {a} : get'[b] = get[b]
  BY DEF BeginReconciliation, claims, TypeOK
<1>2. CASE Phase(a, k) = "Absent"
  <2>1. UNCHANGED journal
    BY <1>2 DEF BeginReconciliation
  <2>2. \A b \in Authorizations \ {a} : Same(b)
    BY <1>1, <2>1 DEF Same
  <2>3. Good(a)'
    <3>1. Tracked(a)' /\ Ordered(a)' /\ Sent(a)'
      BY <1>1, <2>1 DEF Good, Tracked, Ordered, Sent, BrokerLineage, Phase
    <3>2. Placed(a)' /\ Timed(a)'
      BY <1>1, <2>1 DEF Good, Placed, Timed, Phase
    <3>3. Closed(a)' /\ Admitted(a)'
      BY <1>1, <2>1 DEF Good, Closed, Admitted, Phase
    <3> QED
      BY <3>1, <3>2, <3>3 DEF Good
  <2> QED
    BY <2>2, <2>3, Frame
<1>3. CASE Phase(a, k) # "Absent"
  <2>1. SetRow(a, k, "ReconcileOnly") /\ Phase(a, k) \notin {"None", "Committed"}
    BY <1>3 DEF BeginReconciliation
  <2>2. "ReconcileOnly" \in Phases \ {"None", "Committed"}
    BY DEF Phases
  <2> QED
    BY <1>1, <2>1, <2>2, RowMoves
<1> QED
  BY <1>2, <1>3

LEMMA CommitReconciliationGood ==
    ASSUME TypeOK, NEW a \in Authorizations, NEW k \in Kinds, NEW t \in Samples,
           CommitReconciliation(a, k, t), \A b \in Authorizations : Good(b)
    PROVE  \A b \in Authorizations : Good(b)'
<1>1. /\ UNCHANGED <<clock, issuedAt, claim, review, admission, secret, goneAt, token, effect, wire>>
      /\ get'[a] = "none" /\ \A b \in Authorizations \ {a} : get'[b] = get[b]
      /\ SetRow(a, k, Reconciled(k, get[a])) /\ Phase(a, k) \in {"ReconcileOnly", "Absent"}
      /\ k # "Issue"
  BY DEF CommitReconciliation, claims, TypeOK
<1>2. CASE Reconciled(k, get[a]) = "Committed"
  <2>1. Good(a) /\ t \in Nat /\ t + Skew >= clock
    BY SampleIsTime
  <2>2. \A b \in Authorizations \ {a} : deletedAt'[b] = deletedAt[b]
    BY DEF CommitReconciliation, TypeOK
  <2>3. CASE k = "Delete"
    <3>1. get[a] = "absent"
      BY <1>2, <2>3 DEF Reconciled
    <3>2. secret[a] \in {"gone", "foreign"}
      BY <1>1, <2>1, <2>3, <3>1 DEF Good, Placed
    <3>3. deletedAt'[a] = t /\ t # None
      BY <1>2, <2>1, <2>3, Constants DEF CommitReconciliation, TypeOK
    <3>4. goneAt[a] # None => t + Skew >= goneAt[a]
      BY <2>1, Constants DEF Good, Timed, TypeOK
    <3> QED
      BY <1>1, <1>2, <2>2, <2>3, <3>2, <3>3, <3>4, RowCommits DEF Kinds
  <2>4. CASE k # "Delete"
    <3>1. k = "Create" /\ get[a] = "matching"
      BY <1>1, <1>2, <2>4 DEF Reconciled, Kinds
    <3>2. secret[a] # "none"
      BY <2>1, <3>1 DEF Good, Placed
    <3>3. deletedAt'[a] = deletedAt[a]
      BY <2>4 DEF CommitReconciliation
    <3> QED
      BY <1>1, <1>2, <2>2, <3>1, <3>2, <3>3, RowCommits DEF Kinds
  <2> QED
    BY <2>3, <2>4
<1>3. CASE Reconciled(k, get[a]) # "Committed"
  <2>1. PICK r \in Phases \ {"None", "Committed"} : r = Reconciled(k, get[a])
    BY <1>3, ReconciledPhase DEF Phases
  <2>2. SetRow(a, k, r) /\ UNCHANGED deletedAt
    BY <1>1, <1>3, <2>1 DEF CommitReconciliation
  <2> QED
    BY <1>1, <2>1, <2>2, RowMoves
<1> QED
  BY <1>2, <1>3
LEMMA PrepareGood ==
    ASSUME TypeOK, NEW a \in Authorizations, NEW t \in Samples, PrepareCleanup(a, t),
           \A b \in Authorizations : Good(b)
    PROVE  \A b \in Authorizations : Good(b)'
<1>1. UNCHANGED <<clock, issuedAt, claim, review, deletedAt, admission, secret, goneAt, token, wire, get, effect>>
  BY DEF PrepareCleanup, claims, cluster
<1>2. CASE Phase(a, "Delete") # "None"
  BY <1>1, <1>2, Frame DEF PrepareCleanup, Same
<1>3. CASE Phase(a, "Delete") = "None"
  <2>1. Good(a) /\ claim[a] # None /\ Phase(a, "Create") = "Committed"
    BY DEF PrepareCleanup
  <2>2. [phase |-> "Intent", origin |-> journal[a]["Create"].origin] \in Row
    <3>1. journal[a]["Create"] \in Row
      BY DEF TypeOK, Kinds
    <3> QED
      BY <3>1 DEF Row, Phases
  <2>3. RowSet(a, "Delete", [phase |-> "Intent", origin |-> journal[a]["Create"].origin])
    BY <1>3, <2>2, WholeRow DEF PrepareCleanup, Kinds
  <2>4. \A b \in Authorizations \ {a} : Same(b)
    BY <1>1, <2>3 DEF Same, RowSet
  <2>5. /\ Phase(a, "Delete")' = "Intent"
        /\ Phase(a, "Create")' = "Committed" /\ Phase(a, "Issue")' = Phase(a, "Issue")
    BY <2>1, <2>3 DEF RowSet, Phase, Kinds
  <2>6. Tracked(a)'
    BY <1>1, <2>1, <2>3 DEF Good, Tracked, RowSet, Phase, Kinds
  <2>7. Ordered(a)' /\ Sent(a)' /\ Placed(a)'
    BY <1>1, <2>1, <2>5 DEF Good, Ordered, Sent, Placed, BrokerLineage
  <2>8. Timed(a)' /\ Closed(a)' /\ Admitted(a)'
    BY <1>1, <1>3, <2>1, <2>5 DEF Good, Timed, Closed, Admitted
  <2>9. Good(a)'
    BY <2>6, <2>7, <2>8 DEF Good
  <2> QED
    BY <2>4, <2>9, Frame
<1> QED
  BY <1>2, <1>3

\* The review of an operation on record moves on; once authenticated it stays.
LEMMA ReviewMoves ==
    ASSUME TypeOK, NEW a \in Authorizations, NEW v \in {"InFlight", "Authenticated", "Rejected"},
           review' = [review EXCEPT ![a] = v], review[a] # "Authenticated", BrokerLineage(a),
           UNCHANGED <<clock, issuedAt, claim, journal, deletedAt, admission, secret, goneAt, token, wire, get, effect>>,
           \A b \in Authorizations : Good(b)
    PROVE  \A b \in Authorizations : Good(b)'
<1>1. review'[a] = v /\ \A b \in Authorizations \ {a} : review'[b] = review[b]
  BY DEF TypeOK
<1>2. \A b \in Authorizations \ {a} : Same(b)
  BY <1>1 DEF Same
<1>3. Tracked(a)' /\ Ordered(a)' /\ Sent(a)'
  BY <1>1 DEF Good, Tracked, Ordered, Sent, BrokerLineage, Phase
<1>4. Placed(a)' /\ Timed(a)'
  BY DEF Good, Placed, Timed, Phase
<1>5. Closed(a)' /\ Admitted(a)'
  BY <1>1 DEF Good, Closed, Admitted, Phase
<1>6. Good(a)'
  BY <1>3, <1>4, <1>5 DEF Good
<1> QED
  BY <1>2, <1>6, Frame

LEMMA ReviewGood ==
    ASSUME TypeOK, NEW t \in Samples, \A b \in Authorizations : Good(b),
           \/ \E q \in Acquisitions : BeginReview(q, t) \/ RecordAuthenticated(q, t)
           \/ \E a \in Authorizations : RecordRejected(a, t)
    PROVE  \A b \in Authorizations : Good(b)'
<1>1. ASSUME NEW q \in Acquisitions, BeginReview(q, t) \/ RecordAuthenticated(q, t)
      PROVE  \A b \in Authorizations : Good(b)'
  <2>1. PICK a \in Authorizations : a = acquisition[q].auth
    BY <1>1
       DEF TypeOK, BeginReview, RecordAuthenticated, Revalidated, ControlAcquisition, Acquisition
  <2>2. PICK v \in {"InFlight", "Authenticated", "Rejected"} :
            review' = [review EXCEPT ![a] = v] /\ review[a] # "Authenticated" /\ BrokerLineage(a)
    BY <1>1, <2>1 DEF BeginReview, RecordAuthenticated
  <2>3. UNCHANGED <<clock, issuedAt, claim, journal, deletedAt, admission, secret, goneAt, token, wire, get, effect>>
    BY <1>1 DEF BeginReview, RecordAuthenticated, claims, cluster
  <2> QED
    BY <2>2, <2>3, ReviewMoves
<1>2. ASSUME NEW a \in Authorizations, RecordRejected(a, t)
      PROVE  \A b \in Authorizations : Good(b)'
  <2>1. review' = [review EXCEPT ![a] = "Rejected"] /\ review[a] = "InFlight"
    BY <1>2 DEF RecordRejected
  <2>2. BrokerLineage(a)
    BY <2>1 DEF Good, Ordered
  <2>3. UNCHANGED <<clock, issuedAt, claim, journal, deletedAt, admission, secret, goneAt, token, wire, get, effect>>
    BY <1>2 DEF RecordRejected, claims, cluster
  <2> QED
    BY <2>1, <2>2, <2>3, ReviewMoves
<1> QED
  BY <1>1, <1>2

\* A claim changes its state, keeps its latest acquisition and, if it gives up
\* its resource, has no token left.
LEMMA ClaimMoves ==
    ASSUME TypeOK, NEW a \in Authorizations, claim[a] # None, NEW c \in Claim, ClaimSet(a, c),
           c.latest = claim[a].latest,
           \/ c.safeAfter = claim[a].safeAfter
           \/ Phase(a, "Delete") = "Committed" /\ c.safeAfter = deletedAt[a] + Propagation + Skew,
           admission[a] # None => c.state \in {"AttemptInFlight", "Terminal"},
           c.state \in Released => /\ token[a] # "live"
                                   /\ Phase(a, "Delete") = "Committed" \/ Phase(a, "Issue") = "None",
           c.state = "Terminal" => effect[a] # {},
           UNCHANGED <<clock, issuedAt, journal, review, deletedAt, admission, secret, goneAt, token, wire, get, effect>>,
           \A b \in Authorizations : Good(b)
    PROVE  \A b \in Authorizations : Good(b)'
<1>1. claim'[a] = c /\ c # None /\ \A b \in Authorizations \ {a} : claim'[b] = claim[b]
  BY Constants DEF ClaimSet
<1>2. \A b \in Authorizations \ {a} : Same(b)
  BY <1>1 DEF Same
<1>3. Good(a)
  OBVIOUS
<1>4. Tracked(a)'
  BY <1>1, <1>3 DEF Good, Tracked, Phase
<1>5. Ordered(a)' /\ Sent(a)' /\ Placed(a)'
  BY <1>3 DEF Good, Ordered, Sent, Placed, BrokerLineage, Phase
<1>6. Timed(a)'
  BY <1>1, <1>3 DEF Good, Timed, Phase
<1>7. Closed(a)' /\ Admitted(a)'
  BY <1>1, <1>3 DEF Good, Closed, Admitted, Phase
<1>8. Good(a)'
  BY <1>4, <1>5, <1>6, <1>7 DEF Good
<1> QED
  BY <1>2, <1>8, Frame

LEMMA MarkGood ==
    ASSUME TypeOK, NEW q \in Acquisitions, NEW t \in Samples, MarkAttempt(q, t),
           \A b \in Authorizations : Good(b)
    PROVE  \A b \in Authorizations : Good(b)'
<1>1. PICK a \in Authorizations : a = acquisition[q].auth /\ claim[a] # None /\ SetState(a, "AttemptInFlight")
  BY DEF TypeOK, MarkAttempt, Revalidated, ControlAcquisition, Acquisition
<1>2. PICK c \in Claim : /\ c = [state |-> "AttemptInFlight", latest |-> claim[a].latest,
                                   safeAfter |-> claim[a].safeAfter]
                         /\ ClaimSet(a, c)
  BY <1>1, ClaimState DEF Live
<1>3. UNCHANGED <<clock, issuedAt, journal, review, deletedAt, admission, secret, goneAt, token, wire, get, effect>>
  BY DEF MarkAttempt, records, cluster
<1> QED
  BY <1>1, <1>2, <1>3, ClaimMoves DEF Released

LEMMA CloseGood ==
    ASSUME TypeOK, NEW q \in Acquisitions, CloseNoSend(q) \/ RetireCreateAbsent(q),
           \A b \in Authorizations : Good(b)
    PROVE  \A b \in Authorizations : Good(b)'
<1>1. PICK a \in Authorizations : a = acquisition[q].auth /\ claim[a] # None /\ admission[a] = None
  BY DEF TypeOK, CloseNoSend, RetireCreateAbsent, NoSendLineage, Acquisition
<1>2. UNCHANGED <<clock, issuedAt, journal, review, deletedAt, admission, secret, goneAt, token, wire, get, effect>>
  BY DEF CloseNoSend, RetireCreateAbsent, records, cluster
<1>3. CASE CloseNoSend(q)
  <2>1. PICK c \in Claim : /\ c = [state |-> "RecoveryNoSend", latest |-> claim[a].latest,
                                     safeAfter |-> claim[a].safeAfter]
                           /\ ClaimSet(a, c)
    BY <1>1, <1>3, ClaimState DEF CloseNoSend, Live
  <2> QED
    BY <1>1, <1>2, <2>1, ClaimMoves DEF Released
<1>4. CASE RetireCreateAbsent(q)
  <2>1. PICK c \in Claim : /\ c = [state |-> "RecoveryRetired", latest |-> claim[a].latest,
                                     safeAfter |-> claim[a].safeAfter]
                           /\ ClaimSet(a, c)
    BY <1>1, <1>4, ClaimState DEF RetireCreateAbsent, Released
  <2>2. Phase(a, "Issue") = "None" /\ token[a] = "none"
    BY <1>1, <1>4 DEF RetireCreateAbsent, Good, Sent
  <2> QED
    BY <1>1, <1>2, <2>1, <2>2, ClaimMoves
<1> QED
  BY <1>3, <1>4

\* Once the bound has passed on any host, no token can be alive.
LEMMA BoundPassed ==
    ASSUME TypeOK, NEW a \in Authorizations, NEW t \in Samples, Good(a),
           Phase(a, "Delete") = "Committed", deletedAt[a] \in Nat,
           t >= deletedAt[a] + Propagation + Skew
    PROVE  token[a] # "live"
<1> SUFFICES ASSUME token[a] = "live" PROVE FALSE
  OBVIOUS
<1>1. t \in Nat /\ t <= clock /\ clock \in Nat
  BY SampleIsTime DEF TypeOK
<1>2. goneAt[a] \in Nat
  BY DEF Good, Timed, Placed, TypeOK
<1>3. clock < goneAt[a] + Propagation /\ deletedAt[a] + Skew >= goneAt[a]
  BY <1>2, Constants DEF Good, Timed
<1> QED
  BY <1>1, <1>2, <1>3, Constants

LEMMA RetireGood ==
    ASSUME TypeOK, NEW q \in Acquisitions, NEW t \in Samples, RetireNoSend(q, t),
           \A b \in Authorizations : Good(b)
    PROVE  \A b \in Authorizations : Good(b)'
<1>1. PICK a \in Authorizations :
          /\ a = acquisition[q].auth /\ claim[a] # None /\ admission[a] = None /\ claim[a] \in Claim
          /\ claim[a].latest = q /\ claim[a].state = "RecoveryNoSend" /\ Phase(a, "Delete") = "Committed"
  BY DEF TypeOK, RetireNoSend, NoSendLineage, Acquisition
<1>2. /\ SafeAfter(a) = deletedAt[a] + Propagation + Skew
      /\ SafeAfter(a) \in Nat /\ deletedAt[a] \in Nat
  BY <1>1, SafeAfterIs
<1>3. UNCHANGED <<clock, issuedAt, journal, review, deletedAt, admission, secret, goneAt, token, wire, get, effect>>
  BY DEF RetireNoSend, records, cluster
<1>4. CASE t < SafeAfter(a) /\ claim' = [claim EXCEPT ![a].safeAfter = SafeAfter(a)]
  <2>1. PICK c \in Claim : /\ c = [claim[a] EXCEPT !.safeAfter = SafeAfter(a)]
                           /\ c.latest = q /\ c.state = "RecoveryNoSend" /\ c.safeAfter = SafeAfter(a)
    <3>1. [claim[a] EXCEPT !.safeAfter = SafeAfter(a)]
          = [state |-> "RecoveryNoSend", latest |-> q, safeAfter |-> SafeAfter(a)]
      BY <1>1 DEF Claim
    <3>2. [state |-> "RecoveryNoSend", latest |-> q, safeAfter |-> SafeAfter(a)] \in Claim
      BY <1>2 DEF Claim, Live
    <3> QED
      BY <3>1, <3>2
  <2>2. claim' = [claim EXCEPT ![a] = c]
    BY <1>4, <2>1 DEF TypeOK
  <2>3. ClaimSet(a, c)
    BY <2>2, WholeClaim
  <2> QED
    BY <1>1, <1>2, <1>3, <2>1, <2>3, ClaimMoves DEF Released
<1>5. CASE /\ t >= SafeAfter(a)
           /\ claim' = [claim EXCEPT ![a] = [state |-> "RecoveryRetired", latest |-> q,
                                               safeAfter |-> SafeAfter(a)]]
  <2>1. PICK c \in Claim : c = [state |-> "RecoveryRetired", latest |-> q, safeAfter |-> SafeAfter(a)]
    BY <1>2 DEF Claim, Released
  <2>2. ClaimSet(a, c)
    BY <1>5, <2>1, WholeClaim
  <2>3. token[a] # "live"
    BY <1>1, <1>2, <1>5, BoundPassed
  <2> QED
    BY <1>1, <1>2, <1>3, <2>1, <2>2, <2>3, ClaimMoves
<1> QED
  BY <1>1, <1>4, <1>5 DEF RetireNoSend
LEMMA TerminalGood ==
    ASSUME TypeOK, NEW a \in Authorizations, NEW t \in Samples, FinalizeTerminal(a, t),
           \A b \in Authorizations : Good(b)
    PROVE  /\ token[a] # "live"
           /\ \A b \in Authorizations : Good(b)'
<1>1. /\ claim[a] # None /\ SetState(a, "Terminal") /\ effect[a] # {} /\ Good(a)
      /\ Phase(a, "Delete") = "Committed" /\ Phase(a, "Issue") = "Committed"
  BY DEF FinalizeTerminal, PostAttempt, BrokerLineage
<1>2. deletedAt[a] \in Nat /\ t \in Nat
  BY <1>1, SampleIsTime DEF Good, Timed, TypeOK
<1>3. token[a] # "live"
  <2>1. CASE token[a] = "dead"
    BY <2>1
  <2>2. CASE t >= CredentialSafeAfter(a)
    <3>1. issuedAt[a] \in Nat
      BY <1>1 DEF Good, Sent, TypeOK
    <3>2. t >= deletedAt[a] + Propagation + Skew
      BY <1>2, <2>2, <3>1, Constants DEF CredentialSafeAfter, Later
    <3> QED
      BY <1>1, <1>2, <3>2, BoundPassed
  <2> QED
    BY <2>1, <2>2 DEF FinalizeTerminal
<1>4. PICK c \in Claim : /\ c = [state |-> "Terminal", latest |-> claim[a].latest,
                                   safeAfter |-> claim[a].safeAfter]
                         /\ ClaimSet(a, c)
  BY <1>1, ClaimState DEF Released
<1>5. UNCHANGED <<clock, issuedAt, journal, review, deletedAt, admission, secret, goneAt, token, wire, get, effect>>
  BY DEF FinalizeTerminal, records, cluster
<1> QED
  BY <1>1, <1>3, <1>4, <1>5, ClaimMoves

LEMMA AdmissionGood ==
    ASSUME TypeOK, NEW a \in Authorizations, NEW u \in Requests, NEW t \in Samples,
           AuthorizeAdmission(a, u, t), \A b \in Authorizations : Good(b)
    PROVE  \A b \in Authorizations : Good(b)'
<1>1. /\ admission'[a] = u /\ admission[a] = None
      /\ \A b \in Authorizations \ {a} : admission'[b] = admission[b]
  BY DEF AuthorizeAdmission, TypeOK
<1>2. UNCHANGED <<clock, issuedAt, claim, journal, review, deletedAt, secret, goneAt, token, wire, get, effect>>
  BY DEF AuthorizeAdmission, claims, cluster
<1>3. /\ claim[a] # None /\ claim[a].state = "AttemptInFlight" /\ review[a] = "Authenticated"
  BY DEF AuthorizeAdmission, PostAttempt
<1>4. \A b \in Authorizations \ {a} : Same(b)
  BY <1>1, <1>2 DEF Same
<1>5. effect[a] = {}
  BY <1>1, Constants DEF Good, Admitted, TypeOK
<1>6. Tracked(a)' /\ Ordered(a)' /\ Sent(a)'
  BY <1>2 DEF Good, Tracked, Ordered, Sent, BrokerLineage, Phase
<1>7. Placed(a)' /\ Timed(a)'
  BY <1>2 DEF Good, Placed, Timed, Phase
<1>8. Closed(a)' /\ Admitted(a)'
  BY <1>1, <1>2, <1>3, <1>5 DEF Good, Closed, Admitted, Phase
<1>9. Good(a)'
  BY <1>6, <1>7, <1>8 DEF Good
<1> QED
  BY <1>4, <1>9, Frame

\* The cluster acts on one Secret or token.
LEMMA SecretGood ==
    ASSUME TypeOK, NEW a \in Authorizations, CreateLands(a) \/ DeleteLands(a) \/ NameTaken(a),
           \A b \in Authorizations : Good(b)
    PROVE  \A b \in Authorizations : Good(b)'
<1>1. UNCHANGED <<clock, issuedAt, claim, journal, review, deletedAt, admission, token, get, effect>>
  BY DEF CreateLands, DeleteLands, NameTaken, store, claims, records
<1>2. \A b \in Authorizations : <<b, "Issue">> \in wire' <=> <<b, "Issue">> \in wire
  BY DEF CreateLands, DeleteLands, NameTaken
<1>3. \A b \in Authorizations \ {a} : secret'[b] = secret[b] /\ goneAt'[b] = goneAt[b]
  BY DEF CreateLands, DeleteLands, NameTaken, TypeOK
<1>4. \A b \in Authorizations \ {a} : Same(b)
  BY <1>1, <1>2, <1>3 DEF Same
<1>5. Good(a) /\ clock \in Nat
  BY DEF TypeOK
<1>6. Tracked(a)' /\ Ordered(a)' /\ Sent(a)'
  BY <1>1, <1>2, <1>5 DEF Good, Tracked, Ordered, Sent, BrokerLineage, Phase
<1>7. Placed(a)' /\ Timed(a)'
  <2>1. CASE CreateLands(a)
    <3>1. secret[a] = "none" /\ secret'[a] = "bound" /\ goneAt'[a] = goneAt[a]
      BY <2>1 DEF CreateLands, TypeOK
    <3> QED
      BY <1>1, <1>5, <3>1 DEF Good, Placed, Timed, Phase
  <2>2. CASE DeleteLands(a)
    <3>1. secret[a] = "bound" /\ secret'[a] = "gone" /\ goneAt'[a] = clock /\ goneAt'[a] # None
      BY <2>2, <1>5, Constants DEF DeleteLands, TypeOK
    <3>2. Phase(a, "Delete") # "Committed"
      BY <1>5, <3>1 DEF Good, Placed
    <3> QED
      BY <1>1, <1>5, <3>1, <3>2, Constants DEF Good, Placed, Timed, Phase
  <2>3. CASE NameTaken(a)
    <3>1. secret[a] \in {"none", "gone"} /\ secret'[a] = "foreign" /\ goneAt'[a] = goneAt[a]
      BY <2>3 DEF NameTaken, TypeOK
    <3> QED
      BY <1>1, <1>5, <3>1 DEF Good, Placed, Timed, Phase
  <2> QED
    BY <2>1, <2>2, <2>3
<1>8. Closed(a)' /\ Admitted(a)'
  BY <1>1, <1>5 DEF Good, Closed, Admitted, Phase
<1>9. Good(a)'
  BY <1>6, <1>7, <1>8 DEF Good
<1> QED
  BY <1>4, <1>9, Frame

\* A token comes to life only for a claim that still holds its resource.
LEMMA TokenIsHeld ==
    ASSUME NEW a \in Authorizations, Good(a), TokenLands(a)
    PROVE  /\ claim[a] # None /\ claim[a].state \notin Released
           /\ token[a] = "none" /\ Phase(a, "Issue") # "None" /\ goneAt[a] = None
<1>1. Phase(a, "Issue") # "None" /\ token[a] = "none" /\ secret[a] = "bound"
  BY DEF Good, Sent, TokenLands
<1>2. Phase(a, "Delete") # "Committed" /\ goneAt[a] = None
  BY <1>1 DEF Good, Placed, Timed
<1>3. claim[a] # None
  BY <1>1 DEF Good, Tracked, Kinds
<1> QED
  BY <1>1, <1>2, <1>3 DEF Good, Closed

LEMMA TokenGood ==
    ASSUME TypeOK, NEW a \in Authorizations, TokenLands(a) \/ TokenDies(a),
           \A b \in Authorizations : Good(b)
    PROVE  \A b \in Authorizations : Good(b)'
<1>1. UNCHANGED <<clock, issuedAt, claim, journal, review, deletedAt, admission, secret, goneAt, get, effect>>
  BY DEF TokenLands, TokenDies, store, claims, records
<1>2. \A b \in Authorizations \ {a} : <<b, "Issue">> \in wire' <=> <<b, "Issue">> \in wire
  BY DEF TokenLands, TokenDies
<1>3. \A b \in Authorizations \ {a} : token'[b] = token[b]
  BY DEF TokenLands, TokenDies, TypeOK
<1>4. \A b \in Authorizations \ {a} : Same(b)
  BY <1>1, <1>2, <1>3 DEF Same
<1>5. Good(a)
  OBVIOUS
<1>6. CASE TokenLands(a)
  <2>1. token'[a] = "live" /\ <<a, "Issue">> \notin wire' /\ secret[a] = "bound"
    BY <1>6 DEF TokenLands, TypeOK
  <2>2. /\ claim[a] # None /\ claim[a].state \notin Released
        /\ token[a] = "none" /\ Phase(a, "Issue") # "None" /\ goneAt[a] = None
    BY <1>5, <1>6, TokenIsHeld
  <2>3. Tracked(a)' /\ Ordered(a)' /\ Sent(a)'
    BY <1>1, <1>5, <2>1, <2>2 DEF Good, Tracked, Ordered, Sent, BrokerLineage, Phase
  <2>4. Placed(a)' /\ Timed(a)'
    BY <1>1, <1>5, <2>1, <2>2 DEF Good, Placed, Timed, Phase
  <2>5. Closed(a)' /\ Admitted(a)'
    BY <1>1, <1>5, <2>2 DEF Good, Closed, Admitted, Phase
  <2> QED
    BY <1>4, <2>3, <2>4, <2>5, Frame DEF Good
<1>7. CASE TokenDies(a)
  <2>1. token'[a] = "dead" /\ token[a] = "live" /\ wire' = wire
    BY <1>7 DEF TokenDies, TypeOK
  <2>2. Tracked(a)' /\ Ordered(a)' /\ Sent(a)'
    BY <1>1, <1>5, <2>1 DEF Good, Tracked, Ordered, Sent, BrokerLineage, Phase
  <2>3. Placed(a)' /\ Timed(a)'
    BY <1>1, <1>5, <2>1 DEF Good, Placed, Timed, Phase
  <2>4. Closed(a)' /\ Admitted(a)'
    BY <1>1, <1>5, <2>1 DEF Good, Closed, Admitted, Phase
  <2> QED
    BY <1>4, <2>2, <2>3, <2>4, Frame DEF Good
<1> QED
  BY <1>6, <1>7

LEMMA ReadGood ==
    ASSUME TypeOK, NEW a \in Authorizations, ReadSecret(a), \A b \in Authorizations : Good(b)
    PROVE  \A b \in Authorizations : Good(b)'
<1>1. UNCHANGED <<clock, issuedAt, claim, journal, review, deletedAt, admission, secret, goneAt, token, wire, effect>>
  BY DEF ReadSecret, store, claims, records
<1>2. \A b \in Authorizations \ {a} : get'[b] = get[b]
  BY DEF ReadSecret, TypeOK
<1>3. \A b \in Authorizations \ {a} : Same(b)
  BY <1>1, <1>2 DEF Same
<1>4. Good(a)
  OBVIOUS
<1>5. /\ get'[a] = "matching" => secret[a] = "bound"
      /\ get'[a] = "absent" => secret[a] \in {"none", "gone"}
  BY DEF ReadSecret, TypeOK
<1>6. Tracked(a)' /\ Ordered(a)' /\ Sent(a)'
  BY <1>1, <1>4 DEF Good, Tracked, Ordered, Sent, BrokerLineage, Phase
<1>7. Placed(a)'
  BY <1>1, <1>4, <1>5 DEF Good, Placed, Ordered, Phase
<1>8. Timed(a)' /\ Closed(a)' /\ Admitted(a)'
  BY <1>1, <1>4 DEF Good, Timed, Closed, Admitted, Phase
<1> QED
  BY <1>3, <1>6, <1>7, <1>8, Frame DEF Good

LEMMA ApplyGood ==
    ASSUME TypeOK, NEW a \in Authorizations, NEW u \in Requests, Apply(a, u),
           \A b \in Authorizations : Good(b)
    PROVE  \A b \in Authorizations : Good(b)'
<1>1. UNCHANGED <<clock, issuedAt, claim, journal, review, deletedAt, admission, secret, goneAt, token, wire, get>>
  BY DEF Apply, store, claims, records
<1>2. /\ effect'[a] = effect[a] \cup {u} /\ admission[a] = u
      /\ \A b \in Authorizations \ {a} : effect'[b] = effect[b]
  BY DEF Apply, TypeOK
<1>3. \A b \in Authorizations \ {a} : Same(b)
  BY <1>1, <1>2 DEF Same
<1>4. Good(a)
  OBVIOUS
<1>5. Tracked(a)' /\ Ordered(a)' /\ Sent(a)'
  BY <1>1, <1>4 DEF Good, Tracked, Ordered, Sent, BrokerLineage, Phase
<1>6. Placed(a)' /\ Timed(a)'
  BY <1>1, <1>4 DEF Good, Placed, Timed, Phase
<1>7. Closed(a)' /\ Admitted(a)'
  BY <1>1, <1>2, <1>4 DEF Good, Closed, Admitted, Phase
<1> QED
  BY <1>3, <1>5, <1>6, <1>7, Frame DEF Good

LEMMA TickGood ==
    ASSUME TypeOK, Tick, \A b \in Authorizations : Good(b)
    PROVE  \A b \in Authorizations : Good(b)'
<1> SUFFICES ASSUME NEW a \in Authorizations PROVE Good(a)'
  OBVIOUS
<1>1. /\ UNCHANGED <<issuedAt, claim, journal, review, deletedAt, admission, secret, goneAt, token, wire, get, effect>>
      /\ clock' = clock + 1 /\ clock \in Nat
      /\ token[a] = "live" /\ goneAt[a] # None => clock + 1 < goneAt[a] + Propagation
  BY DEF Tick, TypeOK, store, claims, records, cluster
<1>2. Good(a) /\ (goneAt[a] # None => goneAt[a] \in Nat)
  BY DEF TypeOK
<1>3. Tracked(a)' /\ Ordered(a)' /\ Sent(a)'
  BY <1>1, <1>2 DEF Good, Tracked, Ordered, Sent, BrokerLineage, Phase
<1>4. Placed(a)' /\ Timed(a)'
  BY <1>1, <1>2 DEF Good, Placed, Timed, Phase
<1>5. Closed(a)' /\ Admitted(a)'
  BY <1>1, <1>2 DEF Good, Closed, Admitted, Phase
<1> QED
  BY <1>3, <1>4, <1>5 DEF Good
(***************************************************************************)
(* Reservations, and the abstract step each action is.                     *)
(***************************************************************************)

Busy(a) == claim[a] # None /\ claim[a].state \in Live

LEMMA LiveOrReleased ==
    ASSUME TypeOK, NEW a \in Authorizations, claim[a] # None
    PROVE  claim[a].state \in Live <=> claim[a].state \notin Released
<1>1. claim[a] \in Claim
  BY DEF TypeOK
<1> QED
  BY <1>1 DEF Claim, Live, Released

\* Nothing happens to a resource: the abstract store stutters.
LEMMA StutterStep ==
    ASSUME TypeOK, TypeOK', ReservationMatchesClaims,
           UNCHANGED <<reservation, disposedBy, token, effect>>,
           \A a \in Authorizations : claim'[a] = claim[a] \/ (Busy(a) /\ Busy(a)')
    PROVE  ReservationMatchesClaims' /\ UNCHANGED Exclusive!vars
<1>1. \A a \in Authorizations : Busy(a)' <=> Busy(a)
  BY DEF Busy
<1>2. ReservationMatchesClaims'
  BY <1>1 DEF ReservationMatchesClaims, Busy, Holds
<1>3. \A a \in Authorizations : claim'[a] # None /\ claim'[a].state \in Released
                                <=> claim[a] # None /\ claim[a].state \in Released
  BY DEF Busy, Live, Released
<1>4. Ended' = Ended
  BY <1>3 DEF Ended
<1> QED
  BY <1>2, <1>4 DEF Exclusive!vars

\* A claim is closed and its resource released.
LEMMA YieldStep ==
    ASSUME TypeOK, ReservationMatchesClaims, NEW a \in Authorizations, Busy(a), token[a] # "live",
           Release(a), NEW c \in Claim, ClaimSet(a, c), c.state \in Released,
           \A b \in Authorizations \ {a} : disposedBy'[b] = disposedBy[b],
           UNCHANGED <<token, effect>>
    PROVE  ReservationMatchesClaims' /\ Exclusive!Yield(a)
<1>1. Holds(a) /\ ResourceOf[a] \in Resources
  BY Constants DEF ReservationMatchesClaims, Busy
<1>2. /\ reservation' = [reservation EXCEPT ![ResourceOf[a]] = None]
      /\ reservation'[ResourceOf[a]] = None
      /\ \A r \in Resources : r # ResourceOf[a] => reservation'[r] = reservation[r]
  BY <1>1 DEF Release, TypeOK
<1>3. claim'[a] = c /\ c # None /\ \A b \in Authorizations \ {a} : claim'[b] = claim[b]
  BY Constants DEF ClaimSet
<1>4. ReservationMatchesClaims'
  <2>1. ASSUME NEW b \in Authorizations
        PROVE  (claim'[b] # None /\ claim'[b].state \in Live) <=> reservation'[ResourceOf[b]] = b
    <3>1. CASE b = a
      BY <1>2, <1>3, <3>1, Constants DEF Live, Released
    <3>2. CASE b # a /\ ResourceOf[b] = ResourceOf[a]
      <4>1. reservation[ResourceOf[b]] # b
        BY <1>1, <3>2 DEF Holds
      <4>2. ~(claim[b] # None /\ claim[b].state \in Live)
        BY <4>1 DEF ReservationMatchesClaims, Holds
      <4>3. reservation'[ResourceOf[b]] = None /\ b # None /\ claim'[b] = claim[b]
        BY <1>2, <1>3, <3>2, Constants
      <4> QED
        BY <4>2, <4>3
    <3>3. CASE b # a /\ ResourceOf[b] # ResourceOf[a]
      BY <1>2, <1>3, <3>3, Constants DEF ReservationMatchesClaims, Holds
    <3> QED
      BY <3>1, <3>2, <3>3
  <2>2. \A r \in Resources : reservation'[r] # None => ResourceOf[reservation'[r]] = r
    BY <1>2 DEF ReservationMatchesClaims
  <2> QED
    BY <2>1, <2>2 DEF ReservationMatchesClaims, Holds
<1>5. Ended' = Ended \cup {a}
  BY <1>3 DEF Ended
<1> QED
  BY <1>1, <1>2, <1>4, <1>5 DEF Exclusive!Yield, Exclusive!Holds, Holds

LEMMA AcquireStep ==
    ASSUME TypeOK, TypeOK', ReservationMatchesClaims, NEW q \in Acquisitions, NEW a \in Authorizations,
           NEW t \in Samples, Acquire(q, a, t)
    PROVE  ReservationMatchesClaims' /\ (Exclusive!Take(a) \/ UNCHANGED Exclusive!vars)
<1>1. /\ claim'[a] = [state |-> "Claimed", latest |-> q, safeAfter |-> None]
      /\ claim'[a] # None
      /\ \A b \in Authorizations \ {a} : claim'[b] = claim[b]
  BY Constants DEF Acquire, TypeOK, Claim, Live
<1>2. UNCHANGED <<disposedBy, token, effect>> /\ disposedBy[a] = None
  BY DEF Acquire, Chosen, Candidates, queue, cluster
<1>3. ResourceOf[a] \in Resources
  BY Constants
<1>4. CASE claim[a] # None
  <2>1. Busy(a)
    BY <1>4 DEF Acquire, Chosen, Selectable, Busy, Live
  <2>2. reservation[ResourceOf[a]] = a
    BY <2>1 DEF ReservationMatchesClaims, Busy, Holds
  <2>3. reservation' = reservation
    BY <1>3, <2>2 DEF Acquire, TypeOK
  <2>4. Busy(a)'
    BY <1>1 DEF Busy, Live
  <2> QED
    BY <1>1, <1>2, <2>1, <2>3, <2>4, StutterStep
<1>5. CASE claim[a] = None
  <2>1. reservation[ResourceOf[a]] = None
    BY <1>5 DEF Acquire, Chosen, Selectable
  <2>2. /\ reservation' = [reservation EXCEPT ![ResourceOf[a]] = a]
        /\ reservation'[ResourceOf[a]] = a
        /\ \A r \in Resources : r # ResourceOf[a] => reservation'[r] = reservation[r]
    BY <1>3 DEF Acquire, TypeOK
  <2>3. ASSUME NEW b \in Authorizations
        PROVE  (claim'[b] # None /\ claim'[b].state \in Live) <=> reservation'[ResourceOf[b]] = b
    <3>1. CASE b = a
      BY <1>1, <2>2, <3>1 DEF Live
    <3>2. CASE b # a /\ ResourceOf[b] = ResourceOf[a]
      BY <1>1, <2>1, <2>2, <3>2, Constants DEF ReservationMatchesClaims, Holds
    <3>3. CASE b # a /\ ResourceOf[b] # ResourceOf[a]
      BY <1>1, <2>2, <3>3, Constants DEF ReservationMatchesClaims, Holds
    <3> QED
      BY <3>1, <3>2, <3>3
  <2>4. \A r \in Resources : reservation'[r] # None => ResourceOf[reservation'[r]] = r
    BY <2>2 DEF ReservationMatchesClaims
  <2>5. Ended' = Ended /\ a \notin Ended
    BY <1>1, <1>2, <1>5 DEF Ended, Released
  <2> QED
    BY <1>2, <2>1, <2>2, <2>3, <2>4, <2>5 DEF ReservationMatchesClaims, Holds, Exclusive!Take
<1> QED
  BY <1>4, <1>5

LEMMA DisposeStep ==
    ASSUME TypeOK, ReservationMatchesClaims, NEW q \in Acquisitions, NEW a \in Authorizations,
           NEW t \in Samples, Dispose(q, a, t), Good(a)
    PROVE  ReservationMatchesClaims' /\ (Exclusive!Yield(a) \/ Exclusive!Abandon(a))
<1>1. /\ UNCHANGED <<token, effect>> /\ disposedBy[a] = None /\ disposedBy'[a] = q
      /\ \A b \in Authorizations \ {a} : disposedBy'[b] = disposedBy[b]
  BY DEF Dispose, Chosen, Candidates, cluster, TypeOK
<1>2. CASE claim[a] # None
  <2>1. Busy(a) /\ Release(a) /\ SetState(a, "Disposed") /\ Phase(a, "Issue") = "None"
    BY <1>2 DEF Dispose, Chosen, Selectable, Artifacts, Busy, Live, Kinds
  <2>2. token[a] # "live"
    BY <2>1 DEF Good, Sent
  <2>3. PICK c \in Claim : /\ c = [state |-> "Disposed", latest |-> claim[a].latest,
                                     safeAfter |-> claim[a].safeAfter]
                           /\ ClaimSet(a, c)
    BY <1>2, <2>1, ClaimState DEF Released
  <2>4. c.state \in Released
    BY <2>3 DEF Released
  <2> QED
    BY <1>1, <2>1, <2>2, <2>3, <2>4, YieldStep
<1>3. CASE claim[a] = None
  <2>1. UNCHANGED <<claim, reservation>>
    BY <1>3 DEF Dispose
  <2>2. ReservationMatchesClaims'
    BY <2>1 DEF ReservationMatchesClaims, Holds
  <2>3. ~Holds(a) /\ a \notin Ended
    BY <1>1, <1>3 DEF ReservationMatchesClaims, Ended
  <2>4. q # None
    BY Constants
  <2>5. Ended' = Ended \cup {a}
    BY <1>1, <2>1, <2>4 DEF Ended
  <2> QED
    BY <1>1, <2>1, <2>2, <2>3, <2>5 DEF Exclusive!Abandon, Exclusive!Holds, Holds
<1> QED
  BY <1>2, <1>3
LEMMA RetireStep ==
    ASSUME TypeOK, TypeOK', ReservationMatchesClaims, NEW q \in Acquisitions,
           \A b \in Authorizations : Good(b),
           RetireCreateAbsent(q) \/ \E t \in Samples : RetireNoSend(q, t)
    PROVE  /\ ReservationMatchesClaims'
           /\ (\E a \in Authorizations : Exclusive!Yield(a)) \/ UNCHANGED Exclusive!vars
<1>1. PICK a \in Authorizations :
          /\ a = acquisition[q].auth /\ claim[a] # None /\ claim[a] \in Claim
          /\ claim[a].latest = q /\ claim[a].state = "RecoveryNoSend"
  BY DEF TypeOK, RetireCreateAbsent, RetireNoSend, NoSendLineage, Acquisition
<1>2. UNCHANGED <<disposedBy, token, effect>>
  BY DEF RetireCreateAbsent, RetireNoSend, queue, cluster
<1>3. Busy(a) /\ "RecoveryRetired" \in Released /\ "RecoveryNoSend" \in Live
  BY <1>1 DEF Busy, Live, Released
<1>4. CASE RetireCreateAbsent(q)
  <2>1. PICK c \in Claim : /\ c = [state |-> "RecoveryRetired", latest |-> claim[a].latest,
                                     safeAfter |-> claim[a].safeAfter]
                           /\ ClaimSet(a, c)
    BY <1>1, <1>3, <1>4, ClaimState DEF RetireCreateAbsent
  <2>2. token[a] # "live" /\ Release(a)
    BY <1>1, <1>4 DEF RetireCreateAbsent, Good, Sent
  <2> QED
    BY <1>2, <1>3, <2>1, <2>2, YieldStep
<1>5. ASSUME NEW t \in Samples, RetireNoSend(q, t)
      PROVE  /\ ReservationMatchesClaims'
             /\ Exclusive!Yield(a) \/ UNCHANGED Exclusive!vars
  <2>1. Phase(a, "Delete") = "Committed" /\ Good(a)
    BY <1>1, <1>5 DEF RetireNoSend
  <2>2. /\ SafeAfter(a) = deletedAt[a] + Propagation + Skew
        /\ SafeAfter(a) \in Nat /\ deletedAt[a] \in Nat
    BY <1>1, <2>1, SafeAfterIs
  <2>3. CASE claim' = [claim EXCEPT ![a].safeAfter = SafeAfter(a)] /\ UNCHANGED reservation
    <3>1. claim' = [claim EXCEPT ![a] = [claim[a] EXCEPT !.safeAfter = SafeAfter(a)]]
      BY <2>3 DEF TypeOK
    <3>2. claim'[a] = [claim[a] EXCEPT !.safeAfter = SafeAfter(a)]
          /\ \A b \in Authorizations \ {a} : claim'[b] = claim[b]
      BY <3>1 DEF TypeOK
    <3>3. [claim[a] EXCEPT !.safeAfter = SafeAfter(a)]
          = [state |-> "RecoveryNoSend", latest |-> q, safeAfter |-> SafeAfter(a)]
      BY <1>1 DEF Claim
    <3>4. [state |-> "RecoveryNoSend", latest |-> q, safeAfter |-> SafeAfter(a)] \in Claim
      BY <2>2 DEF Claim, Live
    <3>5. Busy(a)'
      BY <1>3, <3>2, <3>3, <3>4, Constants DEF Busy
    <3> QED
      BY <1>2, <1>3, <2>3, <3>2, <3>5, StutterStep
  <2>4. CASE /\ t >= SafeAfter(a) /\ Release(a)
             /\ claim' = [claim EXCEPT ![a] = [state |-> "RecoveryRetired", latest |-> q,
                                                 safeAfter |-> SafeAfter(a)]]
    <3>1. PICK c \in Claim : c = [state |-> "RecoveryRetired", latest |-> q, safeAfter |-> SafeAfter(a)]
      BY <2>2 DEF Claim, Released
    <3>2. ClaimSet(a, c) /\ c.state \in Released
      BY <1>3, <2>4, <3>1, WholeClaim
    <3>3. token[a] # "live"
      BY <2>1, <2>2, <2>4, BoundPassed
    <3> QED
      BY <1>2, <1>3, <2>4, <3>1, <3>2, <3>3, YieldStep
  <2> QED
    BY <1>1, <1>5, <2>3, <2>4 DEF RetireNoSend
<1> QED
  BY <1>4, <1>5

LEMMA TerminalStep ==
    ASSUME TypeOK, ReservationMatchesClaims, NEW a \in Authorizations, NEW t \in Samples,
           FinalizeTerminal(a, t), \A b \in Authorizations : Good(b)
    PROVE  ReservationMatchesClaims' /\ Exclusive!Yield(a)
<1>1. Busy(a) /\ claim[a] # None /\ Release(a) /\ SetState(a, "Terminal")
  BY DEF FinalizeTerminal, PostAttempt, Busy, Live
<1>2. PICK c \in Claim : /\ c = [state |-> "Terminal", latest |-> claim[a].latest,
                                   safeAfter |-> claim[a].safeAfter]
                         /\ ClaimSet(a, c)
  BY <1>1, ClaimState DEF Released
<1>3. c.state \in Released
  BY <1>2 DEF Released
<1>4. UNCHANGED <<disposedBy, token, effect>>
  BY DEF FinalizeTerminal, queue, cluster
<1> QED
  BY <1>1, <1>2, <1>3, <1>4, TerminalGood, YieldStep

\* MarkAttempt and CloseNoSend move a claim from one live state to another.
LEMMA LiveStep ==
    ASSUME TypeOK, TypeOK', ReservationMatchesClaims, NEW q \in Acquisitions,
           CloseNoSend(q) \/ \E t \in Samples : MarkAttempt(q, t)
    PROVE  ReservationMatchesClaims' /\ UNCHANGED Exclusive!vars
<1>1. PICK a \in Authorizations : a = acquisition[q].auth /\ claim[a] # None /\ claim[a].state = "Claimed"
  BY DEF TypeOK, CloseNoSend, MarkAttempt, Revalidated, ControlAcquisition, NoSendLineage, Acquisition
<1>2. PICK s \in {"AttemptInFlight", "RecoveryNoSend"} : SetState(a, s)
  BY <1>1 DEF CloseNoSend, MarkAttempt
<1>3. s \in Live /\ "Claimed" \in Live
  BY DEF Live
<1>4. PICK c \in Claim : /\ c = [state |-> s, latest |-> claim[a].latest, safeAfter |-> claim[a].safeAfter]
                         /\ ClaimSet(a, c)
  BY <1>1, <1>2, <1>3, ClaimState
<1>5. Busy(a) /\ Busy(a)' /\ \A b \in Authorizations \ {a} : claim'[b] = claim[b]
  BY <1>1, <1>3, <1>4, Constants DEF Busy, ClaimSet
<1>6. UNCHANGED <<reservation, disposedBy, token, effect>>
  BY DEF CloseNoSend, MarkAttempt, queue, cluster
<1> QED
  BY <1>5, <1>6, StutterStep

LEMMA TokenStep ==
    ASSUME TypeOK, ReservationMatchesClaims, NEW a \in Authorizations, Good(a), TokenLands(a) \/ TokenDies(a)
    PROVE  ReservationMatchesClaims' /\ (Exclusive!Empower(a) \/ Exclusive!Expire(a))
<1>1. UNCHANGED <<reservation, claim, disposedBy, effect>>
  BY DEF TokenLands, TokenDies, store, queue, claims
<1>2. ReservationMatchesClaims' /\ Ended' = Ended
  BY <1>1 DEF ReservationMatchesClaims, Holds, Ended
<1>3. CASE TokenLands(a)
  <2>1. claim[a] # None /\ claim[a].state \in Live /\ token[a] = "none"
    BY <1>3, TokenIsHeld, LiveOrReleased
  <2>2. reservation[ResourceOf[a]] = a
    BY <2>1 DEF ReservationMatchesClaims, Holds
  <2> QED
    BY <1>1, <1>2, <1>3, <2>1, <2>2 DEF TokenLands, Exclusive!Empower, Exclusive!Holds
<1>4. CASE TokenDies(a)
  BY <1>1, <1>2, <1>4 DEF TokenDies, Exclusive!Expire
<1> QED
  BY <1>3, <1>4

LEMMA ApplyStep ==
    ASSUME TypeOK, ReservationMatchesClaims, NEW a \in Authorizations, NEW u \in Requests,
           Good(a), Apply(a, u)
    PROVE  ReservationMatchesClaims' /\ Exclusive!CarryOut(a, u)
<1>1. UNCHANGED <<reservation, claim, disposedBy, token>>
  BY DEF Apply, store, queue, claims
<1>2. ReservationMatchesClaims' /\ Ended' = Ended
  BY <1>1 DEF ReservationMatchesClaims, Holds, Ended
<1>3. effect[a] = {} /\ admission[a] # None
  BY Constants DEF Good, Admitted, Apply
<1>4. claim[a] # None /\ claim[a].state = "AttemptInFlight" /\ token[a] # "none"
  BY <1>3 DEF Good, Admitted, Closed, Ordered, Sent, BrokerLineage
<1>5. reservation[ResourceOf[a]] = a
  BY <1>4 DEF ReservationMatchesClaims, Holds, Live
<1>6. effect' = [effect EXCEPT ![a] = {u}]
  BY <1>3 DEF Apply, TypeOK
<1> QED
  BY <1>1, <1>2, <1>3, <1>4, <1>5, <1>6 DEF Exclusive!CarryOut, Exclusive!Holds
(***************************************************************************)
(* Every step keeps the invariant and is a step of the abstract store.     *)
(***************************************************************************)

StepOK == DispatchInvariant' /\ (Exclusive!Next \/ UNCHANGED Exclusive!vars)

\* An action that touches neither claims and resources nor tokens and effects.
LEMMA QuietStep ==
    ASSUME DispatchInvariant, TypeOK', \A b \in Authorizations : Good(b)',
           UNCHANGED <<reservation, claim, disposedBy, token, effect>>
    PROVE  StepOK
BY StutterStep DEF DispatchInvariant, StepOK

\* The invariant says nothing about the queue and the mark.
LEMMA UnseenStep ==
    ASSUME DispatchInvariant, TypeOK',
           UNCHANGED <<clock, claims, records, cluster, disposedBy>>
    PROVE  StepOK
<1>1. \A b \in Authorizations : Same(b)
  BY DEF Same, claims, records, cluster
<1>2. \A b \in Authorizations : Good(b)'
  BY <1>1, Frame DEF DispatchInvariant
<1> QED
  BY <1>2, QuietStep DEF claims, cluster

LEMMA QueueStep ==
    ASSUME DispatchInvariant, NEW a \in Authorizations, NEW t \in Samples, Queue(a, t)
    PROVE  StepOK
<1>1. CASE Consume(a, t)
  BY <1>1, QueueType, UnseenStep DEF Consume, DispatchInvariant
<1>2. ASSUME NEW q \in Acquisitions, Acquire(q, a, t)
      PROVE  StepOK
  <2>1. TypeOK' /\ \A b \in Authorizations : Good(b)'
    BY <1>2, AcquireType, AcquireGood, Frame DEF DispatchInvariant
  <2> QED
    BY <1>2, <2>1, AcquireStep DEF DispatchInvariant, StepOK, Exclusive!Next
<1>3. ASSUME NEW q \in Acquisitions, Dispose(q, a, t)
      PROVE  StepOK
  <2>1. TypeOK' /\ \A b \in Authorizations : Good(b)'
    BY <1>3, DisposeType, DisposeGood, Frame DEF DispatchInvariant
  <2> QED
    BY <1>3, <2>1, DisposeStep DEF DispatchInvariant, StepOK, Exclusive!Next
<1> QED
  BY <1>1, <1>2, <1>3 DEF Queue

LEMMA WorkerStep ==
    ASSUME DispatchInvariant, NEW q \in Acquisitions, NEW t \in Samples, Worker(q, t)
    PROVE  StepOK
<1>1. CASE BeginCreate(q, t)
  <2>1. TypeOK' /\ \A b \in Authorizations : Good(b)'
    BY <1>1, BeginType, BeginCreateGood DEF DispatchInvariant, BeginCreate, Kinds
  <2> QED
    BY <1>1, <2>1, QuietStep DEF BeginCreate, Begin, queue, claims
<1>2. CASE BeginIssue(q, t)
  <2>1. TypeOK' /\ \A b \in Authorizations : Good(b)'
    BY <1>2, BeginType, BeginIssueGood DEF DispatchInvariant, BeginIssue, Kinds
  <2> QED
    BY <1>2, <2>1, QuietStep DEF BeginIssue, Begin, queue, claims
<1>3. CASE BeginReview(q, t) \/ RecordAuthenticated(q, t)
  <2>1. TypeOK' /\ \A b \in Authorizations : Good(b)'
    BY <1>3, WorkerType, ReviewGood DEF DispatchInvariant
  <2> QED
    BY <1>3, <2>1, QuietStep DEF BeginReview, RecordAuthenticated, queue, claims, cluster
<1>4. CASE MarkAttempt(q, t)
  <2>1. TypeOK' /\ \A b \in Authorizations : Good(b)'
    BY <1>4, WorkerType, MarkGood DEF DispatchInvariant
  <2> QED
    BY <1>4, <2>1, LiveStep DEF DispatchInvariant, StepOK
<1>5. CASE Recover(q, t) \/ Revalidate(q, t)
  <2>1. PICK a \in Authorizations : TRUE
    BY <1>5 DEF Recover, Revalidate, ControlAcquisition, DispatchInvariant, TypeOK, Acquisition
  <2>2. TypeOK'
    BY <1>5, <2>1, QueueType DEF DispatchInvariant
  <2> QED
    BY <1>5, <2>2, UnseenStep DEF Recover, Revalidate, queue
<1> QED
  BY <1>1, <1>2, <1>3, <1>4, <1>5 DEF Worker

LEMMA CleanupStep ==
    ASSUME DispatchInvariant, NEW a \in Authorizations, NEW t \in Samples, Cleanup(a, t)
    PROVE  StepOK
<1>1. CASE RecordRejected(a, t)
  <2>1. TypeOK'
    BY <1>1, SampleIsTime DEF DispatchInvariant, TypeOK, RecordRejected, queue, claims, cluster
  <2>2. \A b \in Authorizations : Good(b)'
    BY <1>1, ReviewGood DEF DispatchInvariant
  <2> QED
    BY <1>1, <2>1, <2>2, QuietStep DEF RecordRejected, queue, claims, cluster
<1>2. CASE PrepareCleanup(a, t)
  <2>1. TypeOK' /\ \A b \in Authorizations : Good(b)'
    BY <1>2, PrepareType, PrepareGood DEF DispatchInvariant
  <2> QED
    BY <1>2, <2>1, QuietStep DEF PrepareCleanup, queue, claims, cluster
<1>3. CASE BeginDelete(a, t)
  <2>1. TypeOK' /\ \A b \in Authorizations : Good(b)'
    BY <1>3, DeleteType, BeginDeleteGood DEF DispatchInvariant
  <2> QED
    BY <1>3, <2>1, QuietStep DEF BeginDelete, queue, claims
<1>4. CASE FinalizeTerminal(a, t)
  <2>1. TypeOK' /\ \A b \in Authorizations : Good(b)'
    BY <1>4, TerminalType, TerminalGood DEF DispatchInvariant
  <2> QED
    BY <1>4, <2>1, TerminalStep DEF DispatchInvariant, StepOK, Exclusive!Next
<1>5. ASSUME NEW k \in Kinds, BeginReconciliation(a, k, t) \/ CommitReconciliation(a, k, t)
      PROVE  StepOK
  <2>1. TypeOK' /\ \A b \in Authorizations : Good(b)'
    BY <1>5, ReconcileType, BeginReconciliationGood, CommitReconciliationGood DEF DispatchInvariant
  <2> QED
    BY <1>5, <2>1, QuietStep DEF BeginReconciliation, CommitReconciliation, queue, claims
<1> QED
  BY <1>1, <1>2, <1>3, <1>4, <1>5 DEF Cleanup

LEMMA WebhookStep ==
    ASSUME DispatchInvariant, NEW a \in Authorizations, NEW t \in Samples, Webhook(a, t)
    PROVE  StepOK
<1>1. CASE ReviewAdmission(a, t)
  BY <1>1, QueueType, UnseenStep DEF ReviewAdmission, DispatchInvariant, queue
<1>2. ASSUME NEW u \in Requests, AuthorizeAdmission(a, u, t)
      PROVE  StepOK
  <2>1. TypeOK' /\ \A b \in Authorizations : Good(b)'
    BY <1>2, AdmissionType, AdmissionGood DEF DispatchInvariant
  <2> QED
    BY <1>2, <2>1, QuietStep DEF AuthorizeAdmission, queue, claims, cluster
<1> QED
  BY <1>1, <1>2 DEF Webhook

LEMMA ClusterStep ==
    ASSUME DispatchInvariant, Cluster
    PROVE  StepOK
<1>1. TypeOK' /\ TypeOK /\ ReservationMatchesClaims /\ \A b \in Authorizations : Good(b)
  BY ClusterType DEF DispatchInvariant
<1>2. ASSUME NEW a \in Authorizations, CreateLands(a) \/ DeleteLands(a) \/ NameTaken(a)
      PROVE  StepOK
  <2>1. \A b \in Authorizations : Good(b)'
    BY <1>1, <1>2, SecretGood
  <2> QED
    BY <1>1, <1>2, <2>1, QuietStep DEF CreateLands, DeleteLands, NameTaken, store, queue, claims
<1>3. ASSUME NEW a \in Authorizations, TokenLands(a) \/ TokenDies(a)
      PROVE  StepOK
  <2>1. \A b \in Authorizations : Good(b)'
    BY <1>1, <1>3, TokenGood
  <2> QED
    BY <1>1, <1>3, <2>1, TokenStep DEF StepOK, DispatchInvariant, Exclusive!Next
<1>4. ASSUME NEW a \in Authorizations, ReadSecret(a)
      PROVE  StepOK
  <2>1. \A b \in Authorizations : Good(b)'
    BY <1>1, <1>4, ReadGood
  <2> QED
    BY <1>1, <1>4, <2>1, QuietStep DEF ReadSecret, store, queue, claims
<1>5. ASSUME NEW a \in Authorizations, NEW u \in Requests, Apply(a, u)
      PROVE  StepOK
  <2>1. \A b \in Authorizations : Good(b)'
    BY <1>1, <1>5, ApplyGood
  <2> QED
    BY <1>1, <1>5, <2>1, ApplyStep DEF StepOK, DispatchInvariant, Exclusive!Next
<1>6. CASE Tick
  <2>1. \A b \in Authorizations : Good(b)'
    BY <1>1, <1>6, TickGood
  <2> QED
    BY <1>1, <1>6, <2>1, QuietStep DEF Tick, store, queue, claims, cluster
<1> QED
  BY <1>2, <1>3, <1>4, <1>5, <1>6 DEF Cluster

LEMMA NextStep ==
    ASSUME DispatchInvariant, Next
    PROVE  StepOK
<1>1. ASSUME NEW t \in Samples, NEW a \in Authorizations, Queue(a, t) \/ Cleanup(a, t) \/ Webhook(a, t)
      PROVE  StepOK
  BY <1>1, QueueStep, CleanupStep, WebhookStep
<1>2. ASSUME NEW t \in Samples, NEW q \in Acquisitions, Worker(q, t)
      PROVE  StepOK
  BY <1>2, WorkerStep
<1>3. ASSUME NEW t \in Samples, NEW q \in Acquisitions, RetireNoSend(q, t)
      PROVE  StepOK
  <2>1. TypeOK' /\ \A b \in Authorizations : Good(b)'
    BY <1>3, RetireType, RetireGood DEF DispatchInvariant
  <2> QED
    BY <1>3, <2>1, RetireStep DEF DispatchInvariant, StepOK, Exclusive!Next
<1>4. ASSUME NEW a \in Authorizations, Answer(a)
      PROVE  StepOK
  <2>1. TypeOK' /\ \A b \in Authorizations : Good(b)'
    BY <1>4, AnswerType, AnswerGood DEF DispatchInvariant
  <2> QED
    BY <1>4, <2>1, QuietStep
       DEF Answer, CommitCreate, CommitTokenIssue, MarkUnknown, queue, claims, cluster
<1>5. ASSUME NEW q \in Acquisitions, CloseNoSend(q)
      PROVE  StepOK
  <2>1. TypeOK' /\ \A b \in Authorizations : Good(b)'
    BY <1>5, CloseType, CloseGood DEF DispatchInvariant
  <2> QED
    BY <1>5, <2>1, LiveStep DEF DispatchInvariant, StepOK
<1>6. ASSUME NEW q \in Acquisitions, RetireCreateAbsent(q)
      PROVE  StepOK
  <2>1. TypeOK' /\ \A b \in Authorizations : Good(b)'
    BY <1>6, CloseType, CloseGood DEF DispatchInvariant
  <2> QED
    BY <1>6, <2>1, RetireStep DEF DispatchInvariant, StepOK, Exclusive!Next
<1>7. ASSUME NEW a \in Authorizations, RevokeGrant(a)
      PROVE  StepOK
  <2>1. TypeOK'
    BY <1>7 DEF RevokeGrant, DispatchInvariant, TypeOK, claims, records, cluster
  <2> QED
    BY <1>7, <2>1, UnseenStep DEF RevokeGrant
<1>8. CASE ActivateAuthority
  <2>1. TypeOK'
    BY <1>8 DEF ActivateAuthority, DispatchInvariant, TypeOK, claims, records, cluster
  <2> QED
    BY <1>8, <2>1, UnseenStep DEF ActivateAuthority
<1> QED
  BY <1>1, <1>2, <1>3, <1>4, <1>5, <1>6, <1>7, <1>8, ClusterStep DEF Next

LEMMA InitStep == Init => DispatchInvariant /\ Exclusive!Init
<1> SUFFICES ASSUME Init PROVE DispatchInvariant /\ Exclusive!Init
  OBVIOUS
<1>1. TypeOK
  BY InitType
<1>2. ReservationMatchesClaims
  BY Constants DEF Init, ReservationMatchesClaims, Holds
<1>3. ASSUME NEW a \in Authorizations PROVE Good(a)
  <2>1. /\ claim[a] = None /\ \A k \in Kinds : Phase(a, k) = "None"
        /\ review[a] = "None" /\ admission[a] = None /\ effect[a] = {} /\ token[a] = "none"
        /\ secret[a] = "none" /\ goneAt[a] = None /\ get[a] = "none" /\ wire = {}
    BY DEF Init, Phase, NoRow
  <2> QED
    BY <2>1 DEF Good, Tracked, Ordered, Sent, Placed, Timed, Closed, Admitted, Kinds
<1>4. Ended = {}
  BY DEF Init, Ended
<1> QED
  BY <1>1, <1>2, <1>3, <1>4 DEF DispatchInvariant, Init, Exclusive!Init

LEMMA StutterOK ==
    ASSUME DispatchInvariant, UNCHANGED vars
    PROVE  StepOK
<1>1. TypeOK'
  BY DEF DispatchInvariant, TypeOK, vars, store, queue, claims, records, cluster
<1> QED
  BY <1>1, UnseenStep DEF vars, store, queue
(***************************************************************************)
(* Theorems.                                                               *)
(***************************************************************************)

\* The invariant holds in every behaviour: the store's records, the cluster
\* and the dates on record stay in step through takeover and recovery.
THEOREM DispatchInductive == Spec => []DispatchInvariant
<1>1. Init => DispatchInvariant
  BY InitStep
<1>2. DispatchInvariant /\ [Next]_vars => DispatchInvariant'
  BY NextStep, StutterOK DEF StepOK
<1> QED
  BY <1>1, <1>2, PTL DEF Spec

\* The variables keep their types, for every instance.
THEOREM DispatchTypes == Spec => []TypeOK
<1>1. DispatchInvariant => TypeOK
  BY DEF DispatchInvariant
<1> QED
  BY <1>1, DispatchInductive, PTL

\* Reservations and live claims never come apart, whatever workers do
\* (physical_reservations and dispatch_claims).
THEOREM ReservationsMatch == Spec => []ReservationMatchesClaims
<1>1. DispatchInvariant => ReservationMatchesClaims
  BY DEF DispatchInvariant
<1> QED
  BY <1>1, DispatchInductive, PTL

\* No token issued for a claim works once the claim has given up its resource
\* (retire_recovery_no_send, finalize_terminal_retirement_or_recover).
THEOREM ReleasedIsPowerless == Spec => []NoCredentialAfterRelease
<1>1. DispatchInvariant => NoCredentialAfterRelease
  BY DEF DispatchInvariant, Good, Closed, NoCredentialAfterRelease
<1> QED
  BY <1>1, DispatchInductive, PTL

\* No worker takes over a claim that has touched the cluster
\* (claim_next_pending_dispatch_or_recover).
THEOREM ArtifactsAreOwned == Spec => []ArtifactsBelongToLatest
<1>1. DispatchInvariant => ArtifactsBelongToLatest
  BY DEF DispatchInvariant, Good, Tracked, ArtifactsBelongToLatest
<1> QED
  BY <1>1, DispatchInductive, PTL

\* What was closed as not sent has no effect
\* (close_dispatch_acquisition_no_send).
THEOREM ClosedIsNotSent == Spec => []NoSendMeansNoSend
<1>1. DispatchInvariant => NoSendMeansNoSend
  <2> SUFFICES ASSUME DispatchInvariant, NEW a \in Authorizations, claim[a] # None,
                      claim[a].state \in {"RecoveryNoSend", "RecoveryRetired", "Disposed"}
               PROVE  admission[a] = None /\ effect[a] = {}
    BY DEF NoSendMeansNoSend
  <2>1. admission[a] = None
    BY DEF DispatchInvariant, Good, Admitted
  <2>2. effect[a] \subseteq {None} /\ effect[a] \subseteq Requests
    BY <2>1 DEF DispatchInvariant, Good, Admitted, TypeOK
  <2> QED
    BY <2>1, <2>2, Constants
<1> QED
  BY <1>1, DispatchInductive, PTL

\* Nothing takes effect without a token the cluster recognised
\* (record_authenticated_dispatch_credential).
THEOREM EffectsReviewed == Spec => []EffectsWereReviewed
<1>1. DispatchInvariant => EffectsWereReviewed
  <2> SUFFICES ASSUME DispatchInvariant, NEW a \in Authorizations, effect[a] # {}
               PROVE  review[a] = "Authenticated" /\ token[a] # "none"
    BY DEF EffectsWereReviewed
  <2>1. Good(a) /\ admission[a] # None
    BY Constants DEF DispatchInvariant, Good, Admitted, TypeOK
  <2>2. review[a] = "Authenticated"
    BY <2>1 DEF Good, Admitted
  <2> QED
    BY <2>1, <2>2 DEF Good, Ordered, Sent, BrokerLineage
<1> QED
  BY <1>1, DispatchInductive, PTL

\* The store implements exclusive, single use of a physical resource: leases,
\* takeover, journals, recovery and clocks are all steps of ExclusiveDispatch.
THEOREM StoreRefinesExclusive == Spec => ImplementsExclusive
<1>1. Init => Exclusive!Init
  BY InitStep
<1>2. DispatchInvariant /\ [Next]_vars => [Exclusive!Next]_(Exclusive!vars)
  BY NextStep, StutterOK DEF StepOK
<1> QED
  BY <1>1, <1>2, DispatchInductive, PTL DEF Spec, ImplementsExclusive, Exclusive!Spec
=============================================================================
