---------------------------- MODULE DispatchStore ----------------------------
(***************************************************************************)
(* The durable dispatch state of accordlock-state (memory.rs; postgres.rs  *)
(* is the same contract in SQL): consumed authorizations wait in one queue *)
(* for an enforcement worker, which acquires one under a lease, creates a  *)
(* Secret in the cluster, has a token bound to it issued and reviewed,     *)
(* marks the attempt and calls the provider; the admission webhook lets    *)
(* one request through.  A worker that dies is recovered by others: the    *)
(* claim is closed without sending, its Secret is deleted, and the         *)
(* physical resource is released when no credential can still be alive.    *)
(*                                                                         *)
(* Every store operation runs under one lock, so an action is one call.    *)
(* Calls that only answer are not actions.  Workers keep nothing but the   *)
(* acquisition they were given: any of them may make any call with it, in  *)
(* any order, as often as it likes, and crash in between.                  *)
(***************************************************************************)
EXTENDS Integers, FiniteSets

CONSTANTS
    Authorizations,  \* issued authorizations of one scope, numbers
    Resources, ResourceOf,  \* the physical resource each one is about
    Acquisitions,    \* acquisition request identities chosen by workers
    Requests,        \* admission identities the API server gives provider requests
    Contested,       \* authorizations whose Secret's name others may take
    None,
    Lease,           \* DISPATCH_ACQUISITION_LEASE_SECONDS
    DispatchWindow,  \* from consumption to the dispatch deadline
    Lifetime,        \* server_lifetime_hard_max of a token
    Propagation,     \* deletion_propagation_hard_max
    Skew,            \* clock_uncertainty: how far two samples of the clock may differ
    MaxClock

ASSUME QueueAssumption == Authorizations \subseteq Nat /\ Contested \subseteq Authorizations
ASSUME ResourceAssumption == ResourceOf \in [Authorizations -> Resources]
ASSUME TimeAssumption ==
    /\ {DispatchWindow, Skew, MaxClock} \subseteq Nat
    /\ {Lease, Lifetime, Propagation} \subseteq Nat \ {0}

VARIABLES
    clock,        \* time in the cluster
    high,         \* the scope's and its ingress's high-water mark
    consumed,     \* when an authorization was consumed, None before
    current,      \* authorizations whose authority vector and grant still stand
    disposedBy,   \* the request that disposed of an authorization in the queue
    reservation,  \* who holds a physical resource
    claim,        \* the stable claim of an authorization
    acquisition,  \* acquisition records
    journal,      \* broker operations, by authorization and kind
    issuedAt,     \* when the token request was begun
    review,       \* credential review
    deletedAt,    \* secret deletion observation
    admission,    \* the admission identity let through
    secret, goneAt,  \* the bound Secret in the cluster, and when it went
    token,        \* the bearer token bound to it
    wire,         \* requests given to the network that may still arrive
    get,          \* what a reconciling worker has read of the Secret
    effect        \* requests the provider has carried out

queue == <<consumed, current, disposedBy>>
claims == <<reservation, claim, acquisition>>
records == <<journal, issuedAt, review, deletedAt, admission>>
store == <<high, queue, claims, records>>
cluster == <<secret, goneAt, token, wire, get, effect>>
vars == <<clock, store, cluster>>

Kinds == {"Create", "Issue", "Delete"}
Phases == {"None", "Intent", "InFlight", "Unknown", "ReconcileOnly", "Absent", "Committed", "Terminal"}
NoRow == [phase |-> "None", origin |-> None]

\* "Absent" is ReconcileOnly with CREATE_ABSENT as its last observation.
Row == [phase : Phases, origin : Acquisitions \cup {None}]

Live == {"Claimed", "AttemptInFlight", "RecoveryNoSend"}
Released == {"Disposed", "RecoveryRetired", "Terminal"}
Claim == [state : Live \cup Released, latest : Acquisitions, safeAfter : Nat \cup {None}]
Acquisition == [auth : Authorizations, until : Nat]

ASSUME NoneAssumption ==
    /\ None \notin Authorizations \cup Acquisitions \cup Requests \cup Nat
    /\ None \notin Claim /\ None \notin Acquisition

TypeOK ==
    /\ clock \in Nat /\ high \in Nat
    /\ consumed \in [Authorizations -> Nat \cup {None}]
    /\ current \subseteq Authorizations
    /\ disposedBy \in [Authorizations -> Acquisitions \cup {None}]
    /\ reservation \in [Resources -> Authorizations \cup {None}]
    /\ claim \in [Authorizations -> Claim \cup {None}]
    /\ acquisition \in [Acquisitions -> Acquisition \cup {None}]
    /\ journal \in [Authorizations -> [Kinds -> Row]]
    /\ issuedAt \in [Authorizations -> Nat \cup {None}]
    /\ review \in [Authorizations -> {"None", "InFlight", "Authenticated", "Rejected"}]
    /\ deletedAt \in [Authorizations -> Nat \cup {None}]
    /\ admission \in [Authorizations -> Requests \cup {None}]
    /\ secret \in [Authorizations -> {"none", "bound", "gone", "foreign"}]
    /\ goneAt \in [Authorizations -> Nat \cup {None}]
    /\ token \in [Authorizations -> {"none", "live", "dead"}]
    /\ wire \subseteq (Authorizations \X Kinds)
    /\ get \in [Authorizations -> {"none", "asked", "absent", "matching", "conflicting"}]
    /\ effect \in [Authorizations -> SUBSET Requests]

Init ==
    /\ clock = 0 /\ high = 0
    /\ consumed = [a \in Authorizations |-> None]
    /\ current = {}
    /\ disposedBy = [a \in Authorizations |-> None]
    /\ reservation = [r \in Resources |-> None]
    /\ claim = [a \in Authorizations |-> None]
    /\ acquisition = [q \in Acquisitions |-> None]
    /\ journal = [a \in Authorizations |-> [k \in Kinds |-> NoRow]]
    /\ issuedAt = [a \in Authorizations |-> None]
    /\ review = [a \in Authorizations |-> "None"]
    /\ deletedAt = [a \in Authorizations |-> None]
    /\ admission = [a \in Authorizations |-> None]
    /\ secret = [a \in Authorizations |-> "none"]
    /\ goneAt = [a \in Authorizations |-> None]
    /\ token = [a \in Authorizations |-> "none"]
    /\ wire = {}
    /\ get = [a \in Authorizations |-> "none"]
    /\ effect = [a \in Authorizations |-> {}]

-----------------------------------------------------------------------------
(* What the store's operations look at *)

Deadline(a) == consumed[a] + DispatchWindow
Phase(a, k) == journal[a][k].phase

\* Mutant: operations begun and not answered leave nothing behind.
ArtifactsOnRecord(a) == review[a] # "None" \/ \E k \in Kinds : Phase(a, k) = "Committed"

Artifacts(a) == review[a] # "None" \/ \E k \in Kinds : Phase(a, k) # "None"
Holds(a) == reservation[ResourceOf[a]] = a
Later(x, y) == IF x >= y THEN x ELSE y

\* The trusted clock of a store host: not ahead of the cluster's, and not
\* further behind it than the rooted policy allows.
Samples == {t \in 0..clock : t + Skew >= clock}

SnapshotValid(a, t) == a \in current /\ t < Deadline(a)

\* require_memory_control_acquisition: the worker's acquisition is the latest
\* of a claim nobody closed, and every broker operation is its own.
ControlAcquisition(q) ==
    /\ acquisition[q] # None
    /\ LET a == acquisition[q].auth IN
       /\ claim[a] # None
       /\ Holds(a)
       /\ claim[a].state = "Claimed"
       /\ claim[a].latest = q
       /\ disposedBy[a] = None /\ admission[a] = None
       /\ Phase(a, "Delete") = "None"
       /\ \A k \in Kinds : Phase(a, k) # "None" => journal[a][k].origin = q

\* memory_revalidate_control_acquisition_locked.
Revalidated(q, t) ==
    /\ ControlAcquisition(q)
    /\ t >= high
    /\ SnapshotValid(acquisition[q].auth, t)
    /\ t < acquisition[q].until

\* memory_no_send_lineage.
NoSendLineage(q) ==
    /\ acquisition[q] # None
    /\ LET a == acquisition[q].auth IN
       /\ claim[a] # None /\ claim[a].latest = q
       /\ \/ claim[a].state \in {"Claimed", "RecoveryNoSend"} /\ Holds(a)
          \/ claim[a].state = "RecoveryRetired" /\ ~Holds(a)
       /\ disposedBy[a] = None /\ admission[a] = None
       /\ Phase(a, "Create") # "None"
       /\ \A k \in Kinds : Phase(a, k) # "None" => journal[a][k].origin = q

\* Create and token issue are both on record for the attempt.
BrokerLineage(a) == Phase(a, "Create") = "Committed" /\ Phase(a, "Issue") = "Committed"

SetRow(a, k, phase) == journal' = [journal EXCEPT ![a][k].phase = phase]
SetState(a, s) == claim' = [claim EXCEPT ![a].state = s]
Release(a) == reservation' = [reservation EXCEPT ![ResourceOf[a]] = None]

-----------------------------------------------------------------------------
(* The queue *)

\* consume_and_link_control_or_recover: the authorization enters the queue.
Consume(a, t) ==
    /\ consumed[a] = None
    /\ t >= high
    /\ consumed' = [consumed EXCEPT ![a] = t]
    /\ current' = current \cup {a}
    /\ high' = t
    /\ UNCHANGED <<clock, disposedBy, claims, records, cluster>>

\* compare_and_activate_authority: authority only moves forward, so what was
\* authorized under the previous vector is never current again.
ActivateAuthority ==
    /\ current # {}
    /\ current' = {}
    /\ UNCHANGED <<clock, high, consumed, disposedBy, claims, records, cluster>>

\* revoke_grant: the grant's revocation is a new authority vector of the scope,
\* so no other authorization under the previous one stays current.
RevokeGrant(a) ==
    /\ a \in current
    /\ current' = {}
    /\ UNCHANGED <<clock, high, consumed, disposedBy, claims, records, cluster>>

Candidates == {a \in Authorizations : consumed[a] # None /\ disposedBy[a] = None}
Before(a, b) == consumed[a] < consumed[b] \/ (consumed[a] = consumed[b] /\ a < b)

\* Mutant: the clock uncertainty is left out of the bound.
SafeAfterPropagation(a) ==
    IF claim[a].safeAfter # None THEN claim[a].safeAfter ELSE deletedAt[a] + Propagation

SafeAfter(a) ==
    IF claim[a].safeAfter # None THEN claim[a].safeAfter ELSE deletedAt[a] + Propagation + Skew

\* A claim whose recovery has a next step is handed out before later work.
Actionable(a, t) ==
    /\ claim[a] # None
    /\ \/ claim[a].state = "Claimed" /\ Artifacts(a)
       \/ claim[a].state = "AttemptInFlight" /\ Phase(a, "Delete") \notin {"Committed", "Terminal"}
       \/ /\ claim[a].state = "RecoveryNoSend"
          /\ IF Phase(a, "Delete") = "Committed"
             THEN Later(t, high) >= SafeAfter(a)
             ELSE "Terminal" \notin {Phase(a, "Create"), Phase(a, "Delete")}

\* Mutant: only the claim is looked at, never the resource.
SelectableUnreserved(a, t) ==
    \/ /\ claim[a] # None
       /\ claim[a].state = "Claimed"
       /\ acquisition[claim[a].latest].until <= Later(t, high)
       /\ ~Artifacts(a)
    \/ claim[a] = None

\* Work for a new acquisition: an expired one that left nothing behind, or an
\* unclaimed authorization whose resource is free.
Selectable(a, t) ==
    \/ /\ claim[a] # None
       /\ claim[a].state = "Claimed"
       /\ acquisition[claim[a].latest].until <= Later(t, high)
       /\ ~Artifacts(a)
    \/ claim[a] = None /\ reservation[ResourceOf[a]] = None

\* The oldest selectable candidate, unless recovery comes no later.
Chosen(a, t) ==
    /\ a \in Candidates /\ Selectable(a, t)
    /\ \A b \in Candidates :
          /\ Before(b, a) => ~Selectable(b, t)
          /\ Before(b, a) \/ b = a => ~Actionable(b, t)

Fresh(q) == acquisition[q] = None /\ \A a \in Authorizations : disposedBy[a] # q

\* claim_next_pending_dispatch_or_recover, with a new request identity.
Acquire(q, a, t) ==
    /\ Fresh(q) /\ Chosen(a, t)
    /\ t >= high
    /\ SnapshotValid(a, t)
    /\ high' = t
    /\ acquisition' = [acquisition EXCEPT ![q] =
           [auth |-> a, until |-> IF t + Lease <= Deadline(a) THEN t + Lease ELSE Deadline(a)]]
    /\ claim' = [claim EXCEPT ![a] = [state |-> "Claimed", latest |-> q, safeAfter |-> None]]
    /\ reservation' = [reservation EXCEPT ![ResourceOf[a]] = a]
    /\ UNCHANGED <<clock, queue, records, cluster>>

\* Mutant: a disposed authorization always has a claim.
DisposeClaim(q, a, t) ==
    /\ Fresh(q) /\ Chosen(a, t)
    /\ t >= high
    /\ ~SnapshotValid(a, t)
    /\ claim[a] # None => acquisition[claim[a].latest].until <= t /\ Holds(a)
    /\ high' = t
    /\ disposedBy' = [disposedBy EXCEPT ![a] = q]
    /\ IF claim[a] # None THEN SetState(a, "Disposed") /\ Release(a)
       ELSE /\ claim' = [claim EXCEPT ![a] = [state |-> "Disposed", latest |-> None, safeAfter |-> None]]
            /\ UNCHANGED reservation
    /\ UNCHANGED <<clock, consumed, current, acquisition, records, cluster>>

\* The same call finds that the chosen authorization may no longer be used: it
\* leaves the queue and gives up what an expired acquisition held.
Dispose(q, a, t) ==
    /\ Fresh(q) /\ Chosen(a, t)
    /\ t >= high
    /\ ~SnapshotValid(a, t)
    /\ claim[a] # None => acquisition[claim[a].latest].until <= t /\ Holds(a)
    /\ high' = t
    /\ disposedBy' = [disposedBy EXCEPT ![a] = q]
    /\ IF claim[a] # None THEN SetState(a, "Disposed") /\ Release(a)
                          ELSE UNCHANGED <<claim, reservation>>
    /\ UNCHANGED <<clock, consumed, current, acquisition, records, cluster>>

\* The same call with an identity used before: a worker asks again for an
\* acquisition that has begun nothing; only the mark can move.
Recover(q, t) ==
    /\ acquisition[q] # None
    /\ LET a == acquisition[q].auth IN
       /\ claim[a].latest = q /\ claim[a].state = "Claimed" /\ ~Artifacts(a)
       /\ high < acquisition[q].until
       /\ t > high
       /\ t >= acquisition[q].until \/ a \in current
    /\ high' = t
    /\ UNCHANGED <<clock, queue, claims, records, cluster>>

\* revalidate_dispatch_acquisition, and what remains of every call below that
\* is refused for its time: the sample is kept.
Revalidate(q, t) ==
    /\ ControlAcquisition(q)
    /\ t > high
    /\ acquisition[q].auth \in current
    /\ high' = t
    /\ UNCHANGED <<clock, queue, claims, records, cluster>>

-----------------------------------------------------------------------------
(* The worker's broker operations *)

\* begin_broker_operation_for_acquisition.  A row is begun once: a second
\* call finds it past its intent and is refused.
Begin(q, k, t) ==
    LET a == acquisition[q].auth IN
    /\ Revalidated(q, t)
    /\ Phase(a, k) = "None"
    /\ high' = t
    /\ journal' = [journal EXCEPT ![a][k] = [phase |-> "InFlight", origin |-> q]]
    /\ issuedAt' = IF k = "Issue" THEN [issuedAt EXCEPT ![a] = t] ELSE issuedAt
    /\ wire' = wire \cup {<<a, k>>}
    /\ UNCHANGED <<clock, queue, claims, review, deletedAt, admission, secret, goneAt, token, get, effect>>

BeginCreate(q, t) == Begin(q, "Create", t)
BeginIssue(q, t) == Begin(q, "Issue", t) /\ Phase(acquisition[q].auth, "Create") = "Committed"

\* The answer to a create or a token request came back and is on record.
CommitCreate(a) ==
    /\ Phase(a, "Create") = "InFlight"
    /\ secret[a] \in {"bound", "gone"}
    /\ SetRow(a, "Create", "Committed")
    /\ UNCHANGED <<clock, high, queue, claims, issuedAt, review, deletedAt, admission, cluster>>

CommitTokenIssue(a) ==
    /\ Phase(a, "Issue") = "InFlight"
    /\ token[a] # "none"
    /\ SetRow(a, "Issue", "Committed")
    /\ UNCHANGED <<clock, high, queue, claims, issuedAt, review, deletedAt, admission, cluster>>

\* mark_broker_io_unknown: every failure after a row was begun, and every
\* answer to DELETE.
MarkUnknown(a, k) ==
    /\ Phase(a, k) = "InFlight"
    /\ SetRow(a, k, "Unknown")
    /\ UNCHANGED <<clock, high, queue, claims, issuedAt, review, deletedAt, admission, cluster>>

BeginReview(q, t) ==
    LET a == acquisition[q].auth IN
    /\ Revalidated(q, t)
    /\ review[a] = "None"
    /\ BrokerLineage(a)
    /\ high' = t
    /\ review' = [review EXCEPT ![a] = "InFlight"]
    /\ UNCHANGED <<clock, queue, claims, journal, issuedAt, deletedAt, admission, cluster>>

\* The token review answers that the token is good.  The credential's own dates
\* are no state of the model: here and in MarkAttempt the refusal of an expired
\* one (DispatchCredentialExpired) is left out, which only allows more.
RecordAuthenticated(q, t) ==
    LET a == acquisition[q].auth IN
    /\ Revalidated(q, t)
    /\ review[a] = "InFlight" /\ BrokerLineage(a)
    /\ token[a] = "live"
    /\ high' = t
    /\ review' = [review EXCEPT ![a] = "Authenticated"]
    /\ UNCHANGED <<clock, queue, claims, journal, issuedAt, deletedAt, admission, cluster>>

\* The token review rejects; neither lease nor authority matters to record it.
RecordRejected(a, t) ==
    /\ review[a] = "InFlight"
    /\ t >= high
    /\ high' = t
    /\ review' = [review EXCEPT ![a] = "Rejected"]
    /\ UNCHANGED <<clock, queue, claims, journal, issuedAt, deletedAt, admission, cluster>>

\* mark_dispatch_acquisition_attempt_in_flight: from here on the claim can
\* never be closed as not sent.
MarkAttempt(q, t) ==
    LET a == acquisition[q].auth IN
    /\ Revalidated(q, t)
    /\ review[a] = "Authenticated" /\ BrokerLineage(a)
    /\ high' = t
    /\ SetState(a, "AttemptInFlight")
    /\ UNCHANGED <<clock, queue, reservation, acquisition, records, cluster>>

-----------------------------------------------------------------------------
(* The admission webhook *)

PostAttempt(a) ==
    /\ claim[a] # None
    /\ claim[a].state = "AttemptInFlight" /\ Holds(a)
    /\ review[a] = "Authenticated" /\ BrokerLineage(a)

\* Mutant: each admission identity is looked up on its own.
AuthorizeAdmissionByUid(a, u, t) ==
    /\ admission[a] # u /\ \A b \in Authorizations \ {a} : admission[b] # u
    /\ PostAttempt(a)
    /\ t >= high /\ SnapshotValid(a, t)
    /\ high' = t
    /\ admission' = [admission EXCEPT ![a] = u]
    /\ UNCHANGED <<clock, queue, claims, journal, issuedAt, review, deletedAt, cluster>>

\* authorize_admission_or_recover: one admission per transaction, claim, fence
\* and provider request, asked for by a request made with the issued token.
AuthorizeAdmission(a, u, t) ==
    /\ \A b \in Authorizations : admission[b] # u
    /\ admission[a] = None
    /\ PostAttempt(a)
    /\ t >= high /\ SnapshotValid(a, t)
    /\ high' = t
    /\ admission' = [admission EXCEPT ![a] = u]
    /\ UNCHANGED <<clock, queue, claims, journal, issuedAt, review, deletedAt, cluster>>

\* The same identity asks again, or the time is refused: the sample is kept.
ReviewAdmission(a, t) ==
    /\ PostAttempt(a)
    /\ t > high /\ a \in current
    /\ high' = t
    /\ UNCHANGED <<clock, queue, claims, records, cluster>>

-----------------------------------------------------------------------------
(* Recovery *)

\* Mutant: a live claim is closed without looking at its lineage.
CloseNoSendBlind(q) ==
    LET a == acquisition[q].auth IN
    /\ acquisition[q] # None
    /\ claim[a] # None /\ claim[a].latest = q
    /\ claim[a].state \in {"Claimed", "AttemptInFlight"}
    /\ Phase(a, "Create") # "None"
    /\ SetState(a, "RecoveryNoSend")
    /\ UNCHANGED <<clock, high, queue, reservation, acquisition, records, cluster>>

\* close_dispatch_acquisition_no_send: races with MarkAttempt for the claim.
CloseNoSend(q) ==
    LET a == acquisition[q].auth IN
    /\ NoSendLineage(q)
    /\ claim[a].state = "Claimed"
    /\ SetState(a, "RecoveryNoSend")
    /\ UNCHANGED <<clock, high, queue, reservation, acquisition, records, cluster>>

\* prepare_broker_cleanup, in any live state of the claim.
PrepareCleanup(a, t) ==
    /\ claim[a] # None /\ Holds(a)
    /\ Phase(a, "Create") = "Committed"
    /\ t >= high
    /\ high' = t
    /\ IF Phase(a, "Delete") = "None"
       THEN journal' = [journal EXCEPT ![a]["Delete"] =
                [phase |-> "Intent", origin |-> journal[a]["Create"].origin]]
       ELSE UNCHANGED journal
    /\ UNCHANGED <<clock, queue, claims, issuedAt, review, deletedAt, admission, cluster>>

\* begin_broker_io of the DELETE.
BeginDelete(a, t) ==
    /\ claim[a] # None /\ Holds(a)
    /\ Phase(a, "Delete") = "Intent"
    /\ t >= high
    /\ high' = t
    /\ SetRow(a, "Delete", "InFlight")
    /\ wire' = wire \cup {<<a, "Delete">>}
    /\ UNCHANGED <<clock, queue, claims, issuedAt, review, deletedAt, admission, secret, goneAt, token, get, effect>>

\* begin_broker_reconciliation: from now on the operation is only asked about.
BeginReconciliation(a, k, t) ==
    /\ k # "Issue"
    /\ claim[a] # None /\ Holds(a)
    /\ Phase(a, k) \in {"Intent", "InFlight", "Unknown", "ReconcileOnly", "Absent"}
    /\ t >= high
    /\ high' = t
    /\ IF Phase(a, k) = "Absent" THEN UNCHANGED journal ELSE SetRow(a, k, "ReconcileOnly")
    /\ get' = [get EXCEPT ![a] = "asked"]
    /\ UNCHANGED <<clock, queue, claims, issuedAt, review, deletedAt, admission, secret, goneAt, token, wire, effect>>

\* The phase after a GET answer: pending_broker_reconciliation keeps asking,
\* finish_memory_secret_observation closes the operation.
Reconciled(k, seen) ==
    CASE k = "Create" /\ seen = "absent" -> "Absent"
      [] k = "Create" /\ seen = "matching" -> "Committed"
      [] k = "Delete" /\ seen = "absent" -> "Committed"
      [] k = "Delete" /\ seen = "matching" -> "ReconcileOnly"
      [] OTHER -> "Terminal"

\* commit_broker_reconciliation, of an answer to this generation of asking.
CommitReconciliation(a, k, t) ==
    /\ k # "Issue"
    /\ Phase(a, k) \in {"ReconcileOnly", "Absent"}
    /\ get[a] \in {"absent", "matching", "conflicting"}
    /\ t >= high
    /\ high' = t
    /\ SetRow(a, k, Reconciled(k, get[a]))
    /\ deletedAt' = IF k = "Delete" /\ Reconciled(k, get[a]) = "Committed"
                    THEN [deletedAt EXCEPT ![a] = t] ELSE deletedAt
    /\ get' = [get EXCEPT ![a] = "none"]
    /\ UNCHANGED <<clock, queue, claims, issuedAt, review, admission, secret, goneAt, token, wire, effect>>

\* retire_recovery_no_send of a create that was looked for and not found; the
\* date it records is never read again.
RetireCreateAbsent(q) ==
    LET a == acquisition[q].auth IN
    /\ NoSendLineage(q)
    /\ claim[a].state = "RecoveryNoSend"
    /\ Phase(a, "Create") = "Absent"
    /\ Phase(a, "Issue") = "None" /\ Phase(a, "Delete") = "None" /\ review[a] = "None"
    /\ SetState(a, "RecoveryRetired")
    /\ Release(a)
    /\ UNCHANGED <<clock, high, queue, acquisition, records, cluster>>

\* retire_recovery_no_send after a durable deletion: the first call fixes the
\* bound, a call at or after it releases the resource.
RetireNoSend(q, t) ==
    LET a == acquisition[q].auth IN
    /\ NoSendLineage(q)
    /\ claim[a].state = "RecoveryNoSend"
    /\ Phase(a, "Delete") = "Committed"
    /\ t >= high
    /\ high' = t
    /\ \/ /\ t < SafeAfter(a)
          /\ claim' = [claim EXCEPT ![a].safeAfter = SafeAfter(a)]
          /\ UNCHANGED reservation
       \/ /\ t >= SafeAfter(a)
          /\ claim' = [claim EXCEPT ![a] = [state |-> "RecoveryRetired", latest |-> q,
                                              safeAfter |-> SafeAfter(a)]]
          /\ Release(a)
    /\ UNCHANGED <<clock, queue, acquisition, records, cluster>>

\* credential_safe_after of the conservative retirement bound.
CredentialSafeAfter(a) ==
    Later(issuedAt[a] + Lifetime, deletedAt[a] + Propagation) + Skew

\* finalize_terminal_retirement_or_recover.  The witnesses attest the exact
\* effect and, after the deletion, either that a token review rejected the
\* token or that the conservative bound has passed.
FinalizeTerminal(a, t) ==
    /\ PostAttempt(a)
    /\ admission[a] # None
    /\ Phase(a, "Delete") = "Committed"
    /\ effect[a] # {}
    /\ token[a] = "dead" \/ t >= CredentialSafeAfter(a)
    /\ t >= high /\ t >= deletedAt[a]
    /\ high' = t
    /\ SetState(a, "Terminal")
    /\ Release(a)
    /\ UNCHANGED <<clock, queue, acquisition, records, cluster>>

-----------------------------------------------------------------------------
(* The cluster (external) *)

\* A create arrives, however late; it fails when the name is taken.
CreateLands(a) ==
    /\ <<a, "Create">> \in wire
    /\ secret[a] = "none"
    /\ secret' = [secret EXCEPT ![a] = "bound"]
    /\ wire' = wire \ {<<a, "Create">>}
    /\ UNCHANGED <<clock, store, goneAt, token, get, effect>>

\* A token request arrives; the API server binds tokens to living objects.
TokenLands(a) ==
    /\ <<a, "Issue">> \in wire
    /\ secret[a] = "bound"
    /\ token' = [token EXCEPT ![a] = "live"]
    /\ wire' = wire \ {<<a, "Issue">>}
    /\ UNCHANGED <<clock, store, secret, goneAt, get, effect>>

\* A DELETE of this Secret's uid arrives.
DeleteLands(a) ==
    /\ <<a, "Delete">> \in wire
    /\ secret[a] = "bound"
    /\ secret' = [secret EXCEPT ![a] = "gone"]
    /\ goneAt' = [goneAt EXCEPT ![a] = clock]
    /\ wire' = wire \ {<<a, "Delete">>}
    /\ UNCHANGED <<clock, store, token, get, effect>>

\* Someone else creates an object of that name.
NameTaken(a) ==
    /\ a \in Contested
    /\ secret[a] \in {"none", "gone"}
    /\ secret' = [secret EXCEPT ![a] = "foreign"]
    /\ UNCHANGED <<clock, store, goneAt, token, wire, get, effect>>

\* A worker's GET, under the authority to reconcile.
ReadSecret(a) ==
    /\ get[a] # "none"
    /\ get' = [get EXCEPT ![a] = CASE secret[a] = "bound" -> "matching"
                                   [] secret[a] = "foreign" -> "conflicting"
                                   [] OTHER -> "absent"]
    /\ UNCHANGED <<clock, store, secret, goneAt, token, wire, effect>>

\* A token stops working when its Secret is gone, at the latest after the
\* propagation bound, or when its lifetime is over.
TokenDies(a) ==
    /\ token[a] = "live"
    /\ goneAt[a] # None \/ clock >= issuedAt[a] + Lifetime
    /\ token' = [token EXCEPT ![a] = "dead"]
    /\ UNCHANGED <<clock, store, secret, goneAt, wire, get, effect>>

\* The provider carries out an admitted request.
Apply(a, u) ==
    /\ admission[a] = u /\ u \notin effect[a]
    /\ effect' = [effect EXCEPT ![a] = @ \cup {u}]
    /\ UNCHANGED <<clock, store, secret, goneAt, token, wire, get>>

Tick ==
    /\ clock < MaxClock
    /\ \A a \in Authorizations :
          token[a] = "live" /\ goneAt[a] # None => clock + 1 < goneAt[a] + Propagation
    /\ clock' = clock + 1
    /\ UNCHANGED <<store, cluster>>

-----------------------------------------------------------------------------

Cluster == \/ \E a \in Authorizations : \/ CreateLands(a) \/ TokenLands(a) \/ DeleteLands(a)
                                        \/ NameTaken(a) \/ ReadSecret(a) \/ TokenDies(a)
           \/ \E a \in Authorizations, u \in Requests : Apply(a, u)
           \/ Tick

Worker(q, t) == BeginCreate(q, t) \/ BeginIssue(q, t) \/ BeginReview(q, t)
                \/ RecordAuthenticated(q, t) \/ MarkAttempt(q, t) \/ Recover(q, t) \/ Revalidate(q, t)

Queue(a, t) == Consume(a, t) \/ \E q \in Acquisitions : Acquire(q, a, t) \/ Dispose(q, a, t)

Answer(a) == CommitCreate(a) \/ CommitTokenIssue(a) \/ \E k \in Kinds : MarkUnknown(a, k)

Cleanup(a, t) == \/ RecordRejected(a, t) \/ PrepareCleanup(a, t) \/ BeginDelete(a, t)
                 \/ FinalizeTerminal(a, t)
                 \/ \E k \in Kinds : BeginReconciliation(a, k, t) \/ CommitReconciliation(a, k, t)

Webhook(a, t) == ReviewAdmission(a, t) \/ \E u \in Requests : AuthorizeAdmission(a, u, t)

Next ==
    \/ \E t \in Samples : \/ \E a \in Authorizations : Queue(a, t) \/ Cleanup(a, t) \/ Webhook(a, t)
                          \/ \E q \in Acquisitions : Worker(q, t) \/ RetireNoSend(q, t)
    \/ \E a \in Authorizations : Answer(a) \/ RevokeGrant(a)
    \/ \E q \in Acquisitions : CloseNoSend(q) \/ RetireCreateAbsent(q)
    \/ ActivateAuthority
    \/ Cluster

Spec == Init /\ [][Next]_vars

-----------------------------------------------------------------------------
(* Properties *)

\* A physical resource is held by exactly the authorization whose claim is
\* live, through takeover, disposal, recovery and retirement
\* (memory.rs physical_reservations and dispatch_claims).
ReservationMatchesClaims ==
    /\ \A a \in Authorizations : claim[a] # None /\ claim[a].state \in Live <=> Holds(a)
    /\ \A r \in Resources : reservation[r] # None => ResourceOf[reservation[r]] = r

\* When a claim has given up its resource, no token issued for it still works,
\* though its requests may arrive late and the clocks differ
\* (retire_recovery_no_send, finalize_terminal_retirement_or_recover).
NoCredentialAfterRelease ==
    \A a \in Authorizations :
        claim[a] # None /\ claim[a].state \in Released => token[a] # "live"

\* Every broker operation was begun under the claim's latest acquisition: no
\* other worker takes over a claim that has touched the cluster
\* (claim_next_pending_dispatch_or_recover, require_memory_control_acquisition).
ArtifactsBelongToLatest ==
    \A a \in Authorizations, k \in Kinds :
        Phase(a, k) # "None" => claim[a] # None /\ journal[a][k].origin = claim[a].latest

\* A claim closed as not sent has no effect, whichever worker was still at it
\* (close_dispatch_acquisition_no_send against mark_..._attempt_in_flight).
NoSendMeansNoSend ==
    \A a \in Authorizations :
        claim[a] # None /\ claim[a].state \in {"RecoveryNoSend", "RecoveryRetired", "Disposed"}
        => admission[a] = None /\ effect[a] = {}

\* The store promises exclusive, single use of a physical resource
\* (ExclusiveDispatch), whatever workers, clocks and late requests do.
Ended == {a \in Authorizations :
             disposedBy[a] # None \/ (claim[a] # None /\ claim[a].state \in Released)}
Exclusive == INSTANCE ExclusiveDispatch
                 WITH holder <- reservation, ended <- Ended, credential <- token, effect <- effect
ImplementsExclusive == Exclusive!Spec

\* An authorization has an effect only with a token the cluster itself
\* recognised under the same acquisition (begin_dispatch_credential_review).
EffectsWereReviewed ==
    \A a \in Authorizations : effect[a] # {} => review[a] = "Authenticated" /\ token[a] # "none"

=============================================================================
