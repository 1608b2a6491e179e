----------------------- MODULE RemoteApprovalGateway ------------------------
(***************************************************************************)
(* The inbound side of remote approvals: signed challenges are registered  *)
(* in a SQLite table, provider callbacks resolve the challenge of their    *)
(* token and consume it, operators revoke challenges and a cleanup prunes  *)
(* expired ones (accordlock-approval-channels: remote_gateway.rs, with     *)
(* the challenge, enrollment and decision checks of lib.rs).               *)
(*                                                                         *)
(* Every host process has its own handle to the table.  A handle's calls   *)
(* are exclusive (&mut self), different handles interleave between the     *)
(* SQL statements.  A callback reads the row in one statement and consumes *)
(* it in a later transaction; trusted_now is an argument of every call,    *)
(* sampled by the host before it, and so possibly stale when it is used.   *)
(***************************************************************************)
EXTENDS Naturals, FiniteSets

CONSTANTS
    Signed,            \* signed challenges (SignedApprovalChallenge)
    Enrollments,       \* approver enrollments
    Callbacks,         \* authentic provider deliveries, duplicates included
    None,
    MaxLifetime,       \* MAX_CHALLENGE_LIFETIME_SECONDS
    SlackSkew,         \* SLACK_MAX_TIMESTAMP_SKEW_SECONDS
    MaxClock,          \* bound: the clock stops here
    MaxRegistrations   \* bound: registrations of one challenge identifier

Decisions == {"AllowOnce", "DenyAction", "StopTask", "RevokeTaskAccess"}
Ids == {c.id : c \in Signed}
Events == {k.event : k \in Callbacks}

VARIABLES
    row,            \* challenge id -> its row of remote_approval_callbacks, or None
    clock,          \* the host's trusted time; it never goes back
    pc,             \* callback -> where its processing is
    now,            \* callback -> trusted_now, sampled when it was received
    seen,           \* callback -> the row resolve() read
    evidence,       \* VerifiedRemoteDecisions returned to a host
    registrations,  \* history: how many rows were inserted for an id
    registered,     \* history: what was registered, and for whom
    told            \* history: registrations a caller of revoke() knows revoked

vars == <<row, clock, pc, now, seen, evidence, registrations, registered, told>>

Row == [signed : Signed, enrollment : Enrollments,
        state : {"ACTIVE", "REVOKED", "CONSUMED"}, event : Events \cup {None}]

Times == 0..MaxClock

Places == {"idle", "received", "resolved", "consumed", "done"}

Seen == [signed : Signed, enrollment : Enrollments, registration : Nat]

Evidence == [callback : Callbacks, signed : Signed, enrollment : Enrollments,
             registration : Nat, now : Nat]

\* None is no row, no copy of one and no event.
ASSUME GatewayAssumption ==
    /\ MaxClock \in Nat
    /\ MaxRegistrations \in Nat
    /\ \A c \in Signed : c.subject \in {"Action", "Task"} /\ c.expires \in Nat
    /\ None \notin Row /\ None \notin Seen /\ None \notin Events

Init ==
    /\ row = [i \in Ids |-> None]
    /\ clock = 0
    /\ pc = [k \in Callbacks |-> "idle"]
    /\ now = [k \in Callbacks |-> 0]
    /\ seen = [k \in Callbacks |-> None]
    /\ evidence = {}
    /\ registrations = [i \in Ids |-> 0]
    /\ registered = {}
    /\ told = {}

-----------------------------------------------------------------------------
(* The checks of a challenge and of an enrollment.                         *)

\* A task challenge cannot allow the decisions of an action.
ValidChallenge(c) ==
    /\ c.issued < c.expires
    /\ c.expires - c.issued <= MaxLifetime
    /\ c.allowed # {}
    /\ c.subject = "Task" => c.allowed \cap {"AllowOnce", "DenyAction"} = {}

\* Mutant: the expiry is inclusive.
VerifiedAtExpiry(c, t) == ValidChallenge(c) /\ c.issued <= t /\ t <= c.expires

\* SignedApprovalChallenge::verify at time t.
VerifiedAt(c, t) ==
    /\ ValidChallenge(c)
    /\ c.issued <= t /\ t < c.expires

ActiveAt(e, t) == e.from < e.until /\ e.from <= t /\ t < e.until

\* The enrollment is the recipient's, on the challenge's channel and tenant.
EnrolledFor(e, c) == e.approver = c.recipient /\ e.route = c.route

\* authenticate_slack_interaction: the signed timestamp is near the host's time.
SlackFresh(k, t) == t <= k.sent + SlackSkew /\ k.sent <= t + SlackSkew

\* authenticate_teams_claims: the verified token is in its lifetime.  How long
\* that may be (MAX_TEAMS_TOKEN_LIFETIME_SECONDS) is left open.
TeamsFresh(k, t) == k.sent <= t /\ t < k.until

\* Telegram and WhatsApp sign no time.
FreshAt(k, t) ==
    /\ k.route.channel = "Slack" => SlackFresh(k, t)
    /\ k.route.channel = "MicrosoftTeams" => TeamsFresh(k, t)

\* What verify_remote_decision checks before it consumes the challenge.
Acceptable(k, c, e, t) ==
    /\ VerifiedAt(c, t)
    /\ ActiveAt(e, t)
    /\ k.route = c.route /\ k.route = e.route
    /\ k.user = e.user
    /\ e.approver = c.recipient
    /\ k.decision \in c.allowed
    /\ k.token = c.token

-----------------------------------------------------------------------------
(* The host's calls that are one statement or one transaction.             *)

\* The table has the challenge's id or its token: the insertion fails on a
\* constraint, and the answer is AlreadyRegistered or RegistrationConflict.
Conflicts(c) ==
    \E i \in Ids : row[i] # None /\ (i = c.id \/ row[i].signed.token = c.token)

\* register: t is the host's earlier sample.  Only an insertion is a step.
Register(c, e, t) ==
    /\ VerifiedAt(c, t)
    /\ ActiveAt(e, t)
    /\ EnrolledFor(e, c)
    /\ ~ Conflicts(c)
    /\ registrations[c.id] < MaxRegistrations
    /\ row' = [row EXCEPT ![c.id] = [signed |-> c, enrollment |-> e,
                                     state |-> "ACTIVE", event |-> None]]
    /\ registrations' = [registrations EXCEPT ![c.id] = registrations[c.id] + 1]
    /\ registered' = registered \cup
           {[signed |-> c, enrollment |-> e]}
    /\ UNCHANGED <<clock, pc, now, seen, evidence, told>>

\* Mutant: the state is written in another spelling.
RevokeMisspelt(i) ==
    /\ row[i] # None
    /\ row[i].state = "ACTIVE"
    /\ row' = [row EXCEPT ![i].state = "revoked"]
    /\ told' = told \cup {<<i, registrations[i]>>}
    /\ UNCHANGED <<clock, pc, now, seen, evidence, registrations, registered>>

\* revoke: the caller learns Revoked or AlreadyRevoked; of a consumed
\* challenge it learns AlreadyConsumed and nothing changes.
Revoke(i) ==
    /\ row[i] # None
    /\ row[i].state \in {"ACTIVE", "REVOKED"}
    /\ row' = [row EXCEPT ![i].state = "REVOKED"]
    /\ told' = told \cup {<<i, registrations[i]>>}
    /\ UNCHANGED <<clock, pc, now, seen, evidence, registrations, registered>>

Expired(i, t) == row[i] # None /\ row[i].signed.expires <= t

PruneExpired(t) ==
    /\ \E i \in Ids : Expired(i, t)
    /\ row' = [i \in Ids |-> IF Expired(i, t) THEN None ELSE row[i]]
    /\ UNCHANGED <<clock, pc, now, seen, evidence, registrations, registered, told>>

-----------------------------------------------------------------------------
(* One provider callback: process_slack_callback and its siblings.         *)

\* The host samples its clock, authenticates the delivery and parses it.
Receive(k) ==
    /\ pc[k] = "idle"
    /\ FreshAt(k, clock)
    /\ pc' = [pc EXCEPT ![k] = "received"]
    /\ now' = [now EXCEPT ![k] = clock]
    /\ UNCHANGED <<row, clock, seen, evidence, registrations, registered, told>>

\* resolve: the row of the token, if it is active.
Resolve(k) ==
    /\ pc[k] = "received"
    /\ \E i \in Ids :
          /\ row[i] # None
          /\ row[i].signed.token = k.token
          /\ row[i].state = "ACTIVE"
          /\ seen' = [seen EXCEPT ![k] = [signed |-> row[i].signed,
                                          enrollment |-> row[i].enrollment,
                                          registration |-> 0]]
    /\ pc' = [pc EXCEPT ![k] = "resolved"]
    /\ UNCHANGED <<row, clock, now, evidence, registrations, registered, told>>

\* Mutant: only a revoked challenge is refused.
ConsumableTwice(i, c, event) ==
    /\ row[i] # None
    /\ row[i].signed.expires = c.expires
    /\ row[i].state # "REVOKED"
    /\ \A j \in Ids : row[j] # None => row[j].event # event

\* Mutant: only a consumed challenge is refused.
ConsumableRevoked(i, c, event) ==
    /\ row[i] # None
    /\ row[i].signed.expires = c.expires
    /\ row[i].state # "CONSUMED"
    /\ \A j \in Ids : row[j] # None => row[j].event # event

\* The transaction of consume: it looks at the row again, not at the copy.
Consumable(i, c, event) ==
    /\ row[i] # None
    /\ row[i].signed.expires = c.expires
    /\ row[i].state = "ACTIVE"
    /\ \A j \in Ids : row[j] # None => row[j].event # event

\* Mutant: the transaction is dropped without its commit.
DecideUncommitted(k) ==
    /\ pc[k] = "resolved"
    /\ LET c == seen[k].signed
       IN  /\ Acceptable(k, c, seen[k].enrollment, now[k])
           /\ Consumable(c.id, c, k.event)
           /\ seen' = [seen EXCEPT ![k].registration = registrations[c.id]]
    /\ pc' = [pc EXCEPT ![k] = "consumed"]
    /\ UNCHANGED <<row, clock, now, evidence, registrations, registered, told>>

\* verify_remote_decision on the copy that resolve made, then consume.
Decide(k) ==
    /\ pc[k] = "resolved"
    /\ LET c == seen[k].signed
       IN  /\ Acceptable(k, c, seen[k].enrollment, now[k])
           /\ Consumable(c.id, c, k.event)
           /\ row' = [row EXCEPT ![c.id].state = "CONSUMED", ![c.id].event = k.event]
           /\ seen' = [seen EXCEPT ![k].registration = registrations[c.id]]
    /\ pc' = [pc EXCEPT ![k] = "consumed"]
    /\ UNCHANGED <<clock, now, evidence, registrations, registered, told>>

EvidenceOf(k) ==
    [callback |-> k, signed |-> seen[k].signed, enrollment |-> seen[k].enrollment,
     registration |-> seen[k].registration, now |-> now[k]]

\* The call ends and its locals with it.
Finish(k) ==
    /\ pc' = [pc EXCEPT ![k] = "done"]
    /\ now' = [now EXCEPT ![k] = 0]
    /\ seen' = [seen EXCEPT ![k] = None]

\* The decision is returned to the host.
Return(k) ==
    /\ pc[k] = "consumed"
    /\ evidence' = evidence \cup {EvidenceOf(k)}
    /\ Finish(k)
    /\ UNCHANGED <<row, clock, registrations, registered, told>>

\* A refusal, a storage error, or the process dying: nothing is returned.
GiveUp(k) ==
    /\ pc[k] # "done"
    /\ Finish(k)
    /\ UNCHANGED <<row, clock, evidence, registrations, registered, told>>

Tick ==
    /\ clock < MaxClock
    /\ clock' = clock + 1
    /\ UNCHANGED <<row, pc, now, seen, evidence, registrations, registered, told>>

Next ==
    \/ Tick
    \/ \E c \in Signed, e \in Enrollments, t \in 0..clock : Register(c, e, t)
    \/ \E i \in Ids : Revoke(i)
    \/ \E t \in 0..clock : PruneExpired(t)
    \/ \E k \in Callbacks : Receive(k) \/ Resolve(k) \/ Decide(k) \/ Return(k) \/ GiveUp(k)

Spec == Init /\ [][Next]_vars

-----------------------------------------------------------------------------
(* Properties.                                                             *)

TypeOK ==
    /\ row \in [Ids -> Row \cup {None}]
    /\ clock \in Times
    /\ pc \in [Callbacks -> Places]
    /\ now \in [Callbacks -> Times]
    /\ seen \in [Callbacks -> Seen \cup {None}]
    /\ evidence \subseteq Evidence
    /\ registrations \in [Ids -> 0..MaxRegistrations]
    /\ registered \subseteq [signed : Signed, enrollment : Enrollments]
    /\ told \subseteq Ids \X Nat

\* Decisions committed in the table on their way to a host, and those and
\* the ones that reached one.
Pending == {EvidenceOf(k) : k \in {l \in Callbacks : pc[l] = "consumed"}}
Taken == Pending \cup evidence

SameRegistration(x, y) ==
    x.signed.id = y.signed.id /\ x.registration = y.registration

\* However duplicated callbacks, revocations, cleanups and registrations
\* interleave between resolve and consume, a registration of a challenge is
\* decided by one callback at most (remote_gateway.rs: consume).
OneDecisionPerRegistration ==
    \A x, y \in Taken : SameRegistration(x, y) => x = y

\* When revoke() has answered Revoked or AlreadyRevoked, no callback decides
\* that registration any more, even one that resolved the challenge before
\* (remote_gateway.rs: revoke against consume).
RevocationHolds ==
    \A x \in Taken : <<x.signed.id, x.registration>> \notin told

\* Evidence rests on a registered challenge and enrollment, both in force at
\* the time the callback was received, on the enrolled user, channel and
\* tenant, and on a decision the challenge offered; permission to act is
\* never evidence for a task challenge (lib.rs: verify_remote_decision).
EvidenceIsBound ==
    \A x \in evidence :
        /\ [signed |-> x.signed, enrollment |-> x.enrollment] \in registered
        /\ x.signed.issued <= x.now /\ x.now < x.signed.expires
        /\ x.enrollment.from <= x.now /\ x.now < x.enrollment.until
        /\ x.enrollment.approver = x.signed.recipient
        /\ x.callback.user = x.enrollment.user
        /\ x.callback.route = x.signed.route
        /\ x.callback.decision \in x.signed.allowed
        /\ x.callback.decision \in {"AllowOnce", "DenyAction"} => x.signed.subject = "Action"

\* One provider event is never spent on two challenges the table knows
\* (the UNIQUE provider_event_id column).
EventsAreSpentOnce ==
    \A i, j \in Ids :
        row[i] # None /\ row[j] # None /\ row[i].event # None /\ row[i].event = row[j].event
            => i = j

\* A revoked or consumed row never changes and no row is replaced by another
\* registration; a row only disappears once its challenge has expired.
RecordsAreFinal ==
    [][\A i \in Ids : row[i] # None =>
          \/ row'[i] = row[i]
          \/ row'[i] = None /\ row[i].signed.expires <= clock
          \/ /\ row[i].state = "ACTIVE"
             /\ row'[i] # None
             /\ row'[i].signed = row[i].signed
             /\ row'[i].enrollment = row[i].enrollment]_vars

-----------------------------------------------------------------------------
(* The table implements a registry of single-use approvals.                *)

AnswerOf(x) ==
    [approval |-> x.signed.id, opening |-> x.registration, event |-> x.callback.event]

StatusOf(r) ==
    IF r = None THEN "unknown"
    ELSE CASE r.state = "ACTIVE" -> "open"
           [] r.state = "REVOKED" -> "withdrawn"
           [] r.state = "CONSUMED" -> "decided"

Status == [i \in Ids |-> StatusOf(row[i])]
SpentEvent == [i \in Ids |-> IF row[i] = None THEN None ELSE row[i].event]
Answers(E) == {AnswerOf(x) : x \in E}

SingleUse == INSTANCE SingleUseApproval WITH
    Approvals <- Ids, status <- Status, event <- SpentEvent, openings <- registrations,
    pending <- Answers(Pending), evidence <- Answers(evidence)

\* The gateway's steps are steps of the abstract registry: what is opened is
\* answered or revoked, never both, and answered once.
ImplementsSingleUse == SingleUse!Spec
=============================================================================
