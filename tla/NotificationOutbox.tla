------------------------- MODULE NotificationOutbox -------------------------
(***************************************************************************)
(* Approval notifications: the durable outbox and its worker (crate        *)
(* accordlock-approval-channels: outbox.rs, worker.rs, transport.rs) as    *)
(* the notify mode of the agent runtime drives them (notification.rs).     *)
(*                                                                         *)
(* The Desktop launches a short-lived notifier process for a pending       *)
(* approval, and may launch another while the first still runs.  Each one  *)
(* prunes the outbox, enqueues one job per configured channel, then        *)
(* claims, sends and settles exactly these jobs one after the other.       *)
(* Every outbox operation is one SQLite transaction; the provider's answer *)
(* is not part of any.  A notifier may stall or die between any two steps. *)
(*                                                                         *)
(* One approval is modelled; runs for other approvals meet it only when    *)
(* they prune.  Encryption, MACs, payloads and destinations are left out.  *)
(***************************************************************************)
EXTENDS Naturals, FiniteSets

CONSTANTS
    Notifiers,      \* notifier processes
    NumChannels,    \* channels of the approval, served in this order
    JobIds,         \* job identifiers the outbox can still draw
    None,           \* no job
    ReceivedAt, ExpiresAt,  \* the approval's window
    MaxAttempts, LeaseSeconds, RetryDelays, Retention, PruneLimit, MaxStoredJobs,
    ClockMayStepBack, MaxClock

Channels == 1..NumChannels

ASSUME OutboxAssumption ==
    /\ {NumChannels, MaxAttempts, LeaseSeconds, PruneLimit, MaxStoredJobs} \subseteq Nat \ {0}
    /\ {ReceivedAt, ExpiresAt, Retention, MaxClock} \subseteq Nat
    /\ RetryDelays \subseteq Nat \ {0}
    /\ None \notin JobIds
    /\ ClockMayStepBack \in BOOLEAN

\* The window is at most MAX_NOTIFICATION_LIFETIME_SECONDS, five minutes;
\* terminal rows are kept for OUTBOX_TERMINAL_RETENTION_SECONDS, a day.
ASSUME RetentionAssumption == ReceivedAt < ExpiresAt /\ ExpiresAt <= ReceivedAt + Retention

VARIABLES
    clock,      \* the system clock
    job,        \* delivery_outbox, one row per job identifier
    accepted,   \* history: how often the provider accepted a job's message
    notifier,   \* the notifier processes
    setBack     \* history: the clock was set back

vars == <<clock, job, accepted, notifier, setBack>>

-----------------------------------------------------------------------------
(* Types *)

JobStates == {"UNUSED", "PENDING", "LEASED", "DELIVERED", "RETRY", "DEAD_LETTER", "PRUNED"}
Rejections == {"MATERIAL_REJECTED", "PROVIDER_REJECTED"}
Reasons == Rejections \cup {"AMBIGUOUS", "CRASH_EXPIRED", "RETRY_BUDGET", "none"}
Outcomes == Rejections \cup {"ACCEPTED", "RETRYABLE", "AMBIGUOUS", "none"}
PCs == {"idle", "prune", "enqueue", "claim", "resolve", "send", "settle"}

\* A claim draws a fresh lease token: the attempt it was drawn for names it.
Job == [state : JobStates, channel : Channels \cup {0}, attempts : Nat, availableAt : Nat,
        leaseEnd : Nat, updatedAt : Nat, reason : Reasons]

Notifier == [pc : PCs, now : Nat, seen : Nat, mark : Nat, i : Channels,
             ids : [Channels -> JobIds \cup {None}], token : Nat, out : Outcomes]

TypeOK ==
    /\ clock \in Nat
    /\ job \in [JobIds -> Job]
    /\ accepted \in [JobIds -> Nat]
    /\ notifier \in [Notifiers -> Notifier]
    /\ setBack \in BOOLEAN

Unused == [state |-> "UNUSED", channel |-> 0, attempts |-> 0, availableAt |-> 0,
           leaseEnd |-> 0, updatedAt |-> 0, reason |-> "none"]

Idle == [pc |-> "idle", now |-> 0, seen |-> 0, mark |-> 0, i |-> 1,
         ids |-> [c \in Channels |-> None], token |-> 0, out |-> "none"]

Init ==
    /\ clock = ReceivedAt
    /\ job = [j \in JobIds |-> Unused]
    /\ accepted = [j \in JobIds |-> 0]
    /\ notifier = [n \in Notifiers |-> Idle]
    /\ setBack = FALSE

-----------------------------------------------------------------------------
(* Helpers *)

Stored(j) == job[j].state \notin {"UNUSED", "PRUNED"}
Terminal(j) == job[j].state \in {"DELIVERED", "DEAD_LETTER"}

\* The job notifier n is at.
Current(n) == notifier[n].ids[notifier[n].i]

\* n holds a lease, active or not, that it has not settled.
Working(n) == notifier[n].pc \in {"resolve", "send", "settle"}

Return(n) == notifier' = [notifier EXCEPT ![n] = Idle]

\* process_notification_jobs goes on to its next job, if any.
Advance(n) ==
    LET p == notifier[n] IN
    notifier' = [notifier EXCEPT ![n] =
        IF p.i = NumChannels THEN Idle
        ELSE [p EXCEPT !.pc = "claim", !.i = p.i + 1, !.seen = clock,
                       !.token = 0, !.out = "none"]]

-----------------------------------------------------------------------------
(* A run: dispatch_with_transport *)

\* validate_request: the approval is pending at the sampled time.
Start(n) ==
    /\ notifier[n].pc = "idle"
    /\ ReceivedAt <= clock /\ clock < ExpiresAt
    /\ notifier' = [notifier EXCEPT ![n] = [Idle EXCEPT !.pc = "prune", !.now = clock,
                                                        !.mark = clock]]
    /\ UNCHANGED <<clock, job, accepted, setBack>>

\* DeliveryOutbox::prune: the oldest of the terminal rows past their retention.
PruneRows(at) ==
    LET old == {j \in JobIds : Terminal(j) /\ job[j].updatedAt + Retention <= at}
    IN \E S \in SUBSET old :
         /\ Cardinality(S) = IF Cardinality(old) < PruneLimit THEN Cardinality(old)
                             ELSE PruneLimit
         /\ \A j \in S, k \in old \ S : job[j].updatedAt <= job[k].updatedAt
         /\ job' = [j \in JobIds |->
                      IF j \in S THEN [Unused EXCEPT !.state = "PRUNED",
                                                     !.channel = job[j].channel]
                      ELSE job[j]]

Prune(n) ==
    /\ notifier[n].pc = "prune"
    /\ PruneRows(notifier[n].now)
    /\ notifier' = [notifier EXCEPT ![n].pc = "enqueue"]
    /\ UNCHANGED <<clock, accepted, setBack>>

\* Another approval's run prunes.
PruneByOthers ==
    /\ \E j \in JobIds : Terminal(j) /\ job[j].updatedAt + Retention <= clock
    /\ PruneRows(clock)
    /\ UNCHANGED <<clock, accepted, notifier, setBack>>

Pending(c, now) == [Unused EXCEPT !.state = "PENDING", !.channel = c,
                                  !.availableAt = ReceivedAt, !.updatedAt = now]

\* Mutant: the job list is not read from its start.
EnqueuedNoRewind(n, j) ==
    LET p == notifier[n] IN
    notifier' = [notifier EXCEPT ![n] =
        [p EXCEPT !.pc = IF p.i = NumChannels THEN "claim" ELSE "enqueue",
                  !.i = p.i + 1, !.ids[p.i] = j]]

\* n goes on with job j for its channel i.
Enqueued(n, j) ==
    LET p == notifier[n]
        last == p.i = NumChannels
    IN
    notifier' = [notifier EXCEPT ![n] =
        [p EXCEPT !.pc = IF last THEN "claim" ELSE "enqueue",
                  !.i = IF last THEN 1 ELSE p.i + 1, !.ids[p.i] = j]]

\* DeliveryOutbox::enqueue, keyed by approval and channel.  The run ends when
\* the outbox is full.
Enqueue(n) ==
    LET c == notifier[n].i
        existing == {j \in JobIds : Stored(j) /\ job[j].channel = c}
        full == Cardinality({j \in JobIds : Stored(j)}) >= MaxStoredJobs
    IN
    /\ notifier[n].pc = "enqueue"
    /\ \/ \E j \in existing : Enqueued(n, j) /\ UNCHANGED job
       \/ /\ existing = {} /\ ~full
          /\ \E j \in JobIds :
               /\ job[j].state = "UNUSED"
               /\ job' = [job EXCEPT ![j] = Pending(c, notifier[n].now)]
               /\ Enqueued(n, j)
       \/ existing = {} /\ full /\ Return(n) /\ UNCHANGED job
    /\ UNCHANGED <<clock, accepted, setBack>>

-----------------------------------------------------------------------------
(* One job: process_exact_delivery *)

\* Mutant: an expired lease is taken over.
ReadyOrExpired(row) ==
    \/ row.state \in {"PENDING", "RETRY"} /\ row.availableAt <= clock
    \/ row.state = "LEASED" /\ row.leaseEnd <= clock

Ready(row) == row.state \in {"PENDING", "RETRY"} /\ row.availableAt <= clock

Expired(row) == row.state = "LEASED" /\ row.leaseEnd <= clock

\* The notifier's own clock went back, the row is gone, the row is newer than
\* the time sampled, or its attempts are spent (no such row is ever ready).
ClaimRefused(n) ==
    LET row == job[Current(n)] IN
    \/ clock < notifier[n].seen
    \/ ~Stored(Current(n))
    \/ clock < row.updatedAt
    \/ Ready(row) /\ row.attempts >= MaxAttempts

Leased(row) == [row EXCEPT !.state = "LEASED", !.attempts = row.attempts + 1,
                           !.leaseEnd = clock + LeaseSeconds, !.updatedAt = clock]

DeadLetter(row, reason) == [row EXCEPT !.state = "DEAD_LETTER", !.leaseEnd = 0,
                                       !.updatedAt = clock, !.reason = reason]

\* DeliveryOutbox::claim_exact at a freshly sampled time.  A lease found
\* expired is dead-lettered: its holder may have sent the message.
ClaimExact(n) ==
    LET j == Current(n) IN
    /\ notifier[n].pc = "claim"
    /\ \/ ClaimRefused(n) /\ Return(n) /\ UNCHANGED job
       \/ /\ ~ClaimRefused(n) /\ ~Ready(job[j]) /\ ~Expired(job[j])
          /\ Advance(n)
          /\ UNCHANGED job
       \/ /\ ~ClaimRefused(n) /\ Expired(job[j])
          /\ job' = [job EXCEPT ![j] = DeadLetter(job[j], "CRASH_EXPIRED")]
          /\ Advance(n)
       \/ /\ ~ClaimRefused(n) /\ Ready(job[j])
          /\ job' = [job EXCEPT ![j] = Leased(job[j])]
          /\ notifier' = [notifier EXCEPT ![n] =
               [notifier[n] EXCEPT !.pc = "resolve", !.seen = clock,
                                   !.token = job[j].attempts + 1]]
    /\ UNCHANGED <<clock, accepted, setBack>>

\* Mutant: expiry is checked when the run begins only.
UsableUnexpired(n) == notifier[n].mark <= clock

\* The approval has not expired since the run began, by a clock that must not
\* go back.
Usable(n) == notifier[n].mark <= clock /\ clock < ExpiresAt

\* BatchMaterialResolver::resolve.
Resolve(n) ==
    LET p == notifier[n] IN
    /\ p.pc = "resolve"
    /\ notifier' = [notifier EXCEPT ![n] =
         [p EXCEPT !.pc = IF Usable(n) THEN "send" ELSE "settle",
                   !.mark = IF p.mark <= clock THEN clock ELSE p.mark,
                   !.out = IF Usable(n) THEN "none" ELSE "MATERIAL_REJECTED"]]
    /\ UNCHANGED <<clock, job, accepted, setBack>>

\* dispatch_channel_delivery: one request.  A receipt means acceptance; a rate
\* limit or a failure before anything was sent means none; every other failure
\* leaves it open whether the provider accepted.
Send(n) ==
    LET j == Current(n) IN
    /\ notifier[n].pc = "send"
    /\ \E out \in Outcomes \ {"MATERIAL_REJECTED", "none"}, taken \in 0..1 :
         /\ out = "ACCEPTED" => taken = 1
         /\ out \in {"PROVIDER_REJECTED", "RETRYABLE"} => taken = 0
         /\ accepted' = [accepted EXCEPT ![j] = @ + taken]
         /\ notifier' = [notifier EXCEPT ![n] = [notifier[n] EXCEPT !.pc = "settle",
                                                                       !.out = out]]
    /\ UNCHANGED <<clock, job, setBack>>

\* Mutant: the token alone proves the lease.
LeaseActiveByToken(n) ==
    LET row == job[Current(n)] IN
    /\ notifier[n].seen <= clock
    /\ Stored(Current(n)) /\ row.updatedAt <= clock
    /\ row.attempts = notifier[n].token

\* validate_active_lease, at a freshly sampled time.
LeaseActive(n) ==
    LET row == job[Current(n)] IN
    /\ notifier[n].seen <= clock
    /\ row.state = "LEASED" /\ row.updatedAt <= clock
    /\ row.attempts = notifier[n].token
    /\ clock < row.leaseEnd

Delivered(row) == [row EXCEPT !.state = "DELIVERED", !.leaseEnd = 0, !.updatedAt = clock]

\* DeliveryOutbox::retry: the attempt budget ends in a dead letter.
Retried(row, delay) ==
    IF row.attempts >= MaxAttempts
    THEN [DeadLetter(row, "RETRY_BUDGET") EXCEPT !.availableAt = clock + delay]
    ELSE [row EXCEPT !.state = "RETRY", !.leaseEnd = 0, !.updatedAt = clock,
                     !.availableAt = clock + delay]

\* Mutant: an ambiguous outcome is sent again.
SettledAmbiguousRetried(row, out) ==
    CASE out = "ACCEPTED" -> {Delivered(row)}
      [] out \in {"RETRYABLE", "AMBIGUOUS"} -> {Retried(row, d) : d \in RetryDelays}
      [] OTHER -> {DeadLetter(row, out)}

\* Mutant: an ambiguous outcome counts as delivered.
SettledAmbiguousDelivered(row, out) ==
    CASE out \in {"ACCEPTED", "AMBIGUOUS"} -> {Delivered(row)}
      [] out = "RETRYABLE" -> {Retried(row, d) : d \in RetryDelays}
      [] OTHER -> {DeadLetter(row, out)}

\* settle_accepted, settle_retry and settle_dead_letter.
Settled(row, out) ==
    CASE out = "ACCEPTED" -> {Delivered(row)}
      [] out = "RETRYABLE" -> {Retried(row, d) : d \in RetryDelays}
      [] OTHER -> {DeadLetter(row, out)}

\* An error ends the run.
Settle(n) ==
    LET j == Current(n) IN
    /\ notifier[n].pc = "settle"
    /\ \/ ~LeaseActive(n) /\ Return(n) /\ UNCHANGED job
       \/ /\ LeaseActive(n)
          /\ \E row \in Settled(job[j], notifier[n].out) : job' = [job EXCEPT ![j] = row]
          /\ Advance(n)
    /\ UNCHANGED <<clock, accepted, setBack>>

-----------------------------------------------------------------------------
(* Environment *)

\* The process dies, is stopped by the Desktop, or storage fails.
Abort(n) ==
    /\ notifier[n].pc # "idle"
    /\ Return(n)
    /\ UNCHANGED <<clock, job, accepted, setBack>>

SetClock(c) ==
    /\ c > clock \/ (ClockMayStepBack /\ c < clock)
    /\ clock' = c
    /\ setBack' = (setBack \/ c < clock)
    /\ UNCHANGED <<job, accepted, notifier>>

-----------------------------------------------------------------------------

Run(n) ==
    Prune(n) \/ Enqueue(n) \/ ClaimExact(n) \/ Resolve(n) \/ Send(n) \/ Settle(n)

Next ==
    \/ \E n \in Notifiers : Start(n) \/ Run(n) \/ Abort(n)
    \/ PruneByOthers
    \/ \E c \in 0..MaxClock : SetClock(c)

Spec == Init /\ [][Next]_vars

\* Notifiers run, the Desktop launches one whenever it may, time passes.
Fairness ==
    /\ \A n \in Notifiers : WF_vars(Start(n)) /\ WF_vars(Run(n))
    /\ \A c \in 0..MaxClock : WF_vars(SetClock(c) /\ clock < c)

FairSpec == Spec /\ Fairness

-----------------------------------------------------------------------------
(* Properties *)

\* "never reclaimed for automatic delivery" (outbox.rs claim_exact): a job that
\* one notifier has leased and not settled is not worked on by another, even
\* after the lease expired or the clock was set back.
OneWorkerPerJob ==
    \A m, n \in Notifiers :
        Working(m) /\ Working(n) /\ Current(m) = Current(n) => m = n

\* The provider accepts a job's message at most once, whatever leases expire,
\* notifiers stall and die, retries are scheduled and clocks are set back
\* (worker.rs dispatch_and_settle, outbox.rs retry).
AcceptedOncePerJob == \A j \in JobIds : accepted[j] <= 1

\* What the row says of the provider is true: DELIVERED was accepted, a
\* rejection or an exhausted budget was not; only AMBIGUOUS and CRASH_EXPIRED
\* need reconciliation (worker.rs settle_accepted, settle_retry, settle_dead_letter).
RecordsAreTrue ==
    \A j \in JobIds :
        /\ job[j].state = "DELIVERED" => accepted[j] = 1
        /\ job[j].reason \in Rejections \cup {"RETRY_BUDGET"} => accepted[j] = 0

\* A terminal row only ever leaves the outbox (outbox.rs ack, dead_letter, prune).
TerminalIsFinal ==
    [][\A j \in JobIds : Terminal(j) => job'[j] = job[j] \/ job'[j].state = "PRUNED"]_vars

\* The outbox "deduplicates by exact approval digest and channel across process
\* launches" (README of the crate accordlock-agent-runtime): until the clock is
\* set back, an approval's channel is notified at most once, also when its
\* first row was pruned before a stalled notifier enqueued it again.
AcceptedOncePerApproval ==
    ~setBack =>
        \A j, k \in JobIds :
            accepted[j] > 0 /\ accepted[k] > 0 /\ job[j].channel = job[k].channel => j = k

\* "An expired in-flight lease is moved to authenticated dead-letter state"
\* (README of the crate): every lease comes to an end.
LeasesEnd == \A j \in JobIds : job[j].state = "LEASED" ~> job[j].state # "LEASED"

\* What a row tells whoever reads the outbox.
Told(row) ==
    CASE row.state = "UNUSED" -> "new"
      [] row.state \in {"PENDING", "RETRY"} -> "waiting"
      [] row.state = "LEASED" -> "taken"
      [] row.state = "DELIVERED" -> "delivered"
      [] row.state = "DEAD_LETTER" ->
           IF row.reason \in Rejections \cup {"RETRY_BUDGET"} THEN "failed" ELSE "doubt"
      [] row.state = "PRUNED" -> "forgotten"

\* Jobs some notifier may still send.
Carried == {Current(n) : n \in {m \in Notifiers : notifier[m].pc \in {"resolve", "send"}}}

Delivery == INSTANCE AtMostOnceDelivery WITH
    Messages <- JobIds, status <- [j \in JobIds |-> Told(job[j])],
    carried <- Carried, sent <- accepted

\* Leases, tokens, attempt budgets, retries, pruning and crashes together give
\* at-most-once delivery with true reports (AtMostOnceDelivery): a message goes
\* out again only when the provider did not accept it and nobody else can still
\* send it (outbox.rs claim_exact, retry, dead_letter and prune; worker.rs).
ImplementsAtMostOnce == Delivery!Spec
=============================================================================
