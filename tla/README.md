# AccordLock verification

TLA+ models of the AccordLock agent runtime, its approval channels and the
dispatch state of its deployment services, the TLC instances that check them
and TLAPS proofs of their main properties. Paths below are relative to the
repository; `agent-runtime` is `runtime/crates/accordlock-agent-runtime` and
`approval-channels` is `runtime/crates/accordlock-approval-channels`.

## 1. The system

AccordLock puts an authority boundary between a planning agent and its effects.
The Desktop, which the user trusts, talks to the runtime over a private control
channel; the planner proposes actions over HTTP. The runtime executes an action
only when a session, a task policy and (except for preauthorized reads) one
action approval of exactly this proposal allow it, and keeps what happened in a
SQLite ledger.

| Component | State | Operations | Interacts by |
|---|---|---|---|
| authority ledger (`agent-runtime/src/ledger.rs`) | sessions, revocations, action approvals, attempts, restores, a clock high-water mark | one SQLite transaction per operation: register, revoke, authorize_and_consume, observe, insert/begin/complete restore | called by every other part; owns the execution barrier, a process-wide `RwLock` |
| filesystem broker (`filesystem.rs`) | the workspace, the recovery store | read, tree, write, edit, delete; reconciliation of an attempt found in flight | read side of the barrier, ledger |
| terminal and HTTPS brokers (`terminal.rs`, `network.rs`) | a pinned executable, an egress policy | one command or request | read side of the barrier, ledger |
| HTTP routes (`http.rs`) | none | sample the time, run a broker in a blocking thread | the planner may deliver a proposal twice |
| control channel (`control.rs`) | none | approve, register approval, revoke, prepare and commit a restore | one thread, write side of the barrier for revoke and restore |
| file restore (`recovery.rs`) | `file_restores` rows | prepare, commit (resumable) | ledger, recovery store, workspace |
| approval notifier (`notification.rs`) | none | one short-lived process per pending approval: prune, enqueue, deliver | outbox, providers; several may run at once |
| notification outbox (`approval-channels/src/outbox.rs`) | `delivery_outbox` rows with leases | enqueue, claim, ack, retry, dead-letter, prune | one transaction each |
| delivery worker and transport (`worker.rs`, `transport.rs`) | none | claim, resolve, send once, settle | a provider whose answer may be lost |
| remote approval gateway (`approval-channels/src/remote_gateway.rs`) | `remote_approval_callbacks` rows | register, revoke, prune, provider callbacks (resolve, then consume) | several host processes share the table |
| session audit (`agent-runtime/src/audit.rs`) | a revision per session, kept by triggers | verified, paged reads of a session's history | read by the Desktop page by page while the brokers write |
| durable state (`accordlock-state`) | dispatch queue, claims, acquisitions, broker journal, reviews, admissions, retirements | one locked call each: acquire, begin and commit broker I/O, mark, admit, close, reconcile, retire | called by enforcement workers, broker, reconciler and admission webhook |
| Kubernetes services | none of their own that matters here | create a Secret, request and review a token, call the provider, delete the Secret | the cluster answers late, twice or never |
| runner engine (`accordlock-runner-engine`) | a SQLite replay store: a trusted-time mark, one row per accepted dispatch or approval | collect_evidence, prepare a deployment: reserve, then commit or release | several processes share the database; connectors are asked between reserve and commit |
| dispatch plan machine, connectors, preflight runner | plan state, none | preflight jobs, deployment authorization | not modelled, see section 8 |

What is hard, and what makes each part correct:

* **Ledger and brokers.** Requests overlap, are delivered twice, and sample the
  time before they wait; the process dies between an effect and its record; a
  revocation arrives in the middle. Authority must be spent once, before the
  effect; a revocation must be a barrier; a record must be final and true.
* **Restore.** A commit is several durable steps with other programs writing in
  between. It must overwrite nothing, record only what is there, be resumable.
* **Notifications.** Leases expire under a worker that stalls, answers are lost,
  clocks are set back, rows are pruned and enqueued again. A message must not
  be accepted twice, and rows must not lie.

* **Remote approvals.** A callback reads a challenge in one statement and spends
  it in a later transaction, with a time sampled before both; in between it may
  be answered by a duplicate, revoked, or pruned and registered again. A
  registration must be decided once and never after its revocation.
* **Dispatch.** Workers die anywhere and others recover; requests to the cluster
  arrive after recovery has looked; clocks of hosts and cluster differ. A
  resource must be used by one authorization at a time, once, and must not be
  released while a credential for it works.
* **Audit.** A history is read in several transactions while it grows, and every
  row is verified against the rows it rests on. An export must be one history,
  and the runtime must not write what it later refuses to read.
* **Runner.** An acceptance is two reservations and two commits with failures
  and crashes between them, and rows are pruned when their window is over. A
  dispatch and an approval must be accepted once, an acceptance that ended
  unknown never again, and an ordinary error must leave nothing behind.

`PROJECT.json` lists the hazards with the source line and the property for each.

## 2. Modules

| Module | Role |
|---|---|
| `GovernedExecution` | ledger, the three brokers, HTTP threads, control thread, workspace, crashes |
| `OneTimeAuthority` | abstract: decisions, records and effects of tool calls |
| `GovernedExecutionProofs` | theorems, and that the runtime implements one-time authority |
| `FileRestore` | restore of deleted files |
| `FileRestoreProofs` | its theorems |
| `NotificationOutbox` | notifier processes, outbox, worker, provider |
| `AtMostOnceDelivery` | abstract: messages taken, handed over once, reported truthfully |
| `NotificationOutboxProofs` | theorems, and that the outbox implements at-most-once delivery |
| `RemoteApprovalGateway` | challenges, callbacks, revocation, cleanup |
| `SingleUseApproval` | abstract: a registry of single-use approvals |
| `RemoteApprovalGatewayProofs` | theorems, and that the gateway implements the registry |
| `DispatchStore` | queue, claims, broker journal, recovery, cluster |
| `ExclusiveDispatch` | abstract: exclusive, single use of a resource |
| `DispatchStoreProofs` | theorems, and that the store implements exclusive use |
| `SessionAudit` | ledger rows, revision triggers, audit pages, export |
| `SessionAuditProofs` | its theorems |
| `RunnerEngine` | replay reservations of the runner, processes, crashes |
| `RunnerEngineProofs` | its theorems |
| `MC...` | one module of instances for TLC per component |

Operators whose comment begins with "Mutant:" are deliberately wrong variants
of the definition that follows them. They are used by no specification; each
shows that a property notices the bug it stands for.

### GovernedExecution

A proposal is a constant and stands for its digest: what the code compares by
digest, the model compares by value. `attempt` and `approval` have one row per
proposal, because the tables are keyed by digests of it; `CallOf` gives the
(session, run, tool call) identity that two proposals may share. `Conforming`
and `Preauthorized` are the verdicts of the pure policy checks.

A thread's program counter follows the code:

| pc | Code |
|---|---|
| `received` | http.rs sampled the time; the barrier is not yet held |
| `lookup` | read side held (filesystem); a prior attempt is looked for and the prestate is read. Commands read the prestate first |
| `authorize` | about to run `authorize_and_consume` |
| `check`, `effect`, `torn` | authority is spent; recheck of the prestate, in-place mutation, half-written file |
| `ambiguous`, `reconcile` | an I/O error, or an attempt found in flight: decide from the workspace |
| `observe` | about to run `observe` with the observation in `out` |
| `done` | the response |

`RevokeSession` needs the barrier free of readers (`BarrierFree`); its time was
sampled in `RequestRevocation`, as in control.rs. `Crash` ends all threads and
keeps ledger and files; it is the environment's, as in the other modules.

Abstractions: `Lookup` merges the check for a prior attempt with the prestate
read, both under the barrier and neither changing anything; `Refuse` covers all
refusals between grant and effect; `MoveAside` merges the rename with the check
that follows it (no property looks between the two); proposals for protected paths are refused
before the ledger and left out; an HTTPS request is a command whose prestate is
the egress policy. The caller-reported profile (`/authorize`, `/observe`), the
evidence chain and schema migration are not modelled.

`Attributable` is the set of proposals whose success cannot be mistaken for
someone else's. Reconciliation of a write or an edit compares content, so it
cannot tell this effect from the same content left by another program or by
another approved mutation of the file; commands are never reconciled, and a
delete leaves its content under a name of its own. `SucceededWasStarted` is
stated for these proposals, in every instance.

`OneTimeAuthority` is what a client of the runtime may rely on, without threads,
clocks, files or crashes: an authority is decided once, spent once or forfeited;
a record is granted for an authority (or to an exempt proposal) when no proposal
of the call has one, concluded once, and truthfully; an effect begins once,
under a record; nothing is decided, granted or begun in a closed session. The
mapping reads the authority from the approval row (`Held`), the record from the
attempt and the closed sessions from the revocations.

### FileRestore

Starts where a delete has been recorded: the original content is in `blob`, the
target may hold anything. The control thread's counter walks through
`prepare_file_restore` (`prepare`, `insert`) and `commit_file_restore`
(`commit`, `begin`, `restore`, `create`, `copying`, `verify`, `complete`). A
brokered execution changes a target only outside the recovery scope; other
programs at any time. A failed synchronisation in `verify` returns an error and
changes nothing, which is `Crash` in that state, so it has no action of its own:
the bound on crashes is then also what keeps I/O errors from repeating for ever.
A restore is not checked against the session's
revocation, in the code or here.

### NotificationOutbox

One approval, `NumChannels` channels, any number of notifier processes. A row
is keyed by job identifier; `UNUSED` has not been inserted, `PRUNED` has been
deleted (its channel is kept as history). The three times a notifier holds are
the code's: `now` of the launch (used for prune and enqueue, hence stale
later), `seen` of `MonotonicSystemClock`, `mark` of `BatchMaterialResolver`.
A lease token is unique per claim and is named by the attempt it was drawn for.
`Send` draws an outcome and, independently where the code cannot know, whether
the provider accepted. `Abort` covers a killed process and every storage, time
or configuration error that ends a run; `PruneByOthers` the runs of other
approvals. `accepted` and `setBack` (the system clock was ever set back) are
history variables.

`claim` and `process_one_delivery`, which pick any ready job, are public in the
crate but not used by the runtime, and are left for later.

`AtMostOnceDelivery` has no leases, tokens, attempts or times: a waiting message
is taken by one carrier, which hands it over at most once; it waits again, or is
reported as failed, only when it was not accepted and nobody carries it; whoever
does not know reports doubt, and a final message is only ever forgotten. A
message is carried in the mapping while a notifier that leased it has not sent
(`Carried`), also after its lease expired and its row is dead-lettered or pruned.

### RemoteApprovalGateway

A callback's counter is `idle`, `received` (the host sampled `trusted_now`),
`resolved` (`resolve` copied the row into `seen`), `consumed` (the replay
store's transaction committed) and `done`. `register`, `revoke` and
`prune_expired` are single transactions. Everything after `received` uses the
sampled time, however late it is used. `Decide` is `verify_remote_decision` with
its `consume`, which checks the row again and updates it under the same
condition.

The guarantee is per registration, not per challenge identifier: a host whose
`trusted_now` was sampled before the expiry may insert a challenge again after
another host has pruned its consumed row. The history variable `registrations`
tells the two apart. Signatures and encodings are data: a callback of the model
is authentic, and `VerifiedAt`, `ActiveAt`, `SlackFresh`, `TeamsFresh` keep the
time windows; the longest lifetime of a Teams token is left open, which allows
more callbacks than the code. `SingleUseApproval` says what a host may rely on; the refinement
mapping reads its status from the rows and its pending answers from callbacks
between commit and return.

### DispatchStore

Each public call of the store runs under one lock and is one action. Workers
keep nothing but the acquisition they were given; the model lets any of them
make any call at any time with any acquisition ever issued, which covers
crashes, retries and stalled workers. Calls that only answer (replays of what
is recorded) change nothing and are left out.

`wire` holds requests given to the network: each may arrive at any later time
or never. `secret`, `token` and `effect` are the cluster. `clock` is the
cluster's time; a call samples a time not ahead of it and at most `Skew` behind
(`Samples`), which is the store's configured clock uncertainty. The journal
phase `Absent` is the code's `ReconcileOnly` with `CREATE_ABSENT` as its last
observation. Fencing tokens are implied by identities: a claim's `latest`
acquisition is the one with the highest fence.

`ExclusiveDispatch` says that an authorization holds its resource alone and at
most once, has at most one credential and one effect, and gives the resource up
only when the credential is dead.

All authorizations of an instance are of one scope: `RevokeGrant` and
`ActivateAuthority` both install a new authority vector, after which nothing
consumed before is current. The expiry of the credential itself is not checked
by `RecordAuthenticated` and `MarkAttempt`: the model then goes on in states
where the code refuses, so what holds here holds there.

Left out: the control queue before consumption, the older `claim_dispatch` and
`prepare_broker_operation` path, bootstrap generations, witness registries,
audits, and `postgres.rs`, which states the same contract in SQL.

### SessionAudit

Every ledger transaction that writes an audited row is an action, at any time
its caller may have sampled; they are coarser than in `GovernedExecution`
because a page is read in one transaction and only commits matter to it. `Bump`
stands for the triggers that count row changes per session. `Events` is the
union the two SQL statements select from, `Before` their order. A page loads `m`
rows and keeps `n` of them (the two byte budgets, which may cut anywhere);
`Verifies` repeats the relations `load_verified_event` checks between rows and
times, but not the cap on an approval's lifetime, which writer and reader check
with one function. The reader is the Desktop's loop in `taskBridge.ts` with all its checks; it
knows a repeated event by the whole event where the code compares identifiers.
Digests, JSON, row-size limits and schema migration are left out.

### RunnerEngine

Each method of the SQLite store is one transaction and one action; between two
of them other calls of other processes run. A key stands for the digest of a
dispatch or of a signed approval. The digests cover the times, so `Created` and
`Expiry` are functions of the key; two dispatches may carry one approval, which
does not bind the dispatch. Reservation identifiers are fresh and known to one
call only and are modelled by that call. `Reject` covers every refusal that
reserves nothing (`collect_evidence` authenticates before it compares the window,
the model after; nothing is written in between); once the approval is reserved the error goes through `drop`,
which is `Drop` of its guard.

`Unavailable` is a transaction whose outcome the call cannot know: it happened
or it did not, and the call sees an error. The guard gives its token up before
the transaction, so `Drop` never touches the key in question, only the other.
`Crash` ends a process with all its calls. `accepted`, `unknown` and `doubt` are
history variables. The two deployment preparations differ in pure checks only
and share their actions; the in-memory store is the same without durability.

## 3. Runs

| Run | Shows |
|---|---|
| `governed_safety` | a preauthorized read and an approved edit sharing one tool call, a delete of the same file, two threads, revocation, clock stepping back, another program, a crash: `OneEffectPerCall`, `AttemptsArePaidFor`, `RevocationIsBarrier`, `RevocationClosesHistory`, `SuccessIsDurable`, `SucceededWasStarted` |
| `governed_liveness` | a preauthorized read and an approved write sharing one tool call, a command with its own, revocation: every request and every revocation is answered (`RequestsAreAnswered`), `ImplementsOneTimeAuthority` |
| `governed_record` | violation, finding 1 |
| `restore_safety` | two recoveries of one path, clock stepping back, a crash, brokered and other writers: `RecordsAreReadable`, `RestoreNeverOverwrites`, `RecordsWhatIsThere` (until another program writes), `RestoreCompletes` |
| `outbox_safety` | two notifiers, expiring leases, retries, clock stepping back, deaths, pruning under a stalled notifier: `OneWorkerPerJob`, `AcceptedOncePerJob`, `RecordsAreTrue`, `ImplementsAtMostOnce`, `AcceptedOncePerApproval` (unless the clock was set back) |
| `outbox_leases` | violation, finding 2 |
| `remote_gateway` | an action and a task challenge, duplicated callbacks and events, revocation, pruning and a second registration: `OneDecisionPerRegistration`, `RevocationHolds`, `EvidenceIsBound`, `ImplementsSingleUse` |
| `dispatch_safety` | two authorizations of one resource, two acquisitions, late requests, a contested Secret name, differing clocks: `NoCredentialAfterRelease`, `ArtifactsBelongToLatest`, `NoSendMeansNoSend`, `ReservationMatchesClaims`, `ImplementsExclusive` |
| `audit_export` | a session written to by all ledger transactions while it is exported, beside another session: `RevisionIdentifiesHistory`, `ExportIsOneHistory`, `WrittenIsReadable` |
| `audit_denials` | violation, finding 3 |
| `runner_replay` | two processes, an observation and two deployments with one approval, expiry and pruning, unavailable transactions, crashes: `AcceptedOnce`, `UnknownIsBlocked`, `ReservationsAreOwned`, `PendingIsOwned` |
| `runner_approval` | violation, finding 4 |

### Bounds

`MaxClock`, `MaxRequests`, `MaxCrashes`, `MaxExternal`, `MaxBrokered`,
`MaxRegistrations`, `MaxDenials` and the sets of identifiers bound the
environment, never the code. They are enough for the cases the properties are
about:

* `GovernedExecution`: two seconds tell before, at and after an expiry; a second
  delivery of one proposal beside a first, and a third after a crash, need
  three requests; one crash separates any two steps.
* `NotificationOutbox`: a retry and an exhausted budget need `MaxAttempts = 2`;
  a row pruned and enqueued again needs two job identifiers, two notifiers
  (one delivers, one stalls; another approval's run prunes) and a clock past the
  retention, `MaxClock = 4`. Retention exceeds
  the approval window as in the code (`RetentionAssumption`, equality being the
  tight case).
* `RemoteApprovalGateway`: windows of one or two seconds, `MaxClock = 2`, and two
  registrations of one identifier.
* `DispatchStore`: there is time for a lease to expire, a Secret to be deleted
  and the propagation bound with uncertainty to pass (`MaxClock = 3`,
  `Skew = 1`). Two acquisitions are a takeover of the first authorization, or a
  recovery of the first beside an acquisition of the second. The constraint
  `OneBrokered` keeps the second authorization from the cluster, where it would
  only repeat what the first does: it competes for the resource, is chosen,
  claimed, taken over or disposed of. Acquisitions and requests are symmetric;
  authorizations, which the queue orders, are not. The theorems have neither
  bound.
* `SessionAudit`: a delete that is approved, consumed, completed and restored
  gives more events than `MaxEvents = 5` of a page of 2, so exports of one, two
  and three pages and histories too large both occur. `MaxRevision = 9` is the
  counter's limit brought into reach. Two sessions: activity in the other one
  must not end an export.
* `RunnerEngine`: the approval outlives the first deployment's dispatch and not
  the second's, so it can be presented again while its row, or the dispatch's,
  is being pruned (`MaxTime = 2`). Capacity 2 for three dispatches makes a full
  store; crashes and unavailable transactions are not bounded.

Deadlock is checked where the environment can always move (`restore_safety`,
`outbox_safety`, `runner_replay`); elsewhere a request, registration or denial budget or the
clock bound lets the system stop.

### Fairness

* `GovernedExecution`: weak fairness of each blocking thread's next step and of
  the control thread's revocation. Tokio's blocking threads are OS threads and
  every step in them is finite; the barrier is a `std::sync::RwLock`, whose
  waiting writer is served once the finitely many readers leave. The planner
  and the Desktop owe nothing: requests are not fair.
* `FileRestore`: weak fairness of the control thread. That the user commits
  again and again, at times not before the ledger's mark, is a premise of
  `RestoreCompletes`, not fairness.
* `NotificationOutbox` (only for `LeasesEnd`): notifiers run, the Desktop
  launches one while the approval allows it, time passes. Even so the property
  fails.

## 4. Findings

1. **A command's record refused.** `completion_time` is sampled before the
   record's transaction; another request with a later second may commit first,
   `observe_clock` then reports a rollback, and the command's attempt stays
   `IN_FLIGHT`. The README promises a result or an indeterminate error on
   record. (Filesystem requests reconcile such an attempt on their next
   delivery; commands have no reconciliation.)
2. **A lease that never ends.** An expired lease becomes a dead letter only when
   its very job is claimed, and a notifier claims only jobs of an unexpired
   approval. A run that dies shortly before the expiry leaves a `LEASED` row
   that is never dead-lettered, never pruned, and counts toward
   `MAX_STORED_JOBS`. README and worker documentation say that it becomes a
   dead letter.
3. **Denials the audit cannot read.** `valid_denial_reason` lists thirteen
   reasons; `authorize_and_consume` commits fifteen. A read or tree that the task
   policy does not preauthorize is denied with `CONFORMANCE_SCOPE_MISMATCH`, and
   from then on every audit page with that row is `AUDIT_STATE_CORRUPT`. The
   README promises that denials are projected.
4. **An approval freed by an ambiguous delivery.** When the commit of a
   deployment's dispatch is reported unavailable, the error drops the guard of
   the approval, which releases its row, although the dispatch may be committed.
   Another dispatch with the same approval is then accepted. The crate's README
   says that an unavailable commit result blocks and that the store never guesses
   that an ambiguous delivery had no effect; a crash at the same place does keep
   the approval blocked.

Four observations without a run: two approved overwrites of one file hold the
shared barrier together, and may both pass their prestate check before the
second replaces the first one's content (`Overlapped`); a challenge identifier may be decided again
after pruning (see `RemoteApprovalGateway` above); `retire_recovery_no_send`
releases a resource after one GET that found no Secret although the create may
still arrive and leave a Secret, without a token, that nobody deletes; and a
DELETE that was prepared or begun and then lost is never sent again.

## 5. Proofs

All theorems are for arbitrary constants that satisfy the named assumptions of
the module: any number of threads, proposals, recoveries, notifiers, jobs,
requests, crashes and any clock.

**GovernedExecution.** `TypeInv` adds `ThreadShape` to `TypeOK`: a thread that
works has a proposal, and what it holds at each counter. Then

* `AtMostOneEffect`: `EffectInv` says that an effect implies an attempt, that an
  attempt is unique per tool call, and that the one thread holding the grant
  has not started the effect yet; authority is spent before the effect and no
  path returns to `check` without a new grant.
* `AttemptsPaid`: `AttemptsArePaidFor` is inductive over `TypeInv`, because an
  approval once used is never rewritten (`QuietUnlessGrant`: only a grant
  changes approvals, attempts' births and `Executing`).
* `RevocationBarrier`: inductive; a grant needs an unrevoked session, a
  revocation needs the barrier free. `ClosedAfterRevocation` follows from it
  step by step.
* `HistoryClosed`: `HistoryInv` bounds every date of a session by `eventHigh`;
  a revocation is dated no earlier than it.
* `RecordIsFinal`, `SuccessDurable`: from the guards of `observe`, and for the
  second an invariant that ties a reply of success to the row it read.
* `SuccessWasStarted`: `StartedInv` says that whoever is about to record, or has
  recorded, the success of an attributable proposal finds its effect started, and
  that the poststate of one not started is nowhere: not in its file and, for a
  delete, nothing of it in the recovery store. Only the effect itself, another
  mutation of the file or another program writes there, and the last two leave
  something else by `Attributable`. `PrestateInv` supplies the rest: what a
  granted mutation replaces is a state the user was asked about, for a delete
  never absence.
* `RuntimeRefinesOneTimeAuthority`: from `EffectInv`, `RevocationIsBarrier`,
  `StartedInv` and `UsedInv` (a used approval was decided). Each step is one
  abstract step or none: an authorization grants, forfeits a denied or replayed
  decision, or changes nothing; an observation concludes a record; a revocation
  closes its session; everything else is invisible.

**FileRestore.** `CommittedReadable` (rows are dated within the clock mark,
which never decreases), `NeverOverwrites`, `RecordedIsThere` (until
another program writes, between `verify` and `complete` the barrier keeps the
target).

**NotificationOutbox.** `DeliveryInv` is the conjunction of `JobOK` (what a row
says of the provider), `WorkOK` (the row of an unsettled lease is leased, or
dead-lettered as `CRASH_EXPIRED`, or pruned; nothing was accepted before its
worker sends; its outcome is true afterwards) and `OneWorkerPerJob`. The three
need each other: a job is claimed only from `PENDING` or `RETRY`, which by
`WorkOK` no worker holds. `AcceptedOnceEver` adds, as long as the clock was not
set back (`MonotoneInv`), `TimeInv` (a row is pruned only when the approval has
expired, by `RetentionAssumption`), `OneRowPerChannel` and `OneSendPerChannel`
(a worker sends only while the approval is unexpired, when nothing has been
pruned, so its row is the channel's only one). `OutboxRefinesAtMostOnce` needs
`DeliveryInv` alone: a claim takes a job that no worker holds (`WorkOK`), a worker
that stops carrying was the job's only one (`OneWorkerPerJob`), and a settlement
reports what `WorkOK` says the provider did (`SettledRow`). With a clock that was set back
the property claims nothing: a pruned approval may then look pending again.

**RemoteApprovalGateway.** `Inv` relates rows, copies and answers: every answer
taken (returned, or consumed and not yet returned) belongs to a registration
made, to the row that is consumed if that registration is the current one, and
to no registration whose revocation was acknowledged; an active row has no
answer. `resolve`'s copy needs only to be of a registration made, because the
consuming transaction checks the row again. From it follow the five invariants,
`RowsAreFinal` and, action by action, `GatewayRefinesSingleUse`.

**DispatchStore.** `DispatchInvariant` is `TypeOK`, `ReservationMatchesClaims` and
`Good(a)` for every authorization: broker rows belong to the latest acquisition
(`Tracked`) and come in order (`Ordered`), a token request is sent once and only
when it is on record (`Sent`), the Secret is where the rows and the last GET say
(`Placed`), and `Timed`, `Closed`, `Admitted` for times, closed claims and
admissions. The conjuncts are about one
authorization, so an action is examined for its own and changes nothing for the
others. `ReleasedIsPowerless` is the time argument: the deletion is dated at most
`Skew` before the Secret went, a token is accepted for less than `Propagation`
after that, and a caller's sample is not ahead of the cluster; a release at a
sample of at least deletion + `Propagation` + `Skew` therefore finds the token
dead. The conservative retirement bound of terminal-witness is never earlier.
`StoreRefinesExclusive` maps reservations to holders and follows from the same
invariant.

**SessionAudit.** `RowsVerify` says that each row passes the audit's checks and
is dated within the clock mark; it is inductive because a grant spends the
approval at its own time and a restore is dated after the delete it undoes
(`AuditReadsWrites`). For the revision, every proposal's rows have an `Age`
that its transactions raise, revocations and denials are only added, and each
step is `Counted` for an approved session: either it writes none of its rows and
leaves its revision, or its rows become other than ever before and its revision
rises (a denial of an unknown session is the exception the triggers have, and no
export is of such a session). `ExportInv` follows the reader: at the revision of
its first page the rows, events, total and latest time are the first page's and
the events read are those before the offset; at a later one the rows differ.
Positions are below the number of events because no event stands before itself,
so the pages up to the total are the whole history (`AuditRevision`,
`AuditExports`). This needs finitely many proposals (`FiniteAssumption`), nothing
about page limits or budgets.

**RunnerEngine.** A step of a call is one of six `Moves`: it keeps what it holds,
takes a key, commits the first of two, commits the last, releases its only one,
or loses keys to an unavailable store. `ReplayInv` speaks of what calls hold and
of what rows say, so it is examined once per move: held keys are pending and
owned or, after the first commit, `Used` (committed, or their window over); no
two calls hold one key; an accepted key is `Used`; an unknown one is `Closed`
and held by nobody. It is the window check against the durable mark that makes
pruning harmless: a row goes only when `reserve` refuses its key anyway. From it
follow `RunnerAcceptsOnce`, `RunnerOwnsReservations`, `RunnerLeavesNothing` and
`RunnerBlocksUnknown`; `RunnerCapacity` is a counting argument over one
transaction and needs finitely many keys.

Only proved, and in no run: `OutcomeIsFinal`, `NothingAfterRevocation`,
`TerminalIsFinal`, `EventsAreSpentOnce`, `RecordsAreFinal`,
`EffectsWereReviewed` and `CapacityHolds`, which say less about the hazards than
the properties the runs check; the abstract specifications cover the first three.

Only model-checked: the liveness properties (`RequestsAreAnswered`,
`RestoreCompletes`), since fairness and `ENABLED` are beyond the prover. Every
other property of the passing runs is a theorem.

## 6. How to run

    tlc -config GovernedSafety.cfg MCGovernedExecution
    tlapm NotificationOutboxProofs.tla

## 7. Plan

Done: `GovernedExecution`, `FileRestore`, `NotificationOutbox`,
`RemoteApprovalGateway`, `DispatchStore`, `SessionAudit` and `RunnerEngine` with
proofs; the runtime, the outbox, the gateway and the store with abstract
specifications they are proved to implement.

Left, in this order:

1. The caller-reported profile of the ledger (`/authorize`, `/observe`).
2. The control queue of `accordlock-state` before consumption.
3. The outbox's `claim` and `process_one_delivery` for a general worker, which
   the runtime does not use.
4. `accordlock-dispatch`, connectors.
5. Abstract specifications for `RunnerEngine` (a replay guard) and `FileRestore`,
   and the refinement proofs.

## 8. Not modelled

Pure functions of one request (policy, live intent, canonical JSON, digests,
signatures), wire framing, encryption and MACs, rendering, the Desktop fork,
the Python assurance tools and demonstrations. Of the Kubernetes deployment
product the dispatch half of `accordlock-state` is modelled and the services
are seen through the calls they make to it; their own code (kernel, enforcement,
executor, admission, broker transports) is request-response I/O and pure checks
around these calls, and the Postgres store restates the in-memory one in SQL.
The repository keeps bounded models of its own in `runtime/models`; they are
independent of these.
`PROJECT.json` gives the reason for each component.
