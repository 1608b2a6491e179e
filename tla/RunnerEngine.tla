---------------------------- MODULE RunnerEngine ----------------------------
(***************************************************************************)
(* The runner engine (accordlock-runner-engine): collect_evidence and the  *)
(* two deployment preparations of EnterpriseRunner, called concurrently in *)
(* several processes that share one SqliteRunnerStateStore (state.rs).     *)
(*                                                                         *)
(* A method of the store is one transaction and one action.  Between two   *)
(* of them other calls run, processes crash and the trusted clock moves    *)
(* either way: a sample is any time.  A transaction may be reported        *)
(* unavailable, whether or not its effect is there.                        *)
(*                                                                         *)
(* A key is the digest of a dispatch or of a signed approval.  Digests     *)
(* cover the times, so what retain_until is given is a function of the     *)
(* key.  A reservation's identifier is fresh and known to the call that    *)
(* made it alone: it is modelled by that call.                             *)
(***************************************************************************)
EXTENDS Naturals, FiniteSets

CONSTANTS
    Calls,          \* threads of the runners
    Runners, RunnerOf,
    Dispatches, Approvals,
    ApprovalOf,     \* the signed approval a dispatch carries, or None
    Deploys,        \* dispatches of DeployEksImage; the others observe
    Created, Expiry,\* window of a key
    Capacity,       \* replay_capacity, of each kind
    MaxTime,        \* bound of the clock
    None

Keys == Dispatches \cup Approvals
Times == 0..MaxTime

ASSUME KeysAssumption ==
    /\ IsFiniteSet(Keys) /\ Dispatches \cap Approvals = {} /\ None \notin Keys
    /\ ApprovalOf \in [Dispatches -> Approvals \cup {None}]
    /\ Deploys \subseteq Dispatches
    /\ Created \in [Keys -> Nat] /\ Expiry \in [Keys -> Nat]

ASSUME RunnersAssumption ==
    /\ RunnerOf \in [Calls -> Runners] /\ None \notin Calls
    /\ Capacity \in Nat \ {0} /\ MaxTime \in Nat

VARIABLES
    high,       \* trusted_time_high_water
    row,        \* runner_replay_reservations, by key
    up,         \* processes that run
    call,       \* what each thread does
    accepted,   \* history: calls that returned success, by key
    unknown,    \* history: keys whose acceptance ended unknown
    doubt       \* history: keys a crash or an unavailable store left behind

store == <<high, row>>
vars == <<store, up, call, accepted, unknown, doubt>>

Absent == [state |-> "ABSENT", id |-> None]
Row == {Absent} \cup [state : {"PENDING", "COMMITTED"}, id : Calls]

\* The program counter names what the call has behind it.
\*   observed       the time is sampled and the high-water mark advanced
\*   approved       the approval is reserved
\*   authenticated  the channel is bound to the dispatch
\*   reserved       the dispatch is reserved
\*   collected, failed    what the providers answered
\*   committed      the dispatch is committed, the approval is not
\*   drop           an error returns, the approval's reservation is dropped
PCs == {"idle", "observed", "approved", "authenticated", "reserved", "collected", "failed",
        "committed", "drop"}
Idle == [pc |-> "idle", d |-> None, now |-> 0]

Init ==
    /\ high = 0
    /\ row = [k \in Keys |-> Absent]
    /\ up = {}
    /\ call = [c \in Calls |-> Idle]
    /\ accepted = [k \in Keys |-> 0]
    /\ unknown = {} /\ doubt = {}

-----------------------------------------------------------------------------
(* What a call holds *)

\* collect_evidence takes no approval.
Approval(d) == IF d \in Deploys THEN ApprovalOf[d] ELSE None
ApprovalsOf(d) == {Approval(d)} \ {None}

\* Reservations the call may still commit or release (ReplayReservation.token).
Tokens(c) ==
    LET d == call[c].d
        pc == call[c].pc
    IN  (IF pc \in {"reserved", "collected", "failed"} THEN {d} ELSE {})
        \cup (IF pc \in {"approved", "authenticated", "reserved", "committed", "drop"}
              THEN ApprovalsOf(d) ELSE {})

\* What it has reserved or committed on its way to success.
Holds(c) == Tokens(c) \cup (IF call[c].pc = "committed" THEN {call[c].d} ELSE {})

-----------------------------------------------------------------------------
(* The store *)

\* Mutant: expired pending rows are removed as well.
PrunedPending(k) ==
    LET kind == IF k \in Dispatches THEN Dispatches ELSE Approvals
    IN  [j \in Keys |-> IF j \in kind /\ Expiry[j] <= high THEN Absent ELSE row[j]]

\* reserve removes the committed rows of the kind whose window is over.
Pruned(k) ==
    LET kind == IF k \in Dispatches THEN Dispatches ELSE Approvals
    IN  [j \in Keys |-> IF /\ j \in kind /\ row[j].state = "COMMITTED"
                           /\ Expiry[j] <= high
                        THEN Absent ELSE row[j]]

Retained(k) ==
    {j \in IF k \in Dispatches THEN Dispatches ELSE Approvals : Pruned(k)[j] # Absent}

Admits(k) ==
    /\ Expiry[k] > high
    /\ Pruned(k)[k] = Absent
    /\ Cardinality(Retained(k)) < Capacity

\* A refused reservation rolls its transaction back.
Reserve(c, k) ==
    /\ Admits(k)
    /\ row' = [Pruned(k) EXCEPT ![k] = [state |-> "PENDING", id |-> c]]

Matches(c, k) == row[k] = [state |-> "PENDING", id |-> c]

Commit(c, k) ==
    /\ Matches(c, k)
    /\ row' = [row EXCEPT ![k] = [state |-> "COMMITTED", id |-> c]]

\* Mutant: a release marks the row instead of deleting it.
ReleaseMarks(c, k) ==
    /\ Matches(c, k)
    /\ row' = [row EXCEPT ![k].state = "RELEASED"]

Release(c, k) ==
    /\ Matches(c, k)
    /\ row' = [row EXCEPT ![k] = Absent]

-----------------------------------------------------------------------------
(* Calls *)

Move(c, pc) == call' = [call EXCEPT ![c].pc = pc]

Return(c) == call' = [call EXCEPT ![c] = Idle]

\* Mutant: an error forgets the approval's reservation.
ReturnErrorLeaking(c) == Return(c)

\* An error after the approval was reserved: the guard releases it.
ReturnError(c) ==
    IF ApprovalsOf(call[c].d) \cap Tokens(c) # {} THEN Move(c, "drop") ELSE Return(c)

\* Success: every key of the call is used.
Accept(c) ==
    LET d == call[c].d IN
    /\ accepted' = [k \in Keys |-> IF k \in {d} \cup ApprovalsOf(d) THEN accepted[k] + 1
                                   ELSE accepted[k]]
    /\ Return(c)

Current(k, now) == Created[k] <= now /\ now < Expiry[k]

\* Mutant: opening the database clears what a crash left pending.
OpenClearing(r, now) ==
    /\ r \notin up
    /\ now >= high
    /\ high' = now
    /\ up' = up \cup {r}
    /\ row' = [k \in Keys |-> IF row[k].state = "PENDING" THEN Absent ELSE row[k]]
    /\ UNCHANGED <<call, accepted, unknown, doubt>>

\* new_with_state_store: a clock below the mark is refused.
Open(r, now) ==
    /\ r \notin up
    /\ now >= high
    /\ high' = now
    /\ up' = up \cup {r}
    /\ UNCHANGED <<row, call, accepted, unknown, doubt>>

\* trusted_now of a call for dispatch d.
Observe(c, d, now) ==
    /\ RunnerOf[c] \in up /\ call[c] = Idle
    /\ now >= high
    /\ high' = now
    /\ call' = [call EXCEPT ![c] = [pc |-> "observed", d |-> d, now |-> now]]
    /\ UNCHANGED <<row, up, accepted, unknown, doubt>>

\* Bindings, windows, the approval's signature or the channel are refused.
Reject(c) ==
    /\ call[c].pc \in {"observed", "approved"}
    /\ ReturnError(c)
    /\ UNCHANGED <<store, up, accepted, unknown, doubt>>

\* verify_action_approval, prepare_authorized_deployment_with_approval
Prepared(c) ==
    \A k \in {call[c].d} \cup ApprovalsOf(call[c].d) : Current(k, call[c].now)

ReserveApproval(c) ==
    /\ call[c].pc = "observed" /\ Prepared(c)
    /\ \E a \in ApprovalsOf(call[c].d) :
         \/ Reserve(c, a) /\ Move(c, "approved")
         \/ ~Admits(a) /\ UNCHANGED row /\ Return(c)
    /\ UNCHANGED <<high, up, accepted, unknown, doubt>>

\* authenticate, at the time the call has sampled.
Authenticate(c) ==
    /\ \/ call[c].pc = "approved"
       \/ call[c].pc = "observed" /\ Prepared(c) /\ ApprovalsOf(call[c].d) = {}
    /\ Move(c, "authenticated")
    /\ UNCHANGED <<store, up, accepted, unknown, doubt>>

ReserveDispatch(c) ==
    /\ call[c].pc = "authenticated"
    /\ \/ Reserve(c, call[c].d) /\ Move(c, "reserved")
       \/ ~Admits(call[c].d) /\ UNCHANGED row /\ ReturnError(c)
    /\ UNCHANGED <<high, up, accepted, unknown, doubt>>

\* connectors.collect
Collect(c) ==
    /\ call[c].pc = "reserved" /\ call[c].d \notin Deploys
    /\ \E pc \in {"collected", "failed"} : Move(c, pc)
    /\ UNCHANGED <<store, up, accepted, unknown, doubt>>

Committing(c) ==
    \/ call[c].pc = "collected"
    \/ call[c].pc = "reserved" /\ call[c].d \in Deploys

CommitDispatch(c) ==
    /\ Committing(c)
    /\ Commit(c, call[c].d)
    /\ IF ApprovalsOf(call[c].d) = {} THEN Accept(c)
       ELSE Move(c, "committed") /\ UNCHANGED accepted
    /\ UNCHANGED <<high, up, unknown, doubt>>

\* Mutant: the approval's commit is forgotten, so its guard releases it.
CommitApprovalForgotten(c) ==
    /\ call[c].pc = "committed"
    /\ \E a \in ApprovalsOf(call[c].d) : Release(c, a)
    /\ Accept(c)
    /\ UNCHANGED <<high, up, unknown, doubt>>

CommitApproval(c) ==
    /\ call[c].pc = "committed"
    /\ \E a \in ApprovalsOf(call[c].d) : Commit(c, a)
    /\ Accept(c)
    /\ UNCHANGED <<high, up, unknown, doubt>>

\* A known failure of the providers.
ReleaseDispatch(c) ==
    /\ call[c].pc = "failed"
    /\ Release(c, call[c].d)
    /\ Return(c)
    /\ UNCHANGED <<high, up, accepted, unknown, doubt>>

\* Drop of ReplayReservation
DropApproval(c) ==
    /\ call[c].pc = "drop"
    /\ \E a \in ApprovalsOf(call[c].d) : Release(c, a)
    /\ Return(c)
    /\ UNCHANGED <<high, up, accepted, unknown, doubt>>

\* The transaction that is next is reported unavailable: it happened or not.
\* The guard gives up its token before a commit or release, so only the other
\* reservation is dropped.
Unavailable(c) ==
    LET d == call[c].d
        pc == call[c].pc
    IN
    /\ \/ /\ pc = "observed" /\ Prepared(c)
          /\ \E a \in ApprovalsOf(d) : Reserve(c, a) \/ UNCHANGED row
          /\ Return(c) /\ UNCHANGED unknown
       \/ /\ pc = "authenticated"
          /\ Reserve(c, d) \/ UNCHANGED row
          /\ ReturnError(c) /\ UNCHANGED unknown
       \/ /\ Committing(c)
          /\ Commit(c, d) \/ UNCHANGED row
          /\ ReturnError(c)
          /\ unknown' = unknown \cup {d}
       \/ /\ pc = "committed"
          /\ \E a \in ApprovalsOf(d) : Commit(c, a) \/ UNCHANGED row
          /\ Return(c)
          /\ unknown' = unknown \cup {d} \cup ApprovalsOf(d)
       \/ /\ pc = "failed"
          /\ Release(c, d) \/ UNCHANGED row
          /\ Return(c) /\ UNCHANGED unknown
       \/ /\ pc = "drop"
          /\ \E a \in ApprovalsOf(d) : Release(c, a) \/ UNCHANGED row
          /\ Return(c) /\ UNCHANGED unknown
    /\ doubt' = doubt \cup {d} \cup ApprovalsOf(d)
    /\ UNCHANGED <<high, up, accepted>>

\* A process ends with all its calls; the database stays.
Crash(r) ==
    LET dead == {c \in Calls : RunnerOf[c] = r} IN
    /\ r \in up
    /\ up' = up \ {r}
    /\ call' = [c \in Calls |-> IF c \in dead THEN Idle ELSE call[c]]
    /\ unknown' = unknown \cup UNION {Holds(c) : c \in dead}
    /\ doubt' = doubt \cup UNION {Holds(c) : c \in dead}
    /\ UNCHANGED <<store, accepted>>

Next ==
    \/ \E r \in Runners : Crash(r) \/ \E now \in Times : Open(r, now)
    \/ \E c \in Calls, d \in Dispatches, now \in Times : Observe(c, d, now)
    \/ \E c \in Calls :
         \/ Reject(c) \/ ReserveApproval(c) \/ Authenticate(c) \/ ReserveDispatch(c)
         \/ Collect(c) \/ CommitDispatch(c) \/ CommitApproval(c)
         \/ ReleaseDispatch(c) \/ DropApproval(c) \/ Unavailable(c)

Spec == Init /\ [][Next]_vars

-----------------------------------------------------------------------------
(* Properties *)

TypeOK ==
    /\ high \in Nat
    /\ row \in [Keys -> Row]
    /\ up \subseteq Runners
    /\ call \in [Calls -> [pc : PCs, d : Dispatches \cup {None}, now : Nat]]
    /\ \A c \in Calls : IF call[c].pc = "idle" THEN call[c] = Idle
                        ELSE call[c].d \in Dispatches /\ RunnerOf[c] \in up
    /\ accepted \in [Keys -> Nat]
    /\ unknown \subseteq Keys /\ doubt \subseteq Keys

\* "runner dispatch was already accepted", "action approval was already
\* accepted" (lib.rs, RunnerEngineError): no dispatch and no approval, not even
\* one that two dispatches carry, is accepted twice, in whatever process, after
\* whatever crash and whether or not its row was pruned meanwhile.
AcceptedOnce == \A k \in Keys : accepted[k] <= 1

\* "a crash must not make an ambiguous delivery eligible again" (state.rs,
\* RunnerStateStore): a key whose acceptance was cut short by a crash or by an
\* unavailable commit of its own row is not accepted afterwards.
UnknownIsBlocked == [][\A k \in unknown : accepted'[k] = accepted[k]]_vars

\* A call that has reserved a key finds its own pending row when it commits or
\* releases it ("reservation is missing, stale, or has ambiguous lifecycle" is
\* never reported): neither time, nor another call, nor another process takes
\* it away, so no two calls ask the providers about one dispatch.
ReservationsAreOwned == \A c \in Calls : \A k \in Tokens(c) : Matches(c, k)

\* "A known pre-effect connector failure releases its exact pending row"
\* (README of the crate), and so does every other error: a pending row belongs
\* to a call under way, unless a process crashed or the store was unavailable
\* for a call of this key.
PendingIsOwned ==
    \A k \in Keys \ doubt : row[k].state = "PENDING" => \E c \in Calls : k \in Tokens(c)

\* "one persisted hard capacity shared by every process opening that database"
\* (README of the crate), for each kind.
CapacityHolds ==
    \A kind \in {Dispatches, Approvals} : Cardinality({k \in kind : row[k] # Absent}) <= Capacity

\* "The store never guesses that an ambiguous delivery had no effect" (README
\* of the crate): the approval of a delivery that ended unknown is not accepted
\* with another dispatch.
UnknownKeepsItsApproval ==
    \A d \in unknown \cap Deploys : \A a \in ApprovalsOf(d) : accepted[a] = 0
=============================================================================
