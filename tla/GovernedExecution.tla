------------------------- MODULE GovernedExecution -------------------------
(***************************************************************************)
(* The authority ledger of the AccordLock agent runtime and the brokered   *)
(* executions that spend it (crate accordlock-agent-runtime: ledger.rs,    *)
(* filesystem.rs, terminal.rs, network.rs, http.rs, control.rs).           *)
(*                                                                         *)
(* Every HTTP request runs in a blocking thread: it samples the time,      *)
(* takes the read side of the execution barrier, spends one action         *)
(* approval in one SQLite transaction, performs the effect and records     *)
(* what was observed.  The Desktop drives one control thread that          *)
(* registers sessions and approvals and revokes sessions; a revocation     *)
(* takes the write side of the barrier.  The process may crash between any *)
(* two of these steps; the ledger and the workspace survive.               *)
(*                                                                         *)
(* A proposal stands for its digest.  Hashes, JSON and UUIDs are left out: *)
(* what the code compares by digest is compared here by value.             *)
(***************************************************************************)
EXTENDS Naturals, FiniteSets

CONSTANTS
    Threads,        \* blocking threads serving the three execution routes
    Sessions,       \* session identifiers the planner may name
    Reads,          \* filesystem read and tree proposals
    Mutations,      \* filesystem write, edit and delete proposals
    Edits, Deletes, \* the mutations of those two tools
    Commands,       \* terminal and HTTPS proposals
    Conforming,     \* proposals within their session's binding, capabilities and plan
    Preauthorized,  \* reads the task policy allows without an action approval
    SessionOf,      \* the session a proposal names
    CallOf,         \* its (session, run, tool call) identity
    Files,          \* workspace files; for a command, the executable or egress policy
    FileOf,         \* the resource whose prestate a proposal binds
    Contents,       \* contents a resource can have
    ExternalContents, \* contents other programs leave, before and during a session
    Result,         \* Result[p][c]: what mutation p makes of content c
    Absent, Torn,   \* no such file; a partly written file
    None,           \* no proposal, no time
    ApprovedAt, SessionExpiresAt, ApprovalLifetime, MaxExecutionDuration,
    ClockMayStepBack, \* whether the operating system's clock is ever set back
    MaxClock, MaxRequests, MaxCrashes, MaxExternal   \* bounds on the environment

Proposals == Reads \cup Mutations \cup Commands

States == Contents \cup {Absent, Torn}

ASSUME ProposalsAssumption ==
    /\ Reads \cap Mutations = {} /\ Reads \cap Commands = {} /\ Mutations \cap Commands = {}
    /\ Edits \subseteq Mutations /\ Deletes \subseteq Mutations /\ Edits \cap Deletes = {}
    /\ Preauthorized \subseteq Reads
    /\ SessionOf \in [Proposals -> Sessions] /\ FileOf \in [Proposals -> Files]
    /\ DOMAIN CallOf = Proposals
    /\ None \notin Proposals

ASSUME ContentsAssumption ==
    /\ ExternalContents \subseteq Contents \cup {Absent}
    /\ Absent \notin Contents /\ Torn \notin Contents /\ Absent # Torn
    /\ Result \in [Mutations -> [States -> States]]
    /\ \A p \in Deletes, c \in States : Result[p][c] = Absent

ASSUME TimesAssumption ==
    /\ {ApprovedAt, SessionExpiresAt, ApprovalLifetime, MaxExecutionDuration} \subseteq Nat
    /\ {MaxClock, MaxRequests, MaxCrashes, MaxExternal} \subseteq Nat
    /\ None \notin Nat

VARIABLES
    clock,      \* the system clock, which may be stepped back
    clockHigh,  \* runtime_meta.clock_high_water
    approved,   \* approved_sessions
    revoked,    \* revoked_sessions.revoked_at, or None
    eventHigh,  \* latest event time committed for a session
    approval,   \* action_approvals, one row per proposal
    attempt,    \* attempts, one row per proposal
    challenge,  \* prestates of the approval requests returned to the Desktop
    file,       \* the workspace
    recovery,   \* content moved aside by a delete
    th,         \* the blocking threads
    revoking,   \* the control thread's revocation waiting for the barrier, or None
    effects,    \* history: how often a proposal's effect was started
    used        \* environment steps taken so far

ledgerVars == <<clockHigh, approved, revoked, eventHigh, approval, attempt>>
vars == <<clock, ledgerVars, challenge, file, recovery, th, revoking, effects, used>>

-----------------------------------------------------------------------------
(* Types *)

AttemptStates == {"NONE", "IN_FLIGHT", "SUCCEEDED", "EXECUTION_UNKNOWN"}
Observations == {"ok", "err", "transport"}
Replies == {"success", "unknown", "denied", "error"}
PCs == {"idle", "received", "lookup", "authorize", "check", "effect", "torn",
        "ambiguous", "reconcile", "observe", "done"}

Thread == [pc : PCs, p : Proposals \cup {None}, now : Nat,
           pre : States \cup {None}, found : AttemptStates,
           out : Observations \cup Replies \cup {"none"}]

Approval == [decision : {"NONE", "APPROVED", "DENIED"}, pre : States \cup {None},
             decidedAt : Nat, expiresAt : Nat, used : BOOLEAN]

Attempt == [state : AttemptStates, consumedAt : Nat, obs : Observations \cup {"none"}]

Budget == [requests : Nat, crashes : Nat, external : Nat]

TypeOK ==
    /\ clock \in Nat /\ clockHigh \in Nat
    /\ approved \subseteq Sessions
    /\ revoked \in [Sessions -> Nat \cup {None}]
    /\ eventHigh \in [Sessions -> Nat]
    /\ approval \in [Proposals -> Approval]
    /\ attempt \in [Proposals -> Attempt]
    /\ challenge \in [Proposals -> SUBSET States]
    /\ file \in [Files -> States]
    /\ recovery \in [Deletes -> States]
    /\ th \in [Threads -> Thread]
    /\ revoking = None \/ revoking \in [s : Sessions, at : Nat]
    /\ effects \in [Proposals -> Nat]
    /\ used \in Budget

IdleThread == [pc |-> "idle", p |-> None, now |-> 0, pre |-> None,
               found |-> "NONE", out |-> "none"]

NoApproval == [decision |-> "NONE", pre |-> None, decidedAt |-> 0, expiresAt |-> 0,
               used |-> FALSE]

NoAttempt == [state |-> "NONE", consumedAt |-> 0, obs |-> "none"]

Init ==
    /\ clock = 0 /\ clockHigh = 0
    /\ approved = {}
    /\ revoked = [s \in Sessions |-> None]
    /\ eventHigh = [s \in Sessions |-> 0]
    /\ approval = [p \in Proposals |-> NoApproval]
    /\ attempt = [p \in Proposals |-> NoAttempt]
    /\ challenge = [p \in Proposals |-> {}]
    /\ file \in [Files -> ExternalContents]
    /\ recovery = [p \in Deletes |-> Absent]
    /\ th = [t \in Threads |-> IdleThread]
    /\ revoking = None
    /\ effects = [p \in Proposals |-> 0]
    /\ used = [requests |-> 0, crashes |-> 0, external |-> 0]

-----------------------------------------------------------------------------
(* Helpers *)

Larger(a, b) == IF a > b THEN a ELSE b
Smaller(a, b) == IF a < b THEN a ELSE b

\* The thread holds the read side of the execution barrier.  A filesystem
\* request takes it before it looks for a prior attempt, a command only
\* after it has read its prestate.
InScope(t) == th[t].pc \in PCs \ {"idle", "received", "done"}

\* The thread was granted an authorization it has not yet accounted for.
Executing(t) == th[t].pc \in {"check", "effect", "torn", "ambiguous"}

\* Mutant: the session's latest event instead of its largest event time.
CommittedLast(s, at) == eventHigh' = [eventHigh EXCEPT ![s] = at]

\* ledger.rs session_event_high_water, kept as a running maximum.
Committed(s, at) == eventHigh' = [eventHigh EXCEPT ![s] = Larger(@, at)]

\* Thread t's next registers; its proposal never changes while it works.
Set(t, pc, now, pre, found, out) ==
    th' = [th EXCEPT ![t] = [pc |-> pc, p |-> th[t].p, now |-> now, pre |-> pre,
                             found |-> found, out |-> out]]

Goto(t, pc) == Set(t, pc, th[t].now, th[t].pre, th[t].found, th[t].out)

Reply(t, r) == Set(t, "done", th[t].now, th[t].pre, th[t].found, r)

ToObserve(t, o) == Set(t, "observe", th[t].now, th[t].pre, th[t].found, o)

\* terminal.rs completion_time: the record's time is sampled anew.
ToObserveNow(t, o) == Set(t, "observe", clock, th[t].pre, th[t].found, o)

-----------------------------------------------------------------------------
(* The control thread: control.rs process_request over ledger.rs *)

\* APPROVE_SESSION.  An exact retry changes nothing, any other overlap is refused.
RegisterSession(s) ==
    /\ revoking = None
    /\ s \notin approved
    /\ approved' = approved \cup {s}
    /\ Committed(s, ApprovedAt)
    /\ UNCHANGED <<clock, clockHigh, revoked, approval, attempt, challenge, file, recovery,
                   th, revoking, effects, used>>

\* Some approval row already names p's tool call.
HasRow(p) == \E q \in Proposals : CallOf[q] = CallOf[p] /\ approval[q].decision # "NONE"

\* REGISTER_ACTION_APPROVAL: the user's decision d about a challenge the runtime issued.
RegisterActionApproval(p, d, c) ==
    /\ revoking = None
    /\ c \in challenge[p]
    /\ SessionOf[p] \in approved /\ revoked[SessionOf[p]] = None
    /\ ApprovedAt <= clock /\ clock < SessionExpiresAt
    /\ ~HasRow(p)
    /\ approval' = [approval EXCEPT ![p] =
         [decision |-> d, pre |-> c, decidedAt |-> clock,
          expiresAt |-> Smaller(clock + ApprovalLifetime, SessionExpiresAt), used |-> FALSE]]
    /\ Committed(SessionOf[p], clock)
    /\ UNCHANGED <<clock, clockHigh, approved, revoked, attempt, challenge, file, recovery,
                   th, revoking, effects, used>>

\* REVOKE_SESSION: the time is sampled before the thread waits for the barrier.
RequestRevocation(s) ==
    /\ revoking = None
    /\ revoking' = [s |-> s, at |-> clock]
    /\ UNCHANGED <<clock, ledgerVars, challenge, file, recovery, th, effects, used>>

\* Mutant: the revocation does not wait for running executions.
BarrierIgnored == TRUE

\* Every reader has left the barrier; the write side is held for one transaction.
BarrierFree == \A t \in Threads : ~InScope(t)

\* A first revocation must not precede an event of its session; a retry,
\* an unknown session and a backdated request leave the ledger alone.
RevokeSession ==
    /\ revoking # None
    /\ BarrierFree
    /\ LET s == revoking.s
           accepted == s \in approved /\ revoked[s] = None /\ revoking.at >= eventHigh[s]
       IN revoked' = IF accepted THEN [revoked EXCEPT ![s] = revoking.at] ELSE revoked
    /\ revoking' = None
    /\ UNCHANGED <<clock, clockHigh, approved, eventHigh, approval, attempt, challenge,
                   file, recovery, th, effects, used>>

-----------------------------------------------------------------------------
(* A request's way to its authorization *)

\* What the approval context of p would bind now; None when the ledger builds no context.
Context(p) ==
    IF p \notin Reads /\ p \in Conforming /\ SessionOf[p] \in approved
    THEN file[FileOf[p]] ELSE None

\* http.rs: one time sample per request, taken before the barrier.  A command
\* also reads its prestate and context here, and is refused as input when its
\* program or policy cannot be read.
Receive(t, p) ==
    /\ th[t].pc = "idle"
    /\ p \in Commands => file[FileOf[p]] # Absent
    /\ used.requests < MaxRequests
    /\ th' = [th EXCEPT ![t] = [pc |-> "received", p |-> p, now |-> clock,
                                 pre |-> IF p \in Commands THEN Context(p) ELSE None,
                                 found |-> "NONE", out |-> "none"]]
    /\ used' = [used EXCEPT !.requests = @ + 1]
    /\ UNCHANGED <<clock, ledgerVars, challenge, file, recovery, revoking, effects>>

\* begin_execution_scope: a shared lock, so executions overlap.
EnterScope(t) ==
    /\ th[t].pc = "received"
    /\ Goto(t, IF th[t].p \in Commands THEN "authorize" ELSE "lookup")
    /\ UNCHANGED <<clock, ledgerVars, challenge, file, recovery, revoking, effects, used>>

\* filesystem.rs: a mutation that already has an attempt is reconciled, never
\* executed again; an edit or delete of a missing file is refused as input.
Lookup(t) ==
    LET p == th[t].p IN
    /\ th[t].pc = "lookup"
    /\ \/ /\ p \in Mutations /\ attempt[p].state # "NONE"
          /\ Set(t, "reconcile", th[t].now, th[t].pre, attempt[p].state, "none")
       \/ /\ p \in Mutations => attempt[p].state = "NONE"
          /\ p \in Edits \cup Deletes /\ file[FileOf[p]] = Absent
          /\ Reply(t, "error")
       \/ /\ p \in Mutations => attempt[p].state = "NONE"
          /\ ~(p \in Edits \cup Deletes /\ file[FileOf[p]] = Absent)
          /\ Set(t, "authorize", th[t].now, Context(p), "NONE", "none")
    /\ UNCHANGED <<clock, ledgerVars, challenge, file, recovery, revoking, effects, used>>

\* Mutant: the revocation row is not consulted.
SessionAdmitsRevoked(p, now) ==
    /\ SessionOf[p] \in approved
    /\ ApprovedAt <= now /\ now < SessionExpiresAt
    /\ p \in Conforming

SessionAdmits(p, now) ==
    /\ SessionOf[p] \in approved /\ revoked[SessionOf[p]] = None
    /\ ApprovedAt <= now /\ now < SessionExpiresAt
    /\ p \in Conforming

\* Mutant: the expiry is inclusive.
ApprovalUsableAtExpiry(p, pre, now) ==
    /\ p \notin Reads
    /\ pre # None
    /\ approval[p].decision # "NONE" /\ approval[p].pre = pre
    /\ ~approval[p].used
    /\ approval[p].decidedAt <= now /\ now <= approval[p].expiresAt

\* resolve_action_approval: the row matches the context, is unspent and current.
ApprovalUsable(p, pre, now) ==
    /\ p \notin Reads
    /\ pre # None
    /\ approval[p].decision # "NONE" /\ approval[p].pre = pre
    /\ ~approval[p].used
    /\ approval[p].decidedAt <= now /\ now < approval[p].expiresAt

Replayed(p) == \E q \in Proposals : CallOf[q] = CallOf[p] /\ attempt[q].state # "NONE"

Granted(p, pre, now) ==
    /\ SessionAdmits(p, now)
    /\ \/ p \in Preauthorized
       \/ ApprovalUsable(p, pre, now) /\ approval[p].decision = "APPROVED"
    /\ ~Replayed(p)

Spent(p) == [decision |-> approval[p].decision, pre |-> approval[p].pre,
             decidedAt |-> approval[p].decidedAt, expiresAt |-> approval[p].expiresAt,
             used |-> TRUE]

\* A usable row is spent by this transaction, also when the user's decision
\* was to deny or when the call turns out to be a replay.
Spend(p, pre, now) ==
    approval' = IF SessionAdmits(p, now) /\ ApprovalUsable(p, pre, now)
                THEN [approval EXCEPT ![p] = Spent(p)] ELSE approval

\* Request, decision and authorization are issued and consumed in one row.
Issued(now) == [state |-> "IN_FLIGHT", consumedAt |-> now, obs |-> "none"]

\* authorize_and_consume, one transaction.  A denial is committed too.
Authorize(t) ==
    LET p == th[t].p
        pre == th[t].pre
        now == th[t].now
    IN
    /\ th[t].pc = "authorize"
    /\ \/ /\ now < clockHigh
          /\ Reply(t, "error")
          /\ UNCHANGED <<ledgerVars, challenge>>
       \/ /\ now >= clockHigh
          /\ clockHigh' = now
          /\ Spend(p, pre, now)
          /\ Committed(SessionOf[p], now)
          /\ \/ /\ Granted(p, pre, now)
                /\ attempt' = [attempt EXCEPT ![p] = Issued(now)]
                /\ Goto(t, "check")
                /\ UNCHANGED challenge
             \/ /\ ~Granted(p, pre, now)
                /\ Reply(t, "denied")
                /\ challenge' = IF SessionAdmits(p, now) /\ pre # None /\ ~HasRow(p)
                                THEN [challenge EXCEPT ![p] = @ \cup {pre}] ELSE challenge
                /\ UNCHANGED attempt
          /\ UNCHANGED <<approved, revoked>>
    /\ UNCHANGED <<clock, file, recovery, revoking, effects, used>>

-----------------------------------------------------------------------------
(* The effect *)

PerformRead(t) ==
    /\ th[t].pc = "check" /\ th[t].p \in Reads
    /\ \E o \in {"ok", "err"} : ToObserve(t, o)
    /\ UNCHANGED <<clock, ledgerVars, challenge, file, recovery, revoking, effects, used>>

\* A failure before anything is changed: the prestate no longer matches, the
\* edit has no unique match, the process does not start.  An I/O failure of a
\* mutation is ambiguous; a command samples its completion time.
Refuse(t) ==
    /\ th[t].pc = "check" /\ th[t].p \notin Reads
    /\ \/ th[t].p \in Mutations /\ (ToObserve(t, "err") \/ Goto(t, "ambiguous"))
       \/ th[t].p \in Commands /\ ToObserveNow(t, "err")
    /\ UNCHANGED <<clock, ledgerVars, challenge, file, recovery, revoking, effects, used>>

\* The prestate was rehashed and matches.  A file approved as absent is
\* created by the same step (create_new), still empty.
BeginEffect(t) ==
    LET p == th[t].p
        creates == p \in Mutations /\ th[t].pre = Absent
    IN
    /\ th[t].pc = "check" /\ p \notin Reads
    /\ file[FileOf[p]] = th[t].pre
    /\ effects' = [effects EXCEPT ![p] = @ + 1]
    /\ Goto(t, IF creates THEN "torn" ELSE "effect")
    /\ file' = IF creates THEN [file EXCEPT ![FileOf[p]] = Torn] ELSE file
    /\ UNCHANGED <<clock, ledgerVars, challenge, recovery, revoking, used>>

\* The process ran or the request was sent; the completion time is sampled now.
FinishCommand(t) ==
    /\ th[t].pc = "effect" /\ th[t].p \in Commands
    /\ \E o \in {"ok", "err"} : ToObserveNow(t, o)
    /\ UNCHANGED <<clock, ledgerVars, challenge, file, recovery, revoking, effects, used>>

\* write_all and set_len are not atomic: a partly written file is visible.
PartialWrite(t) ==
    /\ th[t].pc = "effect" /\ th[t].p \in Mutations \ Deletes
    /\ file' = [file EXCEPT ![FileOf[th[t].p]] = Torn]
    /\ Goto(t, "torn")
    /\ UNCHANGED <<clock, ledgerVars, challenge, recovery, revoking, effects, used>>

\* Two writers whose writes and truncations interleave can leave a mixture.
Overlapped(t) ==
    \/ th[t].pc = "torn" /\ file[FileOf[th[t].p]] # Torn
    \/ \E u \in Threads \ {t} : th[u].pc = "torn" /\ FileOf[th[u].p] = FileOf[th[t].p]

FinishWrite(t) ==
    LET p == th[t].p
        f == FileOf[p]
    IN
    /\ th[t].pc \in {"effect", "torn"} /\ p \in Mutations \ Deletes
    /\ \/ file' = [file EXCEPT ![f] = Result[p][th[t].pre]]
       \/ Overlapped(t) /\ file' = [file EXCEPT ![f] = Torn]
    /\ ToObserve(t, "ok")
    /\ UNCHANGED <<clock, ledgerVars, challenge, recovery, revoking, effects, used>>

\* The target is renamed into the recovery store under the authorization
\* identifier.  Success needs the moved content to be the approved prestate.
MoveAside(t) ==
    LET p == th[t].p
        f == FileOf[p]
    IN
    /\ th[t].pc = "effect" /\ p \in Deletes
    /\ file[f] # Absent
    /\ file' = [file EXCEPT ![f] = Absent]
    /\ recovery' = [recovery EXCEPT ![p] = file[f]]
    /\ IF file[f] = th[t].pre THEN ToObserve(t, "ok") ELSE Goto(t, "ambiguous")
    /\ UNCHANGED <<clock, ledgerVars, challenge, revoking, effects, used>>

\* Mutant: an I/O error is retried under the same authorization.
FailMutationRetries(t) ==
    /\ th[t].pc \in {"effect", "torn"} /\ th[t].p \in Mutations
    /\ Goto(t, "check")
    /\ UNCHANGED <<clock, ledgerVars, challenge, file, recovery, revoking, effects, used>>

\* An I/O error after the check: nothing, a part or everything was done.
FailMutation(t) ==
    LET p == th[t].p IN
    /\ th[t].pc \in {"effect", "torn"} /\ p \in Mutations
    /\ \/ UNCHANGED file
       \/ p \notin Deletes /\ file' = [file EXCEPT ![FileOf[p]] = Result[p][th[t].pre]]
    /\ Goto(t, "ambiguous")
    /\ UNCHANGED <<clock, ledgerVars, challenge, recovery, revoking, effects, used>>

-----------------------------------------------------------------------------
(* Reconciliation and the record *)

\* Mutant: the target's presence is taken for the poststate.
ConfirmedByPresence(p, pre) == (file[FileOf[p]] = Absent) <=> (p \in Deletes)

\* reconcile_success: the workspace shows exactly the poststate of p.
Confirmed(p, pre) ==
    IF p \in Deletes
    THEN file[FileOf[p]] = Absent /\ recovery[p] = pre
    ELSE file[FileOf[p]] # Absent /\ file[FileOf[p]] = Result[p][pre]

\* reconcile_edit_result cannot open a missing file: no outcome is recorded.
Unreadable(p) == p \in Edits /\ file[FileOf[p]] = Absent

\* Mutant: the broker waits until the workspace shows the poststate.
ResolveAmbiguityByPolling(t) ==
    /\ th[t].pc = "ambiguous"
    /\ Confirmed(th[t].p, th[t].pre)
    /\ ToObserve(t, "ok")
    /\ UNCHANGED <<clock, ledgerVars, challenge, file, recovery, revoking, effects, used>>

\* execute_authorized_operation after IoAmbiguous.
ResolveAmbiguity(t) ==
    LET p == th[t].p IN
    /\ th[t].pc = "ambiguous"
    /\ IF Unreadable(p) THEN Reply(t, "error")
       ELSE ToObserve(t, IF Confirmed(p, th[t].pre) THEN "ok" ELSE "err")
    /\ UNCHANGED <<clock, ledgerVars, challenge, file, recovery, revoking, effects, used>>

\* reconcile_existing_attempt, on the attempt row read by Lookup.
Reconcile(t) ==
    LET p == th[t].p
        found == th[t].found
        confirmed == Confirmed(p, approval[p].pre)
    IN
    /\ th[t].pc = "reconcile"
    /\ CASE found = "EXECUTION_UNKNOWN" -> Reply(t, "unknown")
         [] found # "EXECUTION_UNKNOWN" /\ Unreadable(p) -> Reply(t, "error")
         [] found = "SUCCEEDED" /\ ~Unreadable(p) ->
              Reply(t, IF confirmed THEN "success" ELSE "error")
         [] found = "IN_FLIGHT" /\ ~Unreadable(p) ->
              ToObserve(t, IF confirmed THEN "ok" ELSE "transport")
    /\ UNCHANGED <<clock, ledgerVars, challenge, file, recovery, revoking, effects, used>>

\* Mutant: the wire outcome is stored as the row's state.
RecordedRaw(o) == o

Recorded(o) == IF o = "ok" THEN "SUCCEEDED" ELSE "EXECUTION_UNKNOWN"

\* Mutant: a retry is recognised without comparing observation digests.
RepeatedAnyDigest(row, o) == row.state # "IN_FLIGHT"

\* The row is open and inside its observation window.
Acceptable(row, now) ==
    /\ row.state = "IN_FLIGHT"
    /\ row.consumedAt <= now /\ now - row.consumedAt <= MaxExecutionDuration

\* An exact repetition of the observation that closed the row.
Repeated(row, o) == row.state # "IN_FLIGHT" /\ row.obs = o

\* Ledger::observe, one transaction; every error rolls it back.
Observe(t) ==
    LET p == th[t].p
        now == th[t].now
        o == th[t].out
        row == attempt[p]
        answer == IF o = "ok" THEN "success" ELSE "unknown"
    IN
    /\ th[t].pc = "observe"
    /\ \/ /\ now >= clockHigh
          /\ Acceptable(row, now)
          /\ clockHigh' = now
          /\ attempt' = [attempt EXCEPT ![p] =
               [state |-> Recorded(o), consumedAt |-> row.consumedAt, obs |-> o]]
          /\ Committed(SessionOf[p], now)
          /\ Reply(t, answer)
       \/ /\ now >= clockHigh
          /\ Repeated(row, o)
          /\ clockHigh' = now
          /\ Reply(t, answer)
          /\ UNCHANGED <<attempt, eventHigh>>
       \/ /\ now < clockHigh \/ ~(Acceptable(row, now) \/ Repeated(row, o))
          /\ Reply(t, "error")
          /\ UNCHANGED <<clockHigh, attempt, eventHigh>>
    /\ UNCHANGED <<clock, approved, revoked, approval, challenge, file, recovery, revoking,
                   effects, used>>

\* The handler returns: its barrier guard is dropped and the response is sent.
Respond(t) ==
    /\ th[t].pc = "done"
    /\ th' = [th EXCEPT ![t] = IdleThread]
    /\ UNCHANGED <<clock, ledgerVars, challenge, file, recovery, revoking, effects, used>>

-----------------------------------------------------------------------------
(* Environment *)

\* The operating system's clock.
SetClock(c) ==
    /\ c > clock \/ (ClockMayStepBack /\ c < clock)
    /\ clock' = c
    /\ UNCHANGED <<ledgerVars, challenge, file, recovery, th, revoking, effects, used>>

\* Another program writes to the workspace or replaces an executable or policy.
ExternalChange(f, c) ==
    /\ used.external < MaxExternal
    /\ c # file[f]
    /\ file' = [file EXCEPT ![f] = c]
    /\ used' = [used EXCEPT !.external = @ + 1]
    /\ UNCHANGED <<clock, ledgerVars, challenge, recovery, th, revoking, effects>>

\* The process dies and is restarted on the same database and workspace.
Crash ==
    /\ used.crashes < MaxCrashes
    /\ th' = [t \in Threads |-> IdleThread]
    /\ revoking' = None
    /\ used' = [used EXCEPT !.crashes = @ + 1]
    /\ UNCHANGED <<clock, ledgerVars, challenge, file, recovery, effects>>

-----------------------------------------------------------------------------

Serve(t) ==
    \/ EnterScope(t) \/ Lookup(t) \/ Authorize(t)
    \/ PerformRead(t) \/ Refuse(t) \/ BeginEffect(t) \/ FinishCommand(t)
    \/ PartialWrite(t) \/ FinishWrite(t) \/ MoveAside(t) \/ FailMutation(t)
    \/ ResolveAmbiguity(t) \/ Reconcile(t) \/ Observe(t) \/ Respond(t)

Next ==
    \/ \E s \in Sessions : RegisterSession(s) \/ RequestRevocation(s)
    \/ \E p \in Proposals, d \in {"APPROVED", "DENIED"}, c \in States :
         RegisterActionApproval(p, d, c)
    \/ RevokeSession
    \/ \E t \in Threads, p \in Proposals : Receive(t, p)
    \/ \E t \in Threads : Serve(t)
    \/ \E c \in 0..MaxClock : SetClock(c)
    \/ \E f \in Files, c \in ExternalContents : ExternalChange(f, c)
    \/ Crash

Spec == Init /\ [][Next]_vars

\* Blocking threads and the control thread keep running.
Fairness == WF_vars(RevokeSession) /\ \A t \in Threads : WF_vars(Serve(t))

FairSpec == Spec /\ Fairness
-----------------------------------------------------------------------------
(* Properties *)

\* A tool call has at most one effect, whatever retries, duplicate deliveries,
\* concurrent requests, crashes and reconciliations happen: authority is spent
\* before the effect and never restored (ledger.rs authorize_and_consume).
OneEffectPerCall ==
    \A p, q \in Proposals :
        /\ effects[p] <= 1
        /\ effects[p] > 0 /\ effects[q] > 0 /\ CallOf[p] = CallOf[q] => p = q

\* Every attempt that is not a preauthorized read was paid for by one spent
\* approval in which the user said yes, used inside the approval's window
\* (ledger.rs resolve_action_approval).
AttemptsArePaidFor ==
    \A p \in Proposals \ Preauthorized :
        attempt[p].state # "NONE" =>
            /\ approval[p].decision = "APPROVED" /\ approval[p].used
            /\ approval[p].decidedAt <= attempt[p].consumedAt
            /\ attempt[p].consumedAt < approval[p].expiresAt

\* "A successful ACK is also a barrier" (ledger.rs revoke_session_at): once a
\* session is revoked no thread is still working on an authorization of it.
RevocationIsBarrier ==
    \A t \in Threads :
        Executing(t) => revoked[SessionOf[th[t].p]] = None

\* After the revocation of a session no effect of it starts and no new
\* authority of it is spent (ledger.rs revoke_session_at, authorize_and_consume).
NothingAfterRevocation ==
    [][\A p \in Proposals : revoked[SessionOf[p]] # None =>
          /\ effects'[p] = effects[p]
          /\ approval'[p] = approval[p]
          /\ attempt[p].state = "NONE" => attempt'[p].state = "NONE"]_vars

\* A revocation never rewrites history: no decision and no consumption of the
\* session is dated after it (ledger.rs session_event_high_water).
RevocationClosesHistory ==
    \A p \in Proposals : revoked[SessionOf[p]] # None =>
        /\ approval[p].decision # "NONE" => approval[p].decidedAt <= revoked[SessionOf[p]]
        /\ attempt[p].state # "NONE" => attempt[p].consumedAt <= revoked[SessionOf[p]]

\* A request answered with success has a durable SUCCEEDED record, also when
\* two deliveries of the same proposal race to record it (ledger.rs observe).
SuccessIsDurable ==
    \A t \in Threads :
        th[t].pc = "done" /\ th[t].out = "success" => attempt[th[t].p].state = "SUCCEEDED"

\* A recorded outcome is final (ledger.rs observe).
OutcomeIsFinal ==
    [][\A p \in Proposals : attempt[p].state \in {"SUCCEEDED", "EXECUTION_UNKNOWN"}
          => attempt'[p] = attempt[p]]_vars

\* Proposals whose success cannot be mistaken for someone else's: a command is
\* never reconciled, a delete leaves the approved content under its own
\* authorization's name, and any other mutation counts when its poststates are
\* left by no other program and by no other mutation of the same file.
Attributable ==
    Commands \cup Deletes \cup
    {p \in Mutations : \A c \in States :
        /\ Result[p][c] \notin ExternalContents \cup {Torn}
        /\ \A q \in Mutations \ {p}, d \in States :
              FileOf[q] = FileOf[p] => Result[q][d] # Result[p][c]}

\* SUCCEEDED is recorded only for an effect that was started, by whichever of
\* execution, resolution of an I/O error and reconciliation after a crash gets
\* to record it (filesystem.rs reconcile_success, terminal.rs execute).
SucceededWasStarted ==
    \A p \in Attributable : attempt[p].state = "SUCCEEDED" => effects[p] = 1

\* README of the crate, terminal broker: it "records either that result or an
\* indeterminate tool error in the durable ledger".  While the process lives, a
\* consumed command authorization still has a thread that will record it.
CommandOutcomeIsRecorded ==
    \A p \in Commands :
        attempt[p].state = "IN_FLIGHT" /\ used.crashes = 0 =>
            \E t \in Threads : th[t].p = p /\ th[t].pc \in {"check", "effect", "observe"}

\* Every request is answered and every revocation request leaves the barrier,
\* by any path through denials, clock errors, conflicts and failures (http.rs
\* execute_filesystem and execute_terminal, control.rs process_revocation).
RequestsAreAnswered ==
    /\ \A t \in Threads : th[t].pc = "received" ~> th[t].pc = "idle"
    /\ revoking # None ~> revoking = None

\* What a row of action_approvals is still worth.
Held(row) == IF row.used THEN "SPENT" ELSE row.decision

Authority == INSTANCE OneTimeAuthority WITH
    Exempt <- Preauthorized, Telling <- Attributable,
    authority <- [p \in Proposals |-> Held(approval[p])],
    record <- [p \in Proposals |-> attempt[p].state],
    closed <- {s \in Sessions : revoked[s] # None}

\* Whatever threads, retries, crashes, clocks and other programs do, the ledger
\* and the brokers together keep the promise of OneTimeAuthority: one decision,
\* one record and one effect per tool call, none of them after the session's
\* revocation, and no telling success without its effect (ledger.rs
\* authorize_and_consume, observe and revoke_session_at; filesystem.rs execute).
ImplementsOneTimeAuthority == Authority!Spec
=============================================================================
