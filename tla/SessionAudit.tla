---------------------------- MODULE SessionAudit ----------------------------
(***************************************************************************)
(* The session audit (audit.rs of the crate accordlock-agent-runtime): the *)
(* paged, verified projection of one session's ledger rows, the revision   *)
(* that the ledger's triggers keep for it, and the Desktop that exports a  *)
(* history page by page (taskBridge.ts).                                   *)
(*                                                                         *)
(* Every ledger operation is one transaction under one lock and one action *)
(* here, at any time its caller may have sampled.  The audit reads in one  *)
(* transaction per page, and writers run between two pages.                *)
(*                                                                         *)
(* A proposal stands for its digest, its authorization and, for a delete,  *)
(* its recovery.  Digests, JSON and the chain of evidence are left out:    *)
(* what is written is what is read.  Kept are the relations between rows   *)
(* and between times that the audit verifies again.                        *)
(***************************************************************************)
EXTENDS Naturals, Sequences, FiniteSets

CONSTANTS
    Sessions,
    Proposals,      \* numbered: source identifiers are ordered
    SessionOf,      \* the session a proposal names
    CallOf,         \* its tool call
    Verdict,        \* "CONFORMING", or why binding, capability or intent refuse it
    Observing,      \* reads and trees: an automatic execution class
    Preauthorized,  \* the task policy allows the tool without review
    Deletes,
    None,
    ApprovedAt, ExpiresAt,      \* of every session
    ApprovalLifetime,           \* MAX_ACTION_APPROVAL_LIFETIME_SECONDS
    MaxExecutionDuration,
    Capabilities,               \* approved capabilities of a session
    PageLimit, MaxEvents,       \* limit of a query, MAX_AUDIT_TOTAL_EVENTS
    MaxRevision,                \* MAX_SAFE_JSON_INTEGER
    MaxClock, MaxDenials        \* bounds of the environment

ASSUME ProposalsAssumption ==
    /\ Proposals \subseteq Nat
    /\ SessionOf \in [Proposals -> Sessions]
    /\ Verdict \in [Proposals -> {"CONFORMING", "SESSION_BINDING_MISMATCH",
                                  "CAPABILITY_NOT_APPROVED", "INTENT_EVALUATION_INVALID"}]
    /\ Observing \cap Deletes = {}

ASSUME FiniteAssumption == IsFiniteSet(Proposals)

ASSUME TimesAssumption ==
    /\ {ApprovedAt, ExpiresAt, ApprovalLifetime, MaxExecutionDuration} \subseteq Nat
    /\ {Capabilities, PageLimit, MaxEvents, MaxRevision, MaxClock, MaxDenials} \subseteq Nat
    /\ None \notin Nat

VARIABLES
    high,       \* runtime_meta.clock_high_water
    approved,   \* approved_sessions
    revoked,    \* revoked_sessions.revoked_at, or None
    approval,   \* action_approvals, by proposal
    attempt,    \* attempts, by proposal
    denials,    \* denied_proposals, by denial_id
    restore,    \* file_restores, by proposal
    revision,   \* audit_session_revisions
    reader      \* the Desktop's export

tables == <<approved, revoked, approval, attempt, denials, restore>>
vars == <<high, tables, revision, reader>>

-----------------------------------------------------------------------------
(* Types *)

Approval == [decision : {"NONE", "APPROVED", "DENIED"}, decidedAt : Nat, expiresAt : Nat,
             consumedAt : Nat \cup {None}]
Attempt == [state : {"NONE", "IN_FLIGHT", "SUCCEEDED", "EXECUTION_UNKNOWN"},
            consumedAt : Nat, completedAt : Nat \cup {None}]
Restore == [state : {"NONE", "PREPARED", "IN_FLIGHT", "SUCCEEDED"},
            preparedAt : Nat, completedAt : Nat \cup {None}]

\* Reasons that commit_denial is called with.
Reasons == {"UNKNOWN_SESSION", "SESSION_REVOKED", "SESSION_NOT_CURRENT",
            "SESSION_BINDING_MISMATCH", "CAPABILITY_NOT_APPROVED",
            "INTENT_EVALUATION_INVALID", "CONFORMANCE_EVALUATION_INVALID",
            "CONFORMANCE_SCOPE_MISMATCH", "EXECUTION_CONTEXT_REQUIRED",
            "ACTION_APPROVAL_REQUIRED", "ACTION_APPROVAL_SCOPE_MISMATCH",
            "ACTION_APPROVAL_ALREADY_USED", "ACTION_APPROVAL_EXPIRED",
            "ACTION_APPROVAL_DENIED", "TOOL_CALL_REPLAY"}

Denial == [p : Proposals, reason : Reasons, at : Nat]

\* done: the last export had all its pages.  INCONSISTENT: the Desktop found
\* pages that disagree.
PCs == {"idle", "reading", "done", "INCONSISTENT"}

NoApproval == [decision |-> "NONE", decidedAt |-> 0, expiresAt |-> 0, consumedAt |-> None]
NoAttempt == [state |-> "NONE", consumedAt |-> 0, completedAt |-> None]
NoRestore == [state |-> "NONE", preparedAt |-> 0, completedAt |-> None]

\* What the reader keeps: the first page's revision, total and snapshot time,
\* the next offset and the events so far.  History: rows and events as they
\* were when the first page was read and, of an export that ended, whether it
\* has them all.
NoExport == [pc |-> "idle", s |-> None, revision |-> 0, total |-> 0, at |-> 0, offset |-> 0,
             got |-> {}, rows |-> None, history |-> {}, whole |-> FALSE]

TypeOK ==
    /\ high \in Nat
    /\ approved \subseteq Sessions
    /\ revoked \in [Sessions -> Nat \cup {None}]
    /\ approval \in [Proposals -> Approval]
    /\ attempt \in [Proposals -> Attempt]
    /\ denials \in Seq(Denial)
    /\ restore \in [Proposals -> Restore]
    /\ revision \in [Sessions -> 0..MaxRevision]
    /\ reader.pc \in PCs /\ reader.s \in Sessions \cup {None}
    /\ reader.revision \in Nat

Init ==
    /\ high = 0
    /\ approved = {}
    /\ revoked = [s \in Sessions |-> None]
    /\ approval = [p \in Proposals |-> NoApproval]
    /\ attempt = [p \in Proposals |-> NoAttempt]
    /\ denials = << >>
    /\ restore = [p \in Proposals |-> NoRestore]
    /\ revision = [s \in Sessions |-> 0]
    /\ reader = NoExport

-----------------------------------------------------------------------------
(* The history of a session *)

Of(s) == {p \in Proposals : SessionOf[p] = s}
DenialsOf(s) == {i \in DOMAIN denials : SessionOf[denials[i].p] = s}

\* Every row of the session.
Rows(s) ==
    [revoked |-> revoked[s],
     approvals |-> [p \in Of(s) |-> approval[p]],
     attempts |-> [p \in Of(s) |-> attempt[p]],
     restores |-> [p \in Of(s) |-> restore[p]],
     denials |-> [i \in DenialsOf(s) |-> denials[i]]]

\* fact: what else the projected event says of its row.
Event(kind, id, at, fact) == [kind |-> kind, id |-> id, at |-> at, fact |-> fact]

\* AUDIT_PAGE_REFS_SQL and AUDIT_STATS_SQL: the union over the tables.
Events(s) ==
    {Event("SESSION_APPROVED", 0, ApprovedAt, "")}
    \cup {Event("SESSION_REVOKED", 0, revoked[t], "") :
            t \in {t \in {s} : revoked[t] # None}}
    \cup {Event("ACTION_DECISION", p, approval[p].decidedAt,
                IF approval[p].consumedAt = None THEN "open" ELSE "consumed") :
            p \in {p \in Of(s) : approval[p].decision # "NONE"}}
    \cup {Event("ACTION_STARTED", p, attempt[p].consumedAt, "") :
            p \in {p \in Of(s) : attempt[p].state # "NONE"}}
    \cup {Event("ACTION_COMPLETED", p, attempt[p].completedAt, attempt[p].state) :
            p \in {p \in Of(s) : attempt[p].completedAt # None}}
    \cup {Event("ACTION_DENIED", i, denials[i].at, denials[i].reason) : i \in DenialsOf(s)}
    \cup {Event("RESTORE_PREPARED", p, restore[p].preparedAt, "") :
            p \in {p \in Of(s) : restore[p].state # "NONE"}}
    \cup {Event("RESTORE_COMPLETED", p, restore[p].completedAt, "") :
            p \in {p \in Of(s) : restore[p].completedAt # None}}

\* ORDER BY kind DESC is alphabetical.
KindRank == [ACTION_COMPLETED |-> 1, ACTION_DECISION |-> 2, ACTION_DENIED |-> 3,
             ACTION_STARTED |-> 4, RESTORE_COMPLETED |-> 5, RESTORE_PREPARED |-> 6,
             SESSION_APPROVED |-> 7, SESSION_REVOKED |-> 8]

\* e stands before f: latest first, then by kind and by source identifier.
Before(e, f) ==
    \/ e.at > f.at
    \/ e.at = f.at /\ KindRank[e.kind] > KindRank[f.kind]
    \/ e.at = f.at /\ e.kind = f.kind /\ e.id > f.id

Position(s, e) == Cardinality({f \in Events(s) : Before(f, e)})

\* LIMIT n OFFSET offset
Slice(s, offset, n) == {e \in Events(s) : offset <= Position(s, e) /\ Position(s, e) < offset + n}

\* MAX(recorded_at) of the history, snapshot_at.
Latest(s) == (CHOOSE e \in Events(s) : Position(s, e) = 0).at

-----------------------------------------------------------------------------
(* Writers: the ledger's transactions *)

\* Mutant: the revision has no limit.
BumpUnbounded(s, k) == revision' = [revision EXCEPT ![s] = @ + k]

\* The triggers session_audit_revision_*: k rows of session s are changed.  A
\* transaction whose revision would exceed the bound is aborted.
Bump(s, k) ==
    /\ revision[s] + k <= MaxRevision
    /\ revision' = [revision EXCEPT ![s] = @ + k]

\* observe_clock
ObserveClock(now) == now >= high /\ high' = now

\* register_session: the session and its capabilities.
RegisterSession(s) ==
    /\ s \notin approved
    /\ approved' = approved \cup {s}
    /\ Bump(s, 1 + Capabilities)
    /\ UNCHANGED <<high, revoked, approval, attempt, denials, restore, reader>>

\* register_action_approval: the Desktop dates the decision.
RegisterActionApproval(p, decision, decided, expires) ==
    /\ SessionOf[p] \in approved /\ revoked[SessionOf[p]] = None
    /\ ApprovedAt <= decided /\ decided < expires /\ expires <= ExpiresAt
    /\ expires <= decided + ApprovalLifetime
    /\ \A q \in Proposals : CallOf[q] = CallOf[p] => approval[q].decision = "NONE"
    /\ approval' = [approval EXCEPT ![p] = [decision |-> decision, decidedAt |-> decided,
                                            expiresAt |-> expires, consumedAt |-> None]]
    /\ Bump(SessionOf[p], 1)
    /\ UNCHANGED <<high, approved, revoked, attempt, denials, restore, reader>>

\* revoke_session_at: not before any event of the session.
Revoke(s, at) ==
    /\ s \in approved /\ revoked[s] = None
    /\ \A e \in Events(s) : e.at <= at
    /\ revoked' = [revoked EXCEPT ![s] = at]
    /\ Bump(s, 1)
    /\ UNCHANGED <<high, approved, approval, attempt, denials, restore, reader>>

\* The checks of authorize_and_consume before it asks for an approval:
\* "none" when it goes on.
SessionDenial(p, now) ==
    CASE SessionOf[p] \notin approved -> "UNKNOWN_SESSION"
      [] SessionOf[p] \in approved /\ revoked[SessionOf[p]] # None -> "SESSION_REVOKED"
      [] OTHER -> IF now < ApprovedAt \/ now >= ExpiresAt THEN "SESSION_NOT_CURRENT"
                  ELSE IF Verdict[p] # "CONFORMING" THEN Verdict[p]
                  ELSE IF p \in Preauthorized \ Observing THEN "CONFORMANCE_EVALUATION_INVALID"
                  ELSE IF p \in Observing \ Preauthorized THEN "CONFORMANCE_SCOPE_MISMATCH"
                  ELSE "none"

Replayed(p) == \E q \in Proposals : CallOf[q] = CallOf[p] /\ attempt[q].state # "NONE"

\* resolve_action_approval up to its UPDATE.  context: the approval request
\* the broker rebuilt is absent, of another prestate, or the approved one.
ApprovalDenial(p, context, now) ==
    LET rows == {q \in Proposals : CallOf[q] = CallOf[p] /\ approval[q].decision # "NONE"} IN
    CASE context = "absent" -> "EXECUTION_CONTEXT_REQUIRED"
      [] context # "absent" /\ rows = {} -> "ACTION_APPROVAL_REQUIRED"
      [] context # "absent" /\ rows # {} ->
           IF p \notin rows \/ context = "changed" THEN "ACTION_APPROVAL_SCOPE_MISMATCH"
           ELSE IF approval[p].consumedAt # None THEN "ACTION_APPROVAL_ALREADY_USED"
           ELSE IF approval[p].decidedAt > now \/ now >= approval[p].expiresAt
                THEN "ACTION_APPROVAL_EXPIRED"
           ELSE "none"

Denied(p, reason, now) ==
    /\ Len(denials) < MaxDenials
    /\ denials' = Append(denials, [p |-> p, reason |-> reason, at |-> now])

Granted(p, now) ==
    attempt' = [attempt EXCEPT ![p] = [state |-> "IN_FLIGHT", consumedAt |-> now,
                                       completedAt |-> None]]

Spend(p, now) == approval' = [approval EXCEPT ![p].consumedAt = now]

\* A denial before an approval is spent; of an unknown session it changes no
\* revision.
Deny(p, context, now) ==
    LET session == SessionDenial(p, now)
        reason == IF session # "none" THEN session
                  ELSE IF p \in Preauthorized THEN "TOOL_CALL_REPLAY"
                  ELSE ApprovalDenial(p, context, now)
    IN
    /\ ObserveClock(now)
    /\ \/ session # "none"
       \/ p \in Preauthorized /\ Replayed(p)
       \/ p \notin Preauthorized /\ ApprovalDenial(p, context, now) # "none"
    /\ Denied(p, reason, now)
    /\ IF SessionOf[p] \in approved THEN Bump(SessionOf[p], 1) ELSE UNCHANGED revision
    /\ UNCHANGED <<approved, revoked, approval, attempt, restore, reader>>

\* A preauthorized action needs no approval.
AuthorizeAutomatic(p, now) ==
    /\ ObserveClock(now)
    /\ SessionDenial(p, now) = "none" /\ p \in Preauthorized /\ ~Replayed(p)
    /\ Granted(p, now)
    /\ Bump(SessionOf[p], 1)
    /\ UNCHANGED <<approved, revoked, approval, denials, restore, reader>>

\* The approval is spent, whether it grants the action, denies it or comes too
\* late for its tool call: two rows change.
AuthorizeApproved(p, now) ==
    /\ ObserveClock(now)
    /\ SessionDenial(p, now) = "none" /\ p \notin Preauthorized
    /\ ApprovalDenial(p, "same", now) = "none"
    /\ Spend(p, now)
    /\ Bump(SessionOf[p], 2)
    /\ \/ /\ approval[p].decision = "APPROVED" /\ ~Replayed(p)
          /\ Granted(p, now)
          /\ UNCHANGED denials
       \/ /\ approval[p].decision = "DENIED"
          /\ Denied(p, "ACTION_APPROVAL_DENIED", now)
          /\ UNCHANGED attempt
       \/ /\ approval[p].decision = "APPROVED" /\ Replayed(p)
          /\ Denied(p, "TOOL_CALL_REPLAY", now)
          /\ UNCHANGED attempt
    /\ UNCHANGED <<approved, revoked, restore, reader>>

\* Mutant: no trigger for updates of attempts.
ObserveUncounted(p, state, now) ==
    /\ ObserveClock(now)
    /\ attempt[p].state = "IN_FLIGHT"
    /\ now <= attempt[p].consumedAt + MaxExecutionDuration
    /\ attempt' = [attempt EXCEPT ![p] = [state |-> state, consumedAt |-> attempt[p].consumedAt,
                                          completedAt |-> now]]
    /\ UNCHANGED <<approved, revoked, approval, denials, restore, revision, reader>>

\* observe
Observe(p, state, now) ==
    /\ ObserveClock(now)
    /\ attempt[p].state = "IN_FLIGHT"
    /\ now <= attempt[p].consumedAt + MaxExecutionDuration
    /\ attempt' = [attempt EXCEPT ![p] = [state |-> state, consumedAt |-> attempt[p].consumedAt,
                                          completedAt |-> now]]
    /\ Bump(SessionOf[p], 1)
    /\ UNCHANGED <<approved, revoked, approval, denials, restore, reader>>

\* The same observation again commits the time and nothing else.
ObserveAgain(p, now) ==
    /\ ObserveClock(now) /\ now > high
    /\ attempt[p].state \in {"SUCCEEDED", "EXECUTION_UNKNOWN"}
    /\ UNCHANGED <<tables, revision, reader>>

\* Mutant: the time of a restore is not held against the ledger's.
InsertRestoreUnclocked(p, now) ==
    /\ p \in Deletes \ Preauthorized
    /\ attempt[p].state = "SUCCEEDED" /\ restore[p].state = "NONE"
    /\ restore' = [restore EXCEPT ![p] = [state |-> "PREPARED", preparedAt |-> now,
                                          completedAt |-> None]]
    /\ Bump(SessionOf[p], 1)
    /\ UNCHANGED <<high, approved, revoked, approval, attempt, denials, reader>>

\* insert_file_restore, for a delete that succeeded (prepare_file_restore).
InsertRestore(p, now) ==
    /\ ObserveClock(now)
    /\ p \in Deletes \ Preauthorized
    /\ attempt[p].state = "SUCCEEDED" /\ restore[p].state = "NONE"
    /\ restore' = [restore EXCEPT ![p] = [state |-> "PREPARED", preparedAt |-> now,
                                          completedAt |-> None]]
    /\ Bump(SessionOf[p], 1)
    /\ UNCHANGED <<approved, revoked, approval, attempt, denials, reader>>

\* begin_file_restore and complete_file_restore
MoveRestore(p, from, to, completed, now) ==
    /\ ObserveClock(now)
    /\ restore[p].state = from
    /\ restore' = [restore EXCEPT ![p] = [state |-> to, preparedAt |-> restore[p].preparedAt,
                                          completedAt |-> completed]]
    /\ Bump(SessionOf[p], 1)
    /\ UNCHANGED <<approved, revoked, approval, attempt, denials, reader>>

BeginRestore(p, now) == MoveRestore(p, "PREPARED", "IN_FLIGHT", None, now)
CompleteRestore(p, now) == MoveRestore(p, "IN_FLIGHT", "SUCCEEDED", now, now)

-----------------------------------------------------------------------------
(* The audit: session_audit *)

\* verify_action_approval.  The longest lifetime of an approval is left out: the
\* writer runs the same record.validate.
ApprovalVerifies(p) ==
    LET a == approval[p] IN
    /\ a.decision # "NONE"
    /\ ApprovedAt <= a.decidedAt /\ a.decidedAt < a.expiresAt /\ a.expiresAt <= ExpiresAt
    /\ a.consumedAt # None => a.decidedAt <= a.consumedAt /\ a.consumedAt < a.expiresAt

\* verify_attempt
AttemptVerifies(p) ==
    LET t == attempt[p] IN
    /\ Verdict[p] = "CONFORMING"
    /\ p \in Preauthorized => p \in Observing
    /\ ApprovedAt <= t.consumedAt /\ t.consumedAt < ExpiresAt
    /\ p \notin Preauthorized =>
         /\ ApprovalVerifies(p)
         /\ approval[p].decision = "APPROVED" /\ approval[p].consumedAt = t.consumedAt
    /\ (t.state = "IN_FLIGHT") <=> (t.completedAt = None)
    /\ t.completedAt # None =>
         /\ t.consumedAt <= t.completedAt
         /\ t.completedAt <= t.consumedAt + MaxExecutionDuration

\* load_verified_restore_event, verify_delete_recovery_attempt
RestoreVerifies(p) ==
    /\ AttemptVerifies(p)
    /\ attempt[p].state = "SUCCEEDED"
    /\ p \in Deletes /\ p \notin Preauthorized
    /\ attempt[p].completedAt <= restore[p].preparedAt
    /\ (restore[p].state = "SUCCEEDED") <=> (restore[p].completedAt # None)
    /\ restore[p].completedAt # None => restore[p].preparedAt <= restore[p].completedAt

\* valid_denial_reason
KnownReasons == {"UNKNOWN_SESSION", "SESSION_REVOKED", "SESSION_NOT_CURRENT",
                 "SESSION_BINDING_MISMATCH", "CAPABILITY_NOT_APPROVED",
                 "EXECUTION_CONTEXT_REQUIRED", "INTENT_EVALUATION_INVALID",
                 "ACTION_APPROVAL_REQUIRED", "ACTION_APPROVAL_DENIED",
                 "ACTION_APPROVAL_EXPIRED", "ACTION_APPROVAL_SCOPE_MISMATCH",
                 "ACTION_APPROVAL_ALREADY_USED", "TOOL_CALL_REPLAY"}

\* load_verified_event
Verifies(e) ==
    CASE e.kind = "ACTION_DECISION" -> ApprovalVerifies(e.id)
      [] e.kind \in {"ACTION_STARTED", "ACTION_COMPLETED"} -> AttemptVerifies(e.id)
      [] e.kind = "ACTION_DENIED" -> denials[e.id].reason \in KnownReasons
      [] e.kind \in {"RESTORE_PREPARED", "RESTORE_COMPLETED"} -> RestoreVerifies(e.id)
      [] OTHER -> TRUE

\* A page of n events: m rows are loaded until the source budget is used up,
\* and all of them are verified; n are kept within the encoding budget.
Readable(s, offset, m) == \A e \in Slice(s, offset, m) : Verifies(e)
Fits(s, offset, m, n) ==
    /\ Cardinality(Events(s)) <= MaxEvents
    /\ Readable(s, offset, m)
    /\ 1 <= n /\ n <= Cardinality(Slice(s, offset, m))

\* next_offset
NextOffset(offset, n) == offset + n

\* readAllAccordLockTaskAuditPages after a page whose events are new: more to
\* read, or the count must be the announced total.
After(export, offset, got) ==
    IF offset < export.total THEN [export EXCEPT !.offset = offset, !.got = got]
    ELSE IF Cardinality(got) # export.total THEN [NoExport EXCEPT !.pc = "INCONSISTENT"]
    ELSE [NoExport EXCEPT !.pc = "done", !.whole = (got = export.history)]

FirstPage(s, m, n) ==
    LET export == [pc |-> "reading", s |-> s, revision |-> revision[s],
                   total |-> Cardinality(Events(s)), at |-> Latest(s), offset |-> 0,
                   got |-> {}, rows |-> Rows(s), history |-> Events(s), whole |-> FALSE]
    IN
    /\ reader.pc # "reading"
    /\ s \in approved
    /\ Fits(s, 0, m, n)
    /\ reader' = After(export, NextOffset(0, n), Slice(s, 0, n))
    /\ UNCHANGED <<high, tables, revision>>

\* Mutant: the revision of a continuation is not compared.
SameSnapshotUnchecked == TRUE

\* The continuation repeats the revision of the first page.
SameSnapshot == revision[reader.s] = reader.revision

NextPage(m, n) ==
    LET s == reader.s
        page == Slice(s, reader.offset, n)
    IN
    /\ reader.pc = "reading" /\ SameSnapshot
    /\ Fits(s, reader.offset, m, n)
    /\ reader' =
         IF /\ Cardinality(Events(s)) = reader.total /\ Latest(s) = reader.at
            /\ page \cap reader.got = {}
         THEN After(reader, NextOffset(reader.offset, n), reader.got \cup page)
         ELSE [NoExport EXCEPT !.pc = "INCONSISTENT"]
    /\ UNCHANGED <<high, tables, revision>>

\* AUDIT_SNAPSHOT_CHANGED ends the export.
Changed ==
    /\ reader.pc = "reading" /\ ~SameSnapshot
    /\ reader' = NoExport
    /\ UNCHANGED <<high, tables, revision>>

\* So do AUDIT_STATE_CORRUPT, AUDIT_HISTORY_TOO_LARGE and, when not one event
\* is within the budgets, AUDIT_PAGE_TOO_LARGE.
Refused ==
    /\ reader.pc = "reading" /\ SameSnapshot
    /\ reader' = NoExport
    /\ UNCHANGED <<high, tables, revision>>

-----------------------------------------------------------------------------

Times == 0..MaxClock

Write(p, now) ==
    \/ \E decision \in {"APPROVED", "DENIED"}, expires \in 0..ExpiresAt :
         RegisterActionApproval(p, decision, now, expires)
    \/ \E context \in {"absent", "changed", "same"} : Deny(p, context, now)
    \/ AuthorizeAutomatic(p, now) \/ AuthorizeApproved(p, now)
    \/ \E state \in {"SUCCEEDED", "EXECUTION_UNKNOWN"} : Observe(p, state, now)
    \/ ObserveAgain(p, now)
    \/ InsertRestore(p, now) \/ BeginRestore(p, now) \/ CompleteRestore(p, now)

Next ==
    \/ \E s \in Sessions : RegisterSession(s)
    \/ \E s \in Sessions, at \in Times : Revoke(s, at)
    \/ \E p \in Proposals, now \in Times : Write(p, now)
    \/ \E s \in Sessions, m, n \in 1..PageLimit : FirstPage(s, m, n)
    \/ \E m, n \in 1..PageLimit : NextPage(m, n)
    \/ Changed \/ Refused

Spec == Init /\ [][Next]_vars

-----------------------------------------------------------------------------
(* Properties *)

\* "Activity in another session does not invalidate the page sequence", and any
\* change of this one does (README of the crate; ledger.rs, the triggers
\* session_audit_revision_*): while an export runs, the session's revision is
\* the first page's exactly as long as its rows are.
RevisionIdentifiesHistory ==
    reader.pc = "reading" =>
        (revision[reader.s] = reader.revision <=> Rows(reader.s) = reader.rows)

\* "instead of merging two different histories" (README of the crate): an
\* export that ends has every event of the one history its first page was
\* taken from, and no check of the Desktop ever finds pages that disagree,
\* wherever the byte budgets cut them and whoever writes in between.
ExportIsOneHistory ==
    /\ reader.pc # "INCONSISTENT"
    /\ reader.pc = "done" => reader.whole

\* The runtime does not lock itself out of its own history: what the
\* transactions commit about decisions, attempts and restores passes the
\* verification the audit repeats (audit.rs verify_action_approval,
\* verify_attempt, verify_delete_recovery_attempt).
WrittenIsReadable ==
    \A s \in approved : \A e \in Events(s) : e.kind # "ACTION_DENIED" => Verifies(e)

\* "The response projects session approval and revocation, action decisions,
\* starts, outcomes, denials, and file restores from SQLite" (README of the
\* crate): a recorded denial can be read.
DenialsAreReadable ==
    \A s \in approved : \A e \in Events(s) : e.kind = "ACTION_DENIED" => Verifies(e)
=============================================================================
