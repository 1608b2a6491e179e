---------------------------- MODULE FileRestore ----------------------------
(***************************************************************************)
(* Restoring deleted files (crate accordlock-agent-runtime: recovery.rs,   *)
(* the file_restores table of ledger.rs, restore_deleted_file of           *)
(* filesystem.rs).                                                         *)
(*                                                                         *)
(* A recovery is a delete that GovernedExecution recorded as SUCCEEDED:    *)
(* the original content lies in the recovery store and its target may have *)
(* been written again since.  The Desktop first prepares a restore, which  *)
(* stores a challenge, and commits it by returning the challenge.  Both    *)
(* run in the control thread and hold the write side of the execution      *)
(* barrier; a commit is nevertheless several durable steps, and the        *)
(* process may crash, and other programs write, between any two of them.   *)
(***************************************************************************)
EXTENDS Naturals

CONSTANTS
    Recoveries,     \* authorization identifiers of succeeded deletes
    Targets,        \* paths they deleted
    Target,         \* Target[r]: the path of r
    Contents,       \* file contents
    Original,       \* Original[r]: the content that r moved aside
    Absent, Torn,   \* no such file; a partly written file
    None,           \* no recovery
    ClockMayStepBack,
    MaxClock, MaxCrashes, MaxExternal, MaxBrokered   \* bounds on the environment

States == Contents \cup {Absent, Torn}

ASSUME RecoveriesAssumption ==
    /\ Target \in [Recoveries -> Targets] /\ Original \in [Recoveries -> Contents]
    /\ Absent \notin Contents /\ Torn \notin Contents /\ Absent # Torn
    /\ None \notin Recoveries /\ None \notin Nat

ASSUME BoundsAssumption == {MaxClock, MaxCrashes, MaxExternal, MaxBrokered} \subseteq Nat

VARIABLES
    clock,      \* the system clock
    clockHigh,  \* runtime_meta.clock_high_water
    row,        \* file_restores, one row per recovery
    told,       \* recoveries whose challenge was returned to the Desktop
    target,     \* the workspace
    blob,       \* the recovery store
    ctl,        \* the control thread
    used        \* environment steps taken so far

vars == <<clock, clockHigh, row, told, target, blob, ctl, used>>

RowStates == {"NONE", "PREPARED", "IN_FLIGHT", "SUCCEEDED"}
PCs == {"idle", "prepare", "insert", "commit", "begin", "restore", "create", "copying",
        "verify", "complete"}
Findings == {"available", "copied", "restored", "stale", "mismatch", "unavailable"}

Row == [state : RowStates, preparedAt : Nat, completedAt : Nat]
Control == [pc : PCs, r : Recoveries \cup {None}, now : Nat, want : Findings \cup {"none"}]
Budget == [crashes : Nat, external : Nat, brokered : Nat]

TypeOK ==
    /\ clock \in Nat /\ clockHigh \in Nat
    /\ row \in [Recoveries -> Row]
    /\ told \subseteq Recoveries
    /\ target \in [Targets -> States]
    /\ blob \in [Recoveries -> States]
    /\ ctl \in Control
    /\ used \in Budget

IdleControl == [pc |-> "idle", r |-> None, now |-> 0, want |-> "none"]

Init ==
    /\ clock = 0 /\ clockHigh = 0
    /\ row = [r \in Recoveries |-> [state |-> "NONE", preparedAt |-> 0, completedAt |-> 0]]
    /\ told = {}
    /\ target \in [Targets -> Contents \cup {Absent}]
    /\ blob = Original
    /\ ctl = IdleControl
    /\ used = [crashes |-> 0, external |-> 0, brokered |-> 0]

-----------------------------------------------------------------------------
(* Helpers *)

\* delete_recovery_state: where the original content of r is now.
Inspect(r) ==
    LET b == blob[r]
        c == target[Target[r]]
        genuine(x, finding) == IF x = Original[r] THEN finding ELSE "mismatch"
    IN CASE b # Absent /\ c = Absent -> genuine(b, "available")
         [] b # Absent /\ c = b -> genuine(b, "copied")
         [] b = Absent /\ c # Absent -> genuine(c, "restored")
         [] b = Absent /\ c = Absent -> "unavailable"
         [] OTHER -> "stale"

IsRestored(r) == Inspect(r) \in {"copied", "restored"}

\* Mutant: the recovery scope excludes nobody.
ScopeUnheld == FALSE

\* The control thread is inside its operation and holds the write barrier.
\* It takes the barrier in the step that leaves "prepare" or "commit".
InScope == ctl.pc \notin {"idle", "prepare", "commit"}

Goto(pc) == ctl' = [pc |-> pc, r |-> ctl.r, now |-> ctl.now, want |-> ctl.want]

\* The operation is answered, by an acknowledgement or by an error.
Return == ctl' = IdleControl

-----------------------------------------------------------------------------
(* Prepare *)

\* control.rs samples the time before the barrier is taken.
RequestPrepare(r) ==
    /\ ctl.pc = "idle"
    /\ ctl' = [pc |-> "prepare", r |-> r, now |-> clock, want |-> "none"]
    /\ UNCHANGED <<clock, clockHigh, row, told, target, blob, used>>

\* The stored challenge is returned again while it still fits; a first
\* preparation needs the content in the store and the target missing.
Prepare ==
    LET r == ctl.r IN
    /\ ctl.pc = "prepare"
    /\ \/ /\ row[r].state = "NONE" /\ Inspect(r) = "available"
          /\ Goto("insert")
          /\ UNCHANGED told
       \/ /\ row[r].state \in {"PREPARED", "IN_FLIGHT"}
          /\ Inspect(r) = "available" \/ IsRestored(r)
          /\ told' = told \cup {r}
          /\ Return
       \/ /\ \/ row[r].state = "NONE" /\ Inspect(r) # "available"
             \/ row[r].state \in {"PREPARED", "IN_FLIGHT"}
                  /\ ~(Inspect(r) = "available" \/ IsRestored(r))
             \/ row[r].state = "SUCCEEDED"
          /\ Return
          /\ UNCHANGED told
    /\ UNCHANGED <<clock, clockHigh, row, target, blob, used>>

\* Mutant: the preparation time is not stored.
PreparedUntimed(now) == [state |-> "PREPARED", preparedAt |-> None, completedAt |-> 0]

Prepared(now) == [state |-> "PREPARED", preparedAt |-> now, completedAt |-> 0]

\* Mutant: a preparation that does not raise the clock mark.
InsertUnclocked ==
    /\ ctl.pc = "insert"
    /\ row' = [row EXCEPT ![ctl.r] = Prepared(ctl.now)]
    /\ told' = told \cup {ctl.r}
    /\ Return
    /\ UNCHANGED <<clock, clockHigh, target, blob, used>>

\* insert_file_restore.
Insert ==
    /\ ctl.pc = "insert"
    /\ \/ /\ ctl.now >= clockHigh
          /\ clockHigh' = ctl.now
          /\ row' = [row EXCEPT ![ctl.r] = Prepared(ctl.now)]
          /\ told' = told \cup {ctl.r}
       \/ /\ ctl.now < clockHigh
          /\ UNCHANGED <<clockHigh, row, told>>
    /\ Return
    /\ UNCHANGED <<clock, target, blob, used>>

-----------------------------------------------------------------------------
(* Commit *)

RequestCommit(r) ==
    /\ ctl.pc = "idle"
    /\ r \in told
    /\ ctl' = [pc |-> "commit", r |-> r, now |-> clock, want |-> "none"]
    /\ UNCHANGED <<clock, clockHigh, row, told, target, blob, used>>

\* Mutant: a restore in flight is refused as stale.
CommitWithoutResume ==
    LET r == ctl.r IN
    /\ ctl.pc = "commit"
    /\ IF row[r].state = "PREPARED" /\ Inspect(r) = "available" THEN Goto("begin") ELSE Return
    /\ UNCHANGED <<clock, clockHigh, row, told, target, blob, used>>

\* A committed restore is only acknowledged again.  A prepared one must still
\* find its content in the store and nothing at the target; one in flight
\* continues where a crash or an error left it.
Commit ==
    LET r == ctl.r IN
    /\ ctl.pc = "commit"
    /\ \/ row[r].state = "PREPARED" /\ Inspect(r) = "available" /\ Goto("begin")
       \/ row[r].state = "IN_FLIGHT" /\ Goto("restore")
       \/ row[r].state = "PREPARED" /\ Inspect(r) # "available" /\ Return
       \/ row[r].state = "SUCCEEDED" /\ Return
    /\ UNCHANGED <<clock, clockHigh, row, told, target, blob, used>>

\* begin_file_restore.
Begin ==
    LET r == ctl.r IN
    /\ ctl.pc = "begin"
    /\ \/ /\ ctl.now >= clockHigh
          /\ clockHigh' = ctl.now
          /\ row' = [row EXCEPT ![r] = [state |-> "IN_FLIGHT", preparedAt |-> row[r].preparedAt,
                                         completedAt |-> 0]]
          /\ Goto("restore")
       \/ /\ ctl.now < clockHigh
          /\ Return
          /\ UNCHANGED <<clockHigh, row>>
    /\ UNCHANGED <<clock, told, target, blob, used>>

\* restore_deleted_file: a content already in place is only verified again.
Restore ==
    LET found == Inspect(ctl.r) IN
    /\ ctl.pc = "restore"
    /\ CASE found = "available" -> Goto("create")
         [] found \in {"copied", "restored"} ->
              ctl' = [pc |-> "verify", r |-> ctl.r, now |-> ctl.now, want |-> found]
         [] OTHER -> Return
    /\ UNCHANGED <<clock, clockHigh, row, told, target, blob, used>>

\* Mutant: the target is opened for writing and truncated.
CreateOrTruncate ==
    /\ ctl.pc = "create"
    /\ target' = [target EXCEPT ![Target[ctl.r]] = Torn]
    /\ Goto("copying")
    /\ UNCHANGED <<clock, clockHigh, row, told, blob, used>>

\* The source is read and checked again; create_new fails when the target exists.
Create ==
    LET r == ctl.r IN
    /\ ctl.pc = "create"
    /\ \/ /\ blob[r] = Original[r] /\ target[Target[r]] = Absent
          /\ target' = [target EXCEPT ![Target[r]] = Torn]
          /\ Goto("copying")
       \/ /\ blob[r] # Original[r] \/ target[Target[r]] # Absent
          /\ Return
          /\ UNCHANGED target
    /\ UNCHANGED <<clock, clockHigh, row, told, blob, used>>

\* write_all, set_len, sync_all and the check of the written handle.  When
\* another program replaced the new file, the handle no longer is the target;
\* when it wrote into the file, the copy may still overwrite that.  An I/O
\* error or a mismatch leaves what is there.
Copy ==
    LET r == ctl.r IN
    /\ ctl.pc = "copying"
    /\ \/ /\ target[Target[r]] # Absent
          /\ target' = [target EXCEPT ![Target[r]] = Original[r]]
       \/ /\ target[Target[r]] # Torn
          /\ UNCHANGED target
    /\ ctl' = [pc |-> "verify", r |-> r, now |-> ctl.now, want |-> "copied"]
    /\ UNCHANGED <<clock, clockHigh, row, told, blob, used>>

CopyFails ==
    /\ ctl.pc = "copying"
    /\ Return
    /\ UNCHANGED <<clock, clockHigh, row, told, target, blob, used>>

\* The final inspection must find what the restore left.  When the file or its
\* directory cannot be synchronised the operation ends with an error and changes
\* nothing; that is the same step as Crash in this state.
Verify ==
    /\ ctl.pc = "verify"
    /\ IF Inspect(ctl.r) = ctl.want THEN Goto("complete") ELSE Return
    /\ UNCHANGED <<clock, clockHigh, row, told, target, blob, used>>

\* complete_file_restore.
Complete ==
    LET r == ctl.r IN
    /\ ctl.pc = "complete"
    /\ \/ /\ ctl.now >= clockHigh
          /\ row[r].state = "IN_FLIGHT"
          /\ clockHigh' = ctl.now
          /\ row' = [row EXCEPT ![r] = [state |-> "SUCCEEDED", preparedAt |-> row[r].preparedAt,
                                         completedAt |-> ctl.now]]
       \/ /\ ctl.now < clockHigh \/ row[r].state # "IN_FLIGHT"
          /\ UNCHANGED <<clockHigh, row>>
    /\ Return
    /\ UNCHANGED <<clock, told, target, blob, used>>

-----------------------------------------------------------------------------
(* Environment *)

SetClock(c) ==
    /\ c > clock \/ (ClockMayStepBack /\ c < clock)
    /\ clock' = c
    /\ UNCHANGED <<clockHigh, row, told, target, blob, ctl, used>>

\* A brokered execution (GovernedExecution): it needs the read side of the
\* barrier, raises the clock mark and may write the target.
Brokered(f, c, at) ==
    /\ ~InScope
    /\ used.brokered < MaxBrokered
    /\ clockHigh <= at /\ at <= clock
    /\ clockHigh' = at
    /\ target' = [target EXCEPT ![f] = c]
    /\ used' = [used EXCEPT !.brokered = @ + 1]
    /\ UNCHANGED <<clock, row, told, blob, ctl>>

\* Other programs write to the workspace, the recovery store included.
ExternalTarget(f, c) ==
    /\ used.external < MaxExternal
    /\ target[f] # c
    /\ target' = [target EXCEPT ![f] = c]
    /\ used' = [used EXCEPT !.external = @ + 1]
    /\ UNCHANGED <<clock, clockHigh, row, told, blob, ctl>>

ExternalBlob(r, c) ==
    /\ used.external < MaxExternal
    /\ blob[r] # c
    /\ blob' = [blob EXCEPT ![r] = c]
    /\ used' = [used EXCEPT !.external = @ + 1]
    /\ UNCHANGED <<clock, clockHigh, row, told, target, ctl>>

Crash ==
    /\ used.crashes < MaxCrashes
    /\ ctl.pc # "idle"
    /\ ctl' = IdleControl
    /\ used' = [used EXCEPT !.crashes = @ + 1]
    /\ UNCHANGED <<clock, clockHigh, row, told, target, blob>>

-----------------------------------------------------------------------------

Work ==
    \/ Prepare \/ Insert \/ Commit \/ Begin \/ Restore \/ Create \/ Copy \/ CopyFails
    \/ Verify \/ Complete

Next ==
    \/ \E r \in Recoveries : RequestPrepare(r) \/ RequestCommit(r)
    \/ Work
    \/ \E c \in 0..MaxClock : SetClock(c)
    \/ \E f \in Targets, c \in Contents \cup {Absent}, at \in 0..MaxClock : Brokered(f, c, at)
    \/ \E f \in Targets, c \in Contents \cup {Absent} : ExternalTarget(f, c)
    \/ \E r \in Recoveries, c \in Contents \cup {Absent} : ExternalBlob(r, c)
    \/ Crash

Spec == Init /\ [][Next]_vars

\* The control thread keeps running.
FairSpec == Spec /\ WF_vars(Work)

-----------------------------------------------------------------------------
(* Properties *)

\* A restore never overwrites a file (test restore_never_overwrites_a_recreated_target):
\* what a control step writes is a file that was missing when it was created.
RestoreNeverOverwrites ==
    [][\A f \in Targets :
          Work /\ ctl.pc # "copying" /\ target'[f] # target[f] => target[f] = Absent]_vars

\* A restore is recorded only while its content is at the target, however many
\* crashes, errors and retries preceded it and whatever brokered executions do:
\* the barrier covers verification and record (recovery.rs commit_file_restore).
\* Other programs do not take the barrier, so it is claimed until one writes.
RecordsWhatIsThere ==
    [][\A r \in Recoveries :
          used.external = 0 /\ row[r].state # "SUCCEEDED" /\ row'[r].state = "SUCCEEDED"
          => target[Target[r]] = Original[r]]_vars

\* A committed row satisfies record_matches_challenge, which every later read
\* of it demands: completed_at is not before prepared_at, though the system
\* clock may have been set back between the two (ledger.rs observe_clock).
RecordsAreReadable ==
    \A r \in Recoveries : row[r].state = "SUCCEEDED" => row[r].completedAt >= row[r].preparedAt

\* A user who keeps committing a restore that is in flight, with a clock not
\* behind what the ledger has seen, gets it recorded,
\* whatever crash or error interrupted it, unless the stored content was lost
\* or another file stays at the target for good; the torn file of an interrupted copy is such a file
\* (recovery.rs commit_file_restore, filesystem.rs restore_deleted_file).
RestoreCompletes ==
    \A r \in Recoveries :
        []<>(ctl.pc = "commit" /\ ctl.r = r /\ ctl.now >= clockHigh) =>
            (row[r].state = "IN_FLIGHT"
               ~> \/ row[r].state = "SUCCEEDED"
                  \/ [](target[Target[r]] \notin {Absent, Original[r]})
                  \/ [](blob[r] # Original[r]))
=============================================================================
