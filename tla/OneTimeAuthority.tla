-------------------------- MODULE OneTimeAuthority --------------------------
(***************************************************************************)
(* What the agent runtime promises about the authority it is given,        *)
(* without threads, barriers, clocks, prestates or crashes.  A tool call   *)
(* is decided once, while its session is open.  An affirmative decision is *)
(* used up by the one record it pays for, a tool call has one record, and  *)
(* a record allows one effect, begun while the session is open.  A record  *)
(* is concluded once, and as a success only after the effect when the      *)
(* effect can be told from somebody else's.                                *)
(***************************************************************************)
EXTENDS Naturals

CONSTANTS
    Sessions, Proposals,
    SessionOf,   \* the session of a proposal
    CallOf,      \* the tool call it answers
    Exempt,      \* proposals that need no decision
    Telling      \* proposals whose effect cannot be mistaken

VARIABLES
    authority,   \* proposal -> the decision the runtime holds for it
    record,      \* proposal -> the record of its execution
    effects,     \* proposal -> how often its effect was begun
    closed       \* sessions that were revoked

vars == <<authority, record, effects, closed>>

Open(p) == SessionOf[p] \notin closed

\* No proposal for the same tool call is past "NONE" in the table.
Untouched(table, p) == \A q \in Proposals : CallOf[q] = CallOf[p] => table[q] = "NONE"

Init ==
    /\ authority = [p \in Proposals |-> "NONE"]
    /\ record = [p \in Proposals |-> "NONE"]
    /\ effects = [p \in Proposals |-> 0]
    /\ closed = {}

Decide(p, d) ==
    /\ Open(p)
    /\ Untouched(authority, p)
    /\ authority' = [authority EXCEPT ![p] = d]
    /\ UNCHANGED <<record, effects, closed>>

\* The decision is used up without a record: it was a refusal, or came too late.
Forfeit(p) ==
    /\ Open(p)
    /\ authority[p] \in {"APPROVED", "DENIED"}
    /\ authority' = [authority EXCEPT ![p] = "SPENT"]
    /\ UNCHANGED <<record, effects, closed>>

Grant(p) ==
    /\ Open(p)
    /\ Untouched(record, p)
    /\ \/ p \in Exempt /\ UNCHANGED authority
       \/ authority[p] = "APPROVED" /\ authority' = [authority EXCEPT ![p] = "SPENT"]
    /\ record' = [record EXCEPT ![p] = "IN_FLIGHT"]
    /\ UNCHANGED <<effects, closed>>

\* The effect may be late: its record may have been concluded as unknown.
Begin(p) ==
    /\ Open(p)
    /\ record[p] # "NONE" /\ effects[p] = 0
    /\ effects' = [effects EXCEPT ![p] = 1]
    /\ UNCHANGED <<authority, record, closed>>

Conclude(p, r) ==
    /\ record[p] = "IN_FLIGHT"
    /\ r = "SUCCEEDED" /\ p \in Telling => effects[p] = 1
    /\ record' = [record EXCEPT ![p] = r]
    /\ UNCHANGED <<authority, effects, closed>>

Close(s) ==
    /\ s \notin closed
    /\ closed' = closed \cup {s}
    /\ UNCHANGED <<authority, record, effects>>

Next ==
    \/ \E p \in Proposals :
         \/ Forfeit(p) \/ Grant(p) \/ Begin(p)
         \/ \E d \in {"APPROVED", "DENIED"} : Decide(p, d)
         \/ \E r \in {"SUCCEEDED", "EXECUTION_UNKNOWN"} : Conclude(p, r)
    \/ \E s \in Sessions : Close(s)

Spec == Init /\ [][Next]_vars
=============================================================================
