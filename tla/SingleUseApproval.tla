-------------------------- MODULE SingleUseApproval -------------------------
(***************************************************************************)
(* What a registry of remote approvals promises, without databases, tokens *)
(* or clocks: an approval that was opened is answered or withdrawn, never  *)
(* both, an answer uses up the provider event it came with, and every      *)
(* opening of an approval gives its caller at most one piece of evidence.  *)
(* A record may be forgotten; an approval opened again is a new opening.   *)
(***************************************************************************)
EXTENDS Naturals

CONSTANTS
    Approvals,   \* approval identifiers
    Events,      \* identifiers the provider gives its callbacks
    None         \* no event

VARIABLES
    status,      \* approval -> what the registry knows of it
    event,       \* approval -> the event its answer used up
    openings,    \* approval -> how many times it was opened
    pending,     \* answers taken whose evidence was not handed out yet
    evidence     \* evidence handed out

vars == <<status, event, openings, pending, evidence>>

Answer(a, e) == [approval |-> a, opening |-> openings[a], event |-> e]

Init ==
    /\ status = [a \in Approvals |-> "unknown"]
    /\ event = [a \in Approvals |-> None]
    /\ openings = [a \in Approvals |-> 0]
    /\ pending = {}
    /\ evidence = {}

Open(a) ==
    /\ status[a] = "unknown"
    /\ status' = [status EXCEPT ![a] = "open"]
    /\ openings' = [openings EXCEPT ![a] = openings[a] + 1]
    /\ UNCHANGED <<event, pending, evidence>>

Withdraw(a) ==
    /\ status[a] = "open"
    /\ status' = [status EXCEPT ![a] = "withdrawn"]
    /\ UNCHANGED <<event, openings, pending, evidence>>

Decide(a, e) ==
    /\ status[a] = "open"
    /\ \A b \in Approvals : event[b] # e
    /\ status' = [status EXCEPT ![a] = "decided"]
    /\ event' = [event EXCEPT ![a] = e]
    /\ pending' = pending \cup {Answer(a, e)}
    /\ UNCHANGED <<openings, evidence>>

HandOut(x) ==
    /\ x \in pending
    /\ pending' = pending \ {x}
    /\ evidence' = evidence \cup {x}
    /\ UNCHANGED <<status, event, openings>>

Lose(x) ==
    /\ x \in pending
    /\ pending' = pending \ {x}
    /\ UNCHANGED <<status, event, openings, evidence>>

\* Records are forgotten together, as one cleanup finds them.
Forget(A) ==
    /\ status' = [a \in Approvals |-> IF a \in A THEN "unknown" ELSE status[a]]
    /\ event' = [a \in Approvals |-> IF a \in A THEN None ELSE event[a]]
    /\ UNCHANGED <<openings, pending, evidence>>

Next ==
    \/ \E a \in Approvals : Open(a) \/ Withdraw(a)
    \/ \E a \in Approvals, e \in Events : Decide(a, e)
    \/ \E x \in pending : HandOut(x) \/ Lose(x)
    \/ \E A \in SUBSET Approvals : Forget(A)

Spec == Init /\ [][Next]_vars
=============================================================================
