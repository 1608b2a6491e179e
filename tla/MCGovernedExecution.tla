------------------------ MODULE MCGovernedExecution ------------------------
(***************************************************************************)
(* Instances of GovernedExecution for TLC: mutations of one file, a        *)
(* command and a read, and the environment's budgets.                      *)
(***************************************************************************)
EXTENDS GovernedExecution, TLC

CONSTANTS t1, t2, s1, s2, w1, w2, d1, e1, r1, c1, f1, f2, g1, c0

\* The shared target: every mutation binds f1; a command binds g1.
MCSessionOf == [p \in Proposals |-> s1]
MCCallOf == [p \in Proposals |-> p]
\* A planner that reuses one tool call identifier for everything it proposes.
MCCallOfShared == [p \in Proposals |-> s1]
\* One that reuses it for a read and the mutations, a command has its own.
MCCallOfRead == [p \in Proposals |-> IF p \in Commands THEN p ELSE s1]
MCFileOf == [p \in Proposals |-> IF p \in Commands THEN g1 ELSE f1]

\* A write or an edit leaves content named after it, a delete nothing.
MCResult == [p \in Mutations |-> [c \in States |-> IF p \in Deletes THEN Absent ELSE p]]
MCContents == {c0} \cup (Mutations \ Deletes)

Symmetry == Permutations(Threads)
=============================================================================
