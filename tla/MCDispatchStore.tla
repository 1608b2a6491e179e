--------------------------- MODULE MCDispatchStore ---------------------------
(* Instances of DispatchStore for TLC. *)
EXTENDS DispatchStore, TLC

CONSTANTS r1, q1, q2, u1, u2

\* Two authorizations compete for one physical resource.
MCResourceOf == [a \in Authorizations |-> r1]

\* Bound: only the first authorization's worker touches the cluster; the
\* second one waits in the queue for the resource, takes it or is disposed of.
OneBrokered == Phase(2, "Create") = "None"

Symmetry == Permutations(Acquisitions) \cup Permutations(Requests)
=============================================================================
