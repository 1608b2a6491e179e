--------------------------- MODULE MCRunnerEngine ---------------------------
(***************************************************************************)
(* Instances of RunnerEngine.                                              *)
(***************************************************************************)
EXTENDS RunnerEngine, TLC

CONSTANTS c1, c2, r1, r2, obs, dep1, dep2, app

\* Two calls in two processes.
MCCalls == {c1, c2}
MCRunners == {r1, r2}
MCRunnerOf == (c1 :> r1) @@ (c2 :> r2)

\* One observation and two deployments that carry one approval; the first
\* deployment's dispatch ends before the approval does.
MCDispatches == {obs, dep1, dep2}
MCApprovals == {app}
MCApprovalOf == (obs :> None) @@ (dep1 :> app) @@ (dep2 :> app)
MCDeploys == {dep1, dep2}
MCCreated == (obs :> 0) @@ (dep1 :> 0) @@ (dep2 :> 1) @@ (app :> 0)
MCExpiry == (obs :> 1) @@ (dep1 :> 1) @@ (dep2 :> 2) @@ (app :> 2)
=============================================================================
