--------------------------- MODULE MCSessionAudit ---------------------------
(***************************************************************************)
(* Instances of SessionAudit for TLC.  Proposal 1 is a delete and 2 a read *)
(* that the task policy preauthorizes, of one tool call of session s1; 3   *)
(* is a read of s2 that the policy leaves to review.                       *)
(***************************************************************************)
EXTENDS SessionAudit

CONSTANTS s1, s2

MCSessionOf == [p \in Proposals |-> IF p = 3 THEN s2 ELSE s1]
MCCallOf == [p \in Proposals |-> IF p = 3 THEN 3 ELSE 1]
MCVerdict == [p \in Proposals |-> "CONFORMING"]
=============================================================================
