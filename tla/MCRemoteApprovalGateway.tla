---------------------- MODULE MCRemoteApprovalGateway -----------------------
(***************************************************************************)
(* An instance of RemoteApprovalGateway for TLC: an action challenge, the  *)
(* same challenge signed again with a later expiry, and a task challenge;  *)
(* an enrollment of each recipient; two answers to the first               *)
(* challenge and one to the task challenge that repeats the first event.   *)
(***************************************************************************)
EXTENDS RemoteApprovalGateway, TLC

CONSTANTS i1, i2, t1, t2, a1, a2, u1, u2, v1, v2

Slack == [channel |-> "Slack", tenant |-> a1]
Teams == [channel |-> "MicrosoftTeams", tenant |-> a1]

Challenge(i, t, a, r, from, to, subject, allowed) ==
    [id |-> i, token |-> t, recipient |-> a, route |-> r, issued |-> from,
     expires |-> to, subject |-> subject, allowed |-> allowed]

Enrollment(a, u, r, from, to) ==
    [approver |-> a, user |-> u, route |-> r, from |-> from, until |-> to]

Delivery(n, r, u, t, d, e, sent, until) ==
    [n |-> n, route |-> r, user |-> u, token |-> t, decision |-> d, event |-> e,
     sent |-> sent, until |-> until]

MCSigned ==
    {Challenge(i1, t1, a1, Slack, 0, 1, "Action", {"AllowOnce", "DenyAction"}),
     Challenge(i1, t1, a1, Slack, 0, 2, "Action", {"AllowOnce"}),
     Challenge(i2, t2, a2, Teams, 0, 2, "Task", {"StopTask"})}

MCEnrollments ==
    {Enrollment(a1, u1, Slack, 0, 2),
     Enrollment(a2, u2, Teams, 0, 3)}

MCCallbacks ==
    {Delivery(1, Slack, u1, t1, "AllowOnce", v1, 0, 0),
     Delivery(2, Slack, u1, t1, "DenyAction", v2, 1, 0),
     Delivery(3, Teams, u2, t2, "StopTask", v1, 0, 2)}
=============================================================================
