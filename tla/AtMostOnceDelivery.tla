------------------------- MODULE AtMostOnceDelivery -------------------------
(***************************************************************************)
(* What a delivery outbox promises, without leases, tokens, attempts or    *)
(* clocks.  A waiting message is taken by one carrier, which hands it to   *)
(* the provider at most once and may vanish instead.  A taken message goes *)
(* back to waiting, or is reported as failed, only when the provider did   *)
(* not accept it and nobody carries it any more; it is reported as         *)
(* delivered only when the provider did; whoever does not know reports     *)
(* doubt, and a message in doubt is never taken again.                     *)
(***************************************************************************)
EXTENDS Naturals

CONSTANT Messages

VARIABLES
    status,      \* message -> what the outbox says of it
    carried,     \* messages somebody may still hand over
    sent         \* message -> how often the provider accepted it

vars == <<status, carried, sent>>

Final == {"delivered", "failed", "doubt"}

Init ==
    /\ status = [m \in Messages |-> "new"]
    /\ carried = {}
    /\ sent = [m \in Messages |-> 0]

Post(m) ==
    /\ status[m] = "new"
    /\ status' = [status EXCEPT ![m] = "waiting"]
    /\ UNCHANGED <<carried, sent>>

Take(m) ==
    /\ status[m] = "waiting"
    /\ m \notin carried /\ sent[m] = 0
    /\ status' = [status EXCEPT ![m] = "taken"]
    /\ carried' = carried \cup {m}
    /\ UNCHANGED sent

\* The carrier may be late: the message may be in doubt or forgotten by now.
HandOver(m) ==
    /\ m \in carried
    /\ carried' = carried \ {m}
    /\ sent' = [sent EXCEPT ![m] = sent[m] + 1]
    /\ UNCHANGED status

PutDown(m) ==
    /\ m \in carried
    /\ carried' = carried \ {m}
    /\ UNCHANGED <<status, sent>>

Report(m, s) ==
    /\ status[m] = "taken"
    /\ s # "doubt" => m \notin carried
    /\ s = "delivered" => sent[m] = 1
    /\ s \in {"waiting", "failed"} => sent[m] = 0
    /\ status' = [status EXCEPT ![m] = s]
    /\ UNCHANGED <<carried, sent>>

\* Final messages are forgotten together, as one cleanup finds them.
Forget(S) ==
    /\ \A m \in S : status[m] \in Final
    /\ status' = [m \in Messages |-> IF m \in S THEN "forgotten" ELSE status[m]]
    /\ UNCHANGED <<carried, sent>>

Next ==
    \/ \E m \in Messages :
         \/ Post(m) \/ Take(m) \/ HandOver(m) \/ PutDown(m)
         \/ \E s \in Final \cup {"waiting"} : Report(m, s)
    \/ \E S \in SUBSET Messages : Forget(S)

Spec == Init /\ [][Next]_vars
=============================================================================
