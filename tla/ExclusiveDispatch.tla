-------------------------- MODULE ExclusiveDispatch --------------------------
(***************************************************************************)
(* What the durable dispatch state promises, without leases, journals,     *)
(* recovery or clocks: an authorization holds its physical resource alone  *)
(* and at most once; only a holder gets a credential, at most one, and     *)
(* only a holder with a credential changes the resource, at most once; it  *)
(* gives the resource up only when its credential no longer works.         *)
(***************************************************************************)
EXTENDS Naturals

CONSTANTS Authorizations, Resources, ResourceOf, Requests, None

VARIABLES
    holder,      \* who holds a resource
    ended,       \* authorizations that will never hold again
    credential,  \* the credential of an authorization
    effect       \* the requests carried out for it

vars == <<holder, ended, credential, effect>>

Holds(a) == holder[ResourceOf[a]] = a

Init ==
    /\ holder = [r \in Resources |-> None]
    /\ ended = {}
    /\ credential = [a \in Authorizations |-> "none"]
    /\ effect = [a \in Authorizations |-> {}]

Take(a) ==
    /\ a \notin ended
    /\ holder[ResourceOf[a]] = None
    /\ holder' = [holder EXCEPT ![ResourceOf[a]] = a]
    /\ UNCHANGED <<ended, credential, effect>>

Empower(a) ==
    /\ Holds(a)
    /\ credential[a] = "none"
    /\ credential' = [credential EXCEPT ![a] = "live"]
    /\ UNCHANGED <<holder, ended, effect>>

Expire(a) ==
    /\ credential[a] = "live"
    /\ credential' = [credential EXCEPT ![a] = "dead"]
    /\ UNCHANGED <<holder, ended, effect>>

CarryOut(a, u) ==
    /\ Holds(a)
    /\ credential[a] # "none"
    /\ effect[a] = {}
    /\ effect' = [effect EXCEPT ![a] = {u}]
    /\ UNCHANGED <<holder, ended, credential>>

Yield(a) ==
    /\ Holds(a)
    /\ credential[a] # "live"
    /\ holder' = [holder EXCEPT ![ResourceOf[a]] = None]
    /\ ended' = ended \cup {a}
    /\ UNCHANGED <<credential, effect>>

\* It leaves without ever having held the resource.
Abandon(a) ==
    /\ a \notin ended /\ ~Holds(a)
    /\ ended' = ended \cup {a}
    /\ UNCHANGED <<holder, credential, effect>>

Next ==
    \E a \in Authorizations :
        \/ Take(a) \/ Empower(a) \/ Expire(a) \/ Yield(a) \/ Abandon(a)
        \/ \E u \in Requests : CarryOut(a, u)

Spec == Init /\ [][Next]_vars
=============================================================================
