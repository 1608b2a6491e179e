------------------------- MODULE RunnerEngineProofs -------------------------
(***************************************************************************)
(* Theorems about RunnerEngine.                                            *)
(*                                                                         *)
(* A step of a call is one of six moves (Moves): it keeps what it holds,   *)
(* takes a key, commits one of two, commits the last, releases its only    *)
(* one, or loses keys to an unavailable store.  The invariant is about     *)
(* what calls hold and what rows say, so it is examined once per move and  *)
(* not once per action.                                                    *)
(***************************************************************************)
EXTENDS RunnerEngine, FiniteSetTheorems, TLAPS

\* Observations alone wait for the providers.
Shape == \A c \in Calls : call[c].pc \in {"collected", "failed"} => call[c].d \notin Deploys

TypeInv == TypeOK /\ Shape

\* A call that has an approval has exactly one.
LEMMA ApprovalsOfDispatch ==
    ASSUME NEW d \in Dispatches
    PROVE  /\ ApprovalsOf(d) \subseteq Approvals
           /\ \A a, b \in ApprovalsOf(d) : a = b
           /\ d \notin ApprovalsOf(d)
           /\ d \notin Deploys => ApprovalsOf(d) = {}
BY KeysAssumption DEF ApprovalsOf, Approval, Keys

-----------------------------------------------------------------------------
(* Types *)

LEMMA RowTypes ==
    ASSUME NEW c \in Calls, NEW k \in Keys, row \in [Keys -> Row],
           Reserve(c, k) \/ Commit(c, k) \/ Release(c, k) \/ UNCHANGED row
    PROVE  row' \in [Keys -> Row]
<1>1. Absent \in Row
  BY DEF Absent, Row
<1>2. [state |-> "PENDING", id |-> c] \in Row /\ [state |-> "COMMITTED", id |-> c] \in Row
  BY DEF Row
<1>3. Pruned(k) \in [Keys -> Row]
  BY <1>1 DEF Pruned
<1> HIDE DEF Pruned, Row, Absent
<1>4. QED
  BY <1>1, <1>2, <1>3 DEF Reserve, Commit, Release

\* A call moves within its dispatch, or returns.
Along(c, pcs) ==
    \/ Return(c)
    \/ \E pc \in pcs : Move(c, pc)

LEMMA AlongTypes ==
    ASSUME TypeInv, NEW c \in Calls, NEW pcs, call[c].pc # "idle", up' = up, Along(c, pcs),
           pcs \subseteq PCs \ {"idle"},
           pcs \cap {"collected", "failed"} # {} => call[c].d \notin Deploys
    PROVE  /\ call' \in [Calls -> [pc : PCs, d : Dispatches \cup {None}, now : Nat]]
           /\ \A x \in Calls : IF call'[x].pc = "idle" THEN call'[x] = Idle
                               ELSE call'[x].d \in Dispatches /\ RunnerOf[x] \in up'
           /\ Shape'
<1> DEFINE Rec == [pc : PCs, d : Dispatches \cup {None}, now : Nat]
<1>1. Idle \in Rec /\ Idle.pc = "idle"
  BY DEF Idle, PCs
<1>2. call \in [Calls -> Rec]
  BY DEF TypeInv, TypeOK
<1>3. CASE Return(c)
  BY <1>1, <1>2, <1>3 DEF TypeInv, TypeOK, Shape, Return
<1>4. CASE \E pc \in pcs : Move(c, pc)
  <2>1. PICK pc \in pcs : Move(c, pc)
    BY <1>4
  <2>2. PICK w \in Rec : w = [call[c] EXCEPT !.pc = pc]
    BY <1>2
  <2>3. w.pc = pc /\ w.d = call[c].d /\ pc # "idle"
    BY <1>2, <2>2
  <2>4. call' = [call EXCEPT ![c] = w]
    BY <2>1, <2>2, <1>2 DEF Move
  <2>5. call[c].d \in Dispatches /\ RunnerOf[c] \in up
    BY DEF TypeInv, TypeOK
  <2> HIDE DEF Rec
  <2>6. call' \in [Calls -> Rec]
    BY <1>2, <2>4
  <2>7. \A x \in Calls \ {c} : call'[x] = call[x]
    BY <1>2, <2>4
  <2>8. call'[c] = w
    BY <1>2, <2>4
  <2>9. Shape'
    BY <2>3, <2>7, <2>8 DEF TypeInv, Shape
  <2>10. QED
    BY <2>3, <2>5, <2>6, <2>7, <2>8, <2>9 DEF TypeInv, TypeOK, Rec
<1>5. QED
  BY <1>3, <1>4 DEF Along

\* The actions of a call under way.
CallStep(c) ==
    \/ Reject(c) \/ ReserveApproval(c) \/ Authenticate(c) \/ ReserveDispatch(c)
    \/ Collect(c) \/ CommitDispatch(c) \/ CommitApproval(c)
    \/ ReleaseDispatch(c) \/ DropApproval(c) \/ Unavailable(c)

LEMMA AcceptTypes ==
    ASSUME TypeInv, NEW c \in Calls, Accept(c)
    PROVE  accepted' \in [Keys -> Nat]
BY DEF Accept, TypeInv, TypeOK

\* An action of a call is at most one transaction on one row.
LEMMA CallRows ==
    ASSUME TypeInv, NEW c \in Calls, CallStep(c)
    PROVE  \E k \in Keys : Reserve(c, k) \/ Commit(c, k) \/ Release(c, k) \/ UNCHANGED row
<1> DEFINE d == call[c].d
<1>1. call[c].pc # "idle"
  BY DEF CallStep, Reject, ReserveApproval, Authenticate, ReserveDispatch, Collect, CommitDispatch,
         Committing, CommitApproval, ReleaseDispatch, DropApproval, Unavailable
<1>2. d \in Keys /\ ApprovalsOf(d) \subseteq Keys
  BY <1>1, ApprovalsOfDispatch DEF TypeInv, TypeOK, Keys
<1> HIDE DEF d
<1>3. QED
  BY <1>2 DEF CallStep, Reject, ReserveApproval, Authenticate, ReserveDispatch, Collect, CommitDispatch,
         CommitApproval, ReleaseDispatch, DropApproval, Unavailable, store, d

LEMMA CallTypes ==
    ASSUME TypeInv, NEW c \in Calls, CallStep(c)
    PROVE  TypeInv'
<1> DEFINE d == call[c].d
<1>1. call[c].pc # "idle" /\ high' = high /\ up' = up
  BY DEF CallStep, Reject, ReserveApproval, Authenticate, ReserveDispatch, Collect, CommitDispatch,
         Committing, CommitApproval, ReleaseDispatch, DropApproval, Unavailable, store
<1>2. d \in Dispatches /\ d \in Keys /\ ApprovalsOf(d) \subseteq Keys
  BY <1>1, ApprovalsOfDispatch DEF TypeInv, TypeOK, Keys
<1>3. ReturnError(c) => Along(c, {"drop"})
  BY DEF ReturnError, Along
<1>4. Accept(c) => Along(c, {})
  BY DEF Accept, Along
<1> HIDE DEF d
<1>5. row' \in [Keys -> Row]
  BY CallRows, RowTypes DEF TypeInv, TypeOK
<1>6. accepted' \in [Keys -> Nat]
  <2>1. Accept(c) \/ UNCHANGED accepted
    BY DEF CallStep, Reject, ReserveApproval, Authenticate, ReserveDispatch, Collect, CommitDispatch,
           CommitApproval, ReleaseDispatch, DropApproval, Unavailable
  <2>2. QED
    BY <2>1, AcceptTypes DEF TypeInv, TypeOK
<1>7. unknown' \subseteq Keys /\ doubt' \subseteq Keys
  BY <1>2 DEF CallStep, Reject, ReserveApproval, Authenticate, ReserveDispatch, Collect, CommitDispatch,
         CommitApproval, ReleaseDispatch, DropApproval, Unavailable, d, TypeInv, TypeOK
<1>8. \E pcs \in SUBSET (PCs \ {"idle"}) :
        /\ Along(c, pcs)
        /\ pcs \cap {"collected", "failed"} # {} => d \notin Deploys
  <2>1. CASE Collect(c)
    <3>1. Along(c, {"collected", "failed"}) /\ d \notin Deploys
      BY <2>1 DEF Collect, Along, d
    <3>2. QED
      BY <3>1 DEF PCs
  <2>2. CASE ~Collect(c)
    <3> DEFINE P == {"approved", "authenticated", "reserved", "committed", "drop"}
    <3>1. Along(c, P)
      BY <2>2, <1>3, <1>4 DEF CallStep, Reject, ReserveApproval, Authenticate, ReserveDispatch, CommitDispatch,
             CommitApproval, ReleaseDispatch, DropApproval, Unavailable, Along
    <3>2. P \subseteq PCs \ {"idle"} /\ P \cap {"collected", "failed"} = {}
      BY DEF PCs
    <3>3. QED
      BY <3>1, <3>2
  <2>3. QED
    BY <2>1, <2>2
<1>9. QED
  BY <1>1, <1>5, <1>6, <1>7, <1>8, AlongTypes DEF d, TypeInv, TypeOK

LEMMA TypesInit == Init => TypeInv
BY RunnersAssumption DEF Init, TypeInv, TypeOK, Shape, Row, Absent, Idle, PCs

LEMMA OpenTypes ==
    ASSUME TypeInv, NEW r \in Runners, NEW now \in Times, Open(r, now)
    PROVE  TypeInv'
BY RunnersAssumption DEF TypeInv, TypeOK, Shape, Open, Times

LEMMA ObserveTypes ==
    ASSUME TypeInv, NEW c \in Calls, NEW d \in Dispatches, NEW now \in Times, Observe(c, d, now)
    PROVE  TypeInv'
<1>1. now \in Nat
  BY RunnersAssumption DEF Times
<1>2. PICK w \in [pc : PCs, d : Dispatches \cup {None}, now : Nat] :
        w = [pc |-> "observed", d |-> d, now |-> now]
  BY <1>1 DEF PCs
<1>3. w.pc = "observed" /\ w.d = d
  BY <1>2
<1>4. call' = [call EXCEPT ![c] = w]
  BY <1>2 DEF Observe
<1>5. QED
  BY <1>1, <1>3, <1>4 DEF TypeInv, TypeOK, Shape, Observe

LEMMA CrashTypes ==
    ASSUME TypeInv, NEW r \in Runners, Crash(r)
    PROVE  TypeInv'
<1>1. \A c \in Calls : Holds(c) \subseteq Keys
  <2> SUFFICES ASSUME NEW c \in Calls PROVE Holds(c) \subseteq Keys
    OBVIOUS
  <2>1. CASE call[c].pc = "idle"
    BY <2>1 DEF Holds, Tokens
  <2>2. CASE call[c].pc # "idle"
    <3>1. call[c].d \in Dispatches
      BY <2>2 DEF TypeInv, TypeOK
    <3>2. QED
      BY <3>1, ApprovalsOfDispatch DEF Holds, Tokens, Keys
  <2>3. QED
    BY <2>1, <2>2
<1>2. unknown' \subseteq Keys /\ doubt' \subseteq Keys
  BY <1>1 DEF Crash, TypeInv, TypeOK
<1>3. Idle \in [pc : PCs, d : Dispatches \cup {None}, now : Nat] /\ Idle.pc = "idle"
  BY DEF Idle, PCs
<1>4. QED
  BY <1>2, <1>3 DEF Crash, TypeInv, TypeOK, Shape, store

\* The disjuncts of Next.
LEMMA NextCases ==
    ASSUME [Next]_vars
    PROVE  \/ \E r \in Runners : Crash(r)
           \/ \E r \in Runners, now \in Times : Open(r, now)
           \/ \E c \in Calls, d \in Dispatches, now \in Times : Observe(c, d, now)
           \/ \E c \in Calls : CallStep(c)
           \/ UNCHANGED vars
BY DEF Next, CallStep

LEMMA TypesNext == TypeInv /\ [Next]_vars => TypeInv'
<1>1. TypeInv /\ UNCHANGED vars => TypeInv'
  BY DEF TypeInv, TypeOK, Shape, vars, store
<1>2. QED
  BY <1>1, NextCases, CrashTypes, OpenTypes, ObserveTypes, CallTypes

\* The state of the store and of every call has its type: a call that is idle
\* keeps nothing, one that works belongs to a process that runs.
THEOREM RunnerTypes == Spec => []TypeOK
<1>1. Spec => []TypeInv
  BY TypesInit, TypesNext, PTL DEF Spec
<1>2. TypeInv => TypeOK
  BY DEF TypeInv
<1>3. QED
  BY <1>1, <1>2, PTL

-----------------------------------------------------------------------------
(* The invariant *)

\* The key has been committed, or its window is over.
Used(k) == row[k].state = "COMMITTED" \/ Expiry[k] <= high

\* No call can reserve the key.
Closed(k) == row[k] # Absent \/ Expiry[k] <= high

HeldIsUnused ==
    \A c \in Calls : \A k \in Holds(c) : accepted[k] = 0 /\ (k \in Tokens(c) \/ Used(k))

HoldsAreDisjoint == \A c, x \in Calls : c # x => Holds(c) \cap Holds(x) = {}

AcceptedIsUsed == \A k \in Keys : accepted[k] <= 1 /\ (accepted[k] = 1 => Used(k))

UnknownIsClosed == \A k \in unknown : Closed(k) /\ \A c \in Calls : k \notin Holds(c)

ReplayInv ==
    /\ ReservationsAreOwned /\ HeldIsUnused /\ HoldsAreDisjoint
    /\ AcceptedIsUsed /\ UnknownIsClosed /\ PendingIsOwned

LEMMA HoldsKeys ==
    ASSUME TypeInv, NEW c \in Calls
    PROVE  Tokens(c) \subseteq Holds(c) /\ Holds(c) \subseteq Keys
<1>1. CASE call[c].pc = "idle"
  BY <1>1 DEF Holds, Tokens
<1>2. CASE call[c].pc # "idle"
  <2>1. call[c].d \in Dispatches
    BY <1>2 DEF TypeInv, TypeOK
  <2>2. QED
    BY <2>1, ApprovalsOfDispatch DEF Holds, Tokens, Keys
<1>3. QED
  BY <1>1, <1>2

LEMMA MatchesIsThere ==
    ASSUME NEW c, NEW k, Matches(c, k)
    PROVE  row[k].state = "PENDING" /\ row[k] # Absent
<1>1. row[k].state = "PENDING"
  BY DEF Matches
<1>2. Absent.state = "ABSENT"
  BY DEF Absent
<1>3. QED
  BY <1>1, <1>2

\* reserve: the row is pending, it could be reserved, and of the others only
\* committed ones whose window is over may be gone.
LEMMA ReserveRows ==
    ASSUME TypeInv, NEW c \in Calls, NEW k \in Keys, Reserve(c, k)
    PROVE  /\ row'[k] = [state |-> "PENDING", id |-> c]
           /\ ~Closed(k)
           /\ \A j \in Keys \ {k} :
                \/ row'[j] = row[j]
                \/ row[j].state = "COMMITTED" /\ Expiry[j] <= high /\ row'[j] = Absent
<1>1. Pruned(k) \in [Keys -> Row \cup {Absent}]
  BY DEF Pruned, TypeInv, TypeOK
<1>2. \A j \in Keys :
        \/ Pruned(k)[j] = row[j]
        \/ row[j].state = "COMMITTED" /\ Expiry[j] <= high /\ Pruned(k)[j] = Absent
  BY DEF Pruned
<1>3. ~(Expiry[k] <= high)
  BY KeysAssumption DEF Reserve, Admits, TypeInv, TypeOK
<1> HIDE DEF Pruned
<1>4. row[k] = Absent
  BY <1>2, <1>3 DEF Reserve, Admits
<1>5. QED
  BY <1>1, <1>2, <1>3, <1>4 DEF Reserve, Closed

LEMMA CommitRows ==
    ASSUME TypeInv, NEW c \in Calls, NEW k \in Keys, Commit(c, k)
    PROVE  /\ row[k] = [state |-> "PENDING", id |-> c]
           /\ row'[k] = [state |-> "COMMITTED", id |-> c]
           /\ \A j \in Keys \ {k} : row'[j] = row[j]
BY DEF Commit, Matches, TypeInv, TypeOK

LEMMA ReleaseRows ==
    ASSUME TypeInv, NEW c \in Calls, NEW k \in Keys, Release(c, k)
    PROVE  /\ row[k] = [state |-> "PENDING", id |-> c]
           /\ row'[k] = Absent
           /\ \A j \in Keys \ {k} : row'[j] = row[j]
BY DEF Release, Matches, TypeInv, TypeOK

-----------------------------------------------------------------------------
(* The moves of a call *)

history == <<accepted, unknown, doubt>>

Keeps(c) == UNCHANGED <<row, history>> /\ Tokens(c)' = Tokens(c) /\ Holds(c)' = Holds(c)

Takes(c, k) ==
    /\ Reserve(c, k) /\ UNCHANGED history
    /\ Tokens(c)' = Tokens(c) \cup {k} /\ Holds(c)' = Holds(c) \cup {k}

CommitsFirst(c, k) ==
    /\ k \in Tokens(c) /\ Commit(c, k) /\ UNCHANGED history
    /\ Tokens(c)' = Tokens(c) \ {k} /\ Holds(c)' = Holds(c)

CommitsLast(c, k) ==
    /\ Tokens(c) = {k} /\ Commit(c, k) /\ UNCHANGED <<unknown, doubt>>
    /\ Tokens(c)' = {} /\ Holds(c)' = {}
    /\ accepted' = [j \in Keys |-> IF j \in Holds(c) THEN accepted[j] + 1 ELSE accepted[j]]

Releases(c, k) ==
    /\ Tokens(c) = {k} /\ Release(c, k) /\ UNCHANGED history
    /\ Tokens(c)' = {} /\ Holds(c)' = {}

\* Token k is given up before the transaction, what the transaction did is not known.
Loses(c, k) ==
    /\ Tokens(c)' \subseteq Tokens(c) \ {k} /\ Holds(c)' = Tokens(c)'
    /\ doubt \subseteq doubt' /\ (Tokens(c) \ Tokens(c)') \cup {k} \subseteq doubt'
    /\ accepted' = accepted
    /\ \/ /\ Reserve(c, k) \/ (k \in Tokens(c) /\ Release(c, k))
          /\ unknown' = unknown
       \/ /\ UNCHANGED row \/ (k \in Tokens(c) /\ Commit(c, k))
          /\ unknown \subseteq unknown' /\ unknown' \subseteq unknown \cup (Holds(c) \ Holds(c)')

Moves(c, k) ==
    \/ Keeps(c) \/ Takes(c, k) \/ CommitsFirst(c, k) \/ CommitsLast(c, k)
    \/ Releases(c, k) \/ Loses(c, k)

\* Nothing else moves.
Alone(c) ==
    /\ high' = high
    /\ \A x \in Calls \ {c} : Tokens(x)' = Tokens(x) /\ Holds(x)' = Holds(x)

LEMMA KeepsInv ==
    ASSUME TypeInv, ReplayInv, NEW c \in Calls, Alone(c), Keeps(c)
    PROVE  ReplayInv'
<1>1. \A x \in Calls : Tokens(x)' = Tokens(x) /\ Holds(x)' = Holds(x)
  BY DEF Alone, Keeps
<1>2. UNCHANGED <<high, row, accepted, unknown, doubt>>
  BY DEF Alone, Keeps, history
<1>3. \A k : (Used(k)' <=> Used(k)) /\ (Closed(k)' <=> Closed(k))
  BY <1>2 DEF Used, Closed
<1>4. \A x, k : Matches(x, k)' <=> Matches(x, k)
  BY <1>2 DEF Matches
<1> HIDE DEF Tokens, Holds, Matches, Used, Closed
<1>5. ReservationsAreOwned' /\ PendingIsOwned'
  BY <1>1, <1>2, <1>4 DEF ReplayInv, ReservationsAreOwned, PendingIsOwned
<1>6. HeldIsUnused' /\ HoldsAreDisjoint'
  BY <1>1, <1>2, <1>3 DEF ReplayInv, HeldIsUnused, HoldsAreDisjoint
<1>7. AcceptedIsUsed' /\ UnknownIsClosed'
  BY <1>1, <1>2, <1>3 DEF ReplayInv, AcceptedIsUsed, UnknownIsClosed
<1>8. QED
  BY <1>5, <1>6, <1>7 DEF ReplayInv

\* A key that can be reserved is held by nobody, and is neither accepted nor
\* unknown.
LEMMA FreshKey ==
    ASSUME TypeInv, ReplayInv, NEW k \in Keys, ~Closed(k)
    PROVE  /\ \A x \in Calls : k \notin Holds(x)
           /\ accepted[k] = 0 /\ k \notin unknown
<1>1. ~Used(k) /\ row[k] = Absent
  BY DEF Used, Closed, Absent
<1>2. \A x \in Calls : k \notin Tokens(x)
  BY <1>1, MatchesIsThere DEF ReplayInv, ReservationsAreOwned
<1>3. \A x \in Calls : k \notin Holds(x)
  BY <1>1, <1>2 DEF ReplayInv, HeldIsUnused
<1>4. accepted[k] \in Nat
  BY DEF TypeInv, TypeOK
<1>5. QED
  BY <1>1, <1>3, <1>4 DEF ReplayInv, AcceptedIsUsed, UnknownIsClosed

\* What a transaction on row k leaves of the other keys.
Others(k) ==
    \A j \in Keys \ {k} :
      /\ Used(j) => Used(j)'
      /\ Closed(j) => Closed(j)'
      /\ \A x \in Calls : Matches(x, j) => Matches(x, j)'
      /\ row'[j].state = "PENDING" => row[j].state = "PENDING"

LEMMA OtherRows ==
    ASSUME TypeInv, NEW c \in Calls, NEW k \in Keys, high' = high,
           Reserve(c, k) \/ Commit(c, k) \/ Release(c, k)
    PROVE  Others(k)
<1> SUFFICES ASSUME NEW j \in Keys \ {k}
             PROVE  /\ Used(j) => Used(j)'
                    /\ Closed(j) => Closed(j)'
                    /\ \A x \in Calls : Matches(x, j) => Matches(x, j)'
                    /\ row'[j].state = "PENDING" => row[j].state = "PENDING"
  BY DEF Others
<1>1. \/ row'[j] = row[j]
      \/ row[j].state = "COMMITTED" /\ Expiry[j] <= high /\ row'[j] = Absent
  BY ReserveRows, CommitRows, ReleaseRows
<1>2. QED
  BY <1>1 DEF Used, Closed, Matches, Absent

LEMMA TakesInv ==
    ASSUME TypeInv, ReplayInv, NEW c \in Calls, NEW k \in Keys, Alone(c), Takes(c, k)
    PROVE  ReplayInv'
<1>1. /\ row'[k] = [state |-> "PENDING", id |-> c] /\ ~Closed(k) /\ Others(k)
      /\ \A x \in Calls : k \notin Holds(x) /\ Holds(x) \subseteq Keys /\ Tokens(x) \subseteq Holds(x)
      /\ accepted[k] = 0 /\ k \notin unknown
  BY ReserveRows, OtherRows, FreshKey, HoldsKeys DEF Takes, Alone
<1>2. /\ \A x \in Calls \ {c} : Tokens(x)' = Tokens(x) /\ Holds(x)' = Holds(x)
      /\ Tokens(c)' = Tokens(c) \cup {k} /\ Holds(c)' = Holds(c) \cup {k}
      /\ high' = high /\ UNCHANGED <<accepted, unknown, doubt>>
  BY DEF Takes, Alone, history
<1>3. Matches(c, k)'
  BY <1>1 DEF Matches
<1>4. accepted \in [Keys -> Nat] /\ unknown \subseteq Keys
  BY DEF TypeInv, TypeOK
<1> HIDE DEF Tokens, Holds, Matches, Used, Closed
<1>5. ReservationsAreOwned'
  BY <1>1, <1>2, <1>3 DEF ReplayInv, ReservationsAreOwned, Others
<1>6. HeldIsUnused'
  BY <1>1, <1>2 DEF ReplayInv, HeldIsUnused, Others
<1>7. HoldsAreDisjoint'
  BY <1>1, <1>2 DEF ReplayInv, HoldsAreDisjoint
<1>8. AcceptedIsUsed'
  BY <1>1, <1>2, <1>4 DEF ReplayInv, AcceptedIsUsed, Others
<1>9. UnknownIsClosed'
  BY <1>1, <1>2, <1>4 DEF ReplayInv, UnknownIsClosed, Others
<1>10. PendingIsOwned'
  BY <1>1, <1>2 DEF ReplayInv, PendingIsOwned, Others
<1>11. QED
  BY <1>5, <1>6, <1>7, <1>8, <1>9, <1>10 DEF ReplayInv

\* A commit of an own key, whether or not the call goes on or is told of it.
LEMMA CommitKeeps ==
    ASSUME TypeInv, ReplayInv, NEW c \in Calls, NEW k \in Keys, Commit(c, k), k \in Tokens(c), high' = high
    PROVE  /\ Others(k) /\ Used(k)' /\ Closed(k)' /\ row'[k].state # "PENDING"
           /\ \A x \in Calls \ {c} : k \notin Holds(x)
           /\ \A x \in Calls : Holds(x) \subseteq Keys /\ Tokens(x) \subseteq Holds(x)
<1>1. row'[k] = [state |-> "COMMITTED", id |-> c]
  BY CommitRows
<1>2. k \in Holds(c) /\ \A x \in Calls : Holds(x) \subseteq Keys /\ Tokens(x) \subseteq Holds(x)
  BY HoldsKeys
<1> HIDE DEF Tokens, Holds
<1>3. QED
  BY <1>1, <1>2, OtherRows DEF Used, Closed, Absent, ReplayInv, HoldsAreDisjoint

LEMMA CommitsFirstInv ==
    ASSUME TypeInv, ReplayInv, NEW c \in Calls, NEW k \in Keys, Alone(c), CommitsFirst(c, k)
    PROVE  ReplayInv'
<1>1. /\ \A x \in Calls \ {c} : Tokens(x)' = Tokens(x) /\ Holds(x)' = Holds(x)
      /\ Tokens(c)' = Tokens(c) \ {k} /\ Holds(c)' = Holds(c)
      /\ high' = high /\ UNCHANGED <<accepted, unknown, doubt>>
  BY DEF CommitsFirst, Alone, history
<1>2. /\ Others(k) /\ Used(k)' /\ Closed(k)' /\ row'[k].state # "PENDING"
      /\ \A x \in Calls \ {c} : k \notin Holds(x)
      /\ \A x \in Calls : Holds(x) \subseteq Keys /\ Tokens(x) \subseteq Holds(x)
  BY <1>1, CommitKeeps DEF CommitsFirst
<1>3. unknown \subseteq Keys
  BY DEF TypeInv, TypeOK
<1> HIDE DEF Tokens, Holds, Matches, Used, Closed
<1>4. ReservationsAreOwned'
  BY <1>1, <1>2 DEF ReplayInv, ReservationsAreOwned, Others
<1>5. HeldIsUnused'
  BY <1>1, <1>2 DEF ReplayInv, HeldIsUnused, Others
<1>6. HoldsAreDisjoint'
  BY <1>1 DEF ReplayInv, HoldsAreDisjoint
<1>7. AcceptedIsUsed'
  BY <1>1, <1>2 DEF ReplayInv, AcceptedIsUsed, Others
<1>8. UnknownIsClosed'
  BY <1>1, <1>2, <1>3 DEF ReplayInv, UnknownIsClosed, Others
<1>9. PendingIsOwned'
  BY <1>1, <1>2 DEF ReplayInv, PendingIsOwned, Others
<1>10. QED
  BY <1>4, <1>5, <1>6, <1>7, <1>8, <1>9 DEF ReplayInv

LEMMA CommitsLastInv ==
    ASSUME TypeInv, ReplayInv, NEW c \in Calls, NEW k \in Keys, Alone(c), CommitsLast(c, k)
    PROVE  ReplayInv'
<1>1. /\ \A x \in Calls \ {c} : Tokens(x)' = Tokens(x) /\ Holds(x)' = Holds(x)
      /\ Tokens(c) = {k} /\ Tokens(c)' = {} /\ Holds(c)' = {}
      /\ high' = high /\ UNCHANGED <<unknown, doubt>>
  BY DEF CommitsLast, Alone
<1>2. /\ Others(k) /\ Used(k)' /\ Closed(k)' /\ row'[k].state # "PENDING"
      /\ \A x \in Calls \ {c} : k \notin Holds(x)
      /\ \A x \in Calls : Holds(x) \subseteq Keys /\ Tokens(x) \subseteq Holds(x)
  BY <1>1, CommitKeeps DEF CommitsLast
<1>3. unknown \subseteq Keys
  BY DEF TypeInv, TypeOK
<1>4. /\ \A j \in Keys \ Holds(c) : accepted'[j] = accepted[j]
      /\ \A j \in Holds(c) : accepted'[j] = accepted[j] + 1
  BY <1>2 DEF CommitsLast
<1> HIDE DEF Tokens, Holds, Matches, Used, Closed
<1>5. ReservationsAreOwned'
  BY <1>1, <1>2 DEF ReplayInv, ReservationsAreOwned, Others
<1>6. HeldIsUnused'
  <2>1. \A x \in Calls \ {c} : \A j \in Holds(x) : j \in Keys \ Holds(c)
    BY <1>2 DEF ReplayInv, HoldsAreDisjoint
  <2>2. QED
    BY <1>1, <1>2, <1>4, <2>1 DEF ReplayInv, HeldIsUnused, Others
<1>7. HoldsAreDisjoint'
  BY <1>1 DEF ReplayInv, HoldsAreDisjoint
<1>8. AcceptedIsUsed'
  <2>1. \A j \in Holds(c) : accepted'[j] = 1 /\ Used(j)'
    BY <1>1, <1>2, <1>4 DEF ReplayInv, HeldIsUnused, Others
  <2>2. QED
    BY <1>1, <1>2, <1>4, <2>1 DEF ReplayInv, AcceptedIsUsed, Others
<1>9. UnknownIsClosed'
  BY <1>1, <1>2, <1>3 DEF ReplayInv, UnknownIsClosed, Others
<1>10. PendingIsOwned'
  BY <1>1, <1>2 DEF ReplayInv, PendingIsOwned, Others
<1>11. QED
  BY <1>5, <1>6, <1>7, <1>8, <1>9, <1>10 DEF ReplayInv

\* A release of an own key takes nothing from another call.
LEMMA ReleaseKeeps ==
    ASSUME TypeInv, ReplayInv, NEW c \in Calls, NEW k \in Keys, Release(c, k), k \in Tokens(c), high' = high
    PROVE  /\ Others(k) /\ row'[k].state # "PENDING" /\ k \notin unknown /\ accepted[k] = 0
           /\ \A x \in Calls \ {c} : k \notin Holds(x)
           /\ \A x \in Calls : Holds(x) \subseteq Keys /\ Tokens(x) \subseteq Holds(x)
<1>1. row'[k] = Absent
  BY ReleaseRows
<1>2. k \in Holds(c) /\ \A x \in Calls : Holds(x) \subseteq Keys /\ Tokens(x) \subseteq Holds(x)
  BY HoldsKeys
<1> HIDE DEF Tokens, Holds
<1>3. QED
  BY <1>1, <1>2, OtherRows DEF Absent, ReplayInv, HoldsAreDisjoint, UnknownIsClosed, HeldIsUnused

LEMMA ReleasesInv ==
    ASSUME TypeInv, ReplayInv, NEW c \in Calls, NEW k \in Keys, Alone(c), Releases(c, k)
    PROVE  ReplayInv'
<1>1. /\ \A x \in Calls \ {c} : Tokens(x)' = Tokens(x) /\ Holds(x)' = Holds(x)
      /\ Tokens(c) = {k} /\ Tokens(c)' = {} /\ Holds(c)' = {}
      /\ high' = high /\ UNCHANGED <<accepted, unknown, doubt>>
  BY DEF Releases, Alone, history
<1>2. /\ Others(k) /\ row'[k].state # "PENDING" /\ k \notin unknown /\ accepted[k] = 0
      /\ \A x \in Calls \ {c} : k \notin Holds(x)
      /\ \A x \in Calls : Holds(x) \subseteq Keys /\ Tokens(x) \subseteq Holds(x)
  BY <1>1, ReleaseKeeps DEF Releases
<1>3. unknown \subseteq Keys
  BY DEF TypeInv, TypeOK
<1> HIDE DEF Tokens, Holds, Matches, Used, Closed
<1>4. ReservationsAreOwned'
  BY <1>1, <1>2 DEF ReplayInv, ReservationsAreOwned, Others
<1>5. HeldIsUnused'
  BY <1>1, <1>2 DEF ReplayInv, HeldIsUnused, Others
<1>6. HoldsAreDisjoint'
  BY <1>1 DEF ReplayInv, HoldsAreDisjoint
<1>7. AcceptedIsUsed'
  BY <1>1, <1>2 DEF ReplayInv, AcceptedIsUsed, Others
<1>8. UnknownIsClosed'
  BY <1>1, <1>2, <1>3 DEF ReplayInv, UnknownIsClosed, Others
<1>9. PendingIsOwned'
  BY <1>1, <1>2 DEF ReplayInv, PendingIsOwned, Others
<1>10. QED
  BY <1>4, <1>5, <1>6, <1>7, <1>8, <1>9 DEF ReplayInv

LEMMA LosesInv ==
    ASSUME TypeInv, ReplayInv, NEW c \in Calls, NEW k \in Keys, Alone(c), Loses(c, k)
    PROVE  ReplayInv'
<1>1. /\ \A x \in Calls \ {c} : Tokens(x)' = Tokens(x) /\ Holds(x)' = Holds(x)
      /\ Tokens(c)' \subseteq Tokens(c) \ {k} /\ Holds(c)' = Tokens(c)'
      /\ doubt \subseteq doubt' /\ Tokens(c) \ Tokens(c)' \subseteq doubt' /\ k \in doubt'
      /\ accepted' = accepted /\ high' = high
  BY DEF Loses, Alone
<1>2. \A x \in Calls : Holds(x) \subseteq Keys /\ Tokens(x) \subseteq Holds(x)
  BY HoldsKeys
<1>3. unknown \subseteq Keys /\ accepted \in [Keys -> Nat]
  BY DEF TypeInv, TypeOK
<1>4. Others(k)
  <2>1. UNCHANGED row => Others(k)
    BY <1>1 DEF Others, Used, Closed, Matches
  <2>2. QED
    BY <1>1, <2>1, OtherRows DEF Loses
<1>5. \A x \in Calls \ {c} : k \in Holds(x) => UNCHANGED row
  BY <1>1, ReserveRows, FreshKey, CommitKeeps, ReleaseKeeps DEF Loses
<1>6. accepted[k] = 1 => Used(k)'
  <2>1. Commit(c, k) /\ k \in Tokens(c) => Used(k)'
    BY <1>1, CommitKeeps
  <2>2. Reserve(c, k) \/ (Release(c, k) /\ k \in Tokens(c)) => accepted[k] = 0
    BY <1>1, ReserveRows, FreshKey, ReleaseKeeps
  <2>3. accepted[k] = 1 /\ UNCHANGED row => Used(k)'
    BY <1>1 DEF ReplayInv, AcceptedIsUsed, Used
  <2>4. QED
    BY <2>1, <2>2, <2>3 DEF Loses
<1>7. \A j \in unknown' : Closed(j)' /\ (j \in unknown \/ j \in Holds(c) \ Holds(c)')
  <2> SUFFICES ASSUME NEW j \in unknown'
               PROVE  Closed(j)' /\ (j \in unknown \/ j \in Holds(c) \ Holds(c)')
    OBVIOUS
  <2>1. j \in unknown \/ j \in Holds(c) \ Holds(c)'
    BY DEF Loses
  <2>2. Closed(j)
    <3>1. Used(j) => Closed(j)
      BY DEF Used, Closed, Absent
    <3>2. j \in Tokens(c) => Closed(j)
      BY MatchesIsThere DEF ReplayInv, ReservationsAreOwned, Closed
    <3>3. QED
      BY <2>1, <3>1, <3>2 DEF ReplayInv, HeldIsUnused, UnknownIsClosed
  <2>3. CASE j # k
    BY <1>2, <1>3, <1>4, <2>1, <2>2, <2>3 DEF Others
  <2>4. CASE j = k
    <3>1. CASE Commit(c, k) /\ k \in Tokens(c)
      BY <1>1, <2>4, <3>1, CommitKeeps
    <3>2. CASE UNCHANGED row
      <4>1. high' = high
        BY <1>1
      <4>2. QED
        BY <2>1, <2>2, <3>2, <4>1 DEF Closed
    <3>3. CASE unknown' = unknown /\ (Reserve(c, k) \/ (Release(c, k) /\ k \in Tokens(c)))
      BY <1>1, <2>4, <3>3, ReserveRows, FreshKey, ReleaseKeeps
    <3>4. QED
      BY <3>1, <3>2, <3>3 DEF Loses
  <2>5. QED
    BY <2>1, <2>3, <2>4
<1>8. \A x \in Calls \ {c} : Matches(x, k) /\ UNCHANGED row => Matches(x, k)'
  BY DEF Matches
<1> HIDE DEF Tokens, Holds, Matches, Used, Closed
<1>9. ReservationsAreOwned'
  <2>1. \A j \in Tokens(c)' : Matches(c, j)'
    BY <1>1, <1>2, <1>4 DEF ReplayInv, ReservationsAreOwned, Others
  <2>2. \A x \in Calls \ {c} : \A j \in Tokens(x)' : Matches(x, j)'
    BY <1>1, <1>2, <1>4, <1>5, <1>8 DEF ReplayInv, ReservationsAreOwned, Others
  <2>3. QED
    BY <2>1, <2>2 DEF ReservationsAreOwned
<1>10. HeldIsUnused'
  <2>1. \A x \in Calls \ {c} : \A j \in Holds(x)' : accepted'[j] = 0 /\ (j \in Tokens(x)' \/ Used(j)')
    <3>1. \A j : Used(j) /\ UNCHANGED row => Used(j)'
      BY <1>1 DEF Used
    <3>2. QED
      BY <1>1, <1>2, <1>4, <1>5, <3>1 DEF ReplayInv, HeldIsUnused, Others
  <2>2. \A j \in Holds(c)' : accepted'[j] = 0 /\ j \in Tokens(c)'
    BY <1>1, <1>2 DEF ReplayInv, HeldIsUnused
  <2>3. QED
    BY <2>1, <2>2 DEF HeldIsUnused
<1>11. HoldsAreDisjoint'
  BY <1>1, <1>2 DEF ReplayInv, HoldsAreDisjoint
<1>12. AcceptedIsUsed'
  BY <1>1, <1>4, <1>6 DEF ReplayInv, AcceptedIsUsed, Others
<1>13. UnknownIsClosed'
  <2>1. Holds(c)' \subseteq Holds(c)
    BY <1>1, <1>2
  <2>2. QED
    BY <1>1, <1>7, <2>1 DEF ReplayInv, UnknownIsClosed, HoldsAreDisjoint
<1>14. PendingIsOwned'
  <2> SUFFICES ASSUME NEW j \in Keys \ doubt', row'[j].state = "PENDING"
               PROVE  \E x \in Calls : j \in Tokens(x)'
    BY DEF PendingIsOwned
  <2>1. j # k /\ j \notin doubt
    BY <1>1
  <2>2. PICK x \in Calls : j \in Tokens(x)
    BY <2>1, <1>4 DEF ReplayInv, PendingIsOwned, Others
  <2>3. QED
    BY <1>1, <2>1, <2>2
<1>15. QED
  BY <1>9, <1>10, <1>11, <1>12, <1>13, <1>14 DEF ReplayInv

LEMMA MovesInv ==
    ASSUME TypeInv, ReplayInv, NEW c \in Calls, NEW k \in Keys, Alone(c), Moves(c, k)
    PROVE  ReplayInv'
BY KeepsInv, TakesInv, CommitsFirstInv, CommitsLastInv, ReleasesInv, LosesInv DEF Moves

-----------------------------------------------------------------------------
(* Every action of a call is a move *)

\* Tokens and Holds of a record of call.
TokensOf(w) ==
    (IF w.pc \in {"reserved", "collected", "failed"} THEN {w.d} ELSE {})
    \cup (IF w.pc \in {"approved", "authenticated", "reserved", "committed", "drop"}
          THEN ApprovalsOf(w.d) ELSE {})
HoldsOf(w) == TokensOf(w) \cup (IF w.pc = "committed" THEN {w.d} ELSE {})

LEMMA HoldingsOf ==
    ASSUME NEW c \in Calls
    PROVE  /\ Tokens(c) = TokensOf(call[c]) /\ Holds(c) = HoldsOf(call[c])
           /\ Tokens(c)' = TokensOf(call'[c]) /\ Holds(c)' = HoldsOf(call'[c])
BY DEF Tokens, TokensOf, Holds, HoldsOf

LEMMA CallMoves ==
    ASSUME TypeInv, NEW c \in Calls, CallStep(c)
    PROVE  Alone(c) /\ \E k \in Keys : Moves(c, k)
<1> DEFINE w == call[c]
           d == call[c].d
           S == ApprovalsOf(d)
<1>1. w.pc # "idle" /\ high' = high
  BY DEF CallStep, Reject, ReserveApproval, Authenticate, ReserveDispatch, Collect, CommitDispatch,
         Committing, CommitApproval, ReleaseDispatch, DropApproval, Unavailable, store
<1>2. /\ d \in Dispatches /\ d \in Keys /\ S \subseteq Keys /\ d \notin S
      /\ \A a, b \in S : a = b
      /\ d \notin Deploys => S = {}
  BY <1>1, ApprovalsOfDispatch DEF TypeInv, TypeOK, Keys
<1>3. /\ Tokens(c) = TokensOf(w) /\ Holds(c) = HoldsOf(w)
      /\ Tokens(c)' = TokensOf(call'[c]) /\ Holds(c)' = HoldsOf(call'[c])
  BY HoldingsOf
<1>4. c \in DOMAIN call /\ \A x \in Calls : x \in DOMAIN call
  BY DEF TypeInv, TypeOK
<1>5. Return(c) => Tokens(c)' = {} /\ Holds(c)' = {}
  <2>1. Return(c) => call'[c] = Idle
    BY <1>4 DEF Return
  <2>2. TokensOf(Idle) = {} /\ HoldsOf(Idle) = {}
    BY DEF TokensOf, HoldsOf, Idle
  <2>3. QED
    BY <1>3, <2>1, <2>2
<1>6. \A pc : Move(c, pc) => call'[c].pc = pc /\ call'[c].d = d
  BY <1>4 DEF Move, TypeInv, TypeOK
<1>7. \A pc : Move(c, pc) =>
        /\ Tokens(c)' = (IF pc \in {"reserved", "collected", "failed"} THEN {d} ELSE {})
                        \cup (IF pc \in {"approved", "authenticated", "reserved", "committed", "drop"}
                              THEN S ELSE {})
        /\ Holds(c)' = Tokens(c)' \cup (IF pc = "committed" THEN {d} ELSE {})
  BY <1>3, <1>6 DEF TokensOf, HoldsOf
<1>8. /\ Tokens(c) = (IF w.pc \in {"reserved", "collected", "failed"} THEN {d} ELSE {})
                     \cup (IF w.pc \in {"approved", "authenticated", "reserved", "committed", "drop"}
                           THEN S ELSE {})
      /\ Holds(c) = Tokens(c) \cup (IF w.pc = "committed" THEN {d} ELSE {})
  BY <1>3 DEF TokensOf, HoldsOf
<1>9. ReturnError(c) =>
        /\ Tokens(c)' = S \cap Tokens(c) /\ Holds(c)' = S \cap Tokens(c)
  <2>1. CASE S \cap Tokens(c) = {}
    BY <2>1, <1>5 DEF ReturnError
  <2>2. CASE S \cap Tokens(c) # {}
    <3>1. S \subseteq Tokens(c)
      BY <2>2, <1>2
    <3>2. ReturnError(c) => Move(c, "drop")
      BY <2>2 DEF ReturnError
    <3>3. QED
      BY <3>1, <3>2, <1>7
  <2>3. QED
    BY <2>1, <2>2
<1>10. Alone(c)
  <2>1. Along(c, PCs)
    BY DEF CallStep, Reject, ReserveApproval, Authenticate, ReserveDispatch, Collect, CommitDispatch,
           CommitApproval, ReleaseDispatch, DropApproval, Unavailable, ReturnError, Accept, Along, PCs
  <2>2. \A x \in Calls \ {c} : call'[x] = call[x]
    BY <2>1, <1>4 DEF Along, Return, Move, TypeInv, TypeOK
  <2>3. QED
    BY <1>1, <2>2, HoldingsOf DEF Alone
<1>11. w.pc \in {"collected", "failed"} => S = {}
  BY <1>2 DEF TypeInv, Shape
<1> HIDE DEF w, d, S
<1>12. CASE Reject(c)
  <2>1. ReturnError(c) /\ w.pc \in {"observed", "approved"} /\ UNCHANGED <<row, history>>
    BY <1>12 DEF Reject, w, store, history
  <2>2. Keeps(c)
    BY <2>1, <1>8, <1>9 DEF Keeps
  <2>3. QED
    BY <2>2, <1>2, <1>10 DEF Moves
<1>13. CASE ReserveApproval(c)
  <2>1. PICK a \in S : /\ w.pc = "observed" /\ UNCHANGED history
                       /\ \/ Reserve(c, a) /\ Move(c, "approved")
                          \/ UNCHANGED row /\ Return(c)
    BY <1>13 DEF ReserveApproval, w, d, S, history
  <2>2. S = {a}
    BY <1>2
  <2>3. CASE Reserve(c, a) /\ Move(c, "approved")
    <3>1. Takes(c, a)
      BY <2>1, <2>2, <2>3, <1>7, <1>8 DEF Takes
    <3>2. QED
      BY <3>1, <2>1, <1>2, <1>10 DEF Moves
  <2>4. CASE UNCHANGED row /\ Return(c)
    <3>1. Keeps(c)
      BY <2>1, <2>4, <1>5, <1>8 DEF Keeps
    <3>2. QED
      BY <3>1, <1>2, <1>10 DEF Moves
  <2>5. QED
    BY <2>1, <2>3, <2>4
<1>14. CASE Authenticate(c)
  <2>1. /\ Move(c, "authenticated") /\ UNCHANGED <<row, history>>
        /\ w.pc = "approved" \/ (w.pc = "observed" /\ S = {})
    BY <1>14 DEF Authenticate, w, d, S, store, history
  <2>2. Keeps(c)
    BY <2>1, <1>7, <1>8 DEF Keeps
  <2>3. QED
    BY <2>2, <1>2, <1>10 DEF Moves
<1>15. CASE ReserveDispatch(c)
  <2>1. /\ w.pc = "authenticated" /\ UNCHANGED history
        /\ \/ Reserve(c, d) /\ Move(c, "reserved")
           \/ UNCHANGED row /\ ReturnError(c)
    BY <1>15 DEF ReserveDispatch, w, d, history
  <2>2. CASE Reserve(c, d) /\ Move(c, "reserved")
    <3>1. Takes(c, d)
      BY <2>1, <2>2, <1>7, <1>8 DEF Takes
    <3>2. QED
      BY <3>1, <1>2, <1>10 DEF Moves
  <2>3. CASE UNCHANGED row /\ ReturnError(c)
    <3>1. Keeps(c)
      BY <2>1, <2>3, <1>8, <1>9 DEF Keeps
    <3>2. QED
      BY <3>1, <1>2, <1>10 DEF Moves
  <2>4. QED
    BY <2>1, <2>2, <2>3
<1>16. CASE Collect(c)
  <2>1. PICK pc \in {"collected", "failed"} : Move(c, pc)
    BY <1>16 DEF Collect
  <2>2. w.pc = "reserved" /\ S = {} /\ UNCHANGED <<row, history>>
    BY <1>16, <1>2 DEF Collect, w, d, store, history
  <2>3. Keeps(c)
    BY <2>1, <2>2, <1>7, <1>8 DEF Keeps
  <2>4. QED
    BY <2>3, <1>2, <1>10 DEF Moves
<1>17. CASE CommitDispatch(c)
  <2>1. /\ w.pc \in {"collected", "reserved"} /\ Commit(c, d) /\ UNCHANGED <<unknown, doubt>>
        /\ S = {} => Accept(c)
        /\ S # {} => Move(c, "committed") /\ UNCHANGED accepted
    BY <1>17 DEF CommitDispatch, Committing, w, d, S
  <2>2. CASE S = {}
    <3>1. Tokens(c) = {d} /\ Holds(c) = {d}
      BY <2>1, <2>2, <1>8
    <3>2. accepted' = [j \in Keys |-> IF j \in Holds(c) THEN accepted[j] + 1 ELSE accepted[j]]
      BY <2>1, <2>2, <3>1 DEF Accept, d, S
    <3>3. CommitsLast(c, d)
      BY <2>1, <2>2, <3>1, <3>2, <1>5 DEF CommitsLast, Accept
    <3>4. QED
      BY <3>3, <1>2, <1>10 DEF Moves
  <2>3. CASE S # {}
    <3>1. CommitsFirst(c, d)
      BY <2>1, <2>3, <1>2, <1>7, <1>8, <1>11 DEF CommitsFirst, history
    <3>2. QED
      BY <3>1, <1>2, <1>10 DEF Moves
  <2>4. QED
    BY <2>2, <2>3
<1>18. CASE CommitApproval(c)
  <2>1. PICK a \in S : w.pc = "committed" /\ Commit(c, a) /\ Accept(c) /\ UNCHANGED <<unknown, doubt>>
    BY <1>18 DEF CommitApproval, w, d, S
  <2>2. S = {a}
    BY <1>2
  <2>3. Tokens(c) = {a} /\ Holds(c) = {d} \cup S
    BY <2>1, <2>2, <1>8
  <2>4. accepted' = [j \in Keys |-> IF j \in Holds(c) THEN accepted[j] + 1 ELSE accepted[j]]
    BY <2>1, <2>3 DEF Accept, d, S
  <2>5. CommitsLast(c, a)
    BY <2>1, <2>3, <2>4, <1>5 DEF CommitsLast, Accept
  <2>6. QED
    BY <2>1, <2>5, <1>2, <1>10 DEF Moves
<1>19. CASE ReleaseDispatch(c)
  <2>1. w.pc = "failed" /\ Release(c, d) /\ Return(c) /\ UNCHANGED history
    BY <1>19 DEF ReleaseDispatch, w, d, history
  <2>2. Releases(c, d)
    BY <2>1, <1>5, <1>8 DEF Releases
  <2>3. QED
    BY <2>2, <1>2, <1>10 DEF Moves
<1>20. CASE DropApproval(c)
  <2>1. PICK a \in S : w.pc = "drop" /\ Release(c, a) /\ Return(c) /\ UNCHANGED history
    BY <1>20 DEF DropApproval, w, d, S, history
  <2>2. S = {a}
    BY <1>2
  <2>3. Releases(c, a)
    BY <2>1, <2>2, <1>5, <1>8 DEF Releases
  <2>4. QED
    BY <2>1, <2>3, <1>2, <1>10 DEF Moves
<1>21. CASE Unavailable(c)
  <2>1. accepted' = accepted /\ doubt' = doubt \cup {d} \cup S
    BY <1>21 DEF Unavailable, d, S
  <2>2. CASE /\ w.pc = "observed" /\ Return(c) /\ UNCHANGED unknown
             /\ \E a \in S : Reserve(c, a) \/ UNCHANGED row
    <3>1. PICK a \in S : Reserve(c, a) \/ UNCHANGED row
      BY <2>2
    <3>2. Loses(c, a)
      BY <2>1, <2>2, <3>1, <1>5, <1>8 DEF Loses
    <3>3. QED
      BY <3>1, <3>2, <1>2, <1>10 DEF Moves
  <2>3. CASE /\ w.pc = "authenticated" /\ ReturnError(c) /\ UNCHANGED unknown
             /\ Reserve(c, d) \/ UNCHANGED row
    <3>1. Tokens(c) = S
      BY <2>3, <1>8
    <3>2. Loses(c, d)
      BY <2>1, <2>3, <3>1, <1>2, <1>9 DEF Loses
    <3>3. QED
      BY <3>2, <1>2, <1>10 DEF Moves
  <2>4. CASE /\ Committing(c) /\ ReturnError(c) /\ unknown' = unknown \cup {d}
             /\ Commit(c, d) \/ UNCHANGED row
    <3>1. w.pc \in {"collected", "reserved"}
      BY <2>4 DEF Committing, w
    <3>2. Tokens(c) = {d} \cup S /\ Holds(c) = {d} \cup S
      BY <3>1, <1>8, <1>11
    <3>3. Loses(c, d)
      BY <2>1, <2>4, <3>2, <1>2, <1>9 DEF Loses
    <3>4. QED
      BY <3>3, <1>2, <1>10 DEF Moves
  <2>5. CASE /\ w.pc = "committed" /\ Return(c) /\ unknown' = unknown \cup {d} \cup S
             /\ \E a \in S : Commit(c, a) \/ UNCHANGED row
    <3>1. PICK a \in S : Commit(c, a) \/ UNCHANGED row
      BY <2>5
    <3>2. Tokens(c) = S /\ Holds(c) = {d} \cup S
      BY <2>5, <1>8
    <3>3. Loses(c, a)
      BY <2>1, <2>5, <3>1, <3>2, <1>5 DEF Loses
    <3>4. QED
      BY <3>1, <3>3, <1>2, <1>10 DEF Moves
  <2>6. CASE /\ w.pc = "failed" /\ Return(c) /\ UNCHANGED unknown
             /\ Release(c, d) \/ UNCHANGED row
    <3>1. Tokens(c) = {d}
      BY <2>6, <1>8
    <3>2. Loses(c, d)
      BY <2>1, <2>6, <3>1, <1>5 DEF Loses
    <3>3. QED
      BY <3>2, <1>2, <1>10 DEF Moves
  <2>7. CASE /\ w.pc = "drop" /\ Return(c) /\ UNCHANGED unknown
             /\ \E a \in S : Release(c, a) \/ UNCHANGED row
    <3>1. PICK a \in S : Release(c, a) \/ UNCHANGED row
      BY <2>7
    <3>2. Tokens(c) = S
      BY <2>7, <1>8
    <3>3. Loses(c, a)
      BY <2>1, <2>7, <3>1, <3>2, <1>5 DEF Loses
    <3>4. QED
      BY <3>1, <3>3, <1>2, <1>10 DEF Moves
  <2>8. QED
    BY <1>21, <2>2, <2>3, <2>4, <2>5, <2>6, <2>7 DEF Unavailable, w, d, S
<1>22. QED
  BY <1>12, <1>13, <1>14, <1>15, <1>16, <1>17, <1>18, <1>19, <1>20, <1>21 DEF CallStep

-----------------------------------------------------------------------------
(* The other actions *)

\* The clock may advance and calls that hold nothing may start.
LEMMA LaterInv ==
    ASSUME TypeInv, ReplayInv, high' \in Nat, high' >= high, UNCHANGED <<row, accepted, unknown, doubt>>,
           \A x \in Calls : Tokens(x)' = Tokens(x) /\ Holds(x)' = Holds(x)
    PROVE  ReplayInv'
<1>1. \A k \in Keys : (Used(k) => Used(k)') /\ (Closed(k) => Closed(k)')
  <2>1. \A k \in Keys : Expiry[k] <= high => Expiry[k] <= high'
    BY KeysAssumption DEF TypeInv, TypeOK
  <2>2. QED
    BY <2>1 DEF Used, Closed
<1>2. \A x, k : Matches(x, k)' <=> Matches(x, k)
  BY DEF Matches
<1>3. unknown \subseteq Keys /\ \A x \in Calls : Holds(x) \subseteq Keys
  BY HoldsKeys DEF TypeInv, TypeOK
<1> HIDE DEF Tokens, Holds, Matches, Used, Closed
<1>4. ReservationsAreOwned' /\ PendingIsOwned'
  BY <1>2 DEF ReplayInv, ReservationsAreOwned, PendingIsOwned
<1>5. HeldIsUnused' /\ HoldsAreDisjoint'
  BY <1>1, <1>3 DEF ReplayInv, HeldIsUnused, HoldsAreDisjoint
<1>6. AcceptedIsUsed' /\ UnknownIsClosed'
  BY <1>1, <1>3 DEF ReplayInv, AcceptedIsUsed, UnknownIsClosed
<1>7. QED
  BY <1>4, <1>5, <1>6 DEF ReplayInv

LEMMA IdleHolds == TokensOf(Idle) = {} /\ HoldsOf(Idle) = {}
BY DEF TokensOf, HoldsOf, Idle

LEMMA OpenInv ==
    ASSUME TypeInv, ReplayInv, NEW r \in Runners, NEW now \in Times, Open(r, now)
    PROVE  ReplayInv'
<1>1. high' \in Nat /\ high' >= high /\ UNCHANGED <<row, call, accepted, unknown, doubt>>
  BY RunnersAssumption DEF Open, Times
<1>2. \A x \in Calls : Tokens(x)' = Tokens(x) /\ Holds(x)' = Holds(x)
  BY <1>1, HoldingsOf
<1>3. QED
  BY <1>1, <1>2, LaterInv

LEMMA ObserveInv ==
    ASSUME TypeInv, ReplayInv, NEW c \in Calls, NEW d \in Dispatches, NEW now \in Times, Observe(c, d, now)
    PROVE  ReplayInv'
<1>1. high' \in Nat /\ high' >= high /\ UNCHANGED <<row, accepted, unknown, doubt>>
  BY RunnersAssumption DEF Observe, Times
<1>2. PICK w : w = [pc |-> "observed", d |-> d, now |-> now]
  OBVIOUS
<1>3. TokensOf(w) = {} /\ HoldsOf(w) = {}
  BY <1>2 DEF TokensOf, HoldsOf
<1>4. call'[c] = w /\ call[c] = Idle /\ \A x \in Calls \ {c} : call'[x] = call[x]
  BY <1>2 DEF Observe, TypeInv, TypeOK
<1>5. \A x \in Calls : Tokens(x)' = Tokens(x) /\ Holds(x)' = Holds(x)
  BY <1>3, <1>4, IdleHolds, HoldingsOf
<1>6. QED
  BY <1>1, <1>5, LaterInv

LEMMA CrashInv ==
    ASSUME TypeInv, ReplayInv, NEW r \in Runners, Crash(r)
    PROVE  ReplayInv'
<1> DEFINE dead == {c \in Calls : RunnerOf[c] = r}
<1>1. /\ \A x \in dead : call'[x] = Idle
      /\ \A x \in Calls \ dead : call'[x] = call[x]
      /\ unknown' = unknown \cup UNION {Holds(c) : c \in dead}
      /\ doubt' = doubt \cup UNION {Holds(c) : c \in dead}
      /\ UNCHANGED <<high, row, accepted>>
  BY DEF Crash, store
<1>2. /\ \A x \in dead : Tokens(x)' = {} /\ Holds(x)' = {}
      /\ \A x \in Calls \ dead : Tokens(x)' = Tokens(x) /\ Holds(x)' = Holds(x)
  BY <1>1, IdleHolds, HoldingsOf
<1>3. /\ \A k : (Used(k)' <=> Used(k)) /\ (Closed(k)' <=> Closed(k)) /\ (Used(k) => Closed(k))
      /\ \A x, k : Matches(x, k)' <=> Matches(x, k)
      /\ \A x, k : Matches(x, k) => Closed(k)
  BY <1>1, MatchesIsThere DEF Used, Closed, Matches, Absent
<1>4. \A x \in Calls : Tokens(x) \subseteq Holds(x)
  BY HoldsKeys
<1>5. UNCHANGED <<row, accepted>>
  BY <1>1
<1> HIDE DEF Tokens, Holds, Matches, Used, Closed
<1>6. ReservationsAreOwned'
  BY <1>2, <1>3 DEF ReplayInv, ReservationsAreOwned
<1>7. HeldIsUnused' /\ HoldsAreDisjoint'
  BY <1>2, <1>3, <1>5 DEF ReplayInv, HeldIsUnused, HoldsAreDisjoint
<1>8. AcceptedIsUsed'
  BY <1>3, <1>5 DEF ReplayInv, AcceptedIsUsed
<1>9. UnknownIsClosed'
  <2> SUFFICES ASSUME NEW k \in unknown' PROVE Closed(k)' /\ \A x \in Calls : k \notin Holds(x)'
    BY DEF UnknownIsClosed
  <2>1. CASE k \in unknown
    BY <2>1, <1>2, <1>3 DEF ReplayInv, UnknownIsClosed
  <2>2. CASE k \notin unknown
    <3>1. PICK c \in dead : k \in Holds(c)
      BY <2>2, <1>1
    <3>2. Closed(k)
      BY <3>1, <1>3 DEF ReplayInv, HeldIsUnused, ReservationsAreOwned
    <3>3. \A x \in Calls \ dead : k \notin Holds(x)
      BY <3>1 DEF ReplayInv, HoldsAreDisjoint
    <3>4. QED
      BY <3>2, <3>3, <1>2, <1>3
  <2>3. QED
    BY <2>1, <2>2
<1>10. PendingIsOwned'
  <2> SUFFICES ASSUME NEW k \in Keys \ doubt', row'[k].state = "PENDING"
               PROVE  \E x \in Calls : k \in Tokens(x)'
    BY DEF PendingIsOwned
  <2>1. PICK x \in Calls : k \in Tokens(x)
    BY <1>1, <1>5 DEF ReplayInv, PendingIsOwned
  <2>2. x \notin dead
    BY <2>1, <1>1, <1>4
  <2>3. QED
    BY <2>1, <2>2, <1>2
<1>11. QED
  BY <1>6, <1>7, <1>8, <1>9, <1>10 DEF ReplayInv

LEMMA ReplayInit == Init => ReplayInv
<1> SUFFICES ASSUME Init PROVE ReplayInv
  OBVIOUS
<1>1. \A c \in Calls : Tokens(c) = {} /\ Holds(c) = {}
  BY IdleHolds, HoldingsOf DEF Init
<1>2. row = [k \in Keys |-> Absent] /\ accepted = [k \in Keys |-> 0] /\ unknown = {}
  BY DEF Init
<1>3. \A k \in Keys : row[k].state # "PENDING"
  BY <1>2 DEF Absent
<1> HIDE DEF Tokens, Holds
<1>4. QED
  BY <1>1, <1>2, <1>3 DEF ReplayInv, ReservationsAreOwned, HeldIsUnused, HoldsAreDisjoint, AcceptedIsUsed,
                          UnknownIsClosed, PendingIsOwned

LEMMA ReplayNext == TypeInv /\ ReplayInv /\ [Next]_vars => ReplayInv'
<1> SUFFICES ASSUME TypeInv, ReplayInv, [Next]_vars PROVE ReplayInv'
  OBVIOUS
<1>1. CASE UNCHANGED vars
  <2>1. \A x \in Calls : Tokens(x)' = Tokens(x) /\ Holds(x)' = Holds(x)
    BY <1>1, HoldingsOf DEF vars
  <2>2. QED
    BY <1>1, <2>1, LaterInv DEF vars, store, TypeInv, TypeOK
<1>2. CASE \E c \in Calls : CallStep(c)
  BY <1>2, CallMoves, MovesInv
<1>3. QED
  BY <1>1, <1>2, NextCases, CrashInv, OpenInv, ObserveInv

LEMMA ReplayInvariant == Spec => [](TypeInv /\ ReplayInv)
BY TypesInit, TypesNext, ReplayInit, ReplayNext, PTL DEF Spec

\* No dispatch and no approval is accepted twice, for any number of processes,
\* crashes, unavailable transactions and prunings.
THEOREM RunnerAcceptsOnce == Spec => []AcceptedOnce
<1>1. ReplayInv => AcceptedOnce
  BY DEF ReplayInv, AcceptedIsUsed, AcceptedOnce
<1>2. QED
  BY <1>1, ReplayInvariant, PTL

\* A call finds its own pending rows when it commits or releases them.
THEOREM RunnerOwnsReservations == Spec => []ReservationsAreOwned
<1>1. ReplayInv => ReservationsAreOwned
  BY DEF ReplayInv
<1>2. QED
  BY <1>1, ReplayInvariant, PTL

\* Without a crash or an unavailable store no pending row is left behind.
THEOREM RunnerLeavesNothing == Spec => []PendingIsOwned
<1>1. ReplayInv => PendingIsOwned
  BY DEF ReplayInv
<1>2. QED
  BY <1>1, ReplayInvariant, PTL

\* A key whose acceptance ended unknown is never accepted afterwards.
THEOREM RunnerBlocksUnknown == Spec => UnknownIsBlocked
<1>1. ASSUME TypeInv, ReplayInv, [Next]_vars
      PROVE  [\A k \in unknown : accepted'[k] = accepted[k]]_vars
  <2>1. CASE \E c \in Calls : CallStep(c)
    <3>1. PICK c \in Calls, k \in Keys : Moves(c, k)
      BY <1>1, <2>1, CallMoves
    <3>2. accepted' = accepted \/ CommitsLast(c, k)
      BY <3>1 DEF Moves, Keeps, Takes, CommitsFirst, Releases, Loses, history
    <3>3. unknown \subseteq Keys /\ \A j \in unknown : j \notin Holds(c)
      BY <1>1 DEF TypeInv, TypeOK, ReplayInv, UnknownIsClosed
    <3>4. QED
      BY <3>2, <3>3 DEF CommitsLast
  <2>2. QED
    BY <1>1, <2>1, NextCases DEF Crash, Open, Observe, vars
<1>2. QED
  BY <1>1, ReplayInvariant, PTL DEF Spec, UnknownIsBlocked

-----------------------------------------------------------------------------
(* Capacity *)

LEMMA CapacityNext ==
    ASSUME TypeInv, CapacityHolds, NEW c \in Calls, NEW k \in Keys,
           Reserve(c, k) \/ Commit(c, k) \/ Release(c, k) \/ UNCHANGED row
    PROVE  CapacityHolds'
<1> SUFFICES ASSUME NEW kind \in {Dispatches, Approvals}
             PROVE  Cardinality({j \in kind : row'[j] # Absent}) <= Capacity
  BY DEF CapacityHolds
<1> DEFINE before == {j \in kind : row[j] # Absent}
           after == {j \in kind : row'[j] # Absent}
<1>1. kind \subseteq Keys /\ IsFiniteSet(kind)
  BY KeysAssumption, FS_Subset DEF Keys
<1>2. IsFiniteSet(before) /\ IsFiniteSet(after)
  BY <1>1, FS_Subset
<1>3. Cardinality(before) <= Capacity
  BY DEF CapacityHolds
<1>4. Capacity \in Nat /\ Cardinality(before) \in Nat /\ Cardinality(after) \in Nat
  BY <1>2, RunnersAssumption, FS_CardinalityType
<1>5. CASE after \subseteq before
  <2>1. Cardinality(after) <= Cardinality(before)
    BY <1>2, <1>5, FS_Subset
  <2>2. QED
    BY <2>1, <1>3, <1>4
<1>6. CASE Reserve(c, k)
  <2>1. CASE k \in kind
    <3>1. (IF k \in Dispatches THEN Dispatches ELSE Approvals) = kind
      BY <2>1, KeysAssumption
    <3>2. Retained(k) = {j \in kind : Pruned(k)[j] # Absent}
      BY <3>1 DEF Retained
    <3>3. row' = [Pruned(k) EXCEPT ![k] = [state |-> "PENDING", id |-> c]] /\ DOMAIN Pruned(k) = Keys
      BY <1>6 DEF Reserve, Pruned
    <3>4. [state |-> "PENDING", id |-> c] # Absent
      <4>1. PICK w : w = [state |-> "PENDING", id |-> c]
        OBVIOUS
      <4>2. w.state = "PENDING" /\ Absent.state = "ABSENT"
        BY <4>1 DEF Absent
      <4>3. QED
        BY <4>1, <4>2
    <3>5. /\ \A j \in Keys \ {k} : row'[j] = Pruned(k)[j]
          /\ row'[k] # Absent
      BY <3>3, <3>4
    <3>6. k \notin Retained(k) /\ Cardinality(Retained(k)) < Capacity
      BY <1>6 DEF Reserve, Admits, Retained
    <3>7. after = Retained(k) \cup {k}
      BY <1>1, <2>1, <3>2, <3>5
    <3>8. IsFiniteSet(Retained(k))
      BY <1>1, <3>2, FS_Subset
    <3> HIDE DEF after
    <3>9. Cardinality(after) = Cardinality(Retained(k)) + 1
      BY <3>6, <3>7, <3>8, FS_AddElement
    <3>10. Cardinality(Retained(k)) \in Nat
      BY <3>8, FS_CardinalityType
    <3>11. QED
      BY <3>6, <3>9, <3>10, <1>4 DEF after
  <2>2. CASE k \notin kind
    <3>1. \A j \in Keys \ {k} : row'[j] = row[j] \/ row'[j] = Absent
      BY <1>6, ReserveRows
    <3>2. after \subseteq before
      BY <1>1, <2>2, <3>1
    <3>3. QED
      BY <3>2, <1>5
  <2>3. QED
    BY <2>1, <2>2
<1>7. CASE Commit(c, k)
  <2>1. row[k] # Absent
    BY <1>7, MatchesIsThere DEF Commit
  <2>2. after \subseteq before
    BY <1>1, <1>7, <2>1, CommitRows
  <2>3. QED
    BY <2>2, <1>5
<1>8. CASE Release(c, k)
  <2>1. after \subseteq before
    BY <1>1, <1>8, ReleaseRows
  <2>2. QED
    BY <2>1, <1>5
<1>9. CASE UNCHANGED row
  BY <1>5, <1>9
<1>10. QED
  BY <1>6, <1>7, <1>8, <1>9

\* Neither kind ever has more rows than the persisted capacity.
THEOREM RunnerCapacity == Spec => []CapacityHolds
<1>1. Init => CapacityHolds
  <2> SUFFICES ASSUME Init, NEW kind \in {Dispatches, Approvals}
               PROVE  Cardinality({j \in kind : row[j] # Absent}) <= Capacity
    BY DEF CapacityHolds
  <2>1. {j \in kind : row[j] # Absent} = {}
    BY DEF Init, Keys
  <2>2. QED
    BY <2>1, FS_EmptySet, RunnersAssumption
<1>2. TypeInv /\ CapacityHolds /\ [Next]_vars => CapacityHolds'
  <2> SUFFICES ASSUME TypeInv, CapacityHolds, [Next]_vars PROVE CapacityHolds'
    OBVIOUS
  <2>1. CASE UNCHANGED row
    BY <2>1 DEF CapacityHolds
  <2>2. CASE \E c \in Calls : CallStep(c)
    BY <2>2, CallRows, CapacityNext
  <2>3. QED
    BY <2>1, <2>2, NextCases DEF Crash, Open, Observe, vars, store
<1>3. Spec => []TypeInv
  BY TypesInit, TypesNext, PTL DEF Spec
<1>4. QED
  BY <1>1, <1>2, <1>3, PTL DEF Spec

=============================================================================
