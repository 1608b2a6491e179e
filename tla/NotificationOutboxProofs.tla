---------------------- MODULE NotificationOutboxProofs ----------------------
(***************************************************************************)
(* Proofs about NotificationOutbox for every number of notifiers, channels *)
(* and jobs, every lease, retry delay and attempt budget, and every way    *)
(* the clock may move.                                                     *)
(***************************************************************************)
EXTENDS NotificationOutbox, TLAPS

-----------------------------------------------------------------------------
(* Types *)

\* The jobs enqueued so far are known; all of them once the first is claimed.
IdsOf(p) ==
    /\ p.pc = "prune" => p.i = 1
    /\ p.pc = "enqueue" => \A c \in Channels : c < p.i => p.ids[c] \in JobIds
    /\ p.pc \in {"claim", "resolve", "send", "settle"} =>
         \A c \in Channels : p.ids[c] \in JobIds

TypeInv == TypeOK /\ \A n \in Notifiers : IdsOf(notifier[n])

LEMMA Constants ==
  /\ NumChannels \in Nat /\ NumChannels >= 1 /\ 1 \in Channels
  /\ LeaseSeconds \in Nat /\ Retention \in Nat /\ RetryDelays \subseteq Nat
  /\ ReceivedAt \in Nat /\ ExpiresAt \in Nat
  BY OutboxAssumption DEF Channels

LEMMA IdleType == Idle \in Notifier /\ IdsOf(Idle)
  BY OutboxAssumption DEF Idle, Notifier, PCs, Outcomes, Channels, IdsOf

LEMMA UnusedType == Unused \in Job
  BY DEF Unused, Job, JobStates, Reasons

LEMMA TypeInit == Init => TypeInv
<1> SUFFICES ASSUME Init PROVE TypeInv
  OBVIOUS
<1>1. setBack \in BOOLEAN
  BY Zenon DEF Init
<1>2. clock \in Nat
  BY OutboxAssumption DEF Init
<1>3. job \in [JobIds -> Job] /\ accepted \in [JobIds -> Nat]
  BY UnusedType DEF Init
<1>4. notifier \in [Notifiers -> Notifier] /\ \A n \in Notifiers : IdsOf(notifier[n])
  BY IdleType DEF Init
<1> QED
  BY <1>1, <1>2, <1>3, <1>4 DEF TypeInv, TypeOK

\* A step of one notifier to a well-typed record.
LEMMA NotifierStep ==
  ASSUME TypeInv, NEW n \in Notifiers, NEW p \in Notifier, IdsOf(p),
         notifier' = [notifier EXCEPT ![n] = p]
  PROVE  /\ notifier' \in [Notifiers -> Notifier]
         /\ \A m \in Notifiers : IdsOf(notifier'[m])
  BY DEF TypeInv, TypeOK

LEMMA CurrentType ==
  ASSUME TypeInv, NEW n \in Notifiers, Working(n) \/ notifier[n].pc = "claim"
  PROVE  /\ Current(n) \in JobIds
         /\ job[Current(n)] \in Job
  BY DEF TypeInv, TypeOK, IdsOf, Working, Current, Notifier

LEMMA ReturnType ==
  ASSUME TypeInv, NEW n \in Notifiers, Return(n)
  PROVE  /\ notifier' \in [Notifiers -> Notifier]
         /\ \A m \in Notifiers : IdsOf(notifier'[m])
  BY IdleType, NotifierStep DEF Return

LEMMA AdvanceType ==
  ASSUME TypeInv, NEW n \in Notifiers, Working(n) \/ notifier[n].pc = "claim", Advance(n)
  PROVE  /\ notifier' \in [Notifiers -> Notifier]
         /\ \A m \in Notifiers : IdsOf(notifier'[m])
<1>1. CASE notifier[n].i = NumChannels
  <2>1. notifier' = [notifier EXCEPT ![n] = Idle]
    BY <1>1 DEF Advance
  <2> QED
    BY <2>1, IdleType, NotifierStep
<1>2. CASE notifier[n].i # NumChannels
  <2> DEFINE p == [notifier[n] EXCEPT !.pc = "claim", !.i = notifier[n].i + 1, !.seen = clock,
                                      !.token = 0, !.out = "none"]
  <2>1. notifier' = [notifier EXCEPT ![n] = p]
    BY <1>2 DEF Advance
  <2>2. p \in Notifier
    <3>1. notifier[n] \in Notifier /\ clock \in Nat
      BY DEF TypeInv, TypeOK
    <3>2. notifier[n].i + 1 \in Channels
      BY <1>2, <3>1, Constants DEF Notifier, Channels
    <3> QED
      BY <3>1, <3>2 DEF Notifier, PCs, Outcomes
  <2>3. IdsOf(p)
    BY DEF TypeInv, TypeOK, IdsOf, Working, Notifier
  <2> HIDE DEF p
  <2> QED
    BY <2>1, <2>2, <2>3, NotifierStep
<1> QED
  BY <1>1, <1>2

LEMMA RowTypes ==
  ASSUME TypeInv, NEW row \in Job
  PROVE  /\ Leased(row) \in Job
         /\ Delivered(row) \in Job
         /\ \A reason \in Reasons : DeadLetter(row, reason) \in Job
         /\ \A delay \in RetryDelays : Retried(row, delay) \in Job
<1> USE Constants DEF Job, JobStates
<1>0. clock \in Nat /\ clock + LeaseSeconds \in Nat /\ row.attempts + 1 \in Nat
  BY DEF TypeInv, TypeOK
<1>1. Leased(row) \in Job
  BY <1>0 DEF Leased
<1>2. Delivered(row) \in Job
  BY <1>0 DEF Delivered
<1>3. \A reason \in Reasons : DeadLetter(row, reason) \in Job
  BY <1>0 DEF DeadLetter
<1>4. \A delay \in RetryDelays : Retried(row, delay) \in Job
  <2> SUFFICES ASSUME NEW delay \in RetryDelays PROVE Retried(row, delay) \in Job
    OBVIOUS
  <2>1. clock + delay \in Nat
    BY <1>0
  <2>2. DeadLetter(row, "RETRY_BUDGET") \in Job
    BY <1>3 DEF Reasons
  <2> QED
    BY <1>0, <2>1, <2>2 DEF Retried
<1> QED
  BY <1>1, <1>2, <1>3, <1>4

LEMMA SettledType ==
  ASSUME TypeInv, NEW row \in Job, NEW out \in Outcomes, NEW new \in Settled(row, out)
  PROVE  new \in Job
  BY RowTypes DEF Settled, Outcomes, Reasons, Rejections

\* What pruning does to the rows, without the choice among them.
PrunedRow(j) == [Unused EXCEPT !.state = "PRUNED", !.channel = job[j].channel]

LEMMA PruneEffect ==
  ASSUME NEW at, PruneRows(at)
  PROVE  \E S \in SUBSET {j \in JobIds : Terminal(j) /\ job[j].updatedAt + Retention <= at} :
           job' = [j \in JobIds |-> IF j \in S THEN PrunedRow(j) ELSE job[j]]
  BY DEF PruneRows, PrunedRow

LEMMA PruneType ==
  ASSUME TypeInv, NEW at, PruneRows(at)
  PROVE  job' \in [JobIds -> Job]
<1>1. \A j \in JobIds : PrunedRow(j) \in Job
  BY DEF TypeInv, TypeOK, PrunedRow, Unused, Job, JobStates, Reasons
<1> QED
  BY <1>1, PruneEffect DEF TypeInv, TypeOK

LEMMA EnqueuedType ==
  ASSUME TypeInv, NEW n \in Notifiers, notifier[n].pc = "enqueue", NEW j \in JobIds,
         Enqueued(n, j)
  PROVE  /\ notifier' \in [Notifiers -> Notifier]
         /\ \A m \in Notifiers : IdsOf(notifier'[m])
<1> DEFINE last == notifier[n].i = NumChannels
           p == [notifier[n] EXCEPT !.pc = IF last THEN "claim" ELSE "enqueue",
                                    !.i = IF last THEN 1 ELSE notifier[n].i + 1,
                                    !.ids[notifier[n].i] = j]
<1>1. notifier' = [notifier EXCEPT ![n] = p]
  BY DEF Enqueued
<1>2. notifier[n] \in Notifier /\ notifier[n].i \in Channels
  BY DEF TypeInv, TypeOK, Notifier
<1>3. p \in Notifier
  <2>1. (IF last THEN 1 ELSE notifier[n].i + 1) \in Channels
    BY <1>2, Constants DEF Channels
  <2> QED
    BY <1>2, <2>1 DEF Notifier, PCs
<1>4. \A c \in Channels : c < notifier[n].i => notifier[n].ids[c] \in JobIds
  BY DEF TypeInv, IdsOf
<1>5. IdsOf(p)
  <2>1. /\ p.pc = IF last THEN "claim" ELSE "enqueue"
        /\ p.i = IF last THEN 1 ELSE notifier[n].i + 1
        /\ p.ids = [notifier[n].ids EXCEPT ![notifier[n].i] = j]
    BY <1>2 DEF Notifier
  <2>2. \A c \in Channels : p.ids[c] = IF c = notifier[n].i THEN j ELSE notifier[n].ids[c]
    BY <1>2, <2>1 DEF Notifier
  <2>3. \A c \in Channels : c < notifier[n].i + 1 => p.ids[c] \in JobIds
    BY <1>2, <1>4, <2>2, Constants DEF Channels
  <2>4. last => \A c \in Channels : c < notifier[n].i + 1
    BY <1>2, Constants DEF Channels
  <2> QED
    BY <2>1, <2>3, <2>4 DEF IdsOf
<1> HIDE DEF p
<1> QED
  BY <1>1, <1>3, <1>5, NotifierStep

LEMMA TypeStep == TypeInv /\ [Next]_vars => TypeInv'
<1> SUFFICES ASSUME TypeInv, [Next]_vars PROVE TypeInv'
  OBVIOUS
<1>0. CASE UNCHANGED vars
  BY <1>0 DEF TypeInv, TypeOK, vars
<1>1. ASSUME NEW n \in Notifiers, Start(n) PROVE TypeInv'
  <2> DEFINE p == [Idle EXCEPT !.pc = "prune", !.now = clock, !.mark = clock]
  <2>0. clock \in Nat
    BY DEF TypeInv, TypeOK
  <2>1. p \in Notifier /\ IdsOf(p)
    <3>1. p \in Notifier
      BY <2>0, IdleType DEF Notifier, PCs
    <3>2. p.pc = "prune" /\ p.i = 1
      BY DEF Idle
    <3> QED
      BY <3>1, <3>2 DEF IdsOf
  <2>2. notifier' = [notifier EXCEPT ![n] = p]
    BY <1>1 DEF Start
  <2> HIDE DEF p
  <2> QED
    BY <1>1, <2>1, <2>2, NotifierStep DEF Start, TypeInv, TypeOK
<1>2. ASSUME NEW n \in Notifiers, Prune(n) PROVE TypeInv'
  <2> DEFINE p == [notifier[n] EXCEPT !.pc = "enqueue"]
  <2>1. p \in Notifier /\ IdsOf(p)
    <3>1. notifier[n] \in Notifier /\ notifier[n].i = 1
      BY <1>2 DEF Prune, TypeInv, TypeOK, IdsOf
    <3>2. p \in Notifier /\ p.pc = "enqueue" /\ p.i = 1
      BY <3>1 DEF Notifier, PCs
    <3> QED
      BY <3>2, Constants DEF IdsOf, Channels
  <2>2. notifier' = [notifier EXCEPT ![n] = p]
    BY <1>2 DEF Prune, TypeInv, TypeOK
  <2> HIDE DEF p
  <2> QED
    BY <1>2, <2>1, <2>2, NotifierStep, PruneType DEF Prune, TypeInv, TypeOK
<1>3. ASSUME NEW n \in Notifiers, Enqueue(n) PROVE TypeInv'
  <2>1. /\ notifier' \in [Notifiers -> Notifier]
        /\ \A m \in Notifiers : IdsOf(notifier'[m])
    BY <1>3, EnqueuedType, ReturnType DEF Enqueue
  <2>2. Pending(notifier[n].i, notifier[n].now) \in Job
    BY Constants
    DEF TypeInv, TypeOK, Notifier, Pending, Unused, Job, JobStates, Reasons
  <2>3. job' \in [JobIds -> Job]
    BY <1>3, <2>2 DEF Enqueue, TypeInv, TypeOK
  <2> QED
    BY <1>3, <2>1, <2>3 DEF Enqueue, TypeInv, TypeOK
<1>4. ASSUME NEW n \in Notifiers, ClaimExact(n) PROVE TypeInv'
  <2>1. Current(n) \in JobIds /\ job[Current(n)] \in Job
    BY <1>4, CurrentType DEF ClaimExact
  <2>2. job' \in [JobIds -> Job]
    BY <1>4, <2>1, RowTypes DEF ClaimExact, TypeInv, TypeOK, Reasons
  <2>3. CASE Return(n) \/ Advance(n)
    BY <1>4, <2>2, <2>3, ReturnType, AdvanceType DEF ClaimExact, TypeInv, TypeOK
  <2>4. CASE ~(Return(n) \/ Advance(n))
    <3> DEFINE p == [notifier[n] EXCEPT !.pc = "resolve", !.seen = clock,
                                        !.token = job[Current(n)].attempts + 1]
    <3>1. notifier' = [notifier EXCEPT ![n] = p]
      BY <1>4, <2>4 DEF ClaimExact
    <3>2. job[Current(n)].attempts + 1 \in Nat
      BY <2>1 DEF Job
    <3>3. p \in Notifier
      BY <3>2 DEF TypeInv, TypeOK, Notifier, PCs
    <3>4. IdsOf(p)
      BY <1>4 DEF ClaimExact, TypeInv, TypeOK, IdsOf, Notifier
    <3> HIDE DEF p
    <3> QED
      BY <1>4, <2>2, <3>1, <3>3, <3>4, NotifierStep DEF ClaimExact, TypeInv, TypeOK
  <2> QED
    BY <2>3, <2>4
<1>5. ASSUME NEW n \in Notifiers, Resolve(n) PROVE TypeInv'
  <2> DEFINE p == [notifier[n] EXCEPT
                     !.pc = IF Usable(n) THEN "send" ELSE "settle",
                     !.mark = IF notifier[n].mark <= clock THEN clock ELSE notifier[n].mark,
                     !.out = IF Usable(n) THEN "none" ELSE "MATERIAL_REJECTED"]
  <2>1. notifier' = [notifier EXCEPT ![n] = p]
    BY <1>5 DEF Resolve
  <2>2. p \in Notifier
    BY DEF TypeInv, TypeOK, Notifier, PCs, Outcomes, Rejections
  <2>3. IdsOf(p)
    BY <1>5 DEF Resolve, TypeInv, TypeOK, IdsOf, Notifier
  <2> HIDE DEF p
  <2> QED
    BY <1>5, <2>1, <2>2, <2>3, NotifierStep DEF Resolve, TypeInv, TypeOK
<1>6. ASSUME NEW n \in Notifiers, Send(n) PROVE TypeInv'
  <2>1. PICK out \in Outcomes, taken \in 0..1 :
          /\ accepted' = [accepted EXCEPT ![Current(n)] = @ + taken]
          /\ notifier' = [notifier EXCEPT ![n] = [notifier[n] EXCEPT !.pc = "settle",
                                                                    !.out = out]]
    BY <1>6 DEF Send
  <2> DEFINE p == [notifier[n] EXCEPT !.pc = "settle", !.out = out]
  <2>2. p \in Notifier /\ IdsOf(p)
    <3>1. notifier[n] \in Notifier /\ notifier[n].pc = "send" /\ IdsOf(notifier[n])
      BY <1>6 DEF Send, TypeInv, TypeOK
    <3>2. p \in Notifier /\ p.pc = "settle" /\ p.ids = notifier[n].ids
      BY <3>1 DEF Notifier, PCs
    <3> QED
      BY <3>1, <3>2 DEF IdsOf
  <2>3. accepted' \in [JobIds -> Nat]
    <3>1. Current(n) \in JobIds
      BY <1>6, CurrentType DEF Send, Working
    <3>2. accepted \in [JobIds -> Nat] /\ accepted[Current(n)] + taken \in Nat
      BY <3>1 DEF TypeInv, TypeOK
    <3> QED
      BY <2>1, <3>1, <3>2
  <2> HIDE DEF p
  <2>4. notifier' = [notifier EXCEPT ![n] = p]
    BY <2>1 DEF p
  <2> QED
    BY <1>6, <2>2, <2>3, <2>4, NotifierStep DEF Send, TypeInv, TypeOK
<1>7. ASSUME NEW n \in Notifiers, Settle(n) PROVE TypeInv'
  <2>1. Working(n) /\ Current(n) \in JobIds /\ job[Current(n)] \in Job
    BY <1>7, CurrentType DEF Settle, Working
  <2>2. notifier[n].out \in Outcomes
    BY DEF TypeInv, TypeOK, Notifier
  <2>3. job' \in [JobIds -> Job]
    BY <1>7, <2>1, <2>2, SettledType DEF Settle, TypeInv, TypeOK
  <2> QED
    BY <1>7, <2>1, <2>3, ReturnType, AdvanceType DEF Settle, TypeInv, TypeOK
<1>8. ASSUME NEW n \in Notifiers, Abort(n) PROVE TypeInv'
  BY <1>8, ReturnType DEF Abort, TypeInv, TypeOK
<1>9. CASE PruneByOthers
  BY <1>9, PruneType DEF PruneByOthers, TypeInv, TypeOK
<1>10. CASE \E c \in 0..MaxClock : SetClock(c)
  BY <1>10, OutboxAssumption DEF SetClock, TypeInv, TypeOK
<1> QED
  BY <1>0, <1>1, <1>2, <1>3, <1>4, <1>5, <1>6, <1>7, <1>8, <1>9, <1>10 DEF Next, Run

\* The variables keep their types, whatever notifiers, clocks and crashes do.
THEOREM TypeCorrect == Spec => []TypeOK
<1>1. Spec => []TypeInv
  BY TypeInit, TypeStep, PTL DEF Spec
<1> QED
  BY <1>1, PTL DEF TypeInv

-----------------------------------------------------------------------------
(* One worker per job, one acceptance per job, true records *)

\* What a row says of the provider.
JobOK(j) ==
    /\ accepted[j] <= 1
    /\ job[j].state \in {"UNUSED", "PENDING", "RETRY"} => accepted[j] = 0
    /\ job[j].state = "DELIVERED" => accepted[j] = 1
    /\ job[j].reason \in Rejections \cup {"RETRY_BUDGET"} => accepted[j] = 0
    /\ job[j].reason # "none" => job[j].state = "DEAD_LETTER"

\* The row of a lease not settled: leased, or given up since.
HeldRow(row) ==
    /\ row.state \in {"LEASED", "DEAD_LETTER", "PRUNED"}
    /\ row.state = "DEAD_LETTER" => row.reason = "CRASH_EXPIRED"

\* What a worker knows: nothing was accepted before it sends, and its outcome
\* is true afterwards.
WorkOK(n) ==
    Working(n) =>
        LET j == Current(n)
            out == notifier[n].out
        IN
        /\ HeldRow(job[j])
        /\ notifier[n].pc # "settle" => accepted[j] = 0
        /\ notifier[n].pc = "settle" =>
             /\ out # "none"
             /\ out = "ACCEPTED" => accepted[j] = 1
             /\ out \in Rejections \cup {"RETRYABLE"} => accepted[j] = 0

DeliveryInv ==
    /\ TypeInv
    /\ \A j \in JobIds : JobOK(j)
    /\ \A n \in Notifiers : WorkOK(n)
    /\ OneWorkerPerJob

LEMMA DeliveryInit == Init => DeliveryInv
  BY TypeInit
  DEF Init, DeliveryInv, JobOK, WorkOK, OneWorkerPerJob, Working, Idle, Unused, Rejections

\* Only n moves, and it works on no job afterwards.
Quits(n) ==
    /\ \A m \in Notifiers \ {n} : notifier'[m] = notifier[m]
    /\ notifier'[n].pc \notin {"resolve", "send", "settle"}

LEMMA ReturnQuits ==
  ASSUME TypeInv, NEW n \in Notifiers, Return(n)
  PROVE  Quits(n)
  BY DEF Return, Quits, TypeInv, TypeOK, Idle

LEMMA AdvanceQuits ==
  ASSUME TypeInv, NEW n \in Notifiers, Advance(n)
  PROVE  Quits(n)
  BY DEF Advance, Quits, TypeInv, TypeOK, Idle, Notifier

LEMMA EnqueuedQuits ==
  ASSUME TypeInv, NEW n \in Notifiers, NEW j, Enqueued(n, j)
  PROVE  Quits(n)
  BY DEF Enqueued, Quits, TypeInv, TypeOK, Notifier

\* A notifier that quits disturbs no other worker whose row stays held.
LEMMA QuitStep ==
  ASSUME DeliveryInv, NEW n \in Notifiers, Quits(n), UNCHANGED accepted,
         \A m \in Notifiers \ {n} : Working(m) => HeldRow(job'[Current(m)])
  PROVE  (\A m \in Notifiers : WorkOK(m)') /\ OneWorkerPerJob'
<1>1. ~Working(n)'
  BY DEF Quits, Working
<1>2. ASSUME NEW m \in Notifiers \ {n}
      PROVE  Working(m)' = Working(m) /\ Current(m)' = Current(m)
  BY DEF Quits, Working, Current
<1>3. ASSUME NEW m \in Notifiers PROVE WorkOK(m)'
  <2>1. CASE m = n
    BY <1>1, <2>1 DEF WorkOK
  <2>2. CASE m # n
    <3>1. notifier'[m] = notifier[m] /\ WorkOK(m)
      BY <2>2 DEF Quits, DeliveryInv
    <3> QED
      BY <1>2, <2>2, <3>1 DEF WorkOK, HeldRow
  <2> QED
    BY <2>1, <2>2
<1>4. OneWorkerPerJob'
  BY <1>1, <1>2 DEF DeliveryInv, OneWorkerPerJob
<1> QED
  BY <1>3, <1>4

\* A notifier that goes on with its job, and has no rival, disturbs nobody.
LEMMA GoOnStep ==
  ASSUME DeliveryInv, NEW n \in Notifiers, Current(n)' = Current(n), WorkOK(n)',
         \A m \in Notifiers \ {n} : notifier'[m] = notifier[m],
         \A m \in Notifiers \ {n} :
            Working(m) => /\ Current(m) # Current(n)
                          /\ job'[Current(m)] = job[Current(m)]
                          /\ accepted'[Current(m)] = accepted[Current(m)]
  PROVE  (\A m \in Notifiers : WorkOK(m)') /\ OneWorkerPerJob'
<1>1. ASSUME NEW m \in Notifiers \ {n}
      PROVE  Working(m)' = Working(m) /\ Current(m)' = Current(m)
  BY DEF Working, Current
<1>2. ASSUME NEW m \in Notifiers PROVE WorkOK(m)'
  <2>2. CASE m # n
    <3>1. notifier'[m] = notifier[m] /\ WorkOK(m)
      BY <2>2 DEF DeliveryInv
    <3> QED
      BY <1>1, <2>2, <3>1 DEF WorkOK, HeldRow
  <2> QED
    BY <2>2
<1>3. OneWorkerPerJob'
  BY <1>1 DEF DeliveryInv, OneWorkerPerJob
<1> QED
  BY <1>2, <1>3

LEMMA PruneDelivery ==
  ASSUME DeliveryInv, NEW at, PruneRows(at), UNCHANGED accepted
  PROVE  /\ \A j \in JobIds : JobOK(j)'
         /\ \A n \in Notifiers : Working(n) => HeldRow(job'[Current(n)])
<1>1. PICK S \in SUBSET {j \in JobIds : Terminal(j) /\ job[j].updatedAt + Retention <= at} :
        job' = [j \in JobIds |-> IF j \in S THEN PrunedRow(j) ELSE job[j]]
  BY PruneEffect
<1>2. \A j : PrunedRow(j).state = "PRUNED" /\ PrunedRow(j).reason = "none"
  BY DEF PrunedRow, Unused
<1>3. ASSUME NEW j \in JobIds PROVE JobOK(j)'
  BY <1>1, <1>2 DEF DeliveryInv, JobOK, Rejections
<1>4. ASSUME NEW n \in Notifiers, Working(n) PROVE HeldRow(job'[Current(n)])
  <2>1. Current(n) \in JobIds /\ HeldRow(job[Current(n)])
    BY <1>4, CurrentType DEF DeliveryInv, WorkOK
  <2> QED
    BY <1>1, <1>2, <2>1 DEF HeldRow
<1> QED
  BY <1>3, <1>4

\* What a settlement writes, and what the provider did before.
LEMMA SettledRow ==
  ASSUME DeliveryInv, NEW n \in Notifiers, notifier[n].pc = "settle",
         NEW j \in JobIds, j = Current(n), job[j].state = "LEASED",
         NEW row \in Settled(job[j], notifier[n].out)
  PROVE  \/ row.state = "DELIVERED" /\ row.reason = "none" /\ accepted[j] = 1
         \/ row.state = "RETRY" /\ row.reason = "none" /\ accepted[j] = 0
         \/ /\ row.state = "DEAD_LETTER" /\ row.reason \in Rejections \cup {"RETRY_BUDGET"}
            /\ accepted[j] = 0
         \/ row.state = "DEAD_LETTER" /\ row.reason = "AMBIGUOUS"
<1>0. PICK out : out = notifier[n].out
  OBVIOUS
<1>1. Working(n) /\ job[j] \in Job
  BY CurrentType DEF DeliveryInv, Working
<1>2. /\ out \in Outcomes /\ out # "none"
      /\ out = "ACCEPTED" => accepted[j] = 1
      /\ out \in Rejections \cup {"RETRYABLE"} => accepted[j] = 0
      /\ job[j].reason = "none"
  BY <1>0, <1>1 DEF DeliveryInv, WorkOK, JobOK, TypeInv, TypeOK, Notifier
<1>3. CASE out = "ACCEPTED"
  BY <1>0, <1>1, <1>2, <1>3 DEF Settled, Delivered, Job
<1>4. CASE out = "RETRYABLE"
  BY <1>0, <1>1, <1>2, <1>4 DEF Settled, Retried, DeadLetter, Job
<1>5. CASE out \in Rejections \cup {"AMBIGUOUS"}
  BY <1>0, <1>1, <1>2, <1>5 DEF Settled, DeadLetter, Job, Rejections
<1> QED
  BY <1>2, <1>3, <1>4, <1>5 DEF Outcomes

LEMMA SettledDelivery ==
  ASSUME DeliveryInv, NEW n \in Notifiers, notifier[n].pc = "settle",
         job[Current(n)].state = "LEASED",
         NEW row \in Settled(job[Current(n)], notifier[n].out),
         job' = [job EXCEPT ![Current(n)] = row], UNCHANGED accepted
  PROVE  \A j \in JobIds : JobOK(j)'
<1>0. PICK j : j = Current(n)
  OBVIOUS
<1>1. Working(n) /\ j \in JobIds /\ accepted[j] <= 1
  BY <1>0, CurrentType DEF DeliveryInv, Working, JobOK
<1>3. \/ row.state = "DELIVERED" /\ row.reason = "none" /\ accepted[j] = 1
      \/ row.state = "RETRY" /\ row.reason = "none" /\ accepted[j] = 0
      \/ /\ row.state = "DEAD_LETTER" /\ row.reason \in Rejections \cup {"RETRY_BUDGET"}
         /\ accepted[j] = 0
      \/ row.state = "DEAD_LETTER" /\ row.reason = "AMBIGUOUS"
  BY <1>0, <1>1, SettledRow
<1>5. JobOK(j)'
  BY <1>0, <1>1, <1>3 DEF JobOK, Rejections, DeliveryInv, TypeInv, TypeOK
<1>6. ASSUME NEW k \in JobIds, k # j PROVE JobOK(k)'
  BY <1>0, <1>1, <1>6 DEF JobOK, DeliveryInv, TypeInv, TypeOK
<1> QED
  BY <1>5, <1>6

LEMMA DeliveryStep == DeliveryInv /\ [Next]_vars => DeliveryInv'
<1> SUFFICES ASSUME DeliveryInv, [Next]_vars PROVE DeliveryInv'
  OBVIOUS
<1> DEFINE Rest == (\A j \in JobIds : JobOK(j)) /\ (\A n \in Notifiers : WorkOK(n)) /\ OneWorkerPerJob
<1>t. TypeInv /\ TypeInv'
  BY TypeStep DEF DeliveryInv
<1>a. ASSUME UNCHANGED <<job, accepted>> PROVE \A j \in JobIds : JobOK(j)'
  BY <1>a DEF DeliveryInv, JobOK
<1>b. ASSUME UNCHANGED job, NEW m \in Notifiers, Working(m) PROVE HeldRow(job'[Current(m)])
  BY <1>b DEF DeliveryInv, WorkOK
<1>c. \A m \in Notifiers : Working(m) => Current(m) \in JobIds
  BY <1>t, CurrentType
<1>0. CASE UNCHANGED vars
  <2>1. UNCHANGED <<job, accepted, notifier>>
    BY <1>0 DEF vars
  <2> QED
    BY <1>t, <1>a, <2>1 DEF DeliveryInv, WorkOK, OneWorkerPerJob, Working, Current
<1>1. ASSUME NEW n \in Notifiers, Start(n) PROVE Rest'
  <2>1. Quits(n)
    BY <1>1, <1>t DEF Start, Quits, TypeInv, TypeOK, Idle
  <2> QED
    BY <1>1, <2>1, <1>a, <1>b, QuitStep DEF Start
<1>2. ASSUME NEW n \in Notifiers, Prune(n) PROVE Rest'
  <2>1. Quits(n)
    BY <1>2, <1>t DEF Prune, Quits, TypeInv, TypeOK, Notifier
  <2> QED
    BY <1>2, <2>1, PruneDelivery, QuitStep DEF Prune
<1>3. ASSUME NEW n \in Notifiers, Enqueue(n) PROVE Rest'
  <2>1. Quits(n)
    BY <1>3, <1>t, EnqueuedQuits, ReturnQuits DEF Enqueue
  <2>2. CASE UNCHANGED job
    BY <1>3, <2>1, <2>2, <1>a, <1>b, QuitStep DEF Enqueue
  <2>3. CASE \E j \in JobIds : /\ job[j].state = "UNUSED"
                               /\ job' = [job EXCEPT ![j] = Pending(notifier[n].i, notifier[n].now)]
    <3>1. PICK j \in JobIds :
            /\ job[j].state = "UNUSED"
            /\ job' = [job EXCEPT ![j] = Pending(notifier[n].i, notifier[n].now)]
      BY <2>3
    <3>2. /\ job'[j].state = "PENDING" /\ job'[j].reason = "none"
          /\ \A k \in JobIds \ {j} : job'[k] = job[k]
      BY <1>t, <3>1 DEF TypeInv, TypeOK, Pending, Unused
    <3>3. \A k \in JobIds : JobOK(k)'
      BY <1>3, <3>1, <3>2 DEF Enqueue, DeliveryInv, JobOK, Rejections
    <3>4. \A m \in Notifiers : Working(m) => HeldRow(job'[Current(m)])
      BY <1>c, <3>1, <3>2 DEF DeliveryInv, WorkOK, HeldRow
    <3> QED
      BY <1>3, <2>1, <3>3, <3>4, QuitStep DEF Enqueue
  <2> QED
    BY <1>3, <2>2, <2>3 DEF Enqueue
<1>4. ASSUME NEW n \in Notifiers, ClaimExact(n) PROVE Rest'
  <2>0. PICK j : j = Current(n)
    OBVIOUS
  <2>1. j \in JobIds /\ job[j] \in Job /\ UNCHANGED accepted /\ ~Working(n)
    BY <1>4, <1>t, <2>0, CurrentType DEF ClaimExact, Working
  <2>2. CASE UNCHANGED job /\ (Return(n) \/ Advance(n))
    BY <1>t, <2>1, <2>2, <1>a, <1>b, ReturnQuits, AdvanceQuits, QuitStep
  <2>3. CASE /\ Expired(job[j]) /\ Advance(n)
             /\ job' = [job EXCEPT ![j] = DeadLetter(job[j], "CRASH_EXPIRED")]
    <3>1. /\ job[j].state = "LEASED"
          /\ job'[j].state = "DEAD_LETTER" /\ job'[j].reason = "CRASH_EXPIRED"
          /\ \A k \in JobIds \ {j} : job'[k] = job[k]
      BY <1>t, <2>1, <2>3 DEF Expired, DeadLetter, TypeInv, TypeOK, Job
    <3>2. \A k \in JobIds : JobOK(k)'
      BY <2>1, <3>1 DEF DeliveryInv, JobOK, Rejections
    <3>3. \A m \in Notifiers : Working(m) => HeldRow(job'[Current(m)])
      BY <1>c, <3>1 DEF DeliveryInv, WorkOK, HeldRow
    <3> QED
      BY <1>t, <2>1, <2>3, <3>2, <3>3, AdvanceQuits, QuitStep
  <2>4. CASE /\ Ready(job[j])
             /\ job' = [job EXCEPT ![j] = Leased(job[j])]
             /\ notifier' = [notifier EXCEPT ![n] =
                  [notifier[n] EXCEPT !.pc = "resolve", !.seen = clock,
                                      !.token = job[j].attempts + 1]]
    <3>1. /\ job[j].state \in {"PENDING", "RETRY"} /\ accepted[j] = 0
          /\ job[j].reason = "none"
      BY <2>1, <2>4 DEF Ready, DeliveryInv, JobOK
    <3>2. /\ job'[j].state = "LEASED" /\ job'[j].reason = "none"
          /\ \A k \in JobIds \ {j} : job'[k] = job[k]
      BY <1>t, <2>1, <2>4, <3>1 DEF Leased, TypeInv, TypeOK, Job
    <3>3. \A k \in JobIds : JobOK(k)'
      BY <2>1, <3>1, <3>2 DEF DeliveryInv, JobOK, Rejections
    <3>4. \A m \in Notifiers : Working(m) => Current(m) # j
      BY <3>1 DEF DeliveryInv, WorkOK, HeldRow
    <3>5. /\ notifier'[n].pc = "resolve" /\ Current(n)' = Current(n)
          /\ \A m \in Notifiers \ {n} : notifier'[m] = notifier[m]
      BY <1>t, <2>4 DEF TypeInv, TypeOK, Notifier, Current
    <3>6. WorkOK(n)'
      BY <2>0, <2>1, <3>1, <3>2, <3>5 DEF WorkOK, HeldRow, Working
    <3> QED
      BY <1>c, <2>0, <2>1, <3>2, <3>3, <3>4, <3>5, <3>6, GoOnStep
  <2> QED
    BY <1>4, <2>0, <2>2, <2>3, <2>4 DEF ClaimExact
<1>5. ASSUME NEW n \in Notifiers, Resolve(n) PROVE Rest'
  <2>1. /\ Current(n)' = Current(n)
        /\ \A m \in Notifiers \ {n} : notifier'[m] = notifier[m]
        /\ \/ notifier'[n].pc = "send"
           \/ notifier'[n].pc = "settle" /\ notifier'[n].out = "MATERIAL_REJECTED"
    BY <1>5, <1>t DEF Resolve, TypeInv, TypeOK, Notifier, Current
  <2>2. Working(n) /\ notifier[n].pc = "resolve" /\ UNCHANGED <<job, accepted>>
    BY <1>5 DEF Resolve, Working
  <2>3. HeldRow(job[Current(n)]) /\ accepted[Current(n)] = 0
    BY <2>2 DEF DeliveryInv, WorkOK
  <2>4. WorkOK(n)'
    BY <2>1, <2>2, <2>3 DEF WorkOK, HeldRow, Rejections
  <2>5. \A m \in Notifiers \ {n} : Working(m) => Current(m) # Current(n)
    BY <2>2 DEF DeliveryInv, OneWorkerPerJob
  <2> QED
    BY <2>1, <2>2, <2>4, <2>5, <1>a, GoOnStep
<1>6. ASSUME NEW n \in Notifiers, Send(n) PROVE Rest'
  <2>0. PICK j : j = Current(n)
    OBVIOUS
  <2>1. PICK out \in Outcomes \ {"MATERIAL_REJECTED", "none"}, taken \in 0..1 :
          /\ out = "ACCEPTED" => taken = 1
          /\ out \in {"PROVIDER_REJECTED", "RETRYABLE"} => taken = 0
          /\ accepted' = [accepted EXCEPT ![j] = @ + taken]
          /\ notifier' = [notifier EXCEPT ![n] = [notifier[n] EXCEPT !.pc = "settle",
                                                                    !.out = out]]
    BY <1>6, <2>0 DEF Send
  <2>2. j \in JobIds /\ Working(n) /\ notifier[n].pc = "send" /\ UNCHANGED job
    BY <1>6, <1>c, <2>0 DEF Send, Working
  <2>3. HeldRow(job[j]) /\ accepted[j] = 0
    BY <2>0, <2>2 DEF DeliveryInv, WorkOK
  <2>4. accepted'[j] = taken /\ \A k \in JobIds \ {j} : accepted'[k] = accepted[k]
    BY <1>t, <2>1, <2>2, <2>3 DEF TypeInv, TypeOK
  <2>5. /\ notifier'[n].pc = "settle" /\ notifier'[n].out = out
        /\ Current(n)' = Current(n)
        /\ \A m \in Notifiers \ {n} : notifier'[m] = notifier[m]
    BY <1>t, <2>1 DEF TypeInv, TypeOK, Notifier, Current
  <2>6. WorkOK(n)'
    BY <2>0, <2>1, <2>2, <2>3, <2>4, <2>5 DEF WorkOK, HeldRow, Rejections, Outcomes
  <2>7. job[j].state # "DELIVERED" /\ job[j].reason \notin Rejections \cup {"RETRY_BUDGET"}
    BY <2>2, <2>3 DEF DeliveryInv, JobOK, HeldRow, Rejections
  <2>8. \A k \in JobIds : JobOK(k)'
    BY <2>1, <2>2, <2>3, <2>4, <2>7 DEF DeliveryInv, JobOK, HeldRow
  <2>9. \A m \in Notifiers \ {n} : Working(m) => Current(m) # Current(n)
    BY <2>2 DEF DeliveryInv, OneWorkerPerJob
  <2> QED
    BY <1>c, <2>0, <2>2, <2>4, <2>5, <2>6, <2>8, <2>9, GoOnStep
<1>7. ASSUME NEW n \in Notifiers, Settle(n) PROVE Rest'
  <2>1. Quits(n) /\ UNCHANGED accepted /\ Working(n)
    BY <1>7, <1>t, ReturnQuits, AdvanceQuits DEF Settle, Working
  <2>2. CASE UNCHANGED job
    BY <2>1, <2>2, <1>a, <1>b, QuitStep
  <2>3. CASE /\ LeaseActive(n)
             /\ \E row \in Settled(job[Current(n)], notifier[n].out) :
                  job' = [job EXCEPT ![Current(n)] = row]
    <3>1. \A j \in JobIds : JobOK(j)'
      BY <1>7, <2>1, <2>3, SettledDelivery DEF Settle, LeaseActive
    <3>2. ASSUME NEW m \in Notifiers \ {n}, Working(m) PROVE HeldRow(job'[Current(m)])
      <4>1. Current(m) # Current(n) /\ Current(m) \in JobIds /\ HeldRow(job[Current(m)])
        BY <1>c, <2>1, <3>2 DEF DeliveryInv, OneWorkerPerJob, WorkOK
      <4> QED
        BY <1>t, <2>3, <4>1 DEF TypeInv, TypeOK
    <3> QED
      BY <2>1, <3>1, <3>2, QuitStep
  <2> QED
    BY <1>7, <2>2, <2>3 DEF Settle
<1>8. ASSUME NEW n \in Notifiers, Abort(n) PROVE Rest'
  BY <1>8, <1>t, <1>a, <1>b, ReturnQuits, QuitStep DEF Abort
<1>9. CASE PruneByOthers
  <2>1. (\A j \in JobIds : JobOK(j)') /\ UNCHANGED <<accepted, notifier>>
    BY <1>9, PruneDelivery DEF PruneByOthers
  <2>2. \A m \in Notifiers : Working(m) => HeldRow(job'[Current(m)])
    BY <1>9, PruneDelivery DEF PruneByOthers
  <2> QED
    BY <1>t, <2>1, <2>2
    DEF DeliveryInv, WorkOK, HeldRow, OneWorkerPerJob, Working, Current
<1>10. CASE \E c \in 0..MaxClock : SetClock(c)
  <2>1. UNCHANGED <<job, accepted, notifier>>
    BY <1>10 DEF SetClock
  <2> QED
    BY <1>t, <1>a, <2>1 DEF DeliveryInv, WorkOK, OneWorkerPerJob, Working, Current
<1> QED
  <2>1. Rest' => DeliveryInv'
    BY <1>t DEF DeliveryInv
  <2> HIDE DEF Rest
  <2> QED
    BY <2>1, <1>0, <1>1, <1>2, <1>3, <1>4, <1>5, <1>6, <1>7, <1>8, <1>9, <1>10 DEF Next, Run

\* The inductive invariant behind the delivery theorems.
THEOREM DeliveryInvariant == Spec => []DeliveryInv
  BY DeliveryInit, DeliveryStep, PTL DEF Spec

\* A leased, unsettled job has one worker, whatever clocks and leases do
\* (outbox.rs claim_exact dead-letters expired leases).
THEOREM OneWorker == Spec => []OneWorkerPerJob
  BY DeliveryInvariant, PTL DEF DeliveryInv

\* The provider accepts a job's message at most once, for any number of
\* notifiers, retries, expired leases and clock changes.
THEOREM AcceptedOnce == Spec => []AcceptedOncePerJob
<1>1. DeliveryInv => AcceptedOncePerJob
  BY DEF DeliveryInv, JobOK, AcceptedOncePerJob
<1> QED
  BY <1>1, DeliveryInvariant, PTL

\* What a terminal row says of the provider is true.
THEOREM TrueRecords == Spec => []RecordsAreTrue
<1>1. DeliveryInv => RecordsAreTrue
  BY DEF DeliveryInv, JobOK, RecordsAreTrue
<1> QED
  BY <1>1, DeliveryInvariant, PTL

-----------------------------------------------------------------------------
(* Terminal rows *)

LEMMA TerminalStep ==
  ASSUME TypeInv, [Next]_vars, NEW j \in JobIds, Terminal(j)
  PROVE  job'[j] = job[j] \/ job'[j].state = "PRUNED"
<1>1. CASE UNCHANGED job
  BY <1>1
<1>2. ASSUME NEW at, PruneRows(at) PROVE job'[j] = job[j] \/ job'[j].state = "PRUNED"
  <2>1. PrunedRow(j).state = "PRUNED"
    BY DEF PrunedRow, Unused
  <2> QED
    BY <1>2, <2>1, PruneEffect
<1>3. ASSUME NEW k, NEW row, job' = [job EXCEPT ![k] = row], k # j PROVE job'[j] = job[j]
  BY <1>3 DEF TypeInv, TypeOK
<1>4. ASSUME NEW n \in Notifiers, Enqueue(n) PROVE job'[j] = job[j]
  BY <1>4, <1>1, <1>3 DEF Enqueue, Terminal
<1>5. ASSUME NEW n \in Notifiers, ClaimExact(n) PROVE job'[j] = job[j]
  BY <1>5, <1>1, <1>3 DEF ClaimExact, Terminal, Ready, Expired
<1>6. ASSUME NEW n \in Notifiers, Settle(n) PROVE job'[j] = job[j]
  BY <1>6, <1>1, <1>3 DEF Settle, Terminal, LeaseActive
<1>7. ASSUME NEW n \in Notifiers,
             Start(n) \/ Resolve(n) \/ Send(n) \/ Abort(n) \/ \E c \in 0..MaxClock : SetClock(c)
      PROVE  UNCHANGED job
  BY <1>7 DEF Start, Resolve, Send, Abort, SetClock
<1>8. (\E c \in 0..MaxClock : SetClock(c)) \/ UNCHANGED vars => UNCHANGED job
  BY DEF SetClock, vars
<1> QED
  BY <1>1, <1>2, <1>4, <1>5, <1>6, <1>7, <1>8 DEF Next, Run, Prune, PruneByOthers

\* A delivered or dead-lettered row only ever leaves the outbox: a late
\* settlement of an expired lease changes nothing (outbox.rs validate_active_lease).
THEOREM TerminalRowsFinal == Spec => TerminalIsFinal
<1>1. TypeInv /\ [Next]_vars =>
        [\A j \in JobIds : Terminal(j) => job'[j] = job[j] \/ job'[j].state = "PRUNED"]_vars
  BY TerminalStep
<1>2. Spec => []TypeInv
  BY TypeInit, TypeStep, PTL DEF Spec
<1> QED
  BY <1>1, <1>2, PTL DEF Spec, TerminalIsFinal

-----------------------------------------------------------------------------
(* One acceptance per approval and channel, until the clock is set back *)

\* Every row is younger than the approval; a row is pruned only when it has
\* expired.
TimeInv ==
    /\ ReceivedAt <= clock
    /\ \A n \in Notifiers : notifier[n].pc # "idle" =>
         ReceivedAt <= notifier[n].now /\ notifier[n].now <= clock
    /\ \A j \in JobIds : Stored(j) => ReceivedAt <= job[j].updatedAt
    /\ \A j \in JobIds : job[j].state = "PRUNED" => ExpiresAt <= clock

\* The idempotency key is unique among the stored rows.
OneRowPerChannel ==
    \A j, k \in JobIds : Stored(j) /\ Stored(k) /\ job[j].channel = job[k].channel => j = k

\* The provider has, or is about to get, the message of j.
Sendable(j) ==
    accepted[j] > 0 \/ \E n \in Notifiers : notifier[n].pc = "send" /\ Current(n) = j

OneSendPerChannel ==
    \A j, k \in JobIds :
        Sendable(j) /\ Sendable(k) /\ job[j].channel = job[k].channel => j = k

MonotoneInv == DeliveryInv /\ TimeInv /\ OneRowPerChannel /\ OneSendPerChannel

RetentionInv == DeliveryInv /\ (~setBack => MonotoneInv)

LEMMA RetentionInit == Init => RetentionInv
<1> SUFFICES ASSUME Init PROVE RetentionInv
  OBVIOUS
<1>1. DeliveryInv
  BY DeliveryInit
<1>2. TimeInv
  BY Constants DEF Init, TimeInv, Idle, Unused, Stored
<1>3. OneRowPerChannel
  BY DEF Init, OneRowPerChannel, Unused, Stored
<1>4. \A j \in JobIds : ~Sendable(j)
  BY DEF Init, Sendable, Idle
<1> QED
  BY <1>1, <1>2, <1>3, <1>4 DEF RetentionInv, MonotoneInv, OneSendPerChannel

\* What a step may do to row j.
Moved(j) ==
    /\ Stored(j) /\ Stored(j)'
    /\ job'[j].channel = job[j].channel /\ job'[j].updatedAt = clock

Dropped(j) ==
    /\ Stored(j) /\ job'[j].state = "PRUNED"
    /\ job'[j].channel = job[j].channel /\ ExpiresAt <= clock

Added(j) ==
    /\ job[j].state = "UNUSED" /\ job'[j].state = "PENDING"
    /\ ReceivedAt <= job'[j].updatedAt
    /\ \A k \in JobIds \ {j} : job'[k] = job[k] /\ ~(Stored(k) /\ job[k].channel = job'[j].channel)

RowStep(j) == job'[j] = job[j] \/ Moved(j) \/ Dropped(j) \/ Added(j)

LEMMA PruneRow ==
  ASSUME TypeInv, TimeInv, NEW at \in Nat, at <= clock, PruneRows(at), NEW j \in JobIds
  PROVE  RowStep(j)
<1>1. PICK S \in SUBSET {k \in JobIds : Terminal(k) /\ job[k].updatedAt + Retention <= at} :
        job' = [k \in JobIds |-> IF k \in S THEN PrunedRow(k) ELSE job[k]]
  BY PruneEffect
<1>2. CASE j \in S
  <2>1. PrunedRow(j).state = "PRUNED" /\ PrunedRow(j).channel = job[j].channel
    BY DEF PrunedRow, Unused
  <2>2. Stored(j) /\ job[j].updatedAt + Retention <= at
    BY <1>2 DEF Terminal, Stored
  <2>3. job[j].updatedAt \in Nat /\ clock \in Nat /\ ReceivedAt <= job[j].updatedAt
    BY <2>2 DEF TypeInv, TypeOK, Job, TimeInv
  <2>4. ExpiresAt <= clock
    BY <2>2, <2>3, Constants, RetentionAssumption
  <2> QED
    BY <1>1, <1>2, <2>1, <2>2, <2>4 DEF RowStep, Dropped
<1>3. CASE j \notin S
  BY <1>1, <1>3 DEF RowStep
<1> QED
  BY <1>2, <1>3

LEMMA RowSteps ==
  ASSUME TypeInv, TimeInv, [Next]_vars, NEW j \in JobIds
  PROVE  RowStep(j)
<1>1. CASE UNCHANGED job
  BY <1>1 DEF RowStep
<1>2. ASSUME NEW n \in Notifiers, Prune(n) PROVE RowStep(j)
  <2>1. notifier[n].now \in Nat /\ notifier[n].now <= clock
    BY <1>2 DEF Prune, TypeInv, TypeOK, Notifier, TimeInv
  <2> QED
    BY <1>2, <2>1, PruneRow DEF Prune
<1>3. CASE PruneByOthers
  <2>1. clock \in Nat /\ clock <= clock
    BY DEF TypeInv, TypeOK
  <2> QED
    BY <1>3, <2>1, PruneRow DEF PruneByOthers
<1>4. ASSUME NEW k \in JobIds, NEW row, job' = [job EXCEPT ![k] = row], Stored(k),
             row.state \notin {"UNUSED", "PRUNED"}, row.channel = job[k].channel,
             row.updatedAt = clock
      PROVE  RowStep(j)
  BY <1>4 DEF RowStep, Moved, Stored, TypeInv, TypeOK
<1>5. ASSUME NEW n \in Notifiers, Enqueue(n) PROVE RowStep(j)
  <2>1. CASE \E k \in JobIds :
               /\ job[k].state = "UNUSED"
               /\ job' = [job EXCEPT ![k] = Pending(notifier[n].i, notifier[n].now)]
               /\ \A l \in JobIds : ~(Stored(l) /\ job[l].channel = notifier[n].i)
    <3>1. PICK k \in JobIds :
               /\ job[k].state = "UNUSED"
               /\ job' = [job EXCEPT ![k] = Pending(notifier[n].i, notifier[n].now)]
               /\ \A l \in JobIds : ~(Stored(l) /\ job[l].channel = notifier[n].i)
      BY <2>1
    <3>2. /\ job'[k].state = "PENDING" /\ job'[k].channel = notifier[n].i
          /\ job'[k].updatedAt = notifier[n].now
          /\ \A l \in JobIds \ {k} : job'[l] = job[l]
      BY <3>1 DEF TypeInv, TypeOK, Pending, Unused
    <3>3. ReceivedAt <= notifier[n].now
      BY <1>5 DEF Enqueue, TimeInv
    <3> QED
      BY <3>1, <3>2, <3>3 DEF RowStep, Added
  <2> QED
    BY <1>5, <1>1, <2>1 DEF Enqueue
<1>6. ASSUME NEW n \in Notifiers, ClaimExact(n) PROVE RowStep(j)
  <2>0. PICK k : k = Current(n)
    OBVIOUS
  <2>1. k \in JobIds /\ job[k] \in Job
    BY <1>6, <2>0, CurrentType DEF ClaimExact
  <2>2. CASE Expired(job[k]) /\ job' = [job EXCEPT ![k] = DeadLetter(job[k], "CRASH_EXPIRED")]
    <3> DEFINE row == DeadLetter(job[k], "CRASH_EXPIRED")
    <3>1. /\ Stored(k) /\ row.state = "DEAD_LETTER"
          /\ row.channel = job[k].channel /\ row.updatedAt = clock
      BY <2>1, <2>2 DEF Expired, Stored, DeadLetter, Job
    <3> QED
      BY <1>4, <2>1, <2>2, <3>1
  <2>3. CASE Ready(job[k]) /\ job' = [job EXCEPT ![k] = Leased(job[k])]
    <3> DEFINE row == Leased(job[k])
    <3>1. /\ Stored(k) /\ row.state = "LEASED"
          /\ row.channel = job[k].channel /\ row.updatedAt = clock
      BY <2>1, <2>3 DEF Ready, Stored, Leased, Job
    <3> QED
      BY <1>4, <2>1, <2>3, <3>1
  <2> QED
    BY <1>1, <1>6, <2>0, <2>2, <2>3 DEF ClaimExact
<1>7. ASSUME NEW n \in Notifiers, Settle(n) PROVE RowStep(j)
  <2>0. PICK k : k = Current(n)
    OBVIOUS
  <2>1. k \in JobIds /\ job[k] \in Job
    BY <1>7, <2>0, CurrentType DEF Settle, Working
  <2>2. ASSUME job[k].state = "LEASED", NEW row \in Settled(job[k], notifier[n].out),
               job' = [job EXCEPT ![k] = row]
        PROVE  RowStep(j)
    <3>1. \/ row = Delivered(job[k]) \/ row = DeadLetter(job[k], notifier[n].out)
          \/ \E d \in RetryDelays : row = Retried(job[k], d)
      BY <2>2 DEF Settled
    <3>2. /\ row.state \in {"DELIVERED", "DEAD_LETTER", "RETRY"}
          /\ row.channel = job[k].channel /\ row.updatedAt = clock
      BY <2>1, <3>1 DEF Delivered, DeadLetter, Retried, Job
    <3> QED
      BY <1>4, <2>1, <2>2, <3>2 DEF Stored
  <2> QED
    BY <1>1, <1>7, <2>0, <2>2 DEF Settle, LeaseActive
<1>8. ASSUME NEW n \in Notifiers, Start(n) \/ Resolve(n) \/ Send(n) \/ Abort(n)
      PROVE  UNCHANGED job
  BY <1>8 DEF Start, Resolve, Send, Abort
<1>9. (\E c \in 0..MaxClock : SetClock(c)) \/ UNCHANGED vars => UNCHANGED job
  BY DEF SetClock, vars
<1> QED
  BY <1>1, <1>2, <1>3, <1>5, <1>6, <1>7, <1>8, <1>9 DEF Next, Run

\* A notifier's own times: it samples the clock when it starts, and keeps it.
LEMMA SampledTime ==
  ASSUME TypeInv, TimeInv, [Next]_vars, NEW n \in Notifiers, notifier'[n].pc # "idle"
  PROVE  \/ notifier'[n].now = notifier[n].now /\ notifier[n].pc # "idle"
         \/ notifier'[n].now = clock
<1>0. CASE UNCHANGED notifier
  BY <1>0
<1>1. ASSUME NEW m \in Notifiers, m # n,
             Start(m) \/ Run(m) \/ Abort(m)
      PROVE  notifier'[n] = notifier[n]
  BY <1>1
  DEF Start, Run, Abort, Prune, Enqueue, Enqueued, ClaimExact, Resolve, Send, Settle,
      Return, Advance, TypeInv, TypeOK
<1>2. CASE Start(n)
  BY <1>2 DEF Start, TypeInv, TypeOK, Idle
<1>3. CASE Return(n)
  BY <1>3 DEF Return, TypeInv, TypeOK, Idle
<1>4. CASE Advance(n) /\ notifier[n].pc # "idle"
  BY <1>4 DEF Advance, TypeInv, TypeOK, Idle, Notifier
<1>5. CASE Prune(n)
  BY <1>5 DEF Prune, TypeInv, TypeOK, Notifier
<1>6. CASE Enqueue(n)
  <2>1. ASSUME NEW j \in JobIds, Enqueued(n, j) PROVE notifier'[n].now = notifier[n].now
    BY <2>1 DEF Enqueued, TypeInv, TypeOK, Notifier
  <2>2. notifier[n].pc # "idle" /\ (Return(n) \/ \E j \in JobIds : Enqueued(n, j))
    BY <1>6 DEF Enqueue
  <2> QED
    BY <1>3, <2>1, <2>2
<1>7. CASE ClaimExact(n)
  BY <1>3, <1>4, <1>7 DEF ClaimExact, TypeInv, TypeOK, Notifier
<1>8. CASE Resolve(n)
  BY <1>8 DEF Resolve, TypeInv, TypeOK, Notifier
<1>9. CASE Send(n)
  BY <1>9 DEF Send, TypeInv, TypeOK, Notifier
<1>10. CASE Settle(n)
  BY <1>3, <1>4, <1>10 DEF Settle
<1>11. CASE Abort(n)
  BY <1>3, <1>11 DEF Abort
<1> QED
  BY <1>0, <1>1, <1>2, <1>5, <1>6, <1>7, <1>8, <1>9, <1>10, <1>11
  DEF Next, Run, PruneByOthers, SetClock, vars

\* The history is not forgotten.
LEMMA SetBackStays == ASSUME [Next]_vars, ~setBack' PROVE ~setBack
<1>1. ASSUME NEW n \in Notifiers, Start(n) \/ Run(n) \/ Abort(n) PROVE UNCHANGED setBack
  BY <1>1
  DEF Run, Start, Prune, Enqueue, ClaimExact, Resolve, Send, Settle, Abort
<1>2. PruneByOthers \/ UNCHANGED vars => UNCHANGED setBack
  BY DEF PruneByOthers, vars
<1>3. ASSUME NEW c \in 0..MaxClock, SetClock(c) PROVE ~setBack
  BY <1>3 DEF SetClock
<1> QED
  BY <1>1, <1>2, <1>3 DEF Next

LEMMA TimeStep ==
  ASSUME ~setBack', TypeInv, TimeInv, [Next]_vars
  PROVE  TimeInv'
<1>1. clock \in Nat /\ clock' \in Nat /\ clock <= clock'
  <2>1. ASSUME NEW n \in Notifiers, Start(n) \/ Run(n) \/ Abort(n) PROVE UNCHANGED clock
    BY <2>1
    DEF Run, Start, Prune, Enqueue, ClaimExact, Resolve, Send, Settle, Abort
  <2>2. PruneByOthers \/ UNCHANGED vars => UNCHANGED clock
    BY DEF PruneByOthers, vars
  <2>3. clock \in Nat
    BY DEF TypeInv, TypeOK
  <2>4. ASSUME NEW c \in 0..MaxClock, SetClock(c) PROVE clock' \in Nat /\ clock <= clock'
    <3>1. clock' = c /\ ~(c < clock)
      BY <2>4, Zenon DEF SetClock
    <3>2. c \in Nat
      BY OutboxAssumption
    <3> QED
      BY <2>3, <3>1, <3>2
  <2> QED
    BY <2>1, <2>2, <2>3, <2>4 DEF Next
<1>2. ReceivedAt <= clock'
  BY <1>1, Constants DEF TimeInv
<1>3. ASSUME NEW n \in Notifiers, notifier'[n].pc # "idle"
      PROVE  ReceivedAt <= notifier'[n].now /\ notifier'[n].now <= clock'
  BY <1>1, <1>3, SampledTime, Constants DEF TimeInv, TypeInv, TypeOK, Notifier
<1>4. ASSUME NEW j \in JobIds, Stored(j)' PROVE ReceivedAt <= job'[j].updatedAt
  BY <1>4, RowSteps DEF RowStep, Moved, Dropped, Added, Stored, TimeInv
<1>5. ASSUME NEW j \in JobIds, job'[j].state = "PRUNED" PROVE ExpiresAt <= clock'
  <2>1. ExpiresAt <= clock
    BY <1>5, RowSteps DEF RowStep, Moved, Dropped, Added, Stored, TimeInv
  <2> QED
    BY <1>1, <2>1, Constants
<1> QED
  BY <1>2, <1>3, <1>4, <1>5 DEF TimeInv

LEMMA OneRowStep ==
  ASSUME TypeInv, TimeInv, OneRowPerChannel, [Next]_vars
  PROVE  OneRowPerChannel'
<1> SUFFICES ASSUME NEW j \in JobIds, NEW k \in JobIds, Stored(j)', Stored(k)',
                    job'[j].channel = job'[k].channel, j # k
             PROVE  FALSE
  BY DEF OneRowPerChannel
<1>1. RowStep(j) /\ RowStep(k)
  BY RowSteps
<1>2. CASE Added(j)
  BY <1>2 DEF Added, Stored
<1>3. CASE Added(k)
  BY <1>3 DEF Added, Stored
<1>4. CASE ~Added(j) /\ ~Added(k)
  <2>1. /\ Stored(j) /\ job'[j].channel = job[j].channel
        /\ Stored(k) /\ job'[k].channel = job[k].channel
    BY <1>1, <1>4 DEF RowStep, Moved, Dropped, Stored
  <2> QED
    BY <2>1 DEF OneRowPerChannel
<1> QED
  BY <1>2, <1>3, <1>4

LEMMA SendableUsed ==
  ASSUME DeliveryInv, NEW j \in JobIds, Sendable(j)
  PROVE  job[j].state # "UNUSED"
<1>1. accepted[j] \in Nat
  BY DEF DeliveryInv, TypeInv, TypeOK
<1> QED
  BY <1>1 DEF DeliveryInv, JobOK, WorkOK, HeldRow, Working, Sendable

\* A job becomes sendable only when its worker finds the approval unexpired.
LEMMA SendableStep ==
  ASSUME DeliveryInv, [Next]_vars, NEW j \in JobIds, Sendable(j)'
  PROVE  Sendable(j) \/ (HeldRow(job[j]) /\ clock < ExpiresAt /\ UNCHANGED job)
<1> DEFINE Goal == Sendable(j) \/ (HeldRow(job[j]) /\ clock < ExpiresAt /\ UNCHANGED job)
<1>t. TypeInv
  BY DEF DeliveryInv
<1>1. ASSUME NEW n \in Notifiers, Quits(n), UNCHANGED accepted PROVE Goal
  BY <1>1 DEF Sendable, Quits, Current
<1>2. ASSUME UNCHANGED <<notifier, accepted>> PROVE Goal
  BY <1>2 DEF Sendable, Current
<1>3. ASSUME NEW n \in Notifiers, Start(n) \/ Prune(n) PROVE Goal
  <2>1. Quits(n)
    BY <1>3, <1>t DEF Start, Prune, Quits, TypeInv, TypeOK, Notifier, Idle
  <2> QED
    BY <1>1, <1>3, <2>1 DEF Start, Prune
<1>4. ASSUME NEW n \in Notifiers, Enqueue(n) \/ Settle(n) \/ Abort(n) PROVE Goal
  <2>1. Quits(n) /\ UNCHANGED accepted
    BY <1>4, <1>t, EnqueuedQuits, ReturnQuits, AdvanceQuits DEF Enqueue, Settle, Abort
  <2> QED
    BY <1>1, <2>1
<1>5. ASSUME NEW n \in Notifiers, ClaimExact(n) PROVE Goal
  <2>1. CASE Return(n) \/ Advance(n)
    BY <1>1, <1>5, <1>t, <2>1, ReturnQuits, AdvanceQuits DEF ClaimExact
  <2>2. CASE ~(Return(n) \/ Advance(n))
    <3>1. /\ notifier'[n].pc = "resolve" /\ UNCHANGED accepted
          /\ \A m \in Notifiers \ {n} : notifier'[m] = notifier[m]
      BY <1>5, <1>t, <2>2 DEF ClaimExact, TypeInv, TypeOK, Notifier
    <3> QED
      BY <3>1 DEF Sendable, Current
  <2> QED
    BY <2>1, <2>2
<1>6. ASSUME NEW n \in Notifiers, Resolve(n) PROVE Goal
  <2>1. /\ UNCHANGED <<job, accepted>> /\ Working(n)
        /\ Current(n)' = Current(n)
        /\ notifier'[n].pc = "send" => clock < ExpiresAt
        /\ \A m \in Notifiers \ {n} : notifier'[m] = notifier[m]
    BY <1>6, <1>t DEF Resolve, Usable, TypeInv, TypeOK, Notifier, Current, Working
  <2>2. HeldRow(job[Current(n)])
    BY <2>1 DEF DeliveryInv, WorkOK
  <2> QED
    BY <2>1, <2>2 DEF Sendable, Current
<1>7. ASSUME NEW n \in Notifiers, Send(n) PROVE Goal
  <2>1. /\ notifier[n].pc = "send" /\ notifier'[n].pc = "settle"
        /\ \A m \in Notifiers \ {n} : notifier'[m] = notifier[m]
    BY <1>7, <1>t DEF Send, TypeInv, TypeOK, Notifier
  <2>2. j # Current(n) => accepted'[j] = accepted[j]
    BY <1>7, <1>t DEF Send, TypeInv, TypeOK
  <2> QED
    BY <2>1, <2>2 DEF Sendable, Current
<1>8. CASE PruneByOthers \/ (\E c \in 0..MaxClock : SetClock(c)) \/ UNCHANGED vars
  BY <1>2, <1>8 DEF PruneByOthers, SetClock, vars
<1> QED
  BY <1>3, <1>4, <1>5, <1>6, <1>7, <1>8 DEF Next, Run

LEMMA OneSendStep ==
  ASSUME MonotoneInv, [Next]_vars
  PROVE  OneSendPerChannel'
<1> SUFFICES ASSUME NEW j \in JobIds, NEW k \in JobIds, Sendable(j)', Sendable(k)',
                    job'[j].channel = job'[k].channel
             PROVE  j = k
  BY DEF OneSendPerChannel
<1> USE DEF MonotoneInv
<1>1. /\ Sendable(j) \/ (HeldRow(job[j]) /\ clock < ExpiresAt /\ UNCHANGED job)
      /\ Sendable(k) \/ (HeldRow(job[k]) /\ clock < ExpiresAt /\ UNCHANGED job)
  BY SendableStep
<1>2. job[j].state # "UNUSED" /\ job[k].state # "UNUSED"
  BY <1>1, SendableUsed DEF HeldRow
<1>3. CASE Sendable(j) /\ Sendable(k)
  <2>1. RowStep(j) /\ RowStep(k)
    BY RowSteps DEF DeliveryInv
  <2>2. job'[j].channel = job[j].channel /\ job'[k].channel = job[k].channel
    BY <1>2, <2>1 DEF RowStep, Moved, Dropped, Added
  <2> QED
    BY <1>3, <2>2 DEF OneSendPerChannel
<1>4. CASE clock < ExpiresAt /\ UNCHANGED job
  <2>1. clock \in Nat /\ ExpiresAt \in Nat
    BY Constants DEF DeliveryInv, TypeInv, TypeOK
  <2>2. job[j].state # "PRUNED" /\ job[k].state # "PRUNED"
    BY <1>4, <2>1 DEF TimeInv
  <2> QED
    BY <1>2, <1>4, <2>2 DEF Stored, OneRowPerChannel
<1> QED
  BY <1>1, <1>3, <1>4

\* While the clock is not set back, an approval's channel is notified at most
\* once: a row is only pruned when the approval has expired, and after that no
\* worker sends (notification.rs BatchMaterialResolver).
THEOREM AcceptedOnceEver == Spec => []AcceptedOncePerApproval
<1>1. RetentionInv /\ [Next]_vars => RetentionInv'
  <2> SUFFICES ASSUME RetentionInv, [Next]_vars PROVE RetentionInv'
    OBVIOUS
  <2>1. DeliveryInv' /\ TypeInv
    BY DeliveryStep DEF RetentionInv, DeliveryInv
  <2>2. ASSUME ~setBack' PROVE MonotoneInv'
    <3>1. ~setBack
      BY <2>2, SetBackStays
    <3>2. MonotoneInv
      BY <3>1 DEF RetentionInv
    <3>3. TimeInv' /\ OneRowPerChannel'
      BY <2>1, <2>2, <3>2, TimeStep, OneRowStep DEF MonotoneInv
    <3> QED
      BY <2>1, <3>2, <3>3, OneSendStep DEF MonotoneInv
  <2> QED
    BY <2>1, <2>2 DEF RetentionInv
<1>2. RetentionInv => AcceptedOncePerApproval
  BY DEF RetentionInv, MonotoneInv, OneSendPerChannel, Sendable, AcceptedOncePerApproval
<1> QED
  BY <1>1, <1>2, RetentionInit, PTL DEF Spec
-----------------------------------------------------------------------------
(* The outbox implements at-most-once delivery *)

Status == [j \in JobIds |-> Told(job[j])]

LEMMA CarriedType ==
  ASSUME TypeInv
  PROVE  Carried \subseteq JobIds
  BY CurrentType DEF Carried, Working

\* Who stops carrying puts its job down; nobody else carried it.
LEMMA CarriedLess ==
  ASSUME DeliveryInv, NEW n \in Notifiers, notifier'[n].pc \notin {"resolve", "send"},
         \A m \in Notifiers \ {n} : notifier'[m] = notifier[m],
         NEW j, j = Current(n), notifier[n].pc \in {"resolve", "send"}
  PROVE  j \in Carried /\ Carried' = Carried \ {j}
<1>1. \A m \in Notifiers \ {n} : notifier[m].pc \in {"resolve", "send"} => Current(m) # j
  BY DEF DeliveryInv, OneWorkerPerJob, Working
<1>2. \A m \in Notifiers \ {n} : Current(m)' = Current(m)
  BY DEF Current
<1>3. j \in Carried
  BY DEF Carried
<1>4. Carried' = {Current(m) : m \in {l \in Notifiers \ {n} : notifier[l].pc \in {"resolve", "send"}}}
  BY <1>2 DEF Carried
<1> QED
  BY <1>1, <1>3, <1>4 DEF Carried

\* A notifier that carries nothing before and after leaves the rest alone.
LEMMA CarriedSame ==
  ASSUME NEW n \in Notifiers, \A m \in Notifiers \ {n} : notifier'[m] = notifier[m],
         \/ /\ notifier[n].pc \notin {"resolve", "send"}
            /\ notifier'[n].pc \notin {"resolve", "send"}
         \/ /\ notifier[n].pc \in {"resolve", "send"}
            /\ notifier'[n].pc \in {"resolve", "send"}
            /\ Current(n)' = Current(n)
  PROVE  Carried' = Carried
<1>1. \A m \in Notifiers \ {n} : Current(m)' = Current(m)
  BY DEF Current
<1> QED
  BY <1>1 DEF Carried

\* A notifier that quits, the rows as they were.
LEMMA CarriedQuit ==
  ASSUME DeliveryInv, NEW n \in Notifiers, Quits(n)
  PROVE  \/ notifier[n].pc \notin {"resolve", "send"} /\ Carried' = Carried
         \/ \E j \in JobIds : j \in Carried /\ Carried' = Carried \ {j}
<1>1. CASE notifier[n].pc \notin {"resolve", "send"}
  BY <1>1, CarriedSame DEF Quits
<1>2. CASE notifier[n].pc \in {"resolve", "send"}
  <2>1. PICK j : j = Current(n)
    OBVIOUS
  <2>2. j \in Carried /\ Carried' = Carried \ {j}
    BY <1>2, <2>1, CarriedLess DEF Quits
  <2> QED
    BY <2>2, CarriedType DEF DeliveryInv
<1> QED
  BY <1>1, <1>2

LEMMA StatusOne ==
  ASSUME TypeInv, NEW j \in JobIds, NEW row, job' = [job EXCEPT ![j] = row]
  PROVE  Status' = [Status EXCEPT ![j] = Told(row)]
<1>1. \A k \in JobIds : Told(job'[k]) = IF k = j THEN Told(row) ELSE Told(job[k])
  BY DEF TypeInv, TypeOK
<1> QED
  BY <1>1 DEF Status

LEMMA StatusRow ==
  ASSUME TypeInv, NEW j \in JobIds
  PROVE  /\ Status[j] = Told(job[j])
         /\ job[j].state = "UNUSED" => Told(job[j]) = "new"
         /\ job[j].state \in {"PENDING", "RETRY"} => Told(job[j]) = "waiting"
         /\ job[j].state = "LEASED" => Told(job[j]) = "taken"
         /\ Terminal(j) => Told(job[j]) \in Delivery!Final
  BY DEF Status, Told, Terminal, Delivery!Final

\* A notifier that quits without touching a row puts its job down, if it was
\* still carrying one.
LEMMA RefineQuit ==
  ASSUME DeliveryInv, NEW n \in Notifiers, Quits(n), UNCHANGED <<job, accepted>>
  PROVE  Delivery!Next \/ UNCHANGED Delivery!vars
<1>1. Status' = Status
  BY DEF Status
<1>2. CASE Carried' = Carried
  BY <1>1, <1>2 DEF Delivery!vars, Status
<1>3. ASSUME NEW j \in JobIds, j \in Carried, Carried' = Carried \ {j}
      PROVE  Delivery!PutDown(j)
  BY <1>1, <1>3 DEF Delivery!PutDown, Status
<1> QED
  BY <1>2, <1>3, CarriedQuit DEF Delivery!Next

LEMMA RefinePrune ==
  ASSUME DeliveryInv, NEW at, PruneRows(at), UNCHANGED accepted, Carried' = Carried
  PROVE  Delivery!Next
<1>1. PICK S \in SUBSET {j \in JobIds : Terminal(j) /\ job[j].updatedAt + Retention <= at} :
        job' = [j \in JobIds |-> IF j \in S THEN PrunedRow(j) ELSE job[j]]
  BY PruneEffect
<1>2. \A j : Told(PrunedRow(j)) = "forgotten"
  BY DEF PrunedRow, Unused, Told
<1>3. \A j \in S : j \in JobIds /\ Status[j] \in Delivery!Final
  BY StatusRow DEF DeliveryInv
<1>4. Status' = [j \in JobIds |-> IF j \in S THEN "forgotten" ELSE Status[j]]
  BY <1>1, <1>2 DEF Status
<1>5. Delivery!Forget(S)
  BY <1>3, <1>4 DEF Delivery!Forget, Status
<1> QED
  BY <1>3, <1>5 DEF Delivery!Next

LEMMA RefineEnqueue ==
  ASSUME DeliveryInv, NEW n \in Notifiers, Enqueue(n)
  PROVE  Delivery!Next \/ UNCHANGED Delivery!vars
<1>t. TypeInv
  BY DEF DeliveryInv
<1>1. Quits(n) /\ UNCHANGED accepted /\ notifier[n].pc = "enqueue"
  BY <1>t, EnqueuedQuits, ReturnQuits DEF Enqueue
<1>2. CASE UNCHANGED job
  BY <1>1, <1>2, RefineQuit
<1>3. ASSUME NEW j \in JobIds, job[j].state = "UNUSED",
             job' = [job EXCEPT ![j] = Pending(notifier[n].i, notifier[n].now)]
      PROVE  Delivery!Post(j)
  <2>1. Carried' = Carried
    BY <1>1, CarriedSame DEF Quits
  <2> PICK row : row = Pending(notifier[n].i, notifier[n].now)
    OBVIOUS
  <2>2. Told(row) = "waiting"
    BY DEF Pending, Unused, Told
  <2>3. Status[j] = "new"
    BY <1>t, <1>3, StatusRow
  <2>4. Status' = [Status EXCEPT ![j] = "waiting"]
    BY <1>t, <1>3, <2>2, StatusOne
  <2> QED
    BY <1>1, <2>1, <2>3, <2>4 DEF Delivery!Post, Status
<1> QED
  BY <1>2, <1>3 DEF Enqueue, Delivery!Next

\* A claim takes a waiting job that nobody works on, or gives up an expired one.
LEMMA RefineClaim ==
  ASSUME DeliveryInv, NEW n \in Notifiers, ClaimExact(n)
  PROVE  Delivery!Next \/ UNCHANGED Delivery!vars
<1>t. TypeInv
  BY DEF DeliveryInv
<1>0. PICK j : j = Current(n)
  OBVIOUS
<1>1. j \in JobIds /\ job[j] \in Job /\ UNCHANGED accepted /\ notifier[n].pc = "claim"
  BY <1>t, <1>0, CurrentType DEF ClaimExact
<1>2. CASE UNCHANGED job /\ (Return(n) \/ Advance(n))
  BY <1>t, <1>1, <1>2, ReturnQuits, AdvanceQuits, RefineQuit
<1>3. ASSUME Expired(job[j]), Advance(n),
             job' = [job EXCEPT ![j] = DeadLetter(job[j], "CRASH_EXPIRED")]
      PROVE  Delivery!Report(j, "doubt")
  <2>1. Carried' = Carried
    BY <1>t, <1>1, <1>3, AdvanceQuits, CarriedSame DEF Quits
  <2> PICK row : row = DeadLetter(job[j], "CRASH_EXPIRED")
    OBVIOUS
  <2>2. Told(row) = "doubt"
    BY <1>1 DEF DeadLetter, Told, Job, Rejections
  <2>3. Status[j] = "taken"
    BY <1>t, <1>1, <1>3, StatusRow DEF Expired
  <2>4. Status' = [Status EXCEPT ![j] = "doubt"]
    BY <1>t, <1>1, <1>3, <2>2, StatusOne
  <2> QED
    BY <1>1, <2>1, <2>3, <2>4 DEF Delivery!Report, Status
<1>4. ASSUME Ready(job[j]), job' = [job EXCEPT ![j] = Leased(job[j])],
             notifier' = [notifier EXCEPT ![n] =
               [notifier[n] EXCEPT !.pc = "resolve", !.seen = clock,
                                   !.token = job[j].attempts + 1]]
      PROVE  Delivery!Take(j)
  <2>1. job[j].state \in {"PENDING", "RETRY"} /\ accepted[j] = 0
    BY <1>1, <1>4 DEF Ready, DeliveryInv, JobOK
  <2>2. j \notin Carried
    BY <2>1 DEF DeliveryInv, WorkOK, HeldRow, Carried, Working
  <2>3. /\ notifier'[n].pc = "resolve" /\ Current(n)' = j
        /\ \A m \in Notifiers \ {n} : notifier'[m] = notifier[m] /\ Current(m)' = Current(m)
    BY <1>t, <1>0, <1>4 DEF TypeInv, TypeOK, Notifier, Current
  <2>4. Carried' = Carried \cup {j}
    BY <1>1, <2>3 DEF Carried
  <2> PICK row : row = Leased(job[j])
    OBVIOUS
  <2>5. Told(row) = "taken"
    BY <1>1 DEF Leased, Told, Job
  <2>6. Status[j] = "waiting"
    BY <1>t, <1>1, <2>1, StatusRow
  <2>7. Status' = [Status EXCEPT ![j] = "taken"]
    BY <1>t, <1>1, <1>4, <2>5, StatusOne
  <2> QED
    BY <1>1, <2>1, <2>2, <2>4, <2>6, <2>7 DEF Delivery!Take, Status
<1> QED
  BY <1>0, <1>1, <1>2, <1>3, <1>4 DEF ClaimExact, Delivery!Next, Delivery!Final

LEMMA RefineResolve ==
  ASSUME DeliveryInv, NEW n \in Notifiers, Resolve(n)
  PROVE  Delivery!Next \/ UNCHANGED Delivery!vars
<1>0. PICK j : j = Current(n)
  OBVIOUS
<1>1. /\ Current(n)' = Current(n) /\ notifier[n].pc = "resolve"
      /\ notifier'[n].pc \in {"send", "settle"}
      /\ \A m \in Notifiers \ {n} : notifier'[m] = notifier[m]
      /\ UNCHANGED <<job, accepted>>
  BY DEF Resolve, DeliveryInv, TypeInv, TypeOK, Notifier, Current
<1>2. Status' = Status
  BY <1>1 DEF Status
<1>3. CASE notifier'[n].pc = "send"
  <2>1. Carried' = Carried
    BY <1>1, <1>3, CarriedSame
  <2> QED
    BY <1>1, <1>2, <2>1 DEF Delivery!vars, Status
<1>4. CASE notifier'[n].pc = "settle"
  <2>1. j \in Carried /\ Carried' = Carried \ {j}
    BY <1>0, <1>1, <1>4, CarriedLess
  <2>2. j \in JobIds
    BY <2>1, CarriedType DEF DeliveryInv
  <2>3. Delivery!PutDown(j)
    BY <1>1, <1>2, <2>1 DEF Delivery!PutDown, Status
  <2> QED
    BY <2>2, <2>3 DEF Delivery!Next
<1> QED
  BY <1>1, <1>3, <1>4

\* The one request: the provider accepts it or not.
LEMMA RefineSend ==
  ASSUME DeliveryInv, NEW n \in Notifiers, Send(n)
  PROVE  Delivery!Next
<1>0. PICK j : j = Current(n)
  OBVIOUS
<1>1. PICK out \in Outcomes, taken \in 0..1 :
        /\ accepted' = [accepted EXCEPT ![j] = @ + taken]
        /\ notifier' = [notifier EXCEPT ![n] = [notifier[n] EXCEPT !.pc = "settle", !.out = out]]
  BY <1>0 DEF Send
<1>2. notifier[n].pc = "send" /\ UNCHANGED job
  BY DEF Send
<1>3. /\ notifier'[n].pc = "settle"
      /\ \A m \in Notifiers \ {n} : notifier'[m] = notifier[m]
  BY <1>1 DEF DeliveryInv, TypeInv, TypeOK, Notifier
<1>4. j \in Carried /\ Carried' = Carried \ {j}
  BY <1>0, <1>2, <1>3, CarriedLess
<1>5. j \in JobIds /\ accepted \in [JobIds -> Nat]
  BY <1>4, CarriedType DEF DeliveryInv, TypeInv, TypeOK
<1>6. Status' = Status
  BY <1>2 DEF Status
<1>7. CASE taken = 1
  <2>1. accepted' = [accepted EXCEPT ![j] = accepted[j] + 1]
    BY <1>1, <1>7
  <2>2. Delivery!HandOver(j)
    BY <1>4, <1>6, <2>1 DEF Delivery!HandOver, Status
  <2> QED
    BY <1>5, <2>2 DEF Delivery!Next
<1>8. CASE taken = 0
  <2>1. accepted' = accepted
    <3>1. accepted[j] + 0 = accepted[j]
      BY <1>5
    <3> QED
      BY <1>1, <1>5, <1>8, <3>1
  <2>2. Delivery!PutDown(j)
    BY <1>4, <1>6, <2>1 DEF Delivery!PutDown, Status
  <2> QED
    BY <1>5, <2>2 DEF Delivery!Next
<1> QED
  BY <1>7, <1>8

\* A settlement reports what the provider did, and nobody carries the job.
LEMMA RefineSettle ==
  ASSUME DeliveryInv, NEW n \in Notifiers, Settle(n)
  PROVE  Delivery!Next \/ UNCHANGED Delivery!vars
<1>t. TypeInv
  BY DEF DeliveryInv
<1>0. PICK j : j = Current(n)
  OBVIOUS
<1>1. /\ notifier[n].pc = "settle" /\ Working(n) /\ Quits(n) /\ UNCHANGED accepted
      /\ j \in JobIds
  BY <1>t, <1>0, ReturnQuits, AdvanceQuits, CurrentType DEF Settle, Working
<1>2. CASE UNCHANGED job
  BY <1>1, <1>2, RefineQuit
<1>3. ASSUME NEW row \in Settled(job[j], notifier[n].out), job[j].state = "LEASED",
             job' = [job EXCEPT ![j] = row]
      PROVE  Delivery!Next
  <2>1. j \notin Carried
    BY <1>0, <1>1 DEF DeliveryInv, OneWorkerPerJob, Working, Carried
  <2>2. Carried' = Carried
    BY <1>1, CarriedSame DEF Quits
  <2>3. PICK s : s = Told(row)
    OBVIOUS
  <2>4. \/ s = "delivered" /\ accepted[j] = 1
        \/ s \in {"waiting", "failed"} /\ accepted[j] = 0
        \/ s = "doubt"
    BY <1>0, <1>1, <1>3, <2>3, SettledRow DEF Told, Rejections
  <2>5. Status[j] = "taken" /\ Status' = [Status EXCEPT ![j] = s]
    BY <1>t, <1>1, <1>3, <2>3, StatusRow, StatusOne
  <2>6. Delivery!Report(j, s)
    BY <1>1, <2>1, <2>2, <2>4, <2>5 DEF Delivery!Report, Status
  <2> QED
    BY <1>1, <2>4, <2>6 DEF Delivery!Next, Delivery!Final
<1> QED
  BY <1>0, <1>2, <1>3 DEF Settle, LeaseActive

\* Leases, tokens, retries, pruning, crashes and clock changes together give
\* at-most-once delivery with true reports, for any number of notifiers, jobs
\* and channels (outbox.rs, worker.rs dispatch_and_settle).
THEOREM OutboxRefinesAtMostOnce == Spec => ImplementsAtMostOnce
<1>1. Init => Delivery!Init
  <2> SUFFICES ASSUME Init PROVE Delivery!Init
    OBVIOUS
  <2>1. Carried = {}
    BY DEF Init, Carried, Idle
  <2>2. \A j \in JobIds : Told(job[j]) = "new"
    BY DEF Init, Told, Unused
  <2> QED
    BY <2>1, <2>2 DEF Init, Delivery!Init
<1>2. DeliveryInv /\ [Next]_vars => [Delivery!Next]_(Delivery!vars)
  <2> SUFFICES ASSUME DeliveryInv, [Next]_vars
               PROVE  Delivery!Next \/ UNCHANGED Delivery!vars
    OBVIOUS
  <2>t. TypeInv
    BY DEF DeliveryInv
  <2>1. ASSUME NEW n \in Notifiers, Start(n) \/ Abort(n)
        PROVE  Delivery!Next \/ UNCHANGED Delivery!vars
    <3>1. Quits(n) /\ UNCHANGED <<job, accepted>>
      BY <2>t, <2>1, ReturnQuits DEF Start, Abort, Quits, TypeInv, TypeOK, Idle
    <3> QED
      BY <3>1, RefineQuit
  <2>2. ASSUME NEW n \in Notifiers, Prune(n) PROVE Delivery!Next
    <3>1. Carried' = Carried
      BY <2>t, <2>2, CarriedSame DEF Prune, TypeInv, TypeOK, Notifier
    <3> QED
      BY <2>2, <3>1, RefinePrune DEF Prune
  <2>3. ASSUME PruneByOthers PROVE Delivery!Next
    <3>1. Carried' = Carried
      BY <2>3 DEF PruneByOthers, Carried, Current
    <3> QED
      BY <2>3, <3>1, RefinePrune DEF PruneByOthers
  <2>4. CASE (\E c \in 0..MaxClock : SetClock(c)) \/ UNCHANGED vars
    <3>1. UNCHANGED <<job, accepted, notifier>>
      BY <2>4 DEF SetClock, vars
    <3> QED
      BY <3>1 DEF Delivery!vars, Carried, Current
  <2> QED
    BY <2>1, <2>2, <2>3, <2>4, RefineEnqueue, RefineClaim, RefineResolve, RefineSend, RefineSettle
    DEF Next, Run
<1> QED
  BY <1>1, <1>2, DeliveryInvariant, PTL DEF Spec, ImplementsAtMostOnce, Delivery!Spec
=============================================================================
