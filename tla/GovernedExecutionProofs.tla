----------------------- MODULE GovernedExecutionProofs -----------------------
(***************************************************************************)
(* Proofs about GovernedExecution for every set of threads, proposals,     *)
(* sessions, contents and times.                                           *)
(***************************************************************************)
EXTENDS GovernedExecution, TLAPS

\* A working thread names a proposal; one that is about to record has an
\* observation; one that writes knows the prestate it was approved for.
ThreadShape ==
    \A t \in Threads :
        /\ th[t].pc # "idle" => th[t].p \in Proposals
        /\ th[t].pc = "observe" => th[t].out \in Observations
        /\ th[t].pc \in {"effect", "torn"} => th[t].pre \in States
        /\ th[t].pc = "reconcile" => th[t].p \in Mutations
        /\ th[t].pc = "reconcile" => th[t].found # "NONE"

TypeInv == TypeOK /\ ThreadShape

LEMMA TypeInit == Init => TypeInv
  BY ProposalsAssumption, ContentsAssumption, TimesAssumption
  DEF Init, TypeInv, TypeOK, ThreadShape, IdleThread, NoApproval, NoAttempt, Thread, Approval,
      Attempt, Budget, PCs, AttemptStates, Observations, Replies, States

ThreadsOK == th \in [Threads -> Thread] /\ ThreadShape

\* Assigning well-typed registers keeps the threads well-typed.
LEMMA SetOK ==
  ASSUME TypeInv, NEW t \in Threads, th[t].p \in Proposals,
         NEW pc \in PCs, NEW now \in Nat, NEW pre \in States \cup {None},
         NEW found \in AttemptStates, NEW out \in Observations \cup Replies \cup {"none"},
         pc = "observe" => out \in Observations,
         pc \in {"effect", "torn"} => pre \in States,
         pc = "reconcile" => th[t].p \in Mutations /\ found # "NONE",
         Set(t, pc, now, pre, found, out)
  PROVE  ThreadsOK'
  BY DEF Set, TypeInv, TypeOK, ThreadsOK, ThreadShape, Thread

LEMMA ReplyOK ==
  ASSUME TypeInv, NEW t \in Threads, th[t].pc # "idle", NEW r \in Replies, Reply(t, r)
  PROVE  ThreadsOK'
<1>1. th[t] \in Thread /\ th[t].p \in Proposals
  BY DEF TypeInv, TypeOK, ThreadShape
<1> QED
  BY <1>1, SetOK DEF Reply, Thread, PCs

LEMMA GotoOK ==
  ASSUME TypeInv, NEW t \in Threads, th[t].pc # "idle",
         NEW pc \in PCs \ {"observe", "effect", "torn", "reconcile"}, Goto(t, pc)
  PROVE  ThreadsOK'
<1>1. th[t] \in Thread /\ th[t].p \in Proposals
  BY DEF TypeInv, TypeOK, ThreadShape
<1> QED
  BY <1>1, SetOK DEF Goto, Thread

LEMMA ToObserveOK ==
  ASSUME TypeInv, NEW t \in Threads, th[t].pc # "idle", NEW o \in Observations,
         ToObserve(t, o) \/ ToObserveNow(t, o)
  PROVE  ThreadsOK'
<1>1. th[t] \in Thread /\ th[t].p \in Proposals /\ clock \in Nat
  BY DEF TypeInv, TypeOK, ThreadShape
<1> QED
  BY <1>1, SetOK DEF ToObserve, ToObserveNow, Thread, PCs

LEMMA TypeStep == TypeInv /\ [Next]_vars => TypeInv'
<1> USE ProposalsAssumption, ContentsAssumption, TimesAssumption
<1> SUFFICES ASSUME TypeInv, [Next]_vars PROVE TypeInv'
  OBVIOUS
<1>0. CASE UNCHANGED vars
  BY <1>0 DEF TypeInv, TypeOK, ThreadShape, vars, ledgerVars
<1>1. CASE \E s \in Sessions : RegisterSession(s)
  BY <1>1 DEF RegisterSession, Committed, Larger, TypeInv, TypeOK, ThreadShape
<1>2. CASE \E s \in Sessions : RequestRevocation(s)
  BY <1>2 DEF RequestRevocation, ledgerVars, TypeInv, TypeOK, ThreadShape
<1>3. CASE \E p \in Proposals, d \in {"APPROVED", "DENIED"}, c \in States :
             RegisterActionApproval(p, d, c)
  BY <1>3 DEF RegisterActionApproval, Committed, Larger, Smaller, Approval, TypeInv, TypeOK,
              ThreadShape
<1>4. CASE RevokeSession
  BY <1>4 DEF RevokeSession, TypeInv, TypeOK, ThreadShape
<1>5. CASE \E t \in Threads, p \in Proposals : Receive(t, p)
  <2> PICK t \in Threads, p \in Proposals : Receive(t, p)
    BY <1>5
  <2>1. Context(p) \in States \cup {None}
    BY DEF Context, TypeInv, TypeOK
  <2> QED
    BY <2>1 DEF Receive, IdleThread, ledgerVars, Thread, PCs, Budget, AttemptStates, TypeInv,
                TypeOK, ThreadShape
<1>6. CASE \E t \in Threads : Serve(t)
  <2> PICK t \in Threads : Serve(t)
    BY <1>6
  <2>1. CASE EnterScope(t)
    BY <2>1 DEF EnterScope, Goto, Set, ledgerVars, Thread, PCs, TypeInv, TypeOK, ThreadShape
  <2>2. CASE Lookup(t)
    <3>1. th[t] \in Thread /\ th[t].p \in Proposals
      BY <2>2 DEF Lookup, TypeInv, TypeOK, ThreadShape
    <3>2. Context(th[t].p) \in States \cup {None}
      BY <3>1 DEF Context, TypeInv, TypeOK
    <3>3. attempt[th[t].p].state \in AttemptStates
      BY <3>1 DEF TypeInv, TypeOK, Attempt
    <3>4. CASE Reply(t, "error")
      BY <2>2, <3>4, ReplyOK DEF Lookup, Replies, ThreadsOK, ledgerVars, TypeInv, TypeOK
    <3>5. CASE Set(t, "authorize", th[t].now, Context(th[t].p), "NONE", "none")
      <4>1. ThreadsOK'
        BY <3>1, <3>2, <3>5, SetOK DEF Thread, PCs, AttemptStates
      <4> QED
        BY <2>2, <4>1 DEF Lookup, ThreadsOK, ledgerVars, TypeInv, TypeOK
    <3>6. CASE /\ th[t].p \in Mutations /\ attempt[th[t].p].state # "NONE"
               /\ Set(t, "reconcile", th[t].now, th[t].pre, attempt[th[t].p].state, "none")
      <4>1. ThreadsOK'
        BY <3>1, <3>3, <3>6, SetOK DEF Thread, PCs
      <4> QED
        BY <2>2, <4>1 DEF Lookup, ThreadsOK, ledgerVars, TypeInv, TypeOK
    <3> QED
      BY <2>2, <3>4, <3>5, <3>6 DEF Lookup
  <2>3. CASE Authorize(t)
    <3>1. th[t].p \in Proposals /\ th[t].now \in Nat /\ th[t].pre \in States \cup {None}
      BY <2>3 DEF Authorize, Issued, TypeInv, TypeOK, ThreadShape, Thread
    <3>2. ThreadsOK'
      BY <2>3, ReplyOK, GotoOK DEF Authorize, Issued, PCs, Replies
    <3>3. clockHigh' \in Nat /\ eventHigh' \in [Sessions -> Nat]
      BY <2>3, <3>1 DEF Authorize, Issued, Committed, Larger, ledgerVars, TypeInv, TypeOK
    <3>4. approval' \in [Proposals -> Approval]
      <4>1. Spent(th[t].p) \in Approval
        BY <3>1 DEF Spent, Approval, TypeInv, TypeOK
      <4> QED
        BY <2>3, <3>1, <4>1 DEF Authorize, Issued, Spend, ledgerVars, TypeInv, TypeOK
    <3>5. attempt' \in [Proposals -> Attempt]
      BY <2>3, <3>1 DEF Authorize, Issued, ledgerVars, Attempt, AttemptStates, TypeInv, TypeOK
    <3>6. challenge' \in [Proposals -> SUBSET States]
      BY <2>3, <3>1 DEF Authorize, Issued, TypeInv, TypeOK
    <3> QED
      BY <2>3, <3>2, <3>3, <3>4, <3>5, <3>6 DEF Authorize, Issued, ThreadsOK, ledgerVars, TypeInv, TypeOK
  <2>4. CASE PerformRead(t)
    BY <2>4 DEF PerformRead, ToObserve, Set, ledgerVars, Thread, PCs, Observations, TypeInv, TypeOK,
                ThreadShape
  <2>5. CASE Refuse(t)
    <3>1. ThreadsOK'
      BY <2>5, GotoOK, ToObserveOK DEF Refuse, PCs, Observations
    <3> QED
      BY <2>5, <3>1 DEF Refuse, ThreadsOK, ledgerVars, TypeInv, TypeOK
  <2>6. CASE BeginEffect(t)
    <3>1. th[t].p \in Proposals /\ file[FileOf[th[t].p]] \in States /\ Torn \in States
      BY <2>6 DEF BeginEffect, States, TypeInv, TypeOK, ThreadShape
    <3> QED
      BY <2>6, <3>1 DEF BeginEffect, Goto, Set, ledgerVars, Thread, PCs, TypeInv, TypeOK, ThreadShape
  <2>7. CASE FinishCommand(t)
    BY <2>7 DEF FinishCommand, ToObserveNow, Set, ledgerVars, Thread, PCs, Observations, TypeInv, TypeOK, ThreadShape
  <2>8. CASE PartialWrite(t)
    BY <2>8 DEF PartialWrite, Goto, Set, ledgerVars, Thread, PCs, States, TypeInv, TypeOK, ThreadShape
  <2>9. CASE FinishWrite(t)
    <3>1. th[t].p \in Mutations /\ Result[th[t].p][th[t].pre] \in States /\ Torn \in States
      BY <2>9 DEF FinishWrite, States, TypeInv, ThreadShape
    <3> QED
      BY <2>9, <3>1 DEF FinishWrite, ToObserve, Set, ledgerVars, Thread, PCs, Observations, TypeInv,
                        TypeOK, ThreadShape
  <2>10. CASE MoveAside(t)
    <3>1. th[t].p \in Deletes /\ file[FileOf[th[t].p]] \in States /\ Absent \in States
      BY <2>10 DEF MoveAside, States, TypeInv, TypeOK, ThreadShape, Proposals
    <3>2. ThreadsOK'
      BY <2>10, GotoOK, ToObserveOK DEF MoveAside, PCs, Observations
    <3> QED
      BY <2>10, <3>1, <3>2 DEF MoveAside, ThreadsOK, ledgerVars, TypeInv, TypeOK
  <2>11. CASE FailMutation(t)
    <3>1. th[t].p \in Mutations /\ Result[th[t].p][th[t].pre] \in States
      BY <2>11 DEF FailMutation, TypeInv, ThreadShape
    <3> QED
      BY <2>11, <3>1 DEF FailMutation, Goto, Set, ledgerVars, Thread, PCs, TypeInv, TypeOK, ThreadShape
  <2>12. CASE ResolveAmbiguity(t)
    <3>1. ThreadsOK'
      BY <2>12, ReplyOK, ToObserveOK DEF ResolveAmbiguity, Replies, Observations
    <3> QED
      BY <2>12, <3>1 DEF ResolveAmbiguity, ThreadsOK, ledgerVars, TypeInv, TypeOK
  <2>13. CASE Reconcile(t)
    <3>1. th[t].found \in {"IN_FLIGHT", "SUCCEEDED", "EXECUTION_UNKNOWN"}
      BY <2>13 DEF Reconcile, Thread, AttemptStates, TypeInv, TypeOK, ThreadShape
    <3>2. \/ \E r \in Replies : Reply(t, r)
          \/ \E o \in Observations : ToObserve(t, o)
      BY <2>13, <3>1 DEF Reconcile, Replies, Observations
    <3>3. ThreadsOK'
      BY <2>13, <3>2, ReplyOK, ToObserveOK DEF Reconcile
    <3> QED
      BY <2>13, <3>3 DEF Reconcile, ThreadsOK, ledgerVars, TypeInv, TypeOK
  <2>14. CASE Observe(t)
    <3>1. th[t].p \in Proposals /\ th[t].now \in Nat /\ th[t].out \in Observations
      BY <2>14 DEF Observe, TypeInv, TypeOK, ThreadShape, Thread
    <3>2. ThreadsOK'
      BY <2>14, ReplyOK DEF Observe, Replies
    <3>3. clockHigh' \in Nat /\ eventHigh' \in [Sessions -> Nat]
      BY <2>14, <3>1 DEF Observe, Committed, Larger, TypeInv, TypeOK
    <3>4. attempt' \in [Proposals -> Attempt]
      BY <2>14, <3>1 DEF Observe, Recorded, Attempt, AttemptStates, TypeInv, TypeOK
    <3> QED
      BY <2>14, <3>2, <3>3, <3>4 DEF Observe, ThreadsOK, TypeInv, TypeOK
  <2>15. CASE Respond(t)
    BY <2>15 DEF Respond, IdleThread, ledgerVars, Thread, PCs, AttemptStates, TypeInv, TypeOK,
                 ThreadShape
  <2> QED
    BY <2>1, <2>2, <2>3, <2>4, <2>5, <2>6, <2>7, <2>8, <2>9, <2>10, <2>11, <2>12, <2>13, <2>14,
       <2>15 DEF Serve
<1>7. CASE \E c \in 0..MaxClock : SetClock(c)
  BY <1>7 DEF SetClock, ledgerVars, TypeInv, TypeOK, ThreadShape
<1>8. CASE \E f \in Files, c \in ExternalContents : ExternalChange(f, c)
  BY <1>8 DEF ExternalChange, ledgerVars, Budget, States, TypeInv, TypeOK, ThreadShape
<1>9. CASE Crash
  BY <1>9 DEF Crash, IdleThread, ledgerVars, Thread, PCs, AttemptStates, Budget, TypeInv, TypeOK,
              ThreadShape
<1> QED
  BY <1>0, <1>1, <1>2, <1>3, <1>4, <1>5, <1>6, <1>7, <1>8, <1>9 DEF Next

\* The variables of GovernedExecution keep their types, and a thread's
\* registers match its program counter, in every behaviour.
THEOREM TypeCorrect == Spec => []TypeOK
<1>1. Spec => []TypeInv
  BY TypeInit, TypeStep, PTL DEF Spec
<1> QED
  BY <1>1, PTL DEF TypeInv
-----------------------------------------------------------------------------
(* What a step can do to the approvals, the attempts and the threads *)

\* Only a registration, an authorization and an observation write to the
\* approvals or the attempts.
LEMMA LedgerSteps ==
  ASSUME [Next]_vars
  PROVE  \/ UNCHANGED <<approval, attempt>>
         \/ \E p \in Proposals, d \in {"APPROVED", "DENIED"}, c \in States :
              RegisterActionApproval(p, d, c)
         \/ \E t \in Threads : Authorize(t)
         \/ \E t \in Threads : Observe(t)
  BY DEF Next, Serve, vars, ledgerVars, RegisterSession, RequestRevocation, RevokeSession, Receive,
         EnterScope, Lookup, PerformRead, Refuse, BeginEffect, FinishCommand, PartialWrite,
         FinishWrite, MoveAside, FailMutation, ResolveAmbiguity, Reconcile, Respond, SetClock,
         ExternalChange, Crash

\* Reconciliation answers the request or hands an observation to the record.
LEMMA ReconcileSteps ==
  ASSUME TypeInv, NEW t \in Threads, Reconcile(t)
  PROVE  \/ \E r \in Replies : Reply(t, r)
         \/ \E o \in Observations : ToObserve(t, o)
<1>1. th[t].found \in {"IN_FLIGHT", "SUCCEEDED", "EXECUTION_UNKNOWN"}
  BY DEF Reconcile, ThreadShape, Thread, AttemptStates, TypeInv, TypeOK
<1>2. CASE Unreadable(th[t].p) /\ th[t].found # "EXECUTION_UNKNOWN"
  BY <1>2 DEF Reconcile, Replies
<1>3. CASE th[t].found = "EXECUTION_UNKNOWN"
  BY <1>3 DEF Reconcile, Replies
<1>4. CASE ~Unreadable(th[t].p) /\ th[t].found = "SUCCEEDED"
  BY <1>4 DEF Reconcile, Replies
<1>5. CASE ~Unreadable(th[t].p) /\ th[t].found = "IN_FLIGHT"
  BY <1>5 DEF Reconcile, Observations
<1> QED
  BY <1>1, <1>2, <1>3, <1>4, <1>5

\* A step changes a thread's registers only by serving it, by receiving a
\* request in it or by killing the process.
LEMMA ThreadSteps ==
  ASSUME TypeInv, [Next]_vars, NEW u \in Threads
  PROVE  th'[u] = th[u] \/ th'[u].pc \in {"idle", "received"} \/ Serve(u)
<1> USE DEF TypeInv, TypeOK
<1>1. CASE \E t \in Threads : Serve(t)
  <2> PICK t \in Threads : Serve(t)
    BY <1>1
  <2> SUFFICES ASSUME t # u PROVE th'[u] = th[u]
    OBVIOUS
  <2>1. CASE Reconcile(t)
    BY <2>1, ReconcileSteps DEF Reply, ToObserve, Set
  <2>2. CASE Authorize(t) \/ Observe(t)
    <3>1. (\E r \in Replies : Reply(t, r)) \/ Goto(t, "check")
      BY <2>2 DEF Authorize, Observe, Replies
    <3> QED
      BY <3>1 DEF Reply, Goto, Set
  <2> QED
    BY <2>1, <2>2
    DEF Serve, EnterScope, Lookup, PerformRead, Refuse, BeginEffect, FinishCommand, PartialWrite,
        FinishWrite, MoveAside, FailMutation, ResolveAmbiguity, Respond, Goto, Reply, ToObserve,
        ToObserveNow, Set
<1>2. CASE \E t \in Threads, p \in Proposals : Receive(t, p)
  BY <1>2 DEF Receive
<1>3. CASE Crash
  BY <1>3 DEF Crash, IdleThread
<1> QED
  BY <1>1, <1>2, <1>3
  DEF Next, vars, RegisterSession, RequestRevocation, RegisterActionApproval, RevokeSession,
      SetClock, ExternalChange

\* The authorization transaction of t grants.
Grants(t) == Authorize(t) /\ th[t].now >= clockHigh /\ Granted(th[t].p, th[t].pre, th[t].now)

\* Outside a grant no thread starts to execute and no attempt appears.
Quiet ==
    /\ \A u \in Threads : Executing(u)' => Executing(u) /\ th'[u].p = th[u].p
    /\ \A u \in Threads : th'[u].pc = "check" => th[u] = th'[u]
    /\ \A p \in Proposals : /\ attempt'[p].state = "NONE" <=> attempt[p].state = "NONE"
                            /\ attempt'[p].consumedAt = attempt[p].consumedAt

LEMMA QuietUnlessGrant ==
  ASSUME TypeInv, [Next]_vars
  PROVE  Quiet \/ \E t \in Threads : Grants(t)
<1> USE DEF TypeInv, TypeOK
<1>0. CASE UNCHANGED vars
  BY <1>0 DEF Quiet, Executing, vars, ledgerVars
<1>1. CASE \E s \in Sessions : RegisterSession(s) \/ RequestRevocation(s)
  BY <1>1 DEF RegisterSession, RequestRevocation, ledgerVars, Quiet, Executing
<1>2. CASE \E p \in Proposals, d \in {"APPROVED", "DENIED"}, c \in States :
             RegisterActionApproval(p, d, c)
  BY <1>2 DEF RegisterActionApproval, Quiet, Executing
<1>3. CASE RevokeSession
  BY <1>3 DEF RevokeSession, Quiet, Executing
<1>4. CASE \E t \in Threads, p \in Proposals : Receive(t, p)
  BY <1>4 DEF Receive, ledgerVars, Quiet, Executing
<1>5. CASE \E t \in Threads : Serve(t)
  <2> PICK t \in Threads : Serve(t)
    BY <1>5
  <2>1. CASE EnterScope(t) \/ Lookup(t)
    BY <2>1 DEF EnterScope, Lookup, Goto, Reply, Set, ledgerVars, Quiet, Executing
  <2>2. CASE Authorize(t)
    <3>1. CASE th[t].now < clockHigh
      BY <2>2, <3>1 DEF Authorize, Issued, Reply, Set, ledgerVars, Quiet, Executing, Thread
    <3>2. CASE th[t].now >= clockHigh /\ ~Granted(th[t].p, th[t].pre, th[t].now)
      BY <2>2, <3>2 DEF Authorize, Issued, Reply, Set, Quiet, Executing, Thread
    <3> QED
      BY <2>2, <3>1, <3>2 DEF Authorize, Issued, Grants
  <2>3. CASE PerformRead(t) \/ Refuse(t) \/ FinishCommand(t)
    BY <2>3 DEF PerformRead, Refuse, FinishCommand, Goto, ToObserve, ToObserveNow, Set,
                ledgerVars, Quiet, Executing
  <2>4. CASE BeginEffect(t)
    BY <2>4 DEF BeginEffect, Goto, Set, ledgerVars, Quiet, Executing
  <2>5. CASE PartialWrite(t) \/ FinishWrite(t) \/ MoveAside(t) \/ FailMutation(t)
    BY <2>5 DEF PartialWrite, FinishWrite, MoveAside, FailMutation, Goto, ToObserve, Set,
                ledgerVars, Quiet, Executing
  <2>6. CASE ResolveAmbiguity(t)
    BY <2>6 DEF ResolveAmbiguity, Reply, ToObserve, Set, ledgerVars, Quiet, Executing
  <2>7. CASE Reconcile(t)
    <3>1. (\E r \in Replies : Reply(t, r)) \/ (\E o \in Observations : ToObserve(t, o))
      BY <2>7, ReconcileSteps
    <3> QED
      BY <2>7, <3>1 DEF Reconcile, Reply, ToObserve, Set, ledgerVars, Quiet, Executing
  <2>8. CASE Observe(t)
    <3>1. th[t].p \in Proposals
      BY <2>8 DEF Observe, ThreadShape
    <3>2. \A u \in Threads : th'[u].pc # "done" => th'[u] = th[u]
      BY <2>8 DEF Observe, Reply, Set
    <3>3. \A p \in Proposals : /\ attempt'[p].state = "NONE" <=> attempt[p].state = "NONE"
                               /\ attempt'[p].consumedAt = attempt[p].consumedAt
      BY <2>8, <3>1 DEF Observe, Acceptable, Recorded, Attempt
    <3> QED
      BY <3>2, <3>3 DEF Quiet, Executing
  <2>9. CASE Respond(t)
    BY <2>9 DEF Respond, IdleThread, ledgerVars, Quiet, Executing
  <2> QED
    BY <2>1, <2>2, <2>3, <2>4, <2>5, <2>6, <2>7, <2>8, <2>9 DEF Serve
<1>6. CASE \E c \in 0..MaxClock : SetClock(c)
  BY <1>6 DEF SetClock, ledgerVars, Quiet, Executing
<1>7. CASE \E f \in Files, c \in ExternalContents : ExternalChange(f, c)
  BY <1>7 DEF ExternalChange, ledgerVars, Quiet, Executing
<1>8. CASE Crash
  BY <1>8 DEF Crash, IdleThread, ledgerVars, Quiet, Executing
<1> QED
  BY <1>0, <1>1, <1>2, <1>3, <1>4, <1>5, <1>6, <1>7, <1>8 DEF Next
-----------------------------------------------------------------------------
(* At most one effect per tool call *)

\* A thread about to start an effect holds a fresh attempt and is alone with
\* it; an effect belongs to an attempt; a tool call has one attempt.
EffectInv ==
    /\ \A t \in Threads : th[t].pc = "check" =>
         attempt[th[t].p].state # "NONE" /\ effects[th[t].p] = 0
    /\ \A t, u \in Threads : th[t].pc = "check" /\ th[u].pc = "check" /\ th[t].p = th[u].p => t = u
    /\ \A p \in Proposals : effects[p] <= 1
    /\ \A p \in Proposals : effects[p] > 0 => attempt[p].state # "NONE"
    /\ \A p, q \in Proposals :
         attempt[p].state # "NONE" /\ attempt[q].state # "NONE" /\ CallOf[p] = CallOf[q] => p = q

\* Only the start of an effect counts as one.
LEMMA EffectSteps ==
  ASSUME [Next]_vars
  PROVE  UNCHANGED effects \/ \E t \in Threads : BeginEffect(t)
  BY DEF Next, Serve, vars, ledgerVars, RegisterSession, RequestRevocation, RegisterActionApproval,
         RevokeSession, Receive, EnterScope, Lookup, Authorize, PerformRead, Refuse, FinishCommand,
         PartialWrite, FinishWrite, MoveAside, FailMutation, ResolveAmbiguity, Reconcile, Observe,
         Respond, SetClock, ExternalChange, Crash

LEMMA EffectStep == TypeInv /\ EffectInv /\ [Next]_vars => EffectInv'
<1> SUFFICES ASSUME TypeInv, EffectInv, [Next]_vars PROVE EffectInv'
  OBVIOUS
<1> USE DEF TypeInv, TypeOK, EffectInv
<1>1. CASE \E t \in Threads : BeginEffect(t)
  <2> PICK t \in Threads : BeginEffect(t)
    BY <1>1
  <2>1. th[t].p \in Proposals /\ UNCHANGED attempt
    BY DEF BeginEffect, ThreadShape, ledgerVars
  <2>2. \A u \in Threads : th'[u].pc = "check" => u # t /\ th'[u] = th[u]
    BY DEF BeginEffect, Goto, Set
  <2>3. effects' = [effects EXCEPT ![th[t].p] = 1]
    <3>1. effects[th[t].p] = 0 /\ effects' = [effects EXCEPT ![th[t].p] = effects[th[t].p] + 1]
      BY DEF BeginEffect
    <3>2. effects[th[t].p] + 1 = 1
      BY <3>1
    <3> QED
      BY <3>1, <3>2
  <2> QED
    BY <2>1, <2>2, <2>3 DEF BeginEffect
<1>2. CASE UNCHANGED effects /\ Quiet
  <2>1. \A u \in Threads : th'[u].pc = "check" => th[u] = th'[u] /\ th[u].p \in Proposals
    BY <1>2 DEF Quiet, ThreadShape
  <2> QED
    BY <1>2, <2>1 DEF Quiet
<1>3. CASE UNCHANGED effects /\ \E t \in Threads : Grants(t)
  <2> PICK t \in Threads : Grants(t)
    BY <1>3
  <2> DEFINE p == th[t].p
  <2>1. p \in Proposals
    BY DEF Grants, Authorize, Issued, ThreadShape
  <2>2. \A q \in Proposals : CallOf[q] = CallOf[p] => attempt[q].state = "NONE"
    BY DEF Grants, Granted, Replayed
  <2>3. \A q \in Proposals : IF q = p THEN attempt'[q].state = "IN_FLIGHT"
                                      ELSE attempt'[q] = attempt[q]
    <3>1. attempt' = [attempt EXCEPT ![p] =
                        [state |-> "IN_FLIGHT", consumedAt |-> th[t].now, obs |-> "none"]]
      BY DEF Grants, Authorize, Issued, Thread
    <3> QED
      BY <2>1, <3>1
  <2>4. th'[t].p = p /\ \A u \in Threads \ {t} : th'[u] = th[u]
    <3>1. Goto(t, "check")
      BY DEF Grants, Authorize, Issued, Thread
    <3> QED
      BY <3>1 DEF Goto, Set
  <2>5. \A u \in Threads \ {t} : th[u].pc = "check" => th[u].p # p /\ th[u].p \in Proposals
    BY <2>1, <2>2 DEF ThreadShape
  <2>6. effects[p] = 0
    BY <2>1, <2>2
  <2> HIDE DEF p
  <2> QED
    BY <1>3, <2>1, <2>2, <2>3, <2>4, <2>5, <2>6
<1> QED
  BY <1>1, <1>2, <1>3, EffectSteps, QuietUnlessGrant

\* Whatever the threads, crashes and retries: a tool call has at most one effect.
THEOREM AtMostOneEffect == Spec => []OneEffectPerCall
<1>1. Init => EffectInv
  BY DEF Init, EffectInv, IdleThread, NoAttempt
<1>2. TypeInv /\ EffectInv => OneEffectPerCall
  BY DEF EffectInv, OneEffectPerCall
<1>3. Spec => []TypeInv
  BY TypeInit, TypeStep, PTL DEF Spec
<1> QED
  BY <1>1, <1>2, <1>3, EffectStep, PTL DEF Spec

-----------------------------------------------------------------------------
(* Attempts and the approvals that pay for them *)

LEMMA PaidStep == TypeInv /\ AttemptsArePaidFor /\ [Next]_vars => AttemptsArePaidFor'
<1> SUFFICES ASSUME TypeInv, AttemptsArePaidFor, [Next]_vars PROVE AttemptsArePaidFor'
  OBVIOUS
<1> USE DEF TypeInv, TypeOK, AttemptsArePaidFor
<1>1. CASE UNCHANGED <<approval, attempt>>
  BY <1>1
<1>2. CASE \E p \in Proposals, d \in {"APPROVED", "DENIED"}, c \in States :
             RegisterActionApproval(p, d, c)
  BY <1>2 DEF RegisterActionApproval, HasRow
<1>3. CASE \E t \in Threads : Authorize(t)
  <2> PICK t \in Threads : Authorize(t)
    BY <1>3
  <2> DEFINE p == th[t].p
             now == th[t].now
  <2>1. p \in Proposals /\ now \in Nat
    BY DEF Authorize, Issued, ThreadShape, Thread
  <2>2. CASE now < clockHigh
    BY <2>2, <2>1 DEF Authorize, Issued, ledgerVars
  <2>3. CASE now >= clockHigh
    <3>1. \A q \in Proposals :
            /\ approval'[q].decision = approval[q].decision
            /\ approval'[q].decidedAt = approval[q].decidedAt
            /\ approval'[q].expiresAt = approval[q].expiresAt
            /\ approval[q].used => approval'[q].used
      BY <2>1, <2>3 DEF Authorize, Issued, Spend, Spent, Approval
    <3>2. CASE ~Granted(p, th[t].pre, now)
      BY <2>1, <2>3, <3>1, <3>2 DEF Authorize, Issued
    <3>3. CASE Granted(p, th[t].pre, now)
      <4>1. \A q \in Proposals \ {p} : attempt'[q] = attempt[q]
        BY <2>1, <2>3, <3>3 DEF Authorize, Issued
      <4>2. attempt'[p].consumedAt = now
        BY <2>1, <2>3, <3>3 DEF Authorize, Issued
      <4>3. p \notin Preauthorized =>
              /\ approval[p].decision = "APPROVED" /\ approval'[p].used
              /\ approval[p].decidedAt <= now /\ now < approval[p].expiresAt
        BY <2>1, <2>3, <3>3 DEF Authorize, Issued, Granted, ApprovalUsable, Spend, Spent
      <4> QED
        BY <2>1, <3>1, <4>1, <4>2, <4>3
    <3> QED
      BY <3>2, <3>3
  <2> QED
    BY <2>1, <2>2, <2>3
<1>4. CASE \E t \in Threads : Observe(t)
  <2> PICK t \in Threads : Observe(t)
    BY <1>4
  <2>1. th[t].p \in Proposals
    BY DEF Observe, ThreadShape
  <2>2. UNCHANGED approval
    BY DEF Observe
  <2>3. \A q \in Proposals : /\ attempt'[q].state # "NONE" => attempt[q].state # "NONE"
                             /\ attempt'[q].consumedAt = attempt[q].consumedAt
    BY <2>1 DEF Observe, Acceptable, Recorded, Attempt
  <2> QED
    BY <2>2, <2>3
<1> QED
  BY <1>1, <1>2, <1>3, <1>4, LedgerSteps

\* Every attempt other than a preauthorized read was paid for by one spent,
\* affirmative approval inside its window.
THEOREM AttemptsPaid == Spec => []AttemptsArePaidFor
<1>1. Init => AttemptsArePaidFor
  BY DEF Init, AttemptsArePaidFor, NoAttempt
<1>2. Spec => []TypeInv
  BY TypeInit, TypeStep, PTL DEF Spec
<1> QED
  BY <1>1, <1>2, PaidStep, PTL DEF Spec
-----------------------------------------------------------------------------
(* Revocation *)

LEMMA RevokedSteps ==
  ASSUME [Next]_vars
  PROVE  UNCHANGED revoked \/ RevokeSession
  BY DEF Next, Serve, vars, ledgerVars, RegisterSession, RequestRevocation, RegisterActionApproval,
         Receive, EnterScope, Lookup, Authorize, PerformRead, Refuse, BeginEffect, FinishCommand,
         PartialWrite, FinishWrite, MoveAside, FailMutation, ResolveAmbiguity, Reconcile, Observe,
         Respond, SetClock, ExternalChange, Crash

LEMMA BarrierStep == TypeInv /\ RevocationIsBarrier /\ [Next]_vars => RevocationIsBarrier'
<1> SUFFICES ASSUME TypeInv, RevocationIsBarrier, [Next]_vars PROVE RevocationIsBarrier'
  OBVIOUS
<1>1. CASE RevokeSession
  <2>1. \A t \in Threads : ~Executing(t)
    BY <1>1 DEF RevokeSession, BarrierFree, InScope, Executing, PCs
  <2> QED
    BY <1>1, <2>1 DEF RevokeSession, RevocationIsBarrier, Executing
<1>2. CASE UNCHANGED revoked /\ Quiet
  BY <1>2 DEF Quiet, RevocationIsBarrier
<1>3. CASE UNCHANGED revoked /\ \E t \in Threads : Grants(t)
  <2> PICK t \in Threads : Grants(t)
    BY <1>3
  <2>1. Goto(t, "check")
    BY DEF Grants, Authorize, Issued, Thread, TypeInv, TypeOK
  <2>2. th'[t].p = th[t].p /\ \A u \in Threads \ {t} : th'[u] = th[u]
    BY <2>1 DEF Goto, Set, TypeInv, TypeOK
  <2>3. revoked[SessionOf[th[t].p]] = None
    BY DEF Grants, Granted, SessionAdmits
  <2> QED
    BY <1>3, <2>2, <2>3 DEF RevocationIsBarrier, Executing
<1> QED
  BY <1>1, <1>2, <1>3, RevokedSteps, QuietUnlessGrant

\* An acknowledged revocation is a barrier: no thread works on, or can still
\* obtain, an authorization of a revoked session.
THEOREM RevocationBarrier == Spec => []RevocationIsBarrier
<1>1. Init => RevocationIsBarrier
  BY DEF Init, RevocationIsBarrier, Executing, IdleThread
<1>2. Spec => []TypeInv
  BY TypeInit, TypeStep, PTL DEF Spec
<1> QED
  BY <1>1, <1>2, BarrierStep, PTL DEF Spec

\* What a step leaves alone once p's session is revoked.
ClosedStep ==
    \A p \in Proposals : revoked[SessionOf[p]] # None =>
        /\ effects'[p] = effects[p]
        /\ approval'[p] = approval[p]
        /\ attempt[p].state = "NONE" => attempt'[p].state = "NONE"

LEMMA ClosedNext == TypeInv /\ RevocationIsBarrier /\ [Next]_vars => ClosedStep
<1> SUFFICES ASSUME TypeInv, RevocationIsBarrier, [Next]_vars,
                    NEW p \in Proposals, revoked[SessionOf[p]] # None
             PROVE  /\ effects'[p] = effects[p]
                    /\ approval'[p] = approval[p]
                    /\ attempt[p].state = "NONE" => attempt'[p].state = "NONE"
  BY DEF ClosedStep
<1>1. effects'[p] = effects[p]
  <2>1. CASE \E t \in Threads : BeginEffect(t)
    <3> PICK t \in Threads : BeginEffect(t)
      BY <2>1
    <3>1. th[t].p # p
      BY DEF BeginEffect, RevocationIsBarrier, Executing
    <3> QED
      BY <3>1 DEF BeginEffect, TypeInv, TypeOK
  <2> QED
    BY <2>1, EffectSteps
<1>2. approval'[p] = approval[p]
  <2>1. CASE \E q \in Proposals, d \in {"APPROVED", "DENIED"}, c \in States :
               RegisterActionApproval(q, d, c)
    BY <2>1 DEF RegisterActionApproval, TypeInv, TypeOK
  <2>2. CASE \E t \in Threads : Authorize(t)
    BY <2>2 DEF Authorize, Issued, Spend, SessionAdmits, ledgerVars, TypeInv, TypeOK
  <2>3. CASE \E t \in Threads : Observe(t)
    BY <2>3 DEF Observe
  <2> QED
    BY <2>1, <2>2, <2>3, LedgerSteps
<1>3. attempt[p].state = "NONE" => attempt'[p].state = "NONE"
  <2>1. CASE \E t \in Threads : Grants(t)
    <3> PICK t \in Threads : Grants(t)
      BY <2>1
    <3>1. th[t].p # p
      BY DEF Grants, Granted, SessionAdmits
    <3>2. attempt' = [attempt EXCEPT ![th[t].p] =
                        [state |-> "IN_FLIGHT", consumedAt |-> th[t].now, obs |-> "none"]]
      BY DEF Grants, Authorize, Issued, Thread, TypeInv, TypeOK
    <3> QED
      BY <3>1, <3>2 DEF TypeInv, TypeOK
  <2>2. CASE Quiet
    BY <2>2 DEF Quiet
  <2> QED
    BY <2>1, <2>2, QuietUnlessGrant
<1> QED
  BY <1>1, <1>2, <1>3

\* After its revocation a session starts no effect and spends no authority.
THEOREM ClosedAfterRevocation == Spec => NothingAfterRevocation
<1>1. Spec => [](TypeInv /\ RevocationIsBarrier)
  BY TypeInit, TypeStep, RevocationBarrier, PTL DEF Spec
<1>2. TypeInv /\ RevocationIsBarrier /\ [Next]_vars => [ClosedStep]_vars
  BY ClosedNext
<1>3. Spec => [][ClosedStep]_vars
  BY <1>1, <1>2, PTL DEF Spec
<1> QED
  BY <1>3 DEF NothingAfterRevocation, ClosedStep
-----------------------------------------------------------------------------
(* The final record *)

FinalStep ==
    \A p \in Proposals : attempt[p].state \in {"SUCCEEDED", "EXECUTION_UNKNOWN"}
        => attempt'[p] = attempt[p]

LEMMA FinalNext == TypeInv /\ [Next]_vars => FinalStep
<1> SUFFICES ASSUME TypeInv, [Next]_vars, NEW p \in Proposals,
                    attempt[p].state \in {"SUCCEEDED", "EXECUTION_UNKNOWN"}
             PROVE  attempt'[p] = attempt[p]
  BY DEF FinalStep
<1>1. CASE \E q \in Proposals, d \in {"APPROVED", "DENIED"}, c \in States :
             RegisterActionApproval(q, d, c)
  BY <1>1 DEF RegisterActionApproval
<1>2. CASE \E t \in Threads : Authorize(t)
  <2> PICK t \in Threads : Authorize(t)
    BY <1>2
  <2>1. \/ UNCHANGED attempt
        \/ /\ Granted(th[t].p, th[t].pre, th[t].now)
           /\ attempt' = [attempt EXCEPT ![th[t].p] =
                [state |-> "IN_FLIGHT", consumedAt |-> th[t].now, obs |-> "none"]]
    BY DEF Authorize, Issued, ledgerVars
  <2>2. Granted(th[t].p, th[t].pre, th[t].now) => th[t].p # p
    BY DEF Granted, Replayed
  <2> QED
    BY <2>1, <2>2 DEF TypeInv, TypeOK
<1>3. CASE \E t \in Threads : Observe(t)
  BY <1>3 DEF Observe, Acceptable, TypeInv, TypeOK
<1> QED
  BY <1>1, <1>2, <1>3, LedgerSteps

\* A recorded outcome never changes.
THEOREM RecordIsFinal == Spec => OutcomeIsFinal
<1>1. Spec => []TypeInv
  BY TypeInit, TypeStep, PTL DEF Spec
<1>2. TypeInv /\ [Next]_vars => [FinalStep]_vars
  BY FinalNext
<1>3. Spec => [][FinalStep]_vars
  BY <1>1, <1>2, PTL DEF Spec
<1> QED
  BY <1>3 DEF OutcomeIsFinal, FinalStep
-----------------------------------------------------------------------------
(* Revocation times and the history of a session *)

\* Every decision and consumption is at or below its session's event mark.
HistoryInv ==
    \A p \in Proposals :
        /\ approval[p].decision # "NONE" => approval[p].decidedAt <= eventHigh[SessionOf[p]]
        /\ attempt[p].state # "NONE" => attempt[p].consumedAt <= eventHigh[SessionOf[p]]

LEMMA CommittedGrows ==
  ASSUME TypeInv, NEW s \in Sessions, NEW at \in Nat, Committed(s, at)
  PROVE  /\ \A z \in Sessions : eventHigh[z] <= eventHigh'[z]
         /\ at <= eventHigh'[s]
  BY DEF Committed, Larger, TypeInv, TypeOK

LEMMA EventHighGrows ==
  ASSUME TypeInv, [Next]_vars
  PROVE  \A z \in Sessions : eventHigh[z] <= eventHigh'[z]
<1>1. CASE UNCHANGED eventHigh
  BY <1>1 DEF TypeInv, TypeOK
<1>2. CASE \E s \in Sessions : RegisterSession(s)
  BY <1>2, CommittedGrows, TimesAssumption DEF RegisterSession
<1>3. CASE \E p \in Proposals, d \in {"APPROVED", "DENIED"}, c \in States :
             RegisterActionApproval(p, d, c)
  BY <1>3, CommittedGrows, ProposalsAssumption DEF RegisterActionApproval, TypeInv, TypeOK
<1>4. CASE \E t \in Threads : Authorize(t) \/ Observe(t)
  <2> PICK t \in Threads : Authorize(t) \/ Observe(t)
    BY <1>4
  <2>1. SessionOf[th[t].p] \in Sessions /\ th[t].now \in Nat
    BY ProposalsAssumption DEF Authorize, Issued, Observe, TypeInv, TypeOK, ThreadShape, Thread
  <2>2. UNCHANGED eventHigh \/ Committed(SessionOf[th[t].p], th[t].now)
    BY DEF Authorize, Issued, Observe, ledgerVars
  <2> QED
    BY <1>1, <2>1, <2>2, CommittedGrows
<1> QED
  BY <1>1, <1>2, <1>3, <1>4
  DEF Next, Serve, vars, ledgerVars, RequestRevocation, RevokeSession, Receive, EnterScope, Lookup,
      PerformRead, Refuse, BeginEffect, FinishCommand, PartialWrite, FinishWrite, MoveAside,
      FailMutation, ResolveAmbiguity, Reconcile, Respond, SetClock, ExternalChange, Crash

LEMMA HistoryStep == TypeInv /\ HistoryInv /\ [Next]_vars => HistoryInv'
<1> SUFFICES ASSUME TypeInv, HistoryInv, [Next]_vars, NEW p \in Proposals
             PROVE  /\ approval'[p].decision # "NONE" =>
                         approval'[p].decidedAt <= eventHigh'[SessionOf[p]]
                    /\ attempt'[p].state # "NONE" =>
                         attempt'[p].consumedAt <= eventHigh'[SessionOf[p]]
  BY DEF HistoryInv
<1> DEFINE s == SessionOf[p]
<1>1. s \in Sessions /\ eventHigh[s] \in Nat /\ eventHigh'[s] \in Nat /\ eventHigh[s] <= eventHigh'[s]
  BY ProposalsAssumption, EventHighGrows, TypeStep DEF TypeInv, TypeOK
<1>2. approval[p].decidedAt \in Nat /\ attempt[p].consumedAt \in Nat
  BY DEF TypeInv, TypeOK, Approval, Attempt
<1>3. approval'[p].decision # "NONE" => approval'[p].decidedAt <= eventHigh'[s]
  <2>1. CASE \E q \in Proposals, d \in {"APPROVED", "DENIED"}, c \in States :
               RegisterActionApproval(q, d, c)
    <3> PICK q \in Proposals, d \in {"APPROVED", "DENIED"}, c \in States :
               RegisterActionApproval(q, d, c)
      BY <2>1
    <3>1. CASE q = p
      <4>1. approval'[p].decidedAt = clock
        BY <3>1 DEF RegisterActionApproval, TypeInv, TypeOK
      <4>2. clock <= eventHigh'[s]
        BY <1>1, <3>1, CommittedGrows DEF RegisterActionApproval, TypeInv, TypeOK
      <4> QED
        BY <4>1, <4>2
    <3>2. CASE q # p
      <4>1. approval'[p] = approval[p]
        BY <3>2 DEF RegisterActionApproval, TypeInv, TypeOK
      <4> QED
        BY <1>1, <1>2, <4>1 DEF HistoryInv
    <3> QED
      BY <3>1, <3>2
  <2>2. CASE /\ approval'[p].decision = approval[p].decision
             /\ approval'[p].decidedAt = approval[p].decidedAt
    BY <1>1, <1>2, <2>2 DEF HistoryInv
  <2>3. CASE \E t \in Threads : Authorize(t)
    <3>1. /\ approval'[p].decision = approval[p].decision
          /\ approval'[p].decidedAt = approval[p].decidedAt
      BY <2>3 DEF Authorize, Issued, Spend, Spent, ledgerVars, TypeInv, TypeOK, Approval
    <3> QED
      BY <2>2, <3>1
  <2>4. CASE \E t \in Threads : Observe(t)
    BY <2>2, <2>4 DEF Observe
  <2> QED
    BY <2>1, <2>2, <2>3, <2>4, LedgerSteps
<1>4. attempt'[p].state # "NONE" => attempt'[p].consumedAt <= eventHigh'[s]
  <2>1. CASE Quiet
    BY <1>1, <1>2, <2>1 DEF Quiet, HistoryInv
  <2>2. CASE \E t \in Threads : Grants(t)
    <3> PICK t \in Threads : Grants(t)
      BY <2>2
    <3>1. /\ attempt' = [attempt EXCEPT ![th[t].p] =
                           [state |-> "IN_FLIGHT", consumedAt |-> th[t].now, obs |-> "none"]]
          /\ Committed(SessionOf[th[t].p], th[t].now)
          /\ th[t].now \in Nat
      BY DEF Grants, Authorize, Issued, Thread, TypeInv, TypeOK
    <3>2. CASE th[t].p = p
      <4>1. attempt'[p].consumedAt = th[t].now
        BY <3>1, <3>2 DEF TypeInv, TypeOK
      <4>2. th[t].now <= eventHigh'[s]
        BY <1>1, <3>1, <3>2, CommittedGrows
      <4> QED
        BY <4>1, <4>2
    <3>3. CASE th[t].p # p
      <4>1. attempt'[p] = attempt[p]
        BY <3>1, <3>3 DEF TypeInv, TypeOK
      <4> QED
        BY <1>1, <1>2, <4>1 DEF HistoryInv
    <3> QED
      BY <3>2, <3>3
  <2> QED
    BY <2>1, <2>2, QuietUnlessGrant
<1> QED
  BY <1>3, <1>4

LEMMA ClosesStep ==
  TypeInv /\ RevocationIsBarrier /\ HistoryInv /\ RevocationClosesHistory /\ [Next]_vars
    => RevocationClosesHistory'
<1> SUFFICES ASSUME TypeInv, RevocationIsBarrier, HistoryInv, RevocationClosesHistory, [Next]_vars,
                    NEW p \in Proposals, revoked'[SessionOf[p]] # None
             PROVE  /\ approval'[p].decision # "NONE" =>
                         approval'[p].decidedAt <= revoked'[SessionOf[p]]
                    /\ attempt'[p].state # "NONE" =>
                         attempt'[p].consumedAt <= revoked'[SessionOf[p]]
  BY DEF RevocationClosesHistory
<1>1. CASE RevokeSession
  <2>1. approval' = approval /\ attempt' = attempt
    BY <1>1 DEF RevokeSession
  <2>2. CASE revoked'[SessionOf[p]] = revoked[SessionOf[p]]
    BY <2>1, <2>2 DEF RevocationClosesHistory
  <2>3. CASE revoked'[SessionOf[p]] # revoked[SessionOf[p]]
    <3>1. /\ SessionOf[p] = revoking.s /\ revoked'[SessionOf[p]] = revoking.at
          /\ revoking.at >= eventHigh[SessionOf[p]] /\ revoking.at \in Nat
      BY <1>1, <2>3, ProposalsAssumption DEF RevokeSession, TypeInv, TypeOK
    <3>2. /\ eventHigh[SessionOf[p]] \in Nat
          /\ approval[p].decidedAt \in Nat /\ attempt[p].consumedAt \in Nat
      BY ProposalsAssumption DEF TypeInv, TypeOK, Approval, Attempt
    <3> QED
      BY <2>1, <3>1, <3>2 DEF HistoryInv
  <2> QED
    BY <2>2, <2>3
<1>2. CASE UNCHANGED revoked
  <2>1. revoked[SessionOf[p]] # None
    BY <1>2
  <2>2. approval'[p] = approval[p] /\ (attempt[p].state = "NONE" => attempt'[p].state = "NONE")
    BY <2>1, ClosedNext DEF ClosedStep
  <2>3. attempt'[p].state # "NONE" => attempt'[p].consumedAt = attempt[p].consumedAt
    <3>1. CASE Quiet
      BY <3>1 DEF Quiet
    <3>2. CASE \E t \in Threads : Grants(t)
      <4> PICK t \in Threads : Grants(t)
        BY <3>2
      <4>1. th[t].p # p
        BY <2>1 DEF Grants, Granted, SessionAdmits
      <4>2. attempt' = [attempt EXCEPT ![th[t].p] =
                          [state |-> "IN_FLIGHT", consumedAt |-> th[t].now, obs |-> "none"]]
        BY DEF Grants, Authorize, Issued, Thread, TypeInv, TypeOK
      <4> QED
        BY <4>1, <4>2 DEF TypeInv, TypeOK
    <3> QED
      BY <3>1, <3>2, QuietUnlessGrant
  <2> QED
    BY <1>2, <2>1, <2>2, <2>3 DEF RevocationClosesHistory
<1> QED
  BY <1>1, <1>2, RevokedSteps

\* No decision and no consumption of a revoked session is dated after its
\* revocation.
THEOREM HistoryClosed == Spec => []RevocationClosesHistory
<1>1. Init => HistoryInv /\ RevocationClosesHistory
  BY ProposalsAssumption
  DEF Init, HistoryInv, RevocationClosesHistory, NoApproval, NoAttempt
<1>2. Spec => [](TypeInv /\ RevocationIsBarrier)
  BY TypeInit, TypeStep, RevocationBarrier, PTL DEF Spec
<1> QED
  BY <1>1, <1>2, HistoryStep, ClosesStep, PTL DEF Spec
-----------------------------------------------------------------------------
(* Success is durable *)

\* An "ok" observation is recorded as SUCCEEDED, and what a reconciling thread
\* read as SUCCEEDED still is.
SuccessInv ==
    /\ \A p \in Proposals : attempt[p].obs = "ok" => attempt[p].state = "SUCCEEDED"
    /\ \A t \in Threads : th[t].pc = "reconcile" /\ th[t].found = "SUCCEEDED"
                            => attempt[th[t].p].state = "SUCCEEDED"
    /\ SuccessIsDurable

LEMMA ObservationStep == TypeInv /\ SuccessInv /\ [Next]_vars =>
    \A p \in Proposals : attempt'[p].obs = "ok" => attempt'[p].state = "SUCCEEDED"
<1> SUFFICES ASSUME TypeInv, SuccessInv, [Next]_vars, NEW p \in Proposals
             PROVE  attempt'[p].obs = "ok" => attempt'[p].state = "SUCCEEDED"
  OBVIOUS
<1>1. CASE attempt'[p] = attempt[p]
  BY <1>1 DEF SuccessInv
<1>2. CASE \E q \in Proposals, d \in {"APPROVED", "DENIED"}, c \in States :
             RegisterActionApproval(q, d, c)
  BY <1>1, <1>2 DEF RegisterActionApproval
<1>3. CASE \E t \in Threads : Authorize(t)
  BY <1>1, <1>3 DEF Authorize, Issued, ledgerVars, TypeInv, TypeOK
<1>4. CASE \E t \in Threads : Observe(t)
  <2> PICK t \in Threads : Observe(t)
    BY <1>4
  <2>1. CASE UNCHANGED attempt
    BY <1>1, <2>1
  <2>2. CASE attempt' = [attempt EXCEPT ![th[t].p] =
               [state |-> Recorded(th[t].out), consumedAt |-> attempt[th[t].p].consumedAt,
                obs |-> th[t].out]]
    BY <1>1, <2>2 DEF Recorded, TypeInv, TypeOK
  <2> QED
    BY <2>1, <2>2 DEF Observe
<1> QED
  BY <1>1, <1>2, <1>3, <1>4, LedgerSteps

\* A thread that newly reconciles a success, or newly answers with success,
\* does so on a SUCCEEDED row.
Claims(u) ==
    \/ th[u].pc = "reconcile" /\ th[u].found = "SUCCEEDED"
    \/ th[u].pc = "done" /\ th[u].out = "success"

LEMMA ClaimStep == TypeInv /\ SuccessInv /\ [Next]_vars =>
    \A u \in Threads : Claims(u)' => attempt'[th'[u].p].state = "SUCCEEDED"
<1> SUFFICES ASSUME TypeInv, SuccessInv, [Next]_vars, NEW u \in Threads, Claims(u)'
             PROVE  attempt'[th'[u].p].state = "SUCCEEDED"
  OBVIOUS
<1> USE DEF TypeInv, TypeOK
<1>0. CASE th'[u] = th[u]
  <2>1. Claims(u) /\ th[u].p \in Proposals
    BY <1>0 DEF Claims, ThreadShape
  <2>2. attempt[th[u].p].state = "SUCCEEDED"
    BY <2>1 DEF Claims, SuccessInv, SuccessIsDurable
  <2> QED
    BY <1>0, <2>1, <2>2, FinalNext DEF FinalStep
<1>1. CASE \/ EnterScope(u) \/ PerformRead(u) \/ Refuse(u) \/ BeginEffect(u)
           \/ FinishCommand(u) \/ PartialWrite(u) \/ FinishWrite(u) \/ MoveAside(u)
           \/ FailMutation(u) \/ ResolveAmbiguity(u) \/ Respond(u)
  BY <1>1 DEF EnterScope, PerformRead, Refuse, BeginEffect, FinishCommand, PartialWrite,
              FinishWrite, MoveAside, FailMutation, ResolveAmbiguity, Respond, IdleThread, Goto,
              Reply, ToObserve, ToObserveNow, Set, Claims
<1>2. CASE Lookup(u)
  BY <1>2 DEF Lookup, Reply, Set, Claims, ledgerVars
<1>3. CASE Authorize(u)
  <2>1. Reply(u, "error") \/ Reply(u, "denied") \/ Goto(u, "check")
    BY <1>3 DEF Authorize, Issued
  <2> QED
    BY <1>3, <2>1 DEF Goto, Reply, Set, Claims
<1>4. CASE Reconcile(u)
  <2>1. th[u].p \in Proposals /\ attempt' = attempt
        /\ th[u].found \in {"IN_FLIGHT", "SUCCEEDED", "EXECUTION_UNKNOWN"}
    BY <1>4 DEF Reconcile, ledgerVars, ThreadShape, Thread, AttemptStates
  <2>2. \/ Reply(u, "unknown") \/ Reply(u, "error")
        \/ th[u].found = "SUCCEEDED" /\ Reply(u, "success")
        \/ \E o \in Observations : ToObserve(u, o)
    BY <1>4, <2>1 DEF Reconcile, Observations
  <2> QED
    BY <1>4, <2>1, <2>2 DEF Reconcile, Reply, ToObserve, Set, Claims, SuccessInv
<1>5. CASE Observe(u)
  <2>1. th[u].p \in Proposals /\ th'[u].p = th[u].p
    BY <1>5 DEF Observe, Reply, Set, ThreadShape
  <2>2. th[u].out = "ok"
    BY <1>5 DEF Observe, Reply, Set, Claims
  <2>3. \/ attempt' = [attempt EXCEPT ![th[u].p] =
             [state |-> "SUCCEEDED", consumedAt |-> attempt[th[u].p].consumedAt, obs |-> "ok"]]
        \/ attempt' = attempt /\ attempt[th[u].p].obs = "ok"
    BY <1>5, <2>2 DEF Observe, Acceptable, Repeated, Reply, Set, Claims, Recorded
  <2> QED
    BY <1>5, <2>1, <2>3 DEF SuccessInv
<1>6. CASE th'[u].pc \in {"idle", "received"}
  BY <1>6 DEF Claims
<1> QED
  BY <1>0, <1>1, <1>2, <1>3, <1>4, <1>5, <1>6, ThreadSteps DEF Serve

\* A request answered with success has a durable SUCCEEDED record.
THEOREM SuccessDurable == Spec => []SuccessIsDurable
<1>1. Init => SuccessInv
  BY DEF Init, SuccessInv, SuccessIsDurable, IdleThread, NoAttempt
<1>2. TypeInv /\ SuccessInv /\ [Next]_vars => SuccessInv'
  BY ObservationStep, ClaimStep DEF SuccessInv, SuccessIsDurable, Claims
<1>3. Spec => []TypeInv
  BY TypeInit, TypeStep, PTL DEF Spec
<1>4. SuccessInv => SuccessIsDurable
  BY DEF SuccessInv
<1> QED
  BY <1>1, <1>2, <1>3, <1>4, PTL DEF Spec
-----------------------------------------------------------------------------
(* A recorded success was started *)

\* Every prestate a user was asked about, and every one a granted mutation
\* carries, is a state of the resource; for a delete it is never absence.
PrestateInv ==
    /\ \A p \in Proposals : approval[p].decision # "NONE" => approval[p].pre \in States
    /\ \A p \in Deletes : /\ Absent \notin challenge[p]
                          /\ approval[p].decision # "NONE" => approval[p].pre # Absent
    /\ \A t \in Threads :
         /\ th[t].pc = "authorize" /\ th[t].p \in Deletes => th[t].pre = None \/ th[t].pre # Absent
         /\ Executing(t) /\ th[t].p \in Mutations => th[t].pre \in States
         /\ Executing(t) /\ th[t].p \in Deletes => th[t].pre # Absent

\* Only an authorization transaction issues a challenge.
LEMMA ChallengeSteps ==
  ASSUME [Next]_vars
  PROVE  UNCHANGED challenge \/ \E t \in Threads : Authorize(t)
<1>1. ASSUME NEW t \in Threads, Serve(t) PROVE UNCHANGED challenge \/ Authorize(t)
  BY <1>1 DEF Serve, EnterScope, Lookup, PerformRead, Refuse, BeginEffect, FinishCommand,
              PartialWrite, FinishWrite, MoveAside, FailMutation, ResolveAmbiguity, Reconcile,
              Observe, Respond
<1> QED
  BY <1>1 DEF Next, vars, RegisterSession, RequestRevocation, RegisterActionApproval,
              RevokeSession, Receive, SetClock, ExternalChange, Crash

LEMMA PrestateLedger == TypeInv /\ PrestateInv /\ [Next]_vars =>
    /\ \A p \in Proposals : approval'[p].decision # "NONE" => approval'[p].pre \in States
    /\ \A p \in Deletes : /\ Absent \notin challenge'[p]
                          /\ approval'[p].decision # "NONE" => approval'[p].pre # Absent
<1> SUFFICES ASSUME TypeInv, PrestateInv, [Next]_vars
             PROVE  /\ \A p \in Proposals : approval'[p].decision # "NONE" =>
                         approval'[p].pre \in States
                    /\ \A p \in Deletes :
                         /\ Absent \notin challenge'[p]
                         /\ approval'[p].decision # "NONE" => approval'[p].pre # Absent
  OBVIOUS
<1>0. Deletes \subseteq Proposals
  BY ProposalsAssumption DEF Proposals
<1>2. CASE \E p \in Proposals, d \in {"APPROVED", "DENIED"}, c \in States :
             RegisterActionApproval(p, d, c)
  <2> PICK p \in Proposals, d \in {"APPROVED", "DENIED"}, c \in States :
             RegisterActionApproval(p, d, c)
    BY <1>2
  <2>1. UNCHANGED challenge /\ c \in challenge[p]
    BY DEF RegisterActionApproval
  <2>2. \A q \in Proposals : IF q = p THEN approval'[q].pre = c ELSE approval'[q] = approval[q]
    BY DEF RegisterActionApproval, TypeInv, TypeOK
  <2> QED
    BY <1>0, <2>1, <2>2 DEF PrestateInv
<1>3. CASE \E t \in Threads : Authorize(t)
  <2> PICK t \in Threads : Authorize(t)
    BY <1>3
  <2>1. \A q \in Proposals : approval'[q].decision = approval[q].decision
                             /\ approval'[q].pre = approval[q].pre
    BY DEF Authorize, Spend, Spent, ledgerVars, TypeInv, TypeOK
  <2>2. \/ challenge' = challenge
        \/ th[t].pre # None /\ challenge' = [challenge EXCEPT ![th[t].p] = @ \cup {th[t].pre}]
    BY DEF Authorize
  <2>3. th[t].p \in Deletes => th[t].pre = None \/ th[t].pre # Absent
    BY DEF Authorize, PrestateInv
  <2>4. \A q \in Deletes : Absent \notin challenge'[q]
    BY <1>0, <2>2, <2>3 DEF PrestateInv, TypeInv, TypeOK
  <2> QED
    BY <1>0, <2>1, <2>4 DEF PrestateInv
<1>4. CASE UNCHANGED <<approval, challenge>>
  BY <1>4 DEF PrestateInv
<1>5. CASE \E t \in Threads : Observe(t)
  BY <1>4, <1>5 DEF Observe
<1> QED
  BY <1>2, <1>3, <1>4, <1>5, LedgerSteps, ChallengeSteps

\* What a thread is granted, or begins to authorize, has an admissible prestate.
LEMMA PrestateThread == TypeInv /\ PrestateInv /\ [Next]_vars =>
    \A u \in Threads :
        /\ th'[u].pc = "authorize" /\ th'[u].p \in Deletes =>
             th'[u].pre = None \/ th'[u].pre # Absent
        /\ Executing(u)' /\ th'[u].p \in Mutations => th'[u].pre \in States
        /\ Executing(u)' /\ th'[u].p \in Deletes => th'[u].pre # Absent
<1> SUFFICES ASSUME TypeInv, PrestateInv, [Next]_vars, NEW u \in Threads
             PROVE  /\ th'[u].pc = "authorize" /\ th'[u].p \in Deletes =>
                         th'[u].pre = None \/ th'[u].pre # Absent
                    /\ Executing(u)' /\ th'[u].p \in Mutations => th'[u].pre \in States
                    /\ Executing(u)' /\ th'[u].p \in Deletes => th'[u].pre # Absent
  OBVIOUS
<1> USE DEF TypeInv, TypeOK
<1>1. CASE th'[u] = th[u]
  BY <1>1 DEF PrestateInv, Executing
<1>2. CASE th'[u].pc \notin {"authorize", "check", "effect", "torn", "ambiguous"}
  BY <1>2 DEF Executing
<1>3. CASE EnterScope(u)
  <2>1. th'[u].pc = "authorize" => th'[u].p \in Commands
    BY <1>3 DEF EnterScope, Goto, Set
  <2>2. ~Executing(u)'
    BY <1>3 DEF EnterScope, Goto, Set, Executing
  <2> QED
    BY <2>1, <2>2, ProposalsAssumption
<1>4. CASE Lookup(u)
  <2>1. ~Executing(u)'
    BY <1>4 DEF Lookup, Reply, Set, Executing
  <2>2. th'[u].pc = "authorize" /\ th'[u].p \in Deletes =>
          th'[u].pre = Context(th[u].p) /\ file[FileOf[th[u].p]] # Absent
    BY <1>4 DEF Lookup, Reply, Set
  <2> QED
    BY <2>1, <2>2 DEF Context
<1>5. CASE Authorize(u)
  <2>1. CASE Reply(u, "error") \/ Reply(u, "denied")
    BY <1>2, <2>1 DEF Reply, Set
  <2>2. CASE Goto(u, "check") /\ Granted(th[u].p, th[u].pre, th[u].now)
    <3>1. th'[u].pc = "check" /\ th'[u].p = th[u].p /\ th'[u].pre = th[u].pre
      BY <2>2 DEF Goto, Set
    <3>2. th[u].p \in Proposals
      BY <1>5 DEF Authorize, ThreadShape
    <3>3. th[u].p \in Mutations => th[u].pre # None /\ th[u].pre = approval[th[u].p].pre
                                   /\ approval[th[u].p].decision # "NONE"
      BY <2>2, ProposalsAssumption DEF Granted, ApprovalUsable
    <3>4. Deletes \subseteq Mutations
      BY ProposalsAssumption
    <3> QED
      BY <3>1, <3>2, <3>3, <3>4 DEF PrestateInv
  <2> QED
    BY <1>5, <2>1, <2>2 DEF Authorize
<1>6. CASE Refuse(u) \/ BeginEffect(u) \/ PartialWrite(u) \/ MoveAside(u) \/ FailMutation(u)
  <2>1. Executing(u) /\ th'[u].p = th[u].p /\ th'[u].pre = th[u].pre /\ th'[u].pc # "authorize"
    BY <1>6 DEF Refuse, BeginEffect, PartialWrite, MoveAside, FailMutation, Goto, ToObserve,
                ToObserveNow, Set, Executing
  <2> QED
    BY <2>1 DEF PrestateInv
<1>7. CASE Reconcile(u)
  BY <1>2, <1>7, ReconcileSteps DEF Reply, ToObserve, Set
<1>8. CASE PerformRead(u) \/ FinishCommand(u) \/ FinishWrite(u) \/ ResolveAmbiguity(u)
           \/ Respond(u)
  BY <1>2, <1>8 DEF PerformRead, FinishCommand, FinishWrite, ResolveAmbiguity, Respond, IdleThread,
                    ToObserve, ToObserveNow, Reply, Set
<1>9. CASE Observe(u)
  <2>1. \E r \in Replies : Reply(u, r)
    BY <1>9 DEF Observe, Replies
  <2> QED
    BY <1>2, <2>1 DEF Reply, Set
<1> QED
  BY <1>1, <1>2, <1>3, <1>4, <1>5, <1>6, <1>7, <1>8, <1>9, ThreadSteps DEF Serve

LEMMA PrestateStep == TypeInv /\ PrestateInv /\ [Next]_vars => PrestateInv'
  BY PrestateLedger, PrestateThread DEF PrestateInv

\* Whatever can make a row SUCCEEDED for an attributable proposal - a thread
\* past its check, a poststate in the workspace, content in the recovery store,
\* an "ok" on its way to the record - exists only once the effect was started.
StartedInv ==
    /\ \A t \in Threads :
         /\ th[t].pc \in {"effect", "torn"} => effects[th[t].p] > 0
         /\ th[t].pc = "ambiguous" => th[t].p \in Mutations
         /\ th[t].pc = "reconcile" => attempt[th[t].p].state # "NONE"
         /\ th[t].pc = "observe" /\ th[t].out = "ok" /\ th[t].p \in Attributable =>
              effects[th[t].p] > 0
    /\ \A p \in (Attributable \cap Mutations) \ Deletes, c \in States :
         file[FileOf[p]] = Result[p][c] => effects[p] > 0
    /\ \A p \in Deletes : recovery[p] # Absent => effects[p] > 0
    /\ \A p \in Attributable : attempt[p].state = "SUCCEEDED" => effects[p] > 0

\* A counted effect stays counted, and one is counted when it starts.
LEMMA EffectsGrow ==
  ASSUME TypeInv, [Next]_vars, NEW p \in Proposals, effects[p] > 0
  PROVE  effects'[p] > 0
<1>1. CASE \E t \in Threads : BeginEffect(t)
  <2> PICK t \in Threads : BeginEffect(t)
    BY <1>1
  <2>1. effects' = [effects EXCEPT ![th[t].p] = effects[th[t].p] + 1]
    BY DEF BeginEffect
  <2>2. th[t].p \in Proposals
    BY DEF BeginEffect, TypeInv, ThreadShape
  <2> QED
    BY <2>1, <2>2 DEF TypeInv, TypeOK
<1> QED
  BY <1>1, EffectSteps

\* No other program and no other proposal's step leaves the poststate of an
\* attributable write or edit.
LEMMA PoststateStep ==
  ASSUME TypeInv, PrestateInv, StartedInv, [Next]_vars,
         NEW p \in (Attributable \cap Mutations) \ Deletes, NEW c \in States,
         file'[FileOf[p]] = Result[p][c]
  PROVE  effects'[p] > 0
<1> DEFINE f == FileOf[p]
<1>0. p \in Proposals /\ f \in Files
  BY ProposalsAssumption DEF Proposals
<1>1. /\ Result[p][c] \notin ExternalContents \cup {Torn}
      /\ \A q \in Mutations \ {p}, d \in States : FileOf[q] = f => Result[q][d] # Result[p][c]
  BY ProposalsAssumption DEF Attributable
<1>2. Result[p][c] # Absent \/ \A q \in Deletes : FileOf[q] # f
  BY <1>1, ProposalsAssumption, ContentsAssumption
<1> HIDE DEF f
<1>3. CASE effects[p] > 0
  BY <1>0, <1>3, EffectsGrow
<1>4. CASE file'[f] = file[f]
  BY <1>3, <1>4 DEF StartedInv, f
<1>5. CASE file'[f] = Torn
  BY <1>1, <1>5 DEF f
<1>6. ASSUME NEW t \in Threads, FinishWrite(t) \/ FailMutation(t) PROVE effects'[p] > 0
  <2>1. th[t].p \in Mutations /\ th[t].pre \in States /\ th[t].pc \in {"effect", "torn"}
    BY <1>6 DEF FinishWrite, FailMutation, TypeInv, ThreadShape
  <2>2. \/ file' = file
        \/ file' = [file EXCEPT ![FileOf[th[t].p]] = Torn]
        \/ file' = [file EXCEPT ![FileOf[th[t].p]] = Result[th[t].p][th[t].pre]]
    BY <1>6 DEF FinishWrite, FailMutation
  <2>3. CASE th[t].p = p
    BY <1>3, <2>1, <2>3 DEF StartedInv
  <2>4. CASE th[t].p # p
    <3>1. FileOf[th[t].p] = f => Result[th[t].p][th[t].pre] # Result[p][c]
      BY <1>1, <2>1, <2>4
    <3> QED
      BY <1>0, <1>4, <1>5, <2>2, <3>1 DEF TypeInv, TypeOK, f
  <2> QED
    BY <2>3, <2>4
<1>7. ASSUME NEW t \in Threads, MoveAside(t) PROVE effects'[p] > 0
  <2>1. th[t].p \in Deletes /\ file' = [file EXCEPT ![FileOf[th[t].p]] = Absent]
    BY <1>7 DEF MoveAside
  <2> QED
    BY <1>0, <1>2, <1>4, <2>1 DEF TypeInv, TypeOK, f
<1>8. ASSUME NEW t \in Threads, BeginEffect(t) \/ PartialWrite(t) PROVE effects'[p] > 0
  <2>1. file' = file \/ file' = [file EXCEPT ![FileOf[th[t].p]] = Torn]
    BY <1>8 DEF BeginEffect, PartialWrite
  <2> QED
    BY <1>0, <1>4, <1>5, <2>1 DEF TypeInv, TypeOK
<1>9. ASSUME NEW g \in Files, NEW d \in ExternalContents, ExternalChange(g, d)
      PROVE  effects'[p] > 0
  <2>1. file' = [file EXCEPT ![g] = d]
    BY <1>9 DEF ExternalChange
  <2> QED
    BY <1>0, <1>1, <1>4, <2>1 DEF TypeInv, TypeOK, f
<1>10. ASSUME NEW t \in Threads, Serve(t)
       PROVE  \/ UNCHANGED file \/ FinishWrite(t) \/ FailMutation(t) \/ MoveAside(t)
              \/ BeginEffect(t) \/ PartialWrite(t)
  BY <1>10 DEF Serve, EnterScope, Lookup, Authorize, PerformRead, Refuse, FinishCommand,
               ResolveAmbiguity, Reconcile, Observe, Respond
<1>11. \/ UNCHANGED file \/ \E t \in Threads : Serve(t)
       \/ \E g \in Files, d \in ExternalContents : ExternalChange(g, d)
  BY DEF Next, vars, RegisterSession, RequestRevocation, RegisterActionApproval, RevokeSession,
         Receive, SetClock, Crash
<1> QED
  BY <1>4, <1>6, <1>7, <1>8, <1>9, <1>10, <1>11

\* Content is moved aside only by the delete whose effect was started.
LEMMA RecoveryStep ==
  ASSUME TypeInv, StartedInv, [Next]_vars, NEW p \in Deletes, recovery'[p] # Absent
  PROVE  effects'[p] > 0
<1>0. p \in Proposals
  BY ProposalsAssumption DEF Proposals
<1>1. ASSUME NEW t \in Threads, Serve(t) PROVE UNCHANGED recovery \/ MoveAside(t)
  BY <1>1 DEF Serve, EnterScope, Lookup, Authorize, PerformRead, Refuse, BeginEffect,
              FinishCommand, PartialWrite, FinishWrite, FailMutation, ResolveAmbiguity, Reconcile,
              Observe, Respond
<1>2. UNCHANGED recovery \/ \E t \in Threads : MoveAside(t)
  BY <1>1 DEF Next, vars, RegisterSession, RequestRevocation, RegisterActionApproval,
              RevokeSession, Receive, SetClock, ExternalChange, Crash
<1>3. CASE \E t \in Threads : MoveAside(t)
  <2> PICK t \in Threads : MoveAside(t)
    BY <1>3
  <2>1. effects[th[t].p] > 0
    BY DEF MoveAside, StartedInv
  <2>2. th[t].p # p => recovery'[p] = recovery[p]
    BY DEF MoveAside, TypeInv, TypeOK
  <2> QED
    BY <1>0, <2>1, <2>2, EffectsGrow DEF StartedInv
<1> QED
  BY <1>0, <1>2, <1>3, EffectsGrow DEF StartedInv

\* What reconciliation confirms for an attributable mutation was started.
LEMMA ConfirmedWasStarted ==
  ASSUME StartedInv, NEW p \in Attributable \cap Mutations, NEW pre \in States,
         p \in Deletes => pre # Absent, Confirmed(p, pre)
  PROVE  effects[p] > 0
  BY DEF Confirmed, StartedInv

\* An attempt row is never removed.
LEMMA AttemptsStay ==
  ASSUME TypeInv, [Next]_vars, NEW p \in Proposals, attempt[p].state # "NONE"
  PROVE  attempt'[p].state # "NONE"
<1>1. CASE \E t \in Threads : Grants(t)
  <2> PICK t \in Threads : Grants(t)
    BY <1>1
  <2>1. attempt' = [attempt EXCEPT ![th[t].p] =
                      [state |-> "IN_FLIGHT", consumedAt |-> th[t].now, obs |-> "none"]]
    BY DEF Grants, Authorize, Issued, Thread, TypeInv, TypeOK
  <2> QED
    BY <2>1 DEF TypeInv, TypeOK
<1>2. CASE Quiet
  BY <1>2 DEF Quiet
<1> QED
  BY <1>1, <1>2, QuietUnlessGrant

\* A thread reaches its effect by starting it, becomes ambiguous only for a
\* mutation and reconciles only an existing attempt.
LEMMA WorkStep == TypeInv /\ StartedInv /\ [Next]_vars =>
    \A u \in Threads :
        /\ th'[u].pc \in {"effect", "torn"} => effects'[th'[u].p] > 0
        /\ th'[u].pc = "ambiguous" => th'[u].p \in Mutations
        /\ th'[u].pc = "reconcile" => attempt'[th'[u].p].state # "NONE"
<1> SUFFICES ASSUME TypeInv, StartedInv, [Next]_vars, NEW u \in Threads,
                    th'[u].pc \in {"effect", "torn", "ambiguous", "reconcile"}
             PROVE  /\ th'[u].pc \in {"effect", "torn"} => effects'[th'[u].p] > 0
                    /\ th'[u].pc = "ambiguous" => th'[u].p \in Mutations
                    /\ th'[u].pc = "reconcile" => attempt'[th'[u].p].state # "NONE"
  OBVIOUS
<1>1. CASE th'[u] = th[u]
  <2>1. th[u].p \in Proposals
    BY <1>1 DEF TypeInv, ThreadShape
  <2> QED
    BY <1>1, <2>1, EffectsGrow, AttemptsStay DEF StartedInv
<1>2. CASE Lookup(u)
  <2>1. th'[u].pc = "reconcile" /\ th'[u].p = th[u].p /\ attempt[th[u].p].state # "NONE"
    BY <1>2 DEF Lookup, Reply, Set, TypeInv, TypeOK
  <2> QED
    BY <1>2, <2>1 DEF Lookup, ledgerVars
<1>3. CASE BeginEffect(u)
  <2>1. th'[u].pc \in {"effect", "torn"} /\ th'[u].p = th[u].p /\ th[u].p \in Proposals
    BY <1>3 DEF BeginEffect, Goto, Set, TypeInv, TypeOK, ThreadShape
  <2>2. effects'[th[u].p] = effects[th[u].p] + 1 /\ effects[th[u].p] \in Nat
    BY <1>3, <2>1 DEF BeginEffect, TypeInv, TypeOK
  <2> QED
    BY <2>1, <2>2
<1>4. CASE PartialWrite(u)
  <2>1. th'[u].pc = "torn" /\ th'[u].p = th[u].p /\ effects' = effects /\ th[u].pc = "effect"
    BY <1>4 DEF PartialWrite, Goto, Set, TypeInv, TypeOK
  <2> QED
    BY <2>1 DEF StartedInv
<1>5. CASE Refuse(u) \/ MoveAside(u) \/ FailMutation(u)
  <2>1. th'[u].pc = "ambiguous" /\ th'[u].p = th[u].p /\ th[u].p \in Mutations
    BY <1>5, ProposalsAssumption DEF Refuse, MoveAside, FailMutation, Goto, ToObserve,
                                     ToObserveNow, Set, TypeInv, TypeOK
  <2> QED
    BY <2>1
<1>6. CASE EnterScope(u) \/ PerformRead(u) \/ FinishCommand(u) \/ FinishWrite(u)
           \/ ResolveAmbiguity(u) \/ Respond(u)
  BY <1>6 DEF EnterScope, PerformRead, FinishCommand, FinishWrite, ResolveAmbiguity, Respond,
              IdleThread, Goto, ToObserve, ToObserveNow, Reply, Set, TypeInv, TypeOK
<1>7. CASE Authorize(u) \/ Observe(u)
  <2>1. (\E r \in Replies : Reply(u, r)) \/ Goto(u, "check")
    BY <1>7 DEF Authorize, Observe, Replies
  <2> QED
    BY <2>1 DEF Reply, Goto, Set, TypeInv, TypeOK
<1>8. CASE Reconcile(u)
  BY <1>8, ReconcileSteps DEF Reply, ToObserve, Set, TypeInv, TypeOK
<1> QED
  BY <1>1, <1>2, <1>3, <1>4, <1>5, <1>6, <1>7, <1>8, ThreadSteps DEF Serve

\* An "ok" for an attributable proposal comes from an effect that was started,
\* or is confirmed by what only that effect can have left.
LEMMA OkStep == TypeInv /\ AttemptsArePaidFor /\ PrestateInv /\ StartedInv /\ [Next]_vars =>
    \A u \in Threads :
        th'[u].pc = "observe" /\ th'[u].out = "ok" /\ th'[u].p \in Attributable =>
            effects'[th'[u].p] > 0
<1> SUFFICES ASSUME TypeInv, AttemptsArePaidFor, PrestateInv, StartedInv, [Next]_vars,
                    NEW u \in Threads,
                    th'[u].pc = "observe", th'[u].out = "ok", th'[u].p \in Attributable
             PROVE  effects'[th'[u].p] > 0
  OBVIOUS
<1>0. Attributable \subseteq Proposals
  BY ProposalsAssumption DEF Attributable, Proposals
<1>1. CASE th'[u] = th[u]
  BY <1>0, <1>1, EffectsGrow DEF StartedInv
<1>2. ASSUME th'[u].p = th[u].p, effects[th[u].p] > 0 PROVE effects'[th'[u].p] > 0
  BY <1>0, <1>2, EffectsGrow
<1>3. CASE FinishCommand(u) \/ FinishWrite(u) \/ MoveAside(u)
  <2>1. th'[u].p = th[u].p /\ th[u].pc \in {"effect", "torn"}
    BY <1>3 DEF FinishCommand, FinishWrite, MoveAside, Goto, ToObserve, ToObserveNow, Set,
                TypeInv, TypeOK
  <2> QED
    BY <1>2, <2>1 DEF StartedInv
<1>4. CASE PerformRead(u)
  <2>1. th'[u].p = th[u].p /\ th[u].p \in Reads
    BY <1>4 DEF PerformRead, ToObserve, Set, TypeInv, TypeOK
  <2> QED
    BY <2>1, ProposalsAssumption DEF Attributable
<1>5. CASE ResolveAmbiguity(u)
  <2>1. th'[u].p = th[u].p /\ Confirmed(th[u].p, th[u].pre) /\ th[u].pc = "ambiguous"
    BY <1>5 DEF ResolveAmbiguity, ToObserve, Reply, Set, TypeInv, TypeOK
  <2>2. th[u].p \in Mutations
    BY <2>1 DEF StartedInv
  <2>3. th[u].pre \in States /\ (th[u].p \in Deletes => th[u].pre # Absent)
    BY <2>1, <2>2 DEF PrestateInv, Executing
  <2> QED
    BY <1>2, <2>1, <2>2, <2>3, ConfirmedWasStarted
<1>6. CASE Reconcile(u)
  <2> DEFINE p == th[u].p
             pre == approval[p].pre
  <2>1. th'[u].p = p /\ p \in Mutations /\ attempt[p].state # "NONE"
    <3>1. th[u].pc = "reconcile"
      BY <1>6 DEF Reconcile
    <3>2. th'[u].p = p
      BY <1>6, ReconcileSteps DEF Reply, ToObserve, Set, TypeInv, TypeOK
    <3> QED
      BY <3>1, <3>2 DEF TypeInv, ThreadShape, StartedInv
  <2>2. Confirmed(p, pre)
    <3> SUFFICES ASSUME ~Confirmed(p, pre) PROVE FALSE
      OBVIOUS
    <3>1. th[u].found \in {"IN_FLIGHT", "SUCCEEDED", "EXECUTION_UNKNOWN"}
      BY <1>6 DEF Reconcile, ThreadShape, Thread, AttemptStates, TypeInv, TypeOK
    <3>2. (\E r \in Replies : Reply(u, r)) \/ ToObserve(u, "transport")
      <4>1. CASE Unreadable(p) /\ th[u].found # "EXECUTION_UNKNOWN"
        BY <1>6, <4>1 DEF Reconcile, Replies
      <4>2. CASE th[u].found = "EXECUTION_UNKNOWN"
        BY <1>6, <4>2 DEF Reconcile, Replies
      <4>3. CASE ~Unreadable(p) /\ th[u].found = "SUCCEEDED"
        BY <1>6, <4>3 DEF Reconcile, Replies
      <4>4. CASE ~Unreadable(p) /\ th[u].found = "IN_FLIGHT"
        BY <1>6, <4>4 DEF Reconcile
      <4> QED
        BY <3>1, <4>1, <4>2, <4>3, <4>4
    <3> QED
      BY <3>2 DEF Reply, ToObserve, Set, TypeInv, TypeOK
  <2>3. p \in Proposals \ Preauthorized
    BY <2>1, ProposalsAssumption DEF Proposals
  <2>4. approval[p].decision = "APPROVED"
    BY <2>1, <2>3 DEF AttemptsArePaidFor
  <2>5. pre \in States /\ (p \in Deletes => pre # Absent)
    BY <2>3, <2>4 DEF PrestateInv
  <2> HIDE DEF p, pre
  <2>6. effects[p] > 0
    BY <2>1, <2>2, <2>5, ConfirmedWasStarted
  <2> QED
    BY <1>2, <2>1, <2>6 DEF p
<1>7. CASE EnterScope(u) \/ Lookup(u) \/ Refuse(u) \/ BeginEffect(u) \/ PartialWrite(u)
           \/ FailMutation(u) \/ Respond(u)
  BY <1>7 DEF EnterScope, Lookup, Refuse, BeginEffect, PartialWrite, FailMutation, Respond,
              IdleThread, Goto, ToObserve, ToObserveNow, Reply, Set, TypeInv, TypeOK
<1>8. CASE Authorize(u) \/ Observe(u)
  <2>1. (\E r \in Replies : Reply(u, r)) \/ Goto(u, "check")
    BY <1>8 DEF Authorize, Observe, Replies
  <2> QED
    BY <2>1 DEF Reply, Goto, Set, TypeInv, TypeOK
<1> QED
  BY <1>1, <1>3, <1>4, <1>5, <1>6, <1>7, <1>8, ThreadSteps DEF Serve

\* A row becomes SUCCEEDED only by recording an "ok".
LEMMA SucceededStep ==
  ASSUME TypeInv, StartedInv, [Next]_vars, NEW p \in Attributable,
         attempt'[p].state = "SUCCEEDED"
  PROVE  effects'[p] > 0
<1>0. p \in Proposals
  BY ProposalsAssumption DEF Attributable, Proposals
<1>1. CASE attempt'[p] = attempt[p]
  BY <1>0, <1>1, EffectsGrow DEF StartedInv
<1>2. CASE \E q \in Proposals, d \in {"APPROVED", "DENIED"}, c \in States :
             RegisterActionApproval(q, d, c)
  BY <1>1, <1>2 DEF RegisterActionApproval
<1>3. CASE \E t \in Threads : Authorize(t)
  BY <1>0, <1>1, <1>3 DEF Authorize, Issued, ledgerVars, TypeInv, TypeOK
<1>4. CASE \E t \in Threads : Observe(t)
  <2> PICK t \in Threads : Observe(t)
    BY <1>4
  <2>1. CASE UNCHANGED attempt
    BY <1>1, <2>1
  <2>2. CASE attempt' = [attempt EXCEPT ![th[t].p] =
               [state |-> Recorded(th[t].out), consumedAt |-> attempt[th[t].p].consumedAt,
                obs |-> th[t].out]]
    <3>1. CASE th[t].p # p
      BY <1>0, <1>1, <2>2, <3>1 DEF TypeInv, TypeOK
    <3>2. CASE th[t].p = p
      <4>1. th[t].out = "ok"
        BY <1>0, <2>2, <3>2 DEF Recorded, TypeInv, TypeOK
      <4>2. effects[p] > 0
        BY <3>2, <4>1 DEF Observe, StartedInv
      <4> QED
        BY <1>0, <4>2, EffectsGrow
    <3> QED
      BY <3>1, <3>2
  <2> QED
    BY <2>1, <2>2 DEF Observe
<1> QED
  BY <1>1, <1>2, <1>3, <1>4, LedgerSteps

LEMMA StartedStep == TypeInv /\ AttemptsArePaidFor /\ PrestateInv /\ StartedInv /\ [Next]_vars
                       => StartedInv'
<1> SUFFICES ASSUME TypeInv, AttemptsArePaidFor, PrestateInv, StartedInv, [Next]_vars
             PROVE  StartedInv'
  OBVIOUS
<1>1. \A p \in (Attributable \cap Mutations) \ Deletes, c \in States :
        file'[FileOf[p]] = Result[p][c] => effects'[p] > 0
  BY PoststateStep
<1>2. \A p \in Deletes : recovery'[p] # Absent => effects'[p] > 0
  BY RecoveryStep
<1>3. \A p \in Attributable : attempt'[p].state = "SUCCEEDED" => effects'[p] > 0
  BY SucceededStep
<1> QED
  BY <1>1, <1>2, <1>3, WorkStep, OkStep DEF StartedInv

LEMMA StartedAlways == Spec => [](TypeInv /\ EffectInv /\ StartedInv)
<1>1. Init => EffectInv /\ AttemptsArePaidFor
  BY DEF Init, EffectInv, AttemptsArePaidFor, IdleThread, NoAttempt
<1>2. Init => PrestateInv
  <2>1. Deletes \subseteq Proposals
    BY ProposalsAssumption DEF Proposals
  <2> QED
    BY <2>1 DEF Init, PrestateInv, Executing, IdleThread, NoApproval
<1>3. Init => StartedInv
  <2> SUFFICES ASSUME Init PROVE StartedInv
    OBVIOUS
  <2>1. \A p \in (Attributable \cap Mutations) \ Deletes, c \in States :
          file[FileOf[p]] # Result[p][c]
    BY ProposalsAssumption DEF Init, Attributable, Proposals
  <2>2. Attributable \subseteq Proposals
    BY ProposalsAssumption DEF Attributable, Proposals
  <2> QED
    BY <2>1, <2>2 DEF Init, StartedInv, IdleThread, NoAttempt
<1> QED
  BY <1>1, <1>2, <1>3, TypeInit, TypeStep, EffectStep, PaidStep, PrestateStep, StartedStep, PTL
  DEF Spec

\* SUCCEEDED is recorded only for an effect that was started: no retry, I/O
\* error, crash or reconciliation records a success for an attributable
\* proposal that did nothing.
THEOREM SuccessWasStarted == Spec => []SucceededWasStarted
<1>1. TypeInv /\ EffectInv /\ StartedInv => SucceededWasStarted
  BY ProposalsAssumption
  DEF EffectInv, StartedInv, SucceededWasStarted, TypeInv, TypeOK, Attributable, Proposals
<1> QED
  BY <1>1, StartedAlways, PTL
-----------------------------------------------------------------------------
(* The runtime keeps the promise of OneTimeAuthority *)

\* Only a decision is used up.
UsedInv == \A p \in Proposals : approval[p].used => approval[p].decision # "NONE"

\* What the authorization transaction of t does to the approvals.
LEMMA SpendSteps ==
  ASSUME TypeInv, NEW t \in Threads, Authorize(t)
  PROVE  \/ UNCHANGED approval
         \/ LET p == th[t].p IN
            /\ SessionAdmits(p, th[t].now)
            /\ ApprovalUsable(p, th[t].pre, th[t].now)
            /\ approval' = [approval EXCEPT ![p] = Spent(p)]
  BY DEF Authorize, Spend, ledgerVars

LEMMA UsedStep == TypeInv /\ UsedInv /\ [Next]_vars => UsedInv'
<1> SUFFICES ASSUME TypeInv, UsedInv, [Next]_vars PROVE UsedInv'
  OBVIOUS
<1>1. CASE UNCHANGED approval
  BY <1>1 DEF UsedInv
<1>2. CASE \E p \in Proposals, d \in {"APPROVED", "DENIED"}, c \in States :
             RegisterActionApproval(p, d, c)
  <2> PICK p \in Proposals, d \in {"APPROVED", "DENIED"}, c \in States :
             RegisterActionApproval(p, d, c)
    BY <1>2
  <2>1. \A q \in Proposals : IF q = p THEN approval'[q].decision = d
                                      ELSE approval'[q] = approval[q]
    BY DEF RegisterActionApproval, TypeInv, TypeOK
  <2> QED
    BY <2>1 DEF UsedInv
<1>3. CASE \E t \in Threads : Authorize(t)
  <2> PICK t \in Threads : Authorize(t)
    BY <1>3
  <2> DEFINE p == th[t].p
  <2> SUFFICES ASSUME approval' = [approval EXCEPT ![p] = Spent(p)], approval[p].decision # "NONE"
               PROVE  UsedInv'
    BY <1>1, SpendSteps DEF ApprovalUsable
  <2>1. \A q \in Proposals : IF q = p THEN approval'[q].decision = approval[p].decision
                                      ELSE approval'[q] = approval[q]
    BY DEF Spent, TypeInv, TypeOK
  <2> QED
    BY <2>1 DEF UsedInv
<1>4. CASE \E t \in Threads : Observe(t)
  BY <1>1, <1>4 DEF Observe
<1> QED
  BY <1>1, <1>2, <1>3, <1>4, LedgerSteps

LEMMA RefineInit == Init => Authority!Init
  BY DEF Init, NoApproval, NoAttempt, Held, Authority!Init

\* A registered decision is the call's first, in an open session.
LEMMA RefineDecide ==
  ASSUME TypeInv, UsedInv, NEW p \in Proposals, NEW d \in {"APPROVED", "DENIED"},
         NEW c \in States, RegisterActionApproval(p, d, c)
  PROVE  Authority!Decide(p, d)
<1>1. UNCHANGED <<attempt, effects, revoked>>
  BY DEF RegisterActionApproval
<1>2. revoked[SessionOf[p]] = None
  BY DEF RegisterActionApproval
<1>3. \A q \in Proposals : CallOf[q] = CallOf[p] => Held(approval[q]) = "NONE"
  BY DEF RegisterActionApproval, HasRow, Held, UsedInv
<1>4. \A q \in Proposals : Held(approval'[q]) = IF q = p THEN d ELSE Held(approval[q])
  <2>1. \A q \in Proposals \ {p} : approval'[q] = approval[q]
    BY DEF RegisterActionApproval, TypeInv, TypeOK
  <2>2. approval'[p].decision = d /\ approval'[p].used = FALSE
    BY DEF RegisterActionApproval, TypeInv, TypeOK
  <2> QED
    BY <2>1, <2>2 DEF Held
<1>5. [q \in Proposals |-> Held(approval[q])]' =
        [[q \in Proposals |-> Held(approval[q])] EXCEPT ![p] = d]
  BY <1>4
<1> QED
  BY <1>1, <1>2, <1>3, <1>5 DEF Authority!Decide, Authority!Open, Authority!Untouched

\* Spending an approval uses up what the row was worth.
LEMMA HeldSpent ==
  ASSUME TypeInv, NEW p \in Proposals, approval' = [approval EXCEPT ![p] = Spent(p)]
  PROVE  [q \in Proposals |-> Held(approval[q])]' =
           [[q \in Proposals |-> Held(approval[q])] EXCEPT ![p] = "SPENT"]
<1>1. \A q \in Proposals : Held(approval'[q]) = IF q = p THEN "SPENT" ELSE Held(approval[q])
  <2>1. \A q \in Proposals \ {p} : approval'[q] = approval[q]
    BY DEF TypeInv, TypeOK
  <2>2. approval'[p].used = TRUE
    BY DEF Spent, TypeInv, TypeOK
  <2> QED
    BY <2>1, <2>2 DEF Held
<1> QED
  BY <1>1

\* An authorization grants what its decision pays for, uses the decision up
\* without a record, or changes nothing.
LEMMA RefineAuthorize ==
  ASSUME TypeInv, NEW t \in Threads, Authorize(t), NEW p \in Proposals, p = th[t].p
  PROVE  Authority!Grant(p) \/ Authority!Forfeit(p) \/ UNCHANGED Authority!vars
<1> DEFINE pre == th[t].pre
           now == th[t].now
<1>0. SessionOf[p] \in Sessions /\ now \in Nat /\ clockHigh \in Nat
  BY ProposalsAssumption DEF TypeInv, TypeOK, Thread
<1>1. UNCHANGED <<effects, revoked>>
  BY DEF Authorize, ledgerVars
<1>2. ApprovalUsable(p, pre, now) => Held(approval[p]) = approval[p].decision
                                     /\ approval[p].decision \in {"APPROVED", "DENIED"}
  BY <1>0 DEF ApprovalUsable, Held, TypeInv, TypeOK, Approval
<1>3. CASE /\ now >= clockHigh /\ Granted(p, pre, now)
  <2>1. attempt' = [attempt EXCEPT ![p] =
                      [state |-> "IN_FLIGHT", consumedAt |-> now, obs |-> "none"]]
    BY <1>0, <1>3 DEF Authorize, Issued
  <2>2. [q \in Proposals |-> attempt[q].state]' =
          [[q \in Proposals |-> attempt[q].state] EXCEPT ![p] = "IN_FLIGHT"]
    BY <1>0, <2>1 DEF TypeInv, TypeOK
  <2>3. revoked[SessionOf[p]] = None
        /\ \A q \in Proposals : CallOf[q] = CallOf[p] => attempt[q].state = "NONE"
    BY <1>3 DEF Granted, SessionAdmits, Replayed
  <2>4. CASE p \in Preauthorized
    <3>1. UNCHANGED approval
      BY <2>4, SpendSteps, ProposalsAssumption DEF ApprovalUsable
    <3> QED
      BY <1>0, <1>1, <2>2, <2>3, <2>4, <3>1
      DEF Authority!Grant, Authority!Open, Authority!Untouched
  <2>5. CASE p \notin Preauthorized
    <3>1. ApprovalUsable(p, pre, now) /\ approval[p].decision = "APPROVED"
          /\ SessionAdmits(p, now)
      BY <1>3, <2>5 DEF Granted
    <3>2. approval' = [approval EXCEPT ![p] = Spent(p)]
      BY <1>0, <1>3, <3>1 DEF Authorize, Spend
    <3>3. [q \in Proposals |-> Held(approval[q])]' =
            [[q \in Proposals |-> Held(approval[q])] EXCEPT ![p] = "SPENT"]
      BY <1>0, <3>2, HeldSpent
    <3>4. Held(approval[p]) = "APPROVED"
      BY <1>2, <3>1
    <3> QED
      BY <1>0, <1>1, <2>2, <2>3, <3>3, <3>4
      DEF Authority!Grant, Authority!Open, Authority!Untouched
  <2> QED
    BY <2>4, <2>5
<1>4. CASE ~(now >= clockHigh /\ Granted(p, pre, now))
  <2>1. UNCHANGED attempt
    BY <1>4 DEF Authorize, ledgerVars
  <2>2. CASE UNCHANGED approval
    BY <1>1, <2>1, <2>2 DEF Authority!vars
  <2>3. CASE /\ SessionAdmits(p, now) /\ ApprovalUsable(p, pre, now)
             /\ approval' = [approval EXCEPT ![p] = Spent(p)]
    <3>1. [q \in Proposals |-> Held(approval[q])]' =
            [[q \in Proposals |-> Held(approval[q])] EXCEPT ![p] = "SPENT"]
      BY <1>0, <2>3, HeldSpent
    <3>2. revoked[SessionOf[p]] = None
      BY <2>3 DEF SessionAdmits
    <3> QED
      BY <1>0, <1>1, <1>2, <2>1, <2>3, <3>1, <3>2 DEF Authority!Forfeit, Authority!Open
  <2> QED
    BY <2>2, <2>3, SpendSteps
<1> QED
  BY <1>3, <1>4

\* An effect starts once, under a record, in an open session.
LEMMA RefineBegin ==
  ASSUME TypeInv, EffectInv, RevocationIsBarrier, NEW t \in Threads, BeginEffect(t),
         NEW p \in Proposals, p = th[t].p
  PROVE  Authority!Begin(p)
<1>0. th[t].pc = "check"
  BY DEF BeginEffect
<1>1. UNCHANGED <<approval, attempt, revoked>>
  BY DEF BeginEffect, ledgerVars
<1>2. revoked[SessionOf[p]] = None
  BY <1>0 DEF RevocationIsBarrier, Executing
<1>3. attempt[p].state # "NONE" /\ effects[p] = 0
  BY <1>0 DEF EffectInv
<1>4. effects' = [effects EXCEPT ![p] = 1]
  <2>1. effects' = [effects EXCEPT ![p] = effects[p] + 1]
    BY DEF BeginEffect
  <2>2. effects[p] + 1 = 1
    BY <1>3
  <2> QED
    BY <2>1, <2>2
<1> QED
  BY <1>0, <1>1, <1>2, <1>3, <1>4 DEF Authority!Begin, Authority!Open

\* A record is concluded once, and truthfully.
LEMMA RefineConclude ==
  ASSUME TypeInv, EffectInv, StartedInv, NEW t \in Threads, Observe(t),
         NEW p \in Proposals, p = th[t].p
  PROVE  \/ UNCHANGED Authority!vars
         \/ \E r \in {"SUCCEEDED", "EXECUTION_UNKNOWN"} : Authority!Conclude(p, r)
<1>0. PICK r : r = Recorded(th[t].out)
  OBVIOUS
<1>1. UNCHANGED <<approval, effects, revoked>>
  BY DEF Observe
<1>2. CASE UNCHANGED attempt
  BY <1>1, <1>2 DEF Authority!vars
<1>3. CASE /\ attempt[p].state = "IN_FLIGHT"
           /\ attempt' = [attempt EXCEPT ![p] =
                [state |-> r, consumedAt |-> attempt[p].consumedAt, obs |-> th[t].out]]
  <2>1. r \in {"SUCCEEDED", "EXECUTION_UNKNOWN"}
    BY <1>0 DEF Recorded
  <2>2. r = "SUCCEEDED" => th[t].out = "ok"
    BY <1>0 DEF Recorded
  <2>3. th[t].out = "ok" /\ p \in Attributable => effects[p] = 1
    BY <1>0 DEF Observe, StartedInv, EffectInv, TypeInv, TypeOK
  <2>4. [q \in Proposals |-> attempt[q].state]' =
          [[q \in Proposals |-> attempt[q].state] EXCEPT ![p] = r]
    BY <1>0, <1>3 DEF TypeInv, TypeOK
  <2>5. Authority!Conclude(p, r)
    BY <1>0, <1>1, <1>3, <2>1, <2>2, <2>3, <2>4 DEF Authority!Conclude
  <2> QED
    BY <2>1, <2>5
<1> QED
  BY <1>0, <1>2, <1>3 DEF Observe, Acceptable

\* A revocation closes its session or leaves everything as it is.
LEMMA RefineClose ==
  ASSUME TypeInv, RevokeSession
  PROVE  UNCHANGED Authority!vars \/ \E s \in Sessions : Authority!Close(s)
<1>1. UNCHANGED <<approval, attempt, effects>>
  BY DEF RevokeSession
<1>2. CASE UNCHANGED revoked
  BY <1>1, <1>2 DEF Authority!vars
<1>3. CASE /\ revoked[revoking.s] = None
           /\ revoked' = [revoked EXCEPT ![revoking.s] = revoking.at]
  <2>1. revoking.s \in Sessions /\ revoking.at # None
    BY TimesAssumption DEF RevokeSession, TypeInv, TypeOK
  <2>2. {s \in Sessions : revoked[s] # None}' = {s \in Sessions : revoked[s] # None} \cup {revoking.s}
    BY <1>3, <2>1 DEF TypeInv, TypeOK
  <2> QED
    BY <1>1, <1>3, <2>1, <2>2 DEF Authority!Close
<1> QED
  BY <1>2, <1>3 DEF RevokeSession

\* Whatever threads, retries, crashes, clocks and other programs do, the ledger
\* and the brokers implement one-time authority: one decision, one record and
\* one effect per tool call, none after the session's revocation, and no
\* success of an attributable proposal without its effect.
THEOREM RuntimeRefinesOneTimeAuthority == Spec => ImplementsOneTimeAuthority
<1>1. Init => RevocationIsBarrier /\ UsedInv
  BY DEF Init, RevocationIsBarrier, UsedInv, Executing, IdleThread, NoApproval
<1>2. TypeInv /\ EffectInv /\ RevocationIsBarrier /\ UsedInv /\ StartedInv /\ [Next]_vars
        => [Authority!Next]_(Authority!vars)
  <2> SUFFICES ASSUME TypeInv, EffectInv, RevocationIsBarrier, UsedInv, StartedInv, [Next]_vars
               PROVE  Authority!Next \/ UNCHANGED Authority!vars
    OBVIOUS
  <2>1. CASE \E p \in Proposals, d \in {"APPROVED", "DENIED"}, c \in States :
               RegisterActionApproval(p, d, c)
    BY <2>1, RefineDecide DEF Authority!Next
  <2>2. CASE \E t \in Threads : Authorize(t)
    <3> PICK t \in Threads : Authorize(t)
      BY <2>2
    <3> PICK p \in Proposals : p = th[t].p
      BY DEF Authorize, TypeInv, ThreadShape
    <3> QED
      BY RefineAuthorize DEF Authority!Next
  <2>3. CASE \E t \in Threads : Observe(t)
    <3> PICK t \in Threads : Observe(t)
      BY <2>3
    <3> PICK p \in Proposals : p = th[t].p
      BY DEF Observe, TypeInv, ThreadShape
    <3> QED
      BY RefineConclude DEF Authority!Next
  <2>4. CASE \E t \in Threads : BeginEffect(t)
    <3> PICK t \in Threads : BeginEffect(t)
      BY <2>4
    <3> PICK p \in Proposals : p = th[t].p
      BY DEF BeginEffect, TypeInv, ThreadShape
    <3> QED
      BY RefineBegin DEF Authority!Next
  <2>5. CASE RevokeSession
    BY <2>5, RefineClose DEF Authority!Next
  <2>6. CASE UNCHANGED <<approval, attempt, effects, revoked>>
    BY <2>6 DEF Authority!vars
  <2> QED
    BY <2>1, <2>2, <2>3, <2>4, <2>5, <2>6, LedgerSteps, EffectSteps, RevokedSteps
<1> QED
  BY <1>1, <1>2, RefineInit, StartedAlways, BarrierStep, UsedStep, PTL
  DEF Spec, ImplementsOneTimeAuthority, Authority!Spec
=============================================================================
