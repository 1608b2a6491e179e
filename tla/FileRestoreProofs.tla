-------------------------- MODULE FileRestoreProofs --------------------------
(***************************************************************************)
(* Proofs about FileRestore for every set of recoveries, targets and       *)
(* contents, every clock and every number of crashes.                      *)
(***************************************************************************)
EXTENDS FileRestore, TLAPS

\* An operation in progress names its recovery; one that is about to verify
\* expects the content at the target.
ControlShape ==
    /\ ctl.pc # "idle" => ctl.r \in Recoveries
    /\ ctl.pc = "verify" => ctl.want \in {"copied", "restored"}

TypeInv == TypeOK /\ ControlShape

LEMMA InspectType == \A r : Inspect(r) \in Findings
  BY DEF Inspect, Findings

LEMMA TypeInit == Init => TypeInv
  BY RecoveriesAssumption
  DEF Init, TypeInv, TypeOK, ControlShape, IdleControl, Row, RowStates, Control, PCs, Budget, States

\* The control thread's registers stay well-typed.
ControlOK == ctl \in Control /\ ControlShape

LEMMA ReturnOK == Return => ControlOK'
  BY DEF Return, IdleControl, ControlOK, ControlShape, Control, PCs

LEMMA GotoOK ==
  ASSUME TypeInv, ctl.pc # "idle", NEW pc \in PCs \ {"verify"}, Goto(pc)
  PROVE  ControlOK'
  BY DEF Goto, ControlOK, ControlShape, Control, PCs, TypeInv, TypeOK

LEMMA TypeStep == TypeInv /\ [Next]_vars => TypeInv'
<1> USE RecoveriesAssumption, BoundsAssumption
<1> SUFFICES ASSUME TypeInv, [Next]_vars PROVE TypeInv'
  OBVIOUS
<1>0. CASE UNCHANGED vars
  BY <1>0 DEF TypeInv, TypeOK, ControlShape, vars
<1>1. CASE \E r \in Recoveries : RequestPrepare(r) \/ RequestCommit(r)
  BY <1>1 DEF RequestPrepare, RequestCommit, TypeInv, TypeOK, ControlShape, Control, PCs
<1>2. CASE Prepare
  <2>1. ControlOK'
    BY <1>2, ReturnOK, GotoOK DEF Prepare, PCs
  <2> QED
    BY <1>2, <2>1 DEF Prepare, ControlOK, TypeInv, TypeOK, ControlShape
<1>3. CASE Insert
  <2>1. ControlOK'
    BY <1>3, ReturnOK DEF Insert
  <2>2. ctl.r \in Recoveries /\ ctl.now \in Nat
    BY <1>3 DEF Insert, TypeInv, TypeOK, ControlShape, Control
  <2>3. Prepared(ctl.now) \in Row
    BY <2>2 DEF Prepared, Row, RowStates
  <2> QED
    BY <1>3, <2>1, <2>2, <2>3 DEF Insert, ControlOK, TypeInv, TypeOK
<1>4. CASE Commit
  <2>1. ControlOK'
    BY <1>4, ReturnOK, GotoOK DEF Commit, PCs
  <2> QED
    BY <1>4, <2>1 DEF Commit, ControlOK, TypeInv, TypeOK
<1>5. CASE Begin
  <2>1. ControlOK'
    BY <1>5, ReturnOK, GotoOK DEF Begin, PCs
  <2>2. ctl.r \in Recoveries /\ ctl.now \in Nat /\ row[ctl.r].preparedAt \in Nat
    BY <1>5 DEF Begin, TypeInv, TypeOK, ControlShape, Control, Row
  <2> QED
    BY <1>5, <2>1, <2>2 DEF Begin, ControlOK, TypeInv, TypeOK, Row, RowStates
<1>6. CASE Restore
  <2>1. ctl.r \in Recoveries /\ ctl.now \in Nat
    BY <1>6 DEF Restore, TypeInv, TypeOK, ControlShape, Control
  <2>2. \/ Goto("create") \/ Return
        \/ /\ Inspect(ctl.r) \in {"copied", "restored"}
           /\ ctl' = [pc |-> "verify", r |-> ctl.r, now |-> ctl.now, want |-> Inspect(ctl.r)]
    BY <1>6 DEF Restore
  <2>3. CASE ctl' = [pc |-> "verify", r |-> ctl.r, now |-> ctl.now, want |-> Inspect(ctl.r)]
             /\ Inspect(ctl.r) \in {"copied", "restored"}
    BY <1>6, <2>1, <2>3
    DEF Restore, ControlShape, Control, PCs, Findings, TypeInv, TypeOK
  <2>4. CASE Goto("create") \/ Return
    <3>1. ControlOK'
      BY <1>6, <2>4, ReturnOK, GotoOK DEF Restore, PCs
    <3> QED
      BY <1>6, <3>1 DEF Restore, ControlOK, TypeInv, TypeOK
  <2> QED
    BY <2>2, <2>3, <2>4
<1>7. CASE Create
  <2>1. ControlOK'
    BY <1>7, ReturnOK, GotoOK DEF Create, PCs
  <2> QED
    BY <1>7, <2>1 DEF Create, ControlOK, States, TypeInv, TypeOK
<1>8. CASE Copy
  <2>1. ctl.r \in Recoveries /\ Original[ctl.r] \in States
    BY <1>8 DEF Copy, States, TypeInv, ControlShape
  <2> QED
    BY <1>8, <2>1 DEF Copy, ControlShape, Control, PCs, Findings, TypeInv, TypeOK
<1>9. CASE CopyFails
  BY <1>9, ReturnOK DEF CopyFails, ControlOK, TypeInv, TypeOK
<1>10. CASE Verify
  <2>1. ControlOK'
    BY <1>10, ReturnOK, GotoOK DEF Verify, PCs
  <2> QED
    BY <1>10, <2>1 DEF Verify, ControlOK, TypeInv, TypeOK
<1>11. CASE Complete
  <2>1. ControlOK'
    BY <1>11, ReturnOK DEF Complete
  <2>2. ctl.r \in Recoveries /\ ctl.now \in Nat /\ row[ctl.r].preparedAt \in Nat
    BY <1>11 DEF Complete, TypeInv, TypeOK, ControlShape, Control, Row
  <2> QED
    BY <1>11, <2>1, <2>2 DEF Complete, ControlOK, TypeInv, TypeOK, Row, RowStates
<1>12. CASE \E c \in 0..MaxClock : SetClock(c)
  BY <1>12 DEF SetClock, TypeInv, TypeOK, ControlShape
<1>13. CASE \E f \in Targets, c \in Contents \cup {Absent}, at \in 0..MaxClock : Brokered(f, c, at)
  BY <1>13 DEF Brokered, Budget, States, TypeInv, TypeOK, ControlShape
<1>14. CASE \E f \in Targets, c \in Contents \cup {Absent} : ExternalTarget(f, c)
  BY <1>14 DEF ExternalTarget, Budget, States, TypeInv, TypeOK, ControlShape
<1>15. CASE \E r \in Recoveries, c \in Contents \cup {Absent} : ExternalBlob(r, c)
  BY <1>15 DEF ExternalBlob, Budget, States, TypeInv, TypeOK, ControlShape
<1>16. CASE Crash
  BY <1>16 DEF Crash, IdleControl, Budget, Control, PCs, TypeInv, TypeOK, ControlShape
<1> QED
  BY <1>0, <1>1, <1>2, <1>3, <1>4, <1>5, <1>6, <1>7, <1>8, <1>9, <1>10, <1>11, <1>12, <1>13, <1>14,
     <1>15, <1>16 DEF Next, Work

\* The variables of FileRestore keep their types in every behaviour.
THEOREM TypeCorrect == Spec => []TypeOK
<1>1. Spec => []TypeInv
  BY TypeInit, TypeStep, PTL DEF Spec
<1> QED
  BY <1>1, PTL DEF TypeInv
-----------------------------------------------------------------------------
(* Times *)

\* A preparation time is never above the durable clock mark.
ReadableInv ==
    /\ \A r \in Recoveries : row[r].preparedAt <= clockHigh
    /\ RecordsAreReadable

\* The mark never falls, and only three steps write a row.
LEMMA RowSteps ==
  ASSUME TypeInv, [Next]_vars
  PROVE  /\ clockHigh <= clockHigh'
         /\ UNCHANGED row \/ Insert \/ Begin \/ Complete
<1> USE DEF TypeInv, TypeOK, Control
<1> QED
  BY DEF Next, Work, vars, RequestPrepare, Prepare, Insert, RequestCommit, Commit, Begin, Restore,
         Create, Copy, CopyFails, Verify, Complete, SetClock, Brokered, ExternalTarget,
         ExternalBlob, Crash

LEMMA ReadableStep == TypeInv /\ ReadableInv /\ [Next]_vars => ReadableInv'
<1> SUFFICES ASSUME TypeInv, ReadableInv, [Next]_vars PROVE ReadableInv'
  OBVIOUS
<1> USE DEF TypeInv, TypeOK, ReadableInv, RecordsAreReadable
<1>1. clockHigh \in Nat /\ clockHigh' \in Nat /\ clockHigh <= clockHigh'
  BY RowSteps, TypeStep
<1>2. \A r \in Recoveries : row[r].preparedAt \in Nat
  BY DEF Row
<1>3. CASE UNCHANGED row
  BY <1>1, <1>2, <1>3
<1>4. CASE Insert
  <2>1. ctl.r \in Recoveries /\ ctl.now \in Nat
    BY <1>4 DEF Insert, ControlShape, Control
  <2>2. CASE row' = [row EXCEPT ![ctl.r] = Prepared(ctl.now)] /\ clockHigh' = ctl.now
    <3>1. \A r \in Recoveries \ {ctl.r} : row'[r] = row[r]
      BY <2>1, <2>2
    <3>2. row'[ctl.r].state = "PREPARED" /\ row'[ctl.r].preparedAt = clockHigh'
      BY <2>1, <2>2 DEF Prepared
    <3> QED
      BY <1>1, <1>2, <3>1, <3>2
  <2> QED
    BY <1>3, <1>4, <2>2 DEF Insert
<1>5. CASE Begin
  <2>1. ctl.r \in Recoveries
    BY <1>5 DEF Begin, ControlShape
  <2>2. \A r \in Recoveries : /\ row'[r].preparedAt = row[r].preparedAt
                              /\ row'[r].state = "SUCCEEDED" => row'[r] = row[r]
    BY <1>5, <2>1 DEF Begin
  <2> QED
    BY <1>1, <1>2, <2>2
<1>6. CASE Complete
  <2>1. ctl.r \in Recoveries /\ ctl.now \in Nat
    BY <1>6 DEF Complete, ControlShape, Control
  <2>2. CASE /\ ctl.now >= clockHigh
             /\ row' = [row EXCEPT ![ctl.r] = [state |-> "SUCCEEDED",
                          preparedAt |-> row[ctl.r].preparedAt, completedAt |-> ctl.now]]
    <3>1. \A r \in Recoveries \ {ctl.r} : row'[r] = row[r]
      BY <2>1, <2>2
    <3>2. /\ row'[ctl.r].preparedAt = row[ctl.r].preparedAt
          /\ row'[ctl.r].completedAt = ctl.now
      BY <2>1, <2>2
    <3> QED
      BY <1>1, <1>2, <2>1, <2>2, <3>1, <3>2
  <2> QED
    BY <1>3, <1>6, <2>2 DEF Complete
<1> QED
  BY <1>3, <1>4, <1>5, <1>6, RowSteps

\* Every committed restore can be read back: it is not dated before its
\* preparation, whatever the system clock did in between.
THEOREM CommittedReadable == Spec => []RecordsAreReadable
<1>1. Init => ReadableInv
  BY DEF Init, ReadableInv, RecordsAreReadable
<1>2. ReadableInv => RecordsAreReadable
  BY DEF ReadableInv
<1>3. Spec => []TypeInv
  BY TypeInit, TypeStep, PTL DEF Spec
<1> QED
  BY <1>1, <1>2, <1>3, ReadableStep, PTL DEF Spec
-----------------------------------------------------------------------------
(* The target *)

OverwriteStep ==
    \A f \in Targets : Work /\ ctl.pc # "copying" /\ target'[f] # target[f] => target[f] = Absent

LEMMA OverwriteNext == TypeInv /\ [Next]_vars => OverwriteStep
  BY DEF OverwriteStep, TypeInv, TypeOK, Work, Prepare, Insert, Commit, Begin, Restore, Create,
         Copy, CopyFails, Verify, Complete

\* No restore overwrites a file that appeared at its target.
THEOREM NeverOverwrites == Spec => RestoreNeverOverwrites
<1>1. Spec => []TypeInv
  BY TypeInit, TypeStep, PTL DEF Spec
<1>2. TypeInv /\ [Next]_vars => [OverwriteStep]_vars
  BY OverwriteNext
<1>3. Spec => [][OverwriteStep]_vars
  BY <1>1, <1>2, PTL DEF Spec
<1> QED
  BY <1>3 DEF RestoreNeverOverwrites, OverwriteStep

\* As long as only brokered executions write to the workspace, the content that
\* was verified is still at the target when the restore is recorded.
Verified == used.external = 0 /\ ctl.pc = "complete" => target[Target[ctl.r]] = Original[ctl.r]

LEMMA InspectedRestored ==
  ASSUME NEW r \in Recoveries, Inspect(r) \in {"copied", "restored"}
  PROVE  target[Target[r]] = Original[r]
  BY DEF Inspect

LEMMA VerifiedStep ==
  ASSUME TypeInv, Verified, [Next]_vars
  PROVE  Verified'
<1> USE DEF Verified, TypeInv, TypeOK
<1>0. CASE UNCHANGED vars
  BY <1>0 DEF vars
<1>1. CASE Verify
  <2>1. CASE Goto("complete") /\ Inspect(ctl.r) = ctl.want
    <3>1. target[Target[ctl.r]] = Original[ctl.r]
      BY <1>1, <2>1, InspectedRestored DEF Verify, ControlShape
    <3> QED
      BY <1>1, <2>1, <3>1 DEF Verify, Goto
  <2> QED
    BY <1>1, <2>1 DEF Verify, Return, IdleControl
<1>2. CASE Work /\ ~Verify
  <2>1. ctl'.pc # "complete"
    <3>1. CASE Restore
      <4>1. \/ Goto("create") \/ Return
            \/ ctl' = [pc |-> "verify", r |-> ctl.r, now |-> ctl.now, want |-> Inspect(ctl.r)]
        BY <3>1 DEF Restore
      <4> QED
        BY <4>1 DEF Goto, Return, IdleControl
    <3> QED
      BY <1>2, <3>1 DEF Work, Prepare, Insert, Commit, Begin, Create, Copy, CopyFails, Complete,
                  Goto, Return, IdleControl
  <2> QED
    BY <2>1
<1>3. CASE \E r \in Recoveries : RequestPrepare(r) \/ RequestCommit(r)
  BY <1>3 DEF RequestPrepare, RequestCommit
<1>4. CASE \E c \in 0..MaxClock : SetClock(c)
  BY <1>4 DEF SetClock
<1>5. CASE \E f \in Targets, c \in Contents \cup {Absent}, at \in 0..MaxClock : Brokered(f, c, at)
  BY <1>5 DEF Brokered, InScope
<1>6. CASE \/ \E f \in Targets, c \in Contents \cup {Absent} : ExternalTarget(f, c)
           \/ \E r \in Recoveries, c \in Contents \cup {Absent} : ExternalBlob(r, c)
  BY <1>6 DEF ExternalTarget, ExternalBlob, Budget
<1>7. CASE Crash
  BY <1>7 DEF Crash, IdleControl
<1> QED
  BY <1>0, <1>1, <1>2, <1>3, <1>4, <1>5, <1>6, <1>7 DEF Next

RecordStep ==
    \A r \in Recoveries :
        used.external = 0 /\ row[r].state # "SUCCEEDED" /\ row'[r].state = "SUCCEEDED"
        => target[Target[r]] = Original[r]

LEMMA RecordNext == TypeInv /\ Verified /\ [Next]_vars => RecordStep
<1> SUFFICES ASSUME TypeInv, Verified, [Next]_vars, NEW r \in Recoveries,
                    used.external = 0, row[r].state # "SUCCEEDED", row'[r].state = "SUCCEEDED"
             PROVE  target[Target[r]] = Original[r]
  BY DEF RecordStep
<1> USE DEF TypeInv, TypeOK
<1>1. CASE Complete
  <2>1. ctl.r = r
    BY <1>1 DEF Complete
  <2> QED
    BY <1>1, <2>1 DEF Complete, Verified
<1>2. CASE Insert \/ Begin
  BY <1>2 DEF Insert, Begin, Prepared
<1> QED
  BY <1>1, <1>2, RowSteps

\* A restore is recorded only while its content is at the target.
THEOREM RecordedIsThere == Spec => RecordsWhatIsThere
<1>1. Init => Verified
  BY DEF Init, Verified, IdleControl
<1>2. TypeInv /\ Verified /\ [Next]_vars => Verified'
  BY VerifiedStep
<1>3. Spec => [](TypeInv /\ Verified)
  BY <1>1, <1>2, TypeInit, TypeStep, PTL DEF Spec
<1>4. TypeInv /\ Verified /\ [Next]_vars => [RecordStep]_vars
  BY RecordNext
<1>5. Spec => [][RecordStep]_vars
  BY <1>3, <1>4, PTL DEF Spec
<1> QED
  BY <1>5 DEF RecordsWhatIsThere, RecordStep
=============================================================================
