------------------------- MODULE SessionAuditProofs -------------------------
(***************************************************************************)
(* Proofs about SessionAudit for every finite set of proposals, any number *)
(* of sessions, denials and events, every page limit and all times: what   *)
(* the ledger commits passes the verification of the audit, the revision   *)
(* identifies the history, and an export that ends is one history.         *)
(***************************************************************************)
EXTENDS SessionAudit, FiniteSetTheorems, TLAPS

LEMMA Constants ==
    /\ Proposals \subseteq Nat /\ IsFiniteSet(Proposals)
    /\ SessionOf \in [Proposals -> Sessions]
    /\ ApprovedAt \in Nat /\ ExpiresAt \in Nat /\ ApprovalLifetime \in Nat
    /\ MaxExecutionDuration \in Nat /\ Capabilities \in Nat /\ PageLimit \in Nat
    /\ MaxEvents \in Nat /\ MaxRevision \in Nat /\ MaxClock \in Nat /\ MaxDenials \in Nat
    /\ None \notin Nat
  BY ProposalsAssumption, TimesAssumption, FiniteAssumption

-----------------------------------------------------------------------------
(* Types *)

\* The reader is a record with these fields.
ReaderShape ==
    reader = [pc |-> reader.pc, s |-> reader.s, revision |-> reader.revision,
              total |-> reader.total, at |-> reader.at, offset |-> reader.offset,
              got |-> reader.got, rows |-> reader.rows, history |-> reader.history,
              whole |-> reader.whole]

TablesOK ==
    /\ high \in Nat
    /\ approved \subseteq Sessions
    /\ revoked \in [Sessions -> Nat \cup {None}]
    /\ approval \in [Proposals -> Approval]
    /\ attempt \in [Proposals -> Attempt]
    /\ denials \in Seq(Denial)
    /\ restore \in [Proposals -> Restore]
    /\ revision \in [Sessions -> 0..MaxRevision]

ReaderOK ==
    /\ ReaderShape
    /\ reader.pc \in PCs /\ reader.s \in Sessions \cup {None}
    /\ reader.revision \in Nat
    /\ reader.pc = "reading" => reader.s \in approved /\ reader.offset \in Nat

TypeInv == TablesOK /\ ReaderOK

LEMMA TypeInvTypes == TypeInv => TypeOK
  BY DEF TypeInv, TablesOK, ReaderOK, TypeOK

LEMMA TypeInit == Init => TypeInv
<1> SUFFICES ASSUME Init PROVE TypeInv
  OBVIOUS
<1>1. NoApproval \in Approval /\ NoAttempt \in Attempt /\ NoRestore \in Restore
  BY DEF NoApproval, NoAttempt, NoRestore, Approval, Attempt, Restore
<1>2. TablesOK
  BY <1>1, Constants DEF Init, TablesOK
<1>3. ReaderOK
  BY DEF Init, NoExport, ReaderOK, ReaderShape, PCs
<1> QED
  BY <1>2, <1>3 DEF TypeInv

\* A transaction that writes k rows of a session raises its revision by k.
LEMMA BumpType ==
    ASSUME TablesOK, NEW s \in Sessions, NEW k \in Nat, Bump(s, k)
    PROVE  /\ revision' \in [Sessions -> 0..MaxRevision]
           /\ revision'[s] = revision[s] + k
           /\ \A t \in Sessions \ {s} : revision'[t] = revision[t]
  BY Constants DEF TablesOK, Bump

LEMMA SessionDenialType ==
    ASSUME NEW p \in Proposals, NEW now
    PROVE  SessionDenial(p, now) \in Reasons \cup {"none"}
  BY ProposalsAssumption DEF SessionDenial, Reasons

LEMMA ApprovalDenialType ==
    ASSUME NEW p \in Proposals, NEW now, NEW context \in {"absent", "changed", "same"}
    PROVE  ApprovalDenial(p, context, now) \in Reasons \cup {"none"}
<1> DEFINE rows == {q \in Proposals : CallOf[q] = CallOf[p] /\ approval[q].decision # "NONE"}
<1>1. CASE context = "absent"
  BY <1>1 DEF ApprovalDenial, Reasons
<1>2. CASE context # "absent" /\ rows = {}
  BY <1>2 DEF ApprovalDenial, Reasons
<1>3. CASE context # "absent" /\ rows # {}
  BY <1>3 DEF ApprovalDenial, Reasons
<1> QED
  BY <1>1, <1>2, <1>3

LEMMA DeniedType ==
    ASSUME TablesOK, NEW p \in Proposals, NEW reason \in Reasons, NEW now \in Nat,
           Denied(p, reason, now)
    PROVE  /\ denials' \in Seq(Denial)
           /\ Len(denials') = Len(denials) + 1
           /\ \A i \in 1..Len(denials) : denials'[i] = denials[i]
           /\ denials'[Len(denials) + 1] = [p |-> p, reason |-> reason, at |-> now]
<1>1. [p |-> p, reason |-> reason, at |-> now] \in Denial
  BY DEF Denial
<1> QED
  BY <1>1 DEF TablesOK, Denied

LEMMA ApprovalRow ==
    ASSUME TablesOK, NEW p \in Proposals
    PROVE  /\ approval[p] \in Approval
           /\ approval[p] = [decision |-> approval[p].decision, decidedAt |-> approval[p].decidedAt,
                             expiresAt |-> approval[p].expiresAt,
                             consumedAt |-> approval[p].consumedAt]
  BY DEF TablesOK, Approval

LEMMA SpentRecord ==
    ASSUME NEW r \in Approval, NEW now
    PROVE  [r EXCEPT !.consumedAt = now] =
             [decision |-> r.decision, decidedAt |-> r.decidedAt, expiresAt |-> r.expiresAt,
              consumedAt |-> now]
  BY DEF Approval

LEMMA SpendRow ==
    ASSUME TablesOK, NEW p \in Proposals, NEW now \in Nat, Spend(p, now)
    PROVE  /\ approval' \in [Proposals -> Approval]
           /\ approval'[p] = [decision |-> approval[p].decision, decidedAt |-> approval[p].decidedAt,
                              expiresAt |-> approval[p].expiresAt, consumedAt |-> now]
           /\ \A q \in Proposals \ {p} : approval'[q] = approval[q]
<1>1. PICK a : a = [decision |-> approval[p].decision, decidedAt |-> approval[p].decidedAt,
                    expiresAt |-> approval[p].expiresAt, consumedAt |-> now]
  OBVIOUS
<1>2. a \in Approval
  BY <1>1, ApprovalRow DEF Approval
<1>3. [approval[p] EXCEPT !.consumedAt = now] = a
  BY <1>1, ApprovalRow, SpentRecord
<1>4. approval' = [approval EXCEPT ![p] = a]
  BY <1>3 DEF Spend
<1> QED
  BY <1>1, <1>2, <1>4 DEF TablesOK

LEMMA GrantedRow ==
    ASSUME TablesOK, NEW p \in Proposals, NEW now \in Nat, Granted(p, now)
    PROVE  /\ attempt' \in [Proposals -> Attempt]
           /\ attempt'[p] = [state |-> "IN_FLIGHT", consumedAt |-> now, completedAt |-> None]
           /\ \A q \in Proposals \ {p} : attempt'[q] = attempt[q]
<1>1. [state |-> "IN_FLIGHT", consumedAt |-> now, completedAt |-> None] \in Attempt
  BY DEF Attempt
<1> QED
  BY <1>1 DEF Granted, TablesOK

LEMMA ObserveRow ==
    ASSUME TablesOK, NEW p \in Proposals, NEW state \in {"SUCCEEDED", "EXECUTION_UNKNOWN"},
           NEW now \in Nat, Observe(p, state, now)
    PROVE  /\ attempt' \in [Proposals -> Attempt]
           /\ attempt'[p] = [state |-> state, consumedAt |-> attempt[p].consumedAt,
                             completedAt |-> now]
           /\ \A q \in Proposals \ {p} : attempt'[q] = attempt[q]
<1>1. [state |-> state, consumedAt |-> attempt[p].consumedAt, completedAt |-> now] \in Attempt
  BY DEF TablesOK, Attempt
<1> QED
  BY <1>1 DEF Observe, TablesOK

LEMMA RegisterRow ==
    ASSUME TablesOK, NEW p \in Proposals, NEW decision \in {"APPROVED", "DENIED"},
           NEW decided \in Nat, NEW expires \in Nat,
           RegisterActionApproval(p, decision, decided, expires)
    PROVE  /\ approval' \in [Proposals -> Approval]
           /\ approval'[p] = [decision |-> decision, decidedAt |-> decided,
                              expiresAt |-> expires, consumedAt |-> None]
           /\ \A q \in Proposals \ {p} : approval'[q] = approval[q]
<1>1. [decision |-> decision, decidedAt |-> decided, expiresAt |-> expires,
       consumedAt |-> None] \in Approval
  BY DEF Approval
<1> QED
  BY <1>1 DEF RegisterActionApproval, TablesOK

LEMMA InsertRow ==
    ASSUME TablesOK, NEW p \in Proposals, NEW now \in Nat, InsertRestore(p, now)
    PROVE  /\ restore' \in [Proposals -> Restore]
           /\ restore'[p] = [state |-> "PREPARED", preparedAt |-> now, completedAt |-> None]
           /\ \A q \in Proposals \ {p} : restore'[q] = restore[q]
<1>1. [state |-> "PREPARED", preparedAt |-> now, completedAt |-> None] \in Restore
  BY DEF Restore
<1> QED
  BY <1>1 DEF InsertRestore, TablesOK

LEMMA MoveRow ==
    ASSUME TablesOK, NEW p \in Proposals, NEW from, NEW to \in {"IN_FLIGHT", "SUCCEEDED"},
           NEW completed \in Nat \cup {None}, NEW now \in Nat,
           MoveRestore(p, from, to, completed, now)
    PROVE  /\ restore' \in [Proposals -> Restore]
           /\ restore'[p] = [state |-> to, preparedAt |-> restore[p].preparedAt,
                             completedAt |-> completed]
           /\ \A q \in Proposals \ {p} : restore'[q] = restore[q]
<1>1. [state |-> to, preparedAt |-> restore[p].preparedAt, completedAt |-> completed] \in Restore
  BY DEF Restore, TablesOK
<1> QED
  BY <1>1 DEF MoveRestore, TablesOK

\* The reason of a denial, whichever check it fails.
LEMMA DenyReason ==
    ASSUME NEW p \in Proposals, NEW context \in {"absent", "changed", "same"}, NEW now,
           Deny(p, context, now)
    PROVE  \E reason \in Reasons : Denied(p, reason, now)
<1>1. "TOOL_CALL_REPLAY" \in Reasons
  BY DEF Reasons
<1>2. CASE SessionDenial(p, now) # "none"
  BY <1>2, SessionDenialType DEF Deny
<1>3. CASE SessionDenial(p, now) = "none" /\ p \in Preauthorized
  BY <1>1, <1>3 DEF Deny
<1>4. CASE SessionDenial(p, now) = "none" /\ p \notin Preauthorized
  BY <1>4, ApprovalDenialType DEF Deny
<1> QED
  BY <1>2, <1>3, <1>4

LEMMA WriteType ==
    ASSUME TablesOK, NEW p \in Proposals, NEW now \in Times, Write(p, now)
    PROVE  TablesOK' /\ UNCHANGED <<approved, reader>>
<1>1. now \in Nat /\ SessionOf[p] \in Sessions /\ 1 \in Nat /\ 2 \in Nat
  BY Constants DEF Times
<1>2. ASSUME NEW decision \in {"APPROVED", "DENIED"}, NEW expires \in 0..ExpiresAt,
             RegisterActionApproval(p, decision, now, expires)
      PROVE  TablesOK' /\ UNCHANGED <<approved, reader>>
  <2>1. expires \in Nat
    BY Constants
  <2>2. approval' \in [Proposals -> Approval]
    BY <1>1, <1>2, <2>1, RegisterRow
  <2>3. revision' \in [Sessions -> 0..MaxRevision]
    BY <1>1, <1>2, BumpType DEF RegisterActionApproval
  <2> QED
    BY <1>2, <2>2, <2>3 DEF RegisterActionApproval, TablesOK
<1>3. ASSUME NEW context \in {"absent", "changed", "same"}, Deny(p, context, now)
      PROVE  TablesOK' /\ UNCHANGED <<approved, reader>>
  <2>1. denials' \in Seq(Denial)
    BY <1>1, <1>3, DenyReason, DeniedType
  <2>2. revision' \in [Sessions -> 0..MaxRevision]
    <3>1. CASE SessionOf[p] \in approved
      BY <1>1, <1>3, <3>1, BumpType DEF Deny
    <3>2. CASE SessionOf[p] \notin approved
      BY <1>3, <3>2 DEF Deny, TablesOK
    <3> QED
      BY <3>1, <3>2
  <2> QED
    BY <1>1, <1>3, <2>1, <2>2 DEF Deny, ObserveClock, TablesOK
<1>4. CASE AuthorizeAutomatic(p, now)
  <2>1. attempt' \in [Proposals -> Attempt]
    BY <1>1, <1>4, GrantedRow DEF AuthorizeAutomatic
  <2>2. revision' \in [Sessions -> 0..MaxRevision]
    BY <1>1, <1>4, BumpType DEF AuthorizeAutomatic
  <2> QED
    BY <1>1, <1>4, <2>1, <2>2 DEF AuthorizeAutomatic, ObserveClock, TablesOK
<1>5. CASE AuthorizeApproved(p, now)
  <2>1. approval' \in [Proposals -> Approval]
    BY <1>1, <1>5, SpendRow DEF AuthorizeApproved
  <2>2. revision' \in [Sessions -> 0..MaxRevision]
    BY <1>1, <1>5, BumpType DEF AuthorizeApproved
  <2>3. attempt' \in [Proposals -> Attempt] /\ denials' \in Seq(Denial)
    <3>1. {"ACTION_APPROVAL_DENIED", "TOOL_CALL_REPLAY"} \subseteq Reasons
      BY DEF Reasons
    <3>2. CASE Granted(p, now) /\ UNCHANGED denials
      BY <1>1, <3>2, GrantedRow DEF TablesOK
    <3>3. CASE Denied(p, "ACTION_APPROVAL_DENIED", now) /\ UNCHANGED attempt
      BY <1>1, <3>1, <3>3, DeniedType DEF TablesOK
    <3>4. CASE Denied(p, "TOOL_CALL_REPLAY", now) /\ UNCHANGED attempt
      BY <1>1, <3>1, <3>4, DeniedType DEF TablesOK
    <3> QED
      BY <1>5, <3>2, <3>3, <3>4 DEF AuthorizeApproved
  <2> QED
    BY <1>1, <1>5, <2>1, <2>2, <2>3 DEF AuthorizeApproved, ObserveClock, TablesOK
<1>6. ASSUME NEW state \in {"SUCCEEDED", "EXECUTION_UNKNOWN"}, Observe(p, state, now)
      PROVE  TablesOK' /\ UNCHANGED <<approved, reader>>
  <2>1. attempt' \in [Proposals -> Attempt]
    BY <1>1, <1>6, ObserveRow
  <2>2. revision' \in [Sessions -> 0..MaxRevision]
    BY <1>1, <1>6, BumpType DEF Observe
  <2> QED
    BY <1>1, <1>6, <2>1, <2>2 DEF Observe, ObserveClock, TablesOK
<1>7. CASE ObserveAgain(p, now)
  BY <1>1, <1>7 DEF ObserveAgain, ObserveClock, TablesOK, tables
<1>8. CASE InsertRestore(p, now)
  <2>1. restore' \in [Proposals -> Restore]
    BY <1>1, <1>8, InsertRow
  <2>2. revision' \in [Sessions -> 0..MaxRevision]
    BY <1>1, <1>8, BumpType DEF InsertRestore
  <2> QED
    BY <1>1, <1>8, <2>1, <2>2 DEF InsertRestore, ObserveClock, TablesOK
<1>9. ASSUME NEW from, NEW to \in {"IN_FLIGHT", "SUCCEEDED"}, NEW completed \in Nat \cup {None},
             MoveRestore(p, from, to, completed, now)
      PROVE  TablesOK' /\ UNCHANGED <<approved, reader>>
  <2>1. restore' \in [Proposals -> Restore]
    BY <1>1, <1>9, MoveRow
  <2>2. revision' \in [Sessions -> 0..MaxRevision]
    BY <1>1, <1>9, BumpType DEF MoveRestore
  <2> QED
    BY <1>1, <1>9, <2>1, <2>2 DEF MoveRestore, ObserveClock, TablesOK
<1>10. CASE BeginRestore(p, now) \/ CompleteRestore(p, now)
  BY <1>1, <1>9, <1>10 DEF BeginRestore, CompleteRestore
<1> QED
  BY <1>2, <1>3, <1>4, <1>5, <1>6, <1>7, <1>8, <1>10 DEF Write

\* What the loop makes of a page.
LEMMA AfterIs ==
    ASSUME NEW r, NEW offset, NEW got,
           r = [pc |-> r.pc, s |-> r.s, revision |-> r.revision, total |-> r.total,
                at |-> r.at, offset |-> r.offset, got |-> r.got, rows |-> r.rows,
                history |-> r.history, whole |-> r.whole]
    PROVE  /\ offset < r.total => After(r, offset, got) =
                [pc |-> r.pc, s |-> r.s, revision |-> r.revision, total |-> r.total,
                 at |-> r.at, offset |-> offset, got |-> got, rows |-> r.rows,
                 history |-> r.history, whole |-> r.whole]
           /\ ~(offset < r.total) /\ Cardinality(got) = r.total => After(r, offset, got) =
                [pc |-> "done", s |-> None, revision |-> 0, total |-> 0, at |-> 0, offset |-> 0,
                 got |-> {}, rows |-> None, history |-> {}, whole |-> (got = r.history)]
           /\ ~(offset < r.total) /\ Cardinality(got) # r.total => After(r, offset, got) =
                [pc |-> "INCONSISTENT", s |-> None, revision |-> 0, total |-> 0, at |-> 0,
                 offset |-> 0, got |-> {}, rows |-> None, history |-> {}, whole |-> FALSE]
  BY DEF After, NoExport

\* A reader that is not reading, or a record that reads on.
LEMMA ShapeOK ==
    ASSUME NEW a, NEW b, NEW c, NEW d, NEW e, NEW f, NEW g, NEW h, NEW i, NEW j,
           reader' = [pc |-> a, s |-> b, revision |-> c, total |-> d, at |-> e, offset |-> f,
                      got |-> g, rows |-> h, history |-> i, whole |-> j],
           a \in PCs, b \in Sessions \cup {None}, c \in Nat,
           a = "reading" => b \in approved' /\ f \in Nat
    PROVE  ReaderOK'
  BY DEF ReaderOK, ReaderShape

LEMMA AfterType ==
    ASSUME NEW r, NEW offset \in Nat, NEW got,
           r = [pc |-> "reading", s |-> r.s, revision |-> r.revision, total |-> r.total,
                at |-> r.at, offset |-> r.offset, got |-> r.got, rows |-> r.rows,
                history |-> r.history, whole |-> r.whole],
           r.s \in Sessions, r.s \in approved', r.revision \in Nat,
           reader' = After(r, offset, got)
    PROVE  ReaderOK'
<1>0. /\ r.pc = "reading" /\ "reading" \in PCs /\ "done" \in PCs /\ "INCONSISTENT" \in PCs
      /\ 0 \in Nat /\ "done" # "reading" /\ "INCONSISTENT" # "reading"
  BY DEF PCs
<1>a. r = [pc |-> r.pc, s |-> r.s, revision |-> r.revision, total |-> r.total,
           at |-> r.at, offset |-> r.offset, got |-> r.got, rows |-> r.rows,
           history |-> r.history, whole |-> r.whole]
  BY <1>0
<1>1. CASE offset < r.total
  <2>1. reader' = [pc |-> r.pc, s |-> r.s, revision |-> r.revision, total |-> r.total,
                   at |-> r.at, offset |-> offset, got |-> got, rows |-> r.rows,
                   history |-> r.history, whole |-> r.whole]
    BY <1>a, <1>1, AfterIs
  <2> QED
    BY <1>0, <2>1, ShapeOK
<1>2. CASE ~(offset < r.total) /\ Cardinality(got) = r.total
  <2>1. reader' = [pc |-> "done", s |-> None, revision |-> 0, total |-> 0, at |-> 0, offset |-> 0,
                   got |-> {}, rows |-> None, history |-> {}, whole |-> (got = r.history)]
    BY <1>a, <1>2, AfterIs
  <2> QED
    BY <1>0, <2>1, ShapeOK
<1>3. CASE ~(offset < r.total) /\ Cardinality(got) # r.total
  <2>1. reader' = [pc |-> "INCONSISTENT", s |-> None, revision |-> 0, total |-> 0, at |-> 0,
                   offset |-> 0, got |-> {}, rows |-> None, history |-> {}, whole |-> FALSE]
    BY <1>a, <1>3, AfterIs
  <2> QED
    BY <1>0, <2>1, ShapeOK
<1> QED
  BY <1>1, <1>2, <1>3

\* The reader gives up, or finds pages that disagree.
LEMMA StopType ==
    ASSUME reader' = NoExport \/ reader' = [NoExport EXCEPT !.pc = "INCONSISTENT"]
    PROVE  ReaderOK' /\ reader'.pc # "reading"
  BY DEF NoExport, ReaderOK, ReaderShape, PCs

LEMMA FirstPageType ==
    ASSUME TypeInv, NEW s \in Sessions, NEW m \in 1..PageLimit, NEW n \in 1..PageLimit,
           FirstPage(s, m, n)
    PROVE  ReaderOK'
<1>1. PICK r : r = [pc |-> "reading", s |-> s, revision |-> revision[s],
                    total |-> Cardinality(Events(s)), at |-> Latest(s), offset |-> 0,
                    got |-> {}, rows |-> Rows(s), history |-> Events(s), whole |-> FALSE]
  OBVIOUS
<1>2. reader' = After(r, NextOffset(0, n), Slice(s, 0, n)) /\ s \in approved /\ approved' = approved
  BY <1>1 DEF FirstPage, tables
<1>3. NextOffset(0, n) \in Nat /\ revision[s] \in Nat
  BY Constants DEF NextOffset, TypeInv, TablesOK
<1> QED
  BY <1>1, <1>2, <1>3, AfterType

LEMMA NextPageType ==
    ASSUME TypeInv, NEW m \in 1..PageLimit, NEW n \in 1..PageLimit, NextPage(m, n)
    PROVE  ReaderOK'
<1>1. /\ reader.pc = "reading" /\ approved' = approved /\ reader.offset \in Nat
      /\ reader.s \in approved /\ reader.s \in Sessions /\ reader.revision \in Nat
  BY DEF NextPage, TypeInv, TablesOK, ReaderOK, tables
<1>2. NextOffset(reader.offset, n) \in Nat
  BY <1>1, Constants DEF NextOffset
<1>3. \/ reader' = [NoExport EXCEPT !.pc = "INCONSISTENT"]
      \/ \E got : reader' = After(reader, NextOffset(reader.offset, n), got)
  BY DEF NextPage
<1>4. reader = [pc |-> "reading", s |-> reader.s, revision |-> reader.revision,
                total |-> reader.total, at |-> reader.at, offset |-> reader.offset,
                got |-> reader.got, rows |-> reader.rows, history |-> reader.history,
                whole |-> reader.whole]
  BY <1>1 DEF TypeInv, ReaderOK, ReaderShape
<1> QED
  BY <1>1, <1>2, <1>3, <1>4, AfterType, StopType

LEMMA TypeStep == TypeInv /\ [Next]_vars => TypeInv'
<1> SUFFICES ASSUME TypeInv, [Next]_vars PROVE TypeInv'
  OBVIOUS
<1>1. ASSUME NEW s \in Sessions, RegisterSession(s) PROVE TypeInv'
  <2>1. revision' \in [Sessions -> 0..MaxRevision]
    <3>1. 1 + Capabilities \in Nat
      BY Constants
    <3> QED
      BY <1>1, <3>1, BumpType DEF RegisterSession, TypeInv
  <2> QED
    BY <1>1, <2>1 DEF RegisterSession, TypeInv, TablesOK, ReaderOK, ReaderShape
<1>2. ASSUME NEW s \in Sessions, NEW at \in Times, Revoke(s, at) PROVE TypeInv'
  <2>1. at \in Nat /\ 1 \in Nat
    BY Constants DEF Times
  <2>2. revision' \in [Sessions -> 0..MaxRevision]
    BY <1>2, <2>1, BumpType DEF Revoke, TypeInv
  <2> QED
    BY <1>2, <2>1, <2>2 DEF Revoke, TypeInv, TablesOK, ReaderOK, ReaderShape
<1>3. ASSUME NEW p \in Proposals, NEW now \in Times, Write(p, now) PROVE TypeInv'
  <2>1. TablesOK' /\ UNCHANGED <<approved, reader>>
    BY <1>3, WriteType DEF TypeInv
  <2> QED
    BY <2>1 DEF TypeInv, ReaderOK, ReaderShape
<1>4. ASSUME UNCHANGED <<high, tables, revision>>, ReaderOK' PROVE TypeInv'
  BY <1>4 DEF TypeInv, TablesOK, tables
<1>5. ASSUME NEW s \in Sessions, NEW m \in 1..PageLimit, NEW n \in 1..PageLimit, FirstPage(s, m, n)
      PROVE  TypeInv'
  BY <1>4, <1>5, FirstPageType DEF FirstPage
<1>6. ASSUME NEW m \in 1..PageLimit, NEW n \in 1..PageLimit, NextPage(m, n) PROVE TypeInv'
  BY <1>4, <1>6, NextPageType DEF NextPage
<1>7. CASE Changed \/ Refused
  BY <1>4, <1>7, StopType DEF Changed, Refused
<1>8. CASE UNCHANGED vars
  BY <1>8 DEF TypeInv, TablesOK, ReaderOK, ReaderShape, vars, tables
<1> QED
  BY <1>1, <1>2, <1>3, <1>5, <1>6, <1>7, <1>8 DEF Next

\* The tables and the revisions keep their types, whatever the transactions,
\* and a revision never exceeds its bound (ledger.rs, the triggers).
THEOREM AuditTypes == Spec => []TypeOK
<1>1. Spec => []TypeInv
  BY TypeInit, TypeStep, PTL DEF Spec
<1> QED
  BY <1>1, TypeInvTypes, PTL

-----------------------------------------------------------------------------
(* What is written can be read *)

\* An approval that is there verifies; an attempt that is there verifies and
\* is dated within the ledger's time, and so are completions and restores.
RowOK(p) ==
    /\ approval[p].decision # "NONE" => ApprovalVerifies(p)
    /\ attempt[p].state # "NONE" => AttemptVerifies(p) /\ attempt[p].consumedAt <= high
    /\ attempt[p].completedAt # None => attempt[p].state # "NONE" /\ attempt[p].completedAt <= high
    /\ restore[p].state # "NONE" => RestoreVerifies(p) /\ restore[p].preparedAt <= high
    /\ restore[p].completedAt # None => restore[p].state # "NONE"

RowsVerify == \A p \in Proposals : RowOK(p)

LEMMA VerifyInit == Init => RowsVerify
  BY DEF Init, RowsVerify, RowOK, NoApproval, NoAttempt, NoRestore

LEMMA RowTypes ==
    ASSUME TablesOK, NEW p \in Proposals
    PROVE  /\ approval[p].decision \in {"NONE", "APPROVED", "DENIED"}
           /\ approval[p].decidedAt \in Nat /\ approval[p].expiresAt \in Nat
           /\ approval[p].consumedAt \in Nat \cup {None}
           /\ attempt[p].state \in {"NONE", "IN_FLIGHT", "SUCCEEDED", "EXECUTION_UNKNOWN"}
           /\ attempt[p].consumedAt \in Nat /\ attempt[p].completedAt \in Nat \cup {None}
           /\ restore[p].state \in {"NONE", "PREPARED", "IN_FLIGHT", "SUCCEEDED"}
           /\ restore[p].preparedAt \in Nat /\ restore[p].completedAt \in Nat \cup {None}
           /\ high \in Nat
  BY DEF TablesOK, Approval, Attempt, Restore

\* One proposal's rows as they were, and a later time.
LEMMA SameRow ==
    ASSUME TablesOK, TablesOK', high <= high', NEW p \in Proposals, RowOK(p),
           approval'[p] = approval[p], attempt'[p] = attempt[p], restore'[p] = restore[p]
    PROVE  RowOK(p)'
<1>1. /\ attempt[p].consumedAt \in Nat /\ attempt[p].completedAt \in Nat \cup {None}
      /\ restore[p].preparedAt \in Nat /\ high \in Nat /\ high' \in Nat
  BY RowTypes DEF TablesOK
<1>2. /\ ApprovalVerifies(p) => ApprovalVerifies(p)'
      /\ AttemptVerifies(p) => AttemptVerifies(p)'
  BY DEF ApprovalVerifies, AttemptVerifies
<1>3. RestoreVerifies(p) => RestoreVerifies(p)'
  BY <1>2 DEF RestoreVerifies
<1> QED
  BY <1>1, <1>2, <1>3, Constants DEF RowOK

\* Only the rows of p are written.
LEMMA OnlyRow ==
    ASSUME TablesOK, TablesOK', RowsVerify, high <= high', NEW p \in Proposals,
           \A q \in Proposals \ {p} : /\ approval'[q] = approval[q] /\ attempt'[q] = attempt[q]
                                      /\ restore'[q] = restore[q],
           RowOK(p)'
    PROVE  RowsVerify'
  BY SameRow DEF RowsVerify

\* No row of an approval, an attempt or a restore changes.
LEMMA QuietRows ==
    ASSUME TablesOK, TablesOK', RowsVerify, high <= high', UNCHANGED <<approval, attempt, restore>>
    PROVE  RowsVerify'
  BY SameRow DEF RowsVerify

\* What a proposal has shown when it is neither denied nor a replay.
LEMMA SessionPasses ==
    ASSUME NEW p \in Proposals, NEW now, SessionDenial(p, now) = "none"
    PROVE  /\ ~(now < ApprovedAt) /\ ~(now >= ExpiresAt)
           /\ Verdict[p] = "CONFORMING" /\ (p \in Preauthorized <=> p \in Observing)
  BY ProposalsAssumption DEF SessionDenial

LEMMA ApprovalPasses ==
    ASSUME NEW p \in Proposals, NEW now, ApprovalDenial(p, "same", now) = "none"
    PROVE  /\ approval[p].decision # "NONE" /\ approval[p].consumedAt = None
           /\ ~(approval[p].decidedAt > now) /\ ~(now >= approval[p].expiresAt)
<1> DEFINE rows == {q \in Proposals : CallOf[q] = CallOf[p] /\ approval[q].decision # "NONE"}
<1>1. rows # {}
  BY DEF ApprovalDenial
<1>2. p \in rows /\ approval[p].consumedAt = None
      /\ ~(approval[p].decidedAt > now) /\ ~(now >= approval[p].expiresAt)
  BY <1>1 DEF ApprovalDenial
<1> QED
  BY <1>2

LEMMA RegisterVerifies ==
    ASSUME TablesOK, TablesOK', RowsVerify, NEW p \in Proposals,
           NEW decision \in {"APPROVED", "DENIED"}, NEW decided \in Nat, NEW expires \in Nat,
           RegisterActionApproval(p, decision, decided, expires)
    PROVE  RowsVerify'
<1>1. /\ approval[p].decision = "NONE" /\ RowOK(p) /\ high' = high
      /\ attempt' = attempt /\ restore' = restore
  BY DEF RegisterActionApproval, RowsVerify
<1>2. /\ approval'[p] = [decision |-> decision, decidedAt |-> decided,
                         expiresAt |-> expires, consumedAt |-> None]
      /\ \A q \in Proposals \ {p} : approval'[q] = approval[q]
  BY RegisterRow
<1>3. ApprovalVerifies(p)'
  BY <1>2 DEF ApprovalVerifies, RegisterActionApproval
<1>4. attempt[p].state # "NONE" => p \in Preauthorized
  BY <1>1 DEF RowOK, AttemptVerifies, ApprovalVerifies
<1>5. attempt'[p].state # "NONE" => AttemptVerifies(p)'
  BY <1>1, <1>4 DEF RowOK, AttemptVerifies
<1>6. restore[p].state = "NONE"
  BY <1>1, <1>4 DEF RowOK, RestoreVerifies, AttemptVerifies, ApprovalVerifies
<1>7. RowOK(p)'
  BY <1>1, <1>3, <1>5, <1>6 DEF RowOK
<1> QED
  BY <1>1, <1>2, <1>7, OnlyRow, RowTypes

LEMMA AutomaticVerifies ==
    ASSUME TablesOK, TablesOK', RowsVerify, NEW p \in Proposals, NEW now \in Nat,
           AuthorizeAutomatic(p, now)
    PROVE  RowsVerify'
<1>1. /\ attempt[p].state = "NONE" /\ RowOK(p) /\ high' = now /\ high <= now
      /\ approval' = approval /\ restore' = restore /\ p \in Preauthorized
  BY RowTypes DEF AuthorizeAutomatic, Replayed, RowsVerify, ObserveClock
<1>2. /\ attempt'[p] = [state |-> "IN_FLIGHT", consumedAt |-> now, completedAt |-> None]
      /\ \A q \in Proposals \ {p} : attempt'[q] = attempt[q]
  BY GrantedRow DEF AuthorizeAutomatic
<1>3. restore[p].state = "NONE" /\ restore[p].completedAt = None
  BY <1>1 DEF RowOK, RestoreVerifies
<1>4. AttemptVerifies(p)'
  BY <1>1, <1>2, SessionPasses, Constants DEF AuthorizeAutomatic, AttemptVerifies
<1>5. approval'[p].decision # "NONE" => ApprovalVerifies(p)'
  BY <1>1 DEF RowOK, ApprovalVerifies
<1>6. RowOK(p)'
  BY <1>1, <1>2, <1>3, <1>4, <1>5 DEF RowOK
<1> QED
  BY <1>1, <1>2, <1>6, OnlyRow

\* A spent approval has no attempt before, since an attempt of this proposal
\* would have spent it.
LEMMA ApprovedVerifies ==
    ASSUME TablesOK, TablesOK', RowsVerify, NEW p \in Proposals, NEW now \in Nat,
           AuthorizeApproved(p, now)
    PROVE  RowsVerify'
<1>1. /\ RowOK(p) /\ high' = now /\ high <= now /\ restore' = restore /\ p \notin Preauthorized
  BY RowTypes DEF AuthorizeApproved, RowsVerify, ObserveClock
<1>2. /\ approval[p].decision # "NONE" /\ approval[p].consumedAt = None
      /\ approval[p].decidedAt <= now /\ now < approval[p].expiresAt
  <2>1. ApprovalDenial(p, "same", now) = "none"
    BY DEF AuthorizeApproved
  <2> QED
    BY <2>1, ApprovalPasses, RowTypes
<1>3. /\ approval'[p] = [decision |-> approval[p].decision, decidedAt |-> approval[p].decidedAt,
                         expiresAt |-> approval[p].expiresAt, consumedAt |-> now]
      /\ \A q \in Proposals \ {p} : approval'[q] = approval[q]
  BY SpendRow DEF AuthorizeApproved
<1>4. ApprovalVerifies(p)'
  BY <1>1, <1>2, <1>3, Constants DEF RowOK, ApprovalVerifies
<1>5. attempt[p].state = "NONE"
  BY <1>1, <1>2, RowTypes, Constants DEF RowOK, AttemptVerifies
<1>6. restore[p].state = "NONE" /\ restore[p].completedAt = None
      /\ attempt[p].completedAt = None
  BY <1>1, <1>5 DEF RowOK, RestoreVerifies
<1>7. CASE Granted(p, now) /\ approval[p].decision = "APPROVED"
  <2>1. /\ attempt'[p] = [state |-> "IN_FLIGHT", consumedAt |-> now, completedAt |-> None]
        /\ \A q \in Proposals \ {p} : attempt'[q] = attempt[q]
    BY <1>7, GrantedRow
  <2>2. AttemptVerifies(p)'
    BY <1>1, <1>3, <1>4, <1>7, <2>1, SessionPasses, Constants
    DEF AuthorizeApproved, AttemptVerifies
  <2>3. RowOK(p)'
    BY <1>1, <1>4, <1>6, <2>1, <2>2 DEF RowOK
  <2> QED
    BY <1>1, <1>3, <2>1, <2>3, OnlyRow
<1>8. CASE UNCHANGED attempt
  <2>1. RowOK(p)'
    BY <1>1, <1>4, <1>5, <1>6, <1>8 DEF RowOK
  <2> QED
    BY <1>1, <1>3, <1>8, <2>1, OnlyRow
<1> QED
  BY <1>7, <1>8 DEF AuthorizeApproved

LEMMA ObserveVerifies ==
    ASSUME TablesOK, TablesOK', RowsVerify, NEW p \in Proposals, NEW now \in Nat,
           NEW state \in {"SUCCEEDED", "EXECUTION_UNKNOWN"}, Observe(p, state, now)
    PROVE  RowsVerify'
<1>1. /\ RowOK(p) /\ high' = now /\ high <= now /\ restore' = restore /\ approval' = approval
      /\ attempt[p].state = "IN_FLIGHT" /\ now <= attempt[p].consumedAt + MaxExecutionDuration
  BY RowTypes DEF Observe, RowsVerify, ObserveClock
<1>2. /\ attempt'[p] = [state |-> state, consumedAt |-> attempt[p].consumedAt, completedAt |-> now]
      /\ \A q \in Proposals \ {p} : attempt'[q] = attempt[q]
  BY ObserveRow
<1>3. AttemptVerifies(p) /\ attempt[p].consumedAt <= now
  BY <1>1, RowTypes DEF RowOK
<1>4. AttemptVerifies(p)'
  BY <1>1, <1>2, <1>3, Constants DEF AttemptVerifies, ApprovalVerifies
<1>5. restore[p].state = "NONE" /\ restore[p].completedAt = None
  BY <1>1 DEF RowOK, RestoreVerifies
<1>6. approval'[p].decision # "NONE" => ApprovalVerifies(p)'
  BY <1>1 DEF RowOK, ApprovalVerifies
<1>7. RowOK(p)'
  BY <1>1, <1>2, <1>3, <1>4, <1>5, <1>6 DEF RowOK
<1> QED
  BY <1>1, <1>2, <1>7, OnlyRow

\* A restore is written with its delete verified and completed before.
LEMMA RestoreWritten ==
    ASSUME TablesOK, TablesOK', RowsVerify, NEW p \in Proposals, high <= high',
           UNCHANGED <<approval, attempt>>,
           \A q \in Proposals \ {p} : restore'[q] = restore[q],
           attempt[p].state = "SUCCEEDED", p \in Deletes \ Preauthorized,
           attempt[p].completedAt <= restore'[p].preparedAt, restore'[p].preparedAt <= high',
           (restore'[p].state = "SUCCEEDED") <=> (restore'[p].completedAt # None),
           restore'[p].completedAt # None => restore'[p].preparedAt <= restore'[p].completedAt
    PROVE  RowsVerify'
<1>1. RowOK(p)
  BY DEF RowsVerify
<1>2. /\ approval'[p].decision # "NONE" => ApprovalVerifies(p)'
      /\ AttemptVerifies(p)'
  BY <1>1 DEF RowOK, ApprovalVerifies, AttemptVerifies
<1>3. RestoreVerifies(p)'
  BY <1>2 DEF RestoreVerifies
<1>4. attempt'[p].consumedAt <= high' /\ (attempt'[p].completedAt # None => attempt'[p].completedAt <= high')
  BY <1>1, RowTypes, Constants DEF RowOK, TablesOK
<1>5. restore'[p].completedAt # None => restore'[p].state # "NONE"
  OBVIOUS
<1>6. RowOK(p)'
  BY <1>2, <1>3, <1>4, <1>5 DEF RowOK
<1> QED
  BY <1>6, OnlyRow

LEMMA InsertVerifies ==
    ASSUME TablesOK, TablesOK', RowsVerify, NEW p \in Proposals, NEW now \in Nat,
           InsertRestore(p, now)
    PROVE  RowsVerify'
<1>1. /\ RowOK(p) /\ high' = now /\ high <= now /\ attempt' = attempt /\ approval' = approval
      /\ attempt[p].state = "SUCCEEDED" /\ p \in Deletes \ Preauthorized
  BY RowTypes DEF InsertRestore, RowsVerify, ObserveClock
<1>2. /\ restore'[p] = [state |-> "PREPARED", preparedAt |-> now, completedAt |-> None]
      /\ \A q \in Proposals \ {p} : restore'[q] = restore[q]
  BY InsertRow
<1>3. attempt[p].completedAt \in Nat /\ attempt[p].completedAt <= now
  BY <1>1, RowTypes DEF RowOK, AttemptVerifies
<1> QED
  BY <1>1, <1>2, <1>3, RestoreWritten

LEMMA MoveVerifies ==
    ASSUME TablesOK, TablesOK', RowsVerify, NEW p \in Proposals, NEW now \in Nat,
           BeginRestore(p, now) \/ CompleteRestore(p, now)
    PROVE  RowsVerify'
<1>1. PICK from \in {"PREPARED", "IN_FLIGHT"}, to \in {"IN_FLIGHT", "SUCCEEDED"},
           completed \in Nat \cup {None} :
        /\ MoveRestore(p, from, to, completed, now)
        /\ (to = "SUCCEEDED") <=> (completed # None)
        /\ completed # None => completed = now
  BY Constants DEF BeginRestore, CompleteRestore
<1>2. /\ RowOK(p) /\ high' = now /\ high <= now /\ attempt' = attempt /\ approval' = approval
      /\ restore[p].state # "NONE"
  BY <1>1, RowTypes DEF MoveRestore, RowsVerify, ObserveClock
<1>3. /\ restore'[p] = [state |-> to, preparedAt |-> restore[p].preparedAt,
                        completedAt |-> completed]
      /\ \A q \in Proposals \ {p} : restore'[q] = restore[q]
  <2>1. MoveRestore(p, from, to, completed, now)
    BY <1>1
  <2> HIDE <1>1
  <2> QED
    BY <2>1, MoveRow
<1>4. /\ RestoreVerifies(p) /\ restore[p].preparedAt <= now /\ restore[p].preparedAt \in Nat
  BY <1>2, RowTypes DEF RowOK
<1>5. /\ attempt[p].state = "SUCCEEDED" /\ p \in Deletes \ Preauthorized
      /\ attempt[p].completedAt <= restore[p].preparedAt
  BY <1>4 DEF RestoreVerifies
<1>6. /\ restore'[p].preparedAt = restore[p].preparedAt /\ restore'[p].state = to
      /\ restore'[p].completedAt = completed
  BY <1>3
<1>7. /\ (restore'[p].state = "SUCCEEDED") <=> (restore'[p].completedAt # None)
      /\ restore'[p].completedAt # None => restore'[p].preparedAt <= restore'[p].completedAt
  BY <1>1, <1>4, <1>6
<1> QED
  BY <1>2, <1>3, <1>4, <1>5, <1>6, <1>7, RestoreWritten

LEMMA VerifyStep == TypeInv /\ RowsVerify /\ [Next]_vars => RowsVerify'
<1> SUFFICES ASSUME TypeInv, RowsVerify, [Next]_vars PROVE RowsVerify'
  OBVIOUS
<1>1. TablesOK /\ TablesOK' /\ high \in Nat /\ high <= high
  BY TypeStep DEF TypeInv, TablesOK
<1>2. CASE UNCHANGED <<high, approval, attempt, restore>>
  BY <1>1, <1>2, QuietRows
<1>3. ASSUME NEW p \in Proposals, NEW now \in Times, Write(p, now) PROVE RowsVerify'
  <2>1. now \in Nat
    BY Constants DEF Times
  <2>2. ASSUME NEW decision \in {"APPROVED", "DENIED"}, NEW expires \in 0..ExpiresAt,
               RegisterActionApproval(p, decision, now, expires)
        PROVE  RowsVerify'
    BY <1>1, <2>1, <2>2, Constants, RegisterVerifies
  <2>3. ASSUME NEW context \in {"absent", "changed", "same"}, Deny(p, context, now)
        PROVE  RowsVerify'
    BY <1>1, <2>1, <2>3, QuietRows DEF Deny, ObserveClock
  <2>4. CASE AuthorizeAutomatic(p, now)
    BY <1>1, <2>1, <2>4, AutomaticVerifies
  <2>5. CASE AuthorizeApproved(p, now)
    BY <1>1, <2>1, <2>5, ApprovedVerifies
  <2>6. ASSUME NEW state \in {"SUCCEEDED", "EXECUTION_UNKNOWN"}, Observe(p, state, now)
        PROVE  RowsVerify'
    BY <1>1, <2>1, <2>6, ObserveVerifies
  <2>7. CASE ObserveAgain(p, now)
    BY <1>1, <2>1, <2>7, QuietRows DEF ObserveAgain, ObserveClock, tables
  <2>8. CASE InsertRestore(p, now)
    BY <1>1, <2>1, <2>8, InsertVerifies
  <2>9. CASE BeginRestore(p, now) \/ CompleteRestore(p, now)
    BY <1>1, <2>1, <2>9, MoveVerifies
  <2> QED
    BY <1>3, <2>2, <2>3, <2>4, <2>5, <2>6, <2>7, <2>8, <2>9 DEF Write
<1>4. ASSUME NEW s \in Sessions, RegisterSession(s) PROVE RowsVerify'
  BY <1>2, <1>4 DEF RegisterSession
<1>5. ASSUME NEW s \in Sessions, NEW at \in Times, Revoke(s, at) PROVE RowsVerify'
  BY <1>2, <1>5 DEF Revoke
<1>6. CASE UNCHANGED <<high, tables, revision>>
  BY <1>2, <1>6 DEF tables
<1>7. CASE UNCHANGED vars
  BY <1>2, <1>7 DEF tables, vars
<1> QED
  BY <1>3, <1>4, <1>5, <1>6, <1>7 DEF Next, FirstPage, NextPage, Changed, Refused

LEMMA EventFields ==
    ASSUME NEW kind, NEW id, NEW at, NEW fact
    PROVE  /\ Event(kind, id, at, fact).kind = kind /\ Event(kind, id, at, fact).id = id
           /\ Event(kind, id, at, fact).at = at
  BY DEF Event

\* The row an event stands for.
RowOf(s, e) ==
    \/ \E f : e = Event("SESSION_APPROVED", 0, ApprovedAt, f)
    \/ revoked[s] # None /\ \E f : e = Event("SESSION_REVOKED", 0, revoked[s], f)
    \/ \E p \in Of(s) : approval[p].decision # "NONE"
          /\ \E f : e = Event("ACTION_DECISION", p, approval[p].decidedAt, f)
    \/ \E p \in Of(s) : attempt[p].state # "NONE"
          /\ \E f : e = Event("ACTION_STARTED", p, attempt[p].consumedAt, f)
    \/ \E p \in Of(s) : attempt[p].completedAt # None
          /\ \E f : e = Event("ACTION_COMPLETED", p, attempt[p].completedAt, f)
    \/ \E i \in DenialsOf(s) : \E f : e = Event("ACTION_DENIED", i, denials[i].at, f)
    \/ \E p \in Of(s) : restore[p].state # "NONE"
          /\ \E f : e = Event("RESTORE_PREPARED", p, restore[p].preparedAt, f)
    \/ \E p \in Of(s) : restore[p].completedAt # None
          /\ \E f : e = Event("RESTORE_COMPLETED", p, restore[p].completedAt, f)

LEMMA EventCases ==
    ASSUME NEW s, NEW e \in Events(s)
    PROVE  RowOf(s, e)
<1>1. CASE e \in {Event("SESSION_REVOKED", 0, revoked[t], "") :
                    t \in {t \in {s} : revoked[t] # None}}
  BY <1>1 DEF RowOf
<1>2. CASE e \in {Event("ACTION_DECISION", p, approval[p].decidedAt,
                        IF approval[p].consumedAt = None THEN "open" ELSE "consumed") :
                    p \in {p \in Of(s) : approval[p].decision # "NONE"}}
  BY <1>2 DEF RowOf
<1>3. CASE e \in {Event("ACTION_STARTED", p, attempt[p].consumedAt, "") :
                    p \in {p \in Of(s) : attempt[p].state # "NONE"}}
  BY <1>3 DEF RowOf
<1>4. CASE e \in {Event("ACTION_COMPLETED", p, attempt[p].completedAt, attempt[p].state) :
                    p \in {p \in Of(s) : attempt[p].completedAt # None}}
  BY <1>4 DEF RowOf
<1>5. CASE e \in {Event("ACTION_DENIED", i, denials[i].at, denials[i].reason) : i \in DenialsOf(s)}
  BY <1>5 DEF RowOf
<1>6. CASE e \in {Event("RESTORE_PREPARED", p, restore[p].preparedAt, "") :
                    p \in {p \in Of(s) : restore[p].state # "NONE"}}
  BY <1>6 DEF RowOf
<1>7. CASE e \in {Event("RESTORE_COMPLETED", p, restore[p].completedAt, "") :
                    p \in {p \in Of(s) : restore[p].completedAt # None}}
  BY <1>7 DEF RowOf
<1> QED
  BY <1>1, <1>2, <1>3, <1>4, <1>5, <1>6, <1>7 DEF Events, RowOf

LEMMA VerifiedEvents == TypeInv /\ RowsVerify => WrittenIsReadable
<1> SUFFICES ASSUME TypeInv, RowsVerify, NEW s \in approved, NEW e \in Events(s),
                    e.kind # "ACTION_DENIED"
             PROVE  Verifies(e)
  BY DEF WrittenIsReadable
<1>1. CASE e.kind \in {"SESSION_APPROVED", "SESSION_REVOKED"}
  BY <1>1 DEF Verifies
<1>2. CASE \E p \in Of(s) : approval[p].decision # "NONE" /\ e.kind = "ACTION_DECISION" /\ e.id = p
  BY <1>2 DEF Of, Verifies, RowsVerify, RowOK
<1>3. CASE \E p \in Of(s) : /\ attempt[p].state # "NONE" \/ attempt[p].completedAt # None
                            /\ e.kind \in {"ACTION_STARTED", "ACTION_COMPLETED"} /\ e.id = p
  BY <1>3 DEF Of, Verifies, RowsVerify, RowOK
<1>4. CASE \E p \in Of(s) : /\ restore[p].state # "NONE" \/ restore[p].completedAt # None
                            /\ e.kind \in {"RESTORE_PREPARED", "RESTORE_COMPLETED"} /\ e.id = p
  BY <1>4 DEF Of, Verifies, RowsVerify, RowOK
<1>5. CASE \/ \E f : e = Event("SESSION_APPROVED", 0, ApprovedAt, f)
           \/ \E f : e = Event("SESSION_REVOKED", 0, revoked[s], f)
  BY <1>1, <1>5, EventFields
<1>6. CASE \E p \in Of(s) : approval[p].decision # "NONE"
             /\ \E f : e = Event("ACTION_DECISION", p, approval[p].decidedAt, f)
  BY <1>2, <1>6, EventFields
<1>7. CASE \E p \in Of(s) : attempt[p].state # "NONE"
             /\ \E f : e = Event("ACTION_STARTED", p, attempt[p].consumedAt, f)
  BY <1>3, <1>7, EventFields
<1>8. CASE \E p \in Of(s) : attempt[p].completedAt # None
             /\ \E f : e = Event("ACTION_COMPLETED", p, attempt[p].completedAt, f)
  BY <1>3, <1>8, EventFields
<1>9. CASE \E i \in DenialsOf(s) : \E f : e = Event("ACTION_DENIED", i, denials[i].at, f)
  BY <1>9, EventFields
<1>10. CASE \E p \in Of(s) : restore[p].state # "NONE"
              /\ \E f : e = Event("RESTORE_PREPARED", p, restore[p].preparedAt, f)
  BY <1>4, <1>10, EventFields
<1>11. CASE \E p \in Of(s) : restore[p].completedAt # None
              /\ \E f : e = Event("RESTORE_COMPLETED", p, restore[p].completedAt, f)
  BY <1>4, <1>11, EventFields
<1>12. RowOf(s, e)
  BY EventCases
<1> QED
  BY <1>5, <1>6, <1>7, <1>8, <1>9, <1>10, <1>11, <1>12 DEF RowOf

\* What the ledger commits about decisions, attempts and restores passes the
\* verification of the audit (audit.rs, load_verified_event).
THEOREM AuditReadsWrites == Spec => []WrittenIsReadable
<1>1. Spec => [](TypeInv /\ RowsVerify)
  BY TypeInit, TypeStep, VerifyInit, VerifyStep, PTL DEF Spec
<1> QED
  BY <1>1, VerifiedEvents, PTL

-----------------------------------------------------------------------------
(* Positions in a history *)

LEMMA FiniteImage ==
    ASSUME NEW S, IsFiniteSet(S), NEW f
    PROVE  IsFiniteSet({f[x] : x \in S})
<1> DEFINE T == {f[x] : x \in S}
           g == [x \in S |-> f[x]]
<1>1. g \in Surjection(S, T)
  BY DEF Surjection
<1> QED
  BY <1>1, FS_Surjection

LEMMA FiniteEvents ==
    ASSUME TablesOK, NEW s \in Sessions
    PROVE  IsFiniteSet(Events(s))
<1>1. \A S : S \subseteq Of(s) => IsFiniteSet(S)
  BY Constants, FS_Subset DEF Of
<1>2. IsFiniteSet(DenialsOf(s))
  <2>1. IsFiniteSet(1..Len(denials)) /\ DenialsOf(s) \subseteq 1..Len(denials)
    <3>1. Len(denials) \in Nat /\ DOMAIN denials = 1..Len(denials)
      BY DEF TablesOK
    <3> QED
      BY <3>1, FS_Interval DEF DenialsOf
  <2> QED
    BY <2>1, FS_Subset
<1> DEFINE E1 == {Event("SESSION_APPROVED", 0, ApprovedAt, "")}
           E2 == {Event("SESSION_REVOKED", 0, revoked[t], "") :
                    t \in {t \in {s} : revoked[t] # None}}
           E3 == {Event("ACTION_DECISION", p, approval[p].decidedAt,
                        IF approval[p].consumedAt = None THEN "open" ELSE "consumed") :
                    p \in {p \in Of(s) : approval[p].decision # "NONE"}}
           E4 == {Event("ACTION_STARTED", p, attempt[p].consumedAt, "") :
                    p \in {p \in Of(s) : attempt[p].state # "NONE"}}
           E5 == {Event("ACTION_COMPLETED", p, attempt[p].completedAt, attempt[p].state) :
                    p \in {p \in Of(s) : attempt[p].completedAt # None}}
           E6 == {Event("ACTION_DENIED", i, denials[i].at, denials[i].reason) : i \in DenialsOf(s)}
           E7 == {Event("RESTORE_PREPARED", p, restore[p].preparedAt, "") :
                    p \in {p \in Of(s) : restore[p].state # "NONE"}}
           E8 == {Event("RESTORE_COMPLETED", p, restore[p].completedAt, "") :
                    p \in {p \in Of(s) : restore[p].completedAt # None}}
<1>3. IsFiniteSet(E1)
  BY FS_Singleton
<1>4. IsFiniteSet(E2)
  <2> DEFINE S == {t \in {s} : revoked[t] # None}
             f == [t \in S |-> Event("SESSION_REVOKED", 0, revoked[t], "")]
  <2>1. IsFiniteSet(S)
    BY FS_Singleton, FS_Subset
  <2>2. E2 = {f[t] : t \in S}
    OBVIOUS
  <2> HIDE DEF S, f, E2
  <2> QED
    BY <2>1, <2>2, FiniteImage
<1>5. IsFiniteSet(E3)
  <2> DEFINE S == {p \in Of(s) : approval[p].decision # "NONE"}
             f == [p \in S |-> Event("ACTION_DECISION", p, approval[p].decidedAt,
                        IF approval[p].consumedAt = None THEN "open" ELSE "consumed")]
  <2>1. IsFiniteSet(S)
    BY <1>1
  <2>2. E3 = {f[t] : t \in S}
    OBVIOUS
  <2> HIDE DEF S, f, E3
  <2> QED
    BY <2>1, <2>2, FiniteImage
<1>6. IsFiniteSet(E4)
  <2> DEFINE S == {p \in Of(s) : attempt[p].state # "NONE"}
             f == [p \in S |-> Event("ACTION_STARTED", p, attempt[p].consumedAt, "")]
  <2>1. IsFiniteSet(S)
    BY <1>1
  <2>2. E4 = {f[t] : t \in S}
    OBVIOUS
  <2> HIDE DEF S, f, E4
  <2> QED
    BY <2>1, <2>2, FiniteImage
<1>7. IsFiniteSet(E5)
  <2> DEFINE S == {p \in Of(s) : attempt[p].completedAt # None}
             f == [p \in S |-> Event("ACTION_COMPLETED", p, attempt[p].completedAt, attempt[p].state)]
  <2>1. IsFiniteSet(S)
    BY <1>1
  <2>2. E5 = {f[t] : t \in S}
    OBVIOUS
  <2> HIDE DEF S, f, E5
  <2> QED
    BY <2>1, <2>2, FiniteImage
<1>8. IsFiniteSet(E6)
  <2> DEFINE f == [i \in DenialsOf(s) |-> Event("ACTION_DENIED", i, denials[i].at, denials[i].reason)]
  <2>1. E6 = {f[t] : t \in DenialsOf(s)}
    OBVIOUS
  <2> HIDE DEF f, E6
  <2> QED
    BY <1>2, <2>1, FiniteImage
<1>9. IsFiniteSet(E7)
  <2> DEFINE S == {p \in Of(s) : restore[p].state # "NONE"}
             f == [p \in S |-> Event("RESTORE_PREPARED", p, restore[p].preparedAt, "")]
  <2>1. IsFiniteSet(S)
    BY <1>1
  <2>2. E7 = {f[t] : t \in S}
    OBVIOUS
  <2> HIDE DEF S, f, E7
  <2> QED
    BY <2>1, <2>2, FiniteImage
<1>10. IsFiniteSet(E8)
  <2> DEFINE S == {p \in Of(s) : restore[p].completedAt # None}
             f == [p \in S |-> Event("RESTORE_COMPLETED", p, restore[p].completedAt, "")]
  <2>1. IsFiniteSet(S)
    BY <1>1
  <2>2. E8 = {f[t] : t \in S}
    OBVIOUS
  <2> HIDE DEF S, f, E8
  <2> QED
    BY <2>1, <2>2, FiniteImage
<1>11. Events(s) = E1 \cup E2 \cup E3 \cup E4 \cup E5 \cup E6 \cup E7 \cup E8
  BY DEF Events
<1> HIDE DEF E1, E2, E3, E4, E5, E6, E7, E8
<1> QED
  BY <1>3, <1>4, <1>5, <1>6, <1>7, <1>8, <1>9, <1>10, <1>11, FS_Union

\* Events are dated and numbered, and none stands before itself.
Dated(e) == e.at \in Nat /\ e.id \in Nat /\ e.kind \in DOMAIN KindRank

LEMMA DatedEvent ==
    ASSUME NEW kind \in DOMAIN KindRank, NEW id \in Nat, NEW at \in Nat, NEW f
    PROVE  Dated(Event(kind, id, at, f))
  BY EventFields DEF Dated

LEMMA EventTypes ==
    ASSUME TablesOK, NEW s \in Sessions, NEW e \in Events(s)
    PROVE  ~Before(e, e)
<1>1. Dated(e)
  <2>0. RowOf(s, e)
    BY EventCases
  <2>1. {"ACTION_COMPLETED", "ACTION_DECISION", "ACTION_DENIED", "ACTION_STARTED",
         "RESTORE_COMPLETED", "RESTORE_PREPARED", "SESSION_APPROVED",
         "SESSION_REVOKED"} \subseteq DOMAIN KindRank
    BY DEF KindRank
  <2>2. Of(s) \subseteq Proposals /\ Proposals \subseteq Nat /\ ApprovedAt \in Nat /\ None \notin Nat
        /\ 0 \in Nat
    BY Constants DEF Of
  <2>3. ASSUME NEW f, \/ e = Event("SESSION_APPROVED", 0, ApprovedAt, f)
                      \/ revoked[s] # None /\ e = Event("SESSION_REVOKED", 0, revoked[s], f)
        PROVE  Dated(e)
    <3>1. revoked[s] \in Nat \cup {None}
      BY DEF TablesOK
    <3> QED
      BY <2>1, <2>2, <2>3, <3>1, DatedEvent
  <2>4. ASSUME NEW p \in Of(s), NEW f, e = Event("ACTION_DECISION", p, approval[p].decidedAt, f)
        PROVE  Dated(e)
    <3>1. p \in Nat /\ approval[p].decidedAt \in Nat
      BY <2>2, RowTypes
    <3> QED
      BY <2>1, <2>4, <3>1, DatedEvent
  <2>5. ASSUME NEW p \in Of(s), NEW f, e = Event("ACTION_STARTED", p, attempt[p].consumedAt, f)
        PROVE  Dated(e)
    <3>1. p \in Nat /\ attempt[p].consumedAt \in Nat
      BY <2>2, RowTypes
    <3> QED
      BY <2>1, <2>5, <3>1, DatedEvent
  <2>6. ASSUME NEW p \in Of(s), NEW f, attempt[p].completedAt # None,
               e = Event("ACTION_COMPLETED", p, attempt[p].completedAt, f)
        PROVE  Dated(e)
    <3>1. p \in Nat /\ attempt[p].completedAt \in Nat
      BY <2>2, <2>6, RowTypes
    <3> QED
      BY <2>1, <2>6, <3>1, DatedEvent
  <2>7. ASSUME NEW i \in DenialsOf(s), NEW f, e = Event("ACTION_DENIED", i, denials[i].at, f)
        PROVE  Dated(e)
    <3>1. i \in 1..Len(denials) /\ Len(denials) \in Nat /\ denials[i] \in Denial
      BY DEF DenialsOf, TablesOK
    <3>2. i \in Nat /\ denials[i].at \in Nat
      BY <3>1 DEF Denial
    <3> QED
      BY <2>1, <2>7, <3>2, DatedEvent
  <2>8. ASSUME NEW p \in Of(s), NEW f, e = Event("RESTORE_PREPARED", p, restore[p].preparedAt, f)
        PROVE  Dated(e)
    <3>1. p \in Nat /\ restore[p].preparedAt \in Nat
      BY <2>2, RowTypes
    <3> QED
      BY <2>1, <2>8, <3>1, DatedEvent
  <2>9. ASSUME NEW p \in Of(s), NEW f, restore[p].completedAt # None,
               e = Event("RESTORE_COMPLETED", p, restore[p].completedAt, f)
        PROVE  Dated(e)
    <3>1. p \in Nat /\ restore[p].completedAt \in Nat
      BY <2>2, <2>9, RowTypes
    <3> QED
      BY <2>1, <2>9, <3>1, DatedEvent
  <2> QED
    BY <2>0, <2>3, <2>4, <2>5, <2>6, <2>7, <2>8, <2>9 DEF RowOf
<1>2. KindRank[e.kind] \in Nat
  BY <1>1 DEF Dated, KindRank
<1> QED
  BY <1>1, <1>2 DEF Before, Dated

\* Every event has a position below the number of events.
LEMMA Positions ==
    ASSUME TablesOK, NEW s \in Sessions, NEW e \in Events(s)
    PROVE  Position(s, e) \in Nat /\ Position(s, e) < Cardinality(Events(s))
<1> DEFINE B == {f \in Events(s) : Before(f, e)}
<1>1. IsFiniteSet(Events(s)) /\ B \subseteq Events(s) /\ e \notin B
  BY FiniteEvents, EventTypes
<1>2. IsFiniteSet(B) /\ Cardinality(B) <= Cardinality(Events(s)) /\ Cardinality(B) # Cardinality(Events(s))
  BY <1>1, FS_Subset
<1>3. Cardinality(B) \in Nat /\ Cardinality(Events(s)) \in Nat
  BY <1>1, <1>2, FS_CardinalityType
<1> QED
  BY <1>2, <1>3 DEF Position

-----------------------------------------------------------------------------
(* Rows only move on, and each move is counted *)

\* How far a proposal's rows have come.
Age(a, t, r) ==
    (IF a.decision = "NONE" THEN 0 ELSE IF a.consumedAt = None THEN 1 ELSE 2)
    + (IF t.state = "NONE" THEN 0 ELSE IF t.state = "IN_FLIGHT" THEN 1 ELSE 2)
    + (IF r.state = "NONE" THEN 0 ELSE IF r.state = "PREPARED" THEN 1
       ELSE IF r.state = "IN_FLIGHT" THEN 2 ELSE 3)

AgeOf(p) == Age(approval[p], attempt[p], restore[p])

LEMMA AgeType == \A a, t, r : Age(a, t, r) \in Nat
  BY DEF Age

\* A step that writes no row of session s.
Quiet(s) ==
    /\ revoked'[s] = revoked[s]
    /\ \A p \in Of(s) : /\ approval'[p] = approval[p] /\ attempt'[p] = attempt[p]
                        /\ restore'[p] = restore[p]
    /\ DenialsOf(s)' = DenialsOf(s)
    /\ \A i \in DenialsOf(s) : denials'[i] = denials[i]

\* A step after which the rows of s are others than ever before.
Newer(s) ==
    /\ revoked[s] # None => revoked'[s] = revoked[s]
    /\ \A p \in Of(s) : AgeOf(p)' >= AgeOf(p)
    /\ DenialsOf(s) \subseteq DenialsOf(s)'
    /\ \/ revoked'[s] # revoked[s]
       \/ \E p \in Of(s) : AgeOf(p)' > AgeOf(p)
       \/ DenialsOf(s)' # DenialsOf(s)

Counted(s) ==
    \/ Quiet(s) /\ revision'[s] = revision[s]
    \/ Newer(s) /\ revision'[s] > revision[s]

\* The denials of p's session may grow, the others stay.
DenialsGrow(p) ==
    \A t \in Sessions :
        /\ DenialsOf(t) \subseteq DenialsOf(t)'
        /\ t # SessionOf[p] =>
             DenialsOf(t)' = DenialsOf(t) /\ \A i \in DenialsOf(t) : denials'[i] = denials[i]

LEMMA SameDenials ==
    ASSUME UNCHANGED denials, NEW p
    PROVE  DenialsGrow(p)
  BY DEF DenialsGrow, DenialsOf

LEMMA DeniedGrow ==
    ASSUME TablesOK, NEW p \in Proposals, NEW reason \in Reasons, NEW now \in Nat,
           Denied(p, reason, now)
    PROVE  /\ DenialsGrow(p)
           /\ DenialsOf(SessionOf[p])' # DenialsOf(SessionOf[p])
<1>1. PICK n \in Nat : n = Len(denials) /\ DOMAIN denials = 1..n
  BY DEF TablesOK
<1>2. /\ DOMAIN denials' = 1..(n + 1)
      /\ \A i \in 1..n : denials'[i] = denials[i]
      /\ denials'[n + 1].p = p
  <2>1. /\ denials' \in Seq(Denial) /\ Len(denials') = n + 1
        /\ \A i \in 1..n : denials'[i] = denials[i]
        /\ denials'[n + 1] = [p |-> p, reason |-> reason, at |-> now]
    BY <1>1, DeniedType
  <2> QED
    BY <2>1
<1>3. ASSUME NEW t
      PROVE  DenialsOf(t)' = DenialsOf(t) \cup {i \in {n + 1} : SessionOf[p] = t}
  <2>1. DenialsOf(t)' = {i \in 1..(n + 1) : SessionOf[denials'[i].p] = t}
    BY <1>2 DEF DenialsOf
  <2>2. DenialsOf(t) = {i \in 1..n : SessionOf[denials[i].p] = t}
    BY <1>1 DEF DenialsOf
  <2> QED
    BY <1>2, <2>1, <2>2
<1>4. n + 1 \notin DenialsOf(SessionOf[p]) /\ n + 1 \in DenialsOf(SessionOf[p])'
  BY <1>1, <1>3 DEF DenialsOf
<1>5. ASSUME NEW t PROVE DenialsOf(t) \subseteq 1..n
  BY <1>1 DEF DenialsOf
<1>6. DenialsGrow(p)
  BY <1>2, <1>3, <1>5 DEF DenialsGrow
<1> QED
  BY <1>4, <1>6

\* A transaction about proposal p that moves one of its rows on.
LEMMA RowWritten ==
    ASSUME TablesOK, NEW s \in Sessions, NEW p \in Proposals, NEW k \in Nat, k > 0,
           revoked' = revoked, DenialsGrow(p), Bump(SessionOf[p], k),
           \A q \in Proposals \ {p} : /\ approval'[q] = approval[q] /\ attempt'[q] = attempt[q]
                                      /\ restore'[q] = restore[q],
           AgeOf(p)' > AgeOf(p)
    PROVE  Counted(s)
<1>1. SessionOf[p] \in Sessions /\ Of(s) \subseteq Proposals
  BY Constants DEF Of
<1>2. /\ revision'[SessionOf[p]] = revision[SessionOf[p]] + k
      /\ \A t \in Sessions \ {SessionOf[p]} : revision'[t] = revision[t]
      /\ revision[SessionOf[p]] \in Nat
  BY <1>1, BumpType, Constants DEF TablesOK
<1>3. \A q \in Proposals \ {p} : AgeOf(q)' = AgeOf(q)
  BY DEF AgeOf
<1>4. CASE s = SessionOf[p]
  <2>1. p \in Of(s)
    BY <1>4 DEF Of
  <2>2. ASSUME NEW q \in Of(s) PROVE AgeOf(q)' >= AgeOf(q)
    <3>1. AgeOf(q) \in Nat /\ AgeOf(q)' \in Nat
      BY AgeType DEF AgeOf
    <3> QED
      BY <1>1, <1>3, <3>1
  <2>3. DenialsOf(s) \subseteq DenialsOf(s)'
    BY DEF DenialsGrow
  <2>4. Newer(s)
    BY <2>1, <2>2, <2>3 DEF Newer
  <2> QED
    BY <1>2, <1>4, <2>4 DEF Counted
<1>5. CASE s # SessionOf[p]
  <2>1. p \notin Of(s)
    BY <1>5 DEF Of
  <2>2. Quiet(s)
    BY <1>1, <1>5, <2>1 DEF Quiet, DenialsGrow
  <2> QED
    BY <1>2, <1>5, <2>2 DEF Counted
<1> QED
  BY <1>4, <1>5

LEMMA RegisterCounted ==
    ASSUME TablesOK, NEW s \in Sessions, NEW p \in Proposals,
           NEW decision \in {"APPROVED", "DENIED"}, NEW decided \in Nat, NEW expires \in Nat,
           RegisterActionApproval(p, decision, decided, expires)
    PROVE  Counted(s)
<1>1. /\ approval[p].decision = "NONE" /\ attempt' = attempt /\ restore' = restore
      /\ denials' = denials /\ revoked' = revoked /\ Bump(SessionOf[p], 1)
  BY DEF RegisterActionApproval
<1>2. /\ approval'[p] = [decision |-> decision, decidedAt |-> decided,
                         expiresAt |-> expires, consumedAt |-> None]
      /\ \A q \in Proposals \ {p} : approval'[q] = approval[q]
  BY RegisterRow
<1>3. AgeOf(p)' > AgeOf(p)
  BY <1>1, <1>2 DEF AgeOf, Age
<1> QED
  BY <1>1, <1>2, <1>3, SameDenials, RowWritten

LEMMA AutomaticCounted ==
    ASSUME TablesOK, NEW s \in Sessions, NEW p \in Proposals, NEW now \in Nat,
           AuthorizeAutomatic(p, now)
    PROVE  Counted(s)
<1>1. /\ attempt[p].state = "NONE" /\ approval' = approval /\ restore' = restore
      /\ denials' = denials /\ revoked' = revoked /\ Bump(SessionOf[p], 1)
  BY DEF AuthorizeAutomatic, Replayed
<1>2. /\ attempt'[p] = [state |-> "IN_FLIGHT", consumedAt |-> now, completedAt |-> None]
      /\ \A q \in Proposals \ {p} : attempt'[q] = attempt[q]
  BY GrantedRow DEF AuthorizeAutomatic
<1>3. AgeOf(p)' > AgeOf(p)
  BY <1>1, <1>2 DEF AgeOf, Age
<1> QED
  BY <1>1, <1>2, <1>3, SameDenials, RowWritten

LEMMA ApprovedCounted ==
    ASSUME TablesOK, NEW s \in Sessions, NEW p \in Proposals, NEW now \in Nat,
           AuthorizeApproved(p, now)
    PROVE  Counted(s)
<1>1. /\ restore' = restore /\ revoked' = revoked /\ Bump(SessionOf[p], 2)
      /\ now # None
  BY Constants DEF AuthorizeApproved
<1>2. /\ approval[p].decision # "NONE" /\ approval[p].consumedAt = None
  <2>1. ApprovalDenial(p, "same", now) = "none"
    BY DEF AuthorizeApproved
  <2> QED
    BY <2>1, ApprovalPasses
<1>3. /\ approval'[p] = [decision |-> approval[p].decision, decidedAt |-> approval[p].decidedAt,
                         expiresAt |-> approval[p].expiresAt, consumedAt |-> now]
      /\ \A q \in Proposals \ {p} : approval'[q] = approval[q]
  BY SpendRow DEF AuthorizeApproved
<1>4. CASE Granted(p, now) /\ ~Replayed(p) /\ UNCHANGED denials
  <2>1. /\ attempt[p].state = "NONE"
        /\ attempt'[p] = [state |-> "IN_FLIGHT", consumedAt |-> now, completedAt |-> None]
        /\ \A q \in Proposals \ {p} : attempt'[q] = attempt[q]
    BY <1>4, GrantedRow DEF Replayed
  <2>2. AgeOf(p)' > AgeOf(p)
    BY <1>1, <1>2, <1>3, <2>1 DEF AgeOf, Age
  <2> QED
    BY <1>1, <1>3, <1>4, <2>1, <2>2, SameDenials, RowWritten
<1>5. ASSUME NEW reason \in Reasons, Denied(p, reason, now), UNCHANGED attempt
      PROVE  Counted(s)
  <2>1. AgeOf(p)' > AgeOf(p)
    BY <1>1, <1>2, <1>3, <1>5 DEF AgeOf, Age
  <2>2. DenialsGrow(p)
    BY <1>5, DeniedGrow
  <2> QED
    BY <1>1, <1>3, <1>5, <2>1, <2>2, RowWritten
<1>6. {"ACTION_APPROVAL_DENIED", "TOOL_CALL_REPLAY"} \subseteq Reasons
  BY DEF Reasons
<1> QED
  BY <1>4, <1>5, <1>6 DEF AuthorizeApproved

LEMMA ObserveCounted ==
    ASSUME TablesOK, NEW s \in Sessions, NEW p \in Proposals, NEW now \in Nat,
           NEW state \in {"SUCCEEDED", "EXECUTION_UNKNOWN"}, Observe(p, state, now)
    PROVE  Counted(s)
<1>1. /\ attempt[p].state = "IN_FLIGHT" /\ approval' = approval /\ restore' = restore
      /\ denials' = denials /\ revoked' = revoked /\ Bump(SessionOf[p], 1)
  BY DEF Observe
<1>2. /\ attempt'[p] = [state |-> state, consumedAt |-> attempt[p].consumedAt, completedAt |-> now]
      /\ \A q \in Proposals \ {p} : attempt'[q] = attempt[q]
  BY ObserveRow
<1>3. AgeOf(p)' > AgeOf(p)
  BY <1>1, <1>2 DEF AgeOf, Age
<1> QED
  BY <1>1, <1>2, <1>3, SameDenials, RowWritten

LEMMA InsertCounted ==
    ASSUME TablesOK, NEW s \in Sessions, NEW p \in Proposals, NEW now \in Nat,
           InsertRestore(p, now)
    PROVE  Counted(s)
<1>1. /\ restore[p].state = "NONE" /\ approval' = approval /\ attempt' = attempt
      /\ denials' = denials /\ revoked' = revoked /\ Bump(SessionOf[p], 1)
  BY DEF InsertRestore
<1>2. /\ restore'[p] = [state |-> "PREPARED", preparedAt |-> now, completedAt |-> None]
      /\ \A q \in Proposals \ {p} : restore'[q] = restore[q]
  BY InsertRow
<1>3. AgeOf(p)' > AgeOf(p)
  BY <1>1, <1>2 DEF AgeOf, Age
<1> QED
  BY <1>1, <1>2, <1>3, SameDenials, RowWritten

LEMMA MoveCounted ==
    ASSUME TablesOK, NEW s \in Sessions, NEW p \in Proposals, NEW now \in Nat,
           BeginRestore(p, now) \/ CompleteRestore(p, now)
    PROVE  Counted(s)
<1>1. ASSUME NEW from, NEW to \in {"IN_FLIGHT", "SUCCEEDED"}, NEW completed \in Nat \cup {None},
             MoveRestore(p, from, to, completed, now),
             \/ from = "PREPARED" /\ to = "IN_FLIGHT"
             \/ from = "IN_FLIGHT" /\ to = "SUCCEEDED"
      PROVE  Counted(s)
  <2>1. /\ restore[p].state = from /\ approval' = approval /\ attempt' = attempt
        /\ denials' = denials /\ revoked' = revoked /\ Bump(SessionOf[p], 1)
    BY <1>1 DEF MoveRestore
  <2>2. /\ restore'[p] = [state |-> to, preparedAt |-> restore[p].preparedAt,
                          completedAt |-> completed]
        /\ \A q \in Proposals \ {p} : restore'[q] = restore[q]
    BY <1>1, MoveRow
  <2>3. AgeOf(p)' > AgeOf(p)
    BY <1>1, <2>1, <2>2 DEF AgeOf, Age
  <2> QED
    BY <2>1, <2>2, <2>3, SameDenials, RowWritten
<1> QED
  BY <1>1 DEF BeginRestore, CompleteRestore

\* A denial of an unknown session is of no session that has been approved.
LEMMA DenyCounted ==
    ASSUME TablesOK, NEW s \in approved, NEW p \in Proposals, NEW now \in Nat,
           NEW context \in {"absent", "changed", "same"}, Deny(p, context, now)
    PROVE  Counted(s)
<1>1. UNCHANGED <<revoked, approval, attempt, restore>> /\ s \in Sessions /\ SessionOf[p] \in Sessions
  BY Constants DEF Deny, TablesOK
<1>2. DenialsGrow(p) /\ DenialsOf(SessionOf[p])' # DenialsOf(SessionOf[p])
  BY DenyReason, DeniedGrow
<1>3. CASE s # SessionOf[p]
  <2>1. Quiet(s)
    BY <1>1, <1>2, <1>3 DEF Quiet, DenialsGrow
  <2>2. revision'[s] = revision[s]
    <3>1. CASE SessionOf[p] \in approved
      BY <1>1, <1>3, <3>1, BumpType DEF Deny
    <3> QED
      BY <3>1 DEF Deny
  <2> QED
    BY <2>1, <2>2 DEF Counted
<1>4. CASE s = SessionOf[p]
  <2>1. Bump(s, 1)
    BY <1>4 DEF Deny
  <2>2. revision'[s] = revision[s] + 1 /\ revision[s] \in Nat
    BY <1>1, <2>1, BumpType, Constants DEF TablesOK
  <2>3. \A q \in Of(s) : AgeOf(q)' = AgeOf(q) /\ AgeOf(q) \in Nat
    BY <1>1, AgeType DEF AgeOf
  <2>4. Newer(s)
    BY <1>1, <1>2, <1>4, <2>3 DEF Newer, DenialsGrow
  <2> QED
    BY <2>2, <2>4 DEF Counted
<1> QED
  BY <1>3, <1>4

LEMMA RevokeCounted ==
    ASSUME TablesOK, NEW s \in Sessions, NEW t \in Sessions, NEW at \in Nat, Revoke(t, at)
    PROVE  Counted(s)
<1>1. /\ UNCHANGED <<approval, attempt, restore, denials>> /\ revoked[t] = None
      /\ revoked' = [revoked EXCEPT ![t] = at] /\ Bump(t, 1)
  BY DEF Revoke
<1>2. /\ revision'[t] = revision[t] + 1 /\ revision[t] \in Nat
      /\ \A u \in Sessions \ {t} : revision'[u] = revision[u]
  BY <1>1, BumpType, Constants DEF TablesOK
<1>3. DenialsOf(s)' = DenialsOf(s)
  BY <1>1 DEF DenialsOf
<1>4. CASE s # t
  <2>1. Quiet(s)
    BY <1>1, <1>3, <1>4 DEF Quiet, TablesOK
  <2> QED
    BY <1>2, <1>4, <2>1 DEF Counted
<1>5. CASE s = t
  <2>1. revoked'[s] = at /\ at # None
    BY <1>1, <1>5, Constants DEF TablesOK
  <2>2. \A q \in Of(s) : AgeOf(q)' = AgeOf(q) /\ AgeOf(q) \in Nat
    BY <1>1, AgeType DEF AgeOf
  <2>3. Newer(s)
    BY <1>1, <1>3, <1>5, <2>1, <2>2 DEF Newer
  <2> QED
    BY <1>2, <1>5, <2>3 DEF Counted
<1> QED
  BY <1>4, <1>5

\* No row of the session changes, and no revision.
LEMMA QuietCounted ==
    ASSUME NEW s, UNCHANGED tables, revision'[s] = revision[s]
    PROVE  Counted(s)
  BY DEF Counted, Quiet, tables, DenialsOf

\* Every transaction: the rows of an approved session change exactly when its
\* revision does, and never back.
LEMMA StepCounted ==
    ASSUME TypeInv, [Next]_vars, NEW s \in approved
    PROVE  Counted(s)
<1>1. TablesOK /\ s \in Sessions
  BY DEF TypeInv, TablesOK
<1>2. ASSUME NEW t \in Sessions, RegisterSession(t) PROVE Counted(s)
  <2>1. t # s /\ 1 + Capabilities \in Nat
    BY <1>2, Constants DEF RegisterSession
  <2>2. revision'[s] = revision[s]
    BY <1>1, <1>2, <2>1, BumpType DEF RegisterSession
  <2> QED
    BY <1>2, <2>2 DEF RegisterSession, Counted, Quiet, DenialsOf
<1>3. ASSUME NEW t \in Sessions, NEW at \in Times, Revoke(t, at) PROVE Counted(s)
  <2>1. at \in Nat
    BY Constants DEF Times
  <2> QED
    BY <1>1, <1>3, <2>1, RevokeCounted
<1>4. ASSUME NEW p \in Proposals, NEW now \in Times, Write(p, now) PROVE Counted(s)
  <2>1. now \in Nat
    BY Constants DEF Times
  <2>2. ASSUME NEW decision \in {"APPROVED", "DENIED"}, NEW expires \in 0..ExpiresAt,
               RegisterActionApproval(p, decision, now, expires)
        PROVE  Counted(s)
    BY <1>1, <2>1, <2>2, Constants, RegisterCounted
  <2>3. ASSUME NEW context \in {"absent", "changed", "same"}, Deny(p, context, now)
        PROVE  Counted(s)
    BY <1>1, <2>1, <2>3, DenyCounted
  <2>4. CASE AuthorizeAutomatic(p, now)
    BY <1>1, <2>1, <2>4, AutomaticCounted
  <2>5. CASE AuthorizeApproved(p, now)
    BY <1>1, <2>1, <2>5, ApprovedCounted
  <2>6. ASSUME NEW state \in {"SUCCEEDED", "EXECUTION_UNKNOWN"}, Observe(p, state, now)
        PROVE  Counted(s)
    BY <1>1, <2>1, <2>6, ObserveCounted
  <2>7. CASE ObserveAgain(p, now)
    BY <2>7, QuietCounted DEF ObserveAgain
  <2>8. CASE InsertRestore(p, now)
    BY <1>1, <2>1, <2>8, InsertCounted
  <2>9. CASE BeginRestore(p, now) \/ CompleteRestore(p, now)
    BY <1>1, <2>1, <2>9, MoveCounted
  <2> QED
    BY <1>4, <2>2, <2>3, <2>4, <2>5, <2>6, <2>7, <2>8, <2>9 DEF Write
<1>5. CASE UNCHANGED <<high, tables, revision>>
  BY <1>5, QuietCounted
<1>6. CASE UNCHANGED vars
  BY <1>6, QuietCounted DEF vars
<1> QED
  BY <1>2, <1>3, <1>4, <1>5, <1>6 DEF Next, FirstPage, NextPage, Changed, Refused

-----------------------------------------------------------------------------
(* One revision, one history *)

LEMMA QuietRowsOf ==
    ASSUME NEW s, Quiet(s)
    PROVE  Rows(s)' = Rows(s)
<1>1. /\ [p \in Of(s) |-> approval'[p]] = [p \in Of(s) |-> approval[p]]
      /\ [p \in Of(s) |-> attempt'[p]] = [p \in Of(s) |-> attempt[p]]
      /\ [p \in Of(s) |-> restore'[p]] = [p \in Of(s) |-> restore[p]]
  BY DEF Quiet
<1>2. [i \in DenialsOf(s)' |-> denials'[i]] = [i \in DenialsOf(s) |-> denials[i]]
  BY DEF Quiet
<1>3. revoked'[s] = revoked[s]
  BY DEF Quiet
<1> QED
  BY <1>1, <1>2, <1>3 DEF Rows

LEMMA QuietEvents ==
    ASSUME NEW s, Quiet(s)
    PROVE  Events(s)' = Events(s)
<1> DEFINE E1 == {Event("SESSION_APPROVED", 0, ApprovedAt, "")}
           E2 == {Event("SESSION_REVOKED", 0, revoked[t], "") :
                    t \in {t \in {s} : revoked[t] # None}}
           E3 == {Event("ACTION_DECISION", p, approval[p].decidedAt,
                        IF approval[p].consumedAt = None THEN "open" ELSE "consumed") :
                    p \in {p \in Of(s) : approval[p].decision # "NONE"}}
           E4 == {Event("ACTION_STARTED", p, attempt[p].consumedAt, "") :
                    p \in {p \in Of(s) : attempt[p].state # "NONE"}}
           E5 == {Event("ACTION_COMPLETED", p, attempt[p].completedAt, attempt[p].state) :
                    p \in {p \in Of(s) : attempt[p].completedAt # None}}
           E6 == {Event("ACTION_DENIED", i, denials[i].at, denials[i].reason) : i \in DenialsOf(s)}
           E7 == {Event("RESTORE_PREPARED", p, restore[p].preparedAt, "") :
                    p \in {p \in Of(s) : restore[p].state # "NONE"}}
           E8 == {Event("RESTORE_COMPLETED", p, restore[p].completedAt, "") :
                    p \in {p \in Of(s) : restore[p].completedAt # None}}
<1>1. E1' = E1
  BY DEF Event
<1>2. E2' = E2
  BY Zenon DEF Quiet
<1>3. E3' = E3
  BY DEF Quiet
<1>4. E4' = E4
  BY DEF Quiet
<1>5. E5' = E5
  BY DEF Quiet
<1>6. E6' = E6
  BY DEF Quiet
<1>7. E7' = E7
  BY DEF Quiet
<1>8. E8' = E8
  BY DEF Quiet
<1>9. Events(s) = E1 \cup E2 \cup E3 \cup E4 \cup E5 \cup E6 \cup E7 \cup E8
  BY DEF Events
<1>10. Events(s)' = E1' \cup E2' \cup E3' \cup E4' \cup E5' \cup E6' \cup E7' \cup E8'
  BY DEF Events
<1> HIDE DEF E1, E2, E3, E4, E5, E6, E7, E8
<1> QED
  BY <1>1, <1>2, <1>3, <1>4, <1>5, <1>6, <1>7, <1>8, <1>9, <1>10

\* The time of the first event of a set.
LatestIn(E) == (CHOOSE e \in E : Cardinality({f \in E : Before(f, e)}) = 0).at

LEMMA SamePosition ==
    ASSUME NEW s, Events(s)' = Events(s)
    PROVE  /\ \A e : Position(s, e)' = Position(s, e)
           /\ Latest(s)' = Latest(s)
<1>1. \A e : Position(s, e)' = Position(s, e)
  BY DEF Position
<1>2. Latest(s) = LatestIn(Events(s)) /\ Latest(s)' = LatestIn(Events(s)')
  BY DEF Latest, LatestIn, Position
<1>3. Latest(s)' = Latest(s)
  BY <1>2
<1> QED
  BY <1>1, <1>3

\* The rows of s have only moved on since they were R, and have done so.
RowAge(R, p) == Age(R.approvals[p], R.attempts[p], R.restores[p])

Grown(s, R) ==
    /\ R.revoked # None => revoked[s] = R.revoked
    /\ \A p \in Of(s) : AgeOf(p) >= RowAge(R, p)
    /\ DOMAIN R.denials \subseteq DenialsOf(s)

Moved(s, R) ==
    \/ revoked[s] # R.revoked
    \/ \E p \in Of(s) : AgeOf(p) > RowAge(R, p)
    \/ DOMAIN R.denials # DenialsOf(s)

LEMMA AgeTypes ==
    ASSUME NEW p
    PROVE  AgeOf(p) \in Nat /\ AgeOf(p)' \in Nat /\ \A R : RowAge(R, p) \in Nat
  BY AgeType DEF AgeOf, RowAge

LEMMA RowsFields ==
    ASSUME NEW s, NEW R, Rows(s) = R
    PROVE  /\ R.revoked = revoked[s] /\ DOMAIN R.denials = DenialsOf(s)
           /\ \A p \in Of(s) : RowAge(R, p) = AgeOf(p)
  BY DEF Rows, RowAge, AgeOf

LEMMA SameGrown ==
    ASSUME NEW s, NEW R, Rows(s) = R
    PROVE  Grown(s, R) /\ ~Moved(s, R)
<1>1. \A p \in Of(s) : RowAge(R, p) = AgeOf(p) /\ AgeOf(p) \in Nat
  BY RowsFields, AgeTypes
<1>2. R.revoked = revoked[s] /\ DOMAIN R.denials = DenialsOf(s)
  BY RowsFields
<1> QED
  BY <1>1, <1>2 DEF Grown, Moved

LEMMA QuietGrown ==
    ASSUME NEW s, NEW R, Quiet(s)
    PROVE  (Grown(s, R) => Grown(s, R)') /\ (Moved(s, R) => Moved(s, R)')
<1>1. \A p \in Of(s) : AgeOf(p)' = AgeOf(p)
  BY DEF Quiet, AgeOf
<1>2. revoked'[s] = revoked[s] /\ DenialsOf(s)' = DenialsOf(s)
  BY DEF Quiet
<1>3. \A p : RowAge(R, p)' = RowAge(R, p)
  BY DEF RowAge
<1> QED
  BY <1>1, <1>2, <1>3 DEF Grown, Moved

LEMMA NewerMoves ==
    ASSUME NEW s, NEW R, Newer(s), Grown(s, R)
    PROVE  Grown(s, R)' /\ Moved(s, R)'
<1>1. \A p : RowAge(R, p)' = RowAge(R, p)
  BY DEF RowAge
<1>2. ASSUME NEW p \in Of(s)
      PROVE  /\ AgeOf(p)' >= RowAge(R, p)
             /\ AgeOf(p)' > AgeOf(p) => AgeOf(p)' > RowAge(R, p)
  <2>1. AgeOf(p) >= RowAge(R, p) /\ AgeOf(p)' >= AgeOf(p)
    BY DEF Grown, Newer
  <2>2. AgeOf(p) \in Nat /\ AgeOf(p)' \in Nat /\ RowAge(R, p) \in Nat
    BY AgeTypes
  <2> QED
    BY <2>1, <2>2
<1>3. /\ R.revoked # None => revoked'[s] = R.revoked
      /\ DOMAIN R.denials \subseteq DenialsOf(s)'
  BY DEF Grown, Newer
<1>4. Grown(s, R)'
  BY <1>1, <1>2, <1>3 DEF Grown
<1>5. CASE revoked'[s] # revoked[s]
  <2>1. revoked[s] = None /\ R.revoked = None
    BY <1>5 DEF Newer, Grown
  <2> QED
    BY <1>4, <1>5, <2>1 DEF Moved
<1>6. CASE \E p \in Of(s) : AgeOf(p)' > AgeOf(p)
  BY <1>1, <1>2, <1>4, <1>6 DEF Moved
<1>7. CASE DenialsOf(s)' # DenialsOf(s)
  BY <1>4, <1>7 DEF Moved, Grown, Newer
<1> QED
  BY <1>5, <1>6, <1>7 DEF Newer

-----------------------------------------------------------------------------
(* An export *)

\* The events before an offset.
UpTo(s, offset) == {e \in Events(s) : Position(s, e) < offset}

\* The export's first page was of the history there is.
Current(r) ==
    /\ r.rows = Rows(r.s) /\ r.history = Events(r.s)
    /\ r.total = Cardinality(Events(r.s)) /\ r.at = Latest(r.s)
    /\ r.got = UpTo(r.s, r.offset)

Tracks(r) ==
    /\ revision[r.s] >= r.revision
    /\ Grown(r.s, r.rows)
    /\ revision[r.s] = r.revision => Current(r)
    /\ revision[r.s] > r.revision => Moved(r.s, r.rows)

ExportInv ==
    /\ \A r : r = reader /\ r.pc = "reading" => Tracks(r)
    /\ ExportIsOneHistory

LEMMA ExportInit == Init => ExportInv
  BY DEF Init, ExportInv, ExportIsOneHistory, NoExport

LEMMA QuietCurrent ==
    ASSUME NEW r, Quiet(r.s)
    PROVE  Current(r) => Current(r)'
<1>1. Rows(r.s)' = Rows(r.s) /\ Events(r.s)' = Events(r.s)
  BY QuietRowsOf, QuietEvents
<1>2. Latest(r.s)' = Latest(r.s) /\ \A e : Position(r.s, e)' = Position(r.s, e)
  BY <1>1, SamePosition
<1>3. UpTo(r.s, r.offset)' = UpTo(r.s, r.offset)
  BY <1>1, <1>2 DEF UpTo
<1> QED
  BY <1>1, <1>2, <1>3 DEF Current

\* A transaction between two pages.
LEMMA WriterTracks ==
    ASSUME TypeInv, TypeInv', ExportInv, UNCHANGED reader,
           \A s \in approved : Counted(s)
    PROVE  ExportInv'
<1> SUFFICES ASSUME NEW r, r = reader, r.pc = "reading" PROVE Tracks(r)'
  BY DEF ExportInv, ExportIsOneHistory
<1>1. /\ r.s \in approved /\ r.s \in Sessions /\ r.revision \in Nat
  BY DEF TypeInv, ReaderOK, TablesOK
<1>2. revision[r.s] \in Nat /\ revision'[r.s] \in Nat
  BY <1>1, Constants DEF TypeInv, TablesOK
<1>3. Tracks(r)
  BY DEF ExportInv
<1>4. CASE Quiet(r.s) /\ revision'[r.s] = revision[r.s]
  BY <1>3, <1>4, QuietGrown, QuietCurrent DEF Tracks
<1>5. CASE Newer(r.s) /\ revision'[r.s] > revision[r.s]
  <2>1. revision'[r.s] > r.revision
    BY <1>1, <1>2, <1>3, <1>5 DEF Tracks
  <2>2. Grown(r.s, r.rows)' /\ Moved(r.s, r.rows)'
    BY <1>3, <1>5, NewerMoves DEF Tracks
  <2> QED
    BY <1>1, <1>2, <2>1, <2>2 DEF Tracks
<1> QED
  BY <1>1, <1>4, <1>5 DEF Counted

\* A page continues the events before its offset, and the last one ends them.
LEMMA Pages ==
    ASSUME TablesOK, NEW s \in Sessions, NEW offset \in Nat, NEW n \in Nat
    PROVE  /\ UpTo(s, offset) \cap Slice(s, offset, n) = {}
           /\ UpTo(s, offset) \cup Slice(s, offset, n) = UpTo(s, offset + n)
           /\ ~(offset < Cardinality(Events(s))) => UpTo(s, offset) = Events(s)
           /\ UpTo(s, 0) = {}
<1>1. \A e \in Events(s) : Position(s, e) \in Nat /\ Position(s, e) < Cardinality(Events(s))
  BY Positions
<1>2. Cardinality(Events(s)) \in Nat
  BY FiniteEvents, FS_CardinalityType
<1>3. UpTo(s, offset) \cap Slice(s, offset, n) = {}
  BY <1>1 DEF UpTo, Slice
<1>4. UpTo(s, offset) \cup Slice(s, offset, n) = UpTo(s, offset + n)
  BY <1>1 DEF UpTo, Slice
<1>5. ~(offset < Cardinality(Events(s))) => UpTo(s, offset) = Events(s)
  BY <1>1, <1>2 DEF UpTo
<1>6. UpTo(s, 0) = {}
  BY <1>1 DEF UpTo
<1> QED
  BY <1>3, <1>4, <1>5, <1>6

\* What the loop makes of a page of the history its first page was of.
LEMMA PageTracks ==
    ASSUME TablesOK, UNCHANGED <<tables, revision>>,
           NEW r, NEW offset \in Nat, NEW got,
           r = [pc |-> "reading", s |-> r.s, revision |-> r.revision, total |-> r.total,
                at |-> r.at, offset |-> r.offset, got |-> r.got, rows |-> r.rows,
                history |-> r.history, whole |-> r.whole],
           r.s \in Sessions, r.revision = revision[r.s],
           r.rows = Rows(r.s), r.history = Events(r.s),
           r.total = Cardinality(Events(r.s)), r.at = Latest(r.s),
           got = UpTo(r.s, offset),
           reader' = After(r, offset, got)
    PROVE  ExportInv'
<1>0. r.pc = "reading" /\ "reading" # "done" /\ "reading" # "INCONSISTENT" /\ "done" # "INCONSISTENT"
  OBVIOUS
<1>a. r = [pc |-> r.pc, s |-> r.s, revision |-> r.revision, total |-> r.total,
           at |-> r.at, offset |-> r.offset, got |-> r.got, rows |-> r.rows,
           history |-> r.history, whole |-> r.whole]
  BY <1>0
<1>1. CASE offset < r.total
  <2>1. PICK x : x = [pc |-> "reading", s |-> r.s, revision |-> r.revision, total |-> r.total,
                      at |-> r.at, offset |-> offset, got |-> got, rows |-> r.rows,
                      history |-> r.history, whole |-> r.whole]
    OBVIOUS
  <2>2. reader' = x
    BY <1>0, <1>a, <1>1, <2>1, AfterIs
  <2>3. /\ x.pc = "reading" /\ x.s = r.s /\ x.revision = r.revision /\ x.total = r.total
        /\ x.at = r.at /\ x.offset = offset /\ x.got = got /\ x.rows = r.rows
        /\ x.history = r.history
    BY <2>1
  <2>4. Quiet(x.s) /\ revision' = revision
    BY DEF Quiet, tables, DenialsOf
  <2>5. Current(x)'
    <3>1. Current(x)
      BY <2>3 DEF Current
    <3> QED
      BY <2>4, <3>1, QuietCurrent
  <2>6. Grown(x.s, x.rows)'
    <3>1. Grown(x.s, x.rows)
      BY <2>3, SameGrown
    <3> QED
      BY <2>4, <3>1, QuietGrown
  <2>7. revision'[x.s] = x.revision /\ x.revision \in Nat
    BY <2>3, <2>4, Constants DEF TablesOK
  <2>8. Tracks(x)'
    BY <2>5, <2>6, <2>7 DEF Tracks
  <2> QED
    BY <1>0, <2>2, <2>3, <2>8 DEF ExportInv, ExportIsOneHistory
<1>2. CASE ~(offset < r.total)
  <2>1. got = Events(r.s)
    BY <1>2, Pages
  <2>2. Cardinality(got) = r.total /\ got = r.history
    BY <2>1
  <2>3. reader' = [pc |-> "done", s |-> None, revision |-> 0, total |-> 0, at |-> 0, offset |-> 0,
                   got |-> {}, rows |-> None, history |-> {}, whole |-> (got = r.history)]
    BY <1>a, <1>2, <2>2, AfterIs
  <2>4. reader'.pc = "done" /\ reader'.whole
    <3>1. PICK w : w = (got = r.history)
      OBVIOUS
    <3>2. reader' = [pc |-> "done", s |-> None, revision |-> 0, total |-> 0, at |-> 0,
                     offset |-> 0, got |-> {}, rows |-> None, history |-> {}, whole |-> w]
      BY <2>3, <3>1, Zenon
    <3>3. reader'.pc = "done" /\ reader'.whole = w
      BY <3>2
    <3>4. w
      BY <2>2, <3>1, Zenon
    <3> QED
      BY <3>3, <3>4, Zenon
  <2> QED
    BY <1>0, <2>4 DEF ExportInv, ExportIsOneHistory
<1> QED
  BY <1>1, <1>2

LEMMA FirstPageTracks ==
    ASSUME TypeInv, NEW s \in Sessions, NEW m \in 1..PageLimit, NEW n \in 1..PageLimit,
           FirstPage(s, m, n)
    PROVE  ExportInv'
<1>1. PICK r : r = [pc |-> "reading", s |-> s, revision |-> revision[s],
                    total |-> Cardinality(Events(s)), at |-> Latest(s), offset |-> 0,
                    got |-> {}, rows |-> Rows(s), history |-> Events(s), whole |-> FALSE]
  OBVIOUS
<1>2. /\ reader' = After(r, NextOffset(0, n), Slice(s, 0, n)) /\ UNCHANGED <<tables, revision>>
  BY <1>1 DEF FirstPage
<1>3. NextOffset(0, n) = n /\ n \in Nat /\ 0 \in Nat
  BY Constants DEF NextOffset
<1>4. Slice(s, 0, n) = UpTo(s, n)
  <2>1. UpTo(s, 0) = {} /\ UpTo(s, 0) \cup Slice(s, 0, n) = UpTo(s, 0 + n) /\ 0 + n = n
    BY <1>3, Pages DEF TypeInv
  <2> QED
    BY <2>1
<1>5. TablesOK
  BY DEF TypeInv
<1> QED
  BY <1>1, <1>2, <1>3, <1>4, <1>5, PageTracks

LEMMA NextPageTracks ==
    ASSUME TypeInv, ExportInv, NEW m \in 1..PageLimit, NEW n \in 1..PageLimit, NextPage(m, n)
    PROVE  ExportInv'
<1>1. PICK r : r = reader
  OBVIOUS
<1>2. /\ r.pc = "reading" /\ r.s \in Sessions /\ r.offset \in Nat /\ r.revision = revision[r.s]
      /\ UNCHANGED <<tables, revision>> /\ revision[r.s] \in Nat /\ n \in Nat
  BY <1>1, Constants DEF NextPage, SameSnapshot, TypeInv, TablesOK, ReaderOK
<1>3. Current(r)
  BY <1>1, <1>2 DEF ExportInv, Tracks
<1>4. /\ r.got \cap Slice(r.s, r.offset, n) = {}
      /\ r.got \cup Slice(r.s, r.offset, n) = UpTo(r.s, r.offset + n)
  BY <1>2, <1>3, Pages DEF TypeInv, Current
<1>5. reader' = After(r, r.offset + n, UpTo(r.s, r.offset + n))
  BY <1>1, <1>3, <1>4 DEF NextPage, NextOffset, Current
<1>6. r = [pc |-> "reading", s |-> r.s, revision |-> r.revision, total |-> r.total,
           at |-> r.at, offset |-> r.offset, got |-> r.got, rows |-> r.rows,
           history |-> r.history, whole |-> r.whole]
  BY <1>1, <1>2 DEF TypeInv, ReaderOK, ReaderShape
<1>7. TablesOK /\ r.offset + n \in Nat
  BY <1>2 DEF TypeInv
<1>8. /\ r.rows = Rows(r.s) /\ r.history = Events(r.s)
      /\ r.total = Cardinality(Events(r.s)) /\ r.at = Latest(r.s)
  BY <1>3 DEF Current
<1> QED
  BY <1>2, <1>5, <1>6, <1>7, <1>8, PageTracks

LEMMA ExportStep == TypeInv /\ ExportInv /\ [Next]_vars => ExportInv'
<1> SUFFICES ASSUME TypeInv, ExportInv, [Next]_vars PROVE ExportInv'
  OBVIOUS
<1>1. TypeInv' /\ \A s \in approved : Counted(s)
  BY TypeStep, StepCounted
<1>2. CASE UNCHANGED reader
  BY <1>1, <1>2, WriterTracks
<1>3. ASSUME NEW s \in Sessions, RegisterSession(s) PROVE UNCHANGED reader
  BY <1>3 DEF RegisterSession
<1>4. ASSUME NEW s \in Sessions, NEW at \in Times, Revoke(s, at) PROVE UNCHANGED reader
  BY <1>4 DEF Revoke
<1>5. ASSUME NEW p \in Proposals, NEW now \in Times, Write(p, now) PROVE UNCHANGED reader
  BY <1>5, WriteType DEF TypeInv
<1>6. ASSUME NEW s \in Sessions, NEW m \in 1..PageLimit, NEW n \in 1..PageLimit, FirstPage(s, m, n)
      PROVE  ExportInv'
  BY <1>6, FirstPageTracks
<1>7. ASSUME NEW m \in 1..PageLimit, NEW n \in 1..PageLimit, NextPage(m, n) PROVE ExportInv'
  BY <1>7, NextPageTracks
<1>8. CASE Changed \/ Refused
  BY <1>8 DEF Changed, Refused, NoExport, ExportInv, ExportIsOneHistory
<1>9. CASE UNCHANGED vars
  BY <1>2, <1>9 DEF vars
<1> QED
  BY <1>2, <1>3, <1>4, <1>5, <1>6, <1>7, <1>8, <1>9 DEF Next

LEMMA ExportIdentifies == TypeInv /\ ExportInv => RevisionIdentifiesHistory
<1> SUFFICES ASSUME TypeInv, ExportInv, reader.pc = "reading"
             PROVE  revision[reader.s] = reader.revision <=> Rows(reader.s) = reader.rows
  BY DEF RevisionIdentifiesHistory
<1>1. Tracks(reader)
  BY DEF ExportInv
<1>2. revision[reader.s] \in Nat /\ reader.revision \in Nat
  BY Constants DEF TypeInv, TablesOK, ReaderOK
<1>3. Rows(reader.s) = reader.rows => ~Moved(reader.s, reader.rows)
  BY SameGrown
<1> QED
  BY <1>1, <1>2, <1>3 DEF Tracks, Current

\* While an export runs, the session's revision is the first page's exactly as
\* long as its rows are (ledger.rs, the triggers session_audit_revision_*).
THEOREM AuditRevision == Spec => []RevisionIdentifiesHistory
<1>1. Spec => [](TypeInv /\ ExportInv)
  BY TypeInit, TypeStep, ExportInit, ExportStep, PTL DEF Spec
<1> QED
  BY <1>1, ExportIdentifies, PTL

\* An export that ends has every event of one history, and its pages never
\* disagree (audit.rs, session_audit; taskBridge.ts,
\* readAllAccordLockTaskAuditPages).
THEOREM AuditExports == Spec => []ExportIsOneHistory
<1>1. Spec => [](TypeInv /\ ExportInv)
  BY TypeInit, TypeStep, ExportInit, ExportStep, PTL DEF Spec
<1>2. ExportInv => ExportIsOneHistory
  BY DEF ExportInv
<1> QED
  BY <1>1, <1>2, PTL
=============================================================================
