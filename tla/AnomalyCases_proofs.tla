------------------------- MODULE AnomalyCases_proofs -------------------------
(***************************************************************************)
(* Proofs about AnomalyCases, for any number of cases, organizations,     *)
(* reviewers and openings side by side.                                   *)
(***************************************************************************)
EXTENDS AnomalyCases, FiniteSetTheorems, TLAPS

(* Types *)

LEMMA RiskLevelType == \A r : RiskLevel(r) \in RiskLevels
BY DEF RiskLevel, RiskLevelForScore, RiskLevels

LEMMA AuditWithType ==
    ASSUME TablesTypeOK, NEW i \in Ids, NEW events
    PROVE  AuditWith(i, events) \in [Ids -> [AuditEvents -> Nat]]
BY DEF AuditWith, TablesTypeOK

LEMMA TypeInit == Init => TypeOK
BY PayloadsAssumption
   DEF Init, TypeOK, TablesInit, TablesTypeOK, NoRow, Row, RowStatuses,
       WorkflowStatuses, NoAudit, NoCase, Case, NoNotice, Notice, NotOpening,
       Opening, RiskLevels

\* What a database transaction of open_anomaly_case writes.
LEMMA CommitTypes ==
    ASSUME TypeOK, NEW h \in Calls, OpenCommit(h)
    PROVE  TypeOK'
<1>1. opening[h] \in Opening
  BY DEF TypeOK
<1>2. TablesTypeOK'
  BY <1>1, AuditWithType DEF OpenCommit, TypeOK, TablesTypeOK, Opening
<1>3. opening' \in [Calls -> Opening]
  BY PayloadsAssumption
     DEF OpenCommit, Stop, TypeOK, NotOpening, Opening, RiskLevels
<1>4. PICK c \in CaseIds : /\ cases' = Opened(c, opening[h])
                           /\ notices' = Notified(c, opening[h].named)
  BY DEF OpenCommit
<1>5. cases' \in [CaseIds -> Case]
  BY <1>1, <1>4 DEF Opened, TypeOK, Case, Opening
<1>6. notices' \in [CaseIds -> [Orgs -> Notice]]
  <2>1. [o \in Orgs |-> IF o \in opening[h].named
                          THEN [NoNotice EXCEPT !.status = "sent"]
                          ELSE NoNotice] \in [Orgs -> Notice]
    BY DEF NoNotice, Notice
  <2> QED
    BY <1>4, <2>1 DEF Notified, TypeOK
<1> QED
  BY <1>2, <1>3, <1>5, <1>6 DEF TypeOK

LEMMA TypeNext == TypeOK /\ [Next]_vars => TypeOK'
<1> SUFFICES ASSUME TypeOK, [Next]_vars
             PROVE  TypeOK'
  OBVIOUS
<1> USE CaseAssumption
<1>1. ASSUME NEW t \in Ids, NEW b \in BOOLEAN, Submit(t, b)
      PROVE  TypeOK'
  <2>1. row' \in [Ids -> Row]
    BY <1>1 DEF Submit, TypeOK, TablesTypeOK, Row, RowStatuses, Rules
  <2> QED
    BY <1>1, <2>1, AuditWithType DEF Submit, TypeOK, TablesTypeOK
<1>2. ASSUME NEW t \in Ids, NEW rules \in RuleSets, StoreRisk(t, rules)
      PROVE  TypeOK'
  <2>1. row' \in [Ids -> Row]
    BY <1>2
       DEF StoreRisk, TypeOK, TablesTypeOK, Row, RowStatuses, WorkflowStatuses
  <2> QED
    BY <1>2, <2>1 DEF StoreRisk, TypeOK, TablesTypeOK
<1>3. ASSUME NEW h \in Calls, NEW u \in Users, NEW t \in Ids,
             NEW ids \in IdLists, OpenRead(h, u, t, ids)
      PROVE  TypeOK'
  <2>1. ids \union (IF row[t].institutions THEN Involved[t] ELSE {})
          \in SUBSET (Orgs \union {UnknownOrg})
    OBVIOUS
  <2>2. opening' \in [Calls -> Opening]
    BY <1>3, <2>1, RiskLevelType DEF OpenRead, TypeOK, Opening
  <2> QED
    BY <1>3, <2>2 DEF OpenRead, TypeOK, TablesTypeOK
<1>4. ASSUME NEW h \in Calls, OpenRollback(h)
      PROVE  TypeOK'
  BY <1>4, PayloadsAssumption
     DEF OpenRollback, Stop, TypeOK, TablesTypeOK, NotOpening, Opening,
         RiskLevels
<1>5. ASSUME NEW u \in Users, NEW c \in CaseIds, Close(u, c)
      PROVE  TypeOK'
  BY <1>5 DEF Close, TypeOK, TablesTypeOK, Case
<1>6. ASSUME NEW u \in Users, NEW c \in CaseIds,
             ViewNotice(u, c) \/ Respond(u, c)
      PROVE  TypeOK'
  <2>1. OrgOf[u] \in Orgs /\ notices[c] \in [Orgs -> Notice]
        /\ notices[c][OrgOf[u]] \in Notice
    BY DEF TypeOK
  <2>2. PICK n \in Notice :
          notices' = [notices EXCEPT ![c] = [@ EXCEPT ![OrgOf[u]] = n]]
    <3>1. [notices[c][OrgOf[u]] EXCEPT !.status = "viewed"] \in Notice
          /\ [status |-> "responded", respondedBy |-> u] \in Notice
      BY <2>1 DEF Notice
    <3> QED
      BY <1>6, <3>1 DEF ViewNotice, Respond
  <2>3. notices' \in [CaseIds -> [Orgs -> Notice]]
    BY <2>1, <2>2 DEF TypeOK
  <2> QED
    BY <1>6, <2>3 DEF ViewNotice, Respond, TypeOK, TablesTypeOK
<1>7. CASE UNCHANGED vars
  BY <1>7 DEF vars, TypeOK, TablesTypeOK
<1> QED
  BY <1>1, <1>2, <1>3, <1>4, <1>5, <1>6, <1>7, CommitTypes DEF Next

\* The tables of cases and notices and the running openings keep to their
\* values, whatever requests name.
THEOREM TypeCorrect == Spec => []TypeOK
BY TypeInit, TypeNext, PTL DEF Spec

(* Cases, notices and the audit trail *)

Openings(t) == audit[t]["regulator_anomaly_case_opened"]

\* CasesAccountedFor, one case and one transaction at a time.  The set of
\* cases is finite because each was opened by some step.
Told(c) == CaseExists(c) <=> \E o \in Orgs : notices[c][o].status # "none"
Counted(t) == IsFiniteSet(CasesOf(t)) /\ Openings(t) = Cardinality(CasesOf(t))

AccountInv == (\A c \in CaseIds : Told(c)) /\ (\A t \in Ids : Counted(t))

LEMMA AccountInit == Init => AccountInv
<1> SUFFICES ASSUME Init PROVE AccountInv
  OBVIOUS
<1>1. \A c \in CaseIds : ~ CaseExists(c)
  BY DEF Init, NoCase, CaseExists
<1>2. \A t \in Ids : CasesOf(t) = {} /\ Openings(t) = 0
  BY <1>1 DEF CasesOf, Openings, Init, TablesInit, NoAudit, AuditEvents
<1>3. \A c \in CaseIds : Told(c)
  BY <1>1 DEF Told, Init, NoNotice
<1> QED
  BY <1>2, <1>3, FS_EmptySet DEF AccountInv, Counted

\* An opening writes one case that was not there, its notices and its event.
LEMMA OpeningWrites ==
    ASSUME TypeOK, NEW h \in Calls, OpenCommit(h)
    PROVE  \E c \in CaseIds, o \in Orgs :
             /\ ~ CaseExists(c) /\ CaseExists(c)'
             /\ cases'[c].tx = opening[h].tx /\ opening[h].tx \in Ids
             /\ notices'[c][o].status # "none"
             /\ \A d \in CaseIds : d # c => /\ cases'[d] = cases[d]
                                            /\ notices'[d] = notices[d]
             /\ \A t \in Ids : Openings(t)' =
                  IF t = opening[h].tx THEN Openings(t) + 1 ELSE Openings(t)
<1>1. opening[h].tx \in Ids
  BY DEF TypeOK, Opening
<1>2. PICK c \in CaseIds : /\ ~ CaseExists(c)
                           /\ cases' = Opened(c, opening[h])
                           /\ notices' = Notified(c, opening[h].named)
  BY DEF OpenCommit
<1>3. PICK o \in Orgs : o \in opening[h].named
  BY DEF OpenCommit
<1>4. notices'[c][o].status = "sent"
  BY <1>2, <1>3 DEF Notified, NoNotice, TypeOK
<1>5. cases'[c] = [tx |-> opening[h].tx, status |-> "awaiting_bank_response",
                   risk |-> opening[h].risk]
  BY <1>2 DEF Opened, TypeOK
<1>6. \A d \in CaseIds : d # c => /\ cases'[d] = cases[d]
                                  /\ notices'[d] = notices[d]
  BY <1>2 DEF Opened, Notified, TypeOK
<1>7. \A t \in Ids : Openings(t)' =
        IF t = opening[h].tx THEN Openings(t) + 1 ELSE Openings(t)
  BY <1>1 DEF OpenCommit, AuditWith, AuditEvents, Openings, TypeOK,
              TablesTypeOK
<1> QED
  BY <1>1, <1>2, <1>3, <1>4, <1>5, <1>6, <1>7 DEF CaseExists

LEMMA OpeningAccounted ==
    ASSUME TypeOK, AccountInv, NEW h \in Calls, OpenCommit(h)
    PROVE  AccountInv'
<1>1. PICK c \in CaseIds, o \in Orgs :
        /\ ~ CaseExists(c) /\ CaseExists(c)'
        /\ cases'[c].tx = opening[h].tx /\ opening[h].tx \in Ids
        /\ notices'[c][o].status # "none"
        /\ \A d \in CaseIds : d # c => /\ cases'[d] = cases[d]
                                       /\ notices'[d] = notices[d]
        /\ \A t \in Ids : Openings(t)' =
             IF t = opening[h].tx THEN Openings(t) + 1 ELSE Openings(t)
  BY OpeningWrites
<1>2. \A d \in CaseIds : Told(d)'
  BY <1>1 DEF AccountInv, Told, CaseExists
<1>3. ASSUME NEW t \in Ids
      PROVE  Counted(t)'
  <2>1. CASE t = opening[h].tx
    <3>1. CasesOf(t)' = CasesOf(t) \union {c} /\ c \notin CasesOf(t)
      BY <1>1, <2>1 DEF CasesOf, CaseExists
    <3>2. IsFiniteSet(CasesOf(t)) /\ Openings(t) = Cardinality(CasesOf(t))
      BY DEF AccountInv, Counted
    <3>3. /\ IsFiniteSet(CasesOf(t)')
          /\ Cardinality(CasesOf(t)') = Cardinality(CasesOf(t)) + 1
      BY <3>1, <3>2, FS_AddElement
    <3>4. Openings(t)' = Openings(t) + 1
      BY <1>1, <2>1
    <3> QED
      BY <3>2, <3>3, <3>4 DEF Counted
  <2>2. CASE t # opening[h].tx
    <3>1. CasesOf(t)' = CasesOf(t)
      BY <1>1, <2>2 DEF CasesOf, CaseExists
    <3>2. Openings(t)' = Openings(t)
      BY <1>1, <2>2
    <3> QED
      BY <3>1, <3>2 DEF AccountInv, Counted
  <2> QED
    BY <2>1, <2>2
<1> QED
  BY <1>2, <1>3 DEF AccountInv

\* What leaves the number of cases, of notices and of opening events alone.
LEMMA SameAccount ==
    ASSUME AccountInv,
           \A c \in CaseIds :
             /\ CaseExists(c)' <=> CaseExists(c)
             /\ cases'[c].tx = cases[c].tx
             /\ \A o \in Orgs : notices'[c][o].status = "none"
                                  <=> notices[c][o].status = "none",
           \A t \in Ids : Openings(t)' = Openings(t)
    PROVE  AccountInv'
<1>1. \A c \in CaseIds : Told(c)'
  BY DEF AccountInv, Told
<1>2. ASSUME NEW t \in Ids
      PROVE  Counted(t)'
  <2>1. CasesOf(t)' = CasesOf(t)
    BY DEF CasesOf
  <2> QED
    BY <2>1 DEF AccountInv, Counted
<1> QED
  BY <1>1, <1>2 DEF AccountInv

\* Viewing and answering change one notice that is there.
LEMMA NoticeWrites ==
    ASSUME TypeOK, NEW u \in Users, NEW c \in CaseIds,
           ViewNotice(u, c) \/ Respond(u, c)
    PROVE  /\ OrgOf[u] \in Orgs
           /\ notices[c][OrgOf[u]].status # "none"
           /\ \/ /\ notices[c][OrgOf[u]].status = "sent"
                 /\ notices'[c][OrgOf[u]] =
                      [notices[c][OrgOf[u]] EXCEPT !.status = "viewed"]
              \/ notices'[c][OrgOf[u]] =
                   [status |-> "responded", respondedBy |-> u]
           /\ notices'[c][OrgOf[u]].status \in {"viewed", "responded"}
           /\ UNCHANGED <<row, audit, cases, opening>>
<1>1. OrgOf[u] \in Orgs /\ notices[c] \in [Orgs -> Notice]
      /\ notices \in [CaseIds -> [Orgs -> Notice]]
      /\ notices[c][OrgOf[u]] \in Notice
  BY CaseAssumption DEF TypeOK
<1>2. [notices[c][OrgOf[u]] EXCEPT !.status = "viewed"].status = "viewed"
  BY <1>1 DEF Notice
<1>3. CASE ViewNotice(u, c)
  <2>1. notices' = [notices EXCEPT ![c] = [@ EXCEPT ![OrgOf[u]] =
                      [notices[c][OrgOf[u]] EXCEPT !.status = "viewed"]]]
    BY <1>3 DEF ViewNotice
  <2> QED
    BY <1>1, <1>2, <1>3, <2>1 DEF ViewNotice
<1>4. CASE Respond(u, c)
  BY <1>1, <1>4 DEF Respond
<1> QED
  BY <1>3, <1>4

LEMMA OtherNotices ==
    ASSUME TypeOK, NEW u \in Users, NEW c \in CaseIds,
           ViewNotice(u, c) \/ Respond(u, c),
           NEW d \in CaseIds, NEW o \in Orgs, d # c \/ o # OrgOf[u]
    PROVE  notices'[d][o] = notices[d][o]
BY CaseAssumption DEF ViewNotice, Respond, TypeOK

LEMMA AccountNext == TypeOK /\ AccountInv /\ [Next]_vars => AccountInv'
<1> SUFFICES ASSUME TypeOK, AccountInv, [Next]_vars
             PROVE  AccountInv'
  OBVIOUS
<1>1. ASSUME NEW t \in Ids, NEW b \in BOOLEAN, Submit(t, b)
      PROVE  AccountInv'
  <2>1. \A i \in Ids : Openings(i)' = Openings(i)
    BY <1>1 DEF Submit, AuditWith, SubmissionEvents, AuditEvents, Openings,
                TypeOK, TablesTypeOK
  <2> QED
    BY <1>1, <2>1, SameAccount DEF Submit, CaseExists
<1>2. ASSUME UNCHANGED <<audit, cases, notices>>
      PROVE  AccountInv'
  BY <1>2, SameAccount DEF CaseExists, Openings
<1>3. ASSUME NEW u \in Users, NEW c \in CaseIds, Close(u, c)
      PROVE  AccountInv'
  <2>1. \A d \in CaseIds : /\ CaseExists(d)' <=> CaseExists(d)
                           /\ cases'[d].tx = cases[d].tx
    BY <1>3 DEF Close, CaseExists, TypeOK, Case
  <2> QED
    BY <1>3, <2>1, SameAccount DEF Close, Openings
<1>4. ASSUME NEW u \in Users, NEW c \in CaseIds,
             ViewNotice(u, c) \/ Respond(u, c)
      PROVE  AccountInv'
  <2>1. ASSUME NEW d \in CaseIds, NEW o \in Orgs
        PROVE  notices'[d][o].status = "none" <=> notices[d][o].status = "none"
    <3>1. CASE d = c /\ o = OrgOf[u]
      <4>1. /\ notices[c][OrgOf[u]].status # "none"
            /\ notices'[c][OrgOf[u]].status \in {"viewed", "responded"}
        BY <1>4, NoticeWrites
      <4> QED
        BY <3>1, <4>1
    <3>2. CASE ~ (d = c /\ o = OrgOf[u])
      BY <1>4, <3>2, OtherNotices
    <3> QED
      BY <3>1, <3>2
  <2>2. UNCHANGED <<audit, cases>>
    BY <1>4, NoticeWrites
  <2> QED
    BY <2>1, <2>2, SameAccount DEF CaseExists, Openings
<1> QED
  BY <1>1, <1>2, <1>3, <1>4, OpeningAccounted
     DEF Next, vars, StoreRisk, OpenRead, OpenRollback

\* A case notified somebody, a notice has its case, and a transaction's audit
\* log has one opening event per case, though the number of a case is only
\* known in the database transaction and openings fail at any point.
THEOREM CasesCounted == Spec => []CasesAccountedFor
<1>1. AccountInv => CasesAccountedFor
  BY DEF AccountInv, Told, Counted, Openings, CasesAccountedFor
<1> QED
  BY <1>1, TypeInit, TypeNext, AccountInit, AccountNext, PTL DEF Spec

(* Notices *)

\* What a step does to one notice: nothing, open it, view it or answer it.
LEMMA NoticeStep ==
    ASSUME TypeOK, AccountInv, [Next]_vars, NEW c \in CaseIds, NEW o \in Orgs
    PROVE  \/ notices'[c][o] = notices[c][o]
           \/ /\ notices[c][o].status = "none"
              /\ notices'[c][o].status \in {"none", "sent"}
              /\ notices'[c][o].respondedBy = NoUser
           \/ /\ notices[c][o].status = "sent"
              /\ notices'[c][o].status = "viewed"
              /\ notices'[c][o].respondedBy = notices[c][o].respondedBy
           \/ /\ notices'[c][o].status = "responded"
              /\ \E u \in Users : /\ OrgOf[u] = o
                                  /\ notices'[c][o].respondedBy = u
<1>0. notices[c][o] \in Notice
  BY DEF TypeOK
<1>1. ASSUME NEW h \in Calls, OpenCommit(h)
      PROVE  \/ notices'[c][o] = notices[c][o]
             \/ /\ notices[c][o].status = "none"
                /\ notices'[c][o].status \in {"none", "sent"}
                /\ notices'[c][o].respondedBy = NoUser
  <2>1. PICK d \in CaseIds : /\ ~ CaseExists(d)
                             /\ notices' = Notified(d, opening[h].named)
    BY <1>1 DEF OpenCommit
  <2>2. CASE c = d
    BY <2>1, <2>2 DEF Notified, NoNotice, TypeOK, AccountInv, Told
  <2>3. CASE c # d
    BY <2>1, <2>3 DEF Notified, TypeOK
  <2> QED
    BY <2>2, <2>3
<1>2. ASSUME NEW u \in Users, NEW d \in CaseIds,
             ViewNotice(u, d) \/ Respond(u, d)
      PROVE  \/ notices'[c][o] = notices[c][o]
             \/ /\ notices[c][o].status = "sent"
                /\ notices'[c][o].status = "viewed"
                /\ notices'[c][o].respondedBy = notices[c][o].respondedBy
             \/ /\ notices'[c][o].status = "responded"
                /\ OrgOf[u] = o /\ notices'[c][o].respondedBy = u
  <2>1. CASE c = d /\ o = OrgOf[u]
    <3>1. \/ /\ notices[d][OrgOf[u]].status = "sent"
             /\ notices'[d][OrgOf[u]] =
                  [notices[d][OrgOf[u]] EXCEPT !.status = "viewed"]
          \/ notices'[d][OrgOf[u]] =
               [status |-> "responded", respondedBy |-> u]
      BY <1>2, NoticeWrites
    <3> QED
      BY <1>0, <2>1, <3>1 DEF Notice
  <2>2. CASE ~ (c = d /\ o = OrgOf[u])
    BY <1>2, <2>2, OtherNotices
  <2> QED
    BY <2>1, <2>2
<1>3. CASE UNCHANGED notices
  BY <1>3
<1> QED
  BY <1>1, <1>2, <1>3
     DEF Next, vars, Submit, StoreRisk, OpenRead, OpenRollback, Close

\* A notice only moves forward: viewing after an answer, and opening a second
\* case on the same transaction, take no notice back.
THEOREM NoticesForward == Spec => NoticesMoveForward
<1>1. ASSUME TypeOK, AccountInv, [Next]_vars, NEW c \in CaseIds, NEW o \in Orgs
      PROVE  Progress[notices[c][o].status] <= Progress[notices'[c][o].status]
  <2>1. notices[c][o] \in Notice
    BY <1>1 DEF TypeOK
  <2>2. \/ notices'[c][o].status = notices[c][o].status
        \/ /\ notices[c][o].status = "none"
           /\ notices'[c][o].status \in {"none", "sent"}
        \/ /\ notices[c][o].status = "sent"
           /\ notices'[c][o].status = "viewed"
        \/ notices'[c][o].status = "responded"
    BY <1>1, NoticeStep
  <2> QED
    BY <2>1, <2>2 DEF Progress, Notice
<1>2. TypeOK /\ AccountInv /\ [Next]_vars =>
        [\A c \in CaseIds, o \in Orgs :
           Progress[notices[c][o].status]
             <= Progress[notices'[c][o].status]]_vars
  BY <1>1
<1> QED
  BY <1>2, TypeInit, TypeNext, AccountInit, AccountNext, PTL
     DEF Spec, NoticesMoveForward

\* An answer comes from the notified organization, and an answered notice
\* says who answered it.
THEOREM AnswersOwned == Spec => []AnswersFromOwnBank
<1> DEFINE Owned(c, o) ==
             /\ notices[c][o].status = "responded"
                  <=> notices[c][o].respondedBy # NoUser
             /\ notices[c][o].respondedBy # NoUser
                  => OrgOf[notices[c][o].respondedBy] = o
           Inv == \A c \in CaseIds, o \in Orgs : Owned(c, o)
<1>1. Init => Inv
  BY DEF Init, NoNotice
<1>2. TypeOK /\ AccountInv /\ Inv /\ [Next]_vars => Inv'
  <2> SUFFICES ASSUME TypeOK, AccountInv, Inv, [Next]_vars,
                      NEW c \in CaseIds, NEW o \in Orgs
               PROVE  Owned(c, o)'
    OBVIOUS
  <2>1. notices[c][o] \in Notice /\ Owned(c, o)
    BY DEF TypeOK
  <2>2. \A u \in Users : u # NoUser
    BY CaseAssumption
  <2>3. CASE notices'[c][o] = notices[c][o]
    BY <2>1, <2>3
  <2>4. CASE notices'[c][o] # notices[c][o]
    BY <2>1, <2>2, <2>4, NoticeStep
  <2> QED
    BY <2>3, <2>4
<1>3. Inv => AnswersFromOwnBank
  BY DEF AnswersFromOwnBank
<1> HIDE DEF Inv
<1> QED
  BY <1>1, <1>2, <1>3, TypeInit, TypeNext, AccountInit, AccountNext, PTL
     DEF Spec
=============================================================================
