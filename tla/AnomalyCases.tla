----------------------------- MODULE AnomalyCases -----------------------------
(***************************************************************************)
(* Regulator anomaly cases and the notices banks get of them              *)
(* (anomaly_cases.rs).  A regulator opens a case on the risk evidence of a *)
(* transaction; the evidence is read before the database transaction that *)
(* writes the case, its notices and the audit event, which is one step    *)
(* here.  Reviewers of the notified banks view and answer their notices.  *)
(***************************************************************************)
EXTENDS SharedTables, RiskScore, Roles, FiniteSets

CONSTANTS
    CaseIds,   \* bound: the cases that can be opened
    Orgs,      \* organizations
    UnknownOrg,\* an organization id that is none, or is no UUID
    Involved,  \* the organizations a transaction's two institutions name
    Users,     \* active users
    NoUser,
    RoleOf,    \* the role in each user's token
    OrgOf,     \* each user's organization
    IdLists,   \* the notified_organization_ids of requests
    RuleSets,  \* the sets of rules evaluations find in this instance
    Faults     \* whether handlers may stop half-way

ASSUME CaseAssumption ==
    /\ UnknownOrg \notin Orgs /\ NoUser \notin Users
    /\ Involved \in [Ids -> SUBSET Orgs]
    /\ \A u \in Users : RoleOf[u] \in RoleNames /\ OrgOf[u] \in Orgs
    /\ IdLists \subseteq SUBSET (Orgs \union {UnknownOrg})
    /\ RuleSets \subseteq SUBSET Rules
    /\ Faults \in BOOLEAN

VARIABLES
    cases,   \* anomaly_cases
    notices, \* anomaly_case_banks: one per case and organization
    opening  \* the running open_anomaly_case handlers

vars == <<row, audit, cases, notices, opening>>

\* The statuses of the two tables' CHECKs that some statement writes.
Case == [tx : Ids, status : {"none", "awaiting_bank_response", "closed"},
         risk : RiskLevels]

Notice == [status : {"none", "sent", "viewed", "responded"},
           respondedBy : Users \union {NoUser}]

NoNotice == [status |-> "none", respondedBy |-> NoUser]

NoCase == [tx |-> CHOOSE t \in Ids : TRUE, status |-> "none", risk |-> "low"]

CaseExists(c) == cases[c].status # "none"

CasesOf(t) == {c \in CaseIds : CaseExists(c) /\ cases[c].tx = t}

\* named: the ids in the request and the organizations of the institutions as
\* they were read; risk: the level as it was read.
Opening == [pc : {"idle", "commit"}, tx : Ids,
            named : SUBSET (Orgs \union {UnknownOrg}), risk : RiskLevels]

NotOpening == [pc |-> "idle", tx |-> CHOOSE t \in Ids : TRUE, named |-> {},
               risk |-> "low"]

\* The values the two tables and the running handlers may have.
TypeOK ==
    /\ TablesTypeOK
    /\ cases \in [CaseIds -> Case]
    /\ notices \in [CaseIds -> [Orgs -> Notice]]
    /\ opening \in [Calls -> Opening]

Init ==
    /\ TablesInit
    /\ cases = [c \in CaseIds |-> NoCase]
    /\ notices = [c \in CaseIds |-> [o \in Orgs |-> NoNotice]]
    /\ opening = [h \in Calls |-> NotOpening]

Stop(h) == opening' = [opening EXCEPT ![h] = NotOpening]

May(u, permission) == Holds(RoleOf[u], permission)

\* A submission and an evaluation, as far as cases can see them: a submission
\* may have blank institutions, an evaluation has the workflow's, which has
\* both.  (Its audit event, which cases do not look at, is left out.)
Submit(t, institutions) ==
    /\ ~ RowExists(t)
    /\ row' = [row EXCEPT ![t] =
                 [status |-> "screened_clear", institutions |-> institutions,
                  rules |-> {}, evaluated |-> FALSE]]
    /\ audit' = AuditWith(t, SubmissionEvents)
    /\ UNCHANGED <<cases, notices, opening>>

StoreRisk(t, rules) ==
    /\ row' = [row EXCEPT ![t] =
                 [status |-> IF RowExists(t) THEN row[t].status ELSE "submitted",
                  institutions |-> TRUE, rules |-> rules, evaluated |-> TRUE]]
    /\ UNCHANGED <<audit, cases, notices, opening>>

-----------------------------------------------------------------------------
(* open_anomaly_case *)

\* A row without evaluation has no risk level: the case gets low.
RiskLevel(r) ==
    IF r.evaluated THEN RiskLevelForScore(Score(r.rules)) ELSE "low"

\* Blank institutions name no organization.
OpenRead(h, u, t, ids) ==
    /\ May(u, "cases:create")
    /\ opening[h].pc = "idle"
    /\ RowExists(t)
    /\ opening' = [opening EXCEPT ![h] =
                     [pc |-> "commit", tx |-> t,
                      named |-> ids \union (IF row[t].institutions
                                              THEN Involved[t] ELSE {}),
                      risk |-> RiskLevel(row[t])]]
    /\ UNCHANGED <<row, audit, cases, notices>>

Opened(c, o) == [cases EXCEPT ![c] =
                   [tx |-> o.tx, status |-> "awaiting_bank_response",
                    risk |-> o.risk]]

Notified(c, orgs) ==
    [notices EXCEPT ![c] =
       [o \in Orgs |-> IF o \in orgs THEN [NoNotice EXCEPT !.status = "sent"]
                                     ELSE NoNotice]]

\* Mutation of OpenCommit: the case is inserted outside the database
\* transaction and stays when no bank could be resolved.
OpenCommitCaseFirst(h) ==
    LET o == opening[h] IN
    /\ o.pc = "commit"
    /\ \E c \in CaseIds :
         /\ ~ CaseExists(c)
         /\ cases' = Opened(c, o)
         /\ notices' = Notified(c, o.named)
    /\ audit' = IF o.named # {} /\ o.named \subseteq Orgs
                  THEN AuditWith(o.tx, {"regulator_anomaly_case_opened"})
                  ELSE audit
    /\ Stop(h)
    /\ UNCHANGED row

\* The database transaction: case, notices and audit event.
OpenCommit(h) ==
    LET o == opening[h] IN
    /\ o.pc = "commit"
    /\ o.named # {} /\ o.named \subseteq Orgs
    /\ \E c \in CaseIds :
         /\ ~ CaseExists(c)
         /\ cases' = Opened(c, o)
         /\ notices' = Notified(c, o.named)
    /\ audit' = AuditWith(o.tx, {"regulator_anomaly_case_opened"})
    /\ Stop(h)
    /\ UNCHANGED row

\* No bank was resolved, an id is no UUID or no organization's (a foreign key
\* refuses it), or the handler stops: everything is rolled back.
OpenRollback(h) ==
    LET o == opening[h] IN
    /\ o.pc = "commit"
    /\ Faults \/ o.named = {} \/ UnknownOrg \in o.named
    /\ Stop(h)
    /\ UNCHANGED <<row, audit, cases, notices>>

-----------------------------------------------------------------------------
(* close_anomaly_case, get_bank_notice, respond_bank_notice *)

\* Mutation of Close: a status the table's CHECK does not list.
CloseResolved(u, c) ==
    /\ May(u, "cases:update") /\ RoleOf[u] \in {"regulator", "super_admin"}
    /\ CaseExists(c)
    /\ cases' = [cases EXCEPT ![c].status = "resolved"]
    /\ UNCHANGED <<row, audit, notices, opening>>

\* The notices stay as they are.
Close(u, c) ==
    /\ May(u, "cases:update") /\ RoleOf[u] \in {"regulator", "super_admin"}
    /\ CaseExists(c)
    /\ cases' = [cases EXCEPT ![c].status = "closed"]
    /\ UNCHANGED <<row, audit, notices, opening>>

\* Mutation of ViewNotice: every notice that is opened is marked viewed.
ViewNoticeAlways(u, c) ==
    /\ May(u, "cases:read")
    /\ notices[c][OrgOf[u]].status # "none"
    /\ notices' = [notices EXCEPT ![c][OrgOf[u]].status = "viewed"]
    /\ UNCHANGED <<row, audit, cases, opening>>

ViewNotice(u, c) ==
    /\ May(u, "cases:read")
    /\ notices[c][OrgOf[u]].status = "sent"
    /\ notices' = [notices EXCEPT ![c][OrgOf[u]].status = "viewed"]
    /\ UNCHANGED <<row, audit, cases, opening>>

\* Mutation of Respond: the UPDATE is not limited to the user's organization.
RespondForAll(u, c) ==
    /\ May(u, "cases:respond")
    /\ CaseExists(c)
    /\ notices' = [notices EXCEPT ![c] =
                     [o \in Orgs |->
                        IF @[o].status = "none" THEN @[o]
                        ELSE [status |-> "responded", respondedBy |-> u]]]
    /\ UNCHANGED <<row, audit, cases, opening>>

\* Neither the notice's status nor the case's is looked at.
Respond(u, c) ==
    /\ May(u, "cases:respond")
    /\ notices[c][OrgOf[u]].status # "none"
    /\ notices' = [notices EXCEPT ![c][OrgOf[u]] =
                     [status |-> "responded", respondedBy |-> u]]
    /\ UNCHANGED <<row, audit, cases, opening>>

-----------------------------------------------------------------------------

Next ==
    \/ \E t \in Ids : \/ \E b \in BOOLEAN : Submit(t, b)
                      \/ \E rules \in RuleSets : StoreRisk(t, rules)
    \/ \E h \in Calls :
         \/ \E u \in Users, t \in Ids, ids \in IdLists :
              OpenRead(h, u, t, ids)
         \/ OpenCommit(h) \/ OpenRollback(h)
    \/ \E u \in Users, c \in CaseIds :
         Close(u, c) \/ ViewNotice(u, c) \/ Respond(u, c)

Spec == Init /\ [][Next]_vars

-----------------------------------------------------------------------------
(* Properties *)

\* Cases, notices and the audit trail are written together: every case
\* notified at least one organization, no notice is without its case, and the
\* audit log of a transaction has one opening event for each of its cases,
\* although openings run side by side and fail half-way.
CasesAccountedFor ==
    /\ \A c \in CaseIds :
         CaseExists(c) <=> \E o \in Orgs : notices[c][o].status # "none"
    /\ \A t \in Ids : audit[t]["regulator_anomaly_case_opened"]
                        = Cardinality(CasesOf(t))

Progress == [s \in {"none", "sent", "viewed", "responded"} |->
               CASE s = "none" -> 0 [] s = "sent" -> 1
                 [] s = "viewed" -> 2 [] s = "responded" -> 3]

\* A notice only moves forward: a colleague who opens the notice while, or
\* after, another reviewer answers it does not turn it back into a viewed one.
NoticesMoveForward ==
    [][\A c \in CaseIds, o \in Orgs :
         Progress[notices[c][o].status] <= Progress[notices'[c][o].status]]_vars

\* An answer comes from the notified organization itself, and an answered
\* notice says who answered it.
AnswersFromOwnBank ==
    \A c \in CaseIds, o \in Orgs :
      LET n == notices[c][o] IN
      /\ n.status = "responded" <=> n.respondedBy # NoUser
      /\ n.respondedBy # NoUser => OrgOf[n.respondedBy] = o

=============================================================================
