-------------------------- MODULE PageTable_proofs --------------------------
(***************************************************************************)
(* What the tables of calls and pages say, call by call, script by script  *)
(* and page by page: the facts that the proofs about ConsolePages and      *)
(* BrowserSession rest on.  A property of an operator of PageTable that    *)
(* holds of every page is stated here once.                                *)
(***************************************************************************)
EXTENDS PageTable, TLAPS, Naturals

(* Calls *)

LEMMA CallIs ==
    ASSUME NEW c \in CallNames
    PROVE  Call[c] \in Api /\ Call[c].name = c
<1>1. PICK call \in Api : call.name = c
  BY DEF CallNames
<1>2. Call[c] = CHOOSE x \in Api : x.name = c
  BY DEF Call
<1> QED
  BY <1>1, <1>2

\* The calls that write, and those whose address has no prefix.
Writing ==
    {"workflow.create", "workflow.submitForReview", "workflow.approve",
     "workflow.reject", "workflow.runScreening", "workflow.generateProofs",
     "risk.evaluateRisk", "admin.approveUser", "admin.rejectUser",
     "admin.activateUser", "admin.deactivateUser", "cases.createCase",
     "cases.closeCase", "cases.respondToNotice", "auth.register"}

OfCases ==
    {"cases.listCases", "cases.getCase", "cases.createCase",
     "cases.closeCase", "cases.listBankNotices", "cases.getBankNotice",
     "cases.respondToNotice"}

LEMMA ClientColumns ==
    ASSUME NEW name, NEW effect, NEW roles
    PROVE  LET call == Client(name, effect, roles) IN
           /\ call.name = name /\ call.roles = roles
           /\ call.writes <=> effect = "write"
           /\ call.prefixed
BY DEF Client

LEMMA FetchColumns ==
    ASSUME NEW name, NEW effect, NEW roles
    PROVE  LET call == Fetch(name, effect, roles) IN
           /\ call.name = name /\ call.roles = roles
           /\ call.writes <=> effect = "write"
           /\ call.prefixed
BY DEF Client, Fetch

LEMMA UnprefixedColumns ==
    ASSUME NEW name, NEW effect, NEW roles
    PROVE  LET call == Unprefixed(Client(name, effect, roles)) IN
           /\ call.name = name /\ call.roles = roles
           /\ call.writes <=> effect = "write"
           /\ ~ call.prefixed
BY DEF Client, Unprefixed

LEMMA ApiColumns ==
    ASSUME NEW call \in Api
    PROVE  /\ call.writes <=> call.name \in Writing
           /\ call.prefixed <=> call.name \notin OfCases
<1>1. CASE call \in transactionWorkflowApi
  BY <1>1, ClientColumns DEF transactionWorkflowApi, Writing, OfCases
<1>2. CASE call \in riskEvaluationApi
  BY <1>2, FetchColumns DEF riskEvaluationApi, Writing, OfCases
<1>3. CASE call \in superAdminApi
  BY <1>3, FetchColumns DEF superAdminApi, Writing, OfCases
<1>4. CASE call \in anomalyCasesApi
  BY <1>4, UnprefixedColumns DEF anomalyCasesApi, Writing, OfCases
<1>5. CASE call \in proofsApi \union auditApi \union authApi
  BY <1>5, ClientColumns DEF proofsApi, auditApi, authApi, Writing, OfCases
<1>6. CASE call \in regulatorDashboardApi \union threeBankSmpcApi
  BY <1>6, FetchColumns
     DEF regulatorDashboardApi, threeBankSmpcApi, Writing, OfCases
<1> QED
  BY <1>1, <1>2, <1>3, <1>4, <1>5, <1>6 DEF Api

LEMMA CallColumns ==
    ASSUME NEW c \in CallNames
    PROVE  /\ Call[c].writes <=> c \in Writing
           /\ Call[c].prefixed <=> c \notin OfCases
BY CallIs, ApiColumns

\* Every call that a page makes is in the table.
LEMMA Named ==
    /\ Writing \union OfCases \subseteq CallNames
    /\ {"workflow.list", "workflow.get", "risk.listTransactions",
        "risk.getTransaction", "risk.listSuspiciousTransactions",
        "admin.listPendingUsers", "admin.listUsers",
        "admin.listOrganizations", "admin.listRoles",
        "proofs.listByTransaction", "proofs.getProof", "proofs.verifyProof",
        "audit.listByTransaction", "dashboard.proofs", "smpc.status",
        "smpc.run"} \subseteq CallNames
<1> DEFINE Of(api) == {call.name : call \in api}
<1>1. {"workflow.create", "workflow.list", "workflow.get",
       "workflow.submitForReview", "workflow.approve", "workflow.reject",
       "workflow.runScreening", "workflow.generateProofs"}
        \subseteq Of(transactionWorkflowApi)
  BY ClientColumns DEF transactionWorkflowApi
<1>2. {"risk.listTransactions", "risk.getTransaction", "risk.evaluateRisk",
       "risk.listSuspiciousTransactions"} \subseteq Of(riskEvaluationApi)
  BY FetchColumns DEF riskEvaluationApi
<1>3. {"admin.listPendingUsers", "admin.listUsers", "admin.listOrganizations",
       "admin.listRoles", "admin.approveUser", "admin.rejectUser",
       "admin.activateUser", "admin.deactivateUser"} \subseteq Of(superAdminApi)
  <2>1. /\ \A name \in {"admin.listPendingUsers", "admin.listUsers",
                        "admin.listOrganizations", "admin.listRoles"} :
             Fetch(name, "read", {"super_admin"}) \in superAdminApi
        /\ \A name \in {"admin.approveUser", "admin.rejectUser",
                        "admin.activateUser", "admin.deactivateUser"} :
             Fetch(name, "write", {"super_admin"}) \in superAdminApi
    BY DEF superAdminApi
  <2>2. \A name, effect :
          Fetch(name, effect, {"super_admin"}) \in superAdminApi
            => name \in Of(superAdminApi)
    BY FetchColumns
  <2> HIDE DEF Of
  <2> QED
    BY <2>1, <2>2
<1>4. OfCases \subseteq Of(anomalyCasesApi)
  BY UnprefixedColumns DEF anomalyCasesApi, OfCases
<1>5. {"proofs.listByTransaction", "proofs.getProof", "proofs.verifyProof"}
        \subseteq Of(proofsApi)
  BY ClientColumns DEF proofsApi
<1>6. "audit.listByTransaction" \in Of(auditApi) /\ "auth.register" \in Of(authApi)
  BY ClientColumns DEF auditApi, authApi
<1>7. /\ "dashboard.proofs" \in Of(regulatorDashboardApi)
      /\ {"smpc.status", "smpc.run"} \subseteq Of(threeBankSmpcApi)
  BY FetchColumns DEF regulatorDashboardApi, threeBankSmpcApi
<1>8. /\ Of(transactionWorkflowApi) \subseteq CallNames
      /\ Of(riskEvaluationApi) \subseteq CallNames
      /\ Of(superAdminApi) \subseteq CallNames
      /\ Of(anomalyCasesApi) \subseteq CallNames
      /\ Of(proofsApi) \subseteq CallNames /\ Of(auditApi) \subseteq CallNames
      /\ Of(authApi) \subseteq CallNames
      /\ Of(regulatorDashboardApi) \subseteq CallNames
      /\ Of(threeBankSmpcApi) \subseteq CallNames
  BY DEF Api, CallNames
<1> HIDE DEF Of
<1> QED
  BY <1>1, <1>2, <1>3, <1>4, <1>5, <1>6, <1>7, <1>8 DEF Writing, OfCases

LEMMA Read ==
    ASSUME NEW c \in {"workflow.list", "workflow.get", "risk.listTransactions",
                      "risk.getTransaction", "risk.listSuspiciousTransactions",
                      "admin.listPendingUsers", "admin.listUsers",
                      "admin.listOrganizations", "admin.listRoles",
                      "proofs.listByTransaction", "proofs.getProof",
                      "proofs.verifyProof", "audit.listByTransaction",
                      "dashboard.proofs", "smpc.status", "smpc.run"}
    PROVE  ~ Call[c].writes /\ Call[c].prefixed
<1>1. c \notin Writing \union OfCases
  BY DEF Writing, OfCases
<1> QED
  BY <1>1, Named, CallColumns

LEMMA Written ==
    ASSUME NEW c \in Writing
    PROVE  Call[c].writes /\ (c \notin OfCases => Call[c].prefixed)
BY Named, CallColumns

LEMMA CaseRead ==
    ASSUME NEW c \in OfCases \ Writing
    PROVE  ~ Call[c].writes
BY Named, CallColumns

(* Scripts *)

Writes(step) == \E c \in CallsOf(step) : Call[c].writes
FilledBy(step) == {fill[1] : fill \in step.fills}
Reads(script) == \A k \in DOMAIN script.steps : ~ Writes(script.steps[k])

\* A text in place of an answer does not get through.
Prefixed(script) ==
    \A k \in DOMAIN script.steps :
      \/ script.steps[k].tolerant
      \/ \A c \in CallsOf(script.steps[k]) : Call[c].prefixed

\* One step, and what is in it.
Does(script, calls, filled) ==
    /\ Len(script.steps) = 1 /\ DOMAIN script.steps = {1}
    /\ CallsOf(script.steps[1]) = calls
    /\ FilledBy(script.steps[1]) = filled

LEMMA OneStep ==
    ASSUME NEW script, NEW fills, script.steps = <<Step(fills)>>
    PROVE  Does(script, {fill[2] : fill \in fills}, {fill[1] : fill \in fills})
<1>1. /\ script.steps[1] = Step(fills)
      /\ Len(script.steps) = 1 /\ DOMAIN script.steps = {1}
  OBVIOUS
<1>2. Step(fills).fills = fills
  BY DEF Step
<1> QED
  BY <1>1, <1>2 DEF Does, CallsOf, FilledBy

LEMMA OneFill ==
    ASSUME NEW script, NEW x, NEW c, script.steps = <<Step({<<x, c>>})>>
    PROVE  Does(script, {c}, {x})
<1>1. /\ {fill[2] : fill \in {<<x, c>>}} = {c}
      /\ {fill[1] : fill \in {<<x, c>>}} = {x}
  OBVIOUS
<1> QED
  BY <1>1, OneStep

LEMMA InstitutionSteps ==
    /\ RiskLoad.steps = <<Step({<<"workflow", "risk.getTransaction">>})>>
    /\ RiskEvaluate.steps = <<Step({<<"result", "risk.evaluateRisk">>,
                                    <<"workflow", "risk.evaluateRisk">>})>>
    /\ ScreeningLoad.steps = <<Step({<<"workflow", "workflow.get">>})>>
    /\ ScreeningRun.steps =
         <<Step({<<slot, "workflow.runScreening">> : slot \in
                   {"workflow", "screeningResponse", "riskUpdate"}})>>
    /\ ReviewLoad.steps = <<Step({<<"row", "workflow.get">>})>>
    /\ \A call : ReviewRun(call).steps = <<Step({<<"output", call>>})>>
    /\ QueueLoad.steps = <<Step({<<"rows", "workflow.list">>})>>
    /\ ApprovedLoad.steps = <<Step({<<"rows", "workflow.list">>})>>
    /\ SuspiciousLoad.steps =
         <<Step({<<"rows", "risk.listSuspiciousTransactions">>})>>
    /\ DashboardLoad.steps =
         <<Step({<<"transactions", "risk.listTransactions">>}),
           Step({<<"notices", "cases.listBankNotices">>})>>
    /\ NewSubmit.steps = <<Step({<<"result", "workflow.create">>})>>
    /\ NewFresh.steps = << >>
    /\ NoticesLoad.steps = <<Step({<<"rows", "cases.listBankNotices">>})>>
    /\ NoticeLoad.steps = <<Step({<<"notice", "cases.getBankNotice">>})>>
    /\ NoticeSubmit.steps = <<Step({<<"notice", "cases.respondToNotice">>})>>
BY DEF RiskLoad, RiskEvaluate, ScreeningLoad, ScreeningRun, ReviewLoad,
       ReviewRun, QueueLoad, ApprovedLoad, SuspiciousLoad, DashboardLoad,
       NewSubmit, NewFresh, NoticesLoad, NoticeLoad, NoticeSubmit,
       LoadScript, Script

LEMMA RegulatorSteps ==
    /\ ProofsLoad.steps = <<Step({<<"proofs", "proofs.listByTransaction">>})>>
    /\ ProofSelect.steps = <<Step({<<"selectedProof", "proofs.getProof">>})>>
    /\ ProofVerify.steps = <<Step({<<"verification", "proofs.verifyProof">>})>>
    /\ AuditLoad.steps = <<Step({<<"events", "audit.listByTransaction">>})>>
    /\ SummaryLoad.steps = <<SummaryStep>>
    /\ CasesLoad.steps = <<Step({<<"cases", "cases.listCases">>})>>
    /\ CasesSubmit.steps = <<Step({<<"", "cases.createCase">>})>>
    /\ CaseLoad.steps = <<Step({<<"item", "cases.getCase">>})>>
    /\ CaseClose.steps = <<Step({<<"item", "cases.closeCase">>})>>
    /\ SmpcStatus.steps = <<Step({<<"status", "smpc.status">>})>>
    /\ SmpcRun.steps = <<Step({<<"result", "smpc.run">>})>>
BY DEF ProofsLoad, ProofSelect, ProofVerify, AuditLoad, SummaryLoad,
       CasesLoad, CasesSubmit, CaseLoad, CaseClose, SmpcStatus, SmpcRun,
       LoadScript, Script

LEMMA AccountSteps ==
    /\ PendingLoad.steps = <<Step({<<"users", "admin.listPendingUsers">>})>>
    /\ \A call : PendingRun(call).steps = <<Step({<<"", call>>})>>
    /\ UsersLoad.steps = <<Step({<<"users", "admin.listUsers">>,
                                 <<"roles", "admin.listRoles">>})>>
    /\ \A call : UsersRun(call).steps = <<Step({<<"", call>>})>>
    /\ OrganizationsLoad.steps =
         <<Step({<<"organizations", "admin.listOrganizations">>})>>
    /\ RolesLoad.steps = <<Step({<<"roles", "admin.listRoles">>})>>
    /\ GovernanceLoad.steps =
         <<Step({<<"users", "admin.listUsers">>,
                 <<"organizations", "admin.listOrganizations">>,
                 <<"roles", "admin.listRoles">>})>>
    /\ RegisterSubmit.steps = <<Step({<<"response", "auth.register">>})>>
BY DEF PendingLoad, PendingRun, UsersLoad, UsersRun, OrganizationsLoad,
       RolesLoad, GovernanceLoad, RegisterSubmit, LoadScript, Script

LEMMA InstitutionDoes ==
    /\ Does(RiskLoad, {"risk.getTransaction"}, {"workflow"})
    /\ Does(ScreeningLoad, {"workflow.get"}, {"workflow"})
    /\ Does(ReviewLoad, {"workflow.get"}, {"row"})
    /\ \A call : Does(ReviewRun(call), {call}, {"output"})
    /\ Does(QueueLoad, {"workflow.list"}, {"rows"})
    /\ Does(ApprovedLoad, {"workflow.list"}, {"rows"})
    /\ Does(SuspiciousLoad, {"risk.listSuspiciousTransactions"}, {"rows"})
    /\ Does(NewSubmit, {"workflow.create"}, {"result"})
    /\ Does(NoticesLoad, {"cases.listBankNotices"}, {"rows"})
    /\ Does(NoticeLoad, {"cases.getBankNotice"}, {"notice"})
    /\ Does(NoticeSubmit, {"cases.respondToNotice"}, {"notice"})
BY InstitutionSteps, OneFill

LEMMA RegulatorDoes ==
    /\ Does(ProofsLoad, {"proofs.listByTransaction"}, {"proofs"})
    /\ Does(ProofSelect, {"proofs.getProof"}, {"selectedProof"})
    /\ Does(ProofVerify, {"proofs.verifyProof"}, {"verification"})
    /\ Does(AuditLoad, {"audit.listByTransaction"}, {"events"})
    /\ Does(CasesLoad, {"cases.listCases"}, {"cases"})
    /\ Does(CasesSubmit, {"cases.createCase"}, {""})
    /\ Does(CaseLoad, {"cases.getCase"}, {"item"})
    /\ Does(CaseClose, {"cases.closeCase"}, {"item"})
    /\ Does(SmpcStatus, {"smpc.status"}, {"status"})
    /\ Does(SmpcRun, {"smpc.run"}, {"result"})
BY RegulatorSteps, OneFill

LEMMA AccountDoes ==
    /\ Does(PendingLoad, {"admin.listPendingUsers"}, {"users"})
    /\ \A call : Does(PendingRun(call), {call}, {""})
    /\ \A call : Does(UsersRun(call), {call}, {""})
    /\ Does(OrganizationsLoad, {"admin.listOrganizations"}, {"organizations"})
    /\ Does(RolesLoad, {"admin.listRoles"}, {"roles"})
    /\ Does(RegisterSubmit, {"auth.register"}, {"response"})
BY AccountSteps, OneFill

LEMMA ManyDo ==
    /\ Does(RiskEvaluate, {"risk.evaluateRisk"}, {"result", "workflow"})
    /\ Does(ScreeningRun, {"workflow.runScreening"},
            {"workflow", "screeningResponse", "riskUpdate"})
    /\ Does(UsersLoad, {"admin.listUsers", "admin.listRoles"},
            {"users", "roles"})
    /\ Does(GovernanceLoad,
            {"admin.listUsers", "admin.listOrganizations", "admin.listRoles"},
            {"users", "organizations", "roles"})
<1> DEFINE calls(fills) == {fill[2] : fill \in fills}
           slots(fills) == {fill[1] : fill \in fills}
           risk == {<<"result", "risk.evaluateRisk">>,
                    <<"workflow", "risk.evaluateRisk">>}
           screening == {<<slot, "workflow.runScreening">> : slot \in
                           {"workflow", "screeningResponse", "riskUpdate"}}
           users == {<<"users", "admin.listUsers">>,
                     <<"roles", "admin.listRoles">>}
           governance == {<<"users", "admin.listUsers">>,
                          <<"organizations", "admin.listOrganizations">>,
                          <<"roles", "admin.listRoles">>}
<1>1. calls(risk) = {"risk.evaluateRisk"} /\ slots(risk) = {"result", "workflow"}
  OBVIOUS
<1>2. /\ calls(screening) = {"workflow.runScreening"}
      /\ slots(screening) = {"workflow", "screeningResponse", "riskUpdate"}
  <2>1. screening = {<<"workflow", "workflow.runScreening">>,
                     <<"screeningResponse", "workflow.runScreening">>,
                     <<"riskUpdate", "workflow.runScreening">>}
    OBVIOUS
  <2> HIDE DEF screening
  <2> QED
    BY <2>1
<1>3. /\ calls(users) = {"admin.listUsers", "admin.listRoles"}
      /\ slots(users) = {"users", "roles"}
  OBVIOUS
<1>4. /\ calls(governance) = {"admin.listUsers", "admin.listOrganizations",
                              "admin.listRoles"}
      /\ slots(governance) = {"users", "organizations", "roles"}
  OBVIOUS
<1>5. \A script, fills :
        script.steps = <<Step(fills)>> => Does(script, calls(fills), slots(fills))
  BY OneStep
<1>6. /\ RiskEvaluate.steps = <<Step(risk)>>
      /\ ScreeningRun.steps = <<Step(screening)>>
  BY InstitutionSteps
<1>7. /\ UsersLoad.steps = <<Step(users)>>
      /\ GovernanceLoad.steps = <<Step(governance)>>
  BY AccountSteps
<1> HIDE DEF calls, slots, risk, screening, users, governance
<1>8. /\ Does(RiskEvaluate, calls(risk), slots(risk))
      /\ Does(ScreeningRun, calls(screening), slots(screening))
      /\ Does(UsersLoad, calls(users), slots(users))
      /\ Does(GovernanceLoad, calls(governance), slots(governance))
  BY <1>5, <1>6, <1>7
<1> QED
  BY <1>1, <1>2, <1>3, <1>4, <1>8

(* How a script begins and ends *)

Alone(script) == script.then = "" /\ script.unless = ""
Follows(script, next) == script.then = next /\ script.unless = ""

LEMMA Ends ==
    /\ \A script \in {RiskLoad, RiskEvaluate, ScreeningLoad, ScreeningRun} :
         Alone(script)
    /\ \A script \in {ReviewLoad, QueueLoad, ApprovedLoad, SuspiciousLoad,
                      DashboardLoad, NewSubmit, NewFresh} : Alone(script)
    /\ \A script \in {NoticesLoad, NoticeLoad, NoticeSubmit} : Alone(script)
    /\ \A script \in {ProofsLoad, ProofSelect, AuditLoad, SummaryLoad} :
         Alone(script)
    /\ \A script \in {CasesLoad, CaseLoad, CaseClose, SmpcStatus, SmpcRun} :
         Alone(script)
    /\ \A script \in {PendingLoad, UsersLoad, OrganizationsLoad, RolesLoad,
                      GovernanceLoad, RegisterSubmit} : Alone(script)
    /\ ProofVerify.then = "selectProof" /\ ProofVerify.unless = "selectedProof"
    /\ \A call : /\ Follows(ReviewRun(call), "load")
                 /\ Follows(PendingRun(call), "load")
                 /\ Follows(UsersRun(call), "load")
    /\ Follows(CasesSubmit, "load")
<1> USE DEF Alone, Follows, Script, LoadScript
<1>1. /\ Alone(RiskLoad) /\ Alone(RiskEvaluate) /\ Alone(ScreeningLoad)
      /\ Alone(ScreeningRun)
  BY DEF RiskLoad, RiskEvaluate, ScreeningLoad, ScreeningRun
<1>2. /\ Alone(ReviewLoad) /\ Alone(QueueLoad) /\ Alone(ApprovedLoad)
      /\ Alone(SuspiciousLoad) /\ Alone(DashboardLoad) /\ Alone(NewSubmit)
      /\ Alone(NewFresh)
  BY DEF ReviewLoad, QueueLoad, ApprovedLoad, SuspiciousLoad, DashboardLoad,
         NewSubmit, NewFresh
<1>3. Alone(NoticesLoad) /\ Alone(NoticeLoad) /\ Alone(NoticeSubmit)
  BY DEF NoticesLoad, NoticeLoad, NoticeSubmit
<1>4. /\ Alone(ProofsLoad) /\ Alone(ProofSelect) /\ Alone(AuditLoad)
      /\ Alone(SummaryLoad)
  BY DEF ProofsLoad, ProofSelect, AuditLoad, SummaryLoad
<1>5. /\ Alone(CasesLoad) /\ Alone(CaseLoad) /\ Alone(CaseClose)
      /\ Alone(SmpcStatus) /\ Alone(SmpcRun)
  BY DEF CasesLoad, CaseLoad, CaseClose, SmpcStatus, SmpcRun
<1>6. /\ Alone(PendingLoad) /\ Alone(UsersLoad) /\ Alone(OrganizationsLoad)
      /\ Alone(RolesLoad) /\ Alone(GovernanceLoad) /\ Alone(RegisterSubmit)
  BY DEF PendingLoad, UsersLoad, OrganizationsLoad, RolesLoad, GovernanceLoad,
         RegisterSubmit
<1>7. ProofVerify.then = "selectProof" /\ ProofVerify.unless = "selectedProof"
  BY DEF ProofVerify
<1>8. /\ \A call : /\ Follows(ReviewRun(call), "load")
                   /\ Follows(PendingRun(call), "load")
                   /\ Follows(UsersRun(call), "load")
      /\ Follows(CasesSubmit, "load")
  BY DEF ReviewRun, PendingRun, UsersRun, CasesSubmit
<1> HIDE DEF Alone, Follows
<1> QED
  BY <1>1, <1>2, <1>3, <1>4, <1>5, <1>6, <1>7, <1>8
LEMMA Hush ==
    /\ \A script \in {RiskLoad, RiskEvaluate, ScreeningLoad, ScreeningRun} :
         "error" \in script.hushes
    /\ \A script \in {ReviewLoad, QueueLoad, ApprovedLoad, SuspiciousLoad,
                      DashboardLoad, NewSubmit, NewFresh} :
         "error" \in script.hushes
    /\ \A script \in {NoticesLoad, NoticeLoad, NoticeSubmit} :
         "error" \in script.hushes
    /\ \A script \in {ProofsLoad, ProofSelect, ProofVerify, AuditLoad,
                      SummaryLoad} : "error" \in script.hushes
    /\ \A script \in {CasesLoad, CasesSubmit, CaseLoad, CaseClose, SmpcStatus,
                      SmpcRun} : "error" \in script.hushes
    /\ \A script \in {PendingLoad, UsersLoad, OrganizationsLoad, RolesLoad,
                      GovernanceLoad, RegisterSubmit} :
         "error" \in script.hushes
    /\ \A call : /\ "error" \in ReviewRun(call).hushes
                 /\ "error" \in PendingRun(call).hushes
                 /\ "error" \in UsersRun(call).hushes
<1> USE DEF Script, LoadScript
<1>1. /\ "error" \in RiskLoad.hushes /\ "error" \in RiskEvaluate.hushes
      /\ "error" \in ScreeningLoad.hushes /\ "error" \in ScreeningRun.hushes
  BY DEF RiskLoad, RiskEvaluate, ScreeningLoad, ScreeningRun
<1>2. /\ "error" \in ReviewLoad.hushes /\ "error" \in QueueLoad.hushes
      /\ "error" \in ApprovedLoad.hushes /\ "error" \in SuspiciousLoad.hushes
      /\ "error" \in DashboardLoad.hushes /\ "error" \in NewSubmit.hushes
      /\ "error" \in NewFresh.hushes
  BY DEF ReviewLoad, QueueLoad, ApprovedLoad, SuspiciousLoad, DashboardLoad,
         NewSubmit, NewFresh
<1>3. /\ "error" \in NoticesLoad.hushes /\ "error" \in NoticeLoad.hushes
      /\ "error" \in NoticeSubmit.hushes
  BY DEF NoticesLoad, NoticeLoad, NoticeSubmit
<1>4. /\ "error" \in ProofsLoad.hushes /\ "error" \in ProofSelect.hushes
      /\ "error" \in ProofVerify.hushes /\ "error" \in AuditLoad.hushes
      /\ "error" \in SummaryLoad.hushes
  BY DEF ProofsLoad, ProofSelect, ProofVerify, AuditLoad, SummaryLoad
<1>5. /\ "error" \in CasesLoad.hushes /\ "error" \in CasesSubmit.hushes
      /\ "error" \in CaseLoad.hushes /\ "error" \in CaseClose.hushes
      /\ "error" \in SmpcStatus.hushes /\ "error" \in SmpcRun.hushes
  BY DEF CasesLoad, CasesSubmit, CaseLoad, CaseClose, SmpcStatus, SmpcRun
<1>6. /\ "error" \in PendingLoad.hushes /\ "error" \in UsersLoad.hushes
      /\ "error" \in OrganizationsLoad.hushes /\ "error" \in RolesLoad.hushes
      /\ "error" \in GovernanceLoad.hushes /\ "error" \in RegisterSubmit.hushes
  BY DEF PendingLoad, UsersLoad, OrganizationsLoad, RolesLoad, GovernanceLoad,
         RegisterSubmit
<1>7. \A call : /\ "error" \in ReviewRun(call).hushes
                /\ "error" \in PendingRun(call).hushes
                /\ "error" \in UsersRun(call).hushes
  BY DEF ReviewRun, PendingRun, UsersRun
<1> QED
  BY <1>1, <1>2, <1>3, <1>4, <1>5, <1>6, <1>7

\* Only the search box of RiskEvaluationPage has to be filled in; where one
\* handler goes on with another, a blank one is sent to the server.
LEMMA BlankGoes ==
    /\ \A script \in {ReviewLoad, ProofsLoad, ProofSelect, ProofVerify,
                      CasesLoad, CasesSubmit, PendingLoad, UsersLoad} :
         ~ script.needsInput
    /\ \A call : /\ ~ ReviewRun(call).needsInput
                 /\ ~ PendingRun(call).needsInput
                 /\ ~ UsersRun(call).needsInput
<1> USE DEF Script, LoadScript
<1>1. /\ ~ ReviewLoad.needsInput /\ ~ ProofsLoad.needsInput
      /\ ~ ProofSelect.needsInput /\ ~ ProofVerify.needsInput
      /\ ~ CasesLoad.needsInput /\ ~ CasesSubmit.needsInput
      /\ ~ PendingLoad.needsInput /\ ~ UsersLoad.needsInput
  BY DEF ReviewLoad, ProofsLoad, ProofSelect, ProofVerify, CasesLoad,
         CasesSubmit, PendingLoad, UsersLoad
<1>2. \A call : /\ ~ ReviewRun(call).needsInput
                /\ ~ PendingRun(call).needsInput
                /\ ~ UsersRun(call).needsInput
  BY DEF ReviewRun, PendingRun, UsersRun
<1> QED
  BY <1>1, <1>2

(* What the steps of a script call *)

\* Steps are numbered from 1, and a call that writes is made alone.
Steady(script) ==
    /\ Len(script.steps) \in Nat \ {0}
    /\ DOMAIN script.steps = 1 .. Len(script.steps)
    /\ \A k \in DOMAIN script.steps :
         Writes(script.steps[k]) => \E c : CallsOf(script.steps[k]) = {c}

LEMMA ReadOne ==
    ASSUME NEW script, NEW calls, NEW filled, Does(script, calls, filled),
           \A c \in calls : ~ Call[c].writes
    PROVE  Steady(script) /\ Reads(script)
<1>1. DOMAIN script.steps = {1} /\ ~ Writes(script.steps[1])
  BY DEF Does, Writes
<1>2. Len(script.steps) = 1 /\ {1} = 1 .. 1
  BY DEF Does
<1> QED
  BY <1>1, <1>2 DEF Steady, Reads

LEMMA WriteOne ==
    ASSUME NEW script, NEW c, NEW filled, Does(script, {c}, filled)
    PROVE  Steady(script)
<1>1. DOMAIN script.steps = {1} /\ CallsOf(script.steps[1]) = {c}
  BY DEF Does
<1>2. Len(script.steps) = 1 /\ {1} = 1 .. 1
  BY DEF Does
<1> QED
  BY <1>1, <1>2 DEF Steady

LEMMA PrefixedOne ==
    ASSUME NEW script, NEW calls, NEW filled, Does(script, calls, filled),
           \A c \in calls : Call[c].prefixed
    PROVE  Prefixed(script)
BY DEF Does, Prefixed
LEMMA DashboardDoes ==
    /\ Steady(DashboardLoad) /\ Reads(DashboardLoad)
<1>1. DashboardLoad.steps =
        <<Step({<<"transactions", "risk.listTransactions">>}),
          Step({<<"notices", "cases.listBankNotices">>})>>
  BY InstitutionSteps
<1>2. /\ DOMAIN DashboardLoad.steps = {1, 2} /\ Len(DashboardLoad.steps) = 2
      /\ DashboardLoad.steps[1] =
           Step({<<"transactions", "risk.listTransactions">>})
      /\ DashboardLoad.steps[2] =
           Step({<<"notices", "cases.listBankNotices">>})
  BY <1>1
<1>3. \A x, c : CallsOf(Step({<<x, c>>})) = {c}
  <2> TAKE x, c
  <2>1. Step({<<x, c>>}).fills = {<<x, c>>}
    BY DEF Step
  <2>2. {fill[2] : fill \in {<<x, c>>}} = {c}
    OBVIOUS
  <2> QED
    BY <2>1, <2>2 DEF CallsOf
<1>4. ~ Call["risk.listTransactions"].writes
  BY Read
<1>5. ~ Call["cases.listBankNotices"].writes
  BY CaseRead DEF OfCases, Writing
<1>6. /\ ~ Writes(DashboardLoad.steps[1])
      /\ ~ Writes(DashboardLoad.steps[2])
  <2>1. /\ CallsOf(DashboardLoad.steps[1]) = {"risk.listTransactions"}
        /\ CallsOf(DashboardLoad.steps[2]) = {"cases.listBankNotices"}
    BY <1>2, <1>3
  <2> QED
    BY <2>1, <1>4, <1>5 DEF Writes
<1>7. {1, 2} = 1 .. 2
  OBVIOUS
<1> QED
  BY <1>2, <1>6, <1>7 DEF Steady, Reads

LEMMA SummaryDoes ==
    Steady(SummaryLoad) /\ Reads(SummaryLoad) /\ Prefixed(SummaryLoad)
<1> DEFINE fills == {<<"proofs", "dashboard.proofs">>,
                     <<"cases", "cases.listCases">>}
<1>1. SummaryStep.fills = fills /\ SummaryStep.tolerant
  BY DEF SummaryStep, Step
<1>2. {fill[2] : fill \in fills} = {"dashboard.proofs", "cases.listCases"}
  OBVIOUS
<1> HIDE DEF fills
<1>3. CallsOf(SummaryStep) = {"dashboard.proofs", "cases.listCases"}
  BY <1>1, <1>2 DEF CallsOf
<1>4. ~ Call["dashboard.proofs"].writes
  BY Read
<1>5. ~ Call["cases.listCases"].writes
  BY CaseRead DEF OfCases, Writing
<1>6. ~ Writes(SummaryStep)
  BY <1>3, <1>4, <1>5 DEF Writes
<1>7. /\ DOMAIN SummaryLoad.steps = {1} /\ Len(SummaryLoad.steps) = 1
      /\ SummaryLoad.steps[1] = SummaryStep
  <2>1. SummaryLoad.steps = <<SummaryStep>>
    BY RegulatorSteps
  <2> QED
    BY <2>1
<1>8. {1} = 1 .. 1
  OBVIOUS
<1> QED
  BY <1>1, <1>6, <1>7, <1>8 DEF Steady, Reads, Prefixed

\* A handler that loads.
Loads(script) ==
    Steady(script) /\ Reads(script) /\ Alone(script) /\ "error" \in script.hushes

LEMMA InstitutionLoads ==
    /\ Loads(RiskLoad) /\ Loads(ScreeningLoad) /\ Loads(ReviewLoad)
    /\ Loads(QueueLoad) /\ Loads(ApprovedLoad) /\ Loads(SuspiciousLoad)
    /\ Loads(DashboardLoad) /\ Loads(NoticesLoad) /\ Loads(NoticeLoad)
<1>1. \A c \in {"risk.getTransaction", "workflow.get", "workflow.list",
                "risk.listSuspiciousTransactions"} : ~ Call[c].writes
  BY Read
<1>2. \A c \in {"cases.listBankNotices", "cases.getBankNotice"} :
        ~ Call[c].writes
  BY CaseRead DEF OfCases, Writing
<1>3. \A script, c, x :
        Does(script, {c}, {x}) /\ ~ Call[c].writes
          => Steady(script) /\ Reads(script)
  BY ReadOne
<1>4. /\ Steady(RiskLoad) /\ Reads(RiskLoad)
      /\ Steady(ScreeningLoad) /\ Reads(ScreeningLoad)
      /\ Steady(ReviewLoad) /\ Reads(ReviewLoad)
      /\ Steady(QueueLoad) /\ Reads(QueueLoad)
      /\ Steady(ApprovedLoad) /\ Reads(ApprovedLoad)
      /\ Steady(SuspiciousLoad) /\ Reads(SuspiciousLoad)
      /\ Steady(NoticesLoad) /\ Reads(NoticesLoad)
      /\ Steady(NoticeLoad) /\ Reads(NoticeLoad)
  BY <1>1, <1>2, <1>3, InstitutionDoes
<1> QED
  BY <1>4, DashboardDoes, Ends, Hush DEF Loads

LEMMA RegulatorLoads ==
    /\ Loads(ProofsLoad) /\ Loads(ProofSelect) /\ Loads(AuditLoad)
    /\ Loads(SummaryLoad) /\ Loads(CasesLoad) /\ Loads(CaseLoad)
    /\ Loads(SmpcStatus) /\ Loads(SmpcRun)
    /\ Steady(ProofVerify) /\ Reads(ProofVerify)
<1>1. \A c \in {"proofs.listByTransaction", "proofs.getProof",
                "proofs.verifyProof", "audit.listByTransaction",
                "smpc.status", "smpc.run"} : ~ Call[c].writes
  BY Read
<1>2. \A c \in {"cases.listCases", "cases.getCase"} : ~ Call[c].writes
  BY CaseRead DEF OfCases, Writing
<1>3. \A script, c, x :
        Does(script, {c}, {x}) /\ ~ Call[c].writes
          => Steady(script) /\ Reads(script)
  BY ReadOne
<1>4. /\ Steady(ProofsLoad) /\ Reads(ProofsLoad)
      /\ Steady(ProofSelect) /\ Reads(ProofSelect)
      /\ Steady(ProofVerify) /\ Reads(ProofVerify)
      /\ Steady(AuditLoad) /\ Reads(AuditLoad)
      /\ Steady(CasesLoad) /\ Reads(CasesLoad)
      /\ Steady(CaseLoad) /\ Reads(CaseLoad)
      /\ Steady(SmpcStatus) /\ Reads(SmpcStatus)
      /\ Steady(SmpcRun) /\ Reads(SmpcRun)
  BY <1>1, <1>2, <1>3, RegulatorDoes
<1> QED
  BY <1>4, SummaryDoes, Ends, Hush DEF Loads

LEMMA AccountLoads ==
    /\ Loads(PendingLoad) /\ Loads(UsersLoad) /\ Loads(OrganizationsLoad)
    /\ Loads(RolesLoad) /\ Loads(GovernanceLoad)
<1>1. \A c \in {"admin.listPendingUsers", "admin.listUsers",
                "admin.listOrganizations", "admin.listRoles"} :
        ~ Call[c].writes
  BY Read
<1>2. \A script, c, x :
        Does(script, {c}, {x}) /\ ~ Call[c].writes
          => Steady(script) /\ Reads(script)
  BY ReadOne
<1>3. /\ Steady(PendingLoad) /\ Reads(PendingLoad)
      /\ Steady(OrganizationsLoad) /\ Reads(OrganizationsLoad)
      /\ Steady(RolesLoad) /\ Reads(RolesLoad)
  BY <1>1, <1>2, AccountDoes
<1>4. Steady(UsersLoad) /\ Reads(UsersLoad)
  BY <1>1, ReadOne, ManyDo
<1>5. Steady(GovernanceLoad) /\ Reads(GovernanceLoad)
  BY <1>1, ReadOne, ManyDo
<1> QED
  BY <1>3, <1>4, <1>5, Ends, Hush DEF Loads

LEMMA Writers ==
    /\ Steady(RiskEvaluate) /\ Steady(ScreeningRun) /\ Steady(NewSubmit)
    /\ Steady(NoticeSubmit) /\ Steady(CasesSubmit) /\ Steady(CaseClose)
    /\ Steady(RegisterSubmit)
    /\ \A call : /\ Steady(ReviewRun(call)) /\ Steady(PendingRun(call))
                 /\ Steady(UsersRun(call))
BY WriteOne, InstitutionDoes, RegulatorDoes, AccountDoes, ManyDo
(* Pages *)

Has(p, slots, mount, names) ==
    /\ p \in DOMAIN Pages
    /\ Pages[p].slots = slots /\ Pages[p].mount = mount
    /\ DOMAIN Pages[p].handlers = names

LEMMA PageNamed ==
    DOMAIN Pages =
      {"RiskEvaluationPage", "ScreeningResultsPage", "TransactionReviewPage",
       "TransactionQueuePage", "ApprovedTransactionsPage",
       "SuspiciousTransactionsPage", "InstitutionDashboardPage",
       "NewTransactionPage", "BankAnomalyNoticesPage",
       "BankAnomalyNoticeDetailPage", "ProofsPage", "AuditPage",
       "RegulatorDashboardPage", "AnomalyCasesPage", "AnomalyCaseDetailPage",
       "ThreeBankSmpcDemoPage", "PendingUsersPage", "UserManagementPage",
       "OrganizationManagementPage", "RoleManagementPage",
       "SuperAdminDashboardPage", "RegisterPage"}
BY DEF Pages

LEMMA InstitutionRows ==
    /\ Has("RiskEvaluationPage", {"workflow", "result"}, {"loadTransaction"},
           {"loadTransaction", "evaluateRisk"})
    /\ Has("ScreeningResultsPage",
           {"workflow", "screeningResponse", "riskUpdate"}, {},
           {"load", "runScreening"})
    /\ Has("TransactionReviewPage", {"row", "output"}, {"load"},
           {"load", "approve", "reject", "runScreening", "generateProofs"})
    /\ Has("TransactionQueuePage", {"rows"}, {"load"}, {"load"})
    /\ Has("ApprovedTransactionsPage", {"rows"}, {"load"}, {"load"})
    /\ Has("SuspiciousTransactionsPage", {"rows"}, {"load"}, {"load"})
    /\ Has("InstitutionDashboardPage", {"transactions", "notices"}, {"load"},
           {"load"})
    /\ Has("NewTransactionPage", {"result"}, {}, {"fresh", "submit"})
    /\ Has("BankAnomalyNoticesPage", {"rows"}, {"load"}, {"load"})
    /\ Has("BankAnomalyNoticeDetailPage", {"notice"}, {"load"},
           {"load", "submit"})
BY DEF Has, Pages, Page

LEMMA InstitutionHandlers ==
    /\ LET of(h) == Pages["RiskEvaluationPage"].handlers[h] IN
       of("loadTransaction") = RiskLoad /\ of("evaluateRisk") = RiskEvaluate
    /\ LET of(h) == Pages["ScreeningResultsPage"].handlers[h] IN
       of("load") = ScreeningLoad /\ of("runScreening") = ScreeningRun
    /\ LET of(h) == Pages["TransactionReviewPage"].handlers[h] IN
       /\ of("load") = ReviewLoad
       /\ of("approve") = ReviewRun("workflow.approve")
       /\ of("reject") = ReviewRun("workflow.reject")
       /\ of("runScreening") = ReviewRun("workflow.runScreening")
       /\ of("generateProofs") = ReviewRun("workflow.generateProofs")
    /\ Pages["TransactionQueuePage"].handlers["load"] = QueueLoad
    /\ Pages["ApprovedTransactionsPage"].handlers["load"] = ApprovedLoad
    /\ Pages["SuspiciousTransactionsPage"].handlers["load"] = SuspiciousLoad
    /\ Pages["InstitutionDashboardPage"].handlers["load"] = DashboardLoad
    /\ LET of(h) == Pages["NewTransactionPage"].handlers[h] IN
       of("fresh") = NewFresh /\ of("submit") = NewSubmit
    /\ Pages["BankAnomalyNoticesPage"].handlers["load"] = NoticesLoad
    /\ LET of(h) == Pages["BankAnomalyNoticeDetailPage"].handlers[h] IN
       of("load") = NoticeLoad /\ of("submit") = NoticeSubmit
BY DEF Pages, Page

LEMMA RegulatorRows ==
    /\ Has("ProofsPage", {"proofs", "selectedProof", "verification"}, {},
           {"loadProofs", "selectProof", "verifyProof"})
    /\ Has("AuditPage", {"events"}, {}, {"loadAuditTimeline"})
    /\ Has("RegulatorDashboardPage", {"proofs", "cases"}, {"load"}, {"load"})
    /\ Has("AnomalyCasesPage", {"cases"}, {"load"}, {"load", "submit"})
    /\ Has("AnomalyCaseDetailPage", {"item"}, {"load"}, {"load", "closeCase"})
    /\ Has("ThreeBankSmpcDemoPage", {"status", "result"}, {"loadStatus"},
           {"loadStatus", "runDemo"})
BY DEF Has, Pages, Page

LEMMA RegulatorHandlers ==
    /\ LET of(h) == Pages["ProofsPage"].handlers[h] IN
       /\ of("loadProofs") = ProofsLoad
       /\ of("selectProof") = ProofSelect
       /\ of("verifyProof") = ProofVerify
    /\ Pages["AuditPage"].handlers["loadAuditTimeline"] = AuditLoad
    /\ Pages["RegulatorDashboardPage"].handlers["load"] = SummaryLoad
    /\ LET of(h) == Pages["AnomalyCasesPage"].handlers[h] IN
       of("load") = CasesLoad /\ of("submit") = CasesSubmit
    /\ LET of(h) == Pages["AnomalyCaseDetailPage"].handlers[h] IN
       of("load") = CaseLoad /\ of("closeCase") = CaseClose
    /\ LET of(h) == Pages["ThreeBankSmpcDemoPage"].handlers[h] IN
       of("loadStatus") = SmpcStatus /\ of("runDemo") = SmpcRun
BY DEF Pages, Page

LEMMA AccountRows ==
    /\ Has("PendingUsersPage", {"users"}, {"load"},
           {"load", "approve", "reject"})
    /\ Has("UserManagementPage", {"users", "roles"}, {"load"},
           {"load", "activate", "deactivate"})
    /\ Has("OrganizationManagementPage", {"organizations"}, {"load"}, {"load"})
    /\ Has("RoleManagementPage", {"roles"}, {"load"}, {"load"})
    /\ Has("SuperAdminDashboardPage", {"users", "organizations", "roles"},
           {"load"}, {"load"})
    /\ Has("RegisterPage", {"response"}, {}, {"submit"})
BY DEF Has, Pages, Page

LEMMA AccountHandlers ==
    /\ LET of(h) == Pages["PendingUsersPage"].handlers[h] IN
       /\ of("load") = PendingLoad
       /\ of("approve") = PendingRun("admin.approveUser")
       /\ of("reject") = PendingRun("admin.rejectUser")
    /\ LET of(h) == Pages["UserManagementPage"].handlers[h] IN
       /\ of("load") = UsersLoad
       /\ of("activate") = UsersRun("admin.activateUser")
       /\ of("deactivate") = UsersRun("admin.deactivateUser")
    /\ Pages["OrganizationManagementPage"].handlers["load"] = OrganizationsLoad
    /\ Pages["RoleManagementPage"].handlers["load"] = RolesLoad
    /\ Pages["SuperAdminDashboardPage"].handlers["load"] = GovernanceLoad
    /\ Pages["RegisterPage"].handlers["submit"] = RegisterSubmit
BY DEF Pages, Page
\* What is expected of every page: handlers that clear the error first, and
\* that go on with one that loads, if with any; an effect that loads; and
\* where a handler goes on with another, a blank box is no error.
WellFormed(P) ==
    /\ \A h \in DOMAIN P.handlers :
         LET script == P.handlers[h] IN
         /\ h # "none" /\ "error" \in script.hushes
         /\ script.steps = << >> \/ Steady(script)
         /\ script.then # "" => /\ script.then \in DOMAIN P.handlers
                                /\ Loads(P.handlers[script.then])
         /\ script.needsInput =>
              \A g \in DOMAIN P.handlers : P.handlers[g].then = ""
    /\ \A h \in P.mount :
         h \in DOMAIN P.handlers /\ P.mount = {h} /\ Loads(P.handlers[h])

\* Handlers that end by themselves, one of which may be the effect's.
Simple(script) ==
    /\ "error" \in script.hushes /\ script.then = ""
    /\ script.steps = << >> \/ Steady(script)

Chained(script, next) ==
    /\ "error" \in script.hushes /\ Steady(script)
    /\ script.then = next /\ ~ script.needsInput

LEMMA LoadsSimply == ASSUME NEW script, Loads(script) PROVE Simple(script)
BY DEF Loads, Simple, Alone

LEMMA SimplePage ==
    ASSUME NEW P, \A h \in DOMAIN P.handlers : h # "none" /\ Simple(P.handlers[h]),
           \/ P.mount = {}
           \/ \E h \in DOMAIN P.handlers :
                P.mount = {h} /\ Loads(P.handlers[h])
    PROVE  WellFormed(P)
BY DEF WellFormed, Simple

LEMMA ChainedPage ==
    ASSUME NEW P, NEW l \in DOMAIN P.handlers, Loads(P.handlers[l]),
           P.mount \in {{}, {l}},
           \A h \in DOMAIN P.handlers :
             /\ h # "none" /\ ~ P.handlers[h].needsInput
             /\ Simple(P.handlers[h]) \/ Chained(P.handlers[h], l)
    PROVE  WellFormed(P)
BY DEF WellFormed, Simple, Chained

LEMMA Simples ==
    /\ Simple(RiskEvaluate) /\ Simple(ScreeningRun) /\ Simple(NewSubmit)
    /\ Simple(NewFresh) /\ Simple(NoticeSubmit) /\ Simple(CaseClose)
    /\ Simple(RegisterSubmit)
BY Writers, Ends, Hush, InstitutionSteps DEF Simple, Alone

LEMMA Chains ==
    /\ Chained(ProofVerify, "selectProof") /\ Chained(CasesSubmit, "load")
    /\ \A call : /\ Chained(ReviewRun(call), "load")
                 /\ Chained(PendingRun(call), "load")
                 /\ Chained(UsersRun(call), "load")
<1>1. Chained(ProofVerify, "selectProof")
  BY Ends, Hush, BlankGoes, RegulatorLoads DEF Chained
<1>2. Chained(CasesSubmit, "load")
  BY Writers, Ends, Hush, BlankGoes DEF Chained, Follows
<1>3. \A call : /\ Chained(ReviewRun(call), "load")
                /\ Chained(PendingRun(call), "load")
                /\ Chained(UsersRun(call), "load")
  BY Writers, Ends, Hush, BlankGoes DEF Chained, Follows
<1> QED
  BY <1>1, <1>2, <1>3

LEMMA OneLoad ==
    ASSUME NEW p, NEW slots, Has(p, slots, {"load"}, {"load"}),
           Loads(Pages[p].handlers["load"])
    PROVE  WellFormed(Pages[p])
BY SimplePage, LoadsSimply DEF Has

LEMMA PagesWellFormed ==
    ASSUME NEW p \in DOMAIN Pages
    PROVE  WellFormed(Pages[p])
<1> DEFINE P == Pages[p]
<1>1. CASE p \in {"TransactionQueuePage", "ApprovedTransactionsPage",
                  "SuspiciousTransactionsPage", "InstitutionDashboardPage",
                  "BankAnomalyNoticesPage"}
  BY <1>1, OneLoad, InstitutionRows, InstitutionHandlers, InstitutionLoads
<1>2. CASE p = "RegulatorDashboardPage"
  BY <1>2, OneLoad, RegulatorRows, RegulatorHandlers, RegulatorLoads
<1>3. CASE p \in {"OrganizationManagementPage", "RoleManagementPage",
                  "SuperAdminDashboardPage"}
  BY <1>3, OneLoad, AccountRows, AccountHandlers, AccountLoads
<1>4. CASE p = "RiskEvaluationPage"
  <2>1. /\ P.mount = {"loadTransaction"}
        /\ DOMAIN P.handlers = {"loadTransaction", "evaluateRisk"}
    BY <1>4, InstitutionRows DEF Has
  <2>2. /\ P.handlers["loadTransaction"] = RiskLoad
        /\ P.handlers["evaluateRisk"] = RiskEvaluate
    BY <1>4, InstitutionHandlers
  <2> QED
    BY <2>1, <2>2, SimplePage, LoadsSimply, InstitutionLoads, Simples
<1>5. CASE p = "ScreeningResultsPage"
  <2>1. P.mount = {} /\ DOMAIN P.handlers = {"load", "runScreening"}
    BY <1>5, InstitutionRows DEF Has
  <2>2. /\ P.handlers["load"] = ScreeningLoad
        /\ P.handlers["runScreening"] = ScreeningRun
    BY <1>5, InstitutionHandlers
  <2> QED
    BY <2>1, <2>2, SimplePage, LoadsSimply, InstitutionLoads, Simples
<1>6. CASE p = "TransactionReviewPage"
  <2>1. /\ P.mount = {"load"}
        /\ DOMAIN P.handlers = {"load", "approve", "reject", "runScreening",
                                "generateProofs"}
    BY <1>6, InstitutionRows DEF Has
  <2>2. /\ P.handlers["load"] = ReviewLoad
        /\ P.handlers["approve"] = ReviewRun("workflow.approve")
        /\ P.handlers["reject"] = ReviewRun("workflow.reject")
        /\ P.handlers["runScreening"] = ReviewRun("workflow.runScreening")
        /\ P.handlers["generateProofs"] = ReviewRun("workflow.generateProofs")
    BY <1>6, InstitutionHandlers
  <2> QED
    BY <2>1, <2>2, ChainedPage, LoadsSimply, InstitutionLoads, Chains,
       BlankGoes DEF Chained
<1>7. CASE p = "NewTransactionPage"
  <2>1. P.mount = {} /\ DOMAIN P.handlers = {"fresh", "submit"}
    BY <1>7, InstitutionRows DEF Has
  <2>2. P.handlers["fresh"] = NewFresh /\ P.handlers["submit"] = NewSubmit
    BY <1>7, InstitutionHandlers
  <2> QED
    BY <2>1, <2>2, SimplePage, Simples
<1>8. CASE p = "BankAnomalyNoticeDetailPage"
  <2>1. P.mount = {"load"} /\ DOMAIN P.handlers = {"load", "submit"}
    BY <1>8, InstitutionRows DEF Has
  <2>2. P.handlers["load"] = NoticeLoad /\ P.handlers["submit"] = NoticeSubmit
    BY <1>8, InstitutionHandlers
  <2> QED
    BY <2>1, <2>2, SimplePage, LoadsSimply, InstitutionLoads, Simples
<1>9. CASE p = "ProofsPage"
  <2>1. /\ P.mount = {}
        /\ DOMAIN P.handlers = {"loadProofs", "selectProof", "verifyProof"}
    BY <1>9, RegulatorRows DEF Has
  <2>2. /\ P.handlers["loadProofs"] = ProofsLoad
        /\ P.handlers["selectProof"] = ProofSelect
        /\ P.handlers["verifyProof"] = ProofVerify
    BY <1>9, RegulatorHandlers
  <2> QED
    BY <2>1, <2>2, ChainedPage, LoadsSimply, RegulatorLoads, Chains, BlankGoes
<1>10. CASE p = "AuditPage"
  <2>1. P.mount = {} /\ DOMAIN P.handlers = {"loadAuditTimeline"}
    BY <1>10, RegulatorRows DEF Has
  <2>2. P.handlers["loadAuditTimeline"] = AuditLoad
    BY <1>10, RegulatorHandlers
  <2> QED
    BY <2>1, <2>2, SimplePage, LoadsSimply, RegulatorLoads
<1>11. CASE p = "AnomalyCasesPage"
  <2>1. P.mount = {"load"} /\ DOMAIN P.handlers = {"load", "submit"}
    BY <1>11, RegulatorRows DEF Has
  <2>2. P.handlers["load"] = CasesLoad /\ P.handlers["submit"] = CasesSubmit
    BY <1>11, RegulatorHandlers
  <2> QED
    BY <2>1, <2>2, ChainedPage, LoadsSimply, RegulatorLoads, Chains, BlankGoes
<1>12. CASE p = "AnomalyCaseDetailPage"
  <2>1. P.mount = {"load"} /\ DOMAIN P.handlers = {"load", "closeCase"}
    BY <1>12, RegulatorRows DEF Has
  <2>2. P.handlers["load"] = CaseLoad /\ P.handlers["closeCase"] = CaseClose
    BY <1>12, RegulatorHandlers
  <2> QED
    BY <2>1, <2>2, SimplePage, LoadsSimply, RegulatorLoads, Simples
<1>13. CASE p = "ThreeBankSmpcDemoPage"
  <2>1. P.mount = {"loadStatus"} /\ DOMAIN P.handlers = {"loadStatus", "runDemo"}
    BY <1>13, RegulatorRows DEF Has
  <2>2. P.handlers["loadStatus"] = SmpcStatus /\ P.handlers["runDemo"] = SmpcRun
    BY <1>13, RegulatorHandlers
  <2> QED
    BY <2>1, <2>2, SimplePage, LoadsSimply, RegulatorLoads
<1>14. CASE p = "PendingUsersPage"
  <2>1. /\ P.mount = {"load"}
        /\ DOMAIN P.handlers = {"load", "approve", "reject"}
    BY <1>14, AccountRows DEF Has
  <2>2. /\ P.handlers["load"] = PendingLoad
        /\ P.handlers["approve"] = PendingRun("admin.approveUser")
        /\ P.handlers["reject"] = PendingRun("admin.rejectUser")
    BY <1>14, AccountHandlers
  <2> QED
    BY <2>1, <2>2, ChainedPage, LoadsSimply, AccountLoads, Chains, BlankGoes
<1>15. CASE p = "UserManagementPage"
  <2>1. /\ P.mount = {"load"}
        /\ DOMAIN P.handlers = {"load", "activate", "deactivate"}
    BY <1>15, AccountRows DEF Has
  <2>2. /\ P.handlers["load"] = UsersLoad
        /\ P.handlers["activate"] = UsersRun("admin.activateUser")
        /\ P.handlers["deactivate"] = UsersRun("admin.deactivateUser")
    BY <1>15, AccountHandlers
  <2> QED
    BY <2>1, <2>2, ChainedPage, LoadsSimply, AccountLoads, Chains, BlankGoes
<1>16. CASE p = "RegisterPage"
  <2>1. P.mount = {} /\ DOMAIN P.handlers = {"submit"}
    BY <1>16, AccountRows DEF Has
  <2>2. P.handlers["submit"] = RegisterSubmit
    BY <1>16, AccountHandlers
  <2> QED
    BY <2>1, <2>2, SimplePage, Simples
<1> QED
  BY PageNamed, <1>1, <1>2, <1>3, <1>4, <1>5, <1>6, <1>7, <1>8, <1>9, <1>10,
     <1>11, <1>12, <1>13, <1>14, <1>15, <1>16
(* Texts in place of answers *)

\* The pages of the calls without a prefix.
CasePages ==
    {"InstitutionDashboardPage", "BankAnomalyNoticesPage",
     "BankAnomalyNoticeDetailPage", "AnomalyCasesPage",
     "AnomalyCaseDetailPage"}

LEMMA InstitutionPrefixed ==
    /\ Prefixed(RiskLoad) /\ Prefixed(RiskEvaluate) /\ Prefixed(ScreeningLoad)
    /\ Prefixed(ScreeningRun) /\ Prefixed(ReviewLoad)
    /\ \A call \in {"workflow.approve", "workflow.reject",
                    "workflow.runScreening", "workflow.generateProofs"} :
         Prefixed(ReviewRun(call))
    /\ Prefixed(QueueLoad) /\ Prefixed(ApprovedLoad)
    /\ Prefixed(SuspiciousLoad) /\ Prefixed(NewSubmit) /\ Prefixed(NewFresh)
<1>1. \A c \in {"risk.getTransaction", "workflow.get", "workflow.list",
                "risk.listSuspiciousTransactions"} : Call[c].prefixed
  BY Read
<1>2. \A c \in {"risk.evaluateRisk", "workflow.runScreening",
                "workflow.approve", "workflow.reject",
                "workflow.generateProofs", "workflow.create"} :
        Call[c].prefixed
  BY Written DEF Writing, OfCases
<1>3. \A script, c, filled :
        Does(script, {c}, filled) /\ Call[c].prefixed => Prefixed(script)
  BY PrefixedOne
<1>4. Prefixed(NewFresh)
  BY InstitutionSteps DEF Prefixed
<1>5. Prefixed(RiskEvaluate) /\ Prefixed(ScreeningRun)
  BY <1>2, <1>3, ManyDo
<1> QED
  BY <1>1, <1>2, <1>3, <1>4, <1>5, InstitutionDoes

LEMMA RegulatorPrefixed ==
    /\ Prefixed(ProofsLoad) /\ Prefixed(ProofSelect) /\ Prefixed(ProofVerify)
    /\ Prefixed(AuditLoad) /\ Prefixed(SummaryLoad)
    /\ Prefixed(SmpcStatus) /\ Prefixed(SmpcRun)
<1>1. \A c \in {"proofs.listByTransaction", "proofs.getProof",
                "proofs.verifyProof", "audit.listByTransaction",
                "smpc.status", "smpc.run"} : Call[c].prefixed
  BY Read
<1>2. \A script, c, filled :
        Does(script, {c}, filled) /\ Call[c].prefixed => Prefixed(script)
  BY PrefixedOne
<1> QED
  BY <1>1, <1>2, RegulatorDoes, SummaryDoes

LEMMA AccountPrefixed ==
    /\ Prefixed(PendingLoad) /\ Prefixed(UsersLoad)
    /\ Prefixed(OrganizationsLoad) /\ Prefixed(RolesLoad)
    /\ Prefixed(GovernanceLoad) /\ Prefixed(RegisterSubmit)
    /\ \A call \in {"admin.approveUser", "admin.rejectUser"} :
         Prefixed(PendingRun(call))
    /\ \A call \in {"admin.activateUser", "admin.deactivateUser"} :
         Prefixed(UsersRun(call))
<1>1. \A c \in {"admin.listPendingUsers", "admin.listUsers",
                "admin.listOrganizations", "admin.listRoles"} :
        Call[c].prefixed
  BY Read
<1>2. \A c \in {"admin.approveUser", "admin.rejectUser",
                "admin.activateUser", "admin.deactivateUser",
                "auth.register"} : Call[c].prefixed
  BY Written DEF Writing, OfCases
<1>3. \A script, calls, filled :
        Does(script, calls, filled) /\ (\A c \in calls : Call[c].prefixed)
          => Prefixed(script)
  BY PrefixedOne
<1>4. Prefixed(UsersLoad) /\ Prefixed(GovernanceLoad)
  BY <1>1, <1>3, ManyDo
<1>5. \A script, c, filled :
        Does(script, {c}, filled) /\ Call[c].prefixed => Prefixed(script)
  BY PrefixedOne
<1> QED
  BY <1>1, <1>2, <1>4, <1>5, AccountDoes

\* No other page lets a text through.
LEMMA OthersPrefixed ==
    ASSUME NEW p \in DOMAIN Pages \ CasePages, NEW h \in DOMAIN Pages[p].handlers
    PROVE  Prefixed(Pages[p].handlers[h])
<1>1. CASE p \in {"RiskEvaluationPage", "ScreeningResultsPage",
                  "NewTransactionPage"}
  BY <1>1, InstitutionRows, InstitutionHandlers, InstitutionPrefixed DEF Has
<1>2. CASE p = "TransactionReviewPage"
  BY <1>2, InstitutionRows, InstitutionHandlers, InstitutionPrefixed DEF Has
<1>3. CASE p \in {"TransactionQueuePage", "ApprovedTransactionsPage",
                  "SuspiciousTransactionsPage"}
  BY <1>3, InstitutionRows, InstitutionHandlers, InstitutionPrefixed DEF Has
<1>4. CASE p = "ProofsPage"
  BY <1>4, RegulatorRows, RegulatorHandlers, RegulatorPrefixed DEF Has
<1>5. CASE p \in {"AuditPage", "RegulatorDashboardPage",
                  "ThreeBankSmpcDemoPage"}
  BY <1>5, RegulatorRows, RegulatorHandlers, RegulatorPrefixed DEF Has
<1>6. CASE p \in {"PendingUsersPage", "UserManagementPage"}
  BY <1>6, AccountRows, AccountHandlers, AccountPrefixed DEF Has
<1>7. CASE p \in {"OrganizationManagementPage", "RoleManagementPage",
                  "SuperAdminDashboardPage", "RegisterPage"}
  BY <1>7, AccountRows, AccountHandlers, AccountPrefixed DEF Has
<1> QED
  BY PageNamed, <1>1, <1>2, <1>3, <1>4, <1>5, <1>6, <1>7 DEF CasePages

(* Submit buttons *)

\* A flag that every handler with a write sets, and with which no handler that
\* sets it is started: not by the effect, by another handler, or by the user.
GuardedBy(p, flag) ==
    LET P == Pages[p] IN
    \A h \in DOMAIN P.handlers :
      /\ ~ Reads(P.handlers[h]) => flag \in P.handlers[h].busy
      /\ flag \in P.handlers[h].busy =>
           /\ h \notin P.mount
           /\ \A j \in DOMAIN P.handlers : P.handlers[j].then # h
           /\ \A v : flag \in v.busy => h \notin ViewOf(p, v).controls

LEMMA BusyFlags ==
    /\ RiskLoad.busy = {"loading"} /\ RiskEvaluate.busy = {"evaluating"}
    /\ ScreeningLoad.busy = {"loading"} /\ ScreeningRun.busy = {"running"}
    /\ NewFresh.busy = {} /\ NoticeLoad.busy = {"loading"}
    /\ NoticeSubmit.busy = {"saving"} /\ NewSubmit.busy = {"loading"}
    /\ CasesLoad.busy = {"loading"} /\ CasesSubmit.busy = {"creating"}
    /\ RegisterSubmit.busy = {"loading"}
BY DEF RiskLoad, RiskEvaluate, ScreeningLoad, ScreeningRun, NewFresh,
       NoticeLoad, NoticeSubmit, NewSubmit, CasesLoad, CasesSubmit,
       RegisterSubmit, LoadScript, Script

LEMMA ButtonsDisabled ==
    ASSUME NEW v
    PROVE  /\ "evaluating" \in v.busy =>
                "evaluateRisk" \notin ViewOf("RiskEvaluationPage", v).controls
           /\ "running" \in v.busy =>
                "runScreening" \notin ViewOf("ScreeningResultsPage", v).controls
           /\ "loading" \in v.busy =>
                "submit" \notin ViewOf("NewTransactionPage", v).controls
           /\ "saving" \in v.busy =>
                "submit" \notin
                  ViewOf("BankAnomalyNoticeDetailPage", v).controls
           /\ "creating" \in v.busy =>
                "submit" \notin ViewOf("AnomalyCasesPage", v).controls
           /\ "loading" \in v.busy =>
                "submit" \notin ViewOf("RegisterPage", v).controls
<1> USE DEF PageView, When
<1>1. "evaluating" \in v.busy => "evaluateRisk" \notin RiskView(v).controls
  BY DEF RiskView
<1>2. "running" \in v.busy => "runScreening" \notin ScreeningView(v).controls
  BY DEF ScreeningView
<1>3. "loading" \in v.busy => "submit" \notin NewView(v).controls
  BY DEF NewView
<1>4. "saving" \in v.busy => "submit" \notin NoticeView(v).controls
  BY DEF NoticeView
<1>5. "creating" \in v.busy => "submit" \notin CasesView(v).controls
  BY DEF CasesView
<1>6. "loading" \in v.busy => "submit" \notin RegisterView(v).controls
  BY DEF RegisterView
<1> QED
  BY <1>1, <1>2, <1>3, <1>4, <1>5, <1>6 DEF ViewOf

\* The pages whose buttons stay enabled while they are at work.
EnabledPages ==
    {"TransactionReviewPage", "AnomalyCaseDetailPage", "PendingUsersPage",
     "UserManagementPage"}

\* One handler submits; the other one reads, and may follow it.
SubmitsAlone(p, load, submit, flag) ==
    LET P == Pages[p]
        L == P.handlers[load]
        S == P.handlers[submit]
    IN
    /\ DOMAIN P.handlers = {load, submit} /\ P.mount \subseteq {load}
    /\ load # submit /\ submit # ""
    /\ Reads(L) /\ flag \notin L.busy /\ flag \in S.busy
    /\ L.then \in {"", load} /\ S.then \in {"", load}
    /\ \A v : flag \in v.busy => submit \notin ViewOf(p, v).controls

LEMMA OneSubmits ==
    ASSUME NEW p, NEW load, NEW submit, NEW flag,
           SubmitsAlone(p, load, submit, flag)
    PROVE  GuardedBy(p, flag)
<1> DEFINE P == Pages[p]
<1>1. DOMAIN P.handlers = {load, submit} /\ submit \notin P.mount
  BY DEF SubmitsAlone
<1>2. \A j \in DOMAIN P.handlers : P.handlers[j].then # submit
  BY <1>1 DEF SubmitsAlone
<1>3. \A h \in DOMAIN P.handlers :
        (~ Reads(P.handlers[h]) \/ flag \in P.handlers[h].busy) => h = submit
  BY <1>1 DEF SubmitsAlone
<1>4. /\ flag \in P.handlers[submit].busy
      /\ \A v : flag \in v.busy => submit \notin ViewOf(p, v).controls
  BY DEF SubmitsAlone
<1> QED
  BY <1>1, <1>2, <1>3, <1>4 DEF GuardedBy

\* On every other page that writes, one flag guards what it submits.
LEMMA SubmitsGuarded ==
    ASSUME NEW p \in DOMAIN Pages \ EnabledPages
    PROVE  \/ \A h \in DOMAIN Pages[p].handlers : Reads(Pages[p].handlers[h])
           \/ \E flag : GuardedBy(p, flag)
<1>1. CASE p \in {"TransactionQueuePage", "ApprovedTransactionsPage",
                  "SuspiciousTransactionsPage", "InstitutionDashboardPage",
                  "BankAnomalyNoticesPage"}
  BY <1>1, InstitutionRows, InstitutionHandlers, InstitutionLoads DEF Has, Loads
<1>2. CASE p \in {"AuditPage", "RegulatorDashboardPage",
                  "ThreeBankSmpcDemoPage", "ProofsPage"}
  BY <1>2, RegulatorRows, RegulatorHandlers, RegulatorLoads DEF Has, Loads
<1>3. CASE p \in {"OrganizationManagementPage", "RoleManagementPage",
                  "SuperAdminDashboardPage"}
  BY <1>3, AccountRows, AccountHandlers, AccountLoads DEF Has, Loads
<1>4. CASE p = "RiskEvaluationPage"
  <2>1. LET of(h) == Pages[p].handlers[h] IN
        of("loadTransaction") = RiskLoad /\ of("evaluateRisk") = RiskEvaluate
    BY <1>4, InstitutionHandlers
  <2>2. Has(p, {"workflow", "result"}, {"loadTransaction"},
            {"loadTransaction", "evaluateRisk"})
    BY <1>4, InstitutionRows
  <2>3. \A v : "evaluating" \in v.busy =>
                 "evaluateRisk" \notin ViewOf(p, v).controls
    BY <1>4, ButtonsDisabled
  <2>4. /\ Reads(RiskLoad) /\ "evaluating" \notin RiskLoad.busy
        /\ "evaluating" \in RiskEvaluate.busy
        /\ RiskLoad.then = "" /\ RiskEvaluate.then = ""
    BY InstitutionLoads, BusyFlags, Ends DEF Loads, Alone
  <2>5. SubmitsAlone(p, "loadTransaction", "evaluateRisk", "evaluating")
    BY <2>1, <2>2, <2>3, <2>4 DEF SubmitsAlone, Has
  <2> QED
    BY <2>5, OneSubmits
<1>5. CASE p = "ScreeningResultsPage"
  <2>1. LET of(h) == Pages[p].handlers[h] IN
        of("load") = ScreeningLoad /\ of("runScreening") = ScreeningRun
    BY <1>5, InstitutionHandlers
  <2>2. Has(p, {"workflow", "screeningResponse", "riskUpdate"}, {},
            {"load", "runScreening"})
    BY <1>5, InstitutionRows
  <2>3. \A v : "running" \in v.busy =>
                 "runScreening" \notin ViewOf(p, v).controls
    BY <1>5, ButtonsDisabled
  <2>4. /\ Reads(ScreeningLoad) /\ "running" \notin ScreeningLoad.busy
        /\ "running" \in ScreeningRun.busy
        /\ ScreeningLoad.then = "" /\ ScreeningRun.then = ""
    BY InstitutionLoads, BusyFlags, Ends DEF Loads, Alone
  <2>5. SubmitsAlone(p, "load", "runScreening", "running")
    BY <2>1, <2>2, <2>3, <2>4 DEF SubmitsAlone, Has
  <2> QED
    BY <2>5, OneSubmits
<1>6. CASE p = "NewTransactionPage"
  <2>1. LET of(h) == Pages[p].handlers[h] IN
        of("fresh") = NewFresh /\ of("submit") = NewSubmit
    BY <1>6, InstitutionHandlers
  <2>2. Has(p, {"result"}, {}, {"fresh", "submit"})
    BY <1>6, InstitutionRows
  <2>3. \A v : "loading" \in v.busy => "submit" \notin ViewOf(p, v).controls
    BY <1>6, ButtonsDisabled
  <2>4. Reads(NewFresh)
    BY InstitutionSteps DEF Reads
  <2>5. /\ Reads(NewFresh) /\ "loading" \notin NewFresh.busy
        /\ "loading" \in NewSubmit.busy
        /\ NewFresh.then = "" /\ NewSubmit.then = ""
    BY <2>4, BusyFlags, Ends DEF Alone
  <2>6. SubmitsAlone(p, "fresh", "submit", "loading")
    BY <2>1, <2>2, <2>3, <2>4, <2>5 DEF SubmitsAlone, Has
  <2> QED
    BY <2>6, OneSubmits
<1>7. CASE p = "BankAnomalyNoticeDetailPage"
  <2>1. LET of(h) == Pages[p].handlers[h] IN
        of("load") = NoticeLoad /\ of("submit") = NoticeSubmit
    BY <1>7, InstitutionHandlers
  <2>2. Has(p, {"notice"}, {"load"}, {"load", "submit"})
    BY <1>7, InstitutionRows
  <2>3. \A v : "saving" \in v.busy => "submit" \notin ViewOf(p, v).controls
    BY <1>7, ButtonsDisabled
  <2>4. /\ Reads(NoticeLoad) /\ "saving" \notin NoticeLoad.busy
        /\ "saving" \in NoticeSubmit.busy
        /\ NoticeLoad.then = "" /\ NoticeSubmit.then = ""
    BY InstitutionLoads, BusyFlags, Ends DEF Loads, Alone
  <2>5. SubmitsAlone(p, "load", "submit", "saving")
    BY <2>1, <2>2, <2>3, <2>4 DEF SubmitsAlone, Has
  <2> QED
    BY <2>5, OneSubmits
<1>8. CASE p = "AnomalyCasesPage"
  <2>1. LET of(h) == Pages[p].handlers[h] IN
        of("load") = CasesLoad /\ of("submit") = CasesSubmit
    BY <1>8, RegulatorHandlers
  <2>2. Has(p, {"cases"}, {"load"}, {"load", "submit"})
    BY <1>8, RegulatorRows
  <2>3. \A v : "creating" \in v.busy => "submit" \notin ViewOf(p, v).controls
    BY <1>8, ButtonsDisabled
  <2>4. /\ Reads(CasesLoad) /\ "creating" \notin CasesLoad.busy
        /\ "creating" \in CasesSubmit.busy
        /\ CasesLoad.then = "" /\ CasesSubmit.then = "load"
    BY RegulatorLoads, BusyFlags, Ends DEF Loads, Alone, Follows
  <2>5. SubmitsAlone(p, "load", "submit", "creating")
    BY <2>1, <2>2, <2>3, <2>4 DEF SubmitsAlone, Has
  <2> QED
    BY <2>5, OneSubmits
<1>9. CASE p = "RegisterPage"
  <2>1. Pages[p].handlers["submit"] = RegisterSubmit
    BY <1>9, AccountHandlers
  <2>2. Has(p, {"response"}, {}, {"submit"})
    BY <1>9, AccountRows
  <2>3. \A v : "loading" \in v.busy => "submit" \notin ViewOf(p, v).controls
    BY <1>9, ButtonsDisabled
  <2>4. RegisterSubmit.busy = {"loading"} /\ RegisterSubmit.then = ""
    BY BusyFlags, Ends DEF Alone
  <2>5. GuardedBy(p, "loading")
    BY <2>1, <2>2, <2>3, <2>4 DEF GuardedBy, Has
  <2> QED
    BY <2>5
<1> QED
  BY PageNamed, <1>1, <1>2, <1>3, <1>4, <1>5, <1>6, <1>7, <1>8, <1>9
     DEF EnabledPages

(* What a write leaves on the page *)

\* The slots that a write of the page may leave as they are, since another
\* handler loads them right after.
Lagging(p) ==
    CASE p = "TransactionReviewPage" -> {"row"}
      [] p = "AnomalyCasesPage" -> {"cases"}
      [] p = "PendingUsersPage" -> {"users"}
      [] p = "UserManagementPage" -> {"users", "roles"}
      [] OTHER -> {}

\* The answer to a write fills the other slots; where there are lagging ones,
\* every handler ends with a step that fills them, or goes on, always.
Refreshes(script, slots, lagging) ==
    /\ \A k \in DOMAIN script.steps :
         Writes(script.steps[k]) =>
           slots \ lagging \subseteq FilledBy(script.steps[k])
    /\ lagging # {} =>
         /\ script.steps # << >> /\ script.unless = ""
         /\ script.then = "" =>
              lagging \subseteq FilledBy(script.steps[Len(script.steps)])

LEMMA ReadsRefreshes ==
    ASSUME NEW script, NEW slots, Reads(script)
    PROVE  Refreshes(script, slots, {})
BY DEF Reads, Refreshes

LEMMA FillsRefreshes ==
    ASSUME NEW script, NEW calls, NEW slots, Does(script, calls, slots)
    PROVE  Refreshes(script, slots, {})
BY DEF Does, Refreshes

LEMMA SomeSteps ==
    ASSUME NEW script, NEW calls, NEW filled, Does(script, calls, filled)
    PROVE  script.steps # << >>
<1>1. Len(<< >>) = 0 /\ Len(script.steps) = 1
  BY DEF Does
<1> QED
  BY <1>1

LEMMA LoadRefreshes ==
    ASSUME NEW script, NEW calls, NEW filled, NEW slots,
           Does(script, calls, filled), Reads(script), Alone(script)
    PROVE  Refreshes(script, slots, filled)
BY SomeSteps DEF Does, Reads, Alone, Refreshes

LEMMA RunRefreshes ==
    ASSUME NEW script, NEW calls, NEW filled, NEW slots, NEW lagging,
           Does(script, calls, filled), slots \ lagging \subseteq filled,
           Follows(script, "load")
    PROVE  Refreshes(script, slots, lagging)
<1>1. script.steps # << >> /\ script.unless = "" /\ script.then # ""
  BY SomeSteps DEF Follows
<1> QED
  BY <1>1 DEF Does, Refreshes

LEMMA PagesRefresh ==
    ASSUME NEW p \in DOMAIN Pages, NEW h \in DOMAIN Pages[p].handlers
    PROVE  Refreshes(Pages[p].handlers[h], Pages[p].slots, Lagging(p))
<1>1. CASE p \in {"TransactionQueuePage", "ApprovedTransactionsPage",
                  "SuspiciousTransactionsPage", "InstitutionDashboardPage",
                  "BankAnomalyNoticesPage"}
  <2>1. Reads(Pages[p].handlers[h])
    BY <1>1, InstitutionRows, InstitutionHandlers, InstitutionLoads
       DEF Has, Loads
  <2> QED
    BY <1>1, <2>1, ReadsRefreshes DEF Lagging
<1>2. CASE p \in {"AuditPage", "RegulatorDashboardPage",
                  "ThreeBankSmpcDemoPage", "ProofsPage"}
  <2>1. Reads(Pages[p].handlers[h])
    BY <1>2, RegulatorRows, RegulatorHandlers, RegulatorLoads DEF Has, Loads
  <2> QED
    BY <1>2, <2>1, ReadsRefreshes DEF Lagging
<1>3. CASE p \in {"OrganizationManagementPage", "RoleManagementPage",
                  "SuperAdminDashboardPage"}
  <2>1. Reads(Pages[p].handlers[h])
    BY <1>3, AccountRows, AccountHandlers, AccountLoads DEF Has, Loads
  <2> QED
    BY <1>3, <2>1, ReadsRefreshes DEF Lagging
<1>4. CASE p = "RiskEvaluationPage"
  <2>1. /\ Pages[p].slots = {"result", "workflow"}
        /\ Pages[p].handlers[h] \in {RiskLoad, RiskEvaluate}
    BY <1>4, InstitutionRows, InstitutionHandlers DEF Has
  <2>2. Lagging(p) = {}
    BY <1>4 DEF Lagging
  <2> QED
    BY <2>1, <2>2, ReadsRefreshes, FillsRefreshes, InstitutionLoads, ManyDo
       DEF Loads
<1>5. CASE p = "ScreeningResultsPage"
  <2>1. /\ Pages[p].slots = {"workflow", "screeningResponse", "riskUpdate"}
        /\ Pages[p].handlers[h] \in {ScreeningLoad, ScreeningRun}
    BY <1>5, InstitutionRows, InstitutionHandlers DEF Has
  <2>2. Lagging(p) = {}
    BY <1>5 DEF Lagging
  <2> QED
    BY <2>1, <2>2, ReadsRefreshes, FillsRefreshes, InstitutionLoads, ManyDo
       DEF Loads
<1>6. CASE p = "NewTransactionPage"
  <2>1. /\ Pages[p].slots = {"result"}
        /\ Pages[p].handlers[h] \in {NewFresh, NewSubmit}
    BY <1>6, InstitutionRows, InstitutionHandlers DEF Has
  <2>2. Lagging(p) = {}
    BY <1>6 DEF Lagging
  <2>3. Reads(NewFresh)
    BY InstitutionSteps DEF Reads
  <2> QED
    BY <2>1, <2>2, <2>3, ReadsRefreshes, FillsRefreshes, InstitutionDoes
<1>7. CASE p = "BankAnomalyNoticeDetailPage"
  <2>1. /\ Pages[p].slots = {"notice"}
        /\ Pages[p].handlers[h] \in {NoticeLoad, NoticeSubmit}
    BY <1>7, InstitutionRows, InstitutionHandlers DEF Has
  <2>2. Lagging(p) = {}
    BY <1>7 DEF Lagging
  <2> QED
    BY <2>1, <2>2, FillsRefreshes, InstitutionDoes
<1>8. CASE p = "AnomalyCaseDetailPage"
  <2>1. /\ Pages[p].slots = {"item"}
        /\ Pages[p].handlers[h] \in {CaseLoad, CaseClose}
    BY <1>8, RegulatorRows, RegulatorHandlers DEF Has
  <2>2. Lagging(p) = {}
    BY <1>8 DEF Lagging
  <2> QED
    BY <2>1, <2>2, FillsRefreshes, RegulatorDoes
<1>9. CASE p = "RegisterPage"
  <2>1. /\ Pages[p].slots = {"response"}
        /\ Pages[p].handlers[h] = RegisterSubmit
    BY <1>9, AccountRows, AccountHandlers DEF Has
  <2>2. Lagging(p) = {}
    BY <1>9 DEF Lagging
  <2> QED
    BY <2>1, <2>2, FillsRefreshes, AccountDoes
<1>10. CASE p = "TransactionReviewPage"
  <2>1. /\ Pages[p].slots = {"row", "output"}
        /\ \/ Pages[p].handlers[h] = ReviewLoad
           \/ \E call : Pages[p].handlers[h] = ReviewRun(call)
    BY <1>10, InstitutionRows, InstitutionHandlers DEF Has
  <2>2. Lagging(p) = {"row"} /\ {"row", "output"} \ {"row"} = {"output"}
    BY <1>10 DEF Lagging
  <2>3. Refreshes(ReviewLoad, {"row", "output"}, {"row"})
    BY LoadRefreshes, InstitutionDoes, InstitutionLoads DEF Loads
  <2>4. \A call : Refreshes(ReviewRun(call), {"row", "output"}, {"row"})
    BY <2>2, RunRefreshes, InstitutionDoes, Ends
  <2> QED
    BY <2>1, <2>2, <2>3, <2>4
<1>11. CASE p = "AnomalyCasesPage"
  <2>1. /\ Pages[p].slots = {"cases"}
        /\ Pages[p].handlers[h] \in {CasesLoad, CasesSubmit}
    BY <1>11, RegulatorRows, RegulatorHandlers DEF Has
  <2>2. Lagging(p) = {"cases"} /\ {"cases"} \ {"cases"} \subseteq {""}
    BY <1>11 DEF Lagging
  <2>3. Refreshes(CasesLoad, {"cases"}, {"cases"})
    BY LoadRefreshes, RegulatorDoes, RegulatorLoads DEF Loads
  <2>4. Refreshes(CasesSubmit, {"cases"}, {"cases"})
    BY <2>2, RunRefreshes, RegulatorDoes, Ends
  <2> QED
    BY <2>1, <2>2, <2>3, <2>4
<1>12. CASE p = "PendingUsersPage"
  <2>1. /\ Pages[p].slots = {"users"}
        /\ \/ Pages[p].handlers[h] = PendingLoad
           \/ \E call : Pages[p].handlers[h] = PendingRun(call)
    BY <1>12, AccountRows, AccountHandlers DEF Has
  <2>2. Lagging(p) = {"users"} /\ {"users"} \ {"users"} \subseteq {""}
    BY <1>12 DEF Lagging
  <2>3. Refreshes(PendingLoad, {"users"}, {"users"})
    BY LoadRefreshes, AccountDoes, AccountLoads DEF Loads
  <2>4. \A call : Refreshes(PendingRun(call), {"users"}, {"users"})
    BY <2>2, RunRefreshes, AccountDoes, Ends
  <2> QED
    BY <2>1, <2>2, <2>3, <2>4
<1>13. CASE p = "UserManagementPage"
  <2>1. /\ Pages[p].slots = {"users", "roles"}
        /\ \/ Pages[p].handlers[h] = UsersLoad
           \/ \E call : Pages[p].handlers[h] = UsersRun(call)
    BY <1>13, AccountRows, AccountHandlers DEF Has
  <2>2. /\ Lagging(p) = {"users", "roles"}
        /\ {"users", "roles"} \ {"users", "roles"} \subseteq {""}
    BY <1>13 DEF Lagging
  <2>3. Refreshes(UsersLoad, {"users", "roles"}, {"users", "roles"})
    BY LoadRefreshes, ManyDo, AccountLoads DEF Loads
  <2>4. \A call : Refreshes(UsersRun(call), {"users", "roles"},
                            {"users", "roles"})
    BY <2>2, RunRefreshes, AccountDoes, Ends
  <2> QED
    BY <2>1, <2>2, <2>3, <2>4
<1> QED
  BY PageNamed, <1>1, <1>2, <1>3, <1>4, <1>5, <1>6, <1>7, <1>8, <1>9, <1>10,
     <1>11, <1>12, <1>13

(* What is shown together *)

RelatedOn(p) ==
    CASE p = "RiskEvaluationPage" -> {"workflow", "result"}
      [] p = "ScreeningResultsPage" ->
           {"workflow", "screeningResponse", "riskUpdate"}
      [] p = "ProofsPage" -> {"selectedProof", "verification"}
      [] OTHER -> {}

\* A handler in one step clears or fills what is related.  It may leave one
\* slot, if it checks that slot before it ends, or else goes on with a handler
\* that clears what it has filled.
Replaces(script, P, related) ==
    /\ Len(script.steps) = 1 /\ DOMAIN script.steps = {1}
    /\ script.unless # "" => script.unless \in P.slots \ script.resets
    /\ \A x \in related :
         \/ x \in FilledBy(script.steps[1]) \/ x \in script.resets
         \/ /\ script.then # "" /\ x = script.unless
            /\ FilledBy(script.steps[1]) \intersect related
                 \subseteq P.handlers[script.then].resets

LEMMA RelatedAreSlots ==
    ASSUME NEW p \in DOMAIN Pages
    PROVE  RelatedOn(p) \subseteq Pages[p].slots
<1>1. CASE p \in {"RiskEvaluationPage", "ScreeningResultsPage"}
  BY <1>1, InstitutionRows DEF Has, RelatedOn
<1>2. CASE p = "ProofsPage"
  BY <1>2, RegulatorRows DEF Has, RelatedOn
<1> QED
  BY <1>1, <1>2 DEF RelatedOn

LEMMA Cleared ==
    /\ RiskLoad.resets = {"result"}
    /\ ScreeningLoad.resets = {"screeningResponse", "riskUpdate"}
    /\ ProofsLoad.resets = {"selectedProof", "verification"}
    /\ ProofSelect.resets = {"verification"} /\ ProofVerify.resets = {}
BY DEF RiskLoad, ScreeningLoad, ProofsLoad, ProofSelect, ProofVerify,
       LoadScript, Script

LEMMA ClearsOrFills ==
    ASSUME NEW script, NEW P, NEW calls, NEW filled, NEW related,
           Does(script, calls, filled), Alone(script),
           related \subseteq filled \union script.resets
    PROVE  Replaces(script, P, related)
BY DEF Does, Alone, Replaces

LEMMA PagesReplace ==
    ASSUME NEW p \in DOMAIN Pages, RelatedOn(p) # {},
           NEW h \in DOMAIN Pages[p].handlers
    PROVE  Replaces(Pages[p].handlers[h], Pages[p], RelatedOn(p))
<1>1. CASE p = "RiskEvaluationPage"
  <2>1. Pages[p].handlers[h] \in {RiskLoad, RiskEvaluate}
    BY <1>1, InstitutionRows, InstitutionHandlers DEF Has
  <2>2. RelatedOn(p) = {"workflow", "result"}
    BY <1>1 DEF RelatedOn
  <2>3. Replaces(RiskLoad, Pages[p], {"workflow", "result"})
    BY ClearsOrFills, InstitutionDoes, Cleared, Ends
  <2>4. Replaces(RiskEvaluate, Pages[p], {"workflow", "result"})
    BY ClearsOrFills, ManyDo, Ends
  <2> QED
    BY <2>1, <2>2, <2>3, <2>4
<1>2. CASE p = "ScreeningResultsPage"
  <2> DEFINE related == {"workflow", "screeningResponse", "riskUpdate"}
  <2>1. Pages[p].handlers[h] \in {ScreeningLoad, ScreeningRun}
    BY <1>2, InstitutionRows, InstitutionHandlers DEF Has
  <2>2. RelatedOn(p) = related
    BY <1>2 DEF RelatedOn
  <2>3. Replaces(ScreeningLoad, Pages[p], related)
    BY ClearsOrFills, InstitutionDoes, Cleared, Ends
  <2>4. Replaces(ScreeningRun, Pages[p], related)
    BY ClearsOrFills, ManyDo, Ends
  <2> QED
    BY <2>1, <2>2, <2>3, <2>4
<1>3. CASE p = "ProofsPage"
  <2> DEFINE related == {"selectedProof", "verification"}
  <2>1. Pages[p].handlers[h] \in {ProofsLoad, ProofSelect, ProofVerify}
    BY <1>3, RegulatorRows, RegulatorHandlers DEF Has
  <2>2. RelatedOn(p) = related
    BY <1>3 DEF RelatedOn
  <2>3. Replaces(ProofsLoad, Pages[p], related)
    BY ClearsOrFills, RegulatorDoes, Cleared, Ends
  <2>4. Replaces(ProofSelect, Pages[p], related)
    BY ClearsOrFills, RegulatorDoes, Cleared, Ends
  <2>5. Replaces(ProofVerify, Pages[p], related)
    <3>1. Does(ProofVerify, {"proofs.verifyProof"}, {"verification"})
      BY RegulatorDoes
    <3>2. /\ ProofVerify.then = "selectProof" /\ ProofVerify.resets = {}
          /\ ProofVerify.unless = "selectedProof"
      BY Ends, Cleared
    <3>3. Pages[p].handlers["selectProof"].resets = {"verification"}
      BY <1>3, RegulatorHandlers, Cleared
    <3>4. "selectedProof" \in Pages[p].slots
      BY <1>3, RegulatorRows DEF Has
    <3> QED
      BY <3>1, <3>2, <3>3, <3>4 DEF Does, Replaces
  <2> QED
    BY <2>1, <2>2, <2>3, <2>4, <2>5
<1> QED
  BY <1>1, <1>2, <1>3 DEF RelatedOn

(* What takes a page down *)

LEMMA BreaksAreSlots ==
    ASSUME NEW p \in DOMAIN Pages, NEW v
    PROVE  ViewOf(p, v).breaks \subseteq Pages[p].slots
<1> USE DEF PageView
<1>1. CASE p \in {"RiskEvaluationPage", "ScreeningResultsPage",
                  "TransactionReviewPage", "NewTransactionPage"}
  <2>1. /\ RiskView(v).breaks = {} /\ ScreeningView(v).breaks = {}
        /\ ReviewView(v).breaks = {} /\ NewView(v).breaks = {}
    BY DEF RiskView, ScreeningView, ReviewView, NewView
  <2> QED
    BY <1>1, <2>1 DEF ViewOf
<1>2. CASE p \in {"TransactionQueuePage", "ApprovedTransactionsPage",
                  "SuspiciousTransactionsPage", "InstitutionDashboardPage",
                  "BankAnomalyNoticesPage", "BankAnomalyNoticeDetailPage"}
  <2>1. /\ QueueView(v).breaks = {"rows"} /\ ApprovedView(v).breaks = {"rows"}
        /\ SuspiciousView(v).breaks = {"rows"}
        /\ DashboardView(v).breaks = {"transactions", "notices"}
        /\ NoticesView(v).breaks = {"rows"} /\ NoticeView(v).breaks = {"notice"}
    BY DEF QueueView, ApprovedView, SuspiciousView, DashboardView, NoticesView,
           NoticeView
  <2> QED
    BY <1>2, <2>1, InstitutionRows DEF ViewOf, Has
<1>3. CASE p \in {"ProofsPage", "AuditPage", "RegulatorDashboardPage",
                  "AnomalyCasesPage", "AnomalyCaseDetailPage",
                  "ThreeBankSmpcDemoPage"}
  <2>1. /\ ProofsView(v).breaks = {"proofs"} /\ AuditView(v).breaks = {"events"}
        /\ SummaryView(v).breaks = {"proofs", "cases"}
        /\ CasesView(v).breaks = {"cases"} /\ CaseView(v).breaks = {"item"}
        /\ SmpcView(v).breaks = {}
    BY DEF ProofsView, AuditView, SummaryView, CasesView, CaseView, SmpcView
  <2> QED
    BY <1>3, <2>1, RegulatorRows DEF ViewOf, Has
<1>4. CASE p \in {"PendingUsersPage", "UserManagementPage",
                  "OrganizationManagementPage", "RoleManagementPage",
                  "SuperAdminDashboardPage", "RegisterPage"}
  <2>1. /\ PendingView(v).breaks = {"users"}
        /\ UsersView(v).breaks = {"users", "roles"}
        /\ OrganizationsView(v).breaks = {"organizations"}
        /\ RolesView(v).breaks = {"roles"}
        /\ GovernanceView(v).breaks = {"users"} /\ RegisterView(v).breaks = {}
    BY DEF PendingView, UsersView, OrganizationsView, RolesView,
           GovernanceView, RegisterView
  <2> QED
    BY <1>4, <2>1, AccountRows DEF ViewOf, Has
<1> QED
  BY PageNamed, <1>1, <1>2, <1>3, <1>4

(* What a page calls when it is opened, and whom the server answers *)

LEMMA Awaits ==
    ASSUME NEW script, NEW calls, NEW filled, Does(script, calls, filled)
    PROVE  AwaitedBy(script) = calls
BY DEF Does, AwaitedBy

LEMMA AwaitsMore ==
    /\ AwaitedBy(DashboardLoad) =
         {"risk.listTransactions", "cases.listBankNotices"}
    /\ AwaitedBy(SummaryLoad) = {"dashboard.proofs", "cases.listCases"}
<1>1. \A x, c : CallsOf(Step({<<x, c>>})) = {c}
  <2> TAKE x, c
  <2>1. Step({<<x, c>>}).fills = {<<x, c>>}
    BY DEF Step
  <2>2. {fill[2] : fill \in {<<x, c>>}} = {c}
    OBVIOUS
  <2> QED
    BY <2>1, <2>2 DEF CallsOf
<1>2. /\ DOMAIN DashboardLoad.steps = {1, 2}
      /\ DashboardLoad.steps[1] =
           Step({<<"transactions", "risk.listTransactions">>})
      /\ DashboardLoad.steps[2] =
           Step({<<"notices", "cases.listBankNotices">>})
  <2>1. DashboardLoad.steps =
          <<Step({<<"transactions", "risk.listTransactions">>}),
            Step({<<"notices", "cases.listBankNotices">>})>>
    BY InstitutionSteps
  <2> QED
    BY <2>1
<1>3. /\ CallsOf(DashboardLoad.steps[1]) = {"risk.listTransactions"}
      /\ CallsOf(DashboardLoad.steps[2]) = {"cases.listBankNotices"}
  BY <1>1, <1>2
<1>4. AwaitedBy(DashboardLoad) =
        {"risk.listTransactions", "cases.listBankNotices"}
  BY <1>2, <1>3 DEF AwaitedBy
<1>5. SummaryLoad.steps = <<SummaryStep>>
  BY RegulatorSteps
<1>6. DOMAIN SummaryLoad.steps = {1} /\ SummaryLoad.steps[1] = SummaryStep
  BY <1>5
<1>7. CallsOf(SummaryStep) = {"dashboard.proofs", "cases.listCases"}
  <2> DEFINE fills == {<<"proofs", "dashboard.proofs">>,
                       <<"cases", "cases.listCases">>}
  <2>1. SummaryStep.fills = fills
    BY DEF SummaryStep, Step
  <2>2. {fill[2] : fill \in fills} = {"dashboard.proofs", "cases.listCases"}
    OBVIOUS
  <2> HIDE DEF fills
  <2> QED
    BY <2>1, <2>2 DEF CallsOf
<1>8. AwaitedBy(SummaryLoad) = {"dashboard.proofs", "cases.listCases"}
  BY <1>6, <1>7 DEF AwaitedBy
<1> QED
  BY <1>4, <1>8

LEMMA Mounts ==
    ASSUME NEW p, NEW slots, NEW names
    PROVE  /\ Has(p, slots, {}, names) => MountCalls(p) = {}
           /\ \A h : Has(p, slots, {h}, names) =>
                MountCalls(p) = AwaitedBy(Pages[p].handlers[h])
BY DEF Has, MountCalls

LEMMA OpeningCalls ==
    /\ MountCalls("RiskEvaluationPage") = {"risk.getTransaction"}
    /\ MountCalls("ScreeningResultsPage") = {}
    /\ MountCalls("TransactionQueuePage") = {"workflow.list"}
    /\ MountCalls("ApprovedTransactionsPage") = {"workflow.list"}
    /\ MountCalls("SuspiciousTransactionsPage") =
         {"risk.listSuspiciousTransactions"}
    /\ MountCalls("InstitutionDashboardPage") =
         {"risk.listTransactions", "cases.listBankNotices"}
    /\ MountCalls("NewTransactionPage") = {}
    /\ MountCalls("BankAnomalyNoticesPage") = {"cases.listBankNotices"}
    /\ MountCalls("ProofsPage") = {} /\ MountCalls("AuditPage") = {}
    /\ MountCalls("RegulatorDashboardPage") =
         {"dashboard.proofs", "cases.listCases"}
    /\ MountCalls("AnomalyCasesPage") = {"cases.listCases"}
    /\ MountCalls("ThreeBankSmpcDemoPage") = {"smpc.status"}
    /\ MountCalls("PendingUsersPage") = {"admin.listPendingUsers"}
    /\ MountCalls("UserManagementPage") = {"admin.listUsers", "admin.listRoles"}
    /\ MountCalls("OrganizationManagementPage") = {"admin.listOrganizations"}
    /\ MountCalls("RoleManagementPage") = {"admin.listRoles"}
    /\ MountCalls("SuperAdminDashboardPage") =
         {"admin.listUsers", "admin.listOrganizations", "admin.listRoles"}
<1>1. /\ AwaitedBy(RiskLoad) = {"risk.getTransaction"}
      /\ AwaitedBy(QueueLoad) = {"workflow.list"}
      /\ AwaitedBy(ApprovedLoad) = {"workflow.list"}
      /\ AwaitedBy(SuspiciousLoad) = {"risk.listSuspiciousTransactions"}
      /\ AwaitedBy(NoticesLoad) = {"cases.listBankNotices"}
  BY InstitutionDoes, Awaits
<1>2. /\ MountCalls("RiskEvaluationPage") = AwaitedBy(RiskLoad)
      /\ MountCalls("ScreeningResultsPage") = {}
      /\ MountCalls("TransactionQueuePage") = AwaitedBy(QueueLoad)
      /\ MountCalls("ApprovedTransactionsPage") = AwaitedBy(ApprovedLoad)
      /\ MountCalls("SuspiciousTransactionsPage") = AwaitedBy(SuspiciousLoad)
      /\ MountCalls("InstitutionDashboardPage") = AwaitedBy(DashboardLoad)
      /\ MountCalls("NewTransactionPage") = {}
      /\ MountCalls("BankAnomalyNoticesPage") = AwaitedBy(NoticesLoad)
  BY InstitutionRows, InstitutionHandlers, Mounts
<1>3. /\ AwaitedBy(CasesLoad) = {"cases.listCases"}
      /\ AwaitedBy(SmpcStatus) = {"smpc.status"}
  BY RegulatorDoes, Awaits
<1>4. /\ MountCalls("ProofsPage") = {} /\ MountCalls("AuditPage") = {}
      /\ MountCalls("RegulatorDashboardPage") = AwaitedBy(SummaryLoad)
      /\ MountCalls("AnomalyCasesPage") = AwaitedBy(CasesLoad)
      /\ MountCalls("ThreeBankSmpcDemoPage") = AwaitedBy(SmpcStatus)
  BY RegulatorRows, RegulatorHandlers, Mounts
<1>5. /\ AwaitedBy(PendingLoad) = {"admin.listPendingUsers"}
      /\ AwaitedBy(OrganizationsLoad) = {"admin.listOrganizations"}
      /\ AwaitedBy(RolesLoad) = {"admin.listRoles"}
  BY AccountDoes, Awaits
<1>6. /\ AwaitedBy(UsersLoad) = {"admin.listUsers", "admin.listRoles"}
      /\ AwaitedBy(GovernanceLoad) =
           {"admin.listUsers", "admin.listOrganizations", "admin.listRoles"}
  BY ManyDo, Awaits
<1>7. /\ MountCalls("PendingUsersPage") = AwaitedBy(PendingLoad)
      /\ MountCalls("UserManagementPage") = AwaitedBy(UsersLoad)
      /\ MountCalls("OrganizationManagementPage") = AwaitedBy(OrganizationsLoad)
      /\ MountCalls("RoleManagementPage") = AwaitedBy(RolesLoad)
      /\ MountCalls("SuperAdminDashboardPage") = AwaitedBy(GovernanceLoad)
  BY AccountRows, AccountHandlers, Mounts
<1> QED
  BY AwaitsMore, <1>1, <1>2, <1>3, <1>4, <1>5, <1>6, <1>7

\* Whom the server answers when a page is opened.
Grants(call) ==
    /\ call.name \in {"workflow.list", "risk.listTransactions",
                      "risk.getTransaction", "risk.listSuspiciousTransactions"}
         => call.roles = WorkflowReaders
    /\ call.name \in {"admin.listPendingUsers", "admin.listUsers",
                      "admin.listOrganizations", "admin.listRoles"}
         => call.roles = {"super_admin"}
    /\ call.name = "cases.listCases"
         => call.roles = Holders("cases:read") \intersect CaseOverseers
    /\ call.name = "cases.listBankNotices"
         => call.roles = Holders("cases:read") \intersect NoticeReaders
    /\ call.name = "dashboard.proofs" => call.roles = Holders("proofs:read")
    /\ call.name = "smpc.status" => call.roles = RoleNames

LEMMA ApiGrants ==
    ASSUME NEW call \in Api
    PROVE  Grants(call)
<1>1. CASE call \in transactionWorkflowApi
  BY <1>1, ClientColumns DEF transactionWorkflowApi, Grants
<1>2. CASE call \in riskEvaluationApi
  BY <1>2, FetchColumns DEF riskEvaluationApi, Grants
<1>3. CASE call \in superAdminApi
  BY <1>3, FetchColumns DEF superAdminApi, Grants
<1>4. CASE call \in anomalyCasesApi
  BY <1>4, UnprefixedColumns DEF anomalyCasesApi, Grants
<1>5. CASE call \in proofsApi \union auditApi \union authApi
  BY <1>5, ClientColumns DEF proofsApi, auditApi, authApi, Grants
<1>6. CASE call \in regulatorDashboardApi \union threeBankSmpcApi
  BY <1>6, FetchColumns DEF regulatorDashboardApi, threeBankSmpcApi, Grants
<1> QED
  BY <1>1, <1>2, <1>3, <1>4, <1>5, <1>6 DEF Api

LEMMA ServerAnswers ==
    /\ \A c \in {"workflow.list", "risk.listTransactions",
                 "risk.getTransaction", "risk.listSuspiciousTransactions"} :
         Call[c].roles = WorkflowReaders
    /\ \A c \in {"admin.listPendingUsers", "admin.listUsers",
                 "admin.listOrganizations", "admin.listRoles"} :
         Call[c].roles = {"super_admin"}
    /\ Call["cases.listCases"].roles =
         Holders("cases:read") \intersect CaseOverseers
    /\ Call["cases.listBankNotices"].roles =
         Holders("cases:read") \intersect NoticeReaders
    /\ Call["dashboard.proofs"].roles = Holders("proofs:read")
    /\ Call["smpc.status"].roles = RoleNames
<1>1. \A c \in CallNames : Grants(Call[c]) /\ Call[c].name = c
  BY CallIs, ApiGrants
<1>2. {"cases.listCases", "cases.listBankNotices"} \subseteq CallNames
  BY Named DEF OfCases
<1> QED
  BY <1>1, <1>2, Named DEF Grants

LEMMA CaseReaders ==
    /\ CaseOverseers \subseteq Holders("cases:read")
    /\ NoticeReaders \subseteq Holders("cases:read")
    /\ {"regulator", "auditor"} \subseteq CaseOverseers
    /\ {"institution_admin", "transaction_reviewer"} \subseteq NoticeReaders
    /\ "regulator" \in Holders("proofs:read")
BY DEF CaseOverseers, NoticeReaders, Holders, Holds, RoleNames,
       PermissionsForRole, ReviewerPermissions
=============================================================================
