----------------------------- MODULE PageTable ------------------------------
(***************************************************************************)
(* The pages that make calls, with their slots, handlers and views.        *)
(***************************************************************************)
EXTENDS ConsoleApi, InstitutionPages, RegulatorPages, AccountPages

Page(slots, mount, handlers) ==
    [slots |-> slots, mount |-> mount, handlers |-> handlers]

\* mount: the handler that useEffect starts.
Pages ==
    [RiskEvaluationPage |->
       Page({"workflow", "result"}, {"loadTransaction"},
            [loadTransaction |-> RiskLoad, evaluateRisk |-> RiskEvaluate]),
     ScreeningResultsPage |->
       Page({"workflow", "screeningResponse", "riskUpdate"}, {},
            [load |-> ScreeningLoad, runScreening |-> ScreeningRun]),
     TransactionReviewPage |->
       Page({"row", "output"}, {"load"},
            [load |-> ReviewLoad, approve |-> ReviewRun("workflow.approve"),
             reject |-> ReviewRun("workflow.reject"),
             runScreening |-> ReviewRun("workflow.runScreening"),
             generateProofs |-> ReviewRun("workflow.generateProofs")]),
     TransactionQueuePage |-> Page({"rows"}, {"load"}, [load |-> QueueLoad]),
     ApprovedTransactionsPage |->
       Page({"rows"}, {"load"}, [load |-> ApprovedLoad]),
     SuspiciousTransactionsPage |->
       Page({"rows"}, {"load"}, [load |-> SuspiciousLoad]),
     InstitutionDashboardPage |->
       Page({"transactions", "notices"}, {"load"}, [load |-> DashboardLoad]),
     NewTransactionPage |->
       Page({"result"}, {}, [fresh |-> NewFresh, submit |-> NewSubmit]),
     BankAnomalyNoticesPage |-> Page({"rows"}, {"load"}, [load |-> NoticesLoad]),
     BankAnomalyNoticeDetailPage |->
       Page({"notice"}, {"load"},
            [load |-> NoticeLoad, submit |-> NoticeSubmit]),
     ProofsPage |->
       Page({"proofs", "selectedProof", "verification"}, {},
            [loadProofs |-> ProofsLoad, selectProof |-> ProofSelect,
             verifyProof |-> ProofVerify]),
     AuditPage |-> Page({"events"}, {}, [loadAuditTimeline |-> AuditLoad]),
     RegulatorDashboardPage |->
       Page({"proofs", "cases"}, {"load"}, [load |-> SummaryLoad]),
     AnomalyCasesPage |->
       Page({"cases"}, {"load"}, [load |-> CasesLoad, submit |-> CasesSubmit]),
     AnomalyCaseDetailPage |->
       Page({"item"}, {"load"}, [load |-> CaseLoad, closeCase |-> CaseClose]),
     ThreeBankSmpcDemoPage |->
       Page({"status", "result"}, {"loadStatus"},
            [loadStatus |-> SmpcStatus, runDemo |-> SmpcRun]),
     PendingUsersPage |->
       Page({"users"}, {"load"},
            [load |-> PendingLoad, approve |-> PendingRun("admin.approveUser"),
             reject |-> PendingRun("admin.rejectUser")]),
     UserManagementPage |->
       Page({"users", "roles"}, {"load"},
            [load |-> UsersLoad, activate |-> UsersRun("admin.activateUser"),
             deactivate |-> UsersRun("admin.deactivateUser")]),
     OrganizationManagementPage |->
       Page({"organizations"}, {"load"}, [load |-> OrganizationsLoad]),
     RoleManagementPage |-> Page({"roles"}, {"load"}, [load |-> RolesLoad]),
     SuperAdminDashboardPage |->
       Page({"users", "organizations", "roles"}, {"load"},
            [load |-> GovernanceLoad]),
     RegisterPage |->
       Page({"response"}, {}, [submit |-> RegisterSubmit])]

ViewOf(page, v) ==
    CASE page = "RiskEvaluationPage" -> RiskView(v)
      [] page = "ScreeningResultsPage" -> ScreeningView(v)
      [] page = "TransactionReviewPage" -> ReviewView(v)
      [] page = "TransactionQueuePage" -> QueueView(v)
      [] page = "ApprovedTransactionsPage" -> ApprovedView(v)
      [] page = "SuspiciousTransactionsPage" -> SuspiciousView(v)
      [] page = "InstitutionDashboardPage" -> DashboardView(v)
      [] page = "NewTransactionPage" -> NewView(v)
      [] page = "BankAnomalyNoticesPage" -> NoticesView(v)
      [] page = "BankAnomalyNoticeDetailPage" -> NoticeView(v)
      [] page = "ProofsPage" -> ProofsView(v)
      [] page = "AuditPage" -> AuditView(v)
      [] page = "RegulatorDashboardPage" -> SummaryView(v)
      [] page = "AnomalyCasesPage" -> CasesView(v)
      [] page = "AnomalyCaseDetailPage" -> CaseView(v)
      [] page = "ThreeBankSmpcDemoPage" -> SmpcView(v)
      [] page = "PendingUsersPage" -> PendingView(v)
      [] page = "UserManagementPage" -> UsersView(v)
      [] page = "OrganizationManagementPage" -> OrganizationsView(v)
      [] page = "RoleManagementPage" -> RolesView(v)
      [] page = "SuperAdminDashboardPage" -> GovernanceView(v)
      [] page = "RegisterPage" -> RegisterView(v)

AwaitedBy(script) ==
    UNION {CallsOf(script.steps[k]) : k \in DOMAIN script.steps}

\* The calls a page makes when it is opened.
MountCalls(page) ==
    UNION {AwaitedBy(Pages[page].handlers[h]) : h \in Pages[page].mount}
=============================================================================
