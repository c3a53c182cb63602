------------------------------- MODULE Routes -------------------------------
(***************************************************************************)
(* The console's routes (AppRoutes.tsx), who may open them                 *)
(* (ProtectedRoute.tsx, roleAccess.ts) and the links that lead to them     *)
(* (AppLayout.tsx, Sidebar.tsx).  A path is its pattern: what stands for   *)
(* :txId or :caseId does not matter to a route.                            *)
(***************************************************************************)
EXTENDS Roles

roleGroups ==
    [institutionAll |-> {"institution_admin", "transaction_submitter",
                         "transaction_reviewer"},
     institutionManagement |-> {"institution_admin"},
     transactionSubmission |-> {"institution_admin", "transaction_submitter"},
     transactionReview |-> {"institution_admin", "transaction_reviewer"},
     regulatorFull |-> {"regulator"},
     regulatorEvidenceReadOnly |-> {"regulator", "auditor"},
     superAdmin |-> {"super_admin"}]

Route(path, page, allowed) == [path |-> path, page |-> page, allowed |-> allowed]

\* The roles that three routes, and three others, list without a group.
RiskRoles == roleGroups.transactionReview \union {"super_admin"}
OversightRoles == roleGroups.regulatorEvidenceReadOnly \union {"super_admin"}

InstitutionRoutes ==
    LET review == roleGroups.transactionReview IN
    {Route("/institution/dashboard", "InstitutionDashboardPage",
           roleGroups.institutionManagement),
     Route("/institution/transactions/new", "NewTransactionPage",
           roleGroups.transactionSubmission),
     Route("/institution/suspicious-transactions", "SuspiciousTransactionsPage",
           RiskRoles),
     Route("/institution/risk-evaluation", "RiskEvaluationPage", RiskRoles),
     Route("/institution/transactions/:txId/risk", "RiskEvaluationPage",
           RiskRoles),
     Route("/institution/transactions", "TransactionQueuePage",
           roleGroups.institutionAll),
     Route("/institution/transactions/:txId/review", "TransactionReviewPage",
           review),
     Route("/institution/transactions/approved", "ApprovedTransactionsPage",
           review),
     Route("/institution/reviews", "TransactionQueuePage", review),
     Route("/institution/anomaly-notices", "BankAnomalyNoticesPage", review),
     Route("/institution/anomaly-notices/:caseId",
           "BankAnomalyNoticeDetailPage", review),
     Route("/institution/screening-results", "ScreeningResultsPage", review)}

RegulatorRoutes ==
    LET evidence == roleGroups.regulatorEvidenceReadOnly IN
    {Route("/regulator/dashboard", "RegulatorDashboardPage",
           roleGroups.regulatorFull),
     Route("/regulator/proofs", "ProofsPage", evidence),
     Route("/regulator/three-bank-smpc-demo", "ThreeBankSmpcDemoPage",
           OversightRoles),
     Route("/regulator/anomaly-cases", "AnomalyCasesPage", OversightRoles),
     Route("/regulator/anomaly-cases/:caseId", "AnomalyCaseDetailPage",
           OversightRoles),
     Route("/regulator/audit", "AuditPage", evidence),
     Route("/regulator/performance", "RegulatorPerformancePage",
           roleGroups.regulatorFull),
     Route("/regulator/compliance-report", "RegulatorComplianceReportPage",
           evidence)}

\* "/admin" stands for admin/*: behind its guard is another redirect.
SuperAdminRoutes ==
    LET admin == roleGroups.superAdmin IN
    {Route("/super-admin/dashboard", "SuperAdminDashboardPage", admin),
     Route("/super-admin/users", "UserManagementPage", admin),
     Route("/super-admin/pending-users", "PendingUsersPage", admin),
     Route("/super-admin/organizations", "OrganizationManagementPage", admin),
     Route("/super-admin/roles", "RoleManagementPage", admin),
     Route("/admin", "Navigate", admin)}

GuardedRoutes == InstitutionRoutes \union RegulatorRoutes \union SuperAdminRoutes
GuardedPaths == {r.path : r \in GuardedRoutes}
PublicPaths == {"/", "/about", "/login", "/register"}

\* Paths of an older console and paths that match nothing.
LegacyPaths == {"/dashboard", "/proofs", "/audit", "/performance"}
UnknownPath == "*"
Paths == GuardedPaths \union PublicPaths \union LegacyPaths \union {UnknownPath}

MayOpen(role, path) ==
    \E r \in GuardedRoutes : r.path = path /\ role \in r.allowed

\* Mutation of dashboardForRole: the dashboards of the two evidence roles are
\* one.
dashboardForEvidenceRoles(role) ==
    CASE role = "super_admin" -> "/super-admin/dashboard"
      [] role = "institution_admin" -> "/institution/dashboard"
      [] role = "transaction_submitter" -> "/institution/transactions/new"
      [] role = "transaction_reviewer" -> "/institution/reviews"
      [] role \in {"regulator", "auditor"} -> "/regulator/dashboard"
      [] OTHER -> "/"

\* Mutation of dashboardForRole: a bank's administrators go to a page that has
\* been renamed.
dashboardForOldRole(role) ==
    CASE role = "super_admin" -> "/super-admin/dashboard"
      [] role = "institution_admin" -> "/institution/home"
      [] role = "transaction_submitter" -> "/institution/transactions/new"
      [] role = "transaction_reviewer" -> "/institution/reviews"
      [] role = "regulator" -> "/regulator/dashboard"
      [] role = "auditor" -> "/regulator/audit"
      [] OTHER -> "/"

dashboardForRole(role) ==
    CASE role = "super_admin" -> "/super-admin/dashboard"
      [] role = "institution_admin" -> "/institution/dashboard"
      [] role = "transaction_submitter" -> "/institution/transactions/new"
      [] role = "transaction_reviewer" -> "/institution/reviews"
      [] role = "regulator" -> "/regulator/dashboard"
      [] role = "auditor" -> "/regulator/audit"
      [] OTHER -> "/"

-----------------------------------------------------------------------------
(* Links that are there on every page. *)

\* The header of a visitor who is not logged in.
HeaderLinks == PublicPaths

MenuOf(role) ==
    CASE role = "super_admin" ->
           {r.path : r \in SuperAdminRoutes} \ {"/admin"}
      [] role = "institution_admin" ->
           {"/institution/dashboard", "/institution/transactions/new",
            "/institution/transactions", "/institution/suspicious-transactions",
            "/institution/risk-evaluation",
            "/institution/transactions/approved",
            "/institution/screening-results", "/institution/anomaly-notices"}
      [] role = "transaction_submitter" ->
           {"/institution/transactions/new", "/institution/transactions"}
      [] role = "transaction_reviewer" ->
           {"/institution/transactions", "/institution/transactions/approved",
            "/institution/screening-results", "/institution/anomaly-notices"}
      [] role = "regulator" ->
           {r.path : r \in RegulatorRoutes}
             \ {"/regulator/anomaly-cases/:caseId"}
      [] role = "auditor" ->
           {"/regulator/proofs", "/regulator/audit", "/regulator/anomaly-cases",
            "/regulator/compliance-report"}
      [] OTHER -> {}

-----------------------------------------------------------------------------
(* Links of the pages themselves.                                            *)

InstitutionDashboardLinks ==
    {"/institution/transactions", "/institution/suspicious-transactions",
     "/institution/approved-transactions", "/institution/anomaly-notices"}

NewTransactionLinks ==
    {"/institution/transactions", "/institution/transactions/:txId/review"}

RegulatorDashboardLinks ==
    {"/regulator/proofs", "/regulator/anomaly-cases", "/regulator/audit",
     "/regulator/compliance-report", "/regulator/three-bank-smpc-demo",
     "/regulator/anomaly-cases/:caseId"}

SuperAdminDashboardLinks ==
    {"/super-admin/pending-users", "/super-admin/users",
     "/super-admin/organizations", "/super-admin/roles"}

\* A link that matches no route leads to the last one.
Resolved(path) == IF path \in Paths THEN path ELSE UnknownPath

PageLinks(path) ==
    CASE path = "/" -> {"/login", "/register", "/about"}
      [] path = "/login" -> {"/register"}
      [] path = "/register" -> {"/login"}
      [] path = "/institution/dashboard" -> InstitutionDashboardLinks
      [] path = "/institution/transactions/new" -> NewTransactionLinks
      [] path \in {"/institution/transactions", "/institution/reviews",
                   "/institution/transactions/approved"} ->
           {"/institution/transactions/:txId/review"}
      [] path \in {"/institution/suspicious-transactions",
                   "/institution/screening-results"} ->
           {"/institution/transactions/:txId/risk"}
      [] path = "/institution/transactions/:txId/review" ->
           {"/institution/screening-results"}
      [] path \in {"/institution/risk-evaluation",
                   "/institution/transactions/:txId/risk"} ->
           {"/institution/suspicious-transactions"}
      [] path = "/institution/anomaly-notices" ->
           {"/institution/anomaly-notices/:caseId"}
      [] path = "/regulator/dashboard" -> RegulatorDashboardLinks
      [] path = "/regulator/anomaly-cases" ->
           {"/regulator/anomaly-cases/:caseId"}
      [] path = "/super-admin/dashboard" -> SuperAdminDashboardLinks
      [] OTHER -> {}
=============================================================================
