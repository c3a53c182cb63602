----------------------------- MODULE ConsoleApi -----------------------------
(***************************************************************************)
(* The calls that the console's pages make (frontend/src/api/), as far as  *)
(* a page can tell them apart: whether a call writes, whether the client   *)
(* gives up on it, whom the server lets through, and whether the address   *)
(* leads to the API at all.                                                *)
(***************************************************************************)
EXTENDS Roles, Sequences

\* request of client.ts aborts a call after ten seconds (15 s for a login or
\* a registration) and hands a body that is not JSON to the caller as text.
Client(name, effect, roles) ==
    [name |-> name, writes |-> effect = "write", bounded |-> TRUE,
     prefixed |-> TRUE, roles |-> roles]

\* The API files with a request of their own call fetch without a timeout, and
\* a body that is not JSON is an error.
Fetch(name, effect, roles) ==
    [Client(name, effect, roles) EXCEPT !.bounded = FALSE]

\* Addresses without the prefix that is forwarded to the API: a server of the
\* console that only knows the prefixes answers them itself.
Unprefixed(call) == [call EXCEPT !.prefixed = FALSE]

Holders(permission) == {role \in RoleNames : Holds(role, permission)}

\* list_transactions and get_transaction look at the role, not at permissions.
WorkflowReaders ==
    {"transaction_submitter", "transaction_reviewer", "institution_admin"}

transactionWorkflowApi ==
    {Client("workflow.create", "write", Holders("transactions:create")),
     Client("workflow.list", "read", WorkflowReaders),
     Client("workflow.get", "read", WorkflowReaders),
     Client("workflow.submitForReview", "write", Holders("transactions:create")),
     Client("workflow.approve", "write", Holders("transactions:approve")),
     Client("workflow.reject", "write", Holders("transactions:review")),
     Client("workflow.runScreening", "write", Holders("transactions:screen")),
     Client("workflow.generateProofs", "write", Holders("proofs:generate"))}

\* Suspicious transactions are filtered by the client out of the whole list.
riskEvaluationApi ==
    {Fetch("risk.listTransactions", "read", WorkflowReaders),
     Fetch("risk.getTransaction", "read", WorkflowReaders),
     Fetch("risk.evaluateRisk", "write", Holders("transactions:flag_suspicious")),
     Fetch("risk.listSuspiciousTransactions", "read", WorkflowReaders)}

superAdminApi ==
    {Fetch(name, "read", {"super_admin"}) :
       name \in {"admin.listPendingUsers", "admin.listUsers",
                 "admin.listOrganizations", "admin.listRoles"}}
      \union
    {Fetch(name, "write", {"super_admin"}) :
       name \in {"admin.approveUser", "admin.rejectUser",
                 "admin.activateUser", "admin.deactivateUser"}}

\* Mutation of CaseOverseers: the auditors are forgotten.
CaseOverseersWithoutAuditors == {"regulator", "super_admin"}

\* Besides the permission the handlers of cases look at the role, but for
\* open_anomaly_case, get_bank_notice and respond_bank_notice.  Those of banks
\* need the caller's organization too, which every account has.
CaseOverseers == {"regulator", "auditor", "super_admin"}
CaseClosers == {"regulator", "super_admin"}
NoticeReaders == {"institution_admin", "transaction_reviewer"}

anomalyCasesApi ==
    {Unprefixed(call) : call \in
       {Client("cases.listCases", "read",
               Holders("cases:read") \intersect CaseOverseers),
        Client("cases.getCase", "read",
               Holders("cases:read") \intersect CaseOverseers),
        Client("cases.createCase", "write", Holders("cases:create")),
        Client("cases.closeCase", "write",
               Holders("cases:update") \intersect CaseClosers),
        Client("cases.listBankNotices", "read",
               Holders("cases:read") \intersect NoticeReaders),
        Client("cases.getBankNotice", "read", Holders("cases:read")),
        Client("cases.respondToNotice", "write", Holders("cases:respond"))}}

\* Verifying a proof writes nothing.
proofsApi ==
    {Client("proofs.listByTransaction", "read", Holders("proofs:read")),
     Client("proofs.getProof", "read", Holders("proofs:read")),
     Client("proofs.verifyProof", "read", Holders("proofs:verify"))}

auditApi == {Client("audit.listByTransaction", "read", Holders("audit:read"))}

\* Login is in BrowserSession; no page calls me.
authApi == {Client("auth.register", "write", RoleNames)}

regulatorDashboardApi ==
    {Fetch("dashboard.proofs", "read", Holders("proofs:read"))}

threeBankSmpcApi ==
    {Fetch("smpc.status", "read", RoleNames), Fetch("smpc.run", "read", RoleNames)}

Api ==
    transactionWorkflowApi \union riskEvaluationApi \union superAdminApi
      \union anomalyCasesApi \union proofsApi \union auditApi \union authApi
      \union regulatorDashboardApi \union threeBankSmpcApi

CallNames == {call.name : call \in Api}

Call == [name \in CallNames |-> CHOOSE call \in Api : call.name = name]
=============================================================================
