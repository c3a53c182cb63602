-------------------------- MODULE InstitutionPages --------------------------
(***************************************************************************)
(* The pages of a bank's users: handlers as scripts, and views.            *)
(***************************************************************************)
EXTENDS PageScript

(* RiskEvaluationPage: shows a workflow, evaluates what is typed. *)

\* Mutation of RiskLoad: the result of another transaction stays.
RiskLoadKeepsResult ==
    [LoadScript({<<"workflow", "risk.getTransaction">>}) EXCEPT
       !.subject = "typed", !.needsInput = TRUE, !.drops = {"workflow"}]

RiskLoad ==
    [LoadScript({<<"workflow", "risk.getTransaction">>}) EXCEPT
       !.subject = "typed", !.needsInput = TRUE, !.resets = {"result"},
       !.drops = {"workflow"}]

\* Mutation of RiskEvaluate: setError("") is missing.
RiskEvaluateKeepsError ==
    [Script EXCEPT
       !.subject = "typed", !.needsInput = TRUE, !.busy = {"evaluating"},
       !.hushes = {},
       !.steps = <<Step({<<"result", "risk.evaluateRisk">>,
                         <<"workflow", "risk.evaluateRisk">>})>>]

RiskEvaluate ==
    [Script EXCEPT
       !.subject = "typed", !.needsInput = TRUE, !.busy = {"evaluating"},
       !.steps = <<Step({<<"result", "risk.evaluateRisk">>,
                         <<"workflow", "risk.evaluateRisk">>})>>]

RiskView(v) ==
    PageView(When(Shown(v, "workflow"), {"workflow", "result"}),
             {"loadTransaction"}
               \union When(Shown(v, "workflow") /\ "evaluating" \notin v.busy,
                           {"evaluateRisk"}),
             {})

(* ScreeningResultsPage *)

ScreeningLoad ==
    [LoadScript({<<"workflow", "workflow.get">>}) EXCEPT
       !.subject = "typed", !.resets = {"screeningResponse", "riskUpdate"}]

ScreeningRun ==
    [Script EXCEPT
       !.subject = "typed", !.busy = {"running"},
       !.steps = <<Step({<<slot, "workflow.runScreening">> : slot \in
                           {"workflow", "screeningResponse", "riskUpdate"}})>>]

ScreeningView(v) ==
    PageView({"workflow", "screeningResponse", "riskUpdate"},
             {"load"} \union When("running" \notin v.busy, {"runScreening"}),
             {})

(* TransactionReviewPage: run(label, action), and four buttons for it. *)

ReviewLoad == LoadScript({<<"row", "workflow.get">>})

\* Mutation of ReviewRun: what is shown is not loaded again.
ReviewRunWithoutLoad(call) ==
    [LoadScript({<<"output", call>>}) EXCEPT !.resets = {"output"}]

ReviewRun(call) ==
    [LoadScript({<<"output", call>>}) EXCEPT
       !.resets = {"output"}, !.then = "load"]

ReviewView(v) ==
    PageView({"row", "output"},
             When(Shown(v, "row"),
                  {"approve", "reject", "runScreening", "generateProofs"}),
             {})

(* TransactionQueuePage, ApprovedTransactionsPage, SuspiciousTransactionsPage. *)

QueueLoad == LoadScript({<<"rows", "workflow.list">>})
QueueView(v) == PageView({"rows"}, {"load"}, {"rows"})

ApprovedLoad == LoadScript({<<"rows", "workflow.list">>})
ApprovedView(v) == PageView({"rows"}, {}, {"rows"})

SuspiciousLoad == LoadScript({<<"rows", "risk.listSuspiciousTransactions">>})
SuspiciousView(v) == PageView({"rows"}, {"load"}, {"rows"})

(* InstitutionDashboardPage: only institution_admin may open it, for whom the *)
(* notices are loaded as well.                                                *)

DashboardLoad ==
    [LoadScript({}) EXCEPT
       !.steps = <<Step({<<"transactions", "risk.listTransactions">>}),
                   Step({<<"notices", "cases.listBankNotices">>})>>]

DashboardView(v) ==
    PageView({"transactions", "notices"}, {}, {"transactions", "notices"})

(* NewTransactionPage *)

NewSubmit ==
    [LoadScript({<<"result", "workflow.create">>}) EXCEPT !.resets = {"result"}]

NewFresh == [Script EXCEPT !.resets = {"result"}]

\* Mutation of NewView: the button is never disabled.
NewViewEnabled(v) == PageView({"result"}, {"fresh", "submit"}, {})

NewView(v) ==
    PageView({"result"},
             {"fresh"} \union When("loading" \notin v.busy, {"submit"}), {})

(* BankAnomalyNoticesPage, BankAnomalyNoticeDetailPage *)

NoticesLoad == LoadScript({<<"rows", "cases.listBankNotices">>})
NoticesView(v) == PageView({"rows"}, {}, {"rows"})

NoticeLoad == LoadScript({<<"notice", "cases.getBankNotice">>})

NoticeSubmit ==
    [Script EXCEPT
       !.busy = {"saving"}, !.hushes = {"error", "notice"},
       !.steps = <<Step({<<"notice", "cases.respondToNotice">>})>>,
       !.says = TRUE]

\* The form is also gone when the notice has been answered, which is up to the
\* server: the page with the form allows more.
NoticeView(v) ==
    PageView({"notice"},
             When(Shown(v, "notice") /\ "saving" \notin v.busy, {"submit"}),
             {"notice"})
=============================================================================
