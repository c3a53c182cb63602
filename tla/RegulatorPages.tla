--------------------------- MODULE RegulatorPages ---------------------------
(***************************************************************************)
(* The pages of regulators and auditors: handlers as scripts, and views.   *)
(***************************************************************************)
EXTENDS PageScript

(* ProofsPage: the proofs of a transaction, one of them selected, and the *)
(* outcome of a verification, shown beside whatever is selected.          *)

ProofsLoad ==
    [LoadScript({<<"proofs", "proofs.listByTransaction">>}) EXCEPT
       !.subject = "typed", !.resets = {"selectedProof", "verification"},
       !.drops = {"proofs"}]

ProofSelect ==
    [Script EXCEPT
       !.subject = "row", !.resets = {"verification"},
       !.steps = <<Step({<<"selectedProof", "proofs.getProof">>})>>,
       !.drops = {"selectedProof"}]

ProofVerify ==
    [Script EXCEPT
       !.subject = "row", !.busy = {"verifying"},
       !.steps = <<Step({<<"verification", "proofs.verifyProof">>})>>,
       !.then = "selectProof", !.unless = "selectedProof"]

ProofSearchForm(v) == When("loading" \notin v.busy, {"loadProofs"})

\* Only the button of the proof that is being verified is disabled; the others
\* overwrite verifyingProofId.
ProofsTable(v) == When(Shown(v, "proofs"), {"selectProof", "verifyProof"})

ProofDetailPanel(v) ==
    When(Shown(v, "selectedProof"), {"selectedProof", "verification"})

ProofsView(v) ==
    PageView({"proofs"} \union ProofDetailPanel(v),
             ProofSearchForm(v) \union ProofsTable(v), {"proofs"})

(* AuditPage *)

AuditLoad ==
    [LoadScript({<<"events", "audit.listByTransaction">>}) EXCEPT
       !.subject = "typed", !.drops = {"events"}]

AuditView(v) ==
    PageView({"events"}, When("loading" \notin v.busy, {"loadAuditTimeline"}),
             {"events"})

(* RegulatorDashboardPage: a call that fails counts as an empty list, and a *)
(* text in place of the cases is an error in summary.                       *)

\* Mutation of SummaryStep: nothing is counted, so that a text gets through.
SummaryStepUncounted ==
    [Step({<<"proofs", "dashboard.proofs">>, <<"cases", "cases.listCases">>})
       EXCEPT !.tolerant = FALSE]

SummaryStep ==
    [Step({<<"proofs", "dashboard.proofs">>, <<"cases", "cases.listCases">>})
       EXCEPT !.tolerant = TRUE]

SummaryLoad == [LoadScript({}) EXCEPT !.steps = <<SummaryStep>>]
SummaryView(v) == PageView({"proofs", "cases"}, {"load"}, {"proofs", "cases"})

(* AnomalyCasesPage, AnomalyCaseDetailPage *)

CasesLoad == LoadScript({<<"cases", "cases.listCases">>})

CasesSubmit ==
    [Script EXCEPT
       !.busy = {"creating"}, !.steps = <<Step({<<"", "cases.createCase">>})>>,
       !.then = "load"]

CasesView(v) ==
    PageView({"cases"},
             {"load"} \union When("creating" \notin v.busy, {"submit"}),
             {"cases"})

CaseLoad == LoadScript({<<"item", "cases.getCase">>})

CaseClose ==
    [Script EXCEPT
       !.hushes = {"error", "notice"},
       !.steps = <<Step({<<"item", "cases.closeCase">>})>>, !.says = TRUE]

\* Shown for any case that the server had not closed.
CaseView(v) == PageView({"item"}, When(Shown(v, "item"), {"closeCase"}), {"item"})

(* ThreeBankSmpcDemoPage *)

SmpcStatus ==
    [Script EXCEPT
       !.busy = {"statusLoading"}, !.steps = <<Step({<<"status", "smpc.status">>})>>]

SmpcRun == LoadScript({<<"result", "smpc.run">>})

SmpcView(v) ==
    PageView({"status", "result"}, When("loading" \notin v.busy, {"runDemo"}), {})
=============================================================================
