# Verification of the AML SMPC platform

TLA+ models of the services and the console under `aml-system/`, the TLC runs that check them on
small instances, and TLAPS proofs for all instances. `PROJECT.json` lists runs, mutants, hazards,
findings and theorems, and maps every definition to the lines it models. Abbreviations: *backend* is
`services/regulator-api/backend/src`, *frontend* is `services/regulator-api/frontend/src`.

## 1. The system

| part | state | operations |
|---|---|---|
| regulator API, transaction workflow (backend `transactions.rs`) | `transaction_workflow_requests`; risk columns of `transactions` | create, submit for review, approve, reject, evaluate risk, run screening, generate proofs |
| regulator API, accounts and sessions (backend `auth.rs`) | `app_users`, `user_approval_requests`; tokens live with their holders | register, login, me, approve, reject, activate, deactivate; role and permission checks |
| regulator API, anomaly cases (backend `anomaly_cases.rs`) | `anomaly_cases`, `anomaly_case_banks` | open, close, view notice, answer notice |
| regulator API, reads (backend `db.rs`, `routes.rs`, `proofs.rs`, `audit.rs`) | none | lists of transactions, proofs, audit events |
| encryption service (`services/encryption-service`) | `transactions`, `audit_logs` | submit: check the tx_id, screen sender and receiver, record |
| SMPC runtime (`services/smpc-orchestrator/runtime`) | none | three-bank screening, compatibility screening |
| zk prover and verifier (`services/zk-prover`) | `proofs` | generate the three FATF proofs, verify one |
| HE bridge and older runtime (`services/he-orchestrator`) | none (a thread-local error) | encrypt, sum, decrypt; run an MP-SPDZ script |
| console, pages (frontend `pages/`, `api/`) | per page: the data shown, the input box, busy flags, error and notice | load, act on what is typed or on a row, load again |
| console, session (frontend `auth/`, `routes/`, `components/`) | one entry of the browser's storage; copies of it in the layout, the menu and the guard of every tab | login, logout, open, reload, follow a link, redirect, storage event, start to listen |
| database (`infra/postgres/migrations`) | the tables | keys, CHECKs, seeds |

**Interactions.** Everything meets in one Postgres database. The regulator API calls the encryption
service (`run_screening`) and the prover (`generate_proofs`) over HTTP and waits for them without a
timeout; the encryption service calls the SMPC runtime once per entity. All of them read and write
`transactions` and `audit_logs`. The console calls the regulator API, partly with a time limit of 10
or 15 s and partly without; integration scripts (and a console page no route leads to any more) also
call the encryption service and the prover directly, past the workflow. Tabs of one browser share
the stored session and tell each other of changes by storage events.

**What is hard.** Each request is its own tokio task; each SQL statement commits by itself unless a
database transaction is opened, which only the encryption service, account registration and
decisions and case opening do. Handlers check a status, await other services and then write without
a second look. A browser that gives up aborts the handler at any await while the called service goes
on. Nothing is retried automatically; users retry, and a retry meets what the first attempt left
behind. Tokens carry role and permissions for eight hours, whatever happens to the account. In the
console, several handlers of a page run at once, each through several awaits, their answers come in
any order, and they share flags, banners and slots; guards work on copies of the session that lag
behind, and that are read some time before they start to listen for changes.

**What makes each part correct.**

- *Workflow*: a status says something about the tables of other services: screened means the
  evidence exists, proof_generated that a full, true set of proofs exists; nothing is screened that
  nobody decided; a screening is recorded and linked at most once; requests end.
- *Accounts*: two tables tell one story; tokens are only for decided accounts; decisions are not
  undone by races; stale tokens die out.
- *Cases*: case, notices and audit event come together or not at all; notices only move forward;
  answers come from the notified bank.
- *SMPC runtime*: overlap count and risk level are those of their definitions, also at thresholds
  and at the integer limit.
- *Pages*: what is on the screen is current, or says that it failed; pieces shown together are about
  the same thing; a form is not sent twice; spinners end.
- *Session*: a tab that lags behind will be told, and a logout reaches all tabs, but for copies that
  did not listen yet when the event came; redirects end, for each role; the menu leads to pages
  whose calls the server answers.

## 2. Modules

```
Roles -----------+       RiskRules ----------- RiskScore      PageScript
  |      |       |           |                     |         /    |     \
  |   Routes  ConsoleApi  SharedTables ------------+  Institution Regulator Account
  |      |       |          /       \              |    Pages      Pages     Pages
  |      |       |  EncryptionService ZkProver     |       \        |        /
  |      |       |          \       /              |        +-------+-------+
  +------|-------|-----> TxWorkflow   ScreeningTrail                |
  |      |       |        |      \      /          |                |
  |      |       |        |    TxRefinement        |                |
  |      |       |   TxWorkflow_proofs   |         |                |
  |      |       |          \            |         |                |
  |      |       |          TxTrail_proofs         |                |
  +------|-------|-----> AnomalyCases <------------+                |
  |      |       |          AnomalyCases_proofs                     |
  +------|-------|-----> UserLifecycle    SmpcRuntime               |
         |       |          UserLifecycle_proofs   SmpcRuntime_proofs|
         |       +------------------ PageTable ---------------------+
         |                            /    |   \
         |                           /     |  ConsolePages
         |                          /      |         |
         +------- BrowserSession --+  PageTable_proofs
                     |             \     /       |
                  BrowserSession_proofs   ConsolePages_proofs
```

`MC<Module>` gives the constants of a module their values for TLC.

- **Roles**: role names and `permissions_for_role`; `Holds(role, permission)` is what
  `require_permission` finds in the token.
- **RiskRules**: the seven seeded rules, and which of them an evaluation (`EvaluationHits`) and a
  screening (`ScreeningHits`) trigger. A payload is a record of the facts the code asks of it: does
  it decode, are both institutions there, is it cross-border, is the amount high, does it declare an
  overlap, which of the searched words occur in its text. Some words contain others
  (`WithSubstrings`). **RiskScore** adds weights and thresholds.
- **SharedTables**: `row` (`transactions` by tx_id) and `audit` (`audit_logs`, as counts per tx_id
  and event type: the code only ever counts them or asks whether there is one).
- **EncryptionService**: `submit_transaction` in its awaits: check, screen, commit. `enc[c]` is the
  call of caller c in flight and then the answer that waits for it.
- **ZkProver**: `generate_proofs_for_tx`: fetch row, fetch audit, three inserts. `proofs[i]` is a
  set of (rule, signal, status), since repeated proofs differ only in id and time.
- **TxWorkflow**: the seven handlers, composed with both services. `wf` is the workflow table,
  `req[r]` the handler that runs in request slot r, with what it read: `pc` is the await it stands
  at. One action is one statement and what the handler decides from it. `Abort` ends a handler at
  any await; its call goes on and the answer is dropped (`DropEncReply`, `DropZkReply`). `Clients`
  call the services directly.
- **ScreeningTrail**: the abstract specification: what the three services owe a transaction. A
  submission is recorded once, linked to its workflow once and after a decision; a workflow passes
  screening only when linked and is complete only with a proof of every rule; it may be reopened.
  **TxRefinement** instantiates it with the tables of `TxWorkflow` and states `TrailKept`.
- **UserLifecycle**: accounts, requests, tokens and handlers (`sess[h]`) of `auth.rs`: a read, then
  the write, with other handlers in between.
- **AnomalyCases**: `anomaly_cases.rs`; `Submit` and `StoreRisk` stand for the submissions and
  evaluations that make and change the evidence meanwhile.
- **SmpcRuntime**: both screenings as operators, in a request and answer loop. The loops of the code
  are folds: over the parties, over the references of one, over the scores.
- **ConsoleApi**: each call of the console: does it write, is it limited in time, does its address
  lead to the API, whom does its handler admit: the holders of a permission and, for most calls about
  cases, of those the roles the handler names (`CaseOverseers`, `CaseClosers`, `NoticeReaders`).
- **PageScript**, **InstitutionPages**, **RegulatorPages**, **AccountPages**, **PageTable**: the 22
  pages that call the API. All handlers of all pages have one form (guard, busy flags, steps of
  awaited calls, catch, finally, a reload that follows), so a handler is a record, its script, and a
  page's view (controls that can be used, panels that are shown, fields whose rendering needs a
  list) an operator on its state.
- **ConsolePages** runs one of these pages: `running[s]` is a handler between two awaits, `view` the
  page's React state, `db` a version number of the server's data that every write raises. Users
  click and type, others write, answers come in any order, are refused, or are a page of HTML where
  the server in front of the API does not forward the address (`wired`).
- **Routes**: the route table, role groups, dashboards, menu and links. **BrowserSession**: tabs,
  each with its path and up to three copies of the stored session, logins in flight, redirects
  (`ProtectedRoute` and `Navigate` elements) and storage events. A rendering (`Rendered`) reads the
  session for what is mounted new (`deaf`); `Subscribe` is the effect that makes it listen. An event
  in between passes it by (`missed`), as `useAuthSession` does not read again.

**Abstractions.** Hashes, texts, times, names, `last_error`, started and finished stamps and field
validation other than the one shown are left out. Read-only handlers are left out (they change
nothing). A database transaction is one step: Postgres isolates it, and the statements in it depend
on each other only through rows one UPDATE or UNIQUE key guards. The encryption service's two SMPC
calls are merged with its commit: they read and write nothing shared. The stamp
`screening_started_at` is merged with the call after it. A request slot is used again only when the
calls it made are over, so an aborted run and a new one use two slots. Accounts are named by their
email; a user's password and a token's signature are always right. Organizations do not change. Of a
page's inputs only the box with the transaction id is kept; filters, other fields and layout are
left out. Of React the models assume that state set in one step is rendered after it, and of React
Router what `BrowserSession` says in its header.

## 3. Runs

| run | question | expects |
|---|---|---|
| `workflow_handlers` | all seven endpoints, two requests at a time, aborts and failing services, a tx_id and the same with a blank before it, which the workflow trims and the encryption service does not: types, `ReviewedBeforeScreening`, `ScreenedHasEvidence`, `ScreeningLinkedOnce`, `ProofSetComplete`; `StrandedForever`: once a row exists that no screening of the workflow accounts for, no retry reaches screened; `TrailKept`: the services implement `ScreeningTrail` | pass |
| `workflow_claims` | `ProofsSound`, `WorkflowProofsHold`: claims stay true of the tables, with blank institutions, repeated evaluations and a caller past the workflow; `ScreenedHasEvidence` next to that caller | pass |
| `workflow_live` | `EveryRequestEnds`; `AcceptedScreeningLands`: a screening that the service accepted is not lost to a second one that is refused, unless a decision or a resubmission has the last word; also with a payload the encryption service cannot decode | pass |
| `users` | types, `RequestsMatchAccounts`, `TokensFollowApproval`, `DecisionsStand`, `StaleTokensEnd` | pass |
| `cases` | types, `CasesAccountedFor`, `AnswersFromOwnBank`, `NoticesMoveForward` | pass |
| `smpc` | `OverlapsAreShared`, `LevelWithinScores` | pass |
| `pages` | for each of 22 pages: types; `StaleOnlyIfOvertaken`: a page shows the last write it was told of unless handlers overtook each other; `BannerTellsOutcome`; `PartsAgree`; `NoDoubleSubmit`; `OnlyCasePagesGoDown`; `SpinnersStop`, on the pages all of whose calls have a time limit | pass |
| `session` | types, `LaggingTabsAreTold`, `RedirectOnce`, `MenuPagesMayLoad`, `LogoutReachesEveryTab` | pass |
| `finding_*` | one sentence of the documentation, interface or tests each, which the code contradicts: `ScreenedFromApproved`, `EvaluatedCanBeScreened`, `ListedCanBeApproved`, `SanctionedEntityMatches` | violation |

**Bounds.** `workflow_*`: one transaction (in `workflow_handlers` under two strings, one of them the
other with a blank), because every handler and service works on one tx_id only and no property
relates two transactions; two request slots (`workflow_claims`: one, and a direct caller), so that
any two handlers, or a handler and an outsider, overlap, which is what the hazards need: every
conflict in this code is between one stale read and one write. Request slots are symmetric in
`workflow_handlers`. `MaxEvaluations` is 1, or 2 where evaluations follow one another or are counted
as audit events. `ScreenResults` is reduced to clear in `workflow_handlers`, whose properties do not
look at it. `users`: two handlers, the seeded super admin and one applicant, who may become each
other's or their own super admin's subject, a bank and the platform, and one assignable role next to
super_admin, so that a token's role can differ from the account's. `cases`: one transaction, two
cases, two openings, a regulator and one reviewer of each of two banks; the evidence low or high;
requests that name nobody, a second bank, or an id that is none. `smpc`: parties with five pairs of
reference lists and five score lists around the thresholds and at the integer limit; the limit
1023 stands for `u32::MAX` (`RuntimeAssumption` states what they have in common: divided by the
number of scores, it is still high). `pages`: each page by itself, since pages share
no state but the session; two handlers at once, so that any two overtake each other; two subjects,
so that what is typed and what is shown can differ; one write that is told apart (`MaxWrites` = 1),
enough for data that is old and data that is new; the effect of a page runs once or,
under StrictMode, twice. `session`: two tabs, a bank's administrator and an auditor, who share no
page; users go by themselves to three paths (`Visited`): a guarded one of each, and an old path that
leads to the login page; all others are reached by redirects and logins. One login at a time is under
way in the browser, until its tab has arrived where it leads.

**Deadlock** is checked in every run but those of the accounts and the pages, where the system
really may stop. The only super admin can be activated with another role and, once its tokens have
expired, nobody can decide about accounts; if all are disabled, nobody can log in. A page that has
crashed, or one whose handlers are over and that has no control, just stays.

**Fairness** (`FairSpec`). *Workflow*: weak fairness of each handler and service step: tokio polls
tasks that can run, and Postgres and the two services answer. Clients need not send anything.
`workflow_live` has `Faults = FALSE`: an aborted handler ends and lands nothing, so with aborts
`AcceptedScreeningLands` does not hold, by design of the code. Nor is anything shown about a service
that never answers: the handlers have no timeout of their own. *Accounts*: weak fairness of running
handlers and of each token's expiry (eight hours after issue, `issue_token`); handlers may be
aborted. *Pages*: weak fairness of the client's own time limit on the calls that have one
(`AbortController` in `client.ts`) and of continuations; nothing is assumed of the server, so
`SpinnersStop` speaks of the pages all of whose calls are limited. *Session*: weak fairness of
storage events only; effects may be as late as they like, and users do as they please.

**Findings.** Four disagreements met while modelling, each a run that violates one property and an
entry under `findings` with the quoted line:

- `ScreenedFromApproved`: a rejection during the screening call is overwritten by screened.
- `EvaluatedCanBeScreened`: the documented order evaluate, approve, screen cannot be screened.
- `ListedCanBeApproved`: an activated account stays in the pending list and cannot be decided.
- `SanctionedEntityMatches`: the SMPC runtime never answers match, which its integration test
  expects.

Other behaviour the models have because the code has it, worth knowing and not given a run: an
evaluation after the screening replaces the rules the screening added; a tx_id with surrounding
blanks has its submission events under the untrimmed string and its proofs under the trimmed one; a
super admin can be given another role by activation, and then be disabled; decisions may assign a
role that registration refuses for the organization's type; a second answer to a notice replaces the
first. In the console: the case calls lack the `/api` prefix, so a server that forwards only the
prefixes answers them with HTML and the page goes down; the verification of a proof that is not
selected is cleared by the selection that follows; on four pages nothing is disabled while a
decision is under way; a dashboard takes a failed call for an empty list; a tab that is told of a
login or a logout between a component's first rendering and its effect keeps the old session in that
component until the next event, so that a guarded page can outlive a logout (`authStore.ts`, lines 57
to 73; `LaggingTabsAreTold` and `LogoutReachesEveryTab` say that nothing else makes it so).

## 4. Proofs

All theorems hold for every set of tx_ids, payloads, users, roles of users, request slots, direct
callers, handlers, cases, organizations, tabs, subjects and parties, and for every
`MaxEvaluations`, `MaxWrites` and `MaxU32`, with and without faults, under the named assumptions of
the modules (`PayloadsAssumption`, `NoPayloadAssumption`, `WorkflowAssumption`, `UserAssumption`,
`CaseAssumption`, `SessionAssumption`, `PagesAssumption`, `RuntimeAssumption`): the null values are
no values, a trimmed tx_id is one and stays as it is, the pages are among those of the table, and
the lists of a party are finite and of u32 numbers. TLC evaluates them in the runs. Each proof has
one step per action, and lemmas say once what a step can do to a table.

*Workflow.*

- `TypeCorrect` (`TxWorkflow_proofs`): `Spec => []TypeOK`. `TypeOK` alone is not inductive: a slot
  that is running or a workflow that exists must have a payload, not the null value, for the
  payload's fields to be what they should. `TypeInv` adds that (`PayloadsInUse`).
- `ScreeningReviewed` (`TxWorkflow_proofs`): `Spec => []ReviewedBeforeScreening`. The status is
  written several awaits after it was read, so the invariant must speak of handlers: `ReviewInv`
  says that a decided workflow, and the workflow of a handler past the status check, has a reviewer;
  `ReviewerKept` shows that no step takes a reviewer away.
- `ScreenedEvidence` (`TxWorkflow_proofs`): `Spec => []ScreenedHasEvidence`. `HandlerInv` ties a
  handler's copies to the table (its payload is the workflow's, its call is about that payload, its
  tx_id is the trimmed one); `EvidenceInv` says that a row that does not exist has no submission
  events (so a commit makes exactly one of each) and that a handler that has the service's answer
  has evidence already. Rows and events never go away.
- `StoredProofsSound`, `GeneratedComplete`, `GeneratedHolds` (`TxWorkflow_proofs`). `RunInv` says of a
  run of the prover what it has read that is still true (what a claim needs is never taken from the
  tables: `Truth`) and which proofs it has stored; `HandlerRunInv` ties the run a handler waits for
  to its transaction; together with the status they make `ClaimsInv`.
- `LinkedOnce` (`TxTrail_proofs`): `Spec => []ScreeningLinkedOnce`. A handler is *landing* from the
  service's acceptance to the link. `LinkInv`: at most one handler of a workflow is landing, and
  none once the link is made, because acceptance needs the one commit of its submission.
- `StrandedStays` (`TxTrail_proofs`): `Spec => StrandedForever`: a stranded workflow has no handler
  that is landing or past it, and none can get there, since acceptance needs that there is no row.
- `TrailImplemented` (`TxTrail_proofs`): `Spec => TrailKept`. The mapping: decided are the workflows
  with a reviewer; recorded, linked are the counts of two audit events; stored are the rules of the
  stored proofs; the stage follows the status. Each action is a step of the trail or leaves it
  alone, from `TrailInv` (the invariants above, and that a workflow that does not exist has no
  reviewer).

*Accounts* (`UserLifecycle_proofs`): `TypeCorrect`; `RequestsTellAccounts`, where `AccountWritten`
and `DecisionWrites` say what a handler can make of its account and the account's requests;
`DecisionsAreFinal`, a property of steps; and `TokensVouched`, from `TokenInv`: wherever a token is
held, about to be issued or used, a super admin vouched for its account.

*Cases* (`AnomalyCases_proofs`): `TypeCorrect`; `CasesCounted`, where `AccountInv` adds that a
transaction has finitely many cases, so that counting one more is adding one; `NoticesForward`,
which needs it because an opening must not find notices of its new case; and `AnswersOwned`.

*Session* (`BrowserSession_proofs`): `TypeCorrect` (a tab that waits for a login knows where it will
lead); `LaggingTold`, from `Fresh`: an event leaves a tab with copies that are the stored session's
or were passed by, and a rendering keeps it so, whatever lives on and whatever is mounted new;
`RedirectsEnd`, which goes through each role's dashboard, the role groups of its route, the
redirect's target and the guard that lives on there (`GuardLivesOn`); and `MenuPagesLoad`, which
goes from each role's menu to the pages behind its paths, from these to the calls their effects
make, and from each call to the permission and the roles its handler asks for.

*Pages.* `PageTable_proofs` reads the table: of every page and handler it shows what the automaton's
proofs need and nothing about runs, such as that a handler started by another one is a load, that a
page's effect starts loads only (`PagesWellFormed`), that what a page submits is guarded by one flag
that its button obeys and no other handler takes (`SubmitsGuarded`), that a handler which writes
loads again what it does not fill (`PagesRefresh`) and that slots shown together are filled or
cleared together (`PagesReplace`). `ConsolePages_proofs` is about any number of handlers, subjects
and writes:

- `TypeCorrect`: `Spec => []TypeOK`, from `TypeInv`, which adds that a waiting handler's steps,
  calls and flags are those of its row of the table and that no answer is newer than the database.
- `OthersStayUp`: `[]OnlyCasePagesGoDown`, from `TextInv`: a text comes only for an unprefixed call.
- `SubmittedOnce`: `[]NoDoubleSubmit`. The flag set by one handler could be freed by another that
  ends first; `FlagInv` says that while a handler holds a guarding flag it is set, and nobody else
  holds it.
- `OutcomeTold`: `[]BannerTellsOutcome`. `SoloInv`: unless a handler was started over another one,
  two that run are both the effect's loads; `ErrorInv`: the banner is the last failure's, and a
  handler that will be followed by a load has not failed, so the load takes nothing away.
- `OneSubject`: `[]PartsAgree`. `AgreeInv`: the related slots agree, and what a running handler has
  cleared or checked is still so when its answer is put beside the others.
- `FreshUnlessOvertaken`: `[]StaleOnlyIfOvertaken`. `AnswersInv`: no answer that waits to be shown
  is older than the last write told of; `FreshInv`: only the slots that a write leaves to a later
  load may lag behind, and not when the page is quiet without an error.

*SMPC runtime* (`SmpcRuntime_proofs`): what its folds compute for requests of any size. The library's
induction theorems take an operator, which no prover here can instantiate; its theorem that a
well-founded relation has least elements does not, and gives `SubsetInduction`: a set of subsets that
contains the empty one, and each one whenever it contains it without some member, contains all.

- `OverlapsDefined`: `Spec => []OverlapsAreShared`. The fold over a party's references adds one for
  each in whatever order (`Mentions`), that over the parties makes their tally (`SeenTallied`), and
  what a tally counts twice is what two different parties have (`Several`).
- `LevelsWithin`: `Spec => []LevelWithinScores`. `TotalExists` shows that the recursion of the fold
  defines a function, `TotalBounds` that a total is between as many times the lowest and the highest
  score unless it has met the bound, and `Mean` that dividing keeps it there, or high: the only use
  of the assumption that u32's bound divided by the number of scores is at least 70
  (`RuntimeAssumption`; axum's body limit of 2 MB leaves no request with more).

Every safety and step property that a run checks is the statement of one of these theorems.

**Model-checked only.** Liveness (`EveryRequestEnds`, `AcceptedScreeningLands`, `StaleTokensEnd`,
`SpinnersStop`, `LogoutReachesEveryTab`) stays with TLC: fairness and ENABLED are out of the provers'
reach. The bounds of these runs are in section 3.

## 5. Not modelled

- Numerics of homomorphic encryption (Microsoft SEAL behind a C interface), Halo2's proof system and
  the MP-SPDZ protocol: libraries; the circuits appear by what they accept.
- `he-orchestrator/runtime`: superseded by the SMPC runtime; its two answers are `ScreenResults` of
  the encryption service. The bridge reads its thread-local error in the same thread, with no await
  before it.
- Read endpoints, deployment, monitoring, load tests and scripts: no state changes.
- Pages that no route shows (`ComplianceWorkflowPage`, `HeOperationsPage`,
  `TransactionReviewQueuePage`, the older dashboards and the proof page): they do not run. The
  direct calls of the first are modelled, because scripts make them too.
- Pages that make no call, and what pages keep of forms and filters.
- The browser's back and forward buttons, and the copy of the session that `InstitutionDashboardPage`
  keeps for itself: it asks for notices only if that copy's role may have them, as the one role that
  may open the page does.
- What a page shows after handlers that a user started over one another: `StaleOnlyIfOvertaken`,
  `PartsAgree` and `BannerTellsOutcome` end where `overtaken` begins.

Hazards for which no document says what should happen have no property; each of them says so in its
`note` under `hazards`.
