---------------------------- MODULE ConsolePages ----------------------------
(***************************************************************************)
(* One page of the console: its state, the handlers that are running, and  *)
(* the calls they await.  A handler runs from one await to the next in one *)
(* step; in between, the user may start others, other users may write, and *)
(* answers may come late, in another order, or not at all.                 *)
(*                                                                         *)
(* Versions: every write makes a new version of the server's data, a read  *)
(* answers with the version of its moment, a write with its own.           *)
(***************************************************************************)
EXTENDS PageTable, Naturals

CONSTANTS
    PageNames,   \* the pages that are looked at
    Subjects,    \* transaction or proof ids that are typed, or clicked in a row
    MaxWrites,   \* later versions are not told apart (Bound)
    Slots        \* handlers that may run at once (Bound)

ASSUME PagesAssumption ==
    /\ PageNames \subseteq DOMAIN Pages
    /\ MaxWrites \in Nat \ {0}
    /\ Slots \subseteq Nat \ {0}

-----------------------------------------------------------------------------
VARIABLES
    page,
    wired,      \* the addresses without a prefix are forwarded to the API
    view,       \* what the page keeps: see Views
    running,    \* per slot, a handler between two of its steps, or Idle
    db,         \* the version of the server's data
    told,       \* the newest write the page has been told of
    overtaken,  \* a handler was started while another one was running
    failed      \* a handler has failed since the user last started one

vars == <<page, wired, view, running, db, told, overtaken, failed>>

Blank == ""
Subject == Subjects \union {"page"}
Versions == 0..MaxWrites

Values ==
    {Empty} \union [of : Subject \union {Blank}, ver : Versions, html : BOOLEAN]

Handlers == Pages[page].handlers
FlagsOf(p) == UNION {Pages[p].handlers[h].busy : h \in DOMAIN Pages[p].handlers}

Views(p) ==
    [input : Subjects \union {Blank}, busy : SUBSET FlagsOf(p),
     error : BOOLEAN, notice : BOOLEAN,
     slots : [Pages[p].slots -> Values], crashed : BOOLEAN]

Idle == [handler |-> "none"]
Waiting(s) == running[s] # Idle
Quiet == \A s \in Slots : ~ Waiting(s)

\* A call is on its way, or answered with a version, by a text, or refused.
Answers == [state : {"sent", "json", "html", "refused"}, ver : Versions]
Sent(step) == [c \in CallsOf(step) |-> [state |-> "sent", ver |-> 0]]

\* skips: the then-handler is not needed.
IsFrame(f, p) ==
    LET script == Pages[p].handlers[f.handler] IN
    /\ f.handler \in DOMAIN Pages[p].handlers
    /\ f.of \in Subject \union {Blank}
    /\ f.step \in DOMAIN script.steps
    /\ f.got \in [CallsOf(script.steps[f.step]) -> Answers]
    /\ f.clears \subseteq FlagsOf(p) /\ f.skips \in BOOLEAN

TypeOK ==
    /\ page \in PageNames /\ wired \in BOOLEAN
    /\ view \in Views(page)
    /\ \A s \in Slots : Waiting(s) => IsFrame(running[s], page)
    /\ db \in Versions /\ told \in 0..db
    /\ overtaken \in BOOLEAN /\ failed \in BOOLEAN

-----------------------------------------------------------------------------
Later(n) == IF n < MaxWrites THEN n + 1 ELSE n

\* What a handler does to the page before its first await.
Opened(v, script) ==
    [v EXCEPT
       !.busy = @ \union script.busy,
       !.error = @ /\ "error" \notin script.hushes,
       !.notice = @ /\ "notice" \notin script.hushes,
       !.slots = [x \in DOMAIN @ |->
                    IF x \in script.resets THEN Empty ELSE @[x]]]

\* Mutation of Caught: setLoading(false) at the end of try, without finally.
CaughtWithoutFinally(v, script, clears) ==
    [v EXCEPT
       !.error = TRUE,
       !.slots = [x \in DOMAIN @ |->
                    IF x \in script.drops THEN Empty ELSE @[x]]]

\* The catch and finally of a handler.
Caught(v, script, clears) ==
    [v EXCEPT
       !.busy = @ \ clears, !.error = TRUE,
       !.slots = [x \in DOMAIN @ |->
                    IF x \in script.drops THEN Empty ELSE @[x]]]

\* Rendering throws, and the router shows its own error page.
Rendered(v) ==
    [v EXCEPT !.crashed = \E x \in ViewOf(page, v).breaks : v.slots[x].html]

Start(h, of, clears, skips) ==
    [handler |-> h, of |-> of, step |-> 1,
     got |-> Sent(Handlers[h].steps[1]),
     clears |-> clears \union Handlers[h].busy, skips |-> skips]

BlankView(p, input) ==
    [input |-> input, busy |-> {}, error |-> FALSE, notice |-> FALSE,
     slots |-> [x \in Pages[p].slots |-> Empty], crashed |-> FALSE]

\* The page is mounted: its effect runs once, or twice under StrictMode.  One
\* of the two routes of RiskEvaluationPage names no transaction to load.  The
\* box of a page that has one holds something.
Init ==
    /\ page \in PageNames /\ wired \in BOOLEAN
    /\ \E input \in Subjects, runs \in 0..2 :
         LET mount == Pages[page].mount
             Of(h) == IF Handlers[h].subject = "typed" THEN input ELSE "page"
         IN
         /\ mount = {} => runs = 0
         /\ mount # {} /\ page # "RiskEvaluationPage" => runs # 0
         /\ IF runs = 0
              THEN /\ view = BlankView(page, input)
                   /\ running = [s \in Slots |-> Idle]
              ELSE \E h \in mount :
                     /\ view = Opened(BlankView(page, input), Handlers[h])
                     /\ running = [s \in Slots |->
                                     IF s <= runs THEN Start(h, Of(h), {}, FALSE)
                                                  ELSE Idle]
    /\ db = 0 /\ told = 0 /\ overtaken = FALSE /\ failed = FALSE

-----------------------------------------------------------------------------
Type(input) ==
    /\ ~ view.crashed
    /\ \E h \in DOMAIN Handlers : Handlers[h].subject = "typed"
    /\ input = Blank => \E h \in DOMAIN Handlers : Handlers[h].needsInput
    /\ view' = [view EXCEPT !.input = input]
    /\ UNCHANGED <<page, wired, running, db, told, overtaken, failed>>

Asked(h) == IF Handlers[h].subject = "typed" THEN {view.input}
            ELSE IF Handlers[h].subject = "row" THEN Subjects ELSE {"page"}

CanUse(h) ==
    ~ view.crashed /\ h \in DOMAIN Handlers /\ h \in ViewOf(page, view).controls

\* Enter a transaction ID first.
ClickBlank(h) ==
    /\ CanUse(h) /\ Handlers[h].needsInput /\ view.input = Blank
    /\ view' = [view EXCEPT !.error = TRUE]
    /\ failed' = TRUE
    /\ UNCHANGED <<page, wired, running, db, told, overtaken>>

\* A handler without a call is over at once.
ClickAtOnce(h) ==
    /\ CanUse(h) /\ Handlers[h].steps = << >>
    /\ view' = Opened(view, Handlers[h])
    /\ failed' = FALSE
    /\ UNCHANGED <<page, wired, running, db, told, overtaken>>

Free == {s \in Slots : ~ Waiting(s)}

Click(s, h, of) ==
    LET script == Handlers[h]
        skips == script.unless # "" /\ view.slots[script.unless].of = of
    IN
    /\ CanUse(h) /\ script.steps # << >>
    /\ ~ (script.needsInput /\ view.input = Blank)
    /\ \A t \in Free : s <= t
    /\ view' = Opened(view, script)
    /\ running' = [running EXCEPT ![s] = Start(h, of, {}, skips)]
    /\ overtaken' = (overtaken \/ ~ Quiet)
    /\ failed' = FALSE
    /\ UNCHANGED <<page, wired, db, told>>

-----------------------------------------------------------------------------
\* The calls a handler awaits.
Pending(s) ==
    IF Waiting(s)
      THEN {c \in DOMAIN running[s].got : running[s].got[c].state = "sent"}
      ELSE {}

Answer(s, c, state, ver) ==
    running' = [running EXCEPT ![s].got[c] = [state |-> state, ver |-> ver]]

Reached(c) == wired \/ Call[c].prefixed

\* Mutation of Serve: answered before the write is stored.
ServeEarly(s, c) ==
    /\ Reached(c)
    /\ Answer(s, c, "json", IF Call[c].writes THEN Later(db) ELSE db)
    /\ UNCHANGED <<page, wired, view, db, told, overtaken, failed>>

Serve(s, c) ==
    /\ Reached(c)
    /\ db' = IF Call[c].writes THEN Later(db) ELSE db
    /\ Answer(s, c, "json", db')
    /\ UNCHANGED <<page, wired, view, told, overtaken, failed>>

\* The console's own server answers a GET with the application's first page,
\* and refuses a POST.
ServeHtml(s, c) ==
    /\ ~ Reached(c)
    /\ Answer(s, c, IF Call[c].writes THEN "refused" ELSE "html",
              IF Call[c].writes THEN 0 ELSE db)
    /\ UNCHANGED <<page, wired, view, db, told, overtaken, failed>>

\* A refusal, a network failure, or a time limit; the write may have happened.
Refuse(s, c) ==
    /\ \/ db' = db
       \/ Reached(c) /\ Call[c].writes /\ db' = Later(db)
    /\ Answer(s, c, "refused", 0)
    /\ UNCHANGED <<page, wired, view, told, overtaken, failed>>

\* Versions are told apart on the pages that write (Bound).
OthersWrite ==
    /\ \E h \in DOMAIN Handlers : \E c \in AwaitedBy(Handlers[h]) : Call[c].writes
    /\ db' = Later(db)
    /\ UNCHANGED <<page, wired, view, running, told, overtaken, failed>>

-----------------------------------------------------------------------------
StepOf(f) == Handlers[f.handler].steps[f.step]

\* Promise.all rejects with the first refusal; summary throws on a text once
\* both answers are there.
Rejected(f) ==
    LET states == {f.got[c].state : c \in DOMAIN f.got} IN
    IF StepOf(f).tolerant THEN "html" \in states /\ "sent" \notin states
                          ELSE "refused" \in states

Resolved(f) ==
    /\ \A c \in DOMAIN f.got : f.got[c].state # "sent"
    /\ ~ Rejected(f)

\* The slots after a step that was resolved.
Filled(v, f) ==
    LET Value(c) == IF f.got[c].state = "refused" THEN Empty
                    ELSE [of |-> f.of, ver |-> f.got[c].ver,
                          html |-> f.got[c].state = "html"]
    IN  [v EXCEPT !.slots = [x \in DOMAIN @ |->
           IF \E fill \in StepOf(f).fills : fill[1] = x
             THEN Value((CHOOSE fill \in StepOf(f).fills : fill[1] = x)[2])
             ELSE @[x]]]

ToldBy(f) ==
    LET written == {f.got[c].ver : c \in {c \in DOMAIN f.got : Call[c].writes}}
    IN  IF \E n \in written : n > told
          THEN CHOOSE n \in written : n > told ELSE told

Fail(s) ==
    LET f == running[s] IN
    /\ Waiting(s) /\ ~ view.crashed
    /\ Rejected(f)
    /\ view' = Rendered(Caught(view, Handlers[f.handler], f.clears))
    /\ running' = [running EXCEPT ![s] = Idle]
    /\ failed' = TRUE
    /\ UNCHANGED <<page, wired, db, told, overtaken>>

NextStep(s) ==
    LET f == running[s] IN
    /\ Waiting(s) /\ ~ view.crashed
    /\ Resolved(f) /\ f.step < Len(Handlers[f.handler].steps)
    /\ view' = Rendered(Filled(view, f))
    /\ running' = [running EXCEPT ![s].step = @ + 1,
                     ![s].got = Sent(Handlers[f.handler].steps[f.step + 1])]
    /\ told' = ToldBy(f)
    /\ UNCHANGED <<page, wired, db, overtaken, failed>>

Last(f) == Resolved(f) /\ f.step = Len(Handlers[f.handler].steps)
Said(v, f) == [v EXCEPT !.notice = @ \/ Handlers[f.handler].says]

\* The handler awaits another one of the page, which starts at once.
GoOn(s) ==
    LET f == running[s]
        next == Handlers[f.handler].then
    IN
    /\ Waiting(s) /\ ~ view.crashed
    /\ Last(f) /\ next # "" /\ ~ f.skips
    /\ view' = Rendered(Opened(Said(Filled(view, f), f), Handlers[next]))
    /\ running' = [running EXCEPT ![s] = Start(next, f.of, f.clears, FALSE)]
    /\ told' = ToldBy(f)
    /\ UNCHANGED <<page, wired, db, overtaken, failed>>

Finish(s) ==
    LET f == running[s] IN
    /\ Waiting(s) /\ ~ view.crashed
    /\ Last(f) /\ (Handlers[f.handler].then = "" \/ f.skips)
    /\ view' = Rendered([Said(Filled(view, f), f) EXCEPT !.busy = @ \ f.clears])
    /\ running' = [running EXCEPT ![s] = Idle]
    /\ told' = ToldBy(f)
    /\ UNCHANGED <<page, wired, db, overtaken, failed>>

Resume(s) == Fail(s) \/ NextStep(s) \/ GoOn(s) \/ Finish(s)

Next ==
    \/ \E input \in Subjects \union {Blank} : Type(input)
    \/ \E h \in DOMAIN Handlers :
         \/ ClickBlank(h) \/ ClickAtOnce(h)
         \/ \E s \in Free, of \in Asked(h) : Click(s, h, of)
    \/ \E s \in Slots :
         \/ \E c \in Pending(s) : Serve(s, c) \/ ServeHtml(s, c) \/ Refuse(s, c)
         \/ Resume(s)
    \/ OthersWrite

Spec == Init /\ [][Next]_vars

\* The client gives up on a call of its own accord.
TimeOut(s) == \E c \in Pending(s) : Call[c].bounded /\ Refuse(s, c)

\* Timers fire and continuations run.  Nothing is assumed of the server.
FairSpec ==
    /\ Spec
    /\ \A s \in Slots : WF_vars(TimeOut(s)) /\ WF_vars(Resume(s))

-----------------------------------------------------------------------------
(* Properties *)

\* A page whose handlers ran one at a time shows the last write it was told of,
\* or an error: every handler that writes shows its answer or loads again,
\* whatever others write and whichever call fails.
StaleOnlyIfOvertaken ==
    (Quiet /\ ~ overtaken /\ ~ view.error /\ ~ view.crashed) =>
      \A x \in DOMAIN view.slots :
        view.slots[x] # Empty => view.slots[x].ver >= told

\* The error banner tells how the last handler ended: no load that follows, and
\* no second run of the effect, takes away the message of a failure.
BannerTellsOutcome ==
    (Quiet /\ ~ overtaken /\ ~ view.crashed) => (view.error <=> failed)

\* What is shown together is about one transaction, or one proof, although the
\* search box, the row and the slots are separate pieces of state.
Related ==
    CASE page = "RiskEvaluationPage" -> {"workflow", "result"}
      [] page = "ScreeningResultsPage" ->
           {"workflow", "screeningResponse", "riskUpdate"}
      [] page = "ProofsPage" -> {"selectedProof", "verification"}
      [] OTHER -> {}

PartsAgree ==
    ~ overtaken =>
      \A x, y \in Related \intersect ViewOf(page, view).panels :
        (Shown(view, x) /\ Shown(view, y)) =>
          view.slots[x].of = view.slots[y].of

\* A form is not submitted a second time while the first submission runs,
\* though other handlers of the page start and end meanwhile.  The four pages
\* that do not disable their buttons are left out.
NeverDisabled == {"TransactionReviewPage", "AnomalyCaseDetailPage",
                  "PendingUsersPage", "UserManagementPage"}

Submits(s) ==
    /\ Waiting(s)
    /\ \E c \in DOMAIN running[s].got : Call[c].writes

NoDoubleSubmit ==
    page \notin NeverDisabled =>
      \A s, t \in Slots : (Submits(s) /\ Submits(t)) => s = t

\* A text in place of an answer takes down the pages of the calls without a
\* prefix, the institution's dashboard among them, and no other.
OnlyCasePagesGoDown ==
    view.crashed =>
      /\ ~ wired
      /\ page \in {"InstitutionDashboardPage", "BankAnomalyNoticesPage",
                   "BankAnomalyNoticeDetailPage", "AnomalyCasesPage",
                   "AnomalyCaseDetailPage"}

TimeLimited ==
    {p \in PageNames : \A h \in DOMAIN Pages[p].handlers :
       \A c \in AwaitedBy(Pages[p].handlers[h]) : Call[c].bounded}

\* These pages have at most one flag besides loading.
Loading == page \in TimeLimited /\ "loading" \in view.busy
Sending == page \in TimeLimited /\ view.busy \ {"loading"} # {}

\* Where every call has a time limit, no spinner stays and no button remains
\* disabled, even if the server never answers.
SpinnersStop ==
    /\ Loading ~> (~ Loading \/ view.crashed)
    /\ Sending ~> (~ Sending \/ view.crashed)
=============================================================================
