------------------------- MODULE ConsolePages_proofs -------------------------
(***************************************************************************)
(* Proofs about a page of the console: what holds however its handlers     *)
(* overlap, whatever is typed and clicked, and in whatever order answers   *)
(* come, for every set of pages, subjects and slots.                       *)
(***************************************************************************)
EXTENDS ConsolePages, PageTable_proofs

(* What the handlers of a page are *)

LEMMA HandlerFacts ==
    ASSUME NEW p \in DOMAIN Pages, NEW h \in DOMAIN Pages[p].handlers
    PROVE  LET script == Pages[p].handlers[h] IN
           /\ h # "none" /\ "error" \in script.hushes
           /\ script.steps = << >> \/ Steady(script)
           /\ script.then # "" =>
                /\ script.then \in DOMAIN Pages[p].handlers
                /\ Loads(Pages[p].handlers[script.then])
           /\ script.needsInput =>
                \A g \in DOMAIN Pages[p].handlers :
                  Pages[p].handlers[g].then = ""
           /\ script.busy \subseteq FlagsOf(p)
<1>1. WellFormed(Pages[p])
  BY PagesWellFormed
<1>2. Pages[p].handlers[h].busy \subseteq FlagsOf(p)
  BY DEF FlagsOf
<1> QED
  BY <1>1, <1>2 DEF WellFormed

LEMMA MountFacts ==
    ASSUME NEW p \in DOMAIN Pages, NEW h \in Pages[p].mount
    PROVE  /\ h \in DOMAIN Pages[p].handlers /\ Pages[p].mount = {h}
           /\ Loads(Pages[p].handlers[h])
<1>1. WellFormed(Pages[p])
  BY PagesWellFormed
<1> QED
  BY <1>1 DEF WellFormed

LEMMA StepNumbers ==
    ASSUME NEW script, script.steps = << >> \/ Steady(script)
    PROVE  /\ script.steps # << >> => 1 \in DOMAIN script.steps
           /\ \A k \in DOMAIN script.steps :
                /\ k \in Nat /\ Len(script.steps) \in Nat
                /\ k < Len(script.steps) => k + 1 \in DOMAIN script.steps
                /\ k <= Len(script.steps)
<1>1. CASE script.steps = << >>
  BY <1>1
<1>2. CASE Steady(script)
  BY <1>2 DEF Steady
<1> QED
  BY <1>1, <1>2

LEMMA LoadsStart ==
    ASSUME NEW script, Loads(script)
    PROVE  script.steps # << >> /\ 1 \in DOMAIN script.steps
<1>1. Len(script.steps) # 0 /\ 1 \in DOMAIN script.steps
  BY DEF Loads, Steady
<1>2. Len(<< >>) = 0
  OBVIOUS
<1> QED
  BY <1>1, <1>2

(* Views *)

\* The second view is the first one without the data in these slots.
Clears(v, w, slots) ==
    /\ DOMAIN w.slots = DOMAIN v.slots
    /\ \A x \in DOMAIN v.slots :
         w.slots[x] = IF x \in slots THEN Empty ELSE v.slots[x]

\* The fields of what a handler makes of a view, at each of its moments.
LEMMA OpenedFields ==
    ASSUME NEW p, NEW v \in Views(p), NEW script, script.busy \subseteq FlagsOf(p)
    PROVE  LET w == Opened(v, script) IN
           /\ w \in Views(p)
           /\ w.input = v.input /\ w.busy = v.busy \union script.busy
           /\ w.error <=> v.error /\ "error" \notin script.hushes
           /\ w.crashed = v.crashed
           /\ Clears(v, w, script.resets)
<1> DEFINE slots == [x \in DOMAIN v.slots |->
                       IF x \in script.resets THEN Empty ELSE v.slots[x]]
<1>1. slots \in [Pages[p].slots -> Values]
  BY DEF Views, Values
<1> HIDE DEF slots
<1>2. Opened(v, script) =
        [v EXCEPT !.busy = v.busy \union script.busy,
                  !.error = v.error /\ "error" \notin script.hushes,
                  !.notice = v.notice /\ "notice" \notin script.hushes,
                  !.slots = slots]
  BY DEF Opened, slots
<1>3. /\ Opened(v, script) \in Views(p)
      /\ Opened(v, script).input = v.input
      /\ Opened(v, script).busy = v.busy \union script.busy
      /\ Opened(v, script).error <=> v.error /\ "error" \notin script.hushes
      /\ Opened(v, script).crashed = v.crashed
      /\ Opened(v, script).slots = slots
  BY <1>1, <1>2 DEF Views
<1> QED
  BY <1>3 DEF slots, Clears

LEMMA CaughtFields ==
    ASSUME NEW p, NEW v \in Views(p), NEW script, NEW clears
    PROVE  LET w == Caught(v, script, clears) IN
           /\ w \in Views(p)
           /\ w.input = v.input /\ w.busy = v.busy \ clears
           /\ w.error /\ w.crashed = v.crashed
           /\ Clears(v, w, script.drops)
<1> DEFINE slots == [x \in DOMAIN v.slots |->
                       IF x \in script.drops THEN Empty ELSE v.slots[x]]
<1>1. slots \in [Pages[p].slots -> Values]
  BY DEF Views, Values
<1> HIDE DEF slots
<1>2. Caught(v, script, clears) =
        [v EXCEPT !.busy = v.busy \ clears, !.error = TRUE, !.slots = slots]
  BY DEF Caught, slots
<1>3. /\ Caught(v, script, clears) \in Views(p)
      /\ Caught(v, script, clears).input = v.input
      /\ Caught(v, script, clears).busy = v.busy \ clears
      /\ Caught(v, script, clears).error
      /\ Caught(v, script, clears).crashed = v.crashed
      /\ Caught(v, script, clears).slots = slots
  BY <1>1, <1>2 DEF Views
<1> QED
  BY <1>3 DEF slots, Clears

\* What an answer leaves in a slot.
Shows(f, c) ==
    IF f.got[c].state = "refused" THEN Empty
    ELSE [of |-> f.of, ver |-> f.got[c].ver, html |-> f.got[c].state = "html"]

LEMMA FilledFields ==
    ASSUME NEW v \in Views(page), NEW f, IsFrame(f, page)
    PROVE  LET w == Filled(v, f) IN
           /\ w \in Views(page)
           /\ w.input = v.input /\ w.busy = v.busy /\ w.error = v.error
           /\ w.crashed = v.crashed /\ DOMAIN w.slots = DOMAIN v.slots
           /\ \A x \in DOMAIN v.slots :
                IF x \in FilledBy(StepOf(f))
                  THEN \E c \in DOMAIN f.got : w.slots[x] = Shows(f, c)
                  ELSE w.slots[x] = v.slots[x]
<1> DEFINE fills == StepOf(f).fills
           Chosen(x) == (CHOOSE fill \in fills : fill[1] = x)[2]
           slots == [x \in DOMAIN v.slots |->
                       IF \E fill \in fills : fill[1] = x
                         THEN Shows(f, Chosen(x)) ELSE v.slots[x]]
<1>1. DOMAIN f.got = {fill[2] : fill \in fills}
  BY DEF IsFrame, StepOf, CallsOf, Handlers
<1>2. \A x : (\E fill \in fills : fill[1] = x) => Chosen(x) \in DOMAIN f.got
  BY <1>1
<1>3. \A c \in DOMAIN f.got : Shows(f, c) \in Values
  BY DEF IsFrame, Answers, Values, Shows
<1>4. slots \in [Pages[page].slots -> Values]
  BY <1>2, <1>3 DEF Views
<1>5. \A x : x \in FilledBy(StepOf(f)) <=> \E fill \in fills : fill[1] = x
  BY DEF FilledBy
<1> HIDE DEF fills, Chosen
<1>6. \A x \in DOMAIN v.slots :
        IF x \in FilledBy(StepOf(f))
          THEN \E c \in DOMAIN f.got : slots[x] = Shows(f, c)
          ELSE slots[x] = v.slots[x]
  BY <1>2, <1>5
<1>7. Filled(v, f) = [v EXCEPT !.slots = slots]
  BY DEF Filled, Shows, Chosen, fills
<1>8. DOMAIN slots = DOMAIN v.slots
  OBVIOUS
<1> HIDE DEF slots
<1>9. /\ Filled(v, f) \in Views(page)
      /\ Filled(v, f).input = v.input /\ Filled(v, f).busy = v.busy
      /\ Filled(v, f).error = v.error /\ Filled(v, f).crashed = v.crashed
      /\ Filled(v, f).slots = slots
  BY <1>4, <1>7 DEF Views
<1> QED
  BY <1>6, <1>8, <1>9

LEMMA SaidFields ==
    ASSUME NEW p, NEW v \in Views(p), NEW f
    PROVE  LET w == Said(v, f) IN
           /\ w \in Views(p)
           /\ w.input = v.input /\ w.busy = v.busy /\ w.error = v.error
           /\ w.crashed = v.crashed /\ w.slots = v.slots
BY DEF Said, Views

LEMMA FreedFields ==
    ASSUME NEW p, NEW v \in Views(p), NEW clears
    PROVE  LET w == [v EXCEPT !.busy = @ \ clears] IN
           /\ w \in Views(p)
           /\ w.input = v.input /\ w.busy = v.busy \ clears
           /\ w.error = v.error /\ w.crashed = v.crashed /\ w.slots = v.slots
BY DEF Views

LEMMA RenderedFields ==
    ASSUME page \in DOMAIN Pages, NEW v \in Views(page)
    PROVE  LET w == Rendered(v) IN
           /\ w \in Views(page)
           /\ w.input = v.input /\ w.busy = v.busy /\ w.error = v.error
           /\ w.slots = v.slots
           /\ w.crashed => \E x \in DOMAIN v.slots : v.slots[x].html
<1> DEFINE breaks == \E x \in ViewOf(page, v).breaks : v.slots[x].html
<1>1. Rendered(v) = [v EXCEPT !.crashed = breaks]
  BY DEF Rendered
<1>2. breaks \in BOOLEAN
  OBVIOUS
<1> HIDE DEF breaks
<1>3. /\ Rendered(v) \in Views(page)
      /\ Rendered(v).input = v.input /\ Rendered(v).busy = v.busy
      /\ Rendered(v).error = v.error /\ Rendered(v).slots = v.slots
      /\ Rendered(v).crashed = breaks
  BY <1>1, <1>2 DEF Views
<1>4. ViewOf(page, v).breaks \subseteq DOMAIN v.slots
  BY BreaksAreSlots DEF Views
<1> QED
  BY <1>3, <1>4 DEF breaks

(* Versions *)

LEMMA Bounds == 0 \in Versions /\ MaxWrites \in Nat
BY PagesAssumption DEF Versions

LEMMA LaterIsLater ==
    ASSUME NEW n \in Versions
    PROVE  n \in Nat /\ Later(n) \in Versions /\ Later(n) >= n
BY PagesAssumption DEF Versions, Later

(* Frames *)

\* A frame has these fields and no others.
Frame(f) ==
    f = [handler |-> f.handler, of |-> f.of, step |-> f.step, got |-> f.got,
         clears |-> f.clears, skips |-> f.skips]

\* The calls of a frame that were just made.
JustSent(f) ==
    \A c \in DOMAIN f.got : f.got[c].state = "sent" /\ f.got[c].ver = 0

\* Started: a handler is between its start and its first await.
Started(f, h, of) ==
    /\ f.handler = h /\ f.of = of /\ f.step = 1
    /\ JustSent(f) /\ DOMAIN f.got = CallsOf(Handlers[h].steps[1])

LEMMA SentAnswers ==
    ASSUME NEW step
    PROVE  /\ Sent(step) \in [CallsOf(step) -> Answers]
           /\ \A c \in CallsOf(step) :
                Sent(step)[c].state = "sent" /\ Sent(step)[c].ver = 0
BY Bounds DEF Sent, Answers

LEMMA FrameBusy ==
    ASSUME NEW p \in DOMAIN Pages, NEW f, IsFrame(f, p)
    PROVE  f # Idle
<1>1. f.handler # "none"
  BY HandlerFacts DEF IsFrame
<1>2. Idle.handler = "none"
  BY DEF Idle
<1> QED
  BY <1>1, <1>2

LEMMA StartFrame ==
    ASSUME page \in DOMAIN Pages, NEW h \in DOMAIN Handlers,
           Handlers[h].steps # << >>, NEW of \in Subject \union {Blank},
           NEW clears, clears \subseteq FlagsOf(page), NEW skips \in BOOLEAN
    PROVE  LET f == Start(h, of, clears, skips) IN
           /\ Frame(f) /\ IsFrame(f, page) /\ f # Idle
           /\ Started(f, h, of) /\ f.skips = skips
           /\ f.clears = clears \union Handlers[h].busy
<1> DEFINE f == Start(h, of, clears, skips)
<1>1. /\ f.handler = h /\ f.of = of /\ f.step = 1 /\ f.skips = skips
      /\ f.clears = clears \union Handlers[h].busy
      /\ f.got = Sent(Handlers[h].steps[1]) /\ Frame(f)
  BY DEF Start, Frame
<1>2. /\ f.got \in [CallsOf(Handlers[h].steps[1]) -> Answers]
      /\ JustSent(f)
  BY <1>1, SentAnswers DEF JustSent
<1>3. 1 \in DOMAIN Handlers[h].steps /\ Handlers[h].busy \subseteq FlagsOf(page)
  BY HandlerFacts, StepNumbers DEF Handlers
<1> HIDE DEF f
<1>4. IsFrame(f, page)
  BY <1>1, <1>2, <1>3 DEF IsFrame, Handlers
<1>5. Started(f, h, of)
  BY <1>1, <1>2 DEF Started
<1> QED
  BY <1>1, <1>4, <1>5, FrameBusy DEF f

LEMMA FirstFrame ==
    ASSUME page \in DOMAIN Pages, NEW h \in DOMAIN Handlers,
           Handlers[h].steps # << >>, NEW of \in Subject \union {Blank},
           NEW skips \in BOOLEAN
    PROVE  LET f == Start(h, of, {}, skips) IN
           /\ Frame(f) /\ IsFrame(f, page) /\ f # Idle
           /\ Started(f, h, of) /\ f.skips = skips
           /\ f.clears = Handlers[h].busy
<1> DEFINE none == {}
           f == Start(h, of, none, skips)
<1>1. none \subseteq FlagsOf(page) /\ none \union Handlers[h].busy = Handlers[h].busy
  OBVIOUS
<1> HIDE DEF none
<1>2. /\ Frame(f) /\ IsFrame(f, page) /\ f # Idle
      /\ Started(f, h, of) /\ f.skips = skips
      /\ f.clears = none \union Handlers[h].busy
  BY <1>1, StartFrame
<1> QED
  BY <1>1, <1>2 DEF none

LEMMA AnswerFrame ==
    ASSUME page \in DOMAIN Pages, NEW f, Frame(f), IsFrame(f, page),
           NEW c \in DOMAIN f.got, NEW a \in Answers
    PROVE  LET g == [f EXCEPT !.got[c] = a] IN
           /\ Frame(g) /\ IsFrame(g, page) /\ g # Idle
           /\ g.handler = f.handler /\ g.of = f.of /\ g.step = f.step
           /\ g.clears = f.clears /\ g.skips = f.skips
           /\ DOMAIN g.got = DOMAIN f.got /\ g.got[c] = a
           /\ \A d \in DOMAIN f.got \ {c} : g.got[d] = f.got[d]
<1> DEFINE g == [f EXCEPT !.got[c] = a]
           got == [f.got EXCEPT ![c] = a]
<1>1. /\ got \in [CallsOf(Pages[page].handlers[f.handler].steps[f.step])
                    -> Answers]
      /\ DOMAIN got = DOMAIN f.got /\ got[c] = a
      /\ \A d \in DOMAIN f.got \ {c} : got[d] = f.got[d]
  BY DEF IsFrame
<1> HIDE DEF got
<1>2. g = [f EXCEPT !.got = got]
  BY DEF got
<1> HIDE DEF g
<1>3. /\ g.handler = f.handler /\ g.of = f.of /\ g.step = f.step
      /\ g.clears = f.clears /\ g.skips = f.skips /\ g.got = got /\ Frame(g)
  BY <1>2 DEF Frame
<1>4. IsFrame(g, page)
  BY <1>1, <1>3 DEF IsFrame
<1> QED
  BY <1>1, <1>3, <1>4, FrameBusy DEF g

LEMMA NextFrame ==
    ASSUME page \in DOMAIN Pages, NEW f, Frame(f), IsFrame(f, page),
           f.step < Len(Handlers[f.handler].steps)
    PROVE  LET g == [f EXCEPT !.step = @ + 1,
                       !.got = Sent(Handlers[f.handler].steps[f.step + 1])]
           IN
           /\ Frame(g) /\ IsFrame(g, page) /\ g # Idle
           /\ g.handler = f.handler /\ g.of = f.of /\ g.step = f.step + 1
           /\ g.clears = f.clears /\ g.skips = f.skips /\ JustSent(g)
<1> DEFINE n == f.step + 1
           got == Sent(Handlers[f.handler].steps[n])
           g == [f EXCEPT !.step = @ + 1, !.got = got]
<1>1. /\ got \in [CallsOf(Handlers[f.handler].steps[n]) -> Answers]
      /\ \A c \in DOMAIN got : got[c].state = "sent" /\ got[c].ver = 0
  BY SentAnswers
<1>0. g = [f EXCEPT !.step = n, !.got = got]
  OBVIOUS
<1> HIDE DEF got, n, g
<1>2. /\ g.handler = f.handler /\ g.of = f.of /\ g.step = n
      /\ g.clears = f.clears /\ g.skips = f.skips /\ g.got = got /\ Frame(g)
  BY <1>0 DEF Frame
<1>3. n \in DOMAIN Handlers[f.handler].steps
  BY HandlerFacts, StepNumbers DEF IsFrame, Handlers, n
<1>4. IsFrame(g, page) /\ JustSent(g)
  BY <1>1, <1>2, <1>3 DEF IsFrame, JustSent, Handlers
<1> QED
  BY <1>2, <1>4, FrameBusy DEF g, got, n

(* The types of the variables *)

\* TypeOK does not say what a frame is made of, nor that no answer is newer
\* than the data of the server.
TypeInv ==
    /\ TypeOK
    /\ running = [s \in Slots |-> running[s]]
    /\ \A s \in Slots : Waiting(s) =>
         /\ Frame(running[s])
         /\ \A c \in DOMAIN running[s].got : running[s].got[c].ver <= db

LEMMA Typed ==
    ASSUME TypeInv
    PROVE  /\ page \in DOMAIN Pages /\ wired \in BOOLEAN
           /\ view \in Views(page) /\ DOMAIN view.slots = Pages[page].slots
           /\ view.error \in BOOLEAN /\ view.crashed \in BOOLEAN
           /\ db \in Versions /\ db \in Nat /\ told \in Nat /\ told <= db
           /\ overtaken \in BOOLEAN /\ failed \in BOOLEAN
           /\ \A s \in Slots : Waiting(s) =>
                /\ IsFrame(running[s], page) /\ Frame(running[s])
                /\ running[s].handler \in DOMAIN Handlers
BY PagesAssumption DEF TypeInv, TypeOK, Views, Versions, IsFrame, Handlers

LEMMA GotTyped ==
    ASSUME TypeInv, NEW s \in Slots, Waiting(s),
           NEW c \in DOMAIN running[s].got
    PROVE  LET a == running[s].got[c] IN
           /\ a.state \in {"sent", "json", "html", "refused"}
           /\ a.ver \in Versions /\ a.ver \in Nat /\ a.ver <= db
<1>1. running[s].got \in [DOMAIN running[s].got -> Answers]
  BY Typed DEF IsFrame
<1>2. running[s].got[c] \in Answers /\ running[s].got[c].ver <= db
  BY <1>1 DEF TypeInv
<1> QED
  BY <1>2, Bounds DEF Answers, Versions

\* What one slot holds is all that an action changes of running.
Only(s) ==
    /\ running' = [t \in Slots |-> running'[t]]
    /\ \A t \in Slots \ {s} : running'[t] = running[t]

LEMMA Put ==
    ASSUME TypeInv, NEW s \in Slots, NEW f, running' = [running EXCEPT ![s] = f]
    PROVE  Only(s) /\ running'[s] = f
BY DEF TypeInv, Only

LEMMA OthersWait ==
    ASSUME NEW s \in Slots, Only(s), NEW t \in Slots \ {s}
    PROVE  running'[t] = running[t] /\ (Waiting(t)' <=> Waiting(t))
BY DEF Only, Waiting

(* What each action does *)

LEMMA ClickDoes ==
    ASSUME TypeInv, NEW h \in DOMAIN Handlers, NEW s \in Free,
           NEW of \in Asked(h), Click(s, h, of)
    PROVE  LET script == Handlers[h]
               f == running'[s]
           IN
           /\ s \in Slots /\ ~ Waiting(s) /\ Only(s) /\ f # Idle
           /\ Frame(f) /\ IsFrame(f, page) /\ Started(f, h, of)
           /\ f.clears = script.busy
           /\ f.skips => /\ script.unless # ""
                         /\ view.slots[script.unless].of = of
           /\ view' = Opened(view, script)
<1> DEFINE script == Handlers[h]
           skips == script.unless # "" /\ view.slots[script.unless].of = of
<1>1. /\ s \in Slots /\ ~ Waiting(s) /\ script.steps # << >>
      /\ running' = [running EXCEPT ![s] = Start(h, of, {}, skips)]
      /\ view' = Opened(view, script)
  BY DEF Click, Free
<1>2. of \in Subject \union {Blank}
  BY DEF Asked, TypeInv, TypeOK, Views, Subject
<1>3. skips \in BOOLEAN
  OBVIOUS
<1>4. Only(s) /\ running'[s] = Start(h, of, {}, skips)
  BY <1>1, Put
<1> DEFINE f == Start(h, of, {}, skips)
<1> HIDE DEF skips
<1>5. /\ Frame(f) /\ IsFrame(f, page) /\ f # Idle
      /\ Started(f, h, of) /\ f.skips = skips /\ f.clears = script.busy
  <2>1. page \in DOMAIN Pages
    BY Typed
  <2> QED
    BY <1>1, <1>2, <1>3, <2>1, FirstFrame
<1> QED
  BY <1>1, <1>4, <1>5 DEF skips

\* Answered: a call of a handler is answered, and nothing else.
Answered(f, g, c) ==
    /\ g.handler = f.handler /\ g.of = f.of /\ g.step = f.step
    /\ g.clears = f.clears /\ g.skips = f.skips
    /\ c \in DOMAIN f.got /\ f.got[c].state = "sent"
    /\ DOMAIN g.got = DOMAIN f.got
    /\ \A d \in DOMAIN f.got \ {c} : g.got[d] = f.got[d]

\* What a call may be answered with.
Comes(a, c) ==
    \/ a.state = "json" /\ a.ver = db'
    \/ a.state = "html" /\ a.ver = db' /\ ~ wired /\ ~ Call[c].prefixed
    \/ a.state = "refused" /\ a.ver = 0

LEMMA AnswerDoes ==
    ASSUME TypeInv, NEW s \in Slots, NEW c \in Pending(s),
           Serve(s, c) \/ ServeHtml(s, c) \/ Refuse(s, c)
    PROVE  LET g == running'[s] IN
           /\ Waiting(s) /\ Only(s) /\ g # Idle
           /\ Frame(g) /\ IsFrame(g, page)
           /\ Answered(running[s], g, c) /\ Comes(g.got[c], c)
           /\ db' \in Versions /\ db' >= db
           /\ UNCHANGED <<page, wired, view, told, overtaken, failed>>
<1> DEFINE f == running[s]
<1>1. /\ Waiting(s) /\ Frame(f) /\ IsFrame(f, page)
      /\ c \in DOMAIN f.got /\ f.got[c].state = "sent"
  BY Typed DEF Pending
<1>2. PICK a \in Answers :
        /\ running' = [running EXCEPT ![s] = [f EXCEPT !.got[c] = a]]
        /\ Comes(a, c)
        /\ db' \in Versions /\ db' >= db
        /\ UNCHANGED <<page, wired, view, told, overtaken, failed>>
  <2>1. CASE Serve(s, c)
    <3> DEFINE a == [state |-> "json", ver |-> db']
    <3>1. db' \in Versions /\ db' >= db
      BY <2>1, LaterIsLater, Typed DEF Serve
    <3>2. a \in Answers /\ Comes(a, c)
      BY <3>1 DEF Answers, Comes
    <3> QED
      BY <2>1, <3>1, <3>2 DEF Serve, Answer
  <2>2. CASE ServeHtml(s, c)
    <3>1. db' = db /\ db' \in Versions /\ db' >= db
      BY <2>2, Typed DEF ServeHtml
    <3> DEFINE a == [state |-> IF Call[c].writes THEN "refused" ELSE "html",
                     ver |-> IF Call[c].writes THEN 0 ELSE db]
    <3>2. a \in Answers /\ Comes(a, c)
      BY <2>2, <3>1, Bounds DEF Answers, Comes, ServeHtml, Reached
    <3>3. running' = [running EXCEPT ![s] = [f EXCEPT !.got[c] = a]]
      BY <2>2 DEF ServeHtml, Answer
    <3>4. UNCHANGED <<page, wired, view, told, overtaken, failed>>
      BY <2>2 DEF ServeHtml
    <3> HIDE DEF a
    <3> QED
      BY <3>1, <3>2, <3>3, <3>4
  <2>3. CASE Refuse(s, c)
    <3> DEFINE a == [state |-> "refused", ver |-> 0]
    <3>1. db' \in Versions /\ db' >= db
      BY <2>3, LaterIsLater, Typed DEF Refuse
    <3>2. a \in Answers /\ Comes(a, c)
      BY Bounds DEF Answers, Comes
    <3> QED
      BY <2>3, <3>1, <3>2 DEF Refuse, Answer
  <2> QED
    BY <2>1, <2>2, <2>3
<1>3. Only(s) /\ running'[s] = [f EXCEPT !.got[c] = a]
  BY <1>2, Put
<1>4. LET g == [f EXCEPT !.got[c] = a] IN
      /\ Frame(g) /\ IsFrame(g, page) /\ g # Idle
      /\ g.handler = f.handler /\ g.of = f.of /\ g.step = f.step
      /\ g.clears = f.clears /\ g.skips = f.skips
      /\ DOMAIN g.got = DOMAIN f.got /\ g.got[c] = a
      /\ \A d \in DOMAIN f.got \ {c} : g.got[d] = f.got[d]
  BY <1>1, AnswerFrame, Typed
<1>5. LET g == running'[s] IN
      /\ Only(s) /\ g # Idle /\ Frame(g) /\ IsFrame(g, page)
      /\ Answered(f, g, c) /\ g.got[c] = a
  BY <1>1, <1>3, <1>4 DEF Answered
<1> QED
  BY <1>1, <1>2, <1>5

\* Down: the page cannot be rendered.
Down(v) == \E x \in DOMAIN v.slots : v.slots[x].html

\* Told: what the page knows of the writes after a step of a handler.
LEMMA ToldDoes ==
    ASSUME TypeInv, NEW s \in Slots, Waiting(s)
    PROVE  LET f == running[s]
               n == ToldBy(f)
           IN
           /\ n \in Nat /\ n >= told /\ n <= db
           /\ \/ n = told
              \/ \E c \in DOMAIN f.got : Call[c].writes /\ n = f.got[c].ver
<1> DEFINE f == running[s]
           written == {f.got[c].ver : c \in {c \in DOMAIN f.got : Call[c].writes}}
<1>1. \A n \in written :
        /\ n \in Nat /\ n <= db
        /\ \E c \in DOMAIN f.got : Call[c].writes /\ n = f.got[c].ver
  <2>1. \A c \in DOMAIN f.got : f.got[c].ver \in Nat /\ f.got[c].ver <= db
    BY GotTyped
  <2> QED
    BY <2>1
<1>2. ToldBy(f) = IF \E n \in written : n > told
                    THEN CHOOSE n \in written : n > told ELSE told
  BY DEF ToldBy
<1> HIDE DEF written, f
<1>3. told \in Nat /\ told <= db
  BY Typed
<1>4. CASE \E n \in written : n > told
  <2>1. ToldBy(f) \in written /\ ToldBy(f) > told
    BY <1>2, <1>4
  <2> QED
    BY <1>1, <1>3, <2>1 DEF f
<1>5. CASE ~ \E n \in written : n > told
  BY <1>2, <1>3, <1>5 DEF f
<1> QED
  BY <1>4, <1>5

LEMMA FailDoes ==
    ASSUME TypeInv, NEW s \in Slots, Fail(s)
    PROVE  LET f == running[s]
               script == Handlers[f.handler]
           IN
           /\ Waiting(s) /\ Only(s) /\ running'[s] = Idle /\ ~ Waiting(s)'
           /\ view' \in Views(page)
           /\ view'.input = view.input /\ view'.busy = view.busy \ f.clears
           /\ view'.error /\ (view'.crashed => Down(view'))
           /\ Clears(view, view', script.drops)
<1> DEFINE f == running[s]
           script == Handlers[f.handler]
           v == Caught(view, script, f.clears)
<1>1. /\ Waiting(s) /\ running' = [running EXCEPT ![s] = Idle]
      /\ view' = Rendered(v)
  BY DEF Fail
<1>2. Only(s) /\ running'[s] = Idle /\ ~ Waiting(s)'
  BY <1>1, Put DEF Waiting
<1>3. /\ v \in Views(page)
      /\ v.input = view.input /\ v.busy = view.busy \ f.clears
      /\ v.error /\ Clears(view, v, script.drops)
  <2>1. view \in Views(page)
    BY Typed
  <2> HIDE DEF script, f
  <2> QED
    BY <2>1, CaughtFields
<1> HIDE DEF v
<1>4. /\ view' \in Views(page)
      /\ view'.input = v.input /\ view'.busy = v.busy /\ view'.error = v.error
      /\ view'.slots = v.slots
      /\ view'.crashed => \E x \in DOMAIN v.slots : v.slots[x].html
  BY <1>1, <1>3, RenderedFields, Typed
<1> QED
  BY <1>1, <1>2, <1>3, <1>4 DEF Down, Clears

\* What a step that is done leaves in the slots.
Fills(v, w, f) ==
    /\ DOMAIN w.slots = DOMAIN v.slots
    /\ \A x \in DOMAIN v.slots :
         IF x \in FilledBy(StepOf(f))
           THEN \E c \in DOMAIN f.got : w.slots[x] = Shows(f, c)
           ELSE w.slots[x] = v.slots[x]

LEMMA NextStepDoes ==
    ASSUME TypeInv, NEW s \in Slots, NextStep(s)
    PROVE  LET f == running[s]
               g == running'[s]
           IN
           /\ Waiting(s) /\ Only(s) /\ Waiting(s)' /\ g # Idle
           /\ Frame(g) /\ IsFrame(g, page)
           /\ g.handler = f.handler /\ g.of = f.of /\ g.step = f.step + 1
           /\ g.clears = f.clears /\ g.skips = f.skips /\ JustSent(g)
           /\ view' \in Views(page)
           /\ view'.input = view.input /\ view'.busy = view.busy
           /\ view'.error = view.error /\ (view'.crashed => Down(view'))
           /\ Fills(view, view', f)
<1> DEFINE f == running[s]
           v == Filled(view, f)
           next == [f EXCEPT !.step = @ + 1,
                      !.got = Sent(Handlers[f.handler].steps[f.step + 1])]
<1>1. /\ Waiting(s) /\ running' = [running EXCEPT ![s] = next]
      /\ view' = Rendered(v) /\ f.step < Len(Handlers[f.handler].steps)
  BY DEF NextStep, TypeInv
<1>2. IsFrame(f, page) /\ Frame(f) /\ page \in DOMAIN Pages
  BY <1>1, Typed
<1>3. /\ Frame(next) /\ IsFrame(next, page) /\ next # Idle
      /\ next.handler = f.handler /\ next.of = f.of
      /\ next.step = f.step + 1 /\ next.clears = f.clears
      /\ next.skips = f.skips /\ JustSent(next)
  BY <1>1, <1>2, NextFrame
<1> HIDE DEF next
<1>4. Only(s) /\ running'[s] = next /\ Waiting(s)'
  BY <1>1, <1>3, Put DEF Waiting
<1>5. /\ v \in Views(page) /\ v.input = view.input /\ v.busy = view.busy
      /\ v.error = view.error /\ Fills(view, v, f)
  BY <1>2, FilledFields, Typed DEF Fills
<1> HIDE DEF v
<1>6. /\ view' \in Views(page)
      /\ view'.input = v.input /\ view'.busy = v.busy /\ view'.error = v.error
      /\ view'.slots = v.slots
      /\ view'.crashed => \E x \in DOMAIN v.slots : v.slots[x].html
  BY <1>1, <1>2, <1>5, RenderedFields
<1> QED
  BY <1>1, <1>3, <1>4, <1>5, <1>6 DEF Down, Fills

LEMMA FinishDoes ==
    ASSUME TypeInv, NEW s \in Slots, Finish(s)
    PROVE  LET f == running[s] IN
           /\ Waiting(s) /\ Only(s) /\ running'[s] = Idle /\ ~ Waiting(s)'
           /\ view' \in Views(page)
           /\ view'.input = view.input /\ view'.busy = view.busy \ f.clears
           /\ view'.error = view.error /\ (view'.crashed => Down(view'))
           /\ Fills(view, view', f)
<1> DEFINE f == running[s]
           v == Filled(view, f)
           w == Said(v, f)
           free == [w EXCEPT !.busy = @ \ f.clears]
<1>1. /\ Waiting(s) /\ running' = [running EXCEPT ![s] = Idle]
      /\ view' = Rendered(free)
  BY DEF Finish
<1>2. IsFrame(f, page) /\ page \in DOMAIN Pages
  BY <1>1, Typed
<1>3. Only(s) /\ running'[s] = Idle /\ ~ Waiting(s)'
  BY <1>1, Put DEF Waiting
<1>4. /\ v \in Views(page) /\ v.input = view.input /\ v.busy = view.busy
      /\ v.error = view.error /\ Fills(view, v, f)
  BY <1>2, FilledFields, Typed DEF Fills
<1> HIDE DEF v
<1>5. /\ w \in Views(page) /\ w.input = v.input /\ w.busy = v.busy
      /\ w.error = v.error /\ w.slots = v.slots
  BY <1>4, SaidFields
<1> HIDE DEF w
<1>6. /\ free \in Views(page) /\ free.input = w.input
      /\ free.busy = w.busy \ f.clears
      /\ free.error = w.error /\ free.slots = w.slots
  BY <1>5, FreedFields
<1> HIDE DEF free
<1>7. /\ view' \in Views(page)
      /\ view'.input = free.input /\ view'.busy = free.busy
      /\ view'.error = free.error /\ view'.slots = free.slots
      /\ view'.crashed => \E x \in DOMAIN free.slots : free.slots[x].html
  BY <1>1, <1>2, <1>6, RenderedFields
<1> QED
  BY <1>1, <1>3, <1>4, <1>5, <1>6, <1>7 DEF Down, Fills

LEMMA GoOnDoes ==
    ASSUME TypeInv, NEW s \in Slots, GoOn(s)
    PROVE  LET f == running[s]
               g == running'[s]
               next == Handlers[f.handler].then
               script == Handlers[next]
           IN
           /\ Waiting(s) /\ Only(s) /\ Waiting(s)' /\ g # Idle
           /\ next # "" /\ next \in DOMAIN Handlers /\ Loads(script)
           /\ Frame(g) /\ IsFrame(g, page) /\ Started(g, next, f.of)
           /\ g.clears = f.clears \union script.busy /\ g.skips = FALSE
           /\ view' \in Views(page) /\ view'.input = view.input
           /\ view'.busy = view.busy \union script.busy
           /\ view'.error <=> view.error /\ "error" \notin script.hushes
           /\ (view'.crashed => Down(view'))
           /\ \E v : Fills(view, v, f) /\ Clears(v, view', script.resets)
<1> DEFINE f == running[s]
           next == Handlers[f.handler].then
           script == Handlers[next]
           start == Start(next, f.of, f.clears, FALSE)
           v == Filled(view, f)
           w == Said(v, f)
           open == Opened(w, script)
<1>1. /\ Waiting(s) /\ running' = [running EXCEPT ![s] = start]
      /\ view' = Rendered(open) /\ next # ""
  BY DEF GoOn
<1>2. IsFrame(f, page) /\ page \in DOMAIN Pages /\ f.handler \in DOMAIN Handlers
  BY <1>1, Typed
<1>3. /\ next \in DOMAIN Handlers /\ Loads(script) /\ script.steps # << >>
      /\ script.busy \subseteq FlagsOf(page)
  BY <1>1, <1>2, HandlerFacts, LoadsStart DEF Handlers
<1>4. /\ Frame(start) /\ IsFrame(start, page) /\ start # Idle
      /\ Started(start, next, f.of) /\ start.skips = FALSE
      /\ start.clears = f.clears \union script.busy
  <2>1. f.of \in Subject \union {Blank} /\ f.clears \subseteq FlagsOf(page)
    BY <1>2 DEF IsFrame
  <2> HIDE DEF next
  <2> QED
    BY <1>2, <1>3, <2>1, StartFrame
<1> HIDE DEF start
<1>5. Only(s) /\ running'[s] = start /\ Waiting(s)'
  BY <1>1, <1>4, Put DEF Waiting
<1>6. /\ v \in Views(page) /\ v.input = view.input /\ v.busy = view.busy
      /\ v.error = view.error /\ Fills(view, v, f)
  BY <1>2, FilledFields, Typed DEF Fills
<1> HIDE DEF v
<1>7. /\ w \in Views(page) /\ w.input = v.input /\ w.busy = v.busy
      /\ w.error = v.error /\ w.slots = v.slots
  BY <1>6, SaidFields
<1> HIDE DEF w
<1>8. /\ open \in Views(page) /\ open.input = w.input
      /\ open.busy = w.busy \union script.busy
      /\ open.error <=> w.error /\ "error" \notin script.hushes
      /\ Clears(w, open, script.resets)
  <2> HIDE DEF script
  <2> QED
    BY <1>3, <1>7, OpenedFields
<1> HIDE DEF open
<1>9. /\ view' \in Views(page)
      /\ view'.input = open.input /\ view'.busy = open.busy
      /\ view'.error = open.error /\ view'.slots = open.slots
      /\ view'.crashed => \E x \in DOMAIN open.slots : open.slots[x].html
  BY <1>1, <1>2, <1>8, RenderedFields
<1>10. Clears(v, view', script.resets)
  BY <1>7, <1>8, <1>9 DEF Clears
<1> HIDE DEF script, next
<1>11. /\ view'.input = view.input /\ view'.busy = view.busy \union script.busy
       /\ view'.error <=> view.error /\ "error" \notin script.hushes
       /\ (view'.crashed => Down(view'))
  BY <1>6, <1>7, <1>8, <1>9 DEF Down
<1>12. \E u : Fills(view, u, f) /\ Clears(u, view', script.resets)
  BY <1>6, <1>10
<1> QED
  BY <1>1, <1>3, <1>4, <1>5, <1>9, <1>11, <1>12 DEF script, next

LEMMA ClickOpens ==
    ASSUME TypeInv, NEW h \in DOMAIN Handlers, view' = Opened(view, Handlers[h])
    PROVE  LET script == Handlers[h] IN
           /\ view' \in Views(page) /\ view'.input = view.input
           /\ view'.busy = view.busy \union script.busy
           /\ ~ view'.error /\ view'.crashed = view.crashed
           /\ Clears(view, view', script.resets)
<1> DEFINE script == Handlers[h]
<1>1. /\ script.busy \subseteq FlagsOf(page) /\ "error" \in script.hushes
      /\ view \in Views(page)
  BY Typed, HandlerFacts DEF Handlers
<1> HIDE DEF script
<1>2. view' = Opened(view, script)
  BY DEF script
<1>3. /\ view' \in Views(page)
      /\ view'.input = view.input /\ view'.busy = view.busy \union script.busy
      /\ view'.error <=> view.error /\ "error" \notin script.hushes
      /\ view'.crashed = view.crashed /\ Clears(view, view', script.resets)
  BY <1>1, <1>2, OpenedFields
<1> QED
  BY <1>1, <1>3 DEF script

\* The page is opened, and its effect, if it has one, runs at most in parallel
\* with itself.
LEMMA InitDoes ==
    ASSUME Init
    PROVE  /\ page \in PageNames /\ page \in DOMAIN Pages /\ wired \in BOOLEAN
           /\ view \in Views(page) /\ ~ view.error /\ ~ view.crashed
           /\ \A x \in DOMAIN view.slots : view.slots[x] = Empty
           /\ running = [s \in Slots |-> running[s]]
           /\ \A s \in Slots : Waiting(s) =>
                \E h \in Pages[page].mount, of \in Subject \union {Blank} :
                  /\ Frame(running[s]) /\ IsFrame(running[s], page)
                  /\ Started(running[s], h, of) /\ ~ running[s].skips
                  /\ running[s].clears = Handlers[h].busy
           /\ db = 0 /\ told = 0 /\ overtaken = FALSE /\ failed = FALSE
<1>1. /\ page \in PageNames /\ page \in DOMAIN Pages /\ wired \in BOOLEAN
      /\ db = 0 /\ told = 0 /\ overtaken = FALSE /\ failed = FALSE
  BY PagesAssumption DEF Init
<1>2. PICK input \in Subjects, runs \in 0..2 :
        LET Of(h) == IF Handlers[h].subject = "typed" THEN input ELSE "page" IN
        IF runs = 0
          THEN /\ view = BlankView(page, input)
               /\ running = [s \in Slots |-> Idle]
          ELSE \E h \in Pages[page].mount :
                 /\ view = Opened(BlankView(page, input), Handlers[h])
                 /\ running = [s \in Slots |->
                                 IF s <= runs THEN Start(h, Of(h), {}, FALSE)
                                              ELSE Idle]
  BY DEF Init
<1> DEFINE blank == BlankView(page, input)
<1>3. /\ blank \in Views(page) /\ ~ blank.error /\ ~ blank.crashed
      /\ \A x \in DOMAIN blank.slots : blank.slots[x] = Empty
  BY DEF BlankView, Views, Values
<1> HIDE DEF blank
<1>4. CASE runs = 0
  <2>1. view = blank /\ running = [s \in Slots |-> Idle]
    BY <1>2, <1>4 DEF blank
  <2> QED
    BY <1>1, <1>3, <2>1 DEF Waiting
<1>5. CASE runs # 0
  <2>1. PICK h \in Pages[page].mount, of \in Subject \union {Blank} :
          /\ view = Opened(blank, Handlers[h])
          /\ running = [s \in Slots |-> IF s <= runs THEN Start(h, of, {}, FALSE)
                                                      ELSE Idle]
    BY <1>2, <1>5 DEF blank, Subject
  <2> DEFINE f == Start(h, of, {}, FALSE)
             script == Handlers[h]
  <2>2. h \in DOMAIN Handlers /\ Loads(script) /\ script.steps # << >>
    BY <1>1, MountFacts, LoadsStart DEF Handlers
  <2>3. script.busy \subseteq FlagsOf(page) /\ "error" \in script.hushes
    BY <1>1, <2>2, HandlerFacts DEF Handlers
  <2>4. /\ Frame(f) /\ IsFrame(f, page) /\ f # Idle
        /\ Started(f, h, of) /\ ~ f.skips /\ f.clears = script.busy
    <3> DEFINE no == FALSE
               g == Start(h, of, {}, no)
    <3>1. no \in BOOLEAN /\ ~ no
      OBVIOUS
    <3> HIDE DEF no
    <3>2. /\ Frame(g) /\ IsFrame(g, page) /\ g # Idle
          /\ Started(g, h, of) /\ g.skips = no /\ g.clears = Handlers[h].busy
      BY <1>1, <2>2, <3>1, FirstFrame
    <3> QED
      BY <3>1, <3>2 DEF no
  <2> HIDE DEF f
  <2>5. /\ running = [s \in Slots |-> running[s]]
        /\ \A s \in Slots : Waiting(s) => running[s] = f
    BY <2>1 DEF Waiting, f
  <2> HIDE DEF script
  <2>6. view = Opened(blank, script)
    BY <2>1 DEF script
  <2>7. /\ view \in Views(page) /\ ~ view.crashed /\ ~ view.error
        /\ Clears(blank, view, script.resets)
    BY <1>3, <2>3, <2>6, OpenedFields
  <2>8. \A x \in DOMAIN view.slots : view.slots[x] = Empty
    BY <1>3, <2>7 DEF Clears
  <2> QED
    BY <1>1, <2>4, <2>5, <2>7, <2>8 DEF script
<1> QED
  BY <1>4, <1>5

LEMMA InitType == ASSUME Init PROVE TypeInv
<1>1. \A s \in Slots : Waiting(s) =>
        /\ Frame(running[s]) /\ IsFrame(running[s], page)
        /\ \A c \in DOMAIN running[s].got : running[s].got[c].ver <= 0
  BY InitDoes DEF Started, JustSent
<1>2. 0 \in Versions /\ 0 \in 0..0
  BY Bounds
<1> QED
  BY <1>1, <1>2, InitDoes DEF TypeInv, TypeOK

\* A step that changes one slot, and is right about it.
LEMMA OneSlotType ==
    ASSUME TypeInv, NEW s \in Slots, Only(s), UNCHANGED <<page, wired>>,
           view' \in Views(page), db' \in Versions, db' >= db,
           told' \in Nat, told' <= db',
           overtaken' \in BOOLEAN, failed' \in BOOLEAN,
           running'[s] # Idle =>
             /\ Frame(running'[s]) /\ IsFrame(running'[s], page)
             /\ \A c \in DOMAIN running'[s].got : running'[s].got[c].ver <= db'
    PROVE  TypeInv'
<1>1. \A t \in Slots : Waiting(t)' =>
        /\ Frame(running'[t]) /\ IsFrame(running'[t], page)
        /\ \A c \in DOMAIN running'[t].got : running'[t].got[c].ver <= db'
  <2> TAKE t \in Slots
  <2> HAVE Waiting(t)'
  <2>1. CASE t = s
    BY <2>1 DEF Waiting
  <2>2. CASE t # s
    <3>1. running'[t] = running[t] /\ Waiting(t)
      BY <2>2, OthersWait
    <3>2. Frame(running[t]) /\ IsFrame(running[t], page)
      BY <3>1, Typed
    <3>3. \A c \in DOMAIN running[t].got :
            running[t].got[c].ver \in Nat /\ running[t].got[c].ver <= db
      BY <3>1, GotTyped
    <3>4. db \in Nat /\ db' \in Nat
      BY Typed, LaterIsLater
    <3> QED
      BY <3>1, <3>2, <3>3, <3>4
  <2> QED
    BY <2>1, <2>2
<1>2. told' \in 0..db'
  BY LaterIsLater
<1>3. page \in PageNames /\ wired \in BOOLEAN
  BY DEF TypeInv, TypeOK
<1> QED
  BY <1>1, <1>2, <1>3 DEF TypeInv, TypeOK, Only

\* A step that starts, ends or answers no handler.
LEMMA NoSlotType ==
    ASSUME TypeInv, UNCHANGED <<page, wired, running, told, overtaken>>,
           view' \in Views(page), db' \in Versions, db' >= db,
           failed' \in BOOLEAN
    PROVE  TypeInv'
<1>1. \A t \in Slots : Waiting(t) =>
        /\ Frame(running[t]) /\ IsFrame(running[t], page)
        /\ \A c \in DOMAIN running[t].got : running[t].got[c].ver <= db'
  <2> TAKE t \in Slots
  <2> HAVE Waiting(t)
  <2>1. Frame(running[t]) /\ IsFrame(running[t], page)
    BY Typed
  <2>2. \A c \in DOMAIN running[t].got :
          running[t].got[c].ver \in Nat /\ running[t].got[c].ver <= db
    BY GotTyped
  <2>3. db \in Nat /\ db' \in Nat
    BY Typed, LaterIsLater
  <2> QED
    BY <2>1, <2>2, <2>3
<1>2. told \in 0..db'
  BY Typed, LaterIsLater
<1>3. /\ page \in PageNames /\ wired \in BOOLEAN /\ overtaken \in BOOLEAN
      /\ running = [s \in Slots |-> running[s]]
  BY DEF TypeInv, TypeOK
<1> QED
  BY <1>1, <1>2, <1>3 DEF TypeInv, TypeOK, Waiting

\* What is typed, what others write and what does not change leave the handlers
\* and what they have put on the page alone.
Aside ==
    /\ UNCHANGED <<page, wired, running, told, overtaken, failed>>
    /\ view' \in Views(page) /\ view'.busy = view.busy
    /\ view'.error = view.error /\ view'.slots = view.slots
    /\ view'.crashed = view.crashed
    /\ db' \in Versions /\ db' >= db

LEMMA AsideDoes ==
    ASSUME TypeInv,
           \/ \E input \in Subjects \union {Blank} : Type(input)
           \/ OthersWrite
           \/ UNCHANGED vars
    PROVE  Aside
<1>0. view \in Views(page) /\ db \in Versions /\ db >= db
  BY Typed
<1>1. CASE \E input \in Subjects \union {Blank} : Type(input)
  BY <1>0, <1>1 DEF Type, Views, Aside
<1>2. CASE OthersWrite
  BY <1>0, <1>2, LaterIsLater DEF OthersWrite, Aside
<1>3. CASE UNCHANGED vars
  BY <1>0, <1>3 DEF vars, Aside
<1> QED
  BY <1>1, <1>2, <1>3

\* The steps of a page, one by one.
LEMMA Steps ==
    ASSUME TypeInv, [Next]_vars
    PROVE  \/ Aside
           \/ \E h \in DOMAIN Handlers :
                \/ ClickBlank(h)
                \/ ClickAtOnce(h)
                \/ \E s \in Free, of \in Asked(h) : Click(s, h, of)
           \/ \E s \in Slots :
                \/ \E c \in Pending(s) :
                     Serve(s, c) \/ ServeHtml(s, c) \/ Refuse(s, c)
                \/ Fail(s) \/ NextStep(s) \/ GoOn(s) \/ Finish(s)
<1>1. CASE Next
  BY <1>1, AsideDoes DEF Next, Resume
<1>2. CASE UNCHANGED vars
  BY <1>2, AsideDoes
<1> QED
  BY <1>1, <1>2

LEMMA BlankDoes ==
    ASSUME TypeInv, NEW h \in DOMAIN Handlers, ClickBlank(h)
    PROVE  /\ UNCHANGED <<page, wired, running, db, told, overtaken>>
           /\ failed' /\ Handlers[h].needsInput
           /\ view' \in Views(page) /\ view'.busy = view.busy
           /\ view'.error /\ view'.slots = view.slots
           /\ view'.crashed = view.crashed
BY Typed DEF ClickBlank, Views

LEMMA TypeStep ==
    ASSUME TypeInv, [Next]_vars
    PROVE  TypeInv'
<1>0. /\ db \in Versions /\ db >= db /\ told \in Nat /\ told <= db
      /\ overtaken \in BOOLEAN /\ failed \in BOOLEAN
      /\ TRUE \in BOOLEAN /\ FALSE \in BOOLEAN
  BY Typed
<1>1. CASE Aside
  BY <1>0, <1>1, NoSlotType DEF Aside
<1>2. ASSUME NEW h \in DOMAIN Handlers, ClickBlank(h)
      PROVE  TypeInv'
  <2>1. failed' \in BOOLEAN /\ db' = db
    BY <1>2 DEF ClickBlank
  <2> QED
    BY <1>0, <1>2, <2>1, BlankDoes, NoSlotType
<1>3. ASSUME NEW h \in DOMAIN Handlers, ClickAtOnce(h)
      PROVE  TypeInv'
  <2>1. /\ view' = Opened(view, Handlers[h]) /\ failed' \in BOOLEAN /\ db' = db
        /\ UNCHANGED <<page, wired, running, told, overtaken>>
    BY <1>3 DEF ClickAtOnce
  <2>2. view' \in Views(page)
    BY <2>1, ClickOpens
  <2> QED
    BY <1>0, <2>1, <2>2, NoSlotType
<1>4. ASSUME NEW h \in DOMAIN Handlers, NEW s \in Free, NEW of \in Asked(h),
             Click(s, h, of)
      PROVE  TypeInv'
  <2>1. /\ UNCHANGED <<page, wired, db, told>> /\ failed' \in BOOLEAN
        /\ overtaken' \in BOOLEAN
    BY <1>4 DEF Click
  <2>2. /\ s \in Slots /\ Only(s) /\ view' = Opened(view, Handlers[h])
        /\ Frame(running'[s]) /\ IsFrame(running'[s], page)
        /\ JustSent(running'[s])
    BY <1>4, ClickDoes DEF Started
  <2>3. view' \in Views(page)
    BY <2>2, ClickOpens
  <2>4. \A c \in DOMAIN running'[s].got : running'[s].got[c].ver <= db'
    BY <1>0, <2>1, <2>2 DEF JustSent, Versions
  <2> QED
    BY <1>0, <2>1, <2>2, <2>3, <2>4, OneSlotType
<1>5. ASSUME NEW s \in Slots, NEW c \in Pending(s),
             Serve(s, c) \/ ServeHtml(s, c) \/ Refuse(s, c)
      PROVE  TypeInv'
  <2> DEFINE f == running[s]
             g == running'[s]
  <2>1. /\ Waiting(s) /\ Only(s) /\ Frame(g) /\ IsFrame(g, page)
        /\ Answered(f, g, c) /\ Comes(g.got[c], c)
        /\ db' \in Versions /\ db' >= db
        /\ UNCHANGED <<page, wired, view, told, overtaken, failed>>
    BY <1>5, AnswerDoes
  <2>2. db' \in Nat /\ told <= db'
    BY <1>0, <2>1, LaterIsLater
  <2>3. \A d \in DOMAIN g.got : g.got[d].ver <= db'
    <3> TAKE d \in DOMAIN g.got
    <3>1. CASE d = c
      BY <2>1, <2>2, <3>1 DEF Comes
    <3>2. CASE d # c
      <4>1. d \in DOMAIN f.got /\ g.got[d] = f.got[d]
        BY <2>1, <3>2 DEF Answered
      <4>2. f.got[d].ver \in Nat /\ f.got[d].ver <= db
        BY <2>1, <4>1, GotTyped
      <4> QED
        BY <1>0, <2>1, <2>2, <4>1, <4>2 DEF Versions
    <3> QED
      BY <3>1, <3>2
  <2>4. view' \in Views(page)
    BY <2>1, Typed
  <2> HIDE DEF g, f
  <2> QED
    BY <1>0, <2>1, <2>2, <2>3, <2>4, OneSlotType DEF g
<1>6. ASSUME NEW s \in Slots, Fail(s)
      PROVE  TypeInv'
  <2>1. /\ UNCHANGED <<page, wired, db, told, overtaken>> /\ failed' \in BOOLEAN
    BY <1>6 DEF Fail
  <2>2. Only(s) /\ running'[s] = Idle /\ view' \in Views(page)
    BY <1>6, FailDoes
  <2> QED
    BY <1>0, <2>1, <2>2, OneSlotType
<1>7. ASSUME NEW s \in Slots, NextStep(s)
      PROVE  TypeInv'
  <2>1. /\ UNCHANGED <<page, wired, db, overtaken, failed>> /\ Waiting(s)
        /\ told' = ToldBy(running[s])
    BY <1>7 DEF NextStep
  <2>2. /\ Only(s) /\ view' \in Views(page)
        /\ Frame(running'[s]) /\ IsFrame(running'[s], page)
        /\ JustSent(running'[s])
    BY <1>7, NextStepDoes
  <2>3. told' \in Nat /\ told' <= db
    BY <2>1, ToldDoes
  <2>4. \A c \in DOMAIN running'[s].got : running'[s].got[c].ver <= db'
    BY <1>0, <2>1, <2>2 DEF JustSent, Versions
  <2> QED
    BY <1>0, <2>1, <2>2, <2>3, <2>4, OneSlotType
<1>8. ASSUME NEW s \in Slots, GoOn(s)
      PROVE  TypeInv'
  <2>1. /\ UNCHANGED <<page, wired, db, overtaken, failed>> /\ Waiting(s)
        /\ told' = ToldBy(running[s])
    BY <1>8 DEF GoOn
  <2>2. /\ Only(s) /\ view' \in Views(page)
        /\ Frame(running'[s]) /\ IsFrame(running'[s], page)
        /\ JustSent(running'[s])
    BY <1>8, GoOnDoes DEF Started
  <2>3. told' \in Nat /\ told' <= db
    BY <2>1, ToldDoes
  <2>4. \A c \in DOMAIN running'[s].got : running'[s].got[c].ver <= db'
    BY <1>0, <2>1, <2>2 DEF JustSent, Versions
  <2> QED
    BY <1>0, <2>1, <2>2, <2>3, <2>4, OneSlotType
<1>9. ASSUME NEW s \in Slots, Finish(s)
      PROVE  TypeInv'
  <2>1. /\ UNCHANGED <<page, wired, db, overtaken, failed>> /\ Waiting(s)
        /\ told' = ToldBy(running[s])
    BY <1>9 DEF Finish
  <2>2. Only(s) /\ running'[s] = Idle /\ view' \in Views(page)
    BY <1>9, FinishDoes
  <2>3. told' \in Nat /\ told' <= db
    BY <2>1, ToldDoes
  <2> QED
    BY <1>0, <2>1, <2>2, <2>3, OneSlotType
<1> QED
  BY Steps, <1>1, <1>2, <1>3, <1>4, <1>5, <1>6, <1>7, <1>8, <1>9

\* The types with what they need to be inductive: which handler a run is of, at
\* which of its steps, and how much of its answers it has.
THEOREM TypeInvariant == Spec => []TypeInv
<1>1. Init => TypeInv
  BY InitType
<1>2. TypeInv /\ [Next]_vars => TypeInv'
  BY TypeStep
<1> QED
  BY <1>1, <1>2, PTL DEF Spec

\* A page, its handlers and the answers they await keep to their types,
\* whatever is clicked and in whatever order answers come.
THEOREM TypeCorrect == Spec => []TypeOK
<1>1. TypeInv => TypeOK
  BY DEF TypeInv
<1> QED
  BY <1>1, TypeInvariant, PTL

(* Texts in place of answers *)

\* A text comes for calls without a prefix only, and where these are forwarded
\* or not made, it does not reach the page.
TextInv ==
    /\ \A s \in Slots : Waiting(s) =>
         \A c \in DOMAIN running[s].got :
           running[s].got[c].state = "html" => ~ wired /\ ~ Call[c].prefixed
    /\ (wired \/ page \notin CasePages) => ~ view.crashed /\ ~ Down(view)

LEMMA EmptyIsPlain == ~ Empty.html
BY DEF Empty

LEMMA ClearedIsPlain ==
    ASSUME NEW v, NEW w, NEW slots, Clears(v, w, slots), ~ Down(v)
    PROVE  ~ Down(w)
BY EmptyIsPlain DEF Clears, Down

LEMMA FilledIsPlain ==
    ASSUME NEW v, NEW w, NEW f, Fills(v, w, f), ~ Down(v),
           \A c \in DOMAIN f.got : f.got[c].state # "html"
    PROVE  ~ Down(w)
<1>1. \A c \in DOMAIN f.got : ~ Shows(f, c).html
  BY EmptyIsPlain DEF Shows
<1> QED
  BY <1>1 DEF Fills, Down

\* A step that takes a text for an answer is on a page of the cases.
LEMMA NoText ==
    ASSUME TypeInv, TextInv, wired \/ page \notin CasePages,
           NEW s \in Slots, Waiting(s), Resolved(running[s]),
           NEW c \in DOMAIN running[s].got
    PROVE  running[s].got[c].state # "html"
<1> DEFINE f == running[s]
           script == Handlers[f.handler]
<1>1. CASE wired
  BY <1>1 DEF TextInv
<1>2. CASE page \notin CasePages
  <2>1. /\ f.handler \in DOMAIN Handlers /\ f.step \in DOMAIN script.steps
        /\ DOMAIN f.got = CallsOf(script.steps[f.step])
    BY Typed DEF IsFrame, Handlers
  <2>2. Prefixed(script)
    BY <1>2, <2>1, Typed, OthersPrefixed DEF Handlers
  <2>3. CASE Call[c].prefixed
    BY <2>3 DEF TextInv
  <2>4. CASE script.steps[f.step].tolerant
    <3>1. StepOf(f).tolerant
      BY <2>4 DEF StepOf
    <3>2. ~ Rejected(f) /\ \A d \in DOMAIN f.got : f.got[d].state # "sent"
      BY DEF Resolved
    <3> QED
      BY <3>1, <3>2 DEF Rejected
  <2> QED
    BY <2>1, <2>2, <2>3, <2>4 DEF Prefixed
<1> QED
  BY <1>1, <1>2

LEMMA TextAlone ==
    ASSUME TypeInv, TextInv, NEW s \in Slots, Only(s), wired' = wired,
           running'[s] # Idle =>
             \A c \in DOMAIN running'[s].got :
               running'[s].got[c].state = "html" => ~ wired /\ ~ Call[c].prefixed,
           (wired \/ page \notin CasePages) => ~ view'.crashed /\ ~ Down(view'),
           page' = page
    PROVE  TextInv'
<1>1. \A t \in Slots : Waiting(t)' =>
        \A c \in DOMAIN running'[t].got :
          running'[t].got[c].state = "html" => ~ wired /\ ~ Call[c].prefixed
  <2> TAKE t \in Slots
  <2>1. CASE t = s
    BY <2>1 DEF Waiting
  <2>2. CASE t # s
    BY <2>2, OthersWait DEF TextInv
  <2> QED
    BY <2>1, <2>2
<1> QED
  BY <1>1 DEF TextInv, Down

LEMMA SentNoText ==
    ASSUME NEW f, JustSent(f)
    PROVE  \A c \in DOMAIN f.got : f.got[c].state # "html"
BY DEF JustSent

LEMMA TextStep ==
    ASSUME TypeInv, TextInv, [Next]_vars
    PROVE  TextInv'
<1> DEFINE Plain == wired \/ page \notin CasePages
<1>1. CASE Aside
  BY <1>1 DEF Aside, TextInv, Down, Waiting
<1>2. ASSUME NEW h \in DOMAIN Handlers, ClickBlank(h)
      PROVE  TextInv'
  BY <1>2, BlankDoes DEF TextInv, Down, Waiting
<1>3. ASSUME NEW h \in DOMAIN Handlers, ClickAtOnce(h)
      PROVE  TextInv'
  <2>1. UNCHANGED <<page, wired, running>> /\ view' = Opened(view, Handlers[h])
    BY <1>3 DEF ClickAtOnce
  <2>2. /\ view'.crashed = view.crashed
        /\ Clears(view, view', Handlers[h].resets)
    BY <2>1, ClickOpens
  <2>3. Plain => ~ view'.crashed /\ ~ Down(view')
    BY <2>2, ClearedIsPlain DEF TextInv
  <2> QED
    BY <2>1, <2>3 DEF TextInv, Waiting, Down
<1>4. ASSUME NEW h \in DOMAIN Handlers, NEW s \in Free, NEW of \in Asked(h),
             Click(s, h, of)
      PROVE  TextInv'
  <2>1. UNCHANGED <<page, wired>>
    BY <1>4 DEF Click
  <2>2. /\ s \in Slots /\ Only(s) /\ view' = Opened(view, Handlers[h])
        /\ JustSent(running'[s])
    BY <1>4, ClickDoes DEF Started
  <2>3. /\ view'.crashed = view.crashed
        /\ Clears(view, view', Handlers[h].resets)
    BY <2>2, ClickOpens
  <2>4. Plain => ~ view'.crashed /\ ~ Down(view')
    BY <2>3, ClearedIsPlain DEF TextInv
  <2> QED
    BY <2>1, <2>2, <2>4, SentNoText, TextAlone
<1>5. ASSUME NEW s \in Slots, NEW c \in Pending(s),
             Serve(s, c) \/ ServeHtml(s, c) \/ Refuse(s, c)
      PROVE  TextInv'
  <2> DEFINE f == running[s]
             g == running'[s]
  <2>1. /\ Waiting(s) /\ Only(s) /\ Answered(f, g, c) /\ Comes(g.got[c], c)
        /\ UNCHANGED <<page, wired, view>>
    BY <1>5, AnswerDoes
  <2>2. \A d \in DOMAIN g.got :
          g.got[d].state = "html" => ~ wired /\ ~ Call[d].prefixed
    <3> TAKE d \in DOMAIN g.got
    <3>1. CASE d = c
      BY <2>1, <3>1 DEF Comes
    <3>2. CASE d # c
      BY <2>1, <3>2 DEF Answered, TextInv
    <3> QED
      BY <3>1, <3>2
  <2>3. Plain => ~ view'.crashed /\ ~ Down(view')
    BY <2>1 DEF TextInv, Down
  <2> HIDE DEF f, g
  <2> QED
    BY <2>1, <2>2, <2>3, TextAlone DEF g
<1>6. ASSUME NEW s \in Slots, Fail(s)
      PROVE  TextInv'
  <2>1. UNCHANGED <<page, wired>>
    BY <1>6 DEF Fail
  <2>2. /\ Only(s) /\ running'[s] = Idle /\ (view'.crashed => Down(view'))
        /\ Clears(view, view', Handlers[running[s].handler].drops)
    BY <1>6, FailDoes
  <2>3. Plain => ~ view'.crashed /\ ~ Down(view')
    BY <2>2, ClearedIsPlain DEF TextInv
  <2> QED
    BY <2>1, <2>2, <2>3, TextAlone
<1>7. ASSUME NEW s \in Slots, NextStep(s)
      PROVE  TextInv'
  <2>1. UNCHANGED <<page, wired>> /\ Waiting(s) /\ Resolved(running[s])
    BY <1>7 DEF NextStep
  <2>2. /\ Only(s) /\ JustSent(running'[s]) /\ (view'.crashed => Down(view'))
        /\ Fills(view, view', running[s])
    BY <1>7, NextStepDoes
  <2>3. Plain => ~ view'.crashed /\ ~ Down(view')
    BY <2>1, <2>2, NoText, FilledIsPlain DEF TextInv
  <2> QED
    BY <2>1, <2>2, <2>3, SentNoText, TextAlone
<1>8. ASSUME NEW s \in Slots, GoOn(s)
      PROVE  TextInv'
  <2> DEFINE script == Handlers[Handlers[running[s].handler].then]
  <2>1. UNCHANGED <<page, wired>> /\ Waiting(s) /\ Resolved(running[s])
    BY <1>8 DEF GoOn, Last
  <2>2. /\ Only(s) /\ JustSent(running'[s]) /\ (view'.crashed => Down(view'))
        /\ \E v : Fills(view, v, running[s]) /\ Clears(v, view', script.resets)
    BY <1>8, GoOnDoes DEF Started
  <2>3. Plain => ~ view'.crashed /\ ~ Down(view')
    BY <2>1, <2>2, NoText, FilledIsPlain, ClearedIsPlain DEF TextInv
  <2> QED
    BY <2>1, <2>2, <2>3, SentNoText, TextAlone
<1>9. ASSUME NEW s \in Slots, Finish(s)
      PROVE  TextInv'
  <2>1. UNCHANGED <<page, wired>> /\ Waiting(s) /\ Resolved(running[s])
    BY <1>9 DEF Finish, Last
  <2>2. /\ Only(s) /\ running'[s] = Idle /\ (view'.crashed => Down(view'))
        /\ Fills(view, view', running[s])
    BY <1>9, FinishDoes
  <2>3. Plain => ~ view'.crashed /\ ~ Down(view')
    BY <2>1, <2>2, NoText, FilledIsPlain DEF TextInv
  <2> QED
    BY <2>1, <2>2, <2>3, TextAlone
<1> QED
  BY Steps, <1>1, <1>2, <1>3, <1>4, <1>5, <1>6, <1>7, <1>8, <1>9

LEMMA InitText == ASSUME Init PROVE TextInv
<1>1. \A s \in Slots : Waiting(s) => JustSent(running[s])
  BY InitDoes DEF Started
<1>2. ~ view.crashed /\ ~ Down(view)
  BY InitDoes, EmptyIsPlain DEF Down
<1> QED
  BY <1>1, <1>2, SentNoText DEF TextInv

\* A page goes down only where the addresses without a prefix are not forwarded,
\* and only if it is one of the five that make these calls.
THEOREM OthersStayUp == Spec => []OnlyCasePagesGoDown
<1>1. Init => TextInv
  BY InitText
<1>2. TypeInv /\ TextInv /\ [Next]_vars => TextInv'
  BY TextStep
<1>3. TextInv => OnlyCasePagesGoDown
  BY DEF TextInv, OnlyCasePagesGoDown, CasePages
<1> QED
  BY <1>1, <1>2, <1>3, TypeInvariant, PTL DEF Spec

(* Submit buttons *)

HoldsFlag(s, flag) == Waiting(s) /\ flag \in running[s].clears

\* While a handler holds a flag, it is set, and no other handler holds it.
Held(flag) ==
    \A s \in Slots : HoldsFlag(s, flag) =>
      flag \in view.busy /\ \A t \in Slots \ {s} : ~ HoldsFlag(t, flag)

\* A handler holds its own flags, and a flag that guards is held once.
FlagInv ==
    /\ \A s \in Slots : Waiting(s) =>
         Handlers[running[s].handler].busy \subseteq running[s].clears
    /\ \A flag : GuardedBy(page, flag) => Held(flag)

LEMMA FlagAlone ==
    ASSUME FlagInv, UNCHANGED page, NEW s \in Slots, Only(s),
           running'[s] # Idle =>
             Handlers[running'[s].handler].busy \subseteq running'[s].clears,
           \A flag : GuardedBy(page, flag) =>
             /\ running'[s] # Idle /\ flag \in running'[s].clears =>
                  /\ flag \in view'.busy
                  /\ \A t \in Slots \ {s} : ~ HoldsFlag(t, flag)
             /\ \A t \in Slots \ {s} : HoldsFlag(t, flag) => flag \in view'.busy
    PROVE  FlagInv'
<1>1. \A flag : \A t \in Slots \ {s} : HoldsFlag(t, flag)' <=> HoldsFlag(t, flag)
  BY OthersWait DEF HoldsFlag
<1>2. \A flag : HoldsFlag(s, flag)' <=>
                 running'[s] # Idle /\ flag \in running'[s].clears
  BY DEF HoldsFlag, Waiting
<1>3. ASSUME NEW t \in Slots, Waiting(t)'
      PROVE  (Handlers[running[t].handler].busy \subseteq running[t].clears)'
  <2>1. CASE t = s
    BY <1>3, <2>1 DEF Waiting, Handlers
  <2>2. CASE t # s
    BY <1>3, <2>2, OthersWait DEF FlagInv, Handlers
  <2> QED
    BY <2>1, <2>2
<1>4. ASSUME NEW flag, GuardedBy(page, flag)
      PROVE  Held(flag)'
  <2>1. Held(flag)
    BY <1>4 DEF FlagInv
  <2>2. ASSUME NEW t \in Slots, HoldsFlag(t, flag)'
        PROVE  /\ flag \in view'.busy
               /\ \A u \in Slots \ {t} : ~ HoldsFlag(u, flag)'
    <3>1. CASE t = s
      BY <1>1, <1>2, <1>4, <2>2, <3>1
    <3>2. CASE t # s
      <4>1. HoldsFlag(t, flag) /\ flag \in view'.busy
        BY <1>1, <1>4, <2>2, <3>2
      <4>2. ~ HoldsFlag(s, flag)'
        BY <1>2, <1>4, <3>2, <4>1
      <4>3. \A u \in Slots \ {t} : ~ HoldsFlag(u, flag)
        BY <2>1, <4>1 DEF Held
      <4> QED
        BY <1>1, <4>1, <4>2, <4>3
    <3> QED
      BY <3>1, <3>2
  <2> QED
    BY <2>2 DEF Held
<1>5. page' = page
  OBVIOUS
<1>6. \A flag : GuardedBy(page, flag)' => GuardedBy(page, flag)
  BY <1>5 DEF GuardedBy
<1> QED
  BY <1>3, <1>4, <1>6 DEF FlagInv

LEMMA FlagStep ==
    ASSUME TypeInv, FlagInv, [Next]_vars
    PROVE  FlagInv'
<1>0. /\ \A s \in Slots : Waiting(s) => running[s].handler \in DOMAIN Handlers
      /\ \A flag : GuardedBy(page, flag) => Held(flag)
  BY Typed DEF FlagInv
<1>1. ASSUME UNCHANGED <<page, running>>, view.busy \subseteq view'.busy
      PROVE  FlagInv'
  BY <1>1 DEF FlagInv, Held, HoldsFlag, Waiting, Handlers, GuardedBy
<1>2. CASE Aside
  BY <1>1, <1>2 DEF Aside
<1>3. ASSUME NEW h \in DOMAIN Handlers, ClickBlank(h)
      PROVE  FlagInv'
  BY <1>1, <1>3, BlankDoes
<1>4. ASSUME NEW h \in DOMAIN Handlers, ClickAtOnce(h)
      PROVE  FlagInv'
  <2>1. UNCHANGED <<page, running>> /\ view' = Opened(view, Handlers[h])
    BY <1>4 DEF ClickAtOnce
  <2>2. view.busy \subseteq view'.busy
    BY <2>1, ClickOpens
  <2> QED
    BY <1>1, <2>1, <2>2
<1>5. ASSUME NEW h \in DOMAIN Handlers, NEW s \in Free, NEW of \in Asked(h),
             Click(s, h, of)
      PROVE  FlagInv'
  <2>1. UNCHANGED page /\ h \in ViewOf(page, view).controls
    BY <1>5 DEF Click, CanUse
  <2>2. /\ s \in Slots /\ Only(s) /\ view' = Opened(view, Handlers[h])
        /\ running'[s].handler = h /\ running'[s].clears = Handlers[h].busy
    BY <1>5, ClickDoes DEF Started
  <2>3. view'.busy = view.busy \union Handlers[h].busy
    BY <2>2, ClickOpens
  <2>4. ASSUME NEW flag, GuardedBy(page, flag)
        PROVE  /\ flag \in running'[s].clears =>
                    /\ flag \in view'.busy
                    /\ \A t \in Slots : ~ HoldsFlag(t, flag)
               /\ \A t \in Slots : HoldsFlag(t, flag) => flag \in view'.busy
    <3>1. flag \in Handlers[h].busy => flag \notin view.busy
      BY <2>1, <2>4 DEF GuardedBy, Handlers
    <3>2. Held(flag)
      BY <1>0, <2>4
    <3> QED
      BY <2>2, <2>3, <3>1, <3>2 DEF Held
  <2> QED
    BY <2>1, <2>2, <2>4, FlagAlone
<1>6. ASSUME NEW s \in Slots, NEW c \in Pending(s),
             Serve(s, c) \/ ServeHtml(s, c) \/ Refuse(s, c)
      PROVE  FlagInv'
  <2>1. /\ Waiting(s) /\ Only(s) /\ UNCHANGED <<page, view>>
        /\ running'[s].handler = running[s].handler
        /\ running'[s].clears = running[s].clears
    BY <1>6, AnswerDoes DEF Answered
  <2>2. ASSUME NEW flag, GuardedBy(page, flag)
        PROVE  /\ flag \in running'[s].clears =>
                    /\ flag \in view'.busy
                    /\ \A t \in Slots \ {s} : ~ HoldsFlag(t, flag)
               /\ \A t \in Slots : HoldsFlag(t, flag) => flag \in view'.busy
    BY <1>0, <2>1, <2>2 DEF Held, HoldsFlag
  <2>3. Handlers[running[s].handler].busy \subseteq running[s].clears
    BY <2>1 DEF FlagInv
  <2> QED
    BY <2>1, <2>2, <2>3, FlagAlone
<1>7. ASSUME NEW s \in Slots, Waiting(s), UNCHANGED page, Only(s),
             running'[s] = Idle, view'.busy = view.busy \ running[s].clears
      PROVE  FlagInv'
  <2>1. ASSUME NEW flag, GuardedBy(page, flag), NEW t \in Slots \ {s},
               HoldsFlag(t, flag)
        PROVE  flag \in view'.busy
    <3>1. Held(flag)
      BY <1>0, <2>1
    <3>2. flag \in view.busy /\ ~ HoldsFlag(s, flag)
      BY <2>1, <3>1 DEF Held
    <3> QED
      BY <1>7, <3>2 DEF HoldsFlag
  <2> QED
    BY <1>7, <2>1, FlagAlone
<1>8. ASSUME NEW s \in Slots, Fail(s)
      PROVE  FlagInv'
  <2>1. UNCHANGED page
    BY <1>8 DEF Fail
  <2> QED
    BY <1>7, <1>8, <2>1, FailDoes
<1>9. ASSUME NEW s \in Slots, NextStep(s)
      PROVE  FlagInv'
  <2>1. /\ Waiting(s) /\ Only(s) /\ view'.busy = view.busy
        /\ running'[s].handler = running[s].handler
        /\ running'[s].clears = running[s].clears
    BY <1>9, NextStepDoes
  <2>2. UNCHANGED page
    BY <1>9 DEF NextStep
  <2>3. ASSUME NEW flag, GuardedBy(page, flag)
        PROVE  /\ flag \in running'[s].clears =>
                    /\ flag \in view'.busy
                    /\ \A t \in Slots \ {s} : ~ HoldsFlag(t, flag)
               /\ \A t \in Slots : HoldsFlag(t, flag) => flag \in view'.busy
    BY <1>0, <2>1, <2>3 DEF Held, HoldsFlag
  <2>4. Handlers[running[s].handler].busy \subseteq running[s].clears
    BY <2>1 DEF FlagInv
  <2> QED
    BY <2>1, <2>2, <2>3, <2>4, FlagAlone
<1>10. ASSUME NEW s \in Slots, GoOn(s)
       PROVE  FlagInv'
  <2> DEFINE f == running[s]
             next == Handlers[f.handler].then
  <2>1. /\ Waiting(s) /\ Only(s) /\ next \in DOMAIN Handlers
        /\ view'.busy = view.busy \union Handlers[next].busy
        /\ running'[s].handler = next
        /\ running'[s].clears = f.clears \union Handlers[next].busy
    BY <1>10, GoOnDoes DEF Started
  <2>2. UNCHANGED page
    BY <1>10 DEF GoOn
  <2>3. ASSUME NEW flag, GuardedBy(page, flag)
        PROVE  /\ flag \in running'[s].clears =>
                    /\ flag \in view'.busy
                    /\ \A t \in Slots \ {s} : ~ HoldsFlag(t, flag)
               /\ \A t \in Slots : HoldsFlag(t, flag) => flag \in view'.busy
    <3>1. flag \notin Handlers[next].busy
      BY <1>0, <2>1, <2>3 DEF GuardedBy, Handlers
    <3>2. Held(flag)
      BY <1>0, <2>3
    <3> QED
      BY <2>1, <3>1, <3>2 DEF Held, HoldsFlag
  <2> QED
    BY <2>1, <2>2, <2>3, FlagAlone
<1>11. ASSUME NEW s \in Slots, Finish(s)
       PROVE  FlagInv'
  <2>1. UNCHANGED page
    BY <1>11 DEF Finish
  <2> QED
    BY <1>7, <1>11, <2>1, FinishDoes
<1> QED
  BY Steps, <1>2, <1>3, <1>4, <1>5, <1>6, <1>8, <1>9, <1>10, <1>11

LEMMA InitFlag == ASSUME Init PROVE FlagInv
<1>1. \A s \in Slots : Waiting(s) =>
        /\ running[s].handler \in Pages[page].mount
        /\ running[s].clears = Handlers[running[s].handler].busy
  BY InitDoes DEF Started
<1>2. ASSUME NEW flag, GuardedBy(page, flag), NEW s \in Slots
      PROVE  ~ HoldsFlag(s, flag)
  <2>1. CASE Waiting(s)
    <3>1. running[s].handler \in DOMAIN Handlers
      BY <1>1, <2>1, InitDoes, MountFacts DEF Handlers
    <3> QED
      BY <1>1, <1>2, <2>1, <3>1 DEF GuardedBy, HoldsFlag, Handlers
  <2>2. CASE ~ Waiting(s)
    BY <2>2 DEF HoldsFlag
  <2> QED
    BY <2>1, <2>2
<1> QED
  BY <1>1, <1>2 DEF FlagInv, Held

LEMMA FlagsSuffice ==
    ASSUME TypeInv, FlagInv, page \notin NeverDisabled,
           NEW s \in Slots, NEW t \in Slots, Submits(s), Submits(t)
    PROVE  s = t
<1>1. page \in DOMAIN Pages \ EnabledPages
  BY Typed DEF NeverDisabled, EnabledPages
<1>2. ASSUME NEW u \in Slots, Submits(u)
      PROVE  /\ Waiting(u) /\ running[u].handler \in DOMAIN Handlers
             /\ ~ Reads(Handlers[running[u].handler])
  <2>1. Waiting(u) /\ IsFrame(running[u], page)
    BY <1>2, Typed DEF Submits
  <2>2. LET script == Handlers[running[u].handler] IN
        /\ running[u].step \in DOMAIN script.steps
        /\ DOMAIN running[u].got = CallsOf(script.steps[running[u].step])
    BY <2>1 DEF IsFrame, Handlers
  <2> QED
    BY <1>2, <2>1, <2>2, Typed DEF Submits, Reads, Writes
<1>3. PICK flag : GuardedBy(page, flag)
  BY <1>1, <1>2, SubmitsGuarded DEF Handlers
<1>4. HoldsFlag(s, flag) /\ HoldsFlag(t, flag)
  BY <1>2, <1>3 DEF HoldsFlag, FlagInv, GuardedBy, Handlers
<1> QED
  BY <1>3, <1>4 DEF FlagInv, Held

\* A form is not submitted twice at a time, on any page that disables its
\* button, however many other handlers run, start and end meanwhile.
THEOREM SubmittedOnce == Spec => []NoDoubleSubmit
<1>1. Init => FlagInv
  BY InitFlag
<1>2. TypeInv /\ FlagInv /\ [Next]_vars => FlagInv'
  BY FlagStep
<1>3. TypeInv /\ FlagInv => NoDoubleSubmit
  BY FlagsSuffice DEF NoDoubleSubmit
<1> QED
  BY <1>1, <1>2, <1>3, TypeInvariant, PTL DEF Spec

(* Handlers that run one at a time *)

\* As long as no handler overtakes another one, two that run are both the
\* effect's, and what a handler checked when it started is there to be checked.
SoloInv ==
    /\ ~ overtaken =>
         \A s, t \in Slots : s # t /\ Waiting(s) /\ Waiting(t) =>
           running[s].handler \in Pages[page].mount
    /\ \A s \in Slots : Waiting(s) /\ running[s].skips =>
         Handlers[running[s].handler].unless # ""

\* The effect's handler loads, so that whoever else runs only loads as well.
LEMMA EffectLoads ==
    ASSUME TypeInv, NEW h \in Pages[page].mount
    PROVE  /\ h \in DOMAIN Handlers /\ Handlers[h].then = ""
           /\ Handlers[h].unless = "" /\ Reads(Handlers[h])
           /\ Pages[page].mount = {h}
BY Typed, MountFacts DEF Handlers, Loads, Alone

LEMMA OthersLoad ==
    ASSUME TypeInv, SoloInv, ~ overtaken, NEW s \in Slots, Waiting(s),
           NEW t \in Slots \ {s}, Waiting(t)
    PROVE  /\ running[t].handler = running[s].handler
           /\ running[s].handler \in Pages[page].mount
           /\ Handlers[running[s].handler].then = ""
           /\ Handlers[running[s].handler].unless = ""
           /\ Reads(Handlers[running[s].handler])
           /\ ~ running[s].skips /\ ~ running[t].skips
<1>1. /\ running[s].handler \in Pages[page].mount
      /\ running[t].handler \in Pages[page].mount
  BY DEF SoloInv
<1>2. /\ Pages[page].mount = {running[s].handler}
      /\ Handlers[running[s].handler].then = ""
      /\ Handlers[running[s].handler].unless = ""
      /\ Reads(Handlers[running[s].handler])
  BY <1>1, EffectLoads
<1>3. running[t].handler = running[s].handler
  BY <1>1, <1>2
<1>4. ~ running[s].skips /\ ~ running[t].skips
  BY <1>2, <1>3 DEF SoloInv
<1> QED
  BY <1>1, <1>2, <1>3, <1>4

LEMMA SoloAlone ==
    ASSUME TypeInv, SoloInv, UNCHANGED page, NEW s \in Slots, Only(s),
           ~ overtaken' => ~ overtaken,
           running'[s] # Idle =>
             /\ running'[s].skips => Handlers[running'[s].handler].unless # ""
             /\ \/ Waiting(s) /\ running'[s].handler = running[s].handler
                \/ ~ overtaken' => \A t \in Slots \ {s} : ~ Waiting(t)
    PROVE  SoloInv'
<1>1. ASSUME NEW t \in Slots, Waiting(t)', running'[t].skips
      PROVE  Handlers[running'[t].handler].unless # ""
  <2>1. CASE t = s
    BY <1>1, <2>1 DEF Waiting
  <2>2. CASE t # s
    BY <1>1, <2>2, OthersWait DEF SoloInv
  <2> QED
    BY <2>1, <2>2
<1>2. ASSUME NEW t \in Slots, NEW u \in Slots, ~ overtaken', t # u,
             Waiting(t)', Waiting(u)'
      PROVE  running'[t].handler \in Pages[page].mount
  <2>1. ~ overtaken
    BY <1>2
  <2>2. CASE t # s /\ u # s
    BY <1>2, <2>1, <2>2, OthersWait DEF SoloInv
  <2>3. CASE t = s
    <3>1. running'[s] # Idle /\ Waiting(u)
      BY <1>2, <2>3, OthersWait DEF Waiting
    <3>2. Waiting(s) /\ running'[s].handler = running[s].handler
      BY <1>2, <2>3, <3>1
    <3> QED
      BY <1>2, <2>1, <2>3, <3>1, <3>2 DEF SoloInv
  <2>4. CASE u = s
    <3>1. running'[s] # Idle /\ Waiting(t) /\ running'[t] = running[t]
      BY <1>2, <2>4, OthersWait DEF Waiting
    <3>2. Waiting(s)
      BY <1>2, <2>4, <3>1
    <3> QED
      BY <1>2, <2>1, <2>4, <3>1, <3>2 DEF SoloInv
  <2> QED
    BY <2>2, <2>3, <2>4
<1>3. page' = page
  OBVIOUS
<1> QED
  BY <1>1, <1>2, <1>3 DEF SoloInv, Handlers

LEMMA SoloStep ==
    ASSUME TypeInv, SoloInv, [Next]_vars
    PROVE  SoloInv'
<1>1. ASSUME UNCHANGED <<page, running, overtaken>>
      PROVE  SoloInv'
  BY <1>1 DEF SoloInv, Waiting, Handlers
<1>2. CASE Aside
  BY <1>1, <1>2 DEF Aside
<1>3. ASSUME NEW h \in DOMAIN Handlers, ClickBlank(h) \/ ClickAtOnce(h)
      PROVE  SoloInv'
  BY <1>1, <1>3 DEF ClickBlank, ClickAtOnce
<1>4. ASSUME NEW h \in DOMAIN Handlers, NEW s \in Free, NEW of \in Asked(h),
             Click(s, h, of)
      PROVE  SoloInv'
  <2>1. UNCHANGED page /\ overtaken' = (overtaken \/ ~ Quiet)
    BY <1>4 DEF Click
  <2>2. /\ s \in Slots /\ Only(s) /\ running'[s].handler = h
        /\ running'[s].skips => Handlers[h].unless # ""
    BY <1>4, ClickDoes DEF Started
  <2>3. ~ overtaken' => ~ overtaken /\ \A t \in Slots : ~ Waiting(t)
    BY <2>1 DEF Quiet
  <2> QED
    BY <2>1, <2>2, <2>3, SoloAlone
<1>5. ASSUME NEW s \in Slots, NEW c \in Pending(s),
             Serve(s, c) \/ ServeHtml(s, c) \/ Refuse(s, c)
      PROVE  SoloInv'
  <2>1. /\ Waiting(s) /\ Only(s) /\ UNCHANGED <<page, overtaken>>
        /\ running'[s].handler = running[s].handler
        /\ running'[s].skips = running[s].skips
    BY <1>5, AnswerDoes DEF Answered
  <2>2. running[s].skips => Handlers[running[s].handler].unless # ""
    BY <2>1 DEF SoloInv
  <2> QED
    BY <2>1, <2>2, SoloAlone
<1>6. ASSUME NEW s \in Slots, Fail(s) \/ Finish(s)
      PROVE  SoloInv'
  <2>1. UNCHANGED <<page, overtaken>>
    BY <1>6 DEF Fail, Finish
  <2>2. Only(s) /\ running'[s] = Idle
    BY <1>6, FailDoes, FinishDoes
  <2> QED
    BY <2>1, <2>2, SoloAlone
<1>7. ASSUME NEW s \in Slots, NextStep(s)
      PROVE  SoloInv'
  <2>1. UNCHANGED <<page, overtaken>>
    BY <1>7 DEF NextStep
  <2>2. /\ Waiting(s) /\ Only(s)
        /\ running'[s].handler = running[s].handler
        /\ running'[s].skips = running[s].skips
    BY <1>7, NextStepDoes
  <2>3. running[s].skips => Handlers[running[s].handler].unless # ""
    BY <2>2 DEF SoloInv
  <2> QED
    BY <2>1, <2>2, <2>3, SoloAlone
<1>8. ASSUME NEW s \in Slots, GoOn(s)
      PROVE  SoloInv'
  <2>1. UNCHANGED <<page, overtaken>> /\ Waiting(s)
    BY <1>8 DEF GoOn
  <2>2. /\ Only(s) /\ ~ running'[s].skips
        /\ Handlers[running[s].handler].then # ""
    BY <1>8, GoOnDoes
  <2>3. ~ overtaken => \A t \in Slots \ {s} : ~ Waiting(t)
    BY <2>1, <2>2, OthersLoad
  <2> QED
    BY <2>1, <2>2, <2>3, SoloAlone
<1> QED
  BY Steps, <1>2, <1>3, <1>4, <1>5, <1>6, <1>7, <1>8

LEMMA InitSolo == ASSUME Init PROVE SoloInv
BY InitDoes DEF SoloInv, Started

LEMMA SoloInvariant == Spec => []SoloInv
<1>1. Init => SoloInv
  BY InitSolo
<1>2. TypeInv /\ SoloInv /\ [Next]_vars => SoloInv'
  BY SoloStep
<1> QED
  BY <1>1, <1>2, TypeInvariant, PTL DEF Spec

(* The error banner *)

\* Unless a handler overtook another one, the banner is shown if and only if one
\* failed, and a handler that will go on with another one has seen no failure.
ErrorInv ==
    (~ overtaken /\ ~ view.crashed) =>
      /\ view.error <=> failed
      /\ \A s \in Slots :
           Waiting(s) /\ Handlers[running[s].handler].then # "" => ~ failed

LEMMA ErrorStep ==
    ASSUME TypeInv, SoloInv, ErrorInv, [Next]_vars
    PROVE  ErrorInv'
<1>1. CASE Aside
  BY <1>1 DEF Aside, ErrorInv, Waiting, Handlers
<1>2. ASSUME NEW h \in DOMAIN Handlers, ClickBlank(h)
      PROVE  ErrorInv'
  <2>1. \A s \in Slots : Waiting(s) => Handlers[running[s].handler].then = ""
    BY <1>2, BlankDoes, Typed, HandlerFacts DEF Handlers
  <2> QED
    BY <1>2, <2>1, BlankDoes DEF ErrorInv, Waiting, Handlers
<1>3. ASSUME NEW h \in DOMAIN Handlers, ClickAtOnce(h)
      PROVE  ErrorInv'
  <2>1. view' = Opened(view, Handlers[h]) /\ ~ failed'
    BY <1>3 DEF ClickAtOnce
  <2> QED
    BY <2>1, ClickOpens DEF ErrorInv
<1>4. ASSUME NEW h \in DOMAIN Handlers, NEW s \in Free, NEW of \in Asked(h),
             Click(s, h, of)
      PROVE  ErrorInv'
  <2>1. view' = Opened(view, Handlers[h]) /\ ~ failed'
    BY <1>4 DEF Click
  <2> QED
    BY <2>1, ClickOpens DEF ErrorInv
<1>5. ASSUME NEW s \in Slots, UNCHANGED <<page, overtaken, failed>>,
             Waiting(s), Only(s), running'[s].handler = running[s].handler,
             view'.error = view.error, ~ view'.crashed => ~ view.crashed
      PROVE  ErrorInv'
  <2>1. \A t \in Slots : Waiting(t)' =>
          Waiting(t) /\ running'[t].handler = running[t].handler
    BY <1>5, OthersWait
  <2> QED
    BY <1>5, <2>1 DEF ErrorInv, Handlers
<1>6. ASSUME NEW s \in Slots, NEW c \in Pending(s),
             Serve(s, c) \/ ServeHtml(s, c) \/ Refuse(s, c)
      PROVE  ErrorInv'
  <2>1. /\ Waiting(s) /\ Only(s)
        /\ UNCHANGED <<page, view, overtaken, failed>>
        /\ running'[s].handler = running[s].handler
    BY <1>6, AnswerDoes DEF Answered
  <2> QED
    BY <1>5, <2>1
<1>7. ASSUME NEW s \in Slots, NextStep(s)
      PROVE  ErrorInv'
  <2>1. UNCHANGED <<page, overtaken, failed>> /\ ~ view.crashed
    BY <1>7 DEF NextStep
  <2>2. /\ Waiting(s) /\ Only(s) /\ view'.error = view.error
        /\ running'[s].handler = running[s].handler
    BY <1>7, NextStepDoes
  <2> QED
    BY <1>5, <2>1, <2>2
<1>8. ASSUME NEW s \in Slots, Finish(s)
      PROVE  ErrorInv'
  <2>1. UNCHANGED <<page, overtaken, failed>> /\ ~ view.crashed
    BY <1>8 DEF Finish
  <2>2. Only(s) /\ running'[s] = Idle /\ view'.error = view.error
    BY <1>8, FinishDoes
  <2>3. \A t \in Slots : Waiting(t)' => Waiting(t) /\ running'[t] = running[t]
    BY <2>2, OthersWait DEF Waiting
  <2> QED
    BY <2>1, <2>2, <2>3 DEF ErrorInv, Handlers
<1>9. ASSUME NEW s \in Slots, Fail(s)
      PROVE  ErrorInv'
  <2>1. UNCHANGED <<page, overtaken>> /\ failed' /\ Waiting(s)
    BY <1>9 DEF Fail
  <2>2. Only(s) /\ running'[s] = Idle /\ view'.error
    BY <1>9, FailDoes
  <2>3. \A t \in Slots : Waiting(t)' =>
          t # s /\ Waiting(t) /\ running'[t] = running[t]
    BY <2>2, OthersWait DEF Waiting
  <2>4. ASSUME ~ overtaken, NEW t \in Slots, Waiting(t)'
        PROVE  Handlers[running'[t].handler].then = ""
    BY <2>1, <2>3, <2>4, OthersLoad
  <2> QED
    BY <2>1, <2>2, <2>4 DEF ErrorInv, Handlers
<1>10. ASSUME NEW s \in Slots, GoOn(s)
       PROVE  ErrorInv'
  <2> DEFINE next == Handlers[running[s].handler].then
  <2>1. UNCHANGED <<page, overtaken, failed>> /\ ~ view.crashed
    BY <1>10 DEF GoOn
  <2>2. /\ Waiting(s) /\ Only(s) /\ next # "" /\ next \in DOMAIN Handlers
        /\ running'[s].handler = next /\ Handlers[next].then = ""
        /\ view'.error <=> view.error /\ "error" \notin Handlers[next].hushes
    BY <1>10, GoOnDoes DEF Started, Loads, Alone
  <2>3. "error" \in Handlers[next].hushes
    BY <2>2, Typed, HandlerFacts DEF Handlers
  <2>4. ~ overtaken => ~ failed
    BY <2>1, <2>2 DEF ErrorInv
  <2>5. ASSUME ~ overtaken, NEW t \in Slots, Waiting(t)'
        PROVE  Handlers[running'[t].handler].then = ""
    <3>1. CASE t = s
      BY <2>2, <3>1
    <3>2. CASE t # s
      BY <2>2, <2>5, <3>2, OthersWait, OthersLoad
    <3> QED
      BY <3>1, <3>2
  <2> QED
    BY <2>1, <2>2, <2>3, <2>4, <2>5 DEF ErrorInv, Handlers
<1> QED
  BY Steps, <1>1, <1>2, <1>3, <1>4, <1>6, <1>7, <1>8, <1>9, <1>10

\* Unless a handler was started while another one ran, the error banner tells
\* how the last one ended, though loads follow writes and effects run twice.
THEOREM OutcomeTold == Spec => []BannerTellsOutcome
<1>1. Init => ErrorInv
  BY InitDoes DEF ErrorInv
<1>2. TypeInv /\ SoloInv /\ ErrorInv /\ [Next]_vars => ErrorInv'
  BY ErrorStep
<1>3. ErrorInv => BannerTellsOutcome
  BY DEF ErrorInv, BannerTellsOutcome
<1> QED
  BY <1>1, <1>2, <1>3, TypeInvariant, SoloInvariant, PTL DEF Spec

(* What is shown together *)

\* These slots hold data of one subject.
Agree(slots) ==
    \A x, y \in RelatedOn(page) :
      slots[x] # Empty /\ slots[y] # Empty => slots[x].of = slots[y].of

\* What a handler that runs has cleared is still clear, unless it is to be
\* filled, and the slot it has checked still holds its subject.
Tidy(f) ==
    LET script == Handlers[f.handler] IN
    /\ \A x \in RelatedOn(page) :
         x \in script.resets /\ x \notin FilledBy(script.steps[1]) =>
           view.slots[x] = Empty
    /\ f.skips => view.slots[script.unless].of = f.of

AgreeInv ==
    ~ overtaken /\ RelatedOn(page) # {} =>
      Agree(view.slots) /\ \A s \in Slots : Waiting(s) => Tidy(running[s])

LEMMA RelatedHandlers ==
    ASSUME TypeInv, RelatedOn(page) # {}
    PROVE  /\ RelatedOn(page) \subseteq DOMAIN view.slots
           /\ \A h \in DOMAIN Handlers :
                /\ Replaces(Handlers[h], Pages[page], RelatedOn(page))
                /\ Handlers[h].steps # << >>
<1>1. page \in DOMAIN Pages /\ DOMAIN view.slots = Pages[page].slots
  BY Typed
<1>2. RelatedOn(page) \subseteq DOMAIN view.slots
  BY <1>1, RelatedAreSlots
<1>3. \A h \in DOMAIN Handlers :
        Replaces(Handlers[h], Pages[page], RelatedOn(page))
  BY <1>1, PagesReplace DEF Handlers
<1>4. \A h \in DOMAIN Handlers : Handlers[h].steps # << >>
  <2> SUFFICES ASSUME NEW h \in DOMAIN Handlers, Handlers[h].steps = << >>
               PROVE  FALSE
    OBVIOUS
  <2>1. Len(Handlers[h].steps) = 1
    BY <1>3 DEF Replaces
  <2>2. Len(<< >>) = 0
    OBVIOUS
  <2> QED
    BY <2>1, <2>2
<1> QED
  BY <1>2, <1>3, <1>4

\* A step that at most clears slots, and starts no handler.
LEMMA AgreeAlone ==
    ASSUME TypeInv, AgreeInv, UNCHANGED page, ~ overtaken' => ~ overtaken,
           \A x \in DOMAIN view.slots :
             view'.slots[x] = view.slots[x] \/ view'.slots[x] = Empty,
           ASSUME NEW t \in Slots, ~ overtaken', Waiting(t)'
           PROVE  /\ Waiting(t) /\ running'[t].handler = running[t].handler
                  /\ running'[t].of = running[t].of
                  /\ running'[t].skips = running[t].skips
                  /\ running[t].skips => view'.slots = view.slots
    PROVE  AgreeInv'
<1> SUFFICES ASSUME ~ overtaken', RelatedOn(page)' # {}
             PROVE  /\ Agree(view.slots)'
                    /\ \A t \in Slots : Waiting(t)' => Tidy(running[t])'
  BY DEF AgreeInv
<1>1. /\ RelatedOn(page)' = RelatedOn(page) /\ Handlers' = Handlers
      /\ RelatedOn(page) \subseteq DOMAIN view.slots /\ ~ overtaken
      /\ RelatedOn(page) # {}
  BY RelatedHandlers DEF Handlers
<1>2. Agree(view.slots) /\ \A t \in Slots : Waiting(t) => Tidy(running[t])
  BY <1>1 DEF AgreeInv
<1>3. Agree(view.slots)'
  BY <1>1, <1>2 DEF Agree
<1>4. ASSUME NEW t \in Slots, Waiting(t)'
      PROVE  Tidy(running[t])'
  <2>1. /\ Tidy(running[t]) /\ running'[t].handler = running[t].handler
        /\ running'[t].of = running[t].of
        /\ running'[t].skips = running[t].skips
        /\ running[t].skips => view'.slots = view.slots
    BY <1>2, <1>4
  <2> QED
    BY <1>1, <2>1 DEF Tidy
<1> QED
  BY <1>3, <1>4

\* A step that is done leaves the related slots empty or with its subject,
\* except for the slot its handler checks before it goes on.
LEMMA FilledAgree ==
    ASSUME TypeInv, AgreeInv, ~ overtaken, RelatedOn(page) # {},
           NEW s \in Slots, Waiting(s), NEW w, Fills(view, w, running[s]),
           NEW x \in RelatedOn(page)
    PROVE  LET f == running[s]
               script == Handlers[f.handler]
           IN
           \/ w.slots[x] = Empty \/ w.slots[x].of = f.of
           \/ /\ ~ f.skips /\ script.then # "" /\ x = script.unless
              /\ FilledBy(script.steps[1]) \intersect RelatedOn(page)
                   \subseteq Handlers[script.then].resets
<1> DEFINE f == running[s]
           script == Handlers[f.handler]
<1>1. /\ IsFrame(f, page) /\ f.handler \in DOMAIN Handlers
      /\ Replaces(script, Pages[page], RelatedOn(page)) /\ Tidy(f)
      /\ x \in DOMAIN view.slots
  BY Typed, RelatedHandlers DEF AgreeInv
<1>2. StepOf(f) = script.steps[1]
  BY <1>1 DEF IsFrame, Replaces, StepOf, Handlers
<1>3. CASE x \in FilledBy(script.steps[1])
  <2>1. PICK c \in DOMAIN f.got : w.slots[x] = Shows(f, c)
    BY <1>1, <1>2, <1>3 DEF Fills
  <2> HIDE DEF f
  <2>2. Shows(f, c) = Empty \/ Shows(f, c).of = f.of
    BY DEF Shows
  <2>3. w.slots[x] = Empty \/ w.slots[x].of = f.of
    BY <2>1, <2>2
  <2> QED
    BY <2>3 DEF f
<1>4. CASE x \notin FilledBy(script.steps[1])
  <2>1. w.slots[x] = view.slots[x]
    BY <1>1, <1>2, <1>4 DEF Fills
  <2>2. CASE x \in script.resets
    BY <1>1, <1>4, <2>1, <2>2 DEF Tidy
  <2>3. CASE x \notin script.resets
    BY <1>1, <1>4, <2>1, <2>3 DEF Tidy, Replaces, Handlers
  <2> QED
    BY <2>2, <2>3
<1> QED
  BY <1>3, <1>4

LEMMA FinishAgrees ==
    ASSUME TypeInv, SoloInv, AgreeInv, NEW s \in Slots, Finish(s)
    PROVE  AgreeInv'
<1> DEFINE f == running[s]
           script == Handlers[f.handler]
<1>1. /\ UNCHANGED <<page, overtaken>> /\ (script.then = "" \/ f.skips)
      /\ Waiting(s) /\ Only(s) /\ ~ Waiting(s)' /\ Fills(view, view', f)
  BY FinishDoes DEF Finish
<1> SUFFICES ASSUME ~ overtaken, RelatedOn(page) # {}
             PROVE  /\ Agree(view.slots)'
                    /\ \A t \in Slots : Waiting(t)' => Tidy(running[t])'
  BY <1>1 DEF AgreeInv
<1>2. \A x \in RelatedOn(page) :
        view'.slots[x] = Empty \/ view'.slots[x].of = f.of
  BY <1>1, FilledAgree
<1>3. Agree(view.slots)'
  BY <1>1, <1>2 DEF Agree
<1>4. ASSUME NEW t \in Slots, Waiting(t)'
      PROVE  Tidy(running[t])'
  <2>1. /\ t # s /\ Waiting(t) /\ running'[t] = running[t]
        /\ Tidy(running[t])
    BY <1>1, <1>4, OthersWait DEF AgreeInv
  <2>2. running[t].handler = f.handler /\ ~ running[t].skips
    BY <1>1, <2>1, OthersLoad
  <2>3. /\ IsFrame(f, page) /\ Replaces(script, Pages[page], RelatedOn(page))
        /\ RelatedOn(page) \subseteq DOMAIN view.slots
    BY <1>1, Typed, RelatedHandlers
  <2>4. StepOf(f) = script.steps[1]
    BY <2>3 DEF IsFrame, Replaces, StepOf, Handlers
  <2>5. \A x \in RelatedOn(page) :
          x \notin FilledBy(script.steps[1]) => view'.slots[x] = view.slots[x]
    BY <1>1, <2>3, <2>4 DEF Fills
  <2> QED
    BY <1>1, <2>1, <2>2, <2>5 DEF Tidy, Handlers
<1> QED
  BY <1>3, <1>4

LEMMA GoOnAgrees ==
    ASSUME TypeInv, SoloInv, AgreeInv, NEW s \in Slots, GoOn(s)
    PROVE  AgreeInv'
<1> DEFINE f == running[s]
           script == Handlers[f.handler]
           next == Handlers[script.then]
<1>1. /\ UNCHANGED <<page, overtaken>> /\ script.then # "" /\ ~ f.skips
      /\ Waiting(s) /\ Only(s)
  BY GoOnDoes DEF GoOn
<1> SUFFICES ASSUME ~ overtaken, RelatedOn(page) # {}
             PROVE  /\ Agree(view.slots)'
                    /\ \A t \in Slots : Waiting(t)' => Tidy(running[t])'
  BY <1>1 DEF AgreeInv
<1>2. PICK v : Fills(view, v, f) /\ Clears(v, view', next.resets)
  BY GoOnDoes
<1>3. RelatedOn(page) \subseteq DOMAIN v.slots
  BY <1>2, RelatedHandlers DEF Fills
<1>4. ASSUME NEW x \in RelatedOn(page)
      PROVE  \/ view'.slots[x] = Empty \/ view'.slots[x].of = f.of
             \/ /\ x = script.unless
                /\ FilledBy(script.steps[1]) \intersect RelatedOn(page)
                     \subseteq next.resets
  <2>1. \/ v.slots[x] = Empty \/ v.slots[x].of = f.of
        \/ /\ x = script.unless
           /\ FilledBy(script.steps[1]) \intersect RelatedOn(page)
                \subseteq next.resets
    BY <1>1, <1>2, FilledAgree
  <2>2. view'.slots[x] = IF x \in next.resets THEN Empty ELSE v.slots[x]
    BY <1>2, <1>3 DEF Clears
  <2> QED
    BY <2>1, <2>2
<1>5. Agree(view.slots)'
  <2>1. CASE \A x \in RelatedOn(page) :
               view'.slots[x] = Empty \/ view'.slots[x].of = f.of
    BY <1>1, <2>1 DEF Agree
  <2>2. CASE \E x \in RelatedOn(page) :
               ~ (view'.slots[x] = Empty \/ view'.slots[x].of = f.of)
    <3>1. FilledBy(script.steps[1]) \intersect RelatedOn(page)
            \subseteq next.resets
      BY <1>4, <2>2
    <3>2. /\ IsFrame(f, page) /\ f.handler \in DOMAIN Handlers
          /\ Replaces(script, Pages[page], RelatedOn(page)) /\ Tidy(f)
          /\ RelatedOn(page) \subseteq DOMAIN view.slots
      BY <1>1, Typed, RelatedHandlers DEF AgreeInv
    <3>3. StepOf(f) = script.steps[1]
      BY <3>2 DEF IsFrame, Replaces, StepOf, Handlers
    <3>4. ASSUME NEW y \in RelatedOn(page)
          PROVE  view'.slots[y] = Empty \/ y = script.unless
      <4>1. CASE y \in FilledBy(script.steps[1])
        BY <1>2, <1>3, <3>1, <4>1 DEF Clears
      <4>2. CASE y \notin FilledBy(script.steps[1])
        <5>1. v.slots[y] = view.slots[y]
          BY <1>2, <3>2, <3>3, <4>2 DEF Fills
        <5>2. y \in script.resets => view.slots[y] = Empty
          BY <3>2, <4>2 DEF Tidy
        <5>3. y \in script.resets \/ y = script.unless
          BY <3>2, <4>2 DEF Replaces
        <5> QED
          BY <1>2, <1>3, <5>1, <5>2, <5>3 DEF Clears
      <4> QED
        BY <4>1, <4>2
    <3> QED
      BY <1>1, <3>4 DEF Agree
  <2> QED
    BY <2>1, <2>2
<1>6. ASSUME NEW t \in Slots, Waiting(t)'
      PROVE  Tidy(running[t])'
  <2>1. t = s
    BY <1>1, <1>6, OthersWait, OthersLoad
  <2>2. running'[s].handler = script.then /\ ~ running'[s].skips
    BY GoOnDoes DEF Started
  <2>3. \A x \in RelatedOn(page) : x \in next.resets => view'.slots[x] = Empty
    BY <1>2, <1>3 DEF Clears
  <2> QED
    BY <1>1, <2>1, <2>2, <2>3 DEF Tidy, Handlers
<1> QED
  BY <1>5, <1>6

LEMMA AgreeStep ==
    ASSUME TypeInv, SoloInv, AgreeInv, [Next]_vars
    PROVE  AgreeInv'
<1>1. ASSUME UNCHANGED <<page, running, overtaken>>, view'.slots = view.slots
      PROVE  AgreeInv'
  BY <1>1, AgreeAlone DEF Waiting
<1>2. CASE Aside
  BY <1>1, <1>2 DEF Aside
<1>3. ASSUME NEW h \in DOMAIN Handlers, ClickBlank(h)
      PROVE  AgreeInv'
  BY <1>1, <1>3, BlankDoes
<1>4. ASSUME NEW h \in DOMAIN Handlers, ClickAtOnce(h)
      PROVE  AgreeInv'
  <2>1. UNCHANGED page /\ Handlers[h].steps = << >>
    BY <1>4 DEF ClickAtOnce
  <2> QED
    BY <2>1, RelatedHandlers DEF AgreeInv
<1>5. ASSUME NEW h \in DOMAIN Handlers, NEW s \in Free, NEW of \in Asked(h),
             Click(s, h, of)
      PROVE  AgreeInv'
  <2> DEFINE script == Handlers[h]
  <2>1. UNCHANGED page /\ overtaken' = (overtaken \/ ~ Quiet)
    BY <1>5 DEF Click
  <2>0. /\ s \in Slots /\ Only(s) /\ view' = Opened(view, script)
        /\ Started(running'[s], h, of)
        /\ running'[s].skips => /\ script.unless # ""
                                /\ view.slots[script.unless].of = of
    BY <1>5, ClickDoes
  <2>2. running'[s].handler = h /\ running'[s].of = of
    BY <2>0 DEF Started
  <2>3. Clears(view, view', script.resets)
    <3>1. view' = Opened(view, Handlers[h])
      BY <2>0
    <3> QED
      BY <3>1, ClickOpens
  <2> SUFFICES ASSUME ~ overtaken', RelatedOn(page) # {}
               PROVE  /\ Agree(view.slots)'
                      /\ \A t \in Slots : Waiting(t)' => Tidy(running[t])'
    BY <2>1 DEF AgreeInv
  <2>4. /\ RelatedOn(page) \subseteq DOMAIN view.slots
        /\ Replaces(script, Pages[page], RelatedOn(page))
        /\ DOMAIN view.slots = Pages[page].slots /\ Agree(view.slots)
    BY <2>1, RelatedHandlers, Typed DEF AgreeInv
  <2>5. Agree(view.slots)'
    BY <2>1, <2>3, <2>4 DEF Agree, Clears
  <2>6. ASSUME NEW t \in Slots, Waiting(t)'
        PROVE  Tidy(running[t])'
    <3>1. t = s
      BY <2>0, <2>1, <2>6, OthersWait DEF Quiet
    <3>2. \A x \in RelatedOn(page) :
            x \in script.resets => view'.slots[x] = Empty
      BY <2>3, <2>4 DEF Clears
    <3>3. running'[s].skips => view'.slots[script.unless].of = of
      BY <2>0, <2>3, <2>4 DEF Clears, Replaces
    <3> QED
      BY <2>1, <2>2, <3>1, <3>2, <3>3 DEF Tidy, Handlers
  <2> QED
    BY <2>5, <2>6
<1>6. ASSUME NEW s \in Slots, NEW c \in Pending(s),
             Serve(s, c) \/ ServeHtml(s, c) \/ Refuse(s, c)
      PROVE  AgreeInv'
  <2>1. /\ Waiting(s) /\ Only(s) /\ UNCHANGED <<page, view, overtaken>>
        /\ running'[s].handler = running[s].handler
        /\ running'[s].of = running[s].of
        /\ running'[s].skips = running[s].skips
    BY <1>6, AnswerDoes DEF Answered
  <2>2. \A t \in Slots : Waiting(t)' =>
          /\ Waiting(t) /\ running'[t].handler = running[t].handler
          /\ running'[t].of = running[t].of
          /\ running'[t].skips = running[t].skips
    BY <2>1, OthersWait
  <2> QED
    BY <2>1, <2>2, AgreeAlone
<1>7. ASSUME NEW s \in Slots, Fail(s)
      PROVE  AgreeInv'
  <2>1. UNCHANGED <<page, overtaken>>
    BY <1>7 DEF Fail
  <2>2. /\ Waiting(s) /\ Only(s) /\ ~ Waiting(s)'
        /\ Clears(view, view', Handlers[running[s].handler].drops)
    BY <1>7, FailDoes
  <2>3. ASSUME NEW t \in Slots, ~ overtaken', Waiting(t)'
        PROVE  Waiting(t) /\ running'[t] = running[t] /\ ~ running[t].skips
    BY <2>1, <2>2, <2>3, OthersWait, OthersLoad
  <2>4. \A x \in DOMAIN view.slots :
          view'.slots[x] = view.slots[x] \/ view'.slots[x] = Empty
    BY <2>2 DEF Clears
  <2> QED
    BY <2>1, <2>3, <2>4, AgreeAlone
<1>8. ASSUME NEW s \in Slots, NextStep(s)
      PROVE  AgreeInv'
  <2> DEFINE f == running[s]
  <2>1. /\ UNCHANGED <<page, overtaken>> /\ Waiting(s)
        /\ f.step < Len(Handlers[f.handler].steps)
    BY <1>8 DEF NextStep
  <2>2. RelatedOn(page) = {}
    <3>1. IsFrame(f, page) /\ f.handler \in DOMAIN Handlers
      BY <2>1, Typed
    <3>2. f.step \in DOMAIN Handlers[f.handler].steps
      BY <3>1 DEF IsFrame, Handlers
    <3>3. RelatedOn(page) # {} =>
            /\ Len(Handlers[f.handler].steps) = 1
            /\ DOMAIN Handlers[f.handler].steps = {1}
      BY <3>1, RelatedHandlers DEF Replaces
    <3> HIDE DEF f
    <3>4. RelatedOn(page) # {} => f.step = 1
      BY <3>2, <3>3
    <3>5. RelatedOn(page) # {} => f.step < 1
      BY <2>1, <3>3
    <3> QED
      BY <3>4, <3>5
  <2> QED
    BY <2>1, <2>2 DEF AgreeInv
<1> QED
  BY Steps, FinishAgrees, GoOnAgrees, <1>2, <1>3, <1>4, <1>5, <1>6, <1>7, <1>8

\* Unless a handler was started while another one ran, what a page shows
\* together is about one transaction, or one proof, whatever is typed and
\* whichever rows are clicked meanwhile.
THEOREM OneSubject == Spec => []PartsAgree
<1>1. Init => AgreeInv
  <2> SUFFICES ASSUME Init PROVE AgreeInv
    OBVIOUS
  <2>1. TypeInv
    BY InitType
  <2>2. RelatedOn(page) # {} => RelatedOn(page) \subseteq DOMAIN view.slots
    BY <2>1, RelatedHandlers
  <2> QED
    BY <2>2, InitDoes DEF AgreeInv, Agree, Tidy
<1>2. TypeInv /\ SoloInv /\ AgreeInv /\ [Next]_vars => AgreeInv'
  BY AgreeStep
<1>3. AgreeInv => PartsAgree
  <2>1. Related = RelatedOn(page)
    BY DEF Related, RelatedOn
  <2> QED
    BY <2>1 DEF AgreeInv, Agree, PartsAgree, Shown
<1> QED
  BY <1>1, <1>2, <1>3, TypeInvariant, SoloInvariant, PTL DEF Spec

(* What is shown is as new as what is known *)

\* No answer that waits to be shown is older than the newest write the page has
\* been told of: unless handlers overlap, only loads run side by side, and a
\* load tells of no write.
AnswersInv ==
    ~ overtaken =>
      \A s \in Slots : Waiting(s) =>
        \A c \in DOMAIN running[s].got :
          running[s].got[c].state \in {"json", "html"} =>
            running[s].got[c].ver >= told

Fresh(value, n) == value # Empty => value.ver >= n

\* A slot that a write leaves as it was is loaded again before the page is
\* quiet, or else the page shows an error.
FreshInv ==
    (~ overtaken /\ ~ view.crashed) =>
      /\ \A x \in DOMAIN view.slots \ Lagging(page) : Fresh(view.slots[x], told)
      /\ (Quiet /\ ~ view.error) =>
           \A x \in DOMAIN view.slots : Fresh(view.slots[x], told)

\* A handler tells of a write only at a step that writes.
LEMMA ToldByWrites ==
    ASSUME TypeInv, NEW s \in Slots, Waiting(s)
    PROVE  LET f == running[s] IN
           /\ f.handler \in DOMAIN Handlers
           /\ f.step \in DOMAIN Handlers[f.handler].steps
           /\ StepOf(f) = Handlers[f.handler].steps[f.step]
           /\ DOMAIN f.got = CallsOf(StepOf(f))
           /\ ToldBy(f) # told => Writes(StepOf(f))
<1> DEFINE f == running[s]
<1>1. IsFrame(f, page) /\ f.handler \in DOMAIN Handlers
  BY Typed
<1>2. /\ f.step \in DOMAIN Handlers[f.handler].steps
      /\ StepOf(f) = Handlers[f.handler].steps[f.step]
      /\ DOMAIN f.got = CallsOf(StepOf(f))
  BY <1>1 DEF IsFrame, Handlers, StepOf
<1>3. ToldBy(f) # told => \E c \in DOMAIN f.got : Call[c].writes
  BY ToldDoes
<1> HIDE DEF f
<1>4. ToldBy(f) # told => Writes(StepOf(f))
  BY <1>2, <1>3 DEF Writes
<1> QED
  BY <1>1, <1>2, <1>4 DEF f

\* While two handlers run, neither has written.
LEMMA NothingTold ==
    ASSUME TypeInv, SoloInv, ~ overtaken, NEW s \in Slots, Waiting(s),
           NEW t \in Slots \ {s}, Waiting(t)
    PROVE  ToldBy(running[s]) = told
<1>1. Reads(Handlers[running[s].handler])
  BY OthersLoad
<1> QED
  BY <1>1, ToldByWrites DEF Reads

\* A step that tells of a write, or not, and whose handler ends or awaits
\* another step.
LEMMA AnswersAlone ==
    ASSUME TypeInv, SoloInv, AnswersInv, NEW s \in Slots, Waiting(s), Only(s),
           UNCHANGED overtaken, told' = ToldBy(running[s]),
           running'[s] # Idle => JustSent(running'[s])
    PROVE  AnswersInv'
<1> SUFFICES ASSUME ~ overtaken, NEW t \in Slots, Waiting(t)',
                    NEW c \in DOMAIN running'[t].got,
                    running'[t].got[c].state \in {"json", "html"}
             PROVE  running'[t].got[c].ver >= told'
  BY DEF AnswersInv
<1>1. CASE t = s
  BY <1>1 DEF JustSent, Waiting
<1>2. CASE t # s
  <2>1. Waiting(t) /\ running'[t] = running[t]
    BY <1>2, OthersWait
  <2>2. told' = told
    BY <1>2, <2>1, NothingTold
  <2> QED
    BY <2>1, <2>2 DEF AnswersInv
<1> QED
  BY <1>1, <1>2

LEMMA AnswersStep ==
    ASSUME TypeInv, SoloInv, AnswersInv, [Next]_vars
    PROVE  AnswersInv'
<1>1. ASSUME UNCHANGED <<running, told, overtaken>>
      PROVE  AnswersInv'
  BY <1>1 DEF AnswersInv, Waiting
<1>2. CASE Aside
  BY <1>1, <1>2 DEF Aside
<1>3. ASSUME NEW h \in DOMAIN Handlers, ClickBlank(h) \/ ClickAtOnce(h)
      PROVE  AnswersInv'
  BY <1>1, <1>3 DEF ClickBlank, ClickAtOnce
<1>4. ASSUME NEW h \in DOMAIN Handlers, NEW s \in Free, NEW of \in Asked(h),
             Click(s, h, of)
      PROVE  AnswersInv'
  <2>1. UNCHANGED told /\ overtaken' = (overtaken \/ ~ Quiet)
    BY <1>4 DEF Click
  <2>2. s \in Slots /\ Only(s) /\ JustSent(running'[s])
    BY <1>4, ClickDoes DEF Started
  <2> SUFFICES ASSUME ~ overtaken', NEW t \in Slots, Waiting(t)',
                      NEW c \in DOMAIN running'[t].got,
                      running'[t].got[c].state \in {"json", "html"}
               PROVE  FALSE
    BY DEF AnswersInv
  <2>3. t = s
    BY <2>1, <2>2, OthersWait DEF Quiet
  <2> QED
    BY <2>2, <2>3 DEF JustSent
<1>5. ASSUME NEW s \in Slots, NEW c \in Pending(s),
             Serve(s, c) \/ ServeHtml(s, c) \/ Refuse(s, c)
      PROVE  AnswersInv'
  <2>1. /\ Waiting(s) /\ Only(s) /\ UNCHANGED <<told, overtaken>>
        /\ Answered(running[s], running'[s], c)
        /\ Comes(running'[s].got[c], c) /\ db' \in Versions /\ db' >= db
    BY <1>5, AnswerDoes
  <2>2. db' >= told
    BY <2>1, LaterIsLater, Typed
  <2> SUFFICES ASSUME ~ overtaken, NEW t \in Slots, Waiting(t)',
                      NEW d \in DOMAIN running'[t].got,
                      running'[t].got[d].state \in {"json", "html"}
               PROVE  running'[t].got[d].ver >= told
    BY <2>1 DEF AnswersInv
  <2>3. CASE t # s
    BY <2>1, <2>3, OthersWait DEF AnswersInv
  <2>4. CASE t = s /\ d # c
    BY <2>1, <2>4 DEF AnswersInv, Answered
  <2>5. CASE t = s /\ d = c
    BY <2>1, <2>2, <2>5 DEF Comes
  <2> QED
    BY <2>3, <2>4, <2>5
<1>6. ASSUME NEW s \in Slots, Fail(s)
      PROVE  AnswersInv'
  <2>1. UNCHANGED <<told, overtaken>>
    BY <1>6 DEF Fail
  <2>2. Only(s) /\ ~ Waiting(s)'
    BY <1>6, FailDoes
  <2>3. \A t \in Slots : Waiting(t)' => Waiting(t) /\ running'[t] = running[t]
    BY <2>2, OthersWait
  <2> QED
    BY <2>1, <2>3 DEF AnswersInv
<1>7. ASSUME NEW s \in Slots, NextStep(s)
      PROVE  AnswersInv'
  <2>1. UNCHANGED overtaken /\ told' = ToldBy(running[s])
    BY <1>7 DEF NextStep
  <2>2. Waiting(s) /\ Only(s) /\ JustSent(running'[s])
    BY <1>7, NextStepDoes
  <2> QED
    BY <2>1, <2>2, AnswersAlone
<1>8. ASSUME NEW s \in Slots, GoOn(s)
      PROVE  AnswersInv'
  <2>1. UNCHANGED overtaken /\ told' = ToldBy(running[s])
    BY <1>8 DEF GoOn
  <2>2. Waiting(s) /\ Only(s) /\ JustSent(running'[s])
    BY <1>8, GoOnDoes DEF Started
  <2> QED
    BY <2>1, <2>2, AnswersAlone
<1>9. ASSUME NEW s \in Slots, Finish(s)
      PROVE  AnswersInv'
  <2>1. UNCHANGED overtaken /\ told' = ToldBy(running[s])
    BY <1>9 DEF Finish
  <2>2. Waiting(s) /\ Only(s) /\ running'[s] = Idle
    BY <1>9, FinishDoes
  <2> QED
    BY <2>1, <2>2, AnswersAlone
<1> QED
  BY Steps, <1>2, <1>3, <1>4, <1>5, <1>6, <1>7, <1>8, <1>9

\* A step that is done leaves fresh data in the slots it fills: the answers of
\* a load are no older than what is known, and a write is awaited alone.
LEMMA FilledFresh ==
    ASSUME TypeInv, AnswersInv, ~ overtaken, NEW s \in Slots, Waiting(s),
           Resolved(running[s]), NEW w, Fills(view, w, running[s]),
           NEW x \in DOMAIN view.slots, x \in FilledBy(StepOf(running[s]))
    PROVE  Fresh(w.slots[x], ToldBy(running[s]))
<1> DEFINE f == running[s]
<1>1. PICK c \in DOMAIN f.got : w.slots[x] = Shows(f, c)
  BY DEF Fills
<1>2. /\ f.got[c].state \in {"json", "html", "refused"}
      /\ f.got[c].ver \in Nat
  BY GotTyped DEF Resolved
<1>3. f.got[c].state # "refused" => f.got[c].ver >= told
  BY <1>2 DEF AnswersInv
<1>4. f.got[c].state # "refused" => f.got[c].ver >= ToldBy(f)
  <2>1. CASE ToldBy(f) = told
    BY <1>3, <2>1
  <2>2. CASE ToldBy(f) # told
    <3>1. Writes(StepOf(f)) /\ DOMAIN f.got = CallsOf(StepOf(f))
      BY <2>2, ToldByWrites
    <3>2. /\ f.handler \in DOMAIN Handlers
          /\ f.step \in DOMAIN Handlers[f.handler].steps
          /\ StepOf(f) = Handlers[f.handler].steps[f.step]
      BY ToldByWrites
    <3>3. \/ Handlers[f.handler].steps = << >>
          \/ Steady(Handlers[f.handler])
      BY <3>2, Typed, HandlerFacts DEF Handlers
    <3>4. \E d : CallsOf(StepOf(f)) = {d}
      <4>1. CASE Handlers[f.handler].steps = << >>
        BY <3>2, <4>1
      <4>2. CASE Steady(Handlers[f.handler])
        BY <3>1, <3>2, <4>2 DEF Steady
      <4> QED
        BY <3>3, <4>1, <4>2
    <3>5. DOMAIN f.got = {c}
      BY <3>1, <3>4
    <3>6. ToldBy(f) = f.got[c].ver
      BY <2>2, <3>5, ToldDoes
    <3> QED
      BY <1>2, <3>6
  <2> QED
    BY <2>1, <2>2
<1> HIDE DEF f
<1>5. Fresh(Shows(f, c), ToldBy(f))
  BY <1>4 DEF Fresh, Shows
<1> QED
  BY <1>1, <1>5 DEF f

LEMMA KeptFresh ==
    ASSUME TypeInv, AnswersInv, FreshInv, ~ overtaken, ~ view.crashed,
           NEW s \in Slots, Waiting(s), Resolved(running[s]),
           NEW w, Fills(view, w, running[s]),
           NEW x \in DOMAIN view.slots \ Lagging(page)
    PROVE  Fresh(w.slots[x], ToldBy(running[s]))
<1> DEFINE f == running[s]
<1>1. CASE x \in FilledBy(StepOf(f))
  BY <1>1, FilledFresh
<1>2. CASE x \notin FilledBy(StepOf(f))
  <2>1. /\ f.handler \in DOMAIN Handlers
        /\ f.step \in DOMAIN Handlers[f.handler].steps
        /\ StepOf(f) = Handlers[f.handler].steps[f.step]
    BY ToldByWrites
  <2>2. Refreshes(Handlers[f.handler], Pages[page].slots, Lagging(page))
    BY <2>1, Typed, PagesRefresh DEF Handlers
  <2>3. ~ Writes(StepOf(f))
    BY <1>2, <2>1, <2>2, Typed DEF Refreshes
  <2>4. ToldBy(f) = told /\ w.slots[x] = view.slots[x]
    BY <1>2, <2>3, ToldByWrites DEF Fills
  <2> QED
    BY <2>4 DEF FreshInv
<1> QED
  BY <1>1, <1>2

\* A step that tells of nothing, and at most clears slots.
LEMMA FreshAlone ==
    ASSUME TypeInv, FreshInv, UNCHANGED <<page, told>>,
           ~ overtaken' => ~ overtaken, ~ view'.crashed => ~ view.crashed,
           DOMAIN view'.slots = DOMAIN view.slots,
           \A x \in DOMAIN view.slots :
             view'.slots[x] = view.slots[x] \/ view'.slots[x] = Empty,
           \/ Lagging(page) = {} \/ view'.error \/ ~ Quiet'
           \/ Quiet /\ ~ view.error
    PROVE  FreshInv'
<1> SUFFICES ASSUME ~ overtaken', ~ view'.crashed
             PROVE  /\ \A x \in DOMAIN view.slots \ Lagging(page) :
                         Fresh(view'.slots[x], told)
                    /\ (Quiet' /\ ~ view'.error) =>
                         \A x \in DOMAIN view.slots : Fresh(view'.slots[x], told)
  BY DEF FreshInv, Lagging
<1>1. \A x \in DOMAIN view.slots :
        Fresh(view.slots[x], told) => Fresh(view'.slots[x], told)
  BY DEF Fresh
<1>2. \A x \in DOMAIN view.slots \ Lagging(page) : Fresh(view'.slots[x], told)
  BY <1>1 DEF FreshInv
<1>3. ASSUME Quiet, ~ view.error
      PROVE  \A x \in DOMAIN view.slots : Fresh(view'.slots[x], told)
  BY <1>1, <1>3 DEF FreshInv
<1> QED
  BY <1>2, <1>3

\* The last step of a handler that ends fills every slot that may lag.
LEMMA EndsFresh ==
    ASSUME TypeInv, SoloInv, AnswersInv, FreshInv, ~ overtaken,
           NEW s \in Slots, Finish(s), NEW x \in DOMAIN view.slots
    PROVE  Fresh(view'.slots[x], told')
<1> DEFINE f == running[s]
           script == Handlers[f.handler]
<1>1. /\ Waiting(s) /\ Fills(view, view', f) /\ Resolved(f) /\ ~ view.crashed
      /\ f.step = Len(script.steps) /\ (script.then = "" \/ f.skips)
      /\ told' = ToldBy(f)
  BY FinishDoes DEF Finish, Last
<1>2. CASE x \notin Lagging(page)
  BY <1>1, <1>2, KeptFresh
<1>3. CASE x \in Lagging(page)
  <2>1. f.handler \in DOMAIN Handlers /\ StepOf(f) = script.steps[f.step]
    BY <1>1, ToldByWrites
  <2>2. Refreshes(script, Pages[page].slots, Lagging(page))
    BY <2>1, Typed, PagesRefresh DEF Handlers
  <2>3. script.then = ""
    BY <1>1, <1>3, <2>2 DEF Refreshes, SoloInv
  <2>4. x \in FilledBy(StepOf(f))
    BY <1>1, <1>3, <2>1, <2>2, <2>3 DEF Refreshes
  <2> QED
    BY <1>1, <2>4, FilledFresh
<1> QED
  BY <1>2, <1>3

LEMMA FreshStep ==
    ASSUME TypeInv, SoloInv, AnswersInv, FreshInv, [Next]_vars
    PROVE  FreshInv'
<1>1. CASE Aside
  <2>1. Quiet' => Quiet
    BY <1>1 DEF Aside, Quiet, Waiting
  <2>2. /\ UNCHANGED <<page, told, overtaken>> /\ view'.slots = view.slots
        /\ view'.error = view.error /\ view'.crashed = view.crashed
    BY <1>1 DEF Aside
  <2> QED
    BY <2>1, <2>2, FreshAlone
<1>2. ASSUME NEW h \in DOMAIN Handlers, ClickBlank(h)
      PROVE  FreshInv'
  BY <1>2, BlankDoes, FreshAlone
<1>3. ASSUME NEW h \in DOMAIN Handlers, ClickAtOnce(h)
      PROVE  FreshInv'
  <2>1. /\ UNCHANGED <<page, told, overtaken>>
        /\ view' = Opened(view, Handlers[h]) /\ Handlers[h].steps = << >>
    BY <1>3 DEF ClickAtOnce
  <2>2. Refreshes(Handlers[h], Pages[page].slots, Lagging(page))
    BY Typed, PagesRefresh DEF Handlers
  <2>3. Lagging(page) = {}
    BY <2>1, <2>2 DEF Refreshes
  <2>4. view'.crashed = view.crashed /\ Clears(view, view', Handlers[h].resets)
    BY <2>1, ClickOpens
  <2>5. /\ DOMAIN view'.slots = DOMAIN view.slots
        /\ \A x \in DOMAIN view.slots :
             view'.slots[x] = view.slots[x] \/ view'.slots[x] = Empty
    BY <2>4 DEF Clears
  <2> QED
    BY <2>1, <2>3, <2>4, <2>5, FreshAlone
<1>4. ASSUME NEW h \in DOMAIN Handlers, NEW s \in Free, NEW of \in Asked(h),
             Click(s, h, of)
      PROVE  FreshInv'
  <2>1. /\ UNCHANGED <<page, told>> /\ overtaken' = (overtaken \/ ~ Quiet)
        /\ view' = Opened(view, Handlers[h])
    BY <1>4 DEF Click
  <2>2. s \in Slots /\ running'[s] # Idle
    BY <1>4, ClickDoes
  <2>3. ~ Quiet'
    BY <2>2 DEF Quiet, Waiting
  <2>4. view'.crashed = view.crashed /\ Clears(view, view', Handlers[h].resets)
    BY <2>1, ClickOpens
  <2>5. /\ DOMAIN view'.slots = DOMAIN view.slots
        /\ \A x \in DOMAIN view.slots :
             view'.slots[x] = view.slots[x] \/ view'.slots[x] = Empty
    BY <2>4 DEF Clears
  <2> QED
    BY <2>1, <2>3, <2>4, <2>5, FreshAlone
<1>5. ASSUME NEW s \in Slots, NEW c \in Pending(s),
             Serve(s, c) \/ ServeHtml(s, c) \/ Refuse(s, c)
      PROVE  FreshInv'
  <2>1. running'[s] # Idle /\ UNCHANGED <<page, view, told, overtaken>>
    BY <1>5, AnswerDoes
  <2>2. ~ Quiet'
    BY <2>1 DEF Quiet, Waiting
  <2> QED
    BY <2>1, <2>2, FreshAlone
<1>6. ASSUME NEW s \in Slots, Fail(s)
      PROVE  FreshInv'
  <2>1. UNCHANGED <<page, told, overtaken>> /\ ~ view.crashed
    BY <1>6 DEF Fail
  <2>2. /\ view'.error
        /\ Clears(view, view', Handlers[running[s].handler].drops)
    BY <1>6, FailDoes
  <2>3. /\ DOMAIN view'.slots = DOMAIN view.slots
        /\ \A x \in DOMAIN view.slots :
             view'.slots[x] = view.slots[x] \/ view'.slots[x] = Empty
    BY <2>2 DEF Clears
  <2> QED
    BY <2>1, <2>2, <2>3, FreshAlone
<1>7. ASSUME NEW s \in Slots, NextStep(s)
      PROVE  FreshInv'
  <2>1. /\ UNCHANGED <<page, overtaken>> /\ told' = ToldBy(running[s])
        /\ ~ view.crashed /\ Resolved(running[s])
    BY <1>7 DEF NextStep
  <2>2. /\ Waiting(s) /\ Waiting(s)' /\ Fills(view, view', running[s])
    BY <1>7, NextStepDoes
  <2>3. DOMAIN view'.slots = DOMAIN view.slots
    BY <2>2 DEF Fills
  <2>4. ~ overtaken =>
          \A x \in DOMAIN view.slots \ Lagging(page) :
            Fresh(view'.slots[x], told')
    BY <2>1, <2>2, KeptFresh
  <2>5. ~ Quiet' /\ Lagging(page)' = Lagging(page)
    BY <2>1, <2>2 DEF Quiet, Lagging
  <2> QED
    BY <2>1, <2>3, <2>4, <2>5 DEF FreshInv
<1>8. ASSUME NEW s \in Slots, GoOn(s)
      PROVE  FreshInv'
  <2>1. /\ UNCHANGED <<page, overtaken>> /\ told' = ToldBy(running[s])
        /\ ~ view.crashed /\ Resolved(running[s])
    BY <1>8 DEF GoOn, Last
  <2>2. Waiting(s) /\ Waiting(s)'
    BY <1>8, GoOnDoes
  <2>3. PICK v : /\ Fills(view, v, running[s])
                 /\ \E resets : Clears(v, view', resets)
    BY <1>8, GoOnDoes
  <2>4. DOMAIN v.slots = DOMAIN view.slots
    BY <2>3 DEF Fills
  <2>5. /\ DOMAIN view'.slots = DOMAIN view.slots
        /\ \A x \in DOMAIN view.slots :
             view'.slots[x] = v.slots[x] \/ view'.slots[x] = Empty
    BY <2>3, <2>4 DEF Clears
  <2>6. ASSUME ~ overtaken, NEW x \in DOMAIN view.slots \ Lagging(page)
        PROVE  Fresh(view'.slots[x], told')
    <3>1. Fresh(v.slots[x], told')
      BY <2>1, <2>2, <2>3, <2>6, KeptFresh
    <3> QED
      BY <2>5, <3>1 DEF Fresh
  <2>7. ~ Quiet' /\ Lagging(page)' = Lagging(page)
    BY <2>1, <2>2 DEF Quiet, Lagging
  <2> QED
    BY <2>1, <2>5, <2>6, <2>7 DEF FreshInv
<1>9. ASSUME NEW s \in Slots, Finish(s)
      PROVE  FreshInv'
  <2>1. UNCHANGED <<page, overtaken>> /\ Fills(view, view', running[s])
    BY <1>9, FinishDoes DEF Finish
  <2>2. DOMAIN view'.slots = DOMAIN view.slots
    BY <2>1 DEF Fills
  <2>3. ~ overtaken => \A x \in DOMAIN view.slots : Fresh(view'.slots[x], told')
    BY <1>9, EndsFresh
  <2> QED
    BY <2>1, <2>2, <2>3 DEF FreshInv
<1> QED
  BY Steps, <1>1, <1>2, <1>3, <1>4, <1>5, <1>6, <1>7, <1>8, <1>9

\* Unless a handler was started while another one ran, a page that is quiet and
\* shows no error shows nothing older than the last write it was told of.
THEOREM FreshUnlessOvertaken == Spec => []StaleOnlyIfOvertaken
<1>1. Init => AnswersInv /\ FreshInv
  <2>1. Init => AnswersInv
    BY InitDoes DEF AnswersInv, Started, JustSent
  <2>2. Init => FreshInv
    BY InitDoes DEF FreshInv, Fresh
  <2> QED
    BY <2>1, <2>2
<1>2. /\ TypeInv /\ SoloInv /\ AnswersInv /\ [Next]_vars => AnswersInv'
      /\ TypeInv /\ SoloInv /\ AnswersInv /\ FreshInv /\ [Next]_vars => FreshInv'
  BY AnswersStep, FreshStep
<1>3. FreshInv => StaleOnlyIfOvertaken
  BY DEF FreshInv, Fresh, StaleOnlyIfOvertaken
<1> QED
  BY <1>1, <1>2, <1>3, TypeInvariant, SoloInvariant, PTL DEF Spec
=============================================================================
