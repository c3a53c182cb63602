----------------------------- MODULE PageScript -----------------------------
(***************************************************************************)
(* The vocabulary the console's pages are described in.  A page is its     *)
(* data slots (useState), its handlers, and its view: what is on the       *)
(* screen and which controls can be used.  All handlers have one form, so  *)
(* a handler is a script:                                                  *)
(*                                                                         *)
(*     if (needsInput && blank) { setError; return }                       *)
(*     set the busy flags; clear error and notice (hushes), clear slots    *)
(*     (resets)                                                            *)
(*     try     { per step: await its calls, fill slots;                    *)
(*               say so (says); await the then-handler unless the slot     *)
(*               named by unless held this subject when it started }       *)
(*     catch   { clear slots (drops); setError }                           *)
(*     finally { clear the busy flags }                                    *)
(***************************************************************************)

\* The subject is what the handler is called for: what is typed in the page's
\* search box, a row of its table, or the page itself.
Script ==
    [subject |-> "page", needsInput |-> FALSE, busy |-> {},
     hushes |-> {"error"}, resets |-> {}, steps |-> << >>, says |-> FALSE,
     then |-> "", unless |-> "", drops |-> {}]

\* Calls made together, and the slots filled with their answers.  A tolerant
\* step takes a call that fails for an empty list.
Step(fills) == [fills |-> fills, tolerant |-> FALSE]
CallsOf(step) == {fill[2] : fill \in step.fills}

\* The usual handler that loads the page's data.
LoadScript(fills) ==
    [Script EXCEPT !.busy = {"loading"}, !.steps = <<Step(fills)>>]

\* The empty list and null look alike to a page.
Empty == [of |-> "nothing", ver |-> 0, html |-> FALSE]
Shown(v, slot) == v.slots[slot] # Empty

When(condition, things) == IF condition THEN things ELSE {}

\* panels: the slots on the screen; controls: the handlers a user can start;
\* breaks: the slots that make rendering throw if they hold a text.
PageView(panels, controls, breaks) ==
    [panels |-> panels, controls |-> controls, breaks |-> breaks]
=============================================================================
