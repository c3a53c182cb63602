--------------------------- MODULE ScreeningTrail ---------------------------
(***************************************************************************)
(* What screening and proving promise a regulator who reads the tables,   *)
(* without services, handlers or calls: the trail of a transaction only   *)
(* grows, one entry at a time and each entry at most once, and the        *)
(* workflow is as far as its trail lets it be.                            *)
(*                                                                         *)
(* A submission is recorded once per tx_id.  It is linked to its workflow *)
(* once, after a reviewer decided.  The workflow is past screening only   *)
(* once it is linked, and complete only when a proof of every rule is     *)
(* stored; it may be reopened at any time and then passes again without   *)
(* a second link.                                                         *)
(***************************************************************************)
EXTENDS Naturals

CONSTANTS
    Ids,     \* tx_ids as submitted; a workflow has a trimmed one
    Trim,    \* the workflow a submission belongs to
    Rules    \* the rules to be proved

VARIABLES
    decided,  \* workflows a reviewer decided on
    recorded, \* how often a submission is recorded, by tx_id
    linked,   \* how often a submission is linked, by workflow
    stored,   \* rules with a stored proof, by tx_id
    stage     \* "open", "past" screening, or "complete"

trail == <<decided, recorded, linked, stored, stage>>

Init ==
    /\ decided = {}
    /\ recorded = [i \in Ids |-> 0]
    /\ linked = [t \in Ids |-> 0]
    /\ stored = [i \in Ids |-> {}]
    /\ stage = [t \in Ids |-> "open"]

Decide(t) ==
    /\ decided' = decided \union {t}
    /\ UNCHANGED <<recorded, linked, stored, stage>>

Record(i) ==
    /\ recorded[i] = 0
    /\ recorded' = [recorded EXCEPT ![i] = 1]
    /\ UNCHANGED <<decided, linked, stored, stage>>

\* i is the submission the workflow sent.
Link(t, i) ==
    /\ t \in decided
    /\ Trim[i] = t
    /\ recorded[i] = 1
    /\ linked[t] = 0
    /\ linked' = [linked EXCEPT ![t] = 1]
    /\ UNCHANGED <<decided, recorded, stored, stage>>

Store(i, rule) ==
    /\ stored' = [stored EXCEPT ![i] = @ \union {rule}]
    /\ UNCHANGED <<decided, recorded, linked, stage>>

Enter(t, to) ==
    /\ stage' = [stage EXCEPT ![t] = to]
    /\ UNCHANGED <<decided, recorded, linked, stored>>

Pass(t)     == linked[t] = 1 /\ Enter(t, "past")
Complete(t) == linked[t] = 1 /\ stored[t] = Rules /\ Enter(t, "complete")
Reopen(t)   == Enter(t, "open")

Next ==
    \/ \E t \in Ids : Decide(t) \/ Pass(t) \/ Complete(t) \/ Reopen(t)
    \/ \E i \in Ids : Record(i) \/ \E rule \in Rules : Store(i, rule)
    \/ \E t, i \in Ids : Link(t, i)

Spec == Init /\ [][Next]_trail
=============================================================================
