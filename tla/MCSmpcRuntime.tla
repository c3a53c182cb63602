----------------------------- MODULE MCSmpcRuntime -----------------------------
(* Values of the constants of SmpcRuntime for TLC. *)
EXTENDS SmpcRuntime

\* No reference, one in either list, one in both, and two.
MCLists == {<<{}, {}>>, <<{"r1"}, {}>>, <<{"r1"}, {"r1"}>>, <<{"r1"}, {"r2"}>>,
            <<{}, {"r2"}>>}

\* No score, scores around the thresholds, and the largest there are.
MCScores == {<<>>, <<39>>, <<40, 69>>, <<70>>, <<1023, 1023>>}

MCParties == {[bank |-> b, customers |-> l[1], counterparties |-> l[2],
               scores |-> s] : b \in {"a", "b", "c"}, l \in MCLists,
                               s \in MCScores}

MCScreenParties == {[bank |-> "a", customers |-> {"r1"},
                     counterparties |-> {}, scores |-> <<39>>]}
=============================================================================
