---------------------------- MODULE MCTxWorkflow ----------------------------
(* Values of the constants of TxWorkflow for TLC. *)
EXTENDS TxRefinement, TLC

P(id, decodes, institutions, words) ==
    [id |-> id, decodes |-> decodes, institutions |-> institutions,
     crossBank |-> TRUE, highAmount |-> FALSE, overlaps |-> FALSE,
     words |-> words]

\* A complete payload; one whose institutions are blank, which only a direct
\* caller gets past validation; one the encryption service cannot decode.
PlainPayload   == P("t1", TRUE, TRUE, {"shared_counterparty"})
BlankPayload   == P("t1", TRUE, FALSE, {})
GarbledPayload == P("t1", FALSE, TRUE, {})
PaddedPayload  == P(" t1", TRUE, TRUE, {})

OneId    == {"t1"}
TwoIds   == {"t1", " t1"}
TrimOne  == [i \in {"t1"} |-> "t1"]
TrimTwo  == [i \in {"t1", " t1"} |-> "t1"]

MCPlain   == {PlainPayload}
MCBlank   == {PlainPayload, BlankPayload}
MCGarbled == {PlainPayload, GarbledPayload}
MCBoth    == {PlainPayload, PaddedPayload}

\* submitter and reviewer
MCRoleOf == [u \in {"sam", "rea"} |->
               IF u = "sam" THEN "transaction_submitter"
                            ELSE "transaction_reviewer"]

\* Request slots are interchangeable: used by the runs that check no liveness.
RequestSymmetry == Permutations(Requests)

\* one institution admin who may do everything
MCAdminRole == [u \in {"ada"} |-> "institution_admin"]
=============================================================================
