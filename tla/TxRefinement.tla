---------------------------- MODULE TxRefinement ----------------------------
(***************************************************************************)
(* The transaction workflow implements ScreeningTrail: what the three     *)
(* services write, statement by statement and with other requests in      *)
(* between, adds up to the trail.                                         *)
(***************************************************************************)
EXTENDS TxWorkflow

\* How far a workflow is, by its status.
StageOf(status) ==
    CASE status \in {"screened", "proof_failed"} -> "past"
      [] status = "proof_generated"              -> "complete"
      [] OTHER                                   -> "open"

Trail == INSTANCE ScreeningTrail WITH
    Trim     <- TrimTx,
    Rules    <- ProofRules,
    decided  <- {t \in Ids : wf[t].reviewedBy # NoUser},
    recorded <- [i \in Ids |-> audit[i]["sender_screening_completed"]],
    linked   <- [t \in Ids |-> audit[t]["smpc_screening_risk_linked"]],
    stored   <- [i \in Ids |-> {p.rule : p \in proofs[i]}],
    stage    <- [t \in Ids |-> StageOf(wf[t].status)]

\* Every step of the three services adds at most one entry to the trail, an
\* entry the trail is ready for: a submission is recorded and linked once
\* however many requests, direct callers and retries race for it, the status
\* follows the evidence, and nothing is ever taken from the trail, whatever
\* handlers stop half-way.
TrailKept == Trail!Spec
=============================================================================
