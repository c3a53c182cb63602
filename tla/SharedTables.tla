---------------------------- MODULE SharedTables ----------------------------
(***************************************************************************)
(* The two Postgres tables that several services write and read:          *)
(* transactions (at most one row per tx_id) and audit_logs (append only). *)
(* Each SQL statement outside a database transaction commits by itself,   *)
(* so a statement, or one whole database transaction, is one step.        *)
(***************************************************************************)
EXTENDS Naturals, RiskRules

CONSTANTS
    Ids,      \* tx_id strings
    Payloads, \* transaction payloads a client may send
    Calls     \* callers of the services; one outstanding call each

ASSUME PayloadsAssumption == Ids # {} /\ Payloads \subseteq Payload(Ids)

VARIABLES
    row,      \* transactions, by tx_id
    audit     \* audit_logs, by tx_id: how many rows of each event type

WorkflowStatuses == {"draft", "submitted", "under_review", "approved",
                     "rejected", "screening_failed", "screened",
                     "proof_failed", "proof_generated"}

\* evaluate_risk stores the workflow's status in the row it inserts.
RowStatuses == WorkflowStatuses \union {"screened_match", "screened_clear"}

Row == [status : RowStatuses \union {"none"}, institutions : BOOLEAN,
        rules : SUBSET Rules, evaluated : BOOLEAN]

NoRow == [status |-> "none", institutions |-> FALSE, rules |-> {},
          evaluated |-> FALSE]

RowExists(i) == row[i].status # "none"

AuditEvents == {"transaction_submitted_and_pseudonymized",
                "sender_screening_completed",
                "receiver_screening_completed",
                "bank_side_risk_evaluation",
                "smpc_screening_risk_linked",
                "regulator_anomaly_case_opened"}

\* The three events the encryption service records with the transaction.
SubmissionEvents == {"transaction_submitted_and_pseudonymized",
                     "sender_screening_completed",
                     "receiver_screening_completed"}

NoAudit == [e \in AuditEvents |-> 0]

\* audit' after one more row of each event of the set is inserted for i.
AuditWith(i, events) ==
    [audit EXCEPT ![i] =
        [e \in AuditEvents |-> IF e \in events THEN @[e] + 1 ELSE @[e]]]

AuditCount(i) ==
    audit[i]["transaction_submitted_and_pseudonymized"]
      + audit[i]["sender_screening_completed"]
      + audit[i]["receiver_screening_completed"]
      + audit[i]["bank_side_risk_evaluation"]
      + audit[i]["smpc_screening_risk_linked"]
      + audit[i]["regulator_anomaly_case_opened"]

Recorded(i, event) == audit[i][event] > 0

TablesTypeOK ==
    /\ row \in [Ids -> Row]
    /\ audit \in [Ids -> [AuditEvents -> Nat]]

TablesInit ==
    /\ row = [i \in Ids |-> NoRow]
    /\ audit = [i \in Ids |-> NoAudit]
=============================================================================
