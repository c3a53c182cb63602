-------------------------- MODULE EncryptionService --------------------------
(***************************************************************************)
(* The encryption service: POST /transactions/submit.  A submission       *)
(* checks that its tx_id is new, has the SMPC runtime screen the sender   *)
(* and the receiver, and records the transaction with its three audit     *)
(* events in one database transaction.  Nothing holds the tx_id between   *)
(* the check and the insert; the table's UNIQUE(tx_id) decides.           *)
(*                                                                         *)
(* enc[c] is the submission caller c has in flight, or the reply waiting  *)
(* for it.  Any number of callers submit concurrently.                    *)
(***************************************************************************)
EXTENDS SharedTables

CONSTANTS
    NoPayload,    \* the payload of an idle slot
    ScreenResults \* what the SMPC runtime may answer for one entity

ASSUME NoPayloadAssumption == NoPayload \notin Payloads

VARIABLE enc

EncPcs == {"idle", "check", "screen",
           "created", "conflict", "failed", "unreachable"}
EncReplies == {"created", "conflict", "failed", "unreachable"}
EncRunning == {"check", "screen"}

EncSlot == [pc : EncPcs, payload : Payloads \union {NoPayload}]
EncIdle == [pc |-> "idle", payload |-> NoPayload]

EncTypeOK == enc \in [Calls -> EncSlot]
EncInit == enc = [c \in Calls |-> EncIdle]

EncReplied(c) == enc[c].pc \in EncReplies

\* A caller posts a payload.
EncPost(c, p) ==
    /\ enc[c].pc = "idle"
    /\ enc' = [enc EXCEPT ![c] = [pc |-> "check", payload |-> p]]

\* The existing-row check: 409 if the tx_id is taken.  A body axum cannot
\* decode as TransactionInput is refused before the handler runs.
EncCheck(c) ==
    /\ enc[c].pc = "check"
    /\ enc' = [enc EXCEPT ![c].pc =
                 IF ~ enc[c].payload.decodes THEN "failed"
                 ELSE IF RowExists(enc[c].payload.id) THEN "conflict"
                 ELSE "screen"]
    /\ UNCHANGED <<row, audit>>

FinalStatus(sender, receiver) ==
    IF "match" \in {sender, receiver} THEN "screened_match"
                                      ELSE "screened_clear"

\* Mutation of EncCommit: an upsert where the code relies on UNIQUE(tx_id).
EncCommitUpsert(c) ==
    LET p == enc[c].payload IN
    /\ enc[c].pc = "screen"
    /\ row' = [row EXCEPT ![p.id] =
                 [status |-> "screened_clear",
                  institutions |-> p.institutions,
                  rules |-> {}, evaluated |-> FALSE]]
    /\ audit' = AuditWith(p.id, SubmissionEvents)
    /\ enc' = [enc EXCEPT ![c].pc = "created"]

\* Mutation of EncCommit: the insert without its audit events.
EncCommitRowOnly(c) ==
    LET p == enc[c].payload IN
    /\ enc[c].pc = "screen"
    /\ ~ RowExists(p.id)
    /\ row' = [row EXCEPT ![p.id] =
                 [status |-> "screened_clear",
                  institutions |-> p.institutions,
                  rules |-> {}, evaluated |-> FALSE]]
    /\ enc' = [enc EXCEPT ![c].pc = "created"]
    /\ UNCHANGED audit

\* Both screenings came back; the row and its three audit events are inserted
\* in one database transaction.  The columns of the risk rules keep their
\* defaults.
EncCommit(c) ==
    LET p == enc[c].payload IN
    /\ enc[c].pc = "screen"
    /\ ~ RowExists(p.id)
    /\ \E sender, receiver \in ScreenResults :
         row' = [row EXCEPT ![p.id] =
                   [status |-> FinalStatus(sender, receiver),
                    institutions |-> p.institutions,
                    rules |-> {}, evaluated |-> FALSE]]
    /\ audit' = AuditWith(p.id, SubmissionEvents)
    /\ enc' = [enc EXCEPT ![c].pc = "created"]

\* The row appeared since the check: the insert violates UNIQUE(tx_id), the
\* database transaction rolls back and the caller gets a 500.
EncCommitConflict(c) ==
    /\ enc[c].pc = "screen"
    /\ RowExists(enc[c].payload.id)
    /\ enc' = [enc EXCEPT ![c].pc = "failed"]
    /\ UNCHANGED <<row, audit>>

\* A screening or a statement fails: a 500, and nothing is recorded.
EncFail(c) ==
    /\ enc[c].pc \in EncRunning
    /\ enc' = [enc EXCEPT ![c].pc = "failed"]
    /\ UNCHANGED <<row, audit>>

\* The service stops or the connection breaks, before the answer exists or
\* before it arrives.
EncLose(c) ==
    /\ enc[c].pc \in EncRunning \union {"created", "conflict", "failed"}
    /\ enc' = [enc EXCEPT ![c].pc = "unreachable"]
    /\ UNCHANGED <<row, audit>>

\* The caller has read its answer (or nobody waits for it any more).
EncTake(c) ==
    /\ EncReplied(c)
    /\ enc' = [enc EXCEPT ![c] = EncIdle]

EncProgress(c) == EncCheck(c) \/ EncCommit(c) \/ EncCommitConflict(c)
EncFault(c) == EncFail(c) \/ EncLose(c)
=============================================================================
