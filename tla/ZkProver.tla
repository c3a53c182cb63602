------------------------------ MODULE ZkProver ------------------------------
(***************************************************************************)
(* The zk prover: POST /proofs/generate.  A run reads the transactions    *)
(* row, then the audit events, in two statements, forms one claim per     *)
(* FATF rule, and then verifies and stores the three proofs one by one.   *)
(* Every statement commits by itself, so a run that stops half-way leaves *)
(* some of its proofs, and a repeated run stores all three again.         *)
(*                                                                         *)
(* zk[c] is the run caller c has in flight, or the reply waiting for it.  *)
(* proofs[i] holds the distinct (rule, signal, status) stored for tx_id i:*)
(* the table is append only and repeated proofs are equal up to their id. *)
(***************************************************************************)
EXTENDS SharedTables

VARIABLES zk, proofs

ProofRules == {"FATF_REC10", "FATF_REC11", "FATF_REC16"}

Proof == [rule : ProofRules, signal : BOOLEAN,
          status : {"verified", "generated"}]

ZkPcs == {"idle", "fetch_tx", "fetch_audit",
          "store_rec10", "store_rec11", "store_rec16",
          "ok", "error", "unreachable"}
ZkStoring == {"store_rec10", "store_rec11", "store_rec16"}
ZkRunning == {"fetch_tx", "fetch_audit"} \union ZkStoring
ZkReplies == {"ok", "error", "unreachable"}

\* institutions: what the fetched row says of them; holds: the rules whose
\* claim is true.
ZkSlot == [pc : ZkPcs, id : Ids, institutions : BOOLEAN,
           holds : SUBSET ProofRules]

\* The id of an idle slot has no meaning.
AnyId == CHOOSE i \in Ids : TRUE
ZkIdle == [pc |-> "idle", id |-> AnyId, institutions |-> FALSE, holds |-> {}]

ZkTypeOK ==
    /\ zk \in [Calls -> ZkSlot]
    /\ proofs \in [Ids -> SUBSET Proof]

ZkInit ==
    /\ zk = [c \in Calls |-> ZkIdle]
    /\ proofs = [i \in Ids |-> {}]

ZkReplied(c) == zk[c].pc \in ZkReplies

ZkPost(c, i) ==
    /\ zk[c].pc = "idle"
    /\ zk' = [zk EXCEPT ![c] = [ZkIdle EXCEPT !.pc = "fetch_tx", !.id = i]]

ZkFetchTx(c) ==
    /\ zk[c].pc = "fetch_tx"
    /\ zk' = [zk EXCEPT ![c] = [@ EXCEPT
                 !.pc = IF RowExists(zk[c].id) THEN "fetch_audit" ELSE "error",
                 !.institutions = row[zk[c].id].institutions]]
    /\ UNCHANGED <<row, audit, proofs>>

\* Mutation of Claims: R.10 taken from the executed check alone.
ClaimsWithoutScreening(i, institutions) ==
    {r \in ProofRules :
       CASE r = "FATF_REC10" -> TRUE
         [] r = "FATF_REC11" -> AuditCount(i) >= 3
         [] r = "FATF_REC16" -> institutions}

\* The three claims, from the audit events as they are now and the row as it
\* was.  R.10 takes the customer due diligence check as executed, R.11 asks
\* for three audit events, R.16 for both institutions.
Claims(i, institutions) ==
    {r \in ProofRules :
       CASE r = "FATF_REC10" -> /\ Recorded(i, "sender_screening_completed")
                                /\ Recorded(i, "receiver_screening_completed")
         [] r = "FATF_REC11" -> AuditCount(i) >= 3
         [] r = "FATF_REC16" -> institutions}

ZkFetchAudit(c) ==
    /\ zk[c].pc = "fetch_audit"
    /\ zk' = [zk EXCEPT ![c] = [@ EXCEPT
                 !.pc = "store_rec10",
                 !.holds = Claims(zk[c].id, zk[c].institutions)]]
    /\ UNCHANGED <<row, audit, proofs>>

\* Each circuit only constrains its one cell to the public input, and both
\* are the claim's public value.
CircuitAccepts(cell, publicInput) == cell = publicInput

\* The artifact is verified before it is stored: its hash is the hash of the
\* blob it was computed from, so the circuit decides.
ArtifactStatus(signal) ==
    IF CircuitAccepts(signal, signal) THEN "verified" ELSE "generated"

RuleAt(pc) == CASE pc = "store_rec10" -> "FATF_REC10"
                [] pc = "store_rec11" -> "FATF_REC11"
                [] pc = "store_rec16" -> "FATF_REC16"

\* Mutation of AfterStore: the run answers before the last proof.
AfterStoreEarly(pc) == CASE pc = "store_rec10" -> "store_rec11"
                         [] pc = "store_rec11" -> "ok"
                         [] pc = "store_rec16" -> "ok"

AfterStore(pc) == CASE pc = "store_rec10" -> "store_rec11"
                    [] pc = "store_rec11" -> "store_rec16"
                    [] pc = "store_rec16" -> "ok"

ZkStore(c) ==
    LET rule   == RuleAt(zk[c].pc)
        signal == rule \in zk[c].holds
    IN  /\ zk[c].pc \in ZkStoring
        /\ proofs' = [proofs EXCEPT ![zk[c].id] =
                        @ \union {[rule |-> rule, signal |-> signal,
                                   status |-> ArtifactStatus(signal)]}]
        /\ zk' = [zk EXCEPT ![c].pc = AfterStore(zk[c].pc)]
        /\ UNCHANGED <<row, audit>>

\* A statement fails: a 500; the proofs stored so far stay.
ZkFail(c) ==
    /\ zk[c].pc \in ZkRunning
    /\ zk' = [zk EXCEPT ![c].pc = "error"]
    /\ UNCHANGED <<row, audit, proofs>>

\* The service stops or the connection breaks.
ZkLose(c) ==
    /\ zk[c].pc \in ZkRunning \union {"ok", "error"}
    /\ zk' = [zk EXCEPT ![c].pc = "unreachable"]
    /\ UNCHANGED <<row, audit, proofs>>

ZkTake(c) ==
    /\ ZkReplied(c)
    /\ zk' = [zk EXCEPT ![c] = ZkIdle]

ZkProgress(c) == ZkFetchTx(c) \/ ZkFetchAudit(c) \/ ZkStore(c)
ZkFault(c) == ZkFail(c) \/ ZkLose(c)
=============================================================================
