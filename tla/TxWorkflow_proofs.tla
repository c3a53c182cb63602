-------------------------- MODULE TxWorkflow_proofs --------------------------
(***************************************************************************)
(* Proofs about TxWorkflow, for any number of request slots, clients,      *)
(* users, tx_ids and payloads, and any assignment of roles.  First types.  *)
(* Then the reviewer's decision and the evidence of the screening          *)
(* (ReviewedBeforeScreening and ScreenedHasEvidence).  Then the prover's   *)
(* runs: a stored proof that says its claim holds stays true of the tables *)
(* (ProofsSound), and a proved workflow has a proof of every rule          *)
(* (ProofSetComplete) whose claim holds (WorkflowProofsHold).              *)
(***************************************************************************)
EXTENDS TxWorkflow, TLAPS

(* Types *)

\* The handler has not met its workflow yet.
Starting == {"idle", "create_check_workflow", "create_insert"}

\* What is in use carries a payload: a submission in flight, a running
\* handler, an existing workflow.  A handler past its first read works on a
\* workflow that exists.
PayloadsInUse ==
    /\ \A c \in Calls : enc[c].pc # "idle" => enc[c].payload \in Payloads
    /\ \A r \in Requests : req[r].pc # "idle" => req[r].payload \in Payloads
    /\ \A t \in Ids : WfExists(t) => wf[t].payload \in Payloads
    /\ \A r \in Requests : req[r].pc \notin Starting => WfExists(req[r].tx)

TypeInv == TypeOK /\ PayloadsInUse

\* The request slots are calls, too, and an idle slot's id is an id.
LEMMA CallsFacts == /\ Requests \subseteq Calls
                    /\ Clients \subseteq Calls
                    /\ AnyId \in Ids
BY WorkflowAssumption, PayloadsAssumption DEF AnyId

\* A payload's facts are Booleans, and the rules found for it are rules.
LEMMA PayloadFacts ==
    ASSUME NEW p \in Payloads
    PROVE  /\ p.id \in Ids /\ p.decodes \in BOOLEAN
           /\ p.institutions \in BOOLEAN
           /\ EvaluationHits(p) \subseteq Rules
           /\ ScreeningHits(p) \subseteq Rules
<1>1. p \in Payload(Ids)
  BY PayloadsAssumption
<1>2. \A c, x : x \in Rules => RuleIf(c, x) \subseteq Rules
  BY DEF RuleIf
<1>3. EvaluationHits(p) \subseteq Rules
  BY <1>2 DEF EvaluationHits, Rules
<1>4. ScreeningHits(p) \subseteq Rules
  BY <1>2 DEF ScreeningHits, Rules
<1> QED
  BY <1>1, <1>3, <1>4 DEF Payload

\* Recording audit events keeps the table's type.
LEMMA AuditWithType ==
    ASSUME TablesTypeOK, NEW i \in Ids, NEW events
    PROVE  AuditWith(i, events) \in [Ids -> [AuditEvents -> Nat]]
BY DEF AuditWith, TablesTypeOK

\* What an action of the workflow itself does to the state's types follows
\* from these definitions.
LEMMA TypeInit == Init => TypeInv
BY CallsFacts, PayloadsAssumption
   DEF Init, TypeInv, TypeOK, PayloadsInUse, TablesInit, TablesTypeOK, NoRow,
       Row, RowStatuses, WorkflowStatuses, NoAudit, EncInit, EncTypeOK,
       EncIdle, EncSlot, EncPcs, ZkInit, ZkTypeOK, ZkIdle, ZkSlot, ZkPcs,
       NoWf, Wf, WfExists, ReqIdle, Req, ReqPcs, Starting

LEMMA EncryptionTypes ==
    ASSUME TypeInv, NEW c \in Calls, EncryptionStep(c)
    PROVE  TypeInv'
<1> USE DEF TypeInv, TypeOK, PayloadsInUse, EncTypeOK, EncSlot, EncPcs,
            WfExists
<1>1. enc' \in [Calls -> EncSlot] /\ (PayloadsInUse)'
  BY DEF EncryptionStep, EncProgress, EncFault, EncCheck, EncCommit,
         EncCommitConflict, EncFail, EncLose, EncRunning
<1>2. TablesTypeOK'
  <2>1. CASE EncCommit(c)
    BY <2>1, PayloadFacts, AuditWithType
       DEF EncCommit, TablesTypeOK, Row, RowStatuses, FinalStatus,
           WorkflowStatuses
  <2>2. CASE ~ EncCommit(c)
    BY <2>2 DEF EncryptionStep, EncProgress, EncFault, EncCheck,
                EncCommitConflict, EncFail, EncLose, TablesTypeOK, Row
  <2> QED
    BY <2>1, <2>2
<1> QED
  BY <1>1, <1>2 DEF EncryptionStep, ZkTypeOK

LEMMA ProverTypes ==
    ASSUME TypeInv, NEW c \in Calls, ProverStep(c)
    PROVE  TypeInv'
<1> USE DEF TypeInv, TypeOK, ZkTypeOK, ZkSlot, ZkPcs
<1>1. CASE ZkFetchTx(c)
  <2>1. row[zk[c].id].institutions \in BOOLEAN
    BY DEF TablesTypeOK, Row
  <2>2. [zk[c] EXCEPT
           !.pc = IF RowExists(zk[c].id) THEN "fetch_audit" ELSE "error",
           !.institutions = row[zk[c].id].institutions] \in ZkSlot
    BY <2>1
  <2>3. zk' \in [Calls -> ZkSlot] /\ proofs' = proofs
    BY <1>1, <2>2 DEF ZkFetchTx
  <2> QED
    BY <1>1, <2>3 DEF ZkFetchTx, ProverStep, TablesTypeOK, EncTypeOK,
                      PayloadsInUse, WfExists
<1>2. CASE ZkFetchAudit(c)
  <2>1. Claims(zk[c].id, zk[c].institutions) \subseteq ProofRules
    BY DEF Claims
  <2>2. zk' \in [Calls -> ZkSlot] /\ proofs' = proofs
    BY <1>2, <2>1 DEF ZkFetchAudit
  <2> QED
    BY <1>2, <2>2 DEF ZkFetchAudit, ProverStep, TablesTypeOK, EncTypeOK,
                      PayloadsInUse, WfExists
<1>3. CASE ZkStore(c)
  <2>1. RuleAt(zk[c].pc) \in ProofRules /\ AfterStore(zk[c].pc) \in ZkPcs
    BY <1>3 DEF ZkStore, ZkStoring, RuleAt, AfterStore, ProofRules
  <2>2. zk' \in [Calls -> ZkSlot]
    BY <1>3, <2>1 DEF ZkStore
  <2>3. \A rule \in ProofRules : \A holds :
          [rule |-> rule, signal |-> rule \in holds,
           status |-> ArtifactStatus(rule \in holds)] \in Proof
    BY DEF Proof, ArtifactStatus
  <2>4. proofs' \in [Ids -> SUBSET Proof]
    BY <1>3, <2>1, <2>3 DEF ZkStore
  <2> QED
    BY <1>3, <2>2, <2>4 DEF ZkStore, ProverStep, TablesTypeOK, EncTypeOK,
                            PayloadsInUse, WfExists
<1>4. CASE ZkFault(c)
  <2>1. zk' \in [Calls -> ZkSlot] /\ proofs' = proofs
    BY <1>4 DEF ZkFault, ZkFail, ZkLose
  <2> QED
    BY <1>4, <2>1 DEF ZkFault, ZkFail, ZkLose, ProverStep, TablesTypeOK,
                      EncTypeOK, PayloadsInUse, WfExists
<1> QED
  BY <1>1, <1>2, <1>3, <1>4 DEF ProverStep, ZkProgress

\* A handler that starts from an existing workflow has its payload.
LEMMA FetchTypes ==
    ASSUME TypeInv, NEW r \in Requests, NEW u \in Users, NEW t \in Ids,
           NEW pc \in ReqPcs, Fetch(r, u, t, pc), UNCHANGED <<enc, wf>>
    PROVE  req' \in [Requests -> Req] /\ PayloadsInUse'
<1>1. wf[t] \in Wf /\ wf[t].payload \in Payloads /\ row[t] \in Row
  BY DEF Fetch, TypeInv, TypeOK, PayloadsInUse, TablesTypeOK
<1>2. [pc |-> pc, tx |-> t, user |-> u, payload |-> wf[t].payload,
       status |-> wf[t].status, rules |-> row[t].rules] \in Req
  BY <1>1 DEF Req, Wf, Row
<1>3. req' \in [Requests -> Req]
  BY <1>2 DEF Fetch, TypeInv, TypeOK
<1> QED
  BY <1>1, <1>3 DEF Fetch, TypeInv, TypeOK, PayloadsInUse, WfExists

\* Ending a handler, or moving it on, keeps the types.
LEMMA ControlTypes ==
    ASSUME TypeInv, NEW r \in Requests, req[r].pc # "idle",
           UNCHANGED <<enc, wf>>,
           \/ Finish(r)
           \/ \E pc \in ReqPcs :
                Goto(r, pc) /\ (pc \in Starting \/ WfExists(req[r].tx))
    PROVE  req' \in [Requests -> Req] /\ PayloadsInUse'
<1>1. ReqIdle \in Req
  BY CallsFacts DEF ReqIdle, Req, ReqPcs
<1>2. CASE Finish(r)
  BY <1>1, <1>2 DEF Finish, ReqIdle, TypeInv, TypeOK, PayloadsInUse, WfExists,
                    Starting
<1>3. ASSUME NEW pc \in ReqPcs, Goto(r, pc),
             pc \in Starting \/ WfExists(req[r].tx)
      PROVE  req' \in [Requests -> Req] /\ PayloadsInUse'
  BY <1>3 DEF Goto, Req, TypeInv, TypeOK, PayloadsInUse, WfExists, Starting
<1> QED
  BY <1>2, <1>3

LEMMA CreateTypes ==
    ASSUME TypeInv, NEW r \in Requests,
           \/ \E u \in Users, p \in Payloads : CreateCheckRow(r, u, p)
           \/ CreateCheckWorkflow(r) \/ CreateInsert(r) \/ CreateConflict(r)
    PROVE  TypeInv'
<1> USE DEF TypeInv, TypeOK
<1>1. ASSUME NEW u \in Users, NEW p \in Payloads, CreateCheckRow(r, u, p)
      PROVE  TypeInv'
  <2>1. [ReqIdle EXCEPT !.pc = "create_check_workflow", !.tx = TrimTx[p.id],
                        !.user = u, !.payload = p] \in Req
    BY PayloadFacts, WorkflowAssumption DEF ReqIdle, Req, ReqPcs
  <2>2. req' \in [Requests -> Req] /\ PayloadsInUse'
    BY <1>1, <2>1 DEF CreateCheckRow, ReqIdle, PayloadsInUse, WfExists,
                      Starting
  <2> QED
    BY <1>1, <2>2 DEF CreateCheckRow, TablesTypeOK, EncTypeOK, ZkTypeOK
<1>2. CASE CreateCheckWorkflow(r) \/ CreateConflict(r)
  <2>1. req' \in [Requests -> Req] /\ PayloadsInUse'
    BY <1>2, ControlTypes
       DEF CreateCheckWorkflow, CreateConflict, ReqPcs, Starting
  <2> QED
    BY <1>2, <2>1 DEF CreateCheckWorkflow, CreateConflict, TablesTypeOK,
                      EncTypeOK, ZkTypeOK
<1>3. CASE CreateInsert(r)
  <2>1. req[r].payload \in Payloads /\ req[r].tx \in Ids
        /\ req[r].user \in Users \union {NoUser}
    BY <1>3 DEF CreateInsert, PayloadsInUse, Req
  <2>2. wf' \in [Ids -> Wf]
        /\ \A t \in Ids : WfExists(t)' => wf'[t].payload \in Payloads
    BY <1>3, <2>1
       DEF CreateInsert, Wf, WorkflowStatuses, PayloadsInUse, WfExists
  <2>3. ReqIdle \in Req
    BY CallsFacts DEF ReqIdle, Req, ReqPcs
  <2>4. req' \in [Requests -> Req]
        /\ \A s \in Requests :
             /\ req'[s].pc # "idle" => req'[s].payload \in Payloads
             /\ req'[s].pc \notin Starting => WfExists(req[s].tx)'
    BY <1>3, <2>3 DEF CreateInsert, Finish, ReqIdle, PayloadsInUse, WfExists,
                      Starting
  <2> QED
    BY <1>3, <2>2, <2>4 DEF CreateInsert, TablesTypeOK, EncTypeOK, ZkTypeOK,
                            PayloadsInUse
<1> QED
  BY <1>1, <1>2, <1>3

\* Posting to the encryption service, and reading its answer.
LEMMA EncCallTypes ==
    ASSUME TypeInv, NEW c \in Calls,
           (\E p \in Payloads : EncPost(c, p)) \/ EncTake(c)
    PROVE  /\ enc' \in [Calls -> EncSlot]
           /\ \A d \in Calls : enc'[d].pc # "idle"
                                 => enc'[d].payload \in Payloads
BY DEF EncPost, EncTake, EncIdle, EncSlot, EncPcs, TypeInv, TypeOK,
       EncTypeOK, PayloadsInUse

\* Posting to the prover, and reading its answer.
LEMMA ZkCallTypes ==
    ASSUME TypeInv, NEW c \in Calls, (\E i \in Ids : ZkPost(c, i)) \/ ZkTake(c)
    PROVE  zk' \in [Calls -> ZkSlot]
<1>1. ZkIdle \in ZkSlot
      /\ \A i \in Ids : [ZkIdle EXCEPT !.pc = "fetch_tx", !.id = i] \in ZkSlot
  BY CallsFacts DEF ZkIdle, ZkSlot, ZkPcs
<1> QED
  BY <1>1 DEF ZkPost, ZkTake, TypeInv, TypeOK, ZkTypeOK

\* A handler ends and marks its workflow, after reading an answer or none.
LEMMA MarkTypes ==
    ASSUME TypeInv, NEW r \in Requests, req[r].pc \notin Starting,
           NEW status \in WorkflowStatuses, SetStatus(req[r].tx, status),
           Finish(r), UNCHANGED enc \/ EncTake(r)
    PROVE  /\ wf' \in [Ids -> Wf] /\ req' \in [Requests -> Req]
           /\ enc' \in [Calls -> EncSlot] /\ PayloadsInUse'
<1>1. req[r].tx \in Ids /\ WfExists(req[r].tx)
  BY DEF TypeInv, TypeOK, PayloadsInUse, Req
<1>2. /\ wf' \in [Ids -> Wf]
      /\ \A i \in Ids : /\ wf'[i].status # "none" <=> WfExists(i)
                        /\ WfExists(i) => wf'[i].payload \in Payloads
  BY <1>1 DEF SetStatus, TypeInv, TypeOK, PayloadsInUse, WfExists, Wf,
              WorkflowStatuses
<1>3. /\ enc' \in [Calls -> EncSlot]
      /\ \A d \in Calls : enc'[d].pc # "idle"
                            => enc'[d].payload \in Payloads
  BY EncCallTypes, CallsFacts DEF TypeInv, TypeOK, EncTypeOK, PayloadsInUse
<1>4. ReqIdle \in Req
  BY CallsFacts DEF ReqIdle, Req, ReqPcs
<1>5. req' = [req EXCEPT ![r] = ReqIdle] /\ req' \in [Requests -> Req]
  BY <1>4 DEF Finish, TypeInv, TypeOK
<1>6. \A s \in Requests :
        /\ req'[s].pc # "idle" => req'[s].payload \in Payloads
        /\ req'[s].pc \notin Starting => WfExists(req[s].tx)'
  <2>1. \A s \in Requests : req'[s] = IF s = r THEN ReqIdle ELSE req[s]
    BY <1>5 DEF TypeInv, TypeOK
  <2>2. \A s \in Requests : req[s].tx \in Ids
    BY DEF TypeInv, TypeOK, Req
  <2> QED
    BY <1>2, <2>1, <2>2 DEF TypeInv, PayloadsInUse, ReqIdle, Starting,
                            WfExists
<1> QED
  BY <1>2, <1>3, <1>5, <1>6 DEF PayloadsInUse, WfExists

LEMMA ReviewTypes ==
    ASSUME TypeInv,
           \/ \E r \in Requests, u \in Users, t \in Ids :
                SubmitForReviewFetch(r, u, t)
           \/ \E r \in Requests : SubmitForReviewUpdate(r)
           \/ \E u \in Users, t \in Ids : Approve(u, t) \/ Reject(u, t)
    PROVE  TypeInv'
<1> USE DEF TypeInv, TypeOK, TablesTypeOK, EncTypeOK, ZkTypeOK
<1>1. ASSUME NEW r \in Requests, NEW u \in Users, NEW t \in Ids,
             SubmitForReviewFetch(r, u, t)
      PROVE  TypeInv'
  BY <1>1, FetchTypes DEF SubmitForReviewFetch, ReqPcs
<1>2. ASSUME NEW r \in Requests, SubmitForReviewUpdate(r)
      PROVE  TypeInv'
  BY <1>2, MarkTypes DEF SubmitForReviewUpdate, WorkflowStatuses, Starting
<1>3. ASSUME NEW u \in Users, NEW t \in Ids, Approve(u, t) \/ Reject(u, t)
      PROVE  TypeInv'
  <2>1. PICK to \in {"approved", "rejected"} :
          /\ WfExists(t)
          /\ wf' = [wf EXCEPT ![t] =
                      [@ EXCEPT !.status = to, !.reviewedBy = u]]
          /\ UNCHANGED <<row, audit, enc, zk, proofs, req>>
    BY <1>3 DEF Approve, Reject, Decide, WfExists
  <2>2. \A i \in Ids : wf'[i] = IF i = t
          THEN [wf[t] EXCEPT !.status = to, !.reviewedBy = u] ELSE wf[i]
    BY <2>1
  <2>3. wf' \in [Ids -> Wf]
    <3>1. [wf[t] EXCEPT !.status = to, !.reviewedBy = u] \in Wf
      BY DEF Wf, WorkflowStatuses
    <3>2. wf' = [wf EXCEPT ![t] = wf'[t]]
      BY <2>1, <2>2
    <3> QED
      BY <2>2, <3>1, <3>2
  <2>4. \A i \in Ids : /\ wf'[i].payload = wf[i].payload
                       /\ wf'[i].status # "none" <=> WfExists(i)
    BY <2>1, <2>2 DEF WfExists, Wf
  <2> QED
    BY <2>1, <2>3, <2>4 DEF PayloadsInUse, Req, WfExists
<1> QED
  BY <1>1, <1>2, <1>3

LEMMA EvaluateTypes ==
    ASSUME TypeInv, NEW r \in Requests,
           \/ \E u \in Users, t \in Ids : EvaluateFetch(r, u, t)
           \/ EvaluateStore(r) \/ EvaluateAudit(r)
    PROVE  TypeInv'
<1> USE DEF TypeInv, TypeOK, EncTypeOK, ZkTypeOK
<1>1. ASSUME NEW u \in Users, NEW t \in Ids, EvaluateFetch(r, u, t)
      PROVE  TypeInv'
  BY <1>1, FetchTypes DEF EvaluateFetch, ReqPcs, TablesTypeOK
<1>2. CASE EvaluateStore(r)
  <2>1. req' \in [Requests -> Req] /\ PayloadsInUse'
    BY <1>2, ControlTypes
       DEF EvaluateStore, ReqPcs, PayloadsInUse, Starting
  <2>2. req[r].payload \in Payloads /\ req[r].tx \in Ids
        /\ req[r].status \in WorkflowStatuses \union {"none"}
    BY <1>2 DEF EvaluateStore, PayloadsInUse, Req
  <2>3. row' \in [Ids -> Row]
    BY <1>2, <2>2, PayloadFacts
       DEF EvaluateStore, TablesTypeOK, Row, RowStatuses
  <2> QED
    BY <1>2, <2>1, <2>3 DEF EvaluateStore, TablesTypeOK
<1>3. CASE EvaluateAudit(r)
  <2>1. req' \in [Requests -> Req] /\ PayloadsInUse'
    BY <1>3, ControlTypes DEF EvaluateAudit
  <2>2. TablesTypeOK'
    BY <1>3 DEF EvaluateAudit, AuditWith, TablesTypeOK, Req
  <2> QED
    BY <1>3, <2>1, <2>2 DEF EvaluateAudit
<1> QED
  BY <1>1, <1>2, <1>3

\* Reading the encryption service's answer and going on.
LEMMA AcceptedTypes ==
    ASSUME TypeInv, NEW r \in Requests, ScreeningAccepted(r)
    PROVE  TypeInv'
<1>1. req' = [req EXCEPT ![r].pc = "screening_store"]
      /\ req[r].pc \notin Starting /\ req[r].pc # "idle"
  BY DEF ScreeningAccepted, Goto, Starting
<1>2. req' \in [Requests -> Req]
  BY <1>1 DEF TypeInv, TypeOK, Req, ReqPcs
<1>3. \A s \in Requests :
        /\ req'[s].pc # "idle" => req'[s].payload \in Payloads
        /\ req'[s].pc \notin Starting => WfExists(req'[s].tx)
  BY <1>1 DEF TypeInv, TypeOK, PayloadsInUse
<1>4. enc' \in [Calls -> EncSlot]
      /\ \A d \in Calls : enc'[d].pc # "idle"
                            => enc'[d].payload \in Payloads
  BY EncCallTypes, CallsFacts DEF ScreeningAccepted
<1> QED
  BY <1>2, <1>3, <1>4
     DEF ScreeningAccepted, TypeInv, TypeOK, PayloadsInUse, WfExists,
         TablesTypeOK, EncTypeOK, ZkTypeOK

LEMMA CallTypes ==
    ASSUME TypeInv, NEW r \in Requests, ScreeningCall(r) \/ ProofsCall(r)
    PROVE  TypeInv'
<1>1. PICK pc \in {"screening_reply", "proofs_reply"} :
        req' = [req EXCEPT ![r].pc = pc]
  BY DEF ScreeningCall, ProofsCall, Goto
<1>2. req[r].pc \notin Starting /\ req[r].payload \in Payloads
      /\ req[r].tx \in Ids
  BY DEF ScreeningCall, ProofsCall, Starting, TypeInv, TypeOK, PayloadsInUse,
         Req
<1>3. req' \in [Requests -> Req]
      /\ \A s \in Requests :
           /\ req'[s].pc # "idle" => req'[s].payload \in Payloads
           /\ req'[s].pc \notin Starting => WfExists(req'[s].tx)
  BY <1>1, <1>2 DEF TypeInv, TypeOK, PayloadsInUse, Req, ReqPcs, Starting
<1>4. CASE ScreeningCall(r)
  <2>1. enc' \in [Calls -> EncSlot]
        /\ \A d \in Calls : enc'[d].pc # "idle"
                              => enc'[d].payload \in Payloads
    BY <1>2, <1>4, CallsFacts
       DEF ScreeningCall, EncPost, EncSlot, EncPcs, TypeInv, TypeOK,
           EncTypeOK, PayloadsInUse
  <2> QED
    BY <1>3, <1>4, <2>1
       DEF ScreeningCall, TypeInv, TypeOK, PayloadsInUse, WfExists,
           TablesTypeOK, EncTypeOK, ZkTypeOK
<1>5. CASE ProofsCall(r)
  <2>1. ZkPost(r, req[r].tx)
    BY <1>5 DEF ProofsCall
  <2>2. zk' \in [Calls -> ZkSlot]
    BY <1>2, <2>1, CallsFacts
       DEF ZkPost, ZkIdle, ZkSlot, ZkPcs, TypeInv, TypeOK, ZkTypeOK
  <2> QED
    BY <1>3, <1>5, <2>2
       DEF ProofsCall, TypeInv, TypeOK, PayloadsInUse, WfExists,
           TablesTypeOK, EncTypeOK, ZkTypeOK
<1> QED
  BY <1>4, <1>5

LEMMA ScreeningTypes ==
    ASSUME TypeInv, NEW r \in Requests,
           \/ \E u \in Users, t \in Ids : ScreeningFetch(r, u, t)
           \/ ScreeningUnreachable(r) \/ ScreeningRefused(r)
           \/ ScreeningStore(r) \/ ScreeningAudit(r) \/ ScreeningFinish(r)
    PROVE  TypeInv'
<1> USE DEF TypeInv, TypeOK, ZkTypeOK
<1>1. ASSUME NEW u \in Users, NEW t \in Ids, ScreeningFetch(r, u, t)
      PROVE  TypeInv'
  BY <1>1, FetchTypes DEF ScreeningFetch, ReqPcs, TablesTypeOK, EncTypeOK
<1>2. CASE ScreeningUnreachable(r)
  <2>1. /\ enc' \in [Calls -> EncSlot]
        /\ \A d \in Calls : enc'[d].pc # "idle"
                              => enc'[d].payload \in Payloads
    BY <1>2, EncCallTypes, CallsFacts DEF ScreeningUnreachable
  <2>2. /\ req' \in [Requests -> Req]
        /\ \A s \in Requests :
             /\ req'[s].pc # "idle" => req'[s].payload \in Payloads
             /\ req'[s].pc \notin Starting => WfExists(req'[s].tx)
    BY <1>2, CallsFacts
       DEF ScreeningUnreachable, Finish, ReqIdle, Req, ReqPcs, PayloadsInUse,
           Starting
  <2> QED
    BY <1>2, <2>1, <2>2
       DEF ScreeningUnreachable, PayloadsInUse, WfExists, TablesTypeOK,
           EncTypeOK
<1>3. CASE ScreeningRefused(r)
  BY <1>3, MarkTypes
     DEF ScreeningRefused, Starting, WorkflowStatuses, TablesTypeOK, EncTypeOK
<1>4. CASE ScreeningFinish(r)
  BY <1>4, MarkTypes
     DEF ScreeningFinish, Starting, WorkflowStatuses, TablesTypeOK, EncTypeOK
<1>5. CASE ScreeningStore(r)
  <2>1. req' \in [Requests -> Req] /\ PayloadsInUse'
    BY <1>5, ControlTypes DEF ScreeningStore, ReqPcs, PayloadsInUse, Starting
  <2>2. /\ req[r].payload \in Payloads /\ req[r].tx \in Ids
        /\ req[r].rules \subseteq Rules
    BY <1>5 DEF ScreeningStore, PayloadsInUse, Req
  <2>3. row' \in [Ids -> Row]
    BY <1>5, <2>2, PayloadFacts
       DEF ScreeningStore, TablesTypeOK, Row, RowStatuses, WorkflowStatuses
  <2> QED
    BY <1>5, <2>1, <2>3 DEF ScreeningStore, TablesTypeOK, EncTypeOK
<1>6. CASE ScreeningAudit(r)
  <2>1. req' \in [Requests -> Req] /\ PayloadsInUse'
    BY <1>6, ControlTypes DEF ScreeningAudit, ReqPcs, PayloadsInUse, Starting
  <2>2. TablesTypeOK'
    BY <1>6 DEF ScreeningAudit, AuditWith, TablesTypeOK, Req
  <2> QED
    BY <1>6, <2>1, <2>2 DEF ScreeningAudit, EncTypeOK
<1> QED
  BY <1>1, <1>2, <1>3, <1>4, <1>5, <1>6

LEMMA ProofsTypes ==
    ASSUME TypeInv, NEW r \in Requests,
           \/ \E u \in Users, t \in Ids : ProofsFetch(r, u, t)
           \/ ProofsUnreachable(r) \/ ProofsRefused(r) \/ ProofsFinish(r)
    PROVE  TypeInv'
<1> USE DEF TypeInv, TypeOK, TablesTypeOK, EncTypeOK, ZkTypeOK
<1>1. ASSUME NEW u \in Users, NEW t \in Ids, ProofsFetch(r, u, t)
      PROVE  TypeInv'
  BY <1>1, FetchTypes DEF ProofsFetch, ReqPcs
<1>2. ZkTake(r) => zk' \in [Calls -> ZkSlot]
  BY ZkCallTypes, CallsFacts
<1>3. CASE ProofsUnreachable(r)
  BY <1>2, <1>3, ControlTypes DEF ProofsUnreachable
<1>4. CASE ProofsRefused(r)
  BY <1>2, <1>4, MarkTypes
     DEF ProofsRefused, Starting, WorkflowStatuses
<1>5. CASE ProofsFinish(r)
  BY <1>2, <1>5, MarkTypes
     DEF ProofsFinish, Starting, WorkflowStatuses
<1> QED
  BY <1>1, <1>3, <1>4, <1>5

LEMMA CallerTypes ==
    ASSUME TypeInv,
           \/ \E r \in Requests : Abort(r)
           \/ \E c \in Calls : DropEncReply(c) \/ DropZkReply(c)
           \/ \E c \in Clients : \/ \E p \in Payloads : DirectSubmit(c, p)
                                 \/ \E i \in Ids : DirectGenerate(c, i)
    PROVE  TypeInv'
<1> USE DEF TypeInv, TypeOK, TablesTypeOK, EncTypeOK, ZkTypeOK
<1>1. ASSUME NEW r \in Requests, Abort(r)
      PROVE  TypeInv'
  BY <1>1, ControlTypes DEF Abort
<1>2. ASSUME NEW c \in Calls,
             DropEncReply(c) \/ \E p \in Payloads : DirectSubmit(c, p)
      PROVE  TypeInv'
  <2>1. UNCHANGED <<row, audit, zk, proofs, wf, req>>
        /\ ((\E p \in Payloads : EncPost(c, p)) \/ EncTake(c))
    BY <1>2 DEF DropEncReply, DirectSubmit
  <2>2. /\ enc' \in [Calls -> EncSlot]
        /\ \A d \in Calls : enc'[d].pc # "idle"
                              => enc'[d].payload \in Payloads
    BY <2>1, EncCallTypes
  <2> QED
    BY <2>1, <2>2 DEF PayloadsInUse, WfExists
<1>3. ASSUME NEW c \in Calls,
             DropZkReply(c) \/ \E i \in Ids : DirectGenerate(c, i)
      PROVE  TypeInv'
  <2>1. zk' \in [Calls -> ZkSlot]
    BY <1>3, ZkCallTypes DEF DropZkReply, DirectGenerate
  <2> QED
    BY <1>3, <2>1 DEF DropZkReply, DirectGenerate, PayloadsInUse, WfExists
<1> QED
  BY <1>1, <1>2, <1>3, CallsFacts

LEMMA TypeNext == TypeInv /\ [Next]_vars => TypeInv'
<1> SUFFICES ASSUME TypeInv, [Next]_vars PROVE TypeInv'
  OBVIOUS
<1>1. ASSUME NEW r \in Requests, Begin(r)
      PROVE  TypeInv'
  BY <1>1, CreateTypes, ReviewTypes, EvaluateTypes, ScreeningTypes,
     ProofsTypes DEF Begin
<1>2. ASSUME NEW r \in Requests, Continue(r)
      PROVE  TypeInv'
  BY <1>2, CreateTypes, ReviewTypes, EvaluateTypes, ScreeningTypes,
     AcceptedTypes, CallTypes, ProofsTypes DEF Continue
<1>3. CASE UNCHANGED vars
  BY <1>3 DEF vars, TypeInv, TypeOK, TablesTypeOK, EncTypeOK, ZkTypeOK,
              PayloadsInUse, WfExists
<1> QED
  BY <1>1, <1>2, <1>3, ReviewTypes, EncryptionTypes, ProverTypes, CallerTypes
     DEF Next

\* The tables, the calls in flight, the workflows and the handlers always have
\* their types (TypeOK), and whatever is in use carries a payload a client
\* sent: no handler or service works on an empty one.
THEOREM TypeCorrect == Spec => [](TypeOK /\ PayloadsInUse)
<1>1. Init => TypeInv
  BY TypeInit
<1>2. TypeInv /\ [Next]_vars => TypeInv'
  BY TypeNext
<1> QED
  BY <1>1, <1>2, PTL DEF Spec, TypeInv

(* Who changes what *)

\* A workflow is created, decided, or marked by a handler that met it.
LEMMA WorkflowWriters ==
    ASSUME TypeInv, [Next]_vars
    PROVE  \/ UNCHANGED wf
           \/ \E r \in Requests : CreateInsert(r)
           \/ \E u \in Users, t \in Ids : Approve(u, t) \/ Reject(u, t)
           \/ \E r \in Requests :
                \/ SubmitForReviewUpdate(r)
                \/ ScreeningRefused(r) \/ ScreeningFinish(r)
                \/ ProofsRefused(r) \/ ProofsFinish(r)
<1>1. ASSUME NEW r \in Requests, Begin(r)
      PROVE  UNCHANGED wf
  BY <1>1 DEF Begin, CreateCheckRow, SubmitForReviewFetch, EvaluateFetch,
              ScreeningFetch, ProofsFetch
<1>2. ASSUME NEW r \in Requests, Continue(r)
      PROVE  \/ UNCHANGED wf \/ CreateInsert(r)
             \/ SubmitForReviewUpdate(r)
             \/ ScreeningRefused(r) \/ ScreeningFinish(r)
             \/ ProofsRefused(r) \/ ProofsFinish(r)
  BY <1>2 DEF Continue, CreateCheckWorkflow, CreateConflict, EvaluateStore,
              EvaluateAudit, ScreeningCall, ScreeningUnreachable,
              ScreeningAccepted, ScreeningStore, ScreeningAudit, ProofsCall,
              ProofsUnreachable
<1> QED
  BY <1>1, <1>2 DEF Next, vars, Abort, EncryptionStep, ProverStep,
                    DropEncReply, DropZkReply, DirectSubmit, DirectGenerate

\* A handler begins in a free slot, takes one of its steps, or is aborted;
\* no other action touches it.
LEMMA HandlerSteps ==
    ASSUME TypeInv, [Next]_vars
    PROVE  \/ UNCHANGED req
           \/ \E r \in Requests : Begin(r) \/ Continue(r) \/ Abort(r)
BY DEF Next, vars, Approve, Reject, Decide, EncryptionStep, ProverStep,
       DropEncReply, DropZkReply, DirectSubmit, DirectGenerate

\* What each status change leaves alone, in one form for all of them.
LEMMA WorkflowKept ==
    ASSUME TypeInv, [Next]_vars, NEW t \in Ids, WfExists(t)
    PROVE  wf'[t].payload = wf[t].payload /\ wf'[t].status # "none"
<1> USE DEF TypeInv, TypeOK, WfExists
<1>1. ASSUME NEW r \in Requests, CreateInsert(r)
      PROVE  wf'[t] = wf[t]
  BY <1>1 DEF CreateInsert
<1>2. ASSUME NEW u \in Users, NEW i \in Ids, Approve(u, i) \/ Reject(u, i)
      PROVE  wf'[t].payload = wf[t].payload /\ wf'[t].status # "none"
  <2>1. PICK to \in {"approved", "rejected"} :
          wf' = [wf EXCEPT ![i] =
                   [@ EXCEPT !.status = to, !.reviewedBy = u]]
    BY <1>2 DEF Approve, Reject, Decide
  <2>2. wf[i] \in Wf /\ wf[t] \in Wf
    OBVIOUS
  <2>3. wf'[t] = wf[t] \/ wf'[t] = [wf[t] EXCEPT !.status = to,
                                               !.reviewedBy = u]
    BY <2>1
  <2> QED
    BY <2>2, <2>3 DEF Wf
<1>3. ASSUME NEW i, NEW status \in WorkflowStatuses, SetStatus(i, status)
      PROVE  wf'[t].payload = wf[t].payload /\ wf'[t].status # "none"
  BY <1>3 DEF SetStatus, Wf, WorkflowStatuses
<1>4. ASSUME NEW r \in Requests,
             \/ SubmitForReviewUpdate(r) \/ ScreeningRefused(r)
             \/ ScreeningFinish(r) \/ ProofsRefused(r) \/ ProofsFinish(r)
      PROVE  \E i : \E status \in WorkflowStatuses : SetStatus(i, status)
  BY <1>4 DEF SubmitForReviewUpdate, ScreeningRefused, ScreeningFinish,
              ProofsRefused, ProofsFinish, WorkflowStatuses
<1> QED
  BY <1>1, <1>2, <1>3, <1>4, WorkflowWriters

\* A handler that waits for the encryption service keeps its submission: the
\* service moves it on and nobody else takes its answer.
LEMMA SubmissionKept ==
    ASSUME TypeInv, [Next]_vars, NEW r \in Requests,
           req'[r] = req[r], req[r].pc = "screening_reply", enc[r].pc # "idle"
    PROVE  enc'[r].pc # "idle" /\ enc'[r].payload = enc[r].payload
<1> USE WorkflowAssumption DEF TypeInv, TypeOK, EncTypeOK
<1>1. ASSUME NEW c \in Calls, EncryptionStep(c)
      PROVE  enc'[r].pc # "idle" /\ enc'[r].payload = enc[r].payload
  BY <1>1 DEF EncryptionStep, EncProgress, EncFault, EncCheck, EncCommit,
              EncCommitConflict, EncFail, EncLose, EncSlot
<1>2. ASSUME NEW s \in Requests, Begin(s) \/ Continue(s) \/ Abort(s)
      PROVE  enc'[r] = enc[r]
  <2>1. CASE ScreeningCall(s)
    BY <2>1 DEF ScreeningCall, EncPost, Goto
  <2>2. CASE ScreeningUnreachable(s) \/ ScreeningRefused(s)
    BY <2>2 DEF ScreeningUnreachable, ScreeningRefused, EncTake, Finish,
                ReqIdle
  <2>3. CASE ScreeningAccepted(s)
    <3>1. req'[s].pc = "screening_store"
      BY <2>3 DEF ScreeningAccepted, Goto, Req
    <3> QED
      BY <2>3, <3>1 DEF ScreeningAccepted, EncTake
  <2> QED
    BY <1>2, <2>1, <2>2, <2>3
       DEF Begin, Continue, Abort, CreateCheckRow, CreateCheckWorkflow,
           CreateInsert, CreateConflict, SubmitForReviewFetch,
           SubmitForReviewUpdate, EvaluateFetch, EvaluateStore, EvaluateAudit,
           ScreeningFetch, ScreeningStore, ScreeningAudit, ScreeningFinish,
           ProofsFetch, ProofsCall, ProofsUnreachable, ProofsRefused,
           ProofsFinish
<1>3. ASSUME NEW c \in Calls, DropEncReply(c) \/ DropZkReply(c)
      PROVE  enc'[r] = enc[r]
  BY <1>3 DEF DropEncReply, DropZkReply, Unawaited, EncTake
<1>4. ASSUME NEW c \in Clients,
             \/ \E p \in Payloads : DirectSubmit(c, p)
             \/ \E i \in Ids : DirectGenerate(c, i)
      PROVE  enc'[r] = enc[r]
  BY <1>4 DEF DirectSubmit, DirectGenerate, EncPost
<1> QED
  BY <1>1, <1>2, <1>3, <1>4
     DEF Next, vars, Approve, Reject, Decide, ProverStep

\* The same of a handler that waits for the prover.
LEMMA ProofRunKept ==
    ASSUME TypeInv, [Next]_vars, NEW r \in Requests,
           req'[r] = req[r], req[r].pc = "proofs_reply", zk[r].pc # "idle"
    PROVE  zk'[r].pc # "idle" /\ zk'[r].id = zk[r].id
<1> USE WorkflowAssumption DEF TypeInv, TypeOK, ZkTypeOK
<1>1. ASSUME NEW c \in Calls, ProverStep(c)
      PROVE  zk'[r].pc # "idle" /\ zk'[r].id = zk[r].id
  <2>1. CASE ZkFetchTx(c) \/ ZkFetchAudit(c)
    <3>1. zk[c] \in ZkSlot /\ zk[r] \in ZkSlot
      BY WorkflowAssumption
    <3>2. CASE ZkFetchTx(c) /\ RowExists(zk[c].id)
      BY <3>1, <3>2 DEF ZkFetchTx, ZkSlot
    <3>3. CASE ZkFetchTx(c) /\ ~ RowExists(zk[c].id)
      BY <3>1, <3>3 DEF ZkFetchTx, ZkSlot
    <3>4. CASE ZkFetchAudit(c)
      BY <3>1, <3>4 DEF ZkFetchAudit, ZkSlot
    <3> QED
      BY <2>1, <3>2, <3>3, <3>4
  <2>2. CASE ZkStore(c)
    BY <2>2 DEF ZkStore, ZkStoring, AfterStore, ZkSlot
  <2>3. CASE ZkFault(c)
    BY <2>3 DEF ZkFault, ZkFail, ZkLose, ZkSlot
  <2> QED
    BY <1>1, <2>1, <2>2, <2>3 DEF ProverStep, ZkProgress
<1>2. ASSUME NEW s \in Requests, Begin(s) \/ Continue(s) \/ Abort(s)
      PROVE  zk'[r] = zk[r]
  <2>1. CASE ProofsCall(s)
    BY <2>1 DEF ProofsCall, ZkPost, Goto
  <2>2. CASE ProofsUnreachable(s) \/ ProofsRefused(s) \/ ProofsFinish(s)
    BY <2>2 DEF ProofsUnreachable, ProofsRefused, ProofsFinish, ZkTake,
                Finish, ReqIdle
  <2> QED
    BY <1>2, <2>1, <2>2
       DEF Begin, Continue, Abort, CreateCheckRow, CreateCheckWorkflow,
           CreateInsert, CreateConflict, SubmitForReviewFetch,
           SubmitForReviewUpdate, EvaluateFetch, EvaluateStore, EvaluateAudit,
           ScreeningFetch, ScreeningCall, ScreeningUnreachable,
           ScreeningRefused, ScreeningAccepted, ScreeningStore,
           ScreeningAudit, ScreeningFinish, ProofsFetch
<1>3. ASSUME NEW c \in Calls, DropEncReply(c) \/ DropZkReply(c)
      PROVE  zk'[r] = zk[r]
  BY <1>3 DEF DropEncReply, DropZkReply, Unawaited, ZkTake
<1>4. ASSUME NEW c \in Clients,
             \/ \E p \in Payloads : DirectSubmit(c, p)
             \/ \E i \in Ids : DirectGenerate(c, i)
      PROVE  zk'[r] = zk[r]
  BY <1>4 DEF DirectSubmit, DirectGenerate, ZkPost
<1> QED
  BY <1>1, <1>2, <1>3, <1>4
     DEF Next, vars, Approve, Reject, Decide, EncryptionStep

(* What a handler holds *)

\* A workflow's payload passed validation and belongs to its tx_id; a running
\* handler works on that payload, and the call it waits for is its own.
HandlerInv ==
    /\ \A t \in Ids :
         WfExists(t) => /\ Valid(wf[t].payload)
                        /\ TrimTx[wf[t].payload.id] = t
    /\ \A r \in Requests :
         /\ req[r].pc \in Starting \ {"idle"}
              => /\ Valid(req[r].payload)
                 /\ TrimTx[req[r].payload.id] = req[r].tx
         /\ req[r].pc \notin Starting
              => req[r].payload = wf[req[r].tx].payload
         /\ req[r].pc = "screening_reply"
              => enc[r].pc # "idle" /\ enc[r].payload = req[r].payload
         /\ req[r].pc = "proofs_reply"
              => zk[r].pc # "idle" /\ zk[r].id = req[r].tx

LEMMA HandlerInit == Init => HandlerInv
BY CallsFacts DEF Init, HandlerInv, NoWf, WfExists, ReqIdle, Starting

\* A handler that begins fetched its payload, or validated it.
LEMMA BeginHandler ==
    ASSUME TypeInv, HandlerInv, NEW r \in Requests, Begin(r)
    PROVE  /\ req'[r].pc \notin {"idle", "create_insert",
                                 "screening_reply", "proofs_reply"}
           /\ req'[r].pc = "create_check_workflow"
                => /\ Valid(req'[r].payload)
                   /\ TrimTx[req'[r].payload.id] = req'[r].tx
           /\ req'[r].pc \notin Starting
                => /\ WfExists(req'[r].tx)
                   /\ req'[r].payload = wf[req'[r].tx].payload
<1> USE DEF TypeInv, TypeOK
<1>1. ASSUME NEW u \in Users, NEW p \in Payloads, CreateCheckRow(r, u, p)
      PROVE  /\ req'[r].pc = "create_check_workflow" /\ Valid(req'[r].payload)
             /\ TrimTx[req'[r].payload.id] = req'[r].tx
  BY <1>1, PayloadFacts, WorkflowAssumption DEF CreateCheckRow, ReqIdle
<1>2. ASSUME NEW u \in Users, NEW t \in Ids,
             NEW pc \in ReqPcs, Fetch(r, u, t, pc)
      PROVE  /\ req'[r].pc = pc /\ WfExists(req'[r].tx)
             /\ req'[r].payload = wf[req'[r].tx].payload
  BY <1>2 DEF Fetch
<1>3. ASSUME NEW u \in Users, NEW t \in Ids,
             \/ SubmitForReviewFetch(r, u, t) \/ EvaluateFetch(r, u, t)
             \/ ScreeningFetch(r, u, t) \/ ProofsFetch(r, u, t)
      PROVE  \E pc \in {"submit_update", "evaluate_store", "screening_call",
                        "proofs_call"} : Fetch(r, u, t, pc)
  BY <1>3 DEF SubmitForReviewFetch, EvaluateFetch, ScreeningFetch, ProofsFetch
<1>4. ASSUME NEW u \in Users, NEW t \in Ids,
             NEW pc \in {"submit_update", "evaluate_store", "screening_call",
                         "proofs_call"}, Fetch(r, u, t, pc)
      PROVE  /\ req'[r].pc = pc /\ WfExists(req'[r].tx)
             /\ req'[r].payload = wf[req'[r].tx].payload
  BY <1>2, <1>4 DEF ReqPcs
<1> QED
  BY <1>1, <1>3, <1>4 DEF Begin, Starting

\* A running handler keeps its payload and tx_id, and waits only for calls
\* it has just posted.
LEMMA ContinueHandler ==
    ASSUME TypeInv, HandlerInv, NEW r \in Requests, Continue(r)
    PROVE  \/ req'[r] = ReqIdle
           \/ /\ req'[r].payload = req[r].payload /\ req'[r].tx = req[r].tx
              /\ req'[r].pc \in Starting \ {"idle"}
                   => req[r].pc \in Starting \ {"idle"}
              /\ req'[r].pc \notin Starting => req[r].pc \notin Starting
              /\ req'[r].pc = "screening_reply" => EncPost(r, req[r].payload)
              /\ req'[r].pc = "proofs_reply" => ZkPost(r, req[r].tx)
<1> USE DEF TypeInv, TypeOK
<1>1. Finish(r) => req'[r] = ReqIdle
  BY DEF Finish
<1>2. ASSUME NEW pc, Goto(r, pc)
      PROVE  /\ req'[r].payload = req[r].payload /\ req'[r].tx = req[r].tx
             /\ req'[r].pc = pc
  <2>1. req[r] \in Req /\ req'[r] = [req[r] EXCEPT !.pc = pc]
    BY <1>2 DEF Goto
  <2> QED
    BY <2>1 DEF Req
<1>3. CASE CreateCheckWorkflow(r)
  BY <1>1, <1>2, <1>3 DEF CreateCheckWorkflow, Starting
<1>4. CASE EvaluateStore(r)
  BY <1>2, <1>4 DEF EvaluateStore, Starting
<1>5. CASE ScreeningCall(r) \/ ScreeningAccepted(r) \/ ScreeningStore(r)
             \/ ScreeningAudit(r)
  BY <1>2, <1>5 DEF ScreeningCall, ScreeningAccepted, ScreeningStore,
                    ScreeningAudit, Starting
<1>6. CASE ProofsCall(r)
  BY <1>2, <1>6 DEF ProofsCall, Starting
<1> QED
  BY <1>1, <1>3, <1>4, <1>5, <1>6
     DEF Continue, CreateInsert, CreateConflict, SubmitForReviewUpdate,
         EvaluateAudit, ScreeningUnreachable, ScreeningRefused,
         ScreeningFinish, ProofsUnreachable, ProofsRefused, ProofsFinish

LEMMA OthersKept ==
    ASSUME TypeInv, NEW s \in Requests, NEW r \in Requests, r # s,
           Begin(s) \/ Continue(s) \/ Abort(s)
    PROVE  req'[r] = req[r]
BY DEF TypeInv, TypeOK, Begin, Continue, Abort, Fetch, Goto, Finish,
       CreateCheckRow, CreateCheckWorkflow, CreateInsert, CreateConflict,
       SubmitForReviewFetch, SubmitForReviewUpdate, EvaluateFetch,
       EvaluateStore, EvaluateAudit, ScreeningFetch, ScreeningCall,
       ScreeningUnreachable, ScreeningRefused, ScreeningAccepted,
       ScreeningStore, ScreeningAudit, ScreeningFinish, ProofsFetch,
       ProofsCall, ProofsUnreachable, ProofsRefused, ProofsFinish

LEMMA HandlerNext == TypeInv /\ HandlerInv /\ [Next]_vars => HandlerInv'
<1> SUFFICES ASSUME TypeInv, HandlerInv, [Next]_vars
             PROVE  HandlerInv'
  OBVIOUS
<1> USE DEF TypeInv, TypeOK
<1>1. ASSUME NEW t \in Ids, wf'[t].status # "none"
      PROVE  Valid(wf'[t].payload) /\ TrimTx[wf'[t].payload.id] = t
  <2>1. CASE WfExists(t)
    BY <2>1, WorkflowKept DEF HandlerInv
  <2>2. CASE ~ WfExists(t)
    <3>1. PICK r \in Requests : CreateInsert(r)
      <4>1. ASSUME NEW u \in Users, NEW i \in Ids, Approve(u, i) \/ Reject(u, i)
            PROVE  wf'[t] = wf[t]
        BY <2>2, <4>1 DEF Approve, Reject, Decide, WfExists
      <4>2. ASSUME NEW s \in Requests,
                   \/ SubmitForReviewUpdate(s) \/ ScreeningRefused(s)
                   \/ ScreeningFinish(s) \/ ProofsRefused(s) \/ ProofsFinish(s)
            PROVE  wf'[t] = wf[t]
        <5>1. req[s].tx \in Ids /\ WfExists(req[s].tx)
          BY <4>2 DEF PayloadsInUse, Starting, Req, SubmitForReviewUpdate,
                      ScreeningRefused, ScreeningFinish, ProofsRefused,
                      ProofsFinish
        <5> QED
          BY <2>2, <4>2, <5>1
             DEF SetStatus, SubmitForReviewUpdate, ScreeningRefused,
                 ScreeningFinish, ProofsRefused, ProofsFinish
      <4>3. wf'[t] # wf[t]
        BY <1>1, <2>2 DEF WfExists
      <4> QED
        BY <4>1, <4>2, <4>3, WorkflowWriters
    <3>2. CreateInsert(r) /\ t = req[r].tx
      BY <1>1, <2>2, <3>1 DEF CreateInsert, WfExists
    <3>3. wf'[t].payload = req[r].payload
      BY <3>2 DEF CreateInsert
    <3> QED
      BY <3>2, <3>3 DEF CreateInsert, HandlerInv, Starting
  <2> QED
    BY <2>1, <2>2
<1>2. ASSUME NEW r \in Requests
      PROVE  /\ req'[r].pc \in Starting \ {"idle"}
                  => /\ Valid(req'[r].payload)
                     /\ TrimTx[req'[r].payload.id] = req'[r].tx
             /\ req'[r].pc \notin Starting
                  => req'[r].payload = wf'[req'[r].tx].payload
             /\ req'[r].pc = "screening_reply"
                  => enc'[r].pc # "idle" /\ enc'[r].payload = req'[r].payload
             /\ req'[r].pc = "proofs_reply"
                  => zk'[r].pc # "idle" /\ zk'[r].id = req'[r].tx
  <2>1. \A t \in Ids : WfExists(t) => wf'[t].payload = wf[t].payload
    BY WorkflowKept
  <2>2. CASE req'[r] = req[r]
    <3>1. req[r].pc \notin Starting => WfExists(req[r].tx) /\ req[r].tx \in Ids
      BY DEF PayloadsInUse, Req
    <3> QED
      BY <2>1, <2>2, <3>1, SubmissionKept, ProofRunKept DEF HandlerInv
  <2>3. CASE req'[r] = ReqIdle
    BY <2>3 DEF ReqIdle, Starting
  <2>4. CASE Begin(r)
    <3>1. req'[r].tx \in Ids
      BY TypeNext DEF Req
    <3> QED
      BY <2>1, <2>4, <3>1, BeginHandler DEF Starting
  <2>5. CASE Continue(r) /\ req'[r] # ReqIdle
    <3>1. req[r].pc \notin Starting => WfExists(req[r].tx) /\ req[r].tx \in Ids
      BY DEF PayloadsInUse, Req
    <3>2. req'[r].pc = "screening_reply"
            => enc'[r].pc # "idle" /\ enc'[r].payload = req[r].payload
      BY <2>5, ContinueHandler, CallsFacts DEF EncPost, EncTypeOK
    <3>3. req'[r].pc = "proofs_reply"
            => zk'[r].pc # "idle" /\ zk'[r].id = req[r].tx
      <4>1. ZkPost(r, req[r].tx)
              => zk'[r] = [pc |-> "fetch_tx", id |-> req[r].tx,
                           institutions |-> FALSE, holds |-> {}]
        BY CallsFacts DEF ZkPost, ZkIdle, ZkTypeOK
      <4> QED
        BY <2>5, <4>1, ContinueHandler
    <3> QED
      BY <2>1, <2>5, <3>1, <3>2, <3>3, ContinueHandler DEF HandlerInv
  <2> QED
    <3>1. Abort(r) => req'[r] = ReqIdle
      BY DEF Abort, Finish
    <3> QED
      BY <2>2, <2>3, <2>4, <2>5, <3>1, HandlerSteps, OthersKept
<1> QED
  BY <1>1, <1>2 DEF HandlerInv, WfExists

(* A reviewer's decision comes first *)

Decided == PastScreening \union {"screening_failed", "approved", "rejected"}

\* The handlers that only a decided workflow admits.
AfterDecision == {"screening_call", "screening_reply", "screening_store",
                  "screening_audit", "screening_finish",
                  "proofs_call", "proofs_reply"}

\* A decided workflow has a reviewer, and so has one whose screening or
\* proofs are running: the decision may be withdrawn meanwhile, the reviewer
\* stays on record.
ReviewInv ==
    /\ \A t \in Ids : wf[t].status \in Decided => wf[t].reviewedBy # NoUser
    /\ \A r \in Requests :
         req[r].pc \in AfterDecision => wf[req[r].tx].reviewedBy # NoUser

LEMMA ReviewInit == Init => ReviewInv
BY DEF Init, ReviewInv, NoWf, ReqIdle, Decided, PastScreening, AfterDecision

LEMMA ReviewerKept ==
    ASSUME TypeInv, [Next]_vars, NEW t \in Ids, WfExists(t),
           wf[t].reviewedBy # NoUser
    PROVE  wf'[t].reviewedBy # NoUser
<1> USE DEF TypeInv, TypeOK
<1>1. ASSUME NEW r \in Requests, CreateInsert(r)
      PROVE  wf'[t].reviewedBy # NoUser
  BY <1>1 DEF CreateInsert, WfExists
<1>2. ASSUME NEW u \in Users, NEW i \in Ids, Approve(u, i) \/ Reject(u, i)
      PROVE  wf'[t].reviewedBy # NoUser
  <2>1. PICK to \in {"approved", "rejected"} :
          wf' = [wf EXCEPT ![i] = [@ EXCEPT !.status = to, !.reviewedBy = u]]
    BY <1>2 DEF Approve, Reject, Decide
  <2>2. wf[i] \in Wf /\ u # NoUser
    BY WorkflowAssumption
  <2>3. wf'[t] = wf[t] \/ wf'[t] = [wf[t] EXCEPT !.status = to,
                                               !.reviewedBy = u]
    BY <2>1
  <2> QED
    BY <2>2, <2>3 DEF Wf
<1>3. ASSUME NEW r \in Requests,
             \/ SubmitForReviewUpdate(r) \/ ScreeningRefused(r)
             \/ ScreeningFinish(r) \/ ProofsRefused(r) \/ ProofsFinish(r)
      PROVE  wf'[t].reviewedBy # NoUser
  BY <1>3 DEF SubmitForReviewUpdate, ScreeningRefused, ScreeningFinish,
              ProofsRefused, ProofsFinish, SetStatus, Wf
<1> QED
  BY <1>1, <1>2, <1>3, WorkflowWriters

LEMMA ReviewNext == TypeInv /\ ReviewInv /\ [Next]_vars => ReviewInv'
<1> SUFFICES ASSUME TypeInv, ReviewInv, [Next]_vars
             PROVE  ReviewInv'
  OBVIOUS
<1> USE DEF TypeInv, TypeOK
<1>1. ASSUME NEW t \in Ids, wf'[t].status \in Decided
      PROVE  wf'[t].reviewedBy # NoUser
  <2>1. CASE wf'[t].status = wf[t].status
    BY <1>1, <2>1, ReviewerKept
       DEF ReviewInv, WfExists, Decided, PastScreening
  <2>2. ASSUME wf'[t].status # wf[t].status,
               NEW r \in Requests, CreateInsert(r)
        PROVE  FALSE
    BY <1>1, <2>2 DEF CreateInsert, Decided, PastScreening
  <2>3. ASSUME wf'[t].status # wf[t].status, NEW u \in Users, NEW i \in Ids,
               Approve(u, i) \/ Reject(u, i)
        PROVE  wf'[t].reviewedBy # NoUser
    <3>1. PICK to \in {"approved", "rejected"} :
            wf' = [wf EXCEPT ![i] =
                     [@ EXCEPT !.status = to, !.reviewedBy = u]]
      BY <2>3 DEF Approve, Reject, Decide
    <3>2. wf[i] \in Wf /\ i = t /\ u # NoUser
      BY <2>3, <3>1, WorkflowAssumption
    <3>3. wf'[t] = [wf[t] EXCEPT !.status = to, !.reviewedBy = u]
      BY <3>1, <3>2
    <3> QED
      BY <3>2, <3>3 DEF Wf
  <2>4. ASSUME wf'[t].status # wf[t].status, NEW r \in Requests,
               \/ SubmitForReviewUpdate(r) \/ ScreeningRefused(r)
               \/ ScreeningFinish(r) \/ ProofsRefused(r) \/ ProofsFinish(r)
        PROVE  wf'[t].reviewedBy # NoUser
    <3>1. t = req[r].tx /\ WfExists(t)
      BY <2>4 DEF SubmitForReviewUpdate, ScreeningRefused, ScreeningFinish,
                  ProofsRefused, ProofsFinish, SetStatus, PayloadsInUse,
                  Starting
    <3>2. ~ SubmitForReviewUpdate(r)
      BY <1>1, <3>1 DEF SubmitForReviewUpdate, SetStatus, Decided,
                        PastScreening, Wf
    <3>3. wf[t].reviewedBy # NoUser
      BY <2>4, <3>1, <3>2
         DEF ReviewInv, AfterDecision, ScreeningRefused, ScreeningFinish,
             ProofsRefused, ProofsFinish
    <3> QED
      BY <3>1, <3>3, ReviewerKept
  <2> QED
    BY <2>1, <2>2, <2>3, <2>4, WorkflowWriters
<1>2. ASSUME NEW r \in Requests, req'[r].pc \in AfterDecision
      PROVE  wf'[req'[r].tx].reviewedBy # NoUser
  <2>1. req[r] \in Req
    OBVIOUS
  <2>2. ASSUME req[r].pc \in AfterDecision, req'[r].tx = req[r].tx
        PROVE  wf'[req'[r].tx].reviewedBy # NoUser
    <3>1. PICK t \in Ids : t = req[r].tx
      BY <2>1 DEF Req
    <3>2. WfExists(t) /\ wf[t].reviewedBy # NoUser
      BY <2>2, <3>1 DEF ReviewInv, PayloadsInUse, AfterDecision, Starting
    <3>3. wf'[t].reviewedBy # NoUser
      BY <3>2, ReviewerKept
    <3> QED
      BY <2>2, <3>1, <3>3
  <2>3. CASE Begin(r)
    <3>1. PICK u \in Users, t \in Ids : ScreeningFetch(r, u, t)
                                        \/ ProofsFetch(r, u, t)
      <4>1. ASSUME NEW u \in Users, NEW p \in Payloads,
                   CreateCheckRow(r, u, p)
            PROVE  FALSE
        BY <1>2, <4>1 DEF CreateCheckRow, ReqIdle, AfterDecision
      <4>2. ASSUME NEW u \in Users, NEW t \in Ids,
                   SubmitForReviewFetch(r, u, t) \/ EvaluateFetch(r, u, t)
            PROVE  FALSE
        BY <1>2, <4>2 DEF SubmitForReviewFetch, EvaluateFetch, Fetch,
                          AfterDecision
      <4> QED
        BY <2>3, <4>1, <4>2 DEF Begin
    <3>2. req'[r].tx = t /\ WfExists(t) /\ wf' = wf
      BY <3>1 DEF ScreeningFetch, ProofsFetch, Fetch
    <3>3. wf[t].reviewedBy # NoUser
      BY <3>1 DEF ScreeningFetch, ProofsFetch, ReviewInv, Decided,
                  PastScreening
    <3> QED
      BY <3>2, <3>3
  <2>4. CASE Continue(r)
    <3>1. \/ req'[r] = ReqIdle
          \/ req'[r].tx = req[r].tx /\ req[r].pc \in AfterDecision
      BY <1>2, <2>1, <2>4
         DEF Continue, AfterDecision, Goto, Finish, Req, CreateCheckWorkflow,
             CreateInsert, CreateConflict, SubmitForReviewUpdate,
             EvaluateStore, EvaluateAudit, ScreeningCall,
             ScreeningUnreachable, ScreeningRefused, ScreeningAccepted,
             ScreeningStore, ScreeningAudit, ScreeningFinish, ProofsCall,
             ProofsUnreachable, ProofsRefused, ProofsFinish
    <3> QED
      BY <1>2, <2>2, <3>1 DEF ReqIdle, AfterDecision
  <2>5. CASE Abort(r)
    BY <1>2, <2>5 DEF Abort, Finish, ReqIdle, AfterDecision
  <2>6. CASE req'[r] = req[r]
    BY <1>2, <2>2, <2>6
  <2> QED
    BY <2>3, <2>4, <2>5, <2>6, HandlerSteps, OthersKept
<1> QED
  BY <1>1, <1>2 DEF ReviewInv

\* No workflow was sent to screening, or got past it, without a reviewer's
\* decision on record, whatever resubmissions and decisions raced with it.
THEOREM ScreeningReviewed == Spec => []ReviewedBeforeScreening
<1>1. Init => TypeInv /\ ReviewInv
  BY TypeInit, ReviewInit
<1>2. TypeInv /\ ReviewInv /\ [Next]_vars => (TypeInv /\ ReviewInv)'
  BY TypeNext, ReviewNext
<1>3. ReviewInv => ReviewedBeforeScreening
  BY DEF ReviewInv, ReviewedBeforeScreening, Decided
<1> QED
  BY <1>1, <1>2, <1>3, PTL DEF Spec

(* The evidence of a screening *)

Evidence(i) ==
    /\ RowExists(i) /\ row[i].institutions
    /\ \A e \in SubmissionEvents : audit[i][e] = 1

\* The handlers that run after the encryption service accepted the payload.
Landed == {"screening_store", "screening_audit", "screening_finish",
           "proofs_call", "proofs_reply"}

\* No submission event without its row; and evidence wherever an accepted
\* submission waits to be read, is being linked, or was linked.
EvidenceInv ==
    /\ \A i \in Ids : ~ RowExists(i)
                        => \A e \in SubmissionEvents : audit[i][e] = 0
    /\ \A r \in Requests :
         /\ req[r].pc = "screening_reply" /\ enc[r].pc = "created"
              => Evidence(enc[r].payload.id)
         /\ req[r].pc \in Landed /\ Tidy(req[r].tx) => Evidence(req[r].tx)
    /\ ScreenedHasEvidence

LEMMA EvidenceInit == Init => EvidenceInv
BY DEF Init, EvidenceInv, TablesInit, NoAudit, NoRow, RowExists, EncInit,
       EncIdle, ReqIdle, Landed, ScreenedHasEvidence, NoWf, PastScreening,
       SubmissionEvents, AuditEvents

\* Who writes the two tables.
LEMMA TableWriters ==
    ASSUME TypeInv, [Next]_vars
    PROVE  \/ UNCHANGED <<row, audit>>
           \/ \E c \in Calls : EncCommit(c) /\ EncryptionStep(c)
           \/ \E r \in Requests :
                \/ EvaluateStore(r) \/ EvaluateAudit(r)
                \/ ScreeningStore(r) \/ ScreeningAudit(r)
<1>1. ASSUME NEW r \in Requests, Begin(r) \/ Abort(r)
      PROVE  UNCHANGED <<row, audit>>
  BY <1>1 DEF Begin, Abort, CreateCheckRow, SubmitForReviewFetch,
              EvaluateFetch, ScreeningFetch, ProofsFetch
<1>2. ASSUME NEW r \in Requests, Continue(r)
      PROVE  \/ UNCHANGED <<row, audit>>
             \/ EvaluateStore(r) \/ EvaluateAudit(r)
             \/ ScreeningStore(r) \/ ScreeningAudit(r)
  BY <1>2 DEF Continue, CreateCheckWorkflow, CreateInsert, CreateConflict,
              SubmitForReviewUpdate, ScreeningCall, ScreeningUnreachable,
              ScreeningRefused, ScreeningAccepted, ScreeningFinish,
              ProofsCall, ProofsUnreachable, ProofsRefused, ProofsFinish
<1>3. ASSUME NEW c \in Calls, EncryptionStep(c)
      PROVE  UNCHANGED <<row, audit>> \/ EncCommit(c)
  BY <1>3 DEF EncryptionStep, EncProgress, EncFault, EncCheck,
              EncCommitConflict, EncFail, EncLose
<1>4. ASSUME NEW c \in Calls, ProverStep(c)
      PROVE  UNCHANGED <<row, audit>>
  BY <1>4 DEF ProverStep, ZkProgress, ZkFault, ZkFetchTx, ZkFetchAudit,
              ZkStore, ZkFail, ZkLose
<1> QED
  BY <1>1, <1>2, <1>3, <1>4
     DEF Next, vars, Approve, Reject, Decide, DropEncReply, DropZkReply,
         DirectSubmit, DirectGenerate

\* What the encryption service inserts: a row that was not there, with its
\* three events.
LEMMA CommitWrites ==
    ASSUME TypeInv, NEW c \in Calls, EncCommit(c)
    PROVE  /\ enc[c].payload \in Payloads /\ ~ RowExists(enc[c].payload.id)
           /\ row'[enc[c].payload.id].status # "none"
           /\ row'[enc[c].payload.id].institutions = enc[c].payload.institutions
           /\ \A e \in SubmissionEvents :
                audit'[enc[c].payload.id][e] = audit[enc[c].payload.id][e] + 1
           /\ \A i \in Ids : i # enc[c].payload.id
                               => row'[i] = row[i] /\ audit'[i] = audit[i]
<1> USE DEF TypeInv, TypeOK, TablesTypeOK
<1>1. enc[c].payload \in Payloads /\ enc[c].payload.id \in Ids
  BY PayloadFacts DEF EncCommit, PayloadsInUse
<1>2. PICK sender, receiver \in ScreenResults :
        row' = [row EXCEPT ![enc[c].payload.id] =
                  [status |-> FinalStatus(sender, receiver),
                   institutions |-> enc[c].payload.institutions,
                   rules |-> {}, evaluated |-> FALSE]]
  BY DEF EncCommit
<1>3. FinalStatus(sender, receiver) # "none"
  BY DEF FinalStatus
<1>4. /\ \A e \in SubmissionEvents :
           audit'[enc[c].payload.id][e] = audit[enc[c].payload.id][e] + 1
      /\ \A i \in Ids : i # enc[c].payload.id => audit'[i] = audit[i]
  BY <1>1 DEF EncCommit, AuditWith, SubmissionEvents, AuditEvents
<1> QED
  BY <1>1, <1>2, <1>3, <1>4 DEF EncCommit

\* What the regulator API writes: rows stay, their institutions are those of
\* a validated payload, and the submission events are untouched.
LEMMA HandlerWrites ==
    ASSUME TypeInv, HandlerInv, NEW r \in Requests,
           \/ EvaluateStore(r) \/ EvaluateAudit(r)
           \/ ScreeningStore(r) \/ ScreeningAudit(r),
           NEW i \in Ids
    PROVE  /\ row'[i] = row[i] \/ row'[i].institutions
           /\ RowExists(i) => row'[i].status # "none"
           /\ \A e \in SubmissionEvents : audit'[i][e] = audit[i][e]
<1> USE DEF TypeInv, TypeOK, TablesTypeOK
<1>1. /\ req[r].pc \notin Starting /\ req[r].tx \in Ids
      /\ req[r].payload.institutions
  BY DEF EvaluateStore, EvaluateAudit, ScreeningStore, ScreeningAudit,
         Starting, Req, HandlerInv, PayloadsInUse, Valid
<1>2. CASE EvaluateStore(r)
  BY <1>1, <1>2 DEF EvaluateStore, RowExists
<1>3. CASE ScreeningStore(r)
  BY <1>1, <1>3 DEF ScreeningStore, RowExists
<1>4. CASE EvaluateAudit(r) \/ ScreeningAudit(r)
  BY <1>1, <1>4 DEF EvaluateAudit, ScreeningAudit, AuditWith, RowExists,
                    SubmissionEvents, AuditEvents
<1> QED
  BY <1>2, <1>3, <1>4

\* Evidence is never lost.
LEMMA EvidenceKept ==
    ASSUME TypeInv, HandlerInv, [Next]_vars, NEW i \in Ids, Evidence(i)
    PROVE  /\ row'[i].status # "none" /\ row'[i].institutions
           /\ \A e \in SubmissionEvents : audit'[i][e] = 1
<1>1. ASSUME NEW c \in Calls, EncCommit(c)
      PROVE  row'[i] = row[i] /\ audit'[i] = audit[i]
  BY <1>1, CommitWrites DEF Evidence
<1>2. ASSUME NEW r \in Requests,
             \/ EvaluateStore(r) \/ EvaluateAudit(r)
             \/ ScreeningStore(r) \/ ScreeningAudit(r)
      PROVE  /\ row'[i].status # "none" /\ row'[i].institutions
             /\ \A e \in SubmissionEvents : audit'[i][e] = 1
  BY <1>2, HandlerWrites DEF Evidence
<1> QED
  BY <1>1, <1>2, TableWriters DEF Evidence, RowExists

\* The encryption service's "created" comes from a commit only.
LEMMA CreatedByCommit ==
    ASSUME TypeInv, HandlerInv, [Next]_vars, NEW r \in Requests,
           req'[r].pc = "screening_reply", enc'[r].pc = "created"
    PROVE  /\ req'[r] = req[r] /\ enc'[r].payload = enc[r].payload
           /\ enc[r].pc = "created" \/ EncCommit(r)
<1> USE WorkflowAssumption DEF TypeInv, TypeOK, EncTypeOK
<1>1. ASSUME NEW s \in Requests, Begin(s) \/ Continue(s) \/ Abort(s)
      PROVE  req'[r] = req[r] /\ (s # r \/ enc'[r] = enc[r])
  <2>1. CASE s # r
    BY <1>1, <2>1, OthersKept
  <2>2. CASE s = r /\ Begin(r)
    BY <2>2, BeginHandler
  <2>3. CASE s = r /\ Continue(r)
    <3>1. req'[r] # ReqIdle
      BY DEF ReqIdle
    <3>2. EncPost(r, req[r].payload)
      BY <2>3, <3>1, ContinueHandler
    <3> QED
      BY <3>2 DEF EncPost
  <2>4. CASE s = r /\ Abort(r)
    BY <2>4 DEF Abort, Finish, ReqIdle
  <2> QED
    BY <1>1, <2>1, <2>2, <2>3, <2>4
<1>2. req'[r] = req[r]
  BY <1>1, HandlerSteps
<1>3. enc'[r].pc # "idle" /\ enc'[r].payload = enc[r].payload
  BY <1>2, SubmissionKept DEF HandlerInv
<1>4. ASSUME NEW s \in Requests, Begin(s) \/ Continue(s) \/ Abort(s)
      PROVE  enc'[r].pc = enc[r].pc
  <2>1. CASE s = r
    BY <1>1, <1>4, <2>1
  <2>2. CASE s # r
    BY <1>4, <2>2
       DEF Begin, Continue, Abort, EncPost, EncTake, CreateCheckRow,
           CreateCheckWorkflow, CreateInsert, CreateConflict,
           SubmitForReviewFetch, SubmitForReviewUpdate, EvaluateFetch,
           EvaluateStore, EvaluateAudit, ScreeningFetch, ScreeningCall,
           ScreeningUnreachable, ScreeningRefused, ScreeningAccepted,
           ScreeningStore, ScreeningAudit, ScreeningFinish, ProofsFetch,
           ProofsCall, ProofsUnreachable, ProofsRefused, ProofsFinish
  <2> QED
    BY <2>1, <2>2
<1>5. ASSUME NEW c \in Calls, EncryptionStep(c)
      PROVE  enc[r].pc = "created" \/ EncCommit(r)
  <2>1. ASSUME NEW pc, enc' = [enc EXCEPT ![c].pc = pc]
        PROVE  enc'[r].pc = IF c = r THEN pc ELSE enc[r].pc
    <3>1. enc[c] \in EncSlot
      OBVIOUS
    <3> QED
      BY <2>1, <3>1 DEF EncSlot
  <2>2. CASE EncCheck(c)
    BY <2>1, <2>2 DEF EncCheck
  <2>3. CASE EncCommit(c)
    <3>1. enc' = [enc EXCEPT ![c].pc = "created"]
      BY <2>3 DEF EncCommit
    <3> QED
      BY <2>1, <2>3, <3>1
  <2>4. CASE EncCommitConflict(c) \/ EncFault(c)
    <3>1. \/ enc' = [enc EXCEPT ![c].pc = "failed"]
          \/ enc' = [enc EXCEPT ![c].pc = "unreachable"]
      BY <2>4 DEF EncCommitConflict, EncFault, EncFail, EncLose
    <3> QED
      BY <2>1, <3>1
  <2> QED
    BY <1>5, <2>2, <2>3, <2>4 DEF EncryptionStep, EncProgress
<1>6. ASSUME NEW c \in Calls, DropEncReply(c) \/ DropZkReply(c)
      PROVE  enc'[r] = enc[r]
  BY <1>2, <1>6 DEF DropEncReply, DropZkReply, Unawaited, EncTake
<1>7. ASSUME NEW c \in Clients,
             \/ \E p \in Payloads : DirectSubmit(c, p)
             \/ \E i \in Ids : DirectGenerate(c, i)
      PROVE  enc'[r] = enc[r]
  BY <1>7 DEF DirectSubmit, DirectGenerate, EncPost
<1> QED
  BY <1>2, <1>3, <1>4, <1>5, <1>6, <1>7
     DEF Next, vars, Approve, Reject, Decide, ProverStep

LEMMA EvidenceNext ==
    TypeInv /\ HandlerInv /\ EvidenceInv /\ [Next]_vars => EvidenceInv'
<1> SUFFICES ASSUME TypeInv, HandlerInv, EvidenceInv, [Next]_vars
             PROVE  EvidenceInv'
  OBVIOUS
<1> USE DEF TypeInv, TypeOK
<1>1. ASSUME NEW i \in Ids, row'[i].status = "none"
      PROVE  \A e \in SubmissionEvents : audit'[i][e] = 0
  <2>1. ASSUME NEW c \in Calls, EncCommit(c)
        PROVE  \A e \in SubmissionEvents : audit'[i][e] = 0
    BY <1>1, <2>1, CommitWrites DEF EvidenceInv, RowExists
  <2>2. ASSUME NEW r \in Requests,
               \/ EvaluateStore(r) \/ EvaluateAudit(r)
               \/ ScreeningStore(r) \/ ScreeningAudit(r)
        PROVE  \A e \in SubmissionEvents : audit'[i][e] = 0
    BY <1>1, <2>2, HandlerWrites DEF EvidenceInv
  <2> QED
    BY <1>1, <2>1, <2>2, TableWriters DEF EvidenceInv, RowExists
<1>2. ASSUME NEW r \in Requests,
             req'[r].pc = "screening_reply", enc'[r].pc = "created"
      PROVE  /\ row'[enc'[r].payload.id].status # "none"
             /\ row'[enc'[r].payload.id].institutions
             /\ \A e \in SubmissionEvents : audit'[enc'[r].payload.id][e] = 1
  <2>1. /\ req'[r] = req[r] /\ enc'[r].payload = enc[r].payload
        /\ enc[r].pc = "created" \/ EncCommit(r)
    BY <1>2, CreatedByCommit
  <2>2. req[r].payload \in Payloads /\ enc[r].payload = req[r].payload
    BY <1>2, <2>1 DEF PayloadsInUse, HandlerInv
  <2>3. enc[r].payload.id \in Ids
    BY <2>2, PayloadFacts
  <2>4. CASE enc[r].pc = "created"
    <3>1. Evidence(enc[r].payload.id)
      BY <1>2, <2>1, <2>4 DEF EvidenceInv
    <3>2. PICK i \in Ids : i = enc[r].payload.id
      BY <2>3
    <3>3. /\ row'[i].status # "none" /\ row'[i].institutions
          /\ \A e \in SubmissionEvents : audit'[i][e] = 1
      BY <3>1, <3>2, EvidenceKept
    <3> QED
      BY <2>1, <3>2, <3>3
  <2>5. CASE EncCommit(r)
    <3>1. req[r].payload.institutions
      BY <1>2, <2>1 DEF HandlerInv, Starting, PayloadsInUse, Valid, Req
    <3>2. \A e \in SubmissionEvents : audit[enc[r].payload.id][e] = 0
      BY <2>3, <2>5, CommitWrites, CallsFacts DEF EvidenceInv
    <3> QED
      BY <2>1, <2>2, <2>5, <3>1, <3>2, CommitWrites, CallsFacts
  <2> QED
    BY <2>1, <2>4, <2>5
<1>3. ASSUME NEW t \in Ids, WfExists(t), wf'[t].payload.id = t,
             wf[t].payload.id = t => Evidence(t)
      PROVE  /\ row'[t].status # "none" /\ row'[t].institutions
             /\ \A e \in SubmissionEvents : audit'[t][e] = 1
  BY <1>3, WorkflowKept, EvidenceKept
<1>4. ASSUME NEW r \in Requests, req'[r].pc \in Landed,
             wf'[req'[r].tx].payload.id = req'[r].tx
      PROVE  /\ row'[req'[r].tx].status # "none"
             /\ row'[req'[r].tx].institutions
             /\ \A e \in SubmissionEvents : audit'[req'[r].tx][e] = 1
  <2>1. PICK t \in Ids : t = req'[r].tx
    BY TypeNext DEF Req
  <2>2. ASSUME WfExists(t), wf[t].payload.id = t => Evidence(t)
        PROVE  /\ row'[t].status # "none" /\ row'[t].institutions
               /\ \A e \in SubmissionEvents : audit'[t][e] = 1
    BY <1>3, <1>4, <2>1, <2>2
  <2>3. CASE Begin(r)
    <3>1. PICK u \in Users, i \in Ids : ProofsFetch(r, u, i)
      <4>1. ASSUME NEW u \in Users, NEW p \in Payloads,
                   CreateCheckRow(r, u, p)
            PROVE  FALSE
        BY <1>4, <4>1 DEF CreateCheckRow, ReqIdle, Landed
      <4>2. ASSUME NEW u \in Users, NEW i \in Ids,
                   \/ SubmitForReviewFetch(r, u, i)
                   \/ EvaluateFetch(r, u, i) \/ ScreeningFetch(r, u, i)
            PROVE  FALSE
        BY <1>4, <4>2 DEF SubmitForReviewFetch, EvaluateFetch,
                          ScreeningFetch, Fetch, Landed
      <4> QED
        BY <2>3, <4>1, <4>2 DEF Begin
    <3>2. i = t /\ WfExists(t) /\ wf[t].status \in PastScreening
      BY <2>1, <3>1 DEF ProofsFetch, Fetch, PastScreening
    <3> QED
      BY <2>1, <2>2, <3>2
         DEF EvidenceInv, ScreenedHasEvidence, Tidy, Evidence
  <2>4. ASSUME req[r].tx = t, req[r].pc \in Landed
        PROVE  /\ row'[t].status # "none" /\ row'[t].institutions
               /\ \A e \in SubmissionEvents : audit'[t][e] = 1
    BY <2>2, <2>4 DEF EvidenceInv, Tidy, PayloadsInUse, Landed, Starting
  <2>5. CASE Continue(r)
    <3>1. req'[r] # ReqIdle
      BY <1>4 DEF ReqIdle, Landed
    <3>2. req[r].tx = t
      BY <2>1, <2>5, <3>1, ContinueHandler
    <3>3. CASE ScreeningAccepted(r)
      <4>1. Evidence(enc[r].payload.id) /\ enc[r].payload = req[r].payload
            /\ req[r].payload = wf[t].payload /\ WfExists(t)
        BY <3>2, <3>3 DEF ScreeningAccepted, EvidenceInv, HandlerInv,
                          Starting, PayloadsInUse
      <4> QED
        BY <2>1, <2>2, <4>1
    <3>4. ScreeningAccepted(r) \/ req[r].pc \in Landed
      BY <1>4, <2>5, <3>1
         DEF Continue, Landed, Goto, Finish, Req, CreateCheckWorkflow,
             CreateInsert, CreateConflict, SubmitForReviewUpdate,
             EvaluateStore, EvaluateAudit, ScreeningCall,
             ScreeningUnreachable, ScreeningRefused, ScreeningStore,
             ScreeningAudit, ScreeningFinish, ProofsCall, ProofsUnreachable,
             ProofsRefused, ProofsFinish
    <3> QED
      BY <2>1, <2>4, <3>2, <3>3, <3>4
  <2>6. CASE Abort(r)
    BY <1>4, <2>6 DEF Abort, Finish, ReqIdle, Landed
  <2>7. CASE req'[r] = req[r]
    BY <1>4, <2>1, <2>4, <2>7
  <2> QED
    BY <2>3, <2>5, <2>6, <2>7, HandlerSteps, OthersKept
<1>5. ASSUME NEW t \in Ids, wf'[t].status \in PastScreening,
             wf'[t].payload.id = t
      PROVE  /\ row'[t].status # "none" /\ row'[t].institutions
             /\ \A e \in SubmissionEvents : audit'[t][e] = 1
  <2>1. CASE wf'[t].status = wf[t].status
    BY <1>3, <1>5, <2>1
       DEF EvidenceInv, ScreenedHasEvidence, Tidy, Evidence, WfExists,
           PastScreening
  <2>2. ASSUME wf'[t].status # wf[t].status,
               NEW r \in Requests, CreateInsert(r)
        PROVE  FALSE
    BY <1>5, <2>2 DEF CreateInsert, PastScreening
  <2>3. ASSUME wf'[t].status # wf[t].status, NEW u \in Users, NEW i \in Ids,
               Approve(u, i) \/ Reject(u, i)
        PROVE  FALSE
    <3>1. PICK to \in {"approved", "rejected"} :
            wf' = [wf EXCEPT ![i] =
                     [@ EXCEPT !.status = to, !.reviewedBy = u]]
      BY <2>3 DEF Approve, Reject, Decide
    <3>2. wf[i] \in Wf /\ wf'[t] = [wf[t] EXCEPT !.status = to,
                                               !.reviewedBy = u]
      BY <2>3, <3>1
    <3> QED
      BY <1>5, <3>2 DEF Wf, PastScreening
  <2>4. ASSUME wf'[t].status # wf[t].status, NEW r \in Requests,
               \/ SubmitForReviewUpdate(r) \/ ScreeningRefused(r)
               \/ ScreeningFinish(r) \/ ProofsRefused(r) \/ ProofsFinish(r)
        PROVE  /\ row'[t].status # "none" /\ row'[t].institutions
               /\ \A e \in SubmissionEvents : audit'[t][e] = 1
    <3>1. t = req[r].tx /\ WfExists(t)
      BY <2>4 DEF SubmitForReviewUpdate, ScreeningRefused, ScreeningFinish,
                  ProofsRefused, ProofsFinish, SetStatus, PayloadsInUse,
                  Starting
    <3>2. ScreeningFinish(r) \/ ProofsRefused(r) \/ ProofsFinish(r)
      BY <1>5, <2>4, <3>1 DEF SubmitForReviewUpdate, ScreeningRefused,
                              SetStatus, PastScreening, Wf
    <3>3. req[r].pc \in Landed
      BY <3>2 DEF ScreeningFinish, ProofsRefused, ProofsFinish, Landed
    <3> QED
      BY <1>3, <1>5, <3>1, <3>3 DEF EvidenceInv, Tidy
  <2> QED
    BY <2>1, <2>2, <2>3, <2>4, WorkflowWriters
<1> QED
  BY <1>1, <1>2, <1>4, <1>5
     DEF EvidenceInv, ScreenedHasEvidence, Evidence, RowExists, Tidy

\* A workflow past screening has the evidence of one screening: its row, and
\* each submission event exactly once, through any number of concurrent
\* submissions, retries, evaluations and aborted handlers.
THEOREM ScreenedEvidence == Spec => []ScreenedHasEvidence
<1>1. Init => TypeInv /\ HandlerInv /\ EvidenceInv
  BY TypeInit, HandlerInit, EvidenceInit
<1>2. TypeInv /\ HandlerInv /\ EvidenceInv /\ [Next]_vars
        => (TypeInv /\ HandlerInv /\ EvidenceInv)'
  BY TypeNext, HandlerNext, EvidenceNext
<1>3. EvidenceInv => ScreenedHasEvidence
  BY DEF EvidenceInv
<1> QED
  BY <1>1, <1>2, <1>3, PTL DEF Spec

(* How a run moves on *)

\* The proofs of one rule for a tx_id, and whether one says its claim holds.
Stored(i, rule) == \E p \in proofs[i] : p.rule = rule
Held(i, rule)   == \E p \in proofs[i] : p.rule = rule /\ p.signal

\* What a run has done by the statement it is at.
DoneRec10 == {"store_rec11", "store_rec16", "ok"}
DoneRec11 == {"store_rec16", "ok"}
Claimed   == ZkStoring \union {"ok"}

\* A run is moved by the prover, begins with its first statement or ends.
LEMMA RunStep ==
    ASSUME TypeInv, [Next]_vars, NEW c \in Calls
    PROVE  \/ zk'[c] = zk[c]
           \/ zk'[c].pc \in {"idle", "fetch_tx", "error", "unreachable"}
           \/ zk'[c].id = zk[c].id
              /\ (ZkFetchTx(c) \/ ZkFetchAudit(c) \/ ZkStore(c))
<1> USE DEF TypeInv, TypeOK, ZkTypeOK
<1>1. ASSUME NEW d \in Calls, ProverStep(d)
      PROVE  \/ zk'[c] = zk[c]
             \/ zk'[c].pc \in {"error", "unreachable"}
             \/ zk'[c].id = zk[c].id
                /\ (ZkFetchTx(c) \/ ZkFetchAudit(c) \/ ZkStore(c))
  <2>0. zk[c] \in ZkSlot
    OBVIOUS
  <2>1. CASE ZkFetchTx(d)
    BY <2>0, <2>1 DEF ZkFetchTx, ZkSlot
  <2>2. CASE ZkFetchAudit(d)
    BY <2>0, <2>2 DEF ZkFetchAudit, ZkSlot
  <2>3. CASE ZkStore(d)
    BY <2>0, <2>3 DEF ZkStore, ZkSlot
  <2>4. CASE ZkFault(d)
    BY <2>0, <2>4 DEF ZkFault, ZkFail, ZkLose, ZkSlot
  <2> QED
    BY <1>1, <2>1, <2>2, <2>3, <2>4 DEF ProverStep, ZkProgress
<1>2. ASSUME NEW d \in Calls, ZkTake(d) \/ \E i \in Ids : ZkPost(d, i)
      PROVE  zk'[c] = zk[c] \/ zk'[c].pc \in {"idle", "fetch_tx"}
  <2>1. CASE ZkTake(d)
    BY <2>1 DEF ZkTake, ZkIdle
  <2>2. ASSUME NEW i \in Ids, ZkPost(d, i)
        PROVE  zk'[c] = zk[c] \/ zk'[c].pc = "fetch_tx"
    <3>1. [ZkIdle EXCEPT !.pc = "fetch_tx", !.id = i].pc = "fetch_tx"
      BY DEF ZkIdle
    <3> QED
      BY <2>2, <3>1 DEF ZkPost
  <2> QED
    BY <1>2, <2>1, <2>2
<1>3. ASSUME NEW r \in Requests, Begin(r) \/ Abort(r)
      PROVE  zk' = zk
  BY <1>3 DEF Begin, Abort, CreateCheckRow, SubmitForReviewFetch,
              EvaluateFetch, ScreeningFetch, ProofsFetch
<1>4. ASSUME NEW r \in Requests, Continue(r)
      PROVE  zk' = zk \/ ZkTake(r) \/ \E i \in Ids : ZkPost(r, i)
  <2>1. req[r].tx \in Ids
    BY DEF Req
  <2> QED
    BY <1>4, <2>1
       DEF Continue, CreateCheckWorkflow, CreateInsert, CreateConflict,
           SubmitForReviewUpdate, EvaluateStore, EvaluateAudit,
           ScreeningCall, ScreeningUnreachable, ScreeningRefused,
           ScreeningAccepted, ScreeningStore, ScreeningAudit,
           ScreeningFinish, ProofsCall, ProofsUnreachable, ProofsRefused,
           ProofsFinish
<1>5. ASSUME NEW d \in Calls,
             EncryptionStep(d) \/ DropEncReply(d) \/ DropZkReply(d)
      PROVE  zk' = zk \/ ZkTake(d)
  BY <1>5 DEF EncryptionStep, DropEncReply, DropZkReply
<1>6. ASSUME NEW d \in Clients,
             \/ \E p \in Payloads : DirectSubmit(d, p)
             \/ \E i \in Ids : DirectGenerate(d, i)
      PROVE  zk' = zk \/ \E i \in Ids : ZkPost(d, i)
  BY <1>6 DEF DirectSubmit, DirectGenerate
<1> QED
  BY <1>1, <1>2, <1>3, <1>4, <1>5, <1>6, CallsFacts
     DEF Next, vars, Approve, Reject, Decide

\* Only a run's store writes proofs.
LEMMA ProofWriters ==
    ASSUME TypeInv, [Next]_vars
    PROVE  UNCHANGED proofs \/ \E c \in Calls : ZkStore(c) /\ ProverStep(c)
<1>1. ASSUME NEW r \in Requests, Begin(r) \/ Abort(r)
      PROVE  UNCHANGED proofs
  BY <1>1 DEF Begin, Abort, CreateCheckRow, SubmitForReviewFetch,
              EvaluateFetch, ScreeningFetch, ProofsFetch
<1>2. ASSUME NEW r \in Requests, Continue(r)
      PROVE  UNCHANGED proofs
  BY <1>2
     DEF Continue, CreateCheckWorkflow, CreateInsert, CreateConflict,
         SubmitForReviewUpdate, EvaluateStore, EvaluateAudit, ScreeningCall,
         ScreeningUnreachable, ScreeningRefused, ScreeningAccepted,
         ScreeningStore, ScreeningAudit, ScreeningFinish, ProofsCall,
         ProofsUnreachable, ProofsRefused, ProofsFinish
<1>3. ASSUME NEW c \in Calls, ProverStep(c)
      PROVE  UNCHANGED proofs \/ ZkStore(c)
  BY <1>3 DEF ProverStep, ZkProgress, ZkFault, ZkFetchTx, ZkFetchAudit,
              ZkFail, ZkLose
<1> QED
  BY <1>1, <1>2, <1>3
     DEF Next, vars, Approve, Reject, Decide, EncryptionStep, DropEncReply,
         DropZkReply, DirectSubmit, DirectGenerate

\* What a store adds, and that it takes nothing away.
LEMMA StoreWrites ==
    ASSUME TypeInv, NEW c \in Calls, ZkStore(c),
           NEW i, i = zk[c].id, NEW rule, rule = RuleAt(zk[c].pc)
    PROVE  /\ i \in Ids /\ rule \in ProofRules
           /\ zk'[c].pc = AfterStore(zk[c].pc)
           /\ zk'[c].id = i /\ zk'[c].holds = zk[c].holds
           /\ Stored(i, rule)' /\ (rule \in zk[c].holds => Held(i, rule)')
           /\ \A j \in Ids : proofs[j] \subseteq proofs'[j]
           /\ \A j \in Ids : \A p \in proofs'[j] :
                \/ p \in proofs[j]
                \/ /\ j = i /\ p.rule = rule
                   /\ p.signal => p.rule \in zk[c].holds
<1>1. /\ zk[c] \in ZkSlot /\ i \in Ids
      /\ proofs \in [Ids -> SUBSET Proof]
  BY DEF TypeInv, TypeOK, ZkTypeOK, ZkSlot
<1>2. rule \in ProofRules
  BY DEF ZkStore, ZkStoring, RuleAt, ProofRules
<1>3. /\ zk'[c].pc = AfterStore(zk[c].pc)
      /\ zk'[c].id = i /\ zk'[c].holds = zk[c].holds
  BY <1>1 DEF ZkStore, ZkSlot, TypeInv, TypeOK, ZkTypeOK
<1>4. PICK new : /\ new.rule = rule /\ new.signal = (rule \in zk[c].holds)
                 /\ proofs' = [proofs EXCEPT ![i] = @ \union {new}]
  <2>1. /\ [rule |-> rule, signal |-> rule \in zk[c].holds,
            status |-> ArtifactStatus(rule \in zk[c].holds)].rule = rule
        /\ [rule |-> rule, signal |-> rule \in zk[c].holds,
            status |-> ArtifactStatus(rule \in zk[c].holds)].signal
             = (rule \in zk[c].holds)
    OBVIOUS
  <2> QED
    BY <2>1 DEF ZkStore
<1>5. \A j \in Ids : proofs'[j] = IF j = i THEN proofs[j] \union {new}
                                           ELSE proofs[j]
  BY <1>1, <1>4
<1>6. Stored(i, rule)' /\ (rule \in zk[c].holds => Held(i, rule)')
  BY <1>1, <1>4, <1>5 DEF Stored, Held
<1>7. \A j \in Ids : \A p \in proofs'[j] :
        \/ p \in proofs[j]
        \/ j = i /\ p.rule = rule /\ (p.signal => p.rule \in zk[c].holds)
  <2>1. new.rule = rule /\ (new.signal => new.rule \in zk[c].holds)
    BY <1>4
  <2>2. ASSUME NEW j \in Ids, NEW p \in proofs'[j]
        PROVE  p \in proofs[j] \/ (j = i /\ p = new)
    BY <1>5, <2>2
  <2> QED
    BY <2>1, <2>2
<1> QED
  BY <1>1, <1>2, <1>3, <1>5, <1>6, <1>7

\* Proofs are never lost.
LEMMA ProofsKept ==
    ASSUME TypeInv, [Next]_vars, NEW i \in Ids
    PROVE  proofs[i] \subseteq proofs'[i]
BY ProofWriters, StoreWrites

(* What makes a claim true stays *)

\* Rows stay.
LEMMA RowsKept ==
    ASSUME TypeInv, HandlerInv, [Next]_vars, NEW i \in Ids, RowExists(i)
    PROVE  RowExists(i)' /\ (row[i].institutions => row'[i].institutions)
<1>1. ASSUME NEW c \in Calls, EncCommit(c)
      PROVE  /\ RowExists(i)'
             /\ row[i].institutions => row'[i].institutions
  BY <1>1, CommitWrites DEF RowExists
<1>2. ASSUME NEW r \in Requests,
             \/ EvaluateStore(r) \/ EvaluateAudit(r)
             \/ ScreeningStore(r) \/ ScreeningAudit(r)
      PROVE  /\ RowExists(i)'
             /\ row[i].institutions => row'[i].institutions
  BY <1>2, HandlerWrites DEF RowExists
<1> QED
  BY <1>1, <1>2, TableWriters DEF RowExists

\* The audit trail only grows.
LEMMA AuditGrows ==
    ASSUME TypeInv, [Next]_vars, NEW i \in Ids, NEW e \in AuditEvents
    PROVE  audit[i][e] \in Nat /\ audit'[i][e] \in Nat
           /\ audit[i][e] <= audit'[i][e]
<1>1. audit \in [Ids -> [AuditEvents -> Nat]]
      /\ audit' \in [Ids -> [AuditEvents -> Nat]]
  BY TypeNext DEF TypeInv, TypeOK, TablesTypeOK
<1>2. ASSUME NEW j, NEW events, audit' = AuditWith(j, events)
      PROVE  audit[i][e] <= audit'[i][e]
  BY <1>1, <1>2 DEF AuditWith
<1>3. ASSUME NEW c \in Calls, EncCommit(c)
      PROVE  audit[i][e] <= audit'[i][e]
  BY <1>2, <1>3 DEF EncCommit
<1>4. ASSUME NEW r \in Requests,
             \/ EvaluateStore(r) \/ EvaluateAudit(r)
             \/ ScreeningStore(r) \/ ScreeningAudit(r)
      PROVE  audit[i][e] <= audit'[i][e]
  BY <1>1, <1>2, <1>4
     DEF EvaluateStore, EvaluateAudit, ScreeningStore, ScreeningAudit
<1> QED
  BY <1>1, <1>3, <1>4, TableWriters

\* What the claim of a rule says of the tables.
Truth(i, rule) ==
    /\ RowExists(i)
    /\ rule = "FATF_REC10" => /\ Recorded(i, "sender_screening_completed")
                              /\ Recorded(i, "receiver_screening_completed")
    /\ rule = "FATF_REC11" => AuditCount(i) >= 3
    /\ rule = "FATF_REC16" => row[i].institutions

LEMMA TruthKept ==
    ASSUME TypeInv, HandlerInv, [Next]_vars, NEW i \in Ids, NEW rule,
           Truth(i, rule)
    PROVE  Truth(i, rule)'
<1>1. RowExists(i)' /\ (row[i].institutions => row'[i].institutions)
  BY RowsKept DEF Truth
<1>2. \A e \in AuditEvents : /\ audit[i][e] \in Nat /\ audit'[i][e] \in Nat
                             /\ audit[i][e] <= audit'[i][e]
  BY AuditGrows
<1>3. \A e \in AuditEvents : Recorded(i, e) => Recorded(i, e)'
  BY <1>2 DEF Recorded
<1>4. AuditCount(i) >= 3 => AuditCount(i)' >= 3
  BY <1>2 DEF AuditCount, AuditEvents
<1> QED
  BY <1>1, <1>3, <1>4 DEF Truth, AuditEvents

(* The invariant *)

\* A run that saw the row claims only what is true, and has stored, with
\* their signals, the proofs before the one it is at.
RunInv(c) ==
    LET i == zk[c].id IN
    /\ zk[c].pc = "fetch_audit" =>
         RowExists(i) /\ (zk[c].institutions => row[i].institutions)
    /\ zk[c].pc \in Claimed => \A rule \in zk[c].holds : Truth(i, rule)
    /\ zk[c].pc \in DoneRec10 =>
         /\ Stored(i, "FATF_REC10")
         /\ "FATF_REC10" \in zk[c].holds => Held(i, "FATF_REC10")
    /\ zk[c].pc \in DoneRec11 =>
         /\ Stored(i, "FATF_REC11")
         /\ "FATF_REC11" \in zk[c].holds => Held(i, "FATF_REC11")
    /\ zk[c].pc = "ok" =>
         /\ Stored(i, "FATF_REC16")
         /\ "FATF_REC16" \in zk[c].holds => Held(i, "FATF_REC16")

\* generate_proofs calls for a screened workflow, so the run it waits for
\* finds all the evidence.
HandlerRunInv(r) ==
    req[r].pc = "proofs_reply" /\ Tidy(req[r].tx) =>
      /\ zk[r].pc = "fetch_audit" => zk[r].institutions
      /\ zk[r].pc \in Claimed => zk[r].holds = ProofRules

ClaimsInv ==
    /\ \A c \in Calls : RunInv(c)
    /\ \A r \in Requests : HandlerRunInv(r)
    /\ \A i \in Ids : \A p \in proofs[i] : p.signal => Truth(i, p.rule)
    /\ \A t \in Ids : wf[t].status = "proof_generated" =>
         \A rule \in ProofRules :
           Stored(t, rule) /\ (Tidy(t) => Held(t, rule))

LEMMA ClaimsInit == Init => ClaimsInv
BY CallsFacts
   DEF Init, ClaimsInv, RunInv, HandlerRunInv, TablesInit, ZkInit, ZkIdle,
       ZkStoring, Claimed, DoneRec10, DoneRec11, ReqIdle, NoWf

LEMMA StoredKept ==
    ASSUME TypeInv, [Next]_vars, NEW i \in Ids, NEW rule
    PROVE  /\ Stored(i, rule) => Stored(i, rule)'
           /\ Held(i, rule) => Held(i, rule)'
BY ProofsKept DEF Stored, Held

LEMMA RunNext ==
    ASSUME TypeInv, HandlerInv, ClaimsInv, [Next]_vars, NEW c \in Calls
    PROVE  RunInv(c)'
<1>1. zk[c] \in ZkSlot /\ zk[c].id \in Ids /\ RunInv(c)
  BY DEF TypeInv, TypeOK, ZkTypeOK, ZkSlot, ClaimsInv
<1>2. PICK i \in Ids : i = zk[c].id
  BY <1>1
<1>3. \A rule : Truth(i, rule) => Truth(i, rule)'
  BY TruthKept
<1>4. \A rule : /\ Stored(i, rule) => Stored(i, rule)'
                /\ Held(i, rule) => Held(i, rule)'
  BY StoredKept
<1>5. CASE zk'[c] = zk[c]
  <2>1. RowExists(i) => RowExists(i)' /\ (row[i].institutions
                                            => row'[i].institutions)
    BY RowsKept
  <2> QED
    BY <1>1, <1>2, <1>3, <1>4, <1>5, <2>1
       DEF RunInv, Truth, Stored, Held, RowExists
<1>6. CASE zk'[c].pc \in {"idle", "fetch_tx", "error", "unreachable"}
  BY <1>6 DEF RunInv, Claimed, ZkStoring, DoneRec10, DoneRec11
<1>7. CASE zk'[c].id = zk[c].id /\ ZkFetchTx(c)
  <2>1. /\ UNCHANGED row
        /\ zk'[c].pc \in {"fetch_audit", "error"}
        /\ zk'[c].pc = "fetch_audit" => RowExists(i)
        /\ zk'[c].institutions = row[i].institutions
    BY <1>1, <1>2, <1>7
       DEF ZkFetchTx, TypeInv, TypeOK, ZkTypeOK, ZkSlot
  <2> QED
    BY <1>2, <1>7, <2>1
       DEF RunInv, RowExists, Claimed, ZkStoring, DoneRec10, DoneRec11
<1>8. CASE zk'[c].id = zk[c].id /\ ZkFetchAudit(c)
  <2>1. /\ UNCHANGED <<row, audit>>
        /\ zk'[c].pc = "store_rec10" /\ zk[c].pc = "fetch_audit"
        /\ zk'[c].holds = Claims(i, zk[c].institutions)
    BY <1>1, <1>2, <1>8
       DEF ZkFetchAudit, TypeInv, TypeOK, ZkTypeOK, ZkSlot
  <2>2. \A rule \in Claims(i, zk[c].institutions) : Truth(i, rule)
    BY <1>1, <1>2, <2>1 DEF RunInv, Claims, Truth, ProofRules
  <2>3. \A rule \in zk'[c].holds : Truth(i, rule)'
    BY <1>3, <2>1, <2>2
  <2> QED
    BY <1>2, <1>8, <2>1, <2>3
       DEF RunInv, Truth, RowExists, Recorded, AuditCount, DoneRec10,
           DoneRec11
<1>9. CASE ZkStore(c)
  <2>1. PICK rule : rule = RuleAt(zk[c].pc)
    OBVIOUS
  <2>2. /\ zk'[c].pc = AfterStore(zk[c].pc)
        /\ zk'[c].id = i /\ zk'[c].holds = zk[c].holds
        /\ Stored(i, rule)' /\ (rule \in zk[c].holds => Held(i, rule)')
    BY <1>2, <1>9, <2>1, StoreWrites
  <2>3. zk[c].pc \in ZkStoring /\ zk[c].pc \in Claimed
    BY <1>9 DEF ZkStore, Claimed
  <2>4. \A q \in zk'[c].holds : Truth(i, q)'
    BY <1>1, <1>2, <1>3, <2>2, <2>3 DEF RunInv
  <2>5. CASE zk[c].pc = "store_rec10"
    <3>1. rule = "FATF_REC10" /\ zk'[c].pc = "store_rec11"
      BY <2>1, <2>2, <2>5 DEF RuleAt, AfterStore
    <3> QED
      BY <2>2, <2>4, <3>1
         DEF RunInv, DoneRec10, DoneRec11, Stored, Held, Truth, RowExists,
             Recorded, AuditCount
  <2>6. CASE zk[c].pc = "store_rec11"
    <3>1. rule = "FATF_REC11" /\ zk'[c].pc = "store_rec16"
      BY <2>1, <2>2, <2>6 DEF RuleAt, AfterStore
    <3>2. /\ Stored(i, "FATF_REC10")'
          /\ "FATF_REC10" \in zk[c].holds => Held(i, "FATF_REC10")'
      BY <1>1, <1>2, <1>4, <2>6 DEF RunInv, DoneRec10
    <3> QED
      BY <2>2, <2>4, <3>1, <3>2
         DEF RunInv, DoneRec10, DoneRec11, Stored, Held, Truth, RowExists,
             Recorded, AuditCount
  <2>7. CASE zk[c].pc = "store_rec16"
    <3>1. rule = "FATF_REC16" /\ zk'[c].pc = "ok"
      BY <2>1, <2>2, <2>7 DEF RuleAt, AfterStore
    <3>2. /\ Stored(i, "FATF_REC10")' /\ Stored(i, "FATF_REC11")'
          /\ "FATF_REC10" \in zk[c].holds => Held(i, "FATF_REC10")'
          /\ "FATF_REC11" \in zk[c].holds => Held(i, "FATF_REC11")'
      BY <1>1, <1>2, <1>4, <2>7 DEF RunInv, DoneRec10, DoneRec11
    <3> QED
      BY <2>2, <2>4, <3>1, <3>2
         DEF RunInv, DoneRec10, DoneRec11, Stored, Held, Truth, RowExists,
             Recorded, AuditCount
  <2> QED
    BY <2>3, <2>5, <2>6, <2>7 DEF ZkStoring
<1> QED
  BY <1>5, <1>6, <1>7, <1>8, <1>9, RunStep

\* Only the end of run_screening or of generate_proofs takes a workflow past screening.
LEMMA PastStep ==
    ASSUME TypeInv, HandlerInv, [Next]_vars, NEW t \in Ids,
           wf'[t].status \in PastScreening, wf'[t].status # wf[t].status
    PROVE  \E r \in Requests :
             /\ req[r].tx = t
             /\ ScreeningFinish(r) \/ ProofsRefused(r) \/ ProofsFinish(r)
<1> USE DEF TypeInv, TypeOK
<1>1. ASSUME NEW r \in Requests, CreateInsert(r)
      PROVE  FALSE
  BY <1>1 DEF CreateInsert, PastScreening
<1>2. ASSUME NEW u \in Users, NEW i \in Ids, Approve(u, i) \/ Reject(u, i)
      PROVE  FALSE
  <2>1. PICK to \in {"approved", "rejected"} :
          wf' = [wf EXCEPT ![i] = [@ EXCEPT !.status = to, !.reviewedBy = u]]
    BY <1>2 DEF Approve, Reject, Decide
  <2>2. wf[i] \in Wf /\ wf'[t] = [wf[t] EXCEPT !.status = to,
                                             !.reviewedBy = u]
    BY <2>1
  <2> QED
    BY <2>2 DEF Wf, PastScreening
<1>3. ASSUME NEW r \in Requests,
             \/ SubmitForReviewUpdate(r) \/ ScreeningRefused(r)
             \/ ScreeningFinish(r) \/ ProofsRefused(r) \/ ProofsFinish(r)
      PROVE  /\ req[r].tx = t
             /\ ScreeningFinish(r) \/ ProofsRefused(r) \/ ProofsFinish(r)
  <2>1. t = req[r].tx
    BY <1>3 DEF SubmitForReviewUpdate, ScreeningRefused, ScreeningFinish,
                ProofsRefused, ProofsFinish, SetStatus
  <2>2. ScreeningFinish(r) \/ ProofsRefused(r) \/ ProofsFinish(r)
    BY <1>3, <2>1 DEF SubmitForReviewUpdate, ScreeningRefused, SetStatus,
                      PastScreening, Wf
  <2> QED
    BY <2>1, <2>2
<1> QED
  BY <1>1, <1>2, <1>3, WorkflowWriters

LEMMA HandlerRunNext ==
    ASSUME TypeInv, HandlerInv, EvidenceInv, ClaimsInv, [Next]_vars,
           NEW r \in Requests
    PROVE  HandlerRunInv(r)'
<1> SUFFICES ASSUME req'[r].pc = "proofs_reply",
                    wf'[req'[r].tx].payload.id = req'[r].tx
             PROVE  /\ zk'[r].pc = "fetch_audit" => zk'[r].institutions
                    /\ zk'[r].pc \in Claimed => zk'[r].holds = ProofRules
  BY DEF HandlerRunInv, Tidy
<1>1. r \in Calls /\ zk[r] \in ZkSlot /\ zk \in [Calls -> ZkSlot]
  BY CallsFacts DEF TypeInv, TypeOK, ZkTypeOK
<1>2. CASE Begin(r) \/ Abort(r)
  BY <1>2, BeginHandler DEF Abort, Finish, ReqIdle, TypeInv, TypeOK
<1>3. CASE Continue(r)
  <2>1. ZkPost(r, req[r].tx)
    BY <1>3, ContinueHandler DEF ReqIdle
  <2>2. zk'[r].pc = "fetch_tx"
    BY <1>1, <2>1 DEF ZkPost, ZkIdle
  <2> QED
    BY <2>2 DEF Claimed, ZkStoring
<1>4. CASE req'[r] = req[r]
  <2>1. PICK t \in Ids : t = req[r].tx
    BY DEF TypeInv, TypeOK, Req
  <2>2. /\ WfExists(t) /\ zk[r].id = t
        /\ req[r].pc = "proofs_reply" /\ req[r].pc \in Landed
    BY <1>4, <2>1 DEF TypeInv, PayloadsInUse, Starting, HandlerInv, Landed
  <2>3. Tidy(t)
    BY <1>4, <2>1, <2>2, WorkflowKept DEF Tidy
  <2>4. /\ row[t].institutions
        /\ \A e \in SubmissionEvents : audit[t][e] = 1
    BY <2>1, <2>2, <2>3 DEF EvidenceInv, Evidence
  <2>5. HandlerRunInv(r)
    BY DEF ClaimsInv
  <2>6. CASE zk'[r] = zk[r]
    BY <2>1, <2>2, <2>3, <2>5, <2>6 DEF HandlerRunInv
  <2>7. CASE zk'[r].pc \in {"idle", "fetch_tx", "error", "unreachable"}
    BY <2>7 DEF Claimed, ZkStoring
  <2>8. CASE ZkFetchTx(r)
    <3>1. zk'[r].institutions = row[t].institutions
          /\ zk'[r].pc \in {"fetch_audit", "error"}
      BY <1>1, <2>2, <2>8 DEF ZkFetchTx, ZkSlot
    <3> QED
      BY <2>4, <3>1 DEF Claimed, ZkStoring
  <2>9. CASE ZkFetchAudit(r)
    <3>1. /\ zk[r].pc = "fetch_audit" /\ zk'[r].pc = "store_rec10"
          /\ zk'[r].holds = Claims(t, zk[r].institutions)
      BY <1>1, <2>2, <2>9 DEF ZkFetchAudit, ZkSlot
    <3>2. zk[r].institutions
      BY <2>1, <2>2, <2>3, <2>5, <3>1 DEF HandlerRunInv
    <3>3. /\ Recorded(t, "sender_screening_completed")
          /\ Recorded(t, "receiver_screening_completed")
      BY <2>4 DEF Recorded, SubmissionEvents
    <3>4. \A e \in AuditEvents : audit[t][e] \in Nat
      BY DEF TypeInv, TypeOK, TablesTypeOK
    <3>5. AuditCount(t) >= 3
      BY <2>4, <3>4 DEF AuditCount, SubmissionEvents, AuditEvents
    <3>6. Claims(t, zk[r].institutions) = ProofRules
      BY <3>2, <3>3, <3>5 DEF Claims, ProofRules
    <3> QED
      BY <3>1, <3>6
  <2>10. CASE ZkStore(r)
    <3>1. /\ zk'[r].holds = zk[r].holds /\ zk[r].pc \in Claimed
          /\ zk'[r].pc = AfterStore(zk[r].pc)
      BY <1>1, <2>10, StoreWrites DEF ZkStore, Claimed
    <3>2. zk'[r].pc # "fetch_audit"
      BY <2>10, <3>1 DEF ZkStore, ZkStoring, AfterStore
    <3> QED
      BY <2>1, <2>2, <2>3, <2>5, <3>1, <3>2 DEF HandlerRunInv
  <2> QED
    BY <1>1, <2>6, <2>7, <2>8, <2>9, <2>10, RunStep
<1> QED
  BY <1>2, <1>3, <1>4, HandlerSteps, OthersKept

LEMMA ClaimsNext ==
    TypeInv /\ HandlerInv /\ EvidenceInv /\ ClaimsInv /\ [Next]_vars
      => ClaimsInv'
<1> SUFFICES ASSUME TypeInv, HandlerInv, EvidenceInv, ClaimsInv, [Next]_vars
             PROVE  ClaimsInv'
  OBVIOUS
<1>1. \A c \in Calls : RunInv(c)'
  BY RunNext
<1>2. \A r \in Requests : HandlerRunInv(r)'
  BY HandlerRunNext
<1>3. ASSUME NEW i \in Ids, NEW p \in proofs'[i], p.signal
      PROVE  Truth(i, p.rule)'
  <2>1. ASSUME Truth(i, p.rule)
        PROVE  Truth(i, p.rule)'
    BY <2>1, TruthKept
  <2>2. CASE p \in proofs[i]
    BY <1>3, <2>1, <2>2 DEF ClaimsInv
  <2>3. ASSUME NEW c \in Calls, ZkStore(c), i = zk[c].id,
               p.rule \in zk[c].holds
        PROVE  Truth(i, p.rule)
    BY <2>3 DEF ClaimsInv, RunInv, ZkStore, Claimed
  <2> QED
    BY <1>3, <2>1, <2>2, <2>3, ProofWriters, StoreWrites
<1>4. ASSUME NEW t \in Ids, wf'[t].status = "proof_generated",
             NEW rule \in ProofRules
      PROVE  /\ Stored(t, rule)'
             /\ wf'[t].payload.id = t => Held(t, rule)'
  <2>1. CASE wf[t].status = "proof_generated"
    <3>1. wf'[t].payload = wf[t].payload
      BY <2>1, WorkflowKept DEF WfExists
    <3> QED
      BY <2>1, <3>1, StoredKept DEF ClaimsInv, Tidy
  <2>2. CASE wf[t].status # "proof_generated"
    <3>1. PICK r \in Requests :
            /\ req[r].tx = t
            /\ ScreeningFinish(r) \/ ProofsRefused(r) \/ ProofsFinish(r)
      BY <1>4, <2>2, PastStep DEF PastScreening
    <3>2. ProofsFinish(r)
      BY <1>4, <3>1 DEF ScreeningFinish, ProofsRefused, SetStatus, TypeInv,
                        TypeOK, Wf
    <3>3. /\ req[r].pc = "proofs_reply" /\ zk[r].pc = "ok" /\ r \in Calls
          /\ zk[r].id = t
          /\ WfExists(t)
      BY <3>1, <3>2, CallsFacts DEF ProofsFinish, HandlerInv, TypeInv,
                                    PayloadsInUse, Starting
    <3>4. /\ Stored(t, "FATF_REC10") /\ Stored(t, "FATF_REC11")
          /\ Stored(t, "FATF_REC16")
          /\ \A q \in zk[r].holds \intersect ProofRules : Held(t, q)
      BY <3>3 DEF ClaimsInv, RunInv, DoneRec10, DoneRec11, ProofRules
    <3>5. wf'[t].payload = wf[t].payload
      BY <3>3, WorkflowKept
    <3>6. Tidy(t) => zk[r].holds = ProofRules
      BY <3>1, <3>3 DEF ClaimsInv, HandlerRunInv, Claimed
    <3> QED
      BY <3>4, <3>5, <3>6, StoredKept DEF ProofRules, Tidy
  <2> QED
    BY <2>1, <2>2
<1> QED
  BY <1>1, <1>2, <1>3, <1>4 DEF ClaimsInv, Tidy

LEMMA ClaimsInvariant ==
    Spec => [](TypeInv /\ HandlerInv /\ EvidenceInv /\ ClaimsInv)
<1>1. Init => TypeInv /\ HandlerInv /\ EvidenceInv /\ ClaimsInv
  BY TypeInit, HandlerInit, EvidenceInit, ClaimsInit
<1>2. TypeInv /\ HandlerInv /\ EvidenceInv /\ ClaimsInv /\ [Next]_vars
        => (TypeInv /\ HandlerInv /\ EvidenceInv /\ ClaimsInv)'
  BY TypeNext, HandlerNext, EvidenceNext, ClaimsNext
<1> QED
  BY <1>1, <1>2, PTL DEF Spec

\* A stored proof that says its claim holds is true of the tables from then
\* on, although the prover reads the row and the audit events in two
\* statements while others write them.
THEOREM StoredProofsSound == Spec => []ProofsSound
<1>1. ClaimsInv => ProofsSound
  BY DEF ClaimsInv, ProofsSound, Truth
<1> QED
  BY <1>1, ClaimsInvariant, PTL

\* proof_generated means that every rule has a stored proof, through runs
\* that stop between two proofs and runs that race for the same tx_id.
THEOREM GeneratedComplete == Spec => []ProofSetComplete
<1>1. TypeInv /\ ClaimsInv => ProofSetComplete
  <2> SUFFICES ASSUME TypeInv, ClaimsInv,
                      NEW t \in Ids, wf[t].status = "proof_generated"
               PROVE  {p.rule : p \in proofs[t]} = ProofRules
    BY DEF ProofSetComplete
  <2>1. \A rule \in ProofRules : \E p \in proofs[t] : p.rule = rule
    BY DEF ClaimsInv, Stored
  <2>2. \A p \in proofs[t] : p.rule \in ProofRules
    BY DEF TypeInv, TypeOK, ZkTypeOK, Proof
  <2> QED
    BY <2>1, <2>2
<1> QED
  BY <1>1, ClaimsInvariant, PTL

\* ... and, for a tx_id without blanks, one whose claim holds.
THEOREM GeneratedHolds == Spec => []WorkflowProofsHold
<1>1. TypeInv /\ ClaimsInv => WorkflowProofsHold
  <2> SUFFICES ASSUME TypeInv, ClaimsInv, NEW t \in Ids,
                      wf[t].status = "proof_generated", Tidy(t)
               PROVE  {p.rule : p \in {q \in proofs[t] : q.signal}}
                        = ProofRules
    BY DEF WorkflowProofsHold
  <2>1. \A rule \in ProofRules :
          \E p \in proofs[t] : p.rule = rule /\ p.signal
    BY DEF ClaimsInv, Held
  <2>2. \A p \in proofs[t] : p.rule \in ProofRules
    BY DEF TypeInv, TypeOK, ZkTypeOK, Proof
  <2> QED
    BY <2>1, <2>2
<1> QED
  BY <1>1, ClaimsInvariant, PTL
=============================================================================
