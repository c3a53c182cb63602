----------------------------- MODULE TxWorkflow -----------------------------
(***************************************************************************)
(* The transaction workflow: the regulator API's handlers over            *)
(* transaction_workflow_requests, composed with the encryption service    *)
(* and the zk prover they call.                                           *)
(*                                                                         *)
(* Each HTTP request runs in its own task.  Its handler awaits every SQL  *)
(* statement and every call, and other tasks run in between; a client     *)
(* that goes away, a failing statement or a crash ends the handler at any *)
(* await.  One action is one statement together with what the handler     *)
(* decides from it.                                                       *)
(*                                                                         *)
(* req[r] is the handler running in request slot r; it calls the services *)
(* with slot r of enc and zk.                                             *)
(***************************************************************************)
EXTENDS EncryptionService, ZkProver, Roles

CONSTANTS
    Requests,       \* request slots of the regulator API
    Clients,        \* callers that use the two services directly
    Users,          \* authenticated users
    NoUser,
    RoleOf,         \* the role in each user's token
    TrimTx,         \* str::trim on tx_ids
    Endpoints,      \* the endpoints clients use in this instance
    MaxEvaluations, \* bound: evaluations recorded per tx_id
    Faults          \* whether handlers and services may stop half-way

ASSUME WorkflowAssumption ==
    /\ Calls = Requests \union Clients
    /\ Requests \intersect Clients = {}
    /\ NoUser \notin Users
    /\ RoleOf \in [Users -> RoleNames]
    /\ TrimTx \in [Ids -> Ids]
    /\ \A i \in Ids : TrimTx[TrimTx[i]] = TrimTx[i]
    /\ MaxEvaluations \in Nat
    /\ Faults \in BOOLEAN

VARIABLES
    wf,     \* transaction_workflow_requests, by (trimmed) tx_id
    req     \* the running handlers

vars == <<row, audit, enc, zk, proofs, wf, req>>

Wf == [status : WorkflowStatuses \union {"none"},
       submittedBy : Users \union {NoUser},
       reviewedBy : Users \union {NoUser},
       payload : Payloads \union {NoPayload}]

NoWf == [status |-> "none", submittedBy |-> NoUser, reviewedBy |-> NoUser,
         payload |-> NoPayload]

WfExists(t) == wf[t].status # "none"

\* Where a handler stands: the statement or the reply it awaits next.
ReqPcs == {"idle", "create_check_workflow", "create_insert", "submit_update",
           "evaluate_store", "evaluate_audit",
           "screening_call", "screening_reply", "screening_store",
           "screening_audit", "screening_finish",
           "proofs_call", "proofs_reply"}

\* tx, user and payload as the handler received or fetched them; status and
\* rules are the workflow's status and the row's rules at its first read.
Req == [pc : ReqPcs, tx : Ids, user : Users \union {NoUser},
        payload : Payloads \union {NoPayload},
        status : WorkflowStatuses \union {"none"}, rules : SUBSET Rules]

ReqIdle == [pc |-> "idle", tx |-> AnyId, user |-> NoUser,
            payload |-> NoPayload, status |-> "none", rules |-> {}]

TypeOK ==
    /\ TablesTypeOK /\ EncTypeOK /\ ZkTypeOK
    /\ wf \in [Ids -> Wf]
    /\ req \in [Requests -> Req]

Init ==
    /\ TablesInit /\ EncInit /\ ZkInit
    /\ wf = [t \in Ids |-> NoWf]
    /\ req = [r \in Requests |-> ReqIdle]

-----------------------------------------------------------------------------
(* Requests *)

\* A slot takes a new request once its previous calls are over.
Free(r) == req[r].pc = "idle" /\ enc[r].pc = "idle" /\ zk[r].pc = "idle"

May(u, endpoint, permission) ==
    endpoint \in Endpoints /\ Holds(RoleOf[u], permission)

Goto(r, pc) == req' = [req EXCEPT ![r].pc = pc]
Finish(r) == req' = [req EXCEPT ![r] = ReqIdle]

\* fetch_workflow: the workflow row joined with the transactions row.
Fetch(r, u, t, pc) ==
    /\ WfExists(t)
    /\ req' = [req EXCEPT ![r] =
                 [pc |-> pc, tx |-> t, user |-> u,
                  payload |-> wf[t].payload,
                  status |-> wf[t].status, rules |-> row[t].rules]]

SetStatus(t, status) == wf' = [wf EXCEPT ![t].status = status]

-----------------------------------------------------------------------------
(* create_transaction *)

\* validate_transaction_payload asks for both institutions among others.
Valid(p) == p.institutions

\* The first of two existence checks; the handler works on the trimmed tx_id.
CreateCheckRow(r, u, p) ==
    /\ May(u, "create", "transactions:create")
    /\ Free(r)
    /\ Valid(p)
    /\ ~ RowExists(TrimTx[p.id])
    /\ req' = [req EXCEPT ![r] = [ReqIdle EXCEPT
                 !.pc = "create_check_workflow", !.tx = TrimTx[p.id],
                 !.user = u, !.payload = p]]
    /\ UNCHANGED <<row, audit, enc, zk, proofs, wf>>

CreateCheckWorkflow(r) ==
    /\ req[r].pc = "create_check_workflow"
    /\ IF WfExists(req[r].tx) THEN Finish(r) ELSE Goto(r, "create_insert")
    /\ UNCHANGED <<row, audit, enc, zk, proofs, wf>>

CreateInsert(r) ==
    LET t == req[r].tx IN
    /\ req[r].pc = "create_insert"
    /\ ~ WfExists(t)
    /\ wf' = [wf EXCEPT ![t] =
                [status |-> "submitted", submittedBy |-> req[r].user,
                 reviewedBy |-> NoUser, payload |-> req[r].payload]]
    /\ Finish(r)
    /\ UNCHANGED <<row, audit, enc, zk, proofs>>

\* Another creation came first: UNIQUE(tx_id) refuses the insert.
CreateConflict(r) ==
    /\ req[r].pc = "create_insert"
    /\ WfExists(req[r].tx)
    /\ Finish(r)
    /\ UNCHANGED <<row, audit, enc, zk, proofs, wf>>

-----------------------------------------------------------------------------
(* submit_for_review, approve_transaction, reject_transaction *)

\* Only the owner or an institution admin may resubmit.
SubmitForReviewFetch(r, u, t) ==
    /\ May(u, "submit", "transactions:create")
    /\ Free(r)
    /\ wf[t].submittedBy = u \/ RoleOf[u] = "institution_admin"
    /\ Fetch(r, u, t, "submit_update")
    /\ UNCHANGED <<row, audit, enc, zk, proofs, wf>>

\* update_status does not look at the status it replaces, and keeps the
\* reviewer.
SubmitForReviewUpdate(r) ==
    /\ req[r].pc = "submit_update"
    /\ SetStatus(req[r].tx, "submitted")
    /\ Finish(r)
    /\ UNCHANGED <<row, audit, enc, zk, proofs>>

\* A decision is one conditional UPDATE.
Decide(u, t, from, to) ==
    /\ wf[t].status \in from
    /\ wf' = [wf EXCEPT ![t] = [@ EXCEPT !.status = to, !.reviewedBy = u]]
    /\ UNCHANGED <<row, audit, enc, zk, proofs, req>>

Approve(u, t) ==
    /\ May(u, "approve", "transactions:approve")
    /\ Decide(u, t, {"submitted", "under_review", "rejected"}, "approved")

Reject(u, t) ==
    /\ May(u, "reject", "transactions:review")
    /\ Decide(u, t, {"submitted", "under_review", "approved"}, "rejected")

-----------------------------------------------------------------------------
(* evaluate_risk *)

\* Any status is accepted.
EvaluateFetch(r, u, t) ==
    /\ May(u, "evaluate", "transactions:flag_suspicious")
    /\ Free(r)
    /\ audit[t]["bank_side_risk_evaluation"] < MaxEvaluations
    /\ Fetch(r, u, t, "evaluate_store")
    /\ UNCHANGED <<row, audit, enc, zk, proofs, wf>>

\* Upsert: an existing row keeps its status and loses the rules it had; a new
\* one gets the workflow status the handler fetched.
EvaluateStore(r) ==
    LET t == req[r].tx
        p == req[r].payload
    IN  /\ req[r].pc = "evaluate_store"
        /\ row' = [row EXCEPT ![t] =
                     [status |-> IF RowExists(t) THEN row[t].status
                                                 ELSE req[r].status,
                      institutions |-> p.institutions,
                      rules |-> EvaluationHits(p), evaluated |-> TRUE]]
        /\ Goto(r, "evaluate_audit")
        /\ UNCHANGED <<audit, enc, zk, proofs, wf>>

EvaluateAudit(r) ==
    /\ req[r].pc = "evaluate_audit"
    /\ audit' = AuditWith(req[r].tx, {"bank_side_risk_evaluation"})
    /\ Finish(r)
    /\ UNCHANGED <<row, enc, zk, proofs, wf>>

-----------------------------------------------------------------------------
(* run_screening *)

\* Mutation of ScreeningFetch: no status check.
ScreeningFetchAnyStatus(r, u, t) ==
    /\ May(u, "screen", "transactions:screen")
    /\ Free(r)
    /\ Fetch(r, u, t, "screening_call")
    /\ UNCHANGED <<row, audit, enc, zk, proofs, wf>>

ScreeningFetch(r, u, t) ==
    /\ May(u, "screen", "transactions:screen")
    /\ Free(r)
    /\ wf[t].status \in {"approved", "screening_failed"}
    /\ Fetch(r, u, t, "screening_call")
    /\ UNCHANGED <<row, audit, enc, zk, proofs, wf>>

\* screening_started_at is stamped, and the payload, untrimmed tx_id and all,
\* goes to the encryption service.
ScreeningCall(r) ==
    /\ req[r].pc = "screening_call"
    /\ EncPost(r, req[r].payload)
    /\ Goto(r, "screening_reply")
    /\ UNCHANGED <<row, audit, zk, proofs, wf>>

ScreeningUnreachable(r) ==
    /\ req[r].pc = "screening_reply"
    /\ enc[r].pc = "unreachable"
    /\ EncTake(r)
    /\ Finish(r)
    /\ UNCHANGED <<row, audit, zk, proofs, wf>>

\* Mutation of ScreeningRefused: the answer 409 has no handling.
ScreeningRefusedOnlyFailed(r) ==
    /\ req[r].pc = "screening_reply"
    /\ enc[r].pc = "failed"
    /\ SetStatus(req[r].tx, "screening_failed")
    /\ EncTake(r)
    /\ Finish(r)
    /\ UNCHANGED <<row, audit, zk, proofs>>

\* Any answer but 2xx, a 409 for an existing tx_id among them, marks the
\* workflow, whatever became of it meanwhile.
ScreeningRefused(r) ==
    /\ req[r].pc = "screening_reply"
    /\ enc[r].pc \in {"conflict", "failed"}
    /\ SetStatus(req[r].tx, "screening_failed")
    /\ EncTake(r)
    /\ Finish(r)
    /\ UNCHANGED <<row, audit, zk, proofs>>

\* Mutation of ScreeningAccepted: an existing tx_id counts as screened.
ScreeningAcceptedOnConflict(r) ==
    /\ req[r].pc = "screening_reply"
    /\ enc[r].pc \in {"created", "conflict"}
    /\ EncTake(r)
    /\ Goto(r, "screening_store")
    /\ UNCHANGED <<row, audit, zk, proofs, wf>>

ScreeningAccepted(r) ==
    /\ req[r].pc = "screening_reply"
    /\ enc[r].pc = "created"
    /\ EncTake(r)
    /\ Goto(r, "screening_store")
    /\ UNCHANGED <<row, audit, zk, proofs, wf>>

\* Upsert of the risk: the rules of the first read and the screening's, never
\* those stored in between.
ScreeningStore(r) ==
    /\ req[r].pc = "screening_store"
    /\ row' = [row EXCEPT ![req[r].tx] =
                 [status |-> "screened",
                  institutions |-> req[r].payload.institutions,
                  rules |-> req[r].rules
                              \union ScreeningHits(req[r].payload),
                  evaluated |-> TRUE]]
    /\ Goto(r, "screening_audit")
    /\ UNCHANGED <<audit, enc, zk, proofs, wf>>

ScreeningAudit(r) ==
    /\ req[r].pc = "screening_audit"
    /\ audit' = AuditWith(req[r].tx, {"smpc_screening_risk_linked"})
    /\ Goto(r, "screening_finish")
    /\ UNCHANGED <<row, enc, zk, proofs, wf>>

\* Mutation of ScreeningFinish: the final UPDATE is WHERE status = 'approved'
\* and forgets the status that a second screening's 409 leaves.
ScreeningFinishIfApproved(r) ==
    /\ req[r].pc = "screening_finish"
    /\ wf' = IF wf[req[r].tx].status = "approved"
              THEN [wf EXCEPT ![req[r].tx].status = "screened"] ELSE wf
    /\ Finish(r)
    /\ UNCHANGED <<row, audit, enc, zk, proofs>>

ScreeningFinish(r) ==
    /\ req[r].pc = "screening_finish"
    /\ SetStatus(req[r].tx, "screened")
    /\ Finish(r)
    /\ UNCHANGED <<row, audit, enc, zk, proofs>>

-----------------------------------------------------------------------------
(* generate_proofs *)

\* Mutation of ProofsFetch: any workflow may be proved.
ProofsFetchAnyStatus(r, u, t) ==
    /\ May(u, "prove", "proofs:generate")
    /\ Free(r)
    /\ Fetch(r, u, t, "proofs_call")
    /\ UNCHANGED <<row, audit, enc, zk, proofs, wf>>

ProofsFetch(r, u, t) ==
    /\ May(u, "prove", "proofs:generate")
    /\ Free(r)
    /\ wf[t].status \in {"screened", "proof_failed", "proof_generated"}
    /\ Fetch(r, u, t, "proofs_call")
    /\ UNCHANGED <<row, audit, enc, zk, proofs, wf>>

ProofsCall(r) ==
    /\ req[r].pc = "proofs_call"
    /\ ZkPost(r, req[r].tx)
    /\ Goto(r, "proofs_reply")
    /\ UNCHANGED <<row, audit, enc, proofs, wf>>

ProofsUnreachable(r) ==
    /\ req[r].pc = "proofs_reply"
    /\ zk[r].pc = "unreachable"
    /\ ZkTake(r)
    /\ Finish(r)
    /\ UNCHANGED <<row, audit, enc, proofs, wf>>

\* Mutation of ProofsRefused: a status the table's CHECK does not list.
ProofsRefusedBadStatus(r) ==
    /\ req[r].pc = "proofs_reply"
    /\ zk[r].pc = "error"
    /\ SetStatus(req[r].tx, "proofs_failed")
    /\ ZkTake(r)
    /\ Finish(r)
    /\ UNCHANGED <<row, audit, enc, proofs>>

ProofsRefused(r) ==
    /\ req[r].pc = "proofs_reply"
    /\ zk[r].pc = "error"
    /\ SetStatus(req[r].tx, "proof_failed")
    /\ ZkTake(r)
    /\ Finish(r)
    /\ UNCHANGED <<row, audit, enc, proofs>>

ProofsFinish(r) ==
    /\ req[r].pc = "proofs_reply"
    /\ zk[r].pc = "ok"
    /\ SetStatus(req[r].tx, "proof_generated")
    /\ ZkTake(r)
    /\ Finish(r)
    /\ UNCHANGED <<row, audit, enc, proofs>>

-----------------------------------------------------------------------------
(* What ends handlers and calls, and who else calls the services *)

\* The client disconnects or times out, a statement fails, the API restarts.
Abort(r) ==
    /\ Faults
    /\ req[r].pc # "idle"
    /\ Finish(r)
    /\ UNCHANGED <<row, audit, enc, zk, proofs, wf>>

\* The answer to a call whose handler is gone, or to a direct caller.
Unawaited(c) == c \in Requests => req[c].pc = "idle"

DropEncReply(c) ==
    /\ Unawaited(c)
    /\ EncTake(c)
    /\ UNCHANGED <<row, audit, zk, proofs, wf, req>>

DropZkReply(c) ==
    /\ Unawaited(c)
    /\ ZkTake(c)
    /\ UNCHANGED <<row, audit, enc, proofs, wf, req>>

\* The compliance demo page posts straight to the encryption service ...
DirectSubmit(c, p) ==
    /\ "direct_submit" \in Endpoints
    /\ EncPost(c, p)
    /\ UNCHANGED <<row, audit, zk, proofs, wf, req>>

\* ... and to the prover.
DirectGenerate(c, i) ==
    /\ "direct_generate" \in Endpoints
    /\ ZkPost(c, i)
    /\ UNCHANGED <<row, audit, enc, proofs, wf, req>>

EncryptionStep(c) ==
    /\ EncProgress(c) \/ (Faults /\ EncFault(c))
    /\ UNCHANGED <<zk, proofs, wf, req>>

ProverStep(c) ==
    /\ ZkProgress(c) \/ (Faults /\ ZkFault(c))
    /\ UNCHANGED <<enc, wf, req>>

-----------------------------------------------------------------------------

Begin(r) ==
    \E u \in Users :
      \/ \E p \in Payloads : CreateCheckRow(r, u, p)
      \/ \E t \in Ids : \/ SubmitForReviewFetch(r, u, t)
                        \/ EvaluateFetch(r, u, t)
                        \/ ScreeningFetch(r, u, t)
                        \/ ProofsFetch(r, u, t)

Continue(r) ==
    \/ CreateCheckWorkflow(r) \/ CreateInsert(r) \/ CreateConflict(r)
    \/ SubmitForReviewUpdate(r)
    \/ EvaluateStore(r) \/ EvaluateAudit(r)
    \/ ScreeningCall(r) \/ ScreeningUnreachable(r) \/ ScreeningRefused(r)
    \/ ScreeningAccepted(r) \/ ScreeningStore(r) \/ ScreeningAudit(r)
    \/ ScreeningFinish(r)
    \/ ProofsCall(r) \/ ProofsUnreachable(r) \/ ProofsRefused(r)
    \/ ProofsFinish(r)

Next ==
    \/ \E r \in Requests : Begin(r) \/ Continue(r) \/ Abort(r)
    \/ \E u \in Users, t \in Ids : Approve(u, t) \/ Reject(u, t)
    \/ \E c \in Calls : \/ EncryptionStep(c) \/ ProverStep(c)
                        \/ DropEncReply(c) \/ DropZkReply(c)
    \/ \E c \in Clients : \/ \E p \in Payloads : DirectSubmit(c, p)
                          \/ \E i \in Ids : DirectGenerate(c, i)

Spec == Init /\ [][Next]_vars

\* tokio keeps running a task that can run and Postgres answers: a handler
\* and a service with a next statement eventually execute it, and a reply is
\* eventually read.  Clients need not send anything, nothing has to fail.
FairSpec ==
    /\ Spec
    /\ \A r \in Requests : WF_vars(Continue(r))
    /\ \A c \in Calls :
         /\ WF_vars(EncProgress(c) /\ UNCHANGED <<zk, proofs, wf, req>>)
         /\ WF_vars(ZkProgress(c) /\ UNCHANGED <<enc, wf, req>>)

-----------------------------------------------------------------------------
(* Properties *)

PastScreening == {"screened", "proof_failed", "proof_generated"}

\* The tx_id the client sent had no surrounding blanks.
Tidy(t) == wf[t].payload.id = t

\* A workflow is past screening only with the evidence of a screening: its
\* transaction and each of the three submission events are recorded, exactly
\* once.  run_screening sets the status several awaits after the encryption
\* service committed, and any number of resubmissions, evaluations, retries
\* and aborted runs may have come between.
ScreenedHasEvidence ==
    \A t \in Ids :
      wf[t].status \in PastScreening /\ Tidy(t)
        => /\ RowExists(t) /\ row[t].institutions
           /\ \A e \in SubmissionEvents : audit[t][e] = 1

\* A submission is recorded at most once per tx_id and linked into the bank's
\* risk at most once, however often screening is retried; and a workflow is
\* past screening only when that link was made.
ScreeningLinkedOnce ==
    \A t \in Ids :
      WfExists(t) =>
        LET linked == audit[t]["smpc_screening_risk_linked"]
            stored == audit[wf[t].payload.id]["sender_screening_completed"]
        IN  /\ linked <= stored /\ stored <= 1
            /\ wf[t].status \in PastScreening => linked = 1

\* Nothing is sent to screening without a reviewer's decision on record:
\* the reviewer survives resubmission (update_status keeps it).
ReviewedBeforeScreening ==
    \A t \in Ids :
      wf[t].status \in PastScreening \union {"screening_failed"}
        => wf[t].reviewedBy # NoUser

\* proof_generated means a proof of every rule is stored, although the
\* prover stores them one by one and runs may stop in between.
ProofSetComplete ==
    \A t \in Ids :
      wf[t].status = "proof_generated"
        => {p.rule : p \in proofs[t]} = ProofRules

\* ... and of every rule one whose claim holds: generate_proofs checked the
\* status before its call, and the evidence behind the claims cannot go away.
WorkflowProofsHold ==
    \A t \in Ids :
      wf[t].status = "proof_generated" /\ Tidy(t)
        => {p.rule : p \in {q \in proofs[t] : q.signal}} = ProofRules

\* A stored proof that says its claim holds stays true of the tables, though
\* they were read in two statements some time before.
ProofsSound ==
    \A i \in Ids : \A p \in proofs[i] :
      p.signal =>
        /\ RowExists(i)
        /\ p.rule = "FATF_REC10" => /\ Recorded(i, "sender_screening_completed")
                                    /\ Recorded(i, "receiver_screening_completed")
        /\ p.rule = "FATF_REC11" => AuditCount(i) >= 3
        /\ p.rule = "FATF_REC16" => row[i].institutions

\* run_screening of r has the service's 2xx, or the service has it ready.
ScreeningLanding(r, t) ==
    /\ req[r].tx = t
    /\ \/ req[r].pc \in {"screening_store", "screening_audit",
                         "screening_finish"}
       \/ req[r].pc = "screening_reply" /\ enc[r].pc = "created"

\* The transactions row exists although no screening of the workflow
\* succeeded or is about to: evaluate_risk wrote it, someone submitted the
\* tx_id directly, or the screening that wrote it was aborted.
Stranded(t) ==
    /\ WfExists(t)
    /\ wf[t].status \notin PastScreening
    /\ RowExists(wf[t].payload.id)
    /\ \A r \in Requests :
         /\ ~ ScreeningLanding(r, t)
         /\ ~ (req[r].tx = t /\ req[r].pc \in {"proofs_call", "proofs_reply"})

\* A stranded workflow stays so: every later screening is answered 409 or
\* 500, so no retry reaches screened.
StrandedForever == [][\A t \in Ids : Stranded(t) => Stranded(t)']_vars

\* No handler waits for ever: every request that began is answered, through
\* two services and a table other requests keep changing.
EveryRequestEnds ==
    \A r \in Requests : (req[r].pc # "idle") ~> (req[r].pc = "idle")

\* A screening that the encryption service accepted is not lost while its
\* handler is there: the workflow does not stay as it was before a screening.
\* It becomes screened, though a second screening, refused for the first one's
\* row, may have marked it screening_failed meanwhile; unless a decision or a
\* resubmission has the last word.
AcceptedScreeningLands ==
    \A r \in Requests, t \in Ids :
      ScreeningLanding(r, t) /\ wf[t].status \in {"approved", "screening_failed"}
        ~> wf[t].status \notin {"approved", "screening_failed"}

-----------------------------------------------------------------------------
(* What the documentation and the messages of the code say, and the code     *)
(* does not do.                                                              *)

\* "Only approved transactions can proceed to screening.": the status becomes
\* screened only where it was approved, or failed a screening, until then.
\* (A decision or a resubmission made during the call is overwritten.)
ScreenedFromApproved ==
    [][\A t \in Ids :
         wf'[t].status = "screened" /\ wf[t].status # "screened"
           => wf[t].status \in {"approved", "screening_failed"}]_vars

\* The documented flow evaluates the risk, approves and then screens: a
\* screening is refused for an existing tx_id only if that tx_id was
\* submitted for screening before.  (The evaluation's row is enough.)
EvaluatedCanBeScreened ==
    \A r \in Requests :
      req[r].pc = "screening_reply" /\ enc[r].pc = "conflict"
        => Recorded(req[r].payload.id, "sender_screening_completed")

=============================================================================
