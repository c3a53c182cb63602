--------------------------- MODULE TxTrail_proofs ---------------------------
(***************************************************************************)
(* The transaction workflow implements ScreeningTrail, for every value of  *)
(* the constants; on the way, a screening is linked at most once           *)
(* (ScreeningLinkedOnce).                                                  *)
(***************************************************************************)
EXTENDS TxWorkflow_proofs, TxRefinement

Submitted(i) == audit[i]["sender_screening_completed"]
Linked(t)    == audit[t]["smpc_screening_risk_linked"]

(* Counting the two events *)

LEMMA CountTypes ==
    ASSUME TypeInv, NEW i \in Ids
    PROVE  Submitted(i) \in Nat /\ Linked(i) \in Nat
BY DEF TypeInv, TypeOK, TablesTypeOK, Submitted, Linked, AuditEvents

\* A submission is counted when the encryption service commits it, which it
\* does only where there was none.
LEMMA SubmittedStep ==
    ASSUME TypeInv, HandlerInv, EvidenceInv, [Next]_vars, NEW i \in Ids
    PROVE  \/ Submitted(i)' = Submitted(i)
           \/ /\ \E c \in Calls : EncCommit(c) /\ i = enc[c].payload.id
              /\ ~ RowExists(i) /\ Submitted(i) = 0 /\ Submitted(i)' = 1
<1>1. "sender_screening_completed" \in SubmissionEvents
  BY DEF SubmissionEvents
<1>2. ASSUME NEW c \in Calls, EncCommit(c)
      PROVE  \/ Submitted(i)' = Submitted(i)
             \/ /\ i = enc[c].payload.id
                /\ ~ RowExists(i) /\ Submitted(i) = 0 /\ Submitted(i)' = 1
  <2>1. CASE i = enc[c].payload.id
    <3>1. ~ RowExists(i) /\ Submitted(i) = 0
      BY <1>1, <1>2, <2>1, CommitWrites DEF EvidenceInv, Submitted
    <3>2. Submitted(i)' = Submitted(i) + 1
      BY <1>1, <1>2, <2>1, CommitWrites DEF Submitted
    <3> QED
      BY <2>1, <3>1, <3>2
  <2>2. CASE i # enc[c].payload.id
    BY <1>2, <2>2, CommitWrites DEF Submitted
  <2> QED
    BY <2>1, <2>2
<1>3. ASSUME NEW r \in Requests,
             \/ EvaluateStore(r) \/ EvaluateAudit(r)
             \/ ScreeningStore(r) \/ ScreeningAudit(r)
      PROVE  Submitted(i)' = Submitted(i)
  BY <1>1, <1>3, HandlerWrites DEF Submitted
<1> QED
  BY <1>2, <1>3, TableWriters DEF Submitted

\* A link is counted by run_screening's audit statement.
LEMMA LinkedStep ==
    ASSUME TypeInv, [Next]_vars, NEW t \in Ids
    PROVE  \/ Linked(t)' = Linked(t)
           \/ /\ \E r \in Requests : ScreeningAudit(r) /\ req[r].tx = t
              /\ Linked(t)' = Linked(t) + 1
<1> USE DEF TypeInv, TypeOK, TablesTypeOK, Linked
<1>1. ASSUME NEW c \in Calls, EncCommit(c)
      PROVE  Linked(t)' = Linked(t)
  BY <1>1 DEF EncCommit, AuditWith, SubmissionEvents, AuditEvents
<1>2. ASSUME NEW r \in Requests, EvaluateStore(r) \/ ScreeningStore(r)
      PROVE  Linked(t)' = Linked(t)
  BY <1>2 DEF EvaluateStore, ScreeningStore
<1>3. ASSUME NEW r \in Requests, EvaluateAudit(r)
      PROVE  Linked(t)' = Linked(t)
  BY <1>3 DEF EvaluateAudit, AuditWith, AuditEvents
<1>4. ASSUME NEW r \in Requests, ScreeningAudit(r)
      PROVE  \/ Linked(t)' = Linked(t)
             \/ req[r].tx = t /\ Linked(t)' = Linked(t) + 1
  BY <1>4 DEF ScreeningAudit, AuditWith, AuditEvents
<1> QED
  BY <1>1, <1>2, <1>3, <1>4, TableWriters

(* Handlers before and after the link *)

\* run_screening of r was accepted, or will be, and has not linked yet.
Landing(r) ==
    \/ req[r].pc = "screening_reply" /\ enc[r].pc = "created"
    \/ req[r].pc \in {"screening_store", "screening_audit"}

\* The link was made before the handler got here.
AfterLink == {"screening_finish", "proofs_call", "proofs_reply"}

\* Where a request may begin.
LEMMA BeginPcs ==
    ASSUME TypeInv, NEW r \in Requests, Begin(r)
    PROVE  \/ req'[r].pc \in {"create_check_workflow", "submit_update",
                              "evaluate_store", "screening_call"}
           \/ \E u \in Users, t \in Ids :
                ProofsFetch(r, u, t) /\ req'[r].tx = t
<1> USE DEF TypeInv, TypeOK
<1>1. ASSUME NEW u \in Users, NEW p \in Payloads, CreateCheckRow(r, u, p)
      PROVE  req'[r].pc = "create_check_workflow"
  BY <1>1 DEF CreateCheckRow, ReqIdle
<1>2. ASSUME NEW u \in Users, NEW t \in Ids,
             \/ SubmitForReviewFetch(r, u, t) \/ EvaluateFetch(r, u, t)
             \/ ScreeningFetch(r, u, t)
      PROVE  req'[r].pc \in {"submit_update", "evaluate_store",
                             "screening_call"}
  BY <1>2 DEF SubmitForReviewFetch, EvaluateFetch, ScreeningFetch, Fetch
<1>3. ASSUME NEW u \in Users, NEW t \in Ids, ProofsFetch(r, u, t)
      PROVE  req'[r].tx = t
  BY <1>3 DEF ProofsFetch, Fetch
<1> QED
  BY <1>1, <1>2, <1>3 DEF Begin

\* Only a commit of the encryption service brings a handler to its landing.
LEMMA LandingStep ==
    ASSUME TypeInv, HandlerInv, [Next]_vars, NEW r \in Requests, Landing(r)'
    PROVE  /\ req'[r].tx = req[r].tx /\ req'[r].payload = req[r].payload
           /\ \/ Landing(r)
              \/ EncCommit(r) /\ req[r].pc = "screening_reply"
<1>1. CASE req'[r].pc = "screening_reply"
  BY <1>1, CreatedByCommit DEF Landing
<1>2. CASE req'[r].pc \in {"screening_store", "screening_audit"}
  <2>1. CASE req'[r] = req[r]
    BY <1>2, <2>1 DEF Landing
  <2>2. CASE Begin(r)
    BY <1>2, <2>2, BeginPcs DEF ProofsFetch, Fetch, TypeInv, TypeOK
  <2>3. CASE Abort(r)
    BY <1>2, <2>3 DEF Abort, Finish, ReqIdle, TypeInv, TypeOK
  <2>4. CASE Continue(r)
    <3>1. req'[r] # ReqIdle
      BY <1>2 DEF ReqIdle
    <3>2. req'[r].tx = req[r].tx /\ req'[r].payload = req[r].payload
      BY <2>4, <3>1, ContinueHandler
    <3>3. \/ ScreeningAccepted(r) \/ ScreeningStore(r)
      BY <1>2, <2>4
         DEF Continue, Goto, Finish, ReqIdle, Req, TypeInv, TypeOK,
             CreateCheckWorkflow, CreateInsert, CreateConflict,
             SubmitForReviewUpdate, EvaluateStore, EvaluateAudit,
             ScreeningCall, ScreeningUnreachable, ScreeningRefused,
             ScreeningAudit, ScreeningFinish, ProofsCall, ProofsUnreachable,
             ProofsRefused, ProofsFinish
    <3> QED
      BY <3>2, <3>3 DEF ScreeningAccepted, ScreeningStore, Landing
  <2> QED
    BY <2>1, <2>2, <2>3, <2>4, HandlerSteps, OthersKept
<1> QED
  BY <1>1, <1>2 DEF Landing

LEMMA AfterLinkStep ==
    ASSUME TypeInv, HandlerInv, [Next]_vars, NEW r \in Requests,
           req'[r].pc \in AfterLink
    PROVE  \/ req'[r].tx = req[r].tx /\ req[r].pc \in AfterLink
           \/ req'[r].tx = req[r].tx /\ ScreeningAudit(r)
           \/ \E u \in Users, t \in Ids :
                ProofsFetch(r, u, t) /\ req'[r].tx = t
<1>1. CASE req'[r] = req[r]
  BY <1>1
<1>2. CASE Begin(r)
  BY <1>2, BeginPcs DEF AfterLink
<1>3. CASE Abort(r)
  BY <1>3 DEF Abort, Finish, ReqIdle, AfterLink, TypeInv, TypeOK
<1>4. CASE Continue(r)
  <2>1. req'[r] # ReqIdle
    BY DEF ReqIdle, AfterLink
  <2>2. req'[r].tx = req[r].tx
    BY <1>4, <2>1, ContinueHandler
  <2>3. ScreeningAudit(r) \/ ProofsCall(r)
    BY <1>4
       DEF Continue, Goto, Finish, ReqIdle, Req, TypeInv, TypeOK, AfterLink,
           CreateCheckWorkflow, CreateInsert, CreateConflict,
           SubmitForReviewUpdate, EvaluateStore, EvaluateAudit,
           ScreeningCall, ScreeningUnreachable, ScreeningRefused,
           ScreeningAccepted, ScreeningStore, ScreeningFinish,
           ProofsUnreachable, ProofsRefused, ProofsFinish
  <2> QED
    BY <2>2, <2>3 DEF ProofsCall, AfterLink
<1> QED
  BY <1>1, <1>2, <1>3, <1>4, HandlerSteps, OthersKept

(* One link per submission *)

LinkInv ==
    /\ \A i \in Ids : Submitted(i) <= 1
    /\ \A r \in Requests :
         Landing(r) => /\ RowExists(req[r].payload.id)
                       /\ Submitted(req[r].payload.id) = 1
                       /\ Linked(req[r].tx) = 0
    /\ \A r, s \in Requests :
         Landing(r) /\ Landing(s) /\ req[r].tx = req[s].tx => r = s
    /\ \A t \in Ids :
         Linked(t) > 0 => /\ Linked(t) = 1 /\ WfExists(t)
                          /\ RowExists(wf[t].payload.id)
                          /\ Submitted(wf[t].payload.id) = 1
    /\ \A r \in Requests : req[r].pc \in AfterLink => Linked(req[r].tx) = 1
    /\ \A t \in Ids : wf[t].status \in PastScreening => Linked(t) = 1

LEMMA LinkInit == Init => LinkInv
BY CallsFacts
   DEF Init, LinkInv, Submitted, Linked, Landing, AfterLink, TablesInit,
       NoAudit, NoRow, AuditEvents, EncInit, ReqIdle, NoWf, PastScreening

\* A submission once recorded stays recorded, once.
LEMMA SubmittedKept ==
    ASSUME TypeInv, HandlerInv, EvidenceInv, [Next]_vars, NEW i \in Ids,
           RowExists(i)
    PROVE  Submitted(i)' = Submitted(i)
BY SubmittedStep

\* Where a handler that is landing stands: on an existing workflow, with the
\* payload of that workflow.
LEMMA LandingHandler ==
    ASSUME TypeInv, HandlerInv, NEW r \in Requests,
           Landing(r) \/ req[r].pc = "screening_reply"
    PROVE  /\ req[r].tx \in Ids /\ WfExists(req[r].tx)
           /\ req[r].payload \in Payloads /\ req[r].payload.id \in Ids
           /\ req[r].payload = wf[req[r].tx].payload
<1>1. req[r].pc \notin Starting /\ req[r].pc # "idle"
  BY DEF Landing, Starting
<1> QED
  BY <1>1, PayloadFacts DEF HandlerInv, TypeInv, TypeOK, PayloadsInUse, Req

\* A commit for a handler's submission comes before any link of its workflow
\* and before any other handler of that workflow lands.
LEMMA LandingIsFirst ==
    ASSUME TypeInv, HandlerInv, LinkInv, NEW r \in Requests,
           EncCommit(r), req[r].pc = "screening_reply"
    PROVE  /\ enc[r].payload = req[r].payload
           /\ Linked(req[r].tx) = 0
           /\ \A s \in Requests : Landing(s) => req[s].tx # req[r].tx
<1>1. /\ req[r].tx \in Ids /\ req[r].payload = wf[req[r].tx].payload
      /\ req[r].payload.id \in Ids
  BY LandingHandler
<1>2. enc[r].payload = req[r].payload
  BY DEF HandlerInv
<1>3. ~ RowExists(req[r].payload.id)
  BY <1>2, CommitWrites, CallsFacts
<1>4. ~ (Linked(req[r].tx) > 0)
  BY <1>1, <1>3 DEF LinkInv
<1>5. ASSUME NEW s \in Requests, Landing(s), req[s].tx = req[r].tx
      PROVE  FALSE
  BY <1>1, <1>3, <1>5, LandingHandler DEF LinkInv
<1> QED
  BY <1>1, <1>2, <1>4, <1>5, CountTypes

\* The handler that makes the link was landing, so there was none.
LEMMA LinkIsFirst ==
    ASSUME TypeInv, HandlerInv, LinkInv, NEW r \in Requests, ScreeningAudit(r)
    PROVE  /\ Landing(r) /\ Linked(req[r].tx) = 0
           /\ req'[r].pc = "screening_finish"
<1>1. Landing(r)
  BY DEF ScreeningAudit, Landing
<1> QED
  BY <1>1 DEF LinkInv, ScreeningAudit, Goto, TypeInv, TypeOK, Req

\* A link once made is not made again.
LEMMA LinkedKept ==
    ASSUME TypeInv, HandlerInv, LinkInv, [Next]_vars, NEW t \in Ids,
           Linked(t) = 1
    PROVE  Linked(t)' = 1
BY LinkedStep, LinkIsFirst

LEMMA LandingNext ==
    ASSUME TypeInv, HandlerInv, EvidenceInv, LinkInv, [Next]_vars,
           NEW r \in Requests, Landing(r)'
    PROVE  /\ RowExists(req[r].payload.id)'
           /\ Submitted(req[r].payload.id)' = 1
           /\ Linked(req[r].tx)' = 0
<1>1. /\ req'[r].tx = req[r].tx /\ req'[r].payload = req[r].payload
      /\ Landing(r) \/ (EncCommit(r) /\ req[r].pc = "screening_reply")
  BY LandingStep
<1>2. PICK t \in Ids : t = req[r].tx
  BY <1>1, LandingHandler
<1>3. PICK i \in Ids : i = req[r].payload.id
  BY <1>1, LandingHandler
<1>4. Linked(t) = 0
  BY <1>1, <1>2, LandingIsFirst DEF LinkInv
<1>5. RowExists(i)' /\ Submitted(i)' = 1
  <2>1. CASE Landing(r)
    BY <1>3, <2>1, RowsKept, SubmittedKept DEF LinkInv
  <2>2. CASE EncCommit(r) /\ req[r].pc = "screening_reply"
    <3>1. enc[r].payload.id = i
      BY <1>3, <2>2, LandingIsFirst
    <3>2. ~ RowExists(i) /\ RowExists(i)'
      BY <2>2, <3>1, CommitWrites, CallsFacts DEF RowExists
    <3>3. Submitted(i) = 0 /\ "sender_screening_completed" \in SubmissionEvents
      BY <3>2 DEF EvidenceInv, Submitted, SubmissionEvents
    <3>4. Submitted(i)' = Submitted(i) + 1
      BY <2>2, <3>1, <3>3, CommitWrites, CallsFacts DEF Submitted
    <3> QED
      BY <3>2, <3>3, <3>4
  <2> QED
    BY <1>1, <2>1, <2>2
<1>6. Linked(t)' = 0
  <2>1. ASSUME NEW s \in Requests, ScreeningAudit(s), req[s].tx = t
        PROVE  FALSE
    <3>1. Landing(s) /\ req'[s].pc = "screening_finish"
      BY <2>1, LinkIsFirst
    <3>2. s # r
      BY <3>1 DEF Landing
    <3>3. Landing(r)
      BY <1>1, <1>2, <2>1, <3>1, LandingIsFirst
    <3> QED
      BY <1>2, <2>1, <3>1, <3>2, <3>3 DEF LinkInv
  <2> QED
    BY <1>4, <2>1, LinkedStep
<1> QED
  BY <1>1, <1>2, <1>3, <1>5, <1>6 DEF RowExists, Submitted, Linked

LEMMA LandingAlone ==
    ASSUME TypeInv, HandlerInv, LinkInv, [Next]_vars,
           NEW r \in Requests, NEW s \in Requests,
           Landing(r)', Landing(s)', req'[r].tx = req'[s].tx
    PROVE  r = s
<1>1. /\ req'[r].tx = req[r].tx /\ req'[s].tx = req[s].tx
      /\ Landing(r) \/ (EncCommit(r) /\ req[r].pc = "screening_reply")
      /\ Landing(s) \/ (EncCommit(s) /\ req[s].pc = "screening_reply")
  BY LandingStep
<1>2. CASE Landing(r) /\ Landing(s)
  BY <1>1, <1>2 DEF LinkInv
<1>3. CASE Landing(r) /\ ~ Landing(s)
  BY <1>1, <1>3, LandingIsFirst
<1>4. CASE ~ Landing(r) /\ Landing(s)
  BY <1>1, <1>4, LandingIsFirst
<1>5. CASE ~ Landing(r) /\ ~ Landing(s)
  <2>1. /\ enc[s].pc = "screen" /\ enc' = [enc EXCEPT ![r].pc = "created"]
        /\ enc' = [enc EXCEPT ![s].pc = "created"]
    BY <1>1, <1>5 DEF EncCommit
  <2>2. enc \in [Calls -> EncSlot] /\ r \in Calls /\ s \in Calls
    BY CallsFacts DEF TypeInv, TypeOK, EncTypeOK
  <2> QED
    BY <2>1, <2>2 DEF EncSlot
<1> QED
  BY <1>2, <1>3, <1>4, <1>5

\* The workflow of a link keeps its payload, and the submission its row.
LEMMA LinkEvidence ==
    ASSUME TypeInv, HandlerInv, EvidenceInv, LinkInv, [Next]_vars,
           NEW t \in Ids, Linked(t)' > 0
    PROVE  /\ Linked(t)' = 1 /\ WfExists(t)'
           /\ RowExists(wf[t].payload.id)'
           /\ Submitted(wf[t].payload.id)' = 1
<1>1. /\ WfExists(t) /\ RowExists(wf[t].payload.id)
      /\ Submitted(wf[t].payload.id) = 1 /\ Linked(t)' = 1
  <2>1. CASE Linked(t)' = Linked(t)
    BY <2>1 DEF LinkInv
  <2>2. ASSUME NEW r \in Requests, ScreeningAudit(r), req[r].tx = t,
               Linked(t)' = Linked(t) + 1
        PROVE  /\ WfExists(t) /\ RowExists(wf[t].payload.id)
               /\ Submitted(wf[t].payload.id) = 1 /\ Linked(t)' = 1
    BY <2>2, LinkIsFirst, LandingHandler DEF LinkInv
  <2> QED
    BY <2>1, <2>2, LinkedStep
<1>2. PICK i \in Ids : i = wf[t].payload.id
  BY <1>1, PayloadFacts DEF TypeInv, PayloadsInUse
<1>3. wf'[t].payload = wf[t].payload /\ wf'[t].status # "none"
  BY <1>1, WorkflowKept
<1>4. RowExists(i)' /\ Submitted(i)' = 1
  BY <1>1, <1>2, RowsKept, SubmittedKept
<1> QED
  BY <1>1, <1>2, <1>3, <1>4 DEF WfExists, RowExists, Submitted

LEMMA AfterLinkNext ==
    ASSUME TypeInv, HandlerInv, LinkInv, [Next]_vars, NEW r \in Requests,
           req'[r].pc \in AfterLink
    PROVE  Linked(req[r].tx)' = 1
<1>1. PICK t \in Ids : t = req'[r].tx
  BY TypeNext DEF TypeInv, TypeOK, Req
<1>2. CASE req[r].tx = t /\ req[r].pc \in AfterLink
  BY <1>1, <1>2, LinkedKept DEF LinkInv
<1>3. CASE req[r].tx = t /\ ScreeningAudit(r)
  <2>1. Linked(t) = 0
    BY <1>3, LinkIsFirst
  <2>2. Linked(t)' = Linked(t) + 1
    BY <1>3 DEF ScreeningAudit, AuditWith, AuditEvents, Linked, TypeInv,
                TypeOK, TablesTypeOK
  <2> QED
    BY <1>1, <2>1, <2>2 DEF Linked
<1>4. ASSUME NEW u \in Users, NEW i \in Ids, ProofsFetch(r, u, i), i = t
      PROVE  Linked(t)' = 1
  <2>1. wf[t].status \in PastScreening
    BY <1>4 DEF ProofsFetch, PastScreening
  <2> QED
    BY <2>1, LinkedKept DEF LinkInv
<1> QED
  BY <1>1, <1>2, <1>3, <1>4, AfterLinkStep DEF Linked

LEMMA LinkNext ==
    TypeInv /\ HandlerInv /\ EvidenceInv /\ LinkInv /\ [Next]_vars => LinkInv'
<1> SUFFICES ASSUME TypeInv, HandlerInv, EvidenceInv, LinkInv, [Next]_vars
             PROVE  LinkInv'
  OBVIOUS
<1>1. \A i \in Ids : Submitted(i)' <= 1
  BY SubmittedStep DEF LinkInv
<1>2. ASSUME NEW r \in Requests, Landing(r)'
      PROVE  /\ RowExists(req[r].payload.id)'
             /\ Submitted(req[r].payload.id)' = 1
             /\ Linked(req[r].tx)' = 0
  BY <1>2, LandingNext
<1>3. ASSUME NEW r \in Requests, NEW s \in Requests,
             Landing(r)', Landing(s)', req'[r].tx = req'[s].tx
      PROVE  r = s
  BY <1>3, LandingAlone
<1>4. ASSUME NEW t \in Ids, Linked(t)' > 0
      PROVE  /\ Linked(t)' = 1 /\ WfExists(t)'
             /\ RowExists(wf[t].payload.id)'
             /\ Submitted(wf[t].payload.id)' = 1
  BY <1>4, LinkEvidence
<1>5. ASSUME NEW r \in Requests, req'[r].pc \in AfterLink
      PROVE  Linked(req[r].tx)' = 1
  BY <1>5, AfterLinkNext DEF Linked
<1>6. ASSUME NEW t \in Ids, wf'[t].status \in PastScreening
      PROVE  Linked(t)' = 1
  <2>1. CASE wf'[t].status = wf[t].status
    BY <1>6, <2>1, LinkedKept DEF LinkInv
  <2>2. ASSUME NEW r \in Requests, req[r].tx = t,
               ScreeningFinish(r) \/ ProofsRefused(r) \/ ProofsFinish(r)
        PROVE  Linked(t) = 1
    BY <2>2 DEF ScreeningFinish, ProofsRefused, ProofsFinish, AfterLink,
                LinkInv
  <2> QED
    BY <1>6, <2>1, <2>2, PastStep, LinkedKept
<1> QED
  BY <1>1, <1>2, <1>3, <1>4, <1>5, <1>6 DEF LinkInv

\* A submission is recorded at most once and linked at most once, and a
\* workflow is past screening only with its link, whatever submissions,
\* retries, decisions and stopped handlers come between the encryption
\* service's commit and run_screening's last statement.
THEOREM LinkedOnce == Spec => []ScreeningLinkedOnce
<1>1. Init => TypeInv /\ HandlerInv /\ EvidenceInv /\ LinkInv
  BY TypeInit, HandlerInit, EvidenceInit, LinkInit
<1>2. TypeInv /\ HandlerInv /\ EvidenceInv /\ LinkInv /\ [Next]_vars
        => (TypeInv /\ HandlerInv /\ EvidenceInv /\ LinkInv)'
  BY TypeNext, HandlerNext, EvidenceNext, LinkNext
<1>3. TypeInv /\ LinkInv => ScreeningLinkedOnce
  <2> SUFFICES ASSUME TypeInv, LinkInv, NEW t \in Ids, WfExists(t)
               PROVE  /\ Linked(t) <= Submitted(wf[t].payload.id)
                      /\ Submitted(wf[t].payload.id) <= 1
                      /\ wf[t].status \in PastScreening => Linked(t) = 1
    BY DEF ScreeningLinkedOnce, Linked, Submitted
  <2>1. PICK i \in Ids : i = wf[t].payload.id
    BY PayloadFacts DEF TypeInv, PayloadsInUse
  <2>2. Linked(t) <= Submitted(i)
    BY <2>1, CountTypes DEF LinkInv
  <2> QED
    BY <2>1, <2>2 DEF LinkInv
<1> QED
  BY <1>1, <1>2, <1>3, PTL DEF Spec

(* Stranded workflows *)

\* What Stranded excludes of a handler of its workflow.
LEMMA StrandedHandlers ==
    ASSUME NEW t \in Ids
    PROVE  Stranded(t) <=>
             /\ WfExists(t) /\ wf[t].status \notin PastScreening
             /\ RowExists(wf[t].payload.id)
             /\ \A r \in Requests :
                  req[r].tx = t => ~ Landing(r) /\ req[r].pc \notin AfterLink
BY DEF Stranded, ScreeningLanding, Landing, AfterLink

LEMMA StrandedNext ==
    ASSUME TypeInv, HandlerInv, [Next]_vars, NEW t \in Ids, Stranded(t)
    PROVE  Stranded(t)'
<1>1. /\ WfExists(t) /\ wf[t].status \notin PastScreening
      /\ RowExists(wf[t].payload.id)
      /\ \A r \in Requests :
           req[r].tx = t => ~ Landing(r) /\ req[r].pc \notin AfterLink
  BY StrandedHandlers
<1>2. WfExists(t)' /\ wf'[t].payload = wf[t].payload
  BY <1>1, WorkflowKept DEF WfExists
<1>3. wf'[t].status \notin PastScreening
  <2>1. ASSUME NEW r \in Requests, req[r].tx = t,
               ScreeningFinish(r) \/ ProofsRefused(r) \/ ProofsFinish(r)
        PROVE  FALSE
    BY <1>1, <2>1 DEF ScreeningFinish, ProofsRefused, ProofsFinish, AfterLink
  <2> QED
    BY <1>1, <2>1, PastStep
<1>4. RowExists(wf[t].payload.id)'
  <2>1. PICK i \in Ids : i = wf[t].payload.id
    BY <1>1, PayloadFacts DEF TypeInv, PayloadsInUse
  <2> QED
    BY <1>1, <1>2, <2>1, RowsKept DEF RowExists
<1>5. ASSUME NEW r \in Requests, req'[r].tx = t, Landing(r)'
      PROVE  FALSE
  <2>1. EncCommit(r) /\ req[r].pc = "screening_reply" /\ req[r].tx = t
    BY <1>1, <1>5, LandingStep
  <2>2. enc[r].payload = wf[t].payload
    BY <2>1, LandingHandler DEF HandlerInv
  <2> QED
    BY <1>1, <2>1, <2>2, CommitWrites, CallsFacts
<1>6. ASSUME NEW r \in Requests, req'[r].tx = t, req'[r].pc \in AfterLink
      PROVE  FALSE
  <2>1. \/ ScreeningAudit(r) /\ req[r].tx = t
        \/ \E u \in Users : ProofsFetch(r, u, t)
    BY <1>1, <1>6, AfterLinkStep
  <2> QED
    BY <1>1, <2>1 DEF ScreeningAudit, Landing, ProofsFetch, PastScreening
<1>7. /\ WfExists(t)' /\ (wf[t].status \notin PastScreening)'
      /\ RowExists(wf[t].payload.id)'
      /\ \A r \in Requests :
           (req[r].tx = t => ~ Landing(r) /\ req[r].pc \notin AfterLink)'
  BY <1>2, <1>3, <1>4, <1>5, <1>6
<1> QED
  BY <1>7 DEF Stranded, ScreeningLanding, Landing, AfterLink

\* A workflow whose tx_id has a row that no screening of it accounts for is
\* never screened again: no retry, decision or resubmission reaches it.
THEOREM StrandedStays == Spec => StrandedForever
<1>1. Init => TypeInv /\ HandlerInv
  BY TypeInit, HandlerInit
<1>2. TypeInv /\ HandlerInv /\ [Next]_vars => (TypeInv /\ HandlerInv)'
  BY TypeNext, HandlerNext
<1>3. TypeInv /\ HandlerInv /\ [Next]_vars
        => [\A t \in Ids : Stranded(t) => Stranded(t)']_vars
  BY StrandedNext
<1> QED
  BY <1>1, <1>2, <1>3, PTL DEF Spec, StrandedForever

(* The refinement *)

\* The trail as the tables show it.
TDecided  == {t \in Ids : wf[t].reviewedBy # NoUser}
TRecorded == [i \in Ids |-> Submitted(i)]
TLinked   == [t \in Ids |-> Linked(t)]
TStored   == [i \in Ids |-> {p.rule : p \in proofs[i]}]
TStage    == [t \in Ids |-> StageOf(wf[t].status)]

LEMMA TrailSame ==
    ASSUME UNCHANGED <<TDecided, TRecorded, TLinked, TStored, TStage>>
    PROVE  UNCHANGED Trail!trail
BY DEF Trail!trail, TDecided, TRecorded, TLinked, TStored, TStage, Submitted,
       Linked

\* Each abstract step, in these names.
LEMMA DecideStep ==
    ASSUME NEW t \in Ids, TDecided' = TDecided \union {t},
           UNCHANGED <<TRecorded, TLinked, TStored, TStage>>
    PROVE  Trail!Next
BY DEF Trail!Next, Trail!Decide, TDecided, TRecorded, TLinked, TStored,
       TStage, Submitted, Linked

LEMMA RecordStep ==
    ASSUME NEW i \in Ids, Submitted(i) = 0,
           TRecorded' = [TRecorded EXCEPT ![i] = 1],
           UNCHANGED <<TDecided, TLinked, TStored, TStage>>
    PROVE  Trail!Next
BY DEF Trail!Next, Trail!Record, TDecided, TRecorded, TLinked, TStored,
       TStage, Submitted, Linked

LEMMA LinkStep ==
    ASSUME NEW t \in Ids, NEW i \in Ids, wf[t].reviewedBy # NoUser,
           TrimTx[i] = t, Submitted(i) = 1, Linked(t) = 0,
           TLinked' = [TLinked EXCEPT ![t] = 1],
           UNCHANGED <<TDecided, TRecorded, TStored, TStage>>
    PROVE  Trail!Next
BY DEF Trail!Next, Trail!Link, TDecided, TRecorded, TLinked, TStored,
       TStage, Submitted, Linked

LEMMA StoreStep ==
    ASSUME NEW i \in Ids, NEW rule \in ProofRules,
           TStored' = [TStored EXCEPT ![i] = @ \union {rule}],
           UNCHANGED <<TDecided, TRecorded, TLinked, TStage>>
    PROVE  Trail!Next
BY DEF Trail!Next, Trail!Store, TDecided, TRecorded, TLinked, TStored,
       TStage, Submitted, Linked

LEMMA StageStep ==
    ASSUME NEW t \in Ids, NEW to \in {"open", "past", "complete"},
           to # "open" => Linked(t) = 1,
           to = "complete" => {p.rule : p \in proofs[t]} = ProofRules,
           TStage' = [TStage EXCEPT ![t] = to],
           UNCHANGED <<TDecided, TRecorded, TLinked, TStored>>
    PROVE  Trail!Next
BY DEF Trail!Next, Trail!Pass, Trail!Complete, Trail!Reopen, Trail!Enter,
       TDecided, TRecorded, TLinked, TStored, TStage, Submitted, Linked

(* The steps of the three services *)

\* A workflow that does not exist has no reviewer.
NoReviewer == \A t \in Ids : ~ WfExists(t) => wf[t].reviewedBy = NoUser

LEMMA NoReviewerNext ==
    TypeInv /\ NoReviewer /\ [Next]_vars => NoReviewer'
<1> SUFFICES ASSUME TypeInv, NoReviewer, [Next]_vars, NEW t \in Ids,
                    ~ WfExists(t)'
             PROVE  wf'[t].reviewedBy = NoUser
  BY DEF NoReviewer
<1> USE DEF TypeInv, TypeOK
<1>1. ~ WfExists(t)
  BY WorkflowKept DEF WfExists
<1>2. ASSUME NEW r \in Requests, CreateInsert(r)
      PROVE  wf'[t] = wf[t]
  BY <1>2 DEF CreateInsert, WfExists
<1>3. ASSUME NEW u \in Users, NEW i \in Ids, Approve(u, i) \/ Reject(u, i)
      PROVE  wf'[t] = wf[t]
  BY <1>1, <1>3 DEF Approve, Reject, Decide, WfExists
<1>4. ASSUME NEW r \in Requests,
             \/ SubmitForReviewUpdate(r) \/ ScreeningRefused(r)
             \/ ScreeningFinish(r) \/ ProofsRefused(r) \/ ProofsFinish(r)
      PROVE  wf'[t] = wf[t]
  BY <1>1, <1>4 DEF SubmitForReviewUpdate, ScreeningRefused, ScreeningFinish,
                    ProofsRefused, ProofsFinish, SetStatus, PayloadsInUse,
                    Starting
<1> QED
  BY <1>1, <1>2, <1>3, <1>4, WorkflowWriters DEF NoReviewer

\* A status is set, and nothing else of the trail changes.
LEMMA StatusMoves ==
    ASSUME TypeInv, NEW t \in Ids, NEW status \in WorkflowStatuses,
           SetStatus(t, status), UNCHANGED <<audit, proofs>>
    PROVE  /\ TStage' = [TStage EXCEPT ![t] = StageOf(status)]
           /\ UNCHANGED <<TDecided, TRecorded, TLinked, TStored>>
<1>1. /\ wf' \in [Ids -> Wf] /\ wf'[t].status = status
      /\ wf'[t].reviewedBy = wf[t].reviewedBy
      /\ \A i \in Ids : i # t => wf'[i] = wf[i]
  BY DEF SetStatus, TypeInv, TypeOK, Wf
<1>2. TStage' = [TStage EXCEPT ![t] = StageOf(status)]
  BY <1>1 DEF TStage
<1>3. UNCHANGED TDecided
  BY <1>1 DEF TDecided
<1> QED
  BY <1>2, <1>3 DEF TRecorded, TLinked, TStored, Submitted, Linked

TrailInv == /\ TypeInv /\ HandlerInv /\ ReviewInv /\ EvidenceInv
            /\ ClaimsInv /\ LinkInv /\ NoReviewer

\* A step of the trail, or none.
TrailStep == Trail!Next \/ UNCHANGED Trail!trail

LEMMA CreationStep ==
    ASSUME TrailInv, NEW r \in Requests, CreateInsert(r)
    PROVE  TrailStep
<1>1. PICK t \in Ids : t = req[r].tx
  BY DEF TrailInv, TypeInv, TypeOK, Req
<1>2. /\ wf[t].status = "none" /\ wf[t].reviewedBy = NoUser
      /\ wf'[t].status = "submitted" /\ wf'[t].reviewedBy = NoUser
      /\ \A i \in Ids : i # t => wf'[i] = wf[i]
      /\ UNCHANGED <<audit, proofs>>
  BY <1>1 DEF CreateInsert, WfExists, TrailInv, NoReviewer, TypeInv, TypeOK
<1>3. UNCHANGED TDecided
  BY <1>2 DEF TDecided
<1>4. UNCHANGED TStage
  BY <1>2 DEF TStage, StageOf
<1> QED
  BY <1>2, <1>3, <1>4, TrailSame
     DEF TrailStep, TRecorded, TLinked, TStored, Submitted, Linked

LEMMA DecisionStep ==
    ASSUME TrailInv, NEW u \in Users, NEW t \in Ids,
           Approve(u, t) \/ Reject(u, t)
    PROVE  TrailStep
<1>1. PICK to \in {"approved", "rejected"} :
        /\ wf[t].status \in {"submitted", "under_review", "approved",
                             "rejected"}
        /\ wf' = [wf EXCEPT ![t] = [@ EXCEPT !.status = to, !.reviewedBy = u]]
        /\ UNCHANGED <<audit, proofs>>
  BY DEF Approve, Reject, Decide
<1>2. wf \in [Ids -> Wf] /\ wf[t] \in Wf /\ u # NoUser
  BY WorkflowAssumption DEF TrailInv, TypeInv, TypeOK
<1>3. [wf[t] EXCEPT !.status = to, !.reviewedBy = u].status = to
      /\ [wf[t] EXCEPT !.status = to, !.reviewedBy = u].reviewedBy = u
  BY <1>2 DEF Wf
<1>4. /\ wf'[t].status = to /\ wf'[t].reviewedBy = u
      /\ \A i \in Ids : i # t => wf'[i] = wf[i]
  BY <1>1, <1>2, <1>3
<1>5. TDecided' = TDecided \union {t}
  BY <1>2, <1>4 DEF TDecided
<1>6. UNCHANGED TStage
  BY <1>1, <1>4 DEF TStage, StageOf
<1> QED
  BY <1>1, <1>5, <1>6, DecideStep
     DEF TrailStep, TRecorded, TLinked, TStored, Submitted, Linked

\* What a handler writes at its end follows from what it awaited.
LEMMA MarkStep ==
    ASSUME TrailInv, NEW r \in Requests,
           \/ SubmitForReviewUpdate(r) \/ ScreeningRefused(r)
           \/ ScreeningFinish(r) \/ ProofsRefused(r) \/ ProofsFinish(r)
    PROVE  TrailStep
<1>1. PICK t \in Ids : t = req[r].tx
  BY DEF TrailInv, TypeInv, TypeOK, Req
<1>2. ASSUME NEW status \in WorkflowStatuses, SetStatus(t, status),
             UNCHANGED <<audit, proofs>>,
             StageOf(status) \in {"open", "past", "complete"},
             StageOf(status) # "open" => Linked(t) = 1,
             StageOf(status) = "complete"
               => {p.rule : p \in proofs[t]} = ProofRules
      PROVE  TrailStep
  BY <1>2, StatusMoves, StageStep DEF TrailInv, TrailStep
<1>3. CASE SubmitForReviewUpdate(r) \/ ScreeningRefused(r)
  BY <1>1, <1>2, <1>3
     DEF SubmitForReviewUpdate, ScreeningRefused, WorkflowStatuses, StageOf
<1>4. ASSUME req[r].pc \in AfterLink
      PROVE  Linked(t) = 1
  BY <1>1, <1>4 DEF TrailInv, LinkInv
<1>5. CASE ScreeningFinish(r) \/ ProofsRefused(r)
  <2>1. PICK status \in {"screened", "proof_failed"} :
          SetStatus(t, status) /\ UNCHANGED <<audit, proofs>>
    BY <1>1, <1>5 DEF ScreeningFinish, ProofsRefused
  <2>2. Linked(t) = 1
    BY <1>4, <1>5 DEF ScreeningFinish, ProofsRefused, AfterLink
  <2> QED
    BY <1>2, <2>1, <2>2 DEF WorkflowStatuses, StageOf
<1>6. CASE ProofsFinish(r)
  <2>1. SetStatus(t, "proof_generated") /\ UNCHANGED <<audit, proofs>>
    BY <1>1, <1>6 DEF ProofsFinish
  <2>2. Linked(t) = 1
    BY <1>4, <1>6 DEF ProofsFinish, AfterLink
  <2>3. zk[r].pc = "ok" /\ zk[r].id = t /\ RunInv(r)
    BY <1>1, <1>6, CallsFacts DEF ProofsFinish, TrailInv, HandlerInv, ClaimsInv
  <2>4. \A rule \in ProofRules : \E p \in proofs[t] : p.rule = rule
    BY <2>3 DEF RunInv, Stored, DoneRec10, DoneRec11, ProofRules
  <2>5. \A p \in proofs[t] : p.rule \in ProofRules
    BY DEF TrailInv, TypeInv, TypeOK, ZkTypeOK, Proof
  <2>6. {p.rule : p \in proofs[t]} = ProofRules
    BY <2>4, <2>5
  <2> QED
    BY <1>2, <2>1, <2>2, <2>6 DEF WorkflowStatuses, StageOf
<1> QED
  BY <1>3, <1>5, <1>6

\* The encryption service's commit records the submission.
LEMMA CommitStep ==
    ASSUME TrailInv, NEW c \in Calls, EncCommit(c), UNCHANGED <<wf, proofs>>
    PROVE  TrailStep
<1>1. PICK i \in Ids : i = enc[c].payload.id
  BY CommitWrites, PayloadFacts DEF TrailInv
<1>2. Submitted(i) = 0
  BY <1>1, CommitWrites DEF TrailInv, EvidenceInv, SubmissionEvents, Submitted
<1>3. \A j \in Ids : /\ Submitted(j)' = IF j = i THEN 1 ELSE Submitted(j)
                     /\ Linked(j)' = Linked(j)
  BY <1>1, <1>2 DEF EncCommit, AuditWith, SubmissionEvents, AuditEvents,
                    Submitted, Linked, TrailInv, TypeInv, TypeOK,
                    TablesTypeOK
<1>4. TRecorded' = [TRecorded EXCEPT ![i] = 1]
  BY <1>3 DEF TRecorded
<1>5. UNCHANGED TLinked
  BY <1>3 DEF TLinked
<1> QED
  BY <1>2, <1>4, <1>5, RecordStep DEF TrailStep, TDecided, TStored, TStage

\* Of what the handlers write into the two tables, only run_screening's audit
\* statement is part of the trail.
LEMMA HandlerTableStep ==
    ASSUME TrailInv, NEW r \in Requests,
           \/ EvaluateStore(r) \/ EvaluateAudit(r)
           \/ ScreeningStore(r) \/ ScreeningAudit(r)
    PROVE  TrailStep
<1> USE DEF TrailInv, TypeInv, TypeOK, TablesTypeOK
<1>1. PICK t \in Ids : t = req[r].tx
  BY DEF Req
<1>2. CASE EvaluateStore(r) \/ ScreeningStore(r)
  BY <1>2, TrailSame
     DEF EvaluateStore, ScreeningStore, TrailStep, TDecided, TRecorded,
         TLinked, TStored, TStage, Submitted, Linked
<1>3. CASE EvaluateAudit(r)
  <2>1. \A j \in Ids : /\ Submitted(j)' = Submitted(j)
                       /\ Linked(j)' = Linked(j)
    BY <1>3 DEF EvaluateAudit, AuditWith, AuditEvents, Submitted, Linked
  <2>2. UNCHANGED <<wf, proofs>>
    BY <1>3 DEF EvaluateAudit
  <2> QED
    BY <2>1, <2>2, TrailSame
       DEF TrailStep, TDecided, TRecorded, TLinked, TStored, TStage
<1>4. CASE ScreeningAudit(r)
  <2>1. UNCHANGED <<wf, proofs>>
    BY <1>4 DEF ScreeningAudit
  <2>2. Landing(r) /\ Linked(t) = 0
    BY <1>1, <1>4, LinkIsFirst
  <2>3. /\ WfExists(t) /\ req[r].payload = wf[t].payload
        /\ req[r].payload.id \in Ids
    BY <1>1, <2>2, LandingHandler
  <2>4. PICK i \in Ids : i = req[r].payload.id
    BY <2>3
  <2>5. TrimTx[i] = t /\ Submitted(i) = 1
    BY <2>2, <2>3, <2>4 DEF HandlerInv, LinkInv
  <2>6. wf[t].reviewedBy # NoUser
    BY <1>1, <1>4 DEF ScreeningAudit, ReviewInv, AfterDecision
  <2>7. \A j \in Ids : /\ Submitted(j)' = Submitted(j)
                       /\ Linked(j)' = IF j = t THEN 1 ELSE Linked(j)
    BY <1>1, <1>4, <2>2 DEF ScreeningAudit, AuditWith, AuditEvents,
                            Submitted, Linked
  <2>8. TLinked' = [TLinked EXCEPT ![t] = 1] /\ UNCHANGED TRecorded
    BY <2>7 DEF TLinked, TRecorded
  <2>9. UNCHANGED <<TDecided, TStored, TStage>>
    BY <2>1 DEF TDecided, TStored, TStage
  <2> QED
    BY <2>2, <2>5, <2>6, <2>8, <2>9, LinkStep DEF TrailStep
<1> QED
  BY <1>2, <1>3, <1>4

\* A run's store adds the proof of one rule.
LEMMA ProverTrailStep ==
    ASSUME TrailInv, NEW c \in Calls, ZkStore(c), ProverStep(c)
    PROVE  TrailStep
<1>1. PICK i, rule : i = zk[c].id /\ rule = RuleAt(zk[c].pc)
  OBVIOUS
<1>2. UNCHANGED <<wf, audit>>
  BY DEF ZkStore, ProverStep
<1>3. /\ i \in Ids /\ rule \in ProofRules /\ Stored(i, rule)'
      /\ \A j \in Ids : proofs[j] \subseteq proofs'[j]
      /\ \A j \in Ids : \A p \in proofs'[j] :
           p \in proofs[j] \/ (j = i /\ p.rule = rule)
  BY <1>1, StoreWrites DEF TrailInv
<1>4. \A j \in Ids : {p.rule : p \in proofs'[j]}
                       = IF j = i THEN {p.rule : p \in proofs[j]} \union {rule}
                                  ELSE {p.rule : p \in proofs[j]}
  BY <1>3 DEF Stored
<1>5. TStored' = [TStored EXCEPT ![i] = @ \union {rule}]
  BY <1>3, <1>4 DEF TStored
<1>6. UNCHANGED <<TDecided, TRecorded, TLinked, TStage>>
  BY <1>2 DEF TDecided, TRecorded, TLinked, TStage, Submitted, Linked
<1> QED
  BY <1>3, <1>5, <1>6, StoreStep DEF TrailStep

LEMMA TrailNext == TrailInv /\ [Next]_vars => TrailStep
<1> SUFFICES ASSUME TrailInv, [Next]_vars
             PROVE  TrailStep
  OBVIOUS
<1>1. CASE ~ UNCHANGED wf
  BY <1>1, WorkflowWriters, CreationStep, DecisionStep, MarkStep DEF TrailInv
<1>2. CASE UNCHANGED wf /\ ~ UNCHANGED <<row, audit>>
  <2>1. ASSUME NEW c \in Calls, EncCommit(c), EncryptionStep(c)
        PROVE  TrailStep
    BY <2>1, CommitStep DEF EncryptionStep
  <2> QED
    BY <1>2, <2>1, TableWriters, HandlerTableStep DEF TrailInv
<1>3. CASE UNCHANGED <<wf, row, audit>> /\ ~ UNCHANGED proofs
  BY <1>3, ProofWriters, ProverTrailStep DEF TrailInv
<1>4. CASE UNCHANGED <<wf, row, audit, proofs>>
  BY <1>4, TrailSame
     DEF TrailStep, TDecided, TRecorded, TLinked, TStored, TStage, Submitted,
         Linked
<1> QED
  BY <1>1, <1>2, <1>3, <1>4

\* The three services implement the trail: whatever requests, direct calls,
\* retries and faults come, each of their steps adds one entry the trail is
\* ready for, or none.
THEOREM TrailImplemented == Spec => TrailKept
<1>1. Init => TrailInv
  <2>1. Init => NoReviewer
    BY DEF Init, NoReviewer, NoWf
  <2> QED
    BY <2>1, TypeInit, HandlerInit, ReviewInit, EvidenceInit, ClaimsInit,
       LinkInit DEF TrailInv
<1>2. TrailInv /\ [Next]_vars => TrailInv'
  BY TypeNext, HandlerNext, ReviewNext, EvidenceNext, ClaimsNext, LinkNext,
     NoReviewerNext DEF TrailInv
<1>3. Init => Trail!Init
  BY DEF Init, Trail!Init, TablesInit, NoAudit, AuditEvents, ZkInit, NoWf,
         StageOf
<1>4. TrailInv /\ [Next]_vars => [Trail!Next]_(Trail!trail)
  BY TrailNext DEF TrailStep
<1> QED
  BY <1>1, <1>2, <1>3, <1>4, PTL DEF Spec, TrailKept, Trail!Spec
=============================================================================
