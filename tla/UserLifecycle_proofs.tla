------------------------- MODULE UserLifecycle_proofs -------------------------
(***************************************************************************)
(* Proofs about UserLifecycle, for any number of accounts, organizations  *)
(* and concurrent handlers.                                               *)
(***************************************************************************)
EXTENDS UserLifecycle, TLAPS

(* Types *)

\* A running handler is about an account, and an admin's about an admin too.
SessionsInUse ==
    \A h \in Handlers :
      /\ sess[h].pc # "idle" => sess[h].email \in Emails
      /\ sess[h].pc \in AdminPcs => sess[h].admin \in Emails

TypeInv == TypeOK /\ SessionsInUse

LEMMA NoSessionType == NoSession \in Session /\ NoAccount \in Account
BY UserAssumption
   DEF NoSession, Session, NoAccount, Account, RoleNames, AdminPcs

LEMMA TypeInit == Init => TypeInv
<1>1. SeededAccount \in Account
  BY UserAssumption DEF SeededAccount, NoAccount, Account, RoleNames,
                        AccountStatuses
<1> QED
  BY <1>1, NoSessionType
     DEF Init, TypeInv, TypeOK, SessionsInUse, NoSession, AdminPcs

\* Starting a handler with a session, and ending one.
LEMMA StartTypes ==
    ASSUME TypeInv, NEW h \in Handlers, NEW s \in Session, Start(h, s),
           s.email \in Emails, s.pc \in AdminPcs => s.admin \in Emails
    PROVE  sess' \in [Handlers -> Session] /\ SessionsInUse'
BY DEF Start, TypeInv, TypeOK, SessionsInUse

LEMMA StopTypes ==
    ASSUME TypeInv, NEW h \in Handlers, Stop(h)
    PROVE  sess' \in [Handlers -> Session] /\ SessionsInUse'
BY NoSessionType
   DEF Stop, NoSession, AdminPcs, TypeInv, TypeOK, SessionsInUse

LEMMA BeginTypes ==
    ASSUME TypeInv, NEW h \in Handlers, Begin(h)
    PROVE  TypeInv'
<1> USE UserAssumption
<1>1. ASSUME NEW e \in Emails, NEW o \in Orgs, NEW r \in RoleInputs,
             Register(h, e, o, r)
      PROVE  TypeInv'
  <2>1. r \in RoleNames
    BY <1>1 DEF Register, IsAllowedRequestedRole, RoleNames
  <2>2. [NoSession EXCEPT !.pc = "register", !.email = e, !.role = r,
                          !.org = o] \in Session
    BY <2>1 DEF NoSession, Session
  <2>3. sess' \in [Handlers -> Session] /\ SessionsInUse'
    BY <1>1, <2>2, StartTypes DEF Register, NoSession, AdminPcs
  <2> QED
    BY <1>1, <2>3 DEF Register, TypeInv, TypeOK
<1>2. ASSUME NEW e \in Emails,
             Start(h, [NoSession EXCEPT !.pc = "issue", !.email = e,
                                        !.role = users[e].role]),
             UNCHANGED <<users, requests, tokens>>
      PROVE  TypeInv'
  <2>1. users[e].role \in RoleNames
    BY DEF TypeInv, TypeOK, Account
  <2>2. [NoSession EXCEPT !.pc = "issue", !.email = e,
                          !.role = users[e].role] \in Session
    BY <2>1 DEF NoSession, Session
  <2>3. sess' \in [Handlers -> Session] /\ SessionsInUse'
    BY <1>2, <2>2, StartTypes DEF NoSession, AdminPcs
  <2> QED
    BY <1>2, <2>3 DEF TypeInv, TypeOK
<1>3. ASSUME NEW a \in Emails, NEW e \in Emails, NEW op \in AdminPcs,
             NEW r \in RoleNames, AdminRequest(h, a, op, e, r)
      PROVE  TypeInv'
  <2>1. [NoSession EXCEPT !.pc = op, !.email = e, !.role = r, !.admin = a]
          \in Session
    BY DEF NoSession, Session
  <2>2. sess' \in [Handlers -> Session] /\ SessionsInUse'
    BY <1>3, <2>1, StartTypes DEF AdminRequest, NoSession
  <2> QED
    BY <1>3, <2>2 DEF AdminRequest, TypeInv, TypeOK
<1>4. \A t \in tokens : t.email \in Emails
  BY DEF TypeInv, TypeOK, Token
<1>5. \A r : Assignable(r) => r \in RoleNames
  BY DEF Assignable, IsAllowedRequestedRole, RoleNames
<1>6. NoSession.role \in RoleNames
  BY DEF NoSession, RoleNames
<1> QED
  BY <1>1, <1>2, <1>3, <1>4, <1>5, <1>6
     DEF Begin, LoginRead, MeRead, AdminPcs

\* An account's new value, where a handler writes one.
LEMMA ContinueTypes ==
    ASSUME TypeInv, NEW h \in Handlers, Continue(h)
    PROVE  TypeInv'
<1> USE UserAssumption DEF TypeInv, TypeOK
<1>1. sess' \in [Handlers -> Session] /\ SessionsInUse'
  BY StopTypes
     DEF Continue, RegisterCommit, RegisterConflict, IssueToken, ApproveUser,
         RejectUser, ActivateUser, DeactivateUser, AdminNotFound
<1>2. sess[h].pc # "idle" /\ sess[h].email \in Emails
      /\ sess[h] \in Session
  BY DEF Continue, RegisterCommit, RegisterConflict, IssueToken, ApproveUser,
         RejectUser, ActivateUser, DeactivateUser, AdminNotFound,
         SessionsInUse
<1>3. CASE RegisterConflict(h) \/ AdminNotFound(h)
  BY <1>1, <1>3 DEF RegisterConflict, AdminNotFound
<1>4. CASE IssueToken(h)
  BY <1>1, <1>2, <1>4 DEF IssueToken, Token, Session
<1>5. CASE RegisterCommit(h)
  <2>1. users' \in [Emails -> Account]
    BY <1>2, <1>5 DEF RegisterCommit, Account, AccountStatuses, Session
  <2>2. requests' \subseteq ApprovalRequest
    BY <1>2, <1>5 DEF RegisterCommit, ApprovalRequest, Session
  <2> QED
    BY <1>1, <1>5, <2>1, <2>2 DEF RegisterCommit
<1>6. \A e, role : role \in RoleNames
        => Rejected(e) \subseteq ApprovalRequest
           /\ Approved(e, role) \subseteq ApprovalRequest
  BY DEF Rejected, Approved, ApprovalRequest
<1>7. CASE ApproveUser(h)
  <2>1. sess[h].admin \in Emails /\ sess[h].role \in RoleNames
    BY <1>2, <1>7 DEF ApproveUser, SessionsInUse, AdminPcs, Session
  <2>2. [users[sess[h].email] EXCEPT !.role = sess[h].role,
           !.status = "active", !.approvedBy = sess[h].admin,
           !.verified = TRUE] \in Account
    BY <1>2, <2>1 DEF Account, AccountStatuses
  <2>3. users' \in [Emails -> Account]
    BY <1>7, <2>2 DEF ApproveUser
  <2> QED
    BY <1>1, <1>6, <1>7, <2>1, <2>3 DEF ApproveUser
<1>8. CASE RejectUser(h)
  <2>1. users' \in [Emails -> Account]
    BY <1>2, <1>8 DEF RejectUser, Account, AccountStatuses
  <2> QED
    BY <1>1, <1>2, <1>6, <1>8, <2>1 DEF RejectUser, Session
<1>9. CASE ActivateUser(h)
  <2>0. users[sess[h].email] \in Account /\ sess[h].role \in RoleNames
    BY <1>2 DEF Session
  <2>1. [users[sess[h].email] EXCEPT !.role = sess[h].role,
           !.status = "active", !.verified = TRUE] \in Account
    BY <2>0 DEF Account, AccountStatuses
  <2>2. users' \in [Emails -> Account]
    BY <1>9, <2>1 DEF ActivateUser
  <2> QED
    BY <1>1, <1>9, <2>2 DEF ActivateUser
<1>10. CASE DeactivateUser(h)
  <2>1. users' \in [Emails -> Account]
    BY <1>2, <1>10 DEF DeactivateUser, Account, AccountStatuses
  <2> QED
    BY <1>1, <1>10, <2>1 DEF DeactivateUser
<1> QED
  BY <1>3, <1>4, <1>5, <1>7, <1>8, <1>9, <1>10 DEF Continue

LEMMA TypeNext == TypeInv /\ [Next]_vars => TypeInv'
<1> SUFFICES ASSUME TypeInv, [Next]_vars
             PROVE  TypeInv'
  OBVIOUS
<1>1. ASSUME NEW h \in Handlers, Abort(h)
      PROVE  TypeInv'
  BY <1>1, StopTypes DEF Abort, TypeInv, TypeOK
<1>2. ASSUME NEW t \in Token, Expire(t)
      PROVE  TypeInv'
  BY <1>2 DEF Expire, TypeInv, TypeOK, SessionsInUse
<1>3. CASE UNCHANGED vars
  BY <1>3 DEF vars, TypeInv, TypeOK, SessionsInUse
<1> QED
  BY <1>1, <1>2, <1>3, BeginTypes, ContinueTypes DEF Next

\* Accounts, approval requests, tokens and running handlers keep to the
\* values the tables' CHECKs and the code's enumerations list, whatever roles
\* requests ask for.
THEOREM TypeCorrect == Spec => []TypeOK
<1>1. TypeInv => TypeOK
  BY DEF TypeInv
<1> QED
  BY <1>1, TypeInit, TypeNext, PTL DEF Spec

(* What the handlers write *)

\* Who writes accounts and requests.
LEMMA Writers ==
    ASSUME [Next]_vars
    PROVE  \/ UNCHANGED <<users, requests>>
           \/ \E h \in Handlers :
                \/ RegisterCommit(h) \/ ApproveUser(h) \/ RejectUser(h)
                \/ ActivateUser(h) \/ DeactivateUser(h)
<1>1. ASSUME NEW h \in Handlers, Begin(h)
      PROVE  UNCHANGED <<users, requests>>
  BY <1>1 DEF Begin, Register, LoginRead, MeRead, AdminRequest
<1> QED
  BY <1>1 DEF Next, vars, Continue, Abort, Expire, RegisterConflict,
              IssueToken, AdminNotFound

\* The new value of the account a handler is about; the others keep theirs.
LEMMA AccountWritten ==
    ASSUME TypeInv, NEW h \in Handlers, NEW e, e = sess[h].email
    PROVE  /\ RegisterCommit(h) =>
                /\ e \in Emails /\ ~ Registered(e)
                /\ users'[e].status = "pending_approval"
           /\ ApproveUser(h) =>
                /\ e \in Emails /\ Registered(e)
                /\ users'[e].status = "active" /\ users'[e].verified
                /\ users'[e].approvedBy # NoEmail
           /\ RejectUser(h) =>
                /\ e \in Emails /\ users[e].status = "pending_approval"
                /\ users'[e].status = "rejected"
                /\ users'[e].verified = users[e].verified
           /\ ActivateUser(h) =>
                /\ e \in Emails /\ Registered(e)
                /\ users'[e].status = "active" /\ users'[e].verified
                /\ users'[e].approvedBy = users[e].approvedBy
           /\ DeactivateUser(h) =>
                /\ e \in Emails /\ Registered(e)
                /\ users'[e].status = "disabled"
                /\ users'[e].verified = users[e].verified
                /\ users'[e].approvedBy = users[e].approvedBy
           /\ (\/ RegisterCommit(h) \/ ApproveUser(h) \/ RejectUser(h)
               \/ ActivateUser(h) \/ DeactivateUser(h))
                => \A d \in Emails : d # e => users'[d] = users[d]
<1> USE UserAssumption DEF TypeInv, TypeOK, SessionsInUse
<1>1. sess[h].pc # "idle" => e \in Emails /\ users[e] \in Account
  OBVIOUS
<1>2. CASE RegisterCommit(h)
  BY <1>1, <1>2 DEF RegisterCommit, ApproveUser, RejectUser, ActivateUser,
                    DeactivateUser
<1>3. CASE ApproveUser(h)
  <2>1. sess[h].pc = "approve" /\ sess[h].admin # NoEmail
    BY <1>3 DEF ApproveUser, AdminPcs
  <2>2. Registered(e)
    BY <1>3 DEF ApproveUser, Registered
  <2> QED
    BY <1>1, <1>3, <2>1, <2>2
       DEF RegisterCommit, ApproveUser, RejectUser, ActivateUser,
           DeactivateUser, Account
<1>4. CASE RejectUser(h)
  BY <1>1, <1>4 DEF RegisterCommit, ApproveUser, RejectUser, ActivateUser,
                    DeactivateUser, Account
<1>5. CASE ActivateUser(h)
  BY <1>1, <1>5 DEF RegisterCommit, ApproveUser, RejectUser, ActivateUser,
                    DeactivateUser, Account
<1>6. CASE DeactivateUser(h)
  BY <1>1, <1>6 DEF RegisterCommit, ApproveUser, RejectUser, ActivateUser,
                    DeactivateUser, Account
<1> QED
  BY <1>2, <1>3, <1>4, <1>5, <1>6

LEMMA SwitchWritten ==
    ASSUME TypeInv, NEW h \in Handlers, NEW e, e = sess[h].email,
           ActivateUser(h) \/ DeactivateUser(h)
    PROVE  /\ Registered(e) /\ users'[e].status \in {"active", "disabled"}
           /\ users[e].verified => users'[e].verified
           /\ users'[e].approvedBy = users[e].approvedBy
<1>1. CASE ActivateUser(h)
  BY <1>1, AccountWritten
<1>2. CASE DeactivateUser(h)
  BY <1>2, AccountWritten
<1> QED
  BY <1>1, <1>2

(* Accounts and their requests *)

\* A decision touches the requests of its account only, each by itself.
LEMMA DecisionWrites ==
    ASSUME TypeInv, NEW e \in Emails, NEW role \in RoleNames, NEW status,
           \/ status = "approved" /\ requests' = Approved(e, role)
           \/ status = "rejected" /\ requests' = Rejected(e)
    PROVE  /\ \A d : d # e => RequestsOf(d)' = RequestsOf(d)
           /\ \A q \in RequestsOf(e) :
                \E p \in RequestsOf(e)' :
                  p.status = IF q.status = "pending_approval" THEN status
                                                              ELSE q.status
           /\ \A p \in RequestsOf(e)' :
                \E q \in RequestsOf(e) :
                  p.status = IF q.status = "pending_approval" THEN status
                                                              ELSE q.status
           /\ (\A q, r \in RequestsOf(e) : q = r)
                => \A q, r \in RequestsOf(e)' : q = r
<1> DEFINE New(q) == IF status = "approved"
                       THEN [q EXCEPT !.status = "approved", !.role = role]
                       ELSE [q EXCEPT !.status = "rejected"]
           Upd(q) == IF Awaits(q, e) THEN New(q) ELSE q
<1>1. requests' = {Upd(q) : q \in requests}
  BY DEF Approved, Rejected
<1>2. ASSUME NEW q \in requests
      PROVE  /\ Upd(q).email = q.email
             /\ q.email # e => Upd(q) = q
             /\ q.email = e => Upd(q).status =
                  IF q.status = "pending_approval" THEN status ELSE q.status
  <2>1. q \in ApprovalRequest
    BY DEF TypeInv, TypeOK
  <2> QED
    BY <2>1 DEF ApprovalRequest, Awaits
<1> HIDE DEF Upd
<1>3. \A d : RequestsOf(d)' = {Upd(q) : q \in RequestsOf(d)}
  BY <1>1, <1>2 DEF RequestsOf
<1>4. \A d : d # e => RequestsOf(d)' = RequestsOf(d)
  BY <1>2, <1>3 DEF RequestsOf
<1>5. \A q \in RequestsOf(e) : q \in requests /\ q.email = e
  BY DEF RequestsOf
<1> QED
  BY <1>2, <1>3, <1>4, <1>5

\* RequestsMatchAccounts, one account at a time.
Match(e) ==
    /\ Registered(e) <=> RequestsOf(e) # {}
    /\ \A q, r \in RequestsOf(e) : q = r
    /\ \A q \in RequestsOf(e) :
         /\ users[e].status \in {"pending_approval", "rejected"}
              => q.status = users[e].status
         /\ q.status = "approved"
              => users[e].verified /\ users[e].approvedBy # NoEmail

LEMMA MatchNext ==
    ASSUME TypeInv, [Next]_vars, NEW e \in Emails, Match(e)
    PROVE  Match(e)'
<1>1. CASE UNCHANGED <<users, requests>>
  BY <1>1 DEF RequestsOf, Match, Registered
<1>2. ASSUME NEW h \in Handlers,
             \/ RegisterCommit(h) \/ ApproveUser(h) \/ RejectUser(h)
             \/ ActivateUser(h) \/ DeactivateUser(h)
      PROVE  Match(e)'
  <2>1. PICK d : d = sess[h].email
    OBVIOUS
  <2>2. sess[h].pc # "idle" /\ sess[h].role \in RoleNames /\ d \in Emails
    BY <1>2, <2>1
       DEF RegisterCommit, ApproveUser, RejectUser, ActivateUser,
           DeactivateUser, TypeInv, TypeOK, SessionsInUse, Session
  <2>3. CASE d # e
    <3>1. users'[e] = users[e]
      BY <1>2, <2>1, <2>3, AccountWritten
    <3>2. RequestsOf(e)' = RequestsOf(e)
      <4>1. CASE RegisterCommit(h)
        BY <2>1, <2>3, <4>1 DEF RegisterCommit, RequestsOf
      <4>2. CASE ApproveUser(h) \/ RejectUser(h)
        BY <2>1, <2>2, <2>3, <4>2, DecisionWrites DEF ApproveUser, RejectUser
      <4>3. CASE ActivateUser(h) \/ DeactivateUser(h)
        BY <4>3 DEF ActivateUser, DeactivateUser, RequestsOf
      <4> QED
        BY <1>2, <4>1, <4>2, <4>3
    <3> QED
      BY <3>1, <3>2 DEF Match, Registered
  <2>4. CASE d = e /\ RegisterCommit(h)
    <3>1. users'[e].status = "pending_approval" /\ RequestsOf(e) = {}
      BY <2>1, <2>4, AccountWritten DEF Match, Registered
    <3>2. RequestsOf(e)' = {[email |-> e, role |-> sess[h].role,
                             status |-> "pending_approval"]}
      BY <2>1, <2>4, <3>1 DEF RegisterCommit, RequestsOf, Match, Registered
    <3> QED
      BY <3>1, <3>2 DEF Match, Registered
  <2>5. CASE d = e /\ ApproveUser(h)
    <3>1. /\ Registered(e) /\ users'[e].status = "active"
          /\ users'[e].verified /\ users'[e].approvedBy # NoEmail
      BY <2>1, <2>5, AccountWritten
    <3>2. requests' = Approved(e, sess[h].role)
      BY <2>1, <2>5 DEF ApproveUser
    <3> QED
      BY <2>2, <3>1, <3>2, DecisionWrites DEF Match, Registered
  <2>6. CASE d = e /\ RejectUser(h)
    <3>1. /\ users[e].status = "pending_approval"
          /\ users'[e].status = "rejected"
      BY <2>1, <2>6, AccountWritten
    <3>2. requests' = Rejected(e)
      BY <2>1, <2>6 DEF RejectUser
    <3>3. \A q \in RequestsOf(e) : q.status = "pending_approval"
      BY <3>1 DEF Match, Registered
    <3>4. \A p \in RequestsOf(e)' : p.status = "rejected"
      <4>1. \A p \in RequestsOf(e)' :
              \E q \in RequestsOf(e) :
                p.status = IF q.status = "pending_approval" THEN "rejected"
                                                            ELSE q.status
        BY <2>2, <3>2, DecisionWrites
      <4> QED
        BY <3>3, <4>1
    <3>5. RequestsOf(e)' # {} /\ \A q, r \in RequestsOf(e)' : q = r
      BY <2>2, <3>1, <3>2, DecisionWrites DEF Match, Registered
    <3> QED
      BY <3>1, <3>4, <3>5 DEF Match, Registered
  <2>7. CASE d = e /\ (ActivateUser(h) \/ DeactivateUser(h))
    <3>1. UNCHANGED requests /\ RequestsOf(e)' = RequestsOf(e)
      BY <2>7 DEF ActivateUser, DeactivateUser, RequestsOf
    <3>2. /\ Registered(e) /\ users'[e].status \in {"active", "disabled"}
          /\ users[e].verified => users'[e].verified
          /\ users'[e].approvedBy = users[e].approvedBy
      BY <2>1, <2>7, SwitchWritten
    <3> QED
      BY <3>1, <3>2 DEF Match, Registered
  <2> QED
    BY <1>2, <2>3, <2>4, <2>5, <2>6, <2>7
<1> QED
  BY <1>1, <1>2, Writers

\* Accounts and approval requests tell one story at every moment, whatever
\* registrations race and decisions overtake each other.
THEOREM RequestsTellAccounts == Spec => []RequestsMatchAccounts
<1> DEFINE Inv == \A e \in Emails \ Seeds : Match(e)
<1>1. Init => Inv
  BY DEF Init, Match, Registered, RequestsOf, NoAccount
<1>2. TypeInv /\ Inv /\ [Next]_vars => Inv'
  BY MatchNext
<1>3. Inv => RequestsMatchAccounts
  BY DEF Match, RequestsMatchAccounts
<1> HIDE DEF Inv
<1> QED
  BY <1>1, <1>2, <1>3, TypeInit, TypeNext, PTL DEF Spec

(* Decisions *)

\* No step of any handler takes a decided account back to an undecided or
\* missing one.
THEOREM DecisionsAreFinal == Spec => DecisionsStand
<1>1. ASSUME TypeInv, [Next]_vars, NEW e \in Emails,
             users[e].status \in {"active", "rejected", "disabled"}
      PROVE  users'[e].status \in {"active", "rejected", "disabled"}
  <2>1. ASSUME NEW h \in Handlers,
               \/ RegisterCommit(h) \/ ApproveUser(h) \/ RejectUser(h)
               \/ ActivateUser(h) \/ DeactivateUser(h)
        PROVE  users'[e].status \in {"active", "rejected", "disabled"}
    BY <1>1, <2>1, AccountWritten DEF Registered
  <2> QED
    BY <1>1, <2>1, Writers
<1>2. TypeInv /\ [Next]_vars =>
        [\A e \in Emails :
           users[e].status \in {"active", "rejected", "disabled"}
             => users'[e].status \in {"active", "rejected", "disabled"}]_vars
  BY <1>1
<1> QED
  BY <1>2, TypeInit, TypeNext, PTL DEF Spec, DecisionsStand

(* Tokens *)

\* A super admin vouched for the account, or it was seeded.
Vouched(e) == e \in Seeds \/ (Registered(e) /\ users[e].verified)

\* Wherever a token exists, is about to be issued or may be asked for, its
\* account is vouched for.
TokenInv ==
    /\ \A e \in Emails : users[e].status = "active" => Vouched(e)
    /\ \A h \in Handlers : sess[h].pc = "issue" => Vouched(sess[h].email)
    /\ \A t \in tokens : Vouched(t.email)

LEMMA VouchedKept ==
    ASSUME TypeInv, [Next]_vars, NEW e \in Emails, Vouched(e)
    PROVE  Vouched(e)'
<1>1. ASSUME NEW h \in Handlers,
             \/ RegisterCommit(h) \/ ApproveUser(h) \/ RejectUser(h)
             \/ ActivateUser(h) \/ DeactivateUser(h)
      PROVE  Vouched(e)'
  BY <1>1, AccountWritten DEF Vouched, Registered
<1> QED
  BY <1>1, Writers DEF Vouched, Registered

LEMMA ActiveVouched ==
    ASSUME TypeInv, TokenInv, [Next]_vars, NEW e \in Emails,
           users'[e].status = "active"
    PROVE  Vouched(e)'
<1>1. ASSUME NEW h \in Handlers,
             \/ RegisterCommit(h) \/ ApproveUser(h) \/ RejectUser(h)
             \/ ActivateUser(h) \/ DeactivateUser(h)
      PROVE  Vouched(e)' \/ users'[e] = users[e]
  BY <1>1, AccountWritten DEF Vouched, Registered
<1>2. CASE users'[e] = users[e]
  BY <1>2, VouchedKept DEF TokenInv
<1> QED
  BY <1>1, <1>2, Writers

\* A handler about to issue a token was about to before, or has just read an
\* active account.
LEMMA IssueStep ==
    ASSUME TypeInv, [Next]_vars, NEW h \in Handlers, sess'[h].pc = "issue"
    PROVE  \/ sess'[h] = sess[h]
           \/ /\ sess'[h].email \in Emails
              /\ users[sess'[h].email].status = "active"
<1> USE DEF TypeInv, TypeOK
<1>1. ASSUME NEW g \in Handlers, Start(g, NoSession) \/ Stop(g)
      PROVE  sess'[h] = sess[h]
  BY <1>1 DEF Start, Stop, NoSession
<1>2. ASSUME NEW g \in Handlers, NEW s, Start(g, s), s.pc # "issue"
      PROVE  sess'[h] = sess[h]
  BY <1>2 DEF Start
<1>3. ASSUME NEW g \in Handlers, Begin(g)
      PROVE  \/ sess'[h] = sess[h]
             \/ /\ sess'[h].email \in Emails
                /\ users[sess'[h].email].status = "active"
  <2>1. ASSUME NEW e \in Emails, users[e].status = "active",
               Start(g, [NoSession EXCEPT !.pc = "issue", !.email = e,
                                          !.role = users[e].role])
        PROVE  \/ sess'[h] = sess[h]
               \/ /\ sess'[h].email \in Emails
                  /\ users[sess'[h].email].status = "active"
    BY <2>1 DEF Start, NoSession
  <2>2. ASSUME NEW e \in Emails, NEW o \in Orgs, NEW r \in RoleInputs,
               Register(g, e, o, r)
        PROVE  sess'[h] = sess[h]
    BY <1>2, <2>2 DEF Register, NoSession
  <2>3. ASSUME NEW a \in Emails, NEW e \in Emails, NEW op \in AdminPcs,
               NEW r, AdminRequest(g, a, op, e, r)
        PROVE  sess'[h] = sess[h]
    BY <1>2, <2>3 DEF AdminRequest, NoSession, AdminPcs
  <2>4. \A t \in tokens : t.email \in Emails
    BY DEF Token
  <2> QED
    BY <1>3, <2>1, <2>2, <2>3, <2>4 DEF Begin, LoginRead, MeRead, AdminPcs
<1>4. ASSUME NEW g \in Handlers, Continue(g) \/ Abort(g)
      PROVE  sess'[h] = sess[h]
  BY <1>1, <1>4
     DEF Continue, Abort, RegisterCommit, RegisterConflict, IssueToken,
         ApproveUser, RejectUser, ActivateUser, DeactivateUser, AdminNotFound
<1> QED
  BY <1>3, <1>4 DEF Next, vars, Expire

LEMMA TokenNext == TypeInv /\ TokenInv /\ [Next]_vars => TokenInv'
<1> SUFFICES ASSUME TypeInv, TokenInv, [Next]_vars
             PROVE  TokenInv'
  OBVIOUS
<1>1. ASSUME NEW e \in Emails, users'[e].status = "active"
      PROVE  Vouched(e)'
  BY <1>1, ActiveVouched
<1>2. ASSUME NEW h \in Handlers, sess'[h].pc = "issue"
      PROVE  Vouched(sess[h].email)'
  <2>1. CASE sess'[h] = sess[h]
    <3>1. PICK e \in Emails : e = sess[h].email
      BY <1>2, <2>1 DEF TypeInv, SessionsInUse
    <3>2. Vouched(e)
      BY <1>2, <2>1, <3>1 DEF TokenInv
    <3>3. Vouched(e)'
      BY <3>2, VouchedKept
    <3> QED
      BY <2>1, <3>1, <3>3 DEF Vouched, Registered
  <2>2. ASSUME NEW e \in Emails, e = sess'[h].email,
               users[e].status = "active"
        PROVE  Vouched(sess[h].email)'
    <3>1. Vouched(e)'
      BY <2>2, VouchedKept DEF TokenInv
    <3> QED
      BY <2>2, <3>1 DEF Vouched, Registered
  <2> QED
    BY <1>2, <2>1, <2>2, IssueStep
<1>3. ASSUME NEW t \in tokens'
      PROVE  Vouched(t.email)'
  <2>1. CASE t \in tokens
    <3>1. t.email \in Emails /\ Vouched(t.email)
      BY <2>1 DEF TypeInv, TypeOK, Token, TokenInv
    <3> QED
      BY <3>1, VouchedKept
  <2>2. ASSUME NEW h \in Handlers, IssueToken(h), t.email = sess[h].email
        PROVE  Vouched(t.email)'
    <3>1. t.email \in Emails /\ Vouched(t.email)
      BY <2>2 DEF IssueToken, TypeInv, SessionsInUse, TokenInv
    <3> QED
      BY <3>1, VouchedKept
  <2>3. t \in tokens \/ \E h \in Handlers :
          IssueToken(h) /\ t.email = sess[h].email
    <3>1. ASSUME NEW h \in Handlers, Begin(h) \/ Abort(h)
          PROVE  UNCHANGED tokens
      BY <3>1 DEF Begin, Abort, Register, LoginRead, MeRead, AdminRequest
    <3>2. ASSUME NEW h \in Handlers, Continue(h)
          PROVE  UNCHANGED tokens \/ IssueToken(h)
      BY <3>2 DEF Continue, RegisterCommit, RegisterConflict, ApproveUser,
                  RejectUser, ActivateUser, DeactivateUser, AdminNotFound
    <3>3. ASSUME NEW h \in Handlers, IssueToken(h)
          PROVE  t \in tokens \/ t.email = sess[h].email
      BY <3>3 DEF IssueToken
    <3> QED
      BY <3>1, <3>2, <3>3 DEF Next, vars, Expire
  <2> QED
    BY <2>1, <2>2, <2>3
<1> QED
  BY <1>1, <1>2, <1>3 DEF TokenInv

\* A token was issued only for an account a super admin vouched for: no race
\* of registration, login, decision and refresh lets an undecided account in.
THEOREM TokensVouched == Spec => []TokensFollowApproval
<1>1. Init => TokenInv
  BY DEF Init, TokenInv, Vouched, NoAccount, NoSession
<1>2. TokenInv => TokensFollowApproval
  BY DEF TokenInv, Vouched, TokensFollowApproval
<1> QED
  BY <1>1, <1>2, TypeInit, TypeNext, TokenNext, PTL DEF Spec
=============================================================================
