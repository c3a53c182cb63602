---------------------------- MODULE UserLifecycle ----------------------------
(***************************************************************************)
(* Accounts, approval requests and session tokens of the regulator API    *)
(* (auth.rs).  A handler awaits a read, decides, and awaits a write; other *)
(* handlers run in between.  register, approve_user and reject_user write *)
(* two tables in one database transaction, which is one step here.        *)
(*                                                                         *)
(* Accounts are named by their email (UNIQUE in app_users; a user_id is    *)
(* made once per row).  A token is its claims: a user and the role the     *)
(* account had when the token was issued.  It outlives every change of the *)
(* account and ends when it expires.                                       *)
(***************************************************************************)
EXTENDS Roles

CONSTANTS
    Emails,      \* normalised email addresses
    Seeds,       \* accounts seeded as active super admins
    NoEmail,
    Orgs,        \* active partner organizations
    OrgType,     \* the organization_type of each
    PlatformOrg, \* the seeded accounts' organization
    RoleInputs,  \* roles that requests ask for or assign
    Handlers,    \* request slots
    Faults       \* whether handlers may stop half-way

ASSUME UserAssumption ==
    /\ Seeds \subseteq Emails /\ NoEmail \notin Emails
    /\ PlatformOrg \in Orgs
    /\ OrgType \in [Orgs -> {"bank", "regulator", "auditor", "platform"}]
    /\ Faults \in BOOLEAN

VARIABLES
    users,    \* app_users, by email
    requests, \* user_approval_requests
    tokens,   \* claims of the issued tokens that have not expired
    sess      \* the running handlers

vars == <<users, requests, tokens, sess>>

AccountStatuses == {"pending_approval", "active", "rejected", "disabled"}

\* verified: identity_verified and approved_partner_scope, always set together.
Account == [status : AccountStatuses \union {"none"}, role : RoleNames,
            org : Orgs, verified : BOOLEAN,
            approvedBy : Emails \union {NoEmail}]

NoAccount == [status |-> "none", role |-> "auditor", org |-> PlatformOrg,
              verified |-> FALSE, approvedBy |-> NoEmail]

SeededAccount == [NoAccount EXCEPT !.status = "active", !.role = "super_admin"]

ApprovalRequest == [email : Emails, role : RoleNames,
                    status : {"pending_approval", "approved", "rejected"}]

Token == [email : Emails, role : RoleNames]

AdminPcs == {"approve", "reject", "activate", "deactivate"}

\* email and role: the account and the role the handler is about (the role
\* requested, assigned or read); admin: who the super admin of it is.
Session == [pc : {"idle", "register", "issue"} \union AdminPcs,
            email : Emails \union {NoEmail}, role : RoleNames,
            org : Orgs, admin : Emails \union {NoEmail}]

NoSession == [pc |-> "idle", email |-> NoEmail, role |-> "auditor",
              org |-> PlatformOrg, admin |-> NoEmail]

\* Statuses and roles are those the tables' CHECKs list.
TypeOK ==
    /\ users \in [Emails -> Account]
    /\ requests \subseteq ApprovalRequest
    /\ tokens \subseteq Token
    /\ sess \in [Handlers -> Session]

Registered(e) == users[e].status # "none"

RequestsOf(e) == {q \in requests : q.email = e}

Init ==
    /\ users = [e \in Emails |-> IF e \in Seeds THEN SeededAccount
                                               ELSE NoAccount]
    /\ requests = {}
    /\ tokens = {}
    /\ sess = [h \in Handlers |-> NoSession]

Start(h, s) == sess[h].pc = "idle" /\ sess' = [sess EXCEPT ![h] = s]
Stop(h) == sess' = [sess EXCEPT ![h] = NoSession]

-----------------------------------------------------------------------------
(* register *)

IsAllowedRequestedRole(role) ==
    role \in {"institution_admin", "transaction_submitter",
              "transaction_reviewer", "regulator", "auditor"}

RoleAllowedForOrganization(role, org) ==
    CASE OrgType[org] = "bank" ->
           role \in {"institution_admin", "transaction_submitter",
                     "transaction_reviewer"}
      [] OrgType[org] = "regulator" -> role = "regulator"
      [] OTHER -> role = "auditor"

\* Validation, the read of the email and that of the organization (which no
\* handler changes).
Register(h, e, org, role) ==
    /\ IsAllowedRequestedRole(role)
    /\ ~ Registered(e)
    /\ RoleAllowedForOrganization(role, org)
    /\ Start(h, [NoSession EXCEPT !.pc = "register", !.email = e,
                                  !.role = role, !.org = org])
    /\ UNCHANGED <<users, requests, tokens>>

\* Mutation of RegisterCommit: the insert is an upsert.
RegisterCommitUpsert(h) ==
    LET s == sess[h] IN
    /\ s.pc = "register"
    /\ users' = [users EXCEPT ![s.email] =
                   [status |-> "pending_approval", role |-> s.role,
                    org |-> s.org, verified |-> FALSE,
                    approvedBy |-> NoEmail]]
    /\ requests' = requests \union
         {[email |-> s.email, role |-> s.role, status |-> "pending_approval"]}
    /\ Stop(h)
    /\ UNCHANGED tokens

RegisterCommit(h) ==
    LET s == sess[h] IN
    /\ s.pc = "register"
    /\ ~ Registered(s.email)
    /\ users' = [users EXCEPT ![s.email] =
                   [status |-> "pending_approval", role |-> s.role,
                    org |-> s.org, verified |-> FALSE,
                    approvedBy |-> NoEmail]]
    /\ requests' = requests \union
         {[email |-> s.email, role |-> s.role, status |-> "pending_approval"]}
    /\ Stop(h)
    /\ UNCHANGED tokens

\* Another registration of the email came first: UNIQUE(email) refuses the
\* insert and the database transaction is rolled back.
RegisterConflict(h) ==
    /\ sess[h].pc = "register"
    /\ Registered(sess[h].email)
    /\ Stop(h)
    /\ UNCHANGED <<users, requests, tokens>>

-----------------------------------------------------------------------------
(* login, me *)

\* Mutation of LoginRead: only accounts waiting for approval are refused.
LoginReadUnlessPending(h, e) ==
    /\ users[e].status \in AccountStatuses \ {"pending_approval"}
    /\ Start(h, [NoSession EXCEPT !.pc = "issue", !.email = e,
                                  !.role = users[e].role])
    /\ UNCHANGED <<users, requests, tokens>>

\* The token takes its role from the account as it was read.
LoginRead(h, e) ==
    /\ users[e].status = "active"
    /\ Start(h, [NoSession EXCEPT !.pc = "issue", !.email = e,
                                  !.role = users[e].role])
    /\ UNCHANGED <<users, requests, tokens>>

\* Mutation of MeRead: the new token repeats the claims of the old one.
MeReadClaims(h, token) ==
    /\ token \in tokens
    /\ users[token.email].status = "active"
    /\ Start(h, [NoSession EXCEPT !.pc = "issue", !.email = token.email,
                                  !.role = token.role])
    /\ UNCHANGED <<users, requests, tokens>>

\* Any unexpired token is exchanged for a new one, with the account's role.
MeRead(h, token) ==
    /\ token \in tokens
    /\ users[token.email].status = "active"
    /\ Start(h, [NoSession EXCEPT !.pc = "issue", !.email = token.email,
                                  !.role = users[token.email].role])
    /\ UNCHANGED <<users, requests, tokens>>

IssueToken(h) ==
    /\ sess[h].pc = "issue"
    /\ tokens' = tokens \union {[email |-> sess[h].email,
                                 role |-> sess[h].role]}
    /\ Stop(h)
    /\ UNCHANGED <<users, requests>>

\* Tokens of one user and role are not told apart: this is the end of the
\* last of them.
Expire(token) ==
    /\ token \in tokens
    /\ tokens' = tokens \ {token}
    /\ UNCHANGED <<users, requests, sess>>

-----------------------------------------------------------------------------
(* approve_user, reject_user, activate_user, deactivate_user *)

\* require_super_admin: by the claims of a token, whatever became of the
\* account, or by the account named in the x-acting-user-email header.
ActsAsSuperAdmin(a) ==
    \/ [email |-> a, role |-> "super_admin"] \in tokens
    \/ users[a].role = "super_admin" /\ users[a].status = "active"

Assignable(role) == IsAllowedRequestedRole(role) \/ role = "admin"

AdminRequest(h, a, op, e, role) ==
    /\ ActsAsSuperAdmin(a)
    /\ Start(h, [NoSession EXCEPT !.pc = op, !.email = e, !.role = role,
                                  !.admin = a])
    /\ UNCHANGED <<users, requests, tokens>>

\* The decision on an account goes to its pending request; one decided before
\* keeps what it has.
Awaits(q, e) == q.email = e /\ q.status = "pending_approval"

Rejected(e) == {IF Awaits(q, e) THEN [q EXCEPT !.status = "rejected"] ELSE q
                  : q \in requests}

Approved(e, role) ==
    {IF Awaits(q, e) THEN [q EXCEPT !.status = "approved", !.role = role] ELSE q
       : q \in requests}

ApproveUser(h) ==
    LET s == sess[h] IN
    /\ s.pc = "approve"
    /\ users[s.email].status \in {"pending_approval", "rejected", "disabled"}
    /\ users' = [users EXCEPT ![s.email] =
                   [@ EXCEPT !.role = s.role, !.status = "active",
                             !.approvedBy = s.admin, !.verified = TRUE]]
    /\ requests' = Approved(s.email, s.role)
    /\ Stop(h)
    /\ UNCHANGED tokens

\* Mutation of RejectUser: accounts that are not pending are rejected too.
RejectUserAnyStatus(h) ==
    LET s == sess[h] IN
    /\ s.pc = "reject"
    /\ Registered(s.email)
    /\ users' = [users EXCEPT ![s.email].status = "rejected"]
    /\ requests' = Rejected(s.email)
    /\ Stop(h)
    /\ UNCHANGED tokens

RejectUser(h) ==
    LET s == sess[h] IN
    /\ s.pc = "reject"
    /\ users[s.email].status = "pending_approval"
    /\ users' = [users EXCEPT ![s.email].status = "rejected"]
    /\ requests' = Rejected(s.email)
    /\ Stop(h)
    /\ UNCHANGED tokens

\* Every account there is, with no regard to its status or request.
ActivateUser(h) ==
    LET s == sess[h] IN
    /\ s.pc = "activate"
    /\ Registered(s.email)
    /\ users' = [users EXCEPT ![s.email] =
                   [@ EXCEPT !.role = s.role, !.status = "active",
                             !.verified = TRUE]]
    /\ Stop(h)
    /\ UNCHANGED <<requests, tokens>>

\* Mutation of DeactivateUser: the word organizations use for their status.
DeactivateUserInactive(h) ==
    LET s == sess[h] IN
    /\ s.pc = "deactivate"
    /\ Registered(s.email)
    /\ users[s.email].role # "super_admin"
    /\ users' = [users EXCEPT ![s.email].status = "inactive"]
    /\ Stop(h)
    /\ UNCHANGED <<requests, tokens>>

DeactivateUser(h) ==
    LET s == sess[h] IN
    /\ s.pc = "deactivate"
    /\ Registered(s.email)
    /\ users[s.email].role # "super_admin"
    /\ users' = [users EXCEPT ![s.email].status = "disabled"]
    /\ Stop(h)
    /\ UNCHANGED <<requests, tokens>>

\* The UPDATE changed no row: 404, and the database transaction, if there is
\* one, is rolled back.
AdminNotFound(h) ==
    LET s == sess[h] IN
    /\ \/ /\ s.pc = "approve"
          /\ users[s.email].status \notin
               {"pending_approval", "rejected", "disabled"}
       \/ s.pc = "reject" /\ users[s.email].status # "pending_approval"
       \/ s.pc = "activate" /\ ~ Registered(s.email)
       \/ /\ s.pc = "deactivate"
          /\ ~ Registered(s.email) \/ users[s.email].role = "super_admin"
    /\ Stop(h)
    /\ UNCHANGED <<users, requests, tokens>>

-----------------------------------------------------------------------------

\* The client goes away, the statement fails or the API restarts before the
\* handler's write; a token already made may be lost with it.
Abort(h) ==
    /\ Faults
    /\ sess[h].pc # "idle"
    /\ Stop(h)
    /\ UNCHANGED <<users, requests, tokens>>

Begin(h) ==
    \/ \E e \in Emails, o \in Orgs, r \in RoleInputs : Register(h, e, o, r)
    \/ \E e \in Emails : LoginRead(h, e)
    \/ \E t \in tokens : MeRead(h, t)
    \/ \E a, e \in Emails :
         \/ \E op \in {"approve", "activate"}, r \in RoleInputs :
              Assignable(r) /\ AdminRequest(h, a, op, e, r)
         \/ \E op \in {"reject", "deactivate"} :
              AdminRequest(h, a, op, e, NoSession.role)

Continue(h) ==
    \/ RegisterCommit(h) \/ RegisterConflict(h)
    \/ IssueToken(h)
    \/ ApproveUser(h) \/ RejectUser(h) \/ ActivateUser(h)
    \/ DeactivateUser(h) \/ AdminNotFound(h)

Next ==
    \/ \E h \in Handlers : Begin(h) \/ Continue(h) \/ Abort(h)
    \/ \E t \in Token : Expire(t)

Spec == Init /\ [][Next]_vars

\* Handlers that run are continued, and every token expires, eight hours
\* after it was issued.  (Without Faults: a handler is never cut off.)
FairSpec ==
    /\ Spec
    /\ \A h \in Handlers : WF_vars(Continue(h))
    /\ \A t \in Token : WF_vars(Expire(t))

-----------------------------------------------------------------------------
(* Properties *)

\* Accounts and approval requests, written by five handlers in two tables,
\* tell one story: an account has one request and a request has its account;
\* an account that waits has a request that waits, a rejected one a rejected
\* request, and an approved request an account somebody approved.
RequestsMatchAccounts ==
    \A e \in Emails \ Seeds :
      /\ Registered(e) <=> RequestsOf(e) # {}
      /\ \A q, r \in RequestsOf(e) : q = r
      /\ \A q \in RequestsOf(e) :
           /\ users[e].status \in {"pending_approval", "rejected"}
                => q.status = users[e].status
           /\ q.status = "approved"
                => users[e].verified /\ users[e].approvedBy # NoEmail

\* A token was issued only for an account that a super admin verified, by
\* approving or activating it: no race of registration, login, decision and
\* refresh lets an undecided account in.
TokensFollowApproval ==
    \A t \in tokens : t.email \in Seeds \/ users[t.email].verified

\* Once decided, an account is never undecided again: a second registration
\* that read the email before the first one committed cannot undo a decision.
DecisionsStand ==
    [][\A e \in Emails :
         users[e].status \in {"active", "rejected", "disabled"}
           => users'[e].status \in {"active", "rejected", "disabled"}]_vars

\* The token, or a handler's about to be issued, is not what the account says.
Stale(t) ==
    /\ \/ t \in tokens
       \/ \E h \in Handlers : /\ sess[h].pc = "issue"
                              /\ sess[h].email = t.email
                              /\ sess[h].role = t.role
    /\ users[t.email].status # "active" \/ users[t.email].role # t.role

\* A token whose account was disabled or given another role does not live on:
\* me can exchange tokens again and again, but only for the account's role.
StaleTokensEnd == \A t \in Token : Stale(t) ~> ~ Stale(t)

-----------------------------------------------------------------------------
(* What the documentation and the messages of the code say, and the code     *)
(* does not do.                                                              *)

\* list_pending_users
Listed(e) ==
    \/ users[e].status = "pending_approval"
    \/ \E q \in RequestsOf(e) : q.status = "pending_approval"

\* Every entry of the pending list can be approved.  (activate_user leaves
\* the request pending; approve_user and reject_user then answer 404.)
ListedCanBeApproved ==
    \A e \in Emails :
      Listed(e) => users[e].status \in
                     {"pending_approval", "rejected", "disabled"}

=============================================================================
