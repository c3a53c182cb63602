------------------------------- MODULE Roles -------------------------------
(***************************************************************************)
(* The role to permission table of the regulator API (auth.rs,            *)
(* permissions_for_role).  A handler asks for one permission and the      *)
(* caller's token carries the permissions of the role it was issued for.  *)
(***************************************************************************)

RoleNames == {"super_admin", "admin", "institution_admin",
              "transaction_submitter", "transaction_reviewer",
              "regulator", "auditor"}

\* What a reviewer of bank transactions may do; institution_admin has the same
\* permissions and may create transactions as well.
ReviewerPermissions ==
    {"transactions:read", "transactions:review", "transactions:approve",
     "transactions:reject", "transactions:screen",
     "transactions:flag_suspicious", "proofs:generate",
     "cases:read", "cases:respond", "screening:read"}

PermissionsForRole(role) ==
    CASE role = "super_admin" ->
           {"users:approve", "users:manage", "organizations:manage",
            "roles:read", "audit:read", "compliance:read",
            "cases:read", "cases:update", "system:admin"}
      [] role = "admin" ->
           {"system:read", "services:read", "retention:read",
            "evidence:read", "audit:read", "compliance:read"}
      [] role = "institution_admin" ->
           ReviewerPermissions \union {"transactions:create"}
      [] role = "transaction_submitter" ->
           {"transactions:create", "transactions:read_own",
            "screening:read_own"}
      [] role = "transaction_reviewer" -> ReviewerPermissions
      [] role = "regulator" ->
           {"proofs:read", "proofs:verify", "audit:read", "compliance:read",
            "cases:create", "cases:read", "cases:update"}
      [] role = "auditor" ->
           {"audit:read", "proofs:read", "compliance:read", "cases:read"}
      [] OTHER -> {}

Holds(role, permission) == permission \in PermissionsForRole(role)
=============================================================================
