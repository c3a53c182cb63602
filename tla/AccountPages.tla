---------------------------- MODULE AccountPages ----------------------------
(***************************************************************************)
(* The pages of the super admin, and registration.                         *)
(***************************************************************************)
EXTENDS PageScript

(* PendingUsersPage: runAction(action), and two buttons for it in each row. *)

PendingLoad == LoadScript({<<"users", "admin.listPendingUsers">>})

PendingRun(call) ==
    [Script EXCEPT
       !.hushes = {"error", "notice"}, !.steps = <<Step({<<"", call>>})>>,
       !.says = TRUE, !.then = "load"]

PendingView(v) ==
    PageView({"users"},
             {"load"} \union When(Shown(v, "users"), {"approve", "reject"}),
             {"users"})

(* UserManagementPage *)

UsersLoad ==
    LoadScript({<<"users", "admin.listUsers">>, <<"roles", "admin.listRoles">>})

UsersRun(call) ==
    [Script EXCEPT
       !.hushes = {"error", "notice"}, !.steps = <<Step({<<"", call>>})>>,
       !.says = TRUE, !.then = "load"]

\* The buttons are in the rows of those who are not super admins.
UsersView(v) ==
    PageView({"users", "roles"},
             {"load"} \union When(Shown(v, "users"), {"activate", "deactivate"}),
             {"users", "roles"})

(* OrganizationManagementPage, RoleManagementPage, SuperAdminDashboardPage *)

OrganizationsLoad == LoadScript({<<"organizations", "admin.listOrganizations">>})
OrganizationsView(v) == PageView({"organizations"}, {"load"}, {"organizations"})

RolesLoad == LoadScript({<<"roles", "admin.listRoles">>})
RolesView(v) == PageView({"roles"}, {}, {"roles"})

GovernanceLoad ==
    LoadScript({<<"users", "admin.listUsers">>,
                <<"organizations", "admin.listOrganizations">>,
                <<"roles", "admin.listRoles">>})
GovernanceView(v) ==
    PageView({"users", "organizations", "roles"}, {}, {"users"})

(* RegisterPage *)

RegisterSubmit ==
    [LoadScript({<<"response", "auth.register">>}) EXCEPT
       !.resets = {"response"}]

RegisterView(v) ==
    PageView({"response"}, When("loading" \notin v.busy, {"submit"}), {})
=============================================================================
