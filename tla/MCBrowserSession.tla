-------------------------- MODULE MCBrowserSession --------------------------
EXTENDS BrowserSession, TLC
CONSTANTS ann, ben

\* A bank's administrator and an auditor: they share no page.
MCRoleOf == (ann :> "institution_admin") @@ (ben :> "auditor")
MCVisited == {"/dashboard", "/institution/dashboard", "/regulator/anomaly-cases"}
=============================================================================
