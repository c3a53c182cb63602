--------------------------- MODULE MCAnomalyCases ---------------------------
(* Values of the constants of AnomalyCases for TLC. *)
EXTENDS AnomalyCases, TLC

\* A regulator and a reviewer of each of two banks.
MCUsers == {"reg", "rea", "bea"}
MCRoleOf == [u \in MCUsers |-> IF u = "reg" THEN "regulator"
                                           ELSE "transaction_reviewer"]
MCOrgOf == [u \in MCUsers |-> CASE u = "reg" -> "authority"
                                [] u = "bea" -> "bank_b"
                                [] u = "rea" -> "bank_a"]
MCOrgs == {"bank_a", "bank_b", "authority"}
MCInvolved == [t \in {"t1"} |-> {"bank_a"}]

\* low and high
MCRuleSets == {{}, {"SANCTIONS_SCREEN_ATTENTION", "HIGH_RISK_COUNTERPARTY"}}

\* Nobody besides the institutions, the second bank as well, a wrong id.
MCIdLists == {{}, {"bank_b"}, {"nowhere"}}

CaseSymmetry == Permutations(CaseIds) \union Permutations(Calls)
=============================================================================
