------------------------------ MODULE RiskScore ------------------------------
(***************************************************************************)
(* What the regulator API makes of a set of triggered rules: the score is  *)
(* the sum of their weights, and two thresholds give level and status.    *)
(***************************************************************************)
EXTENDS RiskRules, Integers, FiniteSetsExt

Weight ==
    [r \in Rules |->
       CASE r \in {"AMOUNT_HIGH_VALUE", "CDD_INCOMPLETE"} -> 25
         [] r = "CROSS_BORDER_TRANSFER" -> 15
         [] r \in {"MISSING_PAYMENT_TRANSPARENCY",
                   "HIGH_RISK_COUNTERPARTY"} -> 30
         [] r = "SMPC_CROSS_BANK_OVERLAP" -> 35
         [] r = "SANCTIONS_SCREEN_ATTENTION" -> 50]

Score(rules) == MapThenSumSet(LAMBDA r : Weight[r], rules)

RiskLevels == {"low", "medium", "high"}

RiskLevelForScore(score) ==
    CASE score >= 70 -> "high"
      [] score >= 40 /\ ~ (score >= 70) -> "medium"
      [] OTHER -> "low"
=============================================================================
