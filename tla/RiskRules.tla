----------------------------- MODULE RiskRules -----------------------------
(***************************************************************************)
(* The bank-side AML rules of the regulator API, as sets of rule codes: a *)
(* payload is abstracted to the facts the rules look at.                  *)
(*                                                                         *)
(*   id            the tx_id string as the client sent it                 *)
(*   decodes       the encryption service can decode it (TransactionInput) *)
(*   institutions  both institutions are non-blank                        *)
(*   crossBank     the two institutions differ                            *)
(*   highAmount    amount >= 100000                                       *)
(*   overlaps      one of the overlap-count fields is positive            *)
(*   words         the indicator words its text contains                  *)
(***************************************************************************)

Rules == {"AMOUNT_HIGH_VALUE", "MISSING_PAYMENT_TRANSPARENCY",
          "CROSS_BORDER_TRANSFER", "SANCTIONS_SCREEN_ATTENTION",
          "HIGH_RISK_COUNTERPARTY", "CDD_INCOMPLETE",
          "SMPC_CROSS_BANK_OVERLAP"}

Words == {"watchlist", "sanction", "blocked", "high_risk",
          "counterparty_risk", "high_risk_counterparty",
          "shared_counterparty", "shared_counterparty_hash",
          "cdd_incomplete", "smpc_overlap"}

\* The rules search the payload's text, so a word also counts as every
\* indicator it has as a substring.
WithSubstrings(words) ==
    words
      \union (IF "high_risk_counterparty" \in words
                THEN {"high_risk"} ELSE {})
      \union (IF "shared_counterparty_hash" \in words
                THEN {"shared_counterparty"} ELSE {})

ContainsAny(p, needles) == WithSubstrings(p.words) \intersect needles # {}

RuleIf(condition, rule) == IF condition THEN {rule} ELSE {}

\* The rules evaluate_risk finds.  load_rule_hit always returns a hit (an
\* inactive rule with its default weight), so a condition that holds is a
\* triggered rule.
EvaluationHits(p) ==
    UNION { RuleIf(p.highAmount, "AMOUNT_HIGH_VALUE"),
            RuleIf(~ p.institutions, "MISSING_PAYMENT_TRANSPARENCY"),
            RuleIf(p.institutions /\ p.crossBank, "CROSS_BORDER_TRANSFER"),
            RuleIf(ContainsAny(p, {"watchlist", "sanction", "blocked",
                                   "high_risk"}),
                   "SANCTIONS_SCREEN_ATTENTION"),
            RuleIf(ContainsAny(p, {"counterparty_risk",
                                   "high_risk_counterparty",
                                   "shared_counterparty"}),
                   "HIGH_RISK_COUNTERPARTY"),
            RuleIf(ContainsAny(p, {"cdd_incomplete"}), "CDD_INCOMPLETE"),
            RuleIf(p.overlaps \/ ContainsAny(p, {"shared_counterparty_hash",
                                                 "smpc_overlap"}),
                   "SMPC_CROSS_BANK_OVERLAP") }

\* The rules run_screening adds after a successful submission.  Its response
\* carries no aggregate score, and its status, screened_match or
\* screened_clear, holds none of the words overlap, attention, watchlist and
\* sanction: only the payload decides.
ScreeningHits(p) ==
    UNION { RuleIf(p.overlaps \/ ContainsAny(p, {"shared_counterparty"}),
                   "SMPC_CROSS_BANK_OVERLAP"),
            RuleIf(ContainsAny(p, {"watchlist"}),
                   "SANCTIONS_SCREEN_ATTENTION") }

Payload(Ids) == [id : Ids, decodes : BOOLEAN, institutions : BOOLEAN,
                 crossBank : BOOLEAN, highAmount : BOOLEAN,
                 overlaps : BOOLEAN, words : SUBSET Words]
=============================================================================
