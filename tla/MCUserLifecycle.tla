--------------------------- MODULE MCUserLifecycle ---------------------------
(* Values of the constants of UserLifecycle for TLC. *)
EXTENDS UserLifecycle

MCOrgType == [o \in {"bank_a", "platform"} |->
                IF o = "bank_a" THEN "bank" ELSE "platform"]
=============================================================================
