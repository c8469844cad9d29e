------------------------- MODULE MCOutcomeExchange -------------------------
(* Instances of OutcomeExchange for TLC. *)
EXTENDS OutcomeExchange, TLC

CONSTANTS f1, f2, f3

(* One fab is up to date, one a version behind, one a version ahead. *)
Mixed == f1 :> "0.2" @@ f2 :> "0.1" @@ f3 :> "0.3"
=============================================================================
