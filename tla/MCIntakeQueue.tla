--------------------------- MODULE MCIntakeQueue ---------------------------
(* Instances of IntakeQueue for TLC. *)
EXTENDS IntakeQueue

CONSTANTS u1, n1, b1, f1

(* Two usable reports, one of them with an infinite metric, one without      *)
(* sharing, one that does not parse.                                         *)
Mixed == u1 :> "usable" @@ f1 :> "usable" @@ n1 :> "noSharing" @@ b1 :> "unreadable"
=============================================================================
