---------------------------- MODULE MCScreening ----------------------------
(* Instances of Screening for TLC. *)
EXTENDS Screening

Report(y, g, e) == [metric \in Metric |-> CASE metric = "yield" -> y
                                            [] metric = "geometry" -> g
                                            [] metric = "electrical" -> e]

(* Yield and ratio in percent, deviation in nm: honest reports, with and    *)
(* without entries; outliers on either side, near and far; infinite entries. *)
Arrivals == {Report(90, 2, Absent), Report(91, 1, 99), Report(92, 2, 98),
             Report(91, Absent, 99), Report(20, 20, 98), Report(99, 2, NaN),
             Report(91, NaN, 180)}

Usual == [metric \in Metric |-> CASE metric = "yield" -> [low |-> 90, high |-> 92]
                                   [] metric = "geometry" -> [low |-> 1, high |-> 2]
                                   [] metric = "electrical" -> [low |-> 98, high |-> 100]]
=============================================================================
