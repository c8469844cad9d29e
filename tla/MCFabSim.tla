------------------------------ MODULE MCFabSim ------------------------------
(* Instances of FabSim for TLC. *)
EXTENDS FabSim

CONSTANTS c1, c2, w1, w2, w3, l1, l2, j1, j2, r1, r2

Call(l, ws, j, r) == [lot |-> l, wafers |-> ws, job |-> j, recipe |-> r]

(* One lot of two wafers, one job. *)
OneLot == {Call(l1, <<w1, w2>>, j1, r1)}

(* Two lots, each with a job of its own. *)
TwoLots == {Call(l1, <<w1>>, j1, r1), Call(l2, <<w2>>, j2, r1)}

(* Calls that collide on a wafer, on a lot or on a job, and an empty lot. *)
Colliding == {Call(l1, <<w1, w2>>, j1, r1), Call(l2, <<w3, w2>>, j2, r1),
              Call(l2, <<w3, w3>>, j2, r1), Call(l1, <<w3>>, j2, r1),
              Call(l2, <<w3>>, j1, r1), Call(l2, <<>>, j2, r2)}

Temp(v) == <<"TEMP_OFFSET_C", [fmt |-> "F8", v |-> v]>>

(* On the edge of 2x tolerance (runnable) and just beyond it. *)
TempEdge == {Temp(600), Temp(601)}
TempDrift == {Temp(0), Temp(700)}
NoWrites == {}
=============================================================================
