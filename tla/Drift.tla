------------------------------- MODULE Drift -------------------------------
(***************************************************************************)
(* Recipe drift detection (recipe.rs) and the equipment constants that     *)
(* feed it (sim.rs).  Real quantities are integers in hundredths of their  *)
(* unit, so the comparisons of Tolerance::classify are exact here; the     *)
(* code makes them in f64.                                                 *)
(***************************************************************************)
EXTENDS Integers

AbsVal(x) == IF x < 0 THEN -x ELSE x

DriftStatus == {"InSpec", "Tolerance", "OutOfSpec"}

(* The three parameters of the version a host download creates. *)
Parameter == {"chamber_temp_c", "chamber_pressure_mtorr", "process_time_s"}

Setpoint == [p \in Parameter |->
               CASE p = "chamber_temp_c"         -> 15000
                 [] p = "chamber_pressure_mtorr" -> 5000
                 [] p = "process_time_s"         -> 6000]

(* An absolute tolerance is in hundredths, a relative one in percent. *)
ToleranceOf == [p \in Parameter |->
                  CASE p = "chamber_temp_c"         -> [kind |-> "Absolute", v |-> 300]
                    [] p = "chamber_pressure_mtorr" -> [kind |-> "Absolute", v |-> 400]
                    [] p = "process_time_s"         -> [kind |-> "Relative", v |-> 5]]

(* Both sides are multiplied by 100, which keeps the relative case integral. *)
Allowed(tol, expected) ==
  IF tol.kind = "Absolute" THEN 100 * tol.v ELSE AbsVal(expected) * tol.v

(* Mutants: the tolerance itself is too much; readings below are never out. *)
ClassifyStrict(tol, expected, measured) ==
  LET dev == 100 * AbsVal(measured - expected)
  IN  IF dev < Allowed(tol, expected) THEN "InSpec"
      ELSE IF dev < 2 * Allowed(tol, expected) THEN "Tolerance" ELSE "OutOfSpec"
ClassifySigned(tol, expected, measured) ==
  LET dev == 100 * (measured - expected)
  IN  IF dev <= Allowed(tol, expected) THEN "InSpec"
      ELSE IF dev <= 2 * Allowed(tol, expected) THEN "Tolerance" ELSE "OutOfSpec"

Classify(tol, expected, measured) ==
  LET dev == 100 * AbsVal(measured - expected)
      allowed == Allowed(tol, expected)
  IN  IF dev <= allowed THEN "InSpec"
      ELSE IF dev <= 2 * allowed THEN "Tolerance" ELSE "OutOfSpec"

-----------------------------------------------------------------------------
(* Equipment constants: an item of any SECS-II format can be stored (S2F15 *)
(* checks none); only the formats below are read as numbers.               *)
ECID == {"TEMP_OFFSET_C", "PRESSURE_OFFSET_MTORR", "TIME_SCALE"}

ECItem == [fmt : {"F8", "F4", "U4", "other"}, v : Int]

ECInit == [id \in ECID |-> [fmt |-> "F8", v |-> IF id = "TIME_SCALE" THEN 100 ELSE 0]]

ECRead(ec, id) == IF ec[id].fmt \in {"F8", "F4", "U4"} THEN ec[id].v ELSE 0

TimeScale(ec) ==
  IF ECRead(ec, "TIME_SCALE") > 0 THEN ECRead(ec, "TIME_SCALE") ELSE 100

Measured(ec) == [p \in Parameter |->
                   CASE p = "chamber_temp_c" ->
                          Setpoint[p] + ECRead(ec, "TEMP_OFFSET_C")
                     [] p = "chamber_pressure_mtorr" ->
                          Setpoint[p] + ECRead(ec, "PRESSURE_OFFSET_MTORR")
                     [] p = "process_time_s" ->
                          (Setpoint[p] * TimeScale(ec)) \div 100]

(* DriftCheck::runnable on detect_drift: no parameter is out of spec. *)
Runnable(ec) ==
  \A p \in Parameter :
    Classify(ToleranceOf[p], Setpoint[p], Measured(ec)[p]) # "OutOfSpec"
=============================================================================
