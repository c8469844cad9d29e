--------------------------- MODULE LithoBackends ---------------------------
(***************************************************************************)
(* The four patterning backends: the plan each makes for a layer against   *)
(* its overlay and dose budgets, the consumables whose wear is recorded    *)
(* after a cycle, and the health derived from them.  One backend is        *)
(* installed and used by several hands: a cycle is recorded some time      *)
(* after its plan was made, and other plans may be made in between.        *)
(*                                                                         *)
(* Quantities are integers: doses in 1/100 mJ/cm2, overlay in 1/10 nm and  *)
(* combined as squares, NA in 1/100, wavelength in 1/10 nm.                *)
(***************************************************************************)
EXTENDS Integers, Sequences, SequencesExt

CONSTANTS
  Configs,      \* configurations offered to the constructors
  Requests,     \* layers with their budgets
  Forces, Densities,  \* what record_cycle is told
  MaxInFlight,  \* bound on plans whose cycles are not recorded yet
  MaxCycles     \* bound on the cycles recorded

(* Lives, latitudes, layers and budgets are never negative; the other fields *)
(* are whatever a caller gives.  `nan` names those that are no number; they  *)
(* are written 0, as is what is computed from them.                          *)
ASSUME LithoAssumption ==
  /\ {MaxInFlight, MaxCycles} \subseteq Nat
  /\ Configs \subseteq
       [tech : {"duv-multi-pattern"}, scheme : {"Lele", "Lelele", "Sadp"}, wavelength : Int,
        na : Int, overlay : Int, dose : Int, nan : SUBSET {"wavelength", "na", "overlay", "dose"}]
       \cup [tech : {"euv"}, wavelength : Int, na : Int, dose : Int, latitude : Nat, life : Nat,
              nan : SUBSET {"wavelength", "na", "dose", "latitude"}]
       \cup [tech : {"nil"}, dose : Int, low : Int, high : Int, life : Nat, limit : Int,
              nan : SUBSET {"dose", "low", "high", "limit"}]
       \cup [tech : {"ebeam"}, current : Int, field : Int, subfield : Int, passes : Nat,
              nan : SUBSET {"current", "field", "subfield"}]
  /\ \A c \in Configs : \A f \in c.nan : c[f] = 0
  /\ Requests \subseteq [pitch : Nat, corners : Nat, overlay : Nat, dose : Nat]

VARIABLES
  config,    \* of the installed backend
  used,      \* exposures, imprints or fields recorded
  delivered, \* EUV dose ledger
  density,   \* NIL template defects
  force,     \* NIL last separation force, or NoForce
  request, plan,   \* the request just answered, and the answer
  inFlight   \* plans made whose cycle is not recorded

lithoVars == <<config, used, delivered, density, force, request, plan, inFlight>>

-----------------------------------------------------------------------------
(* Configurations *)

Duv(scheme, na, overlay, dose) ==
  [tech |-> "duv-multi-pattern", scheme |-> scheme, wavelength |-> 1930, na |-> na,
   overlay |-> overlay, dose |-> dose, nan |-> {}]
Euv(na, dose, latitude, life) ==
  [tech |-> "euv", wavelength |-> 135, na |-> na, dose |-> dose, latitude |-> latitude,
   life |-> life, nan |-> {}]
Nil(dose, low, high, life, limit) ==
  [tech |-> "nil", dose |-> dose, low |-> low, high |-> high, life |-> life, limit |-> limit,
   nan |-> {}]
Ebeam(current, field, subfield, passes) ==
  [tech |-> "ebeam", current |-> current, field |-> field, subfield |-> subfield,
   passes |-> passes, nan |-> {}]

(* Mutant: nothing is checked. *)
ValidAlways(c) == TRUE

(* What new() accepts.  A NaN is neither too small nor too large, so what is *)
(* refused for being out of its range is accepted when it is no number; only *)
(* the window of NIL must be in order.  No wavelength is refused.            *)
Positive(c, f) == f \in c.nan \/ c[f] > 0

Valid(c) ==
  CASE c.tech = "duv-multi-pattern" -> /\ "na" \in c.nan \/ c.na \in 1 .. 160
                                       /\ Positive(c, "overlay") /\ Positive(c, "dose")
    [] c.tech = "euv"   -> /\ "na" \in c.nan \/ c.na \in 1 .. 70
                           /\ Positive(c, "dose") /\ c.life # 0
    [] c.tech = "nil"   -> /\ {"low", "high"} \cap c.nan = {} /\ c.low > 0 /\ c.low < c.high
                           /\ Positive(c, "dose") /\ c.life # 0
    [] c.tech = "ebeam" -> /\ Positive(c, "field") /\ Positive(c, "subfield")
                           /\ \/ {"field", "subfield"} \cap c.nan # {}
                              \/ c.subfield <= c.field /\ c.field % c.subfield = 0
                           /\ c.passes # 0 /\ Positive(c, "current")

(* Whether what a plan declares is a number. *)
DoseIsNumber(c) == {"dose", "latitude", "current"} \cap c.nan = {}
OverlayIsNumber(c) == "overlay" \notin c.nan

-----------------------------------------------------------------------------
(* Plans *)

Step(kind, dose, overlay) == [kind |-> kind, dose |-> dose, overlay |-> overlay]

Total(numbers) ==
  LET upTo[i \in 0 .. Len(numbers)] == IF i = 0 THEN 0 ELSE upTo[i - 1] + numbers[i]
  IN  upTo[Len(numbers)]

DoseOf(steps) == Total([i \in DOMAIN steps |-> steps[i].dose])
OverlaySq(steps) == Total([i \in DOMAIN steps |-> steps[i].overlay * steps[i].overlay])

Plan(steps, dose) ==
  [ok |-> TRUE, reason |-> "", steps |-> steps, overlaySq |-> OverlaySq(steps), dose |-> dose]
Refusal(reason) ==
  [ok |-> FALSE, reason |-> reason, steps |-> <<>>, overlaySq |-> 0, dose |-> 0]
NoRequest == [pitch |-> 0, corners |-> 0, overlay |-> 0, dose |-> 0]
NoPlan == Refusal("no plan asked for")

LithoPasses == [Lele |-> 2, Lelele |-> 3, Sadp |-> 1]

(* Cuts of corner-dense layers: one for each pass beyond the first. *)
Cuts(c, layer) ==
  [i \in 1 .. (IF layer.corners > 0 THEN LithoPasses[c.scheme] - 1 ELSE 0) |->
     Step("Cut", (c.dose * 8) \div 10, c.overlay)]

Passes(c) ==
  IF c.scheme = "Sadp" THEN <<Step("Exposure", c.dose, c.overlay), Step("Spacing", 0, 0)>>
  ELSE [i \in 1 .. LithoPasses[c.scheme] |-> Step("Exposure", c.dose, c.overlay)]

(* k1 = pitch * NA / wavelength is below what can be printed; `a` and `b`    *)
(* scale both sides.  A negative wavelength makes it negative, none at all   *)
(* or a NaN is no reason to refuse.                                          *)
TooTight(c, a, b) ==
  {"wavelength", "na"} \cap c.nan = {} /\ (c.wavelength < 0 \/ a < b * c.wavelength)

(* Mutant: the cuts are added after the budgets are checked. *)
PlanDuvCutsLate(c, r) ==
  IF TooTight(c, 2 * r.pitch * c.na, 5) THEN Refusal("pitch")
  ELSE IF OverlaySq(Passes(c)) > r.overlay * r.overlay THEN Refusal("overlay")
  ELSE IF DoseOf(Passes(c)) > r.dose THEN Refusal("dose")
  ELSE Plan(Passes(c) \o Cuts(c, r), DoseOf(Passes(c) \o Cuts(c, r)))

(* k1 below 0.25 is not printable; overlay is checked before dose, and what  *)
(* is no number exceeds neither budget.                                      *)
PlanDuv(c, r) ==
  LET steps == Passes(c) \o Cuts(c, r)
  IN  IF TooTight(c, 2 * r.pitch * c.na, 5) THEN Refusal("pitch")
      ELSE IF OverlaySq(steps) > r.overlay * r.overlay THEN Refusal("overlay")
      ELSE IF DoseOf(steps) > r.dose THEN Refusal("dose")
      ELSE Plan(steps, DoseOf(steps))

EuvDose(c) == IF DoseIsNumber(c) THEN (c.dose * (100 + c.latitude)) \div 100 ELSE 0

(* Mutant: the dose is what the layer allows. *)
PlanEuvFills(c, r) ==
  IF TooTight(c, r.pitch * c.na, 2) THEN Refusal("pitch")
  ELSE IF EuvDose(c) > r.dose THEN Refusal("dose")
  ELSE Plan(<<Step("Exposure", r.dose, 0)>>, r.dose)

(* k1 below 0.2; the dose with its latitude. *)
PlanEuv(c, r) ==
  IF TooTight(c, r.pitch * c.na, 2) THEN Refusal("pitch")
  ELSE IF EuvDose(c) > r.dose THEN Refusal("dose")
  ELSE Plan(<<Step("Exposure", EuvDose(c), 0)>>, EuvDose(c))

Minus(a, b) == IF a > b THEN a - b ELSE 0   \* saturating_sub
Remaining == Minus(config.life, used)
NoForce == -1

(* More defects than the limit, if that is a number. *)
Defective(c) == "limit" \notin c.nan /\ density > c.limit

(* Mutant: the template's life is not looked at. *)
PlanNilForever(c, r) ==
  IF Defective(c) THEN Refusal("template")
  ELSE IF force # NoForce /\ force \notin c.low .. c.high THEN Refusal("template")
  ELSE IF c.dose > r.dose THEN Refusal("dose")
  ELSE Plan(<<Step("Imprint", 0, 0), Step("Cure", c.dose, 0), Step("Separation", 0, 0)>>, c.dose)

(* Template defects, the last separation, the template's life, the dose. *)
PlanNil(c, r) ==
  IF Defective(c) THEN Refusal("template")
  ELSE IF force # NoForce /\ force \notin c.low .. c.high THEN Refusal("template")
  ELSE IF Remaining = 0 THEN Refusal("template")
  ELSE IF c.dose > r.dose THEN Refusal("dose")
  ELSE Plan(<<Step("Imprint", 0, 0), Step("Cure", c.dose, 0), Step("Separation", 0, 0)>>, c.dose)

(* 80 mJ/cm2 at the 10 nA reference, divided over the passes, of which the   *)
(* plan counts one.                                                          *)
PerPassDose(c) == IF DoseIsNumber(c) THEN ((8000 * 10) \div c.current) \div c.passes ELSE 0

PlanEbeam(c, r) ==
  IF PerPassDose(c) > r.dose THEN Refusal("dose")
  ELSE Plan(<<Step("Write", PerPassDose(c), 0)>>, PerPassDose(c))

PlanExposure(c, r) ==
  CASE c.tech = "duv-multi-pattern" -> PlanDuv(c, r)
    [] c.tech = "euv"   -> PlanEuv(c, r)
    [] c.tech = "nil"   -> PlanNil(c, r)
    [] c.tech = "ebeam" -> PlanEbeam(c, r)

-----------------------------------------------------------------------------
(* Health *)

EuvHealth ==
  IF 20 * Remaining <= config.life THEN "Down"
  ELSE IF 5 * Remaining <= config.life THEN "Degraded" ELSE "Nominal"

(* Mutant: the template is down one imprint early. *)
NilHealthEarly ==
  IF Remaining <= 1 \/ Defective(config) THEN "Down"
  ELSE IF 10 * Remaining <= config.life THEN "Degraded" ELSE "Nominal"

NilHealth ==
  IF Remaining = 0 \/ Defective(config) THEN "Down"
  ELSE IF 10 * Remaining <= config.life THEN "Degraded" ELSE "Nominal"

Health ==
  CASE config.tech = "euv" -> EuvHealth
    [] config.tech = "nil" -> NilHealth
    [] OTHER               -> "Nominal"

-----------------------------------------------------------------------------

LithoInit ==
  /\ config \in {c \in Configs : Valid(c)}
  /\ used = 0 /\ delivered = 0 /\ density = 0 /\ force = NoForce
  /\ request = NoRequest /\ plan = NoPlan /\ inFlight = 0

(* plan_exposure: what it returns depends on the state, and changes none. *)
AskForPlan ==
  /\ inFlight < MaxInFlight
  /\ request' \in Requests
  /\ plan' = PlanExposure(config, request')
  /\ inFlight' = IF plan'.ok THEN inFlight + 1 ELSE inFlight
  /\ UNCHANGED <<config, used, delivered, density, force>>

Recorded ==
  /\ inFlight > 0 /\ used < MaxCycles
  /\ used' = used + 1 /\ inFlight' = inFlight - 1
  /\ request' = NoRequest /\ plan' = NoPlan
  /\ UNCHANGED config

(* EuvBackend::record_exposure, with the dose of a planned exposure. *)
RecordExposure ==
  /\ config.tech = "euv" /\ Recorded
  /\ delivered' = delivered + EuvDose(config)
  /\ UNCHANGED <<density, force>>

(* NilBackend::record_cycle; what it recorded of an earlier cycle is gone.   *)
RecordCycle ==
  /\ config.tech = "nil" /\ Recorded
  /\ force' \in Forces /\ density' \in Densities
  /\ UNCHANGED delivered

(* EbeamBackend::record_write; the DUV backend has nothing to record. *)
RecordWrite ==
  /\ config.tech = "ebeam" /\ Recorded
  /\ UNCHANGED <<delivered, density, force>>

LithoNext == AskForPlan \/ RecordExposure \/ RecordCycle \/ RecordWrite

=============================================================================
