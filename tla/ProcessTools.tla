---------------------------- MODULE ProcessTools ----------------------------
(***************************************************************************)
(* A layer on its way through the tools: the installed backend plans and   *)
(* wears (LithoBackends), the OPC engine biases the layer's features for   *)
(* that backend's technology, an etch or a deposition is simulated on the  *)
(* five sites, and thermal steps add up against their budget.  The tools   *)
(* keep nothing, so a state holds the answer of the last one asked.        *)
(*                                                                         *)
(* Values of a simulated site are multiplied by 300, so that the site's    *)
(* share of a non-uniformity in percent is a whole number; a bias is a     *)
(* fraction of two integers.                                               *)
(***************************************************************************)
EXTENDS LithoBackends

CONSTANTS
  Films,        \* etch and deposition steps
  Heats,        \* thermal steps: temperature times minutes
  ThermalBudget,
  MaxHeats,     \* bound on the thermal steps
  MaxLineBias   \* of the OPC engine, in nm (6 in the code)

(* Depths, thicknesses and dimensions are positive, a window has a lower    *)
(* and an upper edge, and no step cools.                                    *)
ASSUME ToolsAssumption ==
  /\ {ThermalBudget, MaxHeats, MaxLineBias} \subseteq Nat
  /\ Heats \subseteq Nat
  /\ Films \subseteq
       [kind : {"etch", "deposition"}, target : Nat \ {0}, nu : Nat, window : [min : Int, max : Int],
        cd : Nat, cdWindow : [min : Int, max : Int]]
  /\ \A f \in Films : f.window.min <= f.window.max /\ f.cdWindow.min <= f.cdWindow.max

VARIABLES
  film, found,  \* the last film step simulated, and its violations
  heats         \* the thermal sequence

toolsVars == <<lithoVars, film, found, heats>>

-----------------------------------------------------------------------------
(* Process windows *)

Window(min, max) == [min |-> min, max |-> max]
Inside(w, v) == v \in w.min .. w.max

(* Mutant: the margin is taken to the lower edge. *)
MarginBelow(w, v) == IF Inside(w, v) THEN 0 ELSE v - w.min

Margin(w, v) == IF v < w.min THEN v - w.min ELSE IF v > w.max THEN v - w.max ELSE 0

(* A film step: target, non-uniformity in percent, window, and for an etch  *)
(* the critical dimension with its window.                                  *)
Deposition(target, nu, window) ==
  [kind |-> "deposition", target |-> target, nu |-> nu, window |-> window,
   cd |-> 0, cdWindow |-> window]
Etch(target, nu, window, cd, cdWindow) ==
  [kind |-> "etch", target |-> target, nu |-> nu, window |-> window,
   cd |-> cd, cdWindow |-> cdWindow]

(* Rate of each site less the nominal one, in percent. *)
Sites == [center |-> 0, north |-> 2, south |-> -2, east |-> 3, west |-> -3]

(* Mutant: the worst sites are left out. *)
AtSiteMild(x, f, site) == x * (300 + f.nu * (Sites[site] % 3))

(* 300 times the value x has at a site. *)
AtSite(x, f, site) == x * (300 + f.nu * Sites[site])

Violation(kind, site, value, w) ==
  [kind |-> kind, site |-> site, value |-> value, margin |-> Margin(w, value)]

Scaled(w) == Window(300 * w.min, 300 * w.max)

(* The violations of one quantity, over the sites. *)
OutOfWindow(kind, x, f, window) ==
  {Violation(kind, site, AtSite(x, f, site), Scaled(window)) :
     site \in {s \in DOMAIN Sites : ~Inside(Scaled(window), AtSite(x, f, s))}}

(* simulate_etch: the critical dimension grows with the depth. *)
SimulateEtch(f) == OutOfWindow("depth", f.target, f, f.window)
                     \cup OutOfWindow("cd", f.cd, f, f.cdWindow)

SimulateDeposition(f) == OutOfWindow("thickness", f.target, f, f.window)

(* Mutant: only the last step heats. *)
HeatLast(sequence) == IF sequence = <<>> THEN 0 ELSE Last(sequence)

(* simulate_thermal *)
Heat(sequence) == Total(sequence)
SimulateThermal(sequence) ==
  IF Heat(sequence) > ThermalBudget
  THEN {[kind |-> "thermal", site |-> "wafer", value |-> Heat(sequence),
         margin |-> Heat(sequence) - ThermalBudget]}
  ELSE {}

-----------------------------------------------------------------------------
(* OPC *)

FeatureKinds == {"Line", "Space", "LineEnd", "Corner", "Via", "Island"}
Isolated == 0
Bias(num, den) == [num |-> num, den |-> den]
NoBias == Bias(0, 1)

(* Illumination::for_tech: reference optics, not the backend's. *)
Illumination ==
  [tech \in {"duv-multi-pattern", "euv"} |->
     IF tech = "euv" THEN [wavelength |-> 135, na |-> 33] ELSE [wavelength |-> 1930, na |-> 135]]

(* Mutant: the tightness is not scaled. *)
DenseBiasFull(illum, pitch) == Bias(MaxLineBias, 1)

(* A line of a dense pitch: the tighter below k1 = 0.35, the more. *)
DenseBias(illum, pitch) ==
  IF 2 * pitch * illum.na < 7 * illum.wavelength
  THEN Bias(MaxLineBias * (7 * illum.wavelength - 2 * pitch * illum.na), 7 * illum.wavelength)
  ELSE NoBias

(* analyze, for one feature; no suggestion is a bias of zero. *)
Analyze(tech, kind, pitch) ==
  IF tech \notin DOMAIN Illumination THEN NoBias
  ELSE CASE kind \in {"Line", "Space"} /\ pitch = Isolated -> Bias(MaxLineBias, 2)
         [] kind = "Line" /\ pitch # Isolated -> DenseBias(Illumination[tech], pitch)
         [] kind = "Space" /\ pitch # Isolated ->
              LET b == DenseBias(Illumination[tech], pitch) IN Bias(-b.num, b.den)
         [] kind = "LineEnd" -> Bias(12, 1)
         [] kind = "Corner"  -> Bias(8, 1)
         [] kind = "Via"     -> Bias(4, 1)
         [] kind = "Island"  -> Bias(MaxLineBias, 2)

LeqBias(a, b) == a.num * b.den <= b.num * a.den

(* The backend has the optics that the OPC engine takes it to have. *)
HasReferenceOptics ==
  /\ config.wavelength = Illumination[config.tech].wavelength
  /\ config.na = Illumination[config.tech].na

-----------------------------------------------------------------------------

NoFilm == Deposition(0, 0, Window(0, 0))

ToolsInit == LithoInit /\ film = NoFilm /\ found = {} /\ heats = <<>>

(* The backend's wear stays while another tool is asked. *)
OtherTool ==
  /\ request' = NoRequest /\ plan' = NoPlan
  /\ UNCHANGED <<config, used, delivered, density, force, inFlight>>

SimulateFilm ==
  /\ film' \in Films /\ heats' = <<>>
  /\ found' = IF film'.kind = "etch" THEN SimulateEtch(film') ELSE SimulateDeposition(film')
  /\ OtherTool

AddHeat ==
  /\ Len(heats) < MaxHeats
  /\ \E h \in Heats : heats' = Append(heats, h)
  /\ film' = NoFilm /\ found' = {}
  /\ OtherTool

UseBackend == LithoNext /\ film' = NoFilm /\ found' = {} /\ heats' = <<>>

ToolsNext == UseBackend \/ SimulateFilm \/ AddHeat

ToolsSpec == ToolsInit /\ [][ToolsNext]_toolsVars

-----------------------------------------------------------------------------
(* Properties *)

(* The installed backend is one whose optics, window or life mean something *)
(* (new() refused the others), and its wear and plans are of their types.   *)
ToolsTypeOK ==
  /\ config \in Configs /\ request \in Requests \cup {NoRequest}
  /\ config.tech \in {"euv", "nil"} => config.life > 0
  /\ config.tech = "nil" => config.low < config.high
  /\ config.tech = "duv-multi-pattern" => config.na <= 160 /\ Positive(config, "overlay")
  /\ config.tech = "ebeam" =>
       {"field", "subfield"} \cap config.nan # {} \/ config.field % config.subfield = 0
  /\ used \in 0 .. MaxCycles /\ inFlight \in 0 .. MaxInFlight
  /\ delivered \in Nat /\ force \in Forces \cup {NoForce} /\ density \in Densities \cup {0}
  /\ Health \in {"Nominal", "Degraded", "Down"}
  /\ \A i \in DOMAIN plan.steps : plan.steps[i].dose >= 0
  /\ film \in Films \cup {NoFilm} /\ heats \in Seq(Heats)

(* A plan that was granted fits the layer by what it declares: the doses    *)
(* and the overlays of its steps, every cut and spacer among them, add up   *)
(* to no more than the budgets, and its total is that of its steps.  A dose *)
(* or an overlay that is no number, which new() lets pass, fits any budget. *)
(* The step of an e-beam plan declares one of its passes.                   *)
PlansFitBudgets ==
  plan.ok =>
    /\ plan.dose = DoseOf(plan.steps)
    /\ DoseIsNumber(config) => plan.dose <= request.dose
    /\ OverlayIsNumber(config) => OverlaySq(plan.steps) <= request.overlay * request.overlay

(* Budgets only refuse: a layer that can be planned is planned the same way *)
(* with more overlay or more dose, whatever the backend's wear.             *)
LooserBudgetsKeepPlan ==
  plan.ok =>
    \A r \in Requests :
      /\ r.pitch = request.pitch /\ r.corners = request.corners
      /\ r.overlay >= request.overlay /\ r.dose >= request.dose
      => PlanExposure(config, r) = plan

(* A template that is down, or whose last separation was out of its window, *)
(* is planned for no layer; and one that is planned is not down.            *)
WornTemplateIsRefused ==
  config.tech = "nil" =>
    LET usable == Health # "Down" /\ (force = NoForce \/ force \in config.low .. config.high)
    IN  \A r \in Requests : PlanExposure(config, r).ok <=> usable /\ config.dose <= r.dose

(* Plans made ahead wear a template out past its life by no more than the   *)
(* cycles that were already planned.                                        *)
OverrunIsBounded ==
  config.tech = "nil" => used + inFlight < config.life + MaxInFlight

(* Of the lines and spaces at a pitch the backend agreed to print: a tighter *)
(* pitch never gets a smaller line bias, spaces give what lines take, and    *)
(* with the optics the engine assumes the line bias is at most 2/7 of        *)
(* max_line_bias_nm (3/7 for EUV), that of k1 = 0.25 (0.2).  opc.rs:104      *)
(* calls the whole of it the bias at the tightest printable pitch.           *)
BiasStaysBounded ==
  config.tech \in DOMAIN Illumination /\ plan.ok /\ request.pitch # Isolated =>
    LET line(r) == Analyze(config.tech, "Line", r.pitch)
        most == IF config.tech = "euv" THEN Bias(3 * MaxLineBias, 7) ELSE Bias(2 * MaxLineBias, 7)
    IN  /\ HasReferenceOptics => LeqBias(line(request), most)
        /\ \A r \in Requests : request.pitch <= r.pitch => LeqBias(line(r), line(request))
        /\ Analyze(config.tech, "Space", request.pitch).num = -line(request).num

(* A film that is out of its window anywhere is out of it at the site with  *)
(* the highest or the lowest rate; a target on the upper edge never passes  *)
(* at the fastest site.                                                     *)
WorstSitesDecide ==
  LET at(kind) == {v.site : v \in {w \in found : w.kind = kind}}
  IN  /\ \A kind \in {"depth", "thickness", "cd"} :
           at(kind) # {} => at(kind) \cap {"east", "west"} # {}
      /\ (film.kind = "etch" /\ film.target = film.window.max /\ film.nu > 0) => "east" \in at("depth")
      /\ (film # NoFilm /\ film.kind = "deposition" /\ film.target = film.window.max /\ film.nu > 0)
           => "east" \in at("thickness")

(* The margin of a violation leads back to the nearest edge of the window.  *)
MarginsLeadBack ==
  \A v \in found :
    LET w == Scaled(IF v.kind = "cd" THEN film.cdWindow ELSE film.window)
    IN  /\ v.margin # 0 /\ v.value - v.margin \in {w.min, w.max}
        /\ \A edge \in {w.min, w.max} :
             v.margin * v.margin <= (v.value - edge) * (v.value - edge)

(* A sequence over its thermal budget stays over it, by ever more, as steps *)
(* are added.                                                               *)
OverheatedStays ==
  \A n \in 0 .. Len(heats) : \A v \in SimulateThermal(SubSeq(heats, 1, n)) :
    \E w \in SimulateThermal(heats) : w.margin >= v.margin

(* Every plan that is granted for the installed, valid configuration fits   *)
(* the layer's budgets as far as it declares numbers, and would not change  *)
(* if they were looser.                                                     *)
PlansAreWithinBudgets == ToolsTypeOK /\ PlansFitBudgets /\ LooserBudgetsKeepPlan

(* An imprint template is planned for while it has life, few defects and a  *)
(* last separation within its window, and never else; it is used past its   *)
(* life by no more than the plans already made.  Only the last separation   *)
(* counts: a harmful one is forgotten when the next is recorded, for which  *)
(* a plan made before it is enough.                                         *)
TemplateLifeIsKept == WornTemplateIsRefused /\ OverrunIsBounded

(* A film or a thermal sequence is judged by its worst site or its whole    *)
(* length, and each violation says how far it is from what is allowed.      *)
WorstDecides == WorstSitesDecide /\ MarginsLeadBack /\ OverheatedStays

(* No backend plans while its health says it is not usable, backend.rs:182. *)
DownIsNotPlanned == Health = "Down" => \A r \in Requests : ~PlanExposure(config, r).ok

(* SADP has one cut pass, duv.rs:24. *)
SadpIsCut ==
  config.tech = "duv-multi-pattern" /\ plan.ok /\ config.scheme = "Sadp" /\ request.corners > 0 =>
    \E i \in DOMAIN plan.steps : plan.steps[i].kind = "Cut"

-----------------------------------------------------------------------------
(* The inductive invariant of the proofs: the last answer is that of the    *)
(* tool that was asked, and the plans ahead were made of a template that    *)
(* had life left.                                                           *)

PlanIsAnswer == plan = NoPlan \/ (request \in Requests /\ plan = PlanExposure(config, request))

FoundIsAnswer ==
  found = IF film = NoFilm THEN {}
          ELSE IF film.kind = "etch" THEN SimulateEtch(film) ELSE SimulateDeposition(film)

ToolsInv ==
  /\ config \in Configs /\ Valid(config)
  /\ request \in Requests \cup {NoRequest} /\ PlanIsAnswer
  /\ used \in 0 .. MaxCycles /\ inFlight \in 0 .. MaxInFlight
  /\ delivered \in Nat /\ force \in Forces \cup {NoForce} /\ density \in Densities \cup {0}
  /\ film \in Films \cup {NoFilm} /\ FoundIsAnswer
  /\ heats \in Seq(Heats)
  /\ OverrunIsBounded


=============================================================================
