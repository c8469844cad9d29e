---------------------------- MODULE RecipeDrift ----------------------------
(***************************************************************************)
(* A recipe as the library hands it out (recipe.rs): an append-only chain  *)
(* of numbered versions, and drift checks of measured parameters against   *)
(* one of them, looked up by its number.  Parameters are numbers, texts or *)
(* flags, missing from either side or not.  What a download and a          *)
(* duplicate add do to a chain is in GemEngine, what phase 1 of a job does *)
(* with a check in FabSim.                                                 *)
(***************************************************************************)
EXTENDS Drift, Sequences, SequencesExt

CONSTANTS
  ParameterSets,  \* functions from names to values
  ToleranceSets,  \* functions from some names to tolerances
  Readings,       \* functions from names to measured values
  CallerNumbers,  \* what a caller puts in the number of a version
  MaxVersions

(* Tolerances are not negative; a number, on either side, is a number.      *)
ASSUME RecipeAssumption ==
  /\ MaxVersions \in Nat \ {0}
  /\ \A t \in ToleranceSets : \A p \in DOMAIN t : t[p].v \in Nat
  /\ \A m \in ParameterSets \cup Readings : \A p \in DOMAIN m :
       /\ m[p].kind \in {"Numeric", "NaN", "Text", "Flag"}
       /\ m[p].kind = "Numeric" => m[p].v \in Int

VARIABLES
  versions,       \* Recipe::versions
  check           \* the last DriftCheck, with the measurement it was made on

recipeVars == <<versions, check>>

Numeric(v) == [kind |-> "Numeric", v |-> v]
NotANumber == [kind |-> "NaN", v |-> 0]  \* an f64 all comparisons of which fail
Text(v)    == [kind |-> "Text", v |-> v]
Flag(v)    == [kind |-> "Flag", v |-> v]

Version(number, parameters, tolerances) ==
  [number |-> number, parameters |-> parameters, tolerances |-> tolerances]

NewRecipe(parameters, tolerances) == <<Version(1, parameters, tolerances)>>

(* Mutant: the caller's number is kept. *)
NumberedByCaller(chain, v) == v

(* add_version numbers the version itself. *)
Numbered(chain, v) == [v EXCEPT !.number = Last(chain).number + 1]

HasVersion(chain, number) == \E i \in DOMAIN chain : chain[i].number = number

(* Recipe::version returns the first with the number. *)
VersionOf(chain, number) ==
  chain[CHOOSE i \in DOMAIN chain :
          chain[i].number = number /\ \A j \in 1 .. i - 1 : chain[j].number # number]

DefaultTolerance == [kind |-> "Relative", v |-> 2]
ToleranceFor(version, name) ==
  IF name \in DOMAIN version.tolerances THEN version.tolerances[name] ELSE DefaultTolerance

(* The status of one parameter that was measured. *)
StatusOf(version, name, value) ==
  LET expected == version.parameters[name]
  IN  CASE expected.kind = "Numeric" /\ value.kind = "Numeric" ->
             Classify(ToleranceFor(version, name), expected.v, value.v)
        [] expected.kind = value.kind /\ value.kind \in {"Text", "Flag"} /\ value = expected -> "InSpec"
        [] OTHER -> "OutOfSpec"

(* Mutant: what was not measured is passed over. *)
DetectDriftCommon(version, measured) ==
  [name \in DOMAIN version.parameters \cap DOMAIN measured |->
     StatusOf(version, name, measured[name])]

(* detect_drift: a finding for each expected parameter. *)
DetectDrift(version, measured) ==
  [name \in DOMAIN version.parameters |->
     IF name \in DOMAIN measured THEN StatusOf(version, name, measured[name]) ELSE "OutOfSpec"]

Severity == [InSpec |-> 0, Tolerance |-> 1, OutOfSpec |-> 2]

(* DriftCheck::status and runnable: the worst finding decides. *)
Status(findings) ==
  LET found == {findings[name] : name \in DOMAIN findings} \cup {"InSpec"}
  IN  CHOOSE s \in found : \A t \in found : Severity[t] <= Severity[s]
IsRunnable(findings) == Status(findings) # "OutOfSpec"

-----------------------------------------------------------------------------

NoCheck == [number |-> 0, measured |-> <<>>, findings |-> <<>>]

RecipeInit ==
  /\ \E p \in ParameterSets, t \in ToleranceSets : versions = NewRecipe(p, t)
  /\ check = NoCheck

AddVersion ==
  /\ Len(versions) < MaxVersions
  /\ \E p \in ParameterSets, t \in ToleranceSets, n \in CallerNumbers :
       versions' = Append(versions, Numbered(versions, Version(n, p, t)))
  /\ UNCHANGED check

(* A number without a version is an error that changes nothing. *)
CheckDrift ==
  /\ \E n \in 1 .. MaxVersions, m \in Readings :
       /\ HasVersion(versions, n)
       /\ check' = [number |-> n, measured |-> m,
                    findings |-> DetectDrift(VersionOf(versions, n), m)]
  /\ UNCHANGED versions

RecipeNext == AddVersion \/ CheckDrift

RecipeSpec == RecipeInit /\ [][RecipeNext]_recipeVars

-----------------------------------------------------------------------------
(* Properties *)

(* A number is enough to come back to a version, whatever numbers callers   *)
(* gave: lookup finds each version under its own, the numbers rise, and a   *)
(* check repeated after later versions were added finds what it found.      *)
NumbersIdentifyVersions ==
  /\ \A i \in DOMAIN versions :
       /\ VersionOf(versions, versions[i].number) = versions[i]
       /\ i > 1 => versions[i].number > versions[i - 1].number
  /\ check.number > 0 =>
       DetectDrift(VersionOf(versions, check.number), check.measured) = check.findings

(* A tool exactly at the setpoints of a version may run it, at a setpoint   *)
(* of zero or below and under any tolerance, with nothing to review.        *)
SetpointsAreInSpec ==
  \A i \in DOMAIN versions :
    LET p == versions[i].parameters
    IN  (\A name \in DOMAIN p : p[name].kind # "NaN") =>
          Status(DetectDrift(versions[i], p)) = "InSpec"

(* Measurements of parameters the version does not name change no finding,  *)
(* and a version does not run while one it names is not measured.           *)
OnlyExpectedParametersCount ==
  check.number > 0 =>
    LET v == VersionOf(versions, check.number)
        named == DOMAIN v.parameters
        kept == [name \in named \cap DOMAIN check.measured |-> check.measured[name]]
    IN  /\ DetectDrift(v, kept) = check.findings
        /\ IsRunnable(check.findings) => named \subseteq DOMAIN check.measured

(* The farther a number is from its setpoint, on either side, the worse its *)
(* finding: no drift passes a gate that a smaller one does not pass.        *)
FartherIsNeverBetter ==
  \A name \in DOMAIN check.findings :
    LET v == VersionOf(versions, check.number)
        away(x) == AbsVal(x - v.parameters[name].v)
    IN  \A m \in Readings :
          (/\ name \in DOMAIN m /\ m[name].kind = "Numeric"
           /\ name \in DOMAIN check.measured /\ check.measured[name].kind = "Numeric"
           /\ v.parameters[name].kind = "Numeric"
           /\ away(m[name].v) >= away(check.measured[name].v))
          => Severity[StatusOf(v, name, m[name])] >= Severity[check.findings[name]]

(* Drift is zero at the setpoint and only worsens away from it, so the gate *)
(* lets through a neighbourhood of the setpoint and nothing else.           *)
DriftOnlyWorsens == SetpointsAreInSpec /\ FartherIsNeverBetter

-----------------------------------------------------------------------------
(* The inductive invariant of the proofs: the versions are numbered without *)
(* a gap, whatever numbers callers gave, and the last check was made on the *)
(* version of its number, which has not changed since.                      *)

VersionsAreNumbered ==
  /\ versions \in Seq([number : Nat, parameters : ParameterSets, tolerances : ToleranceSets])
  /\ versions # <<>>
  /\ \A i \in DOMAIN versions : versions[i].number = i

CheckIsOfItsVersion ==
  check # NoCheck =>
    /\ check.number \in DOMAIN versions
    /\ check.measured \in Readings
    /\ check.findings = DetectDrift(versions[check.number], check.measured)

RecipeInv == VersionsAreNumbered /\ CheckIsOfItsVersion

=============================================================================
