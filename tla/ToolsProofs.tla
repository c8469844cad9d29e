---------------------------- MODULE ToolsProofs ----------------------------
(***************************************************************************)
(* Proofs about the tools a job is put on: recipes and their drift checks  *)
(* (RecipeDrift), the patterning backends and the simulations of the       *)
(* process tools (ProcessTools), for any configurations, layers, films,    *)
(* recipes and readings.                                                   *)
(***************************************************************************)
EXTENDS ProcessTools, RecipeDrift, SequenceTheorems, NaturalsInduction, WellFoundedInduction, TLAPS

Below == {p \in Nat \X Nat : p[1] < p[2]}

(* Every set of naturals that is not empty has a least member.              *)
LEMMA LeastNatural ==
  ASSUME NEW S \in SUBSET Nat, S # {}
  PROVE  \E k \in S : \A i \in S : k <= i
<1>1. OpToRel(<, Nat) = Below
  BY ZenonT(20) DEF OpToRel, Below
<1>2. IsWellFoundedOn(Below, Nat)
  BY <1>1, NatLessThanWellFounded, Zenon
<1>3. PICK k \in S : \A i \in S : ~ (<<i, k>> \in Below)
  BY <1>2, WFMin
<1>4. \A i \in S : ~ (i < k)
  BY <1>3 DEF Below
<1> QED
  BY <1>4

-----------------------------------------------------------------------------
(* Totals *)

(* f holds the totals of the beginnings of s.                               *)
IsTotals(f, s) ==
  /\ f[0] = 0
  /\ \A i \in 1 .. Len(s) : f[i] = f[i - 1] + s[i]

(* They can be added up, number by number.                                  *)
LEMMA TotalsExist ==
  ASSUME NEW s \in Seq(Int)
  PROVE  \E f \in [0 .. Len(s) -> Int] : IsTotals(f, s)
<1> DEFINE Upto(n) == \E f \in [0 .. n -> Int] :
                        f[0] = 0 /\ \A i \in 1 .. n : f[i] = f[i - 1] + s[i]
           bad == {n \in 0 .. Len(s) : ~Upto(n)}
<1>1. SUFFICES ASSUME bad # {} PROVE FALSE
  <2>1. Len(s) \in 0 .. Len(s)
    OBVIOUS
  <2>2. bad = {} => Upto(Len(s))
    <3> HIDE DEF Upto
    <3>1. QED
      BY <2>1
  <2>3. QED
    BY <2>2 DEF IsTotals
<1>2. bad \in SUBSET Nat
  OBVIOUS
<1>3. PICK n \in bad : \A i \in bad : n <= i
  <2> HIDE DEF bad
  <2>1. QED
    BY <1>1, <1>2, LeastNatural
<1>4. n \in 0 .. Len(s) /\ ~Upto(n)
  BY <1>3
<1>5. Upto(0)
  <2> DEFINE f == [i \in 0 .. 0 |-> 0]
  <2>1. f \in [0 .. 0 -> Int] /\ f[0] = 0 /\ 1 .. 0 = {}
    OBVIOUS
  <2>2. QED
    BY <2>1
<1>6. n # 0 /\ n - 1 \in 0 .. Len(s) /\ n - 1 \notin bad
  <2> HIDE DEF Upto
  <2>1. n # 0
    BY <1>4, <1>5
  <2>2. n - 1 \in 0 .. Len(s) /\ ~(n <= n - 1)
    BY <1>4, <2>1
  <2> HIDE DEF bad
  <2>3. n - 1 \notin bad
    BY <1>3, <2>2
  <2>4. QED
    BY <2>1, <2>2, <2>3
<1>7. PICK f \in [0 .. n - 1 -> Int] :
        f[0] = 0 /\ \A i \in 1 .. n - 1 : f[i] = f[i - 1] + s[i]
  BY <1>6
<1> DEFINE g == [i \in 0 .. n |-> IF i = n THEN f[n - 1] + s[n] ELSE f[i]]
<1>8. n \in 1 .. Len(s)
  BY <1>4, <1>6
<1>9. s[n] \in Int /\ f[n - 1] \in Int
  BY <1>7, <1>8
<1>10. g \in [0 .. n -> Int] /\ g[0] = 0
  BY <1>7, <1>8, <1>9
<1>11. \A i \in 1 .. n : g[i] = g[i - 1] + s[i]
  BY <1>7, <1>8
<1>12. QED
  BY <1>4, <1>10, <1>11

(* Total is the last of them.                                               *)
LEMMA TotalIsLast ==
  ASSUME NEW s \in Seq(Int)
  PROVE  \E f \in [0 .. Len(s) -> Int] : IsTotals(f, s) /\ Total(s) = f[Len(s)]
<1> DEFINE Eq(f) == f = [i \in 0 .. Len(s) |-> IF i = 0 THEN 0 ELSE f[i - 1] + s[i]]
           sums  == CHOOSE f : Eq(f)
<1>1. PICK f \in [0 .. Len(s) -> Int] : IsTotals(f, s)
  BY TotalsExist
<1>2. Len(s) \in Nat
  OBVIOUS
<1>3. Eq(f)
  BY <1>1, <1>2 DEF IsTotals
<1>4. Eq(sums)
  BY <1>3
<1>5. Total(s) = sums[Len(s)]
  BY DEF Total
<1> HIDE DEF sums
<1>6. sums[0] = 0 /\ \A i \in 1 .. Len(s) : sums[i] = sums[i - 1] + s[i]
  <2>1. \A i \in 0 .. Len(s) : sums[i] = IF i = 0 THEN 0 ELSE sums[i - 1] + s[i]
    BY <1>4
  <2>2. 0 \in 0 .. Len(s) /\ \A i \in 1 .. Len(s) : i \in 0 .. Len(s) /\ i # 0
    BY <1>2
  <2> HIDE DEF Eq
  <2>3. QED
    BY <2>1, <2>2
<1>7. \A i \in 0 .. Len(s) : sums[i] = f[i]
  <2> DEFINE bad == {i \in 0 .. Len(s) : sums[i] # f[i]}
  <2>1. SUFFICES ASSUME bad # {} PROVE FALSE
    OBVIOUS
  <2>2. bad \in SUBSET Nat
    BY <1>2
  <2>3. PICK i \in bad : \A j \in bad : i <= j
    BY <2>1, <2>2, LeastNatural
  <2>4. i # 0
    BY <1>1, <1>6, <2>3 DEF IsTotals
  <2>5. i \in 1 .. Len(s) /\ i - 1 \in 0 .. Len(s) /\ i - 1 \notin bad
    BY <1>2, <2>3, <2>4
  <2>6. sums[i] = sums[i - 1] + s[i] /\ f[i] = f[i - 1] + s[i] /\ sums[i - 1] = f[i - 1]
    BY <1>1, <1>6, <2>5 DEF IsTotals
  <2>7. QED
    BY <2>3, <2>6
<1>8. QED
  BY <1>1, <1>2, <1>5, <1>7

(* A total is a number; of one number it is that number, of three numbers   *)
(* their sum.                                                               *)
LEMMA TotalIsInt ==
  ASSUME NEW s \in Seq(Int) PROVE Total(s) \in Int
BY TotalIsLast

(* Short lists are added up as expected.                                   *)
LEMMA TotalOfOne ==
  ASSUME NEW s \in Seq(Int), Len(s) = 1 PROVE Total(s) = s[1]
<1>1. PICK f \in [0 .. Len(s) -> Int] : IsTotals(f, s) /\ Total(s) = f[Len(s)]
  BY TotalIsLast
<1>2. f[0] = 0 /\ f[1] = f[0] + s[1] /\ Total(s) = f[1] /\ s[1] \in Int
  BY <1>1 DEF IsTotals
<1>3. QED
  BY <1>2

LEMMA TotalOfThree ==
  ASSUME NEW s \in Seq(Int), Len(s) = 3 PROVE Total(s) = s[1] + s[2] + s[3]
<1>1. PICK f \in [0 .. Len(s) -> Int] : IsTotals(f, s) /\ Total(s) = f[Len(s)]
  BY TotalIsLast
<1>2. f[0] = 0 /\ Total(s) = f[3] /\ s[1] \in Int /\ s[2] \in Int /\ s[3] \in Int
  <2>1. \A i \in 1 .. Len(s) : s[i] \in Int
    BY ElementOfSeq
  <2>2. QED
    BY <1>1, <2>1 DEF IsTotals
<1>3. \A i \in {1, 2, 3} : f[i] = f[i - 1] + s[i]
  BY <1>1 DEF IsTotals
<1>4. f[1] = f[0] + s[1] /\ f[2] = f[1] + s[2] /\ f[3] = f[2] + s[3]
  <2>1. 1 - 1 = 0 /\ 2 - 1 = 1 /\ 3 - 1 = 2
    OBVIOUS
  <2>2. QED
    BY <1>3, <2>1
<1>5. QED
  BY <1>2, <1>4

(* More naturals never total less: the totals of the beginnings rise.       *)
LEMMA TotalOfBeginning ==
  ASSUME NEW s \in Seq(Nat), NEW n \in 0 .. Len(s)
  PROVE  Total(SubSeq(s, 1, n)) <= Total(s)
<1> DEFINE t == SubSeq(s, 1, n)
<1>1. /\ s \in Seq(Int) /\ t \in Seq(Int) /\ Len(t) = n /\ Len(s) \in Nat
      /\ \A i \in 1 .. n : t[i] = s[i]
  OBVIOUS
<1> HIDE DEF t
<1>2. PICK f \in [0 .. Len(s) -> Int] : IsTotals(f, s) /\ Total(s) = f[Len(s)]
  BY <1>1, TotalIsLast
<1>3. PICK g \in [0 .. n -> Int] : IsTotals(g, t) /\ Total(t) = g[n]
  BY <1>1, TotalIsLast
<1>4. g[n] = f[n]
  <2> DEFINE bad == {i \in 0 .. n : g[i] # f[i]}
  <2>1. SUFFICES ASSUME bad # {} PROVE FALSE
    OBVIOUS
  <2>a. bad \in SUBSET Nat
    OBVIOUS
  <2>2. PICK i \in bad : \A j \in bad : i <= j
    BY <2>1, <2>a, LeastNatural
  <2>3. i # 0
    BY <1>2, <1>3, <2>2 DEF IsTotals
  <2>4. i \in 1 .. n /\ i \in 1 .. Len(s) /\ i - 1 \in 0 .. n /\ i - 1 \notin bad
    <3>1. i \in 0 .. n
      BY <2>2
    <3>2. i \in 1 .. n /\ i \in 1 .. Len(s) /\ i - 1 \in 0 .. n /\ ~(i <= i - 1)
      BY <1>1, <2>3, <3>1
    <3> HIDE DEF bad
    <3>3. i - 1 \notin bad
      BY <2>2, <3>2
    <3>4. QED
      BY <3>2, <3>3
  <2>5. g[i] = g[i - 1] + t[i] /\ f[i] = f[i - 1] + s[i] /\ g[i - 1] = f[i - 1]
    BY <1>1, <1>2, <1>3, <2>4 DEF IsTotals
  <2>6. QED
    BY <1>1, <2>2, <2>4, <2>5
<1>5. f[n] <= f[Len(s)]
  <2> DEFINE bad == {i \in n .. Len(s) : ~(f[n] <= f[i])}
  <2>1. SUFFICES ASSUME bad # {} PROVE FALSE
    BY <1>1
  <2>a. bad \in SUBSET Nat
    BY <1>1
  <2>2. PICK i \in bad : \A j \in bad : i <= j
    BY <2>1, <2>a, LeastNatural
  <2>3. f[n] \in Int /\ i # n
    BY <1>1, <1>2, <2>2
  <2>4. i \in 1 .. Len(s) /\ i - 1 \in n .. Len(s) /\ i - 1 \notin bad
    BY <1>1, <2>2, <2>3
  <2>b. s[i] \in Nat /\ f[n] <= f[i - 1]
    BY <2>4
  <2>c. f[i - 1] \in Int
    <3>1. i - 1 \in 0 .. Len(s)
      BY <1>1, <2>4
    <3>2. QED
      BY <3>1
  <2>5. f[i] = f[i - 1] + s[i]
    BY <1>2, <2>4 DEF IsTotals
  <2>6. QED
    BY <2>2, <2>3, <2>b, <2>c, <2>5
<1>6. QED
  BY <1>2, <1>3, <1>4, <1>5 DEF t

-----------------------------------------------------------------------------
(* Recipes *)

VersionRecord == [number : Nat, parameters : ParameterSets, tolerances : ToleranceSets]

(* In a chain that is numbered without a gap, lookup by number is lookup by *)
(* place.                                                                   *)
LEMMA LookupIsByPlace ==
  ASSUME NEW chain \in Seq(VersionRecord), \A i \in DOMAIN chain : chain[i].number = i,
         NEW n \in DOMAIN chain
  PROVE  VersionOf(chain, n) = chain[n]
<1> DEFINE First(i) == chain[i].number = n /\ \A j \in 1 .. i - 1 : chain[j].number # n
<1>1. DOMAIN chain = 1 .. Len(chain) /\ Len(chain) \in Nat
  OBVIOUS
<1>2. First(n)
  BY <1>1
<1>3. \A i \in DOMAIN chain : First(i) => i = n
  BY <1>1
<1>4. (CHOOSE i \in DOMAIN chain : First(i)) = n
  BY <1>2, <1>3
<1>5. QED
  BY <1>4 DEF VersionOf

(* The next number is the next place.                                       *)
LEMMA NextNumber ==
  ASSUME VersionsAreNumbered, NEW p \in ParameterSets, NEW t \in ToleranceSets, NEW n \in CallerNumbers
  PROVE  LET v == Numbered(versions, Version(n, p, t))
         IN  v \in VersionRecord /\ v.number = Len(versions) + 1
<1>1. versions \in Seq(VersionRecord) /\ versions # <<>>
  BY DEF VersionsAreNumbered, VersionRecord
<1>2. Len(versions) \in DOMAIN versions /\ Last(versions) = versions[Len(versions)]
  BY <1>1 DEF Last
<1>3. Last(versions).number = Len(versions)
  BY <1>2 DEF VersionsAreNumbered
<1>4. Len(versions) + 1 \in Nat
  BY <1>1
<1> DEFINE v == Numbered(versions, Version(n, p, t))
<1>5. v = [number |-> Len(versions) + 1, parameters |-> p, tolerances |-> t]
  BY <1>3 DEF Numbered, Version
<1>6. QED
  BY <1>4, <1>5 DEF VersionRecord

(* Callers add versions and check drift in any order: the numbers stay      *)
(* without a gap and a check stays true of its version (recipe.rs).         *)
THEOREM RecipeInvariant ==
  RecipeSpec => []RecipeInv
<1>1. RecipeInit => RecipeInv
  <2> SUFFICES ASSUME RecipeInit PROVE RecipeInv
    OBVIOUS
  <2>1. PICK p \in ParameterSets, t \in ToleranceSets : versions = NewRecipe(p, t)
    BY DEF RecipeInit
  <2>2. [number |-> 1, parameters |-> p, tolerances |-> t] \in VersionRecord
    BY DEF VersionRecord
  <2>3. versions = <<[number |-> 1, parameters |-> p, tolerances |-> t]>>
    BY <2>1 DEF NewRecipe, Version
  <2>4. versions \in Seq(VersionRecord) /\ versions # <<>> /\ DOMAIN versions = {1} /\ versions[1].number = 1
    BY <2>2, <2>3
  <2>5. VersionsAreNumbered
    BY <2>4 DEF VersionsAreNumbered, VersionRecord
  <2>6. CheckIsOfItsVersion
    BY DEF RecipeInit, CheckIsOfItsVersion
  <2>7. QED
    BY <2>5, <2>6 DEF RecipeInv
<1>2. RecipeInv /\ [RecipeNext]_recipeVars => RecipeInv'
  <2> SUFFICES ASSUME RecipeInv, [RecipeNext]_recipeVars PROVE RecipeInv'
    OBVIOUS
  <2>1. versions \in Seq(VersionRecord) /\ versions # <<>> /\ \A i \in DOMAIN versions : versions[i].number = i
    BY DEF RecipeInv, VersionsAreNumbered, VersionRecord
  <2>2. CASE AddVersion
    <3>1. PICK p \in ParameterSets, t \in ToleranceSets, n \in CallerNumbers :
            versions' = Append(versions, Numbered(versions, Version(n, p, t)))
      BY <2>2 DEF AddVersion
    <3> DEFINE v == Numbered(versions, Version(n, p, t))
    <3>2. v \in VersionRecord /\ v.number = Len(versions) + 1
      BY NextNumber DEF RecipeInv
    <3>3. versions' = Append(versions, v)
      BY <3>1
    <3> HIDE DEF v
    <3>4. /\ versions' \in Seq(VersionRecord) /\ versions' # <<>>
          /\ Len(versions') = Len(versions) + 1 /\ Len(versions) \in Nat
          /\ DOMAIN versions = 1 .. Len(versions) /\ DOMAIN versions' = 1 .. Len(versions')
          /\ \A i \in DOMAIN versions : versions'[i] = versions[i]
          /\ versions'[Len(versions) + 1] = v
      BY <2>1, <3>2, <3>3
    <3>5. \A i \in DOMAIN versions' : versions'[i].number = i
      BY <2>1, <3>2, <3>4
    <3>6. VersionsAreNumbered'
      BY <3>4, <3>5 DEF VersionsAreNumbered, VersionRecord
    <3>7. DOMAIN versions \subseteq DOMAIN versions'
      BY <3>4
    <3>8. CheckIsOfItsVersion'
      BY <2>2, <3>4, <3>7 DEF AddVersion, RecipeInv, CheckIsOfItsVersion
    <3>9. QED
      BY <3>6, <3>8 DEF RecipeInv
  <2>3. CASE CheckDrift
    <3>1. PICK n \in 1 .. MaxVersions, m \in Readings :
            /\ HasVersion(versions, n)
            /\ check' = [number |-> n, measured |-> m,
                         findings |-> DetectDrift(VersionOf(versions, n), m)]
      BY <2>3 DEF CheckDrift
    <3>2. n \in DOMAIN versions
      BY <2>1, <3>1 DEF HasVersion
    <3>3. VersionOf(versions, n) = versions[n]
      BY <2>1, <3>2, LookupIsByPlace
    <3>4. UNCHANGED versions
      BY <2>3 DEF CheckDrift
    <3>5. /\ check'.number = n /\ check'.measured = m
          /\ check'.findings = DetectDrift(versions[n], m)
      BY <3>1, <3>3
    <3>6. CheckIsOfItsVersion'
      BY <3>1, <3>2, <3>4, <3>5 DEF CheckIsOfItsVersion
    <3>7. VersionsAreNumbered'
      BY <3>4 DEF RecipeInv, VersionsAreNumbered
    <3>8. QED
      BY <3>6, <3>7 DEF RecipeInv
  <2>4. CASE UNCHANGED recipeVars
    BY <2>4 DEF recipeVars, RecipeInv, VersionsAreNumbered, CheckIsOfItsVersion
  <2>5. QED
    BY <2>2, <2>3, <2>4 DEF RecipeNext
<1>3. QED
  BY <1>1, <1>2, PTL DEF RecipeSpec

(* A check made, and the version it was made on.                            *)
LEMMA CheckedVersion ==
  ASSUME RecipeInv, check # NoCheck
  PROVE  /\ check.number \in DOMAIN versions /\ check.number > 0
         /\ VersionOf(versions, check.number) = versions[check.number]
         /\ versions[check.number] \in VersionRecord
         /\ check.measured \in Readings
         /\ check.findings = DetectDrift(versions[check.number], check.measured)
<1>1. versions \in Seq(VersionRecord) /\ \A i \in DOMAIN versions : versions[i].number = i
  BY DEF RecipeInv, VersionsAreNumbered, VersionRecord
<1>2. check.number \in DOMAIN versions /\ check.measured \in Readings
      /\ check.findings = DetectDrift(versions[check.number], check.measured)
  BY DEF RecipeInv, CheckIsOfItsVersion
<1>3. VersionOf(versions, check.number) = versions[check.number]
  BY <1>1, <1>2, LookupIsByPlace
<1>4. versions[check.number] \in VersionRecord /\ check.number > 0
  BY <1>1, <1>2
<1>5. QED
  BY <1>2, <1>3, <1>4

(* The check of no version is no check.                                     *)
LEMMA NoCheckHasNoNumber == check.number > 0 => check # NoCheck
BY DEF NoCheck

(* For any recipe and any numbers its callers give: a number finds its      *)
(* version and no other, and a check made on it can be made again.          *)
THEOREM NumbersAlwaysIdentify ==
  RecipeSpec => []NumbersIdentifyVersions
<1>1. RecipeInv => NumbersIdentifyVersions
  <2> SUFFICES ASSUME RecipeInv PROVE NumbersIdentifyVersions
    OBVIOUS
  <2>1. versions \in Seq(VersionRecord) /\ \A i \in DOMAIN versions : versions[i].number = i
    BY DEF RecipeInv, VersionsAreNumbered, VersionRecord
  <2>2. ASSUME NEW i \in DOMAIN versions
        PROVE  /\ VersionOf(versions, versions[i].number) = versions[i]
               /\ i > 1 => versions[i].number > versions[i - 1].number
    <3>1. VersionOf(versions, i) = versions[i] /\ versions[i].number = i
      BY <2>1, LookupIsByPlace
    <3>2. i > 1 => i - 1 \in DOMAIN versions /\ i \in Nat
      BY <2>1
    <3>3. i > 1 => versions[i - 1].number = i - 1
      BY <2>1, <3>2
    <3>4. QED
      BY <3>1, <3>2, <3>3
  <2>3. check.number > 0 =>
          DetectDrift(VersionOf(versions, check.number), check.measured) = check.findings
    BY CheckedVersion, NoCheckHasNoNumber
  <2>4. QED
    BY <2>2, <2>3 DEF NumbersIdentifyVersions
<1>2. QED
  BY <1>1, RecipeInvariant, PTL

-----------------------------------------------------------------------------
(* Findings *)

(* Every finding is one of the three.                                       *)
LEMMA FindingsAreStatuses ==
  ASSUME NEW version, NEW measured, NEW name \in DOMAIN version.parameters
  PROVE  DetectDrift(version, measured)[name] \in DriftStatus
BY DEF DetectDrift, StatusOf, Classify, DriftStatus

(* The status of a check is its worst finding.                              *)
LEMMA StatusIsWorst ==
  ASSUME NEW findings, \A name \in DOMAIN findings : findings[name] \in DriftStatus
  PROVE  /\ Status(findings) \in DriftStatus
         /\ Status(findings) = "InSpec" \/ \E name \in DOMAIN findings : findings[name] = Status(findings)
         /\ \A name \in DOMAIN findings : Severity[findings[name]] <= Severity[Status(findings)]
<1> DEFINE judged == {findings[name] : name \in DOMAIN findings} \cup {"InSpec"}
           Worst(s) == \A t \in judged : Severity[t] <= Severity[s]
<1>1. judged \subseteq DriftStatus /\ "InSpec" \in judged
  BY DEF DriftStatus
<1>2. Severity["InSpec"] = 0 /\ Severity["Tolerance"] = 1 /\ Severity["OutOfSpec"] = 2
  BY DEF Severity
<1>3. \E s \in judged : Worst(s)
  <2>1. CASE "OutOfSpec" \in judged
    BY <2>1, <1>1, <1>2 DEF DriftStatus
  <2>2. CASE "OutOfSpec" \notin judged /\ "Tolerance" \in judged
    BY <2>2, <1>1, <1>2 DEF DriftStatus
  <2>3. CASE judged = {"InSpec"}
    BY <2>3, <1>2
  <2>4. QED
    BY <2>1, <2>2, <2>3, <1>1 DEF DriftStatus
<1>4. Status(findings) \in judged /\ Worst(Status(findings))
  <2> HIDE DEF judged
  <2>1. Status(findings) = CHOOSE s \in judged : Worst(s)
    BY DEF Status, judged
  <2>2. QED
    BY <1>3, <2>1
<1>5. QED
  BY <1>1, <1>4

(* For any versions and readings: only what the version names counts, and   *)
(* all of it must have been measured.                                       *)
THEOREM OnlyExpectedAlwaysCount ==
  RecipeSpec => []OnlyExpectedParametersCount
<1>1. RecipeInv => OnlyExpectedParametersCount
  <2> SUFFICES ASSUME RecipeInv, check.number > 0 PROVE OnlyExpectedParametersCount
    BY DEF OnlyExpectedParametersCount
  <2> DEFINE v     == versions[check.number]
             named == DOMAIN v.parameters
             kept  == [name \in named \cap DOMAIN check.measured |-> check.measured[name]]
  <2>1. VersionOf(versions, check.number) = v /\ check.findings = DetectDrift(v, check.measured)
    BY CheckedVersion, NoCheckHasNoNumber
  <2>2. DetectDrift(v, kept) = check.findings
    <3>1. DOMAIN kept = named \cap DOMAIN check.measured
          /\ \A name \in DOMAIN kept : kept[name] = check.measured[name]
      OBVIOUS
    <3> HIDE DEF v, kept
    <3>2. \A name \in named : name \in DOMAIN kept <=> name \in DOMAIN check.measured
      BY <3>1
    <3>3. QED
      BY <2>1, <3>1, <3>2 DEF DetectDrift
  <2>3. IsRunnable(check.findings) => named \subseteq DOMAIN check.measured
    <3> SUFFICES ASSUME NEW name \in named, name \notin DOMAIN check.measured
                 PROVE  ~IsRunnable(check.findings)
      OBVIOUS
    <3>1. DOMAIN check.findings = named /\ check.findings[name] = "OutOfSpec"
      BY <2>1 DEF DetectDrift
    <3>2. \A n \in DOMAIN check.findings : check.findings[n] \in DriftStatus
      BY <2>1, <3>1, FindingsAreStatuses
    <3>3. /\ Status(check.findings) \in DriftStatus
          /\ Severity["OutOfSpec"] <= Severity[Status(check.findings)]
      BY <3>1, <3>2, StatusIsWorst
    <3>4. QED
      BY <3>3 DEF IsRunnable, Severity, DriftStatus
  <2>4. QED
    BY <2>1, <2>2, <2>3 DEF OnlyExpectedParametersCount
<1>2. QED
  BY <1>1, RecipeInvariant, PTL

(* What a version's tolerances, and the default one, allow is not negative. *)
LEMMA AllowanceIsNatural ==
  ASSUME NEW version \in VersionRecord, NEW name, NEW expected \in Int
  PROVE  Allowed(ToleranceFor(version, name), expected) \in Nat
<1>1. version.tolerances \in ToleranceSets
  BY DEF VersionRecord
<1>2. ToleranceFor(version, name).v \in Nat
  BY <1>1, RecipeAssumption DEF ToleranceFor, DefaultTolerance
<1>3. AbsVal(expected) \in Nat
  BY DEF AbsVal
<1>4. \A a, b \in Nat : a * b \in Nat
  OBVIOUS
<1>5. QED
  BY <1>2, <1>3, <1>4 DEF Allowed

(* Classification: what is allowed is in spec, and the farther the worse.   *)
LEMMA ClassifyWorsens ==
  ASSUME NEW tol, NEW expected \in Int, Allowed(tol, expected) \in Nat,
         NEW near \in Int, NEW far \in Int, AbsVal(near - expected) <= AbsVal(far - expected)
  PROVE  /\ Classify(tol, expected, expected) = "InSpec"
         /\ Severity[Classify(tol, expected, near)] <= Severity[Classify(tol, expected, far)]
<1> DEFINE allowed == Allowed(tol, expected)
           a == AbsVal(near - expected)
           b == AbsVal(far - expected)
<1>1. a \in Nat /\ b \in Nat /\ a <= b /\ AbsVal(expected - expected) = 0
  BY DEF AbsVal
<1>2. \A x : Classify(tol, expected, x) =
         LET dev == 100 * AbsVal(x - expected)
         IN  IF dev <= allowed THEN "InSpec" ELSE IF dev <= 2 * allowed THEN "Tolerance" ELSE "OutOfSpec"
  BY DEF Classify
<1> HIDE DEF allowed, a, b
<1>3. Severity["InSpec"] = 0 /\ Severity["Tolerance"] = 1 /\ Severity["OutOfSpec"] = 2
  BY DEF Severity
<1>4. QED
  BY <1>1, <1>2, <1>3 DEF a, b, allowed


(* The status of two numbers is the classification of their distance.       *)
LEMMA NumbersAreClassified ==
  ASSUME NEW version, NEW name, NEW value,
         version.parameters[name].kind = "Numeric", value.kind = "Numeric"
  PROVE  StatusOf(version, name, value)
           = Classify(ToleranceFor(version, name), version.parameters[name].v, value.v)
BY DEF StatusOf

(* For any tolerances and setpoints, negative or zero ones included: no     *)
(* drift passes where a smaller one does not (recipe.rs: classify).         *)
THEOREM DriftAlwaysWorsens ==
  RecipeSpec => []DriftOnlyWorsens
<1>1. RecipeInv => SetpointsAreInSpec
  <2> SUFFICES ASSUME RecipeInv, NEW i \in DOMAIN versions,
                      \A name \in DOMAIN versions[i].parameters :
                        versions[i].parameters[name].kind # "NaN"
               PROVE  Status(DetectDrift(versions[i], versions[i].parameters)) = "InSpec"
    BY DEF SetpointsAreInSpec
  <2> DEFINE v == versions[i]
             p == v.parameters
  <2>1. v \in VersionRecord
    <3>1. versions \in Seq(VersionRecord)
      BY DEF RecipeInv, VersionsAreNumbered, VersionRecord
    <3>2. QED
      BY <3>1
  <2>2. p \in ParameterSets
    BY <2>1 DEF VersionRecord
  <2>3. ASSUME NEW name \in DOMAIN p PROVE StatusOf(v, name, p[name]) = "InSpec"
    <3>1. p[name].kind \in {"Numeric", "Text", "Flag"} /\ (p[name].kind = "Numeric" => p[name].v \in Int)
      BY <2>2, RecipeAssumption
    <3>2. CASE p[name].kind = "Numeric"
      <4>1. StatusOf(v, name, p[name]) = Classify(ToleranceFor(v, name), p[name].v, p[name].v)
        BY <3>2, NumbersAreClassified
      <4>2. p[name].v \in Int
        BY <3>1, <3>2
      <4>3. Allowed(ToleranceFor(v, name), p[name].v) \in Nat
        BY <2>1, <4>2, AllowanceIsNatural
      <4>4. AbsVal(p[name].v - p[name].v) <= AbsVal(p[name].v - p[name].v)
        BY <4>2 DEF AbsVal
      <4>5. Classify(ToleranceFor(v, name), p[name].v, p[name].v) = "InSpec"
        BY <4>2, <4>3, <4>4, ClassifyWorsens
      <4>6. QED
        BY <4>1, <4>5
    <3>3. CASE p[name].kind \in {"Text", "Flag"}
      BY <3>3 DEF StatusOf
    <3>4. QED
      BY <3>1, <3>2, <3>3
  <2>4. DOMAIN DetectDrift(v, p) = DOMAIN p
        /\ \A name \in DOMAIN p : DetectDrift(v, p)[name] = "InSpec"
    BY <2>3 DEF DetectDrift
  <2> HIDE DEF v, p
  <2>5. Status(DetectDrift(v, p)) = "InSpec"
    BY <2>4, StatusIsWorst DEF DriftStatus
  <2>6. QED
    BY <2>5 DEF v, p
<1>2. RecipeInv => FartherIsNeverBetter
  <2> SUFFICES ASSUME RecipeInv, NEW name \in DOMAIN check.findings, NEW m \in Readings,
                      name \in DOMAIN m, m[name].kind = "Numeric",
                      name \in DOMAIN check.measured, check.measured[name].kind = "Numeric",
                      LET v == VersionOf(versions, check.number)
                          away(x) == AbsVal(x - v.parameters[name].v)
                      IN  /\ v.parameters[name].kind = "Numeric"
                          /\ away(m[name].v) >= away(check.measured[name].v)
               PROVE  Severity[StatusOf(VersionOf(versions, check.number), name, m[name])]
                        >= Severity[check.findings[name]]
    BY DEF FartherIsNeverBetter
  <2>1. check # NoCheck
    BY DEF NoCheck
  <2> DEFINE v == versions[check.number]
             setpoint == v.parameters[name].v
             near == check.measured[name].v
             far  == m[name].v
             tol  == ToleranceFor(v, name)
  <2>2. /\ VersionOf(versions, check.number) = v /\ v \in VersionRecord
        /\ check.measured \in Readings
        /\ check.findings = DetectDrift(v, check.measured)
    BY <2>1, CheckedVersion
  <2>3. name \in DOMAIN v.parameters /\ check.findings[name] = StatusOf(v, name, check.measured[name])
    BY <2>2 DEF DetectDrift
  <2>4. v.parameters \in ParameterSets
    BY <2>2 DEF VersionRecord
  <2>5. v.parameters[name].kind = "Numeric" /\ AbsVal(near - setpoint) <= AbsVal(far - setpoint)
    <3>1. v.parameters[name].kind = "Numeric" /\ AbsVal(far - setpoint) >= AbsVal(near - setpoint)
      BY <2>2
    <3>2. setpoint \in Int /\ near \in Int /\ far \in Int
      BY <2>2, <2>3, <2>4, <3>1, RecipeAssumption
    <3>3. AbsVal(far - setpoint) \in Int /\ AbsVal(near - setpoint) \in Int
      BY <3>2 DEF AbsVal
    <3>4. QED
      BY <3>1, <3>3
  <2>6. setpoint \in Int /\ near \in Int /\ far \in Int
    BY <2>2, <2>3, <2>4, <2>5, RecipeAssumption
  <2>7. Allowed(tol, setpoint) \in Nat
    BY <2>2, <2>6, AllowanceIsNatural
  <2>8. Severity[Classify(tol, setpoint, near)] <= Severity[Classify(tol, setpoint, far)]
    BY <2>5, <2>6, <2>7, ClassifyWorsens
  <2>9. StatusOf(v, name, m[name]) = Classify(tol, setpoint, far)
        /\ check.findings[name] = Classify(tol, setpoint, near)
    BY <2>3, <2>5, NumbersAreClassified
  <2>10. Severity[Classify(tol, setpoint, near)] \in Int /\ Severity[Classify(tol, setpoint, far)] \in Int
    BY DEF Classify, Severity
  <2>11. QED
    BY <2>2, <2>8, <2>9, <2>10
<1>3. QED
  BY <1>1, <1>2, RecipeInvariant, PTL DEF DriftOnlyWorsens


-----------------------------------------------------------------------------
(* Configurations and plans *)

DuvConfig == [tech : {"duv-multi-pattern"}, scheme : {"Lele", "Lelele", "Sadp"}, wavelength : Int,
              na : Int, overlay : Int, dose : Int, nan : SUBSET {"wavelength", "na", "overlay", "dose"}]
EuvConfig == [tech : {"euv"}, wavelength : Int, na : Int, dose : Int, latitude : Nat, life : Nat,
              nan : SUBSET {"wavelength", "na", "dose", "latitude"}]
NilConfig == [tech : {"nil"}, dose : Int, low : Int, high : Int, life : Nat, limit : Int,
              nan : SUBSET {"dose", "low", "high", "limit"}]
EbeamConfig == [tech : {"ebeam"}, current : Int, field : Int, subfield : Int, passes : Nat,
                nan : SUBSET {"current", "field", "subfield"}]
Layers == [pitch : Nat, corners : Nat, overlay : Nat, dose : Nat]

(* A configuration is of one of the four backends.                          *)
LEMMA ConfigKinds ==
  ASSUME NEW c \in Configs
  PROVE  c \in DuvConfig \/ c \in EuvConfig \/ c \in NilConfig \/ c \in EbeamConfig
BY LithoAssumption DEF DuvConfig, EuvConfig, NilConfig, EbeamConfig

(* Requests are layers with natural numbers.                               *)
LEMMA LayersAreTyped == Requests \subseteq Layers
BY LithoAssumption DEF Layers

(* What is no number is written 0.                                          *)
LEMMA NanIsZero ==
  ASSUME NEW c \in Configs, NEW f \in c.nan
  PROVE  c[f] = 0
BY LithoAssumption

(* What new() checked of each.                                              *)
LEMMA ValidDuv ==
  ASSUME NEW c \in DuvConfig, c \in Configs, Valid(c)
  PROVE  /\ c.tech = "duv-multi-pattern" /\ c.na \in 0 .. 160 /\ c.dose \in Nat
         /\ Positive(c, "overlay")
<1>1. c.tech = "duv-multi-pattern" /\ c.dose \in Int
  BY DEF DuvConfig
<1>2. /\ "na" \in c.nan \/ c.na \in 1 .. 160
      /\ Positive(c, "overlay") /\ Positive(c, "dose")
  BY <1>1 DEF Valid
<1>3. c.na \in 0 .. 160
  BY <1>2, NanIsZero
<1>4. c.dose \in Nat
  BY <1>1, <1>2, NanIsZero DEF Positive
<1>5. QED
  BY <1>1, <1>2, <1>3, <1>4

LEMMA ValidEuv ==
  ASSUME NEW c \in EuvConfig, c \in Configs, Valid(c)
  PROVE  c.tech = "euv" /\ c.dose \in Nat /\ c.life > 0
<1>1. c.tech = "euv" /\ c.life \in Nat /\ c.dose \in Int
  BY DEF EuvConfig
<1>2. Positive(c, "dose") /\ c.life # 0
  BY <1>1 DEF Valid
<1>3. c.dose \in Nat
  BY <1>1, <1>2, NanIsZero DEF Positive
<1>4. QED
  BY <1>1, <1>2, <1>3

LEMMA ValidNil ==
  ASSUME NEW c \in NilConfig, c \in Configs, Valid(c)
  PROVE  c.tech = "nil" /\ c.low < c.high /\ c.dose \in Nat /\ c.life > 0
<1>1. c.tech = "nil" /\ c.life \in Nat /\ c.dose \in Int
  BY DEF NilConfig
<1>2. c.low < c.high /\ Positive(c, "dose") /\ c.life # 0
  BY <1>1 DEF Valid
<1>3. c.dose \in Nat
  BY <1>1, <1>2, NanIsZero DEF Positive
<1>4. QED
  BY <1>1, <1>2, <1>3

LEMMA ValidEbeam ==
  ASSUME NEW c \in EbeamConfig, c \in Configs, Valid(c)
  PROVE  /\ c.tech = "ebeam" /\ c.passes > 0 /\ Positive(c, "current")
         /\ {"field", "subfield"} \cap c.nan # {} \/ c.field % c.subfield = 0
<1>1. c.tech = "ebeam" /\ c.passes \in Nat
  BY DEF EbeamConfig
<1>2. /\ {"field", "subfield"} \cap c.nan # {} \/ c.field % c.subfield = 0
      /\ c.passes # 0 /\ Positive(c, "current")
  BY <1>1 DEF Valid
<1>3. QED
  BY <1>1, <1>2

(* Doses and tolerances of a sequence of steps are whole numbers.           *)
Steps == [kind : {"Exposure", "Spacing", "Cut", "Imprint", "Cure", "Separation", "Write"},
          dose : Nat, overlay : Int]

(* The dose and the overlay of a plan are numbers.                         *)
LEMMA StepTotalsAreInt ==
  ASSUME NEW steps \in Seq(Steps)
  PROVE  DoseOf(steps) \in Int /\ OverlaySq(steps) \in Int
<1> DEFINE doses == [i \in DOMAIN steps |-> steps[i].dose]
           squares == [i \in DOMAIN steps |-> steps[i].overlay * steps[i].overlay]
<1>1. DOMAIN steps = 1 .. Len(steps) /\ Len(steps) \in Nat
  OBVIOUS
<1>2. \A i \in DOMAIN steps : steps[i] \in Steps
  BY ElementOfSeq
<1>3. \A i \in DOMAIN steps : steps[i].dose \in Int /\ steps[i].overlay \in Int
  BY <1>2 DEF Steps
<1>4. \A a \in Int : a * a \in Int
  OBVIOUS
<1>5. doses \in Seq(Int) /\ squares \in Seq(Int)
  BY <1>1, <1>3, <1>4
<1>6. QED
  BY <1>5, TotalIsInt DEF DoseOf, OverlaySq

(* Plans of one exposure.                                                  *)
LEMMA TotalsOfOneStep ==
  ASSUME NEW s \in Steps, s.overlay = 0
  PROVE  /\ <<s>> \in Seq(Steps) /\ DoseOf(<<s>>) = s.dose /\ OverlaySq(<<s>>) = 0
<1> DEFINE doses == [i \in DOMAIN <<s>> |-> <<s>>[i].dose]
           squares == [i \in DOMAIN <<s>> |-> <<s>>[i].overlay * <<s>>[i].overlay]
<1>1. s.dose \in Int
  BY DEF Steps
<1>2. DOMAIN <<s>> = {1} /\ <<s>>[1] = s
  OBVIOUS
<1>3. DOMAIN doses = 1 .. 1 /\ DOMAIN squares = 1 .. 1 /\ doses[1] = s.dose /\ squares[1] = 0
  BY <1>2
<1>4. doses \in Seq(Int) /\ squares \in Seq(Int) /\ Len(doses) = 1 /\ Len(squares) = 1
  BY <1>1, <1>2, <1>3
<1>5. Total(doses) = s.dose /\ Total(squares) = 0
  <2> HIDE DEF doses, squares
  <2>1. QED
    BY <1>3, <1>4, TotalOfOne
<1>6. <<s>> \in Seq(Steps)
  OBVIOUS
<1>7. QED
  BY <1>5, <1>6 DEF DoseOf, OverlaySq

(* Plans of three exposures.                                               *)
LEMMA TotalsOfThreeSteps ==
  ASSUME NEW a \in Steps, NEW b \in Steps, NEW c \in Steps,
         a.overlay = 0, b.overlay = 0, c.overlay = 0
  PROVE  /\ <<a, b, c>> \in Seq(Steps)
         /\ DoseOf(<<a, b, c>>) = a.dose + b.dose + c.dose /\ OverlaySq(<<a, b, c>>) = 0
<1> DEFINE steps == <<a, b, c>>
           doses == [i \in DOMAIN steps |-> steps[i].dose]
           squares == [i \in DOMAIN steps |-> steps[i].overlay * steps[i].overlay]
<1>1. a.dose \in Int /\ b.dose \in Int /\ c.dose \in Int
  BY DEF Steps
<1>2. DOMAIN steps = 1 .. 3 /\ steps[1] = a /\ steps[2] = b /\ steps[3] = c
  OBVIOUS
<1>3. /\ DOMAIN doses = 1 .. 3 /\ doses[1] = a.dose /\ doses[2] = b.dose /\ doses[3] = c.dose
      /\ DOMAIN squares = 1 .. 3 /\ squares[1] = 0 /\ squares[2] = 0 /\ squares[3] = 0
  BY <1>2
<1>4. \A i \in 1 .. 3 : doses[i] \in Int /\ squares[i] \in Int
  BY <1>1, <1>3
<1>5. doses \in Seq(Int) /\ squares \in Seq(Int) /\ Len(doses) = 3 /\ Len(squares) = 3
  BY <1>2, <1>4
<1>6. Total(doses) = a.dose + b.dose + c.dose /\ Total(squares) = 0
  <2> HIDE DEF doses, squares
  <2>1. Total(doses) = doses[1] + doses[2] + doses[3]
    BY <1>5, TotalOfThree
  <2>2. Total(squares) = squares[1] + squares[2] + squares[3]
    BY <1>5, TotalOfThree
  <2>3. QED
    BY <1>3, <2>1, <2>2
<1>7. steps \in Seq(Steps)
  OBVIOUS
<1>8. QED
  BY <1>6, <1>7 DEF DoseOf, OverlaySq


(* What is wanted of a plan p that a layer was granted: it fits the layer's *)
(* budgets, and layers that only allow more get the same.                   *)
Fits(p, r) ==
  /\ p.dose = DoseOf(p.steps) /\ p.dose <= r.dose
  /\ OverlaySq(p.steps) <= r.overlay * r.overlay
  /\ \A i \in DOMAIN p.steps : p.steps[i].dose >= 0
Looser(q, r) ==
  q.pitch = r.pitch /\ q.corners = r.corners /\ q.overlay >= r.overlay /\ q.dose >= r.dose

LEMMA RefusalsAreNotOk == \A reason : ~Refusal(reason).ok
BY DEF Refusal

LEMMA StepFields ==
  ASSUME NEW steps, NEW dose
  PROVE  LET p == Plan(steps, dose) IN p.ok /\ p.steps = steps /\ p.dose = dose
BY DEF Plan

(* Overlays are compared by their squares.                                 *)
LEMMA SquaresAreMonotone ==
  ASSUME NEW a \in Nat, NEW b \in Nat, a <= b
  PROVE  a * a \in Nat /\ b * b \in Nat /\ a * a <= b * b
<1>1. PICK d \in Nat : b = a + d
  <2>1. b - a \in Nat /\ b = a + (b - a)
    OBVIOUS
  <2>2. QED
    BY <2>1
<1>2. b * b = a * a + 2 * (a * d) + d * d
  BY <1>1
<1>3. a * a \in Nat /\ a * d \in Nat /\ d * d \in Nat
  OBVIOUS
<1>4. QED
  BY <1>2, <1>3

(* Exposures, cuts and spacers make up a DUV plan.                         *)
LEMMA DuvStepsAreSteps ==
  ASSUME NEW c \in DuvConfig, c \in Configs, Valid(c), NEW r \in Layers
  PROVE  Passes(c) \o Cuts(c, r) \in Seq(Steps)
<1>1. c.dose \in Nat /\ c.overlay \in Int /\ c.scheme \in {"Lele", "Lelele", "Sadp"}
  <2>1. c.overlay \in Int /\ c.scheme \in {"Lele", "Lelele", "Sadp"}
    BY DEF DuvConfig
  <2>2. c.dose \in Nat
    BY ValidDuv
  <2>3. QED
    BY <2>1, <2>2
<1>2. (c.dose * 8) \div 10 \in Nat
  BY <1>1
<1>3. Step("Exposure", c.dose, c.overlay) \in Steps /\ Step("Spacing", 0, 0) \in Steps
      /\ Step("Cut", (c.dose * 8) \div 10, c.overlay) \in Steps
  BY <1>1, <1>2 DEF Step, Steps
<1>4. LithoPasses[c.scheme] \in 1 .. 3
  BY <1>1 DEF LithoPasses
<1>5. Passes(c) \in Seq(Steps)
  <2>1. CASE c.scheme = "Sadp"
    BY <2>1, <1>3 DEF Passes
  <2>2. CASE c.scheme # "Sadp"
    <3>1. LithoPasses[c.scheme] \in Nat
      BY <1>4
    <3>2. [i \in 1 .. LithoPasses[c.scheme] |-> Step("Exposure", c.dose, c.overlay)] \in Seq(Steps)
      BY <1>3, <3>1
    <3>3. QED
      BY <2>2, <3>2 DEF Passes
  <2>3. QED
    BY <2>1, <2>2
<1>6. Cuts(c, r) \in Seq(Steps)
  <2> DEFINE n == IF r.corners > 0 THEN LithoPasses[c.scheme] - 1 ELSE 0
             cut == Step("Cut", (c.dose * 8) \div 10, c.overlay)
  <2>1. n \in Nat
    BY <1>4
  <2> HIDE DEF n
  <2>2. [i \in 1 .. n |-> cut] \in Seq(Steps)
    BY <1>3, <2>1
  <2>3. QED
    BY <2>2 DEF Cuts, n
<1>7. QED
  BY <1>5, <1>6

(* The DUV backend, with its cuts and spacers.                             *)
LEMMA DuvPlanFits ==
  ASSUME NEW c \in DuvConfig, c \in Configs, Valid(c), NEW r \in Layers, PlanDuv(c, r).ok
  PROVE  /\ Fits(PlanDuv(c, r), r)
         /\ \A q \in Layers : Looser(q, r) => PlanDuv(c, q) = PlanDuv(c, r)
         /\ "wavelength" \notin c.nan /\ "na" \notin c.nan => 5 * c.wavelength <= 2 * r.pitch * c.na
<1> DEFINE steps == Passes(c) \o Cuts(c, r)
<1>1. steps \in Seq(Steps) /\ DoseOf(steps) \in Int /\ OverlaySq(steps) \in Int
  BY DuvStepsAreSteps, StepTotalsAreInt
<1>2. r.overlay \in Nat /\ r.dose \in Nat /\ r.pitch \in Nat /\ c.na \in Int /\ c.wavelength \in Int
  BY DEF Layers, DuvConfig
<1>3. 2 * r.pitch * c.na \in Int /\ 5 * c.wavelength \in Int /\ r.overlay * r.overlay \in Int
  BY <1>2
<1>4. /\ ~TooTight(c, 2 * r.pitch * c.na, 5)
      /\ ~(OverlaySq(steps) > r.overlay * r.overlay) /\ ~(DoseOf(steps) > r.dose)
      /\ PlanDuv(c, r) = Plan(steps, DoseOf(steps))
  <2> HIDE DEF steps
  <2>1. PlanDuv(c, r) =
          IF TooTight(c, 2 * r.pitch * c.na, 5) THEN Refusal("pitch")
          ELSE IF OverlaySq(steps) > r.overlay * r.overlay THEN Refusal("overlay")
          ELSE IF DoseOf(steps) > r.dose THEN Refusal("dose")
          ELSE Plan(steps, DoseOf(steps))
    BY DEF PlanDuv, steps
  <2>2. QED
    BY <2>1, RefusalsAreNotOk
<1> HIDE DEF steps
<1>5. "wavelength" \notin c.nan /\ "na" \notin c.nan => 5 * c.wavelength <= 2 * r.pitch * c.na
  <2> SUFFICES ASSUME "wavelength" \notin c.nan, "na" \notin c.nan
               PROVE  5 * c.wavelength <= 2 * r.pitch * c.na
    OBVIOUS
  <2>1. ~(2 * r.pitch * c.na < 5 * c.wavelength)
    BY <1>4 DEF TooTight
  <2>2. QED
    BY <1>3, <2>1
<1>6. OverlaySq(steps) <= r.overlay * r.overlay /\ DoseOf(steps) <= r.dose
  <2> DEFINE square == r.overlay * r.overlay
  <2>1. square \in Int /\ ~(OverlaySq(steps) > square)
    BY <1>3, <1>4
  <2> HIDE DEF square
  <2>2. OverlaySq(steps) <= square
    BY <1>1, <2>1
  <2>3. DoseOf(steps) <= r.dose
    BY <1>1, <1>2, <1>4
  <2>4. QED
    BY <2>2, <2>3 DEF square
<1>7. \A i \in DOMAIN steps : steps[i].dose >= 0
  <2>1. \A i \in 1 .. Len(steps) : steps[i] \in Steps
    BY <1>1, ElementOfSeq
  <2>2. \A i \in 1 .. Len(steps) : steps[i].dose \in Nat
    BY <2>1 DEF Steps
  <2>3. QED
    BY <1>1, <2>2
<1>8. Fits(PlanDuv(c, r), r)
  BY <1>4, <1>6, <1>7, StepFields DEF Fits
<1>9. ASSUME NEW q \in Layers, Looser(q, r) PROVE PlanDuv(c, q) = PlanDuv(c, r)
  <2>1. q.overlay \in Nat /\ q.dose \in Nat /\ q.pitch = r.pitch /\ q.corners = r.corners
        /\ r.overlay <= q.overlay /\ r.dose <= q.dose
    BY <1>2, <1>9 DEF Layers, Looser
  <2>2. r.overlay * r.overlay <= q.overlay * q.overlay /\ q.overlay * q.overlay \in Nat
    BY <1>2, <2>1, SquaresAreMonotone
  <2>3. ~(OverlaySq(steps) > q.overlay * q.overlay) /\ ~(DoseOf(steps) > q.dose)
    <3> DEFINE less == r.overlay * r.overlay
               more == q.overlay * q.overlay
    <3>1. OverlaySq(steps) <= less /\ less <= more /\ less \in Int /\ more \in Int
      BY <1>3, <1>6, <2>2
    <3> HIDE DEF less, more
    <3>2. ~(OverlaySq(steps) > more)
      BY <1>1, <3>1
    <3>3. ~(DoseOf(steps) > q.dose)
      BY <1>1, <1>2, <1>6, <2>1
    <3>4. QED
      BY <3>2, <3>3 DEF more
  <2>4. Passes(c) \o Cuts(c, q) = steps
    BY <2>1 DEF Cuts, steps
  <2>5. ~TooTight(c, 2 * q.pitch * c.na, 5)
    BY <1>4, <2>1
  <2>6. QED
    BY <1>4, <2>3, <2>4, <2>5 DEF PlanDuv
<1>10. QED
  BY <1>5, <1>8, <1>9

(* The dose of an EUV exposure, with its latitude.                          *)
LEMMA EuvDoseIsNat ==
  ASSUME NEW c \in EuvConfig, c \in Configs, Valid(c)
  PROVE  EuvDose(c) \in Nat
<1>1. c.dose \in Nat /\ c.latitude \in Nat
  BY ValidEuv DEF EuvConfig
<1>2. c.dose * (100 + c.latitude) \in Nat
  BY <1>1
<1>3. (c.dose * (100 + c.latitude)) \div 100 \in Nat
  BY <1>2
<1>4. QED
  BY <1>3 DEF EuvDose

(* The one exposure of an EUV plan.                                         *)
LEMMA EuvPlanFits ==
  ASSUME NEW c \in EuvConfig, c \in Configs, Valid(c), NEW r \in Layers, PlanEuv(c, r).ok
  PROVE  /\ Fits(PlanEuv(c, r), r)
         /\ \A q \in Layers : Looser(q, r) => PlanEuv(c, q) = PlanEuv(c, r)
         /\ "wavelength" \notin c.nan /\ "na" \notin c.nan => 2 * c.wavelength <= r.pitch * c.na
<1> DEFINE dose == EuvDose(c)
           s == Step("Exposure", dose, 0)
<1>1. c.na \in Int /\ c.wavelength \in Int
  BY DEF EuvConfig
<1>2. dose \in Nat
  BY EuvDoseIsNat
<1>3. r.overlay \in Nat /\ r.dose \in Nat /\ r.pitch \in Nat
  BY DEF Layers
<1>4. r.pitch * c.na \in Int /\ 2 * c.wavelength \in Int /\ r.overlay * r.overlay \in Nat
  BY <1>1, <1>3
<1>5. s \in Steps /\ s.overlay = 0 /\ s.dose = dose
  <2> HIDE DEF dose
  <2>1. QED
    BY <1>2 DEF Step, Steps
<1>6. \A q : PlanEuv(c, q) = IF TooTight(c, q.pitch * c.na, 2) THEN Refusal("pitch")
                             ELSE IF dose > q.dose THEN Refusal("dose") ELSE Plan(<<s>>, dose)
  BY DEF PlanEuv
<1> HIDE DEF dose, s
<1>7. ~TooTight(c, r.pitch * c.na, 2) /\ ~(dose > r.dose) /\ PlanEuv(c, r) = Plan(<<s>>, dose)
  BY <1>6, RefusalsAreNotOk
<1>8. DoseOf(<<s>>) = dose /\ OverlaySq(<<s>>) = 0
  BY <1>5, TotalsOfOneStep
<1>9. \A i \in DOMAIN <<s>> : <<s>>[i].dose >= 0
  BY <1>2, <1>5
<1>10. dose <= r.dose /\ 0 <= r.overlay * r.overlay
  BY <1>2, <1>3, <1>4, <1>7
<1>11. Fits(PlanEuv(c, r), r)
  BY <1>7, <1>8, <1>9, <1>10, StepFields DEF Fits
<1>12. ASSUME NEW q \in Layers, Looser(q, r) PROVE PlanEuv(c, q) = PlanEuv(c, r)
  <2>1. q.pitch = r.pitch /\ r.dose <= q.dose /\ q.dose \in Nat
    BY <1>3, <1>12 DEF Looser, Layers
  <2>2. ~TooTight(c, q.pitch * c.na, 2)
    BY <1>7, <2>1
  <2>3. ~(dose > q.dose)
    BY <1>2, <1>3, <1>10, <2>1
  <2>4. QED
    BY <1>6, <1>7, <2>2, <2>3
<1>13. "wavelength" \notin c.nan /\ "na" \notin c.nan => 2 * c.wavelength <= r.pitch * c.na
  <2> SUFFICES ASSUME "wavelength" \notin c.nan, "na" \notin c.nan
               PROVE  2 * c.wavelength <= r.pitch * c.na
    OBVIOUS
  <2>1. ~(r.pitch * c.na < 2 * c.wavelength)
    BY <1>7 DEF TooTight
  <2>2. QED
    BY <1>4, <2>1
<1>14. QED
  BY <1>11, <1>12, <1>13

(* The imprint, cure and separation of a NIL plan.                          *)
LEMMA NilPlanFits ==
  ASSUME NEW c \in NilConfig, c \in Configs, Valid(c), NEW r \in Layers, PlanNil(c, r).ok
  PROVE  /\ Fits(PlanNil(c, r), r)
         /\ \A q \in Layers : Looser(q, r) => PlanNil(c, q) = PlanNil(c, r)
<1> DEFINE a == Step("Imprint", 0, 0)
           b == Step("Cure", c.dose, 0)
           d == Step("Separation", 0, 0)
           worn == \/ Defective(c)
                   \/ force # NoForce /\ force \notin c.low .. c.high
                   \/ Remaining = 0
<1>1. c.dose \in Nat
  BY ValidNil
<1>2. r.overlay \in Nat /\ r.dose \in Nat /\ r.overlay * r.overlay \in Nat
  BY DEF Layers
<1>3. /\ a \in Steps /\ b \in Steps /\ d \in Steps
      /\ a.overlay = 0 /\ b.overlay = 0 /\ d.overlay = 0
      /\ a.dose = 0 /\ b.dose = c.dose /\ d.dose = 0
  BY <1>1 DEF Step, Steps
<1>4. \A q : PlanNil(c, q) = IF worn THEN Refusal("template")
                             ELSE IF c.dose > q.dose THEN Refusal("dose")
                             ELSE Plan(<<a, b, d>>, c.dose)
  BY DEF PlanNil
<1> HIDE DEF a, b, d, worn
<1>5. ~worn /\ ~(c.dose > r.dose) /\ PlanNil(c, r) = Plan(<<a, b, d>>, c.dose)
  BY <1>4, RefusalsAreNotOk
<1>6. DoseOf(<<a, b, d>>) = c.dose /\ OverlaySq(<<a, b, d>>) = 0
  <2>1. DoseOf(<<a, b, d>>) = a.dose + b.dose + d.dose /\ OverlaySq(<<a, b, d>>) = 0
    BY <1>3, TotalsOfThreeSteps
  <2>2. a.dose + b.dose + d.dose = c.dose
    BY <1>1, <1>3
  <2>3. QED
    BY <2>1, <2>2
<1>7. \A i \in DOMAIN <<a, b, d>> : <<a, b, d>>[i].dose >= 0
  <2>1. a.dose >= 0 /\ b.dose >= 0 /\ d.dose >= 0
    BY <1>1, <1>3
  <2>2. \A i \in DOMAIN <<a, b, d>> : <<a, b, d>>[i] \in {a, b, d}
    OBVIOUS
  <2>3. QED
    BY <2>1, <2>2
<1>8. c.dose <= r.dose
  BY <1>1, <1>2, <1>5
<1>9. Fits(PlanNil(c, r), r)
  BY <1>2, <1>5, <1>6, <1>7, <1>8, StepFields DEF Fits
<1>10. ASSUME NEW q \in Layers, Looser(q, r) PROVE PlanNil(c, q) = PlanNil(c, r)
  <2>1. r.dose <= q.dose /\ q.dose \in Nat
    BY <1>2, <1>10 DEF Looser, Layers
  <2>2. ~(c.dose > q.dose)
    BY <1>1, <1>2, <1>8, <2>1
  <2>3. QED
    BY <1>4, <1>5, <2>2
<1>11. QED
  BY <1>9, <1>10

(* The write of an e-beam plan.                                             *)
LEMMA EbeamPlanFits ==
  ASSUME NEW c \in EbeamConfig, c \in Configs, Valid(c), NEW r \in Layers, PlanEbeam(c, r).ok
  PROVE  /\ Fits(PlanEbeam(c, r), r)
         /\ \A q \in Layers : Looser(q, r) => PlanEbeam(c, q) = PlanEbeam(c, r)
<1> DEFINE dose == PerPassDose(c)
           s == Step("Write", dose, 0)
<1>1. c.passes \in Nat /\ c.passes > 0 /\ c.current \in Int /\ Positive(c, "current")
  BY ValidEbeam DEF EbeamConfig
<1>2. dose \in Nat
  <2>1. CASE DoseIsNumber(c)
    <3>1. c.current > 0
      BY <1>1, <2>1 DEF DoseIsNumber, Positive
    <3>2. (8000 * 10) \div c.current \in Nat
      BY <1>1, <3>1
    <3>3. ((8000 * 10) \div c.current) \div c.passes \in Nat
      BY <1>1, <3>2
    <3>4. QED
      BY <2>1, <3>3 DEF PerPassDose
  <2>2. CASE ~DoseIsNumber(c)
    BY <2>2 DEF PerPassDose
  <2>3. QED
    BY <2>1, <2>2
<1>3. r.overlay \in Nat /\ r.dose \in Nat /\ r.overlay * r.overlay \in Nat
  BY DEF Layers
<1> HIDE DEF dose
<1>4. s \in Steps /\ s.overlay = 0 /\ s.dose = dose
  BY <1>2 DEF Step, Steps
<1>5. \A q : PlanEbeam(c, q) = IF dose > q.dose THEN Refusal("dose") ELSE Plan(<<s>>, dose)
  BY DEF PlanEbeam, dose
<1> HIDE DEF s
<1>6. ~(dose > r.dose) /\ PlanEbeam(c, r) = Plan(<<s>>, dose)
  BY <1>5, RefusalsAreNotOk
<1>7. DoseOf(<<s>>) = dose /\ OverlaySq(<<s>>) = 0
  BY <1>4, TotalsOfOneStep
<1>8. \A i \in DOMAIN <<s>> : <<s>>[i].dose >= 0
  BY <1>2, <1>4
<1>9. dose <= r.dose /\ 0 <= r.overlay * r.overlay
  BY <1>2, <1>3, <1>6
<1>10. Fits(PlanEbeam(c, r), r)
  BY <1>6, <1>7, <1>8, <1>9, StepFields DEF Fits
<1>11. ASSUME NEW q \in Layers, Looser(q, r) PROVE PlanEbeam(c, q) = PlanEbeam(c, r)
  <2>1. r.dose <= q.dose /\ q.dose \in Nat
    BY <1>3, <1>11 DEF Looser, Layers
  <2>2. ~(dose > q.dose)
    BY <1>2, <1>3, <1>9, <2>1
  <2>3. QED
    BY <1>5, <1>6, <2>2
<1>12. QED
  BY <1>10, <1>11


(* Any backend: a plan it grants fits the layer, and stays when the budgets *)
(* are looser.                                                              *)
LEMMA PlanFits ==
  ASSUME config \in Configs, Valid(config), NEW r \in Layers, PlanExposure(config, r).ok
  PROVE  /\ Fits(PlanExposure(config, r), r)
         /\ \A q \in Layers : Looser(q, r) => PlanExposure(config, q) = PlanExposure(config, r)
<1>1. CASE config \in DuvConfig
  <2>1. \A q : PlanExposure(config, q) = PlanDuv(config, q)
    BY <1>1, ValidDuv DEF PlanExposure
  <2>2. QED
    BY <1>1, <2>1, DuvPlanFits
<1>2. CASE config \in EuvConfig
  <2>1. \A q : PlanExposure(config, q) = PlanEuv(config, q)
    BY <1>2, ValidEuv DEF PlanExposure
  <2>2. QED
    BY <1>2, <2>1, EuvPlanFits
<1>3. CASE config \in NilConfig
  <2>1. \A q : PlanExposure(config, q) = PlanNil(config, q)
    BY <1>3, ValidNil DEF PlanExposure
  <2>2. QED
    BY <1>3, <2>1, NilPlanFits
<1>4. CASE config \in EbeamConfig
  <2>1. \A q : PlanExposure(config, q) = PlanEbeam(config, q)
    BY <1>4, ValidEbeam DEF PlanExposure
  <2>2. QED
    BY <1>4, <2>1, EbeamPlanFits
<1>5. QED
  BY <1>1, <1>2, <1>3, <1>4, ConfigKinds

-----------------------------------------------------------------------------
(* The tools *)

(* A template that is planned has life left.                                *)
LEMMA PlannedHasLife ==
  ASSUME config \in Configs, config.tech = "nil", NEW r, PlanExposure(config, r).ok,
         used \in Nat
  PROVE  config \in NilConfig /\ used < config.life
<1>1. config \in NilConfig
  BY ConfigKinds DEF DuvConfig, EuvConfig, EbeamConfig
<1>2. PlanNil(config, r).ok
  BY DEF PlanExposure
<1>3. Remaining # 0
  BY <1>2, RefusalsAreNotOk DEF PlanNil
<1>4. config.life \in Nat
  BY <1>1 DEF NilConfig
<1>5. QED
  BY <1>1, <1>3, <1>4 DEF Remaining, Minus

(* A film has a target, so it is not the absence of one.                    *)
LEMMA NoFilmIsNoFilm == \A f \in Films : f # NoFilm
<1>1. \A f \in Films : f.target # 0
  BY ToolsAssumption
<1>2. NoFilm.target = 0
  BY DEF NoFilm, Deposition
<1>3. QED
  BY <1>1, <1>2

(* The tools are asked in any order, plans made ahead of their cycles: what *)
(* a tool answered is what it says of its configuration and its wear.       *)
THEOREM ToolsInvariant ==
  ToolsSpec => []ToolsInv
<1>1. ToolsInit => ToolsInv
  <2> SUFFICES ASSUME ToolsInit PROVE ToolsInv
    OBVIOUS
  <2>1. MaxInFlight \in Nat /\ MaxCycles \in Nat
    BY LithoAssumption
  <2>2. config \in Configs /\ Valid(config)
    BY DEF ToolsInit, LithoInit
  <2>3. OverrunIsBounded
    <3> SUFFICES ASSUME config.tech = "nil" PROVE used + inFlight < config.life + MaxInFlight
      BY DEF OverrunIsBounded
    <3>1. config \in NilConfig
      BY <2>2, ConfigKinds DEF DuvConfig, EuvConfig, EbeamConfig
    <3>2. config.life \in Nat /\ config.life > 0
      BY <2>2, <3>1, ValidNil DEF NilConfig
    <3>3. QED
      BY <2>1, <3>2 DEF ToolsInit, LithoInit
  <2>4. heats \in Seq(Heats)
    BY DEF ToolsInit
  <2>5. QED
    BY <2>1, <2>2, <2>3, <2>4 DEF ToolsInit, LithoInit, ToolsInv, PlanIsAnswer, FoundIsAnswer
<1>2. ToolsInv /\ [ToolsNext]_toolsVars => ToolsInv'
  <2> SUFFICES ASSUME ToolsInv, [ToolsNext]_toolsVars PROVE ToolsInv'
    OBVIOUS
  <2>1. MaxInFlight \in Nat /\ MaxCycles \in Nat
    BY LithoAssumption
  <2>2. /\ config \in Configs /\ Valid(config)
        /\ used \in 0 .. MaxCycles /\ inFlight \in 0 .. MaxInFlight
        /\ delivered \in Nat /\ force \in Forces \cup {NoForce} /\ density \in Densities \cup {0}
        /\ film \in Films \cup {NoFilm} /\ heats \in Seq(Heats)
        /\ request \in Requests \cup {NoRequest}
    BY DEF ToolsInv
  <2>3. <<>> \in Seq(Heats)
    OBVIOUS
  <2>4. CASE AskForPlan /\ film' = NoFilm /\ found' = {} /\ heats' = <<>>
    <3>1. /\ inFlight < MaxInFlight /\ request' \in Requests
          /\ plan' = PlanExposure(config, request')
          /\ inFlight' = IF plan'.ok THEN inFlight + 1 ELSE inFlight
          /\ UNCHANGED <<config, used, delivered, density, force>>
      BY <2>4 DEF AskForPlan
    <3>2. PlanIsAnswer'
      BY <3>1 DEF PlanIsAnswer, PlanExposure, PlanDuv, PlanEuv, PlanNil, PlanEbeam, Remaining, Defective
    <3>3. inFlight' \in 0 .. MaxInFlight
      BY <2>1, <2>2, <3>1
    <3>4. OverrunIsBounded'
      <4> SUFFICES ASSUME config'.tech = "nil"
                   PROVE  used' + inFlight' < config'.life + MaxInFlight
        BY DEF OverrunIsBounded
      <4>1. config.tech = "nil" /\ used + inFlight < config.life + MaxInFlight
        BY <3>1 DEF ToolsInv, OverrunIsBounded
      <4>2. CASE plan'.ok
        <5>1. used \in Nat
          BY <2>2
        <5>2. PlanExposure(config, request').ok
          BY <3>1, <4>2
        <5>3. used < config.life /\ config \in NilConfig
          BY <2>2, <4>1, <5>1, <5>2, PlannedHasLife
        <5>4. config.life \in Nat
          BY <5>3 DEF NilConfig
        <5>5. inFlight' = inFlight + 1 /\ used' = used /\ config' = config
          BY <3>1, <4>2
        <5>6. QED
          BY <2>1, <2>2, <3>1, <5>3, <5>4, <5>5
      <4>3. CASE ~plan'.ok
        BY <3>1, <4>1, <4>3
      <4>4. QED
        BY <4>2, <4>3
    <3>5. Valid(config)' /\ FoundIsAnswer'
      BY <2>2, <2>4, <3>1 DEF Valid, FoundIsAnswer
    <3>6. QED
      BY <2>2, <2>3, <2>4, <3>1, <3>2, <3>3, <3>4, <3>5 DEF ToolsInv
  <2>5. ASSUME Recorded, force' \in Forces \cup {NoForce}, density' \in Densities \cup {0},
               delivered' \in Nat,
               film' = NoFilm, found' = {}, heats' = <<>>
        PROVE  ToolsInv'
    <3>1. /\ inFlight > 0 /\ used < MaxCycles /\ used' = used + 1 /\ inFlight' = inFlight - 1
          /\ request' = NoRequest /\ plan' = NoPlan /\ config' = config
      BY <2>5 DEF Recorded
    <3>2. used' \in 0 .. MaxCycles /\ inFlight' \in 0 .. MaxInFlight
      BY <2>1, <2>2, <3>1
    <3>3. used' + inFlight' = used + inFlight
      BY <2>1, <2>2, <3>1
    <3>4. OverrunIsBounded'
      BY <3>1, <3>3 DEF ToolsInv, OverrunIsBounded
    <3>5. Valid(config)' /\ FoundIsAnswer' /\ PlanIsAnswer'
      BY <2>2, <2>5, <3>1 DEF Valid, FoundIsAnswer, PlanIsAnswer
    <3>6. QED
      BY <2>2, <2>3, <2>5, <3>1, <3>2, <3>4, <3>5 DEF ToolsInv
  <2>6. CASE LithoNext /\ ~AskForPlan /\ film' = NoFilm /\ found' = {} /\ heats' = <<>>
    <3>1. CASE RecordExposure
      <4>1. config \in EuvConfig
        BY <2>2, <3>1, ConfigKinds DEF RecordExposure, DuvConfig, NilConfig, EbeamConfig
      <4>2. EuvDose(config) \in Nat
        BY <2>2, <4>1, EuvDoseIsNat
      <4>3. delivered' \in Nat
        BY <2>2, <3>1, <4>2 DEF RecordExposure
      <4>4. QED
        BY <2>2, <2>5, <2>6, <3>1, <4>3 DEF RecordExposure
    <3>2. CASE RecordCycle
      BY <2>2, <2>5, <2>6, <3>2 DEF RecordCycle
    <3>3. CASE RecordWrite
      BY <2>2, <2>5, <2>6, <3>3 DEF RecordWrite
    <3>4. QED
      BY <2>6, <3>1, <3>2, <3>3 DEF LithoNext
  <2>7. ASSUME OtherTool, film' \in Films \cup {NoFilm}, FoundIsAnswer', heats' \in Seq(Heats)
        PROVE  ToolsInv'
    <3>1. request' = NoRequest /\ plan' = NoPlan
          /\ UNCHANGED <<config, used, delivered, density, force, inFlight>>
      BY <2>7 DEF OtherTool
    <3>2. PlanIsAnswer' /\ Valid(config)'
      BY <2>2, <3>1 DEF PlanIsAnswer, Valid
    <3>3. OverrunIsBounded'
      BY <3>1 DEF ToolsInv, OverrunIsBounded
    <3>4. QED
      BY <2>2, <2>7, <3>1, <3>2, <3>3 DEF ToolsInv
  <2>8. CASE SimulateFilm
    <3>1. film' \in Films /\ heats' = <<>> /\ OtherTool
          /\ found' = IF film'.kind = "etch" THEN SimulateEtch(film') ELSE SimulateDeposition(film')
      BY <2>8 DEF SimulateFilm
    <3>2. film' # NoFilm
      BY <3>1, NoFilmIsNoFilm
    <3>3. FoundIsAnswer'
      BY <3>1, <3>2 DEF FoundIsAnswer
    <3>4. QED
      BY <2>3, <2>7, <3>1, <3>3
  <2>9. CASE AddHeat
    <3>1. PICK h \in Heats : heats' = Append(heats, h)
      BY <2>9 DEF AddHeat
    <3>2. heats' \in Seq(Heats)
      BY <2>2, <3>1
    <3>3. film' = NoFilm /\ found' = {} /\ OtherTool
      BY <2>9 DEF AddHeat
    <3>4. FoundIsAnswer'
      BY <3>3 DEF FoundIsAnswer
    <3>5. QED
      BY <2>7, <3>2, <3>3, <3>4
  <2>10. CASE UNCHANGED toolsVars
    BY <2>10 DEF toolsVars, lithoVars, ToolsInv, Valid, PlanIsAnswer, FoundIsAnswer, OverrunIsBounded,
                 PlanExposure, PlanDuv, PlanEuv, PlanNil, PlanEbeam, Remaining,
                 Defective
  <2>11. QED
    BY <2>4, <2>6, <2>8, <2>9, <2>10 DEF ToolsNext, UseBackend
<1>3. QED
  BY <1>1, <1>2, PTL DEF ToolsSpec


(* A plan that was granted is the answer to a layer, and fits it.           *)
LEMMA GrantedPlan ==
  ASSUME ToolsInv, plan.ok
  PROVE  /\ request \in Requests /\ request \in Layers
         /\ plan = PlanExposure(config, request) /\ Fits(plan, request)
         /\ \A q \in Requests : Looser(q, request) => PlanExposure(config, q) = plan
<1>1. plan # NoPlan
  BY RefusalsAreNotOk DEF NoPlan
<1>2. request \in Requests /\ plan = PlanExposure(config, request)
  BY <1>1 DEF ToolsInv, PlanIsAnswer
<1>3. request \in Layers
  BY <1>2, LayersAreTyped
<1>4. config \in Configs /\ Valid(config)
  BY DEF ToolsInv
<1>5. Fits(plan, request) /\ \A q \in Layers : Looser(q, request) => PlanExposure(config, q) = plan
  BY <1>2, <1>3, <1>4, PlanFits
<1>6. QED
  BY <1>2, <1>3, <1>5, LayersAreTyped

(* A layer that is refused gets no steps.                                   *)
LEMMA RefusedHasNoSteps ==
  ASSUME config \in Configs, Valid(config), NEW r, ~PlanExposure(config, r).ok
  PROVE  PlanExposure(config, r).steps = <<>>
<1>1. \A reason : Refusal(reason).steps = <<>>
  BY DEF Refusal
<1>2. \A steps, dose : Plan(steps, dose).ok
  BY DEF Plan
<1>3. CASE config \in DuvConfig
  BY <1>1, <1>2, <1>3, ValidDuv DEF PlanExposure, PlanDuv
<1>4. CASE config \in EuvConfig
  BY <1>1, <1>2, <1>4, ValidEuv DEF PlanExposure, PlanEuv
<1>5. CASE config \in NilConfig
  BY <1>1, <1>2, <1>5, ValidNil DEF PlanExposure, PlanNil
<1>6. CASE config \in EbeamConfig
  BY <1>1, <1>2, <1>6, ValidEbeam DEF PlanExposure, PlanEbeam
<1>7. QED
  BY <1>3, <1>4, <1>5, <1>6, ConfigKinds

(* For any configurations the constructors accept and any layers: what a    *)
(* plan declares in numbers fits the budgets it was asked for (of an e-beam *)
(* write that is one pass), and only refusals depend on them.               *)
THEOREM PlansAlwaysFit ==
  ToolsSpec => []PlansAreWithinBudgets
<1>1. ToolsInv => ToolsTypeOK
  <2> SUFFICES ASSUME ToolsInv PROVE ToolsTypeOK
    OBVIOUS
  <2>1. config \in Configs /\ Valid(config)
    BY DEF ToolsInv
  <2>2. /\ config.tech \in {"euv", "nil"} => config.life > 0
        /\ config.tech = "nil" => config.low < config.high
        /\ config.tech = "duv-multi-pattern" => config.na <= 160 /\ Positive(config, "overlay")
        /\ config.tech = "ebeam" =>
             {"field", "subfield"} \cap config.nan # {} \/ config.field % config.subfield = 0
    <3>1. CASE config \in DuvConfig
      <4>1. config.tech = "duv-multi-pattern" /\ config.na \in 0 .. 160 /\ Positive(config, "overlay")
        BY <2>1, <3>1, ValidDuv
      <4>2. QED
        BY <4>1
    <3>2. CASE config \in EuvConfig
      <4>1. config.tech = "euv" /\ config.life > 0
        BY <2>1, <3>2, ValidEuv
      <4>2. QED
        BY <4>1
    <3>3. CASE config \in NilConfig
      <4>1. config.tech = "nil" /\ config.low < config.high /\ config.life > 0
        BY <2>1, <3>3, ValidNil
      <4>2. QED
        BY <4>1
    <3>4. CASE config \in EbeamConfig
      <4>1. config.tech = "ebeam"
            /\ ({"field", "subfield"} \cap config.nan # {} \/ config.field % config.subfield = 0)
        BY <2>1, <3>4, ValidEbeam
      <4>2. QED
        BY <4>1
    <3>5. QED
      BY <2>1, <3>1, <3>2, <3>3, <3>4, ConfigKinds
  <2>3. Health \in {"Nominal", "Degraded", "Down"}
    BY DEF Health, EuvHealth, NilHealth
  <2>4. \A i \in DOMAIN plan.steps : plan.steps[i].dose >= 0
    <3>1. CASE plan = NoPlan
      <4>1. plan.steps = <<>>
        BY <3>1 DEF NoPlan, Refusal
      <4>2. QED
        BY <4>1
    <3>2. CASE plan.ok
      BY <3>2, GrantedPlan DEF Fits
    <3>3. CASE plan # NoPlan /\ ~plan.ok
      <4>1. plan = PlanExposure(config, request)
        BY <3>3 DEF ToolsInv, PlanIsAnswer
      <4>2. plan.steps = <<>>
        BY <2>1, <3>3, <4>1, RefusedHasNoSteps
      <4>3. QED
        BY <4>2
    <3>4. QED
      BY <3>1, <3>2, <3>3
  <2>5. QED
    BY <2>1, <2>2, <2>3, <2>4 DEF ToolsInv, ToolsTypeOK
<1>2. ToolsInv => PlansFitBudgets
  BY GrantedPlan DEF PlansFitBudgets, Fits
<1>3. ToolsInv => LooserBudgetsKeepPlan
  BY GrantedPlan DEF LooserBudgetsKeepPlan, Looser
<1>4. QED
  BY <1>1, <1>2, <1>3, ToolsInvariant, PTL DEF PlansAreWithinBudgets

(* For any life, any plans ahead and any separation forces: a template that *)
(* is worn, or that the last recorded separation harmed, is planned for     *)
(* nothing, and any other for what the dose allows; the plans ahead bound   *)
(* its use past its life (nil.rs).                                          *)
THEOREM TemplateLifeIsAlwaysKept ==
  ToolsSpec => []TemplateLifeIsKept
<1>1. ToolsInv => WornTemplateIsRefused
  <2> SUFFICES ASSUME ToolsInv, config.tech = "nil", NEW r \in Requests
               PROVE  PlanExposure(config, r).ok <=>
                        /\ Health # "Down"
                        /\ (force = NoForce \/ force \in config.low .. config.high)
                        /\ config.dose <= r.dose
    BY DEF WornTemplateIsRefused
  <2>1. config \in NilConfig
    <3>1. config \in Configs
      BY DEF ToolsInv
    <3>2. QED
      BY <3>1, ConfigKinds DEF DuvConfig, EuvConfig, EbeamConfig
  <2>2. config.dose \in Int /\ r.dose \in Nat
    BY <2>1, LayersAreTyped DEF NilConfig, Layers
  <2>3. Health # "Down" <=> ~(Remaining = 0 \/ Defective(config))
    BY DEF Health, NilHealth
  <2>4. PlanExposure(config, r) = PlanNil(config, r)
    BY DEF PlanExposure
  <2> DEFINE imprint == Plan(<<Step("Imprint", 0, 0), Step("Cure", config.dose, 0),
                               Step("Separation", 0, 0)>>, config.dose)
  <2>5. PlanNil(config, r) =
          IF Defective(config) THEN Refusal("template")
          ELSE IF force # NoForce /\ force \notin config.low .. config.high THEN Refusal("template")
          ELSE IF Remaining = 0 THEN Refusal("template")
          ELSE IF config.dose > r.dose THEN Refusal("dose") ELSE imprint
    BY DEF PlanNil
  <2>6. imprint.ok
    BY DEF Plan
  <2> HIDE DEF imprint
  <2>7. config.dose <= r.dose <=> ~(config.dose > r.dose)
    BY <2>2
  <2>8. QED
    BY <2>3, <2>4, <2>5, <2>6, <2>7, RefusalsAreNotOk
<1>2. ToolsInv => OverrunIsBounded
  BY DEF ToolsInv
<1>3. QED
  BY <1>1, <1>2, ToolsInvariant, PTL DEF TemplateLifeIsKept


-----------------------------------------------------------------------------
(* Biases *)

LEMMA IlluminationIs ==
  /\ DOMAIN Illumination = {"duv-multi-pattern", "euv"}
  /\ Illumination["duv-multi-pattern"] = [wavelength |-> 1930, na |-> 135]
  /\ Illumination["euv"] = [wavelength |-> 135, na |-> 33]
BY DEF Illumination

(* Greater factors have the greater product.                               *)
LEMMA ProductsAreMonotone ==
  ASSUME NEW m \in Nat, NEW a \in Nat, NEW b \in Nat, a <= b
  PROVE  m * a <= m * b /\ m * a \in Nat /\ m * b \in Nat
<1>1. b - a \in Nat
  OBVIOUS
<1>2. m * b = m * a + m * (b - a)
  BY <1>1
<1>3. m * (b - a) \in Nat /\ m * a \in Nat /\ m * b \in Nat
  BY <1>1
<1>4. QED
  BY <1>2, <1>3

(* Tighter pitches get more bias.                                           *)
LEMMA DenserIsMore ==
  ASSUME NEW wavelength \in Nat \ {0}, NEW na \in Nat \ {0},
         NEW p \in Nat, NEW q \in Nat, p <= q
  PROVE  LET illum == [wavelength |-> wavelength, na |-> na]
         IN  LeqBias(DenseBias(illum, q), DenseBias(illum, p))
<1> DEFINE illum == [wavelength |-> wavelength, na |-> na]
           w == 7 * wavelength
           a == w - 2 * p * na
           b == w - 2 * q * na
<1>1. MaxLineBias \in Nat
  BY ToolsAssumption
<1>2. w \in Nat /\ w > 0
  OBVIOUS
<1>3. a \in Int /\ b \in Int /\ b <= a
  <2>1. na * p <= na * q /\ na * p \in Nat /\ na * q \in Nat
    BY ProductsAreMonotone
  <2>2. 2 * p * na = 2 * (na * p) /\ 2 * q * na = 2 * (na * q)
    OBVIOUS
  <2> DEFINE x == na * p
             y == na * q
  <2>3. x <= y /\ x \in Nat /\ y \in Nat
    BY <2>1
  <2>4. a = w - 2 * x /\ b = w - 2 * y
    BY <2>2
  <2> HIDE DEF x, y, a, b, w
  <2>5. QED
    BY <1>2, <2>3, <2>4
<1>4. \A r \in {p, q} : DenseBias(illum, r) =
         IF 2 * r * na < w THEN Bias(MaxLineBias * (w - 2 * r * na), w) ELSE NoBias
  BY DEF DenseBias
<1>5. /\ DenseBias(illum, p) = IF a > 0 THEN Bias(MaxLineBias * a, w) ELSE NoBias
      /\ DenseBias(illum, q) = IF b > 0 THEN Bias(MaxLineBias * b, w) ELSE NoBias
  <2>1. 2 * p * na \in Int /\ 2 * q * na \in Int
    OBVIOUS
  <2>2. (2 * p * na < w <=> a > 0) /\ (2 * q * na < w <=> b > 0)
    <3> DEFINE x == 2 * p * na
               y == 2 * q * na
    <3>1. x \in Int /\ y \in Int /\ a = w - x /\ b = w - y
      BY <2>1
    <3> HIDE DEF x, y, a, b, w
    <3>2. (x < w <=> a > 0) /\ (y < w <=> b > 0)
      BY <1>2, <3>1
    <3>3. QED
      BY <3>2 DEF x, y
  <2>3. QED
    BY <1>4, <2>2
<1> HIDE DEF w, a, b, illum
<1>6. CASE a > 0 /\ b > 0
  <2>1. MaxLineBias * b <= MaxLineBias * a /\ MaxLineBias * a \in Nat /\ MaxLineBias * b \in Nat
    BY <1>1, <1>3, <1>6, ProductsAreMonotone
  <2> DEFINE x == MaxLineBias * b
             y == MaxLineBias * a
  <2>2. x <= y /\ x \in Nat /\ y \in Nat
    BY <2>1
  <2>3. DenseBias(illum, p) = Bias(y, w) /\ DenseBias(illum, q) = Bias(x, w)
    BY <1>5, <1>6
  <2> HIDE DEF x, y
  <2>4. w * x <= w * y /\ w * x = x * w /\ w * y = y * w
    BY <1>2, <2>2, ProductsAreMonotone
  <2>5. LeqBias(Bias(x, w), Bias(y, w))
    BY <2>4 DEF LeqBias, Bias
  <2>6. QED
    BY <2>3, <2>5 DEF illum
<1>7. CASE a > 0 /\ ~(b > 0)
  <2>1. MaxLineBias * a \in Nat
    BY <1>1, <1>3, <1>7
  <2> DEFINE y == MaxLineBias * a
  <2>2. DenseBias(illum, p) = Bias(y, w) /\ DenseBias(illum, q) = NoBias /\ y \in Nat
    BY <1>5, <1>7, <2>1
  <2> HIDE DEF y
  <2>3. LeqBias(NoBias, Bias(y, w))
    BY <1>2, <2>2 DEF LeqBias, Bias, NoBias
  <2>4. QED
    BY <2>2, <2>3 DEF illum
<1>8. CASE ~(a > 0)
  <2>1. ~(b > 0)
    BY <1>3, <1>8
  <2>2. DenseBias(illum, p) = NoBias /\ DenseBias(illum, q) = NoBias
    BY <1>5, <1>8, <2>1
  <2>3. LeqBias(NoBias, NoBias)
    BY DEF LeqBias, NoBias, Bias
  <2>4. QED
    BY <2>2, <2>3 DEF illum
<1>9. QED
  BY <1>6, <1>7, <1>8

(* The most that a pitch at the limit of a backend needs.                   *)
LEMMA EuvBiasIsBounded ==
  ASSUME NEW p \in Nat, 2 * 135 <= p * 33
  PROVE  LeqBias(DenseBias([wavelength |-> 135, na |-> 33], p), Bias(3 * MaxLineBias, 7))
<1>1. MaxLineBias \in Nat
  BY ToolsAssumption
<1> DEFINE a == 945 - 66 * p
<1>2. a \in Int /\ a <= 405
  OBVIOUS
<1>3. DenseBias([wavelength |-> 135, na |-> 33], p)
        = IF a > 0 THEN Bias(MaxLineBias * a, 945) ELSE NoBias
  <2>1. 7 * 135 = 945 /\ 2 * p * 33 = 66 * p
    OBVIOUS
  <2>2. 2 * p * 33 < 945 <=> a > 0
    BY <2>1
  <2>3. MaxLineBias * (7 * 135 - 2 * p * 33) = MaxLineBias * a
    BY <2>1
  <2> HIDE DEF a
  <2>4. QED
    BY <2>1, <2>2, <2>3 DEF DenseBias
<1> HIDE DEF a
<1>4. CASE a > 0
  <2>1. MaxLineBias * a <= MaxLineBias * 405 /\ MaxLineBias * a \in Nat
    BY <1>1, <1>2, <1>4, ProductsAreMonotone
  <2> DEFINE x == MaxLineBias * a
  <2>2. x \in Nat /\ x <= MaxLineBias * 405 /\ DenseBias([wavelength |-> 135, na |-> 33], p) = Bias(x, 945)
    BY <1>3, <1>4, <2>1
  <2> HIDE DEF x
  <2>3. x * 7 <= (3 * MaxLineBias) * 945
    BY <1>1, <2>2
  <2>4. LeqBias(Bias(x, 945), Bias(3 * MaxLineBias, 7))
    BY <2>3 DEF LeqBias, Bias
  <2>5. QED
    BY <2>2, <2>4
<1>5. CASE ~(a > 0)
  <2>1. LeqBias(NoBias, Bias(3 * MaxLineBias, 7))
    BY <1>1 DEF LeqBias, Bias, NoBias
  <2>2. QED
    BY <1>3, <1>5, <2>1
<1>6. QED
  BY <1>4, <1>5

(* Biases under DUV illumination.                                          *)
LEMMA DuvBiasIsBounded ==
  ASSUME NEW p \in Nat, 5 * 1930 <= 2 * p * 135
  PROVE  LeqBias(DenseBias([wavelength |-> 1930, na |-> 135], p), Bias(2 * MaxLineBias, 7))
<1>1. MaxLineBias \in Nat
  BY ToolsAssumption
<1> DEFINE a == 13510 - 270 * p
<1>2. a \in Int /\ a <= 3860
  OBVIOUS
<1>3. DenseBias([wavelength |-> 1930, na |-> 135], p)
        = IF a > 0 THEN Bias(MaxLineBias * a, 13510) ELSE NoBias
  <2>1. 7 * 1930 = 13510 /\ 2 * p * 135 = 270 * p
    OBVIOUS
  <2>2. 2 * p * 135 < 13510 <=> a > 0
    BY <2>1
  <2>3. MaxLineBias * (7 * 1930 - 2 * p * 135) = MaxLineBias * a
    BY <2>1
  <2> HIDE DEF a
  <2>4. QED
    BY <2>1, <2>2, <2>3 DEF DenseBias
<1> HIDE DEF a
<1>4. CASE a > 0
  <2>1. MaxLineBias * a <= MaxLineBias * 3860 /\ MaxLineBias * a \in Nat
    BY <1>1, <1>2, <1>4, ProductsAreMonotone
  <2> DEFINE x == MaxLineBias * a
  <2>2. x \in Nat /\ x <= MaxLineBias * 3860 /\ DenseBias([wavelength |-> 1930, na |-> 135], p) = Bias(x, 13510)
    BY <1>3, <1>4, <2>1
  <2> HIDE DEF x
  <2>3. x * 7 <= (2 * MaxLineBias) * 13510
    BY <1>1, <2>2
  <2>4. LeqBias(Bias(x, 13510), Bias(2 * MaxLineBias, 7))
    BY <2>3 DEF LeqBias, Bias
  <2>5. QED
    BY <2>2, <2>4
<1>5. CASE ~(a > 0)
  <2>1. LeqBias(NoBias, Bias(2 * MaxLineBias, 7))
    BY <1>1 DEF LeqBias, Bias, NoBias
  <2>2. QED
    BY <1>3, <1>5, <2>1
<1>6. QED
  BY <1>4, <1>5


(* For any optics, of the lines and spaces at a pitch a backend agreed to   *)
(* print: the line bias falls with the pitch, spaces give it back, and with *)
(* the optics the engine assumes it is at most 2/7 of the whole, 3/7 for    *)
(* EUV (opc.rs: analyze).                                                   *)
THEOREM BiasAlwaysBounded ==
  ToolsSpec => []BiasStaysBounded
<1>1. ToolsInv => BiasStaysBounded
  <2> SUFFICES ASSUME ToolsInv, config.tech \in DOMAIN Illumination, plan.ok, request.pitch # Isolated
               PROVE  LET line(r) == Analyze(config.tech, "Line", r.pitch)
                          most == IF config.tech = "euv" THEN Bias(3 * MaxLineBias, 7)
                                  ELSE Bias(2 * MaxLineBias, 7)
                      IN  /\ HasReferenceOptics => LeqBias(line(request), most)
                          /\ \A r \in Requests : request.pitch <= r.pitch => LeqBias(line(r), line(request))
                          /\ Analyze(config.tech, "Space", request.pitch).num = -line(request).num
    BY DEF BiasStaysBounded
  <2> DEFINE illum == Illumination[config.tech]
  <2>1. config \in Configs /\ Valid(config)
    BY DEF ToolsInv
  <2>2. request \in Layers /\ plan = PlanExposure(config, request)
    BY GrantedPlan
  <2>3. config.tech \in {"duv-multi-pattern", "euv"}
    BY IlluminationIs
  <2>4. CASE config.tech = "euv"
    <3>1. config \in EuvConfig
      BY <2>1, <2>4, ConfigKinds DEF DuvConfig, NilConfig, EbeamConfig
    <3>2. PlanEuv(config, request).ok
      BY <2>2, <2>4 DEF PlanExposure
    <3>3. "wavelength" \notin config.nan /\ "na" \notin config.nan
          => 2 * config.wavelength <= request.pitch * config.na
      BY <2>1, <2>2, <3>1, <3>2, EuvPlanFits
    <3>4. request.pitch \in Nat
      BY <2>2 DEF Layers
    <3>5. request.pitch # 0
      BY DEF Isolated
    <3>6. illum = [wavelength |-> 135, na |-> 33]
      BY <2>4, IlluminationIs
    <3>7. \A r : r.pitch # 0 => Analyze(config.tech, "Line", r.pitch) = DenseBias(illum, r.pitch)
      BY <2>4, IlluminationIs DEF Analyze, Isolated
    <3>8. ASSUME HasReferenceOptics
          PROVE  LeqBias(DenseBias(illum, request.pitch), Bias(3 * MaxLineBias, 7))
      <4>1. config.wavelength = 135 /\ config.na = 33
        BY <3>6, <3>8 DEF HasReferenceOptics
      <4>2. "wavelength" \notin config.nan /\ "na" \notin config.nan
        BY <2>1, <4>1, NanIsZero
      <4>3. 2 * 135 <= request.pitch * 33
        BY <3>3, <4>1, <4>2
      <4>4. QED
        BY <3>4, <3>6, <4>3, EuvBiasIsBounded
    <3>9. ASSUME NEW r \in Requests, request.pitch <= r.pitch
          PROVE  r.pitch # 0 /\ LeqBias(DenseBias(illum, r.pitch), DenseBias(illum, request.pitch))
      <4>1. r.pitch \in Nat
        BY LayersAreTyped DEF Layers
      <4>2. r.pitch # 0
        BY <3>4, <3>5, <3>9, <4>1
      <4>3. 135 \in Nat \ {0} /\ 33 \in Nat \ {0}
        OBVIOUS
      <4>4. QED
        BY <3>4, <3>6, <3>9, <4>1, <4>2, <4>3, DenserIsMore
    <3>10. Analyze(config.tech, "Space", request.pitch).num = -DenseBias(illum, request.pitch).num
      BY <2>4, <3>5, IlluminationIs DEF Analyze, Isolated, Bias
    <3>11. QED
      BY <2>4, <3>5, <3>7, <3>8, <3>9, <3>10
  <2>5. CASE config.tech = "duv-multi-pattern"
    <3>1. config \in DuvConfig
      BY <2>1, <2>5, ConfigKinds DEF EuvConfig, NilConfig, EbeamConfig
    <3>2. PlanDuv(config, request).ok
      BY <2>2, <2>5 DEF PlanExposure
    <3>3. "wavelength" \notin config.nan /\ "na" \notin config.nan
          => 5 * config.wavelength <= 2 * request.pitch * config.na
      BY <2>1, <2>2, <3>1, <3>2, DuvPlanFits
    <3>4. request.pitch \in Nat
      BY <2>2 DEF Layers
    <3>5. request.pitch # 0
      BY DEF Isolated
    <3>6. illum = [wavelength |-> 1930, na |-> 135]
      BY <2>5, IlluminationIs
    <3>7. \A r : r.pitch # 0 => Analyze(config.tech, "Line", r.pitch) = DenseBias(illum, r.pitch)
      BY <2>5, IlluminationIs DEF Analyze, Isolated
    <3>8. ASSUME HasReferenceOptics
          PROVE  LeqBias(DenseBias(illum, request.pitch), Bias(2 * MaxLineBias, 7))
      <4>1. config.wavelength = 1930 /\ config.na = 135
        BY <3>6, <3>8 DEF HasReferenceOptics
      <4>2. "wavelength" \notin config.nan /\ "na" \notin config.nan
        BY <2>1, <4>1, NanIsZero
      <4>3. 5 * 1930 <= 2 * request.pitch * 135
        BY <3>3, <4>1, <4>2
      <4>4. QED
        BY <3>4, <3>6, <4>3, DuvBiasIsBounded
    <3>9. ASSUME NEW r \in Requests, request.pitch <= r.pitch
          PROVE  r.pitch # 0 /\ LeqBias(DenseBias(illum, r.pitch), DenseBias(illum, request.pitch))
      <4>1. r.pitch \in Nat
        BY LayersAreTyped DEF Layers
      <4>2. r.pitch # 0
        BY <3>4, <3>5, <3>9, <4>1
      <4>3. 1930 \in Nat \ {0} /\ 135 \in Nat \ {0}
        OBVIOUS
      <4>4. QED
        BY <3>4, <3>6, <3>9, <4>1, <4>2, <4>3, DenserIsMore
    <3>10. Analyze(config.tech, "Space", request.pitch).num = -DenseBias(illum, request.pitch).num
      BY <2>5, <3>5, IlluminationIs DEF Analyze, Isolated, Bias
    <3>11. QED
      BY <2>5, <3>5, <3>7, <3>8, <3>9, <3>10
  <2>6. QED
    BY <2>3, <2>4, <2>5
<1>2. QED
  BY <1>1, ToolsInvariant, PTL


-----------------------------------------------------------------------------
(* Films and heat *)

LEMMA FilmsAreTyped ==
  ASSUME NEW f \in Films
  PROVE  /\ f.kind \in {"etch", "deposition"} /\ f.target \in Nat \ {0} /\ f.nu \in Nat /\ f.cd \in Nat
         /\ f.window.min \in Int /\ f.window.max \in Int /\ f.window.min <= f.window.max
         /\ f.cdWindow.min \in Int /\ f.cdWindow.max \in Int /\ f.cdWindow.min <= f.cdWindow.max
<1>1. f \in [kind : {"etch", "deposition"}, target : Nat \ {0}, nu : Nat, window : [min : Int, max : Int],
             cd : Nat, cdWindow : [min : Int, max : Int]]
  BY ToolsAssumption
<1>2. f.window.min <= f.window.max /\ f.cdWindow.min <= f.cdWindow.max
  BY ToolsAssumption
<1>3. f.window \in [min : Int, max : Int] /\ f.cdWindow \in [min : Int, max : Int]
  BY <1>1
<1>4. QED
  BY <1>1, <1>2, <1>3

LEMMA ProductIsPositive ==
  ASSUME NEW a \in Nat \ {0}, NEW b \in Nat \ {0} PROVE a * b > 0
<1>1. b - 1 \in Nat /\ a * b = a + a * (b - 1)
  OBVIOUS
<1>2. a * (b - 1) \in Nat
  BY <1>1
<1>3. QED
  BY <1>1, <1>2

LEMMA SitesAre == DOMAIN Sites = {"center", "north", "south", "east", "west"}
BY DEF Sites

(* The value at a site, around the one at the center.                       *)
Around(x, f, y) ==
  /\ y \in Nat
  /\ AtSite(x, f, "center") = 300 * x
  /\ AtSite(x, f, "north") = 300 * x + 2 * y
  /\ AtSite(x, f, "south") = 300 * x - 2 * y
  /\ AtSite(x, f, "east") = 300 * x + 3 * y
  /\ AtSite(x, f, "west") = 300 * x - 3 * y

(* What a film measures at each site, from its target and non-uniformity.  *)
LEMMA ValueAtSite ==
  ASSUME NEW x \in Nat, NEW f, f.nu \in Nat
  PROVE  Around(x, f, x * f.nu)
<1>1. /\ DOMAIN Sites = {"center", "north", "south", "east", "west"}
      /\ Sites["center"] = 0 /\ Sites["north"] = 2 /\ Sites["south"] = -2
      /\ Sites["east"] = 3 /\ Sites["west"] = -3
  BY DEF Sites
<1> DEFINE n == f.nu
<1>2. n \in Nat
  OBVIOUS
<1> HIDE DEF n
<1>3. x * n \in Nat /\ x * (300 + n * 0) = 300 * x
  BY <1>2
<1>4. x * (300 + n * 2) = 300 * x + 2 * (x * n)
  BY <1>2
<1>5. x * (300 + n * (-2)) = 300 * x - 2 * (x * n)
  BY <1>2
<1>6. x * (300 + n * 3) = 300 * x + 3 * (x * n)
  BY <1>2
<1>7. x * (300 + n * (-3)) = 300 * x - 3 * (x * n)
  BY <1>2
<1>8. \A s : AtSite(x, f, s) = x * (300 + n * Sites[s])
  BY DEF AtSite, n
<1>9. /\ AtSite(x, f, "center") = x * (300 + n * 0) /\ AtSite(x, f, "north") = x * (300 + n * 2)
      /\ AtSite(x, f, "south") = x * (300 + n * (-2)) /\ AtSite(x, f, "east") = x * (300 + n * 3)
      /\ AtSite(x, f, "west") = x * (300 + n * (-3))
  BY <1>1, <1>8
<1>10. QED
  BY <1>1, <1>3, <1>4, <1>5, <1>6, <1>7, <1>9 DEF n, Around

(* No site is farther out than the fastest and the slowest one.             *)
LEMMA ExtremeSites ==
  ASSUME NEW x \in Nat, NEW f, f.nu \in Nat, NEW s \in DOMAIN Sites
  PROVE  /\ AtSite(x, f, s) \in Int /\ AtSite(x, f, "east") \in Int /\ AtSite(x, f, "west") \in Int
         /\ AtSite(x, f, "west") <= AtSite(x, f, s) /\ AtSite(x, f, s) <= AtSite(x, f, "east")
<1> DEFINE y == x * f.nu
<1>1. /\ y \in Nat
      /\ s \in {"center", "north", "south", "east", "west"}
      /\ AtSite(x, f, "center") = 300 * x
      /\ AtSite(x, f, "north") = 300 * x + 2 * y /\ AtSite(x, f, "south") = 300 * x - 2 * y
      /\ AtSite(x, f, "east") = 300 * x + 3 * y /\ AtSite(x, f, "west") = 300 * x - 3 * y
  <2>1. Around(x, f, y)
    BY ValueAtSite
  <2> HIDE DEF y
  <2>2. QED
    BY <2>1, SitesAre DEF Around
<1> HIDE DEF y
<1>2. QED
  BY <1>1

(* What is out of a window is violated by its value.                        *)
Violates(v, kind, x, f, window) ==
  /\ v.kind = kind /\ v.site \in DOMAIN Sites /\ v.value = AtSite(x, f, v.site)
  /\ v.margin = Margin(Scaled(window), v.value)
  /\ v.value < 300 * window.min \/ v.value > 300 * window.max

OutAt(x, f, window, s) ==
  AtSite(x, f, s) < 300 * window.min \/ AtSite(x, f, s) > 300 * window.max
Reported(kind, x, f, window, s) ==
  \E v \in OutOfWindow(kind, x, f, window) : v.site = s /\ v.kind = kind

(* What is reported is out of its window, and what is out is reported.     *)
LEMMA OutOfWindowIs ==
  ASSUME NEW kind, NEW x \in Nat, NEW f, f.nu \in Nat, NEW window, window.min \in Int, window.max \in Int
  PROVE  /\ \A v \in OutOfWindow(kind, x, f, window) : Violates(v, kind, x, f, window)
         /\ \A s \in DOMAIN Sites : OutAt(x, f, window, s) => Reported(kind, x, f, window, s)
<1> DEFINE w == Scaled(window)
           out == {s \in DOMAIN Sites : ~Inside(w, AtSite(x, f, s))}
<1>1. OutOfWindow(kind, x, f, window) = {Violation(kind, s, AtSite(x, f, s), w) : s \in out}
  BY DEF OutOfWindow
<1>2. w.min = 300 * window.min /\ w.max = 300 * window.max /\ w.min \in Int /\ w.max \in Int
  BY DEF Scaled, Window
<1> HIDE DEF w
<1>3. \A s \in DOMAIN Sites :
        s \in out <=> AtSite(x, f, s) < 300 * window.min \/ AtSite(x, f, s) > 300 * window.max
  <2> SUFFICES ASSUME NEW s \in DOMAIN Sites
               PROVE  s \in out <=> AtSite(x, f, s) < 300 * window.min \/ AtSite(x, f, s) > 300 * window.max
    OBVIOUS
  <2>1. AtSite(x, f, s) \in Int
    BY ExtremeSites
  <2>2. Inside(w, AtSite(x, f, s)) <=> ~(AtSite(x, f, s) < w.min \/ AtSite(x, f, s) > w.max)
    BY <1>2, <2>1 DEF Inside
  <2>3. QED
    BY <1>2, <2>2
<1>4. \A s \in out : LET v == Violation(kind, s, AtSite(x, f, s), w)
                     IN  v.kind = kind /\ v.site = s /\ v.value = AtSite(x, f, s) /\ v.margin = Margin(w, v.value)
  BY DEF Violation
<1>5. out \subseteq DOMAIN Sites
  OBVIOUS
<1> HIDE DEF out
<1>6. ASSUME NEW v \in OutOfWindow(kind, x, f, window)
      PROVE  Violates(v, kind, x, f, window)
  <2>1. PICK s \in out : v = Violation(kind, s, AtSite(x, f, s), w)
    BY <1>1, <1>6
  <2>2. v.kind = kind /\ v.site = s /\ v.value = AtSite(x, f, s) /\ v.margin = Margin(w, v.value)
    BY <1>4, <2>1
  <2>3. QED
    BY <1>3, <1>5, <2>2 DEF Violates, w
<1>7. ASSUME NEW s \in DOMAIN Sites, OutAt(x, f, window, s)
      PROVE  Reported(kind, x, f, window, s)
  <2>1. s \in out
    BY <1>3, <1>7 DEF OutAt
  <2>2. QED
    BY <1>1, <1>4, <2>1 DEF Reported
<1>8. QED
  BY <1>6, <1>7

(* If any site is out of the window, one of the outermost ones is.         *)
LEMMA WorstSiteIsOut ==
  ASSUME NEW kind, NEW x \in Nat, NEW f, f.nu \in Nat, NEW window, window.min \in Int, window.max \in Int,
         NEW v \in OutOfWindow(kind, x, f, window)
  PROVE  \E w \in OutOfWindow(kind, x, f, window) : w.kind = kind /\ w.site \in {"east", "west"}
<1>1. v.site \in DOMAIN Sites /\ v.value = AtSite(x, f, v.site)
      /\ (v.value < 300 * window.min \/ v.value > 300 * window.max)
  <2>1. Violates(v, kind, x, f, window)
    BY OutOfWindowIs
  <2>2. QED
    BY <2>1 DEF Violates
<1>2. /\ v.value \in Int /\ AtSite(x, f, "east") \in Int /\ AtSite(x, f, "west") \in Int
      /\ AtSite(x, f, "west") <= v.value /\ v.value <= AtSite(x, f, "east")
  BY <1>1, ExtremeSites
<1>3. AtSite(x, f, "west") < 300 * window.min \/ AtSite(x, f, "east") > 300 * window.max
  BY <1>1, <1>2
<1>4. "east" \in DOMAIN Sites /\ "west" \in DOMAIN Sites
  BY DEF Sites
<1>5. OutAt(x, f, window, "west") \/ OutAt(x, f, window, "east")
  BY <1>3 DEF OutAt
<1>6. Reported(kind, x, f, window, "west") \/ Reported(kind, x, f, window, "east")
  BY <1>4, <1>5, OutOfWindowIs
<1>7. QED
  BY <1>6 DEF Reported

(* A target on the upper edge is out of its window at the fastest site.     *)
LEMMA EdgeTargetIsOut ==
  ASSUME NEW kind, NEW f, f.target \in Nat \ {0}, f.nu \in Nat, f.nu > 0,
         f.window.min \in Int, f.window.max \in Int, f.target = f.window.max
  PROVE  \E v \in OutOfWindow(kind, f.target, f, f.window) : v.kind = kind /\ v.site = "east"
<1> DEFINE y == f.target * f.nu
<1>1. y > 0 /\ y \in Nat
  BY ProductIsPositive
<1>2. AtSite(f.target, f, "east") = 300 * f.target + 3 * y
  <2>1. Around(f.target, f, y)
    BY ValueAtSite
  <2> HIDE DEF y
  <2>2. QED
    BY <2>1 DEF Around
<1> HIDE DEF y
<1>3. AtSite(f.target, f, "east") > 300 * f.window.max
  BY <1>1, <1>2
<1>4. "east" \in DOMAIN Sites
  BY DEF Sites
<1>5. f.target \in Nat
  OBVIOUS
<1>6. OutAt(f.target, f, f.window, "east")
  BY <1>3 DEF OutAt
<1>7. Reported(kind, f.target, f, f.window, "east")
  BY <1>4, <1>5, <1>6, OutOfWindowIs
<1>8. QED
  BY <1>7 DEF Reported

LEMMA SquareOfNegative == \A a \in Int : a * a = (-a) * (-a)
OBVIOUS

(* A margin is the way back to the nearer edge.                             *)
LEMMA MarginLeadsBack ==
  ASSUME NEW lo \in Int, NEW hi \in Int, lo <= hi, NEW v \in Int, v < lo \/ v > hi,
         NEW w, w = Window(lo, hi)
  PROVE  /\ Margin(w, v) # 0 /\ v - Margin(w, v) \in {w.min, w.max}
         /\ \A edge \in {w.min, w.max} : Margin(w, v) * Margin(w, v) <= (v - edge) * (v - edge)
<1>1. w.min = lo /\ w.max = hi
  BY DEF Window
<1>2. CASE v < lo
  <2>1. Margin(w, v) = v - lo
    BY <1>1, <1>2 DEF Margin
  <2>2. lo - v \in Nat /\ hi - v \in Nat /\ lo - v <= hi - v /\ v - lo # 0 /\ v - (v - lo) = lo
    BY <1>2
  <2>3. (lo - v) * (lo - v) <= (hi - v) * (hi - v)
    BY <2>2, SquaresAreMonotone
  <2>4. (v - lo) * (v - lo) = (lo - v) * (lo - v) /\ (v - hi) * (v - hi) = (hi - v) * (hi - v)
    <3>1. v - lo \in Int /\ v - hi \in Int /\ -(v - lo) = lo - v /\ -(v - hi) = hi - v
      OBVIOUS
    <3>2. QED
      BY <3>1, SquareOfNegative
  <2>5. (v - lo) * (v - lo) \in Int
    OBVIOUS
  <2>6. (v - lo) * (v - lo) <= (v - lo) * (v - lo)
    BY <2>5
  <2>7. \A edge \in {lo, hi} : (v - lo) * (v - lo) <= (v - edge) * (v - edge)
    BY <2>3, <2>4, <2>6
  <2>8. QED
    BY <1>1, <2>1, <2>2, <2>7
<1>3. CASE v > hi
  <2>1. Margin(w, v) = v - hi
    BY <1>1, <1>3 DEF Margin
  <2>2. v - hi \in Nat /\ v - lo \in Nat /\ v - hi <= v - lo /\ v - hi # 0 /\ v - (v - hi) = hi
    BY <1>3
  <2>3. (v - hi) * (v - hi) <= (v - lo) * (v - lo)
    BY <2>2, SquaresAreMonotone
  <2>4. (v - hi) * (v - hi) \in Int
    OBVIOUS
  <2>5. (v - hi) * (v - hi) <= (v - hi) * (v - hi)
    BY <2>4
  <2>6. \A edge \in {lo, hi} : (v - hi) * (v - hi) <= (v - edge) * (v - edge)
    BY <2>3, <2>5
  <2>7. QED
    BY <1>1, <2>1, <2>2, <2>6
<1>4. QED
  BY <1>2, <1>3


(* The violations of each quantity of a film.                               *)
LEMMA FoundAre ==
  ASSUME ToolsInv, film \in Films, NEW v \in found
  PROVE  \/ v \in OutOfWindow("depth", film.target, film, film.window) /\ film.kind = "etch"
         \/ v \in OutOfWindow("cd", film.cd, film, film.cdWindow) /\ film.kind = "etch"
         \/ v \in OutOfWindow("thickness", film.target, film, film.window) /\ film.kind # "etch"
BY NoFilmIsNoFilm DEF ToolsInv, FoundIsAnswer, SimulateEtch, SimulateDeposition

(* What a simulation finds of each kind of film.                           *)
LEMMA FoundHave ==
  ASSUME ToolsInv, film \in Films
  PROVE  /\ film.kind = "etch" =>
              /\ OutOfWindow("depth", film.target, film, film.window) \subseteq found
              /\ OutOfWindow("cd", film.cd, film, film.cdWindow) \subseteq found
         /\ film.kind # "etch" => OutOfWindow("thickness", film.target, film, film.window) \subseteq found
BY NoFilmIsNoFilm DEF ToolsInv, FoundIsAnswer, SimulateEtch, SimulateDeposition

LEMMA NothingFound ==
  ASSUME ToolsInv, film = NoFilm PROVE found = {} /\ film.kind = "deposition"
BY DEF ToolsInv, FoundIsAnswer, NoFilm, Deposition

(* For any films, windows and heats: the fastest and the slowest site, and  *)
(* the whole of a thermal sequence, decide (window.rs).                     *)
THEOREM WorstAlwaysDecides ==
  ToolsSpec => []WorstDecides
<1>1. ToolsInv => WorstSitesDecide
  <2> SUFFICES ASSUME ToolsInv PROVE WorstSitesDecide
    OBVIOUS
  <2> DEFINE at(kind) == {v.site : v \in {w \in found : w.kind = kind}}
  <2>1. film \in Films \/ film = NoFilm
    BY DEF ToolsInv
  <2>2. ASSUME NEW kind \in {"depth", "thickness", "cd"}, at(kind) # {}
        PROVE  at(kind) \cap {"east", "west"} # {}
    <3>1. PICK v \in found : v.kind = kind
      BY <2>2
    <3>2. film \in Films
      BY <2>1, <3>1, NothingFound
    <3>3. /\ film.target \in Nat /\ film.cd \in Nat /\ film.nu \in Nat
          /\ film.window.min \in Int /\ film.window.max \in Int
          /\ film.cdWindow.min \in Int /\ film.cdWindow.max \in Int
      BY <3>2, FilmsAreTyped
    <3>4. \E w \in found : w.kind = v.kind /\ w.site \in {"east", "west"}
      <4>1. CASE v \in OutOfWindow("depth", film.target, film, film.window) /\ film.kind = "etch"
        <5>1. v.kind = "depth"
          <6>1. Violates(v, "depth", film.target, film, film.window)
            BY <3>3, <4>1, OutOfWindowIs
          <6>2. QED
            BY <6>1 DEF Violates
        <5>2. \E w \in OutOfWindow("depth", film.target, film, film.window) :
                w.kind = "depth" /\ w.site \in {"east", "west"}
          BY <3>3, <4>1, WorstSiteIsOut
        <5>3. QED
          BY <3>2, <4>1, <5>1, <5>2, FoundHave
      <4>2. CASE v \in OutOfWindow("cd", film.cd, film, film.cdWindow) /\ film.kind = "etch"
        <5>1. Violates(v, "cd", film.cd, film, film.cdWindow)
          BY <3>3, <4>2, OutOfWindowIs
        <5>a. v.kind = "cd"
          BY <5>1 DEF Violates
        <5>2. \E w \in OutOfWindow("cd", film.cd, film, film.cdWindow) :
                w.kind = "cd" /\ w.site \in {"east", "west"}
          BY <3>3, <4>2, WorstSiteIsOut
        <5>3. QED
          BY <3>2, <4>2, <5>a, <5>2, FoundHave
      <4>3. CASE v \in OutOfWindow("thickness", film.target, film, film.window) /\ film.kind # "etch"
        <5>1. v.kind = "thickness"
          <6>1. Violates(v, "thickness", film.target, film, film.window)
            BY <3>3, <4>3, OutOfWindowIs
          <6>2. QED
            BY <6>1 DEF Violates
        <5>2. \E w \in OutOfWindow("thickness", film.target, film, film.window) :
                w.kind = "thickness" /\ w.site \in {"east", "west"}
          BY <3>3, <4>3, WorstSiteIsOut
        <5>3. QED
          BY <3>2, <4>3, <5>1, <5>2, FoundHave
      <4>4. QED
        BY <3>2, <4>1, <4>2, <4>3, FoundAre
    <3>5. QED
      BY <3>1, <3>4
  <2>3. ASSUME film.kind = "etch", film.target = film.window.max, film.nu > 0
        PROVE  "east" \in at("depth")
    <3>1. film \in Films
      BY <2>1, <2>3, NothingFound
    <3>2. \E v \in OutOfWindow("depth", film.target, film, film.window) : v.kind = "depth" /\ v.site = "east"
      BY <2>3, <3>1, FilmsAreTyped, EdgeTargetIsOut
    <3>3. QED
      BY <2>3, <3>1, <3>2, FoundHave
  <2>4. ASSUME film # NoFilm, film.kind = "deposition", film.target = film.window.max, film.nu > 0
        PROVE  "east" \in at("thickness")
    <3>1. film \in Films
      BY <2>1, <2>4
    <3>2. \E v \in OutOfWindow("thickness", film.target, film, film.window) :
            v.kind = "thickness" /\ v.site = "east"
      BY <2>4, <3>1, FilmsAreTyped, EdgeTargetIsOut
    <3>3. QED
      BY <2>4, <3>1, <3>2, FoundHave
  <2>5. QED
    BY <2>2, <2>3, <2>4 DEF WorstSitesDecide
<1>2. ToolsInv => MarginsLeadBack
  <2> SUFFICES ASSUME ToolsInv, NEW v \in found
               PROVE  LET w == Scaled(IF v.kind = "cd" THEN film.cdWindow ELSE film.window)
                      IN  /\ v.margin # 0 /\ v.value - v.margin \in {w.min, w.max}
                          /\ \A edge \in {w.min, w.max} :
                               v.margin * v.margin <= (v.value - edge) * (v.value - edge)
    BY DEF MarginsLeadBack
  <2>1. film \in Films
    BY NothingFound DEF ToolsInv
  <2>2. /\ film.target \in Nat /\ film.cd \in Nat /\ film.nu \in Nat
        /\ film.window.min \in Int /\ film.window.max \in Int
        /\ film.window.min <= film.window.max
        /\ film.cdWindow.min \in Int /\ film.cdWindow.max \in Int
        /\ film.cdWindow.min <= film.cdWindow.max
    BY <2>1, FilmsAreTyped
  <2>3. ASSUME NEW kind, NEW x \in Nat, NEW window, window.min \in Int, window.max \in Int,
               window.min <= window.max, v \in OutOfWindow(kind, x, film, window)
        PROVE  LET w == Scaled(window)
               IN  /\ v.kind = kind
                   /\ v.margin # 0 /\ v.value - v.margin \in {w.min, w.max}
                   /\ \A edge \in {w.min, w.max} :
                        v.margin * v.margin <= (v.value - edge) * (v.value - edge)
    <3> DEFINE lo == 300 * window.min
               hi == 300 * window.max
    <3>1. Violates(v, kind, x, film, window)
      BY <2>2, <2>3, OutOfWindowIs
    <3>2. v.kind = kind /\ v.margin = Margin(Scaled(window), v.value) /\ (v.value < lo \/ v.value > hi)
      BY <3>1 DEF Violates
    <3>3. v.value \in Int
      BY <2>2, <2>3, <3>1, ExtremeSites DEF Violates
    <3>4. lo \in Int /\ hi \in Int /\ lo <= hi /\ Scaled(window) = Window(lo, hi)
      BY <2>3 DEF Scaled
    <3> HIDE DEF lo, hi
    <3>5. QED
      BY <3>2, <3>3, <3>4, MarginLeadsBack
  <2>4. CASE v \in OutOfWindow("depth", film.target, film, film.window)
    BY <2>2, <2>3, <2>4
  <2>5. CASE v \in OutOfWindow("cd", film.cd, film, film.cdWindow)
    BY <2>2, <2>3, <2>5
  <2>6. CASE v \in OutOfWindow("thickness", film.target, film, film.window)
    BY <2>2, <2>3, <2>6
  <2>7. QED
    BY <2>1, <2>4, <2>5, <2>6, FoundAre
<1>3. ToolsInv => OverheatedStays
  <2> SUFFICES ASSUME ToolsInv, NEW n \in 0 .. Len(heats),
                      NEW v \in SimulateThermal(SubSeq(heats, 1, n))
               PROVE  \E w \in SimulateThermal(heats) : w.margin >= v.margin
    BY DEF OverheatedStays
  <2> DEFINE part == Heat(SubSeq(heats, 1, n))
             whole == Heat(heats)
  <2>1. heats \in Seq(Nat) /\ ThermalBudget \in Nat
    <3>1. heats \in Seq(Heats) /\ Heats \subseteq Nat /\ ThermalBudget \in Nat
      BY ToolsAssumption DEF ToolsInv
    <3>2. \A i \in 1 .. Len(heats) : heats[i] \in Nat
      BY <3>1, ElementOfSeq
    <3>3. QED
      BY <3>1, <3>2
  <2>2. part <= whole
    BY <2>1, TotalOfBeginning DEF Heat
  <2>3. heats \in Seq(Int) /\ SubSeq(heats, 1, n) \in Seq(Int)
    <3>1. \A i \in 1 .. Len(heats) : heats[i] \in Int
      BY <2>1, ElementOfSeq
    <3>2. heats \in Seq(Int)
      BY <2>1, <3>1
    <3>3. QED
      BY <3>2
  <2>4. part \in Int /\ whole \in Int
    BY <2>3, TotalIsInt DEF Heat
  <2>5. part > ThermalBudget /\ v.margin = part - ThermalBudget
    BY DEF SimulateThermal
  <2> HIDE DEF part, whole
  <2>6. whole > ThermalBudget /\ whole - ThermalBudget >= part - ThermalBudget
    BY <2>1, <2>2, <2>4, <2>5
  <2>7. QED
    BY <2>5, <2>6 DEF SimulateThermal, whole
<1>4. QED
  BY <1>1, <1>2, <1>3, ToolsInvariant, PTL DEF WorstDecides


=============================================================================
