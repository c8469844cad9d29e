-------------------------- MODULE AggregateProofs --------------------------
(***************************************************************************)
(* The aggregation of outcome reports, for any fabs, keys, schema versions *)
(* and cohort size: a contribution with a signature, or read where one is  *)
(* required, is what the fab wrote (SignedStaysUnaltered), and only who    *)
(* consented is counted, in the numbers the statistics are of              *)
(* (PublicationsAreOfCohorts).                                             *)
(* And the screen of the reports, for any reports, threshold and history:  *)
(* a median is the middle of its history (MediansAreMiddles), and outliers *)
(* are flagged until they are half of it (OutliersAreFlagged).             *)
(***************************************************************************)
EXTENDS OutcomeExchange, Screening, FiniteSetTheorems, SequenceTheorems, NaturalsInduction,
        WellFoundedInduction, TLAPS

-----------------------------------------------------------------------------
(* Outcome reports *)

(* What a report is when it gets into the engine: ingest_public_contribution*)
(* and ingest_shuttle_result let nothing in that did not consent to be      *)
(* aggregated, and parsing leaves no free text and no older version.        *)
Ingestible == [version : {Current}, consent : {"AggregatedContribution"},
               good : Yields, note : BOOLEAN]

-----------------------------------------------------------------------------
(* Appending to a sequence, by its elements. *)
LEMMA AppendIs ==
  ASSUME NEW S, NEW s \in Seq(S), NEW e \in S
  PROVE  /\ Append(s, e) \in Seq(S)
         /\ Len(Append(s, e)) = Len(s) + 1 /\ Len(s) \in Nat
         /\ DOMAIN s = 1 .. Len(s) /\ DOMAIN Append(s, e) = 1 .. Len(s) + 1
         /\ \A i \in 1 .. Len(s) : Append(s, e)[i] = s[i] /\ s[i] \in S
         /\ Append(s, e)[Len(s) + 1] = e
BY AppendProperties, LenProperties, ElementOfSeq

(* Everybody in the engine is eligible, and the cohort is finite.           *)
LEMMA CohortIsEligible ==
  ASSUME ExchangeTypeOK
  PROVE  /\ Eligible = {contributions[k].fab : k \in DOMAIN contributions}
         /\ Eligible \subseteq Fabs
         /\ CohortSize = Cardinality(Eligible)
         /\ CohortSize \in 0 .. Cardinality(Fabs) /\ Cardinality(Fabs) \in Nat
<1>1. \A k \in DOMAIN contributions :
        /\ contributions[k] \in Contribution
        /\ PermitsPublicAggregation(contributions[k].report)
        /\ contributions[k].fab \in Fabs
  <2> SUFFICES ASSUME NEW k \in DOMAIN contributions
               PROVE  /\ contributions[k] \in Contribution
                      /\ PermitsPublicAggregation(contributions[k].report)
                      /\ contributions[k].fab \in Fabs
    OBVIOUS
  <2>1. contributions[k] \in Contribution
    BY ElementOfSeq, LenProperties DEF ExchangeTypeOK
  <2> QED
    BY <2>1 DEF Contribution, PermitsPublicAggregation
<1>2. /\ Eligible = {contributions[k].fab : k \in DOMAIN contributions}
      /\ Eligible \subseteq Fabs
  BY <1>1 DEF Eligible
<1>3. CohortSize = Cardinality(Eligible)
  BY <1>2 DEF CohortSize
<1>4. IsFiniteSet(Fabs)
  BY ExchangeAssumption
<1>5. IsFiniteSet(Eligible) /\ Cardinality(Eligible) <= Cardinality(Fabs)
  BY <1>2, <1>4, FS_Subset
<1>6. Cardinality(Fabs) \in Nat /\ Cardinality(Eligible) \in Nat
  BY <1>4, <1>5, FS_CardinalityType
<1> QED
  BY <1>2, <1>3, <1>5, <1>6

-----------------------------------------------------------------------------
(* The steps *)

LEMMA InitExchange == ExchangeInit => ExchangeInv
<1> SUFFICES ASSUME ExchangeInit PROVE ExchangeInv
  OBVIOUS
<1>1. /\ <<>> \in Seq(File) /\ <<>> \in Seq(Contribution)
      /\ Len(<<>>) = 0 /\ DOMAIN <<>> = {}
  OBVIOUS
<1> QED
  BY <1>1, ExchangeAssumption
  DEF ExchangeInit, ExchangeInv, ExchangeTypeOK, SignaturesAreOfReports,
      ContributionsHaveSources, SignedMeansUnaltered, PlainNeedsCohort

(* A new file: earlier contributions are of earlier files.                  *)
LEMMA WriteStep ==
  ASSUME ExchangeInv, NEW fab \in Fabs, NEW report \in Payload, NEW signs \in BOOLEAN,
         WriteOutcomeFile(fab, report, signs)
  PROVE  ExchangeInv'
<1> DEFINE file == [fab |-> fab, report |-> report,
                    sig |-> IF signs THEN [key |-> fab, covers |-> report] ELSE None]
<1>1. file \in File
  BY DEF File, Signature
<1>2. /\ file.fab = fab /\ file.report = report
      /\ file.sig # None => file.sig.covers = report
  OBVIOUS
<1> HIDE DEF file
<1>3. /\ written' = Append(written, file) /\ stored' = Append(stored, file)
      /\ UNCHANGED <<rejected, contributions, published>> /\ Len(written) < MaxFiles
  BY DEF WriteOutcomeFile, file
<1>4. /\ written \in Seq(File) /\ stored \in Seq(File) /\ Len(stored) = Len(written)
      /\ MaxFiles \in Nat /\ Len(written) \in Nat
  BY ExchangeAssumption, LenProperties DEF ExchangeInv, ExchangeTypeOK
<1>5. /\ written' \in Seq(File) /\ stored' \in Seq(File)
      /\ Len(written') = Len(written) + 1 /\ Len(stored') = Len(written')
      /\ DOMAIN written = 1 .. Len(written) /\ DOMAIN written' = 1 .. Len(written) + 1
      /\ \A i \in 1 .. Len(written) : written'[i] = written[i] /\ stored'[i] = stored[i]
      /\ written'[Len(written) + 1] = file /\ stored'[Len(written) + 1] = file
  BY <1>1, <1>3, <1>4, AppendIs
<1>6. ExchangeTypeOK'
  BY <1>3, <1>4, <1>5 DEF ExchangeInv, ExchangeTypeOK
<1>7. SignaturesAreOfReports'
  <2> SUFFICES ASSUME NEW i \in DOMAIN written'
               PROVE  /\ stored'[i].fab = written'[i].fab
                      /\ stored'[i].sig # None
                           => stored'[i].sig.covers \in {None, written'[i].report}
    BY DEF SignaturesAreOfReports
  <2>1. CASE i \in DOMAIN written
    BY <1>5, <2>1 DEF ExchangeInv, SignaturesAreOfReports
  <2>2. CASE i = Len(written) + 1
    BY <1>2, <1>5, <2>2
  <2> QED
    BY <1>4, <1>5, <2>1, <2>2
<1>8. ContributionsHaveSources'
  BY <1>3, <1>4, <1>5 DEF ExchangeInv, ContributionsHaveSources
<1>9. SignedMeansUnaltered'
  <2> SUFFICES ASSUME NEW k \in DOMAIN contributions,
                      contributions[k].signed \/ contributions[k].policy = "RequireSignature"
               PROVE  /\ contributions[k].manifest \in DOMAIN written'
                      /\ contributions[k].report = written'[contributions[k].manifest].report
                      /\ contributions[k].fab = written'[contributions[k].manifest].fab
    BY <1>3 DEF SignedMeansUnaltered
  <2>1. /\ contributions[k].manifest \in DOMAIN written
        /\ contributions[k].report = written[contributions[k].manifest].report
        /\ contributions[k].fab = written[contributions[k].manifest].fab
    BY DEF ExchangeInv, SignedMeansUnaltered
  <2> QED
    BY <1>4, <1>5, <2>1
<1>10. PlainNeedsCohort'
  BY <1>3 DEF ExchangeInv, PlainNeedsCohort
<1> QED
  BY <1>6, <1>7, <1>8, <1>9, <1>10 DEF ExchangeInv

(* Damage leaves a file with its contributor, and with the signature it had,*)
(* with none or with one of nothing.                                        *)
LEMMA DamageStep ==
  ASSUME ExchangeInv, NEW i \in DOMAIN stored, Damage(i)
  PROVE  ExchangeInv'
<1>1. PICK report \in Payload, sig \in {stored[i].sig, None, [key |-> stored[i].fab, covers |-> None]} :
        stored' = [stored EXCEPT ![i].report = report, ![i].sig = sig]
  BY DEF Damage
<1>2. UNCHANGED <<written, rejected, contributions, published>>
  BY DEF Damage
<1>3. stored \in Seq(File) /\ DOMAIN stored = 1 .. Len(stored) /\ Len(stored) \in Nat
  BY LenProperties DEF ExchangeInv, ExchangeTypeOK
<1>4. stored[i] \in File
  BY <1>3, ElementOfSeq
<1>5. sig \in Signature \cup {None}
  <2>1. stored[i].fab \in Fabs /\ stored[i].sig \in Signature \cup {None}
    BY <1>4 DEF File
  <2>2. [key |-> stored[i].fab, covers |-> None] \in Signature
    BY <2>1 DEF Signature
  <2> QED
    BY <2>1, <2>2
<1>6. sig # None => sig.covers = None \/ sig = stored[i].sig
  OBVIOUS
<1> DEFINE damaged == [stored[i] EXCEPT !.report = report, !.sig = sig]
<1>7. damaged \in File /\ damaged.fab = stored[i].fab /\ damaged.sig = sig
  BY <1>4, <1>5 DEF File
<1>8. stored' = [stored EXCEPT ![i] = damaged]
  BY <1>1, <1>3, <1>4 DEF File
<1> HIDE DEF damaged
<1>9. /\ stored' \in Seq(File) /\ Len(stored') = Len(stored)
      /\ \A j \in DOMAIN stored : stored'[j] = IF j = i THEN damaged ELSE stored[j]
  BY <1>3, <1>7, <1>8, ExceptSeq
<1>10. ExchangeTypeOK'
  BY <1>2, <1>9 DEF ExchangeInv, ExchangeTypeOK
<1>11. SignaturesAreOfReports'
  <2>1. DOMAIN written = DOMAIN stored
    BY <1>3, LenProperties DEF ExchangeInv, ExchangeTypeOK
  <2> SUFFICES ASSUME NEW j \in DOMAIN written
               PROVE  /\ stored'[j].fab = written[j].fab
                      /\ stored'[j].sig # None
                           => stored'[j].sig.covers \in {None, written[j].report}
    BY <1>2 DEF SignaturesAreOfReports
  <2>2. /\ stored[j].fab = written[j].fab
        /\ stored[j].sig # None => stored[j].sig.covers \in {None, written[j].report}
    BY DEF ExchangeInv, SignaturesAreOfReports
  <2>3. CASE j = i
    <3>1. stored'[j] = damaged
      BY <1>9, <2>1, <2>3
    <3> QED
      BY <1>6, <1>7, <2>2, <2>3, <3>1
  <2>4. CASE j # i
    <3>1. stored'[j] = stored[j]
      BY <1>9, <2>1, <2>4
    <3> QED
      BY <2>2, <3>1
  <2> QED
    BY <2>3, <2>4
<1> QED
  BY <1>2, <1>10, <1>11
  DEF ExchangeInv, ContributionsHaveSources, SignedMeansUnaltered, PlainNeedsCohort

LEMMA RejectStep ==
  ASSUME ExchangeInv, NEW i \in DOMAIN stored, Reject(i)
  PROVE  ExchangeInv'
<1>1. DOMAIN stored = 1 .. Len(written)
  BY LenProperties DEF ExchangeInv, ExchangeTypeOK
<1> QED
  BY <1>1 DEF Reject, ExchangeInv, ExchangeTypeOK, SignaturesAreOfReports,
      ContributionsHaveSources, SignedMeansUnaltered, PlainNeedsCohort

(* What ingestion adds, given that it is faithful to a file if it has a     *)
(* signature or had to have one.                                            *)
LEMMA ContributedStep ==
  ASSUME ExchangeInv, NEW c, Contributed(c),
         c.manifest \in (1 .. Len(written)) \cup Fabs, c.fab \in Fabs, c \in Contribution,
         c.signed \/ c.policy = "RequireSignature"
           => /\ c.manifest \in DOMAIN written
              /\ c.report = written[c.manifest].report /\ c.fab = written[c.manifest].fab
  PROVE  ExchangeInv'
<1>1. MaxFiles \in Nat /\ MaxIngests \in Nat
  BY ExchangeAssumption
<1>4. /\ contributions' = Append(contributions, c) /\ Len(contributions) < MaxIngests
      /\ UNCHANGED <<written, stored, rejected, published>>
  BY DEF Contributed
<1>5. contributions \in Seq(Contribution)
  BY DEF ExchangeInv, ExchangeTypeOK
<1>6. /\ contributions' \in Seq(Contribution) /\ Len(contributions) \in Nat
      /\ Len(contributions') = Len(contributions) + 1
      /\ DOMAIN contributions = 1 .. Len(contributions)
      /\ DOMAIN contributions' = 1 .. Len(contributions) + 1
      /\ \A k \in 1 .. Len(contributions) : contributions'[k] = contributions[k]
      /\ contributions'[Len(contributions) + 1] = c
  BY <1>4, <1>5, AppendIs
<1>7. ExchangeTypeOK'
  BY <1>1, <1>4, <1>6 DEF ExchangeInv, ExchangeTypeOK
<1>8. ContributionsHaveSources'
  <2> SUFFICES ASSUME NEW k \in DOMAIN contributions'
               PROVE  contributions'[k].manifest \in (1 .. Len(written)) \cup Fabs
    BY <1>4 DEF ContributionsHaveSources
  <2>1. CASE k \in DOMAIN contributions
    BY <1>6, <2>1 DEF ExchangeInv, ContributionsHaveSources
  <2>2. CASE k = Len(contributions) + 1
    BY <1>6, <2>2
  <2> QED
    BY <1>6, <2>1, <2>2
<1>9. SignedMeansUnaltered'
  <2> SUFFICES ASSUME NEW k \in DOMAIN contributions',
                      contributions'[k].signed \/ contributions'[k].policy = "RequireSignature"
               PROVE  /\ contributions'[k].manifest \in DOMAIN written
                      /\ contributions'[k].report = written[contributions'[k].manifest].report
                      /\ contributions'[k].fab = written[contributions'[k].manifest].fab
    BY <1>4 DEF SignedMeansUnaltered
  <2>1. CASE k \in DOMAIN contributions
    BY <1>6, <2>1 DEF ExchangeInv, SignedMeansUnaltered
  <2>2. CASE k = Len(contributions) + 1
    BY <1>6, <2>2
  <2> QED
    BY <1>6, <2>1, <2>2
<1>10. SignaturesAreOfReports' /\ PlainNeedsCohort'
  BY <1>4 DEF ExchangeInv, SignaturesAreOfReports, PlainNeedsCohort
<1> QED
  BY <1>7, <1>8, <1>9, <1>10 DEF ExchangeInv

(* A file is ingested only if its signature covers the migrated report: so  *)
(* the report that was signed is the one that is ingested.                  *)
LEMMA IngestStep ==
  ASSUME ExchangeInv, NEW i \in DOMAIN stored, NEW policy \in Policies, Ingest(i, policy)
  PROVE  ExchangeInv'
<1> DEFINE report == Migrated(stored[i].report)
           c == ContributionOf(i, policy)
<1>1. /\ DOMAIN stored = 1 .. Len(written) /\ DOMAIN written = 1 .. Len(written)
      /\ 1 .. Len(written) \subseteq Manifest
  BY LenProperties, ExchangeAssumption DEF ExchangeInv, ExchangeTypeOK, Manifest
<1>2. stored[i] \in File
  BY ElementOfSeq, <1>1 DEF ExchangeInv, ExchangeTypeOK
<1>3. stored[i].report \in Payload /\ stored[i].fab \in Fabs
  BY <1>2 DEF File
<1>4. stored[i].report.consent = "AggregatedContribution"
  BY DEF Ingest, PermitsPublicAggregation
<1>5. report \in Ingestible /\ report \in Payload
  BY <1>3, <1>4 DEF Ingestible, Payload, Migrated, Current, Versions
<1>6. Verified(report, stored[i].sig, policy)
  BY DEF Ingest, Readable
<1>7. stored[i].sig # None \/ policy = "RequireSignature"
        => report = written[i].report /\ stored[i].fab = written[i].fab
  <2>1. /\ stored[i].fab = written[i].fab
        /\ stored[i].sig # None => stored[i].sig.covers \in {None, written[i].report}
    BY <1>1 DEF ExchangeInv, SignaturesAreOfReports
  <2>2. report # None
    BY <1>5, ExchangeAssumption
  <2> HIDE DEF report
  <2> QED
    BY <1>6, <2>1, <2>2 DEF Verified
<1>8. Contributed(c)
  BY DEF Ingest
<1>9. /\ c.manifest = i /\ c.fab = stored[i].fab /\ c.signed = (stored[i].sig # None)
      /\ c.policy = policy /\ c.report = report
  BY DEF ContributionOf
<1>10. c \in Contribution
  BY <1>1, <1>3, <1>5 DEF ContributionOf, Contribution, Ingestible
<1> HIDE DEF report, c
<1> QED
  BY <1>1, <1>3, <1>7, <1>8, <1>9, <1>10, ContributedStep

LEMMA IngestShuttleStep ==
  ASSUME ExchangeInv, NEW project \in Fabs, NEW report \in Payload,
         IngestShuttle(project, report)
  PROVE  ExchangeInv'
<1> DEFINE c == [manifest |-> project, fab |-> project, signed |-> FALSE, policy |-> None,
                 report |-> report]
<1>1. report \in Ingestible
  BY DEF IngestShuttle, PermitsPublicAggregation, Ingestible, Payload
<1>2. Contributed(c) /\ c \in Contribution
  BY <1>1 DEF IngestShuttle, Contribution, Ingestible
<1>3. c.manifest = project /\ c.fab = project /\ ~c.signed /\ c.policy = None
  OBVIOUS
<1>4. None # "RequireSignature"
  BY ExchangeAssumption DEF UnsignedPolicy
<1> HIDE DEF c
<1> QED
  BY <1>2, <1>3, <1>4, ContributedStep

LEMMA PublishStep ==
  ASSUME ExchangeInv, Publish
  PROVE  ExchangeInv'
<1> DEFINE p == [n |-> CohortSize, fabs |-> Eligible, dp |-> CohortSize < MinCohort]
<1>1. /\ published' = published \cup {p} /\ CohortSize > 0
      /\ UNCHANGED <<written, stored, rejected, contributions>>
  BY DEF Publish
<1>2. /\ Eligible \subseteq Fabs /\ CohortSize = Cardinality(Eligible)
      /\ CohortSize \in 1 .. Cardinality(Fabs) /\ MinCohort \in Nat
  BY <1>1, CohortIsEligible, ExchangeAssumption DEF ExchangeInv
<1>3. /\ p \in Publication
      /\ p.n = Cardinality(p.fabs) /\ (~p.dp => Cardinality(p.fabs) >= MinCohort)
  <2>1. p.n = CohortSize /\ p.fabs = Eligible /\ p.dp = (CohortSize < MinCohort)
    BY Zenon
  <2>2. (CohortSize < MinCohort) \in BOOLEAN /\ Eligible \in SUBSET Fabs
    BY <1>2
  <2>3. p \in Publication
    BY <1>2, <2>2, Zenon DEF Publication
  <2>4. ~(CohortSize < MinCohort) => CohortSize >= MinCohort
    BY <1>2
  <2> HIDE DEF p
  <2>5. ~p.dp => CohortSize >= MinCohort
    BY <2>1, <2>4, Zenon
  <2> QED
    BY <1>2, <2>1, <2>3, <2>5
<1> HIDE DEF p
<1>4. ExchangeTypeOK'
  BY <1>1, <1>3 DEF ExchangeInv, ExchangeTypeOK
<1>5. PlainNeedsCohort'
  BY <1>1, <1>3 DEF ExchangeInv, PlainNeedsCohort
<1> QED
  BY <1>1, <1>4, <1>5
  DEF ExchangeInv, SignaturesAreOfReports, ContributionsHaveSources, SignedMeansUnaltered

-----------------------------------------------------------------------------
(* The invariant of every behaviour of the exchange.                        *)
THEOREM ExchangeInvariant == ExchangeSpec => []ExchangeInv
<1>1. ExchangeInv /\ [ExchangeNext]_exchangeVars => ExchangeInv'
  <2> SUFFICES ASSUME ExchangeInv, [ExchangeNext]_exchangeVars PROVE ExchangeInv'
    OBVIOUS
  <2>1. ASSUME NEW fab \in Fabs, NEW report \in Payload, NEW signs \in BOOLEAN,
               WriteOutcomeFile(fab, report, signs)
        PROVE  ExchangeInv'
    BY <2>1, WriteStep
  <2>2. ASSUME NEW fab \in Fabs, NEW report \in Payload, IngestShuttle(fab, report)
        PROVE  ExchangeInv'
    BY <2>2, IngestShuttleStep
  <2>3. ASSUME NEW i \in DOMAIN stored,
               Damage(i) \/ Reject(i) \/ \E policy \in Policies : Ingest(i, policy)
        PROVE  ExchangeInv'
    BY <2>3, DamageStep, RejectStep, IngestStep
  <2>4. CASE Publish
    BY <2>4, PublishStep
  <2>5. CASE UNCHANGED exchangeVars
    BY <2>5 DEF exchangeVars, ExchangeInv, ExchangeTypeOK, SignaturesAreOfReports,
         ContributionsHaveSources, SignedMeansUnaltered, PlainNeedsCohort
  <2> QED
    BY <2>1, <2>2, <2>3, <2>4, <2>5 DEF ExchangeNext
<1> QED
  BY <1>1, InitExchange, PTL DEF ExchangeSpec

(* SignedMeansUnaltered (read_outcome_file, verify_report): whatever was    *)
(* damaged in storage, signatures included, what gets in with a signature,  *)
(* or under a policy that requires one, is what its fab wrote.              *)
THEOREM SignedStaysUnaltered == ExchangeSpec => []SignedMeansUnaltered
<1>1. ExchangeInv => SignedMeansUnaltered
  BY DEF ExchangeInv
<1> QED
  BY <1>1, ExchangeInvariant, PTL

(* CohortsAreOfConsenting (ingest_any, publish): only consented reports are *)
(* in the engine, and plain publications have the cohort they claim.        *)
THEOREM PublicationsAreOfCohorts == ExchangeSpec => []CohortsAreOfConsenting
<1>1. ExchangeInv => CohortsAreOfConsenting
  BY DEF ExchangeInv, CohortsAreOfConsenting
<1> QED
  BY <1>1, ExchangeInvariant, PTL

-----------------------------------------------------------------------------
(* The order of the naturals, as a relation.                                *)
Below == {p \in Nat \X Nat : p[1] < p[2]}

(* Every set of naturals that is not empty has a least member.              *)
LEMMA LeastNatural ==
  ASSUME NEW S \in SUBSET Nat, S # {}
  PROVE  \E k \in S : \A i \in S : k <= i
<1>1. OpToRel(<, Nat) = Below
  BY ZenonT(20) DEF OpToRel, Below
<1>2. IsWellFoundedOn(Below, Nat)
  BY <1>1, NatLessThanWellFounded, Zenon
<1>3. PICK k \in S : \A i \in S : ~ (<<i, k>> \in Below)
  BY <1>2, WFMin
<1>4. \A i \in S : ~ (i < k)
  BY <1>3 DEF Below
<1> QED
  BY <1>4

-----------------------------------------------------------------------------
(* Sorting *)

(* No value is followed by a lesser one.                                    *)
Ordered(t) == \A i, j \in 1 .. Len(t) : i <= j => t[i] <= t[j]

(* t holds the values of s, each as often, in the order given by p.         *)
Arranges(p, n) ==
  /\ p \in [1 .. n -> 1 .. n]
  /\ \A i, j \in 1 .. n : p[i] = p[j] => i = j
  /\ \A j \in 1 .. n : \E i \in 1 .. n : p[i] = j

(* A value has a place among ordered ones.                                  *)
LEMMA PlaceExists ==
  ASSUME NEW t \in Seq(Int), NEW x \in Int, Ordered(t)
  PROVE  \E m \in 0 .. Len(t) : /\ \A i \in 1 .. m : t[i] <= x
                                /\ \A i \in m + 1 .. Len(t) : x < t[i]
<1> DEFINE greater == {i \in 1 .. Len(t) : x < t[i]}
<1>1. Len(t) \in Nat /\ \A i \in 1 .. Len(t) : t[i] \in Int
  BY LenProperties, ElementOfSeq
<1>2. CASE greater = {}
  <2>1. \A i \in 1 .. Len(t) : t[i] <= x
    BY <1>1, <1>2
  <2> QED
    BY <1>1, <2>1
<1>3. CASE greater # {}
  <2>1. greater \in SUBSET Nat
    BY <1>1
  <2>2. PICK k \in greater : \A i \in greater : k <= i
    <3> HIDE DEF greater
    <3> QED
      BY <1>3, <2>1, LeastNatural
  <2>3. k \in 1 .. Len(t) /\ x < t[k]
    BY <2>2
  <2>4. \A i \in 1 .. Len(t) : i < k => t[i] <= x
    BY <1>1, <2>2, <2>3
  <2>5. \A i \in k .. Len(t) : x < t[i]
    BY <1>1, <2>3 DEF Ordered
  <2>6. k - 1 \in 0 .. Len(t) /\ (k - 1) + 1 = k
    BY <1>1, <2>3
  <2>7. \A i \in 1 .. k - 1 : t[i] <= x
    BY <1>1, <2>3, <2>4
  <2> QED
    BY <2>5, <2>6, <2>7
<1> QED
  BY <1>2, <1>3

(* Insert puts the value between those that are not greater and the others. *)
LEMMA InsertIs ==
  ASSUME NEW t \in Seq(Int), NEW x \in Int, Ordered(t)
  PROVE  \E m \in 0 .. Len(t) :
           /\ \A i \in 1 .. m : t[i] <= x
           /\ \A i \in m + 1 .. Len(t) : x < t[i]
           /\ Insert(t, x) \in Seq(Int)
           /\ Len(Insert(t, x)) = Len(t) + 1
           /\ \A i \in 1 .. m : Insert(t, x)[i] = t[i]
           /\ Insert(t, x)[m + 1] = x
           /\ \A i \in m + 2 .. Len(t) + 1 : Insert(t, x)[i] = t[i - 1]
<1> DEFINE Fits(w) == /\ \A i \in 1 .. w : t[i] <= x
                      /\ \A i \in w + 1 .. Len(t) : x < t[i]
           m == CHOOSE w \in 0 .. Len(t) : Fits(w)
<1>1. m \in 0 .. Len(t) /\ Fits(m)
  BY PlaceExists
<1>2. Insert(t, x) = SubSeq(t, 1, (m + 1) - 1) \o <<x>> \o SubSeq(t, m + 1, Len(t))
  BY DEF Insert, InsertAt
<1>3. Len(t) \in Nat
  OBVIOUS
<1> HIDE DEF m
<1>4. /\ Insert(t, x) = SubSeq(t, 1, m) \o <<x>> \o SubSeq(t, m + 1, Len(t))
      /\ m \in Nat /\ m <= Len(t)
  <2>1. (m + 1) - 1 = m
    BY <1>1
  <2> QED
    BY <1>1, <1>2, <2>1
<1> DEFINE a == SubSeq(t, 1, m)
           c == SubSeq(t, m + 1, Len(t))
<1>5. /\ a \in Seq(Int) /\ Len(a) = m
      /\ \A i \in 1 .. m : a[i] = t[i]
  BY <1>3, <1>4, SubSeqProperties
<1>6. /\ c \in Seq(Int) /\ Len(c) = Len(t) - m
      /\ \A i \in 1 .. Len(t) - m : c[i] = t[m + i]
  BY <1>3, <1>4, SubSeqProperties
<1> HIDE DEF a, c, Fits
<1>7. Insert(t, x) = (a \o <<x>>) \o c
  BY <1>4 DEF a, c
<1> DEFINE b == a \o <<x>>
<1>8. /\ b \in Seq(Int) /\ Len(b) = m + 1
      /\ \A i \in 1 .. m : b[i] = t[i]
      /\ b[m + 1] = x
  BY <1>4, <1>5
<1> HIDE DEF b
<1>9. /\ b \o c \in Seq(Int) /\ Len(b \o c) = Len(t) + 1
      /\ \A i \in 1 .. m + 1 : (b \o c)[i] = b[i]
      /\ \A i \in m + 2 .. Len(t) + 1 : (b \o c)[i] = c[i - (m + 1)]
  <2>1. m + 1 \in Nat /\ (m + 1) + (Len(t) - m) = Len(t) + 1 /\ (m + 1) + 1 = m + 2
    BY <1>3, <1>4
  <2>2. /\ b \o c \in Seq(Int) /\ Len(b \o c) = (m + 1) + (Len(t) - m)
        /\ \A i \in 1 .. (m + 1) + (Len(t) - m) :
             (b \o c)[i] = IF i <= m + 1 THEN b[i] ELSE c[i - (m + 1)]
    <3>1. b \in Seq(Int) /\ c \in Seq(Int) /\ Len(b) = m + 1 /\ Len(c) = Len(t) - m
      BY <1>6, <1>8
    <3>2. /\ b \o c \in Seq(Int) /\ Len(b \o c) = Len(b) + Len(c)
          /\ \A i \in 1 .. Len(b) + Len(c) :
               (b \o c)[i] = IF i <= Len(b) THEN b[i] ELSE c[i - Len(b)]
      BY <3>1, ConcatProperties
    <3> QED
      BY <3>1, <3>2, Zenon
  <2>3. /\ \A i \in 1 .. m + 1 : i \in 1 .. Len(t) + 1 /\ i <= m + 1
        /\ \A i \in m + 2 .. Len(t) + 1 : i \in 1 .. Len(t) + 1 /\ ~(i <= m + 1)
    BY <1>3, <1>4
  <2> QED
    BY <2>1, <2>2, <2>3
<1>10. \A i \in m + 2 .. Len(t) + 1 : (b \o c)[i] = t[i - 1]
  <2> SUFFICES ASSUME NEW i \in m + 2 .. Len(t) + 1
               PROVE  (b \o c)[i] = t[i - 1]
    OBVIOUS
  <2>1. i - (m + 1) \in 1 .. Len(t) - m /\ m + (i - (m + 1)) = i - 1
    BY <1>3, <1>4
  <2> QED
    BY <1>6, <1>9, <2>1
<1>11. Insert(t, x) = b \o c
  BY <1>7 DEF b
<1>12. (\A i \in 1 .. m : t[i] <= x) /\ (\A i \in m + 1 .. Len(t) : x < t[i])
  BY <1>1 DEF Fits
<1>13. /\ \A i \in 1 .. m : (b \o c)[i] = t[i]
       /\ (b \o c)[m + 1] = x
  <2>1. \A i \in 1 .. m + 1 : (b \o c)[i] = b[i]
    BY <1>9
  <2>2. m + 1 \in 1 .. m + 1 /\ \A i \in 1 .. m : i \in 1 .. m + 1
    BY <1>4
  <2> QED
    BY <1>8, <2>1, <2>2, Zenon
<1>14. /\ Insert(t, x) \in Seq(Int) /\ Len(Insert(t, x)) = Len(t) + 1
       /\ \A i \in 1 .. m : Insert(t, x)[i] = t[i]
       /\ Insert(t, x)[m + 1] = x
       /\ \A i \in m + 2 .. Len(t) + 1 : Insert(t, x)[i] = t[i - 1]
  BY <1>9, <1>10, <1>11, <1>13
<1>15. m \in 0 .. Len(t)
  BY <1>1
<1> QED
  BY <1>12, <1>14, <1>15

Rearranged(t, s, k) == \E p : Arranges(p, k) /\ \A i \in 1 .. k : t[i] = s[p[i]]

(* t is the first k values of s, from the least to the greatest.            *)
Sorts(t, s, k) ==
  /\ t \in Seq(Int) /\ Len(t) = k /\ Ordered(t)
  /\ Rearranged(t, s, k)

LEMMA InsertSorts ==
  ASSUME NEW s \in Seq(Int), NEW k \in 1 .. Len(s), NEW t, Sorts(t, s, k - 1)
  PROVE  Sorts(Insert(t, s[k]), s, k)
<1> DEFINE x == s[k]
           u == Insert(t, x)
<1>1. t \in Seq(Int) /\ Len(t) = k - 1 /\ Ordered(t) /\ x \in Int
  BY ElementOfSeq DEF Sorts, Rearranged
<1>2. PICK p : Arranges(p, k - 1) /\ \A i \in 1 .. k - 1 : t[i] = s[p[i]]
  BY DEF Sorts, Rearranged
<1>3. k \in Nat /\ k >= 1 /\ k - 1 \in Nat /\ (k - 1) + 1 = k
  BY LenProperties
<1> HIDE DEF x
<1>4. PICK m \in 0 .. Len(t) :
         /\ \A i \in 1 .. m : t[i] <= x
         /\ \A i \in m + 1 .. Len(t) : x < t[i]
         /\ Insert(t, x) \in Seq(Int)
         /\ Len(Insert(t, x)) = Len(t) + 1
         /\ \A i \in 1 .. m : Insert(t, x)[i] = t[i]
         /\ Insert(t, x)[m + 1] = x
         /\ \A i \in m + 2 .. Len(t) + 1 : Insert(t, x)[i] = t[i - 1]
  BY <1>1, InsertIs
<1>5. /\ u \in Seq(Int) /\ Len(u) = k
      /\ \A i \in 1 .. m : t[i] <= x /\ u[i] = t[i]
      /\ u[m + 1] = x
      /\ \A i \in m + 1 .. k - 1 : x < t[i]
      /\ \A i \in m + 2 .. k : u[i] = t[i - 1]
      /\ m \in 0 .. k - 1
  BY <1>1, <1>3, <1>4
<1> HIDE DEF u
<1>6. \A i \in 1 .. k - 1 : t[i] \in Int
  BY <1>1, ElementOfSeq
<1>7. Ordered(u)
  <2>1. /\ \A i \in 1 .. m : u[i] = t[i]
        /\ u[m + 1] = x
    BY <1>5, Zenon
  <2>2. m \in Nat /\ k \in Nat /\ m <= k - 1
    BY <1>3, <1>5
  <2>3. \A i, j \in 1 .. k - 1 : i <= j => t[i] <= t[j]
    BY <1>1 DEF Ordered
  <2>4. SUFFICES ASSUME NEW i \in 1 .. k, NEW j \in 1 .. k, i <= j PROVE u[i] <= u[j]
    BY <1>5 DEF Ordered
  <2>5. CASE j <= m
    <3>1. i \in 1 .. m /\ j \in 1 .. m /\ i \in 1 .. k - 1 /\ j \in 1 .. k - 1
      BY <2>4, <2>5, <2>2
    <3>2. u[i] = t[i] /\ u[j] = t[j]
      BY <2>1, <3>1, Zenon
    <3>3. t[i] <= t[j]
      BY <2>3, <2>4, <3>1, Zenon
    <3> QED
      BY <3>2, <3>3, Zenon
  <2>6. CASE j = m + 1
    <3>1. CASE i = m + 1
      BY <1>1, <1>5, <2>6, <3>1
    <3>2. CASE i # m + 1
      <4>1. i \in 1 .. m
        BY <1>3, <1>5, <2>4, <2>6, <3>2
      <4> QED
        BY <1>5, <2>6, <4>1
    <3> QED
      BY <3>1, <3>2
  <2>7. CASE j > m + 1
    <3>1. j \in m + 2 .. k /\ j - 1 \in m + 1 .. k - 1 /\ j - 1 \in 1 .. k - 1
      BY <1>3, <1>5, <2>4, <2>7
    <3>2. u[j] = t[j - 1] /\ x < t[j - 1] /\ t[j - 1] \in Int
      BY <1>5, <1>6, <3>1
    <3>3. CASE i <= m
      <4>1. i \in 1 .. m /\ i \in 1 .. k - 1
        BY <1>3, <1>5, <2>4, <3>3
      <4>2. u[i] = t[i] /\ t[i] <= x /\ t[i] \in Int
        BY <1>5, <1>6, <4>1
      <4>3. x \in Int
        BY <1>1
      <4>4. ASSUME NEW a \in Int, NEW c \in Int, a <= x, x < c PROVE a <= c
        BY <4>3, <4>4
      <4>5. t[i] <= t[j - 1]
        BY <3>2, <4>2, <4>4, Zenon
      <4> QED
        BY <3>2, <4>2, <4>5, Zenon
    <3>4. CASE i = m + 1
      <4>1. u[i] = x /\ x \in Int
        BY <1>1, <2>1, <3>4, Zenon
      <4> QED
        BY <3>2, <4>1
    <3>5. CASE i > m + 1
      <4>1. i \in m + 2 .. k /\ i - 1 \in 1 .. k - 1 /\ i - 1 <= j - 1
        BY <1>3, <1>5, <2>4, <3>5
      <4>2. t[i - 1] <= t[j - 1]
        BY <2>3, <3>1, <4>1
      <4>3. u[i] = t[i - 1]
        BY <1>5, <4>1
      <4> QED
        BY <3>2, <4>2, <4>3
    <3> QED
      BY <1>5, <2>4, <3>3, <3>4, <3>5
  <2> QED
    BY <1>5, <2>4, <2>5, <2>6, <2>7
<1> DEFINE q == [i \in 1 .. k |-> IF i <= m THEN p[i] ELSE IF i = m + 1 THEN k ELSE p[i - 1]]
<1>8. /\ p \in [1 .. k - 1 -> 1 .. k - 1]
      /\ \A i, j \in 1 .. k - 1 : p[i] = p[j] => i = j
      /\ \A j \in 1 .. k - 1 : \E i \in 1 .. k - 1 : p[i] = j
      /\ \A i \in 1 .. k - 1 : t[i] = s[p[i]] /\ p[i] \in 1 .. k - 1
  BY <1>2 DEF Arranges
<1>9. /\ \A i \in 1 .. m : q[i] = p[i] /\ i \in 1 .. k - 1
      /\ q[m + 1] = k
      /\ \A i \in m + 2 .. k : q[i] = p[i - 1] /\ i - 1 \in 1 .. k - 1
  BY <1>3, <1>5
<1> DEFINE was(i) == IF i <= m THEN i ELSE i - 1
<1>10. \A i \in 1 .. k : i # m + 1 =>
         was(i) \in 1 .. k - 1 /\ q[i] = p[was(i)] /\ u[i] = t[was(i)]
  <2> SUFFICES ASSUME NEW i \in 1 .. k, i # m + 1
               PROVE  was(i) \in 1 .. k - 1 /\ q[i] = p[was(i)] /\ u[i] = t[was(i)]
    OBVIOUS
  <2>1. CASE i <= m
    <3>1. i \in 1 .. m /\ was(i) = i
      BY <2>1
    <3> QED
      BY <1>5, <1>9, <3>1
  <2>2. CASE i > m
    <3>1. i \in m + 2 .. k /\ was(i) = i - 1
      BY <1>3, <1>5, <2>2
    <3> QED
      BY <1>5, <1>9, <3>1
  <2> QED
    BY <1>5, <2>1, <2>2
<1>11. \A i, j \in 1 .. k : i # m + 1 /\ j # m + 1 /\ was(i) = was(j) => i = j
  <2>1. m \in Nat /\ k \in Nat
    BY <1>3, <1>5
  <2> QED
    BY <2>1
<1> HIDE DEF q, was
<1>12. \A i \in 1 .. k : u[i] = s[q[i]] /\ q[i] \in 1 .. k
  <2> SUFFICES ASSUME NEW i \in 1 .. k PROVE u[i] = s[q[i]] /\ q[i] \in 1 .. k
    OBVIOUS
  <2>1. CASE i = m + 1
    BY <1>3, <1>5, <1>9, <2>1 DEF x
  <2>2. CASE i # m + 1
    <3>1. p[was(i)] \in 1 .. k - 1 /\ t[was(i)] = s[p[was(i)]]
      BY <1>8, <1>10, <2>2
    <3>2. p[was(i)] \in 1 .. k
      BY <1>3, <3>1
    <3> QED
      BY <1>10, <2>2, <3>1, <3>2
  <2> QED
    BY <2>1, <2>2
<1>13. \A i, j \in 1 .. k : q[i] = q[j] => i = j
  <2> SUFFICES ASSUME NEW i \in 1 .. k, NEW j \in 1 .. k, q[i] = q[j] PROVE i = j
    OBVIOUS
  <2>1. \A n \in 1 .. k : n # m + 1 => q[n] # k
    <3> SUFFICES ASSUME NEW n \in 1 .. k, n # m + 1 PROVE q[n] # k
      OBVIOUS
    <3>1. p[was(n)] \in 1 .. k - 1 /\ q[n] = p[was(n)]
      BY <1>8, <1>10
    <3> QED
      BY <1>3, <3>1
  <2>2. CASE i = m + 1 \/ j = m + 1
    BY <1>9, <2>1, <2>2
  <2>3. CASE i # m + 1 /\ j # m + 1
    <3>1. p[was(i)] = p[was(j)] /\ was(i) \in 1 .. k - 1 /\ was(j) \in 1 .. k - 1
      BY <1>10, <2>3
    <3> QED
      BY <1>8, <1>11, <2>3, <3>1
  <2> QED
    BY <2>2, <2>3
<1>14. \A j \in 1 .. k : \E i \in 1 .. k : q[i] = j
  <2> SUFFICES ASSUME NEW j \in 1 .. k PROVE \E i \in 1 .. k : q[i] = j
    OBVIOUS
  <2>1. CASE j = k
    <3>1. m + 1 \in 1 .. k
      BY <1>3, <1>5
    <3> QED
      BY <1>9, <2>1, <3>1
  <2>2. CASE j # k
    <3>1. j \in 1 .. k - 1
      BY <1>3, <2>2
    <3>2. PICK n \in 1 .. k - 1 : p[n] = j
      BY <1>8, <3>1
    <3>3. CASE n <= m
      <4>1. n \in 1 .. m /\ n \in 1 .. k
        BY <1>3, <1>5, <3>3
      <4> QED
        BY <1>9, <3>2, <4>1
    <3>4. CASE n > m
      <4>1. n + 1 \in m + 2 .. k /\ n + 1 \in 1 .. k /\ (n + 1) - 1 = n
        BY <1>3, <1>5, <3>4
      <4> QED
        BY <1>9, <3>2, <4>1
    <3> QED
      BY <1>5, <3>3, <3>4
  <2> QED
    BY <2>1, <2>2
<1>15. Arranges(q, k)
  <2>1. q \in [1 .. k -> 1 .. k]
    BY <1>12 DEF q
  <2> QED
    BY <1>13, <1>14, <2>1 DEF Arranges
<1>16. Sorts(u, s, k)
  BY <1>5, <1>7, <1>12, <1>15 DEF Sorts, Rearranged
<1> QED
  BY <1>16 DEF u, x

(* Sorted (sort_by): the values there were, from the least to the greatest. *)
LEMMA SortedSorts ==
  ASSUME NEW s \in Seq(Int)
  PROVE  Sorts(Sorted(s), s, Len(s))
<1> DEFINE Upto(n) == \E f \in [0 .. n -> Seq(Int)] :
                        /\ f[0] = <<>>
                        /\ \A i \in 1 .. n : f[i] = Insert(f[i - 1], s[i])
                        /\ \A i \in 0 .. n : Sorts(f[i], s, i)
           bad == {n \in 0 .. Len(s) : ~Upto(n)}
<1>1. Len(s) \in Nat
  OBVIOUS
<1>2. Upto(0)
  <2>1. Sorts(<<>>, s, 0)
    <3>1. <<>> \in Seq(Int) /\ Len(<<>>) = 0 /\ 1 .. 0 = {}
      OBVIOUS
    <3>2. Ordered(<<>>)
      BY <3>1 DEF Ordered
    <3>3. Arranges([i \in 1 .. 0 |-> i], 0)
      BY <3>1 DEF Arranges
    <3>4. \A i \in 1 .. 0 : <<>>[i] = s[[n \in 1 .. 0 |-> n][i]]
      BY <3>1
    <3> QED
      BY <3>1, <3>2, <3>3, <3>4 DEF Sorts, Rearranged
  <2> DEFINE f == [i \in 0 .. 0 |-> <<>>]
  <2>2. f \in [0 .. 0 -> Seq(Int)] /\ f[0] = <<>> /\ 1 .. 0 = {} /\ 0 .. 0 = {0}
    OBVIOUS
  <2> HIDE DEF f
  <2> QED
    BY <2>1, <2>2
<1>3. bad = {}
  <2>1. SUFFICES ASSUME bad # {} PROVE FALSE
    OBVIOUS
  <2>2. bad \in SUBSET Nat
    BY <1>1
  <2>3. PICK n \in bad : \A i \in bad : n <= i
    <3> HIDE DEF bad
    <3> QED
      BY <2>1, <2>2, LeastNatural
  <2>4. n \in 0 .. Len(s) /\ ~Upto(n)
    BY <2>3
  <2>5. n # 0
    <3> HIDE DEF Upto
    <3> QED
      BY <1>2, <2>4
  <2>6. n - 1 \in 0 .. Len(s) /\ ~(n <= n - 1) /\ n \in 1 .. Len(s)
    BY <1>1, <2>4, <2>5
  <2>7. Upto(n - 1)
    <3> HIDE DEF Upto
    <3>1. n - 1 \notin bad
      <4> HIDE DEF bad
      <4> QED
        BY <2>3, <2>6
    <3> QED
      BY <2>6, <3>1
  <2>8. PICK f \in [0 .. n - 1 -> Seq(Int)] :
           /\ f[0] = <<>>
           /\ \A i \in 1 .. n - 1 : f[i] = Insert(f[i - 1], s[i])
           /\ \A i \in 0 .. n - 1 : Sorts(f[i], s, i)
    BY <2>7
  <2> DEFINE next == Insert(f[n - 1], s[n])
             g == [i \in 0 .. n |-> IF i = n THEN next ELSE f[i]]
  <2>9. Sorts(next, s, n)
    BY <2>6, <2>8, InsertSorts
  <2>10. next \in Seq(Int)
    BY <2>9 DEF Sorts, Rearranged
  <2>11. /\ g[n] = next
         /\ \A i \in 0 .. n - 1 : g[i] = f[i]
         /\ \A i \in 0 .. n : i = n \/ i \in 0 .. n - 1
         /\ \A i \in 1 .. n : i - 1 \in 0 .. n - 1 /\ (i = n \/ i \in 1 .. n - 1)
    BY <1>1, <2>6
  <2>12. g \in [0 .. n -> Seq(Int)]
    BY <2>8, <2>10, <2>11
  <2> HIDE DEF g
  <2>13. g[0] = <<>>
    BY <2>6, <2>8, <2>11
  <2>14. \A i \in 1 .. n : g[i] = Insert(g[i - 1], s[i])
    <3> SUFFICES ASSUME NEW i \in 1 .. n PROVE g[i] = Insert(g[i - 1], s[i])
      OBVIOUS
    <3>1. g[i - 1] = f[i - 1]
      BY <2>11
    <3>2. CASE i = n
      BY <2>11, <3>1, <3>2
    <3>3. CASE i \in 1 .. n - 1
      <4>1. f[i] = Insert(f[i - 1], s[i])
        BY <2>8, <3>3
      <4>2. g[i] = f[i]
        BY <2>11, <3>3
      <4> QED
        BY <3>1, <4>1, <4>2, Zenon
    <3> QED
      BY <2>11, <3>2, <3>3
  <2>15. \A i \in 0 .. n : Sorts(g[i], s, i)
    <3> SUFFICES ASSUME NEW i \in 0 .. n PROVE Sorts(g[i], s, i)
      OBVIOUS
    <3> HIDE DEF next
    <3>1. CASE i = n
      BY <2>9, <2>11, <3>1
    <3>2. CASE i \in 0 .. n - 1
      BY <2>8, <2>11, <3>2
    <3> QED
      BY <2>11, <3>1, <3>2
  <2>16. Upto(n)
    BY <2>12, <2>13, <2>14, <2>15
  <2> QED
    BY <2>4, <2>16
<1>4. Upto(Len(s))
  <2> HIDE DEF Upto
  <2>1. Len(s) \in 0 .. Len(s)
    BY <1>1
  <2> QED
    BY <1>3, <2>1
<1> DEFINE Eq(f) == f = [k \in 0 .. Len(s) |-> IF k = 0 THEN <<>> ELSE Insert(f[k - 1], s[k])]
           sorted == CHOOSE f : Eq(f)
<1>5. PICK f \in [0 .. Len(s) -> Seq(Int)] :
         /\ f[0] = <<>>
         /\ \A i \in 1 .. Len(s) : f[i] = Insert(f[i - 1], s[i])
         /\ \A i \in 0 .. Len(s) : Sorts(f[i], s, i)
  BY <1>4
<1>6. Eq(f)
  BY <1>1, <1>5
<1>7. Eq(sorted)
  BY <1>6
<1>8. Sorted(s) = sorted[Len(s)]
  BY DEF Sorted
<1> HIDE DEF sorted
<1>9. /\ sorted[0] = <<>>
      /\ \A i \in 1 .. Len(s) : sorted[i] = Insert(sorted[i - 1], s[i])
  <2>1. \A i \in 0 .. Len(s) :
          sorted[i] = IF i = 0 THEN <<>> ELSE Insert(sorted[i - 1], s[i])
    BY <1>7
  <2>2. 0 \in 0 .. Len(s) /\ \A i \in 1 .. Len(s) : i \in 0 .. Len(s) /\ i # 0
    BY <1>1
  <2> HIDE DEF Eq
  <2> QED
    BY <2>1, <2>2
<1>10. \A i \in 0 .. Len(s) : sorted[i] = f[i]
  <2> DEFINE differ == {i \in 0 .. Len(s) : sorted[i] # f[i]}
  <2>1. SUFFICES ASSUME differ # {} PROVE FALSE
    OBVIOUS
  <2>2. differ \in SUBSET Nat
    BY <1>1
  <2>3. PICK i \in differ : \A j \in differ : i <= j
    BY <2>1, <2>2, LeastNatural
  <2>4. i # 0
    BY <1>5, <1>9, <2>3
  <2>5. i \in 1 .. Len(s) /\ i - 1 \in 0 .. Len(s) /\ i - 1 \notin differ
    BY <1>1, <2>3, <2>4
  <2>6. sorted[i - 1] = f[i - 1] /\ sorted[i] = Insert(sorted[i - 1], s[i])
                                 /\ f[i] = Insert(f[i - 1], s[i])
    BY <1>5, <1>9, <2>5
  <2> QED
    BY <2>3, <2>6
<1>11. Len(s) \in 0 .. Len(s)
  BY <1>1
<1> QED
  BY <1>5, <1>8, <1>10, <1>11

-----------------------------------------------------------------------------
(* Middles *)

(* The places of the first n values of s that hold a value of V.            *)
Holding(s, n, V) == {i \in 1 .. n : s[i] \in V}

(* An order in which the values are arranged changes no count of them.      *)
LEMMA ArrangedCount ==
  ASSUME NEW n \in Nat, NEW s, NEW t, NEW V,
         Rearranged(t, s, n)
  PROVE  /\ IsFiniteSet(Holding(s, n, V)) /\ IsFiniteSet(Holding(t, n, V))
         /\ Cardinality(Holding(t, n, V)) = Cardinality(Holding(s, n, V))
<1> PICK p : Arranges(p, n) /\ \A i \in 1 .. n : t[i] = s[p[i]]
  BY DEF Rearranged
<1> DEFINE T == {i \in 1 .. n : t[i] \in V}
           S == {i \in 1 .. n : s[i] \in V}
           f == [i \in T |-> p[i]]
<1>1. /\ \A i \in 1 .. n : p[i] \in 1 .. n /\ t[i] = s[p[i]]
      /\ \A i, j \in 1 .. n : p[i] = p[j] => i = j
      /\ \A j \in 1 .. n : \E i \in 1 .. n : p[i] = j
  BY DEF Arranges
<1>2. IsFiniteSet(1 .. n) /\ S \subseteq 1 .. n /\ T \subseteq 1 .. n
  BY FS_Interval
<1>3. IsFiniteSet(S) /\ IsFiniteSet(T)
  BY <1>2, FS_Subset
<1>4. f \in Bijection(T, S)
  <2>1. \A i \in T : f[i] = p[i] /\ f[i] \in S
    BY <1>1
  <2>2. f \in [T -> S]
    BY <2>1
  <2>3. \A i, j \in T : f[i] = f[j] => i = j
    BY <1>1, <2>1
  <2>4. \A j \in S : \E i \in T : f[i] = j
    <3> SUFFICES ASSUME NEW j \in S PROVE \E i \in T : f[i] = j
      OBVIOUS
    <3>1. PICK i \in 1 .. n : p[i] = j
      BY <1>1
    <3>2. i \in T
      BY <1>1, <3>1
    <3> QED
      BY <2>1, <3>1, <3>2
  <2> HIDE DEF f, T, S
  <2> QED
    BY <2>2, <2>3, <2>4 DEF Bijection, Injection, Surjection, IsInjective
<1>5. Cardinality(T) = Cardinality(S)
  <2> HIDE DEF f, T, S
  <2> QED
    BY <1>3, <1>4, FS_Bijection DEF ExistsBijection
<1> QED
  BY <1>3, <1>5 DEF Holding

(* What is known of the sorted values.                                      *)
LEMMA SortedCount ==
  ASSUME NEW s \in Seq(Int)
  PROVE  /\ Len(s) \in Nat /\ DOMAIN s = 1 .. Len(s)
         /\ \A i \in 1 .. Len(s) : s[i] \in Int
         /\ Sorted(s) \in Seq(Int) /\ Len(Sorted(s)) = Len(s)
         /\ \A i \in 1 .. Len(s) : Sorted(s)[i] \in Int
         /\ \A i \in 1 .. Len(s) : \E j \in 1 .. Len(s) : Sorted(s)[i] = s[j]
         /\ \A i, j \in 1 .. Len(s) : i <= j => Sorted(s)[i] <= Sorted(s)[j]
         /\ \A V : /\ IsFiniteSet(Holding(s, Len(s), V))
                   /\ IsFiniteSet(Holding(Sorted(s), Len(s), V))
                   /\ Cardinality(Holding(Sorted(s), Len(s), V)) =
                        Cardinality(Holding(s, Len(s), V))
<1> DEFINE n == Len(s)
           t == Sorted(s)
<1>1. n \in Nat /\ DOMAIN s = 1 .. n /\ \A i \in 1 .. n : s[i] \in Int
  BY LenProperties, ElementOfSeq
<1>2. t \in Seq(Int) /\ Len(t) = n /\ Ordered(t) /\ Rearranged(t, s, n)
  BY SortedSorts DEF Sorts, Rearranged
<1>3. PICK p : Arranges(p, n) /\ \A i \in 1 .. n : t[i] = s[p[i]]
  BY SortedSorts DEF Sorts, Rearranged
<1> HIDE DEF n, t
<1>4. \A i \in 1 .. n : t[i] \in Int
  BY <1>1, <1>2, ElementOfSeq
<1>5. \A i, j \in 1 .. n : i <= j => t[i] <= t[j]
  BY <1>2 DEF Ordered
<1>6. \A i \in 1 .. n : \E j \in 1 .. n : t[i] = s[j]
  BY <1>3 DEF Arranges
<1>7. ASSUME NEW V
      PROVE  /\ IsFiniteSet(Holding(s, n, V)) /\ IsFiniteSet(Holding(t, n, V))
             /\ Cardinality(Holding(t, n, V)) = Cardinality(Holding(s, n, V))
  BY <1>1, <1>2, ArrangedCount
<1> QED
  BY <1>1, <1>2, <1>4, <1>5, <1>6, <1>7 DEF n, t

(* A part of 1 .. n up to m counts m values at most, one from m on the rest *)
(* at most, and one with all of 1 .. m in it m at least.                    *)
LEMMA CountUpto ==
  ASSUME NEW m \in Nat, NEW S, S \subseteq 1 .. m
  PROVE  IsFiniteSet(S) /\ Cardinality(S) \in Nat /\ Cardinality(S) <= m
<1>1. IsFiniteSet(1 .. m) /\ Cardinality(1 .. m) = m
  BY FS_Interval
<1> QED
  BY <1>1, FS_Subset, FS_CardinalityType

LEMMA CountFrom ==
  ASSUME NEW m \in Nat, NEW n \in Nat, m <= n, NEW S, S \subseteq m + 1 .. n
  PROVE  IsFiniteSet(S) /\ Cardinality(S) \in Nat /\ Cardinality(S) <= n - m
<1>1. IsFiniteSet(m + 1 .. n) /\ Cardinality(m + 1 .. n) = n - m
  <2>1. Cardinality(m + 1 .. n) = IF m + 1 > n THEN 0 ELSE n - (m + 1) + 1
    BY FS_Interval
  <2>2. IsFiniteSet(m + 1 .. n)
    BY FS_Interval
  <2> QED
    BY <2>1, <2>2
<1> QED
  BY <1>1, FS_Subset, FS_CardinalityType

LEMMA CountCovers ==
  ASSUME NEW m \in Nat, NEW S, IsFiniteSet(S), 1 .. m \subseteq S
  PROVE  Cardinality(S) \in Nat /\ m <= Cardinality(S)
<1>1. IsFiniteSet(1 .. m) /\ Cardinality(1 .. m) = m
  BY FS_Interval
<1> QED
  BY <1>1, FS_Subset, FS_CardinalityType

(* The value of rank r stands in place r of the sorted values: Rank counts, *)
(* Sorted sorts.                                                            *)
LEMMA RankIsSorted ==
  ASSUME NEW s \in Seq(Int), NEW r \in 1 .. Len(s)
  PROVE  Rank(s, r) = Sorted(s)[r]
<1> DEFINE n == Len(s)
           t == Sorted(s)
           Lesser(v) == {x \in Int : x < v}
           Upto(v) == {x \in Int : x <= v}
           Less(v) == Cardinality(Holding(s, n, Lesser(v)))
           Most(v) == Cardinality(Holding(s, n, Upto(v)))
           Fits(v) == Less(v) < r /\ Most(v) >= r
<1>1. /\ n \in Nat /\ DOMAIN s = 1 .. n
      /\ \A i \in 1 .. n : s[i] \in Int /\ t[i] \in Int
      /\ \A i \in 1 .. n : \E j \in 1 .. n : t[i] = s[j]
      /\ \A i, j \in 1 .. n : i <= j => t[i] <= t[j]
  BY SortedCount
<1>2. \A V : /\ IsFiniteSet(Holding(s, n, V)) /\ IsFiniteSet(Holding(t, n, V))
             /\ Cardinality(Holding(t, n, V)) = Cardinality(Holding(s, n, V))
  BY SortedCount
<1>3. r \in 1 .. n
  OBVIOUS
<1> HIDE DEF n, t
<1>4. ToSet(s) = {s[i] : i \in 1 .. n}
  BY <1>1 DEF ToSet
<1>5. ASSUME NEW v \in Int
      PROVE  /\ Cardinality({k \in DOMAIN s : s[k] < v}) = Less(v)
             /\ Cardinality({k \in DOMAIN s : s[k] <= v}) = Most(v)
  <2>1. {k \in DOMAIN s : s[k] < v} = Holding(s, n, Lesser(v))
    BY <1>1 DEF Holding
  <2>2. {k \in DOMAIN s : s[k] <= v} = Holding(s, n, Upto(v))
    BY <1>1 DEF Holding
  <2> QED
    BY <2>1, <2>2
<1>6. Rank(s, r) = CHOOSE v \in ToSet(s) : Fits(v)
  <2>1. \A v \in ToSet(s) : v \in Int
    BY <1>1, <1>4
  <2>2. \A v \in ToSet(s) : /\ Cardinality({k \in DOMAIN s : s[k] < v}) = Less(v)
                            /\ Cardinality({k \in DOMAIN s : s[k] <= v}) = Most(v)
    BY <1>5, <2>1
  <2> DEFINE Counted(v) == /\ Cardinality({k \in DOMAIN s : s[k] < v}) < r
                           /\ Cardinality({k \in DOMAIN s : s[k] <= v}) >= r
  <2>3. Rank(s, r) = CHOOSE v \in ToSet(s) : Counted(v)
    BY DEF Rank, Count
  <2>4. \A v \in ToSet(s) : Counted(v) <=> Fits(v)
    BY <2>2
  <2> HIDE DEF Counted, Fits
  <2> QED
    BY <2>3, <2>4
<1>7. t[r] \in ToSet(s) /\ t[r] \in Int
  BY <1>1, <1>3, <1>4
<1>8. Less(t[r]) < r
  <2> DEFINE S == Holding(t, n, Lesser(t[r]))
  <2>1. S \subseteq 1 .. r - 1
    <3> SUFFICES ASSUME NEW i \in S PROVE i \in 1 .. r - 1
      OBVIOUS
    <3>1. i \in 1 .. n /\ t[i] < t[r] /\ t[i] \in Int
      BY <1>1 DEF Holding
    <3>2. r <= i => t[r] <= t[i]
      BY <1>1, <1>3, <3>1
    <3>3. ~(r <= i)
      BY <1>7, <3>1, <3>2
    <3> QED
      BY <1>1, <1>3, <3>1, <3>3
  <2>2. r - 1 \in Nat
    BY <1>1, <1>3
  <2> HIDE DEF S
  <2>3. Cardinality(S) \in Nat /\ Cardinality(S) <= r - 1
    BY <2>1, <2>2, CountUpto
  <2>4. Less(t[r]) = Cardinality(S)
    BY <1>2 DEF S
  <2> QED
    BY <1>1, <1>3, <2>3, <2>4
<1>9. Most(t[r]) >= r
  <2> DEFINE S == Holding(t, n, Upto(t[r]))
  <2>1. 1 .. r \subseteq S
    <3> SUFFICES ASSUME NEW i \in 1 .. r PROVE i \in S
      OBVIOUS
    <3>1. i \in 1 .. n /\ i <= r
      BY <1>1, <1>3
    <3>2. t[i] <= t[r] /\ t[i] \in Int
      BY <1>1, <1>3, <3>1
    <3> QED
      BY <3>1, <3>2 DEF Holding
  <2>2. r \in Nat /\ IsFiniteSet(S)
    BY <1>1, <1>2, <1>3
  <2> HIDE DEF S
  <2>3. Cardinality(S) \in Nat /\ r <= Cardinality(S)
    BY <2>1, <2>2, CountCovers
  <2>4. Most(t[r]) = Cardinality(S)
    BY <1>2 DEF S
  <2> QED
    BY <1>1, <1>3, <2>3, <2>4
<1>10. ASSUME NEW v \in Int, NEW w \in Int, v < w
       PROVE  /\ Most(v) \in Nat /\ Less(w) \in Nat /\ Most(v) <= Less(w)
  <2> DEFINE S == Holding(s, n, Upto(v))
             T == Holding(s, n, Lesser(w))
  <2>1. S \subseteq T
    BY <1>1, <1>10 DEF Holding
  <2>2. IsFiniteSet(S) /\ IsFiniteSet(T)
    BY <1>2
  <2>3. Less(w) = Cardinality(T) /\ Most(v) = Cardinality(S)
    OBVIOUS
  <2> HIDE DEF S, T, Less, Most
  <2>4. S \in SUBSET T
    BY <2>1
  <2> QED
    BY <2>2, <2>3, <2>4, FS_Subset, FS_CardinalityType
<1> HIDE DEF Less, Most
<1>11. \A v \in ToSet(s) : Fits(v) => v = t[r]
  <2> SUFFICES ASSUME NEW v \in ToSet(s), Fits(v) PROVE v = t[r]
    OBVIOUS
  <2>1. v \in Int
    BY <1>1, <1>4
  <2>2. ~(v < t[r])
    BY <1>3, <1>7, <1>8, <1>10, <2>1
  <2>3. ~(t[r] < v)
    BY <1>3, <1>7, <1>9, <1>10, <2>1
  <2> QED
    BY <1>7, <2>1, <2>2, <2>3
<1>12. Fits(t[r])
  BY <1>8, <1>9
<1> HIDE DEF Fits
<1>13. Rank(s, r) = t[r]
  BY <1>6, <1>7, <1>11, <1>12
<1> QED
  BY <1>13 DEF t

(* Where the middle is.                                                     *)
LEMMA MiddlePlaces ==
  ASSUME NEW n \in Nat, n > 0
  PROVE  /\ (n + 1) \div 2 \in 1 .. n /\ n \div 2 + 1 \in 1 .. n
         /\ 2 * ((n + 1) \div 2 - 1) < n /\ 2 * (n - (n + 1) \div 2) <= n
         /\ 2 * (n \div 2) <= n /\ 2 * (n - (n \div 2 + 1)) < n
OBVIOUS

(* Median (median, median_of): the half-sum of the two middle ranks.        *)
LEMMA MedianOfMiddle ==
  ASSUME NEW s \in Seq(Int), s # <<>>
  PROVE  /\ Median(s) = Sorted(s)[(Len(s) + 1) \div 2] + Sorted(s)[Len(s) \div 2 + 1]
         /\ Median(s) = Rank(s, (Len(s) + 1) \div 2) + Rank(s, Len(s) \div 2 + 1)
<1>1. Len(s) \in Nat /\ Len(s) > 0 /\ Len(s) # 0 /\ Len(Sorted(s)) = Len(s)
  BY SortedCount, EmptySeq
<1>2. Median(s) = Sorted(s)[(Len(s) + 1) \div 2] + Sorted(s)[Len(s) \div 2 + 1]
  BY <1>1 DEF Median, MedianOf
<1>3. (Len(s) + 1) \div 2 \in 1 .. Len(s) /\ Len(s) \div 2 + 1 \in 1 .. Len(s)
  BY <1>1, MiddlePlaces
<1>4. /\ Rank(s, (Len(s) + 1) \div 2) = Sorted(s)[(Len(s) + 1) \div 2]
      /\ Rank(s, Len(s) \div 2 + 1) = Sorted(s)[Len(s) \div 2 + 1]
  BY <1>3, RankIsSorted
<1> QED
  BY <1>2, <1>4

(* A middle value is between lo and hi if most values are.                  *)
LEMMA MiddleOfMost ==
  ASSUME NEW s \in Seq(Int), NEW lo \in Int, NEW hi \in Int, NEW r \in 1 .. Len(s),
         Cardinality(Holding(s, Len(s), lo .. hi)) > r - 1,
         Cardinality(Holding(s, Len(s), lo .. hi)) > Len(s) - r
  PROVE  Sorted(s)[r] \in lo .. hi
<1> DEFINE n == Len(s)
           t == Sorted(s)
           S == Holding(t, n, lo .. hi)
<1>1. /\ n \in Nat
      /\ \A i \in 1 .. n : t[i] \in Int
      /\ \A i, j \in 1 .. n : i <= j => t[i] <= t[j]
  BY SortedCount
<1>2. Cardinality(S) = Cardinality(Holding(s, n, lo .. hi))
  BY SortedCount
<1>3. r \in 1 .. n /\ Cardinality(S) > r - 1 /\ Cardinality(S) > n - r
  BY <1>2
<1>4. \A i \in S : i \in 1 .. n /\ lo <= t[i] /\ t[i] <= hi
  BY DEF Holding
<1> HIDE DEF n, t, S
<1>5. r \in Nat /\ r >= 1 /\ r <= n /\ r - 1 \in Nat
  BY <1>1, <1>3
<1>6. S \subseteq 1 .. n
  BY <1>4
<1>7. t[r] <= hi
  <2> SUFFICES ASSUME hi < t[r] PROVE FALSE
    BY <1>1, <1>3
  <2>1. S \subseteq 1 .. r - 1
    <3> SUFFICES ASSUME NEW i \in S PROVE i \in 1 .. r - 1
      OBVIOUS
    <3>1. i \in 1 .. n /\ t[i] <= hi /\ t[i] \in Int /\ t[r] \in Int
      BY <1>1, <1>3, <1>4
    <3>2. r <= i => t[r] <= t[i]
      BY <1>1, <1>3, <3>1
    <3>3. ~(r <= i)
      BY <3>1, <3>2
    <3> QED
      BY <1>1, <1>5, <3>1, <3>3
  <2>2. Cardinality(S) \in Nat /\ Cardinality(S) <= r - 1
    BY <1>5, <2>1, CountUpto
  <2> QED
    BY <1>3, <1>5, <2>2
<1>8. lo <= t[r]
  <2> SUFFICES ASSUME t[r] < lo PROVE FALSE
    BY <1>1, <1>3
  <2>1. S \subseteq r + 1 .. n
    <3> SUFFICES ASSUME NEW i \in S PROVE i \in r + 1 .. n
      OBVIOUS
    <3>1. i \in 1 .. n /\ lo <= t[i] /\ t[i] \in Int /\ t[r] \in Int
      BY <1>1, <1>3, <1>4
    <3>2. i <= r => t[i] <= t[r]
      BY <1>1, <1>3, <3>1
    <3>3. ~(i <= r)
      BY <3>1, <3>2
    <3> QED
      BY <1>1, <1>5, <3>1, <3>3
  <2>2. Cardinality(S) \in Nat /\ Cardinality(S) <= n - r
    BY <1>1, <1>5, <2>1, CountFrom
  <2> QED
    BY <1>1, <1>3, <1>5, <2>2
<1>9. t[r] \in Int
  BY <1>1, <1>3
<1>10. t[r] \in lo .. hi
  BY <1>7, <1>8, <1>9
<1> QED
  BY <1>10 DEF t

(* So is the median, which is doubled.                                      *)
LEMMA MedianOfMost ==
  ASSUME NEW s \in Seq(Int), NEW lo \in Int, NEW hi \in Int,
         2 * Cardinality(Holding(s, Len(s), lo .. hi)) > Len(s)
  PROVE  s # <<>> /\ Median(s) \in 2 * lo .. 2 * hi
<1> DEFINE c == Cardinality(Holding(s, Len(s), lo .. hi))
           n == Len(s)
<1>1. n \in Nat /\ IsFiniteSet(Holding(s, n, lo .. hi))
  BY SortedCount
<1>2. c \in Nat /\ c <= n
  <2>1. Holding(s, n, lo .. hi) \subseteq 1 .. n
    BY DEF Holding
  <2> QED
    BY <1>1, <2>1, CountUpto
<1>3. 2 * c > n
  OBVIOUS
<1> HIDE DEF c, n
<1>4. n > 0
  BY <1>1, <1>2, <1>3
<1>5. s # <<>>
  BY <1>4, EmptySeq DEF n
<1> DEFINE a == (n + 1) \div 2
           b == n \div 2 + 1
<1>6. /\ a \in 1 .. n /\ b \in 1 .. n
      /\ 2 * (a - 1) < n /\ 2 * (n - a) <= n
      /\ 2 * (b - 1) <= n /\ 2 * (n - b) < n
  BY <1>1, <1>4, MiddlePlaces
<1>7. Median(s) = Sorted(s)[a] + Sorted(s)[b]
  BY <1>5, MedianOfMiddle DEF n
<1> HIDE DEF a, b
<1>8. c > a - 1 /\ c > n - a /\ c > b - 1 /\ c > n - b
  BY <1>1, <1>2, <1>3, <1>6
<1>9. Sorted(s)[a] \in lo .. hi /\ Sorted(s)[b] \in lo .. hi
  BY <1>6, <1>8, MiddleOfMost DEF n, c
<1> QED
  BY <1>5, <1>7, <1>9

(* The spread of a history, most of which is between lo and hi, is no more  *)
(* than theirs (mad).                                                       *)
LEMMA MADOfMost ==
  ASSUME NEW s \in Seq(Int), NEW lo \in Int, NEW hi \in Int,
         2 * Cardinality(Holding(s, Len(s), lo .. hi)) > Len(s)
  PROVE  MAD(s) \in 0 .. 4 * (hi - lo)
<1> DEFINE n == Len(s)
           m == Median(s)
           d == [k \in DOMAIN s |-> Abs(2 * s[k] - m)]
           S == Holding(s, n, lo .. hi)
           T == Holding(d, n, 0 .. 2 * (hi - lo))
<1>1. /\ n \in Nat /\ DOMAIN s = 1 .. n
      /\ \A i \in 1 .. n : s[i] \in Int
  BY SortedCount
<1>2. m \in 2 * lo .. 2 * hi
  BY MedianOfMost
<1>3. MAD(s) = Median(d)
  BY DEF MAD, Median
<1>4. 2 * Cardinality(S) > n
  OBVIOUS
<1>5. S \subseteq 1 .. n /\ \A k \in S : s[k] \in lo .. hi
  BY DEF Holding
<1> HIDE DEF n, m, S
<1>6. \A k \in 1 .. n : d[k] = Abs(2 * s[k] - m) /\ d[k] \in Int
  BY <1>1, <1>2 DEF Abs
<1>7. d \in Seq(Int) /\ Len(d) = n
  <2>1. d \in [1 .. n -> Int]
    BY <1>1, <1>6
  <2> HIDE DEF d
  <2> QED
    BY <1>1, <2>1
<1> HIDE DEF d
<1>8. S \subseteq T
  <2> SUFFICES ASSUME NEW k \in S PROVE k \in T
    OBVIOUS
  <2>1. k \in 1 .. n /\ s[k] \in Int /\ lo <= s[k] /\ s[k] <= hi
    BY <1>5
  <2>2. Abs(2 * s[k] - m) \in 0 .. 2 * (hi - lo)
    <3>1. ASSUME NEW x \in Int, lo <= x, x <= hi
          PROVE  Abs(2 * x - m) \in 0 .. 2 * (hi - lo)
      BY <1>2, <3>1 DEF Abs
    <3> QED
      BY <2>1, <3>1
  <2>3. d[k] \in 0 .. 2 * (hi - lo)
    BY <1>6, <2>1, <2>2
  <2> QED
    BY <2>1, <2>3 DEF Holding
<1>9. IsFiniteSet(T) /\ Cardinality(T) \in Nat
  <2>1. T \subseteq 1 .. n
    BY DEF Holding
  <2> QED
    BY <1>1, <2>1, CountUpto
<1>10. IsFiniteSet(S) /\ Cardinality(S) \in Nat
  BY <1>1, <1>5, CountUpto
<1> HIDE DEF T
<1>11. Cardinality(S) <= Cardinality(T)
  BY <1>8, <1>9, FS_Subset
<1>12. 2 * Cardinality(T) > n
  BY <1>1, <1>4, <1>9, <1>10, <1>11
<1>13. 2 * Cardinality(Holding(d, Len(d), 0 .. 2 * (hi - lo))) > Len(d)
  BY <1>7, <1>12 DEF T
<1>14. 0 \in Int /\ 2 * (hi - lo) \in Int
  OBVIOUS
<1>15. Median(d) \in 2 * 0 .. 2 * (2 * (hi - lo))
  BY <1>7, <1>13, <1>14, MedianOfMost
<1>16. 2 * 0 = 0 /\ 2 * (2 * (hi - lo)) = 4 * (hi - lo)
  OBVIOUS
<1> QED
  BY <1>3, <1>15, <1>16, Zenon

(* What is four times as far exceeds four times as much.                    *)
LEMMA FarIsFar ==
  ASSUME NEW d \in Int, NEW far \in Int, NEW near \in Int,
         d * 10000 > near, far >= 4 * d
  PROVE  far * 10000 > 4 * near
OBVIOUS

(* What is farther from all of the usual values than Threshold scaled       *)
(* spreads is surprising (robust_z).                                        *)
LEMMA OutlierIsSurprising ==
  ASSUME NEW s \in Seq(Int), NEW lo \in Int, NEW hi \in Int, lo <= hi,
         2 * Cardinality(Holding(s, Len(s), lo .. hi)) > Len(s),
         NEW v \in Int,
         \A h \in lo .. hi : Abs(v - h) * 10000 > Threshold * 14826 * (hi - lo)
  PROVE  Surprising(s, v)
<1> DEFINE m == Median(s)
           far == Threshold * 14826
           mad == MAD(s)
<1>1. m \in 2 * lo .. 2 * hi /\ mad \in 0 .. 4 * (hi - lo)
  BY MedianOfMost, MADOfMost
<1>2. far \in Nat
  BY ScreeningAssumption
<1>3. v # NaN
  <2>1. NaN \notin Int
    BY ScreeningAssumption
  <2> QED
    BY <2>1
<1>4. \A h \in lo .. hi : Abs(v - h) * 10000 > far * (hi - lo)
  OBVIOUS
<1> HIDE DEF m, far, mad
<1>5. far * (hi - lo) >= 0
  <2>1. hi - lo \in Nat
    OBVIOUS
  <2> QED
    BY <1>2, <2>1
<1>6. far * mad <= 4 * (far * (hi - lo))
  <2> DEFINE rest == 4 * (hi - lo) - mad
  <2>1. rest \in Nat /\ mad \in Nat /\ mad + rest = 4 * (hi - lo)
    BY <1>1
  <2>2. far * rest \in Nat /\ far * mad \in Nat
    BY <1>2, <2>1
  <2>3. far * (mad + rest) = far * mad + far * rest
    <3> HIDE DEF rest
    <3> QED
      BY <1>2, <2>1
  <2>4. far * (4 * (hi - lo)) = 4 * (far * (hi - lo))
    BY <1>2
  <2> HIDE DEF rest
  <2> QED
    BY <1>2, <2>1, <2>2, <2>3, <2>4
<1>7. v < lo \/ v > hi
  <2> SUFFICES ASSUME v \in lo .. hi PROVE FALSE
    OBVIOUS
  <2>1. Abs(v - v) = 0
    BY DEF Abs
  <2>2. Abs(v - v) * 10000 > far * (hi - lo)
    BY <1>4
  <2>3. far * (hi - lo) \in Int
    BY <1>2
  <2> QED
    BY <1>5, <2>1, <2>2, <2>3
<1> DEFINE near == far * (hi - lo)
<1>8. near \in Int /\ near >= 0 /\ far * mad \in Int /\ far * mad <= 4 * near
  BY <1>1, <1>2, <1>5, <1>6
<1>9. Abs(v - lo) * 10000 > near /\ Abs(v - hi) * 10000 > near
  BY <1>4
<1> HIDE DEF near
<1>10. /\ 2 * v # m
       /\ Abs(4 * v - 2 * m) * 10000 > 4 * near
  <2>1. CASE v < lo
    <3>1. Abs(v - lo) = lo - v /\ Abs(4 * v - 2 * m) = 2 * m - 4 * v
      BY <1>1, <2>1 DEF Abs
    <3>2. (lo - v) * 10000 > near /\ 2 * m - 4 * v >= 4 * (lo - v)
      BY <1>1, <1>9, <3>1
    <3>4. (2 * m - 4 * v) * 10000 > 4 * near
      <4>1. lo - v \in Int /\ 2 * m - 4 * v \in Int
        BY <1>1
      <4> QED
        BY <1>8, <3>2, <4>1, FarIsFar
    <3>3. m \in Int /\ 2 * v < m
      BY <1>1, <2>1
    <3> QED
      BY <3>1, <3>3, <3>4
  <2>2. CASE v > hi
    <3>1. Abs(v - hi) = v - hi /\ Abs(4 * v - 2 * m) = 4 * v - 2 * m
      BY <1>1, <2>2 DEF Abs
    <3>2. (v - hi) * 10000 > near /\ 4 * v - 2 * m >= 4 * (v - hi)
      BY <1>1, <1>9, <3>1
    <3>4. (4 * v - 2 * m) * 10000 > 4 * near
      <4>1. v - hi \in Int /\ 4 * v - 2 * m \in Int
        BY <1>1
      <4> QED
        BY <1>8, <3>2, <4>1, FarIsFar
    <3>3. m \in Int /\ 2 * v > m
      BY <1>1, <2>2
    <3> QED
      BY <3>1, <3>3, <3>4
  <2> QED
    BY <1>7, <2>1, <2>2
<1>11. Abs(4 * v - 2 * m) * 10000 \in Int
  BY <1>1 DEF Abs
<1>12. Abs(4 * v - 2 * m) * 10000 > far * mad
  BY <1>8, <1>10, <1>11
<1> QED
  BY <1>3, <1>10, <1>12 DEF Surprising, m, far, mad

-----------------------------------------------------------------------------
(* The screen *)

(* A new detector seeded with a history of numbers holds that history.      *)
LEMMA HistoryIsKept ==
  ASSUME NEW S, S \cap {Absent, NaN} = {}, NEW s \in Seq(S)
  PROVE  WithHistory(s) = s
<1> DEFINE n == Len(s)
           Eq(f) == f = [k \in 0 .. n |->
                           IF k = 0 THEN <<>> ELSE Observe(f[k - 1], s[k])]
           seeded == CHOOSE f : Eq(f)
           parts == [k \in 0 .. n |-> SubSeq(s, 1, k)]
<1>1. n \in Nat /\ \A k \in 1 .. n : s[k] \in S
  BY ElementOfSeq, LenProperties
<1>2. \A k \in 1 .. n : SubSeq(s, 1, k) = Append(SubSeq(s, 1, k - 1), s[k])
  <2> SUFFICES ASSUME NEW k \in 1 .. n
               PROVE  SubSeq(s, 1, k) = Append(SubSeq(s, 1, k - 1), s[k])
    OBVIOUS
  <2>1. k \in Nat /\ k - 1 \in Nat /\ k <= Len(s) /\ k >= 1
    BY <1>1
  <2> HIDE DEF n
  <2> QED
    BY <1>1, <2>1
<1>3. SubSeq(s, 1, 0) = <<>> /\ SubSeq(s, 1, n) = s
  BY <1>1
<1>4. \A k \in 1 .. n : Observe(SubSeq(s, 1, k - 1), s[k]) = SubSeq(s, 1, k)
  BY <1>1, <1>2 DEF Observe
<1> HIDE DEF n
<1>5. /\ parts[0] = <<>>
      /\ \A k \in 0 .. n : parts[k] = SubSeq(s, 1, k)
      /\ \A k \in 1 .. n : parts[k] = Observe(parts[k - 1], s[k])
  <2>1. 0 \in 0 .. n /\ \A k \in 1 .. n : k \in 0 .. n /\ k - 1 \in 0 .. n
    BY <1>1
  <2>2. \A k \in 0 .. n : parts[k] = SubSeq(s, 1, k)
    OBVIOUS
  <2> HIDE DEF parts
  <2> QED
    BY <1>3, <1>4, <2>1, <2>2
<1>6. Eq(parts)
  <2> DEFINE g == [k \in 0 .. n |-> IF k = 0 THEN <<>> ELSE Observe(parts[k - 1], s[k])]
  <2>1. \A k \in 0 .. n : parts[k] = g[k]
    <3> SUFFICES ASSUME NEW k \in 0 .. n PROVE parts[k] = g[k]
      OBVIOUS
    <3>1. k = 0 \/ k \in 1 .. n
      BY <1>1
    <3> HIDE DEF parts
    <3> QED
      BY <1>5, <3>1
  <2>2. parts = g
    <3> DEFINE D == 0 .. n
    <3>1. DOMAIN parts = D /\ DOMAIN g = D /\ parts = [k \in D |-> parts[k]] /\ g = [k \in D |-> g[k]]
      OBVIOUS
    <3> HIDE DEF parts, g
    <3> QED
      BY <2>1, <3>1
  <2> QED
    BY <2>2
<1>7. Eq(seeded)
  <2> HIDE DEF Eq, parts
  <2> QED
    BY <1>6
<1>8. WithHistory(s) = seeded[n]
  BY DEF WithHistory, n
<1> HIDE DEF seeded, parts
<1>9. /\ seeded[0] = <<>>
      /\ \A k \in 1 .. n : seeded[k] = Observe(seeded[k - 1], s[k])
  <2>1. \A k \in 0 .. n :
          seeded[k] = IF k = 0 THEN <<>> ELSE Observe(seeded[k - 1], s[k])
    BY <1>7
  <2>2. 0 \in 0 .. n /\ \A k \in 1 .. n : k \in 0 .. n /\ k # 0
    BY <1>1
  <2> HIDE DEF Eq
  <2> QED
    BY <2>1, <2>2
<1>10. \A k \in 0 .. n : seeded[k] = parts[k]
  <2> DEFINE differ == {k \in 0 .. n : seeded[k] # parts[k]}
  <2>1. SUFFICES ASSUME differ # {} PROVE FALSE
    OBVIOUS
  <2>2. differ \in SUBSET Nat
    BY <1>1
  <2>3. PICK k \in differ : \A j \in differ : k <= j
    BY <2>1, <2>2, LeastNatural
  <2>4. k # 0
    BY <1>5, <1>9, <2>3
  <2>5. k \in 1 .. n /\ k - 1 \in 0 .. n /\ k - 1 \notin differ
    BY <1>1, <2>3, <2>4
  <2>6. /\ seeded[k - 1] = parts[k - 1]
        /\ seeded[k] = Observe(seeded[k - 1], s[k])
        /\ parts[k] = Observe(parts[k - 1], s[k])
    BY <1>5, <1>9, <2>5
  <2> QED
    BY <2>3, <2>6
<1>11. n \in 0 .. n
  BY <1>1
<1> QED
  BY <1>3, <1>5, <1>8, <1>10, <1>11

(* A history holds numbers.                                                 *)
LEMMA HistoryIsOfNumbers ==
  ASSUME NEW metric \in Metric
  PROVE  /\ Arrived(metric) \ {NaN} \subseteq Int
         /\ (Arrived(metric) \ {NaN}) \cap {Absent, NaN} = {}
BY ScreeningAssumption DEF Arrived

LEMMA ScreeningTyped == ScreeningInit => ScreeningTypeOK
<1> SUFFICES ASSUME ScreeningInit PROVE ScreeningTypeOK
  OBVIOUS
<1>1. /\ DOMAIN dist = Metric /\ verdict = {}
      /\ \A metric \in Metric : dist[metric] = <<>>
  BY DEF ScreeningInit
<1>2. "yield" \in Metric
  BY DEF Metric
<1>3. \A metric \in Metric : /\ dist[metric] \in Seq(Arrived(metric) \ {NaN})
                             /\ Len(dist[metric]) <= Len(dist["yield"])
  <2> SUFFICES ASSUME NEW metric \in Metric
               PROVE  /\ dist[metric] \in Seq(Arrived(metric) \ {NaN})
                      /\ Len(dist[metric]) <= Len(dist["yield"])
    OBVIOUS
  <2>1. dist[metric] = <<>> /\ dist["yield"] = <<>>
    BY <1>1, <1>2
  <2>2. <<>> \in Seq(Arrived(metric) \ {NaN}) /\ Len(<<>>) <= Len(<<>>)
    BY EmptySeq
  <2> QED
    BY <2>1, <2>2
<1> QED
  BY <1>1, <1>3 DEF ScreeningTypeOK

LEMMA ScreenStep ==
  ASSUME ScreeningTypeOK, NEW report \in Reports, Screen(report)
  PROVE  ScreeningTypeOK'
<1>1. /\ verdict' = Findings(report)
      /\ dist' = [metric \in Metric |-> Observe(dist[metric], report[metric])]
  BY DEF Screen
<1>2. verdict' \subseteq Metric
  BY <1>1 DEF Findings
<1>3. "yield" \in Metric
  BY DEF Metric
<1>4. /\ report["yield"] \in Int
      /\ \A metric \in Metric : report[metric] \in Int \cup {Absent, NaN}
      /\ {Absent, NaN} \cap Int = {}
  BY ScreeningAssumption
<1>5. /\ DOMAIN dist' = Metric
      /\ \A metric \in Metric : dist'[metric] = Observe(dist[metric], report[metric])
  BY <1>1
<1>6. /\ Len(dist["yield"]) \in Nat
      /\ Len(dist'["yield"]) = Len(dist["yield"]) + 1
  <2>1. dist["yield"] \in Seq(Arrived("yield") \ {NaN})
    BY <1>3 DEF ScreeningTypeOK
  <2>2. dist'["yield"] = Append(dist["yield"], report["yield"])
    BY <1>3, <1>4, <1>5 DEF Observe
  <2>3. report["yield"] \in Arrived("yield") \ {NaN}
    BY <1>3, <1>4 DEF Arrived
  <2> QED
    BY <2>1, <2>2, <2>3
<1>7. ASSUME NEW metric \in Metric
      PROVE  /\ dist'[metric] \in Seq(Arrived(metric) \ {NaN})
             /\ Len(dist'[metric]) <= Len(dist'["yield"])
  <2> DEFINE V == Arrived(metric) \ {NaN}
  <2>1. dist[metric] \in Seq(V) /\ Len(dist[metric]) <= Len(dist["yield"])
    BY DEF ScreeningTypeOK
  <2>2. report[metric] \notin {Absent, NaN} => report[metric] \in V
    BY <1>4 DEF Arrived
  <2> HIDE DEF V
  <2>3. CASE report[metric] \in {Absent, NaN}
    <3>1. dist'[metric] = dist[metric]
      BY <1>5, <2>3 DEF Observe
    <3>2. Len(dist[metric]) \in Nat
      BY <2>1
    <3> QED
      BY <1>6, <2>1, <3>1, <3>2 DEF V
  <2>4. CASE report[metric] \notin {Absent, NaN}
    <3>1. dist'[metric] = Append(dist[metric], report[metric])
      BY <1>5, <2>4 DEF Observe
    <3>2. /\ Append(dist[metric], report[metric]) \in Seq(V)
          /\ Len(Append(dist[metric], report[metric])) = Len(dist[metric]) + 1
          /\ Len(dist[metric]) \in Nat
      BY <2>1, <2>2, <2>4
    <3> QED
      BY <1>6, <2>1, <3>1, <3>2 DEF V
  <2> QED
    BY <2>3, <2>4
<1> QED
  BY <1>2, <1>5, <1>7 DEF ScreeningTypeOK, Arrived

(* Restarting changes nothing but the verdict.                              *)
LEMMA RestartStep ==
  ASSUME ScreeningTypeOK, Restart
  PROVE  ScreeningTypeOK'
<1>1. \A metric \in Metric : dist[metric] \in Seq(Arrived(metric) \ {NaN})
  BY DEF ScreeningTypeOK
<1>2. \A metric \in Metric : WithHistory(dist[metric]) = dist[metric]
  BY <1>1, HistoryIsOfNumbers, HistoryIsKept
<1>3. /\ DOMAIN dist' = Metric
      /\ \A metric \in Metric : dist'[metric] = dist[metric]
      /\ verdict' = {}
  BY <1>2 DEF Restart
<1>4. "yield" \in Metric
  BY DEF Metric
<1> QED
  BY <1>3, <1>4 DEF ScreeningTypeOK, Arrived

(* ScreeningTypeOK holds in every state: only numbers get into a history,   *)
(* and a restart keeps them.                                                *)
THEOREM ScreeningTypes == ScreeningSpec => []ScreeningTypeOK
<1>1. ScreeningTypeOK /\ [ScreeningNext]_screeningVars => ScreeningTypeOK'
  <2> SUFFICES ASSUME ScreeningTypeOK, [ScreeningNext]_screeningVars PROVE ScreeningTypeOK'
    OBVIOUS
  <2>1. CASE Restart
    BY <2>1, RestartStep
  <2>2. ASSUME NEW report \in Reports, Screen(report) PROVE ScreeningTypeOK'
    BY <2>2, ScreenStep
  <2>3. CASE UNCHANGED screeningVars
    BY <2>3 DEF screeningVars, ScreeningTypeOK, Arrived
  <2> QED
    BY <2>1, <2>2, <2>3 DEF ScreeningNext
<1> QED
  BY <1>1, ScreeningTyped, PTL DEF ScreeningSpec

(* HistoryHasAMiddle (median, median_of, observe): for histories of any     *)
(* length, what sorting finds is what counting would.                       *)
THEOREM MediansAreMiddles == ScreeningSpec => []HistoryHasAMiddle
<1>1. ScreeningTypeOK => HistoryHasAMiddle
  <2> SUFFICES ASSUME ScreeningTypeOK, NEW metric \in Metric, dist[metric] # <<>>
               PROVE  Median(dist[metric]) = Rank(dist[metric], (Len(dist[metric]) + 1) \div 2)
                                           + Rank(dist[metric], Len(dist[metric]) \div 2 + 1)
    BY DEF HistoryHasAMiddle, MedianIsMiddle
  <2>1. dist[metric] \in Seq(Int)
    BY HistoryIsOfNumbers, SeqMonotonic DEF ScreeningTypeOK
  <2> QED
    BY <2>1, MedianOfMiddle
<1> QED
  BY <1>1, ScreeningTypes, PTL

(* OutliersStayFlagged (screen, robust_z, mad): whatever the threshold, the *)
(* honest range and the outliers, a minority of outliers cannot move the    *)
(* middle out of the honest range, nor stretch the spread beyond it.        *)
THEOREM OutliersAreFlagged == ScreeningSpec => []OutliersStayFlagged
<1>1. ScreeningTypeOK => OutliersStayFlagged
  <2> SUFFICES ASSUME ScreeningTypeOK PROVE OutliersStayFlagged
    OBVIOUS
  <2>1. ASSUME NEW metric \in Metric,
               2 * Cardinality({k \in DOMAIN dist[metric] :
                                 dist[metric][k] \in Honest[metric].low .. Honest[metric].high})
                 > Len(dist[metric]),
               NEW v \in Arrived(metric) \ {NaN},
               \A h \in Honest[metric].low .. Honest[metric].high :
                 Abs(v - h) * 10000
                   > Threshold * 14826 * (Honest[metric].high - Honest[metric].low)
        PROVE  Surprising(dist[metric], v)
    <3> DEFINE s == dist[metric]
               lo == Honest[metric].low
               hi == Honest[metric].high
    <3>1. s \in Seq(Int) /\ v \in Int
      BY HistoryIsOfNumbers, SeqMonotonic DEF ScreeningTypeOK
    <3>2. lo \in Int /\ hi \in Int /\ lo <= hi
      BY ScreeningAssumption
    <3>3. DOMAIN s = 1 .. Len(s)
      BY <3>1, LenProperties
    <3>4. 2 * Cardinality(Holding(s, Len(s), lo .. hi)) > Len(s)
      <4>1. {k \in DOMAIN s : s[k] \in lo .. hi} = Holding(s, Len(s), lo .. hi)
        BY <3>3 DEF Holding
      <4>2. 2 * Cardinality({k \in DOMAIN s : s[k] \in lo .. hi}) > Len(s)
        BY <2>1
      <4> HIDE DEF s, lo, hi
      <4> QED
        BY <4>1, <4>2, Zenon
    <3>5. \A h \in lo .. hi : Abs(v - h) * 10000 > Threshold * 14826 * (hi - lo)
      BY <2>1
    <3> HIDE DEF s, lo, hi
    <3>6. Surprising(s, v)
      BY <3>1, <3>2, <3>4, <3>5, OutlierIsSurprising
    <3> QED
      BY <3>6 DEF s
  <2> QED
    BY <2>1 DEF OutliersStayFlagged, Count
<1> QED
  BY <1>1, ScreeningTypes, PTL
=============================================================================
