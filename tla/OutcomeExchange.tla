-------------------------- MODULE OutcomeExchange --------------------------
(***************************************************************************)
(* Outcome reports from the fab that writes one to the publication that    *)
(* counts it (tpt-fab-aggregate, and sky130 of tpt-fab-process): files are *)
(* signed, stored, read through the gates of the reader, ingested under    *)
(* their consent scope and published behind the cohort gate; shuttle       *)
(* results are ingested without a file.                                    *)
(*                                                                         *)
(* Fabs and the receiver do not upgrade together, a file may be read and   *)
(* ingested more than once, and it may be damaged in storage.  One bucket  *)
(* stands for each of them; a report is its yield (the units good), its    *)
(* consent scope and whether it carries a free-text note.  Statistics and  *)
(* noise are left out of a publication.                                    *)
(***************************************************************************)
EXTENDS Integers, Sequences, FiniteSets

CONSTANTS
  Fabs,          \* contributors
  VersionOf,     \* the schema version each fab writes
  Keys,          \* fabs whose key the receiver has
  Policies,      \* the policies a reader may have for unsigned files
  Yields,        \* units good a report may claim
  Started,       \* units started, of every report
  MinCohort,     \* AggregationEngine::min_cohort
  MaxFiles,      \* bound on files written
  MaxIngests,    \* bound on ingestions
  None

Versions == {"0.1", "0.2", "0.3"}
Current == "0.2"
UnsignedPolicy == {"RequireSignature", "AcceptUnsigned"}
ConsentScope == {"AggregatedContribution", "PrivateBilateral", "NoSharing"}

Manifest == 1 .. MaxFiles
Payload == [version : Versions, consent : ConsentScope, good : Yields, note : BOOLEAN]
Signature == [key : Fabs, covers : Payload \cup {None}]   \* None: a mac of nothing
File == [fab : Fabs, report : Payload, sig : Signature \cup {None}]

(* The manifest id of a shuttle result is a hash of its project.  `signed`  *)
(* is whether the report has a signature; under which policy it was read,   *)
(* if it was read, the engine does not know: `policy` is history.           *)
Contribution == [manifest : Manifest \cup Fabs, fab : Fabs, signed : BOOLEAN,
                 policy : Policies \cup {None},
                 report : [version : {Current}, consent : {"AggregatedContribution"},
                           good : Yields, note : BOOLEAN]]
Publication == [n : 1 .. Cardinality(Fabs), fabs : SUBSET Fabs, dp : BOOLEAN]

ASSUME ExchangeAssumption ==
  /\ VersionOf \in [Fabs -> Versions]
  /\ Keys \subseteq Fabs
  /\ Policies \subseteq UnsignedPolicy
  /\ IsFiniteSet(Fabs) /\ None \notin Fabs \cup Payload \cup UnsignedPolicy
  /\ Fabs \cap (1 .. MaxFiles) = {}   \* a shuttle result has no file's manifest id
  /\ Yields \subseteq Nat
  /\ {Started, MinCohort, MaxFiles, MaxIngests} \subseteq Nat

VARIABLES
  written,        \* the files as their fabs wrote them, by manifest id
  stored,         \* the same files as they are read
  rejected,       \* manifest ids the reader refused
  contributions,  \* AggregationEngine::contributions
  published       \* the publications made

exchangeVars == <<written, stored, rejected, contributions, published>>

(* Types; whoever gets into the engine consented to it.                     *)
ExchangeTypeOK ==
  /\ written \in Seq(File) /\ Len(written) <= MaxFiles
  /\ stored \in Seq(File) /\ Len(stored) = Len(written)
  /\ rejected \subseteq 1 .. Len(written)
  /\ contributions \in Seq(Contribution) /\ Len(contributions) <= MaxIngests
  /\ published \subseteq Publication

ExchangeInit ==
  /\ written = <<>> /\ stored = <<>>
  /\ rejected = {}
  /\ contributions = <<>>
  /\ published = {}

(* write_outcome_file, after sign_report if the fab has a key.  A process   *)
(* note is free text only before 0.2.                                       *)
WriteOutcomeFile(fab, report, signs) ==
  LET file == [fab |-> fab, report |-> report,
               sig |-> IF signs THEN [key |-> fab, covers |-> report] ELSE None]
  IN  /\ Len(written) < MaxFiles
      /\ report.version = VersionOf[fab]
      /\ report.note => report.version = "0.1"
      /\ written' = Append(written, file)
      /\ stored' = Append(stored, file)
      /\ UNCHANGED <<rejected, contributions, published>>

(* The file of a report changes in transit or in storage: any of the report,*)
(* and its signature may be gone or be one of nothing.                      *)
Damage(i) ==
  /\ stored[i] = written[i]
  /\ \E report \in Payload, sig \in {stored[i].sig, None, [key |-> stored[i].fab, covers |-> None]} :
       /\ report.note => report.version = "0.1"
       /\ stored' = [stored EXCEPT ![i].report = report, ![i].sig = sig]
  /\ UNCHANGED <<written, rejected, contributions, published>>

-----------------------------------------------------------------------------
(* Reading *)

Supported(report) == report.version \in {"0.1", Current}

(* ensure_current and from_json: a free-text note becomes the legacy_note   *)
(* of an empty entry, and legacy_note is a field that from_json never reads. *)
Migrated(report) == [report EXCEPT !.version = Current, !.note = FALSE]

(* Mutant: a signature is taken for good once its key is known. *)
VerifiedByKey(report, sig, policy) ==
  IF sig = None THEN policy = "AcceptUnsigned" ELSE sig.key \in Keys

(* verify_report: the signature must cover the report as it was parsed.     *)
Verified(report, sig, policy) ==
  IF sig = None THEN policy = "AcceptUnsigned"
  ELSE sig.key \in Keys /\ sig.covers = report

(* read_outcome_file: version, migration, parsing, signature. *)
Readable(file, policy) ==
  Supported(file.report) /\ Verified(Migrated(file.report), file.sig, policy)

Reject(i) ==
  /\ \E policy \in Policies : ~Readable(stored[i], policy)
  /\ rejected' = rejected \cup {i}
  /\ UNCHANGED <<written, stored, contributions, published>>

-----------------------------------------------------------------------------
(* Ingestion and publication *)

PermitsPublicAggregation(report) == report.consent = "AggregatedContribution"

Contributed(c) ==
  /\ Len(contributions) < MaxIngests
  /\ contributions' = Append(contributions, c)
  /\ UNCHANGED <<written, stored, rejected, published>>

ContributionOf(i, policy) ==
  [manifest |-> i, fab |-> stored[i].fab, signed |-> stored[i].sig # None, policy |-> policy,
   report |-> Migrated(stored[i].report)]

(* Mutant: private reports go into the one store there is. *)
IngestUnlessUnshared(i, policy) ==
  /\ Readable(stored[i], policy)
  /\ stored[i].report.consent # "NoSharing"
  /\ Contributed(ContributionOf(i, policy))

(* ingest_public_contribution and ingest_any: push, if the scope permits it. *)
Ingest(i, policy) ==
  /\ Readable(stored[i], policy)
  /\ PermitsPublicAggregation(stored[i].report)
  /\ Contributed(ContributionOf(i, policy))

(* ingest_shuttle_result: no file, no signature, a basic check. *)
IngestShuttle(project, report) ==
  /\ report.version = Current /\ ~report.note
  /\ report.good <= Started
  /\ PermitsPublicAggregation(report)
  /\ Contributed([manifest |-> project, fab |-> project, signed |-> FALSE, policy |-> None,
                  report |-> report])

(* Mutant: the cohort counts contributions. *)
CohortOfReports == Len(contributions)

(* cohort_size: distinct contributors, of whatever consent. *)
CohortSize == Cardinality({contributions[k].fab : k \in DOMAIN contributions})

(* The contributors whose reports the statistics are computed from. *)
Eligible ==
  {contributions[k].fab :
     k \in {k \in DOMAIN contributions : PermitsPublicAggregation(contributions[k].report)}}

(* publish: noise is added below MinCohort, nothing is published of nobody. *)
Publish ==
  /\ CohortSize > 0
  /\ published' = published \cup
       {[n |-> CohortSize, fabs |-> Eligible, dp |-> CohortSize < MinCohort]}
  /\ UNCHANGED <<written, stored, rejected, contributions>>

ExchangeNext ==
  \/ \E fab \in Fabs, report \in Payload :
       \/ \E signs \in BOOLEAN : WriteOutcomeFile(fab, report, signs)
       \/ IngestShuttle(fab, report)
  \/ \E i \in DOMAIN stored :
       Damage(i) \/ Reject(i) \/ \E policy \in Policies : Ingest(i, policy)
  \/ Publish

ExchangeSpec == ExchangeInit /\ [][ExchangeNext]_exchangeVars

-----------------------------------------------------------------------------
(* Properties *)

(* Whatever happened to the file on the way, a contribution that has a      *)
(* signature, or that a reader demanding signatures let through, says what  *)
(* its fab wrote (signature.rs:3-6).  A reader that accepts unsigned files  *)
(* accepts whatever is left of a file that lost its signature.              *)
SignedMeansUnaltered ==
  \A k \in DOMAIN contributions :
    LET c == contributions[k] IN
    c.signed \/ c.policy = "RequireSignature"
      => /\ c.manifest \in DOMAIN written
         /\ c.report = written[c.manifest].report
         /\ c.fab = written[c.manifest].fab

(* A publication counts the contributors its statistics are computed from,  *)
(* though cohort_size ignores consent and the statistics do not, and an     *)
(* unprotected one has MinCohort of them, however often each contributed.   *)
PlainNeedsCohort ==
  \A p \in published :
    /\ p.n = Cardinality(p.fabs)
    /\ ~p.dp => Cardinality(p.fabs) >= MinCohort

(* Only who consented is in the engine, and only enough of them together    *)
(* are published without noise.                                             *)
CohortsAreOfConsenting == ExchangeTypeOK /\ PlainNeedsCohort

(* A report in the previous schema version, signed by a fab whose key is    *)
(* known and not altered since, is migrated and not refused.                *)
OlderReportsAreMigrated ==
  \A i \in rejected :
    ~(/\ written[i].report.version = "0.1"
      /\ written[i].sig # None /\ written[i].fab \in Keys
      /\ stored[i] = written[i])

-----------------------------------------------------------------------------
(* The inductive invariant of the theorems: a signature covers, as long as  *)
(* it covers anything, what the fab wrote, and a contribution is of a file  *)
(* or of a shuttle project.                                                 *)
SignaturesAreOfReports ==
  \A i \in DOMAIN written :
    /\ stored[i].fab = written[i].fab
    /\ stored[i].sig # None => stored[i].sig.covers \in {None, written[i].report}

ContributionsHaveSources ==
  \A k \in DOMAIN contributions : contributions[k].manifest \in (1 .. Len(written)) \cup Fabs

ExchangeInv ==
  /\ ExchangeTypeOK /\ SignaturesAreOfReports /\ ContributionsHaveSources
  /\ SignedMeansUnaltered /\ PlainNeedsCohort

=============================================================================
