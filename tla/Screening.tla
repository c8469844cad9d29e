----------------------------- MODULE Screening -----------------------------
(***************************************************************************)
(* The anti-poisoning screen of tpt-fab-aggregate (anomaly.rs): what each  *)
(* metric of a report is compared with, when the report is flagged, and    *)
(* what becomes history.                                                   *)
(*                                                                         *)
(* A metric is an integer (a measurement in units of its resolution), is   *)
(* Absent (a report without geometry or electrical entries), or is NaN     *)
(* (infinite entries parsed from a file may sum to one).  Halves are kept  *)
(* exact by doubling: Median is twice, MAD four times the code's value.    *)
(***************************************************************************)
EXTENDS Integers, Sequences, FiniteSets, SequencesExt

CONSTANTS
  Reports,      \* the reports that arrive: [Metric -> Value]
  Threshold,    \* AnomalyDetector::z_threshold
  MinHistory,   \* AnomalyDetector::min_history
  Honest,       \* by metric, the least and greatest value of an undisturbed process
  MaxReports,   \* bound on the reports screened
  Absent, NaN

Metric == {"yield", "geometry", "electrical"}

ASSUME ScreeningAssumption ==
  /\ Reports \subseteq [Metric -> Int \cup {Absent, NaN}]
  /\ \A report \in Reports : report["yield"] \in Int
  /\ Threshold \in Nat /\ MinHistory \in Nat \ {0} /\ MaxReports \in Nat
  /\ Honest \in [Metric -> [low : Int, high : Int]]
  /\ \A metric \in Metric : Honest[metric].low <= Honest[metric].high
  /\ {Absent, NaN} \cap Int = {}

VARIABLES
  dist,      \* the distributions, by metric
  verdict    \* ScreenResult: the metrics found out of line, of the last report

screeningVars == <<dist, verdict>>

Abs(x) == IF x < 0 THEN -x ELSE x

(* x among the values of t, behind those that are not greater.              *)
Insert(t, x) ==
  LET m == CHOOSE m \in 0 .. Len(t) : /\ \A i \in 1 .. m : t[i] <= x
                                      /\ \A i \in m + 1 .. Len(t) : x < t[i]
  IN  InsertAt(t, m + 1, x)

(* sort_by(total_cmp). *)
Sorted(s) ==
  LET sorted[k \in 0 .. Len(s)] == IF k = 0 THEN <<>> ELSE Insert(sorted[k - 1], s[k])
  IN  sorted[Len(s)]

(* Mutant: an even number of values has its lower middle as its median. *)
LowerMiddle(sorted) ==
  IF sorted = <<>> THEN 0 ELSE 2 * sorted[(Len(sorted) + 1) \div 2]

(* Distribution::median_of, doubled: the middle value, or both of them. *)
MedianOf(sorted) ==
  LET n == Len(sorted) IN
  IF n = 0 THEN 0 ELSE sorted[(n + 1) \div 2] + sorted[n \div 2 + 1]

(* Mutant: the mean. *)
Mean(s) == IF s = <<>> THEN 0 ELSE (2 * FoldLeft(LAMBDA a, b : a + b, 0, s)) \div Len(s)

Median(s) == MedianOf(Sorted(s))

(* Distribution::mad, four times. *)
MAD(s) ==
  LET median == Median(s)
  IN  MedianOf(Sorted([k \in DOMAIN s |-> Abs(2 * s[k] - median)]))

(* |robust_z(v)| > z_threshold.  A history without spread makes anything    *)
(* but its median infinitely surprising, NaN included; with spread, NaN has *)
(* the score NaN, which exceeds nothing.                                    *)
Surprising(s, v) ==
  IF MAD(s) = 0 THEN v = NaN \/ 2 * v # Median(s)
  ELSE v # NaN /\ Abs(4 * v - 2 * Median(s)) * 10000 > Threshold * 14826 * MAD(s)

(* Mutant: whatever is there becomes history. *)
ObserveAnything(s, v) == IF v = Absent THEN s ELSE Append(s, v)

(* Distribution::observe, of a metric the report has: finite values only. *)
Observe(s, v) == IF v \in {Absent, NaN} THEN s ELSE Append(s, v)

(* The findings of one report. *)
Findings(report) ==
  {metric \in Metric : /\ report[metric] # Absent
                       /\ Len(dist[metric]) >= MinHistory
                       /\ Surprising(dist[metric], report[metric])}

(* AnomalyDetector::screen: judged by the history before it, and part of    *)
(* the history from then on, flagged or not.                                *)
Screen(report) ==
  /\ Len(dist["yield"]) < MaxReports
  /\ verdict' = Findings(report)
  /\ dist' = [metric \in Metric |-> Observe(dist[metric], report[metric])]

(* with_history: a new detector observes what the old one held. *)
WithHistory(history) ==
  LET seeded[k \in 0 .. Len(history)] ==
        IF k = 0 THEN <<>> ELSE Observe(seeded[k - 1], history[k])
  IN  seeded[Len(history)]

Restart ==
  /\ dist' = [metric \in Metric |-> WithHistory(dist[metric])]
  /\ verdict' = {}

ScreeningInit ==
  /\ dist = [metric \in Metric |-> <<>>]
  /\ verdict = {}

ScreeningNext == Restart \/ \E report \in Reports : Screen(report)

ScreeningSpec == ScreeningInit /\ [][ScreeningNext]_screeningVars

-----------------------------------------------------------------------------
(* Properties *)

Arrived(metric) == {report[metric] : report \in Reports} \ {Absent}

(* Types: history is made of finite values, no more than were screened. *)
ScreeningTypeOK ==
  /\ DOMAIN dist = Metric
  /\ \A metric \in Metric : /\ dist[metric] \in Seq(Arrived(metric) \ {NaN})
                            /\ Len(dist[metric]) <= Len(dist["yield"])
  /\ verdict \subseteq Metric

(* The number of values of s for which P holds, and the reference the       *)
(* median is compared with: by counting, without sorting.                   *)
Count(s, P(_)) == Cardinality({k \in DOMAIN s : P(s[k])})
Rank(s, r) == CHOOSE v \in ToSet(s) : /\ Count(s, LAMBDA x : x < v) < r
                                      /\ Count(s, LAMBDA x : x <= v) >= r

(* Median is the half-sum of the values of the two middle ranks, which are  *)
(* one rank if the number of values is odd (anomaly.rs:41-51).              *)
MedianIsMiddle ==
  \A metric \in Metric :
    LET s == dist[metric] IN
    s # <<>> => Median(s) = Rank(s, (Len(s) + 1) \div 2) + Rank(s, Len(s) \div 2 + 1)

(* The history holds numbers only, and its median is its middle.            *)
HistoryHasAMiddle == ScreeningTypeOK /\ MedianIsMiddle

(* While most of the history is honest, a value farther from every honest   *)
(* one than Threshold scaled spreads of them is flagged: outliers, which    *)
(* become history too, cannot drag the screen along until they are half of  *)
(* it ("robust to the outliers it flags", anomaly.rs:12).                   *)
OutliersStayFlagged ==
  \A metric \in Metric :
    LET s == dist[metric]
        usual == Honest[metric].low .. Honest[metric].high
        spread == Honest[metric].high - Honest[metric].low
    IN
    Len(s) >= MinHistory /\ 2 * Count(s, LAMBDA x : x \in usual) > Len(s) =>
      \A v \in Arrived(metric) \ {NaN} :
        (\A h \in usual : Abs(v - h) * 10000 > Threshold * 14826 * spread)
          => Surprising(s, v)
=============================================================================
