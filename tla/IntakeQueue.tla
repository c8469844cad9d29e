---------------------------- MODULE IntakeQueue ----------------------------
(***************************************************************************)
(* The intake queue (tpt-fab-intake): one invocation sorts the report      *)
(* files of the incoming directory into accepted/, flagged/ and rejected/  *)
(* and keeps a ledger of decisions and of screening history.               *)
(*                                                                         *)
(* One action per file-system operation, because the process may stop      *)
(* between any two of them, crashed or out on the `?` of a failed one.     *)
(* The directories and the ledger file survive; everything else is memory. *)
(***************************************************************************)
EXTENDS Integers, Sequences, SequencesExt, FiniteSets

CONSTANTS
  Names,         \* file names, numbered in the order of their sorting
  Reports,       \* delivered files by their content
  KindOf,        \* what process_file finds in each: see Kinds
  NonFinite,     \* the reports with a metric that is infinite or NaN
  MinHistory,    \* observations needed before anything can be flagged
  MaxCrashes,    \* bound on interrupted invocations
  NoFile         \* no content under that name

Kinds == {"unreadable", "invalid", "noSharing", "usable"}

ASSUME IntakeAssumption ==
  /\ Names \subseteq Nat
  /\ KindOf \in [Reports -> Kinds]
  /\ NonFinite \subseteq Reports
  /\ MinHistory \in Nat /\ MaxCrashes \in Nat
  /\ NoFile \notin Reports

VARIABLES
  (* on disk *)
  incoming,    \* the content of each name in the incoming directory
  filed,       \* the files in the disposition directories
  ledgerFile,  \* the ledger at ledger_path
  tmpFile,     \* the ledger in its .tmp sibling
  (* in memory *)
  pc,          \* where the invocation is
  todo,        \* names of process_directory still to be processed
  ledger,      \* the loaded ledger
  screened,    \* AnomalyDetector: the reports whose metrics it observed
  current,     \* the decision being carried out
  (* of the environment *)
  delivered,   \* the reports delivered so far
  crashes,     \* interrupted invocations so far
  cut          \* how many of them fell into the copying of a file

diskVars   == <<incoming, filed, ledgerFile, tmpFile>>
memoryVars == <<pc, todo, ledger, screened, current>>
historyVars == <<delivered, crashes, cut>>
intakeVars == <<diskVars, memoryVars, historyVars>>

Disposition == {"accepted", "flagged", "rejected"}

Decision == [file : Names, disposition : Disposition, report : Reports]
NoDecision == [file |-> 0, disposition |-> "rejected", report |-> NoFile]

EmptyLedger == [decisions |-> <<>>, history |-> <<>>]
Ledger == [decisions : Seq(Decision), history : Seq(Reports)]

(* dup = 0 is the name as delivered, dup = n the suffix -dupN; NoFile is the *)
(* content of a copy that was cut short.                                     *)
FiledFile == [dir : Disposition, name : Names, dup : Nat, report : Reports \cup {NoFile}]

Stage == {"stopped", "crashed", "refused", "next", "decided", "copied", "moved", "written"}

IntakeTypeOK ==
  /\ incoming \in [Names -> Reports \cup {NoFile}]
  /\ filed \subseteq FiledFile
  /\ ledgerFile \in Ledger /\ tmpFile \in Ledger
  /\ pc \in Stage
  /\ todo \subseteq Names
  /\ ledger \in Ledger
  /\ screened \in Seq(Reports)
  /\ current \in Decision \cup {NoDecision}
  /\ delivered \subseteq Reports
  /\ crashes \in 0 .. MaxCrashes /\ cut \in 0 .. crashes

IntakeInit ==
  /\ incoming = [n \in Names |-> NoFile]
  /\ filed = {}
  /\ ledgerFile = EmptyLedger /\ tmpFile = EmptyLedger
  /\ pc = "stopped"
  /\ todo = {}
  /\ ledger = EmptyLedger
  /\ screened = <<>>
  /\ current = NoDecision
  /\ delivered = {}
  /\ crashes = 0 /\ cut = 0

Stopped == pc \in {"stopped", "crashed", "refused"}

(* Somebody puts a report into the incoming directory, at any time, under a  *)
(* name that is free there.                                                  *)
Deliver(n, r) ==
  /\ incoming[n] = NoFile /\ r \notin delivered
  /\ incoming' = [incoming EXCEPT ![n] = r]
  /\ delivered' = delivered \cup {r}
  /\ UNCHANGED <<filed, ledgerFile, tmpFile, memoryVars, crashes, cut>>

(* save prints an infinite or undefined metric as a word, and parse refuses  *)
(* the file that has one; it reads back any other as it was written.         *)
Parses(l) == \A i \in 1 .. Len(l.history) : l.history[i] \notin NonFinite

(* Mutant: a fresh ledger beside the detector seeded from the old one. *)
InvokeFresh ==
  /\ Stopped /\ Parses(ledgerFile)
  /\ ledger' = EmptyLedger
  /\ screened' = ledgerFile.history
  /\ todo' = {n \in Names : incoming[n] # NoFile}
  /\ current' = NoDecision
  /\ pc' = "next"
  /\ UNCHANGED <<diskVars, historyVars>>

(* main: load the ledger, seed the detector with its history, list the      *)
(* directory.  A missing ledger file is an empty ledger.                    *)
Invoke ==
  /\ Stopped /\ Parses(ledgerFile)
  /\ ledger' = ledgerFile
  /\ screened' = ledgerFile.history
  /\ todo' = {n \in Names : incoming[n] # NoFile}
  /\ current' = NoDecision
  /\ pc' = "next"
  /\ UNCHANGED <<diskVars, historyVars>>

(* main: a ledger that load does not parse ends the process before it looks  *)
(* at a file.                                                               *)
Refuse ==
  /\ Stopped /\ ~Parses(ledgerFile)
  /\ pc' = "refused"
  /\ UNCHANGED <<diskVars, todo, ledger, screened, current, historyVars>>

(* Mutant: the consent check is dropped. *)
DispositionsNoConsent(r) ==
  IF KindOf[r] \in {"unreadable", "invalid"} THEN {"rejected"}
  ELSE IF Len(screened) < MinHistory THEN {"accepted"}
  ELSE {"accepted", "flagged"}

(* process_file: reader, basics, consent, screening, in this order; only a   *)
(* report that is screened is observed by the detector.                      *)
Dispositions(r) ==
  IF KindOf[r] # "usable" THEN {"rejected"}
  ELSE IF Len(screened) < MinHistory THEN {"accepted"}
  ELSE {"accepted", "flagged"}

ProcessFile ==
  /\ pc = "next" /\ todo # {}
  /\ \E n \in todo :
       /\ \A k \in todo : n <= k
       /\ \E d \in Dispositions(incoming[n]) :
            current' = [file |-> n, disposition |-> d, report |-> incoming[n]]
       /\ screened' = IF KindOf[incoming[n]] = "usable"
                      THEN Append(screened, incoming[n]) ELSE screened
       /\ todo' = todo \ {n}
  /\ pc' = "decided"
  /\ UNCHANGED <<diskVars, ledger, historyVars>>

(* Mutant: the target is not checked. *)
CollisionIgnored(dir, name) == 0

(* collision_safe: the first suffix that is free in the directory. *)
Taken(dir, name) == {f.dup : f \in {g \in filed : g.dir = dir /\ g.name = name}}

CollisionSafe(dir, name) ==
  CHOOSE k \in 0 .. Cardinality(filed) :
    k \notin Taken(dir, name) /\ \A i \in 0 .. k - 1 : i \in Taken(dir, name)

(* The directories with `content` put in place for `current`, over whatever  *)
(* has that name.                                                            *)
Placed(content) ==
  LET k == CollisionSafe(current.disposition, current.file) IN
  {f \in filed : f.dir # current.disposition \/ f.name # current.file \/ f.dup # k}
    \cup {[dir |-> current.disposition, name |-> current.file, dup |-> k,
           report |-> content]}

(* Mutant: the source of a copy stays. *)
RenameKeeps ==
  /\ pc = "decided"
  /\ filed' = Placed(incoming[current.file])
  /\ pc' = "moved"
  /\ UNCHANGED <<incoming, ledgerFile, tmpFile, todo, ledger, screened, current,
                 historyVars>>

(* move_file: rename, or copy then remove when the rename fails, which it   *)
(* does if the target directory is on another device.                       *)
Rename ==
  /\ pc = "decided"
  /\ filed' = Placed(incoming[current.file])
  /\ incoming' = [incoming EXCEPT ![current.file] = NoFile]
  /\ pc' = "moved"
  /\ UNCHANGED <<ledgerFile, tmpFile, todo, ledger, screened, current, historyVars>>

Copy ==
  /\ pc = "decided"
  /\ filed' = Placed(incoming[current.file])
  /\ pc' = "copied"
  /\ UNCHANGED <<incoming, ledgerFile, tmpFile, todo, ledger, screened, current,
                 historyVars>>

RemoveSource ==
  /\ pc = "copied"
  /\ incoming' = [incoming EXCEPT ![current.file] = NoFile]
  /\ pc' = "moved"
  /\ UNCHANGED <<filed, ledgerFile, tmpFile, todo, ledger, screened, current,
                 historyVars>>

(* Mutant: the metrics are read again from the file that was moved. *)
RecordedFromMoved ==
  [decisions |-> Append(ledger.decisions, current),
   history   |-> Append(ledger.history, incoming[current.file])]

(* ledger.record and observe_metrics: every report that parsed is added to   *)
(* the persisted history, screened or not.                                   *)
Recorded ==
  [decisions |-> Append(ledger.decisions, current),
   history   |-> IF KindOf[current.report] = "unreadable" THEN ledger.history
                 ELSE Append(ledger.history, current.report)]

(* Mutant: the decision may be saved before its file is moved. *)
SaveTmpEarly ==
  /\ pc \in {"decided", "moved"}
  /\ ledger' = Recorded
  /\ tmpFile' = Recorded
  /\ pc' = "written"
  /\ UNCHANGED <<incoming, filed, ledgerFile, todo, screened, current, historyVars>>

(* Mutant: the .tmp sibling is never renamed. *)
SaveForgotten ==
  /\ pc = "written"
  /\ current' = NoDecision
  /\ pc' = "next"
  /\ UNCHANGED <<incoming, filed, ledgerFile, tmpFile, todo, ledger, screened, historyVars>>

(* ledger.save: write the .tmp sibling, then rename it over the ledger. *)
SaveTmp ==
  /\ pc = "moved"
  /\ ledger' = Recorded
  /\ tmpFile' = Recorded
  /\ pc' = "written"
  /\ UNCHANGED <<incoming, filed, ledgerFile, todo, screened, current, historyVars>>

SaveRename ==
  /\ pc = "written"
  /\ ledgerFile' = tmpFile
  /\ current' = NoDecision
  /\ pc' = "next"
  /\ UNCHANGED <<incoming, filed, tmpFile, todo, ledger, screened, historyVars>>

Return ==
  /\ pc = "next" /\ todo = {}
  /\ pc' = "stopped"
  /\ ledger' = EmptyLedger /\ screened' = <<>>
  /\ UNCHANGED <<diskVars, todo, current, historyVars>>

(* The process ends before its next file-system operation. *)
Interrupted ==
  /\ ~Stopped /\ crashes < MaxCrashes
  /\ crashes' = crashes + 1
  /\ pc' = "crashed"
  /\ todo' = {} /\ current' = NoDecision
  /\ ledger' = EmptyLedger /\ screened' = <<>>
  /\ UNCHANGED <<incoming, ledgerFile, tmpFile, delivered>>

Crash ==
  /\ Interrupted
  /\ cut' = IF pc = "copied" THEN cut + 1 ELSE cut
  /\ UNCHANGED filed

(* It ends while copying, and leaves part of the copy behind. *)
CrashCopying ==
  /\ pc = "decided"
  /\ Interrupted
  /\ cut' = cut + 1
  /\ filed' = Placed(NoFile)

RunStep == ProcessFile \/ Rename \/ Copy \/ RemoveSource \/ SaveTmp \/ SaveRename \/ Return

IntakeNext ==
  \/ RunStep \/ Invoke \/ Refuse \/ Crash \/ CrashCopying
  \/ \E n \in Names, r \in Reports : Deliver(n, r)

(* An invocation that is not interrupted goes on. *)
IntakeSpec == IntakeInit /\ [][IntakeNext]_intakeVars /\ WF_intakeVars(RunStep)

-----------------------------------------------------------------------------
(* Properties *)

InInbox(r) == \E n \in Names : incoming[n] = r
Filings(r) == {f \in filed : f.report = r}

(* Whenever the invocation stops, on purpose or not, a delivered report is   *)
(* still in the incoming directory or in a disposition directory: files      *)
(* move, nothing is deleted or overwritten.                                  *)
NothingLost == \A r \in delivered : InInbox(r) \/ Filings(r) # {}

(* A report is in one place only, however often the queue is interrupted    *)
(* and run again; only an interruption in the middle of a copy leaves one   *)
(* more.                                                                    *)
FiledOnce ==
  \A r \in delivered :
    Cardinality(Filings(r)) + (IF InInbox(r) THEN 1 ELSE 0)
      <= 1 + cut + (IF pc = "copied" THEN 1 ELSE 0)

(* Only readable, sane reports whose consent allows it lie in accepted/ and  *)
(* flagged/, but for what a copy left that was cut short.                    *)
OnlyUsableReachReview ==
  /\ \A f \in filed : f.dir # "rejected" /\ f.report # NoFile => KindOf[f.report] = "usable"
  /\ Cardinality(Filings(NoFile)) <= cut

(* However often the queue is interrupted and run again, every report that  *)
(* was delivered is in one place, and in one its kind allows.               *)
ReportsAreSafe == IntakeTypeOK /\ NothingLost /\ FiledOnce /\ OnlyUsableReachReview

(* The ledger on disk is never ahead of the directories: a decision in it    *)
(* was carried out.                                                          *)
DecisionsWereCarriedOut ==
  \A i \in 1 .. Len(ledgerFile.decisions) :
    LET d == ledgerFile.decisions[i] IN
    \E f \in filed : f.dir = d.disposition /\ f.name = d.file /\ f.report = d.report

(* An interruption costs at most one decision record.                        *)
LossIsBounded ==
  Cardinality(filed) - Len(ledgerFile.decisions)
    <= crashes + (IF pc \in {"copied", "moved", "written"} THEN 1 ELSE 0)

(* The ledger is never ahead of the directories and behind them by no more  *)
(* than one record for each interruption.                                   *)
LedgerAgrees == DecisionsWereCarriedOut /\ LossIsBounded

(* A decision on disk is of a report whose metrics are not finite. *)
Spoiled ==
  \E i \in 1 .. Len(ledgerFile.decisions) : ledgerFile.decisions[i].report \in NonFinite

(* Decisions and history on disk are only ever appended to, across restarts, *)
(* and an invocation refuses the ledger of an earlier one only after a       *)
(* report whose metrics are not finite was recorded: an interruption, even   *)
(* in the middle of a save, never spoils it.                                 *)
LedgerOnlyGrows ==
  [][/\ IsPrefix(ledgerFile.decisions, ledgerFile'.decisions)
     /\ IsPrefix(ledgerFile.history, ledgerFile'.history)
     /\ pc' = "refused" => Spoiled']_intakeVars

(* Every report an invocation has listed is filed and recorded before it     *)
(* ends, unless it is interrupted.                                           *)
ListedAreRecorded ==
  \A r \in Reports :
    (pc = "next" /\ \E n \in todo : incoming[n] = r) ~>
      \/ \E i \in 1 .. Len(ledgerFile.decisions) : ledgerFile.decisions[i].report = r
      \/ pc = "crashed"

(* The metrics of a report its owner does not share stay out of the history  *)
(* that later reports are screened against.                                  *)
NoSharingLeavesNoTrace ==
  \A i \in 1 .. Len(ledgerFile.history) : KindOf[ledgerFile.history[i]] # "noSharing"

(* With nothing running, every filed report has its decision in the ledger.  *)
NoBookkeepingLost ==
  Stopped => \A f \in filed :
    \E i \in 1 .. Len(ledgerFile.decisions) :
      /\ ledgerFile.decisions[i].report = f.report
      /\ ledgerFile.decisions[i].disposition = f.dir

-----------------------------------------------------------------------------
(* The inductive invariant behind ReportsAreSafe, LedgerAgrees and           *)
(* LedgerOnlyGrows.                                                          *)

(* The incoming directory holds delivered reports, each under one name, and  *)
(* the others hold nothing that was not delivered.                           *)
FilesAreReports ==
  /\ IsFiniteSet(filed)
  /\ \A n \in Names : incoming[n] \in delivered \cup {NoFile}
  /\ \A n, m \in Names : incoming[n] = incoming[m] /\ incoming[n] # NoFile => n = m
  /\ \A f \in filed : f.report \in delivered \cup {NoFile}

Deciding == {"decided", "copied", "moved", "written"}

WasFiled(d) ==
  \E f \in filed : f.dir = d.disposition /\ f.name = d.file /\ f.report = d.report

(* What the invocation has in hand: names it has still to process have a     *)
(* file; the decision is one the report allows, its file is there until it   *)
(* has been moved, and filed from then on.                                   *)
WorkInHand ==
  /\ \A n \in todo : incoming[n] # NoFile
  /\ pc \in Deciding =>
       /\ current \in Decision /\ current.file \notin todo
       /\ current.disposition # "rejected" => KindOf[current.report] = "usable"
  /\ pc \in {"decided", "copied"} => incoming[current.file] = current.report
  /\ pc \in {"copied", "moved", "written"} => WasFiled(current)

(* The ledger in memory is the one on disk until it is saved, and the saved  *)
(* one goes one decision further.  No step repairs a ledger that is refused. *)
LedgersAgree ==
  /\ pc = "refused" => ~Parses(ledgerFile)
  /\ pc \in {"next", "decided", "copied", "moved"} => ledger = ledgerFile
  /\ pc = "written" =>
       /\ ledger = tmpFile
       /\ tmpFile.decisions = Append(ledgerFile.decisions, current)
       /\ \/ tmpFile.history = ledgerFile.history
          \/ tmpFile.history = Append(ledgerFile.history, current.report)

(* What the history on disk holds was decided on. *)
HistoryIsDecided ==
  \A i \in 1 .. Len(ledgerFile.history) : \E k \in 1 .. Len(ledgerFile.decisions) :
    ledgerFile.decisions[k].report = ledgerFile.history[i]

(* Only the report that is being copied may be in two places. *)
CopiesAreCounted ==
  \A r \in delivered :
    Cardinality(Filings(r)) + (IF InInbox(r) THEN 1 ELSE 0)
      <= 1 + cut + (IF pc = "copied" /\ r = current.report THEN 1 ELSE 0)

QueueInv ==
  /\ IntakeTypeOK
  /\ FilesAreReports
  /\ WorkInHand
  /\ LedgersAgree
  /\ HistoryIsDecided
  /\ CopiesAreCounted
  /\ NothingLost
  /\ OnlyUsableReachReview
  /\ LedgerAgrees

=============================================================================
