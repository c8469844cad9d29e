------------------------- MODULE IntakeQueueProofs -------------------------
(***************************************************************************)
(* Proofs about IntakeQueue: whatever the names and the reports, and       *)
(* wherever an invocation is interrupted, no report is lost or overwritten *)
(* and the ledger agrees with the directories.                             *)
(***************************************************************************)
EXTENDS IntakeQueue, FiniteSetTheorems, SequenceTheorems, WellFoundedInduction, TLAPS

(* The natural numbers in their order. *)
Below == {p \in Nat \X Nat : p[1] < p[2]}

LEMMA NatIsWellFounded == IsWellFoundedOn(Below, Nat)
<1>1. OpToRel(<, Nat) = Below
  BY ZenonT(20) DEF OpToRel, Below
<1> QED
  BY <1>1, NatLessThanWellFounded, Zenon

(* Among 0 .. n one number is free and the ones below are taken, if no more  *)
(* than n are.                                                               *)
LEMMA FirstFree ==
  ASSUME NEW T, NEW n \in Nat, IsFiniteSet(T), Cardinality(T) <= n
  PROVE  \E k \in 0 .. n : k \notin T /\ \A i \in 0 .. k - 1 : i \in T
<1> DEFINE free == {k \in 0 .. n : k \notin T}
<1>1. free # {}
  <2> SUFFICES ASSUME 0 .. n \subseteq T PROVE FALSE
    BY DEF free
  <2>1. IsFiniteSet(0 .. n) /\ Cardinality(0 .. n) = n + 1
    BY FS_Interval
  <2>2. Cardinality(0 .. n) <= Cardinality(T)
    BY FS_Subset
  <2>3. Cardinality(T) \in Nat
    BY FS_CardinalityType
  <2> QED
    BY <2>1, <2>2, <2>3
<1>2. free \subseteq Nat
  OBVIOUS
<1>3. PICK k \in free : \A i \in free : ~ (<<i, k>> \in Below)
  BY <1>1, <1>2, NatIsWellFounded, WFMin
<1>4. \A i \in free : ~ (i < k)
  BY <1>2, <1>3 DEF Below
<1>5. \A i \in 0 .. k - 1 : i \in T
  BY <1>4
<1> QED
  BY <1>3, <1>5

(* No more suffixes are taken in a directory than there are files.           *)
LEMMA TakenIsSmall ==
  ASSUME filed \subseteq FiledFile, IsFiniteSet(filed), NEW dir, NEW name
  PROVE  /\ IsFiniteSet(Taken(dir, name))
         /\ Cardinality(Taken(dir, name)) <= Cardinality(filed)
<1> DEFINE here == {g \in filed : g.dir = dir /\ g.name = name}
           dup == [f \in here |-> f.dup]
<1>1. IsFiniteSet(here) /\ Cardinality(here) <= Cardinality(filed)
  BY FS_Subset
<1>2. dup \in Surjection(here, Taken(dir, name))
  BY DEF Surjection, Taken
<1>3. /\ IsFiniteSet(Taken(dir, name))
      /\ Cardinality(Taken(dir, name)) <= Cardinality(here)
  BY <1>1, <1>2, FS_Surjection
<1>4. /\ Cardinality(Taken(dir, name)) \in Nat /\ Cardinality(here) \in Nat
      /\ Cardinality(filed) \in Nat
  BY <1>1, <1>3, FS_CardinalityType
<1> QED
  BY <1>1, <1>3, <1>4

(* collision_safe finds a name that is free, so placing a file overwrites    *)
(* none.                                                                     *)
LEMMA PlacedAdds ==
  ASSUME filed \subseteq FiledFile, IsFiniteSet(filed), current \in Decision,
         NEW content \in Reports \cup {NoFile}
  PROVE  \E g \in FiledFile \ filed :
           /\ Placed(content) = filed \cup {g}
           /\ g.dir = current.disposition /\ g.name = current.file /\ g.report = content
<1> DEFINE dir == current.disposition
           name == current.file
           k == CollisionSafe(dir, name)
           g == [dir |-> dir, name |-> name, dup |-> k, report |-> content]
<1>1. Cardinality(filed) \in Nat
  BY FS_CardinalityType
<1>2. \E i \in 0 .. Cardinality(filed) :
        i \notin Taken(dir, name) /\ \A m \in 0 .. i - 1 : m \in Taken(dir, name)
  BY <1>1, TakenIsSmall, FirstFree
<1>3. k \in 0 .. Cardinality(filed) /\ k \notin Taken(dir, name)
  BY <1>2 DEF CollisionSafe
<1> HIDE DEF k
<1>4. g \in FiledFile
  BY <1>1, <1>3 DEF FiledFile, Decision
<1>5. \A f \in filed : f.dir # dir \/ f.name # name \/ f.dup # k
  BY <1>3 DEF Taken
<1>6. g \notin filed
  BY <1>5
<1>7. Placed(content) = filed \cup {g}
  <2>1. {f \in filed : f.dir # dir \/ f.name # name \/ f.dup # k} = filed
    BY <1>5
  <2> QED
    BY <2>1 DEF Placed, k
<1> QED
  BY <1>4, <1>6, <1>7

-----------------------------------------------------------------------------
(* What the steps do to the directories.                                    *)

(* One more file, that was not there. *)
Adds(g, content) ==
  /\ g \in FiledFile \ filed /\ filed' = filed \cup {g}
  /\ g.dir = current.disposition /\ g.name = current.file /\ g.report = content

LEMMA FileAdded ==
  ASSUME QueueInv, pc = "decided", NEW content \in Reports \cup {NoFile},
         filed' = Placed(content)
  PROVE  \E g : Adds(g, content)
<1>1. filed \subseteq FiledFile /\ IsFiniteSet(filed) /\ current \in Decision
  BY DEF QueueInv, IntakeTypeOK, FilesAreReports, WorkInHand, Deciding
<1> QED
  BY <1>1, PlacedAdds DEF Adds

(* The report of a decision, and where it is before it is moved. *)
LEMMA DecidedReport ==
  ASSUME QueueInv, pc \in Deciding
  PROVE  /\ current \in Decision /\ current.file \in Names /\ current.report \in Reports
         /\ current.report # NoFile
         /\ pc \in {"decided", "copied"} =>
              /\ incoming[current.file] = current.report /\ current.report \in delivered
              /\ \A n \in Names : incoming[n] = current.report => n = current.file
<1>1. current \in Decision
  BY DEF QueueInv, WorkInHand
<1>2. current.file \in Names /\ current.report \in Reports /\ current.report # NoFile
  BY <1>1, IntakeAssumption DEF Decision
<1> QED
  BY <1>1, <1>2 DEF QueueInv, WorkInHand, FilesAreReports

LEMMA RenameAdds ==
  ASSUME QueueInv, Rename \/ Copy
  PROVE  \E g : Adds(g, current.report)
<1>1. pc = "decided" /\ filed' = Placed(incoming[current.file])
  BY DEF Rename, Copy
<1>2. incoming[current.file] = current.report /\ current.report \in Reports
  BY <1>1, DecidedReport DEF Deciding
<1> QED
  BY <1>1, <1>2, FileAdded

LEMMA CutAdds ==
  ASSUME QueueInv, CrashCopying
  PROVE  \E g : Adds(g, NoFile)
BY FileAdded DEF CrashCopying

(* The steps that leave files alone. *)
Elsewhere ==
  ProcessFile \/ SaveTmp \/ SaveRename \/ Return \/ Invoke \/ Refuse \/ Crash

LEMMA ElsewhereKeepsFiles ==
  ASSUME Elsewhere
  PROVE  UNCHANGED <<incoming, filed, delivered>>
BY DEF Elsewhere, ProcessFile, SaveTmp, SaveRename, Return, Invoke, Refuse, Crash, Interrupted,
   diskVars, historyVars

LEMMA IntakeSteps ==
  ASSUME IntakeNext
  PROVE  \/ Elsewhere \/ Rename \/ Copy \/ RemoveSource \/ CrashCopying
         \/ \E n \in Names, r \in Reports : Deliver(n, r)
BY DEF IntakeNext, RunStep, Elsewhere

(* Nothing is taken out of the directories. *)
LEMMA FiledGrows ==
  ASSUME QueueInv, [IntakeNext]_intakeVars
  PROVE  filed \subseteq filed'
<1>1. CASE Rename \/ Copy
  BY <1>1, RenameAdds DEF Adds
<1>2. CASE CrashCopying
  BY <1>2, CutAdds DEF Adds
<1>3. CASE Elsewhere
  BY <1>3, ElsewhereKeepsFiles
<1>4. CASE RemoveSource \/ (\E n \in Names, r \in Reports : Deliver(n, r))
  BY <1>4 DEF RemoveSource, Deliver
<1>5. CASE UNCHANGED intakeVars
  BY <1>5 DEF intakeVars, diskVars
<1> QED
  BY <1>1, <1>2, <1>3, <1>4, <1>5, IntakeSteps

LEMMA RecordedIsLedger ==
  ASSUME IntakeTypeOK, current \in Decision
  PROVE  Recorded \in Ledger
<1>1. /\ ledger.decisions \in Seq(Decision) /\ ledger.history \in Seq(Reports)
      /\ current.report \in Reports
  BY DEF IntakeTypeOK, Ledger, Decision
<1>2. /\ Append(ledger.decisions, current) \in Seq(Decision)
      /\ Append(ledger.history, current.report) \in Seq(Reports)
  BY <1>1, AppendProperties
<1> QED
  BY <1>1, <1>2 DEF Recorded, Ledger

LEMMA StepTypes ==
  ASSUME QueueInv, [IntakeNext]_intakeVars
  PROVE  IntakeTypeOK'
<1>0. IntakeTypeOK /\ MaxCrashes \in Nat
  BY IntakeAssumption DEF QueueInv
<1>1. EmptyLedger \in Ledger
  <2>1. <<>> \in Seq(Decision) /\ <<>> \in Seq(Reports)
    OBVIOUS
  <2> QED
    BY <2>1 DEF EmptyLedger, Ledger
<1>2. filed' \subseteq FiledFile
  <2>1. CASE Rename \/ Copy
    BY <1>0, <2>1, RenameAdds DEF Adds, IntakeTypeOK
  <2>2. CASE CrashCopying
    BY <1>0, <2>2, CutAdds DEF Adds, IntakeTypeOK
  <2>3. CASE filed' = filed
    BY <1>0, <2>3 DEF IntakeTypeOK
  <2> QED
    BY <2>1, <2>2, <2>3, IntakeSteps, ElsewhereKeepsFiles
    DEF RemoveSource, Deliver, intakeVars, diskVars
<1>3. incoming' \in [Names -> Reports \cup {NoFile}] /\ delivered' \subseteq Reports
  <2>1. CASE UNCHANGED <<incoming, delivered>>
    BY <1>0, <2>1 DEF IntakeTypeOK
  <2>2. CASE Rename \/ RemoveSource
    BY <1>0, <2>2 DEF IntakeTypeOK, Rename, RemoveSource, historyVars
  <2>3. ASSUME NEW n \in Names, NEW r \in Reports, Deliver(n, r)
        PROVE  incoming' \in [Names -> Reports \cup {NoFile}] /\ delivered' \subseteq Reports
    BY <1>0, <2>3 DEF IntakeTypeOK, Deliver
  <2> QED
    BY <2>1, <2>2, <2>3, IntakeSteps, ElsewhereKeepsFiles
    DEF Copy, CrashCopying, Interrupted, intakeVars, diskVars, historyVars
<1>4. crashes' \in 0 .. MaxCrashes /\ cut' \in 0 .. crashes'
  <2>1. CASE UNCHANGED <<crashes, cut>>
    BY <1>0, <2>1 DEF IntakeTypeOK
  <2>2. CASE Crash \/ CrashCopying
    BY <1>0, <2>2 DEF IntakeTypeOK, Crash, CrashCopying, Interrupted
  <2> QED
    BY <2>1, <2>2, IntakeSteps
    DEF Elsewhere, ProcessFile, SaveTmp, SaveRename, Return, Invoke, Refuse, Rename, Copy,
        RemoveSource, Deliver, intakeVars, historyVars
<1>5. ledgerFile' \in Ledger /\ tmpFile' \in Ledger /\ ledger' \in Ledger
  <2>1. CASE SaveTmp
    <3>1. Recorded \in Ledger
      BY <1>0, <2>1, DecidedReport, RecordedIsLedger DEF SaveTmp, Deciding
    <3> QED
      BY <1>0, <2>1, <3>1 DEF IntakeTypeOK, SaveTmp
  <2>2. CASE SaveRename \/ Return \/ Invoke \/ Crash \/ CrashCopying
    BY <1>0, <1>1, <2>2 DEF IntakeTypeOK, SaveRename, Return, Invoke, Crash, CrashCopying,
       Interrupted, diskVars
  <2>3. CASE UNCHANGED <<ledgerFile, tmpFile, ledger>>
    BY <1>0, <2>3 DEF IntakeTypeOK
  <2> QED
    BY <2>1, <2>2, <2>3, IntakeSteps
    DEF Elsewhere, ProcessFile, Refuse, Rename, Copy, RemoveSource, Deliver, intakeVars,
        diskVars, memoryVars
<1>6. pc' \in Stage /\ todo' \subseteq Names
  BY <1>0, IntakeSteps
  DEF IntakeTypeOK, Stage, Elsewhere, ProcessFile, SaveTmp, SaveRename, Return, Invoke, Refuse,
      Crash, CrashCopying, Interrupted, Rename, Copy, RemoveSource, Deliver, intakeVars, memoryVars
<1>7. ASSUME ProcessFile
      PROVE  current' \in Decision /\ screened' \in Seq(Reports)
  <2>0. PICK n \in todo :
          /\ \E d \in Dispositions(incoming[n]) :
               current' = [file |-> n, disposition |-> d, report |-> incoming[n]]
          /\ screened' = IF KindOf[incoming[n]] = "usable"
                         THEN Append(screened, incoming[n]) ELSE screened
    BY <1>7 DEF ProcessFile
  <2>1. PICK d \in Dispositions(incoming[n]) :
          current' = [file |-> n, disposition |-> d, report |-> incoming[n]]
    BY <2>0
  <2>2. n \in Names /\ incoming[n] \in Reports
    BY <1>0, <2>1 DEF QueueInv, WorkInHand, IntakeTypeOK
  <2>3. d \in Disposition
    BY <2>1 DEF Dispositions, Disposition
  <2>4. screened \in Seq(Reports) /\ Append(screened, incoming[n]) \in Seq(Reports)
    BY <1>0, <2>2, AppendProperties DEF IntakeTypeOK
  <2> QED
    BY <2>0, <2>1, <2>2, <2>3, <2>4 DEF Decision
<1>8. current' \in Decision \cup {NoDecision} /\ screened' \in Seq(Reports)
  <2>1. CASE Invoke
    BY <1>0, <2>1 DEF Invoke, IntakeTypeOK, Ledger
  <2>2. CASE SaveRename \/ Return \/ Crash \/ CrashCopying
    <3>1. /\ current' = current \/ current' = NoDecision
          /\ screened' = screened \/ screened' = <<>>
      BY <2>2 DEF SaveRename, Return, Crash, CrashCopying, Interrupted
    <3>2. <<>> \in Seq(Reports)
      OBVIOUS
    <3> QED
      BY <1>0, <3>1, <3>2 DEF IntakeTypeOK
  <2>3. CASE UNCHANGED <<current, screened>>
    BY <1>0, <2>3 DEF IntakeTypeOK
  <2> QED
    <3>1. CASE SaveTmp \/ Refuse \/ Rename \/ Copy \/ RemoveSource \/ UNCHANGED intakeVars
      BY <2>3, <3>1 DEF SaveTmp, Refuse, Rename, Copy, RemoveSource, intakeVars, memoryVars
    <3>2. CASE \E n \in Names, r \in Reports : Deliver(n, r)
      BY <2>3, <3>2 DEF Deliver, memoryVars
    <3>3. CASE ProcessFile
      BY <1>7, <3>3
    <3> QED
      BY <2>1, <2>2, <3>1, <3>2, <3>3, IntakeSteps DEF Elsewhere
<1> QED
  BY <1>2, <1>3, <1>4, <1>5, <1>6, <1>8 DEF IntakeTypeOK


LEMMA StepFiles ==
  ASSUME QueueInv, [IntakeNext]_intakeVars
  PROVE  FilesAreReports'
<1>0. /\ IntakeTypeOK /\ FilesAreReports
  BY DEF QueueInv
<1>1. ASSUME NEW g, NEW content \in {current.report, NoFile}, Adds(g, content),
             pc = "decided", delivered' = delivered
      PROVE  IsFiniteSet(filed') /\ \A f \in filed' : f.report \in delivered' \cup {NoFile}
  <2>1. IsFiniteSet(filed')
    BY <1>0, <1>1, FS_AddElement DEF FilesAreReports, Adds
  <2>2. current.report \in delivered
    BY <1>1, DecidedReport DEF Deciding
  <2> QED
    BY <1>0, <1>1, <2>1, <2>2 DEF FilesAreReports, Adds
<1>2. ASSUME IsFiniteSet(filed') /\ \A f \in filed' : f.report \in delivered' \cup {NoFile},
             delivered' = delivered,
             \A n \in Names : incoming'[n] \in {incoming[n], NoFile}
      PROVE  FilesAreReports'
  BY <1>0, <1>2 DEF FilesAreReports
<1>3. CASE Elsewhere \/ UNCHANGED intakeVars
  <2>1. UNCHANGED <<incoming, filed, delivered>>
    BY <1>3, ElsewhereKeepsFiles DEF intakeVars, diskVars, historyVars
  <2> QED
    BY <1>0, <2>1 DEF FilesAreReports
<1>4. CASE Rename \/ Copy
  <2>1. /\ pc = "decided" /\ delivered' = delivered
        /\ \A n \in Names : incoming'[n] \in {incoming[n], NoFile}
    BY <1>0, <1>4 DEF Rename, Copy, historyVars, IntakeTypeOK
  <2> QED
    BY <1>1, <1>2, <1>4, <2>1, RenameAdds
<1>5. CASE CrashCopying
  <2>1. /\ pc = "decided" /\ delivered' = delivered /\ incoming' = incoming
    BY <1>5 DEF CrashCopying, Interrupted
  <2> QED
    BY <1>1, <1>2, <1>5, <2>1, CutAdds
<1>6. CASE RemoveSource
  <2>1. /\ filed' = filed /\ delivered' = delivered
        /\ \A n \in Names : incoming'[n] \in {incoming[n], NoFile}
    BY <1>0, <1>6 DEF RemoveSource, historyVars, IntakeTypeOK
  <2> QED
    BY <1>0, <1>2, <2>1 DEF FilesAreReports
<1>7. ASSUME NEW n \in Names, NEW r \in Reports, Deliver(n, r)
      PROVE  FilesAreReports'
  <2>1. /\ \A m \in Names : incoming'[m] = IF m = n THEN r ELSE incoming[m]
        /\ delivered' = delivered \cup {r} /\ filed' = filed
        /\ r \notin delivered /\ r # NoFile
    BY <1>0, <1>7, IntakeAssumption DEF Deliver, IntakeTypeOK
  <2> QED
    BY <1>0, <2>1 DEF FilesAreReports
<1> QED
  BY <1>3, <1>4, <1>5, <1>6, <1>7, IntakeSteps

LEMMA StepWork ==
  ASSUME QueueInv, [IntakeNext]_intakeVars
  PROVE  WorkInHand'
<1>0. IntakeTypeOK /\ WorkInHand
  BY DEF QueueInv
<1>1. ASSUME UNCHANGED <<pc, todo, current>>, filed \subseteq filed',
             \A n \in Names : incoming[n] # NoFile => incoming'[n] = incoming[n]
      PROVE  WorkInHand'
  <2>1. WasFiled(current) => WasFiled(current)'
    BY <1>1 DEF WasFiled
  <2>2. pc \in {"decided", "copied"} => incoming'[current.file] = current.report
    BY <1>1, DecidedReport DEF Deciding
  <2>3. \A n \in todo : incoming'[n] # NoFile
    BY <1>0, <1>1 DEF WorkInHand, IntakeTypeOK
  <2> QED
    BY <1>0, <1>1, <2>1, <2>2, <2>3 DEF WorkInHand
<1>2. CASE UNCHANGED intakeVars
  BY <1>1, <1>2 DEF intakeVars, memoryVars, diskVars
<1>3. ASSUME NEW n \in Names, NEW r \in Reports, Deliver(n, r)
      PROVE  WorkInHand'
  BY <1>0, <1>1, <1>3 DEF Deliver, memoryVars, IntakeTypeOK
<1>4. CASE Return \/ Crash \/ CrashCopying
  BY <1>0, <1>4 DEF Return, Crash, CrashCopying, Interrupted, WorkInHand, Deciding
<1>5. CASE Invoke
  BY <1>5 DEF Invoke, WorkInHand, Deciding, diskVars
<1>6. CASE SaveRename
  BY <1>0, <1>6 DEF SaveRename, WorkInHand, Deciding
<1>11. CASE Refuse
  BY <1>0, <1>11 DEF Refuse, WorkInHand, Deciding, diskVars
<1>7. CASE SaveTmp
  <2>1. WasFiled(current)'
    BY <1>0, <1>7 DEF SaveTmp, WorkInHand, WasFiled
  <2> QED
    BY <1>0, <1>7, <2>1 DEF SaveTmp, WorkInHand, Deciding
<1>8. CASE Rename \/ Copy
  <2>1. WasFiled(current)'
    <3>1. PICK g : Adds(g, current.report)
      BY <1>8, RenameAdds
    <3>2. current' = current
      BY <1>8 DEF Rename, Copy
    <3> QED
      BY <3>1, <3>2 DEF Adds, WasFiled
  <2>2. /\ pc = "decided" /\ UNCHANGED <<todo, current>>
        /\ \/ pc' = "moved" /\ incoming' = [incoming EXCEPT ![current.file] = NoFile]
           \/ pc' = "copied" /\ incoming' = incoming
    BY <1>8 DEF Rename, Copy
  <2>3. \A n \in todo : incoming'[n] # NoFile
    BY <1>0, <2>2 DEF WorkInHand, IntakeTypeOK, Deciding
  <2> QED
    BY <1>0, <2>1, <2>2, <2>3 DEF WorkInHand, Deciding
<1>9. CASE RemoveSource
  <2>1. /\ pc = "copied" /\ pc' = "moved" /\ UNCHANGED <<todo, current, filed>>
        /\ incoming' = [incoming EXCEPT ![current.file] = NoFile]
    BY <1>9 DEF RemoveSource
  <2>2. \A n \in todo : incoming'[n] # NoFile
    BY <1>0, <2>1 DEF WorkInHand, IntakeTypeOK, Deciding
  <2>3. WasFiled(current)'
    BY <1>0, <2>1 DEF WorkInHand, WasFiled
  <2> QED
    BY <1>0, <2>1, <2>2, <2>3 DEF WorkInHand, Deciding
<1>10. CASE ProcessFile
  <2>1. PICK n \in todo :
          /\ \E d \in Dispositions(incoming[n]) :
               current' = [file |-> n, disposition |-> d, report |-> incoming[n]]
          /\ todo' = todo \ {n}
    BY <1>10 DEF ProcessFile
  <2>2. PICK d \in Dispositions(incoming[n]) :
          current' = [file |-> n, disposition |-> d, report |-> incoming[n]]
    BY <2>1
  <2>3. /\ n \in Names /\ incoming[n] \in Reports /\ pc' = "decided" /\ incoming' = incoming
    BY <1>0, <1>10, <2>1 DEF WorkInHand, IntakeTypeOK, ProcessFile, diskVars
  <2>4. d \in Disposition /\ (d # "rejected" => KindOf[incoming[n]] = "usable")
    BY <2>2 DEF Dispositions, Disposition
  <2>5. current' \in Decision
    BY <2>2, <2>3, <2>4 DEF Decision
  <2>6. /\ current'.file = n /\ current'.disposition = d /\ current'.report = incoming[n]
    BY <2>2
  <2> QED
    <3>1. \A m \in todo' : incoming'[m] # NoFile
      BY <1>0, <2>1, <2>3 DEF WorkInHand
    <3>2. current'.file \notin todo'
      BY <2>1, <2>6
    <3>3. incoming'[current'.file] = current'.report
      BY <2>3, <2>6
    <3>4. current'.disposition # "rejected" => KindOf[current'.report] = "usable"
      BY <2>4, <2>6
    <3> QED
      BY <2>3, <2>5, <3>1, <3>2, <3>3, <3>4 DEF WorkInHand
<1> QED
  BY <1>2, <1>3, <1>4, <1>5, <1>6, <1>7, <1>8, <1>9, <1>10, <1>11, IntakeSteps
  DEF Elsewhere

LEMMA StepLedgers ==
  ASSUME QueueInv, [IntakeNext]_intakeVars
  PROVE  LedgersAgree'
<1>0. LedgersAgree
  BY DEF QueueInv
<1>1. CASE Invoke
  BY <1>1 DEF Invoke, LedgersAgree, diskVars
<1>2. CASE SaveTmp
  <2>1. /\ ledger = ledgerFile /\ tmpFile' = ledger' /\ ledger' = Recorded
        /\ pc' = "written" /\ UNCHANGED <<ledgerFile, current>>
    BY <1>0, <1>2 DEF SaveTmp, LedgersAgree
  <2>2. /\ Recorded.decisions = Append(ledger.decisions, current)
        /\ \/ Recorded.history = ledger.history
           \/ Recorded.history = Append(ledger.history, current.report)
    BY DEF Recorded
  <2> QED
    BY <2>1, <2>2 DEF LedgersAgree
<1>3. CASE SaveRename
  BY <1>0, <1>3 DEF SaveRename, LedgersAgree
<1>4. CASE Return \/ Refuse \/ Crash \/ CrashCopying
  BY <1>4 DEF Return, Refuse, Crash, CrashCopying, Interrupted, LedgersAgree, Parses, diskVars
<1>5. CASE ProcessFile \/ Rename \/ Copy \/ RemoveSource
  BY <1>0, <1>5 DEF ProcessFile, Rename, Copy, RemoveSource, LedgersAgree, diskVars
<1>6. CASE (\E n \in Names, r \in Reports : Deliver(n, r)) \/ UNCHANGED intakeVars
  <2>1. UNCHANGED <<ledgerFile, tmpFile, pc, ledger, current>>
    BY <1>6 DEF Deliver, intakeVars, memoryVars, diskVars
  <2> QED
    BY <1>0, <2>1 DEF LedgersAgree, Parses
<1> QED
  BY <1>1, <1>2, <1>3, <1>4, <1>5, <1>6, IntakeSteps DEF Elsewhere


-----------------------------------------------------------------------------
(* Counting files.                                                          *)

LEMMA FilingsAreFinite ==
  ASSUME QueueInv, NEW r
  PROVE  IsFiniteSet(Filings(r)) /\ Cardinality(Filings(r)) \in Nat
<1>1. IsFiniteSet(Filings(r))
  BY FS_Subset DEF QueueInv, FilesAreReports, Filings
<1> QED
  BY <1>1, FS_CardinalityType

(* A new file is one more filing of its report and of no other. *)
LEMMA OneMoreFiling ==
  ASSUME QueueInv, NEW g, NEW content, Adds(g, content), NEW r
  PROVE  /\ Cardinality(Filings(r)') = Cardinality(Filings(r)) + (IF r = content THEN 1 ELSE 0)
         /\ Filings(r) \subseteq Filings(r)'
         /\ r = content => g \in Filings(r)'
<1>0. IsFiniteSet(Filings(r)) /\ Cardinality(Filings(r)) \in Nat
  BY FilingsAreFinite
<1>1. CASE r = content
  <2>1. Filings(r)' = Filings(r) \cup {g} /\ g \notin Filings(r)
    BY <1>1 DEF Filings, Adds
  <2> QED
    BY <1>0, <1>1, <2>1, FS_AddElement
<1>2. CASE r # content
  <2>1. Filings(r)' = Filings(r)
    BY <1>2 DEF Filings, Adds
  <2> QED
    BY <1>0, <1>2, <2>1
<1> QED
  BY <1>1, <1>2

(* How many places report r is in, and how many it may be in. *)
Places(r) == Cardinality(Filings(r)) + (IF InInbox(r) THEN 1 ELSE 0)
MayBeIn(r) == 1 + cut + (IF pc = "copied" /\ r = current.report THEN 1 ELSE 0)

LEMMA StepCopies ==
  ASSUME QueueInv, [IntakeNext]_intakeVars
  PROVE  CopiesAreCounted'
<1> SUFFICES ASSUME NEW r \in delivered'
             PROVE  Places(r)' <= MayBeIn(r)'
  BY DEF CopiesAreCounted, Places, MayBeIn
<1>0. /\ IntakeTypeOK /\ FilesAreReports /\ cut \in Nat
      /\ Cardinality(Filings(r)) \in Nat
      /\ r \in delivered => Places(r) <= MayBeIn(r)
  BY FilingsAreFinite
  DEF QueueInv, IntakeTypeOK, CopiesAreCounted, Places, MayBeIn
<1>1. ASSUME r \in delivered, filed' = filed, InInbox(r)' => InInbox(r), cut' = cut,
             pc = "copied" => pc' = "copied" /\ current' = current
      PROVE  Places(r)' <= MayBeIn(r)'
  <2>1. Filings(r)' = Filings(r)
    BY <1>1 DEF Filings
  <2> QED
    BY <1>0, <1>1, <2>1 DEF Places, MayBeIn
<1>2. CASE Elsewhere /\ ~Crash
  <2>1. /\ UNCHANGED <<incoming, filed, delivered>>
    BY <1>2, ElsewhereKeepsFiles
  <2>2. cut' = cut /\ pc # "copied"
    BY <1>2 DEF Elsewhere, ProcessFile, SaveTmp, SaveRename, Return, Invoke, Refuse, Stopped,
       historyVars
  <2> QED
    BY <1>1, <2>1, <2>2 DEF InInbox
<1>3. CASE Crash
  <2>1. /\ UNCHANGED <<incoming, filed, delivered>> /\ pc' = "crashed"
        /\ cut' = IF pc = "copied" THEN cut + 1 ELSE cut
    BY <1>3 DEF Crash, Interrupted
  <2>2. Places(r)' = Places(r)
    BY <2>1 DEF Places, Filings, InInbox
  <2> QED
    BY <1>0, <2>1, <2>2 DEF Places, MayBeIn
<1>4. CASE UNCHANGED intakeVars
  BY <1>1, <1>4 DEF InInbox, intakeVars, diskVars, memoryVars, historyVars
<1>5. CASE Rename
  <2>1. /\ pc = "decided" /\ pc' = "moved" /\ cut' = cut /\ delivered' = delivered
        /\ incoming' = [incoming EXCEPT ![current.file] = NoFile]
    BY <1>5 DEF Rename, historyVars
  <2>2. PICK g : Adds(g, current.report)
    BY <1>5, RenameAdds
  <2>3. Cardinality(Filings(r)') = Cardinality(Filings(r)) + (IF r = current.report THEN 1 ELSE 0)
    BY <2>2, OneMoreFiling
  <2>4. CASE r = current.report
    <3>1. InInbox(r) /\ ~InInbox(r)'
      BY <1>0, <2>1, <2>4, DecidedReport DEF InInbox, Deciding, IntakeTypeOK
    <3> QED
      BY <1>0, <2>1, <2>3, <2>4, <3>1 DEF Places, MayBeIn
  <2>5. CASE r # current.report
    <3>1. InInbox(r)' => InInbox(r)
      <4>1. r # NoFile
        BY <1>0, <2>1, IntakeAssumption DEF IntakeTypeOK
      <4> QED
        BY <1>0, <2>1, <4>1 DEF InInbox, IntakeTypeOK
    <3> QED
      BY <1>0, <2>1, <2>3, <2>5, <3>1 DEF Places, MayBeIn
  <2> QED
    BY <2>4, <2>5
<1>6. CASE Copy
  <2>1. /\ pc = "decided" /\ pc' = "copied" /\ cut' = cut /\ delivered' = delivered
        /\ incoming' = incoming /\ current' = current
    BY <1>6 DEF Copy, historyVars
  <2>2. PICK g : Adds(g, current.report)
    BY <1>6, RenameAdds
  <2>3. Cardinality(Filings(r)') = Cardinality(Filings(r)) + (IF r = current.report THEN 1 ELSE 0)
    BY <2>2, OneMoreFiling
  <2>4. InInbox(r)' = InInbox(r)
    BY <2>1 DEF InInbox
  <2> QED
    BY <1>0, <2>1, <2>3, <2>4 DEF Places, MayBeIn
<1>7. CASE RemoveSource
  <2>1. /\ pc = "copied" /\ pc' = "moved" /\ cut' = cut /\ delivered' = delivered
        /\ filed' = filed /\ incoming' = [incoming EXCEPT ![current.file] = NoFile]
    BY <1>7 DEF RemoveSource, historyVars
  <2>2. Filings(r)' = Filings(r)
    BY <2>1 DEF Filings
  <2>3. CASE r = current.report
    <3>1. InInbox(r) /\ ~InInbox(r)'
      BY <1>0, <2>1, <2>3, DecidedReport DEF InInbox, Deciding, IntakeTypeOK
    <3> QED
      BY <1>0, <2>1, <2>2, <2>3, <3>1 DEF Places, MayBeIn
  <2>4. CASE r # current.report
    <3>1. InInbox(r)' => InInbox(r)
      <4>1. r # NoFile
        BY <1>0, <2>1, IntakeAssumption DEF IntakeTypeOK
      <4> QED
        BY <1>0, <2>1, <4>1 DEF InInbox, IntakeTypeOK
    <3> QED
      BY <1>0, <2>1, <2>2, <2>4, <3>1 DEF Places, MayBeIn
  <2> QED
    BY <2>3, <2>4
<1>8. CASE CrashCopying
  <2>1. /\ pc = "decided" /\ pc' = "crashed" /\ cut' = cut + 1
        /\ UNCHANGED <<incoming, delivered>>
    BY <1>8 DEF CrashCopying, Interrupted
  <2>2. PICK g : Adds(g, NoFile)
    BY <1>8, CutAdds
  <2>3. r # NoFile
    BY <1>0, <2>1, IntakeAssumption DEF IntakeTypeOK
  <2>4. Cardinality(Filings(r)') = Cardinality(Filings(r))
    BY <1>0, <2>2, <2>3, OneMoreFiling
  <2>5. InInbox(r)' = InInbox(r)
    BY <2>1 DEF InInbox
  <2> QED
    BY <1>0, <2>1, <2>4, <2>5 DEF Places, MayBeIn
<1>9. ASSUME NEW n \in Names, NEW q \in Reports, Deliver(n, q)
      PROVE  Places(r)' <= MayBeIn(r)'
  <2>1. /\ incoming[n] = NoFile /\ incoming' = [incoming EXCEPT ![n] = q]
        /\ q \notin delivered /\ delivered' = delivered \cup {q}
        /\ UNCHANGED <<filed, pc, current, cut>>
    BY <1>9 DEF Deliver, memoryVars
  <2>2. CASE r = q
    <3>1. Filings(r) = {}
      BY <1>0, <2>1, <2>2, IntakeAssumption DEF Filings, FilesAreReports
    <3>2. Cardinality(Filings(r)') = 0
      BY <2>1, <3>1, FS_EmptySet DEF Filings
    <3> QED
      BY <1>0, <2>1, <3>2 DEF Places, MayBeIn
  <2>3. CASE r # q
    <3>1. InInbox(r)' => InInbox(r)
      BY <1>0, <2>1, <2>3 DEF InInbox, IntakeTypeOK
    <3>2. r \in delivered
      BY <2>1, <2>3
    <3> QED
      BY <1>1, <2>1, <3>1, <3>2
  <2> QED
    BY <2>2, <2>3
<1> QED
  BY <1>2, <1>3, <1>4, <1>5, <1>6, <1>7, <1>8, <1>9, IntakeSteps


LEMMA StepNothingLost ==
  ASSUME QueueInv, [IntakeNext]_intakeVars
  PROVE  NothingLost'
<1>0. /\ IntakeTypeOK /\ filed \subseteq filed'
      /\ \A r \in delivered : InInbox(r) \/ Filings(r) # {}
  BY FiledGrows DEF QueueInv, NothingLost
<1> SUFFICES ASSUME NEW r \in delivered' PROVE InInbox(r)' \/ Filings(r)' # {}
  BY DEF NothingLost
<1>1. ASSUME r \in delivered, InInbox(r) => InInbox(r)' \/ Filings(r)' # {}
      PROVE  InInbox(r)' \/ Filings(r)' # {}
  BY <1>0, <1>1 DEF Filings
<1>2. CASE UNCHANGED <<incoming, delivered>>
  BY <1>1, <1>2 DEF InInbox
<1>3. CASE Rename \/ RemoveSource
  <2>1. /\ pc \in {"decided", "copied"} /\ delivered' = delivered
        /\ incoming' = [incoming EXCEPT ![current.file] = NoFile]
    BY <1>3 DEF Rename, RemoveSource, historyVars
  <2>2. r # NoFile
    BY <1>0, <2>1, IntakeAssumption DEF IntakeTypeOK
  <2>3. CASE r = current.report
    <3>1. Filings(r)' # {}
      <4>1. CASE Rename
        BY <2>3, <4>1, RenameAdds DEF Adds, Filings
      <4>2. CASE RemoveSource
        BY <2>3, <4>2 DEF QueueInv, WorkInHand, WasFiled, RemoveSource, Filings
      <4> QED
        BY <1>3, <4>1, <4>2
    <3> QED
      BY <3>1
  <2>4. CASE r # current.report
    <3>1. InInbox(r) => InInbox(r)'
      <4>1. incoming[current.file] = current.report
        BY <2>1, DecidedReport DEF Deciding
      <4> QED
        BY <1>0, <2>1, <2>4, <4>1 DEF InInbox, IntakeTypeOK
    <3> QED
      BY <1>1, <2>1, <3>1
  <2> QED
    BY <2>3, <2>4
<1>4. ASSUME NEW n \in Names, NEW q \in Reports, Deliver(n, q)
      PROVE  InInbox(r)' \/ Filings(r)' # {}
  <2>1. /\ incoming[n] = NoFile /\ delivered' = delivered \cup {q}
        /\ \A m \in Names : incoming'[m] = IF m = n THEN q ELSE incoming[m]
    BY <1>0, <1>4 DEF Deliver, IntakeTypeOK
  <2>2. CASE r = q
    BY <2>1, <2>2 DEF InInbox
  <2>3. CASE r # q
    <3>1. r \in delivered /\ r # NoFile
      BY <1>0, <2>1, <2>3, IntakeAssumption DEF IntakeTypeOK
    <3>2. InInbox(r) => InInbox(r)'
      BY <2>1, <3>1 DEF InInbox
    <3> QED
      BY <1>1, <3>1, <3>2
  <2> QED
    BY <2>2, <2>3
<1> QED
  BY <1>2, <1>3, <1>4, IntakeSteps, ElsewhereKeepsFiles
  DEF Copy, CrashCopying, Interrupted, intakeVars, diskVars, historyVars

LEMMA StepOnlyUsable ==
  ASSUME QueueInv, [IntakeNext]_intakeVars
  PROVE  OnlyUsableReachReview'
<1>0. /\ OnlyUsableReachReview /\ cut \in Nat
      /\ Cardinality(Filings(NoFile)) \in Nat
  BY FilingsAreFinite DEF QueueInv, IntakeTypeOK
<1>1. CASE filed' = filed /\ cut' \in {cut, cut + 1}
  BY <1>0, <1>1 DEF OnlyUsableReachReview, Filings
<1>2. CASE Rename \/ Copy
  <2>1. PICK g : Adds(g, current.report)
    BY <1>2, RenameAdds
  <2>2. pc = "decided" /\ cut' = cut
    BY <1>2 DEF Rename, Copy, historyVars
  <2>3. /\ current.report # NoFile
        /\ current.disposition # "rejected" => KindOf[current.report] = "usable"
    BY <2>2, DecidedReport DEF QueueInv, WorkInHand, Deciding
  <2>4. Cardinality(Filings(NoFile)') = Cardinality(Filings(NoFile))
    BY <1>0, <2>1, <2>3, OneMoreFiling
  <2>5. \A f \in filed' : f.dir # "rejected" /\ f.report # NoFile => KindOf[f.report] = "usable"
    BY <1>0, <2>1, <2>3 DEF OnlyUsableReachReview, Adds
  <2> QED
    BY <1>0, <2>2, <2>4, <2>5 DEF OnlyUsableReachReview
<1>3. CASE CrashCopying
  <2>1. PICK g : Adds(g, NoFile)
    BY <1>3, CutAdds
  <2>2. cut' = cut + 1
    BY <1>3 DEF CrashCopying
  <2>3. Cardinality(Filings(NoFile)') = Cardinality(Filings(NoFile)) + 1
    BY <2>1, OneMoreFiling
  <2>4. \A f \in filed' : f.dir # "rejected" /\ f.report # NoFile => KindOf[f.report] = "usable"
    BY <1>0, <2>1 DEF OnlyUsableReachReview, Adds
  <2> QED
    BY <1>0, <2>2, <2>3, <2>4 DEF OnlyUsableReachReview
<1>4. CASE Elsewhere \/ RemoveSource \/ (\E n \in Names, r \in Reports : Deliver(n, r))
           \/ UNCHANGED intakeVars
  <2>1. filed' = filed
    BY <1>4, ElsewhereKeepsFiles DEF RemoveSource, Deliver, intakeVars, diskVars
  <2>2. cut' \in {cut, cut + 1}
    BY <1>4 DEF Elsewhere, ProcessFile, SaveTmp, SaveRename, Return, Invoke, Refuse, Crash, RemoveSource,
       Deliver, intakeVars, historyVars
  <2> QED
    BY <1>1, <2>1, <2>2
<1> QED
  BY <1>2, <1>3, <1>4, IntakeSteps

(* Only SaveRename writes the ledger. *)
LEMMA LedgerFileKept ==
  ASSUME [IntakeNext]_intakeVars
  PROVE  SaveRename \/ ledgerFile' = ledgerFile
BY IntakeSteps DEF Elsewhere, ProcessFile, SaveTmp, Return, Invoke, Refuse, Crash, CrashCopying,
   Interrupted, Rename, Copy, RemoveSource, Deliver, diskVars, intakeVars

LEMMA StepHistory ==
  ASSUME QueueInv, [IntakeNext]_intakeVars
  PROVE  HistoryIsDecided'
<1>0. HistoryIsDecided
  BY DEF QueueInv
<1>1. CASE ledgerFile' = ledgerFile
  BY <1>0, <1>1 DEF HistoryIsDecided
<1>2. CASE SaveRename
  <2> DEFINE decisions == ledgerFile.decisions
             history == ledgerFile.history
  <2>1. /\ ledgerFile'.decisions = Append(decisions, current)
        /\ \/ ledgerFile'.history = history
           \/ ledgerFile'.history = Append(history, current.report)
    BY <1>2 DEF SaveRename, QueueInv, LedgersAgree
  <2>2. decisions \in Seq(Decision) /\ history \in Seq(Reports)
    BY DEF QueueInv, IntakeTypeOK, Ledger
  <2>3. \A i \in 1 .. Len(history) : \E k \in 1 .. Len(decisions) :
          decisions[k].report = history[i]
    BY <1>0 DEF HistoryIsDecided
  <2> HIDE DEF decisions, history
  <2>4. /\ Len(ledgerFile'.decisions) = Len(decisions) + 1 /\ Len(decisions) \in Nat
        /\ \A k \in 1 .. Len(decisions) : ledgerFile'.decisions[k] = decisions[k]
        /\ ledgerFile'.decisions[Len(decisions) + 1] = current
    BY <2>1, <2>2, AppendProperties, LenProperties
  <2>5. ASSUME NEW i \in 1 .. Len(ledgerFile'.history)
        PROVE  \/ i \in 1 .. Len(history) /\ ledgerFile'.history[i] = history[i]
               \/ ledgerFile'.history[i] = current.report
    <3>1. CASE ledgerFile'.history = history
      BY <2>5, <3>1
    <3>2. CASE ledgerFile'.history = Append(history, current.report)
      <4>1. current.report \in Reports
        BY <1>2, DecidedReport DEF SaveRename, Deciding
      <4>2. /\ Len(history) \in Nat /\ Len(ledgerFile'.history) = Len(history) + 1
            /\ \A k \in 1 .. Len(history) : ledgerFile'.history[k] = history[k]
            /\ ledgerFile'.history[Len(history) + 1] = current.report
        BY <2>2, <3>2, <4>1, AppendProperties, LenProperties
      <4> QED
        BY <2>5, <4>2
    <3> QED
      BY <2>1, <3>1, <3>2
  <2>6. ASSUME NEW i \in 1 .. Len(ledgerFile'.history)
        PROVE  \E k \in 1 .. Len(ledgerFile'.decisions) :
                 ledgerFile'.decisions[k].report = ledgerFile'.history[i]
    <3>1. CASE i \in 1 .. Len(history) /\ ledgerFile'.history[i] = history[i]
      <4>1. PICK k \in 1 .. Len(decisions) : decisions[k].report = history[i]
        BY <2>3, <3>1
      <4>2. k \in 1 .. Len(ledgerFile'.decisions)
        BY <2>4
      <4> QED
        BY <2>4, <3>1, <4>1, <4>2
    <3>2. CASE ledgerFile'.history[i] = current.report
      BY <2>4, <3>2
    <3> QED
      BY <2>5, <3>1, <3>2
  <2> QED
    BY <2>6 DEF HistoryIsDecided
<1> QED
  BY <1>1, <1>2, LedgerFileKept

LEMMA StepLedgerAgrees ==
  ASSUME QueueInv, [IntakeNext]_intakeVars
  PROVE  LedgerAgrees'
<1>0. /\ IntakeTypeOK /\ DecisionsWereCarriedOut /\ LossIsBounded /\ filed \subseteq filed'
      /\ ledgerFile.decisions \in Seq(Decision) /\ Len(ledgerFile.decisions) \in Nat
      /\ IsFiniteSet(filed) /\ Cardinality(filed) \in Nat /\ crashes \in Nat
  <2>1. IsFiniteSet(filed) /\ IntakeTypeOK
    BY DEF QueueInv, FilesAreReports
  <2>2. ledgerFile.decisions \in Seq(Decision) /\ crashes \in Nat
    BY <2>1 DEF IntakeTypeOK, Ledger
  <2>3. Len(ledgerFile.decisions) \in Nat
    BY <2>2, LenProperties
  <2> QED
    BY <2>1, <2>2, <2>3, FS_CardinalityType, FiledGrows DEF QueueInv, LedgerAgrees
<1>1. ASSUME NEW d, WasFiled(d) PROVE WasFiled(d)'
  BY <1>0, <1>1 DEF WasFiled
<1>2. ASSUME ledgerFile' = ledgerFile PROVE DecisionsWereCarriedOut'
  BY <1>0, <1>2 DEF DecisionsWereCarriedOut
<1>3. CASE SaveRename
  <2>1. /\ ledgerFile' = tmpFile /\ pc = "written" /\ pc' = "next"
        /\ UNCHANGED <<filed, crashes>>
    BY <1>3 DEF SaveRename, historyVars
  <2>2. /\ ledgerFile'.decisions = Append(ledgerFile.decisions, current)
        /\ current \in Decision /\ WasFiled(current)
    BY <2>1 DEF QueueInv, LedgersAgree, WorkInHand, Deciding
  <2>3. /\ Len(ledgerFile'.decisions) = Len(ledgerFile.decisions) + 1
        /\ \A i \in 1 .. Len(ledgerFile.decisions) + 1 :
             ledgerFile'.decisions[i] = IF i <= Len(ledgerFile.decisions)
                                        THEN ledgerFile.decisions[i] ELSE current
    BY <1>0, <2>2, AppendProperties
  <2>4. DecisionsWereCarriedOut'
    <3> DEFINE Filed(d) == \E f \in filed' : /\ f.dir = d.disposition
                                            /\ f.name = d.file /\ f.report = d.report
    <3> SUFFICES ASSUME NEW i \in 1 .. Len(ledgerFile'.decisions)
                 PROVE  Filed(ledgerFile'.decisions[i])
      BY DEF DecisionsWereCarriedOut
    <3>1. CASE i <= Len(ledgerFile.decisions)
      <4>1. /\ i \in 1 .. Len(ledgerFile.decisions)
            /\ ledgerFile'.decisions[i] = ledgerFile.decisions[i]
        BY <1>0, <2>3, <3>1
      <4>2. PICK f \in filed : /\ f.dir = ledgerFile.decisions[i].disposition
                               /\ f.name = ledgerFile.decisions[i].file
                               /\ f.report = ledgerFile.decisions[i].report
        BY <1>0, <4>1 DEF DecisionsWereCarriedOut
      <4> QED
        BY <1>0, <4>1, <4>2
    <3>2. CASE i > Len(ledgerFile.decisions)
      <4>1. i \in 1 .. Len(ledgerFile.decisions) + 1
        BY <2>3
      <4>2. ledgerFile'.decisions[i] = current
        BY <1>0, <2>3, <3>2, <4>1
      <4> QED
        BY <2>1, <2>2, <4>2 DEF WasFiled
    <3> QED
      BY <1>0, <2>3, <3>1, <3>2
  <2>5. LossIsBounded'
    BY <1>0, <2>1, <2>3 DEF LossIsBounded
  <2> QED
    BY <2>4, <2>5 DEF LedgerAgrees
<1>4. CASE Rename \/ Copy
  <2>1. /\ ledgerFile' = ledgerFile /\ crashes' = crashes
        /\ pc = "decided" /\ pc' \in {"moved", "copied"}
    BY <1>4 DEF Rename, Copy, historyVars
  <2>2. Cardinality(filed') = Cardinality(filed) + 1
    BY <1>0, <1>4, RenameAdds, FS_AddElement DEF Adds
  <2> QED
    BY <1>0, <1>2, <2>1, <2>2 DEF LedgerAgrees, LossIsBounded
<1>5. CASE CrashCopying
  <2>1. /\ ledgerFile' = ledgerFile /\ crashes' = crashes + 1
        /\ pc = "decided" /\ pc' = "crashed"
    BY <1>5 DEF CrashCopying, Interrupted
  <2>2. Cardinality(filed') = Cardinality(filed) + 1
    BY <1>0, <1>5, CutAdds, FS_AddElement DEF Adds
  <2> QED
    BY <1>0, <1>2, <2>1, <2>2 DEF LedgerAgrees, LossIsBounded
<1>6. CASE Crash
  <2>1. /\ ledgerFile' = ledgerFile /\ crashes' = crashes + 1 /\ filed' = filed
        /\ pc' = "crashed"
    BY <1>6 DEF Crash, Interrupted
  <2> QED
    BY <1>0, <1>2, <2>1 DEF LedgerAgrees, LossIsBounded
<1>7. CASE \/ ProcessFile \/ SaveTmp \/ Return \/ Invoke \/ Refuse \/ RemoveSource
           \/ (\E n \in Names, r \in Reports : Deliver(n, r)) \/ UNCHANGED intakeVars
  <2>1. /\ UNCHANGED <<ledgerFile, filed, crashes>>
        /\ pc \in {"copied", "moved", "written"} => pc' \in {"copied", "moved", "written"}
    BY <1>7 DEF ProcessFile, SaveTmp, Return, Invoke, Refuse, Stopped, RemoveSource, Deliver,
       intakeVars, diskVars, memoryVars, historyVars
  <2> QED
    BY <1>0, <1>2, <2>1 DEF LedgerAgrees, LossIsBounded
<1> QED
  BY <1>3, <1>4, <1>5, <1>6, <1>7, IntakeSteps DEF Elsewhere

LEMMA InitQueueInv ==
  ASSUME IntakeInit
  PROVE  QueueInv
<1>0. MaxCrashes \in Nat /\ NoFile \notin Reports
  BY IntakeAssumption
<1>1. EmptyLedger \in Ledger /\ <<>> \in Seq(Reports)
  <2>1. <<>> \in Seq(Decision) /\ <<>> \in Seq(Reports)
    OBVIOUS
  <2> QED
    BY <2>1 DEF EmptyLedger, Ledger
<1>2. IntakeTypeOK
  BY <1>0, <1>1 DEF IntakeInit, IntakeTypeOK, Stage
<1>3. Cardinality({}) = 0 /\ IsFiniteSet({})
  BY FS_EmptySet
<1>4. FilesAreReports
  BY <1>3 DEF IntakeInit, FilesAreReports
<1>8. HistoryIsDecided
  <2>1. Len(ledgerFile.history) = 0
    BY DEF IntakeInit, EmptyLedger
  <2> QED
    BY <2>1 DEF HistoryIsDecided
<1>5. WorkInHand /\ LedgersAgree /\ CopiesAreCounted /\ NothingLost
  BY DEF IntakeInit, WorkInHand, Deciding, LedgersAgree, CopiesAreCounted, NothingLost
<1>6. OnlyUsableReachReview
  <2>1. Filings(NoFile) = {}
    BY DEF IntakeInit, Filings
  <2> QED
    BY <1>3, <2>1 DEF IntakeInit, OnlyUsableReachReview
<1>7. LedgerAgrees
  <2>1. Len(ledgerFile.decisions) = 0 /\ Cardinality(filed) = 0 /\ crashes = 0
    BY <1>3 DEF IntakeInit, EmptyLedger
  <2> QED
    BY <2>1 DEF IntakeInit, LedgerAgrees, DecisionsWereCarriedOut, LossIsBounded
<1> QED
  BY <1>2, <1>4, <1>5, <1>6, <1>7, <1>8 DEF QueueInv

(* QueueInv, the inductive invariant, holds in every reachable state,        *)
(* however often and wherever invocations are interrupted.                   *)
THEOREM QueueInvariant == IntakeSpec => []QueueInv
<1>1. IntakeInit => QueueInv
  BY InitQueueInv
<1>2. QueueInv /\ [IntakeNext]_intakeVars => QueueInv'
  <2> SUFFICES ASSUME QueueInv, [IntakeNext]_intakeVars PROVE QueueInv'
    OBVIOUS
  <2>1. IntakeTypeOK'
    BY StepTypes
  <2>2. FilesAreReports'
    BY StepFiles
  <2>3. WorkInHand'
    BY StepWork
  <2>4. LedgersAgree'
    BY StepLedgers
  <2>9. HistoryIsDecided'
    BY StepHistory
  <2>5. CopiesAreCounted'
    BY StepCopies
  <2>6. NothingLost'
    BY StepNothingLost
  <2>7. OnlyUsableReachReview'
    BY StepOnlyUsable
  <2>8. LedgerAgrees'
    BY StepLedgerAgrees
  <2> QED
    BY <2>1, <2>2, <2>3, <2>4, <2>5, <2>6, <2>7, <2>8, <2>9 DEF QueueInv
<1> QED
  BY <1>1, <1>2, PTL DEF IntakeSpec

(* ReportsAreSafe: a delivered report is in one place and never nowhere, in  *)
(* one its kind allows (process_file, move_file, collision_safe), whatever   *)
(* is interrupted; only a copy cut short leaves one place more.              *)
THEOREM ReportsStaySafe == IntakeSpec => []ReportsAreSafe
<1>1. QueueInv => ReportsAreSafe
  <2> SUFFICES ASSUME QueueInv PROVE ReportsAreSafe
    OBVIOUS
  <2>1. FiledOnce
    <3> SUFFICES ASSUME NEW r \in delivered
                 PROVE  Cardinality(Filings(r)) + (IF InInbox(r) THEN 1 ELSE 0)
                          <= 1 + cut + (IF pc = "copied" THEN 1 ELSE 0)
      BY DEF FiledOnce
    <3>1. Cardinality(Filings(r)) \in Nat /\ cut \in Nat
      BY FilingsAreFinite DEF QueueInv, IntakeTypeOK
    <3> QED
      BY <3>1 DEF QueueInv, CopiesAreCounted
  <2> QED
    BY <2>1 DEF QueueInv, ReportsAreSafe
<1> QED
  BY <1>1, QueueInvariant, PTL

(* LedgerAgrees: every decision of the ledger on disk was carried out, and   *)
(* the ledger lacks at most one decision for each interruption (main records *)
(* a file after it has moved it).                                            *)
THEOREM LedgerAlwaysAgrees == IntakeSpec => []LedgerAgrees
<1>1. QueueInv => LedgerAgrees
  BY DEF QueueInv
<1> QED
  BY <1>1, QueueInvariant, PTL

LEMMA PrefixOfSelfAndAppend ==
  ASSUME NEW S, NEW s \in Seq(S), NEW e
  PROVE  IsPrefix(s, s) /\ IsPrefix(s, Append(s, e))
BY DEF IsPrefix

(* LedgerOnlyGrows: decisions and history on disk are appended to and never  *)
(* cut, since every invocation goes on from the file and renames its own     *)
(* continuation of it into place; an invocation that load turns away (main)  *)
(* finds there the decision on a report whose metrics are not finite.        *)
THEOREM LedgerGrows == IntakeSpec => LedgerOnlyGrows
<1>1. QueueInv /\ QueueInv' /\ [IntakeNext]_intakeVars =>
        [/\ IsPrefix(ledgerFile.decisions, ledgerFile'.decisions)
         /\ IsPrefix(ledgerFile.history, ledgerFile'.history)
         /\ pc' = "refused" => Spoiled']_intakeVars
  <2> SUFFICES ASSUME QueueInv, QueueInv', [IntakeNext]_intakeVars
               PROVE  /\ IsPrefix(ledgerFile.decisions, ledgerFile'.decisions)
                      /\ IsPrefix(ledgerFile.history, ledgerFile'.history)
                      /\ pc' = "refused" => Spoiled'
    OBVIOUS
  <2>0. /\ ledgerFile.decisions \in Seq(Decision) /\ ledgerFile.history \in Seq(Reports)
    BY DEF QueueInv, IntakeTypeOK, Ledger
  <2>1. pc' = "refused" => Spoiled'
    BY DEF QueueInv, LedgersAgree, Parses, HistoryIsDecided, Spoiled
  <2>2. CASE ledgerFile' = ledgerFile
    BY <2>0, <2>1, <2>2, PrefixOfSelfAndAppend
  <2>3. CASE SaveRename
    <3>1. /\ ledgerFile'.decisions = Append(ledgerFile.decisions, current)
          /\ \/ ledgerFile'.history = ledgerFile.history
             \/ ledgerFile'.history = Append(ledgerFile.history, current.report)
      BY <2>3 DEF SaveRename, QueueInv, LedgersAgree
    <3> QED
      BY <2>0, <2>1, <3>1, PrefixOfSelfAndAppend
  <2> QED
    BY <2>2, <2>3, LedgerFileKept
<1> QED
  BY <1>1, QueueInvariant, PTL DEF IntakeSpec, LedgerOnlyGrows

=============================================================================
