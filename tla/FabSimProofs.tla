---------------------------- MODULE FabSimProofs ----------------------------
(***************************************************************************)
(* Proofs about FabSim: IInv is inductive, hence the safety properties it  *)
(* implies hold for any set of connections, jobs, lots, wafers, recipes,   *)
(* staging calls and equipment-constant writes; FabSim implements          *)
(* JobService, jobs own their wafers, the end of a job is the last thing a *)
(* connection reports of it, and the counter of processed lots is exact.   *)
(***************************************************************************)
EXTENDS FabSim, FiniteSetTheorems, TLAPS

USE FabSimAssumption

(* The initial state of the simulator satisfies the inductive invariant. *)
LEMMA InitIInv == Init => IInv
<1> SUFFICES ASSUME Init PROVE IInv
  OBVIOUS
<1>1. TypeOK
  BY DEF Init, TypeOK, Location, LotStates, PJState, Point, Running, Message,
         ECInit, ECID, ECItem, DriftOutOfSpec, BackendError
<1>2. WafersAreOwned
  BY DEF Init, WafersAreOwned
<1>3. ThreadsHoldJobs /\ ExclusiveRunner
  BY DEF Init, ThreadsHoldJobs, ExclusiveRunner, PastPhase1, Running
<1>4. WafersAreDoneInOrder
  BY DEF Init, WafersAreDoneInOrder, Running
<1>5. CompletedJobsAreExposed
  BY DEF Init, CompletedJobsAreExposed
<1>6. ReportsMatch
  BY DEF Init, ReportsMatch
<1> QED
  BY <1>1, <1>2, <1>3, <1>4, <1>5, <1>6 DEF IInv

(* Steps that leave the shared fab state alone, apart from the parts IInv  *)
(* does not read.                                                          *)
FabKept ==
  UNCHANGED <<loc, pjState, pjWafers>>

(* Closing a connection, at whatever point its thread is, preserves IInv:   *)
(* the serving thread just vanishes.                                        *)
LEMMA CloseKeepsIInv ==
  ASSUME IInv, NEW c \in Conns, Close(c), FabKept, TypeOK'
  PROVE  IInv'
<1> USE DEF Close, FabKept
<1>0. TypeOK
  BY DEF IInv
<1>1. /\ \A d \in Conns : d # c => /\ pc'[d] = pc[d] /\ job'[d] = job[d] /\ idx'[d] = idx[d]
                                   /\ failed'[d] = failed[d] /\ outbox'[d] = outbox[d]
      /\ pc'[c] = "closed" /\ idx'[c] = 1 /\ outbox'[c] = <<>>
  BY <1>0 DEF TypeOK
<1>2. WafersAreOwned'
  BY DEF IInv, WafersAreOwned
<1>3. ThreadsHoldJobs'
  BY <1>1 DEF IInv, ThreadsHoldJobs, PastPhase1, Running
<1>4. ExclusiveRunner'
  BY <1>1 DEF IInv, ExclusiveRunner, Running
<1>5. WafersAreDoneInOrder'
  BY <1>1 DEF IInv, WafersAreDoneInOrder, Running
<1>6. CompletedJobsAreExposed'
  BY DEF IInv, CompletedJobsAreExposed, AllFixed, WaferSet
<1>7. ReportsMatch'
  BY <1>1 DEF IInv, ReportsMatch, EndMatches
<1> QED
  BY <1>2, <1>3, <1>4, <1>5, <1>6, <1>7 DEF IInv

(* Closing a connection keeps the types of the connection's variables. *)
LEMMA CloseTypes ==
  ASSUME TypeOK, NEW c \in Conns, Close(c)
  PROVE  /\ link' \in [Conns -> {"up", "down"}]
         /\ pc' \in [Conns -> Point]
         /\ job' \in [Conns -> Jobs \cup {Null}]
         /\ idx' \in [Conns -> Nat \ {0}]
         /\ failed' \in [Conns -> BOOLEAN]
         /\ outbox' \in [Conns -> Seq(Message)]
         /\ told' \in [Conns -> SUBSET Message]
<1>1. \A S : <<>> \in Seq(S)
  OBVIOUS
<1> QED
  BY <1>1 DEF TypeOK, Close, Point

(* The actions that close a connection, whatever the reason. *)
LEMMA ClosingStep ==
  ASSUME IInv, NEW c \in Conns,
         \/ RecvFails(c) \/ SendFails(c) \/ StartUnknownJob(c)
         \/ AbortRefused(c) \/ StartRefused(c) \/ FinishRefused(c)
  PROVE  IInv'
<1>1. /\ Close(c) /\ FabKept
      /\ UNCHANGED <<substrateVars, lotVars, jobVars, ec, lotsProcessed, recipes, samples>>
      /\ alarms' = alarms \/ alarms' = alarms \cup {DriftOutOfSpec}
  BY DEF RecvFails, SendFails, StartUnknownJob, AbortRefused, StartRefused, FinishRefused,
         FabKept, fabVars, substrateVars, lotVars, jobVars, gemVars
<1>2. TypeOK'
  BY <1>1, CloseTypes DEF IInv, TypeOK, substrateVars, lotVars, jobVars
<1> QED
  BY <1>1, <1>2, CloseKeepsIInv

(* Writing a message: the report leaves the outbox and, if the peer is       *)
(* there, is added to what the peer was told.                                *)
LEMMA SendStep ==
  ASSUME IInv, NEW c \in Conns, SendDelivered(c) \/ SendLost(c)
  PROVE  IInv'
<1> DEFINE m == Head(outbox[c])
<1>1. /\ outbox[c] # <<>>
      /\ outbox' = [outbox EXCEPT ![c] = Tail(@)]
      /\ told' = told \/ told' = [told EXCEPT ![c] = @ \cup ({m} \ {Ack})]
      /\ UNCHANGED <<fabVars, link, threadVars>>
  BY DEF SendDelivered, SendLost
<1>2. TypeOK
  BY DEF IInv
<1>3. /\ m \in Message /\ m = outbox[c][1] /\ 1 \in 1 .. Len(outbox[c])
      /\ Tail(outbox[c]) \in Seq(Message)
      /\ \A i \in 1 .. Len(Tail(outbox[c])) :
           i + 1 \in 1 .. Len(outbox[c]) /\ Tail(outbox[c])[i] = outbox[c][i + 1]
  BY <1>1, <1>2 DEF TypeOK
<1> HIDE DEF m
<1>3a. told' \in [Conns -> SUBSET Message] /\ \A d \in Conns : told'[d] \subseteq told[d] \cup {m}
  <2>1. CASE told' = told
    BY <1>2, <2>1 DEF TypeOK
  <2>2. CASE told' = [told EXCEPT ![c] = @ \cup ({m} \ {Ack})]
    <3>1. told[c] \cup ({m} \ {Ack}) \in SUBSET Message
      BY <1>2, <1>3 DEF TypeOK
    <3> QED
      BY <1>2, <2>2, <3>1 DEF TypeOK
  <2> QED
    BY <1>1, <2>1, <2>2
<1>4. TypeOK'
  <2>2. outbox' \in [Conns -> Seq(Message)]
    BY <1>1, <1>2, <1>3 DEF TypeOK
  <2> QED
    BY <1>1, <1>2, <1>3a, <2>2
    DEF TypeOK, fabVars, substrateVars, lotVars, jobVars, gemVars, threadVars
<1>5. /\ WafersAreOwned' /\ ThreadsHoldJobs' /\ ExclusiveRunner'
      /\ WafersAreDoneInOrder' /\ CompletedJobsAreExposed'
  BY <1>1 DEF IInv, WafersAreOwned, ThreadsHoldJobs, ExclusiveRunner, WafersAreDoneInOrder,
              CompletedJobsAreExposed, AllFixed, WaferSet, fabVars, substrateVars, lotVars,
              jobVars, gemVars, threadVars
<1>6. ReportsMatch'
  <2>0. pjState' = pjState
    BY <1>1 DEF fabVars, jobVars
  <2>1. EndMatches(m, pjState)
    BY <1>3 DEF IInv, ReportsMatch
  <2>2. ASSUME NEW d \in Conns, NEW i \in 1 .. Len(outbox'[d]) PROVE EndMatches(outbox'[d][i], pjState)
    <3>1. CASE d = c
      BY <1>1, <1>2, <1>3, <3>1 DEF IInv, ReportsMatch, TypeOK
    <3>2. CASE d # c
      BY <1>1, <1>2, <3>2 DEF IInv, ReportsMatch, TypeOK
    <3> QED
      BY <3>1, <3>2
  <2>3. ASSUME NEW d \in Conns, NEW x \in told'[d] PROVE EndMatches(x, pjState)
    BY <1>3a, <2>1 DEF IInv, ReportsMatch
  <2> QED
    BY <2>0, <2>2, <2>3 DEF ReportsMatch
<1> QED
  BY <1>4, <1>5, <1>6 DEF IInv

(* Only ProcessJobCompleted and ProcessJobAborted say how a job ended. *)
LEMMA OtherReports ==
  ASSUME NEW m, NEW states, m.id \notin {ProcessJobCompleted, ProcessJobAborted}
  PROVE  EndMatches(m, states)
BY DEF EndMatches, Event

(* Replacing what c has still to send by the batch b keeps outbox typed, and *)
(* keeps the reports true if the batch is and if the ends of jobs stay.      *)
LEMMA BatchReports ==
  ASSUME IInv, NEW c \in Conns, NEW b \in Seq(Message),
         outbox' = outbox \/ outbox' = [outbox EXCEPT ![c] = b],
         \A d \in Conns : told'[d] \subseteq told[d],
         \A j \in Jobs : pjState[j] \in PJTerminal => pjState'[j] = pjState[j],
         \A i \in 1 .. Len(b) : EndMatches(b[i], pjState')
  PROVE  outbox' \in [Conns -> Seq(Message)] /\ ReportsMatch'
<1>1. outbox \in [Conns -> Seq(Message)]
  BY DEF IInv, TypeOK
<1>2. /\ outbox' \in [Conns -> Seq(Message)]
      /\ \A d \in Conns : outbox'[d] = outbox[d] \/ outbox'[d] = b
  <2>1. CASE outbox' = outbox
    BY <1>1, <2>1
  <2>2. CASE outbox' = [outbox EXCEPT ![c] = b]
    BY <1>1, <2>2
  <2> QED
    BY <2>1, <2>2
<1>3. \A x : EndMatches(x, pjState) => EndMatches(x, pjState')
  BY DEF EndMatches, PJTerminal
<1>4. ASSUME NEW d \in Conns, NEW i \in 1 .. Len(outbox'[d])
      PROVE  EndMatches(outbox'[d][i], pjState')
  <2>1. CASE outbox'[d] = outbox[d]
    BY <1>3, <2>1 DEF IInv, ReportsMatch
  <2>2. CASE outbox'[d] = b
    BY <2>2
  <2> QED
    BY <1>2, <2>1, <2>2
<1>5. ASSUME NEW d \in Conns, NEW x \in told'[d] PROVE EndMatches(x, pjState')
  BY <1>3 DEF IInv, ReportsMatch
<1> QED
  BY <1>2, <1>4, <1>5 DEF ReportsMatch

(* Messages are well typed, and two of them are a sequence. *)
LEMMA PairsAreSequences ==
  ASSUME NEW S, NEW x \in S, NEW y \in S
  PROVE  <<x, y>> \in Seq(S)
OBVIOUS

LEMMA MessageTypes ==
  /\ Ack \in Message /\ Ack.id = 0
  /\ Alarm(DriftOutOfSpec) \in Message /\ Alarm(DriftOutOfSpec).id = 9001
  /\ Alarm(BackendError) \in Message /\ Alarm(BackendError).id = 9002
  /\ \A e \in Nat, x \in Wafers \cup Lots \cup Jobs \cup {Null} :
       Event(e, x) \in Message /\ Event(e, x).id = e /\ Event(e, x).subject = x
BY DEF Ack, Alarm, Event, Message, DriftOutOfSpec, BackendError

(* What the peer does: connecting, going away, and the three requests.  A    *)
(* request only puts its acknowledgement into the outbox.                    *)
LEMMA PeerActions ==
  ASSUME IInv, NEW c \in Conns,
         \/ Connect(c) \/ PeerDrops(c)
         \/ \E p \in ECWrites : NewEquipmentConstant(c, p[1], p[2])
         \/ \E r \in Recipes : DownloadRecipe(c, r)
         \/ \E j \in Jobs : RemoteStart(c, j)
  PROVE  IInv'
<1>0. TypeOK
  BY DEF IInv
<1>1. /\ UNCHANGED <<substrateVars, lotVars, jobVars, alarms, lotsProcessed, samples,
                     idx, failed>>
      /\ ec' \in [ECID -> ECItem]
      /\ recipes' \subseteq Recipes
      /\ link' \in [Conns -> {"up", "down"}]
  BY <1>0 DEF TypeOK, Connect, PeerDrops, NewEquipmentConstant, DownloadRecipe, RemoteStart,
              fabVars, gemVars, threadVars
<1>2. \/ pc' = pc /\ job' = job
      \/ pc[c] = "closed" /\ pc' = [pc EXCEPT ![c] = "idle"] /\ job' = job
      \/ /\ pc[c] = "idle" /\ pc' = [pc EXCEPT ![c] = "validate"]
         /\ \E j \in Jobs : job' = [job EXCEPT ![c] = j]
  BY DEF Connect, PeerDrops, NewEquipmentConstant, DownloadRecipe, RemoteStart,
         threadVars, RequestReceived, Free
<1>3. /\ outbox' = outbox \/ outbox' = [outbox EXCEPT ![c] = <<Ack>>]
      /\ told' = told \/ told' = [told EXCEPT ![c] = {}]
  BY DEF Connect, PeerDrops, NewEquipmentConstant, DownloadRecipe, RemoteStart
<1>9. outbox' \in [Conns -> Seq(Message)] /\ ReportsMatch'
  <2>1. <<Ack>> \in Seq(Message) /\ \A i \in 1 .. Len(<<Ack>>) : EndMatches(<<Ack>>[i], pjState')
    BY MessageTypes, OtherReports DEF ProcessJobCompleted, ProcessJobAborted
  <2>2. /\ \A d \in Conns : told'[d] \subseteq told[d]
        /\ pjState' = pjState
    BY <1>0, <1>1, <1>3 DEF TypeOK, jobVars
  <2> QED
    BY <1>3, <2>1, <2>2, BatchReports
<1>4. TypeOK'
  <2>1. pc' \in [Conns -> Point]
    BY <1>0, <1>2 DEF TypeOK, Point
  <2>2. job' \in [Conns -> Jobs \cup {Null}]
    <3>1. CASE job' = job
      BY <1>0, <3>1 DEF TypeOK
    <3>2. CASE \E j \in Jobs : job' = [job EXCEPT ![c] = j]
      BY <1>0, <3>2 DEF TypeOK
    <3> QED
      BY <1>2, <3>1, <3>2
  <2>3. told' \in [Conns -> SUBSET Message]
    BY <1>0, <1>3 DEF TypeOK
  <2> QED
    BY <1>0, <1>1, <1>9, <2>1, <2>2, <2>3 DEF TypeOK, substrateVars, lotVars, jobVars
<1>5. WafersAreOwned' /\ CompletedJobsAreExposed'
  BY <1>1 DEF IInv, WafersAreOwned, CompletedJobsAreExposed, AllFixed, WaferSet,
              substrateVars, jobVars
<1>6. \A d \in Conns : /\ pc'[d] \in PastPhase1 => pc'[d] = pc[d] /\ job'[d] = job[d]
                       /\ pc'[d] = "validate" => job'[d] \in Jobs
                       /\ pc'[d] \notin Running => pc[d] \notin Running
  BY <1>0, <1>2 DEF IInv, TypeOK, ThreadsHoldJobs, PastPhase1, Running
<1>7. ThreadsHoldJobs' /\ ExclusiveRunner'
  BY <1>1, <1>6 DEF IInv, ThreadsHoldJobs, ExclusiveRunner, PastPhase1, jobVars
<1>8. WafersAreDoneInOrder'
  BY <1>1, <1>6 DEF IInv, WafersAreDoneInOrder, PastPhase1, Running, jobVars, substrateVars
<1> QED
  BY <1>4, <1>5, <1>7, <1>8, <1>9 DEF IInv

(* Steps of a thread past phase 1 that move no wafer and end no job: the     *)
(* check of `started` and the backend's answer.                              *)
LEMMA ThreadActions ==
  ASSUME IInv, NEW c \in Conns,
         NotStarted(c) \/ Started(c) \/ ExposeOk(c) \/ ExposeRefused(c)
  PROVE  IInv'
<1>0. TypeOK
  BY DEF IInv
<1>1. /\ UNCHANGED <<substrateVars, lotVars, jobVars, ec, lotsProcessed, recipes, samples,
                     link, told>>
      /\ alarms' \subseteq {DriftOutOfSpec, BackendError}
  BY <1>0 DEF TypeOK, NotStarted, Started, ExposeOk, ExposeRefused, fabVars, gemVars
<1>2. \/ NotStarted(c) /\ pc[c] = "check" /\ pc' = [pc EXCEPT ![c] = "idle"]
           /\ job' = [job EXCEPT ![c] = Null] /\ idx' = [idx EXCEPT ![c] = 1]
           /\ failed' = [failed EXCEPT ![c] = FALSE]
      \/ Started(c) /\ pc[c] = "check" /\ pjState[job[c]] = "Executing"
           /\ pc' = [pc EXCEPT ![c] = NextPoint(job[c], 1)]
           /\ job' = job /\ idx' = idx /\ failed' = failed
      \/ ExposeOk(c) /\ pc[c] = "expose" /\ pc' = [pc EXCEPT ![c] = "unload"]
           /\ job' = job /\ idx' = idx /\ failed' = failed
      \/ ExposeRefused(c) /\ pc[c] = "expose" /\ pc' = [pc EXCEPT ![c] = "finish"]
           /\ job' = job /\ idx' = idx /\ failed' = [failed EXCEPT ![c] = TRUE]
  BY DEF NotStarted, Started, ExposeOk, ExposeRefused, ReturnOk, Free
<1>2a. NextPoint(job[c], 1) \in {"load", "finish"}
  BY DEF NextPoint
<1>3. outbox' = outbox \/ outbox' = [outbox EXCEPT ![c] = <<Alarm(BackendError)>>]
  BY DEF NotStarted, Started, ExposeOk, ExposeRefused
<1>10. outbox' \in [Conns -> Seq(Message)] /\ ReportsMatch'
  <2> DEFINE b == <<Alarm(BackendError)>>
  <2>1. b \in Seq(Message) /\ \A i \in 1 .. Len(b) : EndMatches(b[i], pjState')
    BY MessageTypes, OtherReports DEF ProcessJobCompleted, ProcessJobAborted
  <2> QED
    BY <1>1, <1>3, <2>1, BatchReports DEF jobVars
<1>4. TypeOK'
  <2>0. \E q \in {"idle", "load", "finish", "unload"} : pc' = [pc EXCEPT ![c] = q]
    BY <1>2, <1>2a
  <2>1. pc' \in [Conns -> Point]
    BY <1>0, <2>0 DEF TypeOK, Point, Running
  <2>2. job' \in [Conns -> Jobs \cup {Null}]
    BY <1>0, <1>2 DEF TypeOK
  <2>3. idx' \in [Conns -> Nat \ {0}]
    BY <1>0, <1>2 DEF TypeOK
  <2>4. failed' \in [Conns -> BOOLEAN]
    <3>1. failed' = failed \/ \E x \in BOOLEAN : failed' = [failed EXCEPT ![c] = x]
      BY <1>2
    <3> QED
      BY <1>0, <3>1 DEF TypeOK
  <2> QED
    BY <1>0, <1>1, <1>10, <2>1, <2>2, <2>3, <2>4 DEF TypeOK, substrateVars, lotVars, jobVars
<1>5. WafersAreOwned' /\ CompletedJobsAreExposed'
  BY <1>1 DEF IInv, WafersAreOwned, CompletedJobsAreExposed, AllFixed, WaferSet,
              substrateVars, jobVars
<1>6. \A d \in Conns : /\ pc'[d] \in PastPhase1 => pc[d] \in PastPhase1 /\ job'[d] = job[d]
                       /\ pc'[d] = "validate" => pc[d] = "validate" /\ job'[d] = job[d]
                       /\ d # c => pc'[d] = pc[d] /\ job'[d] = job[d] /\ idx'[d] = idx[d]
                                   /\ failed'[d] = failed[d]
                       /\ pc'[d] \in Running /\ pc[d] \notin Running =>
                            d = c /\ pc[c] = "check" /\ pjState[job[c]] = "Executing"
  BY <1>0, <1>2, <1>2a DEF TypeOK, PastPhase1, Running
<1>7. ThreadsHoldJobs'
  BY <1>1, <1>6 DEF IInv, ThreadsHoldJobs, jobVars
<1>8. ExclusiveRunner'
  BY <1>1, <1>6 DEF IInv, ThreadsHoldJobs, ExclusiveRunner, PastPhase1
<1>9. WafersAreDoneInOrder'
  <2>1. ASSUME NEW d \in Conns, d # c
        PROVE  /\ pc'[d] \notin Running => idx'[d] = 1
               /\ pc'[d] \in {"load", "expose", "unload"} => idx'[d] <= Len(pjWafers'[job'[d]])
               /\ pc'[d] = "finish" /\ ~failed'[d] => idx'[d] > Len(pjWafers'[job'[d]])
               /\ pc'[d] \in Running =>
                    \A i \in 1 .. Len(pjWafers'[job'[d]]) :
                      i < idx'[d] => loc'[pjWafers'[job'[d]][i]] = "Fixed"
    BY <1>1, <1>6, <2>1 DEF IInv, WafersAreDoneInOrder, jobVars, substrateVars
  <2>2. /\ pc'[c] \notin Running => idx'[c] = 1
        /\ pc'[c] \in {"load", "expose", "unload"} => idx'[c] <= Len(pjWafers'[job'[c]])
        /\ pc'[c] = "finish" /\ ~failed'[c] => idx'[c] > Len(pjWafers'[job'[c]])
        /\ pc'[c] \in Running =>
             \A i \in 1 .. Len(pjWafers'[job'[c]]) :
               i < idx'[c] => loc'[pjWafers'[job'[c]][i]] = "Fixed"
    <3>1. CASE NotStarted(c) /\ pc' = [pc EXCEPT ![c] = "idle"] /\ idx' = [idx EXCEPT ![c] = 1]
      BY <1>0, <3>1 DEF TypeOK, Running
    <3>2. CASE Started(c) /\ pc[c] = "check" /\ pc' = [pc EXCEPT ![c] = NextPoint(job[c], 1)]
                 /\ job' = job /\ idx' = idx /\ failed' = failed
      <4>1. idx[c] = 1 /\ job[c] \in Jobs
        BY <3>2 DEF IInv, WafersAreDoneInOrder, ThreadsHoldJobs, PastPhase1, Running
      <4>2. Len(pjWafers[job[c]]) \in Nat
        BY <1>0, <4>1 DEF TypeOK
      <4> QED
        BY <1>0, <1>1, <3>2, <4>1, <4>2 DEF TypeOK, NextPoint, Running, jobVars
    <3>3. CASE ExposeOk(c) /\ pc[c] = "expose" /\ pc' = [pc EXCEPT ![c] = "unload"]
                 /\ job' = job /\ idx' = idx /\ failed' = failed
      BY <1>0, <1>1, <3>3 DEF IInv, TypeOK, WafersAreDoneInOrder, Running, jobVars, substrateVars
    <3>4. CASE ExposeRefused(c) /\ pc[c] = "expose" /\ pc' = [pc EXCEPT ![c] = "finish"]
                 /\ job' = job /\ idx' = idx /\ failed' = [failed EXCEPT ![c] = TRUE]
      BY <1>0, <1>1, <3>4 DEF IInv, TypeOK, WafersAreDoneInOrder, Running, jobVars, substrateVars
    <3> QED
      BY <1>2, <3>1, <3>2, <3>3, <3>4
  <2> QED
    BY <2>1, <2>2 DEF WafersAreDoneInOrder
<1> QED
  BY <1>4, <1>5, <1>7, <1>8, <1>9, <1>10 DEF IInv

(* The lot operations stay within the lot states, lot_of_via finds a lot or  *)
(* nothing, and the events they report are lot events.                       *)
LEMMA LotTypes ==
  ASSUME TypeOK
  PROVE  /\ LotOfVia \in Lots \cup {Null}
         /\ \A j \in Jobs : HoldLot(j) \in [Lots -> LotStates]
         /\ \A l, to : to \in LotStates => MoveLot(l, to) \in [Lots -> LotStates]
         /\ \A to : /\ MoveLotEvents(LotOfVia, to) \in Seq(Message)
                    /\ \A i \in 1 .. Len(MoveLotEvents(LotOfVia, to)) :
                         MoveLotEvents(LotOfVia, to)[i].id \in 7001 .. 7005
<1>1. LotOfVia \in Lots \cup {Null}
  <2> DEFINE first == {i \in ActiveLotIndices : \A k \in ActiveLotIndices : i <= k}
  <2>1. \A i \in first : i \in 1 .. Len(lotSeq)
    BY DEF ActiveLotIndices
  <2>2. \A i \in 1 .. Len(lotSeq) : lotSeq[i] \in Lots
    BY DEF TypeOK
  <2>3. first # {} => (CHOOSE i \in first : TRUE) \in first
    OBVIOUS
  <2> HIDE DEF first
  <2>4. LotOfVia = IF first = {} THEN Null ELSE lotSeq[CHOOSE i \in first : TRUE]
    BY DEF LotOfVia, first
  <2> QED
    BY <2>1, <2>2, <2>3, <2>4
<1>2. \A j \in Jobs : HoldLot(j) \in [Lots -> LotStates]
  BY DEF TypeOK, HoldLot, LotStates
<1>3. \A l, to : to \in LotStates => MoveLot(l, to) \in [Lots -> LotStates]
  BY DEF TypeOK, MoveLot
<1>4. ASSUME NEW to
      PROVE  /\ MoveLotEvents(LotOfVia, to) \in Seq(Message)
             /\ \A i \in 1 .. Len(MoveLotEvents(LotOfVia, to)) :
                  MoveLotEvents(LotOfVia, to)[i].id \in 7001 .. 7005
  <2>1. LotCeid(to) \in 7001 .. 7005
    BY DEF LotCeid
  <2>2. Event(LotCeid(to), LotOfVia) \in Message /\ Event(LotCeid(to), LotOfVia).id = LotCeid(to)
    BY <1>1, <2>1, MessageTypes
  <2>3. CASE MoveLotEvents(LotOfVia, to) = <<>>
    BY <2>3
  <2>4. CASE MoveLotEvents(LotOfVia, to) = <<Event(LotCeid(to), LotOfVia)>>
    BY <2>1, <2>2, <2>4
  <2> QED
    BY <2>3, <2>4 DEF MoveLotEvents
<1> QED
  BY <1>1, <1>2, <1>3, <1>4

(* Aborting in phase 1: for an unknown recipe or for drift, and also when    *)
(* another connection is executing the job, whose thread then finds it       *)
(* aborted under it.                                                         *)
LEMMA AbortActions ==
  ASSUME IInv, NEW c \in Conns, AbortUnknownRecipe(c) \/ AbortDrifted(c)
  PROVE  IInv'
<1> DEFINE j == job[c]
           b == <<Alarm(DriftOutOfSpec), Event(ProcessJobAborted, j)>>
<1>0. TypeOK /\ j \in Jobs /\ pc[c] = "validate" /\ idx[c] = 1
  BY DEF IInv, ThreadsHoldJobs, WafersAreDoneInOrder, AbortUnknownRecipe, AbortDrifted,
         KnownJob, Free, Running
<1>1. /\ pjState[j] \notin PJTerminal \cup {"None"}
      /\ pjState' = [pjState EXCEPT ![j] = "Aborted"]
      /\ lotState' = HoldLot(j)
      /\ alarms' = alarms \cup {DriftOutOfSpec}
      /\ UNCHANGED <<substrateVars, carriers, lotSeq, lotWafers, pjRecipe, pjWafers,
                     ec, lotsProcessed, recipes, samples, link, told>>
  BY DEF AbortUnknownRecipe, AbortDrifted, AbortJob, KnownJob, PJLegal, PJOrder, PJState, PJTerminal
<1>2. \/ /\ pc' = [pc EXCEPT ![c] = "idle"] /\ job' = [job EXCEPT ![c] = Null]
         /\ idx' = [idx EXCEPT ![c] = 1] /\ failed' = [failed EXCEPT ![c] = FALSE]
         /\ outbox' = outbox
      \/ /\ pc' = [pc EXCEPT ![c] = "check"] /\ job' = job /\ idx' = idx /\ failed' = failed
         /\ outbox' = [outbox EXCEPT ![c] = b]
  BY DEF AbortUnknownRecipe, AbortDrifted, ReturnOk
<1>3. /\ pjState' \in [Jobs -> PJState \cup {"None"}]
      /\ pjState'[j] = "Aborted"
      /\ \A k \in Jobs : k # j => pjState'[k] = pjState[k]
  BY <1>0, <1>1 DEF TypeOK, PJState
<1>4. /\ pc' \in [Conns -> Point]
      /\ \A d \in Conns : /\ d # c => pc'[d] = pc[d] /\ job'[d] = job[d] /\ idx'[d] = idx[d]
                                      /\ failed'[d] = failed[d]
      /\ pc'[c] \in {"idle", "check"} /\ idx'[c] = 1
      /\ pc'[c] = "check" => job'[c] = j
  <2>1. /\ pc \in [Conns -> Point] /\ job \in [Conns -> Jobs \cup {Null}]
        /\ idx \in [Conns -> Nat \ {0}] /\ failed \in [Conns -> BOOLEAN]
    BY <1>0 DEF TypeOK
  <2>2. {"idle", "check"} \subseteq Point
    BY DEF Point
  <2>3. \E p \in {"idle", "check"} : pc' = [pc EXCEPT ![c] = p]
    BY <1>2
  <2>4. pc' \in [Conns -> Point] /\ pc'[c] \in {"idle", "check"}
    BY <2>1, <2>2, <2>3
  <2>5. \A d \in Conns : d # c => pc'[d] = pc[d] /\ job'[d] = job[d] /\ idx'[d] = idx[d]
                                /\ failed'[d] = failed[d]
    BY <1>2, <2>1
  <2>6. idx'[c] = 1 /\ (pc'[c] = "check" => job'[c] = j)
    BY <1>0, <1>2, <2>1
  <2> QED
    BY <2>4, <2>5, <2>6
<1>5. outbox' \in [Conns -> Seq(Message)] /\ ReportsMatch'
  <2>1. b \in Seq(Message)
    <3>1. ProcessJobAborted \in Nat /\ j \in Wafers \cup Lots \cup Jobs \cup {Null}
      BY <1>0 DEF ProcessJobAborted
    <3>2. Alarm(DriftOutOfSpec) \in Message /\ Event(ProcessJobAborted, j) \in Message
      BY <3>1, MessageTypes
    <3>3. QED
      BY <3>2, PairsAreSequences
  <2>2. EndMatches(Alarm(DriftOutOfSpec), pjState')
    BY MessageTypes, OtherReports DEF ProcessJobCompleted, ProcessJobAborted
  <2>3. EndMatches(Event(ProcessJobAborted, j), pjState')
    BY <1>0, <1>3 DEF EndMatches, Event, ProcessJobAborted, ProcessJobCompleted
  <2>4. \A i \in 1 .. Len(b) : EndMatches(b[i], pjState')
    BY <2>2, <2>3
  <2>5. \A k \in Jobs : pjState[k] \in PJTerminal => pjState'[k] = pjState[k]
    BY <1>1, <1>3
  <2>6. outbox' = outbox \/ outbox' = [outbox EXCEPT ![c] = b]
    BY <1>2
  <2>7. \A d \in Conns : told'[d] \subseteq told[d]
    BY <1>1
  <2> HIDE DEF b
  <2> QED
    BY <2>1, <2>4, <2>5, <2>6, <2>7, BatchReports
<1>6. TypeOK'
  <2>0. /\ job \in [Conns -> Jobs \cup {Null}]
        /\ idx \in [Conns -> Nat \ {0}] /\ failed \in [Conns -> BOOLEAN]
    BY <1>0 DEF TypeOK
  <2>1. job' \in [Conns -> Jobs \cup {Null}]
    BY <1>2, <2>0
  <2>2. idx' \in [Conns -> Nat \ {0}]
    BY <1>2, <2>0
  <2>3. failed' \in [Conns -> BOOLEAN]
    BY <1>2, <2>0
  <2>4. lotState' \in [Lots -> LotStates]
    BY <1>0, <1>1, LotTypes
  <2> QED
    BY <1>0, <1>1, <1>3, <1>4, <1>5, <2>1, <2>2, <2>3, <2>4 DEF TypeOK, substrateVars
<1>7. WafersAreOwned'
  BY <1>1 DEF IInv, WafersAreOwned, substrateVars
<1>8. CompletedJobsAreExposed'
  <2>1. \A k \in Jobs : pjState'[k] = "Completed" => pjState[k] = "Completed"
    BY <1>3
  <2> QED
    BY <1>1, <2>1 DEF IInv, CompletedJobsAreExposed, AllFixed, WaferSet, substrateVars
<1>9. ThreadsHoldJobs'
  <2>1. \A d \in Conns : pc'[d] \in PastPhase1 \cup {"validate"} => job'[d] \in Jobs
    BY <1>0, <1>4 DEF IInv, ThreadsHoldJobs, PastPhase1, Running
  <2>2. \A d \in Conns : pc'[d] \in PastPhase1 => pjState'[job'[d]] \in {"Executing", "Aborted"}
    BY <1>0, <1>3, <1>4 DEF IInv, ThreadsHoldJobs, PastPhase1, Running
  <2>3. ASSUME NEW d \in Conns, NEW e \in Conns, d # e, pc'[d] \in PastPhase1,
               pc'[e] \in PastPhase1, job'[d] = job'[e]
        PROVE  pjState'[job'[d]] = "Aborted"
    BY <1>0, <1>3, <1>4, <2>3 DEF IInv, ThreadsHoldJobs, PastPhase1, Running
  <2> QED
    BY <2>1, <2>2, <2>3 DEF ThreadsHoldJobs
<1>10. ExclusiveRunner'
  BY <1>4 DEF IInv, ExclusiveRunner, Running
<1>11. WafersAreDoneInOrder'
  BY <1>1, <1>4 DEF IInv, WafersAreDoneInOrder, Running, substrateVars
<1> QED
  BY <1>5, <1>6, <1>7, <1>8, <1>9, <1>10, <1>11 DEF IInv

(* Starting a job: it was queued, so no thread is past phase 1 with it.      *)
LEMMA StartAction ==
  ASSUME IInv, NEW c \in Conns, StartJob(c)
  PROVE  IInv'
<1> DEFINE j == job[c]
           evs == MoveLotEvents(LotOfVia, "InProcessing")
           head == <<Event(ProcessJobCreated, j), Event(ProcessJobCreated, j),
                     Event(ProcessJobStarted, j)>>
           b == head \o evs
<1>0. TypeOK /\ j \in Jobs /\ pc[c] = "validate" /\ idx[c] = 1
  BY DEF IInv, ThreadsHoldJobs, WafersAreDoneInOrder, StartJob, KnownJob, Free, Running
<1>1. /\ pjState[j] = "Queued"
      /\ pjState' = [pjState EXCEPT ![j] = "Executing"]
      /\ lotState' = MoveLot(LotOfVia, "InProcessing")
      /\ outbox' = [outbox EXCEPT ![c] = b]
      /\ pc' = [pc EXCEPT ![c] = "check"]
      /\ UNCHANGED <<substrateVars, carriers, lotSeq, lotWafers, pjRecipe, pjWafers,
                     gemVars, recipes, samples, link, job, idx, failed, told>>
  BY DEF StartJob, PJLegal, PJOrder
<1>2. /\ pjState' \in [Jobs -> PJState \cup {"None"}]
      /\ pjState'[j] = "Executing"
      /\ \A k \in Jobs : k # j => pjState'[k] = pjState[k]
  BY <1>0, <1>1 DEF TypeOK, PJState
<1>3. /\ pc' \in [Conns -> Point]
      /\ pc'[c] = "check"
      /\ \A d \in Conns : d # c => pc'[d] = pc[d]
      /\ \A d \in Conns : pc[d] \in PastPhase1 => job[d] # j
  BY <1>0, <1>1 DEF IInv, TypeOK, Point, ThreadsHoldJobs
<1>4. outbox' \in [Conns -> Seq(Message)] /\ ReportsMatch'
  <2>1. /\ evs \in Seq(Message)
        /\ \A i \in 1 .. Len(evs) : evs[i].id \in 7001 .. 7005
    BY <1>0, LotTypes
  <2>2. /\ head \in Seq(Message)
        /\ \A i \in 1 .. Len(head) : head[i].id \in {6001, 6002}
    <3>1. /\ Event(ProcessJobCreated, j) \in Message /\ Event(ProcessJobCreated, j).id = 6001
          /\ Event(ProcessJobStarted, j) \in Message /\ Event(ProcessJobStarted, j).id = 6002
      BY <1>0, MessageTypes DEF ProcessJobCreated, ProcessJobStarted
    <3> QED
      BY <3>1
  <2> HIDE DEF evs, head
  <2>3. b \in Seq(Message)
    BY <2>1, <2>2
  <2>3a. \A i \in 1 .. Len(b) : b[i].id \in {6001, 6002} \cup 7001 .. 7005
    BY <2>1, <2>2
  <2>7. outbox' = outbox \/ outbox' = [outbox EXCEPT ![c] = b]
    BY <1>1 DEF evs, head
  <2> HIDE DEF b
  <2>4. \A i \in 1 .. Len(b) : EndMatches(b[i], pjState')
    <3>1. ASSUME NEW i \in 1 .. Len(b) PROVE EndMatches(b[i], pjState')
      <4>1. b[i].id \notin {ProcessJobCompleted, ProcessJobAborted}
        BY <2>3a DEF ProcessJobCompleted, ProcessJobAborted
      <4> QED
        BY <4>1, OtherReports
    <3> QED
      BY <3>1
  <2>5. \A k \in Jobs : pjState[k] \in PJTerminal => pjState'[k] = pjState[k]
    BY <1>1, <1>2 DEF PJTerminal
  <2>6. \A d \in Conns : told'[d] \subseteq told[d]
    BY <1>1
  <2> QED
    BY <2>3, <2>4, <2>5, <2>6, <2>7, BatchReports
<1> HIDE DEF b, evs, head
<1>5. TypeOK'
  <2>1. lotState' \in [Lots -> LotStates]
    BY <1>0, <1>1, LotTypes DEF LotStates
  <2> QED
    BY <1>0, <1>1, <1>2, <1>3, <1>4, <2>1 DEF TypeOK, substrateVars, gemVars
<1>6. WafersAreOwned'
  BY <1>1 DEF IInv, WafersAreOwned, substrateVars
<1>7. CompletedJobsAreExposed'
  <2>1. \A k \in Jobs : pjState'[k] = "Completed" => pjState[k] = "Completed"
    BY <1>2
  <2> QED
    BY <1>1, <2>1 DEF IInv, CompletedJobsAreExposed, AllFixed, WaferSet, substrateVars
<1>8. ThreadsHoldJobs'
  <2>1. \A d \in Conns : pc'[d] \in PastPhase1 \cup {"validate"} => job'[d] \in Jobs
    BY <1>0, <1>1, <1>3 DEF IInv, ThreadsHoldJobs
  <2>2. \A d \in Conns : pc'[d] \in PastPhase1 => pjState'[job'[d]] \in {"Executing", "Aborted"}
    BY <1>0, <1>1, <1>2, <1>3 DEF IInv, ThreadsHoldJobs
  <2>3. ASSUME NEW d \in Conns, NEW e \in Conns, d # e, pc'[d] \in PastPhase1,
               pc'[e] \in PastPhase1, job'[d] = job'[e]
        PROVE  pjState'[job'[d]] = "Aborted"
    BY <1>0, <1>1, <1>2, <1>3, <2>3 DEF IInv, ThreadsHoldJobs
  <2> QED
    BY <2>1, <2>2, <2>3 DEF ThreadsHoldJobs
<1>9. ExclusiveRunner'
  BY <1>1, <1>3 DEF IInv, ExclusiveRunner, Running
<1>10. WafersAreDoneInOrder'
  BY <1>0, <1>1, <1>3 DEF IInv, WafersAreDoneInOrder, Running, substrateVars
<1> QED
  BY <1>4, <1>5, <1>6, <1>7, <1>8, <1>9, <1>10 DEF IInv

(* Moving a wafer: it is listed by the mover's job at idx and nowhere else,  *)
(* so no other running thread and no completed job loses a wafer's place.    *)
LEMMA MoveActions ==
  ASSUME IInv, NEW c \in Conns, Load(c) \/ Unload(c)
  PROVE  IInv'
<1> DEFINE j == job[c]
           i == idx[c]
           w == CurrentWafer(c)
           b == <<Event(SubstrateLocationChanged, w)>>
<1>0. /\ TypeOK /\ j \in Jobs /\ i \in 1 .. Len(pjWafers[j]) /\ w = pjWafers[j][i]
      /\ w \in Wafers /\ loc[w] # "None" /\ pc[c] \in {"load", "unload"}
      /\ pjState[j] \in {"Executing", "Aborted"}
  <2>1. pc[c] \in {"load", "unload"} /\ TypeOK
    BY DEF IInv, Load, Unload, Free
  <2>2. /\ j \in Jobs /\ pjState[j] \in {"Executing", "Aborted"}
        /\ i <= Len(pjWafers[j]) /\ w = pjWafers[j][i]
    BY <2>1 DEF IInv, ThreadsHoldJobs, WafersAreDoneInOrder, PastPhase1, Running, CurrentWafer
  <2>3. i \in Nat \ {0} /\ pjWafers[j] \in Seq(Wafers)
    BY <2>1, <2>2 DEF TypeOK
  <2>4. i \in 1 .. Len(pjWafers[j]) /\ w \in Wafers
    BY <2>2, <2>3
  <2>5. loc[w] # "None"
    BY <2>2, <2>4 DEF IInv, WafersAreOwned
  <2> QED
    BY <2>1, <2>2, <2>4, <2>5
<1> HIDE DEF w
<1>1. /\ \E to \in {"Chamber", "Fixed"} : loc' = [loc EXCEPT ![w] = to]
      /\ outbox' = [outbox EXCEPT ![c] = b]
      /\ UNCHANGED <<waferLot, lotVars, jobVars, gemVars, recipes, samples, link, told,
                     job, failed>>
  BY <1>0 DEF Load, Unload, MoveSubstrate, w
<1>2. /\ loc' \in [Wafers -> Location] /\ loc'[w] # "None"
      /\ \A x \in Wafers : x # w => loc'[x] = loc[x]
  BY <1>0, <1>1 DEF TypeOK, Location
<1>3. \/ /\ pc[c] = "load" /\ pc' = [pc EXCEPT ![c] = "expose"] /\ idx' = idx
      \/ /\ pc[c] = "unload" /\ pc' = [pc EXCEPT ![c] = NextPoint(j, i + 1)]
         /\ idx' = [idx EXCEPT ![c] = i + 1] /\ loc'[w] = "Fixed"
  BY <1>0 DEF Load, Unload, Free, MoveSubstrate, TypeOK, w
<1>4. NextPoint(j, i + 1) = IF i + 1 > Len(pjWafers[j]) THEN "finish" ELSE "load"
  BY DEF NextPoint
<1>5. \A k \in Jobs : \A m \in 1 .. Len(pjWafers[k]) : pjWafers[k][m] = w => k = j /\ m = i
  BY <1>0 DEF IInv, WafersAreOwned
<1>6. \A k \in Jobs : \A m \in 1 .. Len(pjWafers[k]) : pjWafers[k][m] \in Wafers
  BY <1>0 DEF TypeOK
<1>7. \A d \in Conns : /\ d # c => pc'[d] = pc[d] /\ idx'[d] = idx[d]
                       /\ pc'[d] \in PastPhase1 <=> pc[d] \in PastPhase1
                       /\ pc'[d] \in Running <=> pc[d] \in Running
                       /\ pc'[d] = "validate" <=> pc[d] = "validate"
  BY <1>0, <1>3, <1>4 DEF TypeOK, PastPhase1, Running
<1>8. outbox' \in [Conns -> Seq(Message)] /\ ReportsMatch'
  <2>1. Event(SubstrateLocationChanged, w) \in Message
        /\ Event(SubstrateLocationChanged, w).id = 5001
    BY <1>0, MessageTypes DEF SubstrateLocationChanged
  <2>2. b \in Seq(Message) /\ \A k \in 1 .. Len(b) : EndMatches(b[k], pjState')
    BY <2>1, OtherReports DEF ProcessJobCompleted, ProcessJobAborted
  <2>3. \A k \in Jobs : pjState[k] \in PJTerminal => pjState'[k] = pjState[k]
    BY <1>1 DEF jobVars
  <2>4. \A d \in Conns : told'[d] \subseteq told[d]
    BY <1>1
  <2>5. outbox' = outbox \/ outbox' = [outbox EXCEPT ![c] = b]
    BY <1>1
  <2> HIDE DEF b
  <2> QED
    BY <2>2, <2>3, <2>4, <2>5, BatchReports
<1>9. TypeOK'
  <2>0. \E q \in Point : pc' = [pc EXCEPT ![c] = q]
    BY <1>3, <1>4 DEF Point, Running
  <2>1. pc' \in [Conns -> Point]
    BY <1>0, <2>0 DEF TypeOK
  <2>2. idx' \in [Conns -> Nat \ {0}]
    BY <1>0, <1>3 DEF TypeOK
  <2> QED
    BY <1>0, <1>1, <1>2, <1>8, <2>1, <2>2 DEF TypeOK, lotVars, jobVars, gemVars
<1>10. WafersAreOwned'
  <2>1. \A k \in Jobs : \A m \in 1 .. Len(pjWafers[k]) : loc'[pjWafers[k][m]] # "None"
    BY <1>2, <1>6 DEF IInv, WafersAreOwned
  <2> QED
    BY <1>1, <2>1 DEF IInv, WafersAreOwned, jobVars
<1>11. CompletedJobsAreExposed'
  <2>1. ASSUME NEW k \in Jobs, pjState[k] = "Completed", NEW m \in 1 .. Len(pjWafers[k])
        PROVE  loc'[pjWafers[k][m]] = "Fixed"
    <3>1. k # j
      BY <1>0, <2>1
    <3>2. pjWafers[k][m] # w /\ pjWafers[k][m] \in Wafers
      BY <1>5, <1>6, <3>1
    <3>3. loc[pjWafers[k][m]] = "Fixed"
      BY <2>1 DEF IInv, CompletedJobsAreExposed, AllFixed, WaferSet
    <3> QED
      BY <1>2, <3>2, <3>3
  <2> QED
    BY <1>1, <2>1 DEF CompletedJobsAreExposed, AllFixed, WaferSet, jobVars
<1>12. ThreadsHoldJobs' /\ ExclusiveRunner'
  BY <1>1, <1>7 DEF IInv, ThreadsHoldJobs, ExclusiveRunner, jobVars
<1>13. WafersAreDoneInOrder'
  <2>1. ASSUME NEW d \in Conns, d # c, pc[d] \in Running, NEW m \in 1 .. Len(pjWafers[job[d]]),
               m < idx[d]
        PROVE  loc'[pjWafers[job[d]][m]] = "Fixed"
    <3>1. job[d] \in Jobs /\ job[d] # j
      BY <1>0, <2>1 DEF IInv, ThreadsHoldJobs, ExclusiveRunner, PastPhase1, Running
    <3>2. pjWafers[job[d]][m] # w /\ pjWafers[job[d]][m] \in Wafers
      BY <1>5, <1>6, <3>1
    <3>3. loc[pjWafers[job[d]][m]] = "Fixed"
      BY <2>1 DEF IInv, WafersAreDoneInOrder
    <3> QED
      BY <1>2, <3>2, <3>3
  <2>2. ASSUME NEW m \in 1 .. Len(pjWafers[j]), m < i
        PROVE  loc'[pjWafers[j][m]] = "Fixed"
    <3>1. pjWafers[j][m] # w
      <4>1. m # i
        BY <2>2
      <4> QED
        BY <1>0, <1>5, <4>1
    <3>1a. pjWafers[j][m] \in Wafers
      BY <1>0, <1>6
    <3>2. loc[pjWafers[j][m]] = "Fixed"
      BY <1>0, <2>2 DEF IInv, WafersAreDoneInOrder, Running
    <3> QED
      BY <1>2, <3>1, <3>1a, <3>2
  <2>3. /\ pc'[c] \in {"expose", "load", "finish"}
        /\ pc'[c] \in {"expose", "load"} => idx'[c] <= Len(pjWafers[j])
        /\ pc'[c] = "finish" => idx'[c] > Len(pjWafers[j])
        /\ idx'[c] = i \/ (idx'[c] = i + 1 /\ loc'[w] = "Fixed")
    <3>0. Len(pjWafers[j]) \in Nat /\ i \in Nat
      BY <1>0
    <3>1. CASE pc[c] = "load" /\ pc' = [pc EXCEPT ![c] = "expose"] /\ idx' = idx
      <4>1. pc'[c] = "expose" /\ idx'[c] = i
        BY <1>0, <3>1 DEF TypeOK
      <4> QED
        BY <1>0, <3>0, <4>1
    <3>2. CASE pc[c] = "unload" /\ pc' = [pc EXCEPT ![c] = NextPoint(j, i + 1)]
                 /\ idx' = [idx EXCEPT ![c] = i + 1] /\ loc'[w] = "Fixed"
      BY <1>0, <1>4, <3>0, <3>2 DEF TypeOK
    <3> QED
      BY <1>3, <3>1, <3>2
  <2>4. \A m \in 1 .. Len(pjWafers[j]) : m < idx'[c] => loc'[pjWafers[j][m]] = "Fixed"
    BY <1>0, <2>2, <2>3
  <2>5. job' = job /\ pjWafers' = pjWafers /\ failed' = failed
    BY <1>1 DEF jobVars
  <2> QED
    BY <1>7, <2>1, <2>3, <2>4, <2>5 DEF IInv, WafersAreDoneInOrder, Running
<1> QED
  BY <1>8, <1>9, <1>10, <1>11, <1>12, <1>13 DEF IInv

(* The elements of a sequence with one put before it.                        *)
LEMMA ConsElements ==
  ASSUME NEW S, NEW x \in S, NEW s \in Seq(S)
  PROVE  /\ <<x>> \o s \in Seq(S)
         /\ \A i \in 1 .. Len(<<x>> \o s) :
              (<<x>> \o s)[i] = x \/ \E k \in 1 .. Len(s) : (<<x>> \o s)[i] = s[k]
         /\ (<<x>> \o s)[1] = x
         /\ \A i \in 1 .. Len(<<x>> \o s) :
              i # 1 => i - 1 \in 1 .. Len(s) /\ (<<x>> \o s)[i] = s[i - 1]
<1>1. <<x>> \in Seq(S) /\ Len(<<x>>) = 1 /\ <<x>>[1] = x
  OBVIOUS
<1>2. <<x>> \o s \in Seq(S) /\ Len(<<x>> \o s) = 1 + Len(s)
  BY <1>1
<1>3. ASSUME NEW i \in 1 .. Len(<<x>> \o s), i # 1
      PROVE  i - 1 \in 1 .. Len(s) /\ (<<x>> \o s)[i] = s[i - 1]
  BY <1>1, <1>2, <1>3
<1>4. (<<x>> \o s)[1] = x
  BY <1>1, <1>2
<1> QED
  BY <1>2, <1>3, <1>4

(* The end of a job: it was executing, its runner is the only thread past    *)
(* phase 1 with it, and without a failure every wafer is out.                *)
LEMMA FinishAction ==
  ASSUME IInv, NEW c \in Conns, Finish(c)
  PROVE  IInv'
<1> DEFINE j == job[c]
           o == Outcome(c)
           ceid == IF failed[c] THEN ProcessJobAborted ELSE ProcessJobCompleted
           lotTo == IF failed[c] THEN "OnHold" ELSE "Completed"
           evs == MoveLotEvents(LotOfVia, lotTo)
           head == <<Event(ceid, j)>>
           b == head \o evs
<1>0. TypeOK /\ j \in Jobs /\ pc[c] = "finish" /\ pjState[j] = "Executing"
  <2>1. TypeOK /\ j \in Jobs /\ pc[c] = "finish" /\ pjState[j] \in {"Executing", "Aborted"}
    BY DEF IInv, ThreadsHoldJobs, PastPhase1, Running, Finish, Free
  <2>2. pjState[j] # "Aborted"
    BY DEF Finish, PJLegal, PJOrder, Outcome, PJTerminal
  <2> QED
    BY <2>1, <2>2
<1>1. /\ pjState' = [pjState EXCEPT ![j] = o]
      /\ lotState' = MoveLot(LotOfVia, lotTo)
      /\ lotsProcessed' = IF failed[c] THEN lotsProcessed ELSE lotsProcessed + 1
      /\ samples' = samples \cup {j}
      /\ outbox' = [outbox EXCEPT ![c] = b]
      /\ pc' = [pc EXCEPT ![c] = "idle"]
      /\ job' = [job EXCEPT ![c] = Null]
      /\ idx' = [idx EXCEPT ![c] = 1]
      /\ failed' = [failed EXCEPT ![c] = FALSE]
      /\ UNCHANGED <<substrateVars, carriers, lotSeq, lotWafers, pjRecipe, pjWafers,
                     ec, alarms, recipes, link, told>>
  BY DEF Finish, ReturnOk
<1>2. /\ \/ o = "Completed" /\ ~failed[c] /\ ceid = ProcessJobCompleted
         \/ o = "Aborted" /\ failed[c] /\ ceid = ProcessJobAborted
      /\ pjState' \in [Jobs -> PJState \cup {"None"}]
      /\ pjState'[j] = o
      /\ \A k \in Jobs : k # j => pjState'[k] = pjState[k]
  BY <1>0, <1>1 DEF TypeOK, PJState, Outcome
<1>3. /\ pc' \in [Conns -> Point] /\ pc'[c] = "idle" /\ idx'[c] = 1
      /\ \A d \in Conns : d # c => pc'[d] = pc[d] /\ job'[d] = job[d] /\ idx'[d] = idx[d]
                                   /\ failed'[d] = failed[d]
      /\ \A d \in Conns : d # c /\ pc[d] \in PastPhase1 => job[d] # j
  BY <1>0, <1>1 DEF IInv, TypeOK, Point, ThreadsHoldJobs, PastPhase1, Running
<1>4. outbox' \in [Conns -> Seq(Message)] /\ ReportsMatch'
  <2>1. /\ evs \in Seq(Message)
        /\ \A i \in 1 .. Len(evs) : evs[i].id \in 7001 .. 7005
    BY <1>0, LotTypes
  <2>2. Event(ceid, j) \in Message /\ EndMatches(Event(ceid, j), pjState')
    <3>1. Event(ceid, j) \in Message
      BY <1>0, MessageTypes DEF ProcessJobCompleted, ProcessJobAborted
    <3>2. EndMatches(Event(ceid, j), pjState')
      BY <1>0, <1>2 DEF EndMatches, Event, ProcessJobCompleted, ProcessJobAborted
    <3> QED
      BY <3>1, <3>2
  <2>3. /\ head \in Seq(Message) /\ Len(head) = 1 /\ head[1] = Event(ceid, j)
    BY <2>2
  <2>4. outbox' = outbox \/ outbox' = [outbox EXCEPT ![c] = b]
    BY <1>1
  <2> HIDE DEF evs, head, ceid
  <2>5. /\ b \in Seq(Message)
        /\ \A i \in 1 .. Len(b) : b[i] = Event(ceid, j) \/ b[i].id \in 7001 .. 7005
    <3>1. Event(ceid, j) \in Message /\ evs \in Seq(Message)
      BY <2>1, <2>2
    <3>2. \A i \in 1 .. Len(b) : b[i] = Event(ceid, j) \/ \E k \in 1 .. Len(evs) : b[i] = evs[k]
      BY <3>1, ConsElements DEF head
    <3> QED
      BY <2>1, <3>1, <3>2, ConsElements DEF head
  <2> HIDE DEF b
  <2>6. ASSUME NEW i \in 1 .. Len(b) PROVE EndMatches(b[i], pjState')
    <3>1. CASE b[i] = Event(ceid, j)
      BY <2>2, <3>1
    <3>2. CASE b[i].id \in 7001 .. 7005
      <4>1. b[i].id \notin {ProcessJobCompleted, ProcessJobAborted}
        BY <3>2 DEF ProcessJobCompleted, ProcessJobAborted
      <4> QED
        BY <4>1, OtherReports
    <3> QED
      BY <2>5, <3>1, <3>2
  <2>7. \A k \in Jobs : pjState[k] \in PJTerminal => pjState'[k] = pjState[k]
    BY <1>0, <1>2 DEF PJTerminal
  <2>8. \A d \in Conns : told'[d] \subseteq told[d]
    BY <1>1
  <2> QED
    BY <2>4, <2>5, <2>6, <2>7, <2>8, BatchReports
<1> HIDE DEF b, evs, head, ceid
<1>5. TypeOK'
  <2>1. lotState' \in [Lots -> LotStates]
    BY <1>0, <1>1, LotTypes DEF LotStates
  <2>2. job' \in [Conns -> Jobs \cup {Null}]
    BY <1>0, <1>1 DEF TypeOK
  <2>3. idx' \in [Conns -> Nat \ {0}]
    BY <1>0, <1>1 DEF TypeOK
  <2>4. failed' \in [Conns -> BOOLEAN]
    BY <1>0, <1>1 DEF TypeOK
  <2>5. lotsProcessed' \in Nat /\ samples' \subseteq Jobs
    BY <1>0, <1>1 DEF TypeOK
  <2> QED
    BY <1>0, <1>1, <1>2, <1>3, <1>4, <2>1, <2>2, <2>3, <2>4, <2>5 DEF TypeOK, substrateVars
<1>6. WafersAreOwned'
  BY <1>1 DEF IInv, WafersAreOwned, substrateVars
<1>7. CompletedJobsAreExposed'
  <2>1. ASSUME NEW k \in Jobs, pjState'[k] = "Completed", NEW m \in 1 .. Len(pjWafers[k])
        PROVE  loc[pjWafers[k][m]] = "Fixed"
    <3>1. CASE k = j
      <4>1. ~failed[c] /\ idx[c] > Len(pjWafers[j])
        BY <1>0, <1>2, <2>1, <3>1 DEF IInv, WafersAreDoneInOrder
      <4>2. idx[c] \in Nat /\ pjWafers[j] \in Seq(Wafers)
        BY <1>0 DEF TypeOK
      <4>3. m < idx[c]
        BY <2>1, <3>1, <4>1, <4>2
      <4> QED
        BY <1>0, <2>1, <3>1, <4>3 DEF IInv, WafersAreDoneInOrder, Running
    <3>2. CASE k # j
      BY <1>2, <2>1, <3>2 DEF IInv, CompletedJobsAreExposed, AllFixed, WaferSet
    <3> QED
      BY <3>1, <3>2
  <2> QED
    BY <1>1, <2>1 DEF CompletedJobsAreExposed, AllFixed, WaferSet, substrateVars
<1>8. ThreadsHoldJobs'
  <2>1. \A d \in Conns : pc'[d] \in PastPhase1 \cup {"validate"} =>
                          d # c /\ job'[d] \in Jobs
    BY <1>0, <1>1, <1>3 DEF IInv, ThreadsHoldJobs, PastPhase1, Running
  <2>2. \A d \in Conns : pc'[d] \in PastPhase1 => pjState'[job'[d]] \in {"Executing", "Aborted"}
    BY <1>0, <1>2, <1>3, <2>1 DEF IInv, ThreadsHoldJobs
  <2>3. ASSUME NEW d \in Conns, NEW e \in Conns, d # e, pc'[d] \in PastPhase1,
               pc'[e] \in PastPhase1, job'[d] = job'[e]
        PROVE  pjState'[job'[d]] = "Aborted"
    BY <1>0, <1>2, <1>3, <2>1, <2>3 DEF IInv, ThreadsHoldJobs
  <2> QED
    BY <2>1, <2>2, <2>3 DEF ThreadsHoldJobs
<1>9. ExclusiveRunner'
  BY <1>1, <1>3 DEF IInv, ExclusiveRunner, Running
<1>10. WafersAreDoneInOrder'
  BY <1>1, <1>3 DEF IInv, WafersAreDoneInOrder, Running, substrateVars
<1> QED
  BY <1>4, <1>5, <1>6, <1>7, <1>8, <1>9, <1>10 DEF IInv

(* Staging: only unregistered wafers are placed, and a job that is created   *)
(* gets wafers that were all unregistered and are listed once.               *)
LEMMA StageAction ==
  ASSUME IInv, NEW s \in Stagings, Stage(s)
  PROVE  IInv'
<1> DEFINE new == {s.wafers[i] : i \in Registered(s)}
<1>0. /\ TypeOK /\ s.lot \in Lots /\ s.wafers \in Seq(Wafers) /\ s.job \in Jobs
      /\ s.recipe \in Recipes
  BY DEF IInv
<1>1. /\ loc' = [w \in Wafers |-> IF w \in new THEN "Port" ELSE loc[w]]
      /\ waferLot' = [w \in Wafers |-> IF w \in new THEN s.lot ELSE waferLot[w]]
      /\ UNCHANGED <<recipes, samples, gemVars, connVars>>
  BY DEF Stage
<1>2. \A i \in Registered(s) : i \in 1 .. Len(s.wafers) /\ ~Duplicate(s, i)
  <2>1. ASSUME NEW i \in Registered(s)
        PROVE  i \in 1 .. Len(s.wafers) /\ \A k \in 1 .. i : ~Duplicate(s, k)
    BY <2>1 DEF Registered
  <2>2. ASSUME NEW i \in Registered(s) PROVE i \in 1 .. i
    BY <1>0, <2>1
  <2> QED
    BY <2>1, <2>2
<1>3. /\ \A w \in new : w \in Wafers /\ loc[w] = "None"
      /\ \A w \in Wafers : loc[w] # "None" => loc'[w] = loc[w]
  <2>1. \A w \in new : w \in Wafers /\ loc[w] = "None"
    BY <1>0, <1>2 DEF Duplicate
  <2> HIDE DEF new
  <2> QED
    BY <1>1, <2>1
<1>4. \/ UNCHANGED lotVars
      \/ /\ carriers' = carriers \cup {s.lot}
         /\ lotSeq' = Append(lotSeq, s.lot)
         /\ lotState' = [lotState EXCEPT ![s.lot] = "InQueue"]
         /\ lotWafers' = [lotWafers EXCEPT ![s.lot] = s.wafers]
  BY DEF Stage
<1>5. \/ UNCHANGED jobVars
      \/ /\ JobAccepted(s)
         /\ pjState' = [pjState EXCEPT ![s.job] = "Queued"]
         /\ pjRecipe' = [pjRecipe EXCEPT ![s.job] = s.recipe]
         /\ pjWafers' = [pjWafers EXCEPT ![s.job] = s.wafers]
  BY DEF Stage
<1>6. JobAccepted(s) =>
        /\ pjState[s.job] = "None"
        /\ \A i \in 1 .. Len(s.wafers) : s.wafers[i] \in new
        /\ \A i, k \in 1 .. Len(s.wafers) : s.wafers[i] = s.wafers[k] => i = k
  <2> SUFFICES ASSUME JobAccepted(s)
               PROVE  /\ pjState[s.job] = "None"
                      /\ \A i \in 1 .. Len(s.wafers) : s.wafers[i] \in new
                      /\ \A i, k \in 1 .. Len(s.wafers) : s.wafers[i] = s.wafers[k] => i = k
    OBVIOUS
  <2>1. pjState[s.job] = "None" /\ Registered(s) = 1 .. Len(s.wafers)
    BY DEF JobAccepted, LotAccepted, AllRegistered
  <2>2. \A i \in 1 .. Len(s.wafers) : s.wafers[i] \in new
    BY <2>1
  <2>3. ASSUME NEW i \in 1 .. Len(s.wafers), NEW k \in 1 .. Len(s.wafers), k < i
        PROVE  s.wafers[i] # s.wafers[k]
    <3>1. ~Duplicate(s, i) /\ k \in 1 .. i - 1
      BY <1>2, <2>1, <2>3
    <3> QED
      BY <3>1 DEF Duplicate
  <2>4. \A i, k \in 1 .. Len(s.wafers) : i = k \/ i < k \/ k < i
    BY <1>0
  <2> QED
    BY <2>1, <2>2, <2>3, <2>4
<1>7. TypeOK'
  <2>1. loc' \in [Wafers -> Location]
    BY <1>0, <1>1 DEF TypeOK, Location
  <2>2. waferLot' \in [Wafers -> Lots \cup {Null}]
    BY <1>0, <1>1 DEF TypeOK
  <2>3. /\ carriers' \subseteq Lots /\ lotSeq' \in Seq(Lots)
        /\ lotState' \in [Lots -> LotStates] /\ lotWafers' \in [Lots -> Seq(Wafers)]
    <3>1. CASE UNCHANGED lotVars
      BY <1>0, <3>1 DEF TypeOK, lotVars
    <3>2. CASE /\ carriers' = carriers \cup {s.lot}
               /\ lotSeq' = Append(lotSeq, s.lot)
               /\ lotState' = [lotState EXCEPT ![s.lot] = "InQueue"]
               /\ lotWafers' = [lotWafers EXCEPT ![s.lot] = s.wafers]
      BY <1>0, <3>2 DEF TypeOK, LotStates
    <3> QED
      BY <1>4, <3>1, <3>2
  <2>4. /\ pjState' \in [Jobs -> PJState \cup {"None"}]
        /\ pjRecipe' \in [Jobs -> Recipes \cup {Null}]
        /\ pjWafers' \in [Jobs -> Seq(Wafers)]
    BY <1>0, <1>5 DEF TypeOK, jobVars, PJState
  <2> QED
    BY <1>0, <1>1, <2>1, <2>2, <2>3, <2>4 DEF TypeOK, gemVars, connVars, threadVars
<1> HIDE DEF new
<1>8. \A k \in Jobs : \/ pjState'[k] = pjState[k] /\ pjWafers'[k] = pjWafers[k]
                      \/ /\ k = s.job /\ JobAccepted(s) /\ pjState[k] = "None"
                         /\ pjState'[k] = "Queued" /\ pjWafers'[k] = s.wafers
  BY <1>0, <1>5, <1>6 DEF TypeOK, jobVars
<1>9. \A k \in Jobs : \A m \in 1 .. Len(pjWafers[k]) :
        /\ pjWafers[k][m] \in Wafers /\ pjWafers[k][m] \notin new
        /\ loc'[pjWafers[k][m]] = loc[pjWafers[k][m]] /\ loc[pjWafers[k][m]] # "None"
  <2>1. ASSUME NEW k \in Jobs, NEW m \in 1 .. Len(pjWafers[k])
        PROVE  pjWafers[k][m] \in Wafers /\ loc[pjWafers[k][m]] # "None"
    <3>1. pjWafers[k] \in Seq(Wafers)
      BY <1>0 DEF TypeOK
    <3>2. loc[pjWafers[k][m]] # "None"
      BY <2>1 DEF IInv, WafersAreOwned
    <3> QED
      BY <2>1, <3>1, <3>2
  <2> QED
    BY <1>3, <2>1
<1>10. WafersAreOwned'
  <2>1. ASSUME NEW k \in Jobs, NEW m \in 1 .. Len(pjWafers'[k])
        PROVE  loc'[pjWafers'[k][m]] # "None"
    <3>1. CASE pjWafers'[k] = pjWafers[k]
      BY <1>9, <3>1
    <3>2. CASE JobAccepted(s) /\ pjWafers'[k] = s.wafers
      BY <1>1, <1>3, <1>6, <3>2
    <3> QED
      BY <1>8, <3>1, <3>2
  <2>2. ASSUME NEW k \in Jobs, NEW h \in Jobs, NEW m \in 1 .. Len(pjWafers'[k]),
               NEW n \in 1 .. Len(pjWafers'[h]), pjWafers'[k][m] = pjWafers'[h][n]
        PROVE  k = h /\ m = n
    <3>1. CASE pjWafers'[k] = pjWafers[k] /\ pjWafers'[h] = pjWafers[h]
      BY <2>2, <3>1 DEF IInv, WafersAreOwned
    <3>2. CASE /\ k = s.job /\ JobAccepted(s) /\ pjWafers'[k] = s.wafers
               /\ pjWafers'[h] = pjWafers[h]
      BY <1>6, <1>9, <2>2, <3>2
    <3>3. CASE /\ h = s.job /\ JobAccepted(s) /\ pjWafers'[h] = s.wafers
               /\ pjWafers'[k] = pjWafers[k]
      BY <1>6, <1>9, <2>2, <3>3
    <3>4. CASE /\ k = s.job /\ h = s.job /\ JobAccepted(s)
               /\ pjWafers'[k] = s.wafers /\ pjWafers'[h] = s.wafers
      BY <1>6, <2>2, <3>4
    <3> QED
      BY <1>8, <3>1, <3>2, <3>3, <3>4
  <2> QED
    BY <2>1, <2>2 DEF WafersAreOwned
<1>11. UNCHANGED <<pc, job, idx, failed, outbox, told>>
  BY <1>1 DEF connVars, threadVars
<1>12. \A d \in Conns : pc[d] \in PastPhase1 =>
         /\ job[d] \in Jobs /\ pjState'[job[d]] = pjState[job[d]]
         /\ pjWafers'[job[d]] = pjWafers[job[d]]
  <2>1. \A d \in Conns : pc[d] \in PastPhase1 =>
          job[d] \in Jobs /\ pjState[job[d]] \in {"Executing", "Aborted"}
    BY DEF IInv, ThreadsHoldJobs
  <2> QED
    BY <1>8, <2>1
<1>13. ThreadsHoldJobs'
  BY <1>11, <1>12 DEF IInv, ThreadsHoldJobs
<1>14. ExclusiveRunner'
  BY <1>11 DEF IInv, ExclusiveRunner
<1>15. WafersAreDoneInOrder'
  BY <1>9, <1>11, <1>12 DEF IInv, WafersAreDoneInOrder, PastPhase1, Running
<1>16. CompletedJobsAreExposed'
  <2>1. ASSUME NEW k \in Jobs, pjState'[k] = "Completed", NEW m \in 1 .. Len(pjWafers'[k])
        PROVE  loc'[pjWafers'[k][m]] = "Fixed"
    <3>1. pjState[k] = "Completed" /\ pjWafers'[k] = pjWafers[k]
      BY <1>8, <2>1
    <3>2. loc[pjWafers[k][m]] = "Fixed"
      BY <2>1, <3>1 DEF IInv, CompletedJobsAreExposed, AllFixed, WaferSet
    <3> QED
      BY <1>9, <2>1, <3>1, <3>2
  <2> QED
    BY <2>1 DEF CompletedJobsAreExposed, AllFixed, WaferSet
<1>17. ReportsMatch'
  <2>1. \A k \in Jobs : pjState[k] \in PJTerminal => pjState'[k] = pjState[k]
    BY <1>8 DEF PJTerminal
  <2>2. \A x : EndMatches(x, pjState) => EndMatches(x, pjState')
    BY <2>1 DEF EndMatches, PJTerminal
  <2> QED
    BY <1>11, <2>2 DEF IInv, ReportsMatch
<1> QED
  BY <1>7, <1>10, <1>13, <1>14, <1>15, <1>16, <1>17 DEF IInv

(* No step of the system breaks the inductive invariant, nor does a stutter. *)
LEMMA StepIInv == IInv /\ [Next]_vars => IInv'
<1> SUFFICES ASSUME IInv, [Next]_vars PROVE IInv'
  OBVIOUS
<1>1. CASE \E s \in Stagings : Stage(s)
  BY <1>1, StageAction
<1>2. ASSUME NEW c \in Conns, ThreadStep(c) PROVE IInv'
  <2>1. CASE Validate(c)
    BY <2>1, ClosingStep, AbortActions, StartAction DEF Validate
  <2>2. CASE Process(c)
    BY <2>2, ClosingStep, ThreadActions, MoveActions, FinishAction DEF Process
  <2>3. CASE Send(c)
    BY <2>3, ClosingStep, SendStep DEF Send
  <2> QED
    BY <1>2, <2>1, <2>2, <2>3 DEF ThreadStep
<1>3. ASSUME NEW c \in Conns, PeerStep(c) PROVE IInv'
  BY <1>3, ClosingStep, PeerActions DEF PeerStep, Request
<1>4. CASE UNCHANGED vars
  <2>1. UNCHANGED <<loc, waferLot, carriers, lotSeq, lotState, lotWafers, pjState, pjRecipe,
                    pjWafers, recipes, ec, alarms, lotsProcessed, samples, link, pc, job, idx,
                    failed, outbox, told>>
    BY <1>4 DEF vars, fabVars, substrateVars, lotVars, jobVars, gemVars, connVars, threadVars
  <2> QED
    <3>1. TypeOK'
      BY <2>1 DEF IInv, TypeOK
    <3>2. WafersAreOwned' /\ ThreadsHoldJobs' /\ ExclusiveRunner' /\ WafersAreDoneInOrder'
      BY <2>1 DEF IInv, WafersAreOwned, ThreadsHoldJobs, ExclusiveRunner, WafersAreDoneInOrder
    <3>3. CompletedJobsAreExposed' /\ ReportsMatch'
      BY <2>1 DEF IInv, CompletedJobsAreExposed, AllFixed, WaferSet, ReportsMatch, EndMatches
    <3> QED
      BY <3>1, <3>2, <3>3 DEF IInv
<1> QED
  BY <1>1, <1>2, <1>3, <1>4 DEF Next

(* IInv, the invariant behind the theorems below, holds in every reachable   *)
(* state: wafers belong to one job, a running thread holds an executing or   *)
(* aborted job, and wafers are done in order.                                *)
THEOREM Invariant == Spec => []IInv
BY InitIInv, StepIInv, PTL DEF Spec

(* TypeOK: every variable of the simulator keeps its type.                   *)
THEOREM TypeCorrect == Spec => []TypeOK
<1>1. IInv => TypeOK
  BY DEF IInv
<1> QED
  BY <1>1, Invariant, PTL

(* ExclusiveRunner: no two connections process the same job at once, for any *)
(* number of connections whose hosts sent START for it (phase 1 and the      *)
(* check of `started` in run_process_job).                                   *)
THEOREM OneRunnerPerJob == Spec => []ExclusiveRunner
<1>1. IInv => ExclusiveRunner
  BY DEF IInv
<1> QED
  BY <1>1, Invariant, PTL

(* CompletedJobsAreExposed: all wafers of a completed job are out of the     *)
(* chamber and stay out (phases 2 and 3 of run_process_job).                 *)
THEOREM CompletedMeansExposed == Spec => []CompletedJobsAreExposed
<1>1. IInv => CompletedJobsAreExposed
  BY DEF IInv
<1> QED
  BY <1>1, Invariant, PTL

(* ToldTheTruth: an end of a job that reached a host is the end the job had, *)
(* with every wafer out when it was Completed, although reports are written  *)
(* after the mutex is released.                                              *)
THEOREM HostsAreToldTheTruth == Spec => []ToldTheTruth
<1>1. IInv => ToldTheTruth
  <2> SUFFICES ASSUME IInv, NEW c \in Conns, NEW j \in Jobs
               PROVE  /\ Event(ProcessJobCompleted, j) \in told[c]
                           => pjState[j] = "Completed" /\ AllFixed(j)
                      /\ Event(ProcessJobAborted, j) \in told[c] => pjState[j] = "Aborted"
    BY DEF ToldTheTruth
  <2>1. \A m \in told[c] : EndMatches(m, pjState)
    BY DEF IInv, ReportsMatch
  <2>2. pjState[j] = "Completed" => AllFixed(j)
    BY DEF IInv, CompletedJobsAreExposed
  <2> QED
    BY <2>1, <2>2 DEF EndMatches
<1> QED
  BY <1>1, Invariant, PTL

-----------------------------------------------------------------------------
(* What builds on IInv.  The actions of a connection fall into seven kinds, *)
(* according to what they do to jobs, wafers and reports.  Each invariant   *)
(* is proved kind by kind.                                                  *)

HIDE FabSimAssumption

Others(c) ==
  \A d \in Conns \ {c} :
    /\ pc'[d] = pc[d] /\ job'[d] = job[d] /\ idx'[d] = idx[d]
    /\ outbox'[d] = outbox[d] /\ told'[d] = told[d]

(* What every step of a connection leaves alone. *)
ListsKept == UNCHANGED <<waferLot, carriers, pjWafers>>

LotsKept == UNCHANGED <<lotState, lotsProcessed>>

(* Nothing happens to jobs or wafers, no thread gets past phase 1, and what  *)
(* is put into the outbox is no report of a job.                             *)
QuietStep(c) ==
  /\ Others(c) /\ ListsKept /\ LotsKept /\ UNCHANGED <<loc, pjState>>
  /\ pc'[c] \in PastPhase1 => /\ pc[c] \in PastPhase1
                              /\ pc'[c] = "check" <=> pc[c] = "check"
                              /\ job'[c] = job[c] /\ idx'[c] = idx[c]
  /\ \/ outbox'[c] = outbox[c]
     \/ \A i \in 1 .. Len(outbox'[c]), j \in Jobs : ~IsAbout(outbox'[c][i], j)
  /\ told'[c] = told[c] \/ told'[c] = {}

(* The next message is written; its receipt is up to the network. *)
WriteStep(c) ==
  /\ Others(c) /\ ListsKept /\ LotsKept /\ UNCHANGED <<loc, pjState>>
  /\ pc'[c] = pc[c] /\ job'[c] = job[c] /\ idx'[c] = idx[c]
  /\ outbox[c] # <<>> /\ outbox'[c] = Tail(outbox[c])
  /\ told'[c] = told[c] \/ told'[c] = told[c] \cup {Head(outbox[c])}

(* The check of `started` passes. *)
BeginStep(c) ==
  /\ Others(c) /\ ListsKept /\ LotsKept /\ UNCHANGED <<loc, pjState>>
  /\ pc[c] = "check" /\ pjState[job[c]] = "Executing" /\ outbox[c] = <<>>
  /\ pc'[c] \in {"load", "finish"} /\ job'[c] = job[c] /\ idx'[c] = idx[c]
  /\ outbox'[c] = <<>> /\ told'[c] = told[c]

(* The runner's wafer goes into the chamber or out of it. *)
MoveStep(c) ==
  /\ Others(c) /\ ListsKept /\ LotsKept /\ UNCHANGED pjState
  /\ \/ pc[c] = "load" /\ idx'[c] = idx[c] /\ loc' = [loc EXCEPT ![CurrentWafer(c)] = "Chamber"]
     \/ pc[c] = "unload" /\ idx'[c] = idx[c] + 1
          /\ loc' = [loc EXCEPT ![CurrentWafer(c)] = "Fixed"]
  /\ pc'[c] \in Running /\ job'[c] = job[c]
  /\ outbox[c] = <<>>
  /\ outbox'[c] = <<Event(SubstrateLocationChanged, CurrentWafer(c))>>
  /\ told'[c] = told[c]

(* Phase 1 sets up and starts the job. *)
StartStep(c) ==
  /\ Others(c) /\ ListsKept /\ UNCHANGED <<loc, lotsProcessed>>
  /\ pc[c] = "validate" /\ outbox[c] = <<>> /\ pjState[job[c]] = "Queued"
  /\ pjState' = [pjState EXCEPT ![job[c]] = "Executing"]
  /\ lotState' = MoveLot(LotOfVia, "InProcessing")
  /\ pc'[c] = "check" /\ job'[c] = job[c]
  /\ \A i \in 1 .. Len(outbox'[c]) :
       \/ outbox'[c][i] \in {Event(ProcessJobCreated, job[c]), Event(ProcessJobStarted, job[c])}
       \/ outbox'[c][i].id \in 7001 .. 7005
  /\ told'[c] = told[c]

(* Phase 1 aborts the job. *)
AbortStep(c) ==
  /\ Others(c) /\ ListsKept /\ UNCHANGED <<loc, lotsProcessed>>
  /\ pc[c] = "validate" /\ outbox[c] = <<>>
  /\ pjState[job[c]] \notin PJTerminal \cup {"None"}
  /\ pjState' = [pjState EXCEPT ![job[c]] = "Aborted"]
  /\ lotState' = HoldLot(job[c])
  /\ pc'[c] \in {"idle", "check"} /\ (pc'[c] = "check" => job'[c] = job[c])
  /\ \/ outbox'[c] = <<>>
     \/ outbox'[c] = <<Alarm(DriftOutOfSpec), Event(ProcessJobAborted, job[c])>>
  /\ told'[c] = told[c]

(* Phase 3 ends the job. *)
EndStep(c) ==
  /\ Others(c) /\ ListsKept /\ UNCHANGED loc
  /\ pc[c] = "finish" /\ outbox[c] = <<>> /\ pjState[job[c]] = "Executing"
  /\ pjState' = [pjState EXCEPT ![job[c]] = Outcome(c)]
  /\ lotState' = MoveLot(LotOfVia, IF failed[c] THEN "OnHold" ELSE "Completed")
  /\ lotsProcessed' = IF failed[c] THEN lotsProcessed ELSE lotsProcessed + 1
  /\ pc'[c] = "idle"
  /\ outbox'[c][1] = Event(IF failed[c] THEN ProcessJobAborted ELSE ProcessJobCompleted, job[c])
  /\ \A i \in 1 .. Len(outbox'[c]) : i # 1 => outbox'[c][i].id \in 7001 .. 7005
  /\ told'[c] = told[c]

ConnStep(c) ==
  \/ QuietStep(c) \/ WriteStep(c) \/ BeginStep(c) \/ MoveStep(c)
  \/ StartStep(c) \/ AbortStep(c) \/ EndStep(c)

(* Lot and alarm messages are about no job. *)
LEMMA NotAbout ==
  ASSUME NEW m, m.id \notin {SubstrateLocationChanged} \cup JobEvents
  PROVE  \A j : ~IsAbout(m, j)
BY DEF IsAbout

(* The end of a job is a report about it. *)
LEMMA EndsAreAbout ==
  ASSUME NEW m, NEW j, IsEnd(m, j)
  PROVE  /\ IsAbout(m, j) /\ m.subject = j
         /\ m.id \in {ProcessJobCompleted, ProcessJobAborted}
BY DEF IsEnd, IsAbout, Event, JobEvents

(* Closing a connection, whatever the reason, is quiet. *)
LEMMA ClosingKind ==
  ASSUME IInv, NEW c \in Conns,
         \/ RecvFails(c) \/ SendFails(c) \/ StartUnknownJob(c)
         \/ AbortRefused(c) \/ StartRefused(c) \/ FinishRefused(c)
  PROVE  QuietStep(c)
<1>0. TypeOK
  BY DEF IInv
<1>1. /\ Close(c)
      /\ UNCHANGED <<substrateVars, lotVars, jobVars, lotsProcessed>>
  BY DEF RecvFails, SendFails, StartUnknownJob, AbortRefused, StartRefused, FinishRefused,
         fabVars, gemVars
<1>2. ListsKept /\ LotsKept /\ UNCHANGED <<loc, pjState>>
  BY <1>1 DEF ListsKept, LotsKept, substrateVars, lotVars, jobVars
<1>3. /\ Others(c)
      /\ pc'[c] = "closed" /\ outbox'[c] = <<>> /\ told'[c] = told[c]
  BY <1>0, <1>1 DEF TypeOK, Close, Others
<1>4. \A i \in 1 .. Len(outbox'[c]) : FALSE
  BY <1>3
<1> QED
  BY <1>2, <1>3, <1>4 DEF QuietStep, PastPhase1, Running

(* So is all the peer does: a request is acknowledged and no more. *)
LEMMA PeerKind ==
  ASSUME IInv, NEW c \in Conns,
         \/ Connect(c) \/ PeerDrops(c)
         \/ \E p \in ECWrites : NewEquipmentConstant(c, p[1], p[2])
         \/ \E r \in Recipes : DownloadRecipe(c, r)
         \/ \E j \in Jobs : RemoteStart(c, j)
  PROVE  QuietStep(c)
<1>0. TypeOK
  BY DEF IInv
<1>1. /\ UNCHANGED <<substrateVars, lotVars, jobVars, lotsProcessed, idx>>
      /\ \/ pc' = pc /\ job' = job
         \/ pc' = [pc EXCEPT ![c] = "idle"] /\ job' = job
         \/ /\ pc' = [pc EXCEPT ![c] = "validate"]
            /\ \E j \in Jobs : job' = [job EXCEPT ![c] = j]
      /\ outbox' = outbox \/ outbox' = [outbox EXCEPT ![c] = <<Ack>>]
      /\ told' = told \/ told' = [told EXCEPT ![c] = {}]
  BY DEF Connect, PeerDrops, NewEquipmentConstant, DownloadRecipe, RemoteStart,
         fabVars, gemVars, threadVars
<1>2. ListsKept /\ LotsKept /\ UNCHANGED <<loc, pjState>>
  BY <1>1 DEF ListsKept, LotsKept, substrateVars, lotVars, jobVars
<1>3. /\ Others(c)
      /\ outbox'[c] = outbox[c] \/ outbox'[c] = <<Ack>>
      /\ told'[c] = told[c] \/ told'[c] = {}
  <2>1. \A d \in Conns \ {c} : pc'[d] = pc[d] /\ job'[d] = job[d] /\ idx'[d] = idx[d]
    BY <1>0, <1>1 DEF TypeOK
  <2>2. \A d \in Conns \ {c} : outbox'[d] = outbox[d] /\ told'[d] = told[d]
    BY <1>0, <1>1 DEF TypeOK
  <2>3. /\ outbox'[c] = outbox[c] \/ outbox'[c] = <<Ack>>
        /\ told'[c] = told[c] \/ told'[c] = {}
    BY <1>0, <1>1 DEF TypeOK
  <2> QED
    BY <2>1, <2>2, <2>3 DEF Others
<1>4. pc'[c] \in PastPhase1 => pc'[c] = pc[c] /\ job'[c] = job[c] /\ idx'[c] = idx[c]
  BY <1>0, <1>1 DEF TypeOK, PastPhase1, Running
<1>5. \A j \in Jobs : ~IsAbout(Ack, j)
  BY NotAbout, MessageTypes DEF SubstrateLocationChanged, JobEvents, ProcessJobCreated,
     ProcessJobStarted, ProcessJobCompleted, ProcessJobAborted
<1>6. outbox'[c] = <<Ack>> => \A i \in 1 .. Len(outbox'[c]) : outbox'[c][i] = Ack
  OBVIOUS
<1> QED
  BY <1>2, <1>3, <1>4, <1>5, <1>6 DEF QuietStep

(* The quiet steps of a thread past phase 1, and the check that passes. *)
LEMMA ThreadKind ==
  ASSUME IInv, NEW c \in Conns,
         NotStarted(c) \/ Started(c) \/ ExposeOk(c) \/ ExposeRefused(c)
  PROVE  QuietStep(c) \/ BeginStep(c)
<1>0. TypeOK
  BY DEF IInv
<1>1. /\ UNCHANGED <<substrateVars, lotVars, jobVars, lotsProcessed, told>>
      /\ outbox[c] = <<>>
  BY DEF NotStarted, Started, ExposeOk, ExposeRefused, Free, fabVars, gemVars
<1>2. ListsKept /\ LotsKept /\ UNCHANGED <<loc, pjState, told>>
  BY <1>1 DEF ListsKept, LotsKept, substrateVars, lotVars, jobVars
<1>3. CASE NotStarted(c)
  <2>1. Others(c) /\ pc'[c] = "idle" /\ outbox'[c] = outbox[c]
    BY <1>0, <1>2, <1>3 DEF TypeOK, NotStarted, ReturnOk, Others
  <2> QED
    BY <1>2, <2>1 DEF QuietStep, PastPhase1, Running
<1>4. CASE Started(c)
  <2>1. /\ Others(c) /\ pc[c] = "check" /\ pjState[job[c]] = "Executing"
        /\ pc'[c] = NextPoint(job[c], 1) /\ job'[c] = job[c] /\ idx'[c] = idx[c]
        /\ outbox'[c] = outbox[c]
    BY <1>0, <1>2, <1>4 DEF TypeOK, Started, Free, Others
  <2> QED
    BY <1>1, <1>2, <2>1 DEF BeginStep, NextPoint
<1>5. CASE ExposeOk(c)
  <2>1. /\ Others(c) /\ pc[c] = "expose" /\ pc'[c] = "unload" /\ outbox'[c] = outbox[c]
        /\ job'[c] = job[c] /\ idx'[c] = idx[c]
    BY <1>0, <1>2, <1>5 DEF TypeOK, ExposeOk, Free, Others
  <2> QED
    BY <1>2, <2>1 DEF QuietStep, PastPhase1, Running
<1>6. CASE ExposeRefused(c)
  <2>1. /\ Others(c) /\ pc[c] = "expose" /\ pc'[c] = "finish"
        /\ outbox'[c] = <<Alarm(BackendError)>>
        /\ job'[c] = job[c] /\ idx'[c] = idx[c]
    BY <1>0, <1>2, <1>6 DEF TypeOK, ExposeRefused, Free, Others
  <2>2. \A j \in Jobs : ~IsAbout(Alarm(BackendError), j)
    BY NotAbout, MessageTypes DEF SubstrateLocationChanged, JobEvents, ProcessJobCreated,
       ProcessJobStarted, ProcessJobCompleted, ProcessJobAborted
  <2>3. \A i \in 1 .. Len(outbox'[c]) : outbox'[c][i] = Alarm(BackendError)
    BY <2>1
  <2> QED
    BY <1>2, <2>1, <2>2, <2>3 DEF QuietStep, PastPhase1, Running
<1> QED
  BY <1>3, <1>4, <1>5, <1>6

(* Writing a message. *)
LEMMA WriteKind ==
  ASSUME IInv, NEW c \in Conns, SendDelivered(c) \/ SendLost(c)
  PROVE  WriteStep(c)
<1>0. TypeOK
  BY DEF IInv
<1>1. /\ outbox[c] # <<>>
      /\ outbox' = [outbox EXCEPT ![c] = Tail(@)]
      /\ told' = told \/ told' = [told EXCEPT ![c] = @ \cup ({Head(outbox[c])} \ {Ack})]
      /\ UNCHANGED <<fabVars, threadVars>>
  BY DEF SendDelivered, SendLost
<1>2. ListsKept /\ LotsKept /\ UNCHANGED <<loc, pjState, pc, job, idx>>
  BY <1>1 DEF ListsKept, LotsKept, fabVars, substrateVars, lotVars, jobVars, gemVars, threadVars
<1>3. outbox'[c] = Tail(outbox[c]) /\ \A d \in Conns \ {c} : outbox'[d] = outbox[d]
  BY <1>0, <1>1 DEF TypeOK
<1>4. /\ told'[c] = told[c] \/ told'[c] = told[c] \cup ({Head(outbox[c])} \ {Ack})
      /\ \A d \in Conns \ {c} : told'[d] = told[d]
  BY <1>0, <1>1 DEF TypeOK
<1>5. told'[c] = told[c] \/ told'[c] = told[c] \cup {Head(outbox[c])}
  BY <1>4
<1> QED
  BY <1>1, <1>2, <1>3, <1>4, <1>5 DEF WriteStep, Others

(* The wafer whose turn it is for the thread that runs a job. *)
LEMMA RunnersWafer ==
  ASSUME IInv, NEW c \in Conns, pc[c] \in {"load", "unload"}
  PROVE  /\ job[c] \in Jobs /\ pjState[job[c]] \in {"Executing", "Aborted"}
         /\ idx[c] \in 1 .. Len(pjWafers[job[c]])
         /\ CurrentWafer(c) = pjWafers[job[c]][idx[c]]
         /\ CurrentWafer(c) \in Wafers /\ loc[CurrentWafer(c)] # "None"
<1> DEFINE j == job[c]
           w == CurrentWafer(c)
<1>1. TypeOK
  BY DEF IInv
<1>2. /\ j \in Jobs /\ pjState[j] \in {"Executing", "Aborted"}
      /\ idx[c] <= Len(pjWafers[j]) /\ w = pjWafers[j][idx[c]]
  BY DEF IInv, ThreadsHoldJobs, WafersAreDoneInOrder, PastPhase1, Running, CurrentWafer
<1>3. idx[c] \in Nat \ {0} /\ pjWafers[j] \in Seq(Wafers)
  BY <1>1, <1>2 DEF TypeOK
<1>4. idx[c] \in 1 .. Len(pjWafers[j]) /\ w \in Wafers
  BY <1>2, <1>3
<1>5. loc[w] # "None"
  BY <1>2, <1>4 DEF IInv, WafersAreOwned
<1> QED
  BY <1>2, <1>4, <1>5

(* Moving a wafer: it is registered, so the move is made and reported. *)
LEMMA MoveKind ==
  ASSUME IInv, NEW c \in Conns, Load(c) \/ Unload(c)
  PROVE  MoveStep(c)
<1> DEFINE j == job[c]
           w == CurrentWafer(c)
<1>0. /\ TypeOK /\ j \in Jobs /\ idx[c] \in 1 .. Len(pjWafers[j]) /\ w = pjWafers[j][idx[c]]
      /\ w \in Wafers /\ loc[w] # "None" /\ pjState[j] \in {"Executing", "Aborted"}
  BY RunnersWafer DEF IInv, Load, Unload, Free
<1> HIDE DEF w
<1>1. /\ UNCHANGED <<waferLot, lotVars, jobVars, gemVars, told, job>>
      /\ outbox[c] = <<>>
      /\ outbox' = [outbox EXCEPT ![c] = <<Event(SubstrateLocationChanged, w)>>]
      /\ \/ /\ pc[c] = "load" /\ pc' = [pc EXCEPT ![c] = "expose"] /\ idx' = idx
            /\ loc' = [loc EXCEPT ![w] = "Chamber"]
         \/ /\ pc[c] = "unload" /\ pc' = [pc EXCEPT ![c] = NextPoint(j, idx[c] + 1)]
            /\ idx' = [idx EXCEPT ![c] = @ + 1]
            /\ loc' = [loc EXCEPT ![w] = "Fixed"]
  BY <1>0 DEF Load, Unload, MoveSubstrate, Free, w
<1>2. ListsKept /\ LotsKept /\ UNCHANGED <<pjState, told, job>>
  BY <1>1 DEF ListsKept, LotsKept, lotVars, jobVars, gemVars
<1>3. NextPoint(j, idx[c] + 1) \in Running
  BY DEF NextPoint, Running
<1>4. /\ Others(c) /\ pc'[c] \in Running
      /\ outbox'[c] = <<Event(SubstrateLocationChanged, w)>>
      /\ \/ pc[c] = "load" /\ idx'[c] = idx[c] /\ loc' = [loc EXCEPT ![w] = "Chamber"]
         \/ pc[c] = "unload" /\ idx'[c] = idx[c] + 1 /\ loc' = [loc EXCEPT ![w] = "Fixed"]
  BY <1>0, <1>1, <1>2, <1>3 DEF TypeOK, Others, Running
<1> QED
  BY <1>0, <1>1, <1>2, <1>4 DEF MoveStep, w

(* The elements of a concatenation. *)
LEMMA ConcatElements ==
  ASSUME NEW S, NEW s \in Seq(S), NEW t \in Seq(S)
  PROVE  \A i \in 1 .. Len(s \o t) :
           \/ \E k \in 1 .. Len(s) : (s \o t)[i] = s[k]
           \/ \E k \in 1 .. Len(t) : (s \o t)[i] = t[k]
<1> SUFFICES ASSUME NEW i \in 1 .. Len(s \o t)
             PROVE  \/ \E k \in 1 .. Len(s) : (s \o t)[i] = s[k]
                    \/ \E k \in 1 .. Len(t) : (s \o t)[i] = t[k]
  OBVIOUS
<1>1. Len(s) \in Nat /\ Len(t) \in Nat /\ Len(s \o t) = Len(s) + Len(t)
  OBVIOUS
<1>2. CASE i <= Len(s)
  BY <1>1, <1>2
<1>3. CASE i > Len(s)
  <2>1. i - Len(s) \in 1 .. Len(t)
    BY <1>1, <1>3
  <2>2. (s \o t)[i] = t[i - Len(s)]
    BY <1>1, <1>3
  <2> QED
    BY <2>1, <2>2
<1>4. i <= Len(s) \/ i > Len(s)
  BY <1>1
<1> QED
  BY <1>2, <1>3, <1>4, Zenon

(* Starting a job. *)
LEMMA StartKind ==
  ASSUME IInv, NEW c \in Conns, StartJob(c)
  PROVE  StartStep(c) /\ job[c] \in Jobs
<1> DEFINE j == job[c]
           evs == MoveLotEvents(LotOfVia, "InProcessing")
           head == <<Event(ProcessJobCreated, j), Event(ProcessJobCreated, j),
                     Event(ProcessJobStarted, j)>>
<1>0. TypeOK /\ j \in Jobs /\ pc[c] = "validate" /\ outbox[c] = <<>>
  BY DEF IInv, ThreadsHoldJobs, StartJob, KnownJob, Free
<1>1. /\ pjState[j] = "Queued"
      /\ pjState' = [pjState EXCEPT ![j] = "Executing"]
      /\ lotState' = MoveLot(LotOfVia, "InProcessing")
      /\ outbox' = [outbox EXCEPT ![c] = head \o evs]
      /\ pc' = [pc EXCEPT ![c] = "check"]
      /\ UNCHANGED <<substrateVars, carriers, pjWafers, gemVars, job, idx, told>>
  BY DEF StartJob, PJLegal, PJOrder
<1>2. ListsKept /\ UNCHANGED <<loc, lotsProcessed>>
  BY <1>1 DEF ListsKept, substrateVars, gemVars
<1>3. /\ Others(c) /\ pc'[c] = "check" /\ job'[c] = j /\ told'[c] = told[c]
      /\ outbox'[c] = head \o evs
  BY <1>0, <1>1 DEF TypeOK, Others
<1>4. /\ head \in Seq(Message) /\ evs \in Seq(Message)
      /\ \A i \in 1 .. Len(evs) : evs[i].id \in 7001 .. 7005
  <2>1. /\ evs \in Seq(Message)
        /\ \A i \in 1 .. Len(evs) : evs[i].id \in 7001 .. 7005
    BY <1>0, LotTypes
  <2>2. Event(ProcessJobCreated, j) \in Message /\ Event(ProcessJobStarted, j) \in Message
    BY <1>0, MessageTypes DEF ProcessJobCreated, ProcessJobStarted
  <2>3. head \in Seq(Message)
    BY <2>2
  <2> QED
    BY <2>1, <2>3
<1>5. /\ Len(head) = 3
      /\ \A i \in 1 .. 3 : head[i] \in {Event(ProcessJobCreated, j), Event(ProcessJobStarted, j)}
  OBVIOUS
<1>6. ASSUME NEW i \in 1 .. Len(head \o evs)
      PROVE  \/ (head \o evs)[i] \in {Event(ProcessJobCreated, j), Event(ProcessJobStarted, j)}
             \/ (head \o evs)[i].id \in 7001 .. 7005
  <2> HIDE DEF head, evs
  <2>1. \/ \E k \in 1 .. Len(head) : (head \o evs)[i] = head[k]
        \/ \E k \in 1 .. Len(evs) : (head \o evs)[i] = evs[k]
    BY <1>4, ConcatElements
  <2> QED
    BY <1>4, <1>5, <2>1
<1> HIDE DEF head, evs
<1> QED
  BY <1>0, <1>1, <1>2, <1>3, <1>6 DEF StartStep

(* Aborting it in phase 1. *)
LEMMA AbortKind ==
  ASSUME IInv, NEW c \in Conns, AbortUnknownRecipe(c) \/ AbortDrifted(c)
  PROVE  AbortStep(c) /\ job[c] \in Jobs
<1> DEFINE j == job[c]
<1>0. TypeOK /\ j \in Jobs /\ pc[c] = "validate" /\ outbox[c] = <<>>
  BY DEF IInv, ThreadsHoldJobs, AbortUnknownRecipe, AbortDrifted, KnownJob, Free
<1>1. /\ pjState[j] \notin PJTerminal \cup {"None"}
      /\ pjState' = [pjState EXCEPT ![j] = "Aborted"]
      /\ lotState' = HoldLot(j)
      /\ UNCHANGED <<substrateVars, carriers, pjWafers, lotsProcessed, told>>
  BY DEF AbortUnknownRecipe, AbortDrifted, AbortJob, KnownJob, PJLegal, PJOrder, PJState, PJTerminal
<1>2. \/ /\ pc' = [pc EXCEPT ![c] = "idle"] /\ job' = [job EXCEPT ![c] = Null]
         /\ idx' = [idx EXCEPT ![c] = 1] /\ outbox' = outbox
      \/ /\ pc' = [pc EXCEPT ![c] = "check"] /\ job' = job /\ idx' = idx
         /\ outbox' = [outbox EXCEPT ![c] =
                         <<Alarm(DriftOutOfSpec), Event(ProcessJobAborted, j)>>]
  BY DEF AbortUnknownRecipe, AbortDrifted, ReturnOk
<1>3. ListsKept /\ UNCHANGED <<loc, lotsProcessed, told>>
  BY <1>1 DEF ListsKept, substrateVars
<1>4. /\ Others(c) /\ pc'[c] \in {"idle", "check"} /\ (pc'[c] = "check" => job'[c] = j)
      /\ \/ outbox'[c] = <<>>
         \/ outbox'[c] = <<Alarm(DriftOutOfSpec), Event(ProcessJobAborted, j)>>
  BY <1>0, <1>2, <1>3 DEF TypeOK, Others
<1> QED
  BY <1>0, <1>1, <1>3, <1>4 DEF AbortStep

(* Ending it in phase 3. *)
LEMMA FinishKind ==
  ASSUME IInv, NEW c \in Conns, Finish(c)
  PROVE  EndStep(c) /\ job[c] \in Jobs
<1> DEFINE j == job[c]
           ceid == IF failed[c] THEN ProcessJobAborted ELSE ProcessJobCompleted
           lotTo == IF failed[c] THEN "OnHold" ELSE "Completed"
           evs == MoveLotEvents(LotOfVia, lotTo)
<1>0. /\ TypeOK /\ j \in Jobs /\ pc[c] = "finish" /\ pjState[j] = "Executing"
      /\ outbox[c] = <<>>
  <2>1. /\ TypeOK /\ j \in Jobs /\ pc[c] = "finish" /\ pjState[j] \in {"Executing", "Aborted"}
        /\ outbox[c] = <<>>
    BY DEF IInv, ThreadsHoldJobs, PastPhase1, Running, Finish, Free
  <2>2. pjState[j] # "Aborted"
    BY DEF Finish, PJLegal, PJOrder, Outcome, PJTerminal
  <2> QED
    BY <2>1, <2>2
<1>1. /\ pjState' = [pjState EXCEPT ![j] = Outcome(c)]
      /\ lotState' = MoveLot(LotOfVia, lotTo)
      /\ lotsProcessed' = IF failed[c] THEN lotsProcessed ELSE lotsProcessed + 1
      /\ outbox' = [outbox EXCEPT ![c] = <<Event(ceid, j)>> \o evs]
      /\ pc' = [pc EXCEPT ![c] = "idle"]
      /\ job' = [job EXCEPT ![c] = Null]
      /\ idx' = [idx EXCEPT ![c] = 1]
      /\ UNCHANGED <<substrateVars, carriers, pjWafers, told>>
  BY DEF Finish, ReturnOk
<1>2. ListsKept /\ UNCHANGED <<loc, told>>
  BY <1>1 DEF ListsKept, substrateVars
<1>3. /\ Others(c) /\ pc'[c] = "idle" /\ told'[c] = told[c]
      /\ outbox'[c] = <<Event(ceid, j)>> \o evs
  BY <1>0, <1>1, <1>2 DEF TypeOK, Others
<1>4. /\ Event(ceid, j) \in Message /\ evs \in Seq(Message)
      /\ \A i \in 1 .. Len(evs) : evs[i].id \in 7001 .. 7005
  <2>1. /\ evs \in Seq(Message)
        /\ \A i \in 1 .. Len(evs) : evs[i].id \in 7001 .. 7005
    BY <1>0, LotTypes
  <2>2. /\ ceid \in Nat
        /\ \A e \in Nat : Event(e, j) \in Message
    BY <1>0, MessageTypes DEF ProcessJobCompleted, ProcessJobAborted
  <2>3. Event(ceid, j) \in Message
    BY <2>2
  <2> QED
    BY <2>1, <2>3
<1>5. /\ (<<Event(ceid, j)>> \o evs)[1] = Event(ceid, j)
      /\ \A i \in 1 .. Len(<<Event(ceid, j)>> \o evs) :
           i # 1 => i - 1 \in 1 .. Len(evs) /\ (<<Event(ceid, j)>> \o evs)[i] = evs[i - 1]
  <2> DEFINE e == Event(ceid, j)
  <2>1. e \in Message /\ evs \in Seq(Message)
    BY <1>4
  <2> HIDE DEF e, evs
  <2>2. /\ (<<e>> \o evs)[1] = e
        /\ \A i \in 1 .. Len(<<e>> \o evs) :
             i # 1 => i - 1 \in 1 .. Len(evs) /\ (<<e>> \o evs)[i] = evs[i - 1]
    BY <2>1, ConsElements
  <2> QED
    BY <2>2 DEF e
<1>6. \A i \in 1 .. Len(outbox'[c]) : i # 1 => outbox'[c][i].id \in 7001 .. 7005
  BY <1>3, <1>4, <1>5
<1> QED
  BY <1>0, <1>1, <1>2, <1>3, <1>5, <1>6 DEF EndStep

(* Every step of the system is a staging call, a connection's step of one of *)
(* the seven kinds, or leaves everything as it is.                           *)
LEMMA StepKinds ==
  ASSUME IInv, Next
  PROVE  \/ \E s \in Stagings : Stage(s)
         \/ \E c \in Conns : ConnStep(c)
<1>1. ASSUME NEW c \in Conns, ThreadStep(c) PROVE ConnStep(c)
  <2>1. CASE Validate(c)
    BY <2>1, ClosingKind, AbortKind, StartKind DEF Validate, ConnStep
  <2>2. CASE Process(c)
    BY <2>2, ClosingKind, ThreadKind, MoveKind, FinishKind DEF Process, ConnStep
  <2>3. CASE Send(c)
    BY <2>3, ClosingKind, WriteKind DEF Send, ConnStep
  <2> QED
    BY <1>1, <2>1, <2>2, <2>3 DEF ThreadStep
<1>2. ASSUME NEW c \in Conns, PeerStep(c) PROVE ConnStep(c)
  BY <1>2, ClosingKind, PeerKind DEF PeerStep, Request, ConnStep
<1> QED
  BY <1>1, <1>2 DEF Next

(* What a staging call does: wafers and jobs that are there stay as they     *)
(* are, and a job that is created gets wafers that were all put at the port  *)
(* for the lot of the call.                                                  *)
LEMMA StageFacts ==
  ASSUME IInv, NEW s \in Stagings, Stage(s)
  PROVE  /\ s.lot \in Lots /\ s.job \in Jobs /\ s.wafers \in Seq(Wafers)
         /\ UNCHANGED <<pc, job, idx, outbox, told, lotsProcessed>>
         /\ \A w \in Wafers : loc[w] # "None" => loc'[w] = loc[w] /\ waferLot'[w] = waferLot[w]
         /\ carriers \subseteq carriers'
         /\ \/ UNCHANGED <<pjState, pjWafers>>
            \/ /\ pjState[s.job] = "None"
               /\ pjState' = [pjState EXCEPT ![s.job] = "Queued"]
               /\ pjWafers' = [pjWafers EXCEPT ![s.job] = s.wafers]
               /\ s.lot \in carriers'
               /\ \A i \in 1 .. Len(s.wafers) :
                    loc'[s.wafers[i]] = "Port" /\ waferLot'[s.wafers[i]] = s.lot
         /\ lotState' = lotState \/ lotState' = [lotState EXCEPT ![s.lot] = "InQueue"]
<1> DEFINE new == {s.wafers[i] : i \in Registered(s)}
<1>0. /\ TypeOK /\ s.lot \in Lots /\ s.wafers \in Seq(Wafers) /\ s.job \in Jobs
  BY FabSimAssumption DEF IInv
<1>1. /\ loc' = [w \in Wafers |-> IF w \in new THEN "Port" ELSE loc[w]]
      /\ waferLot' = [w \in Wafers |-> IF w \in new THEN s.lot ELSE waferLot[w]]
      /\ UNCHANGED <<gemVars, connVars>>
  BY DEF Stage
<1>2. \A i \in Registered(s) : i \in 1 .. Len(s.wafers) /\ ~Duplicate(s, i)
  <2>1. ASSUME NEW i \in Registered(s)
        PROVE  i \in 1 .. Len(s.wafers) /\ \A k \in 1 .. i : ~Duplicate(s, k)
    BY <2>1 DEF Registered
  <2>2. ASSUME NEW i \in Registered(s) PROVE i \in 1 .. i
    BY <1>0, <2>1
  <2> QED
    BY <2>1, <2>2
<1>3. \A w \in new : w \in Wafers /\ loc[w] = "None"
  BY <1>0, <1>2 DEF Duplicate
<1>4. \A w \in Wafers : /\ loc[w] # "None" => loc'[w] = loc[w] /\ waferLot'[w] = waferLot[w]
                        /\ w \in new => loc'[w] = "Port" /\ waferLot'[w] = s.lot
  <2> HIDE DEF new
  <2> QED
    BY <1>1, <1>3
<1>5. \/ UNCHANGED jobVars
      \/ /\ JobAccepted(s)
         /\ pjState' = [pjState EXCEPT ![s.job] = "Queued"]
         /\ pjWafers' = [pjWafers EXCEPT ![s.job] = s.wafers]
  BY DEF Stage
<1>6. /\ JobAccepted(s) => carriers' = carriers \cup {s.lot}
      /\ carriers' = carriers \/ carriers' = carriers \cup {s.lot}
      /\ lotState' = lotState \/ lotState' = [lotState EXCEPT ![s.lot] = "InQueue"]
  BY DEF Stage, JobAccepted, lotVars
<1>7. JobAccepted(s) => pjState[s.job] = "None" /\ \A i \in 1 .. Len(s.wafers) : s.wafers[i] \in new
  BY DEF JobAccepted, LotAccepted, AllRegistered
<1>8. UNCHANGED <<pc, job, idx, outbox, told, lotsProcessed>>
  BY <1>1 DEF connVars, threadVars, gemVars
<1>9. JobAccepted(s) => \A i \in 1 .. Len(s.wafers) :
        loc'[s.wafers[i]] = "Port" /\ waferLot'[s.wafers[i]] = s.lot
  <2> HIDE DEF new
  <2> QED
    BY <1>0, <1>4, <1>7
<1>10. \/ UNCHANGED <<pjState, pjWafers>>
       \/ /\ JobAccepted(s)
          /\ pjState' = [pjState EXCEPT ![s.job] = "Queued"]
          /\ pjWafers' = [pjWafers EXCEPT ![s.job] = s.wafers]
  BY <1>5 DEF jobVars
<1> HIDE DEF new
<1> QED
  BY <1>0, <1>4, <1>6, <1>7, <1>8, <1>9, <1>10

(* The wafers a job lists are registered wafers. *)
LEMMA ListedWafers ==
  ASSUME IInv, NEW j \in Jobs
  PROVE  /\ pjWafers[j] \in Seq(Wafers)
         /\ \A i \in 1 .. Len(pjWafers[j]) :
              pjWafers[j][i] \in Wafers /\ loc[pjWafers[j][i]] # "None"
<1>1. pjWafers[j] \in Seq(Wafers)
  BY DEF IInv, TypeOK
<1> QED
  BY <1>1 DEF IInv, WafersAreOwned

(* What a job's state and list become in a step of a connection. *)
LEMMA ConnJobs ==
  ASSUME IInv, NEW c \in Conns, ConnStep(c)
  PROVE  /\ UNCHANGED <<pjWafers, waferLot, carriers>>
         /\ \A k \in Jobs : \/ pjState'[k] = pjState[k]
                            \/ pjState[k] # "None" /\ pjState'[k] \in {"Executing"} \cup PJTerminal
<1>0. pjState \in [Jobs -> PJState \cup {"None"}]
  BY DEF IInv, TypeOK
<1>1. UNCHANGED <<pjWafers, waferLot, carriers>>
  BY DEF ConnStep, QuietStep, WriteStep, BeginStep, MoveStep, StartStep, AbortStep, EndStep,
         ListsKept
<1>2. \/ pjState' = pjState
      \/ /\ pjState[job[c]] # "None"
         /\ \E x \in {"Executing"} \cup PJTerminal : pjState' = [pjState EXCEPT ![job[c]] = x]
  BY DEF ConnStep, QuietStep, WriteStep, BeginStep, MoveStep, StartStep, AbortStep, EndStep,
         Outcome, PJTerminal
<1> QED
  BY <1>0, <1>1, <1>2

LEMMA StepJobsAreCreatedOnce ==
  ASSUME IInv, JobsAreCreatedOnce, [Next]_vars
  PROVE  JobsAreCreatedOnce'
<1>0. TypeOK
  BY DEF IInv
<1>1. ASSUME NEW s \in Stagings, Stage(s) PROVE JobsAreCreatedOnce'
  <2>1. CASE UNCHANGED <<pjState, pjWafers>>
    BY <2>1 DEF JobsAreCreatedOnce
  <2>2. CASE /\ pjState' = [pjState EXCEPT ![s.job] = "Queued"]
             /\ pjWafers' = [pjWafers EXCEPT ![s.job] = s.wafers]
    <3>1. s.job \in Jobs
      BY FabSimAssumption
    <3> QED
      BY <1>0, <2>2, <3>1 DEF JobsAreCreatedOnce, TypeOK
  <2> QED
    BY <1>1, <2>1, <2>2, StageFacts
<1>2. ASSUME NEW c \in Conns, ConnStep(c) PROVE JobsAreCreatedOnce'
  BY <1>2, ConnJobs DEF JobsAreCreatedOnce, PJTerminal
<1>3. CASE UNCHANGED vars
  BY <1>3 DEF JobsAreCreatedOnce, vars, fabVars, jobVars
<1> QED
  BY <1>1, <1>2, <1>3, StepKinds

LEMMA StepOneLotPerJob ==
  ASSUME IInv, OneLotPerJob, [Next]_vars
  PROVE  OneLotPerJob'
<1>0. TypeOK
  BY DEF IInv
<1>1. ASSUME NEW s \in Stagings, Stage(s) PROVE OneLotPerJob'
  <2> SUFFICES ASSUME NEW k \in Jobs, pjState'[k] # "None"
               PROVE  \E l \in carriers' : \A i \in 1 .. Len(pjWafers'[k]) :
                        waferLot'[pjWafers'[k][i]] = l
    BY DEF OneLotPerJob, WaferSet
  <2>1. CASE pjState'[k] = pjState[k] /\ pjWafers'[k] = pjWafers[k]
    <3>1. PICK l \in carriers : \A i \in 1 .. Len(pjWafers[k]) : waferLot[pjWafers[k][i]] = l
      BY <2>1 DEF OneLotPerJob, WaferSet
    <3>2. l \in carriers'
      BY <1>1, StageFacts
    <3>3. \A i \in 1 .. Len(pjWafers[k]) : waferLot'[pjWafers[k][i]] = waferLot[pjWafers[k][i]]
      BY <1>1, StageFacts, ListedWafers
    <3> QED
      BY <2>1, <3>1, <3>2, <3>3
  <2>2. CASE /\ k = s.job /\ pjWafers'[k] = s.wafers /\ s.lot \in carriers'
             /\ \A i \in 1 .. Len(s.wafers) : waferLot'[s.wafers[i]] = s.lot
    BY <2>2
  <2> QED
    BY <1>0, <1>1, <2>1, <2>2, StageFacts DEF TypeOK
<1>2. ASSUME NEW c \in Conns, ConnStep(c) PROVE OneLotPerJob'
  BY <1>2, ConnJobs DEF OneLotPerJob, WaferSet
<1>3. CASE UNCHANGED vars
  BY <1>3 DEF OneLotPerJob, WaferSet, vars, fabVars, jobVars, lotVars, substrateVars
<1> QED
  BY <1>1, <1>2, <1>3, StepKinds

LEMMA StageWafersWait ==
  ASSUME IInv, JobsAreCreatedOnce, WafersWaitTheirTurn, NEW s \in Stagings, Stage(s)
  PROVE  WafersWaitTheirTurn'
<1>0. TypeOK /\ s.job \in Jobs
  BY FabSimAssumption DEF IInv
<1>1. \A k \in Jobs : \/ pjState'[k] = pjState[k] /\ pjWafers'[k] = pjWafers[k]
                      \/ /\ pjState[k] = "None" /\ pjState'[k] = "Queued"
                         /\ \A i \in 1 .. Len(pjWafers'[k]) : loc'[pjWafers'[k][i]] = "Port"
  <2>1. CASE UNCHANGED <<pjState, pjWafers>>
    BY <2>1
  <2>2. CASE /\ pjState[s.job] = "None"
             /\ pjState' = [pjState EXCEPT ![s.job] = "Queued"]
             /\ pjWafers' = [pjWafers EXCEPT ![s.job] = s.wafers]
             /\ \A i \in 1 .. Len(s.wafers) : loc'[s.wafers[i]] = "Port"
    BY <1>0, <2>2 DEF TypeOK
  <2> QED
    BY <2>1, <2>2, StageFacts
<1>2. \A k \in Jobs : \A i \in 1 .. Len(pjWafers[k]) : loc'[pjWafers[k][i]] = loc[pjWafers[k][i]]
  BY StageFacts, ListedWafers
<1>3. \A k \in Jobs : pjState[k] # "None" =>
        pjState'[k] = pjState[k] /\ pjWafers'[k] = pjWafers[k]
  BY <1>1
<1>4. UNCHANGED <<pc, job, idx>>
  BY StageFacts
<1>5. \A d \in Conns : pc[d] \in PastPhase1 => job[d] \in Jobs /\ pjState[job[d]] # "None"
  BY DEF IInv, ThreadsHoldJobs
<1>6. \A k \in Jobs : pjState'[k] \in {"None", "Queued"} => NoneFixed(k)'
  BY <1>1, <1>2 DEF WafersWaitTheirTurn, NoneFixed, WaferSet
<1>7. ASSUME NEW d \in Conns, pc'[d] = "check", pjState'[job'[d]] = "Executing"
      PROVE  NoneFixed(job[d])'
  <2>1. /\ job[d] \in Jobs /\ pjState[job[d]] = "Executing" /\ pc[d] = "check"
        /\ pjWafers'[job[d]] = pjWafers[job[d]]
    BY <1>3, <1>4, <1>5, <1>7 DEF PastPhase1
  <2>2. \A i \in 1 .. Len(pjWafers[job[d]]) : loc[pjWafers[job[d]][i]] # "Fixed"
    BY <2>1 DEF WafersWaitTheirTurn, NoneFixed, WaferSet
  <2> QED
    BY <1>2, <1>4, <2>1, <2>2 DEF NoneFixed, WaferSet
<1>8. \A d \in Conns : pc'[d] \in Running => \A i \in 1 .. Len(pjWafers'[job'[d]]) :
         idx'[d] <= i => loc'[pjWafers'[job'[d]][i]] # "Fixed"
  BY <1>2, <1>3, <1>4, <1>5 DEF WafersWaitTheirTurn, PastPhase1
<1> QED
  BY <1>4, <1>6, <1>7, <1>8 DEF WafersWaitTheirTurn

(* Only a move changes where wafers are, and it moves the one wafer whose    *)
(* turn it is.                                                               *)
LEMMA MoveWafersWait ==
  ASSUME IInv, WafersWaitTheirTurn, NEW c \in Conns, MoveStep(c)
  PROVE  WafersWaitTheirTurn'
<1> DEFINE j == job[c]
           w == CurrentWafer(c)
<1>0. /\ MoveStep(c) /\ j \in Jobs /\ pjState[j] \in {"Executing", "Aborted"}
      /\ idx[c] \in 1 .. Len(pjWafers[j]) /\ w = pjWafers[j][idx[c]] /\ w \in Wafers
      /\ TypeOK /\ pc[c] \in Running
  BY RunnersWafer DEF IInv, MoveStep, Running
<1> HIDE DEF w
<1>1. /\ UNCHANGED <<pjWafers, pjState>> /\ Others(c) /\ pc'[c] \in Running /\ job'[c] = j
      /\ \/ idx'[c] = idx[c] /\ loc' = [loc EXCEPT ![w] = "Chamber"]
         \/ idx'[c] = idx[c] + 1 /\ loc' = [loc EXCEPT ![w] = "Fixed"]
  BY <1>0 DEF MoveStep, ListsKept, w
<1>2. \A k \in Jobs : \A m \in 1 .. Len(pjWafers[k]) :
        /\ pjWafers[k][m] = w => k = j /\ m = idx[c]
        /\ pjWafers[k][m] \in Wafers
  BY <1>0, ListedWafers DEF IInv, WafersAreOwned
<1>3. \A x \in Wafers : x # w => loc'[x] = loc[x]
  BY <1>0, <1>1 DEF TypeOK
<1>4. \A k \in Jobs : k # j => \A m \in 1 .. Len(pjWafers[k]) :
                                 loc'[pjWafers[k][m]] = loc[pjWafers[k][m]]
  BY <1>2, <1>3
<1>5. \A k \in Jobs : pjState'[k] \in {"None", "Queued"} => NoneFixed(k)'
  BY <1>0, <1>1, <1>4 DEF WafersWaitTheirTurn, NoneFixed, WaferSet
<1>6. ASSUME NEW d \in Conns, pc'[d] = "check", pjState'[job'[d]] = "Executing"
      PROVE  NoneFixed(job[d])' /\ job'[d] = job[d]
  <2>1. d # c /\ pc[d] = "check" /\ job'[d] = job[d] /\ pjState[job[d]] = "Executing"
    BY <1>1, <1>6 DEF Others, Running
  <2>2. job[d] \in Jobs /\ job[d] # j
    BY <1>0, <2>1 DEF IInv, ThreadsHoldJobs, PastPhase1
  <2>3. NoneFixed(job[d])
    BY <2>1 DEF WafersWaitTheirTurn
  <2>4. \A m \in 1 .. Len(pjWafers'[job[d]]) : loc'[pjWafers'[job[d]][m]] # "Fixed"
    BY <1>1, <1>4, <2>2, <2>3 DEF NoneFixed, WaferSet
  <2> QED
    BY <1>1, <2>1, <2>4 DEF NoneFixed, WaferSet
<1>7. ASSUME NEW d \in Conns, pc'[d] \in Running, NEW m \in 1 .. Len(pjWafers[job'[d]]),
             idx'[d] <= m
      PROVE  loc'[pjWafers[job'[d]][m]] # "Fixed"
  <2>1. CASE d # c
    <3>1. pc[d] \in Running /\ job'[d] = job[d] /\ idx'[d] = idx[d]
      BY <1>1, <1>7, <2>1 DEF Others
    <3>2. job[d] \in Jobs /\ job[d] # j
      BY <1>0, <2>1, <3>1 DEF IInv, ThreadsHoldJobs, ExclusiveRunner, PastPhase1
    <3> QED
      BY <1>4, <1>7, <3>1, <3>2 DEF WafersWaitTheirTurn
  <2>2. CASE d = c
    <3>1. idx[c] \in Nat /\ m \in Nat /\ m \in 1 .. Len(pjWafers[j])
      BY <1>0, <1>1, <1>7, <2>2
    <3>2. CASE m = idx[c]
      <4>1. loc' = [loc EXCEPT ![w] = "Chamber"]
        BY <1>1, <1>7, <2>2, <3>1, <3>2
      <4> QED
        BY <1>0, <1>1, <2>2, <3>2, <4>1 DEF TypeOK
    <3>3. CASE m # idx[c]
      <4>1. idx[c] <= m
        BY <1>1, <1>7, <2>2, <3>1
      <4>2. loc[pjWafers[j][m]] # "Fixed"
        BY <1>0, <3>1, <4>1 DEF WafersWaitTheirTurn
      <4>3. loc'[pjWafers[j][m]] = loc[pjWafers[j][m]]
        BY <1>0, <1>2, <1>3, <3>1, <3>3
      <4> QED
        BY <1>1, <2>2, <4>2, <4>3
    <3> QED
      BY <3>2, <3>3
  <2> QED
    BY <2>1, <2>2
<1> QED
  BY <1>1, <1>5, <1>6, <1>7 DEF WafersWaitTheirTurn

LEMMA StepWafersWait ==
  ASSUME IInv, JobsAreCreatedOnce, WafersWaitTheirTurn, [Next]_vars
  PROVE  WafersWaitTheirTurn'
<1>0. TypeOK
  BY DEF IInv
<1>1. ASSUME NEW c \in Conns, ConnStep(c), ~MoveStep(c) PROVE WafersWaitTheirTurn'
  <2>1. UNCHANGED <<loc, pjWafers>> /\ Others(c)
    BY <1>1 DEF ConnStep, QuietStep, WriteStep, BeginStep, StartStep, AbortStep, EndStep, ListsKept
  <2>2. \A k : NoneFixed(k)' <=> NoneFixed(k)
    BY <2>1 DEF NoneFixed, WaferSet
  <2>3. \A k \in Jobs : pjState'[k] \in {"None", "Queued"} => NoneFixed(k)'
    BY <1>1, <2>2, ConnJobs DEF WafersWaitTheirTurn, PJTerminal
  <2>4. \A d \in Conns \ {c} : pc[d] \in PastPhase1 => job[d] \in Jobs
    BY DEF IInv, ThreadsHoldJobs
  <2>5. \A k \in Jobs : pjState'[k] = "Executing" => pjState[k] = "Executing" \/ NoneFixed(k)
    <3>1. CASE pjState' = pjState
      BY <3>1
    <3>2. CASE pjState[job[c]] = "Queued" /\ pjState' = [pjState EXCEPT ![job[c]] = "Executing"]
      BY <1>0, <3>2 DEF TypeOK, WafersWaitTheirTurn
    <3>3. CASE \E x \in PJTerminal : pjState' = [pjState EXCEPT ![job[c]] = x]
      BY <1>0, <3>3 DEF TypeOK, PJTerminal
    <3> QED
      BY <1>1, <3>1, <3>2, <3>3
      DEF ConnStep, QuietStep, WriteStep, BeginStep, StartStep, AbortStep, EndStep,
          Outcome, PJTerminal
  <2>6. ASSUME NEW d \in Conns, pc'[d] = "check", pjState'[job'[d]] = "Executing"
        PROVE  NoneFixed(job'[d])
    <3>1. CASE d # c
      <4>1. job'[d] = job[d] /\ pc[d] = "check" /\ job[d] \in Jobs
        BY <2>1, <2>4, <2>6, <3>1 DEF Others, PastPhase1
      <4> QED
        BY <2>5, <2>6, <4>1 DEF WafersWaitTheirTurn
    <3>2. CASE d = c
      <4>1. job'[c] = job[c] /\ pc[c] \in {"check", "validate"}
        BY <1>1, <2>6, <3>2 DEF ConnStep, QuietStep, WriteStep, BeginStep, StartStep, AbortStep,
                                EndStep, PastPhase1
      <4>2. job[c] \in Jobs
        BY <4>1 DEF IInv, ThreadsHoldJobs, PastPhase1
      <4>3. CASE pc[c] = "check"
        BY <2>5, <2>6, <3>2, <4>1, <4>2, <4>3 DEF WafersWaitTheirTurn
      <4>4. CASE pc[c] = "validate"
        <5>1. StartStep(c) \/ AbortStep(c)
          BY <1>1, <2>6, <3>2, <4>4 DEF ConnStep, QuietStep, WriteStep, BeginStep, EndStep,
                                        PastPhase1, Running
        <5>2. ~AbortStep(c)
          BY <1>0, <2>6, <3>2, <4>1, <4>2 DEF AbortStep, TypeOK
        <5>3. pjState[job[c]] = "Queued"
          BY <5>1, <5>2 DEF StartStep
        <5> QED
          BY <3>2, <4>1, <4>2, <5>3 DEF WafersWaitTheirTurn
      <4> QED
        BY <4>1, <4>3, <4>4
    <3> QED
      BY <3>1, <3>2
  <2>7. ASSUME NEW d \in Conns, pc'[d] \in Running, NEW m \in 1 .. Len(pjWafers[job'[d]]),
               idx'[d] <= m
        PROVE  loc[pjWafers[job'[d]][m]] # "Fixed"
    <3>1. CASE pc[d] \in Running /\ job'[d] = job[d] /\ idx'[d] = idx[d]
      BY <2>7, <3>1 DEF WafersWaitTheirTurn
    <3>2. CASE d = c /\ BeginStep(c)
      <4>1. NoneFixed(job[c]) /\ job'[c] = job[c]
        BY <3>2 DEF BeginStep, WafersWaitTheirTurn
      <4> QED
        BY <2>7, <3>2, <4>1 DEF NoneFixed, WaferSet
    <3> QED
      BY <1>1, <2>1, <2>7, <3>1, <3>2
      DEF Others, ConnStep, QuietStep, WriteStep, StartStep, AbortStep, EndStep, PastPhase1, Running
  <2> QED
    BY <2>1, <2>2, <2>3, <2>6, <2>7 DEF WafersWaitTheirTurn, NoneFixed, WaferSet
<1>2. ASSUME NEW c \in Conns, ConnStep(c) PROVE WafersWaitTheirTurn'
  BY <1>1, <1>2, MoveWafersWait
<1>3. CASE UNCHANGED vars
  BY <1>3 DEF WafersWaitTheirTurn, NoneFixed, WaferSet, vars, fabVars, jobVars, substrateVars,
              connVars, threadVars
<1> QED
  BY <1>2, <1>3, StepKinds, StageWafersWait

(* A job whose end is told or on its way to be told is over. *)
LEMMA EndedJobs ==
  ASSUME IInv, NEW c \in Conns, NEW j \in Jobs,
         NEW m \in told[c] \cup {outbox[c][i] : i \in 1 .. Len(outbox[c])}, IsEnd(m, j)
  PROVE  pjState[j] \in PJTerminal
<1>1. EndMatches(m, pjState)
  BY DEF IInv, ReportsMatch
<1> QED
  BY <1>1 DEF EndMatches, IsEnd, PJTerminal

LEMMA StageEndsLast ==
  ASSUME IInv, EndsComeLast, NEW s \in Stagings, Stage(s)
  PROVE  EndsComeLast'
<1>0. TypeOK /\ s.job \in Jobs
  BY FabSimAssumption DEF IInv
<1>1. UNCHANGED <<pc, job, outbox, told>>
  BY StageFacts
<1>2. \A k \in Jobs : pjState[k] \in PJTerminal => pjWafers'[k] = pjWafers[k]
  <2>1. CASE pjWafers' = pjWafers
    BY <2>1
  <2>2. CASE pjState[s.job] = "None" /\ pjWafers' = [pjWafers EXCEPT ![s.job] = s.wafers]
    <3>1. pjWafers \in [Jobs -> Seq(Wafers)]
      BY <1>0 DEF TypeOK
    <3>2. \A k \in Jobs : pjState[k] \in PJTerminal => k # s.job
      BY <2>2 DEF PJTerminal
    <3>3. QED
      BY <2>2, <3>1, <3>2
  <2>3. QED
    BY <2>1, <2>2, StageFacts
<1>3. \A k \in Jobs : pjState[k] \in PJTerminal => \A m : IsAbout(m, k)' <=> IsAbout(m, k)
  BY <1>2 DEF IsAbout, WaferSet
<1>4. ASSUME NEW c \in Conns, NEW j \in Jobs,
             NEW m \in told[c] \cup {outbox[c][i] : i \in 1 .. Len(outbox[c])}, IsEnd(m, j)
      PROVE  pjState[j] \in PJTerminal
  BY <1>4, EndedJobs
<1> SUFFICES ASSUME NEW c \in Conns, NEW j \in Jobs
             PROVE  /\ pc[c] \in Running /\ job[c] = j =>
                         ~ \E m \in told[c] \cup {outbox[c][i] : i \in 1 .. Len(outbox[c])} :
                             IsEnd(m, j)
                    /\ \A m \in told[c], i \in 1 .. Len(outbox[c]) :
                         IsEnd(m, j) => ~IsAbout(outbox[c][i], j)'
                    /\ \A i, k \in 1 .. Len(outbox[c]) :
                         i < k /\ IsEnd(outbox[c][i], j) => ~IsAbout(outbox[c][k], j)'
  BY <1>1 DEF EndsComeLast
<1>5. \A m \in told[c], i \in 1 .. Len(outbox[c]) : IsEnd(m, j) => ~IsAbout(outbox[c][i], j)'
  BY <1>1, <1>3, <1>4 DEF EndsComeLast
<1>6. \A i, k \in 1 .. Len(outbox[c]) :
        i < k /\ IsEnd(outbox[c][i], j) => ~IsAbout(outbox[c][k], j)'
  BY <1>1, <1>3, <1>4 DEF EndsComeLast
<1> QED
  BY <1>5, <1>6 DEF EndsComeLast

(* EndsComeLast for one connection and one job, given what the connection's  *)
(* peer was told and what it has still to send.                              *)
EndLast(runs, heard, unsent, j) ==
  /\ runs => ~ \E m \in heard \cup {unsent[i] : i \in 1 .. Len(unsent)} : IsEnd(m, j)
  /\ \A m \in heard, i \in 1 .. Len(unsent) : IsEnd(m, j) => ~IsAbout(unsent[i], j)
  /\ \A i, k \in 1 .. Len(unsent) : i < k /\ IsEnd(unsent[i], j) => ~IsAbout(unsent[k], j)

RunsJob(c, j) == pc[c] \in Running /\ job[c] = j

LEMMA EndLastIsEndsComeLast ==
  EndsComeLast <=> \A c \in Conns, j \in Jobs : EndLast(RunsJob(c, j), told[c], outbox[c], j)
BY DEF EndsComeLast, EndLast, RunsJob

LEMMA QuietEndsLast ==
  ASSUME EndsComeLast, NEW c \in Conns, NEW j \in Jobs, QuietStep(c)
  PROVE  EndLast(RunsJob(c, j)', told'[c], outbox'[c], j)
<1>1. EndLast(RunsJob(c, j), told[c], outbox[c], j)
  BY EndLastIsEndsComeLast
<1>2. RunsJob(c, j)' => RunsJob(c, j)
  BY DEF RunsJob, QuietStep, PastPhase1
<1>3. \A m : IsEnd(m, j) => IsAbout(m, j)
  BY EndsAreAbout
<1>4. told'[c] \subseteq told[c]
  BY DEF QuietStep
<1>5. CASE outbox'[c] = outbox[c]
  BY <1>1, <1>2, <1>4, <1>5 DEF EndLast
<1>6. CASE \A i \in 1 .. Len(outbox'[c]) : ~IsAbout(outbox'[c][i], j)
  BY <1>1, <1>2, <1>3, <1>4, <1>6 DEF EndLast
<1> QED
  BY <1>5, <1>6 DEF QuietStep

LEMMA WriteEndsLast ==
  ASSUME IInv, EndsComeLast, NEW c \in Conns, NEW j \in Jobs, WriteStep(c)
  PROVE  EndLast(RunsJob(c, j)', told'[c], outbox'[c], j)
<1> DEFINE o == outbox[c]
           t == Tail(outbox[c])
<1>1. EndLast(RunsJob(c, j), told[c], o, j)
  BY EndLastIsEndsComeLast
<1>2. /\ RunsJob(c, j)' <=> RunsJob(c, j)
      /\ told'[c] \subseteq told[c] \cup {Head(o)} /\ o # <<>> /\ outbox'[c] = t
  BY DEF RunsJob, WriteStep
<1>3. o \in Seq(Message)
  BY DEF IInv, TypeOK
<1>4. /\ 1 \in 1 .. Len(o) /\ Head(o) = o[1]
      /\ \A i \in 1 .. Len(t) : i + 1 \in 1 .. Len(o) /\ 1 < i + 1 /\ t[i] = o[i + 1]
  BY <1>2, <1>3
<1> HIDE DEF o, t
<1>5. \A m \in told'[c] : m \in told[c] \/ m = o[1]
  BY <1>2, <1>4
<1>6. ASSUME RunsJob(c, j), NEW m \in told'[c] \cup {t[i] : i \in 1 .. Len(t)} PROVE ~IsEnd(m, j)
  BY <1>1, <1>4, <1>5, <1>6 DEF EndLast
<1>7. ASSUME NEW m \in told'[c], NEW i \in 1 .. Len(t), IsEnd(m, j) PROVE ~IsAbout(t[i], j)
  <2>1. CASE m \in told[c]
    BY <1>1, <1>4, <1>7, <2>1 DEF EndLast
  <2>2. CASE m = o[1]
    <3>1. i + 1 \in 1 .. Len(o) /\ 1 < i + 1 /\ t[i] = o[i + 1]
      BY <1>4
    <3> QED
      BY <1>1, <1>4, <1>7, <2>2, <3>1 DEF EndLast
  <2> QED
    BY <1>5, <2>1, <2>2
<1>8. ASSUME NEW i \in 1 .. Len(t), NEW k \in 1 .. Len(t), i < k, IsEnd(t[i], j)
      PROVE  ~IsAbout(t[k], j)
  <2>1. /\ i + 1 \in 1 .. Len(o) /\ t[i] = o[i + 1]
        /\ k + 1 \in 1 .. Len(o) /\ t[k] = o[k + 1] /\ i + 1 < k + 1
    BY <1>4, <1>8
  <2> QED
    BY <1>1, <1>8, <2>1 DEF EndLast
<1> QED
  BY <1>2, <1>6, <1>7, <1>8 DEF EndLast

(* The reports of a job that is not over are about that job only, and no end *)
(* of it was told before.                                                    *)
LEMMA NoEndTold ==
  ASSUME IInv, NEW c \in Conns, NEW j \in Jobs, pjState[j] \notin PJTerminal
  PROVE  \A m \in told[c] : ~IsEnd(m, j)
BY EndedJobs

LEMMA BeginEndsLast ==
  ASSUME IInv, EndsComeLast, NEW c \in Conns, NEW j \in Jobs, BeginStep(c)
  PROVE  EndLast(RunsJob(c, j)', told'[c], outbox'[c], j)
<1>1. /\ told'[c] = told[c] /\ Len(outbox'[c]) = 0
      /\ RunsJob(c, j)' => pjState[j] \notin PJTerminal
  BY DEF BeginStep, RunsJob, PJTerminal
<1>2. \A i : i \notin 1 .. Len(outbox'[c])
  BY <1>1
<1> QED
  BY <1>1, <1>2, NoEndTold DEF EndLast

LEMMA MoveEndsLast ==
  ASSUME IInv, EndsComeLast, NEW c \in Conns, NEW j \in Jobs, MoveStep(c)
  PROVE  EndLast(RunsJob(c, j)', told'[c], outbox'[c], j)
<1> DEFINE w == CurrentWafer(c)
           e == Event(SubstrateLocationChanged, w)
<1>0. /\ job[c] \in Jobs /\ idx[c] \in 1 .. Len(pjWafers[job[c]])
      /\ w = pjWafers[job[c]][idx[c]] /\ pc[c] \in Running
  BY RunnersWafer DEF MoveStep, Running
<1>1. /\ told'[c] = told[c] /\ outbox'[c] = <<e>>
      /\ RunsJob(c, j)' <=> RunsJob(c, j)
  BY <1>0 DEF MoveStep, RunsJob
<1>2. e.id = SubstrateLocationChanged /\ e.subject = w
  BY DEF Event
<1> HIDE DEF e
<1>3. ~IsEnd(e, j)
  BY <1>2, EndsAreAbout DEF SubstrateLocationChanged, ProcessJobCompleted, ProcessJobAborted
<1>4. IsAbout(e, j) => j = job[c]
  <2>1. SubstrateLocationChanged \notin JobEvents
    BY DEF SubstrateLocationChanged, JobEvents, ProcessJobCreated, ProcessJobStarted,
           ProcessJobCompleted, ProcessJobAborted
  <2>2. IsAbout(e, j) => w \in WaferSet(j)
    BY <1>2, <2>1 DEF IsAbout
  <2> QED
    BY <1>0, <2>2 DEF IInv, WafersAreOwned, WaferSet
<1>5. \A m \in told[c] : IsEnd(m, j) => ~IsAbout(e, j)
  <2>1. EndLast(RunsJob(c, j), told[c], outbox[c], j)
    BY EndLastIsEndsComeLast
  <2> QED
    BY <1>0, <1>4, <2>1 DEF EndLast, RunsJob
<1>6. RunsJob(c, j) => \A m \in told[c] : ~IsEnd(m, j)
  BY EndLastIsEndsComeLast DEF EndLast
<1>7. Len(outbox'[c]) = 1 /\ outbox'[c][1] = e
  BY <1>1
<1>8. \A i \in 1 .. Len(outbox'[c]) : i = 1
  BY <1>7
<1> QED
  BY <1>1, <1>3, <1>5, <1>6, <1>7, <1>8 DEF EndLast

LEMMA StartEndsLast ==
  ASSUME IInv, EndsComeLast, NEW c \in Conns, NEW j \in Jobs, StartStep(c)
  PROVE  EndLast(RunsJob(c, j)', told'[c], outbox'[c], j)
<1>1. /\ told'[c] = told[c] /\ ~RunsJob(c, j)' /\ pjState[job[c]] = "Queued"
  BY DEF StartStep, RunsJob, Running
<1>2. ASSUME NEW i \in 1 .. Len(outbox'[c])
      PROVE  ~IsEnd(outbox'[c][i], j) /\ (IsAbout(outbox'[c][i], j) => j = job[c])
  <2> DEFINE m == outbox'[c][i]
  <2>1. CASE \E e \in {ProcessJobCreated, ProcessJobStarted} : m = Event(e, job[c])
    BY <2>1, EndsAreAbout DEF Event, IsAbout, SubstrateLocationChanged, ProcessJobCreated,
           ProcessJobStarted, ProcessJobCompleted, ProcessJobAborted
  <2>2. CASE m.id \in 7001 .. 7005
    <3>1. m.id \notin {SubstrateLocationChanged} \cup JobEvents
      BY <2>2 DEF SubstrateLocationChanged, JobEvents, ProcessJobCreated, ProcessJobStarted,
                  ProcessJobCompleted, ProcessJobAborted
    <3> QED
      BY <3>1, NotAbout, EndsAreAbout
  <2> QED
    BY <2>1, <2>2 DEF StartStep
<1>3. j = job[c] => \A m \in told[c] : ~IsEnd(m, j)
  BY <1>1, NoEndTold DEF PJTerminal
<1> QED
  BY <1>1, <1>2, <1>3 DEF EndLast

LEMMA AbortEndsLast ==
  ASSUME IInv, EndsComeLast, NEW c \in Conns, NEW j \in Jobs, AbortStep(c)
  PROVE  EndLast(RunsJob(c, j)', told'[c], outbox'[c], j)
<1> DEFINE a == Alarm(DriftOutOfSpec)
           e == Event(ProcessJobAborted, job[c])
<1>1. /\ told'[c] = told[c] /\ ~RunsJob(c, j)' /\ pjState[job[c]] \notin PJTerminal
      /\ outbox'[c] = <<>> \/ outbox'[c] = <<a, e>>
  BY DEF AbortStep, RunsJob, Running
<1>2. ~IsAbout(a, j) /\ ~IsEnd(a, j)
  <2>1. a.id \notin {SubstrateLocationChanged} \cup JobEvents
    BY MessageTypes DEF SubstrateLocationChanged, JobEvents, ProcessJobCreated,
       ProcessJobStarted, ProcessJobCompleted, ProcessJobAborted
  <2> QED
    BY <2>1, NotAbout, EndsAreAbout
<1>3. IsAbout(e, j) => j = job[c]
  BY DEF Event, IsAbout, SubstrateLocationChanged, ProcessJobAborted
<1>4. j = job[c] => \A m \in told[c] : ~IsEnd(m, j)
  BY <1>1, NoEndTold
<1> HIDE DEF a, e
<1>5. \A i \in 1 .. Len(outbox'[c]) : \/ i = 1 /\ outbox'[c][i] = a
                                      \/ i = 2 /\ outbox'[c][i] = e
  <2>1. CASE outbox'[c] = <<>>
    BY <2>1
  <2>2. CASE outbox'[c] = <<a, e>>
    <3>1. Len(outbox'[c]) = 2 /\ outbox'[c][1] = a /\ outbox'[c][2] = e
      BY <2>2
    <3>2. \A i \in 1 .. 2 : i = 1 \/ i = 2
      OBVIOUS
    <3> QED
      BY <3>1, <3>2
  <2> QED
    BY <1>1, <2>1, <2>2
<1>6. \A m \in told[c], i \in 1 .. Len(outbox'[c]) : IsEnd(m, j) => ~IsAbout(outbox'[c][i], j)
  BY <1>2, <1>3, <1>4, <1>5
<1>7. \A i, k \in 1 .. Len(outbox'[c]) : i < k => ~IsEnd(outbox'[c][i], j)
  BY <1>2, <1>5
<1> QED
  BY <1>1, <1>6, <1>7 DEF EndLast

LEMMA FinishEndsLast ==
  ASSUME IInv, EndsComeLast, NEW c \in Conns, NEW j \in Jobs, EndStep(c)
  PROVE  EndLast(RunsJob(c, j)', told'[c], outbox'[c], j)
<1>1. /\ told'[c] = told[c] /\ ~RunsJob(c, j)' /\ pjState[job[c]] = "Executing"
      /\ \E e \in {ProcessJobCompleted, ProcessJobAborted} : outbox'[c][1] = Event(e, job[c])
  BY DEF EndStep, RunsJob, Running
<1>2. IsAbout(outbox'[c][1], j) => j = job[c]
  BY <1>1 DEF Event, IsAbout, SubstrateLocationChanged, ProcessJobAborted, ProcessJobCompleted
<1>3. ASSUME NEW i \in 1 .. Len(outbox'[c]), i # 1 PROVE ~IsAbout(outbox'[c][i], j)
  <2>1. outbox'[c][i].id \in 7001 .. 7005
    BY <1>3 DEF EndStep
  <2>2. outbox'[c][i].id \notin {SubstrateLocationChanged} \cup JobEvents
    BY <2>1 DEF SubstrateLocationChanged, JobEvents, ProcessJobCreated,
                ProcessJobStarted, ProcessJobCompleted, ProcessJobAborted
  <2> QED
    BY <2>2, NotAbout
<1>4. j = job[c] => \A m \in told[c] : ~IsEnd(m, j)
  BY <1>1, NoEndTold DEF PJTerminal
<1>5. \A i, k \in 1 .. Len(outbox'[c]) : i < k => k # 1
  OBVIOUS
<1> QED
  BY <1>1, <1>2, <1>3, <1>4, <1>5 DEF EndLast

LEMMA StepEndsComeLast ==
  ASSUME IInv, EndsComeLast, [Next]_vars
  PROVE  EndsComeLast'
<1>1. ASSUME NEW c \in Conns, ConnStep(c) PROVE EndsComeLast'
  <2>1. pjWafers' = pjWafers /\ Others(c)
    BY <1>1 DEF ConnStep, QuietStep, WriteStep, BeginStep, MoveStep, StartStep, AbortStep,
                EndStep, ListsKept
  <2>2. ASSUME NEW d \in Conns, NEW j \in Jobs
        PROVE  EndLast(RunsJob(d, j)', told'[d], outbox'[d], j)
    <3>1. CASE d # c
      <4>1. /\ RunsJob(d, j)' <=> RunsJob(d, j)
            /\ told'[d] = told[d] /\ outbox'[d] = outbox[d]
        BY <2>1, <3>1 DEF Others, RunsJob
      <4>2. EndLast(RunsJob(d, j), told[d], outbox[d], j)
        BY EndLastIsEndsComeLast
      <4> QED
        BY <4>1, <4>2 DEF EndLast
    <3>2. CASE d = c
      BY <1>1, <3>2, QuietEndsLast, WriteEndsLast, BeginEndsLast, MoveEndsLast, StartEndsLast,
         AbortEndsLast, FinishEndsLast DEF ConnStep
    <3> QED
      BY <3>1, <3>2
  <2>3. \A m, j : IsAbout(m, j)' <=> IsAbout(m, j)
    BY <2>1 DEF IsAbout, WaferSet
  <2> QED
    BY <2>2, <2>3 DEF EndsComeLast, EndLast, RunsJob
<1>2. CASE UNCHANGED vars
  BY <1>2 DEF EndsComeLast, IsAbout, WaferSet, vars, fabVars, jobVars, connVars, threadVars
<1> QED
  BY <1>1, <1>2, StepKinds, StageEndsLast

-----------------------------------------------------------------------------
(* The theorems about jobs. *)

LEMMA InitServiceInv == Init => ServiceInv
<1> SUFFICES ASSUME Init PROVE ServiceInv
  OBVIOUS
<1>1. JobsAreCreatedOnce /\ OneLotPerJob
  BY DEF Init, JobsAreCreatedOnce, OneLotPerJob
<1>2. WafersWaitTheirTurn
  BY DEF Init, WafersWaitTheirTurn, NoneFixed, WaferSet, Running
<1>3. EndsComeLast
  BY DEF Init, EndsComeLast, Running
<1> QED
  BY <1>1, <1>2, <1>3 DEF ServiceInv

LEMMA StepServiceInv == IInv /\ ServiceInv /\ [Next]_vars => ServiceInv'
BY StepJobsAreCreatedOnce, StepOneLotPerJob, StepWafersWait, StepEndsComeLast DEF ServiceInv

(* ServiceInv, the second half of the inductive invariant, holds in every    *)
(* reachable state: jobs are created once, wafers wait their turn, a job has *)
(* one lot, and ends come last.                                              *)
THEOREM ServiceInvariant == Spec => []ServiceInv
BY InitServiceInv, StepServiceInv, Invariant, PTL DEF Spec

(* JobsOwnTheirWafers: whatever staging calls fail half-way, a created job   *)
(* owns registered wafers of one lot, each listed once and by no other job   *)
(* (stage_lot_and_job).                                                      *)
THEOREM CreatedJobsOwnTheirWafers == Spec => []JobsOwnTheirWafers
<1>1. IInv /\ ServiceInv => JobsOwnTheirWafers
  <2> SUFFICES ASSUME IInv, ServiceInv, NEW j \in Jobs, pjState[j] # "None"
               PROVE  /\ \E l \in carriers : \A w \in WaferSet(j) : waferLot[w] = l
                      /\ \A w \in WaferSet(j) : loc[w] # "None"
                      /\ \A i, k \in 1 .. Len(pjWafers[j]) :
                           pjWafers[j][i] = pjWafers[j][k] => i = k
                      /\ \A k \in Jobs \ {j} : WaferSet(j) \cap WaferSet(k) = {}
    BY DEF JobsOwnTheirWafers
  <2>1. \E l \in carriers : \A w \in WaferSet(j) : waferLot[w] = l
    BY DEF ServiceInv, OneLotPerJob
  <2>2. /\ \A w \in WaferSet(j) : loc[w] # "None"
        /\ \A i, k \in 1 .. Len(pjWafers[j]) : pjWafers[j][i] = pjWafers[j][k] => i = k
        /\ \A k \in Jobs \ {j} : WaferSet(j) \cap WaferSet(k) = {}
    BY DEF IInv, WafersAreOwned, WaferSet
  <2> QED
    BY <2>1, <2>2
<1> QED
  BY <1>1, Invariant, ServiceInvariant, PTL

(* NothingAfterTheEnd: once a host was told a job's end on a connection,     *)
(* nothing more of that job or its wafers is sent to it there, nothing new   *)
(* and nothing again (the reports that run_process_job returns are written   *)
(* in order, and a job that is over is refused by phase 1).                  *)
THEOREM EndsAreLast == Spec => []NothingAfterTheEnd
<1>1. IInv /\ ServiceInv => NothingAfterTheEnd
  <2> SUFFICES ASSUME IInv, EndsComeLast, NEW c \in Conns, NEW j \in Jobs,
                      NEW i \in 1 .. Len(outbox[c]),
                      \/ \E m \in told[c] : IsEnd(m, j)
                      \/ \E k \in 1 .. i - 1 : IsEnd(outbox[c][k], j)
               PROVE  ~IsAbout(outbox[c][i], j)
    BY DEF ServiceInv, NothingAfterTheEnd
  <2>1. CASE \E m \in told[c] : IsEnd(m, j)
    BY <2>1 DEF EndsComeLast
  <2>2. CASE \E k \in 1 .. i - 1 : IsEnd(outbox[c][k], j)
    <3>1. Len(outbox[c]) \in Nat
      BY DEF IInv, TypeOK
    <3>2. PICK k \in 1 .. Len(outbox[c]) : k < i /\ IsEnd(outbox[c][k], j)
      BY <2>2, <3>1
    <3> QED
      BY <3>2 DEF EndsComeLast
  <2> QED
    BY <2>1, <2>2
<1> QED
  BY <1>1, Invariant, ServiceInvariant, PTL

-----------------------------------------------------------------------------
(* The refinement.  The variables of the job service in a state of FabSim.  *)

Size == [j \in Jobs |-> Len(pjWafers[j])]

Out(j) == {i \in 1 .. Len(pjWafers[j]) : loc[pjWafers[j][i]] = "Fixed"}

Exposed == [j \in Jobs |-> Out(j)]

Knows == [c \in Conns |-> EndsTold(c)]

ServiceVars == <<pjState, Size, Exposed, Knows>>

(* The report of an end tells which end of which job it is. *)
LEMMA EndOfReport ==
  ASSUME NEW j \in Jobs, NEW st \in PJTerminal, NEW m,
         m = Event(IF st = "Completed" THEN ProcessJobCompleted ELSE ProcessJobAborted, j)
  PROVE  \A e \in Jobs \X PJTerminal :
           m = Event(IF e[2] = "Completed" THEN ProcessJobCompleted ELSE ProcessJobAborted, e[1])
             <=> e = <<j, st>>
<1> SUFFICES ASSUME NEW k \in Jobs, NEW s2 \in PJTerminal
             PROVE  m = Event(IF s2 = "Completed" THEN ProcessJobCompleted
                                                  ELSE ProcessJobAborted, k)
                      <=> k = j /\ s2 = st
  OBVIOUS
<1>1. \A a, b : Event(a, k) = Event(b, j) <=> a = b /\ k = j
  BY DEF Event
<1> QED
  BY <1>1 DEF PJTerminal, ProcessJobCompleted, ProcessJobAborted

(* A step that only creates a job, or registers wafers no job lists yet. *)
LEMMA StageRefines ==
  ASSUME IInv, ServiceInv, NEW s \in Stagings, Stage(s)
  PROVE  JS!Create(s.job) \/ UNCHANGED ServiceVars
<1>0. /\ s.job \in Jobs /\ s.wafers \in Seq(Wafers)
      /\ pjState \in [Jobs -> PJState \cup {"None"}]
      /\ pjWafers \in [Jobs -> Seq(Wafers)]
  BY StageFacts DEF IInv, TypeOK
<1>1. Knows' = Knows
  BY StageFacts DEF Knows, EndsTold
<1>2. ASSUME NEW k \in Jobs, pjWafers'[k] = pjWafers[k]
      PROVE  Out(k)' = Out(k) /\ Len(pjWafers'[k]) = Len(pjWafers[k])
  <2>1. \A i \in 1 .. Len(pjWafers[k]) : loc'[pjWafers[k][i]] = loc[pjWafers[k][i]]
    BY StageFacts, ListedWafers
  <2> QED
    BY <1>2, <2>1 DEF Out
<1>3. CASE UNCHANGED <<pjState, pjWafers>>
  BY <1>1, <1>2, <1>3 DEF ServiceVars, Size, Exposed
<1>4. CASE /\ pjState[s.job] = "None"
           /\ pjState' = [pjState EXCEPT ![s.job] = "Queued"]
           /\ pjWafers' = [pjWafers EXCEPT ![s.job] = s.wafers]
           /\ \A i \in 1 .. Len(s.wafers) : loc'[s.wafers[i]] = "Port"
  <2>1. \A k \in Jobs \ {s.job} : pjWafers'[k] = pjWafers[k]
    BY <1>0, <1>4
  <2>2. pjWafers'[s.job] = s.wafers
    BY <1>0, <1>4
  <2>3. pjWafers[s.job] = <<>>
    BY <1>0, <1>4 DEF ServiceInv, JobsAreCreatedOnce
  <2>4. Out(s.job)' = {} /\ Out(s.job) = {}
    BY <1>4, <2>2, <2>3 DEF Out
  <2>5. Exposed' = Exposed
    BY <1>2, <2>1, <2>4 DEF Exposed
  <2>6. /\ Size' \in [Jobs -> Nat]
        /\ \A k \in Jobs \ {s.job} : Size'[k] = Size[k]
    <3>1. \A k \in Jobs : Len(pjWafers'[k]) \in Nat
      BY <1>0, <1>4
    <3> QED
      BY <2>1, <3>1 DEF Size
  <2> QED
    BY <1>1, <1>4, <2>5, <2>6 DEF JS!Create, Size, Exposed, Knows, Out
<1> QED
  BY <1>3, <1>4, StageFacts

(* Steps of a connection change no list and, but for a move, no location. *)
LEMMA KeptLists ==
  ASSUME UNCHANGED <<pjWafers, loc>>
  PROVE  UNCHANGED <<Size, Exposed>>
BY DEF Size, Exposed, Out

LEMMA KeptReports ==
  ASSUME NEW c \in Conns, Others(c), told'[c] = told[c]
  PROVE  Knows' = Knows
<1>1. \A d \in Conns : told'[d] = told[d]
  BY DEF Others
<1> QED
  BY <1>1 DEF Knows, EndsTold

LEMMA QuietRefines ==
  ASSUME NEW c \in Conns, QuietStep(c)
  PROVE  JS!NewSession(c) \/ UNCHANGED ServiceVars
<1>1. UNCHANGED <<pjState, Size, Exposed>>
  BY KeptLists DEF QuietStep, ListsKept
<1>2. CASE told'[c] = told[c]
  BY <1>1, <1>2, KeptReports DEF QuietStep, ServiceVars
<1>3. CASE told'[c] = {}
  <2>1. \A d \in Conns \ {c} : EndsTold(d)' = EndsTold(d)
    BY DEF QuietStep, Others, EndsTold
  <2>2. EndsTold(c)' = {}
    BY <1>3 DEF EndsTold
  <2>3. Knows' = [Knows EXCEPT ![c] = {}]
    BY <2>1, <2>2 DEF Knows
  <2> QED
    BY <1>1, <2>3 DEF JS!NewSession, Size, Exposed, Knows, Out
<1> QED
  BY <1>2, <1>3 DEF QuietStep


LEMMA WriteRefines ==
  ASSUME IInv, NEW c \in Conns, WriteStep(c)
  PROVE  (\E j \in Jobs : JS!Learn(c, j)) \/ UNCHANGED ServiceVars
<1> DEFINE m == Head(outbox[c])
<1>1. UNCHANGED <<pjState, Size, Exposed>>
  BY KeptLists DEF WriteStep, ListsKept
<1>2. CASE told'[c] = told[c]
  BY <1>1, <1>2, KeptReports DEF WriteStep, ServiceVars
<1>3. ASSUME told'[c] = told[c] \cup {m}, NEW j \in Jobs, IsEnd(m, j)
      PROVE  JS!Learn(c, j)
  <2>1. outbox[c] \in Seq(Message) /\ outbox[c] # <<>>
    BY DEF IInv, TypeOK, WriteStep
  <2>2. 1 \in 1 .. Len(outbox[c]) /\ m = outbox[c][1]
    BY <2>1
  <2>3. EndMatches(m, pjState)
    BY <2>2 DEF IInv, ReportsMatch
  <2>4. /\ pjState[j] \in PJTerminal
        /\ m = Event(IF pjState[j] = "Completed" THEN ProcessJobCompleted
                                                 ELSE ProcessJobAborted, j)
    BY <1>3, <2>3 DEF EndMatches, IsEnd, PJTerminal
  <2> HIDE DEF m
  <2>5. EndsTold(c)' = EndsTold(c) \cup {<<j, pjState[j]>>}
    BY <1>3, <2>4, EndOfReport DEF EndsTold
  <2>6. \A d \in Conns \ {c} : EndsTold(d)' = EndsTold(d)
    BY DEF WriteStep, Others, EndsTold
  <2>7. Knows' = [Knows EXCEPT ![c] = @ \cup {<<j, pjState[j]>>}]
    BY <2>5, <2>6 DEF Knows
  <2> QED
    BY <1>1, <2>4, <2>7 DEF JS!Learn, JS!Ended, PJTerminal, Size, Exposed, Knows, Out
<1>4. ASSUME told'[c] = told[c] \cup {m}, \A j \in Jobs : ~IsEnd(m, j)
      PROVE  UNCHANGED ServiceVars
  <2>1. \A d \in Conns : EndsTold(d)' = EndsTold(d)
    <3>1. EndsTold(c)' = EndsTold(c)
      BY <1>4 DEF EndsTold, IsEnd
    <3> QED
      BY <3>1 DEF WriteStep, Others, EndsTold
  <2> QED
    BY <1>1, <2>1 DEF ServiceVars, Knows
<1> QED
  BY <1>2, <1>3, <1>4 DEF WriteStep

(* What is out of the chamber while a thread runs a job: the wafers before   *)
(* the one it is at.                                                         *)
LEMMA RunnersOut ==
  ASSUME IInv, ServiceInv, NEW c \in Conns, pc[c] \in {"load", "unload"}
  PROVE  Out(job[c]) = 1 .. idx[c] - 1
<1> DEFINE j == job[c]
<1>1. /\ idx[c] \in 1 .. Len(pjWafers[j]) /\ j \in Jobs
  BY RunnersWafer
<1>2. /\ \A i \in 1 .. Len(pjWafers[j]) : i < idx[c] => loc[pjWafers[j][i]] = "Fixed"
      /\ \A i \in 1 .. Len(pjWafers[j]) : idx[c] <= i => loc[pjWafers[j][i]] # "Fixed"
  BY DEF IInv, WafersAreDoneInOrder, ServiceInv, WafersWaitTheirTurn, Running
<1>3. Len(pjWafers[j]) \in Nat
  BY <1>1, ListedWafers
<1> QED
  BY <1>1, <1>2, <1>3 DEF Out

LEMMA MoveRefines ==
  ASSUME IInv, ServiceInv, NEW c \in Conns, MoveStep(c), NEW j \in Jobs, j = job[c]
  PROVE  JS!Expose(j) \/ UNCHANGED ServiceVars
<1> DEFINE w == CurrentWafer(c)
<1>1. /\ UNCHANGED <<pjState, pjWafers, Size, Knows>>
  BY KeptReports DEF MoveStep, ListsKept, Size
<1>2. /\ j \in Jobs /\ pjState[j] \in {"Executing", "Aborted"}
      /\ idx[c] \in 1 .. Len(pjWafers[j]) /\ w = pjWafers[j][idx[c]]
      /\ w \in Wafers /\ Out(j) = 1 .. idx[c] - 1
  BY RunnersWafer, RunnersOut DEF MoveStep
<1>3. loc \in [Wafers -> Location]
  BY DEF IInv, TypeOK
<1>4. \A k \in Jobs : \A i \in 1 .. Len(pjWafers[k]) :
        /\ pjWafers[k][i] \in Wafers
        /\ pjWafers[k][i] = w <=> k = j /\ i = idx[c]
  BY <1>2, ListedWafers DEF IInv, WafersAreOwned
<1> HIDE DEF w
<1>5. CASE loc' = [loc EXCEPT ![w] = "Chamber"]
  <2>1. \A k \in Jobs : \A i \in 1 .. Len(pjWafers[k]) :
          loc'[pjWafers[k][i]] = "Fixed" <=> loc[pjWafers[k][i]] = "Fixed"
    <3>1. loc[w] # "Fixed"
      <4>1. idx[c] \notin Out(j)
        BY <1>2
      <4> QED
        BY <1>2, <4>1 DEF Out
    <3> QED
      BY <1>3, <1>4, <1>5, <3>1
  <2>2. \A k \in Jobs : Out(k)' = Out(k)
    BY <1>1, <2>1 DEF Out
  <2> QED
    BY <1>1, <2>2 DEF ServiceVars, Exposed
<1>6. CASE loc' = [loc EXCEPT ![w] = "Fixed"]
  <2>1. \A k \in Jobs : \A i \in 1 .. Len(pjWafers[k]) :
          loc'[pjWafers[k][i]] = "Fixed"
            <=> loc[pjWafers[k][i]] = "Fixed" \/ (k = j /\ i = idx[c])
    BY <1>3, <1>4, <1>6
  <2>2. \A k \in Jobs \ {j} : Out(k)' = Out(k)
    BY <1>1, <2>1 DEF Out
  <2>3. Out(j)' = 1 .. idx[c]
    <3>1. Out(j)' = Out(j) \cup {idx[c]}
      BY <1>1, <1>2, <2>1 DEF Out
    <3>2. 1 .. idx[c] = (1 .. idx[c] - 1) \cup {idx[c]}
      BY <1>2
    <3> QED
      BY <1>2, <3>1, <3>2
  <2>4. Exposed' = [Exposed EXCEPT ![j] = 1 .. idx[c]]
    BY <1>2, <2>2, <2>3 DEF Exposed
  <2>5. Exposed[j] = 1 .. idx[c] - 1 /\ idx[c] \in 1 .. Size[j]
    BY <1>2 DEF Exposed, Size
  <2> QED
    BY <1>1, <1>2, <2>4, <2>5 DEF JS!Expose, Size, Exposed, Knows, Out
<1> QED
  BY <1>5, <1>6 DEF MoveStep, w


(* A start, an abort in phase 1 and the end in phase 3 change a job's state  *)
(* and nothing else that the job service sees.                               *)
LEMMA EndsRefine ==
  ASSUME IInv, ServiceInv, NEW c \in Conns, StartStep(c) \/ AbortStep(c) \/ EndStep(c)
  PROVE  \E j \in Jobs : JS!Start(j) \/ JS!Abort(j) \/ JS!Complete(j)
<1> DEFINE j == job[c]
<1>1. /\ UNCHANGED <<Size, Exposed, Knows>>
  BY KeptLists, KeptReports DEF StartStep, AbortStep, EndStep, ListsKept
<1>2. j \in Jobs
  BY DEF IInv, ThreadsHoldJobs, PastPhase1, Running, StartStep, AbortStep, EndStep
<1>3. CASE StartStep(c)
  <2>1. JS!Start(j)
    BY <1>1, <1>3 DEF StartStep, JS!Start, Size, Exposed, Knows, Out
  <2> QED
    BY <1>2, <2>1
<1>4. CASE AbortStep(c)
  <2>1. pjState[j] \in {"Queued", "Executing"}
    BY <1>2, <1>4 DEF AbortStep, ServiceInv, JobsAreCreatedOnce
  <2>2. JS!Abort(j)
    BY <1>1, <1>4, <2>1 DEF AbortStep, JS!Abort, Size, Exposed, Knows, Out
  <2> QED
    BY <1>2, <2>2
<1>5. CASE EndStep(c) /\ failed[c]
  <2>1. JS!Abort(j)
    BY <1>1, <1>5 DEF EndStep, Outcome, JS!Abort, Size, Exposed, Knows, Out
  <2> QED
    BY <1>2, <2>1
<1>6. CASE EndStep(c) /\ ~failed[c]
  <2>1. /\ idx[c] > Len(pjWafers[j])
        /\ \A i \in 1 .. Len(pjWafers[j]) : i < idx[c] => loc[pjWafers[j][i]] = "Fixed"
    BY <1>6 DEF IInv, WafersAreDoneInOrder, Running, EndStep
  <2>2. idx[c] \in Nat /\ Len(pjWafers[j]) \in Nat
    BY <1>2, ListedWafers DEF IInv, TypeOK
  <2>3. Out(j) = 1 .. Len(pjWafers[j])
    BY <2>1, <2>2 DEF Out
  <2>4. Exposed[j] = 1 .. Size[j]
    BY <1>2, <2>3 DEF Exposed, Size
  <2>5. JS!Complete(j)
    BY <1>1, <1>6, <2>4 DEF EndStep, Outcome, JS!Complete, Size, Exposed, Knows, Out
  <2> QED
    BY <1>2, <2>5
<1> QED
  BY <1>3, <1>4, <1>5, <1>6

LEMMA BeginRefines ==
  ASSUME NEW c \in Conns, BeginStep(c)
  PROVE  UNCHANGED ServiceVars
BY KeptLists, KeptReports DEF BeginStep, ListsKept, ServiceVars

LEMMA InitRefines ==
  ASSUME Init
  PROVE  JS!ServiceInit
<1>1. \A j \in Jobs : Len(pjWafers[j]) = 0 /\ Out(j) = {}
  BY DEF Init, Out
<1>2. \A c \in Conns : EndsTold(c) = {}
  BY DEF Init, EndsTold
<1>3. Size = [j \in Jobs |-> 0] /\ Exposed = [j \in Jobs |-> {}]
  BY <1>1 DEF Size, Exposed
<1>4. Knows = [c \in Conns |-> {}]
  BY <1>2 DEF Knows
<1>5. pjState = [j \in Jobs |-> "None"]
  BY DEF Init
<1> QED
  BY <1>3, <1>4, <1>5 DEF JS!ServiceInit, Size, Exposed, Knows, Out

LEMMA StepRefines ==
  ASSUME IInv, ServiceInv, [Next]_vars
  PROVE  [JS!ServiceNext]_(JS!serviceVars)
<1>1. ASSUME UNCHANGED ServiceVars PROVE UNCHANGED JS!serviceVars
  BY <1>1 DEF ServiceVars, JS!serviceVars, Size, Exposed, Knows, Out
<1>2. ASSUME NEW s \in Stagings, Stage(s)
      PROVE  JS!ServiceNext \/ UNCHANGED JS!serviceVars
  <2>1. s.job \in Jobs
    BY <1>2, StageFacts
  <2>2. JS!Create(s.job) => JS!ServiceNext
    BY <2>1 DEF JS!ServiceNext
  <2> QED
    BY <1>1, <1>2, <2>2, StageRefines
<1>3. ASSUME NEW c \in Conns, ConnStep(c)
      PROVE  JS!ServiceNext \/ UNCHANGED JS!serviceVars
  <2>1. CASE QuietStep(c)
    <3>1. JS!NewSession(c) => JS!ServiceNext
      BY DEF JS!ServiceNext
    <3> QED
      BY <1>1, <2>1, <3>1, QuietRefines
  <2>2. CASE WriteStep(c)
    <3>1. \A j \in Jobs : JS!Learn(c, j) => JS!ServiceNext
      BY DEF JS!ServiceNext
    <3> QED
      BY <1>1, <2>2, <3>1, WriteRefines
  <2>3. CASE BeginStep(c)
    BY <1>1, <2>3, BeginRefines
  <2>4. CASE MoveStep(c)
    <3>1. job[c] \in Jobs
      BY <2>4, RunnersWafer DEF MoveStep
    <3>2. \A j \in Jobs : JS!Expose(j) => JS!ServiceNext
      BY DEF JS!ServiceNext
    <3> QED
      BY <1>1, <2>4, <3>1, <3>2, MoveRefines
  <2>5. CASE StartStep(c) \/ AbortStep(c) \/ EndStep(c)
    <3>1. \A j \in Jobs : JS!Start(j) \/ JS!Abort(j) \/ JS!Complete(j) => JS!ServiceNext
      BY DEF JS!ServiceNext
    <3> QED
      BY <2>5, <3>1, EndsRefine
  <2> QED
    BY <1>3, <2>1, <2>2, <2>3, <2>4, <2>5 DEF ConnStep
<1>4. CASE UNCHANGED vars
  <2>1. UNCHANGED <<pjState, pjWafers, loc, told>>
    BY <1>4 DEF vars, fabVars, jobVars, substrateVars, connVars
  <2>2. UNCHANGED <<Size, Exposed, Knows>>
    BY <2>1 DEF Size, Exposed, Out, Knows, EndsTold
  <2> QED
    BY <1>1, <2>1, <2>2 DEF ServiceVars
<1> QED
  BY <1>2, <1>3, <1>4, StepKinds

(* ImplementsJobService: under every interleaving of connections, staging    *)
(* calls and lost peers, the simulator (stage_lot_and_job, run_process_job)  *)
(* does to jobs only what the job service allows.                            *)
THEOREM FabSimImplementsJobService == Spec => ImplementsJobService
<1>1. Init => JS!ServiceInit
  BY InitRefines
<1>2. IInv /\ ServiceInv /\ [Next]_vars => [JS!ServiceNext]_(JS!serviceVars)
  BY StepRefines
<1> QED
  BY <1>1, <1>2, Invariant, ServiceInvariant, PTL
  DEF Spec, ImplementsJobService, JS!ServiceSpec


-----------------------------------------------------------------------------
(* The counter of processed lots.                                           *)

DoneJobs == {j \in Jobs : pjState[j] = "Completed"}
DoneLots == {l \in Lots : lotState[l] = "Completed"}

(* Cardinality counts finite sets only: that these are finite is a part of   *)
(* the induction, since Jobs and Lots may be any sets.                       *)
CountInv ==
  /\ IsFiniteSet(DoneJobs) /\ IsFiniteSet(DoneLots)
  /\ lotsProcessed = Cardinality(DoneJobs)
  /\ Cardinality(DoneLots) <= Cardinality(DoneJobs)

(* No step but the end of a job completes a job or a lot.                    *)
LEMMA OnlyEndsComplete ==
  ASSUME IInv, ServiceInv, [Next]_vars, \A c \in Conns : ~EndStep(c)
  PROVE  DoneJobs' = DoneJobs /\ DoneLots' \subseteq DoneLots /\ lotsProcessed' = lotsProcessed
<1>0. /\ pjState \in [Jobs -> PJState \cup {"None"}]
      /\ lotState \in [Lots -> LotStates]
  BY DEF IInv, TypeOK
<1>1. CASE UNCHANGED vars
  BY <1>1 DEF DoneJobs, DoneLots, vars, fabVars, jobVars, lotVars, gemVars
<1>2. ASSUME NEW s \in Stagings, Stage(s)
      PROVE  DoneJobs' = DoneJobs /\ DoneLots' \subseteq DoneLots /\ lotsProcessed' = lotsProcessed
  <2>1. DoneJobs' = DoneJobs
    <3>1. CASE pjState' = pjState
      BY <3>1 DEF DoneJobs
    <3>2. CASE pjState[s.job] = "None" /\ pjState' = [pjState EXCEPT ![s.job] = "Queued"]
      BY <1>0, <3>2 DEF DoneJobs
    <3> QED
      BY <1>2, <3>1, <3>2, StageFacts
  <2>2. DoneLots' \subseteq DoneLots
    <3>1. CASE lotState' = lotState
      BY <3>1 DEF DoneLots
    <3>2. CASE lotState' = [lotState EXCEPT ![s.lot] = "InQueue"]
      BY <1>0, <3>2 DEF DoneLots
    <3> QED
      BY <1>2, <3>1, <3>2, StageFacts
  <2> QED
    BY <1>2, <2>1, <2>2, StageFacts
<1>3. ASSUME NEW c \in Conns, QuietStep(c) \/ WriteStep(c) \/ BeginStep(c) \/ MoveStep(c)
      PROVE  DoneJobs' = DoneJobs /\ DoneLots' \subseteq DoneLots /\ lotsProcessed' = lotsProcessed
  <2>1. UNCHANGED <<pjState, lotState, lotsProcessed>>
    BY <1>3 DEF QuietStep, WriteStep, BeginStep, MoveStep, LotsKept
  <2> QED
    BY <2>1 DEF DoneJobs, DoneLots
<1>4. ASSUME NEW c \in Conns, StartStep(c) \/ AbortStep(c)
      PROVE  DoneJobs' = DoneJobs /\ DoneLots' \subseteq DoneLots /\ lotsProcessed' = lotsProcessed
  <2>1. /\ lotsProcessed' = lotsProcessed
        /\ pjState[job[c]] # "Completed"
        /\ \E st \in {"Executing", "Aborted"} : pjState' = [pjState EXCEPT ![job[c]] = st]
    BY <1>4 DEF StartStep, AbortStep, PJTerminal
  <2>2. \/ lotState' = lotState
        \/ \E l, to : to # "Completed" /\ lotState' = [lotState EXCEPT ![l] = to]
    <3>1. CASE lotState' = MoveLot(LotOfVia, "InProcessing")
      BY <3>1 DEF MoveLot
    <3>2. CASE lotState' = HoldLot(job[c])
      <4>1. HoldLot(job[c]) \in
              {lotState, [lotState EXCEPT ![waferLot[pjWafers[job[c]][1]]] = "OnHold"]}
        BY DEF HoldLot
      <4> QED
        BY <3>2, <4>1
    <3>3. lotState' = MoveLot(LotOfVia, "InProcessing") \/ lotState' = HoldLot(job[c])
      BY <1>4 DEF StartStep, AbortStep
    <3> QED
      BY <3>1, <3>2, <3>3
  <2>3. DoneJobs' = DoneJobs
    <3>1. PICK st \in {"Executing", "Aborted"} : pjState' = [pjState EXCEPT ![job[c]] = st]
      BY <2>1
    <3>2. \A k \in Jobs : pjState'[k] = IF k = job[c] THEN st ELSE pjState[k]
      BY <1>0, <3>1
    <3>3. \A k \in Jobs : pjState'[k] = "Completed" <=> pjState[k] = "Completed"
      BY <2>1, <3>2
    <3> QED
      BY <3>3 DEF DoneJobs
  <2>4. DoneLots' \subseteq DoneLots
    <3>1. CASE lotState' = lotState
      BY <3>1 DEF DoneLots
    <3>2. ASSUME NEW l, NEW to, to # "Completed", lotState' = [lotState EXCEPT ![l] = to]
          PROVE  DoneLots' \subseteq DoneLots
      <4>1. \A k \in Lots : lotState'[k] = "Completed" => lotState[k] = "Completed"
        BY <1>0, <3>2
      <4> QED
        BY <4>1 DEF DoneLots
    <3> QED
      BY <2>2, <3>1, <3>2
  <2> QED
    BY <2>1, <2>3, <2>4
<1> QED
  BY <1>1, <1>2, <1>3, <1>4, StepKinds DEF ConnStep

(* The end of a job completes at most one job and one lot, and the lot only  *)
(* with the job.                                                             *)
LEMMA EndCounts ==
  ASSUME IInv, ServiceInv, CountInv, NEW c \in Conns, EndStep(c)
  PROVE  CountInv'
<1> DEFINE j == job[c]
<1>0. /\ pjState \in [Jobs -> PJState \cup {"None"}]
      /\ lotState \in [Lots -> LotStates]
      /\ j \in Jobs /\ pjState[j] = "Executing"
      /\ lotsProcessed \in Nat
  BY DEF IInv, TypeOK, ThreadsHoldJobs, PastPhase1, Running, EndStep
<1>1. CASE failed[c]
  <2>1. /\ pjState' = [pjState EXCEPT ![j] = "Aborted"] /\ lotsProcessed' = lotsProcessed
        /\ lotState' = MoveLot(LotOfVia, "OnHold")
    BY <1>1 DEF EndStep, Outcome
  <2>2. DoneJobs' = DoneJobs
    BY <1>0, <2>1 DEF DoneJobs
  <2>3. DoneLots' \subseteq DoneLots
    BY <1>0, <2>1 DEF DoneLots, MoveLot
  <2>4. IsFiniteSet(DoneLots') /\ Cardinality(DoneLots') <= Cardinality(DoneLots)
    BY <2>3, FS_Subset DEF CountInv
  <2>5. Cardinality(DoneLots') \in Nat /\ Cardinality(DoneLots) \in Nat
        /\ Cardinality(DoneJobs) \in Nat
    BY <2>4, FS_CardinalityType DEF CountInv
  <2> QED
    BY <2>1, <2>2, <2>4, <2>5 DEF CountInv
<1>2. CASE ~failed[c]
  <2>1. /\ pjState' = [pjState EXCEPT ![j] = "Completed"] /\ lotsProcessed' = lotsProcessed + 1
        /\ lotState' = MoveLot(LotOfVia, "Completed")
    BY <1>2 DEF EndStep, Outcome
  <2>2. DoneJobs' = DoneJobs \cup {j} /\ j \notin DoneJobs
    BY <1>0, <2>1 DEF DoneJobs
  <2>3. DoneLots' \subseteq DoneLots \cup {LotOfVia}
    BY <1>0, <2>1 DEF DoneLots, MoveLot
  <2>4. /\ IsFiniteSet(DoneJobs') /\ Cardinality(DoneJobs') = Cardinality(DoneJobs) + 1
    BY <2>2, FS_AddElement DEF CountInv
  <2>5. /\ IsFiniteSet(DoneLots \cup {LotOfVia})
        /\ Cardinality(DoneLots \cup {LotOfVia}) <= Cardinality(DoneLots) + 1
    <3>1. Cardinality(DoneLots) \in Nat
      BY FS_CardinalityType DEF CountInv
    <3>2. CASE LotOfVia \in DoneLots
      <4>1. DoneLots \cup {LotOfVia} = DoneLots
        BY <3>2
      <4> QED
        BY <3>1, <4>1 DEF CountInv
    <3>3. CASE LotOfVia \notin DoneLots
      <4>1. /\ IsFiniteSet(DoneLots \cup {LotOfVia})
            /\ Cardinality(DoneLots \cup {LotOfVia}) = Cardinality(DoneLots) + 1
        BY <3>3, FS_AddElement DEF CountInv
      <4> QED
        BY <3>1, <4>1
    <3> QED
      BY <3>2, <3>3
  <2>6. IsFiniteSet(DoneLots') /\ Cardinality(DoneLots') <= Cardinality(DoneLots \cup {LotOfVia})
    BY <2>3, <2>5, FS_Subset
  <2>7. /\ Cardinality(DoneLots') \in Nat /\ Cardinality(DoneLots \cup {LotOfVia}) \in Nat
        /\ Cardinality(DoneLots) \in Nat /\ Cardinality(DoneJobs) \in Nat
    BY <2>5, <2>6, FS_CardinalityType DEF CountInv
  <2> QED
    BY <2>1, <2>4, <2>5, <2>6, <2>7 DEF CountInv
<1> QED
  BY <1>1, <1>2

LEMMA StepCountInv ==
  ASSUME IInv, ServiceInv, CountInv, [Next]_vars
  PROVE  CountInv'
<1>1. CASE \E c \in Conns : EndStep(c)
  BY <1>1, EndCounts
<1>2. CASE \A c \in Conns : ~EndStep(c)
  <2>1. DoneJobs' = DoneJobs /\ DoneLots' \subseteq DoneLots /\ lotsProcessed' = lotsProcessed
    BY <1>2, OnlyEndsComplete
  <2>2. IsFiniteSet(DoneLots') /\ Cardinality(DoneLots') <= Cardinality(DoneLots)
    BY <2>1, FS_Subset DEF CountInv
  <2>3. /\ Cardinality(DoneLots') \in Nat /\ Cardinality(DoneLots) \in Nat
        /\ Cardinality(DoneJobs) \in Nat
    BY <2>2, FS_CardinalityType DEF CountInv
  <2> QED
    BY <2>1, <2>2, <2>3 DEF CountInv
<1> QED
  BY <1>1, <1>2

(* LotsProcessedIsExact: the counter that phase 3 increments is the number   *)
(* of completed jobs, whichever connections ran them, and no lot is marked   *)
(* Completed beyond that number.                                             *)
THEOREM CounterIsExact == Spec => []LotsProcessedIsExact
<1>1. Init => CountInv
  <2> SUFFICES ASSUME Init PROVE CountInv
    OBVIOUS
  <2>1. DoneJobs = {} /\ DoneLots = {} /\ lotsProcessed = 0
    BY DEF Init, DoneJobs, DoneLots
  <2> QED
    BY <2>1, FS_EmptySet DEF CountInv
<1>2. IInv /\ ServiceInv /\ CountInv /\ [Next]_vars => CountInv'
  BY StepCountInv
<1>3. CountInv => LotsProcessedIsExact
  BY DEF CountInv, LotsProcessedIsExact, DoneJobs, DoneLots
<1> QED
  BY <1>1, <1>2, <1>3, Invariant, ServiceInvariant, PTL DEF Spec

-----------------------------------------------------------------------------
(* Jobs and their lots.  lot_of_via takes the first unfinished lot, so lots  *)
(* follow jobs if there is one to take: every staging call is for the same   *)
(* lot and the same job.                                                     *)
OneLotStaged == \A s, t \in Stagings : s.lot = t.lot /\ s.job = t.job

(* The tracker has no lot and there is no job, or it has the staged lot, and *)
(* the one job there may be has its wafers in it.                            *)
OneLotInv ==
  /\ \/ carriers = {} /\ lotSeq = <<>> /\ \A j \in Jobs : pjState[j] = "None"
     \/ \E s \in Stagings : carriers = {s.lot} /\ lotSeq = <<s.lot>>
  /\ \A j \in Jobs : pjState[j] # "None" =>
       /\ \E s \in Stagings : s.job = j
       /\ pjWafers[j] # <<>> => /\ waferLot[pjWafers[j][1]] \in carriers
                                /\ lotWafers[waferLot[pjWafers[j][1]]] = pjWafers[j]
  /\ LotFollowsJob

(* Nothing but staging puts a lot on the list or gives it wafers.            *)
LEMMA ListOfLots ==
  ASSUME [Next]_vars, \A s \in Stagings : ~Stage(s)
  PROVE  UNCHANGED <<lotSeq, lotWafers>>
<1>1. CASE UNCHANGED vars
  BY <1>1 DEF vars, fabVars, lotVars
<1>2. ASSUME NEW c \in Conns, Validate(c) PROVE UNCHANGED <<lotSeq, lotWafers>>
  BY <1>2 DEF Validate, StartUnknownJob, AbortRefused, AbortUnknownRecipe, AbortDrifted,
     StartRefused, StartJob, AbortJob, fabVars, lotVars
<1>3. ASSUME NEW c \in Conns, Process(c) PROVE UNCHANGED <<lotSeq, lotWafers>>
  BY <1>3 DEF Process, NotStarted, Started, Load, ExposeOk, ExposeRefused, Unload,
     FinishRefused, Finish, MoveSubstrate, fabVars, lotVars
<1>4. ASSUME NEW c \in Conns, Send(c) \/ PeerStep(c) PROVE UNCHANGED <<lotSeq, lotWafers>>
  BY <1>4 DEF Send, SendDelivered, SendLost, SendFails, PeerStep, Connect, PeerDrops, RecvFails,
     Request, NewEquipmentConstant, DownloadRecipe, RemoteStart, fabVars, lotVars
<1> QED
  BY <1>1, <1>2, <1>3, <1>4 DEF Next, ThreadStep

(* The job that exists, if it has wafers, has its lot first in the tracker,  *)
(* and until that is finished lot_of_via takes it.                           *)
LEMMA LotOfJob ==
  ASSUME IInv, OneLotInv, NEW j \in Jobs, pjState[j] # "None", pjWafers[j] # <<>>
  PROVE  /\ waferLot[pjWafers[j][1]] \in Lots
         /\ waferLot[pjWafers[j][1]] \in carriers
         /\ lotState[waferLot[pjWafers[j][1]]] = LotStateFor(pjState[j])
         /\ pjState[j] \in {"Queued", "Executing"} => LotOfVia = waferLot[pjWafers[j][1]]
<1> DEFINE l == waferLot[pjWafers[j][1]]
<1>1. /\ l \in carriers /\ lotWafers[l] = pjWafers[j] /\ lotState[l] = LotStateFor(pjState[j])
  BY DEF OneLotInv, LotFollowsJob
<1>2. PICK s \in Stagings : carriers = {s.lot} /\ lotSeq = <<s.lot>>
  BY DEF OneLotInv
<1>3. l = s.lot /\ l \in Lots
  BY <1>1, <1>2, FabSimAssumption
<1>4. ASSUME pjState[j] \in {"Queued", "Executing"} PROVE LotOfVia = l
  <2>1. lotState[l] \notin LotFinished
    BY <1>1, <1>4 DEF LotStateFor, LotFinished
  <2>2. /\ Len(pjWafers[j]) \in Nat \ {0} /\ loc[pjWafers[j][1]] # "None"
    <3>1. /\ pjWafers[j] \in Seq(Wafers)
          /\ \A i \in 1 .. Len(pjWafers[j]) : loc[pjWafers[j][i]] # "None"
      BY ListedWafers
    <3>2. Len(pjWafers[j]) \in Nat \ {0}
      BY <3>1
    <3> QED
      BY <3>1, <3>2
  <2> HIDE DEF l
  <2>3. lotSeq = <<l>>
    BY <1>2, <1>3
  <2>4. \E k \in 1 .. Len(lotWafers[l]) : loc[lotWafers[l][k]] # "None"
    BY <1>1, <2>2
  <2>5. ActiveLotIndices = {1}
    BY <2>1, <2>3, <2>4 DEF ActiveLotIndices
  <2>6. {i \in ActiveLotIndices : \A k \in ActiveLotIndices : i <= k} = {1}
    BY <2>5
  <2>7. LotOfVia = lotSeq[CHOOSE i \in {1} : TRUE]
    BY <2>6 DEF LotOfVia
  <2>8. (CHOOSE i \in {1} : TRUE) = 1
    OBVIOUS
  <2>9. l # Null
    BY <1>3, FabSimAssumption
  <2> QED
    BY <2>3, <2>7, <2>8
<1> QED
  BY <1>1, <1>3, <1>4

(* A connection's step that takes a job from one state to another takes its  *)
(* lot along.                                                                *)
LEMMA LotMovesAlong ==
  ASSUME IInv, OneLotStaged, OneLotInv, UNCHANGED <<lotSeq, lotWafers, carriers, waferLot, pjWafers>>,
         NEW j \in Jobs, NEW st \in PJState, pjState[j] # "None",
         pjState' = [pjState EXCEPT ![j] = st],
         pjWafers[j] # <<>> =>
           lotState' = [lotState EXCEPT ![waferLot[pjWafers[j][1]]] = LotStateFor(st)]
  PROVE  OneLotInv'
<1>0. pjState \in [Jobs -> PJState \cup {"None"}] /\ lotState \in [Lots -> LotStates]
  BY DEF IInv, TypeOK
<1>1. \A k \in Jobs : pjState[k] # "None" => k = j
  BY DEF OneLotStaged, OneLotInv
<1>2. pjState'[j] = st /\ \A k \in Jobs : k # j => pjState'[k] = pjState[k]
  BY <1>0
<1>3. LotFollowsJob'
  <2> SUFFICES ASSUME NEW k \in Jobs, pjState'[k] # "None", pjWafers'[k] # <<>>
               PROVE  lotState'[waferLot'[pjWafers'[k][1]]] = LotStateFor(pjState'[k])
    BY DEF LotFollowsJob
  <2>1. k = j
    BY <1>1, <1>2
  <2>2. waferLot[pjWafers[j][1]] \in Lots
    BY <2>1, LotOfJob
  <2> QED
    BY <1>0, <1>2, <2>1, <2>2
<1>4. ~\A k \in Jobs : pjState[k] = "None"
  OBVIOUS
<1> QED
  BY <1>1, <1>2, <1>3, <1>4 DEF OneLotInv

(* A staging call finds the tracker empty, or changes neither jobs nor lots. *)
LEMMA StageOneLot ==
  ASSUME IInv, OneLotStaged, OneLotInv, NEW s \in Stagings, Stage(s)
  PROVE  OneLotInv'
<1>0. /\ pjState \in [Jobs -> PJState \cup {"None"}] /\ lotState \in [Lots -> LotStates]
      /\ lotWafers \in [Lots -> Seq(Wafers)] /\ pjWafers \in [Jobs -> Seq(Wafers)]
      /\ s.lot \in Lots /\ s.job \in Jobs /\ s.wafers \in Seq(Wafers)
  BY FabSimAssumption DEF IInv, TypeOK
<1>1. CASE LotAccepted(s)
  <2>1. carriers = {} /\ lotSeq = <<>> /\ \A j \in Jobs : pjState[j] = "None"
    BY <1>1 DEF OneLotInv, OneLotStaged, LotAccepted
  <2>2. JobAccepted(s)
    BY <1>0, <1>1, <2>1 DEF JobAccepted
  <2>3. /\ carriers' = carriers \cup {s.lot} /\ lotSeq' = Append(lotSeq, s.lot)
        /\ lotState' = [lotState EXCEPT ![s.lot] = "InQueue"]
        /\ lotWafers' = [lotWafers EXCEPT ![s.lot] = s.wafers]
        /\ pjState' = [pjState EXCEPT ![s.job] = "Queued"]
        /\ pjWafers' = [pjWafers EXCEPT ![s.job] = s.wafers]
    BY <1>1, <2>2 DEF Stage
  <2>4. carriers' = {s.lot} /\ lotSeq' = <<s.lot>>
    BY <2>1, <2>3
  <2>5. \A j \in Jobs : pjState'[j] # "None" => j = s.job /\ pjState'[j] = "Queued" /\ pjWafers'[j] = s.wafers
    BY <1>0, <2>1, <2>3
  <2>6. s.wafers # <<>> => waferLot'[s.wafers[1]] = s.lot
    <3>1. pjState' # pjState
      BY <1>0, <2>1, <2>3
    <3>2. \A i \in 1 .. Len(s.wafers) : waferLot'[s.wafers[i]] = s.lot
      BY <3>1, StageFacts
    <3>3. s.wafers # <<>> => 1 \in 1 .. Len(s.wafers)
      BY <1>0
    <3> QED
      BY <3>2, <3>3
  <2>7. lotState'[s.lot] = "InQueue" /\ lotWafers'[s.lot] = s.wafers
    BY <1>0, <2>3
  <2>8. LotFollowsJob'
    BY <2>5, <2>6, <2>7 DEF LotFollowsJob, LotStateFor
  <2> QED
    BY <2>4, <2>5, <2>6, <2>7, <2>8 DEF OneLotInv
<1>2. CASE ~LotAccepted(s)
  <2>1. UNCHANGED <<lotVars, jobVars>>
    BY <1>2 DEF Stage, JobAccepted
  <2>2. UNCHANGED <<carriers, lotSeq, lotState, lotWafers, pjState, pjWafers>>
    BY <2>1 DEF lotVars, jobVars
  <2>3. ASSUME NEW j \in Jobs, pjState[j] # "None", pjWafers[j] # <<>>
        PROVE  waferLot'[pjWafers[j][1]] = waferLot[pjWafers[j][1]]
    <3>1. 1 \in 1 .. Len(pjWafers[j])
      BY <1>0, <2>3
    <3>2. pjWafers[j][1] \in Wafers /\ loc[pjWafers[j][1]] # "None"
      BY <3>1, ListedWafers
    <3> QED
      BY <3>2, StageFacts
  <2>4. LotFollowsJob'
    BY <2>2, <2>3 DEF OneLotInv, LotFollowsJob
  <2> QED
    BY <2>2, <2>3, <2>4 DEF OneLotInv
<1> QED
  BY <1>1, <1>2

(* The start, the abortion and the end of a job move its lot as they should. *)
LEMMA JobMovesLot ==
  ASSUME IInv, ServiceInv, OneLotStaged, OneLotInv, NEW c \in Conns,
         StartStep(c) \/ AbortStep(c) \/ EndStep(c), UNCHANGED <<lotSeq, lotWafers>>
  PROVE  OneLotInv'
<1> DEFINE j == job[c]
           l == waferLot[pjWafers[j][1]]
<1>0. /\ j \in Jobs /\ UNCHANGED <<carriers, waferLot, pjWafers>>
      /\ pjState[j] \in {"None", "Queued", "Executing"} \cup PJTerminal
  BY DEF StartStep, AbortStep, EndStep, ListsKept, IInv, ThreadsHoldJobs, PastPhase1, Running,
         ServiceInv, JobsAreCreatedOnce
<1>1. CASE StartStep(c)
  <2>1. /\ pjState[j] = "Queued" /\ pjState' = [pjState EXCEPT ![j] = "Executing"]
        /\ lotState' = MoveLot(LotOfVia, "InProcessing")
    BY <1>1 DEF StartStep
  <2>2. ASSUME pjWafers[j] # <<>> PROVE lotState' = [lotState EXCEPT ![l] = LotStateFor("Executing")]
    <3>1. l \in Lots /\ lotState[l] = "InQueue" /\ LotOfVia = l
      BY <1>0, <2>1, <2>2, LotOfJob DEF LotStateFor
    <3>2. l # Null
      BY <3>1, FabSimAssumption
    <3> HIDE DEF l
    <3>3. CanMoveLot(l, "InProcessing")
      BY <3>1, <3>2 DEF CanMoveLot, LotLegal
    <3> QED
      BY <2>1, <3>1, <3>3 DEF MoveLot, LotStateFor
  <2> HIDE DEF j
  <2> QED
    BY <1>0, <2>1, <2>2, LotMovesAlong DEF PJState
<1>2. CASE AbortStep(c)
  <2>1. /\ pjState[j] \in {"Queued", "Executing"} /\ pjState' = [pjState EXCEPT ![j] = "Aborted"]
        /\ lotState' = HoldLot(j)
    BY <1>0, <1>2 DEF AbortStep
  <2>2. ASSUME pjWafers[j] # <<>> PROVE lotState' = [lotState EXCEPT ![l] = LotStateFor("Aborted")]
    <3>1. l \in Lots /\ l \in carriers /\ lotState[l] \in {"InQueue", "InProcessing"}
      BY <1>0, <2>1, <2>2, LotOfJob DEF LotStateFor
    <3>2. LotLegal(lotState[l], "OnHold")
      BY <3>1 DEF LotLegal
    <3> QED
      BY <2>1, <2>2, <3>1, <3>2 DEF HoldLot, LotStateFor
  <2> HIDE DEF j
  <2> QED
    BY <1>0, <2>1, <2>2, LotMovesAlong DEF PJState
<1>3. CASE EndStep(c)
  <2> DEFINE st == IF failed[c] THEN "Aborted" ELSE "Completed"
             to == IF failed[c] THEN "OnHold" ELSE "Completed"
  <2>1. /\ pjState[j] = "Executing" /\ pjState' = [pjState EXCEPT ![j] = st]
        /\ lotState' = MoveLot(LotOfVia, to)
    BY <1>3 DEF EndStep, Outcome
  <2>2. st \in PJState /\ LotStateFor(st) = to
    BY DEF PJState, LotStateFor
  <2>3. ASSUME pjWafers[j] # <<>> PROVE lotState' = [lotState EXCEPT ![l] = LotStateFor(st)]
    <3>1. l \in Lots /\ lotState[l] = "InProcessing" /\ LotOfVia = l
      BY <1>0, <2>1, <2>3, LotOfJob DEF LotStateFor
    <3>2. l # Null
      BY <3>1, FabSimAssumption
    <3> HIDE DEF l
    <3>3. CanMoveLot(l, to)
      BY <3>1, <3>2 DEF CanMoveLot, LotLegal
    <3> QED
      BY <2>1, <2>2, <3>1, <3>3 DEF MoveLot
  <2> HIDE DEF j, st
  <2> QED
    BY <1>0, <2>1, <2>2, <2>3, LotMovesAlong
<1> QED
  BY <1>1, <1>2, <1>3

LEMMA StepOneLotInv ==
  ASSUME IInv, ServiceInv, OneLotStaged, OneLotInv, [Next]_vars
  PROVE  OneLotInv'
<1>1. CASE \E s \in Stagings : Stage(s)
  BY <1>1, StageOneLot
<1>2. CASE \A s \in Stagings : ~Stage(s)
  <2>1. UNCHANGED <<lotSeq, lotWafers>>
    BY <1>2, ListOfLots
  <2>2. CASE \E c \in Conns : StartStep(c) \/ AbortStep(c) \/ EndStep(c)
    BY <2>1, <2>2, JobMovesLot
  <2>3. CASE \E c \in Conns : QuietStep(c) \/ WriteStep(c) \/ BeginStep(c) \/ MoveStep(c)
    <3>1. UNCHANGED <<carriers, waferLot, pjWafers, pjState, lotState>>
      BY <2>3 DEF QuietStep, WriteStep, BeginStep, MoveStep, ListsKept, LotsKept
    <3> QED
      BY <2>1, <3>1 DEF OneLotInv, LotFollowsJob
  <2>4. CASE UNCHANGED vars
    <3>1. UNCHANGED <<carriers, waferLot, pjWafers, pjState, lotState>>
      BY <2>4 DEF vars, fabVars, substrateVars, lotVars, jobVars
    <3> QED
      BY <2>1, <3>1 DEF OneLotInv, LotFollowsJob
  <2> QED
    BY <1>2, <2>2, <2>3, <2>4, StepKinds DEF ConnStep
<1> QED
  BY <1>1, <1>2

(* LotFollowsJob, where only one lot is ever staged: the lot is in           *)
(* processing while its job executes, completed with it and on hold when it  *)
(* is aborted, whichever connection does it and however staging is repeated  *)
(* or fails (hold_lot, lot_of_via).  FabSim_lots_v.cfg shows that two lots   *)
(* do not follow their jobs.                                                 *)
THEOREM TheLotFollowsItsJob ==
  ASSUME OneLotStaged PROVE Spec => []LotFollowsJob
<1>1. Init => OneLotInv
  BY DEF Init, OneLotInv, LotFollowsJob
<1>2. IInv /\ ServiceInv /\ OneLotInv /\ [Next]_vars => OneLotInv'
  BY StepOneLotInv
<1>3. OneLotInv => LotFollowsJob
  BY DEF OneLotInv
<1> QED
  BY <1>1, <1>2, <1>3, Invariant, ServiceInvariant, PTL DEF Spec

=============================================================================
