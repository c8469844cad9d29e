------------------------------- MODULE FabSim -------------------------------
(***************************************************************************)
(* The equipment simulator of tpt-fab (sim.rs) running process jobs.       *)
(*                                                                         *)
(* Every accepted connection is served by a thread of its own; the threads *)
(* share one FabState behind one mutex.  run_process_job takes and         *)
(* releases that mutex many times, so one action below is one critical     *)
(* section of one thread, or the write of one message to its socket, which *)
(* always happens with the mutex released and may fail.                    *)
(*                                                                         *)
(* Left to other modules: control and communication state, identifiers of  *)
(* messages, the HSMS session that precedes Selected.                      *)
(***************************************************************************)
EXTENDS Integers, Sequences, FiniteSets, Drift, Lifecycles

CONSTANTS
  Conns,      \* connection slots of the accept loop
  Wafers, Lots, Jobs, Recipes,
  Null,       \* stands for an absent job, lot or recipe
  Stagings,   \* the calls of stage_lot_and_job a scenario may make
  ECWrites    \* the <<ECID, item>> pairs a host may write with S2F15

ASSUME FabSimAssumption ==
  /\ Null \notin Wafers \cup Lots \cup Jobs \cup Recipes
  /\ Stagings \subseteq [lot : Lots, wafers : Seq(Wafers), job : Jobs, recipe : Recipes]
  /\ ECWrites \subseteq ECID \X ECItem

VARIABLES
  (* FabState, guarded by the mutex *)
  loc,            \* SubstrateManager: the location of each wafer, "None" if unregistered
  waferLot,       \* SubstrateManager: the lot of each registered wafer
  carriers,       \* ObjectRegistry: the lots whose carrier object exists
  lotSeq,         \* LotTracker: the lots in registration order
  lotState,       \* LotTracker: the state of each lot
  lotWafers,      \* LotTracker: the substrates of each lot
  pjState,        \* ProcessJobManager: the state of each job, "None" if not created
  pjRecipe,       \* ProcessJobManager: the recipe of each job
  pjWafers,       \* ProcessJobManager: the substrates of each job
  recipes,        \* RecipeStore: the recipes it holds
  ec,             \* GemEquipment: the equipment constants
  alarms,         \* GemEquipment: the alarms that are set
  lotsProcessed,  \* GemEquipment: the SVID LOTS_PROCESSED
  samples,        \* E116Collector: the jobs a plan on CEID 6003 has sampled
  (* one per connection *)
  link,           \* whether the peer is still there
  pc,             \* where the serving thread is
  job,            \* the job that thread runs
  idx,            \* the substrate of that job it is at
  failed,         \* backend_failed
  outbox,         \* messages built under the mutex and not yet written
  told            \* event and alarm reports the peer received on this connection

substrateVars == <<loc, waferLot>>
lotVars       == <<carriers, lotSeq, lotState, lotWafers>>
jobVars       == <<pjState, pjRecipe, pjWafers>>
gemVars       == <<ec, alarms, lotsProcessed>>
fabVars       == <<substrateVars, lotVars, jobVars, gemVars, recipes, samples>>
threadVars    == <<pc, job, idx, failed>>
connVars      == <<link, threadVars, outbox, told>>
vars          == <<fabVars, connVars>>

Location == {"None", "Port", "Chamber", "Fixed"}

(* Where a serving thread can be.  "closed": no thread.  "idle": blocked in *)
(* recv.  The others are points of run_process_job at which the mutex is    *)
(* free: before phase 1, before the check of `started`, before each move    *)
(* and each plan of phase 2, before phase 3.                                *)
Running == {"load", "expose", "unload", "finish"}
Point   == {"closed", "idle", "validate", "check"} \cup Running

(* A message to the host, reduced to its identifier and its subject. *)
Event(ceid, subject) == [id |-> ceid, subject |-> subject]
Alarm(alid)          == [id |-> alid, subject |-> Null]
Ack                  == [id |-> 0, subject |-> Null]   \* the reply: S2F16, S2F42, S7F4

Message == [id : Nat, subject : Wafers \cup Lots \cup Jobs \cup {Null}]

TypeOK ==
  /\ loc \in [Wafers -> Location]
  /\ waferLot \in [Wafers -> Lots \cup {Null}]
  /\ carriers \subseteq Lots
  /\ lotSeq \in Seq(Lots)
  /\ lotState \in [Lots -> LotStates]
  /\ lotWafers \in [Lots -> Seq(Wafers)]
  /\ pjState \in [Jobs -> PJState \cup {"None"}]
  /\ pjRecipe \in [Jobs -> Recipes \cup {Null}]
  /\ pjWafers \in [Jobs -> Seq(Wafers)]
  /\ recipes \subseteq Recipes
  /\ ec \in [ECID -> ECItem]
  /\ alarms \subseteq {DriftOutOfSpec, BackendError}
  /\ lotsProcessed \in Nat
  /\ samples \subseteq Jobs
  /\ link \in [Conns -> {"up", "down"}]
  /\ pc \in [Conns -> Point]
  /\ job \in [Conns -> Jobs \cup {Null}]
  /\ idx \in [Conns -> Nat \ {0}]
  /\ failed \in [Conns -> BOOLEAN]
  /\ outbox \in [Conns -> Seq(Message)]
  /\ told \in [Conns -> SUBSET Message]

(* EquipmentSimulator::bind: nothing staged, no recipe, nobody connected. *)
Init ==
  /\ loc = [w \in Wafers |-> "None"]
  /\ waferLot = [w \in Wafers |-> Null]
  /\ carriers = {}
  /\ lotSeq = <<>>
  /\ lotState = [l \in Lots |-> "Created"]
  /\ lotWafers = [l \in Lots |-> <<>>]
  /\ pjState = [j \in Jobs |-> "None"]
  /\ pjRecipe = [j \in Jobs |-> Null]
  /\ pjWafers = [j \in Jobs |-> <<>>]
  /\ recipes = {}
  /\ ec = ECInit
  /\ alarms = {}
  /\ lotsProcessed = 0
  /\ samples = {}
  /\ link = [c \in Conns |-> "down"]
  /\ pc = [c \in Conns |-> "closed"]
  /\ job = [c \in Conns |-> Null]
  /\ idx = [c \in Conns |-> 1]
  /\ failed = [c \in Conns |-> FALSE]
  /\ outbox = [c \in Conns |-> <<>>]
  /\ told = [c \in Conns |-> {}]

-----------------------------------------------------------------------------
(* Staging.  stage_lot_and_job runs in one critical section but stops at    *)
(* the first duplicate identifier, keeping what it registered before it.    *)

(* Mutants of Duplicate: one of its two tests is missing. *)
DuplicateInRegistry(s, i) == loc[s.wafers[i]] # "None"
DuplicateInCall(s, i)     == \E k \in 1 .. i - 1 : s.wafers[k] = s.wafers[i]

Duplicate(s, i) ==
  \/ loc[s.wafers[i]] # "None"
  \/ \E k \in 1 .. i - 1 : s.wafers[k] = s.wafers[i]

(* The indices of s.wafers that SubstrateManager::register accepts. *)
Registered(s) ==
  {i \in 1 .. Len(s.wafers) : \A k \in 1 .. i : ~Duplicate(s, k)}

AllRegistered(s) == Registered(s) = 1 .. Len(s.wafers)

LotAccepted(s) == AllRegistered(s) /\ s.lot \notin carriers

JobAccepted(s) == LotAccepted(s) /\ pjState[s.job] = "None"

Stage(s) ==
  LET new == {s.wafers[i] : i \in Registered(s)} IN
  /\ loc' = [w \in Wafers |-> IF w \in new THEN "Port" ELSE loc[w]]
  /\ waferLot' = [w \in Wafers |-> IF w \in new THEN s.lot ELSE waferLot[w]]
  /\ IF LotAccepted(s)
     THEN /\ carriers' = carriers \cup {s.lot}
          /\ lotSeq' = Append(lotSeq, s.lot)
          /\ lotState' = [lotState EXCEPT ![s.lot] = "InQueue"]
          /\ lotWafers' = [lotWafers EXCEPT ![s.lot] = s.wafers]
     ELSE UNCHANGED lotVars
  /\ IF JobAccepted(s)
     THEN /\ pjState' = [pjState EXCEPT ![s.job] = "Queued"]
          /\ pjRecipe' = [pjRecipe EXCEPT ![s.job] = s.recipe]
          /\ pjWafers' = [pjWafers EXCEPT ![s.job] = s.wafers]
     ELSE UNCHANGED jobVars
  /\ UNCHANGED <<recipes, samples, gemVars, connVars>>

-----------------------------------------------------------------------------
(* The connection.  A slot that was closed can be accepted again. *)

Connect(c) ==
  /\ pc[c] = "closed"
  /\ pc' = [pc EXCEPT ![c] = "idle"]
  /\ link' = [link EXCEPT ![c] = "up"]
  /\ told' = [told EXCEPT ![c] = {}]
  /\ UNCHANGED <<fabVars, job, idx, failed, outbox>>

(* The peer goes away.  The thread notices at its next recv or write. *)
PeerDrops(c) ==
  /\ link[c] = "up"
  /\ link' = [link EXCEPT ![c] = "down"]
  /\ UNCHANGED <<fabVars, threadVars, outbox, told>>

(* serve_connection returns: the stream is dropped with what was unsent. *)
Close(c) ==
  /\ pc' = [pc EXCEPT ![c] = "closed"]
  /\ link' = [link EXCEPT ![c] = "down"]
  /\ job' = [job EXCEPT ![c] = Null]
  /\ idx' = [idx EXCEPT ![c] = 1]
  /\ failed' = [failed EXCEPT ![c] = FALSE]
  /\ outbox' = [outbox EXCEPT ![c] = <<>>]
  /\ UNCHANGED told

Free(c, point) == pc[c] = point /\ outbox[c] = <<>>

(* recv fails: the peer separated or disconnected, or was silent for 60 s. *)
RecvFails(c) == Free(c, "idle") /\ Close(c) /\ UNCHANGED fabVars

(* send_message of the next message.  A write to a vanished peer may still  *)
(* be accepted by the kernel; when it is not, handle_data returns the error *)
(* and the connection closes, whatever the thread was doing.                *)
SendDelivered(c) ==
  /\ outbox[c] # <<>> /\ link[c] = "up"
  /\ told' = [told EXCEPT ![c] = @ \cup ({Head(outbox[c])} \ {Ack})]
  /\ outbox' = [outbox EXCEPT ![c] = Tail(@)]
  /\ UNCHANGED <<fabVars, link, threadVars>>

SendLost(c) ==
  /\ outbox[c] # <<>> /\ link[c] = "down"
  /\ outbox' = [outbox EXCEPT ![c] = Tail(@)]
  /\ UNCHANGED <<fabVars, link, threadVars, told>>

SendFails(c) ==
  /\ outbox[c] # <<>> /\ link[c] = "down"
  /\ Close(c)
  /\ UNCHANGED fabVars

-----------------------------------------------------------------------------
(* handle_data for the three requests that reach the job machinery.  Each   *)
(* is acknowledged before anything else happens.                            *)

RequestReceived(c) == Free(c, "idle") /\ link[c] = "up"

(* S2F15: the constants are stored as they come. *)
NewEquipmentConstant(c, id, item) ==
  /\ RequestReceived(c)
  /\ ec' = [ec EXCEPT ![id] = item]
  /\ outbox' = [outbox EXCEPT ![c] = <<Ack>>]
  /\ UNCHANGED <<substrateVars, lotVars, jobVars, alarms, lotsProcessed,
                 recipes, samples, link, threadVars, told>>

(* S7F3: apply_recipe_body. *)
DownloadRecipe(c, r) ==
  /\ RequestReceived(c)
  /\ recipes' = recipes \cup {r}
  /\ outbox' = [outbox EXCEPT ![c] = <<Ack>>]
  /\ UNCHANGED <<substrateVars, lotVars, jobVars, gemVars, samples,
                 link, threadVars, told>>

(* S2F41 START with a PJID: acknowledged, the job deferred to after the ack. *)
RemoteStart(c, j) ==
  /\ RequestReceived(c)
  /\ pc' = [pc EXCEPT ![c] = "validate"]
  /\ job' = [job EXCEPT ![c] = j]
  /\ outbox' = [outbox EXCEPT ![c] = <<Ack>>]
  /\ UNCHANGED <<fabVars, link, idx, failed, told>>

-----------------------------------------------------------------------------
(* The lot of a job.  hold_lot follows the job's first substrate;           *)
(* lot_of_via takes the first unfinished lot of the tracker instead.        *)

(* Mutant of HoldLot: the lot is forgotten. *)
HoldLotForgotten(j) == lotState

HoldLot(j) ==
  IF /\ pjWafers[j] # <<>>
     /\ LET l == waferLot[pjWafers[j][1]] IN
          l \in carriers /\ LotLegal(lotState[l], "OnHold")
  THEN [lotState EXCEPT ![waferLot[pjWafers[j][1]]] = "OnHold"]
  ELSE lotState

ActiveLotIndices ==
  {i \in 1 .. Len(lotSeq) :
     /\ lotState[lotSeq[i]] \notin LotFinished
     /\ \E k \in 1 .. Len(lotWafers[lotSeq[i]]) :
          loc[lotWafers[lotSeq[i]][k]] # "None"}

LotOfVia ==
  LET first == {i \in ActiveLotIndices : \A k \in ActiveLotIndices : i <= k}
  IN  IF first = {} THEN Null ELSE lotSeq[CHOOSE i \in first : TRUE]

CanMoveLot(l, to) == l # Null /\ LotLegal(lotState[l], to)

MoveLot(l, to) ==
  IF CanMoveLot(l, to) THEN [lotState EXCEPT ![l] = to] ELSE lotState

MoveLotEvents(l, to) ==
  IF CanMoveLot(l, to) THEN <<Event(LotCeid(to), l)>> ELSE <<>>

-----------------------------------------------------------------------------
(* run_process_job, phase 1: one critical section, one action per way out.  *)

(* Mutant of ReturnOk: the substrate index starts from zero the next time. *)
ReturnOkFromZero(c) ==
  /\ pc' = [pc EXCEPT ![c] = "idle"]
  /\ job' = [job EXCEPT ![c] = Null]
  /\ idx' = [idx EXCEPT ![c] = 0]
  /\ failed' = [failed EXCEPT ![c] = FALSE]

(* Back in the receive loop with nothing in hand. *)
ReturnOk(c) ==
  /\ pc' = [pc EXCEPT ![c] = "idle"]
  /\ job' = [job EXCEPT ![c] = Null]
  /\ idx' = [idx EXCEPT ![c] = 1]
  /\ failed' = [failed EXCEPT ![c] = FALSE]

KnownJob(c) == Free(c, "validate") /\ pjState[job[c]] # "None"

(* jobs.get fails and the error closes the connection. *)
StartUnknownJob(c) ==
  /\ Free(c, "validate") /\ pjState[job[c]] = "None"
  /\ Close(c)
  /\ UNCHANGED fabVars

HasRecipe(c) == pjRecipe[job[c]] \in recipes

(* The job may not run: its recipe is unknown or has drifted out of spec. *)
Unfit(c) == ~HasRecipe(c) \/ ~Runnable(ec)

(* The alarm is set first; aborting a job that is over is an error, so the  *)
(* alarm stays set, unreported, and the connection closes.                  *)
AbortRefused(c) ==
  /\ KnownJob(c) /\ Unfit(c)
  /\ ~PJLegal(pjState[job[c]], "Aborted")
  /\ alarms' = alarms \cup {DriftOutOfSpec}
  /\ Close(c)
  /\ UNCHANGED <<substrateVars, lotVars, jobVars, ec, lotsProcessed, recipes, samples>>

AbortJob(c) ==
  /\ PJLegal(pjState[job[c]], "Aborted")
  /\ alarms' = alarms \cup {DriftOutOfSpec}
  /\ pjState' = [pjState EXCEPT ![job[c]] = "Aborted"]
  /\ lotState' = HoldLot(job[c])
  /\ UNCHANGED <<substrateVars, carriers, lotSeq, lotWafers, pjRecipe, pjWafers,
                 ec, lotsProcessed, recipes, samples, link, told>>

(* Unknown recipe: the alarm and the event are built, then returned over. *)
AbortUnknownRecipe(c) ==
  /\ KnownJob(c) /\ ~HasRecipe(c)
  /\ AbortJob(c)
  /\ ReturnOk(c)
  /\ UNCHANGED outbox

(* Drift out of spec: any job that is not over is aborted, also one that    *)
(* another connection is executing.                                         *)
AbortDrifted(c) ==
  /\ KnownJob(c) /\ HasRecipe(c) /\ ~Runnable(ec)
  /\ AbortJob(c)
  /\ pc' = [pc EXCEPT ![c] = "check"]
  /\ outbox' = [outbox EXCEPT ![c] =
                  <<Alarm(DriftOutOfSpec), Event(ProcessJobAborted, job[c])>>]
  /\ UNCHANGED <<job, idx, failed>>

(* A job that is not queued cannot be set up: the error closes the connection. *)
StartRefused(c) ==
  /\ KnownJob(c) /\ ~Unfit(c)
  /\ ~PJLegal(pjState[job[c]], "SettingUp")
  /\ Close(c)
  /\ UNCHANGED fabVars

(* SettingUp, WaitingForStart and Executing without releasing the mutex. *)
StartJob(c) ==
  /\ KnownJob(c) /\ ~Unfit(c)
  /\ PJLegal(pjState[job[c]], "SettingUp")
  /\ pjState' = [pjState EXCEPT ![job[c]] = "Executing"]
  /\ lotState' = MoveLot(LotOfVia, "InProcessing")
  /\ outbox' = [outbox EXCEPT ![c] =
                  <<Event(ProcessJobCreated, job[c]), Event(ProcessJobCreated, job[c]),
                    Event(ProcessJobStarted, job[c])>>
                    \o MoveLotEvents(LotOfVia, "InProcessing")]
  /\ pc' = [pc EXCEPT ![c] = "check"]
  /\ UNCHANGED <<substrateVars, carriers, lotSeq, lotWafers, pjRecipe, pjWafers,
                 gemVars, recipes, samples, link, job, idx, failed, told>>

-----------------------------------------------------------------------------
(* Phase 2: each substrate into the chamber, exposed, and out.              *)

(* Mutant of NextPoint: off by one, the last substrate is skipped. *)
NextPointShort(j, i) == IF i >= Len(pjWafers[j]) THEN "finish" ELSE "load"

(* The point at which substrate i of job j is due. *)
NextPoint(j, i) == IF i > Len(pjWafers[j]) THEN "finish" ELSE "load"

(* `started`: the job was aborted in phase 1, or meanwhile by someone else. *)
NotStarted(c) ==
  /\ Free(c, "check") /\ pjState[job[c]] # "Executing"
  /\ ReturnOk(c)
  /\ UNCHANGED <<fabVars, link, outbox, told>>

(* Mutant of Started: the state of the job is not looked at. *)
StartedUnchecked(c) ==
  /\ Free(c, "check")
  /\ pc' = [pc EXCEPT ![c] = NextPoint(job[c], 1)]
  /\ UNCHANGED <<fabVars, link, job, idx, failed, outbox, told>>

Started(c) ==
  /\ Free(c, "check") /\ pjState[job[c]] = "Executing"
  /\ pc' = [pc EXCEPT ![c] = NextPoint(job[c], 1)]
  /\ UNCHANGED <<fabVars, link, job, idx, failed, outbox, told>>

CurrentWafer(c) == pjWafers[job[c]][idx[c]]

(* SubstrateManager::move_substrate, an error when the id is unknown. *)
MoveSubstrate(c, to) ==
  LET w == CurrentWafer(c) IN
  /\ loc' = IF loc[w] = "None" THEN loc ELSE [loc EXCEPT ![w] = to]
  /\ outbox' = [outbox EXCEPT ![c] =
                  IF loc[w] = "None" THEN <<>> ELSE <<Event(SubstrateLocationChanged, w)>>]
  /\ UNCHANGED <<waferLot, lotVars, jobVars, gemVars, recipes, samples, link, told>>

Load(c) ==
  /\ Free(c, "load")
  /\ MoveSubstrate(c, "Chamber")
  /\ pc' = [pc EXCEPT ![c] = "expose"]
  /\ UNCHANGED <<job, idx, failed>>

(* plan_exposure of the installed backend: it may refuse. *)
ExposeOk(c) ==
  /\ Free(c, "expose")
  /\ pc' = [pc EXCEPT ![c] = "unload"]
  /\ UNCHANGED <<fabVars, link, job, idx, failed, outbox, told>>

ExposeRefused(c) ==
  /\ Free(c, "expose")
  /\ alarms' = alarms \cup {BackendError}
  /\ failed' = [failed EXCEPT ![c] = TRUE]
  /\ outbox' = [outbox EXCEPT ![c] = <<Alarm(BackendError)>>]
  /\ pc' = [pc EXCEPT ![c] = "finish"]
  /\ UNCHANGED <<substrateVars, lotVars, jobVars, ec, lotsProcessed, recipes, samples,
                 link, job, idx, told>>

(* Mutant of Unload: the loop does not advance. *)
UnloadSame(c) ==
  /\ Free(c, "unload")
  /\ MoveSubstrate(c, "Fixed")
  /\ pc' = [pc EXCEPT ![c] = NextPoint(job[c], idx[c])]
  /\ UNCHANGED <<job, idx, failed>>

Unload(c) ==
  /\ Free(c, "unload")
  /\ MoveSubstrate(c, "Fixed")
  /\ idx' = [idx EXCEPT ![c] = @ + 1]
  /\ pc' = [pc EXCEPT ![c] = NextPoint(job[c], idx[c] + 1)]
  /\ UNCHANGED <<job, failed>>

-----------------------------------------------------------------------------
(* Phase 3: the job, the lot, the counter and the E116 sample together.     *)

Outcome(c) == IF failed[c] THEN "Aborted" ELSE "Completed"

FinishRefused(c) ==
  /\ Free(c, "finish") /\ ~PJLegal(pjState[job[c]], Outcome(c))
  /\ Close(c)
  /\ UNCHANGED fabVars

Finish(c) ==
  LET j == job[c]
      lotTo == IF failed[c] THEN "OnHold" ELSE "Completed"
      ceid == IF failed[c] THEN ProcessJobAborted ELSE ProcessJobCompleted
  IN
  /\ Free(c, "finish") /\ PJLegal(pjState[j], Outcome(c))
  /\ pjState' = [pjState EXCEPT ![j] = Outcome(c)]
  /\ lotState' = MoveLot(LotOfVia, lotTo)
  /\ lotsProcessed' = IF failed[c] THEN lotsProcessed ELSE lotsProcessed + 1
  /\ samples' = samples \cup {j}
  /\ outbox' = [outbox EXCEPT ![c] = <<Event(ceid, j)>> \o MoveLotEvents(LotOfVia, lotTo)]
  /\ ReturnOk(c)
  /\ UNCHANGED <<substrateVars, carriers, lotSeq, lotWafers, pjRecipe, pjWafers,
                 ec, alarms, recipes, link, told>>

-----------------------------------------------------------------------------
(* What the serving thread of c does next, when it is not waiting in recv. *)
Validate(c) ==
  \/ StartUnknownJob(c) \/ AbortRefused(c) \/ AbortUnknownRecipe(c)
  \/ AbortDrifted(c) \/ StartRefused(c) \/ StartJob(c)

Process(c) ==
  \/ NotStarted(c) \/ Started(c) \/ Load(c) \/ ExposeOk(c) \/ ExposeRefused(c)
  \/ Unload(c) \/ FinishRefused(c) \/ Finish(c)

Send(c) == SendDelivered(c) \/ SendLost(c) \/ SendFails(c)

ThreadStep(c) == Validate(c) \/ Process(c) \/ Send(c)

(* What the peer and the network do. *)
Request(c) ==
  \/ \E p \in ECWrites : NewEquipmentConstant(c, p[1], p[2])
  \/ \E r \in Recipes : DownloadRecipe(c, r)
  \/ \E j \in Jobs : RemoteStart(c, j)

PeerStep(c) == Connect(c) \/ PeerDrops(c) \/ RecvFails(c) \/ Request(c)

Next ==
  \/ \E s \in Stagings : Stage(s)
  \/ \E c \in Conns : ThreadStep(c) \/ PeerStep(c)

(* A thread that can run does: the mutex is held only for bounded work, and  *)
(* a write returns because the peer reads its socket or is gone.             *)
Fairness == \A c \in Conns : WF_vars(ThreadStep(c))

Spec == Init /\ [][Next]_vars /\ Fairness

-----------------------------------------------------------------------------
(* Properties *)

WaferSet(j) == {pjWafers[j][i] : i \in 1 .. Len(pjWafers[j])}

AllFixed(j) == \A w \in WaferSet(j) : loc[w] = "Fixed"

(* Two connections never run the same job at once, although any number of   *)
(* them may have been acknowledged a START for it: the guarded transitions  *)
(* of phase 1 and the check of `started` leave one of them past it.         *)
ExclusiveRunner ==
  \A c, d \in Conns :
    c # d /\ pc[c] \in Running /\ pc[d] \in Running => job[c] # job[d]

(* A job is Completed only when every one of its wafers has left the        *)
(* chamber, and the wafers stay there: no later START, on any connection,   *)
(* moves a wafer of a completed job.                                        *)
CompletedJobsAreExposed ==
  \A j \in Jobs : pjState[j] = "Completed" => AllFixed(j)

(* What the host is told of a job's end is the truth, on every connection   *)
(* and however the threads interleave: ProcessJobCompleted is on the wire   *)
(* only for a completed job with all wafers out, ProcessJobAborted only for *)
(* an aborted one, so no two hosts are told opposite ends of a job.         *)
ToldTheTruth ==
  \A c \in Conns, j \in Jobs :
    /\ Event(ProcessJobCompleted, j) \in told[c]
         => pjState[j] = "Completed" /\ AllFixed(j)
    /\ Event(ProcessJobAborted, j) \in told[c] => pjState[j] = "Aborted"

JobEvents == {ProcessJobCreated, ProcessJobStarted, ProcessJobCompleted, ProcessJobAborted}

(* A report of job j, or of a move of one of its wafers. *)
IsAbout(m, j) ==
  \/ m.id \in JobEvents /\ m.subject = j
  \/ m.id = SubstrateLocationChanged /\ m.subject \in WaferSet(j)

IsEnd(m, j) == m \in {Event(ProcessJobCompleted, j), Event(ProcessJobAborted, j)}

(* On one connection the end of a job is the last thing reported of it:     *)
(* once ProcessJobCompleted or ProcessJobAborted was received, or is next    *)
(* to be sent, no job or substrate event of that job is still to be sent,   *)
(* be it a new one or one told before.                                       *)
NothingAfterTheEnd ==
  \A c \in Conns, j \in Jobs : \A i \in 1 .. Len(outbox[c]) :
    (\/ \E m \in told[c] : IsEnd(m, j)
     \/ \E k \in 1 .. i - 1 : IsEnd(outbox[c][k], j))
      => ~IsAbout(outbox[c][i], j)

(* LOTS_PROCESSED counts each completed job once, over all connections, and *)
(* no lot is marked Completed without a completed job to account for it.    *)
LotsProcessedIsExact ==
  /\ lotsProcessed = Cardinality({j \in Jobs : pjState[j] = "Completed"})
  /\ Cardinality({l \in Lots : lotState[l] = "Completed"}) <= lotsProcessed

(* However staging calls fail half-way, a job that was created owns its     *)
(* wafers: they are registered under one lot that the tracker knows, no     *)
(* wafer is listed twice, and no other job lists it.                        *)
JobsOwnTheirWafers ==
  \A j \in Jobs : pjState[j] # "None" =>
    /\ \E l \in carriers : \A w \in WaferSet(j) : waferLot[w] = l
    /\ \A w \in WaferSet(j) : loc[w] # "None"
    /\ \A i, k \in 1 .. Len(pjWafers[j]) : pjWafers[j][i] = pjWafers[j][k] => i = k
    /\ \A k \in Jobs \ {j} : WaferSet(j) \cap WaferSet(k) = {}

(* The lot state a job's state calls for. *)
LotStateFor(st) == CASE st = "Queued"    -> "InQueue"
                     [] st = "Executing" -> "InProcessing"
                     [] st = "Completed" -> "Completed"
                     [] st = "Aborted"   -> "OnHold"

(* A job and the lot it was staged with move together: the lot is in        *)
(* processing while the job executes, Completed with it, and on hold when   *)
(* the job is aborted, whoever aborted it.                                  *)
LotFollowsJob ==
  \A j \in Jobs : pjState[j] # "None" /\ pjWafers[j] # <<>> =>
    lotState[waferLot[pjWafers[j][1]]] = LotStateFor(pjState[j])

(* The E116 plan on ProcessJobCompleted samples completed jobs. *)
SampledJobsCompleted == \A j \in samples : pjState[j] = "Completed"

(* The thread of c got j past phase 1. *)
Runs(c, j) == pc[c] \in Running \cup {"check"} /\ job[c] = j

(* A job that a connection has got past phase 1 ends, Completed or Aborted,  *)
(* unless that connection is lost on the way: no backend refusal, drift or   *)
(* rival START leaves it executing with its host still there.                *)
JobSettles ==
  \A c \in Conns, j \in Jobs :
    (pjState[j] = "Executing" /\ Runs(c, j)) ~>
      (pjState[j] \in PJTerminal \/ link[c] = "down")

(* A START that finds a queued job is answered on the same connection with  *)
(* that job's event reports, or the connection goes down.                   *)
StartIsReported ==
  \A c \in Conns, j \in Jobs :
    (pc[c] = "validate" /\ job[c] = j /\ pjState[j] = "Queued") ~>
      \/ \E m \in told[c] : m.subject = j
      \/ link[c] = "down"

-----------------------------------------------------------------------------
(* The job service FabSim implements: the wafers of a job that are out are    *)
(* the exposed ones, and a client knows the ends on its own connection.       *)
EndsTold(c) ==
  {e \in Jobs \X PJTerminal :
     Event(IF e[2] = "Completed" THEN ProcessJobCompleted ELSE ProcessJobAborted, e[1])
       \in told[c]}

JS == INSTANCE JobService WITH
        Clients <- Conns,
        state   <- pjState,
        size    <- [j \in Jobs |-> Len(pjWafers[j])],
        exposed <- [j \in Jobs |->
                      {i \in 1 .. Len(pjWafers[j]) : loc[pjWafers[j][i]] = "Fixed"}],
        knows   <- [c \in Conns |-> EndsTold(c)]

(* Every step of the simulator is a step of the job service or invisible in  *)
(* it: a job starts once, ends once, exposes its wafers in order, completes  *)
(* only when all are out, and no client hears of an end that did not happen. *)
ImplementsJobService == JS!ServiceSpec

-----------------------------------------------------------------------------
(* The inductive invariant behind ExclusiveRunner, CompletedJobsAreExposed   *)
(* and ToldTheTruth.                                                         *)

PastPhase1 == Running \cup {"check"}

(* No two entries of any two job lists name the same wafer, and every listed *)
(* wafer is registered: a wafer moves only for the job that lists it.        *)
WafersAreOwned ==
  /\ \A j \in Jobs : \A i \in 1 .. Len(pjWafers[j]) : loc[pjWafers[j][i]] # "None"
  /\ \A j, k \in Jobs : \A i \in 1 .. Len(pjWafers[j]), m \in 1 .. Len(pjWafers[k]) :
       pjWafers[j][i] = pjWafers[k][m] => j = k /\ i = m

(* A thread past phase 1 holds a job that is executing or was aborted under  *)
(* it; only an aborted job can have two such threads, one of them on its way *)
(* out at the check of `started`.                                            *)
ThreadsHoldJobs ==
  /\ \A c \in Conns : pc[c] \in PastPhase1 \cup {"validate"} => job[c] \in Jobs
  /\ \A c \in Conns : pc[c] \in PastPhase1 => pjState[job[c]] \in {"Executing", "Aborted"}
  /\ \A c, d \in Conns :
       c # d /\ pc[c] \in PastPhase1 /\ pc[d] \in PastPhase1 /\ job[c] = job[d]
         => pjState[job[c]] = "Aborted"

(* The thread that runs a job has taken every wafer before idx out of the    *)
(* chamber, and reaches phase 3 without a failure only past the last one.    *)
WafersAreDoneInOrder ==
  \A c \in Conns :
    /\ pc[c] \notin Running => idx[c] = 1
    /\ pc[c] \in {"load", "expose", "unload"} => idx[c] <= Len(pjWafers[job[c]])
    /\ pc[c] = "finish" /\ ~failed[c] => idx[c] > Len(pjWafers[job[c]])
    /\ pc[c] \in Running =>
         \A i \in 1 .. Len(pjWafers[job[c]]) :
           i < idx[c] => loc[pjWafers[job[c]][i]] = "Fixed"

EndMatches(m, states) ==
  \A j \in Jobs : /\ m = Event(ProcessJobCompleted, j) => states[j] = "Completed"
                  /\ m = Event(ProcessJobAborted, j) => states[j] = "Aborted"

(* A report of a job's end, unsent or delivered, agrees with the job. *)
ReportsMatch ==
  \A c \in Conns : /\ \A i \in 1 .. Len(outbox[c]) : EndMatches(outbox[c][i], pjState)
                   /\ \A m \in told[c] : EndMatches(m, pjState)

IInv ==
  /\ TypeOK
  /\ WafersAreOwned
  /\ ThreadsHoldJobs
  /\ ExclusiveRunner
  /\ WafersAreDoneInOrder
  /\ CompletedJobsAreExposed
  /\ ReportsMatch

-----------------------------------------------------------------------------
(* What IInv needs beside it for ImplementsJobService, JobsOwnTheirWafers,   *)
(* NothingAfterTheEnd and LotsProcessedIsExact.                              *)

(* A job passes through the states its runner leaves it in between two       *)
(* critical sections, and has a list of wafers only once it is created.      *)
JobsAreCreatedOnce ==
  \A j \in Jobs :
    /\ pjState[j] \in {"None", "Queued", "Executing"} \cup PJTerminal
    /\ pjState[j] = "None" => pjWafers[j] = <<>>

NoneFixed(j) == \A w \in WaferSet(j) : loc[w] # "Fixed"

(* No wafer is out before its turn: none of a job that waits for its first   *)
(* one, none at or after the place its runner has come to.                   *)
WafersWaitTheirTurn ==
  /\ \A j \in Jobs : pjState[j] \in {"None", "Queued"} => NoneFixed(j)
  /\ \A c \in Conns :
       pc[c] = "check" /\ pjState[job[c]] = "Executing" => NoneFixed(job[c])
  /\ \A c \in Conns : pc[c] \in Running =>
       \A i \in 1 .. Len(pjWafers[job[c]]) :
         idx[c] <= i => loc[pjWafers[job[c]][i]] # "Fixed"

(* The wafers of a job were registered with the lot of its staging call. *)
OneLotPerJob ==
  \A j \in Jobs : pjState[j] # "None" =>
    \E l \in carriers : \A w \in WaferSet(j) : waferLot[w] = l

(* What a connection still has to send of a job comes before the job's end,  *)
(* and its runner has not reported one.                                      *)
EndsComeLast ==
  \A c \in Conns, j \in Jobs :
    /\ pc[c] \in Running /\ job[c] = j =>
         ~ \E m \in told[c] \cup {outbox[c][i] : i \in 1 .. Len(outbox[c])} : IsEnd(m, j)
    /\ \A m \in told[c], i \in 1 .. Len(outbox[c]) :
         IsEnd(m, j) => ~IsAbout(outbox[c][i], j)
    /\ \A i, k \in 1 .. Len(outbox[c]) :
         i < k /\ IsEnd(outbox[c][i], j) => ~IsAbout(outbox[c][k], j)

ServiceInv ==
  /\ JobsAreCreatedOnce
  /\ WafersWaitTheirTurn
  /\ OneLotPerJob
  /\ EndsComeLast
=============================================================================
