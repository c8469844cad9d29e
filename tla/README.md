# Verification of tpt-fab

TLA+ models, TLC runs and TLAPS proofs about the code in `src/crates/`. Line
references are to that tree. `PROJECT.json` maps every definition to its source
lines and lists the runs, the mutants that each property is shown to catch, the
hazards, the findings and the theorems.

Run a configuration with `tlc -config X.cfg M`, check the proofs of a module with
`tlapm M.tla`, M being `FabSimProofs`, `GemEngineProofs`,
`IntakeQueueProofs`, `AggregateProofs`, `HostSessionProofs`, `HsmsStreamProofs`,
`PassiveServerProofs` or `ToolsProofs`.

## 1. The system

| Component | State | Operations | Interacts with |
|---|---|---|---|
| **Equipment simulator** (`tpt-fab/src/sim.rs`) | one `FabState` behind a mutex; per connection a thread, a socket, an HSMS state | accept, serve, `handle_data`, `stage_lot_and_job`, `run_process_job` | everything below; hosts over TCP |
| **GEM300 managers** (`gem300.rs`) | object registry, substrate locations, process jobs, E116 plans and samples | `create`, `register`, `move_substrate`, `transition`, `on_event` | called under the mutex |
| **Lots** (`lot.rs`) | lots with state and history | `register`, `transition` | called under the mutex |
| **Recipes and drift** (`recipe.rs`) | recipes with versions | `add`, `add_version`, `latest`, `detect_drift` | gate in phase 1 of a job |
| **GEM engine** (`gem.rs`) | communication and control state, SVIDs, ECIDs, alarms, process programs, pending actions, identifiers | `handle_message`, `make_alarm`, `make_event_report`, `take_actions` | called under the mutex |
| **HSMS** (`hsms.rs`), **SECS-II** (`secs.rs`) | socket with timers T3..T8 | frames and items in and out, selection, linktest, reject | simulator threads, `HostClient` |
| **Vendor adapters** (`adapter.rs`) | a list, empty as installed | `intercept_incoming`, `intercept_outgoing` | called around the GEM engine |
| **Host client** (`sim.rs`) | socket, transaction numbers, inbox | `connect`, `request`, `next_event`, `separate` | simulator |
| **Litho backends** (`tpt-fab-litho`) | configuration, template or source wear | `plan_exposure`, `health`, `record_*` | `plan_exposure` is called by phase 2 of a job |
| **Process tools** (`tpt-fab-process`) | none | OPC, process window, sky130 shuttle results | produce outcome reports |
| **Intake queue** (`tpt-fab-intake`) | inbox and disposition directories, ledger file, screening history | `process_directory`, `process_file`, ledger `save`/`load` | reads outcome files, run by hand |
| **Aggregation** (`tpt-fab-aggregate`) | cohorts, screening history, privacy policy | read, verify, migrate, ingest, screen, publish | used by intake and by recipients |

How they interact: a host opens a TCP connection; the accept loop gives it a
thread. The thread decodes requests, takes the mutex, lets the GEM engine
answer, releases the mutex, writes the answer, and runs a job requested by
`S2F41 START` itself. During a job it takes and releases the mutex about
`5 + 2n` times for `n` wafers, writing reports in between. Files, not calls,
connect the simulator's world to intake and aggregation.

What is hard here:

* several connection threads run `run_process_job` on the same state, and each
  releases the mutex between deciding and acting;
* reports are built under the mutex and written later; a write can fail and then
  the thread leaves, whatever it was doing;
* `stage_lot_and_job` fails half-way without undoing anything;
* equipment constants written by one host abort the job of another;
* HSMS timeouts race late answers;
* a peer sends ahead, before it is selected, what cannot be decoded, or nothing;
  frames arrive in pieces;
* plans are made before the wear they cause is recorded;
* the intake queue moves a file, then records it, then saves: a crash can fall
  between.

What makes each component correct: a job is run by one connection, exposes
every wafer in order, ends once, and hosts are told the truth about the end;
lots and counters follow jobs; a stored recipe is never silently replaced; a
reply completes only its own request and no event is lost or reordered; what is
received is what was sent, whole and in order, and each request has one answer;
an exposure plan fits its budgets with everything it contains; every
report leaves the inbox with exactly one recorded decision, across crashes; only
consenting, screened reports in large enough cohorts are published.

## 2. Plan

1. `Lifecycles`, `Drift`, `FabSim`: job execution, the core. **Done.**
2. `JobService`: the abstract service, implemented by `FabSim`. **Done**,
   checked and proved.
3. `FabSimProofs`: the inductive invariant of job execution, and the refinement.
   **Done.**
4. `IntakeQueue`: the incoming directory, the dispositions and the ledger, with
   crashes. **Done**, proved in `IntakeQueueProofs`.
5. `HostSession`: one host client against its serving thread. **Done**, its
   safety proved in `HostSessionProofs`.
6. `GemEngine`: control state, status copies, recipe store, identifiers.
   **Done**, proved in `GemEngineProofs`.
7. `OutcomeExchange`: files, signatures, migration, cohorts. **Done** for one
   bucket, proved in `AggregateProofs`.
8. `Screening`: the robust statistics of the anomaly detector. **Done**, proved in
   `AggregateProofs`.
9. `HsmsStream`: frames and the byte stream they travel in. **Done**, its safety
   proved in `HsmsStreamProofs`. `SecsCodec`: items and what frames say with them,
   on top of it. **Done**, checked.
10. `GemHandlers`, `PassiveServer`: the serving thread and every handler of the
    engine against a peer that does anything. **Done**, its safety proved in
    `PassiveServerProofs`.
11. `LithoBackends`, `ProcessTools`, `RecipeDrift`: the backends with their wear,
    OPC and process windows, drift checks of any recipe. **Done**, proved in
    `ToolsProofs`.

## 3. What is modelled

### FabSim (with Drift and Lifecycles)

`Lifecycles` holds the transition tables of `ProcessJobManager::transition` and
`Lot::transition`. `Drift` holds the tolerance classification, the equipment
constants as `effective_offsets` reads them, and the runnable gate; quantities
are integers in hundredths, so the comparisons made in `f64` by the code are
exact here.

`FabSim` has three groups of variables: the `FabState` fields; per connection
the thread (`pc`, `job`, `idx`, `failed`) and its unsent messages (`outbox`);
and what the peer has received (`told`). One action is one critical section of
the mutex, or one message written. `pc` says at which point of
`run_process_job` the thread is:

| `pc` | point of the code (sim.rs) | actions |
|---|---|---|
| `closed` | no thread | `Connect` |
| `idle` | blocked in `recv` (271) | `NewEquipmentConstant`, `DownloadRecipe`, `RemoteStart`, `RecvFails` |
| `validate` | before the lock of phase 1 (446) | `StartUnknownJob`, `AbortRefused`, `AbortUnknownRecipe`, `AbortDrifted`, `StartRefused`, `StartJob` |
| `check` | before the check of `started` (511) | `NotStarted`, `Started` |
| `load`, `expose`, `unload` | loop of phase 2 (525) | `Load`, `ExposeOk`, `ExposeRefused`, `Unload` |
| `finish` | before the lock of phase 3 (575) | `FinishRefused`, `Finish` |

A thread with a non-empty `outbox` can only send: `SendDelivered`, `SendLost`
(the kernel accepts a write to a vanished peer) or `SendFails` (the error closes
the connection, `Close`). `Stage` is one call of `stage_lot_and_job` with its
partial failures.

Abstractions. Identifiers of wafers, lots, carriers and jobs are drawn from
disjoint sets (the code keeps them in one registry, so a job named like a wafer
would also be refused). A message is its CEID or ALID and its subject. The list
of substrates read after the check of `started` is read in the same step as the
check, because a job's list never changes after it is created. One E116 plan on
CEID 6003 is assumed. A refusal by the backend is a free choice. A download
always carries the standard parameters (`apply_recipe_body` gives every version
the same). Session set-up and the host's side are in `HostSession`, the other
messages a connection may carry in `PassiveServer`, control state and message
identifiers in `GemEngine`, bytes in `HsmsStream` and `SecsCodec`, what a backend
plans in `LithoBackends`.

### JobService

The abstract specification: a job is created with a number of wafers, starts
once, has wafers exposed one after the other, completes only with all exposed,
or is aborted; a client learns an end only after it happened, and forgets what
it knew in a new session. `FabSim` implements it under `JS == INSTANCE
JobService WITH ...`: `exposed` is the set of list positions whose wafer is
`Fixed`, `knows` is read off `told`. The abstract service lets wafers of an
aborted job still be exposed, because that is what happens when a job is aborted
under the thread that runs it.

### IntakeQueue

Three directories and the incoming one are sets of named files; the ledger on
disk, its temporary file and the ledger in memory are separate variables. One
action is one file-system call or one decision: `Invoke` (load and list),
`Refuse` (a ledger that does not parse), `ProcessFile` (read, check, screen,
decide), `Rename` or, as `move_file` does
when the rename fails, `Copy` then `RemoveSource`, then `SaveTmp`, `SaveRename`
and `Return`. The process may end between any two (`Crash`) or inside a copy
(`CrashCopying`), by a crash or because `?` leaves `process_directory`;
`Interrupted` is what both have in common. A report is its kind and whether its
metrics are finite (`NonFinite`); `Deliver` puts one under a name that is free.
Saving and loading are not inverse to each other: `Json` prints an infinite metric
as `inf` and does not read it back, so that a ledger whose history holds one does
not parse (`Parses`) and every later invocation exits before it looks at a file. Names are
numbers in the order in which the code sorts them. `delivered`, `crashes` and `cut` are no state of
the program: they count what the properties speak of. `cut` is the number of
interruptions that fell into copying, and the properties allow for exactly what
those leave behind.

### HostSession

The host's `hpc` says which call its user is in: `ConnectHost` leads to
`selecting`, `RequestReply` to `request`, `NextFromSocket` to `event`, and each
of them is a loop over `recv`. `recv` is cut where its timeout changes: `got`
says whether nothing, part of the length prefix or the whole prefix has been
read, `Limit` which timeout is in force, `timer` how long it has run. When
`TimedOut` fires inside a frame the stream is out of step (`desync`) and every
later read is a `Misread` or a timeout. The serving thread answers one message
at a time, reply first, then the events of a job (`ServeData`, `Write`), and may
leave at any time (`Break`, which stands for its own timeouts as well). Once it has
left, the host's writes may fail: `request` and `send` then return the error
(`SendFails`), and `next_event` loses the event whose acknowledgement it could not
write (`EventAckFails`, sim.rs:772): it has been taken off the connection and is not
returned. `taken` is what `next_event` took, `lost` what of it the user never got.
`Linktest` is an equipment that keeps sending control frames.

### GemEngine

One action handles one host message with all `handle_data` does under the mutex:
the engine's answer, the actions taken from it, and `UpdateSvids`. So
`HandleData` is a disjunction over the messages that change something. Reports
and alarms take identifiers from one counter. `OperatorAction` is the library's
`operator_request_online` and `go_offline(false)`, `AddRecipe` is
`RecipeStore::add`; two variables that are no state of the program remember that
they happened: `panel` until the next host message, `added` until the next
download of that recipe. The counter wraps, as in a release build; in a debug
build `make_event_report` panics there (gem.rs:226).

### OutcomeExchange

Files as written and as stored are kept apart, so that a signature covers what
was written while `Damage` changes what is read: any of the report, its version
included, and the signature, which may be gone or cover nothing any more. A reader has
one of the two policies for unsigned files. `signed` in a contribution is the
signature its report still has; `policy` is history. A file that lost its signature
is accepted, with whatever it says now, under `AcceptUnsigned` (signature.rs:50):
`SignedMeansUnaltered` is about contributions with a signature and about readers that
require one. `Readable` composes the
reader's gates in their order; `Migrated` is what a report is after
`ensure_current` and `from_json`. A contributor is the fab that wrote the file:
the report itself does not name one, the receiver does when it ingests.
`IngestShuttle` is the path of sky130 results, whose manifest id is their
project; `ExchangeAssumption` keeps fabs apart from the numbers that stand for the
manifest ids of files, because in the code the id of a shuttle result is a hash of its project.

### Screening

`Median` and `MAD` are translated with their sorting (`Sorted` inserts one value
after the other, stable as the `sort_by` of the code), doubled and quadrupled to
stay in the integers; `WithHistory` is the loop of `with_history`, which observes a
stored history anew. The factor 1.4826 is kept as 14826/10000. Rounding of
`f64` is therefore not modelled, infinite and undefined values are (`NaN`). A MAD
of 0 does not mean a constant history, as the comment of `robust_z` suggests: any
history with a majority of equal values flags every other value (anomaly.rs:79).

### RecipeDrift

`Recipe` as a chain of versions and `detect_drift` on parameters of every kind.
`DetectDrift` gives a finding for each expected parameter, `StatusOf` is the match
on the two values, with `Classify` of `Drift` for numbers. A number that is none
(`NaN`) fails every comparison and so is out of spec. Quantities are integers in
hundredths. A caller may put any number into a version it adds, and keeps the
check it made: `check` is what it holds.

### HsmsStream and SecsCodec

`HsmsStream` is one direction of a connection, in bytes: `EncodeFrame` and
`DecodeFrame` add the length and the ten header bytes. `Send` writes a frame,
`Recv` is `HsmsChannel::recv`, cut at every `read`: `ReadSome` takes some of the
bytes that have arrived, `HandUp` is the return of a frame, `RecvFails` its errors: a
length it refuses, the end of a broken connection, and a wait that runs out inside a
frame, under the idle timeout in the four bytes of the length and under T8 behind
them, at any moment (`failed` says which). What was read of the frame is lost with each,
and the reader of this module stops, as the serving thread does; `HostClient` goes on,
and `HostSession` has it read from the middle of a frame (`HostSession_idle_v`). A
broken connection loses the last bytes written. A frame has the length
that `encode` gives it, or, from a foreign writer, one that `recv` refuses
(`Framed`); bodies of 2^32 bytes and more, whose length does not fit its four bytes,
are left out.
`Arrived` is what the reader makes of a frame: the highest bit of its stream is lost
(secs.rs:340).

`SecsCodec` says what the frames carry. `EncodeItem` and `DecodeItem` are the
encoder and decoder of `secs.rs` (recursive operators, the module holds no
theorem), with `Take` for every read that can run out. `ForeignFrames` have bodies
this library would not write, or a length below that of a header. Integers of eight
bytes are limited to TLC's range, floating-point patterns are kept as bytes.
`element_size` (secs.rs:71 gives 2 for F4) is called by nothing and left out.

### GemHandlers and PassiveServer

`GemHandlers` is `handle_message` as a function from an engine and a request to an
engine and a reply, one operator per handler. A value is the number of the write
that brought it, so that "older" means something; `refused` remembers the values
that were sent and not accepted.

`PassiveServer` runs them in the serving thread: `spc` is its place in
`serve_connection` (reading, answering, running a job, returned), `hsms` the session
state. The lock is held in `ServeData` only, the answer is written by
`WriteAnswer`, and between the two another connection's thread may act
(`OtherHost`). The peer is free to send any frame ahead of the answers, and to
leave with frames unread (`PeerLeaves`). `NamesAreApart` keeps the names of status
variables, constants and programs disjoint, since the code has a map for each of
the three (gem.rs:108, 110, 116) and a name here stands for one value.
`Expected` is the kind of answer that SEMI E37 and E30 have for each frame it sent,
and `due` the answers that are to come. A message may ask for no reply (`asks`, its
W-bit, as `HostClient::send` makes them): the code answers it all the same, so it
has an answer due like any other. A START may be of a job that does not exist, is not
queued or has been ended by another connection: `run_process_job` fails, and the thread
returns with what the peer sent behind it unanswered (`RunJobFails`, sim.rs:393). A
write blocks while `Room` frames wait for a peer that does not read (`Writable`): there
is no write timeout. `bind` installs an empty `AdapterRegistry`;
`Adapters` gives the chain members, so that what `adapter.rs` promises of them
is checked.

### LithoBackends and ProcessTools

`LithoBackends` has the four backends behind the trait: `Valid` is their `new`,
`PlanExposure` their `plan_exposure`, `Health` their `health`. Doses and overlays are
integers in the units of the configuration; root sums of squares are compared
squared. A field of a configuration may be no number: `nan` names those fields, which
are written 0, as is what is computed from them. `Valid` refuses them only where the code
does, which compares with `<=` and `>` and so lets a NaN pass everywhere but in the window of
NIL; no constructor looks at a wavelength. A comparison with a NaN holds for none of
`TooTight`, `Defective` and the budgets. Forces and densities that are recorded are numbers: a
NaN force would be out of its window and a NaN density within its limit, like values that
are recorded. A plan is made now and recorded later (`AskForPlan`, `RecordExposure`,
`RecordCycle`, `RecordWrite`), with `inFlight` plans between. Two things seen while
modelling are no properties: `passes_planned` of the DUV backend is never incremented,
and a template whose last separation force was out of its window plans nothing
from then on, unless another separation is recorded over it (nil.rs:71), which a plan made
before it allows. `TemplateLifeIsKept` is therefore about the last separation recorded, and does
not say that a harmed template is never used. `PlansFitBudgets` is about what a plan declares:
a dose or an overlay that is no number fits every budget, and the one step of an e-beam
plan has the dose of one pass however many are written. The simulator calls
`plan_exposure` alone and never records.

`ProcessTools` adds the OPC bias rules (`Analyze`) and the simulations of etch, deposition
and heat. OPC takes reference optics for each technology and not the
installed backend's (`Illumination`), which is why `BiasStaysBounded` speaks of
those, and only where the backend's wavelength and NA are the same. With them the line bias is
at most 2/7 of `max_line_bias_nm` (3/7 for EUV), that of the limit of k1, where opc.rs:104
speaks of the whole of it: `DenseBias` scales from k1 = 0, which no backend prints. `Margin` is positive above a window, where the comments of window.rs:28 and
54 say negative outside.

## 4. What is checked

| Run | Instance | Properties |
|---|---|---|
| `onelot` | 2 connections, 1 lot of 2 wafers, 1 job, temperature offset 6.00 and 6.01 (tolerance 3.00) | `TypeOK`, `ExclusiveRunner`, `ToldTheTruth`, `LotFollowsJob`, `JobSettles`, `NothingAfterTheEnd`, `ImplementsJobService` |
| `twolots` | 2 connections, 2 lots of 1 wafer, 2 jobs | `LotsProcessedIsExact` |
| `staging` | 1 connection, 3 wafers, 6 staging calls that collide in every way | `JobsOwnTheirWafers`, `CompletedJobsAreExposed` |
| `intake` | 2 names, 4 reports (usable, usable with an infinite metric, no-sharing, unreadable), 1 interruption, moves by rename and by copy | `ReportsAreSafe`, `LedgerAgrees`, `LedgerOnlyGrows`, `ListedAreRecorded` |
| `session` | 2 connections, 2 messages, 2 events for a START, T3 of 2 ticks, the others 1 | `RequestsAreAnswered`, `EventsInOrder`, `CallsReturn` |
| `gem` | 1 program, 2 bodies, 2 versions, identifiers modulo 8, 3 remembered | `IdsAreFresh`, `StatusIsCurrent`, `StoreFollowsPrograms`, `VersionsAreKept`, `LocalStaysLocal` |
| `exchange` | 3 fabs (current, a version behind, a version ahead), 1 file, any of it damaged, both policies, 3 ingestions, minimum cohort 2 | `SignedMeansUnaltered`, `CohortsAreOfConsenting` |
| `screening` | 7 kinds of report, every sequence of 5, minimum history 3 | `HistoryHasAMiddle`, `OutliersStayFlagged` |
| `codec` | 36 items and 128 foreign bodies, 2 headers, then a second frame; read by halves or at once, a break that loses none, half or all of what is under way | `FramesArriveWhole`, `BodiesAreReadWhole`, `AllIsReceived` |
| `server` | 20 requests and 4 control frames, 3 frames of which 2 may be ahead, 1 message of another host, T7 of 1 tick, idle limit of 2 | `AnswersAreOneForOne`, `RefusedIsNotStored`, `ReadsNeverGoBack`, `ConnectionEnds` |
| `tools` | 26 configurations of which 20 are accepted, 10 of these with a NaN or a wavelength of 0 or less, 90 layers, 2 plans in flight, 42 film steps, 3 thermal steps; recipes of 2 versions, 19 readings | `PlansAreWithinBudgets`, `TemplateLifeIsKept`, `BiasStaysBounded`, `WorstDecides`, `NumbersIdentifyVersions`, `OnlyExpectedParametersCount`, `DriftOnlyWorsens` |
| `crash_v` | as `intake`, 2 interruptions | `NoBookkeepingLost`, see Findings |

Several of these are conjunctions of named parts, each stated in its module:

| Property | Parts |
|---|---|
| `ReportsAreSafe` | `IntakeTypeOK`, `NothingLost`, `FiledOnce`, `OnlyUsableReachReview` |
| `LedgerAgrees` | `DecisionsWereCarriedOut`, `LossIsBounded` |
| `RequestsAreAnswered` | `HostTypeOK`, `SelectedTogether`, `AnswersAreForTheRequest` |
| `IdsAreFresh` | `GemTypeOK`, `FreshIds` |
| `CohortsAreOfConsenting` | `ExchangeTypeOK`, `PlainNeedsCohort` |
| `HistoryHasAMiddle` | `ScreeningTypeOK`, `MedianIsMiddle` |
| `FramesArriveWhole` | `StreamTypeOK`, `ReceivedIsSent`, `FailsForItsReason` |
| `BodiesAreReadWhole` | `ItemsAreReadAsMeant`, `CutItemsAreRefused`, `ReadItemsCanBeSent` |
| `AnswersAreOneForOne` | `PassiveTypeOK`, `AnswersAreDue`, `NothingIsPassedOver` |
| `PlansAreWithinBudgets` | `ToolsTypeOK`, `PlansFitBudgets`, `LooserBudgetsKeepPlan` |
| `TemplateLifeIsKept` | `WornTemplateIsRefused`, `OverrunIsBounded` |
| `WorstDecides` | `WorstSitesDecide`, `MarginsLeadBack`, `OverheatedStays` |
| `DriftOnlyWorsens` | `SetpointsAreInSpec`, `FartherIsNeverBetter` |

`PROJECT.json` lists a mutant for every part. `ToldTheTruth` holds for any
number of lots by its theorem and is run on one.

The violation run stops at the first counterexample; the other runs are
exhaustive.

Bounds of `FabSim`. Two connections are enough for every race in `FabSim`: at most one
thread is past the check of `started` with a job, and any other can only abort it
or be refused. Two wafers distinguish first, last and in-between positions of
the loop; two lots and two jobs let `lot_of_via` choose wrongly. Nothing is cut
off by a state constraint: connections can be opened again and requests repeated
without limit, and the state space is still finite.

Bounds of the others. In `IntakeQueue` one interruption can fall anywhere and is
followed by invocations that are not interrupted (that several do no more harm, one
in the recovery from another, is proved); two names for four reports let a name be
used again; with a minimum history of one, a report is flagged or not once any
other was seen. In `HostSession` two messages are one that is given up and one that must not get its
answer; two events can be out of order; T3 longer than a tick lets it be
restarted; frames are read in at most three pieces because only two places in a
frame matter to `recv`. In `GemEngine` programs do not influence each other, so one
is enough, and the range of identifiers is larger than what is remembered of them
times two, as 2^32 is in the code. In
`OutcomeExchange` files do not influence each other before they are ingested, so
one file and the shuttle results of three fabs give every mixed cohort around the
minimum. In `Screening` five values give even and odd histories on both sides of
the minimum, with outliers below and above half of them. In `SecsCodec` the items
have 0, 1, 127, 128, 255, 256 and 300 elements, on both sides of each form of a
length, and the ends of each integer range; one long and one short frame are
enough for chunks that end inside the first, between the two or inside the second.
A read returns half of what it could, or all of it (`Halves`), so that chunks of
every size from one byte on occur; `FramesArriveWhole` holds for any chunks by its
theorem.
In `PassiveServer` three frames are selection, a request and what comes after; two ahead
of the answers are enough for answers to be swapped; one foreign write falls
anywhere. In `LithoBackends` templates and sources with a life of 3 and 10 cycles
wear out within the bound, and the layers are on both sides of each pitch limit and
budget; of each backend there are configurations with numbers missing. The composition in `MCProcessTools` lets either the tools or the recipes
move: they share no variable.

Fairness. `AllIsReceived` assumes that `recv` goes on when bytes are there or the
connection is gone (`WF` of its steps), and nothing of the sender; it promises nothing
once a wait has run out inside a frame. `ConnectionEnds`
assumes that the serving thread and its read timeout make progress
(`WF(ServerStep)`); a write is enabled when there is room for the frame or the peer is
gone, so that one to a peer that stays and never reads blocks forever. The property is
claimed of peers that read what they are sent, or go (`PeerKeepsReading`), and need do
nothing else; without that condition TLC finds the thread held in a write. `CallsReturn` assumes that the host's reads and their timeouts make
progress (`WF(ReceiveStep)`): a blocking read with a read timeout returns. Of the
equipment it assumes only that its frames end (`FramesEnd`): every frame that is not
awaited starts the timeout afresh (sim.rs:741-751), so an equipment that sends one in
every timeout keeps `request` and `next_event` waiting forever. The serving thread of
this repository sends a bounded number for a bounded number of requests. `JobSettles` of `FabSim` and `ListedAreRecorded` of
`IntakeQueue` assume weak fairness, the latter of an invocation that is not
interrupted (`RunStep`: file-system calls return), the former of each serving thread (`ThreadStep`). The mutex is only held for bounded work without
I/O, so a thread that wants it gets it; `plan_exposure` returns; a `write_all`
returns when the peer reads its socket or is gone. Nothing is assumed of hosts:
they need not send, stay or come back. The code sets no write timeout, so a host
that stays connected and never reads would block its thread; that is the one
behaviour the fairness excludes.

### Findings

One disagreement is a run of the project. `crash_v`: a crash between moving a
file and saving the ledger loses the decision for good (intake lib.rs:232).
`LossIsBounded` shows that it is one at most per crash.

The others have a configuration beside the modules, to be run by hand in the
same way; TLC finds the property it names violated.

| Configuration | Module | What it shows |
|---|---|---|
| `FabSim_lots_v.cfg` | `MCFabSim` | `lot_of_via` ignores the job it is asked about, so with two staged lots the second job moves and reports the first lot (sim.rs:643; its comment at sim.rs:641 says it resolves the lot of the job; with one active lot, `onelot`, lots do follow jobs) |
| `HostSession_acks_v.cfg` | `HostSession` | `next_event` hands out events that `request` queued without acknowledging them (sim.rs:758; the comment at sim.rs:754 says it acknowledges) |
| `OutcomeExchange_older_v.cfg` | `MCOutcomeExchange` | a signed 0.1 report never verifies, because the signature is computed over the migrated report (aggregate file.rs:67; the crate's README at line 22 says 0.1 is migrated) |
| `FabSim_samples_v.cfg` | `MCFabSim` | the E116 plan on ProcessJobCompleted also samples aborted jobs (sim.rs:604; gem300.rs:211 says "ProcessJobCompleted.") |
| `FabSim_reports_v.cfg` | `MCFabSim` | a START of a job with an unknown recipe aborts it, and the alarm and event that were built are dropped (sim.rs:461; the comment at sim.rs:438 promises event reports) |
| `IntakeQueue_consent_v.cfg` | `MCIntakeQueue` | metrics of rejected no-sharing reports enter the persisted screening history (lib.rs:240; the comment at lib.rs:173 says they are not processed at all) |
| `HostSession_t3_v.cfg` | `HostSession` | every frame that is not the reply restarts T3 (sim.rs:742) |
| `HostSession_idle_v.cfg` | `HostSession` | the idle timeout also cuts a length prefix in two, after which the connection cannot be used although the client does not know (hsms.rs:278; the comment at hsms.rs:275 limits it to the first byte) |
| `GemEngine_status_v.cfg` | `GemEngine` | operator actions do not refresh the status variables |
| `GemEngine_add_v.cfg` | `GemEngine` | `RecipeStore::add` has replaced the recipe when it reports the duplicate (recipe.rs:226) |
| `GemEngine_remote_v.cfg` | `GemEngine` | every named remote command is acknowledged in every control state (gem.rs:421); START is then carried out and any other dropped |
| `PassiveServer_t7_v.cfg` | `MCPassiveServer` | every frame of an unselected peer restarts T7 (sim.rs:264; hsms.rs:49 calls it the time between connect and select) |
| `PassiveServer_adapters_v.cfg` | `MCPassiveServer` | event reports of a job do not pass the adapters (adapter.rs:35 says every outgoing data message) |
| `ProcessTools_down_v.cfg` | `MCProcessTools` | the EUV backend plans exposures while its health is down (backend.rs:182 "Not usable until intervention") |
| `ProcessTools_sadp_v.cfg` | `MCProcessTools` | SADP plans never contain a cut, because cuts are litho passes less one (duv.rs:161; duv.rs:24 "one cut pass") |

Seen while modelling, without a configuration of their own: across devices a copy
cut short leaves part of a report in `accepted/` (intake lib.rs:275);
a report with an infinite metric (json.rs:198 reads `1e999` as one) leaves a ledger
that no later invocation can load, although intake's README says at line 14 that a
run can be resumed (ledger.rs:96, json.rs:72, main.rs:132);
the text of a 0.1 note does not survive parsing (outcome.rs:380);
`next_event` also hands out late replies that `request` queued (sim.rs:758); it loses
an event whose acknowledgement it cannot write (sim.rs:772); a message that asks for no
reply (secs.rs:326, "reply expected"; `HostClient::send`) is answered (gem.rs:248); a
START that cannot be run ends the connection after it was acknowledged (sim.rs:393); a
shuttle result that is ingested twice counts twice (aggregate.rs:114); an item of
more than 65535 elements is sent with a length modulo 65536 (secs.rs:173; secs.rs:6
speaks of one to three length bytes); a stream above 127, such as the 150 of the
adapter test, arrives without its highest bit (secs.rs:340); the e-beam plan counts
the dose of one pass of a multipass write (ebeam.rs:106; backend.rs:151 "Total dose
across all steps"); configurations with a NaN are accepted (duv.rs:90, euv.rs:54, nil.rs:55,
ebeam.rs:59) and their plans fit every budget; a separation that was out of its window is
forgotten when the next cycle is recorded (nil.rs:71); and no printable pitch gets the
"maximum line bias" of opc.rs:104, at most 2/7 of it, or 3/7 with EUV.

## 5. What is proved

Every theorem holds for all values of the constants that the named ASSUMEs of its
module allow: identifiers of the right kind, numbers that are natural, timers that
are not 0, special values outside the sets they mark. TLC evaluates them on each
run. Two theorems have a hypothesis beyond them, `IdsStayFresh` and
`TheLotFollowsItsJob`, which is explained with each. The inductive
invariants are stated at the end of the modules they are about, those of the
identifiers, of the counter and of the staged lot beside their proofs, and each was run as an
invariant of its module's configuration before it was proved (that of `HsmsStream`
with the bytes of the frames sent for the stream it says there is).

### FabSimProofs

| Theorem | Property |
|---|---|
| `TypeCorrect` | `TypeOK` |
| `OneRunnerPerJob` | `ExclusiveRunner` |
| `CompletedMeansExposed` | `CompletedJobsAreExposed` |
| `HostsAreToldTheTruth` | `ToldTheTruth` |
| `CreatedJobsOwnTheirWafers` | `JobsOwnTheirWafers` |
| `EndsAreLast` | `NothingAfterTheEnd` |
| `CounterIsExact` | `LotsProcessedIsExact` |
| `TheLotFollowsItsJob` | `LotFollowsJob`, if all staging calls are for the same lot and job |
| `FabSimImplementsJobService` | `ImplementsJobService` |

`Invariant` is `Spec => []IInv`. Apart from the type invariant no property of the
first four is inductive alone. `IInv` adds: each wafer is listed once by one job
(`WafersAreOwned`; otherwise a job could move a completed job's wafer back); a
thread past phase 1 holds an executing or aborted job, and two such threads hold
the same job only if it was aborted (`ThreadsHoldJobs`, which gives
`ExclusiveRunner` when a job starts); every wafer before `idx` is out and an
unfailed thread reaches phase 3 only past the last (`WafersAreDoneInOrder`, which
gives `CompletedJobsAreExposed`); and every report of an end, sent or unsent,
agrees with the job (`ReportsMatch`, which needs the ends of jobs to be final).
The proof has one lemma per group of actions, combined in `StepIInv`.

The others need `ServiceInv` beside it (`ServiceInvariant`): a job has wafers
only once it is created, and passes only through the states its runner leaves it
in; no wafer is out before its turn; the wafers of a job were registered with the
lot of its staging call; and in what a connection was told or has still to send,
a job's end comes after everything else about it. The actions of a connection
fall into seven kinds by what they do to jobs, wafers and reports
(`StepKinds`), and each invariant is proved kind by kind.

The refinement maps a job to its state, its number of wafers (`Size`), the
positions whose wafer is out (`Exposed`) and to what each connection knows of its
end (`Knows`). `InitRefines` and `StepRefines` show that the initial states map to
initial states, and each step to a step of `JobService` or to none; `EndsAreLast`
follows from `EndsComeLast`: no message about a job stands behind its end in what a
host was told and is still to be sent. `CounterIsExact` is by
`CountInv`: the counter is the number of completed jobs, no more lots than jobs
are completed, and both sets are finite, although `Jobs` and `Lots` need not be.

`TheLotFollowsItsJob` assumes `OneLotStaged`, because `lot_of_via` takes the first
unfinished lot whatever the job: with two lots the property is false
(`FabSim_lots_v.cfg`). Staging calls for the one lot may still name different
wafers, fail half-way and be repeated. `OneLotInv` says that the tracker is empty
and no job exists, or that the lot is the only one on the list and has the job's
wafers, so that `lot_of_via` and `hold_lot` come to the same lot (`LotOfJob`).

### GemEngineProofs

`StatusStaysCurrent`, `StoreAlwaysFollows`, `VersionsAreAppended`,
`LocalIsLeftByGoingOffline` and `IdsStayFresh`, for the properties
`StatusIsCurrent`, `StoreFollowsPrograms`, `VersionsAreKept`, `LocalStaysLocal` and
`IdsAreFresh`. The first three exempt exactly what `GemEngine_status_v.cfg` and
`GemEngine_add_v.cfg` show to happen: an operator's action until the next host
message, and a recipe added by the library until its next download.
`StatusIsCurrent` is inductive by itself; the two about recipes need that every
recipe is a sequence (`RecipesOK`), and lemmas on the last element and the
prefixes of an appended sequence.

`IdsStayFresh` is by `IdsInv`: the i-th newest identifier lies at most 2(i - 1)
behind the counter, on a circle of `IdRange` numbers (`Behind`), and the older one
of two always lies farther behind. Identifiers are then distinct if
`2 * Recent <= IdRange`, which is the theorem's hypothesis: the last 2^31
identifiers of the code are distinct although its counter wraps.

### IntakeQueueProofs

`QueueInvariant`, `ReportsStaySafe`, `LedgerAlwaysAgrees` and `LedgerGrows`, for
`ReportsAreSafe`, `LedgerAgrees` and `LedgerOnlyGrows`. `QueueInv` adds what an
invocation has in hand at each point (`WorkInHand`), that the ledger in memory, its
temporary file and the ledger on disk differ by the decision being recorded at
most (`LedgersAgree`), that what the history on disk holds was decided on
(`HistoryIsDecided`, so that a refused ledger records the report that spoiled it), and
that a report is in one place, but for the copies that
interruptions cut short and the one in hand (`CopiesAreCounted`).
That nothing is overwritten rests on `FirstFree`: among n + 1 numbers one is not
taken by n files, so that the search of `collision_safe` ends at a free name; the
least such number exists by well-foundedness of the naturals.

### AggregateProofs

`ExchangeInvariant`, `SignedStaysUnaltered` and `PublicationsAreOfCohorts`, for
`SignedMeansUnaltered` and `CohortsAreOfConsenting`. `ExchangeInv` adds that a
file keeps its fab whatever damages it, that a signature, as long as it covers
anything, covers what was written, and that contributions come from files or shuttle
projects.
Whoever is in the engine consented (`Ingestible`), so the cohort that is counted
and the cohort the statistics are of are the same (`CohortIsEligible`).

`ScreeningTypes`, `MediansAreMiddles` and `OutliersAreFlagged` are about the
detector, the last two for `HistoryHasAMiddle` and `OutliersStayFlagged`.
`SortedSorts` shows that what `Sorted` returns is in order and a rearrangement of
what it was given (`Rearranged`, a bijection of the positions), so that both have as many values on
any side of a number (`SortedCount`). In a sequence that is in order the place of a value is
a bound on how many are below it (`RankIsSorted`): `MedianOfMiddle` is half on either
side, `MedianOfMost` that the median of a history most of which lies in
`low .. high` does so, too. The deviations of those values from it are then at
most `high - low`, and so is their median, the MAD (`MADOfMost`); a value far
enough from all of them has a score above the threshold (`FarIsFar`), however the other
values lie. `Honest` is any choice of the two bounds, and the threshold is any.
A restart changes nothing because it observes the stored values in their order
(`HistoryIsKept`).

### HostSessionProofs

`HostInvariant`, `RequestsGetTheirAnswers` and `EventsStayInOrder`, for
`RequestsAreAnswered` and `EventsInOrder`. `HostInv` adds which call goes with
which state of the connection (`ConnectionPhases`); that transaction numbers and
the user's messages advance together, so that a late answer never has the number
a request waits for (`TransactionsAreMessages`); and that the events of a
connection, taken in the order user, inbox, network, serving thread, are
consecutive (`EventsMoveInOrder`). That none is lost before the equipment has closed is
part of `ConnectionPhases`: only there can an acknowledgement fail. Lemmas on `EventsAre` say how
consecutive events are joined, split and handed on.

### HsmsStreamProofs

`StreamInvariant` and `FramesAlwaysArriveWhole`, for `FramesArriveWhole`: of any
frames, any number of them, in any chunks. `StreamInv` says that there is a stream
of all bytes ever written, and where in it each frame ends; that the buffer of
`recv` and the bytes under way stand in it behind the frames received, one after the
other, and reach to its end while the connection lasts (`Carries`); and that `recv`
has read past a length only if it was reasonable, and not past the frame
(`ReadsOneFrame`), so that it fails for its reason only (`FailsForItsReason`). Without
`ReadsOneFrame`, the buffer could hold bytes of a frame that was
refused, or of two frames, and what is handed up would be neither.

`IsAt` is the place of bytes in a stream, with lemmas on its parts and on two of
them one after the other (`PartIsAt`, `JoinIsAt`, `PartsOfJoin`); each step of the
connection moves bytes by one of these (`WrittenFurther`, `CutInTwo`, `ReadOn`). The
codec itself is arithmetic: what is read from two or four bytes is the number they
were made of (`TwoBytes`, `FourBytes`), hence the header (`HeaderIsRead`), the length
(`LengthIsRead`) and the frame (`FrameIsRead`), but for the highest bit of a stream.

### PassiveServerProofs

`ServerInvariant`, `AnswersAlwaysOneForOne`, `RefusedIsNeverStored` and
`ReadsOnlyAdvance`, for `AnswersAreOneForOne`, `RefusedIsNotStored` and
`ReadsNeverGoBack`. `ServerInv` has three parts. In `LineInv`, pending answers,
answers that are due and frames under way have rising transaction numbers, each
answer is to something due whose predecessors have their answers before it, and
while the thread serves, what is due has its answer or its frame still in the
line. `EngineOK` keeps stored values apart from refused ones. `TellsRise` orders
what the peer was told of a name, what the answers on their way will tell it, and
what is stored. `OneForOne` turns the line into the count the property
speaks of, by a bijection between answers and dues.

On the handlers, `MessageIsHandled` says for every request that values only
become newer, that refused ones are not kept, and that what the reply tells lies
between the values before and after; it has one lemma for each kind of handler, those that read,
those that acknowledge, S2F15 and S7F3.

### ToolsProofs

| Theorem | Property |
|---|---|
| `NumbersAlwaysIdentify` | `NumbersIdentifyVersions` |
| `OnlyExpectedAlwaysCount` | `OnlyExpectedParametersCount` |
| `DriftAlwaysWorsens` | `DriftOnlyWorsens` |
| `PlansAlwaysFit` | `PlansAreWithinBudgets` |
| `TemplateLifeIsAlwaysKept` | `TemplateLifeIsKept` |
| `BiasAlwaysBounded` | `BiasStaysBounded` |
| `WorstAlwaysDecides` | `WorstDecides` |

The first three are about `RecipeSpec`, the others about `ToolsSpec`; the run
composes the two, which share no variable. `RecipeInv`: versions are numbered
without a gap whatever numbers callers gave, and the last check is what
`DetectDrift` gives for the version of its number. `ToolsInv`: the last plan and
the last film are the answers of the installed configuration, and the plans in
flight account for the overrun of a template's life. From these on the proofs are
about the formulas (`NanIsZero` and the `Valid` lemmas say what is left of a number that
new() did not look at): each backend's plan by itself (`DuvPlanFits`, `EuvPlanFits`,
`NilPlanFits`, `EbeamPlanFits`), squares and products that are monotone, the worst
of the five sites, the sign of a margin.

`Total` is defined by `CHOOSE` of a function with the right differences;
`TotalsExist` and `TotalIsLast` show that there is one and that all agree, by the
least number for which they would not.

### What is only model-checked

* Liveness: `JobSettles`, `CallsReturn`, `ConnectionEnds`, `AllIsReceived` and
  `ListedAreRecorded`. Fairness and ENABLED are outside the prover.
* `BodiesAreReadWhole` of `SecsCodec`: encoder and decoder of items
  recurse over nested lists, and what a recursive definition computes for every
  input needs induction with an operator as parameter, which the prover does not
  instantiate.
* `NoBookkeepingLost` is no theorem but a finding.

## 6. Not modelled

* The JSON parser and SHA-256: text and bits without state; a model would repeat
  them. Their outcomes are in `IntakeQueue` and `OutcomeExchange`.
* The entitlement ledger (no code but its tests calls it), the serializer of a
  dataset release, and the values of privacy noise (whether noise is added is
  `dp` of a publication).
* Rounding of `f64`: every quantity is an integer in a unit that makes the code's
  thresholds exact.
* Parsing of shuttle results, the text of an OPC report, command-line and key
  files, wording of messages, wall-clock times other than the timeouts named above.
* What a file system keeps after a power failure: `crash_v` and `intake` are about
  the end of the process.

`PROJECT.json` lists each with its reason.
