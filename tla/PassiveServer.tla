--------------------------- MODULE PassiveServer ---------------------------
(***************************************************************************)
(* The equipment's side of one HSMS connection (serve_connection): a peer  *)
(* that sends whatever it likes, several frames ahead of the answers, and  *)
(* may leave at any moment; the handlers run on the engine under the lock, *)
(* the reply is written after it is released; threads of other connections *)
(* use the same engine.  Vendor adapters see messages on the way in and    *)
(* replies on the way out.  Frames arrive whole: SecsCodec has their bytes.*)
(***************************************************************************)
EXTENDS GemHandlers, FiniteSetsExt

CONSTANTS
  Requests,        \* data messages the peer may send
  OtherRequests,   \* data messages other hosts may send
  Adapters,        \* the installed adapters, in order: the functions each drops
  T7, IdleLimit,   \* timers of the serving thread, in ticks
  Room,            \* frames that wait for the peer before a write blocks
  MaxFrames,       \* bound on the frames the peer sends
  MaxAhead,        \* bound on its unread frames and unread answers
  MaxOthers        \* bound on the other hosts' messages

ASSUME ServerAssumption ==
  /\ {T7, IdleLimit, Room} \subseteq Nat \ {0}
  /\ {MaxFrames, MaxAhead, MaxOthers} \subseteq Nat
  /\ Requests \cup OtherRequests \subseteq
       [type : STRING, shape : STRING, names : Seq(STRING), asks : BOOLEAN]
  /\ Malformed \notin Ecids

(* Status variables, equipment constants and programs have a map of their   *)
(* own each in the code, so their names are told apart here.                *)
NamesIn(types) ==
  (UNION {Range(r.names) : r \in {r \in Requests \cup OtherRequests : r.type \in types}})
    \ {Malformed}
StatusNames   == NamesIn({"S1F3"})
ConstantNames == NamesIn({"S2F13", "S2F15"})
ProgramNames  == NamesIn({"S7F3", "S7F5"})

ASSUME NamesAreApart ==
  /\ StatusNames \cap ConstantNames = {} /\ StatusNames \cap ProgramNames = {}
  /\ ConstantNames \cap ProgramNames = {}

VARIABLES
  (* the serving thread *)
  spc,       \* reading a frame, about to write `out`, running a job, or returned
  hsms,      \* its HsmsState
  idle,      \* ticks it has waited for the next frame
  out,       \* the answer it has still to write
  job,       \* whether a job is to be run after that
  (* shared *)
  gem, others,
  (* the connection *)
  toServer, toPeer, left,
  (* the peer, and what it knows *)
  sent,      \* frames it sent
  selects,   \* whether it asked for selection
  due,       \* answers that are to come, in order
  told,      \* the newest thing it was told about each name
  age        \* ticks from the connection until it was selected

serverVars == <<spc, hsms, idle, out, job>>
engineVars == <<gem, others>>
wireVars   == <<toServer, toPeer, left>>
peerVars   == <<sent, selects, due, told>>
passiveVars == <<serverVars, engineVars, wireVars, peerVars, age>>

Control == {"select", "separate", "linktest", "unused"}
Names   == Ecids \cup {n \in UNION {Range(r.names) : r \in Requests} : n # Malformed}

NoRequest == Request("none", "other", <<>>)   \* of a control message
Frame(sys, type, req) == [sys |-> sys, type |-> type, req |-> req]
Answer(sys, type, tells, marks) ==
  [sys |-> sys, type |-> type, tells |-> tells, marks |-> marks]
Plain(sys, type) == Answer(sys, type, <<>>, 0)
NoAnswer == Plain(0, "none")

PassiveInit ==
  /\ spc = "reading" /\ hsms = "ConnectedNotSelected"
  /\ idle = 0 /\ out = NoAnswer /\ job = FALSE
  /\ gem = Engine0 /\ others = 0
  /\ toServer = <<>> /\ toPeer = <<>> /\ left = FALSE
  /\ sent = 0 /\ selects = FALSE /\ due = <<>>
  /\ told = [n \in Names |-> 0] /\ age = 0

-----------------------------------------------------------------------------
(* The peer *)

Dropped(req) == \E i \in DOMAIN Adapters : req.type \in Adapters[i]

(* The secondary message of each function the engine knows. *)
Secondary ==
  [S1F1 |-> "S1F2", S1F3 |-> "S1F4", S1F13 |-> "S1F14", S1F15 |-> "S1F16", S1F17 |-> "S1F18",
   S2F13 |-> "S2F14", S2F15 |-> "S2F16", S2F31 |-> "S2F32", S2F41 |-> "S2F42",
   S7F1 |-> "S7F2", S7F3 |-> "S7F4", S7F5 |-> "S7F6", S10F3 |-> "S10F4"]

(* The kind of answer that E37 and E30 have for a frame, by whether the     *)
(* peer asked for selection before, or none.  A message of a function that  *)
(* is known has one whether or not its W-bit asks for it: E5 would have     *)
(* none for a message that does not.                                        *)
Expected(selected, type, req) ==
  CASE type = "select"   -> IF selected THEN "not ready" ELSE "accepted"
    [] type = "linktest" -> "linktest"
    [] type = "data"     -> IF ~selected THEN "reject"
                            ELSE IF Dropped(req) THEN "none"
                            ELSE IF req.type \in DOMAIN Secondary THEN Secondary[req.type]
                            ELSE "none"
    [] OTHER             -> "none"

PeerSends ==
  /\ ~left /\ sent < MaxFrames
  /\ Len(toServer) < MaxAhead /\ Len(due) < MaxAhead
  /\ \E type \in Control \cup {"data"} :
       \E req \in IF type = "data" THEN Requests ELSE {NoRequest} :
         /\ toServer' = Append(toServer, Frame(sent + 1, type, req))
         /\ LET answer == Expected(selects, type, req)
            IN  due' = IF answer = "none" THEN due
                       ELSE Append(due, [sys |-> sent + 1, type |-> answer, req |-> req])
         /\ selects' = (selects \/ type = "select")
  /\ sent' = sent + 1
  /\ UNCHANGED <<serverVars, engineVars, toPeer, left, told, age>>

(* What an answer tells about the names in its request: the value read, or  *)
(* that the value sent with it was accepted.                                *)
About(answer, req, n) ==
  {i \in DOMAIN req.names \cap DOMAIN answer.tells :
     req.names[i] = n /\ answer.tells[i] # Silent}
Told(answer, req) ==
  [n \in Names |->
     LET at == About(answer, req, n)
     IN  IF at = {} THEN told[n] ELSE answer.tells[Max(at)]]

PeerReads ==
  /\ toPeer # <<>> /\ ~left
  /\ LET a == Head(toPeer)
     IN  IF a.type = "S6F11" THEN UNCHANGED <<due, told>>
         ELSE /\ due' = Tail(due)
              /\ told' = Told(a, Head(due).req)
  /\ toPeer' = Tail(toPeer)
  /\ UNCHANGED <<serverVars, engineVars, toServer, left, sent, selects, age>>

(* The connection breaks or the peer closes it; its last frames may be lost. *)
PeerLeaves ==
  /\ ~left /\ left' = TRUE
  /\ \E n \in 0 .. Len(toServer) : toServer' = SubSeq(toServer, 1, n)
  /\ toPeer' = <<>>
  /\ UNCHANGED <<serverVars, engineVars, peerVars, age>>

-----------------------------------------------------------------------------
(* The serving thread *)

Returned ==
  /\ spc' = "returned" /\ hsms' = "NotConnected"
  /\ idle' = 0 /\ out' = NoAnswer /\ job' = FALSE
  /\ toServer' = <<>>

(* The next frame, of one of these types; the answer to be written. *)
Serve(types, answer) ==
  /\ spc = "reading" /\ toServer # <<>> /\ Head(toServer).type \in types
  /\ toServer' = Tail(toServer) /\ idle' = 0
  /\ out' = answer
  /\ spc' = IF out' = NoAnswer THEN "reading" ELSE "answering"
  /\ UNCHANGED <<toPeer, left, peerVars, age>>

(* Mutant: a connection can be selected again. *)
ServeSelectAgain ==
  /\ Serve({"select"}, Plain(Head(toServer).sys, "accepted"))
  /\ hsms' = "Selected"
  /\ UNCHANGED <<job, engineVars>>

ServeSelect ==
  /\ Serve({"select"}, Plain(Head(toServer).sys,
                             IF hsms = "Selected" THEN "not ready" ELSE "accepted"))
  /\ hsms' = "Selected"
  /\ UNCHANGED <<job, engineVars>>

ServeLinktest ==
  /\ Serve({"linktest"}, Plain(Head(toServer).sys, "linktest"))
  /\ UNCHANGED <<hsms, job, engineVars>>

(* Select responses, linktest responses, rejects. *)
ServeUnused ==
  /\ Serve({"unused"}, NoAnswer)
  /\ UNCHANGED <<hsms, job, engineVars>>

ServeSeparate ==
  /\ spc = "reading" /\ toServer # <<>> /\ Head(toServer).type = "separate"
  /\ Returned
  /\ UNCHANGED <<engineVars, toPeer, left, peerVars, age>>

ServeUnselected ==
  /\ hsms = "ConnectedNotSelected"
  /\ Serve({"data"}, Plain(Head(toServer).sys, "reject"))
  /\ UNCHANGED <<hsms, job, engineVars>>

Undecodable(req) == req.type = "undecodable"

(* The body cannot be decoded: handle_data fails, and the thread returns. *)
ServeUndecodable ==
  /\ spc = "reading" /\ hsms = "Selected" /\ toServer # <<>>
  /\ Head(toServer).type = "data" /\ Undecodable(Head(toServer).req)
  /\ Returned
  /\ UNCHANGED <<engineVars, toPeer, left, peerVars, age>>

(* handle_data up to the release of the lock: the handler, its actions and  *)
(* the adapters' rewriting of the reply.                                    *)
ServeData ==
  /\ hsms = "Selected" /\ toServer # <<>> /\ ~Undecodable(Head(toServer).req)
  /\ LET req == Head(toServer).req
         r   == IF Dropped(req) THEN Result(gem, NoReply) ELSE HandleMessage(gem, req)
     IN  /\ Serve({"data"},
              IF r.reply = NoReply THEN NoAnswer
              ELSE Answer(Head(toServer).sys, r.reply.type, r.reply.tells, Len(Adapters)))
         /\ gem' = r.engine
         /\ job' \in {FALSE, req.type = "S2F41" /\ ~Dropped(req)}   \* START, or another command
  /\ UNCHANGED <<hsms, others>>

(* write_all has no timeout: it returns when the frame fits into the        *)
(* buffers between the two, or the peer is gone.                            *)
Writable == left \/ Len(toPeer) < Room

(* send_frame; after it the job, if there is one. *)
WriteAnswer ==
  /\ spc = "answering" /\ Writable
  /\ toPeer' = IF left THEN <<>> ELSE Append(toPeer, out)
  /\ out' = NoAnswer
  /\ spc' = IF job THEN "running" ELSE "reading"
  /\ UNCHANGED <<hsms, idle, job, engineVars, toServer, left, peerVars, age>>

(* run_process_job, of which only one event report is seen here. *)
RunJob ==
  /\ spc = "running" /\ Writable
  /\ toPeer' = IF left THEN <<>> ELSE Append(toPeer, Plain(0, "S6F11"))
  /\ job' = FALSE /\ spc' = "reading"
  /\ UNCHANGED <<hsms, idle, out, engineVars, toServer, left, peerVars, age>>

(* There is no such job, it is not queued, or another connection ended it:  *)
(* run_process_job fails, and with it handle_data and the thread.           *)
RunJobFails ==
  /\ spc = "running"
  /\ Returned
  /\ UNCHANGED <<engineVars, toPeer, left, peerVars, age>>

(* A write to a peer that left may fail. *)
WriteFails ==
  /\ spc \in {"answering", "running"} /\ left
  /\ Returned
  /\ UNCHANGED <<engineVars, toPeer, left, peerVars, age>>

(* recv finds the end of the stream. *)
EndOfStream ==
  /\ spc = "reading" /\ left /\ toServer = <<>>
  /\ Returned
  /\ UNCHANGED <<engineVars, toPeer, left, peerVars, age>>

Limit == IF hsms = "ConnectedNotSelected" THEN T7 ELSE IdleLimit

(* Mutant: the wait is one tick too long. *)
TickLong ==
  /\ spc = "reading" /\ toServer = <<>> /\ idle <= Limit
  /\ idle' = idle + 1
  /\ age' = IF hsms = "ConnectedNotSelected" /\ age <= T7 THEN age + 1 ELSE age
  /\ UNCHANGED <<spc, hsms, out, job, engineVars, wireVars, peerVars>>

(* A tick in recv; every frame that comes starts the wait afresh. *)
Tick ==
  /\ spc = "reading" /\ toServer = <<>> /\ idle < Limit
  /\ idle' = idle + 1
  /\ age' = IF hsms = "ConnectedNotSelected" /\ age <= T7 THEN age + 1 ELSE age
  /\ UNCHANGED <<spc, hsms, out, job, engineVars, wireVars, peerVars>>

(* Mutant: only T7 ends the wait. *)
TimedOutUnselected ==
  /\ spc = "reading" /\ toServer = <<>> /\ idle = Limit
  /\ hsms = "ConnectedNotSelected"
  /\ Returned
  /\ UNCHANGED <<engineVars, toPeer, left, peerVars, age>>

TimedOut ==
  /\ spc = "reading" /\ toServer = <<>> /\ idle = Limit
  /\ Returned
  /\ UNCHANGED <<engineVars, toPeer, left, peerVars, age>>

ServerStep ==
  \/ ServeSelect \/ ServeLinktest \/ ServeUnused \/ ServeSeparate
  \/ ServeUnselected \/ ServeUndecodable \/ ServeData
  \/ WriteAnswer \/ RunJob \/ RunJobFails \/ WriteFails \/ EndOfStream \/ Tick \/ TimedOut

(* Another connection's thread handles a message under the same lock. *)
OtherHost ==
  /\ others < MaxOthers
  /\ \E req \in OtherRequests : gem' = HandleMessage(gem, req).engine
  /\ others' = others + 1
  /\ UNCHANGED <<serverVars, wireVars, peerVars, age>>

PassiveNext == PeerSends \/ PeerReads \/ PeerLeaves \/ ServerStep \/ OtherHost

(* The thread runs, its timers run, and its reads return; a write returns   *)
(* once it can.  A peer need not do anything.                               *)
PassiveSpec == PassiveInit /\ [][PassiveNext]_passiveVars /\ WF_passiveVars(ServerStep)

-----------------------------------------------------------------------------
(* Properties *)

(* What the peer has still to read, and which of the first i of that are    *)
(* answers.                                                                 *)
Pending == toPeer \o (IF spc = "answering" THEN <<out>> ELSE <<>>)
Answers(i) == {j \in 1 .. i : Pending[j].type # "S6F11"}

PassiveTypeOK ==
  /\ spc \in {"reading", "answering", "running", "returned"}
  /\ hsms \in {"NotConnected", "ConnectedNotSelected", "Selected"}
  /\ idle \in 0 .. Limit /\ age \in 0 .. T7 + 1
  /\ Names \subseteq DOMAIN told /\ Len(toServer) <= MaxAhead
  /\ Ecids \subseteq DOMAIN gem.ecids /\ Range(gem.ecids) \subseteq 0 .. gem.clock

(* A peer that sends ahead is answered one for one: in order, each answer   *)
(* with its own transaction number and of the kind E37 and E30 give its     *)
(* frame (a message that asks for none included), at most one selection,    *)
(* and no data handled before it (sim.rs: serve_connection, handle_data).   *)
AnswersAreDue ==
  ~left =>
    \A i \in Answers(Len(Pending)) :
      LET k == Cardinality(Answers(i))   \* it is the k-th answer
      IN  k <= Len(due) /\ Pending[i].sys = due[k].sys /\ Pending[i].type = due[k].type

(* When the thread waits for a frame, no answer is outstanding: nothing the *)
(* peer sent was passed over.  (A thread that has returned, for a START it  *)
(* cannot run or a body it cannot read, leaves what came after unanswered.) *)
NothingIsPassedOver ==
  spc = "reading" /\ toServer = <<>> /\ ~left => Cardinality(Answers(Len(Pending))) = Len(due)

(* One answer for each frame of a function that has one, in order, and no   *)
(* other.                                                                   *)
AnswersAreOneForOne == PassiveTypeOK /\ AnswersAreDue /\ NothingIsPassedOver

(* What a peer reads is never older than what it was told before: than what *)
(* it read, or what was accepted from it, in whatever order the requests of *)
(* a message or of several hosts came (gem.rs: the readers and writers of   *)
(* ecids and process_programs).                                             *)
ReadsNeverGoBack == [][\A n \in Names : told'[n] >= told[n]]_passiveVars

(* A value that was refused is nowhere: not a part of a message of which    *)
(* other parts were accepted, nor a program in a form that is not stored.   *)
RefusedIsNotStored ==
  (Range(gem.ecids) \cup Range(gem.programs)) \cap gem.refused = {}

(* A connection ends: once the peer is silent, wherever that is, the thread *)
(* does not stay (T7 before selection, the idle limit after it), provided   *)
(* that the peer reads what it is sent, or goes.  (A peer that stays and    *)
(* does not read holds the thread in a write.)                              *)
PeerKeepsReading == []<>(toPeer = <<>>)
ConnectionEnds == PeerKeepsReading => <>(spc = "returned")

(* T7 is the time a peer has to select, hsms.rs:49. *)
SelectedWithinT7 == hsms = "ConnectedNotSelected" => age <= T7

(* Adapters see every outgoing data message, adapter.rs:35. *)
AdaptersSeeEverything ==
  \A i \in DOMAIN toPeer :
    toPeer[i].type \notin {"accepted", "not ready", "linktest", "reject"} =>
      toPeer[i].marks = Len(Adapters)

-----------------------------------------------------------------------------
(* The inductive invariant of the theorems. *)

IsAnswer(a) == a.type # "S6F11"
AnswersTo(a, d) == IsAnswer(a) /\ a.sys = d.sys /\ a.type = d.type

(* Transaction numbers rise along the frames and along what is due; answers *)
(* carry those of earlier frames than the ones that wait.                   *)
Rising(s) == \A i, j \in DOMAIN s : i < j => s[i].sys < s[j].sys
AnswersRise(pending, frames) ==
  \A i \in DOMAIN pending :
    IsAnswer(pending[i]) =>
      /\ \A j \in DOMAIN pending : i < j /\ IsAnswer(pending[j]) => pending[i].sys < pending[j].sys
      /\ \A j \in DOMAIN frames : pending[i].sys < frames[j].sys

(* An answer is to something due, and what is due before it has its answer  *)
(* before it.                                                               *)
InOrder(pending, dues) ==
  \A i \in DOMAIN pending :
    IsAnswer(pending[i]) =>
      \E k \in DOMAIN dues :
        /\ AnswersTo(pending[i], dues[k])
        /\ \A h \in 1 .. k - 1 : \E j \in 1 .. i - 1 : AnswersTo(pending[j], dues[h])

(* The state and the frames before it decide how a frame is answered; while *)
(* the thread serves, what a frame is to be answered with is due, and what  *)
(* is due was answered or waits among the frames.                           *)
SelectedBefore(state, frames, j) ==
  state = "Selected" \/ \E h \in 1 .. j - 1 : frames[h].type = "select"
Expects(state, frames, j) ==
  Expected(SelectedBefore(state, frames, j), frames[j].type, frames[j].req)
FramesAreDue(state, frames, dues) ==
  \A j \in DOMAIN frames :
    Expects(state, frames, j) # "none" =>
      \E k \in DOMAIN dues : /\ dues[k].sys = frames[j].sys /\ dues[k].req = frames[j].req
                             /\ dues[k].type = Expects(state, frames, j)
DuesAreServed(state, frames, dues, pending) ==
  \A k \in DOMAIN dues :
    \/ \E i \in DOMAIN pending : AnswersTo(pending[i], dues[k])
    \/ \E j \in DOMAIN frames : frames[j].sys = dues[k].sys /\ Expects(state, frames, j) # "none"

LineInv ==
  /\ Rising(toServer) /\ Rising(due)
  /\ ~left => AnswersRise(Pending, toServer) /\ InOrder(Pending, due)
  /\ ~left /\ spc # "returned" =>
       /\ selects <=> SelectedBefore(hsms, toServer, Len(toServer) + 1)
       /\ FramesAreDue(hsms, toServer, due)
       /\ DuesAreServed(hsms, toServer, due, Pending)

(* Values are of writes that were not refused. *)
EngineOK(engine) ==
  /\ engine = [ecids |-> engine.ecids, programs |-> engine.programs, date |-> engine.date,
               terminal |-> engine.terminal, clock |-> engine.clock, refused |-> engine.refused]
  /\ engine.clock \in Nat /\ engine.refused \subseteq 1 .. engine.clock
  /\ Ecids \subseteq DOMAIN engine.ecids
  /\ Range(engine.ecids) \cup Range(engine.programs) \subseteq (0 .. engine.clock) \ engine.refused

(* What a request for a name would read now. *)
ValueOf(map, n) == IF n \in DOMAIN map THEN map[n] ELSE Missing
Value(engine, n) ==
  IF n \in ConstantNames THEN ValueOf(engine.ecids, n)
  ELSE IF n \in ProgramNames THEN ValueOf(engine.programs, n)
  ELSE ValueOf([s \in Svids |-> 1], n)

(* What the peer was told, what it has still to read, and what is stored,   *)
(* from old to new.                                                         *)
Tells(a, d, n) == AnswersTo(a, d) /\ About(a, d.req, n) # {}
Tell(a, d, n)  == a.tells[Max(About(a, d.req, n))]
TellsRise(pending, dues, old, engine) ==
  \A n \in Names :
    /\ old[n] <= Value(engine, n)
    /\ \A i \in DOMAIN pending, k \in DOMAIN dues :
         Tells(pending[i], dues[k], n) =>
           /\ Tell(pending[i], dues[k], n) \in Nat
           /\ old[n] <= Tell(pending[i], dues[k], n)
           /\ Tell(pending[i], dues[k], n) <= Value(engine, n)
           /\ \A j \in DOMAIN pending, h \in DOMAIN dues :
                j < i /\ Tells(pending[j], dues[h], n) =>
                  Tell(pending[j], dues[h], n) <= Tell(pending[i], dues[k], n)

Frames == [sys : 1 .. sent, type : {"data"}, req : Requests]
            \cup [sys : 1 .. sent, type : Control, req : {NoRequest}]
Kinds  == {"accepted", "not ready", "linktest", "reject"} \cup Range(Secondary)
Dues   == [sys : 1 .. sent, type : Kinds, req : Requests \cup {NoRequest}]

ServerInv ==
  /\ PassiveTypeOK
  /\ toServer \in Seq(Frames) /\ due \in Seq(Dues) /\ toPeer \in Seq(Range(toPeer))
  /\ sent \in Nat /\ told \in [Names -> Int]
  /\ spc = "returned" <=> hsms = "NotConnected"
  /\ spc # "answering" => out = NoAnswer
  /\ LineInv
  /\ EngineOK(gem)
  /\ ~left => TellsRise(Pending, due, told, gem)

=============================================================================
