---------------------------- MODULE HostSession ----------------------------
(***************************************************************************)
(* One HostClient and the serving thread at the other end of its HSMS      *)
(* connection: select, requests that wait for a reply under T3, events     *)
(* queued in the inbox or read from the socket, timeouts and reconnection. *)
(*                                                                         *)
(* A frame reaches the host in pieces, because recv changes its timeout    *)
(* after the length prefix.  Time is counted only while the host receives. *)
(* What the equipment does for a request is left to FabSim: here it        *)
(* answers, and a START also makes JobEvents events.                       *)
(***************************************************************************)
EXTENDS Integers, Sequences, SequencesExt

CONSTANTS
  T3, T6, T8,      \* HsmsTimers, in ticks
  EventWait,       \* the timeout the user passes to next_event
  JobEvents,       \* events made by one START
  FirstSys,        \* the host's first transaction number (100 in the code)
  MaxRequests,     \* bound on messages the user sends
  MaxSessions      \* bound on connections

ASSUME HostSessionAssumption ==
  /\ {T3, T6, T8, EventWait} \subseteq Nat \ {0}
  /\ {JobEvents, FirstSys, MaxRequests, MaxSessions} \subseteq Nat

VARIABLES
  (* HostClient *)
  hpc,       \* the call its user is in
  hsys,      \* next_system
  inbox,
  got,       \* how much of the next frame recv has read
  timer,     \* ticks since the last byte, or since recv began
  desync,    \* which timeout left a frame half read: "no", "idle" or "t8"
  (* serving thread *)
  epc,       \* its HSMS state
  eout,      \* messages it has still to write
  esys,      \* next_data_id
  (* the connection *)
  toEquip, toHost,
  (* what the user and the runs observe *)
  sent,      \* messages sent by the user so far
  awaited,   \* the one the last request waits for
  answer,    \* what the last request returned
  waited,    \* ticks since it was sent
  taken,     \* what next_event took off this connection or its inbox
  lost,      \* the events in it that were not returned to the user
  acked,     \* the events acknowledged on it
  made,      \* the events the equipment made on it
  sessions

hostVars  == <<hpc, hsys, inbox, got, timer, desync>>
equipVars == <<epc, eout, esys, made>>
userVars  == <<sent, awaited, answer, waited, taken, lost, acked, sessions>>
sessionVars == <<hostVars, equipVars, toEquip, toHost, userVars>>

(* `about` is the number of the user's message or of the equipment's event. *)
Message(type, sys, about) == [type |-> type, sys |-> sys, about |-> about]
Messages ==
  [type : {"select.req", "select.rsp", "plain", "start", "reply", "event", "ack", "linktest", "separate"},
   sys : Nat, about : Nat]
NoMessage == Message("reply", 0, 0)

Receiving == hpc \in {"selecting", "request", "event"}

HostTypeOK ==
  /\ hpc \in {"closed", "selecting", "ready", "request", "event"}
  /\ hsys \in Nat /\ esys \in Nat
  /\ inbox \in Seq(Messages) /\ eout \in Seq(Messages) /\ taken \in Seq(Messages)
  /\ toEquip \in Seq(Messages) /\ toHost \in Seq(Messages)
  /\ got \in {"nothing", "prefix", "body"}
  /\ timer \in Nat /\ waited \in 0 .. T3 + 1
  /\ desync \in {"no", "idle", "t8"}
  /\ epc \in {"connected", "selected", "closed"}
  /\ sent \in 0 .. MaxRequests /\ awaited \in 0 .. sent
  /\ answer \in Messages
  /\ made \in Nat /\ acked \subseteq 1 .. made /\ lost \subseteq 1 .. made
  /\ sessions \in 0 .. MaxSessions

HostInit ==
  /\ hpc = "closed" /\ epc = "closed"
  /\ hsys = FirstSys /\ esys = 1
  /\ inbox = <<>> /\ eout = <<>> /\ taken = <<>>
  /\ toEquip = <<>> /\ toHost = <<>>
  /\ got = "nothing" /\ desync = "no"
  /\ timer = 0 /\ waited = 0
  /\ sent = 0 /\ awaited = 0 /\ answer = NoMessage
  /\ made = 0 /\ acked = {} /\ lost = {}
  /\ sessions = 0

-----------------------------------------------------------------------------
(* The user's calls *)

(* Mutant: connect does not wait for the select response. *)
ConnectUnselected ==
  /\ hpc = "closed" /\ sessions < MaxSessions
  /\ hpc' = "ready" /\ epc' = "connected"
  /\ hsys' = FirstSys
  /\ toEquip' = <<Message("select.req", 1, 0)>> /\ toHost' = <<>>
  /\ inbox' = <<>> /\ eout' = <<>> /\ taken' = <<>>
  /\ got' = "nothing" /\ desync' = "no" /\ timer' = 0
  /\ made' = 0 /\ acked' = {} /\ lost' = {}
  /\ sessions' = sessions + 1
  /\ UNCHANGED <<esys, sent, awaited, answer, waited>>

(* HostClient::connect sends the select request and waits under T6. *)
ConnectHost ==
  /\ hpc = "closed" /\ sessions < MaxSessions
  /\ hpc' = "selecting" /\ epc' = "connected"
  /\ hsys' = FirstSys
  /\ toEquip' = <<Message("select.req", 1, 0)>> /\ toHost' = <<>>
  /\ inbox' = <<>> /\ eout' = <<>> /\ taken' = <<>>
  /\ got' = "nothing" /\ desync' = "no" /\ timer' = 0
  /\ made' = 0 /\ acked' = {} /\ lost' = {}
  /\ sessions' = sessions + 1
  /\ UNCHANGED <<esys, sent, awaited, answer, waited>>

(* The user drops the client: its socket closes, the inbox is gone. *)
Forget ==
  /\ hpc' = "closed" /\ epc' = "closed"
  /\ toEquip' = <<>> /\ toHost' = <<>>
  /\ inbox' = <<>> /\ eout' = <<>>
  /\ got' = "nothing" /\ timer' = 0

Drop ==
  /\ hpc = "ready"
  /\ Forget
  /\ UNCHANGED <<hsys, desync, esys, made, userVars>>

(* alloc_system and one data frame. *)
SendRequest(type) ==
  /\ sent < MaxRequests
  /\ hsys' = hsys + 1
  /\ sent' = sent + 1
  /\ toEquip' = Append(toEquip, Message(type, hsys + 1, sent + 1))

(* HostClient::request. *)
RequestReply(type) ==
  /\ hpc = "ready"
  /\ SendRequest(type)
  /\ hpc' = "request"
  /\ awaited' = sent + 1 /\ answer' = NoMessage /\ waited' = 0
  /\ timer' = 0
  /\ UNCHANGED <<inbox, got, desync, equipVars, toHost, taken, lost, acked, sessions>>

(* HostClient::send and separate: nothing is awaited.  The equipment answers *)
(* a sent message all the same: handle_message does not look at the W-bit.   *)
SendOnly(type) ==
  /\ hpc = "ready"
  /\ SendRequest(type)
  /\ UNCHANGED <<hpc, inbox, got, timer, desync, equipVars, toHost,
                 awaited, answer, waited, taken, lost, acked, sessions>>

(* request and send return the error of their write: the peer has closed. *)
SendFails ==
  /\ hpc = "ready" /\ epc = "closed" /\ sent < MaxRequests
  /\ hsys' = hsys + 1
  /\ sent' = sent + 1 /\ awaited' = sent + 1 /\ answer' = NoMessage
  /\ UNCHANGED <<hpc, inbox, got, timer, desync, equipVars, toEquip, toHost,
                 waited, taken, lost, acked, sessions>>

(* HostClient::next_event: the inbox first, as it is, without acknowledging. *)
NextFromInbox ==
  /\ hpc = "ready" /\ inbox # <<>>
  /\ taken' = Append(taken, Head(inbox))
  /\ inbox' = Tail(inbox)
  /\ UNCHANGED <<hpc, hsys, got, timer, desync, equipVars, toEquip, toHost,
                 sent, awaited, answer, waited, lost, acked, sessions>>

(* Mutant: the socket is read before the inbox is empty. *)
NextFromSocketFirst ==
  /\ hpc = "ready"
  /\ hpc' = "event" /\ timer' = 0
  /\ UNCHANGED <<hsys, inbox, got, desync, equipVars, toEquip, toHost, userVars>>

NextFromSocket ==
  /\ hpc = "ready" /\ inbox = <<>>
  /\ hpc' = "event" /\ timer' = 0
  /\ UNCHANGED <<hsys, inbox, got, desync, equipVars, toEquip, toHost, userVars>>

-----------------------------------------------------------------------------
(* recv *)

IdleTimeout ==
  CASE hpc = "selecting" -> T6
    [] hpc = "request"   -> T3
    [] OTHER             -> EventWait

(* The read timeout in force: idle_timeout for the four bytes of the length *)
(* prefix, T8 after them.                                                   *)
Limit == IF got = "body" THEN T8 ELSE IdleTimeout

Tick ==
  /\ Receiving /\ timer < Limit
  /\ timer' = timer + 1
  /\ waited' = IF hpc = "request" /\ waited <= T3 THEN waited + 1 ELSE waited
  /\ UNCHANGED <<hpc, hsys, inbox, got, desync, equipVars, toEquip, toHost,
                 sent, awaited, answer, taken, lost, acked, sessions>>

(* Some bytes of the prefix, then the rest of it. *)
ReadPrefix ==
  /\ Receiving /\ desync = "no" /\ toHost # <<>>
  /\ \/ got = "nothing" /\ got' \in {"prefix", "body"}
     \/ got = "prefix" /\ got' = "body"
  /\ timer' = 0
  /\ UNCHANGED <<hpc, hsys, inbox, desync, equipVars, toEquip, toHost, userVars>>

(* The last byte of frame m has been read. *)
ReadFrame(m) ==
  /\ Receiving /\ got = "body" /\ toHost # <<>>
  /\ m = Head(toHost)
  /\ toHost' = Tail(toHost)
  /\ got' = "nothing" /\ timer' = 0

(* connect: the select response came (the thread has accepted). *)
SelectDone ==
  /\ hpc = "selecting"
  /\ \E m \in Range(toHost) : ReadFrame(m) /\ m.type = "select.rsp"
  /\ hpc' = "ready"
  /\ UNCHANGED <<hsys, inbox, desync, equipVars, toEquip, userVars>>

(* Mutant: the function is not compared. *)
IsReplyBySys(m, sys) == m.sys = sys

(* request: the reply has our system bytes and the next function. *)
IsReplyTo(m, sys) == m.type = "reply" /\ m.sys = sys

RequestDone ==
  /\ hpc = "request"
  /\ \E m \in Range(toHost) : ReadFrame(m) /\ IsReplyTo(m, hsys) /\ answer' = m
  /\ hpc' = "ready"
  /\ UNCHANGED <<hsys, inbox, desync, equipVars, toEquip,
                 sent, awaited, waited, taken, lost, acked, sessions>>

(* request: every other data message is queued, and recv starts afresh. *)
RequestQueues ==
  /\ hpc = "request"
  /\ \E m \in Range(toHost) :
       /\ ReadFrame(m) /\ m.type # "linktest" /\ ~IsReplyTo(m, hsys)
       /\ inbox' = Append(inbox, m)
  /\ UNCHANGED <<hpc, hsys, desync, equipVars, toEquip, userVars>>

(* request: control frames are dropped, and recv starts afresh. *)
RequestIgnores ==
  /\ hpc = "request"
  /\ \E m \in Range(toHost) : ReadFrame(m) /\ m.type = "linktest"
  /\ UNCHANGED <<hpc, hsys, inbox, desync, equipVars, toEquip, userVars>>

(* Mutant: the acknowledgement is not for the event that came. *)
EventAcksNext ==
  /\ hpc = "event"
  /\ \E m \in Range(toHost) :
       /\ ReadFrame(m) /\ m.type = "event"
       /\ taken' = Append(taken, m)
       /\ acked' = acked \cup {m.about + 1}
       /\ toEquip' = Append(toEquip, Message("ack", m.sys + 1, m.about + 1))
  /\ hpc' = "ready"
  /\ UNCHANGED <<hsys, inbox, desync, equipVars, sent, awaited, answer, waited, lost, sessions>>

(* next_event: an event is acknowledged and returned. *)
EventDone ==
  /\ hpc = "event"
  /\ \E m \in Range(toHost) :
       /\ ReadFrame(m) /\ m.type = "event"
       /\ taken' = Append(taken, m)
       /\ acked' = acked \cup {m.about}
       /\ toEquip' = Append(toEquip, Message("ack", m.sys, m.about))
  /\ hpc' = "ready"
  /\ UNCHANGED <<hsys, inbox, desync, equipVars, sent, awaited, answer, waited, lost, sessions>>

(* next_event: the peer has closed and the acknowledgement cannot be written; *)
(* its error is returned instead of the event, which has been read.          *)
EventAckFails ==
  /\ hpc = "event" /\ epc = "closed"
  /\ \E m \in Range(toHost) :
       /\ ReadFrame(m) /\ m.type = "event"
       /\ taken' = Append(taken, m)
       /\ lost' = lost \cup {m.about}
  /\ hpc' = "ready"
  /\ UNCHANGED <<hsys, inbox, desync, equipVars, toEquip,
                 sent, awaited, answer, waited, acked, sessions>>

(* next_event: anything else is dropped. *)
EventIgnores ==
  /\ hpc = "event"
  /\ \E m \in Range(toHost) : ReadFrame(m) /\ m.type # "event"
  /\ UNCHANGED <<hpc, hsys, inbox, desync, equipVars, toEquip, userVars>>

(* Mutant: request reads without a timeout. *)
TimedOutButRequests ==
  /\ Receiving /\ timer = Limit
  /\ \/ /\ hpc = "selecting"
        /\ Forget
        /\ UNCHANGED desync
     \/ /\ hpc = "event"
        /\ hpc' = "ready" /\ got' = "nothing" /\ timer' = 0
        /\ desync' = IF desync # "no" THEN desync
                     ELSE [nothing |-> "no", prefix |-> "idle", body |-> "t8"][got]
        /\ UNCHANGED <<inbox, epc, eout, toEquip, toHost>>
  /\ UNCHANGED <<hsys, esys, made, userVars>>

(* The read timed out: connect fails, the other calls return an error and   *)
(* the client can be used again, wherever in a frame the stream now is.     *)
TimedOut ==
  /\ Receiving /\ timer = Limit
  /\ \/ /\ hpc = "selecting"
        /\ Forget
        /\ UNCHANGED desync
     \/ /\ hpc # "selecting"
        /\ hpc' = "ready" /\ got' = "nothing" /\ timer' = 0
        /\ desync' = IF desync # "no" THEN desync
                     ELSE [nothing |-> "no", prefix |-> "idle", body |-> "t8"][got]
        /\ UNCHANGED <<inbox, epc, eout, toEquip, toHost>>
  /\ UNCHANGED <<hsys, esys, made, userVars>>

(* Bytes read from the middle of a frame are no frame: the call fails. *)
Misread ==
  /\ Receiving /\ desync # "no" /\ toHost # <<>>
  /\ hpc' = "ready" /\ timer' = 0
  /\ UNCHANGED <<hsys, inbox, got, desync, equipVars, toEquip, toHost, userVars>>

(* The connection is gone; what was not read yet may be gone with it. *)
Disconnected ==
  /\ Receiving /\ epc = "closed"
  /\ Forget
  /\ UNCHANGED <<hsys, desync, esys, made, userVars>>

ReceiveStep ==
  \/ Tick \/ ReadPrefix
  \/ SelectDone \/ RequestDone \/ RequestQueues \/ RequestIgnores
  \/ EventDone \/ EventAckFails \/ EventIgnores
  \/ TimedOut \/ Misread \/ Disconnected

-----------------------------------------------------------------------------
(* The serving thread *)

(* It reads the next frame only when it has written all it had to. *)
Serves(type) ==
  /\ epc # "closed" /\ eout = <<>> /\ toEquip # <<>>
  /\ Head(toEquip).type = type
  /\ toEquip' = Tail(toEquip)

ServeSelect ==
  /\ Serves("select.req") /\ epc = "connected"
  /\ epc' = "selected"
  /\ eout' = <<Message("select.rsp", Head(toEquip).sys, 0)>>
  /\ UNCHANGED <<esys, made>>

(* handle_data: the reply goes out first, then the events of the job. *)
ServeData(type) ==
  /\ Serves(type) /\ epc = "selected"
  /\ LET m == Head(toEquip)
         n == IF type = "start" THEN JobEvents ELSE 0 IN
     /\ eout' = <<Message("reply", m.sys, m.about)>>
                  \o [i \in 1 .. n |-> Message("event", esys + i, made + i)]
     /\ esys' = esys + n
     /\ made' = made + n
  /\ UNCHANGED epc

ServeAck ==
  /\ Serves("ack")
  /\ UNCHANGED equipVars

ServeSeparate ==
  /\ Serves("separate")
  /\ epc' = "closed"
  /\ UNCHANGED <<eout, esys, made>>

Write ==
  /\ epc # "closed" /\ eout # <<>>
  /\ toHost' = Append(toHost, Head(eout))
  /\ eout' = Tail(eout)
  /\ UNCHANGED <<epc, esys, made, toEquip, hostVars, userVars>>

(* An equipment that keeps sending control frames, each when the last one has *)
(* been read.  (The one of this repository sends none of its own accord.)    *)
Linktest ==
  /\ epc = "selected" /\ eout = <<>> /\ toHost = <<>>
  /\ toHost' = <<Message("linktest", 0, 0)>>
  /\ UNCHANGED <<equipVars, toEquip, hostVars, userVars>>

(* The connection breaks, or the thread leaves on a timeout of its own. *)
Break ==
  /\ epc # "closed"
  /\ epc' = "closed"
  /\ UNCHANGED <<eout, esys, made, toEquip, toHost, hostVars, userVars>>

Serve ==
  /\ \/ ServeSelect \/ ServeAck \/ ServeSeparate
     \/ \E type \in {"plain", "start"} : ServeData(type)
  /\ UNCHANGED <<toHost, hostVars, userVars>>

UserStep ==
  \/ ConnectHost \/ Drop \/ SendFails \/ NextFromInbox \/ NextFromSocket
  \/ \E type \in {"plain", "start"} : RequestReply(type)
  \/ \E type \in {"plain", "start", "separate"} : SendOnly(type)

HostNext == UserStep \/ ReceiveStep \/ Serve \/ Write \/ Linktest \/ Break

(* The host's clock runs and its reads return. *)
HostSpec == HostInit /\ [][HostNext]_sessionVars /\ WF_sessionVars(ReceiveStep)

-----------------------------------------------------------------------------
(* Properties *)

(* A request returns the answer to that very request, whatever was asked    *)
(* and given up before and whatever numbers the equipment's events carry.   *)
AnswersAreForTheRequest ==
  answer # NoMessage => answer.type = "reply" /\ answer.about = awaited

(* The numbers of the events in s up to position i; whether the events in s *)
(* are those numbered from first to last, in this order, each once.         *)
EventNumbers(s, i) == {s[j].about : j \in {j \in 1 .. i : s[j].type = "event"}}
EventsAre(s, first, last) ==
  /\ EventNumbers(s, Len(s)) = first .. last
  /\ \A i \in DOMAIN s :
       s[i].type = "event" => EventNumbers(s, i - 1) = first .. s[i].about - 1

(* No timeout has cut a frame of the connection in two. *)
StreamIsWhole == hpc # "closed" /\ desync = "no"

(* next_event takes the events of a connection in the order they were made, *)
(* each once, however requests and next_event are mixed; while no timeout   *)
(* has cut the stream none is missing between the equipment and next_event; *)
(* and it keeps none from the user while the equipment has not closed.      *)
EventsInOrder ==
  /\ \E last \in 0 .. made : EventsAre(taken \o inbox, 1, last)
  /\ StreamIsWhole => EventsAre(taken \o inbox \o toHost \o eout, 1, made)
  /\ epc # "closed" => lost = {}

(* The host uses a connection only once the equipment has selected it. *)
SelectedTogether == hpc \in {"ready", "request", "event"} => epc # "connected"

(* What a request returns on a connection both ends have selected is its    *)
(* own answer.                                                              *)
RequestsAreAnswered == HostTypeOK /\ SelectedTogether /\ AnswersAreForTheRequest

(* connect, request and next_event return, whatever the equipment sends or  *)
(* leaves unsent, unless frames keep coming forever.  (A call that is sent  *)
(* frames it does not want, one in every timeout, does not return.)         *)
FramesEnd == <>[][Len(toHost') <= Len(toHost)]_sessionVars
CallsReturn == FramesEnd => (Receiving ~> ~Receiving)

(* next_event acknowledges the events it returns. *)
HandedEventsAreAcked ==
  \A m \in Range(taken) : m.type = "event" => m.about \in acked \cup lost

(* A request whose reply has not begun to arrive gives up T3 after it was    *)
(* sent.                                                                     *)
RepliesWithinT3 == (hpc = "request" /\ got = "nothing") => waited <= T3

(* idle_timeout is for the first byte: its expiry leaves no frame half read. *)
IdleTimeoutIsHarmless == desync # "idle"

-----------------------------------------------------------------------------
(* The inductive invariant of the theorems. *)

(* An unselected connection has carried nothing to the host; a dropped one  *)
(* carries nothing; a stream that was cut is not read from again.           *)
ConnectionPhases ==
  /\ epc = "connected" => hpc = "selecting" /\ toHost = <<>> /\ eout = <<>>
  /\ hpc = "closed" => epc = "closed" /\ toEquip = <<>> /\ inbox = <<>>
                       /\ toHost = <<>> /\ eout = <<>>
  /\ hpc = "event" => inbox = <<>>
  /\ epc # "closed" => lost = {}
  /\ desync # "no" => got = "nothing"

(* On a connection, transaction numbers and messages advance together, so   *)
(* that a transaction number stands for one message of the user.            *)
SameDistance(m) == m.sys + sent = m.about + hsys
TransactionsAreMessages ==
  /\ \A i \in DOMAIN toEquip : toEquip[i].type \in {"plain", "start"} => SameDistance(toEquip[i])
  /\ \A i \in DOMAIN toHost : toHost[i].type = "reply" => SameDistance(toHost[i])
  /\ \A i \in DOMAIN eout : eout[i].type = "reply" => SameDistance(eout[i])
  /\ hpc = "request" => awaited = sent

(* The events of the connection, stage by stage on their way to the user.   *)
EventsMoveInOrder ==
  \E a, b \in 0 .. made :
    /\ a <= b /\ EventsAre(taken, 1, a) /\ EventsAre(inbox, a + 1, b)
    /\ StreamIsWhole =>
         \E c \in b .. made : EventsAre(toHost, b + 1, c) /\ EventsAre(eout, c + 1, made)

HostInv ==
  /\ RequestsAreAnswered
  /\ ConnectionPhases /\ TransactionsAreMessages /\ EventsMoveInOrder

=============================================================================
