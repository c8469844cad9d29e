---------------------------- MODULE GemHandlers ----------------------------
(***************************************************************************)
(* GemEquipment::handle_message for the messages that read and write the   *)
(* equipment's variables, programs, clock and terminal: what each handler  *)
(* stores and what it answers.  The control and communication state is in  *)
(* GemEngine.                                                              *)
(*                                                                         *)
(* A value is named by the number of the write that brought it, so `clock` *)
(* is the number of values written so far; Missing is the empty item       *)
(* answered for what is not there.  A part of a request with the wrong     *)
(* shape is Malformed.                                                     *)
(***************************************************************************)
EXTENDS Integers, Sequences, SequencesExt, FiniteSets, Functions

CONSTANTS
  Ecids,   \* equipment constants defined from the start
  Svids    \* status variables

Missing   == 0
Malformed == "malformed"
NoName    == ""   \* as_ascii().unwrap_or("") of a PPID that is no text

(* A message: its stream and function, the shape of its item, the names in  *)
(* it, and its W-bit: whether it asks for a reply.  Shapes: "list",         *)
(* "binary", "ascii", "other".                                              *)
Request(type, shape, names) ==
  [type |-> type, shape |-> shape, names |-> names, asks |-> TRUE]
Unasked(req) == [req EXCEPT !.asks = FALSE]

(* A reply: its codes, and for each name of the request the value it tells  *)
(* of, the one read or the one that was stored, or Silent.                  *)
Silent == -1
Reply(type, codes, tells) == [type |-> type, codes |-> codes, tells |-> tells]
Acknowledge(type, code) == Reply(type, <<code>>, <<>>)
NoReply == Reply("none", <<>>, <<>>)

Engine0 ==
  [ecids |-> [e \in Ecids |-> Missing], programs |-> <<>>, date |-> Missing,
   terminal |-> <<>>, clock |-> 0, refused |-> {}]

Result(engine, reply) == [engine |-> engine, reply |-> reply]

-----------------------------------------------------------------------------

(* The value of each name, in the order asked for; all of them when none is. *)
Look(map, names) ==
  IF names = <<>> THEN [i \in 1 .. Cardinality(DOMAIN map) |-> map[SetToSeq(DOMAIN map)[i]]]
  ELSE [i \in DOMAIN names |-> IF names[i] \in DOMAIN map THEN map[names[i]] ELSE Missing]

OnLineData(engine) == Result(engine, Reply("S1F2", <<>>, <<>>))

StatusValues(engine, req) ==
  Result(engine, Reply("S1F4", <<>>, Look([s \in Svids |-> 1], req.names)))

EquipmentConstants(engine, req) ==
  Result(engine, Reply("S2F14", <<>>, Look(engine.ecids, req.names)))

(* Mutant: what is there is kept. *)
WrittenOnce(map, values) ==
  [n \in DOMAIN map \cup DOMAIN values |-> IF n \in DOMAIN map THEN map[n] ELSE values[n]]

(* BTreeMap::insert of each value under its name. *)
Written(map, values) ==
  [n \in DOMAIN map \cup DOMAIN values |-> IF n \in DOMAIN values THEN values[n] ELSE map[n]]

(* S2F15: the pairs one after the other, each stored and acknowledged with  *)
(* 0, or refused with 1, so that the last of a name stays; constants nobody *)
(* defined are stored, too.                                                 *)
NewEquipmentConstants(engine, req) ==
  LET pairs    == DOMAIN req.names
      refused  == {i \in pairs : req.names[i] = Malformed}
      value(i) == engine.clock + i
      stored   == [c \in {req.names[i] : i \in pairs \ refused} |->
                     value(Max({i \in pairs : req.names[i] = c}))]
  IN  IF req.shape # "list" THEN Result(engine, Acknowledge("S2F16", 1))
      ELSE Result(
             [engine EXCEPT
                !.ecids = Written(@, stored), !.clock = @ + Len(req.names),
                !.refused = @ \cup {value(i) : i \in refused}],
             Reply("S2F16", [i \in pairs |-> IF i \in refused THEN 1 ELSE 0],
                            [i \in pairs |-> IF i \in refused THEN Silent ELSE value(i)]))

(* Mutant: only a text is acknowledged. *)
DateTimeOfText(engine, req) ==
  IF req.shape = "ascii"
  THEN Result([engine EXCEPT !.date = @ + 1], Acknowledge("S2F32", 0))
  ELSE Result(engine, NoReply)

(* S2F31: a text is stored, anything is acknowledged. *)
DateTime(engine, req) ==
  Result(IF req.shape = "ascii" THEN [engine EXCEPT !.date = @ + 1] ELSE engine,
         Acknowledge("S2F32", 0))

Ppid(req) == IF req.names = <<>> \/ Head(req.names) = Malformed THEN NoName ELSE Head(req.names)

(* S7F1: 5 when there is such a program. *)
LoadPpRequest(engine, req) ==
  LET known == req.shape = "list" /\ req.names # <<>> /\ Head(req.names) # Malformed
                 /\ Head(req.names) \in DOMAIN engine.programs
  IN  Result(engine, Acknowledge("S7F2", IF known THEN 5 ELSE 0))

(* Mutant: the program is stored before its format is looked at. *)
ProcessProgramFirst(engine, req) ==
  LET stored == req.shape \in {"binary", "ascii"}
      value  == engine.clock + 1
  IN  Result(
        [engine EXCEPT !.programs = Written(@, [p \in {Ppid(req)} |-> value]), !.clock = value,
                       !.refused = @ \cup (IF stored THEN {} ELSE {value})],
        IF stored THEN Reply("S7F4", <<0>>, <<value>>) ELSE Acknowledge("S7F4", 3))

(* S7F3: bodies of bytes or text are stored, 3 for others. *)
ProcessProgram(engine, req) ==
  LET stored == req.shape \in {"binary", "ascii"}
      value  == engine.clock + 1
  IN  Result(
        [engine EXCEPT !.programs = IF stored THEN Written(@, [p \in {Ppid(req)} |-> value]) ELSE @,
                       !.clock = value,
                       !.refused = @ \cup (IF stored THEN {} ELSE {value})],
        IF stored THEN Reply("S7F4", <<0>>, <<value>>) ELSE Acknowledge("S7F4", 3))

(* S7F5: an empty text for a program that is not there. *)
PpRequest(engine, req) ==
  Result(engine, Reply("S7F6", <<>>, Look(engine.programs, <<Ppid(req)>>)))

(* S10F3: whatever comes is acknowledged. *)
Terminal(engine, req) ==
  Result(IF req.shape = "list" THEN [engine EXCEPT !.terminal = Append(@, Len(@) + 1)] ELSE engine,
         Acknowledge("S10F4", 0))

(* S1F13, S1F15, S1F17 and S2F41 are granted; what they change is the       *)
(* subject of GemEngine, and the job a S2F41 starts that of FabSim.         *)
Granted == [S1F13 |-> "S1F14", S1F15 |-> "S1F16", S1F17 |-> "S1F18", S2F41 |-> "S2F42"]

(* handle_message: a function it does not know is not answered, any other   *)
(* is; it does not look at the W-bit.                                       *)
HandleMessage(engine, req) ==
  CASE req.type \in DOMAIN Granted -> Result(engine, Acknowledge(Granted[req.type], 0))
    [] req.type = "S1F1"  -> OnLineData(engine)
    [] req.type = "S1F3"  -> StatusValues(engine, req)
    [] req.type = "S2F13" -> EquipmentConstants(engine, req)
    [] req.type = "S2F15" -> NewEquipmentConstants(engine, req)
    [] req.type = "S2F31" -> DateTime(engine, req)
    [] req.type = "S7F1"  -> LoadPpRequest(engine, req)
    [] req.type = "S7F3"  -> ProcessProgram(engine, req)
    [] req.type = "S7F5"  -> PpRequest(engine, req)
    [] req.type = "S10F3" -> Terminal(engine, req)
    [] OTHER              -> Result(engine, NoReply)

=============================================================================
