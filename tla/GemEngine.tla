----------------------------- MODULE GemEngine -----------------------------
(***************************************************************************)
(* The GEM engine (gem.rs) as the simulator drives it: one host message is *)
(* handled, its actions are carried out and the status copies refreshed    *)
(* under one lock of the fab state, so each is one step here, whichever of *)
(* the connections it came from.  Reports are made under the same lock.    *)
(*                                                                         *)
(* What a START does to jobs and what equipment constants do to recipes is *)
(* the subject of FabSim.                                                  *)
(***************************************************************************)
EXTENDS Integers, Sequences, SequencesExt, FiniteSets

CONSTANTS
  Ppids, Bodies,   \* process programs and their contents
  NoBody,          \* no program under that PPID
  MaxVersions,     \* bound on the versions of a recipe
  IdRange,         \* size of the identifier type, 2^32 in the code
  Recent           \* how many messages a host remembers

ASSUME GemAssumption ==
  /\ NoBody \notin Bodies
  /\ MaxVersions \in Nat /\ Recent \in Nat /\ IdRange \in Nat \ {0, 1}

VARIABLES
  com_state, ctrl_state,
  svids,             \* the copies of both that S1F3 is answered from
  process_programs,
  recipes,           \* the versions' bodies of each recipe of the store
  next_data_id,
  recent,            \* identifiers of the last messages made, newest first
  command,           \* the last S2F41: its HCACK, and what came of it
  panel,             \* whether an operator acted since the last host message
  added              \* recipes added by RecipeStore::add since their last download

gemVars == <<com_state, ctrl_state, svids, process_programs, recipes,
             next_data_id, recent, command, panel, added>>

CommunicationState == {"EnabledNotCommunicating", "EnabledCommunicating"}
ControlState == {"EquipmentOffline", "HostOffline", "OnlineLocal", "OnlineRemote"}
OnlineMode == {"OnlineLocal", "OnlineRemote"}

Id == 0 .. IdRange - 1
NoId == -1

GemTypeOK ==
  /\ com_state \in CommunicationState
  /\ ctrl_state \in ControlState
  /\ svids \in CommunicationState \X ControlState
  /\ process_programs \in [Ppids -> Bodies \cup {NoBody}]
  /\ recipes \in [Ppids -> Seq(Bodies)]
  /\ next_data_id \in Id
  /\ recent \in Seq([sys : Id, data : Id \cup {NoId}])
  /\ command \in [hcack : {0, 1}, started : BOOLEAN, ctrl : ControlState]
  /\ panel \in BOOLEAN /\ added \subseteq Ppids

GemInit ==
  /\ com_state = "EnabledNotCommunicating"
  /\ ctrl_state = "EquipmentOffline"
  /\ svids = <<com_state, ctrl_state>>
  /\ process_programs = [p \in Ppids |-> NoBody]
  /\ recipes = [p \in Ppids |-> <<>>]
  /\ next_data_id = 1
  /\ recent = <<>>
  /\ command = [hcack |-> 1, started |-> FALSE, ctrl |-> ctrl_state]
  /\ panel = FALSE /\ added = {}

-----------------------------------------------------------------------------
(* Host messages *)

(* Mutant: the copies are refreshed before the actions are carried out. *)
UpdateSvidsEarly == svids' = <<com_state', ctrl_state>>

(* update_svids: the copies are refreshed last. *)
UpdateSvids == svids' = <<com_state', ctrl_state'>>

(* S1F13 *)
EstablishCommunications ==
  /\ com_state' = "EnabledCommunicating"
  /\ UNCHANGED <<ctrl_state, process_programs, recipes, next_data_id, recent, command, added>>

GoOffline(state) ==
  /\ ctrl_state' = state
  /\ com_state' = "EnabledNotCommunicating"

IsOffline == ctrl_state \in {"EquipmentOffline", "HostOffline"}

(* Mutant: whoever asks for online gets the mode. *)
OperatorRequestOnlineAlways(mode) ==
  /\ ctrl_state' = mode
  /\ UNCHANGED com_state

OperatorRequestOnline(mode) ==
  /\ ctrl_state' = IF IsOffline THEN mode ELSE ctrl_state
  /\ UNCHANGED com_state

(* S1F15, granted in every state *)
RequestOffline ==
  /\ GoOffline("HostOffline")
  /\ UNCHANGED <<process_programs, recipes, next_data_id, recent, command, added>>

(* S1F17, granted in every state; the default mode is remote *)
RequestOnline ==
  /\ OperatorRequestOnline("OnlineRemote")
  /\ UNCHANGED <<process_programs, recipes, next_data_id, recent, command, added>>

(* Mutant: the recipe always starts afresh. *)
ApplyAfresh(p, b) == [recipes EXCEPT ![p] = <<b>>]

(* Mutant: a recipe that exists keeps its version. *)
ApplyOnce(p, b) == [recipes EXCEPT ![p] = IF @ = <<>> THEN <<b>> ELSE @]

(* apply_recipe_body: a new version if the recipe exists, else a recipe. *)
Apply(p, b) == [recipes EXCEPT ![p] = Append(@, b)]

(* S7F3 with a body: kept for S7F5, and handed to the recipe store. *)
ProcessProgram(p, b) ==
  /\ Len(recipes[p]) < MaxVersions
  /\ process_programs' = [process_programs EXCEPT ![p] = b]
  /\ recipes' = Apply(p, b)
  /\ added' = added \ {p}
  /\ UNCHANGED <<com_state, ctrl_state, next_data_id, recent, command>>

(* S2F41: acknowledged unless the command is empty; the simulator carries   *)
(* out START with a PJID and nothing else.                                  *)
RemoteCommand(cmd, hasPjid) ==
  /\ command' = [hcack   |-> IF cmd = "" THEN 1 ELSE 0,
                 started |-> cmd = "START" /\ hasPjid,
                 ctrl    |-> ctrl_state]
  /\ UNCHANGED <<com_state, ctrl_state, process_programs, recipes, next_data_id, recent, added>>

(* handle_data *)
HandleData ==
  /\ \/ EstablishCommunications \/ RequestOffline \/ RequestOnline
     \/ \E p \in Ppids, b \in Bodies : ProcessProgram(p, b)
     \/ \E cmd \in {"START", "STOP", ""}, hasPjid \in BOOLEAN : RemoteCommand(cmd, hasPjid)
  /\ UpdateSvids
  /\ panel' = FALSE

-----------------------------------------------------------------------------
(* Messages the equipment starts *)

(* Mutant: the counter does not wrap. *)
BumpWithoutEnd(n) == n + 1

(* The release build wraps; a debug build panics in make_event_report. *)
Bump(n) == (n + 1) % IdRange

(* next_system *)
NextSystem(n) == Bump(n)

Remember(sys, data) ==
  recent' = SubSeq(<<[sys |-> sys, data |-> data]>> \o recent, 1,
                   IF Len(recent) < Recent THEN Len(recent) + 1 ELSE Recent)

(* make_alarm takes one number of the shared counter. *)
MakeAlarm ==
  /\ next_data_id' = Bump(next_data_id)
  /\ Remember(NextSystem(next_data_id), NoId)
  /\ UNCHANGED <<com_state, ctrl_state, svids, process_programs, recipes, command, panel, added>>

(* Mutant: the transaction number of a report is not used up. *)
MakeEventReportOnce ==
  /\ next_data_id' = Bump(next_data_id)
  /\ Remember(NextSystem(Bump(next_data_id)), next_data_id)
  /\ UNCHANGED <<com_state, ctrl_state, svids, process_programs, recipes, command, panel, added>>

(* make_event_report takes a data id, then a transaction number. *)
MakeEventReport ==
  /\ next_data_id' = Bump(Bump(next_data_id))
  /\ Remember(NextSystem(Bump(next_data_id)), next_data_id)
  /\ UNCHANGED <<com_state, ctrl_state, svids, process_programs, recipes, command, panel, added>>

-----------------------------------------------------------------------------
(* Calls that do not come from a host *)

(* The operator's panel acts on the engine and not on the copies. *)
OperatorAction ==
  /\ \/ GoOffline("EquipmentOffline")
     \/ \E mode \in OnlineMode : OperatorRequestOnline(mode)
  /\ panel' = TRUE
  /\ UNCHANGED <<svids, process_programs, recipes, next_data_id, recent, command, added>>

(* RecipeStore::add inserts, and then reports whether there was one. *)
AddRecipe ==
  /\ \E p \in Ppids, b \in Bodies :
       /\ recipes' = [recipes EXCEPT ![p] = <<b>>]
       /\ added' = added \cup {p}
  /\ UNCHANGED <<com_state, ctrl_state, svids, process_programs, next_data_id, recent,
                 command, panel>>

GemNext == HandleData \/ MakeAlarm \/ MakeEventReport \/ OperatorAction \/ AddRecipe

GemSpec == GemInit /\ [][GemNext]_gemVars

-----------------------------------------------------------------------------
(* Properties *)

(* Whenever the lock is free, the status variables S1F3 is answered from    *)
(* are the state of the engine, unless an operator acted on the engine and  *)
(* no host message was handled since.                                       *)
StatusIsCurrent == ~panel => svids = <<com_state, ctrl_state>>

(* What a host would get back with S7F5 is what jobs are run with, the      *)
(* latest version of the recipe of that name, unless the library put one    *)
(* there since.                                                             *)
StoreFollowsPrograms ==
  \A p \in Ppids \ added : process_programs[p] # NoBody =>
    recipes[p] # <<>> /\ Last(recipes[p]) = process_programs[p]

(* The version chain of a recipe is append-only, for every host message;    *)
(* only RecipeStore::add cuts it.                                           *)
VersionsAreKept ==
  [][\A p \in Ppids : p \in added' \/ IsPrefix(recipes[p], recipes'[p])]_gemVars

(* An equipment put under local control leaves it by going offline, never   *)
(* because a host asks to go online.                                        *)
LocalStaysLocal ==
  [][ctrl_state = "OnlineLocal" =>
       ctrl_state' \in {"OnlineLocal", "EquipmentOffline", "HostOffline"}]_gemVars

(* The messages a host remembers have different transaction numbers, and    *)
(* the reports among them different data ids, across alarms and wrap-around.*)
FreshIds ==
  \A i, j \in 1 .. Len(recent) : i # j =>
    /\ recent[i].sys # recent[j].sys
    /\ recent[i].data # NoId => recent[i].data # recent[j].data

(* Counters stay in the range of a u32 and what they number stays distinct. *)
IdsAreFresh == GemTypeOK /\ FreshIds

(* The status variables are the current values, whoever changed them last. *)
StatusIsAlwaysCurrent == svids = <<com_state, ctrl_state>>

(* A recipe that the library is asked to add does not replace another.      *)
AddingReplacesNothing ==
  [][\A p \in Ppids : IsPrefix(recipes[p], recipes'[p])]_gemVars

(* Remote commands are carried out under remote control only. *)
RemoteControlOnly == command.started => command.ctrl = "OnlineRemote"
=============================================================================
