----------------------------- MODULE Lifecycles -----------------------------
(***************************************************************************)
(* The guarded transition tables of the E40 process job (gem300.rs) and of *)
(* the lot (lot.rs), with the collection event each transition reports.    *)
(***************************************************************************)
EXTENDS Naturals

PJState == {"Queued", "SettingUp", "WaitingForStart", "Executing",
            "ProcessPaused", "Completed", "Aborted"}

PJTerminal == {"Completed", "Aborted"}

PJOrder == {<<"Queued", "SettingUp">>, <<"SettingUp", "WaitingForStart">>,
            <<"WaitingForStart", "Executing">>, <<"Executing", "ProcessPaused">>,
            <<"ProcessPaused", "Executing">>, <<"Executing", "Completed">>}

(* Mutants of PJLegal: a set-up accepted while the job executes, after it    *)
(* was aborted, after it was completed; a completion of an aborted job.      *)
PJLegalTwice(from, to)  ==
  \/ <<from, to>> \in PJOrder \cup {<<"Executing", "SettingUp">>}
  \/ to = "Aborted" /\ from \in PJState \ PJTerminal
PJLegalRerun(from, to)  ==
  \/ <<from, to>> \in PJOrder \cup {<<"Aborted", "SettingUp">>}
  \/ to = "Aborted" /\ from \in PJState \ PJTerminal
PJLegalAgain(from, to)  ==
  \/ <<from, to>> \in PJOrder \cup {<<"Completed", "SettingUp">>}
  \/ to = "Aborted" /\ from \in PJState \ PJTerminal
PJLegalRevive(from, to) ==
  \/ <<from, to>> \in PJOrder \cup {<<"Aborted", "Completed">>}
  \/ to = "Aborted" /\ from \in PJState \ PJTerminal

(* ProcessJobManager::transition: the pairs that are not an error. *)
PJLegal(from, to) ==
  \/ <<from, to>> \in PJOrder
  \/ to = "Aborted" /\ from \in PJState \ PJTerminal

LotStates == {"Created", "InQueue", "InProcessing", "Completed", "OnHold", "Scrapped"}

LotFinished == {"Completed", "Scrapped"}

(* Lot::transition: the pairs that are not an error. *)
LotLegal(from, to) ==
  \/ <<from, to>> \in {<<"Created", "InQueue">>,
                       <<"InQueue", "InProcessing">>,
                       <<"InProcessing", "Completed">>,
                       <<"InQueue", "OnHold">>,
                       <<"InProcessing", "OnHold">>,
                       <<"OnHold", "InQueue">>}
  \/ to = "Scrapped"

(* Collection event identifiers reported to the host. *)
SubstrateLocationChanged == 5001
ProcessJobCreated        == 6001
ProcessJobStarted        == 6002
ProcessJobCompleted      == 6003
ProcessJobAborted        == 6004

LotCeid(to) == CASE to = "InProcessing" -> 7002
                 [] to = "Completed"    -> 7003
                 [] to = "OnHold"       -> 7004
                 [] to = "Scrapped"     -> 7005
                 [] OTHER               -> 7001

DriftOutOfSpec == 9001
BackendError   == 9002
=============================================================================
