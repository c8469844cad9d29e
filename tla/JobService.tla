----------------------------- MODULE JobService -----------------------------
(***************************************************************************)
(* What the simulator promises of process jobs, without connections'       *)
(* threads, sockets, lots or recipes: a job is created with its wafers,    *)
(* may be started once, has its wafers exposed one after the other, and    *)
(* ends once; a client learns an end only after it happened.               *)
(*                                                                         *)
(* FabSim implements it (sim.rs: stage_lot_and_job, run_process_job).      *)
(***************************************************************************)
EXTENDS Naturals

CONSTANTS Clients, Jobs

VARIABLES
  state,    \* state of each job
  size,     \* number of wafers of each job
  exposed,  \* the wafers of each job that are out of the chamber
  knows     \* the jobs' ends each client has been told in its session

serviceVars == <<state, size, exposed, knows>>

Ended == {"Completed", "Aborted"}

ServiceInit ==
  /\ state = [j \in Jobs |-> "None"]
  /\ size = [j \in Jobs |-> 0]
  /\ exposed = [j \in Jobs |-> {}]
  /\ knows = [c \in Clients |-> {}]

Create(j) ==
  /\ state[j] = "None"
  /\ state' = [state EXCEPT ![j] = "Queued"]
  /\ size' \in [Jobs -> Nat] /\ \A k \in Jobs \ {j} : size'[k] = size[k]
  /\ UNCHANGED <<exposed, knows>>

Start(j) ==
  /\ state[j] = "Queued"
  /\ state' = [state EXCEPT ![j] = "Executing"]
  /\ UNCHANGED <<size, exposed, knows>>

(* Wafers come out in order; also after the job was aborted under the       *)
(* thread that runs it, which does not look again once it has started.      *)
Expose(j) ==
  /\ state[j] \in {"Executing", "Aborted"}
  /\ \E i \in 1 .. size[j] :
       /\ exposed[j] = 1 .. i - 1
       /\ exposed' = [exposed EXCEPT ![j] = 1 .. i]
  /\ UNCHANGED <<state, size, knows>>

Complete(j) ==
  /\ state[j] = "Executing"
  /\ exposed[j] = 1 .. size[j]
  /\ state' = [state EXCEPT ![j] = "Completed"]
  /\ UNCHANGED <<size, exposed, knows>>

Abort(j) ==
  /\ state[j] \in {"Queued", "Executing"}
  /\ state' = [state EXCEPT ![j] = "Aborted"]
  /\ UNCHANGED <<size, exposed, knows>>

Learn(c, j) ==
  /\ state[j] \in Ended
  /\ knows' = [knows EXCEPT ![c] = @ \cup {<<j, state[j]>>}]
  /\ UNCHANGED <<state, size, exposed>>

NewSession(c) ==
  /\ knows' = [knows EXCEPT ![c] = {}]
  /\ UNCHANGED <<state, size, exposed>>

ServiceNext ==
  \/ \E j \in Jobs : Create(j) \/ Start(j) \/ Expose(j) \/ Complete(j) \/ Abort(j)
  \/ \E c \in Clients : NewSession(c) \/ \E j \in Jobs : Learn(c, j)

ServiceSpec == ServiceInit /\ [][ServiceNext]_serviceVars
=============================================================================
