------------------------------ MODULE Cluster ------------------------------
(***************************************************************************)
(* The k3s cluster as minos/dispatch/k3s sees it.  A pod belongs to one    *)
(* run: its name is built from the task id and the run id, so pods are     *)
(* indexed by run.  Minos creates them; Argus reads their phases and       *)
(* deletes them; k3s starts and ends them.                                 *)
(*                                                                         *)
(* The module also holds the budget of calls that may fail: any call to    *)
(* k3s or to Postgres may return an error, MaxFaults times in a behaviour. *)
(* A step of another module that stands for a loop of calls (discover      *)
(* saving entries, rehydrate reading phases) sees an outage: all the calls *)
(* of that kind in the step fail together.  A deleted pod is gone at once: *)
(* the grace period of k3s is left out.                                    *)
(*                                                                         *)
(* A pod keeps the token it was dispatched with: dispatch mints it with    *)
(* the envelope, it expires two hours later, the sidecar reads it once     *)
(* when it starts, and nobody renews it.                                   *)
(***************************************************************************)
EXTENDS TaskStore

CONSTANTS
  NoTask,     \* the task of a pod that was never created
  Sidecar,    \* does the project have an Argus sidecar image?
  TokenLife,  \* life of a pod's token, in ticks
  MaxFaults   \* bound: how many calls may fail

ASSUME NoTaskAssumption    == NoTask \notin Tasks
ASSUME SidecarAssumption   == Sidecar \in BOOLEAN
ASSUME TokenLifeAssumption == TokenLife \in Nat
ASSUME MaxFaultsAssumption == MaxFaults \in Nat

VARIABLES
  pods,    \* pods[r]: the pod of run r
  tokens,  \* tokens[r]: how many ticks the token of pod r is still good for
  faults   \* how many more calls may fail

clusterVars == <<pods, faults>>

(***************************************************************************)
(* phase  the phase k3s reports; "none" before the pod exists, "gone" once *)
(*        it does not any more (PodPhase then returns ErrPodNotFound).     *)
(*        k3s never reports the empty phase that dispatch.PhaseUnknown     *)
(*        stands for.                                                      *)
(* exit   how the worker container ended                                   *)
(***************************************************************************)
Phases == {"none", "Pending", "Running", "Succeeded", "Failed", "gone"}
Exits  == {"none", "zero", "nonzero"}
Pod    == [task : Tasks \cup {NoTask}, phase : Phases, exit : Exits]
NoPod  == [task |-> NoTask, phase |-> "none", exit |-> "none"]

ClusterTypeOK == /\ pods \in [Runs -> Pod]
                 /\ faults \in 0 .. MaxFaults

TokensTypeOK == tokens \in [Runs -> 0 .. TokenLife]

ClusterInit == /\ pods = [r \in Runs |-> NoPod]
               /\ tokens = [r \in Runs |-> TokenLife]
               /\ faults = MaxFaults

Live(r)      == pods[r].phase \in {"Pending", "Running"}
TerminalPhase(phase) == phase \in {"Succeeded", "Failed"}
Unspawned    == {r \in Runs : pods[r].phase = "none"}

\* One call of this step fails, or none does.
Spend(err) ==
  IF err = "none" THEN UNCHANGED faults ELSE faults > 0 /\ faults' = faults - 1

-----------------------------------------------------------------------------
(***************************************************************************)
(* dispatch.Dispatcher                                                     *)
(***************************************************************************)

\* A fresh uuid names the run, so a pod of that name cannot exist yet; runs
\* are numbered in the order they are spawned.
CreatePod(r, t) ==
  /\ r \in Unspawned
  /\ \A q \in Unspawned : r <= q
  /\ pods' = [pods EXCEPT ![r] = [task |-> t, phase |-> "Pending", exit |-> "none"]]

\* ErrPodNotFound is tolerated by every caller.
DeletePod(r) == pods' = [pods EXCEPT ![r].phase = IF @ = "none" THEN @ ELSE "gone"]

-----------------------------------------------------------------------------
(***************************************************************************)
(* What k3s does on its own.                                               *)
(***************************************************************************)
PodStarts(r) ==
  /\ pods[r].phase = "Pending"
  /\ pods' = [pods EXCEPT ![r].phase = "Running"]
  /\ UNCHANGED faults

\* RestartPolicy is Never.  A pod is over when ALL its containers are, and the
\* sidecar, a plain container, beats until it is told to stop.
WorkerExits(r) ==
  /\ pods[r].phase = "Running"
  /\ pods[r].exit = "none"
  /\ \E code \in {"zero", "nonzero"} :
       pods' = [pods EXCEPT ![r].exit  = code,
                            ![r].phase = IF Sidecar THEN @
                                         ELSE IF code = "zero" THEN "Succeeded" ELSE "Failed"]
  /\ UNCHANGED faults

\* The kubelet evicts the pod, containers and all.
PodEvicted(r) ==
  /\ Live(r)
  /\ pods' = [pods EXCEPT ![r].phase = "Failed"]
  /\ UNCHANGED faults

\* Someone else removes the pod object.
PodLost(r) ==
  /\ Live(r) \/ TerminalPhase(pods[r].phase)
  /\ Spend("lost")
  /\ DeletePod(r)

\* One tick of the clock, for the tokens that have been minted.
TokensAge ==
  tokens' = [r \in Runs |-> IF pods[r].phase = "none" \/ tokens[r] = 0 THEN tokens[r]
                            ELSE tokens[r] - 1]

ClusterNext == \E r \in Runs : PodStarts(r) \/ WorkerExits(r) \/ PodEvicted(r) \/ PodLost(r)
=============================================================================
