------------------------------- MODULE Zakros -------------------------------
(***************************************************************************)
(* The control plane: Minos and Argus, two processes around one table of   *)
(* tasks, one cluster, and the clock.                                      *)
(***************************************************************************)
EXTENDS Minos, Argus

vars == <<tasks, clusterVars, tokens, minosVars, argusVars>>

TypeOK == StoreTypeOK /\ ClusterTypeOK /\ TokensTypeOK /\ MinosTypeOK /\ ArgusTypeOK

Init == StoreInit /\ ClusterInit /\ MinosInit /\ ArgusInit

Tick == TasksAge /\ ArgusAges /\ TokensAge /\ UNCHANGED <<clusterVars, minosVars>>

Next ==
  \/ MinosNext   /\ UNCHANGED <<argusVars, tokens>>
  \/ ArgusNext   /\ UNCHANGED <<minosVars, tokens>>
  \/ ClusterNext /\ UNCHANGED <<tasks, minosVars, argusVars, tokens>>
  \/ Tick

Spec == Init /\ [][Next]_vars

(***************************************************************************)
(* Fairness: the goroutines of a process that is up keep going, a process  *)
(* that died is restarted by systemd, and time passes.  Nothing is assumed *)
(* of users, of GitHub, of the workers, or of k3s starting a pod.          *)
(***************************************************************************)
Fairness ==
  /\ \A h \in Handlers : WF_vars(HandlerStep(h) /\ UNCHANGED <<argusVars, tokens>>)
  /\ WF_vars(Sweeper /\ UNCHANGED <<argusVars, tokens>>)
  /\ WF_vars(Startup /\ UNCHANGED <<argusVars, tokens>>)
  /\ WF_vars(LoopStep /\ UNCHANGED <<minosVars, tokens>>)
  /\ WF_vars(HeartbeatSaved /\ UNCHANGED <<minosVars, tokens>>)
  /\ WF_vars(ArgusStart /\ UNCHANGED <<minosVars, tokens>>)
  /\ WF_vars(Tick)

FairSpec == Spec /\ Fairness

-----------------------------------------------------------------------------
(***************************************************************************)
(* Whatever Minos, Argus and GitHub do to a row, in whatever order and     *)
(* across crashes, a task lives the life of TaskLifecycle.                 *)
(***************************************************************************)
ControlPlaneImplementsLifecycle == Lifecycle!Spec

(***************************************************************************)
(* "A task cannot have two live pods" (docs/architecture.md, section 8):   *)
(* two workers of one task push to the same branch.                        *)
(***************************************************************************)
OneLivePod ==
  \A q, r \in Runs : Live(q) /\ Live(r) /\ pods[q].task = pods[r].task => q = r

(***************************************************************************)
(* A running task names a pod that was spawned for it: Reconcile and       *)
(* discover rely on run_id being recorded before the state says running,   *)
(* and on nobody recording a run of another task.                          *)
(***************************************************************************)
RunningHasOwnRun ==
  \A t \in Tasks : tasks[t].state = "running" =>
    tasks[t].run # NoRun /\ pods[tasks[t].run].task = t

(***************************************************************************)
(* No task is put up for review unless one of its workers has finished     *)
(* successfully, whoever moved it there (Argus or Reconcile) and from      *)
(* however stale a reading.                                                *)
(***************************************************************************)
ReviewHasSuccess ==
  \A t \in Tasks : tasks[t].state = "awaiting-review" =>
    \E r \in Runs : pods[r].task = t /\ pods[r].exit = "zero"

(***************************************************************************)
(* hibernate and markFailed clean up pods that are over: Argus deletes a   *)
(* live pod only by terminate.                                             *)
(***************************************************************************)
LivePodDeletedOnlyByTerminate ==
  [][\A r \in Runs : Live(r) /\ pods'[r].phase = "gone" =>
       argus.how = "terminate" \/ faults' < faults]_vars

(***************************************************************************)
(* When Argus moves a task it acts for the run the row names: the verdict  *)
(* on an old pod never decides the fate of a respawned task.               *)
(***************************************************************************)
ArgusJudgesCurrentRun ==
  argus.pc = "move" => tracked[argus.task].run = tasks[argus.task].run

\* One dispatch at a time.
OneDispatch == \A g, h \in Handlers : g = h

(***************************************************************************)
(* The wall clock Argus charges a run with is never behind the age of the  *)
(* run: also for a run that began while Argus was down, for one that it    *)
(* was already watching when it died, and after failed saves.  It is the   *)
(* age, to the tick, if dispatches do not overlap.  (If they do, the one   *)
(* that comes last starts the row once more with the run of the other, and *)
(* the row is younger than the entry.)                                     *)
(*                                                                         *)
(* The exact half stands on started_at being stamped anew by every start.  *)
(* If the stores kept the first start, as storage.Store says they do (see  *)
(* FirstStartKept), a respawned run would be charged with the whole life   *)
(* of its task; that Argus never charges too little would still hold.      *)
(***************************************************************************)
WallClockIsRunAge ==
  \A t \in Tasks :
    tasks[t].state = "running" /\ Tracked(t) /\ tracked[t].run = tasks[t].run =>
      /\ tracked[t].wall >= tasks[t].age
      /\ OneDispatch => tracked[t].wall = tasks[t].age

-----------------------------------------------------------------------------
(***************************************************************************)
(* A commissioned task leaves the queue.                                   *)
(***************************************************************************)
QueueDrains == \A t \in Tasks : tasks[t].state = "queued" ~> tasks[t].state # "queued"

\* What Argus promises of a run it promises as long as it stays up: a death in
\* the middle of hibernate, markFailed or terminate can leave a saved entry that
\* hides the next run.
ArgusDied == argusCrashes < MaxArgusCrashes

(***************************************************************************)
(* "discover ensures every task in StateRunning is tracked" (argus.go):    *)
(* every run, respawned ones too, comes under watch by an entry of its own *)
(* that evaluate does not pass over, unless it ends or Argus dies first.   *)
(***************************************************************************)
RunWatched ==
  \A t \in Tasks, r \in Runs :
    (tasks[t].state = "running" /\ tasks[t].run = r)
      ~> \/ tasks[t].state # "running"
         \/ tracked[t].run = r /\ ~ tracked[t].terminated
         \/ ArgusDied

(***************************************************************************)
(* Once the worker of a running task has exited, the run ends: "the        *)
(* entrypoint opens the PR then exits; Argus sees Phase=Succeeded and      *)
(* flips the task into the hibernated state" (argus.go).  No budget and no *)
(* stall rule need help; but Argus has to stay up.                         *)
(***************************************************************************)
RunEndsWithWorker ==
  \A t \in Tasks, r \in Runs :
    (tasks[t].state = "running" /\ tasks[t].run = r /\ pods[r].exit # "none")
      ~> tasks[t].state # "running" \/ ArgusDied

(***************************************************************************)
(* The same passage, as what Argus may not do: a run whose worker has      *)
(* exited with zero is put up for review, and never terminated, whatever   *)
(* the rules say of it.                                                    *)
(***************************************************************************)
SuccessNotTerminated ==
  [][\A t \in Tasks :
       argus.pc = "loop" /\ argus'.pc # "loop" /\ argus'.task = t /\ argus'.how = "terminate" =>
         pods[tracked[t].run].exit # "zero"]_vars

(***************************************************************************)
(* With a wall-clock budget every run ends, whatever its worker and its    *)
(* sidecar do and however often Argus restarts.                            *)
(***************************************************************************)
BudgetEndsRun == \A t \in Tasks : tasks[t].state = "running" ~> tasks[t].state # "running"

(***************************************************************************)
(* A hibernated task does not wait for a review for ever.                  *)
(***************************************************************************)
ReviewEnds ==
  \A t \in Tasks : tasks[t].state = "awaiting-review" ~> tasks[t].state # "awaiting-review"

(***************************************************************************)
(* The pod of a finished task is removed: "Argus auto-discovers            *)
(* terminal-state transitions in its own runLoop" (api.go).                *)
(***************************************************************************)
FinishedTaskFreesPod ==
  \A t \in Tasks, r \in Runs :
    (tasks[t].state \in Terminal /\ pods[r].task = t) ~> pods[r].phase = "gone"
=============================================================================
