------------------------------- MODULE Minos -------------------------------
(***************************************************************************)
(* Minos, the task service (minos/core).  Three kinds of activity share    *)
(* the task rows with each other and with Argus:                           *)
(*                                                                         *)
(*   - request handlers (the admin API, chat intake, GitHub webhooks) that *)
(*     commission a task, respawn it, or finish it;                        *)
(*   - the sweeper of hibernated tasks;                                    *)
(*   - Reconcile, before the HTTP listener starts.                         *)
(*                                                                         *)
(* A handler takes one action per call it makes to k3s or to the store, so *)
(* everything else may happen in between; a crash loses it half done.      *)
(***************************************************************************)
EXTENDS Cluster, FiniteSets

CONSTANTS
  Handlers,        \* the dispatching requests that may be in flight together
  ReminderTTL,     \* age of a hibernated task when it is reminded of; 0: never
  AbandonTTL,      \* age of a hibernated task when it is given up; 0: never
  MaxMinosCrashes  \* bound: how often Minos dies

ASSUME HandlersAssumption == IsFiniteSet(Handlers)
ASSUME TTLAssumption      == ReminderTTL \in Nat /\ AbandonTTL \in Nat
ASSUME MaxMinosCrashesAssumption == MaxMinosCrashes \in Nat

VARIABLES
  minos,         \* the process: "up", "down", or "reconciling" on its way up
  handlers,      \* handlers[h]: the dispatch a handler is in the middle of
  sweep,         \* sweep[t]: what the current sweep still has to do to task t
  recon,         \* recon[t]: what Reconcile still has to do to task t
  minosCrashes   \* how many more times Minos may die

minosVars == <<minos, handlers, sweep, recon, minosCrashes>>

(***************************************************************************)
(* pc: the next call of the dispatch.                                      *)
(***************************************************************************)
Idle    == [pc |-> "idle", task |-> NoTask, run |-> NoRun]
Handler == [pc : {"idle", "spawn", "record", "start"}, task : Tasks \cup {NoTask},
            run : Runs \cup {NoRun}]

MinosTypeOK ==
  /\ minos \in {"up", "down", "reconciling"}
  /\ handlers \in [Handlers -> Handler]
  /\ sweep \in [Tasks -> {"no", "remind", "abandon"}]
  /\ recon \in [Tasks -> {"no", "listed", "awaiting-review", "failed"}]
  /\ minosCrashes \in 0 .. MaxMinosCrashes

NoWork == [t \in Tasks |-> "no"]

MinosInit ==
  /\ minos = "up"
  /\ handlers = [h \in Handlers |-> Idle]
  /\ sweep = NoWork
  /\ recon = NoWork
  /\ minosCrashes = MaxMinosCrashes

-----------------------------------------------------------------------------
(***************************************************************************)
(* dispatch(): spawn the pod, record the run, start the task.              *)
(***************************************************************************)

\* The bound MaxRuns: a dispatch begins only if a run is left for it.
RunsLeft ==
  Cardinality(Unspawned) > Cardinality({h \in Handlers : handlers[h].pc = "spawn"})

Dispatch(h, t) ==
  /\ handlers[h].pc = "idle"
  /\ RunsLeft
  /\ handlers' = [handlers EXCEPT ![h] = [Idle EXCEPT !.pc = "spawn", !.task = t]]
  /\ UNCHANGED <<minos, sweep, recon, minosCrashes>>

\* Chat intake starts before Reconcile, so a task can be commissioned during it.
Commission(h, t) ==
  /\ minos # "down"
  /\ InsertTask(t)
  /\ Dispatch(h, t)
  /\ UNCHANGED clusterVars

\* Variant: the state is not checked before the dispatch.
RespawnAnyState(h, t) ==
  /\ minos = "up"
  /\ tasks[t].pr # NoPR
  /\ tasks[t].state # "none"
  /\ Dispatch(h, t)
  /\ UNCHANGED <<tasks, clusterVars>>

\* A review that requests changes, or a mention, on the pull request.
Respawn(h, t) ==
  /\ minos = "up"
  /\ tasks[t].pr # NoPR
  /\ tasks[t].state = "awaiting-review"
  /\ Dispatch(h, t)
  /\ UNCHANGED <<tasks, clusterVars>>

Goto(h, pc, r) ==
  /\ handlers' = [handlers EXCEPT ![h] = [@ EXCEPT !.pc = pc, !.run = r]]
  /\ UNCHANGED <<minos, sweep, recon, minosCrashes>>

Return(h) ==
  /\ handlers' = [handlers EXCEPT ![h] = Idle]
  /\ UNCHANGED <<minos, sweep, recon, minosCrashes>>

SpawnPod(h) ==
  /\ handlers[h].pc = "spawn"
  /\ \E r \in Runs : CreatePod(r, handlers[h].task) /\ Goto(h, "record", r)
  /\ UNCHANGED <<tasks, faults>>

\* Variant: a refused pod is reported and nothing else.
SpawnFailsQuietly(h) ==
  /\ handlers[h].pc = "spawn"
  /\ Return(h)
  /\ UNCHANGED <<tasks, clusterVars>>

\* The spec cannot be built or k3s refuses it, and the task is failed.  An err:
\* k3s made the pod but the reply was lost, or the transition failed as well
\* (the request's context is cancelled for both).
SpawnFails(h) ==
  /\ handlers[h].pc = "spawn"
  /\ \E err \in {"none", "reply", "transition"} :
       /\ Spend(err)
       /\ IF err = "reply" THEN \E r \in Runs : CreatePod(r, handlers[h].task)
                           ELSE UNCHANGED pods
       /\ IF err = "transition" THEN UNCHANGED tasks
                                ELSE TryTransitionTask(handlers[h].task, "failed")
  /\ Return(h)

\* Variant: the run is left to be recorded by someone else.
RecordRunNever(h) ==
  /\ handlers[h].pc = "record"
  /\ Goto(h, "start", handlers[h].run)
  /\ UNCHANGED <<tasks, clusterVars>>

\* SetTaskRun.  On an error the pod stays and the state of the task too.
RecordRun(h) ==
  /\ handlers[h].pc = "record"
  /\ \/ /\ Spend("none")
        /\ SetTaskRun(handlers[h].task, handlers[h].run)
        /\ Goto(h, "start", handlers[h].run)
     \/ /\ Spend("store")
        /\ Return(h)
        /\ UNCHANGED tasks
  /\ UNCHANGED pods

\* TransitionTask(running).  A conflict, like any error, is returned.
StartTask(h) ==
  /\ handlers[h].pc = "start"
  /\ \E err \in {"none", "store"} :
       /\ Spend(err)
       /\ IF err = "none" THEN TryTransitionTask(handlers[h].task, "running")
                          ELSE UNCHANGED tasks
  /\ Return(h)
  /\ UNCHANGED pods

-----------------------------------------------------------------------------
(***************************************************************************)
(* Requests that make a single change.                                     *)
(***************************************************************************)

\* A running worker posts the pull request it has opened.
ReportPR(r, p) ==
  /\ minos = "up"
  /\ pods[r].phase = "Running" /\ pods[r].exit = "none"
  /\ SetTaskPR(pods[r].task, p)
  /\ UNCHANGED <<clusterVars, minosVars>>

\* GitHub says that the pull request was merged or closed.
PullRequestClosed(t, merged) ==
  /\ minos = "up"
  /\ tasks[t].pr # NoPR
  /\ TransitionTask(t, IF merged THEN "completed" ELSE "failed")
  /\ UNCHANGED <<clusterVars, minosVars>>

-----------------------------------------------------------------------------
(***************************************************************************)
(* SweepHibernation: list the hibernated tasks and decide, then act on     *)
(* each; the rows may have moved on in the meantime.                       *)
(***************************************************************************)
\* Variant: a task that was reminded of is not abandoned.
DueOnce(row) ==
  IF row.reminded THEN "no"
  ELSE IF AbandonTTL > 0 /\ row.age >= AbandonTTL THEN "abandon"
  ELSE IF ReminderTTL > 0 /\ row.age >= ReminderTTL THEN "remind"
  ELSE "no"

Due(row) ==
  IF AbandonTTL > 0 /\ row.age >= AbandonTTL THEN "abandon"
  ELSE IF ReminderTTL > 0 /\ row.age >= ReminderTTL /\ ~ row.reminded THEN "remind"
  ELSE "no"

SweepList ==
  /\ minos = "up"
  /\ sweep = NoWork
  /\ sweep' = [t \in Tasks |->
                 IF t \in TasksIn({"awaiting-review"}) THEN Due(tasks[t]) ELSE "no"]
  /\ UNCHANGED <<tasks, clusterVars, minos, handlers, recon, minosCrashes>>

SweepAct(t) ==
  /\ sweep[t] # "no"
  /\ \E err \in {"none", "store"} :
       /\ Spend(err)
       /\ \/ err # "none"         /\ UNCHANGED tasks
          \/ err = "none"         /\ sweep[t] = "abandon" /\ TryTransitionTask(t, "failed")
          \/ err = "none"         /\ sweep[t] = "remind"  /\ MarkTaskReminded(t)
  /\ sweep' = [sweep EXCEPT ![t] = "no"]
  /\ UNCHANGED <<pods, minos, handlers, recon, minosCrashes>>

-----------------------------------------------------------------------------
(***************************************************************************)
(* A crash loses the handlers, the sweep and the reconciliation.  On the   *)
(* way up Reconcile lists the running tasks, then looks at the pod of each *)
(* and acts.                                                               *)
(***************************************************************************)
MinosCrash ==
  /\ minos # "down"
  /\ minosCrashes > 0
  /\ minos' = "down"
  /\ minosCrashes' = minosCrashes - 1
  /\ handlers' = [h \in Handlers |-> Idle]
  /\ sweep' = NoWork
  /\ recon' = NoWork
  /\ UNCHANGED <<tasks, clusterVars>>

\* A failed listing is only reported.
MinosStart ==
  /\ minos = "down"
  /\ minos' = "reconciling"
  /\ \E err \in {"none", "store"} :
       /\ Spend(err)
       /\ recon' = [t \in Tasks |-> IF err = "none" /\ t \in TasksIn({"running"})
                                    THEN "listed" ELSE "no"]
  /\ UNCHANGED <<tasks, pods, handlers, sweep, minosCrashes>>

\* Variant: a pod that is gone counts as one that succeeded.
ReconciledKindly(run) ==
  IF run = NoRun THEN "failed"
  ELSE IF Live(run) THEN "no"
  ELSE IF pods[run].phase = "Failed" THEN "failed"
  ELSE "awaiting-review"

\* What Reconcile wants for a running task, from its pod.
Reconciled(run) ==
  IF run = NoRun THEN "failed"
  ELSE IF pods[run].phase = "Succeeded" THEN "awaiting-review"
  ELSE IF Live(run) THEN "no"
  ELSE "failed"

\* Tasks are handled one after the other.
ReconcileLook(t) ==
  /\ recon[t] = "listed"
  /\ \A u \in Tasks : recon[u] \in {"no", "listed"}
  /\ \E err \in {"none", "phase"} :
       /\ Spend(err)
       /\ recon' = [recon EXCEPT ![t] = IF err = "none" THEN Reconciled(tasks[t].run) ELSE "no"]
  /\ UNCHANGED <<tasks, pods, minos, handlers, sweep, minosCrashes>>

ReconcileAct(t) ==
  /\ recon[t] \in {"awaiting-review", "failed"}
  /\ \E err \in {"none", "store"} :
       /\ Spend(err)
       /\ IF err = "none" THEN TryTransitionTask(t, recon[t]) ELSE UNCHANGED tasks
  /\ recon' = [recon EXCEPT ![t] = "no"]
  /\ UNCHANGED <<pods, minos, handlers, sweep, minosCrashes>>

MinosServes ==
  /\ minos = "reconciling"
  /\ recon = NoWork
  /\ minos' = "up"
  /\ UNCHANGED <<tasks, clusterVars, handlers, sweep, recon, minosCrashes>>

-----------------------------------------------------------------------------
HandlerStep(h) == SpawnPod(h) \/ SpawnFails(h) \/ RecordRun(h) \/ StartTask(h)

Sweeper == SweepList \/ \E t \in Tasks : SweepAct(t)

Startup == MinosStart \/ MinosServes \/ \E t \in Tasks : ReconcileLook(t) \/ ReconcileAct(t)

MinosNext ==
  \/ \E h \in Handlers : \/ \E t \in Tasks : Commission(h, t) \/ Respawn(h, t)
                         \/ HandlerStep(h)
  \/ \E r \in Runs, p \in PRs : ReportPR(r, p)
  \/ \E t \in Tasks, merged \in BOOLEAN : PullRequestClosed(t, merged)
  \/ Sweeper
  \/ Startup
  \/ MinosCrash
=============================================================================
