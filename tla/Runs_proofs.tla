---------------------------- MODULE Runs_proofs ----------------------------
(***************************************************************************)
(* Tasks and their runs, for every number of tasks, handlers, runs,        *)
(* failing calls and crashes: a running task names a run of its own, and a *)
(* task under review has a worker that succeeded.                          *)
(*                                                                         *)
(* Neither is inductive.  A dispatch spreads over four steps, and what its *)
(* last one needs (a row, a recorded run) was set up by the earlier ones:  *)
(* OwnRuns.  A verdict of Argus or Reconcile is carried out after the pod  *)
(* it was read from may be gone: VerdictsEarned.                           *)
(*                                                                         *)
(* And clocks: the entry that watches a run is as old as its row, for it   *)
(* was made from the row and they age together; what has to be known is    *)
(* that nobody watches a run before its row runs (RunsFresh, StartsFresh). *)
(*                                                                         *)
(* Last, one live pod per task.  Without sidecars a task that has begun is *)
(* with one run, and everybody who may still act for it means that run,    *)
(* until it is put up for review, which happens when the pod of the run is *)
(* over (PeaceInv).  With sidecars it never gets that far (SidecarInv).    *)
(***************************************************************************)
EXTENDS Zakros_proofs

(***************************************************************************)
(* Runs belong to the tasks that name them, and a dispatch finds at each   *)
(* step what it left at the step before.                                   *)
(***************************************************************************)
RowsOwnRuns ==
  \A t \in Tasks :
    /\ tasks[t].run # NoRun => pods[tasks[t].run].task = t
    /\ tasks[t].state = "running" => tasks[t].run # NoRun

DispatchSound(d) ==
  /\ d.pc # "idle" => tasks[d.task].state # "none"
  /\ d.pc \in {"record", "start"} => pods[d.run].task = d.task
  /\ d.pc = "start" => tasks[d.task].run # NoRun

OwnRuns == RowsOwnRuns /\ \A h \in Handlers : DispatchSound(handlers[h])

-----------------------------------------------------------------------------
(***************************************************************************)
(* What steps keep.                                                        *)
(***************************************************************************)

\* A pod, once made, keeps its task; a worker that succeeded has succeeded.
PodKept(r) ==
  /\ pods[r].phase # "none" => pods'[r].task = pods[r].task /\ pods'[r].phase # "none"
  /\ pods[r].exit = "zero" => pods'[r].exit = "zero"

\* How pods end: a pod that succeeded has a worker that exited with zero, and
\* no sidecar that would have kept it running.
SuccessIsExitZero ==
  \A r \in Runs : /\ pods[r].phase = "none" => pods[r].exit = "none"
                  /\ pods[r].phase = "Succeeded" => pods[r].exit = "zero" /\ ~ Sidecar

LEMMA CreatePodKeeps ==
  ASSUME ClusterOK, SuccessIsExitZero, NEW q \in Runs, NEW t \in Tasks, CreatePod(q, t)
  PROVE  SuccessIsExitZero' /\ \A r \in Runs : PodKept(r)
  BY DEF ClusterOK, ClusterTypeOK, SuccessIsExitZero, PodKept, CreatePod, Unspawned, Pod

LEMMA DeletePodKeeps ==
  ASSUME ClusterOK, SuccessIsExitZero, NEW q, DeletePod(q)
  PROVE  SuccessIsExitZero' /\ \A r \in Runs : PodKept(r)
  BY DEF ClusterOK, ClusterTypeOK, SuccessIsExitZero, PodKept, DeletePod, Pod

LEMMA ClusterStepKeeps ==
  ASSUME ClusterOK, SuccessIsExitZero, ClusterNext
  PROVE  SuccessIsExitZero' /\ \A r \in Runs : PodKept(r)
<1> SUFFICES ASSUME NEW q \in Runs,
                    PodStarts(q) \/ WorkerExits(q) \/ PodEvicted(q) \/ PodLost(q)
             PROVE  SuccessIsExitZero' /\ \A r \in Runs : PodKept(r)
  BY DEF ClusterNext
<1> USE DEF ClusterOK, ClusterTypeOK, SuccessIsExitZero, PodKept, Pod
<1>1. CASE PodStarts(q)
  BY <1>1 DEF PodStarts
<1>2. CASE WorkerExits(q)
  BY <1>2 DEF WorkerExits
<1>3. CASE PodEvicted(q)
  BY <1>3 DEF PodEvicted, Live
<1>4. CASE PodLost(q)
  BY <1>4, DeletePodKeeps DEF PodLost
<1> QED
  BY <1>1, <1>2, <1>3, <1>4

LEMMA StepKeepsPods ==
  ASSUME WellTyped, SuccessIsExitZero, [Next]_vars
  PROVE  SuccessIsExitZero' /\ \A r \in Runs : PodKept(r)
<1>1. ClusterOK /\ HandlersAssigned
  BY DEF WellTyped, TypeOK, Assigned, ClusterOK
<1>2. UNCHANGED pods => SuccessIsExitZero' /\ \A r \in Runs : PodKept(r)
  BY DEF SuccessIsExitZero, PodKept
<1>3. ASSUME NEW h \in Handlers, SpawnPod(h) \/ SpawnFails(h)
      PROVE  SuccessIsExitZero' /\ \A r \in Runs : PodKept(r)
  <2>1. handlers[h].task \in Tasks
    BY <1>1, <1>3 DEF SpawnPod, SpawnFails, HandlersAssigned
  <2> QED
    BY <1>1, <1>2, <1>3, <2>1, CreatePodKeeps DEF SpawnPod, SpawnFails
<1>4. CASE MinosNext
  <2>1. (\E h \in Handlers : SpawnPod(h) \/ SpawnFails(h)) \/ UNCHANGED pods
    BY <1>4
    DEF MinosNext, HandlerStep, Commission, Respawn, RecordRun, StartTask, ReportPR,
        PullRequestClosed, Sweeper, SweepList, SweepAct, Startup, MinosStart, MinosServes,
        ReconcileLook, ReconcileAct, MinosCrash, clusterVars
  <2> QED
    BY <1>2, <1>3, <2>1
<1>5. CASE ArgusNext
  <2>1. (\E q : DeletePod(q)) \/ UNCHANGED pods
    BY <1>5
    DEF ArgusNext, LoopStep, StartRound, Evaluate, MoveTask, RemovePod, UntrackTask,
        Heartbeat, HeartbeatSaved, ArgusCrash, ArgusStart, clusterVars
  <2> QED
    BY <1>1, <1>2, <2>1, DeletePodKeeps
<1>6. CASE ClusterNext
  BY <1>1, <1>6, ClusterStepKeeps
<1>7. CASE Tick \/ UNCHANGED vars
  BY <1>2, <1>7 DEF Tick, vars, clusterVars
<1> QED
  BY <1>4, <1>5, <1>6, <1>7 DEF Next

-----------------------------------------------------------------------------
(***************************************************************************)
(* OwnRuns is inductive.  Most steps are steady: they leave the runs of    *)
(* the rows alone, start nothing, and at most drop a dispatch.             *)
(***************************************************************************)
RowSteady(old, new) ==
  /\ new.run = old.run
  /\ new.state = "running" => old.state = "running"
  /\ old.state # "none" => new.state # "none"

RowsSteady     == \A t \in Tasks : RowSteady(tasks[t], tasks'[t])
HandlersSteady == \A h \in Handlers : handlers'[h] = handlers[h] \/ handlers'[h].pc = "idle"

LEMMA MovedRun ==
  ASSUME NEW row \in Row, NEW to, ValidTransition(row.state, to)
  PROVE  Moved(row, to).run = row.run /\ Moved(row, to).state = to /\ to # "none"
  BY MovedRow DEF Moved, ValidTransition

LEMMA TryTransitionSteady ==
  ASSUME StoreTypeOK, NEW t \in Tasks, NEW to, to # "running", TryTransitionTask(t, to)
  PROVE  RowsSteady
<1>1. CASE UNCHANGED tasks
  BY <1>1 DEF RowsSteady, RowSteady
<1>2. CASE TransitionTask(t, to)
  <2>1. RowSteady(tasks[t], Moved(tasks[t], to))
    BY <1>2, MovedRun DEF TransitionTask, StoreTypeOK, RowSteady
  <2> QED
    BY <1>2, <2>1 DEF TransitionTask, StoreTypeOK, RowsSteady, RowSteady
<1> QED
  BY <1>1, <1>2 DEF TryTransitionTask

LEMMA SteadyKeepsOwnRuns ==
  ASSUME WellTyped, OwnRuns, RowsSteady, HandlersSteady, \A r \in Runs : PodKept(r)
  PROVE  OwnRuns'
<1>1. \A r \in Runs : pods[r].task \in Tasks => pods'[r].task = pods[r].task
  BY NoTaskAssumption DEF WellTyped, Assigned, PodsAssigned, PodKept
<1>2. RowsOwnRuns'
  BY <1>1 DEF WellTyped, TypeOK, StoreTypeOK, Row, OwnRuns, RowsOwnRuns, RowsSteady, RowSteady
<1>3. ASSUME NEW h \in Handlers PROVE DispatchSound(handlers[h])'
  <2>1. CASE handlers'[h].pc = "idle"
    BY <2>1 DEF DispatchSound
  <2>2. CASE handlers'[h] = handlers[h] /\ handlers[h].pc # "idle"
    <3>1. handlers[h].task \in Tasks
      BY <2>2 DEF WellTyped, Assigned, HandlersAssigned
    <3>2. handlers[h].pc \in {"record", "start"} => handlers[h].run \in Runs
      BY DEF WellTyped, Assigned, HandlersAssigned
    <3> QED
      BY <1>1, <2>2, <3>1, <3>2 DEF OwnRuns, DispatchSound, RowsSteady, RowSteady
  <2> QED
    BY <2>1, <2>2 DEF HandlersSteady
<1> QED
  BY <1>2, <1>3 DEF OwnRuns

\* Another way in: a dispatch begins, the rows being steady or one new.
LEMMA CommissionKeepsOwnRuns ==
  ASSUME WellTyped, OwnRuns, NEW h \in Handlers, NEW t \in Tasks,
         Commission(h, t) \/ Respawn(h, t)
  PROVE  OwnRuns'
<1>1. handlers'[h].pc = "spawn" /\ handlers'[h].task = t
  BY DEF Commission, Respawn, Dispatch, Idle, WellTyped, TypeOK, MinosTypeOK
<1>2. \A g \in Handlers \ {h} : handlers'[g] = handlers[g]
  BY DEF Commission, Respawn, Dispatch, WellTyped, TypeOK, MinosTypeOK
<1>3. UNCHANGED pods
  BY DEF Commission, Respawn, clusterVars
<1>4. tasks'[t].state # "none"
  BY DEF Commission, InsertTask, NewRow, Respawn, WellTyped, TypeOK, StoreTypeOK
<1>5. \A u \in Tasks : \/ tasks'[u] = tasks[u]
                       \/ /\ tasks[u].state = "none" /\ tasks'[u].run = NoRun
                          /\ tasks'[u].state = "queued"
  BY DEF Commission, InsertTask, NewRow, Respawn, WellTyped, TypeOK, StoreTypeOK
<1>6. RowsOwnRuns'
  BY <1>3, <1>5 DEF OwnRuns, RowsOwnRuns
<1>7. ASSUME NEW g \in Handlers PROVE DispatchSound(handlers[g])'
  <2>1. CASE g = h
    BY <1>1, <1>4, <2>1 DEF DispatchSound
  <2>2. CASE g # h
    <3>1. handlers[g].pc # "idle" => handlers[g].task \in Tasks
      BY DEF WellTyped, Assigned, HandlersAssigned
    <3> QED
      BY <1>2, <1>3, <1>5, <2>2, <3>1 DEF OwnRuns, DispatchSound
  <2> QED
    BY <2>1, <2>2
<1> QED
  BY <1>6, <1>7 DEF OwnRuns

\* The pod is spawned for the task of the dispatch.
LEMMA SpawnPodKeepsOwnRuns ==
  ASSUME WellTyped, OwnRuns, NEW h \in Handlers, SpawnPod(h), \A r \in Runs : PodKept(r)
  PROVE  OwnRuns'
<1>1. PICK q \in Runs : CreatePod(q, handlers[h].task) /\ Goto(h, "record", q)
  BY DEF SpawnPod
<1>2. \A r \in Runs : pods[r].task \in Tasks => pods'[r].task = pods[r].task
  BY NoTaskAssumption DEF WellTyped, Assigned, PodsAssigned, PodKept
<1>3. pods'[q].task = handlers[h].task
  BY <1>1 DEF CreatePod, WellTyped, TypeOK, ClusterTypeOK
<1>4. handlers' = [handlers EXCEPT ![h] = [handlers[h] EXCEPT !.pc = "record", !.run = q]]
  BY <1>1 DEF Goto
<1>5. /\ handlers'[h].pc = "record" /\ handlers'[h].run = q
      /\ handlers'[h].task = handlers[h].task
      /\ \A g \in Handlers \ {h} : handlers'[g] = handlers[g]
  BY <1>4 DEF WellTyped, TypeOK, MinosTypeOK, Handler
<1>6. UNCHANGED tasks /\ handlers[h].pc = "spawn"
  BY DEF SpawnPod
<1>7. RowsOwnRuns'
  BY <1>2, <1>6 DEF WellTyped, TypeOK, StoreTypeOK, Row, OwnRuns, RowsOwnRuns
<1>8. ASSUME NEW g \in Handlers PROVE DispatchSound(handlers[g])'
  <2>1. CASE g = h
    BY <1>3, <1>5, <1>6, <2>1 DEF OwnRuns, DispatchSound
  <2>2. CASE g # h /\ handlers[g].pc = "idle"
    BY <1>5, <2>2 DEF DispatchSound
  <2>3. CASE g # h /\ handlers[g].pc # "idle"
    <3>1. /\ handlers[g].task \in Tasks
          /\ handlers[g].pc \in {"record", "start"} => handlers[g].run \in Runs
      BY <2>3 DEF WellTyped, Assigned, HandlersAssigned
    <3> QED
      BY <1>2, <1>5, <1>6, <2>3, <3>1 DEF OwnRuns, DispatchSound
  <2> QED
    BY <2>1, <2>2, <2>3
<1> QED
  BY <1>7, <1>8 DEF OwnRuns

\* The recorded run is the one that was spawned.
LEMMA RecordRunKeepsOwnRuns ==
  ASSUME WellTyped, OwnRuns, NEW h \in Handlers, handlers[h].pc = "record",
         SetTaskRun(handlers[h].task, handlers[h].run), Goto(h, "start", handlers[h].run),
         UNCHANGED pods
  PROVE  OwnRuns'
<1> DEFINE t == handlers[h].task
           q == handlers[h].run
<1>1. t \in Tasks /\ q \in Runs /\ q # NoRun
  BY MaxRunsAssumption DEF WellTyped, Assigned, HandlersAssigned, Runs, NoRun
<1>2. /\ pods[q].task = t
      /\ tasks[t].state # "none"
  BY DEF OwnRuns, DispatchSound
<1>3. /\ tasks'[t].run = q
      /\ \A u \in Tasks \ {t} : tasks'[u].run = tasks[u].run
      /\ \A u \in Tasks : tasks'[u].state = tasks[u].state
  BY <1>1 DEF SetTaskRun, WellTyped, TypeOK, StoreTypeOK, Row
<1>4. handlers' = [handlers EXCEPT ![h] = [handlers[h] EXCEPT !.pc = "start", !.run = q]]
  BY DEF Goto
<1>5. /\ handlers'[h].pc = "start" /\ handlers'[h].run = q /\ handlers'[h].task = t
      /\ \A g \in Handlers \ {h} : handlers'[g] = handlers[g]
  BY <1>4 DEF WellTyped, TypeOK, MinosTypeOK, Handler
<1> HIDE DEF t, q
<1>6. RowsOwnRuns'
  BY <1>1, <1>2, <1>3 DEF OwnRuns, RowsOwnRuns
<1>7. ASSUME NEW g \in Handlers PROVE DispatchSound(handlers[g])'
  <2>1. CASE g = h
    BY <1>1, <1>2, <1>3, <1>5, <2>1 DEF DispatchSound
  <2>2. CASE g # h /\ handlers[g].pc = "idle"
    BY <1>5, <2>2 DEF DispatchSound
  <2>3. CASE g # h /\ handlers[g].pc # "idle"
    <3>1. handlers[g].task \in Tasks
      BY <2>3 DEF WellTyped, Assigned, HandlersAssigned
    <3> QED
      BY <1>1, <1>3, <1>5, <2>3, <3>1 DEF OwnRuns, DispatchSound
  <2> QED
    BY <2>1, <2>2, <2>3
<1> QED
  BY <1>6, <1>7 DEF OwnRuns

\* A task is started when its run is on record, and only then.
LEMMA StartTaskKeepsOwnRuns ==
  ASSUME WellTyped, OwnRuns, NEW h \in Handlers, StartTask(h), \A r \in Runs : PodKept(r)
  PROVE  OwnRuns'
<1> DEFINE t == handlers[h].task
<1>1. t \in Tasks /\ tasks[t].run # NoRun
  BY DEF StartTask, WellTyped, Assigned, HandlersAssigned, OwnRuns, DispatchSound
<1>2. HandlersSteady
  BY DEF StartTask, Return, Idle, HandlersSteady, WellTyped, TypeOK, MinosTypeOK
<1>3. CASE UNCHANGED tasks
  BY <1>2, <1>3, SteadyKeepsOwnRuns DEF RowsSteady, RowSteady
<1>4. CASE TransitionTask(t, "running")
  <2>1. /\ Moved(tasks[t], "running").run = tasks[t].run
        /\ Moved(tasks[t], "running").state = "running"
    BY <1>1, <1>4, MovedRun DEF TransitionTask, WellTyped, TypeOK, StoreTypeOK
  <2>2. \A u \in Tasks : /\ tasks'[u].run = tasks[u].run
                         /\ tasks'[u] = tasks[u] \/ (u = t /\ tasks'[u].state = "running")
    BY <1>1, <1>4, <2>1 DEF TransitionTask, WellTyped, TypeOK, StoreTypeOK
  <2>3. UNCHANGED pods
    BY DEF StartTask
  <2> HIDE DEF t
  <2>4. RowsOwnRuns'
    BY <1>1, <2>2, <2>3 DEF OwnRuns, RowsOwnRuns
  <2>5. ASSUME NEW g \in Handlers PROVE DispatchSound(handlers[g])'
    <3>1. CASE handlers'[g].pc = "idle"
      BY <3>1 DEF DispatchSound
    <3>2. CASE handlers'[g] = handlers[g] /\ handlers[g].pc # "idle"
      <4>1. handlers[g].task \in Tasks
        BY <3>2 DEF WellTyped, Assigned, HandlersAssigned
      <4> QED
        BY <2>2, <2>3, <3>2, <4>1 DEF OwnRuns, DispatchSound
    <3> QED
      BY <1>2, <3>1, <3>2 DEF HandlersSteady
  <2> QED
    BY <2>4, <2>5 DEF OwnRuns
<1> QED
  BY <1>3, <1>4 DEF StartTask, TryTransitionTask

\* Everything else Minos does is steady.
LEMMA MinosStepKeepsOwnRuns ==
  ASSUME WellTyped, OwnRuns, MinosNext, \A r \in Runs : PodKept(r)
  PROVE  OwnRuns'
<1>1. UNCHANGED tasks => RowsSteady
  BY DEF RowsSteady, RowSteady
<1>2. UNCHANGED handlers => HandlersSteady
  BY DEF HandlersSteady
<1>3. ASSUME NEW h \in Handlers, Return(h) PROVE HandlersSteady
  BY <1>3 DEF Return, Idle, HandlersSteady, WellTyped, TypeOK, MinosTypeOK
<1>4. StoreTypeOK
  BY DEF WellTyped, TypeOK
<1>5. ASSUME NEW h \in Handlers, NEW t \in Tasks, Commission(h, t) \/ Respawn(h, t)
      PROVE  OwnRuns'
  BY <1>5, CommissionKeepsOwnRuns
<1>6. ASSUME NEW h \in Handlers, HandlerStep(h) PROVE OwnRuns'
  <2>1. CASE SpawnPod(h)
    BY <2>1, SpawnPodKeepsOwnRuns
  <2>2. CASE SpawnFails(h)
    <3>1. handlers[h].task \in Tasks
      BY <2>2 DEF SpawnFails, WellTyped, Assigned, HandlersAssigned
    <3>2. RowsSteady
      BY <1>1, <1>4, <2>2, <3>1, TryTransitionSteady DEF SpawnFails
    <3> QED
      BY <1>3, <2>2, <3>2, SteadyKeepsOwnRuns DEF SpawnFails
  <2>3. CASE RecordRun(h)
    <3>1. CASE Return(h) /\ UNCHANGED tasks
      BY <1>1, <1>3, <3>1, SteadyKeepsOwnRuns
    <3>2. CASE SetTaskRun(handlers[h].task, handlers[h].run) /\ Goto(h, "start", handlers[h].run)
      BY <2>3, <3>2, RecordRunKeepsOwnRuns DEF RecordRun
    <3> QED
      BY <2>3, <3>1, <3>2 DEF RecordRun
  <2>4. CASE StartTask(h)
    BY <2>4, StartTaskKeepsOwnRuns
  <2> QED
    BY <1>6, <2>1, <2>2, <2>3, <2>4 DEF HandlerStep
<1>7. ASSUME NEW r \in Runs, NEW p \in PRs, ReportPR(r, p) PROVE OwnRuns'
  <2>1. pods[r].task \in Tasks
    BY <1>7 DEF ReportPR, WellTyped, TypeOK, ClusterTypeOK, Pod, Assigned, PodsAssigned
  <2>2. RowsSteady
    BY <1>4, <1>7, <2>1 DEF ReportPR, SetTaskPR, StoreTypeOK, Row, RowsSteady, RowSteady
  <2> QED
    BY <1>2, <1>7, <2>2, SteadyKeepsOwnRuns DEF ReportPR, minosVars
<1>8. ASSUME NEW t \in Tasks, NEW merged \in BOOLEAN, PullRequestClosed(t, merged)
      PROVE  OwnRuns'
  <2>1. RowsSteady
    BY <1>4, <1>8, TryTransitionSteady DEF PullRequestClosed, TryTransitionTask
  <2> QED
    BY <1>2, <1>8, <2>1, SteadyKeepsOwnRuns DEF PullRequestClosed, minosVars
<1>9. CASE Sweeper
  <2>1. CASE SweepList
    BY <1>1, <1>2, <2>1, SteadyKeepsOwnRuns DEF SweepList
  <2>2. ASSUME NEW t \in Tasks, SweepAct(t) PROVE OwnRuns'
    <3>1. MarkTaskReminded(t) => RowsSteady
      BY <1>4 DEF MarkTaskReminded, StoreTypeOK, Row, RowsSteady, RowSteady
    <3>2. RowsSteady
      BY <1>1, <1>4, <2>2, <3>1, TryTransitionSteady DEF SweepAct
    <3> QED
      BY <1>2, <2>2, <3>2, SteadyKeepsOwnRuns DEF SweepAct
  <2> QED
    BY <1>9, <2>1, <2>2 DEF Sweeper
<1>10. CASE Startup
  <2>1. CASE MinosStart \/ MinosServes \/ \E t \in Tasks : ReconcileLook(t)
    BY <1>1, <1>2, <2>1, SteadyKeepsOwnRuns DEF MinosStart, MinosServes, ReconcileLook
  <2>2. ASSUME NEW t \in Tasks, ReconcileAct(t) PROVE OwnRuns'
    <3>1. RowsSteady
      BY <1>1, <1>4, <2>2, TryTransitionSteady DEF ReconcileAct
    <3> QED
      BY <1>2, <2>2, <3>1, SteadyKeepsOwnRuns DEF ReconcileAct
  <2> QED
    BY <1>10, <2>1, <2>2 DEF Startup
<1>11. CASE MinosCrash
  <2>1. HandlersSteady
    BY <1>11 DEF MinosCrash, Idle, HandlersSteady
  <2> QED
    BY <1>1, <1>11, <2>1, SteadyKeepsOwnRuns DEF MinosCrash
<1> QED
  BY <1>5, <1>6, <1>7, <1>8, <1>9, <1>10, <1>11 DEF MinosNext

LEMMA StepKeepsOwnRuns ==
  ASSUME WellTyped, SuccessIsExitZero, OwnRuns, [Next]_vars
  PROVE  OwnRuns'
<1>1. \A r \in Runs : PodKept(r)
  BY StepKeepsPods
<1>2. StoreTypeOK
  BY DEF WellTyped, TypeOK
<1>3. UNCHANGED tasks => RowsSteady
  BY DEF RowsSteady, RowSteady
<1>4. UNCHANGED minosVars \/ UNCHANGED vars => HandlersSteady
  BY DEF minosVars, vars, HandlersSteady
<1>5. CASE MinosNext
  BY <1>1, <1>5, MinosStepKeepsOwnRuns
<1>6. CASE ArgusNext /\ UNCHANGED minosVars
  <2>1. CASE MoveTask
    <3>1. argus.task \in Tasks
      BY <2>1 DEF MoveTask, WellTyped, Assigned, ArgusAssigned
    <3> QED
      BY <1>2, <1>3, <2>1, <3>1, TryTransitionSteady, <1>1, <1>4, <1>6, SteadyKeepsOwnRuns
      DEF MoveTask
  <2>2. CASE UNCHANGED tasks
    BY <1>1, <1>3, <1>4, <1>6, <2>2, SteadyKeepsOwnRuns
  <2> QED
    BY <1>6, <2>1, <2>2
    DEF ArgusNext, LoopStep, StartRound, Evaluate, RemovePod, UntrackTask, Heartbeat,
        HeartbeatSaved, ArgusCrash, ArgusStart
<1>7. CASE Tick
  <2>1. \A t \in Tasks : Aged(tasks[t]).run = tasks[t].run /\ Aged(tasks[t]).state = tasks[t].state
    BY <1>2 DEF StoreTypeOK, Aged, Row
  <2>2. RowsSteady
    BY <1>7, <2>1 DEF Tick, TasksAge, RowsSteady, RowSteady
  <2> QED
    BY <1>1, <1>4, <1>7, <2>2, SteadyKeepsOwnRuns DEF Tick
<1>8. CASE (ClusterNext /\ UNCHANGED <<tasks, minosVars>>) \/ UNCHANGED vars
  BY <1>1, <1>3, <1>4, <1>8, SteadyKeepsOwnRuns DEF vars
<1> QED
  BY <1>5, <1>6, <1>7, <1>8 DEF Next

RunsInv == WellTyped /\ SuccessIsExitZero /\ OwnRuns

LEMMA InitRunsInv == Init => RunsInv
<1> SUFFICES ASSUME Init PROVE RunsInv
  OBVIOUS
<1>1. SuccessIsExitZero
  BY DEF Init, ClusterInit, NoPod, SuccessIsExitZero
<1>2. OwnRuns
  BY DEF Init, StoreInit, NewRow, MinosInit, Idle, OwnRuns, RowsOwnRuns, DispatchSound
<1> QED
  BY <1>1, <1>2, InitWellTyped DEF RunsInv

LEMMA AlwaysRunsInv == Spec => []RunsInv
<1>1. RunsInv /\ [Next]_vars => RunsInv'
  BY StepKeepsWellTyped, StepKeepsPods, StepKeepsOwnRuns DEF RunsInv
<1> QED
  BY <1>1, InitRunsInv, PTL DEF Spec

(***************************************************************************)
(* A running task names a pod that was spawned for it, whatever dispatches *)
(* overlap, fail half-way or are lost in a crash: Reconcile and discover   *)
(* may look up the pod of any running task.                                *)
(***************************************************************************)
THEOREM RunningTasksHaveOwnRuns == Spec => []RunningHasOwnRun
<1>1. RunsInv => RunningHasOwnRun
  BY DEF RunsInv, OwnRuns, RowsOwnRuns, RunningHasOwnRun
<1> QED
  BY <1>1, AlwaysRunsInv, PTL

-----------------------------------------------------------------------------
(***************************************************************************)
(* A task under review has a worker that succeeded.  What a step knows of  *)
(* the pods stays true of them: an entry is for a run of its task, and a   *)
(* verdict "succeeded", once reached, is about a worker that did (and had  *)
(* no sidecar: the phase of a pod with one never says so).                 *)
(***************************************************************************)
Worked(t) == ~ Sidecar /\ \E r \in Runs : pods[r].task = t /\ pods[r].exit = "zero"

IsFor(t, e) == e.run # NoRun => pods[e.run].task = t

EntriesForTheirTask ==
  /\ \A t \in Tasks : IsFor(t, tracked[t]) /\ IsFor(t, saved[t])
  /\ IsFor(beat.task, beat.entry)

\* The round walks entries that exist; the one being ended is not among them.
RoundSound ==
  /\ \A t \in argus.todo : Tracked(t)
  /\ argus.pc \in {"move", "delete", "untrack"} => argus.task \notin argus.todo

VerdictsEarned ==
  /\ argus.pc = "move" /\ argus.how = "hibernate" => Worked(argus.task)
  /\ \A t \in Tasks : recon[t] = "awaiting-review" => Worked(t)

ReviewsEarned == \A t \in Tasks : tasks[t].state = "awaiting-review" => Worked(t)

LEMMA WorkedKept ==
  ASSUME WellTyped, SuccessIsExitZero, \A r \in Runs : PodKept(r),
         NEW t \in Tasks, Worked(t)
  PROVE  \E r \in Runs : pods'[r].task = t /\ pods'[r].exit = "zero"
<1>1. PICK r \in Runs : pods[r].task = t /\ pods[r].exit = "zero"
  BY DEF Worked
<1>2. pods[r].phase # "none"
  BY <1>1 DEF SuccessIsExitZero
<1> QED
  BY <1>1, <1>2 DEF PodKept

LEMMA RunKeepsTask ==
  ASSUME WellTyped, \A r \in Runs : PodKept(r),
         NEW t \in Tasks, NEW e \in Entry, IsFor(t, e), e.run # NoRun
  PROVE  pods'[e.run].task = t
<1>1. e.run \in Runs
  BY DEF Entry
<1>2. pods[e.run].task = t /\ pods[e.run].phase # "none"
  BY <1>1, NoTaskAssumption DEF IsFor, WellTyped, Assigned, PodsAssigned
<1> QED
  BY <1>1, <1>2 DEF PodKept

\* A pod whose phase is Succeeded vouches for its task.
LEMMA SucceededWorked ==
  ASSUME SuccessIsExitZero, NEW t, NEW r \in Runs, pods[r].task = t,
         pods[r].phase = "Succeeded"
  PROVE  Worked(t)
  BY DEF SuccessIsExitZero, Worked

-----------------------------------------------------------------------------
\* No row comes under review by this step without a success.
ReviewEarned ==
  \A t \in Tasks : tasks'[t].state = "awaiting-review" =>
    tasks[t].state = "awaiting-review" \/ Worked(t)

LEMMA TryTransitionEarned ==
  ASSUME StoreTypeOK, NEW t \in Tasks, NEW to, TryTransitionTask(t, to),
         to = "awaiting-review" => Worked(t)
  PROVE  ReviewEarned
<1>1. CASE UNCHANGED tasks
  BY <1>1 DEF ReviewEarned
<1>2. CASE TransitionTask(t, to)
  <2>1. Moved(tasks[t], to).state = to
    BY <1>2, MovedRun DEF TransitionTask, StoreTypeOK
  <2>2. /\ tasks'[t] = Moved(tasks[t], to)
        /\ \A u \in Tasks \ {t} : tasks'[u] = tasks[u]
    BY <1>2 DEF TransitionTask, StoreTypeOK
  <2> QED
    BY <2>1, <2>2 DEF ReviewEarned
<1> QED
  BY <1>1, <1>2 DEF TryTransitionTask

\* Only Reconcile puts a task up for review; it has looked at its pod.
LEMMA MinosEarnsReview ==
  ASSUME RunsInv, VerdictsEarned, MinosNext
  PROVE  /\ ReviewEarned
         /\ \A t \in Tasks : recon'[t] = "awaiting-review" => Worked(t)
<1> USE DEF VerdictsEarned
<1>1. StoreTypeOK /\ MinosTypeOK
  BY DEF RunsInv, WellTyped, TypeOK
<1>2. UNCHANGED tasks => ReviewEarned
  BY DEF ReviewEarned
<1>3. UNCHANGED minosVars => UNCHANGED recon
  BY DEF minosVars
<1>4. ASSUME NEW h \in Handlers, NEW t \in Tasks, Commission(h, t) \/ Respawn(h, t)
      PROVE  ReviewEarned /\ UNCHANGED recon
  <2>1. \A u \in Tasks : tasks'[u] = tasks[u] \/ tasks'[u].state = "queued"
    BY <1>1, <1>4 DEF Commission, InsertTask, NewRow, Respawn, StoreTypeOK
  <2> QED
    BY <1>4, <2>1 DEF Commission, Respawn, Dispatch, ReviewEarned
<1>5. ASSUME NEW h \in Handlers, HandlerStep(h) PROVE ReviewEarned /\ UNCHANGED recon
  <2>1. handlers[h].pc # "idle" => handlers[h].task \in Tasks
    BY DEF RunsInv, WellTyped, Assigned, HandlersAssigned
  <2>2. CASE SpawnPod(h)
    BY <1>2, <2>2 DEF SpawnPod, Goto
  <2>3. CASE SpawnFails(h)
    BY <1>1, <1>2, <2>1, <2>3, TryTransitionEarned DEF SpawnFails, Return
  <2>4. CASE RecordRun(h)
    <3>1. SetTaskRun(handlers[h].task, handlers[h].run) => ReviewEarned
      BY <1>1, <2>1, <2>4 DEF RecordRun, SetTaskRun, StoreTypeOK, Row, ReviewEarned
    <3> QED
      BY <1>2, <2>4, <3>1 DEF RecordRun, Goto, Return
  <2>5. CASE StartTask(h)
    BY <1>1, <1>2, <2>1, <2>5, TryTransitionEarned DEF StartTask, Return
  <2> QED
    BY <1>5, <2>2, <2>3, <2>4, <2>5 DEF HandlerStep
<1>6. ASSUME NEW r \in Runs, NEW p \in PRs, ReportPR(r, p)
      PROVE  ReviewEarned /\ UNCHANGED recon
  <2>1. pods[r].task \in Tasks
    BY <1>6 DEF ReportPR, RunsInv, WellTyped, TypeOK, ClusterTypeOK, Pod, Assigned, PodsAssigned
  <2>2. ReviewEarned
    BY <1>1, <1>6, <2>1 DEF ReportPR, SetTaskPR, StoreTypeOK, Row, ReviewEarned
  <2> QED
    BY <1>3, <1>6, <2>2 DEF ReportPR
<1>7. ASSUME NEW t \in Tasks, NEW merged \in BOOLEAN, PullRequestClosed(t, merged)
      PROVE  ReviewEarned /\ UNCHANGED recon
  BY <1>1, <1>3, <1>7, TryTransitionEarned DEF PullRequestClosed, TryTransitionTask
<1>8. CASE Sweeper
  <2>1. CASE SweepList
    BY <1>2, <2>1 DEF SweepList
  <2>2. ASSUME NEW t \in Tasks, SweepAct(t) PROVE ReviewEarned /\ UNCHANGED recon
    <3>1. MarkTaskReminded(t) => ReviewEarned
      BY <1>1 DEF MarkTaskReminded, StoreTypeOK, Row, ReviewEarned
    <3> QED
      BY <1>1, <1>2, <2>2, <3>1, TryTransitionEarned DEF SweepAct
  <2> QED
    BY <1>8, <2>1, <2>2 DEF Sweeper
<1>9. CASE Startup
  <2>1. CASE MinosStart \/ MinosServes
    BY <1>2, <2>1 DEF MinosStart, MinosServes
  <2>2. ASSUME NEW t \in Tasks, ReconcileLook(t)
        PROVE  ReviewEarned /\ \A u \in Tasks : recon'[u] = "awaiting-review" => Worked(u)
    <3>1. /\ recon'[t] = "no" \/ recon'[t] = Reconciled(tasks[t].run)
          /\ \A u \in Tasks \ {t} : recon'[u] = recon[u]
      BY <1>1, <2>2 DEF ReconcileLook, MinosTypeOK
    <3>2. ASSUME Reconciled(tasks[t].run) = "awaiting-review" PROVE Worked(t)
      <4>1. /\ tasks[t].run \in Runs
            /\ tasks[t].run # NoRun
            /\ pods[tasks[t].run].phase = "Succeeded"
        BY <1>1, <3>2 DEF Reconciled, StoreTypeOK, Row
      <4> QED
        BY <4>1, SucceededWorked DEF RunsInv, OwnRuns, RowsOwnRuns
    <3> QED
      BY <1>2, <2>2, <3>1, <3>2 DEF ReconcileLook
  <2>3. ASSUME NEW t \in Tasks, ReconcileAct(t)
        PROVE  ReviewEarned /\ \A u \in Tasks : recon'[u] = "awaiting-review" => Worked(u)
    <3>1. \A u \in Tasks : recon'[u] = "no" \/ recon'[u] = recon[u]
      BY <1>1, <2>3 DEF ReconcileAct, MinosTypeOK
    <3>2. ReviewEarned
      BY <1>1, <1>2, <2>3, TryTransitionEarned DEF ReconcileAct
    <3> QED
      BY <3>1, <3>2
  <2> QED
    BY <1>9, <2>1, <2>2, <2>3 DEF Startup, MinosStart, MinosServes
<1>10. CASE MinosCrash
  BY <1>2, <1>10 DEF MinosCrash, NoWork
<1> QED
  BY <1>4, <1>5, <1>6, <1>7, <1>8, <1>9, <1>10 DEF MinosNext

\* Argus puts a task up for review on the strength of the phase it has read.
LEMMA ArgusEarnsReview ==
  ASSUME RunsInv, EntriesForTheirTask, RoundSound, VerdictsEarned, ArgusNext
  PROVE  /\ ReviewEarned
         /\ argus'.pc = "move" /\ argus'.how = "hibernate" => Worked(argus'.task)
<1>1. StoreTypeOK /\ ArgusTypeOK
  BY DEF RunsInv, WellTyped, TypeOK
<1>2. UNCHANGED tasks => ReviewEarned
  BY DEF ReviewEarned
<1>3. CASE MoveTask
  <2>1. argus.task \in Tasks
    BY <1>3 DEF MoveTask, RunsInv, WellTyped, Assigned, ArgusAssigned
  <2>2. argus'.pc # "move"
    BY <1>1, <1>3 DEF MoveTask, ArgusTypeOK, Loop
  <2>3. ReviewEarned
    BY <1>1, <1>2, <1>3, <2>1, TryTransitionEarned DEF MoveTask, VerdictsEarned
  <2> QED
    BY <2>2, <2>3
<1>4. ASSUME NEW t \in Tasks, Evaluate(t),
             argus'.pc = "move", argus'.how = "hibernate"
      PROVE  Worked(argus'.task)
  <2>1. tracked[t].run \in Runs /\ pods[tracked[t].run].task = t
    BY <1>1, <1>4 DEF Evaluate, RoundSound, Tracked, EntriesForTheirTask, IsFor,
                      ArgusTypeOK, Entry
  <2> DEFINE read(err) == IF err = "phase" THEN "unread" ELSE pods[tracked[t].run].phase
             how(err) == Ending(tracked[t], read(err))
  <2>2. PICK err \in {"none", "phase", "save"} :
          argus' = [pc   |-> IF how(err) = "none" THEN "loop"
                             ELSE IF how(err) = "terminate" THEN "delete" ELSE "move",
                    todo |-> argus.todo \ {t},
                    task |-> IF how(err) = "none" THEN NoTask ELSE t,
                    how  |-> how(err)]
    BY <1>4 DEF Evaluate
  <2>3. how(err) = "hibernate" /\ argus'.task = t
    <3> HIDE DEF how
    <3> QED
      BY <1>4, <2>2
  <2>4. pods[tracked[t].run].phase = "Succeeded"
    BY <2>3 DEF Ending
  <2> QED
    BY <2>1, <2>3, <2>4, SucceededWorked DEF RunsInv
<1>5. ASSUME argus'.pc = argus.pc, argus'.how = argus.how, argus'.task = argus.task
      PROVE  argus'.pc = "move" /\ argus'.how = "hibernate" => Worked(argus'.task)
  BY <1>5 DEF VerdictsEarned
<1>6. CASE StartRound
  BY <1>1, <1>2, <1>5, <1>6 DEF StartRound, ArgusTypeOK, Loop
<1>7. CASE RemovePod
  <2>1. argus'.pc = "move" => argus'.how = "terminate"
    BY <1>1, <1>7 DEF RemovePod, ArgusTypeOK, Loop
  <2> QED
    BY <1>2, <1>7, <2>1 DEF RemovePod
<1>8. CASE UntrackTask
  BY <1>1, <1>2, <1>8 DEF UntrackTask, ArgusTypeOK, Loop
<1>9. CASE ArgusCrash \/ ArgusStart
  BY <1>2, <1>9 DEF ArgusCrash, ArgusStart, AtRest
<1>10. CASE HeartbeatSaved \/ \E t \in Tasks : Heartbeat(t)
  BY <1>2, <1>5, <1>10 DEF HeartbeatSaved, Heartbeat
<1>11. ASSUME NEW t \in Tasks, Evaluate(t) PROVE ReviewEarned
  BY <1>2, <1>11 DEF Evaluate
<1> QED
  BY <1>3, <1>4, <1>6, <1>7, <1>8, <1>9, <1>10, <1>11 DEF ArgusNext, LoopStep

\* Whatever an entry is made from, it keeps its run.
SameRun(e, f) == f.run = e.run \/ f.run = NoRun

LEMMA RewrittenEntrySameRun ==
  ASSUME NEW e \in Entry
  PROVE  /\ SameRun(e, Noticed(e))
         /\ SameRun(e, [e EXCEPT !.terminated = TRUE])
         /\ SameRun(e, AgedEntry(e))
         /\ SameRun(e, NoEntry)
         /\ SameRun(e, [e EXCEPT !.silence = 0])
  BY DEF SameRun, Entry, Noticed, AgedEntry, NoEntry

\* Entries come from rows (discover), from each other, or are rewritten.
LEMMA ArgusKeepsEntries ==
  ASSUME RunsInv, EntriesForTheirTask, ArgusNext
  PROVE  /\ \A t \in Tasks : IsFor(t, tracked'[t]) /\ IsFor(t, saved'[t])
         /\ IsFor(beat'.task, beat'.entry)
<1>1. ArgusTypeOK
  BY DEF RunsInv, WellTyped, TypeOK
<1>2. ASSUME NEW t, NEW e, NEW f, IsFor(t, e), SameRun(e, f) PROVE IsFor(t, f)
  BY <1>2 DEF IsFor, SameRun
<1>3. ASSUME UNCHANGED <<tracked, saved, beat>>
      PROVE  /\ \A t \in Tasks : IsFor(t, tracked'[t]) /\ IsFor(t, saved'[t])
             /\ IsFor(beat'.task, beat'.entry)
  BY <1>3 DEF EntriesForTheirTask
<1>4. CASE StartRound
  <2>1. ASSUME NEW t \in Tasks PROVE IsFor(t, Fresh(t))
    BY DEF IsFor, Fresh, NoEntry, RunsInv, OwnRuns, RowsOwnRuns
  <2>2. \A t \in Tasks : /\ tracked'[t] = Fresh(t) \/ tracked'[t] = tracked[t]
                         /\ saved'[t] = Fresh(t) \/ saved'[t] = saved[t]
    BY <1>4 DEF StartRound
  <2>3. UNCHANGED beat
    BY <1>4 DEF StartRound
  <2> QED
    BY <2>1, <2>2, <2>3 DEF EntriesForTheirTask
<1>5. ASSUME NEW t \in Tasks, Evaluate(t)
      PROVE  /\ \A u \in Tasks : IsFor(u, tracked'[u]) /\ IsFor(u, saved'[u])
             /\ IsFor(beat'.task, beat'.entry)
  <2>1. PICK after : /\ SameRun(tracked[t], after)
                     /\ tracked' = [tracked EXCEPT ![t] = after]
                     /\ saved' = saved \/ saved' = [saved EXCEPT ![t] = after]
    <3>1. \E after \in {Noticed(tracked[t]), [tracked[t] EXCEPT !.terminated = TRUE]} :
            /\ tracked' = [tracked EXCEPT ![t] = after]
            /\ saved' = saved \/ saved' = [saved EXCEPT ![t] = after]
      BY <1>5 DEF Evaluate
    <3>2. /\ SameRun(tracked[t], Noticed(tracked[t]))
          /\ SameRun(tracked[t], [tracked[t] EXCEPT !.terminated = TRUE])
      BY <1>1, RewrittenEntrySameRun DEF ArgusTypeOK
    <3> QED
      BY <3>1, <3>2
  <2>2. IsFor(t, after)
    BY <1>2, <2>1 DEF EntriesForTheirTask
  <2>3. \A u \in Tasks : /\ (tracked'[u] = after /\ u = t) \/ tracked'[u] = tracked[u]
                         /\ (saved'[u] = after /\ u = t) \/ saved'[u] = saved[u]
    BY <1>1, <2>1 DEF ArgusTypeOK
  <2>4. UNCHANGED beat
    BY <1>5 DEF Evaluate
  <2> QED
    BY <2>2, <2>3, <2>4 DEF EntriesForTheirTask
<1>6. CASE MoveTask \/ RemovePod
  BY <1>3, <1>6 DEF MoveTask, RemovePod
<1>7. CASE UntrackTask
  <2>1. \A t \in Tasks : /\ tracked'[t] = NoEntry \/ tracked'[t] = tracked[t]
                         /\ saved'[t] = NoEntry \/ saved'[t] = saved[t]
    BY <1>1, <1>7 DEF UntrackTask, ArgusTypeOK
  <2>2. \A t : IsFor(t, NoEntry)
    BY DEF IsFor, NoEntry
  <2>3. UNCHANGED beat
    BY <1>7 DEF UntrackTask
  <2> QED
    BY <2>1, <2>2, <2>3 DEF EntriesForTheirTask
<1>8. ASSUME NEW t \in Tasks, Heartbeat(t)
      PROVE  /\ \A u \in Tasks : IsFor(u, tracked'[u]) /\ IsFor(u, saved'[u])
             /\ IsFor(beat'.task, beat'.entry)
  <2> DEFINE after == [tracked[t] EXCEPT !.silence = 0]
  <2>1. IsFor(t, after)
    <3>1. SameRun(tracked[t], after)
      BY <1>1, RewrittenEntrySameRun DEF ArgusTypeOK
    <3> HIDE DEF after
    <3> QED
      BY <1>2, <3>1 DEF EntriesForTheirTask
  <2>2. /\ tracked'[t] = after
        /\ \A u \in Tasks \ {t} : tracked'[u] = tracked[u]
    BY <1>1, <1>8 DEF Heartbeat, ArgusTypeOK
  <2>3. beat'.task = t /\ beat'.entry = after /\ UNCHANGED saved
    BY <1>8, <2>2 DEF Heartbeat
  <2> HIDE DEF after
  <2> QED
    BY <2>1, <2>2, <2>3 DEF EntriesForTheirTask
<1>9. CASE HeartbeatSaved
  <2>1. beat.task \in Tasks
    BY <1>9 DEF HeartbeatSaved, RunsInv, WellTyped, TypeOK, ArgusTypeOK, Assigned, ArgusAssigned
  <2>2. IsFor(beat.task, [beat.entry EXCEPT !.terminated = TRUE])
    <3>1. SameRun(beat.entry, [beat.entry EXCEPT !.terminated = TRUE])
      BY <1>1, RewrittenEntrySameRun DEF ArgusTypeOK
    <3> QED
      BY <1>2, <3>1 DEF EntriesForTheirTask
  <2>3. UNCHANGED saved
        \/ \E e : IsFor(beat.task, e) /\ saved' = [saved EXCEPT ![beat.task] = e]
    BY <1>9, <2>1, <2>2 DEF HeartbeatSaved, EntriesForTheirTask
  <2>4. \A u \in Tasks : IsFor(u, saved'[u])
    BY <1>1, <2>3 DEF EntriesForTheirTask, ArgusTypeOK
  <2>5. beat' = NoBeat /\ UNCHANGED tracked
    BY <1>9 DEF HeartbeatSaved
  <2> QED
    BY <2>4, <2>5 DEF EntriesForTheirTask, NoBeat, NoEntry, IsFor
<1>10. CASE ArgusCrash
  BY <1>10 DEF ArgusCrash, Nothing, NoBeat, NoEntry, IsFor, EntriesForTheirTask
<1>11. CASE ArgusStart
  <2>1. \A t \in Tasks : /\ saved'[t] = NoEntry \/ saved'[t] = saved[t]
                         /\ tracked'[t] = NoEntry \/ tracked'[t] = saved'[t]
    BY <1>11 DEF ArgusStart, Nothing
  <2>2. \A t : IsFor(t, NoEntry)
    BY DEF IsFor, NoEntry
  <2>3. UNCHANGED beat
    BY <1>11 DEF ArgusStart
  <2> QED
    BY <2>1, <2>2, <2>3 DEF EntriesForTheirTask
<1> QED
  BY <1>4, <1>5, <1>6, <1>7, <1>8, <1>9, <1>10, <1>11 DEF ArgusNext, LoopStep

\* The entry being ended was taken from the round before its end began.
LEMMA ArgusKeepsRoundSound ==
  ASSUME RunsInv, RoundSound, ArgusNext
  PROVE  RoundSound'
<1>1. ArgusTypeOK
  BY DEF RunsInv, WellTyped, TypeOK
<1>2. CASE StartRound
  <2>1. /\ argus'.todo = {t \in Tasks : tracked'[t].run # NoRun /\ ~ tracked'[t].terminated}
        /\ argus'.pc = "loop"
    BY <1>1, <1>2 DEF StartRound, ArgusTypeOK, Loop
  <2> QED
    BY <2>1 DEF RoundSound, Tracked
<1>3. ASSUME NEW t \in Tasks, Evaluate(t) PROVE RoundSound'
  <2>1. /\ argus'.todo = argus.todo \ {t}
        /\ argus'.pc # "loop" => argus'.task = t
    BY <1>3 DEF Evaluate
  <2>2. \A u \in Tasks \ {t} : tracked'[u] = tracked[u]
    BY <1>1, <1>3 DEF Evaluate, ArgusTypeOK
  <2>3. argus.todo \subseteq Tasks
    BY <1>1 DEF ArgusTypeOK, Loop
  <2> QED
    BY <2>1, <2>2, <2>3 DEF RoundSound, Tracked
<1>4. CASE MoveTask \/ RemovePod
  <2>1. argus'.todo = argus.todo /\ argus'.task = argus.task
    BY <1>1, <1>4 DEF MoveTask, RemovePod, ArgusTypeOK, Loop
  <2>2. UNCHANGED tracked /\ argus.pc \in {"move", "delete"}
    BY <1>4 DEF MoveTask, RemovePod
  <2> QED
    BY <2>1, <2>2 DEF RoundSound, Tracked
<1>5. CASE UntrackTask
  <2>1. argus'.todo = argus.todo /\ argus'.pc = "loop" /\ argus.task \notin argus.todo
    BY <1>1, <1>5 DEF UntrackTask, ArgusTypeOK, Loop, RoundSound
  <2>2. \A u \in argus.todo : tracked'[u] = tracked[u]
    BY <1>1, <1>5, <2>1 DEF UntrackTask, ArgusTypeOK, Loop
  <2> QED
    BY <2>1, <2>2 DEF RoundSound, Tracked
<1>6. ASSUME NEW t \in Tasks, Heartbeat(t) PROVE RoundSound'
  <2>1. UNCHANGED argus /\ \A u \in Tasks : tracked'[u].run = tracked[u].run
    BY <1>1, <1>6 DEF Heartbeat, ArgusTypeOK, Entry
  <2>2. argus.todo \subseteq Tasks
    BY <1>1 DEF ArgusTypeOK, Loop
  <2> QED
    BY <2>1, <2>2 DEF RoundSound, Tracked
<1>7. CASE HeartbeatSaved
  BY <1>7 DEF HeartbeatSaved, RoundSound, Tracked
<1>8. CASE ArgusCrash \/ ArgusStart
  BY <1>8 DEF ArgusCrash, ArgusStart, AtRest, RoundSound
<1> QED
  BY <1>2, <1>3, <1>4, <1>5, <1>6, <1>7, <1>8 DEF ArgusNext, LoopStep

-----------------------------------------------------------------------------
ReviewInv == /\ RunsInv
             /\ EntriesForTheirTask
             /\ RoundSound
             /\ VerdictsEarned
             /\ ReviewsEarned

\* What was known of the pods before a step is still so after it.
LEMMA KnowledgeKept ==
  ASSUME RunsInv, [Next]_vars
  PROVE  /\ \A t \in Tasks : Worked(t) => \E r \in Runs : pods'[r].task = t /\ pods'[r].exit = "zero"
         /\ \A t \in Tasks : \A e \in Entry :
              IsFor(t, e) => (e.run # NoRun => pods'[e.run].task = t)
<1>1. \A r \in Runs : PodKept(r)
  BY StepKeepsPods DEF RunsInv
<1> QED
  BY <1>1, WorkedKept, RunKeepsTask DEF RunsInv

LEMMA StepKeepsReviewInv == ReviewInv /\ [Next]_vars => ReviewInv'
<1> SUFFICES ASSUME ReviewInv, [Next]_vars PROVE ReviewInv'
  OBVIOUS
<1>1. RunsInv'
  BY StepKeepsWellTyped, StepKeepsPods, StepKeepsOwnRuns DEF ReviewInv, RunsInv
<1>2. RunsInv /\ StoreTypeOK /\ ArgusTypeOK
  BY DEF ReviewInv, RunsInv, WellTyped, TypeOK
<1>3. StoreTypeOK' /\ ArgusTypeOK' /\ ArgusAssigned'
  BY <1>1 DEF RunsInv, WellTyped, TypeOK, Assigned
\* The entries, before the step moves the pods.
<1>4. /\ \A t \in Tasks : IsFor(t, tracked'[t]) /\ IsFor(t, saved'[t])
      /\ IsFor(beat'.task, beat'.entry)
  <2>1. CASE ArgusNext
    BY <1>2, <2>1, ArgusKeepsEntries DEF ReviewInv
  <2>2. CASE UNCHANGED argusVars
    BY <2>2 DEF argusVars, ReviewInv, EntriesForTheirTask
  <2>3. CASE ArgusAges
    <3>1. ASSUME NEW t, NEW e \in Entry, IsFor(t, e) PROVE IsFor(t, AgedEntry(e))
      BY <3>1, RewrittenEntrySameRun DEF IsFor, SameRun
    <3>2. beat'.task = beat.task /\ beat'.entry = AgedEntry(beat.entry)
      BY <1>2, <2>3 DEF ArgusAges, ArgusTypeOK
    <3>3. \A t \in Tasks : tracked'[t] = AgedEntry(tracked[t]) /\ saved'[t] = AgedEntry(saved[t])
      BY <2>3 DEF ArgusAges
    <3> QED
      BY <1>2, <3>1, <3>2, <3>3 DEF ArgusTypeOK, ReviewInv, EntriesForTheirTask
  <2> QED
    BY <2>1, <2>2, <2>3 DEF Next, Tick, vars
<1>5. EntriesForTheirTask'
  <2>1. \A t \in Tasks : IsFor(t, tracked[t])' /\ IsFor(t, saved[t])'
    BY <1>2, <1>3, <1>4, KnowledgeKept DEF ArgusTypeOK, IsFor
  <2>2. beat'.task \in Tasks \cup {NoTask}
    BY <1>3 DEF ArgusTypeOK
  <2>3. IsFor(beat.task, beat.entry)'
    BY <1>2, <1>3, <1>4, <2>2, KnowledgeKept DEF ArgusTypeOK, ArgusAssigned, NoBeat, NoEntry, IsFor
  <2> QED
    BY <2>1, <2>3 DEF EntriesForTheirTask
<1>6. RoundSound'
  <2>1. CASE ArgusNext
    BY <1>2, <2>1, ArgusKeepsRoundSound DEF ReviewInv
  <2>2. CASE UNCHANGED argusVars
    BY <2>2 DEF argusVars, ReviewInv, RoundSound, Tracked
  <2>3. CASE ArgusAges
    <3>1. \A e \in Entry : e.run # NoRun => AgedEntry(e).run # NoRun
      BY DEF AgedEntry, Entry
    <3>2. \A t \in Tasks : tracked[t] \in Entry /\ tracked'[t] = AgedEntry(tracked[t])
      BY <1>2, <2>3 DEF ArgusAges, ArgusTypeOK
    <3>3. UNCHANGED argus /\ argus.todo \subseteq Tasks
      BY <1>2, <2>3 DEF ArgusAges, ArgusTypeOK, Loop
    <3> QED
      BY <3>1, <3>2, <3>3 DEF ReviewInv, RoundSound, Tracked
  <2> QED
    BY <2>1, <2>2, <2>3 DEF Next, Tick, vars
\* The verdicts and the rows, before the step moves the pods.
<1>7. /\ ReviewEarned
      /\ argus'.pc = "move" /\ argus'.how = "hibernate" => Worked(argus'.task)
      /\ \A t \in Tasks : recon'[t] = "awaiting-review" => Worked(t)
  <2>1. VerdictsEarned
    BY DEF ReviewInv
  <2>2. UNCHANGED tasks => ReviewEarned
    BY DEF ReviewEarned
  <2>3. UNCHANGED argus => (argus'.pc = "move" /\ argus'.how = "hibernate" => Worked(argus'.task))
    BY <2>1 DEF VerdictsEarned
  <2>4. UNCHANGED recon => \A t \in Tasks : recon'[t] = "awaiting-review" => Worked(t)
    BY <2>1 DEF VerdictsEarned
  <2>5. CASE MinosNext /\ UNCHANGED argusVars
    BY <1>2, <2>1, <2>3, <2>5, MinosEarnsReview DEF argusVars
  <2>6. CASE ArgusNext /\ UNCHANGED minosVars
    BY <1>2, <2>1, <2>4, <2>6, ArgusEarnsReview DEF minosVars, ReviewInv
  <2>7. CASE Tick
    <3>1. \A t \in Tasks : Aged(tasks[t]).state = tasks[t].state
      BY <1>2 DEF StoreTypeOK, Aged, Row
    <3>2. ReviewEarned
      BY <2>7, <3>1 DEF Tick, TasksAge, ReviewEarned
    <3> QED
      BY <2>3, <2>4, <2>7, <3>2 DEF Tick, ArgusAges, minosVars
  <2>8. CASE UNCHANGED <<tasks, minosVars, argusVars>>
    BY <2>2, <2>3, <2>4, <2>8 DEF minosVars, argusVars
  <2> QED
    BY <2>5, <2>6, <2>7, <2>8 DEF Next, vars
<1>8. VerdictsEarned'
  <2>1. argus'.pc = "move" => argus'.task \in Tasks
    BY <1>3 DEF ArgusAssigned
  <2> QED
    BY <1>2, <1>7, <2>1, KnowledgeKept DEF VerdictsEarned, Worked
<1>9. ReviewsEarned'
  <2>1. ReviewsEarned
    BY DEF ReviewInv
  <2> QED
    BY <1>2, <1>7, <2>1, KnowledgeKept DEF ReviewEarned, ReviewsEarned, Worked
<1> QED
  BY <1>1, <1>5, <1>6, <1>8, <1>9 DEF ReviewInv

LEMMA InitReviewInv == Init => ReviewInv
<1> SUFFICES ASSUME Init PROVE ReviewInv
  OBVIOUS
<1>1. EntriesForTheirTask /\ RoundSound
  BY DEF Init, ArgusInit, AtRest, Nothing, NoBeat, NoEntry, EntriesForTheirTask, IsFor, RoundSound
<1>2. VerdictsEarned
  BY DEF Init, ArgusInit, AtRest, MinosInit, NoWork, VerdictsEarned
<1>3. ReviewsEarned
  BY DEF Init, StoreInit, NewRow, ReviewsEarned
<1> QED
  BY <1>1, <1>2, <1>3, InitRunsInv DEF ReviewInv

(***************************************************************************)
(* No task is put up for review, by Argus or by Reconcile and after any    *)
(* delays, failures and crashes, without a worker that exited with zero.   *)
(***************************************************************************)
THEOREM ReviewedTasksSucceeded == Spec => []ReviewHasSuccess
<1>1. ReviewInv => ReviewHasSuccess
  BY DEF ReviewInv, ReviewsEarned, Worked, ReviewHasSuccess
<1> QED
  BY <1>1, InitReviewInv, StepKeepsReviewInv, PTL DEF Spec

-----------------------------------------------------------------------------
(***************************************************************************)
(* Clocks.  An entry that is for the run of the row was made from the row  *)
(* while it was running, and has aged with it ever since; the row can only *)
(* have become younger.  So no entry may exist for a run before the row    *)
(* names it.                                                               *)
(***************************************************************************)
ClockOK(row, e) ==
  e.run # NoRun /\ e.run = row.run =>
    /\ e.wall >= row.age
    /\ OneDispatch /\ row.state = "running" => e.wall = row.age

Clocks ==
  \A t \in Tasks : /\ ClockOK(tasks[t], tracked[t])
                   /\ ClockOK(tasks[t], saved[t])
                   /\ beat.task = t => ClockOK(tasks[t], beat.entry)

Unwatched(r) == /\ \A t \in Tasks : tracked[t].run # r /\ saved[t].run # r
                /\ beat.entry.run # r

Unknown(r) == Unwatched(r) /\ \A t \in Tasks : tasks[t].run # r

HasRun(h) == handlers[h].pc \in {"record", "start"}

\* Until a run is recorded only its dispatch knows it.
RunsFresh ==
  /\ \A r \in Unspawned : Unknown(r) /\ \A h \in Handlers : HasRun(h) => handlers[h].run # r
  /\ \A h \in Handlers : handlers[h].pc = "record" => Unknown(handlers[h].run)
  /\ \A g, h \in Handlers : HasRun(g) /\ HasRun(h) /\ handlers[g].run = handlers[h].run => g = h

\* Without overlap, a dispatch starts a task that does not run, with a run
\* that nobody watches.
StartFresh(d) ==
  /\ d.pc # "idle" => tasks[d.task].state # "running"
  /\ d.pc = "start" => Unwatched(d.run) /\ tasks[d.task].run = d.run

StartsFresh == OneDispatch => \A h \in Handlers : StartFresh(handlers[h])

ClockInv == RunsInv /\ Clocks /\ RunsFresh /\ StartsFresh

(***************************************************************************)
(* Where an entry of task t comes from: from another one, or from the row. *)
(***************************************************************************)
SameClock(e, f) == f.run = e.run /\ f.wall = e.wall

Origin(t, f) ==
  \/ f.run = NoRun
  \/ SameClock(tracked[t], f) \/ SameClock(saved[t], f)
  \/ beat.task = t /\ SameClock(beat.entry, f)
  \/ tasks[t].state = "running" /\ f.run = tasks[t].run /\ f.wall = tasks[t].age

Origins ==
  /\ \A t \in Tasks : Origin(t, tracked'[t]) /\ Origin(t, saved'[t])
  /\ beat'.task \in Tasks => Origin(beat'.task, beat'.entry)

LEMMA RewrittenEntrySameClock ==
  ASSUME NEW e \in Entry
  PROVE  /\ SameClock(e, Noticed(e))
         /\ SameClock(e, [e EXCEPT !.terminated = TRUE])
         /\ SameClock(e, [e EXCEPT !.silence = 0])
  BY DEF SameClock, Entry, Noticed

LEMMA OriginsStay ==
  ASSUME UNCHANGED <<tracked, saved, beat>>
  PROVE  Origins
  BY DEF Origins, Origin, SameClock

LEMMA ArgusOrigins ==
  ASSUME RunsInv, ArgusNext
  PROVE  Origins
<1>1. ArgusTypeOK
  BY DEF RunsInv, WellTyped, TypeOK
<1>2. \A t : Origin(t, NoEntry)
  BY DEF Origin, NoEntry
<1>3. \A t \in Tasks : Origin(t, tracked[t]) /\ Origin(t, saved[t])
  BY DEF Origin, SameClock
<1>4. Origin(beat.task, beat.entry)
  BY DEF Origin, SameClock
<1>5. CASE StartRound
  <2>1. \A t \in Discovered : Origin(t, Fresh(t))
    BY DEF Discovered, TasksIn, Origin, Fresh, NoEntry
  <2>2. \A t \in Tasks : /\ (tracked'[t] = Fresh(t) /\ t \in Discovered) \/ tracked'[t] = tracked[t]
                         /\ (saved'[t] = Fresh(t) /\ t \in Discovered) \/ saved'[t] = saved[t]
    BY <1>5 DEF StartRound
  <2>3. UNCHANGED beat
    BY <1>5 DEF StartRound
  <2> QED
    BY <1>3, <1>4, <2>1, <2>2, <2>3 DEF Origins
<1>6. ASSUME NEW t \in Tasks, Evaluate(t) PROVE Origins
  <2>1. PICK after : /\ SameClock(tracked[t], after)
                     /\ tracked' = [tracked EXCEPT ![t] = after]
                     /\ saved' = saved \/ saved' = [saved EXCEPT ![t] = after]
    <3>1. \E after \in {Noticed(tracked[t]), [tracked[t] EXCEPT !.terminated = TRUE]} :
            /\ tracked' = [tracked EXCEPT ![t] = after]
            /\ saved' = saved \/ saved' = [saved EXCEPT ![t] = after]
      BY <1>6 DEF Evaluate
    <3>2. /\ SameClock(tracked[t], Noticed(tracked[t]))
          /\ SameClock(tracked[t], [tracked[t] EXCEPT !.terminated = TRUE])
      BY <1>1, RewrittenEntrySameClock DEF ArgusTypeOK
    <3> QED
      BY <3>1, <3>2
  <2>2. Origin(t, after)
    BY <2>1 DEF Origin
  <2>3. \A u \in Tasks : /\ (tracked'[u] = after /\ u = t) \/ tracked'[u] = tracked[u]
                         /\ (saved'[u] = after /\ u = t) \/ saved'[u] = saved[u]
    BY <1>1, <2>1 DEF ArgusTypeOK
  <2>4. UNCHANGED beat
    BY <1>6 DEF Evaluate
  <2> QED
    BY <1>3, <1>4, <2>2, <2>3, <2>4 DEF Origins
<1>7. CASE MoveTask \/ RemovePod
  BY <1>7, OriginsStay DEF MoveTask, RemovePod
<1>8. CASE UntrackTask
  <2>1. \A t \in Tasks : /\ tracked'[t] = NoEntry \/ tracked'[t] = tracked[t]
                         /\ saved'[t] = NoEntry \/ saved'[t] = saved[t]
    BY <1>1, <1>8 DEF UntrackTask, ArgusTypeOK
  <2>2. UNCHANGED beat
    BY <1>8 DEF UntrackTask
  <2> QED
    BY <1>2, <1>3, <1>4, <2>1, <2>2 DEF Origins
<1>9. ASSUME NEW t \in Tasks, Heartbeat(t) PROVE Origins
  <2> DEFINE after == [tracked[t] EXCEPT !.silence = 0]
  <2>1. Origin(t, after)
    <3>1. SameClock(tracked[t], after)
      BY <1>1, RewrittenEntrySameClock DEF ArgusTypeOK
    <3> HIDE DEF after
    <3> QED
      BY <3>1 DEF Origin
  <2>2. /\ tracked'[t] = after
        /\ \A u \in Tasks \ {t} : tracked'[u] = tracked[u]
    BY <1>1, <1>9 DEF Heartbeat, ArgusTypeOK
  <2>3. beat'.task = t /\ beat'.entry = after /\ UNCHANGED saved
    BY <1>9, <2>2 DEF Heartbeat
  <2> HIDE DEF after
  <2> QED
    BY <1>3, <2>1, <2>2, <2>3 DEF Origins
<1>10. CASE HeartbeatSaved
  <2>1. beat.task \in Tasks
    BY <1>10 DEF HeartbeatSaved, RunsInv, WellTyped, TypeOK, ArgusTypeOK, Assigned, ArgusAssigned
  <2>2. Origin(beat.task, [beat.entry EXCEPT !.terminated = TRUE])
    <3>1. SameClock(beat.entry, [beat.entry EXCEPT !.terminated = TRUE])
      BY <1>1, RewrittenEntrySameClock DEF ArgusTypeOK
    <3> QED
      BY <3>1 DEF Origin
  <2>3. UNCHANGED saved
        \/ \E e : Origin(beat.task, e) /\ saved' = [saved EXCEPT ![beat.task] = e]
    BY <1>3, <1>4, <1>10, <2>1, <2>2 DEF HeartbeatSaved
  <2>4. \A u \in Tasks : Origin(u, saved'[u])
    BY <1>1, <1>3, <2>3 DEF ArgusTypeOK
  <2>5. beat' = NoBeat /\ UNCHANGED tracked
    BY <1>10 DEF HeartbeatSaved
  <2>6. Origin(beat'.task, beat'.entry)
    BY <1>2, <2>5 DEF NoBeat
  <2> QED
    BY <1>3, <2>4, <2>5, <2>6 DEF Origins
<1>11. CASE ArgusCrash
  <2>1. /\ \A t \in Tasks : tracked'[t] = NoEntry
        /\ UNCHANGED saved /\ beat'.entry = NoEntry
    BY <1>11 DEF ArgusCrash, Nothing, NoBeat
  <2> QED
    BY <1>2, <1>3, <2>1 DEF Origins
<1>12. CASE ArgusStart
  <2>1. \A t \in Tasks : /\ saved'[t] = NoEntry \/ saved'[t] = saved[t]
                         /\ tracked'[t] = NoEntry \/ tracked'[t] = saved'[t]
    BY <1>12 DEF ArgusStart, Nothing
  <2>2. UNCHANGED beat
    BY <1>12 DEF ArgusStart
  <2> QED
    BY <1>2, <1>3, <1>4, <2>1, <2>2 DEF Origins
<1> QED
  BY <1>5, <1>6, <1>7, <1>8, <1>9, <1>10, <1>11, <1>12 DEF ArgusNext, LoopStep

-----------------------------------------------------------------------------
(***************************************************************************)
(* Most steps are calm: they start no task, and name no new run.           *)
(***************************************************************************)
RowCalm(old, new) ==
  /\ new.run = old.run
  /\ new.age <= old.age
  /\ new.state = "running" => old.state = "running" /\ new.age = old.age

RowsCalm == \A t \in Tasks : RowCalm(tasks[t], tasks'[t])

NothingSpawned == Unspawned' \subseteq Unspawned

LEMMA UnchangedCalm ==
  ASSUME StoreTypeOK, UNCHANGED tasks
  PROVE  RowsCalm
  BY DEF StoreTypeOK, Row, RowsCalm, RowCalm

LEMMA TryTransitionCalm ==
  ASSUME StoreTypeOK, NEW t \in Tasks, NEW to, to # "running", TryTransitionTask(t, to)
  PROVE  RowsCalm
<1>1. CASE UNCHANGED tasks
  BY <1>1, UnchangedCalm
<1>2. CASE TransitionTask(t, to)
  <2>1. RowCalm(tasks[t], Moved(tasks[t], to))
    BY <1>2, MovedRun DEF TransitionTask, StoreTypeOK, RowCalm, Moved, Row
  <2>2. \A u \in Tasks : RowCalm(tasks[u], tasks[u])
    BY DEF StoreTypeOK, Row, RowCalm
  <2> QED
    BY <1>2, <2>1, <2>2 DEF TransitionTask, StoreTypeOK, RowsCalm
<1> QED
  BY <1>1, <1>2 DEF TryTransitionTask

LEMMA PodsKeptNothingSpawned ==
  ASSUME \A r \in Runs : PodKept(r)
  PROVE  NothingSpawned
  BY DEF PodKept, NothingSpawned, Unspawned

\* A calm step leaves every entry as old as it should be.
LEMMA OriginClock ==
  ASSUME StoreTypeOK, StoreTypeOK', Clocks, RowsCalm, NEW t \in Tasks, NEW f \in Entry, Origin(t, f)
  PROVE  ClockOK(tasks'[t], f)
<1>1. /\ tasks[t] \in Row /\ RowCalm(tasks[t], tasks'[t])
      /\ MaxAge \in Nat
  BY MaxAgeAssumption DEF StoreTypeOK, RowsCalm
<1>2. ClockOK(tasks[t], f)
  <2>1. ASSUME NEW e, SameClock(e, f), ClockOK(tasks[t], e) PROVE ClockOK(tasks[t], f)
    BY <2>1 DEF SameClock, ClockOK
  <2>2. CASE f.run = NoRun
    BY <2>2 DEF ClockOK
  <2>3. CASE tasks[t].state = "running" /\ f.run = tasks[t].run /\ f.wall = tasks[t].age
    BY <1>1, <2>3 DEF ClockOK, Row
  <2> QED
    BY <2>1, <2>2, <2>3 DEF Origin, Clocks
<1> DEFINE now == tasks'[t]
<1>3. /\ now.age \in 0 .. MaxAge
      /\ now.run = tasks[t].run
      /\ now.age <= tasks[t].age
      /\ now.state = "running" => tasks[t].state = "running" /\ now.age = tasks[t].age
  BY <1>1 DEF RowCalm, StoreTypeOK, Row
<1> HIDE DEF now
<1>5. ClockOK(now, f)
  BY <1>1, <1>2, <1>3 DEF ClockOK, Row, Entry
<1> QED
  BY <1>5 DEF now

\* Only from a running row does a run come under watch.
LEMMA OriginWatched ==
  ASSUME NEW t \in Tasks, NEW f, Origin(t, f), NEW r \in Runs, Unwatched(r),
         tasks[t].run = r => tasks[t].state # "running"
  PROVE  f.run # r
  BY MaxRunsAssumption DEF Origin, SameClock, Unwatched, Runs, NoRun

LEMMA OriginsUnwatched ==
  ASSUME Origins, ArgusTypeOK', ArgusAssigned', NEW r \in Runs, Unwatched(r),
         \A t \in Tasks : tasks[t].run = r => tasks[t].state # "running"
  PROVE  Unwatched(r)'
<1>1. \A t \in Tasks : tracked'[t].run # r /\ saved'[t].run # r
  BY OriginWatched DEF Origins
<1>2. CASE beat'.task \in Tasks
  BY <1>1, <1>2, OriginWatched DEF Origins, Unwatched
<1>3. CASE beat'.task = NoTask
  BY <1>1, <1>3, MaxRunsAssumption DEF ArgusAssigned, NoBeat, NoEntry, Unwatched, Runs, NoRun
<1> QED
  BY <1>2, <1>3 DEF ArgusTypeOK

LEMMA CalmStepKeepsClocks ==
  ASSUME ClockInv, RunsInv', RowsCalm, HandlersSteady, NothingSpawned, Origins
  PROVE  ClockInv'
<1>1. StoreTypeOK /\ HandlersAssigned /\ OwnRuns
  BY DEF ClockInv, RunsInv, WellTyped, TypeOK, Assigned
<1>2. ArgusTypeOK' /\ ArgusAssigned' /\ StoreTypeOK'
  BY DEF RunsInv, WellTyped, TypeOK, Assigned
<1>3. Clocks /\ RunsFresh /\ StartsFresh
  BY DEF ClockInv
<1>4. Clocks'
  <2>1. \A t \in Tasks : ClockOK(tasks'[t], tracked'[t]) /\ ClockOK(tasks'[t], saved'[t])
    BY <1>1, <1>2, <1>3, OriginClock DEF Origins, ArgusTypeOK
  <2>2. beat'.task \in Tasks => ClockOK(tasks'[beat'.task], beat'.entry)
    BY <1>1, <1>2, <1>3, OriginClock DEF Origins, ArgusTypeOK
  <2> QED
    BY <2>1, <2>2 DEF Clocks, ClockOK, OneDispatch
<1>5. ASSUME NEW r \in Runs, Unknown(r) PROVE Unknown(r)'
  BY <1>2, <1>5, OriginsUnwatched DEF Unknown, RowsCalm, RowCalm
<1>6. \A h \in Handlers : handlers'[h].pc # "idle" => handlers'[h] = handlers[h]
  BY DEF HandlersSteady
<1>7. RunsFresh'
  <2>1. \A r \in Unspawned' : Unknown(r)'
    BY <1>3, <1>5 DEF NothingSpawned, RunsFresh, Unspawned
  <2>2. ASSUME NEW h \in Handlers, handlers'[h].pc = "record"
        PROVE  Unknown(handlers[h].run)'
    <3>1. /\ handlers'[h] = handlers[h] /\ handlers[h].run \in Runs
          /\ Unknown(handlers[h].run)
      BY <1>1, <1>3, <1>6, <2>2 DEF RunsFresh, HandlersAssigned
    <3>2. PICK r \in Runs : r = handlers[h].run
      BY <3>1
    <3>3. Unknown(r)'
      BY <1>5, <3>1, <3>2
    <3> QED
      BY <3>1, <3>2, <3>3 DEF Unknown, Unwatched
  <2>3. \A r \in Unspawned', h \in Handlers : HasRun(h)' => handlers'[h].run # r
    <3>1. \A r \in Unspawned', h \in Handlers : HasRun(h) => handlers[h].run # r
      BY <1>3 DEF NothingSpawned, RunsFresh
    <3>2. \A h \in Handlers : HasRun(h)' => HasRun(h) /\ handlers'[h] = handlers[h]
      BY <1>6 DEF HasRun
    <3> QED
      BY <3>1, <3>2
  <2>4. \A g, h \in Handlers : HasRun(g)' /\ HasRun(h)' /\ handlers'[g].run = handlers'[h].run => g = h
    BY <1>3, <1>6 DEF RunsFresh, HasRun
  <2> QED
    BY <2>1, <2>2, <2>3, <2>4 DEF RunsFresh
<1>8. StartsFresh'
  <2> SUFFICES ASSUME OneDispatch, NEW h \in Handlers, handlers'[h].pc # "idle"
               PROVE  StartFresh(handlers[h])'
    BY DEF StartsFresh, StartFresh, OneDispatch
  <2>1. handlers'[h] = handlers[h] /\ StartFresh(handlers[h]) /\ handlers[h].task \in Tasks
    BY <1>1, <1>3, <1>6 DEF StartsFresh, HandlersAssigned
  <2>2. tasks'[handlers[h].task].state # "running"
    BY <2>1 DEF StartFresh, RowsCalm, RowCalm
  <2>3. ASSUME handlers[h].pc = "start"
        PROVE  Unwatched(handlers[h].run)' /\ tasks'[handlers[h].task].run = handlers[h].run
    <3>1. handlers[h].run \in Runs /\ Unwatched(handlers[h].run)
      BY <1>1, <2>1, <2>3 DEF HandlersAssigned, StartFresh
    <3>2. \A t \in Tasks : tasks[t].run = handlers[h].run => t = handlers[h].task
      <4>1. handlers[h].run # NoRun
        BY <3>1, MaxRunsAssumption DEF Runs, NoRun
      <4> QED
        BY <1>1, <2>1, <2>3, <4>1 DEF OwnRuns, RowsOwnRuns, DispatchSound
    <3> QED
      BY <1>2, <2>1, <2>3, <3>1, <3>2, OriginsUnwatched DEF StartFresh, RowsCalm, RowCalm
  <2> QED
    BY <2>1, <2>2, <2>3 DEF StartFresh
<1> QED
  BY <1>4, <1>7, <1>8 DEF ClockInv

-----------------------------------------------------------------------------
(***************************************************************************)
(* The steps of a dispatch are the others.                                 *)
(***************************************************************************)
Unmoved == UNCHANGED <<tracked, saved, beat>>

\* It begins with a task that does not run.
LEMMA CommissionKeepsClocks ==
  ASSUME ClockInv, RunsInv', Unmoved, NEW h \in Handlers, NEW t \in Tasks,
         Commission(h, t) \/ Respawn(h, t)
  PROVE  ClockInv'
<1>1. /\ handlers'[h].pc = "spawn" /\ handlers'[h].task = t
      /\ \A g \in Handlers \ {h} : handlers'[g] = handlers[g]
  BY DEF Commission, Respawn, Dispatch, Idle, ClockInv, RunsInv, WellTyped, TypeOK, MinosTypeOK
<1>2. \A u \in Tasks : \/ tasks'[u] = tasks[u]
                       \/ tasks'[u].run = NoRun /\ tasks'[u].state = "queued"
  BY DEF Commission, InsertTask, NewRow, Respawn, ClockInv, RunsInv, WellTyped, TypeOK, StoreTypeOK
<1>3. tasks'[t].state # "running"
  BY DEF Commission, InsertTask, NewRow, Respawn, ClockInv, RunsInv, WellTyped, TypeOK, StoreTypeOK
<1>4. UNCHANGED pods
  BY DEF Commission, Respawn, clusterVars
<1>5. Clocks'
  <2>1. ASSUME NEW u \in Tasks, NEW e, ClockOK(tasks[u], e) PROVE ClockOK(tasks'[u], e)
    BY <1>2, <2>1 DEF ClockOK
  <2> QED
    BY <2>1 DEF ClockInv, Clocks, ClockOK, OneDispatch, Unmoved
<1>6. RunsFresh'
  <2>1. ASSUME NEW r, r # NoRun, Unknown(r) PROVE Unknown(r)'
    BY <1>2, <2>1 DEF Unknown, Unwatched, Unmoved
  <2>2. \A g \in Handlers : HasRun(g)' => HasRun(g) /\ handlers'[g] = handlers[g]
    BY <1>1 DEF HasRun
  <2>3. \A r \in Runs : r # NoRun
    BY MaxRunsAssumption DEF Runs, NoRun
  <2>4. \A r \in Unspawned : Unknown(r)' /\ \A g \in Handlers : HasRun(g)' => handlers'[g].run # r
    BY <2>1, <2>2, <2>3 DEF ClockInv, RunsFresh, Unspawned
  <2>5. ASSUME NEW g \in Handlers, handlers'[g].pc = "record" PROVE Unknown(handlers[g].run)'
    <3>1. /\ handlers'[g] = handlers[g] /\ handlers[g].run \in Runs
          /\ Unknown(handlers[g].run)
      BY <1>1, <2>5 DEF ClockInv, RunsInv, WellTyped, Assigned, HandlersAssigned, RunsFresh
    <3> QED
      BY <1>2, <2>3, <3>1 DEF Unknown, Unwatched, Unmoved
  <2>6. \A f, g \in Handlers : HasRun(f)' /\ HasRun(g)' /\ handlers'[f].run = handlers'[g].run => f = g
    BY <2>2 DEF ClockInv, RunsFresh
  <2> QED
    BY <1>4, <2>4, <2>5, <2>6 DEF RunsFresh, Unspawned
<1>7. StartsFresh'
  BY <1>1, <1>3 DEF StartsFresh, StartFresh, OneDispatch
<1> QED
  BY <1>5, <1>6, <1>7 DEF ClockInv

\* The run it spawns is known to nobody.
LEMMA SpawnPodKeepsClocks ==
  ASSUME ClockInv, RunsInv', Unmoved, NEW h \in Handlers, SpawnPod(h)
  PROVE  ClockInv'
<1>1. PICK q \in Unspawned : CreatePod(q, handlers[h].task) /\ Goto(h, "record", q)
  BY DEF SpawnPod, CreatePod
<1>2. handlers' = [handlers EXCEPT ![h] = [handlers[h] EXCEPT !.pc = "record", !.run = q]]
  BY <1>1 DEF Goto
<1>3. /\ handlers'[h].pc = "record" /\ handlers'[h].run = q
      /\ handlers'[h].task = handlers[h].task
      /\ \A g \in Handlers \ {h} : handlers'[g] = handlers[g]
  BY <1>2 DEF ClockInv, RunsInv, WellTyped, TypeOK, MinosTypeOK, Handler
<1>4. Unspawned' = Unspawned \ {q}
  BY <1>1 DEF CreatePod, Unspawned, ClockInv, RunsInv, WellTyped, TypeOK, ClusterTypeOK
<1>5. UNCHANGED tasks /\ handlers[h].pc = "spawn"
  BY DEF SpawnPod
<1>6. Clocks'
  BY <1>5 DEF ClockInv, Clocks, ClockOK, OneDispatch, Unmoved
<1>7. \A r : Unknown(r) => Unknown(r)'
  BY <1>5 DEF Unknown, Unwatched, Unmoved
<1>8. RunsFresh'
  <2>1. \A g \in Handlers \ {h} : HasRun(g)' => HasRun(g)
    BY <1>3 DEF HasRun
  <2>2. \A g \in Handlers \ {h} : HasRun(g) => handlers[g].run # q
    BY DEF ClockInv, RunsFresh
  <2>3. \A r \in Unspawned \ {q} : Unknown(r)' /\ \A g \in Handlers : HasRun(g)' => handlers'[g].run # r
    BY <1>3, <1>7, <2>1 DEF ClockInv, RunsFresh
  <2>4. ASSUME NEW g \in Handlers, handlers'[g].pc = "record" PROVE Unknown(handlers[g].run)'
    <3>1. CASE g = h
      BY <1>3, <1>5, <3>1 DEF ClockInv, RunsFresh, Unknown, Unwatched, Unmoved
    <3>2. CASE g # h
      BY <1>3, <1>5, <2>4, <3>2 DEF ClockInv, RunsFresh, Unknown, Unwatched, Unmoved
    <3> QED
      BY <3>1, <3>2
  <2>5. \A f, g \in Handlers : HasRun(f)' /\ HasRun(g)' /\ handlers'[f].run = handlers'[g].run => f = g
    BY <1>3, <2>1, <2>2 DEF ClockInv, RunsFresh
  <2> QED
    BY <1>4, <2>3, <2>4, <2>5 DEF RunsFresh
<1>9. StartsFresh'
  BY <1>3, <1>5 DEF ClockInv, StartsFresh, StartFresh, OneDispatch
<1> QED
  BY <1>6, <1>8, <1>9 DEF ClockInv

\* It is recorded before it is watched.
LEMMA RecordRunKeepsClocks ==
  ASSUME ClockInv, RunsInv', Unmoved, NEW h \in Handlers, handlers[h].pc = "record",
         SetTaskRun(handlers[h].task, handlers[h].run), Goto(h, "start", handlers[h].run),
         UNCHANGED pods
  PROVE  ClockInv'
<1> DEFINE t == handlers[h].task
           q == handlers[h].run
<1>1. t \in Tasks /\ q \in Runs /\ Unknown(q)
  BY DEF ClockInv, RunsInv, WellTyped, Assigned, HandlersAssigned, RunsFresh
<1>2. /\ tasks'[t].run = q
      /\ \A u \in Tasks \ {t} : tasks'[u] = tasks[u]
      /\ \A u \in Tasks : tasks'[u].state = tasks[u].state /\ tasks'[u].age = tasks[u].age
  BY <1>1 DEF SetTaskRun, ClockInv, RunsInv, WellTyped, TypeOK, StoreTypeOK, Row
<1>3. handlers' = [handlers EXCEPT ![h] = [handlers[h] EXCEPT !.pc = "start", !.run = q]]
  BY DEF Goto
<1>4. /\ handlers'[h].pc = "start" /\ handlers'[h].run = q /\ handlers'[h].task = t
      /\ \A g \in Handlers \ {h} : handlers'[g] = handlers[g]
  BY <1>3 DEF ClockInv, RunsInv, WellTyped, TypeOK, MinosTypeOK, Handler
<1>5. /\ \A r \in Unspawned : r # q
      /\ \A g \in Handlers \ {h} : HasRun(g) => handlers[g].run # q
  BY DEF ClockInv, RunsFresh, HasRun
<1>6. OneDispatch => tasks[t].state # "running"
  BY DEF ClockInv, StartsFresh, StartFresh
<1>7. Unspawned' = Unspawned
  BY DEF Unspawned
<1> HIDE DEF t, q
<1>8. Clocks'
  <2>1. ASSUME NEW u \in Tasks, NEW e, e.run # q, ClockOK(tasks[u], e)
        PROVE  ClockOK(tasks'[u], e)
    BY <1>2, <2>1 DEF ClockOK
  <2> QED
    BY <1>1, <2>1 DEF ClockInv, Clocks, ClockOK, OneDispatch, Unmoved, Unknown, Unwatched
<1>9. ASSUME NEW r, r # q, Unknown(r) PROVE Unknown(r)'
  BY <1>2, <1>9 DEF Unknown, Unwatched, Unmoved
<1>10. RunsFresh'
  <2>1. \A g \in Handlers : HasRun(g)' => HasRun(g) /\ handlers'[g].run = handlers[g].run
    BY <1>4 DEF HasRun, q
  <2>2. \A r \in Unspawned : Unknown(r)' /\ \A g \in Handlers : HasRun(g)' => handlers'[g].run # r
    BY <1>5, <1>9, <2>1 DEF ClockInv, RunsFresh
  <2>3. ASSUME NEW g \in Handlers, handlers'[g].pc = "record" PROVE Unknown(handlers[g].run)'
    <3>1. g # h /\ handlers'[g] = handlers[g]
      BY <1>4, <2>3
    <3>2. Unknown(handlers[g].run) /\ handlers[g].run # q
      BY <1>5, <2>3, <3>1 DEF ClockInv, RunsFresh, HasRun
    <3> QED
      BY <1>2, <3>1, <3>2 DEF Unknown, Unwatched, Unmoved
  <2>4. \A f, g \in Handlers : HasRun(f)' /\ HasRun(g)' /\ handlers'[f].run = handlers'[g].run => f = g
    BY <2>1 DEF ClockInv, RunsFresh
  <2> QED
    BY <1>7, <2>2, <2>3, <2>4 DEF RunsFresh
<1>11. StartsFresh'
  <2> SUFFICES ASSUME OneDispatch, NEW g \in Handlers PROVE StartFresh(handlers[g])'
    BY DEF StartsFresh, StartFresh, OneDispatch
  <2>1. g = h
    BY DEF OneDispatch
  <2> QED
    BY <1>1, <1>2, <1>4, <1>6, <2>1 DEF StartFresh, Unknown, Unwatched, Unmoved
<1> QED
  BY <1>8, <1>10, <1>11 DEF ClockInv

\* A start makes the row as young as can be; without overlap nobody watches
\* the run yet.
LEMMA StartTaskKeepsClocks ==
  ASSUME ClockInv, RunsInv', Unmoved, NEW h \in Handlers, handlers[h].pc = "start",
         TransitionTask(handlers[h].task, "running"), Return(h), UNCHANGED pods
  PROVE  ClockInv'
<1> DEFINE t == handlers[h].task
<1>1. t \in Tasks /\ ArgusTypeOK
  BY DEF ClockInv, RunsInv, WellTyped, TypeOK, Assigned, HandlersAssigned
<1>2. /\ tasks'[t].run = tasks[t].run /\ tasks'[t].age = 0
      /\ \A u \in Tasks \ {t} : tasks'[u] = tasks[u]
  BY <1>1 DEF TransitionTask, Moved, ClockInv, RunsInv, WellTyped, TypeOK, StoreTypeOK
<1>3. /\ handlers'[h].pc = "idle"
      /\ \A g \in Handlers \ {h} : handlers'[g] = handlers[g]
  BY DEF Return, Idle, ClockInv, RunsInv, WellTyped, TypeOK, MinosTypeOK
<1>4. OneDispatch => Unwatched(tasks[t].run)
  BY DEF ClockInv, StartsFresh, StartFresh
<1>5. Unspawned' = Unspawned
  BY DEF Unspawned
<1> HIDE DEF t
<1>6. Clocks'
  <2>1. ASSUME NEW u \in Tasks, NEW e \in Entry, ClockOK(tasks[u], e),
               OneDispatch => e.run # tasks[t].run
        PROVE  ClockOK(tasks'[u], e)
    BY <1>2, <2>1, MaxAgeAssumption DEF ClockOK, Entry
  <2> QED
    BY <1>1, <1>4, <2>1 DEF ClockInv, Clocks, ClockOK, OneDispatch, Unmoved, Unwatched, ArgusTypeOK
<1>7. \A r : Unknown(r) => Unknown(r)'
  BY <1>2 DEF Unknown, Unwatched, Unmoved
<1>8. RunsFresh'
  <2>1. \A g \in Handlers : HasRun(g)' => HasRun(g) /\ handlers'[g] = handlers[g]
    BY <1>3 DEF HasRun
  <2>2. ASSUME NEW g \in Handlers, handlers'[g].pc = "record" PROVE Unknown(handlers[g].run)'
    <3>1. handlers'[g] = handlers[g] /\ Unknown(handlers[g].run)
      BY <1>3, <2>2 DEF ClockInv, RunsFresh
    <3> QED
      BY <1>2, <3>1 DEF Unknown, Unwatched, Unmoved
  <2>3. \A r \in Unspawned : Unknown(r)' /\ \A g \in Handlers : HasRun(g)' => handlers'[g].run # r
    BY <1>7, <2>1 DEF ClockInv, RunsFresh
  <2>4. \A f, g \in Handlers : HasRun(f)' /\ HasRun(g)' /\ handlers'[f].run = handlers'[g].run => f = g
    BY <2>1 DEF ClockInv, RunsFresh
  <2> QED
    BY <1>5, <2>2, <2>3, <2>4 DEF RunsFresh
<1>9. StartsFresh'
  BY <1>3 DEF StartsFresh, StartFresh, OneDispatch
<1> QED
  BY <1>6, <1>8, <1>9 DEF ClockInv

\* Everything else Minos does is calm.
LEMMA MinosStepKeepsClocks ==
  ASSUME ClockInv, RunsInv', Unmoved, MinosNext, \A r \in Runs : PodKept(r)
  PROVE  ClockInv'
<1>1. NothingSpawned /\ Origins
  BY PodsKeptNothingSpawned, OriginsStay DEF Unmoved
<1>2. StoreTypeOK
  BY DEF ClockInv, RunsInv, WellTyped, TypeOK
<1>3. UNCHANGED handlers => HandlersSteady
  BY DEF HandlersSteady
<1>4. ASSUME NEW h \in Handlers, Return(h) PROVE HandlersSteady
  BY <1>4 DEF Return, Idle, HandlersSteady, ClockInv, RunsInv, WellTyped, TypeOK, MinosTypeOK
<1>5. ASSUME RowsCalm, HandlersSteady PROVE ClockInv'
  BY <1>1, <1>5, CalmStepKeepsClocks
<1>6. ASSUME NEW h \in Handlers, NEW t \in Tasks, Commission(h, t) \/ Respawn(h, t)
      PROVE  ClockInv'
  BY <1>6, CommissionKeepsClocks
<1>7. ASSUME NEW h \in Handlers, HandlerStep(h) PROVE ClockInv'
  <2>1. handlers[h].pc # "idle" => handlers[h].task \in Tasks
    BY DEF ClockInv, RunsInv, WellTyped, Assigned, HandlersAssigned
  <2>2. CASE SpawnPod(h)
    BY <2>2, SpawnPodKeepsClocks
  <2>3. CASE SpawnFails(h)
    <3>1. RowsCalm
      BY <1>2, <2>1, <2>3, TryTransitionCalm, UnchangedCalm DEF SpawnFails
    <3> QED
      BY <1>4, <1>5, <2>3, <3>1 DEF SpawnFails
  <2>4. CASE RecordRun(h)
    <3>1. CASE Return(h) /\ UNCHANGED tasks
      BY <1>2, <1>4, <1>5, <3>1, UnchangedCalm
    <3>2. CASE SetTaskRun(handlers[h].task, handlers[h].run) /\ Goto(h, "start", handlers[h].run)
      BY <2>4, <3>2, RecordRunKeepsClocks DEF RecordRun
    <3> QED
      BY <2>4, <3>1, <3>2 DEF RecordRun
  <2>5. CASE StartTask(h)
    <3>1. CASE UNCHANGED tasks
      BY <1>2, <1>4, <1>5, <2>5, <3>1, UnchangedCalm DEF StartTask
    <3>2. CASE TransitionTask(handlers[h].task, "running")
      BY <2>5, <3>2, StartTaskKeepsClocks DEF StartTask
    <3> QED
      BY <2>5, <3>1, <3>2 DEF StartTask, TryTransitionTask
  <2> QED
    BY <1>7, <2>2, <2>3, <2>4, <2>5 DEF HandlerStep
<1>8. ASSUME NEW r \in Runs, NEW p \in PRs, ReportPR(r, p) PROVE ClockInv'
  <2>1. pods[r].task \in Tasks
    BY <1>8 DEF ReportPR, ClockInv, RunsInv, WellTyped, TypeOK, ClusterTypeOK, Pod, Assigned, PodsAssigned
  <2>2. RowsCalm
    BY <1>2, <1>8, <2>1 DEF ReportPR, SetTaskPR, StoreTypeOK, Row, RowsCalm, RowCalm
  <2> QED
    BY <1>3, <1>5, <1>8, <2>2 DEF ReportPR, minosVars
<1>9. ASSUME NEW t \in Tasks, NEW merged \in BOOLEAN, PullRequestClosed(t, merged)
      PROVE  ClockInv'
  <2>1. RowsCalm
    BY <1>2, <1>9, TryTransitionCalm DEF PullRequestClosed, TryTransitionTask
  <2> QED
    BY <1>3, <1>5, <1>9, <2>1 DEF PullRequestClosed, minosVars
<1>10. CASE Sweeper
  <2>1. CASE SweepList
    BY <1>2, <1>3, <1>5, <2>1, UnchangedCalm DEF SweepList
  <2>2. ASSUME NEW t \in Tasks, SweepAct(t) PROVE ClockInv'
    <3>1. MarkTaskReminded(t) => RowsCalm
      BY <1>2 DEF MarkTaskReminded, StoreTypeOK, Row, RowsCalm, RowCalm
    <3>2. RowsCalm
      BY <1>2, <2>2, <3>1, TryTransitionCalm, UnchangedCalm DEF SweepAct
    <3> QED
      BY <1>3, <1>5, <2>2, <3>2 DEF SweepAct
  <2> QED
    BY <1>10, <2>1, <2>2 DEF Sweeper
<1>11. CASE Startup
  <2>1. CASE MinosStart \/ MinosServes \/ \E t \in Tasks : ReconcileLook(t)
    BY <1>2, <1>3, <1>5, <2>1, UnchangedCalm DEF MinosStart, MinosServes, ReconcileLook
  <2>2. ASSUME NEW t \in Tasks, ReconcileAct(t) PROVE ClockInv'
    <3>1. RowsCalm
      BY <1>2, <2>2, TryTransitionCalm, UnchangedCalm DEF ReconcileAct
    <3> QED
      BY <1>3, <1>5, <2>2, <3>1 DEF ReconcileAct
  <2> QED
    BY <1>11, <2>1, <2>2 DEF Startup
<1>12. CASE MinosCrash
  <2>1. HandlersSteady
    BY <1>12 DEF MinosCrash, Idle, HandlersSteady
  <2> QED
    BY <1>2, <1>5, <1>12, <2>1, UnchangedCalm DEF MinosCrash
<1> QED
  BY <1>6, <1>7, <1>8, <1>9, <1>10, <1>11, <1>12 DEF MinosNext

\* Rows and entries age together.
LEMMA TickKeepsClocks ==
  ASSUME ClockInv, RunsInv', Tick
  PROVE  ClockInv'
<1>1. StoreTypeOK /\ ArgusTypeOK
  BY DEF ClockInv, RunsInv, WellTyped, TypeOK
<1>2. /\ \A t \in Tasks : /\ tasks'[t] = Aged(tasks[t])
                          /\ tracked'[t] = AgedEntry(tracked[t])
                          /\ saved'[t] = AgedEntry(saved[t])
      /\ beat'.task = beat.task /\ beat'.entry = AgedEntry(beat.entry)
      /\ UNCHANGED <<pods, handlers>>
  BY <1>1 DEF Tick, TasksAge, ArgusAges, ArgusTypeOK, clusterVars, minosVars
<1>3. ASSUME NEW row \in Row, NEW e \in Entry, ClockOK(row, e)
      PROVE  ClockOK(Aged(row), AgedEntry(e))
  <2>1. /\ Aged(row).run = row.run /\ Aged(row).state = row.state
        /\ Aged(row).age \in {row.age, Older(row.age)}
        /\ row.state = "running" => Aged(row).age = Older(row.age)
    BY DEF Aged, Row
  <2>2. /\ AgedEntry(e).run = e.run
        /\ e.run # NoRun => AgedEntry(e).wall = Older(e.wall)
    BY DEF AgedEntry, Entry
  <2>3. row.age \in 0 .. MaxAge /\ e.wall \in 0 .. MaxAge
    BY DEF Row, Entry
  <2>4. \A m, n \in 0 .. MaxAge : n >= m => Older(n) >= m /\ Older(n) >= Older(m)
    BY MaxAgeAssumption DEF Older
  <2> QED
    BY <1>3, <2>1, <2>2, <2>3, <2>4 DEF ClockOK
<1>4. Clocks'
  <2>1. \A t \in Tasks : ClockOK(tasks'[t], tracked'[t]) /\ ClockOK(tasks'[t], saved'[t])
    BY <1>1, <1>2, <1>3 DEF ClockInv, Clocks, StoreTypeOK, ArgusTypeOK
  <2>2. \A t \in Tasks : beat'.task = t => ClockOK(tasks'[t], beat'.entry)
    BY <1>1, <1>2, <1>3 DEF ClockInv, Clocks, StoreTypeOK, ArgusTypeOK
  <2> QED
    BY <2>1, <2>2 DEF Clocks, ClockOK, OneDispatch
<1>5. /\ \A t \in Tasks : tasks'[t].run = tasks[t].run /\ tasks'[t].state = tasks[t].state
      /\ \A t \in Tasks : tracked'[t].run = tracked[t].run /\ saved'[t].run = saved[t].run
      /\ beat'.entry.run = beat.entry.run
  <2>1. \A row \in Row : Aged(row).run = row.run /\ Aged(row).state = row.state
    BY DEF Aged, Row
  <2>2. \A e \in Entry : AgedEntry(e).run = e.run
    BY DEF AgedEntry, Entry
  <2> QED
    BY <1>1, <1>2, <2>1, <2>2 DEF StoreTypeOK, ArgusTypeOK
<1>6. \A r : Unwatched(r) => Unwatched(r)'
  BY <1>5 DEF Unwatched
<1>7. \A r : Unknown(r) => Unknown(r)'
  BY <1>5, <1>6 DEF Unknown
<1>8. RunsFresh'
  BY <1>2, <1>5 DEF ClockInv, RunsFresh, Unknown, Unwatched, HasRun, Unspawned
<1>9. StartsFresh'
  <2> SUFFICES ASSUME OneDispatch, NEW h \in Handlers, handlers'[h].pc # "idle"
               PROVE  StartFresh(handlers[h])'
    BY DEF StartsFresh, StartFresh, OneDispatch
  <2>1. handlers'[h] = handlers[h] /\ handlers[h].task \in Tasks /\ StartFresh(handlers[h])
    BY <1>2 DEF ClockInv, RunsInv, WellTyped, Assigned, HandlersAssigned, StartsFresh
  <2> QED
    BY <1>5, <2>1 DEF StartFresh, Unwatched
<1> QED
  BY <1>4, <1>8, <1>9 DEF ClockInv

LEMMA StepKeepsClockInv == ClockInv /\ [Next]_vars => ClockInv'
<1> SUFFICES ASSUME ClockInv, [Next]_vars PROVE ClockInv'
  OBVIOUS
<1>1. RunsInv' /\ \A r \in Runs : PodKept(r)
  BY StepKeepsWellTyped, StepKeepsPods, StepKeepsOwnRuns DEF ClockInv, RunsInv
<1>2. NothingSpawned /\ StoreTypeOK
  BY <1>1, PodsKeptNothingSpawned DEF ClockInv, RunsInv, WellTyped, TypeOK
<1>3. CASE MinosNext /\ UNCHANGED argusVars
  BY <1>1, <1>3, MinosStepKeepsClocks DEF argusVars, Unmoved
<1>4. CASE ArgusNext /\ UNCHANGED minosVars
  <2>1. Origins
    BY <1>4, ArgusOrigins DEF ClockInv
  <2>2. HandlersSteady
    BY <1>4 DEF minosVars, HandlersSteady
  <2>3. CASE MoveTask
    <3>1. argus.task \in Tasks
      BY <2>3 DEF MoveTask, ClockInv, RunsInv, WellTyped, Assigned, ArgusAssigned
    <3>2. RowsCalm
      BY <1>2, <2>3, <3>1, TryTransitionCalm, UnchangedCalm DEF MoveTask
    <3> QED
      BY <1>1, <1>2, <2>1, <2>2, <3>2, CalmStepKeepsClocks
  <2>4. CASE UNCHANGED tasks
    BY <1>1, <1>2, <2>1, <2>2, <2>4, UnchangedCalm, CalmStepKeepsClocks
  <2> QED
    BY <1>4, <2>3, <2>4
    DEF ArgusNext, LoopStep, StartRound, Evaluate, RemovePod, UntrackTask, Heartbeat,
        HeartbeatSaved, ArgusCrash, ArgusStart
<1>5. CASE Tick
  BY <1>1, <1>5, TickKeepsClocks
<1>6. CASE UNCHANGED <<tasks, minosVars, argusVars>>
  <2>1. Origins /\ HandlersSteady
    BY <1>6, OriginsStay DEF minosVars, argusVars, HandlersSteady
  <2> QED
    BY <1>1, <1>2, <1>6, <2>1, UnchangedCalm, CalmStepKeepsClocks
<1> QED
  BY <1>3, <1>4, <1>5, <1>6 DEF Next, vars

LEMMA InitClockInv == Init => ClockInv
<1> SUFFICES ASSUME Init PROVE ClockInv
  OBVIOUS
<1>1. Clocks
  BY DEF Init, ArgusInit, Nothing, NoBeat, NoEntry, Clocks, ClockOK
<1>2. RunsFresh
  BY MaxRunsAssumption
  DEF Init, StoreInit, NewRow, ArgusInit, Nothing, NoBeat, NoEntry, MinosInit, Idle, RunsFresh,
      Unknown, Unwatched, HasRun, Unspawned, Runs, NoRun
<1>3. StartsFresh
  BY DEF Init, MinosInit, Idle, StartsFresh, StartFresh
<1> QED
  BY <1>1, <1>2, <1>3, InitRunsInv DEF ClockInv

(***************************************************************************)
(* Argus never charges a run with less than its age, through restarts,     *)
(* failed saves and late heartbeats, and without overlapping dispatches    *)
(* never with more: a run is ended by its own clock.                       *)
(***************************************************************************)
THEOREM WallClockFollowsRun == Spec => []WallClockIsRunAge
<1>1. ClockInv => WallClockIsRunAge
  BY DEF ClockInv, Clocks, ClockOK, WallClockIsRunAge, Tracked
<1> QED
  BY <1>1, InitClockInv, StepKeepsClockInv, PTL DEF Spec

-----------------------------------------------------------------------------
(***************************************************************************)
(* hibernate and markFailed were called for a pod that was over, and a pod *)
(* that is over stays over until they delete it.                           *)
(***************************************************************************)
Over(r) == r \in Runs /\ pods[r].phase \in {"Succeeded", "Failed", "gone"}

EndsOver ==
  argus.pc \in {"move", "delete"} /\ argus.how # "terminate" => Over(tracked[argus.task].run)

OverInv == ReviewInv /\ EndsOver

OverKept == \A r \in Runs : Over(r) => Over(r)'

\* Who ends a live pod: the budget and stall rules, or someone else.
LiveEnds ==
  \A r \in Runs : Live(r) /\ pods'[r].phase = "gone" =>
    argus.how = "terminate" \/ faults' < faults

LEMMA CreatePodOver ==
  ASSUME ClusterOK, NEW q \in Runs, NEW t \in Tasks, CreatePod(q, t)
  PROVE  OverKept /\ LiveEnds
  BY DEF ClusterOK, ClusterTypeOK, CreatePod, Unspawned, Pod, Over, OverKept, LiveEnds, Live

LEMMA DeletePodOver ==
  ASSUME ClusterOK, NEW q, DeletePod(q)
  PROVE  /\ OverKept
         /\ \A r \in Runs : Live(r) /\ pods'[r].phase = "gone" => r = q
  BY DEF ClusterOK, ClusterTypeOK, DeletePod, Pod, Over, OverKept, Live

LEMMA ClusterStepOver ==
  ASSUME ClusterOK, ClusterNext
  PROVE  OverKept /\ LiveEnds
<1> SUFFICES ASSUME NEW q \in Runs,
                    PodStarts(q) \/ WorkerExits(q) \/ PodEvicted(q) \/ PodLost(q)
             PROVE  OverKept /\ LiveEnds
  BY DEF ClusterNext
<1> USE DEF ClusterOK, ClusterTypeOK, Pod, Over, OverKept, LiveEnds, Live
<1>1. CASE PodStarts(q)
  BY <1>1 DEF PodStarts
<1>2. CASE WorkerExits(q)
  BY <1>2 DEF WorkerExits
<1>3. CASE PodEvicted(q)
  BY <1>3 DEF PodEvicted
<1>4. CASE PodLost(q)
  <2>1. faults' < faults
    BY <1>4, MaxFaultsAssumption DEF PodLost, Spend
  <2> QED
    BY <1>4, <2>1, DeletePodOver DEF PodLost
<1> QED
  BY <1>1, <1>2, <1>3, <1>4

LEMMA StepOver ==
  ASSUME OverInv, [Next]_vars
  PROVE  OverKept /\ LiveEnds
<1>1. ClusterOK /\ HandlersAssigned /\ ArgusTypeOK /\ ArgusAssigned
  BY DEF OverInv, ReviewInv, RunsInv, WellTyped, TypeOK, Assigned, ClusterOK
<1>2. UNCHANGED pods => OverKept /\ LiveEnds
  BY DEF Over, OverKept, LiveEnds, Live
<1>3. ASSUME NEW h \in Handlers, SpawnPod(h) \/ SpawnFails(h) PROVE OverKept /\ LiveEnds
  <2>1. handlers[h].task \in Tasks
    BY <1>1, <1>3 DEF SpawnPod, SpawnFails, HandlersAssigned
  <2> QED
    BY <1>1, <1>2, <1>3, <2>1, CreatePodOver DEF SpawnPod, SpawnFails
<1>4. CASE MinosNext
  <2>1. (\E h \in Handlers : SpawnPod(h) \/ SpawnFails(h)) \/ UNCHANGED pods
    BY <1>4
    DEF MinosNext, HandlerStep, Commission, Respawn, RecordRun, StartTask, ReportPR,
        PullRequestClosed, Sweeper, SweepList, SweepAct, Startup, MinosStart, MinosServes,
        ReconcileLook, ReconcileAct, MinosCrash, clusterVars
  <2> QED
    BY <1>2, <1>3, <2>1
<1>5. CASE RemovePod
  <2>1. CASE UNCHANGED pods
    BY <1>2, <2>1
  <2>2. CASE DeletePod(tracked[argus.task].run)
    <3>1. /\ OverKept
          /\ \A r \in Runs : Live(r) /\ pods'[r].phase = "gone" => r = tracked[argus.task].run
      BY <1>1, <2>2, DeletePodOver
    <3>2. argus.how # "terminate" => ~ Live(tracked[argus.task].run)
      BY <1>5 DEF RemovePod, OverInv, EndsOver, Over, Live
    <3> QED
      BY <3>1, <3>2 DEF LiveEnds
  <2> QED
    BY <1>5, <2>1, <2>2 DEF RemovePod
<1>6. CASE ArgusNext /\ ~ RemovePod
  BY <1>2, <1>6
  DEF ArgusNext, LoopStep, StartRound, Evaluate, MoveTask, UntrackTask, Heartbeat,
      HeartbeatSaved, ArgusCrash, ArgusStart, clusterVars
<1>7. CASE ClusterNext
  BY <1>1, <1>7, ClusterStepOver
<1>8. CASE Tick \/ UNCHANGED vars
  BY <1>2, <1>8 DEF Tick, vars, clusterVars
<1> QED
  BY <1>4, <1>5, <1>6, <1>7, <1>8 DEF Next

\* The phase that was read names the end.
LEMMA EvaluateEndsOver ==
  ASSUME ArgusTypeOK, RoundSound, NEW t \in Tasks, Evaluate(t), argus'.pc \in {"move", "delete"}
  PROVE  /\ argus'.task = t /\ tracked'[t].run = tracked[t].run
         /\ argus'.how # "terminate" => Over(tracked[t].run)
<1> DEFINE read(err) == IF err = "phase" THEN "unread" ELSE pods[tracked[t].run].phase
           how(err) == Ending(tracked[t], read(err))
<1>1. PICK err \in {"none", "phase", "save"} :
        argus' = [pc   |-> IF how(err) = "none" THEN "loop"
                           ELSE IF how(err) = "terminate" THEN "delete" ELSE "move",
                  todo |-> argus.todo \ {t},
                  task |-> IF how(err) = "none" THEN NoTask ELSE t,
                  how  |-> how(err)]
  BY DEF Evaluate
<1>2. argus'.task = t /\ argus'.how = how(err) /\ how(err) # "none"
  <2> HIDE DEF how
  <2> QED
    BY <1>1
<1>3. how(err) # "terminate" => Over(tracked[t].run)
  <2>1. tracked[t].run \in Runs
    BY DEF Evaluate, RoundSound, Tracked, ArgusTypeOK, Entry
  <2> QED
    BY <1>2, <2>1 DEF Ending, Over
<1>4. tracked'[t].run = tracked[t].run
  <2>1. \E after \in {Noticed(tracked[t]), [tracked[t] EXCEPT !.terminated = TRUE]} :
          tracked' = [tracked EXCEPT ![t] = after]
    BY DEF Evaluate
  <2>2. \A after \in {Noticed(tracked[t]), [tracked[t] EXCEPT !.terminated = TRUE]} :
          after.run = tracked[t].run
    BY RewrittenEntrySameClock DEF ArgusTypeOK, SameClock
  <2> QED
    BY <2>1, <2>2 DEF ArgusTypeOK
<1> QED
  BY <1>2, <1>3, <1>4

LEMMA StepKeepsOverInv == OverInv /\ [Next]_vars => OverInv'
<1> SUFFICES ASSUME OverInv, [Next]_vars PROVE OverInv'
  OBVIOUS
<1>1. ReviewInv' /\ OverKept
  BY StepKeepsReviewInv, StepOver DEF OverInv
<1>2. ArgusTypeOK /\ ArgusTypeOK' /\ ArgusAssigned /\ RoundSound
  BY <1>1 DEF OverInv, ReviewInv, RunsInv, WellTyped, TypeOK, Assigned
<1>3. ASSUME argus'.pc \in {"move", "delete"}, argus'.how # "terminate"
      PROVE  Over(tracked'[argus'.task].run)
  <2>1. ASSUME argus.pc \in {"move", "delete"}, argus.how # "terminate",
               tracked'[argus'.task].run = tracked[argus.task].run
        PROVE  Over(tracked'[argus'.task].run)
    BY <2>1 DEF OverInv, EndsOver
  <2>2. ASSUME NEW t \in Tasks, Evaluate(t) PROVE Over(tracked'[argus'.task].run)
    BY <1>2, <1>3, <2>2, EvaluateEndsOver
  <2>3. CASE StartRound \/ UntrackTask \/ ArgusCrash \/ ArgusStart
    <3>1. CASE StartRound
      <4>1. argus'.pc = "loop"
        BY <1>2, <3>1 DEF StartRound, ArgusTypeOK, Loop
      <4> QED
        BY <1>3, <4>1
    <3>2. CASE UntrackTask
      BY <1>2, <1>3, <3>2 DEF UntrackTask, ArgusTypeOK, Loop
    <3>3. CASE ArgusCrash \/ ArgusStart
      BY <1>3, <3>3 DEF ArgusCrash, ArgusStart, AtRest
    <3> QED
      BY <2>3, <3>1, <3>2, <3>3
  <2>4. CASE MoveTask \/ RemovePod
    <3>1. /\ argus.pc \in {"move", "delete"} /\ argus'.how = argus.how
          /\ argus'.task = argus.task /\ UNCHANGED tracked
      BY <1>2, <2>4 DEF MoveTask, RemovePod, ArgusTypeOK, Loop
    <3> QED
      BY <1>3, <2>1, <3>1
  <2>5. ASSUME UNCHANGED argus, \A t \in Tasks : tracked'[t].run = tracked[t].run
        PROVE  Over(tracked'[argus'.task].run)
    BY <1>2, <1>3, <2>1, <2>5 DEF ArgusAssigned
  <2>6. ASSUME NEW t \in Tasks, Heartbeat(t) PROVE Over(tracked'[argus'.task].run)
    BY <1>2, <2>5, <2>6 DEF Heartbeat, ArgusTypeOK, Entry
  <2>7. CASE HeartbeatSaved
    BY <2>5, <2>7 DEF HeartbeatSaved
  <2>8. CASE Tick
    <3>1. \A e \in Entry : AgedEntry(e).run = e.run
      BY DEF AgedEntry, Entry
    <3> QED
      BY <1>2, <2>5, <2>8, <3>1 DEF Tick, ArgusAges, ArgusTypeOK
  <2>9. CASE UNCHANGED argusVars
    BY <2>5, <2>9 DEF argusVars
  <2> QED
    BY <2>2, <2>3, <2>4, <2>6, <2>7, <2>8, <2>9 DEF Next, ArgusNext, LoopStep, vars
<1>4. EndsOver'
  BY <1>1, <1>3 DEF EndsOver, OverKept, Over
<1> QED
  BY <1>1, <1>4 DEF OverInv

LEMMA InitOverInv == Init => OverInv
  BY InitReviewInv DEF OverInv, EndsOver, Init, ArgusInit, AtRest

(***************************************************************************)
(* Argus deletes a live pod only to enforce a limit (terminate), however   *)
(* stale the phase that hibernate and markFailed act on.                   *)
(***************************************************************************)
THEOREM OnlyTerminateEndsLivePods == Spec => LivePodDeletedOnlyByTerminate
<1>1. OverInv /\ [Next]_vars => [LiveEnds]_vars
  BY StepOver
<1>2. [LiveEnds]_vars =>
        [\A r \in Runs : Live(r) /\ pods'[r].phase = "gone" =>
           argus.how = "terminate" \/ faults' < faults]_vars
  BY DEF LiveEnds
<1> QED
  BY <1>1, <1>2, InitOverInv, StepKeepsOverInv, PTL DEF Spec, LivePodDeletedOnlyByTerminate

-----------------------------------------------------------------------------
(***************************************************************************)
(* What has to be true at every moment for something to happen in the end. *)
(* Liveness is TLC's; but a task that waits has somebody to wait for, or   *)
(* else a call has failed or a process has died.                           *)
(***************************************************************************)
Disturbed == faults < MaxFaults \/ minosCrashes < MaxMinosCrashes

LEMMA DisturbedStays ==
  ASSUME WellTyped, [Next]_vars
  PROVE  Disturbed => Disturbed'
<1>1. faults \in Nat /\ minosCrashes \in Nat
  BY MaxFaultsAssumption, MaxMinosCrashesAssumption
  DEF WellTyped, TypeOK, ClusterTypeOK, MinosTypeOK
<1>2. \A err : Spend(err) => faults' = faults \/ faults' = faults - 1
  BY DEF Spend
<1>3. faults' = faults \/ faults' = faults - 1
  <2>1. ASSUME NEW h \in Handlers, HandlerStep(h) PROVE faults' = faults \/ faults' = faults - 1
    BY <1>2, <2>1 DEF HandlerStep, SpawnPod, SpawnFails, RecordRun, StartTask
  <2>2. CASE MinosNext
    BY <1>2, <2>1, <2>2
    DEF MinosNext, Commission, Respawn, ReportPR, PullRequestClosed, Sweeper, SweepList, SweepAct,
        Startup, MinosStart, MinosServes, ReconcileLook, ReconcileAct, MinosCrash, clusterVars
  <2>3. CASE ArgusNext
    BY <1>2, <2>3
    DEF ArgusNext, LoopStep, StartRound, Evaluate, MoveTask, RemovePod, UntrackTask,
        Heartbeat, HeartbeatSaved, ArgusCrash, ArgusStart, clusterVars
  <2>4. CASE ClusterNext
    BY <1>2, <2>4 DEF ClusterNext, PodStarts, WorkerExits, PodEvicted, PodLost
  <2> QED
    BY <2>2, <2>3, <2>4 DEF Next, Tick, vars, clusterVars
<1>4. minosCrashes' = minosCrashes \/ minosCrashes' = minosCrashes - 1
  <2>1. CASE MinosNext
    BY <2>1
    DEF MinosNext, Commission, Respawn, Dispatch, HandlerStep, SpawnPod, SpawnFails, RecordRun,
        StartTask, Goto, Return, ReportPR, PullRequestClosed, Sweeper, SweepList, SweepAct,
        Startup, MinosStart, MinosServes, ReconcileLook, ReconcileAct, MinosCrash, minosVars
  <2> QED
    BY <2>1 DEF Next, Tick, vars, minosVars
<1> QED
  BY <1>1, <1>3, <1>4, MaxFaultsAssumption, MaxMinosCrashesAssumption DEF Disturbed

Busy(t) == \E h \in Handlers : handlers[h].pc # "idle" /\ handlers[h].task = t

QueuedIsBusy == \A t \in Tasks : tasks[t].state = "queued" => Busy(t) \/ Disturbed

\* Steps that put nothing into the queue and end no dispatch.
NothingQueued ==
  \A t \in Tasks : tasks'[t].state = "queued" => tasks[t].state = "queued"

LEMMA TryTransitionQueuesNothing ==
  ASSUME StoreTypeOK, NEW t \in Tasks, NEW to, to # "queued", TryTransitionTask(t, to)
  PROVE  NothingQueued
<1>1. CASE UNCHANGED tasks
  BY <1>1 DEF NothingQueued
<1>2. CASE TransitionTask(t, to)
  <2>1. Moved(tasks[t], to).state = to
    BY <1>2, MovedRun DEF TransitionTask, StoreTypeOK
  <2> QED
    BY <1>2, <2>1 DEF TransitionTask, StoreTypeOK, NothingQueued
<1> QED
  BY <1>1, <1>2 DEF TryTransitionTask

\* A dispatch that gives up without an error has moved its task on.
LEMMA MovedOutOfQueue ==
  ASSUME StoreTypeOK, NEW t \in Tasks, NEW to \in {"running", "failed"}, TryTransitionTask(t, to)
  PROVE  tasks'[t].state # "queued"
<1>1. CASE TransitionTask(t, to)
  <2>1. Moved(tasks[t], to).state = to
    BY <1>1, MovedRun DEF TransitionTask, StoreTypeOK
  <2> QED
    BY <1>1, <2>1 DEF TransitionTask, StoreTypeOK
<1>2. CASE ~ ValidTransition(tasks[t].state, to) /\ UNCHANGED tasks
  BY <1>2 DEF ValidTransition
<1> QED
  BY <1>1, <1>2 DEF TryTransitionTask

LEMMA MinosKeepsQueueBusy ==
  ASSUME WellTyped, QueuedIsBusy, MinosNext
  PROVE  \A t \in Tasks : tasks'[t].state = "queued" => Busy(t)' \/ Disturbed \/ Disturbed'
<1> DEFINE Goal == \A t \in Tasks : tasks'[t].state = "queued" => Busy(t)' \/ Disturbed \/ Disturbed'
<1>1. StoreTypeOK /\ MinosTypeOK /\ ClusterTypeOK /\ HandlersAssigned
  BY DEF WellTyped, TypeOK, Assigned
<1>2. UNCHANGED tasks => NothingQueued
  BY DEF NothingQueued
<1>3. ASSUME NothingQueued, UNCHANGED handlers PROVE Goal
  BY <1>3 DEF NothingQueued, QueuedIsBusy, Busy
<1>4. ASSUME NEW h \in Handlers, NEW t \in Tasks, Commission(h, t) \/ Respawn(h, t) PROVE Goal
  <2>1. /\ handlers[h].pc = "idle" /\ handlers'[h].pc = "spawn" /\ handlers'[h].task = t
        /\ \A g \in Handlers \ {h} : handlers'[g] = handlers[g]
    BY <1>1, <1>4 DEF Commission, Respawn, Dispatch, Idle, MinosTypeOK
  <2>2. \A u \in Tasks \ {t} : tasks'[u] = tasks[u]
    BY <1>1, <1>4 DEF Commission, Respawn, InsertTask, StoreTypeOK
  <2>3. Busy(t)'
    BY <2>1 DEF Busy
  <2>4. \A u \in Tasks : Busy(u) => Busy(u)'
    BY <2>1 DEF Busy
  <2> QED
    BY <2>2, <2>3, <2>4 DEF QueuedIsBusy
<1>5. ASSUME NEW h \in Handlers, HandlerStep(h) PROVE Goal
  <2> DEFINE t == handlers[h].task
  <2>1. t \in Tasks /\ faults \in 0 .. MaxFaults
    BY <1>1, <1>5
    DEF HandlersAssigned, HandlerStep, SpawnPod, SpawnFails, RecordRun, StartTask, ClusterTypeOK
  <2>2. \A err : err # "none" /\ Spend(err) => Disturbed'
    BY <2>1, MaxFaultsAssumption DEF Spend, Disturbed
  <2>3. ASSUME NEW pc, pc # "idle", NEW r, Goto(h, pc, r), NothingQueued, handlers[h].pc # "idle"
        PROVE  Goal
    <3>1. handlers' = [handlers EXCEPT ![h] = [handlers[h] EXCEPT !.pc = pc, !.run = r]]
      BY <2>3 DEF Goto
    <3>2. /\ handlers'[h].pc = pc /\ handlers'[h].task = handlers[h].task
          /\ \A g \in Handlers \ {h} : handlers'[g] = handlers[g]
      BY <1>1, <3>1 DEF MinosTypeOK, Handler
    <3>3. \A u \in Tasks : Busy(u) => Busy(u)'
      BY <2>3, <3>2 DEF Busy
    <3> QED
      BY <2>3, <3>3 DEF QueuedIsBusy, NothingQueued
  <2>4. ASSUME Return(h), NothingQueued, tasks'[t].state # "queued" PROVE Goal
    <3>1. \A g \in Handlers \ {h} : handlers'[g] = handlers[g]
      BY <1>1, <2>4 DEF Return, MinosTypeOK
    <3>2. \A u \in Tasks \ {t} : Busy(u) => Busy(u)'
      BY <3>1 DEF Busy
    <3> HIDE DEF t
    <3> QED
      BY <2>4, <3>2 DEF QueuedIsBusy, NothingQueued
  <2> HIDE DEF Goal
  <2>5. CASE SpawnPod(h)
    <3>1. \E r : Goto(h, "record", r)
      BY <2>5 DEF SpawnPod
    <3> QED
      BY <1>2, <2>3, <2>5, <3>1 DEF SpawnPod
  <2>6. CASE SpawnFails(h)
    <3>1. \/ Disturbed'
          \/ TryTransitionTask(t, "failed")
      BY <2>2, <2>6 DEF SpawnFails
    <3>2. TryTransitionTask(t, "failed") => NothingQueued /\ tasks'[t].state # "queued"
      BY <1>1, <2>1, TryTransitionQueuesNothing, MovedOutOfQueue
    <3> QED
      BY <2>4, <2>6, <3>1, <3>2 DEF SpawnFails, Goal
  <2>7. CASE RecordRun(h)
    <3>1. SetTaskRun(t, handlers[h].run) => NothingQueued
      BY <1>1, <2>1 DEF SetTaskRun, StoreTypeOK, Row, NothingQueued
    <3>2. Disturbed' \/ (Goto(h, "start", handlers[h].run) /\ SetTaskRun(t, handlers[h].run))
      BY <2>2, <2>7 DEF RecordRun
    <3> QED
      BY <2>3, <2>7, <3>1, <3>2 DEF RecordRun, Goal
  <2>8. CASE StartTask(h)
    <3>1. Disturbed' \/ TryTransitionTask(t, "running")
      BY <2>2, <2>8 DEF StartTask
    <3>2. TryTransitionTask(t, "running") => NothingQueued /\ tasks'[t].state # "queued"
      BY <1>1, <2>1, TryTransitionQueuesNothing, MovedOutOfQueue
    <3> QED
      BY <2>4, <2>8, <3>1, <3>2 DEF StartTask, Goal
  <2> QED
    BY <1>5, <2>5, <2>6, <2>7, <2>8 DEF HandlerStep
<1>6. ASSUME NEW r \in Runs, NEW p \in PRs, ReportPR(r, p) PROVE Goal
  <2>1. pods[r].task \in Tasks
    BY <1>6 DEF ReportPR, WellTyped, TypeOK, ClusterTypeOK, Pod, Assigned, PodsAssigned
  <2>2. NothingQueued
    BY <1>1, <1>6, <2>1 DEF ReportPR, SetTaskPR, StoreTypeOK, Row, NothingQueued
  <2> QED
    BY <1>3, <1>6, <2>2 DEF ReportPR, minosVars
<1>7. ASSUME NEW t \in Tasks, NEW merged \in BOOLEAN, PullRequestClosed(t, merged) PROVE Goal
  BY <1>1, <1>3, <1>7, TryTransitionQueuesNothing DEF PullRequestClosed, TryTransitionTask, minosVars
<1>8. ASSUME Sweeper PROVE Goal
  <2>1. CASE SweepList
    BY <1>2, <1>3, <2>1 DEF SweepList
  <2>2. ASSUME NEW t \in Tasks, SweepAct(t) PROVE Goal
    <3>1. MarkTaskReminded(t) => NothingQueued
      BY <1>1 DEF MarkTaskReminded, StoreTypeOK, Row, NothingQueued
    <3>2. NothingQueued
      BY <1>1, <1>2, <2>2, <3>1, TryTransitionQueuesNothing DEF SweepAct
    <3> QED
      BY <1>3, <2>2, <3>2 DEF SweepAct
  <2> QED
    BY <1>8, <2>1, <2>2 DEF Sweeper
<1>9. ASSUME Startup PROVE Goal
  <2>1. CASE MinosStart \/ MinosServes \/ \E t \in Tasks : ReconcileLook(t)
    BY <1>2, <1>3, <2>1 DEF MinosStart, MinosServes, ReconcileLook
  <2>2. ASSUME NEW t \in Tasks, ReconcileAct(t) PROVE Goal
    <3>1. NothingQueued
      BY <1>1, <1>2, <2>2, TryTransitionQueuesNothing DEF ReconcileAct
    <3> QED
      BY <1>3, <2>2, <3>1 DEF ReconcileAct
  <2> QED
    BY <1>9, <2>1, <2>2 DEF Startup
<1>10. ASSUME MinosCrash PROVE Goal
  <2>1. Disturbed'
    BY <1>1, <1>10, MaxMinosCrashesAssumption DEF MinosCrash, MinosTypeOK, Disturbed
  <2> QED
    BY <2>1
<1> HIDE DEF Goal
<1>11. Goal
  BY <1>4, <1>5, <1>6, <1>7, <1>8, <1>9, <1>10 DEF MinosNext
<1> QED
  BY <1>11 DEF Goal

LEMMA StepKeepsQueueBusy ==
  ASSUME WellTyped, QueuedIsBusy, [Next]_vars
  PROVE  QueuedIsBusy'
<1>1. StoreTypeOK
  BY DEF WellTyped, TypeOK
<1>2. CASE MinosNext
  BY <1>2, MinosKeepsQueueBusy, DisturbedStays DEF QueuedIsBusy
<1>3. CASE ~ MinosNext
  <2>1. UNCHANGED handlers
    BY <1>3 DEF Next, Tick, vars, minosVars
  <2>2. NothingQueued
    <3>1. CASE MoveTask
      <4>1. argus.task \in Tasks
        BY <3>1 DEF MoveTask, WellTyped, Assigned, ArgusAssigned
      <4> QED
        BY <1>1, <3>1, <4>1, TryTransitionQueuesNothing DEF MoveTask, NothingQueued
    <3>2. CASE UNCHANGED tasks
      BY <3>2 DEF NothingQueued
    <3>3. CASE Tick
      BY <1>1, <3>3 DEF Tick, TasksAge, Aged, StoreTypeOK, Row, NothingQueued
    <3> QED
      BY <1>3, <3>1, <3>2, <3>3
      DEF Next, vars, ArgusNext, LoopStep, StartRound, Evaluate, RemovePod, UntrackTask, Heartbeat,
          HeartbeatSaved, ArgusCrash, ArgusStart
  <2> QED
    BY <2>1, <2>2, DisturbedStays DEF QueuedIsBusy, NothingQueued, Busy
<1> QED
  BY <1>2, <1>3

(***************************************************************************)
(* A task that is queued is being dispatched by a handler, unless a call   *)
(* has failed or Minos has died: dispatch leaves a task in the queue only  *)
(* when SetTaskRun, a transition, or the process itself fails half-way.    *)
(***************************************************************************)
THEOREM QueuedTasksAreDispatched == Spec => []QueuedIsBusy
<1>1. Init => QueuedIsBusy
  BY DEF Init, StoreInit, NewRow, QueuedIsBusy
<1> QED
  BY <1>1, AlwaysWellTyped, StepKeepsQueueBusy, PTL DEF Spec

-----------------------------------------------------------------------------
(***************************************************************************)
(* evaluate passes over entries that are marked terminated.                *)
(***************************************************************************)
PassedOverIsEnding ==
  \A t \in Tasks : tracked[t].terminated =>
    (argus.pc \in {"move", "delete", "untrack"} /\ argus.task = t) \/ ArgusDied

PassedInv == PassedOverIsEnding /\ (argus.pc = "down" => ArgusDied)

LEMMA StepKeepsPassed ==
  ASSUME WellTyped, PassedInv, [Next]_vars
  PROVE  PassedInv'
<1>1. ArgusTypeOK /\ ArgusAssigned /\ argusCrashes \in Nat
  BY MaxArgusCrashesAssumption DEF WellTyped, TypeOK, Assigned, ArgusTypeOK
<1>2. ArgusDied => ArgusDied'
  <2>1. ArgusCrash => argusCrashes' = argusCrashes - 1
    BY DEF ArgusCrash
  <2>2. LoopStep => UNCHANGED argusCrashes
    BY DEF LoopStep, StartRound, Evaluate, MoveTask, RemovePod, UntrackTask
  <2>3. (\E t \in Tasks : Heartbeat(t)) \/ HeartbeatSaved \/ ArgusStart => UNCHANGED argusCrashes
    BY DEF Heartbeat, HeartbeatSaved, ArgusStart
  <2>4. ArgusNext => UNCHANGED argusCrashes \/ argusCrashes' = argusCrashes - 1
    BY <2>1, <2>2, <2>3 DEF ArgusNext
  <2>5. Tick \/ UNCHANGED argusVars => UNCHANGED argusCrashes
    BY DEF Tick, ArgusAges, argusVars
  <2>6. UNCHANGED argusCrashes \/ argusCrashes' = argusCrashes - 1
    BY <2>4, <2>5 DEF Next, vars
  <2> QED
    BY <1>1, <2>6, MaxArgusCrashesAssumption DEF ArgusDied
<1>3. CASE ArgusDied'
  BY <1>3 DEF PassedInv, PassedOverIsEnding
<1>4. CASE ~ ArgusDied'
  <2>1. /\ argus.pc # "down" /\ ~ ArgusDied
        /\ \A t \in Tasks : tracked[t].terminated =>
             argus.pc \in {"move", "delete", "untrack"} /\ argus.task = t
    BY <1>2, <1>4 DEF PassedInv, PassedOverIsEnding
  <2>2. ASSUME UNCHANGED argus, \A t \in Tasks : tracked'[t].terminated = tracked[t].terminated
        PROVE  PassedInv'
    BY <2>1, <2>2 DEF PassedInv, PassedOverIsEnding
  <2>3. CASE StartRound
    <3>1. argus.pc = "loop" /\ argus'.pc = "loop"
      BY <1>1, <2>3 DEF StartRound, ArgusTypeOK, Loop
    <3>2. \A t \in Tasks : tracked'[t] = tracked[t] \/ tracked'[t].terminated = FALSE
      BY <2>3 DEF StartRound, Fresh, NoEntry
    <3> QED
      BY <2>1, <3>1, <3>2 DEF PassedInv, PassedOverIsEnding
  <2>4. ASSUME NEW t \in Tasks, Evaluate(t) PROVE PassedInv'
    <3> DEFINE read(err) == IF err = "phase" THEN "unread" ELSE pods[tracked[t].run].phase
               how(err) == Ending(tracked[t], read(err))
    <3>1. ~ tracked[t].terminated /\ \A u \in Tasks : ~ tracked[u].terminated
      BY <2>1, <2>4 DEF Evaluate
    <3>2. PICK err \in {"none", "phase", "save"} :
            /\ tracked' = [tracked EXCEPT ![t] = IF how(err) = "none" THEN Noticed(tracked[t])
                                                 ELSE [tracked[t] EXCEPT !.terminated = TRUE]]
            /\ argus' = [pc   |-> IF how(err) = "none" THEN "loop"
                                  ELSE IF how(err) = "terminate" THEN "delete" ELSE "move",
                         todo |-> argus.todo \ {t},
                         task |-> IF how(err) = "none" THEN NoTask ELSE t,
                         how  |-> how(err)]
      BY <2>4 DEF Evaluate
    <3> HIDE DEF how
    <3>3. Noticed(tracked[t]).terminated = tracked[t].terminated
      BY <1>1 DEF ArgusTypeOK, Entry, Noticed
    <3>4. \A u \in Tasks \ {t} : tracked'[u] = tracked[u]
      BY <3>2
    <3>5. argus'.pc # "down"
      BY <3>2
    <3>6. CASE how(err) = "none"
      <4>1. tracked'[t] = Noticed(tracked[t])
        BY <1>1, <3>2, <3>6 DEF ArgusTypeOK
      <4> QED
        BY <3>1, <3>3, <3>4, <3>5, <4>1 DEF PassedInv, PassedOverIsEnding
    <3>7. CASE how(err) # "none"
      <4>1. argus'.pc \in {"move", "delete"} /\ argus'.task = t
        BY <3>2, <3>7
      <4> QED
        BY <3>1, <3>4, <3>5, <4>1 DEF PassedInv, PassedOverIsEnding
    <3> QED
      BY <3>6, <3>7
  <2>5. CASE MoveTask \/ RemovePod
    <3>1. /\ argus'.pc \in {"move", "delete", "untrack"} /\ argus'.task = argus.task
          /\ UNCHANGED tracked
      BY <1>1, <2>5 DEF MoveTask, RemovePod, ArgusTypeOK, Loop
    <3> QED
      BY <2>1, <3>1 DEF PassedInv, PassedOverIsEnding
  <2>6. CASE UntrackTask
    <3>1. argus'.pc = "loop"
      BY <1>1, <2>6 DEF UntrackTask, ArgusTypeOK, Loop
    <3>2. /\ \A t \in Tasks \ {argus.task} : tracked'[t] = tracked[t]
          /\ argus.task \in Tasks => ~ tracked'[argus.task].terminated
      BY <1>1, <2>6 DEF UntrackTask, ArgusTypeOK, NoEntry
    <3> QED
      BY <2>1, <3>1, <3>2 DEF PassedInv, PassedOverIsEnding
  <2>7. ASSUME NEW t \in Tasks, Heartbeat(t) PROVE PassedInv'
    BY <1>1, <2>2, <2>7 DEF Heartbeat, ArgusTypeOK, Entry
  <2>8. CASE HeartbeatSaved
    BY <2>2, <2>8 DEF HeartbeatSaved
  <2>9. CASE ArgusCrash \/ ArgusStart
    <3>1. ~ ArgusStart
      BY <2>1 DEF ArgusStart
    <3>2. ArgusCrash => ArgusDied'
      BY <1>1, MaxArgusCrashesAssumption DEF ArgusCrash, ArgusTypeOK, ArgusDied
    <3> QED
      BY <1>4, <2>9, <3>1, <3>2
  <2>10. CASE Tick
    <3>1. \A e \in Entry : AgedEntry(e).terminated = e.terminated
      BY DEF AgedEntry, Entry
    <3> QED
      BY <1>1, <2>2, <2>10, <3>1 DEF Tick, ArgusAges, ArgusTypeOK
  <2>11. CASE UNCHANGED argusVars
    BY <2>2, <2>11 DEF argusVars
  <2> QED
    BY <2>3, <2>4, <2>5, <2>6, <2>7, <2>8, <2>9, <2>10, <2>11 DEF Next, ArgusNext, LoopStep, vars
<1> QED
  BY <1>3, <1>4

(***************************************************************************)
(* Until Argus dies for the first time, the only entry evaluate passes     *)
(* over is the one it is ending at that moment, whatever calls fail: no    *)
(* running task is tracked and ignored.  (After a restart one may be, see  *)
(* MCArgusRestart.cfg: the mark is saved, what it announced is not done.)  *)
(***************************************************************************)
THEOREM NoRunIsPassedOver == Spec => []PassedOverIsEnding
<1>1. Init => PassedInv
  BY DEF Init, ArgusInit, AtRest, Nothing, NoEntry, PassedInv, PassedOverIsEnding
<1>2. PassedInv => PassedOverIsEnding
  BY DEF PassedInv
<1> QED
  BY <1>1, <1>2, AlwaysWellTyped, StepKeepsPassed, PTL DEF Spec

-----------------------------------------------------------------------------
(***************************************************************************)
(* With a sidecar no pod ever reports success, so no task is put up for    *)
(* review, and none is respawned: a task has one dispatch, and so one pod, *)
(* in its life, whatever overlaps, fails or dies.                          *)
(***************************************************************************)
LEMMA NoReviewWithSidecar ==
  ASSUME Sidecar, ReviewsEarned
  PROVE  \A t \in Tasks : tasks[t].state # "awaiting-review"
  BY DEF ReviewsEarned, Worked

(***************************************************************************)
(* With an Argus sidecar no task is ever awaiting review, whatever its     *)
(* workers do: its pod does not end when its worker does.                  *)
(***************************************************************************)
THEOREM SidecarKeepsTasksFromReview ==
  ASSUME Sidecar
  PROVE  Spec => [](\A t \in Tasks : tasks[t].state # "awaiting-review")
<1>1. ReviewInv => \A t \in Tasks : tasks[t].state # "awaiting-review"
  BY NoReviewWithSidecar DEF ReviewInv
<1> QED
  BY <1>1, InitReviewInv, StepKeepsReviewInv, PTL DEF Spec

Dispatching(h) == handlers[h].pc # "idle"

OnePodEver ==
  \A q, r \in Runs : pods[q].task = pods[r].task => q = r \/ pods[q].task = NoTask

OneDispatchEver ==
  \A g, h \in Handlers :
    Dispatching(g) /\ Dispatching(h) /\ handlers[g].task = handlers[h].task => g = h

\* The one dispatch comes before the one pod, and after the row.
PodsAfterDispatch ==
  \A r \in Runs :
    /\ pods[r].task # NoTask => tasks[pods[r].task].state # "none"
    /\ \A h \in Handlers : handlers[h].pc = "spawn" => handlers[h].task # pods[r].task

OnceInv == OnePodEver /\ OneDispatchEver /\ PodsAfterDispatch

\* An entry is for the run of the row: there is no other run of the task.
EntriesAfterRows ==
  /\ \A t \in Tasks : tracked[t].run # NoRun \/ saved[t].run # NoRun => tasks[t].run # NoRun
  /\ beat.task \in Tasks /\ beat.entry.run # NoRun => tasks[beat.task].run # NoRun

EndTracked == argus.pc \in {"move", "delete", "untrack"} => Tracked(argus.task)

SidecarInv == ReviewInv /\ OnceInv /\ EntriesAfterRows /\ EndTracked

-----------------------------------------------------------------------------
(***************************************************************************)
(* Most steps make no pod and begin no dispatch.                           *)
(***************************************************************************)
SameTasks == \A r \in Runs : pods'[r].task = pods[r].task

Onward(h) ==
  Dispatching(h)' => /\ Dispatching(h) /\ handlers'[h].task = handlers[h].task
                     /\ handlers'[h].pc = "spawn" => handlers[h].pc = "spawn"

RowsStay == \A t \in Tasks : tasks[t].state # "none" => tasks'[t].state # "none"

LEMMA StepKeepsRows ==
  ASSUME WellTyped, [Next]_vars
  PROVE  RowsStay
<1>1. StoreTypeOK /\ [RegistryStep]_tasks
  BY StepsTheRegistry DEF WellTyped, TypeOK
<1> USE DEF StoreTypeOK, Row, RowsStay
<1>2. CASE TasksAge
  BY <1>1, <1>2 DEF TasksAge, Aged
<1>3. ASSUME NEW t \in Tasks, NEW to \in States, TransitionTask(t, to) PROVE RowsStay
  <2>1. Moved(tasks[t], to).state # "none"
    BY <1>1, <1>3, MovedRun DEF TransitionTask
  <2> QED
    BY <1>1, <1>3, <2>1 DEF TransitionTask
<1>4. ASSUME NEW t \in Tasks,
             \/ InsertTask(t)
             \/ \E r \in Runs : SetTaskRun(t, r)
             \/ \E p \in PRs : SetTaskPR(t, p)
             \/ MarkTaskReminded(t)
      PROVE  RowsStay
  BY <1>1, <1>4 DEF InsertTask, NewRow, SetTaskRun, SetTaskPR, MarkTaskReminded
<1> QED
  BY <1>1, <1>2, <1>3, <1>4 DEF RegistryStep, Call

LEMMA OnwardKeepsOnce ==
  ASSUME WellTyped, OnceInv, SameTasks, \A h \in Handlers : Onward(h), RowsStay
  PROVE  OnceInv'
<1>1. OnePodEver'
  BY DEF OnceInv, OnePodEver, SameTasks
<1>2. OneDispatchEver'
  BY DEF OnceInv, OneDispatchEver, Onward
<1>3. PodsAfterDispatch'
  <2>1. \A r \in Runs : pods[r].task \in Tasks \cup {NoTask}
    BY DEF WellTyped, TypeOK, ClusterTypeOK, Pod
  <2>2. \A h \in Handlers : handlers'[h].pc = "spawn" => Dispatching(h)'
    BY DEF Dispatching
  <2> QED
    BY <2>1, <2>2 DEF OnceInv, PodsAfterDispatch, SameTasks, Onward, RowsStay
<1> QED
  BY <1>1, <1>2, <1>3 DEF OnceInv

\* A row that is new has no pod and no dispatch yet.
LEMMA CommissionKeepsOnce ==
  ASSUME RunsInv, OnceInv, RowsStay, NEW h \in Handlers, NEW t \in Tasks, Commission(h, t)
  PROVE  OnceInv'
<1>1. /\ handlers[h].pc = "idle"
      /\ handlers'[h].pc = "spawn" /\ handlers'[h].task = t
      /\ \A g \in Handlers \ {h} : handlers'[g] = handlers[g]
  BY DEF Commission, Dispatch, Idle, RunsInv, WellTyped, TypeOK, MinosTypeOK
<1>2. UNCHANGED pods /\ tasks[t].state = "none"
  BY DEF Commission, InsertTask, clusterVars
<1>3. \A g \in Handlers : Dispatching(g) => handlers[g].task # t
  BY <1>2 DEF RunsInv, OwnRuns, DispatchSound, Dispatching
<1>4. \A r \in Runs : pods[r].task # t
  BY <1>2, NoTaskAssumption DEF OnceInv, PodsAfterDispatch
<1>5. OnePodEver'
  BY <1>2 DEF OnceInv, OnePodEver
<1>6. OneDispatchEver'
  BY <1>1, <1>3 DEF OnceInv, OneDispatchEver, Dispatching
<1>7. PodsAfterDispatch'
  <2>1. \A r \in Runs : pods[r].task \in Tasks \cup {NoTask}
    BY DEF RunsInv, WellTyped, TypeOK, ClusterTypeOK, Pod
  <2> QED
    BY <1>1, <1>2, <1>4, <2>1 DEF OnceInv, PodsAfterDispatch, RowsStay
<1> QED
  BY <1>5, <1>6, <1>7 DEF OnceInv

\* The pod of a dispatch is the first of its task, and the dispatch makes no other.
LEMMA CreatePodKeepsOnce ==
  ASSUME RunsInv, OnceInv, RowsStay, NEW h \in Handlers, handlers[h].pc = "spawn",
         NEW q \in Runs, CreatePod(q, handlers[h].task),
         \A g \in Handlers : Onward(g), handlers'[h].pc # "spawn"
  PROVE  OnceInv'
<1> DEFINE t == handlers[h].task
<1>1. t \in Tasks /\ tasks[t].state # "none"
  BY DEF RunsInv, WellTyped, Assigned, HandlersAssigned, OwnRuns, DispatchSound
<1>2. pods'[q].task = t /\ \A r \in Runs \ {q} : pods'[r] = pods[r]
  BY DEF CreatePod, RunsInv, WellTyped, TypeOK, ClusterTypeOK
<1>3. \A r \in Runs : pods[r].task # t
  BY DEF OnceInv, PodsAfterDispatch
<1>4. \A g \in Handlers \ {h} : handlers'[g].pc = "spawn" => handlers'[g].task # t
  BY DEF OnceInv, OneDispatchEver, Onward, Dispatching
<1> HIDE DEF t
<1>5. OnePodEver'
  BY <1>2, <1>3 DEF OnceInv, OnePodEver
<1>6. OneDispatchEver'
  BY DEF OnceInv, OneDispatchEver, Onward
<1>7. PodsAfterDispatch'
  <2>1. ASSUME NEW r \in Runs
        PROVE  /\ pods'[r].task # NoTask => tasks'[pods'[r].task].state # "none"
               /\ \A g \in Handlers : handlers'[g].pc = "spawn" => handlers'[g].task # pods'[r].task
    <3>1. CASE r = q
      BY <1>1, <1>2, <1>4, <3>1 DEF RowsStay
    <3>2. CASE r # q
      <4>1. pods'[r] = pods[r] /\ pods[r].task \in Tasks \cup {NoTask}
        BY <1>2, <3>2 DEF RunsInv, WellTyped, TypeOK, ClusterTypeOK, Pod
      <4> QED
        BY <4>1 DEF OnceInv, PodsAfterDispatch, RowsStay, Onward, Dispatching
    <3> QED
      BY <3>1, <3>2
  <2> QED
    BY <2>1 DEF PodsAfterDispatch
<1> QED
  BY <1>5, <1>6, <1>7 DEF OnceInv

LEMMA StepKeepsOnce ==
  ASSUME Sidecar, ReviewInv, OnceInv, [Next]_vars
  PROVE  OnceInv'
<1>1. RunsInv /\ WellTyped /\ MinosTypeOK /\ ClusterTypeOK /\ ReviewsEarned
  BY DEF ReviewInv, RunsInv, WellTyped, TypeOK
<1>2. RowsStay
  BY <1>1, StepKeepsRows
<1>3. UNCHANGED pods => SameTasks
  BY DEF SameTasks
<1>4. UNCHANGED handlers => \A h \in Handlers : Onward(h)
  BY DEF Onward, Dispatching
<1>5. ASSUME NEW h \in Handlers, Return(h)
      PROVE  handlers'[h].pc = "idle" /\ \A g \in Handlers : Onward(g)
  BY <1>1, <1>5 DEF Return, Idle, Onward, Dispatching, MinosTypeOK
<1>6. ASSUME NEW h \in Handlers, NEW pc, pc # "spawn", NEW r, Dispatching(h), Goto(h, pc, r)
      PROVE  handlers'[h].pc = pc /\ \A g \in Handlers : Onward(g)
  <2>1. handlers' = [handlers EXCEPT ![h] = [handlers[h] EXCEPT !.pc = pc, !.run = r]]
    BY <1>6 DEF Goto
  <2>2. /\ handlers'[h].pc = pc /\ handlers'[h].task = handlers[h].task
        /\ \A g \in Handlers \ {h} : handlers'[g] = handlers[g]
    BY <1>1, <2>1 DEF MinosTypeOK, Handler
  <2> QED
    BY <1>6, <2>2 DEF Onward, Dispatching
<1>7. ASSUME NEW h \in Handlers, NEW t \in Tasks, Commission(h, t) \/ Respawn(h, t)
      PROVE  OnceInv'
  <2>1. ~ Respawn(h, t)
    BY <1>1, NoReviewWithSidecar DEF Respawn
  <2> QED
    BY <1>1, <1>2, <1>7, <2>1, CommissionKeepsOnce
<1>8. ASSUME NEW h \in Handlers, HandlerStep(h) PROVE OnceInv'
  <2>1. CASE SpawnPod(h)
    <3>1. PICK q \in Runs : CreatePod(q, handlers[h].task) /\ Goto(h, "record", q)
      BY <2>1 DEF SpawnPod
    <3>2. handlers[h].pc = "spawn" /\ Dispatching(h)
      BY <2>1 DEF SpawnPod, Dispatching
    <3>3. handlers'[h].pc = "record" /\ \A g \in Handlers : Onward(g)
      BY <1>6, <3>1, <3>2
    <3> QED
      BY <1>1, <1>2, <3>1, <3>2, <3>3, CreatePodKeepsOnce
  <2>2. CASE SpawnFails(h)
    <3>1. handlers[h].pc = "spawn" /\ Return(h)
      BY <2>2 DEF SpawnFails
    <3>2. CASE UNCHANGED pods
      BY <1>1, <1>2, <1>3, <1>5, <3>1, <3>2, OnwardKeepsOnce DEF ReviewInv
    <3>3. CASE \E q \in Runs : CreatePod(q, handlers[h].task)
      BY <1>1, <1>2, <1>5, <3>1, <3>3, CreatePodKeepsOnce
    <3> QED
      BY <2>2, <3>2, <3>3 DEF SpawnFails
  <2>3. CASE RecordRun(h) \/ StartTask(h)
    <3>1. Dispatching(h) /\ UNCHANGED pods
      BY <2>3 DEF RecordRun, StartTask, Dispatching
    <3>2. Return(h) \/ \E r : Goto(h, "start", r)
      BY <2>3 DEF RecordRun, StartTask
    <3>3. \A g \in Handlers : Onward(g)
      BY <1>5, <1>6, <3>1, <3>2
    <3> QED
      BY <1>1, <1>2, <1>3, <3>1, <3>3, OnwardKeepsOnce
  <2> QED
    BY <1>8, <2>1, <2>2, <2>3 DEF HandlerStep
<1>9. CASE MinosCrash
  <2>1. UNCHANGED pods /\ \A h \in Handlers : handlers'[h].pc = "idle"
    BY <1>9 DEF MinosCrash, Idle, clusterVars
  <2> QED
    BY <1>1, <1>2, <1>3, <2>1, OnwardKeepsOnce DEF Onward, Dispatching
<1>10. ASSUME UNCHANGED handlers, SameTasks PROVE OnceInv'
  BY <1>1, <1>2, <1>4, <1>10, OnwardKeepsOnce
<1>11. CASE MinosNext
  <2>1. CASE \/ \E r \in Runs, p \in PRs : ReportPR(r, p)
             \/ \E t \in Tasks, merged \in BOOLEAN : PullRequestClosed(t, merged)
             \/ Sweeper \/ Startup
    <3>1. UNCHANGED <<handlers, pods>>
      BY <2>1 DEF ReportPR, PullRequestClosed, Sweeper, SweepList, SweepAct, Startup, MinosStart,
        MinosServes, ReconcileLook, ReconcileAct, minosVars, clusterVars
    <3> QED
      BY <1>3, <1>10, <3>1
  <2> QED
    BY <1>7, <1>8, <1>9, <1>11, <2>1 DEF MinosNext
<1>12. ASSUME NEW q, DeletePod(q) PROVE SameTasks
  BY <1>1, <1>12 DEF DeletePod, SameTasks, ClusterTypeOK, Pod
<1>13. CASE ArgusNext /\ UNCHANGED minosVars
  <2>1. (\E q : DeletePod(q)) \/ UNCHANGED pods
    BY <1>13
    DEF ArgusNext, LoopStep, StartRound, Evaluate, MoveTask, RemovePod, UntrackTask,
        Heartbeat, HeartbeatSaved, ArgusCrash, ArgusStart, clusterVars
  <2> QED
    BY <1>3, <1>10, <1>12, <1>13, <2>1 DEF minosVars
<1>14. CASE ClusterNext /\ UNCHANGED minosVars
  <2>1. PICK q \in Runs : PodStarts(q) \/ WorkerExits(q) \/ PodEvicted(q) \/ PodLost(q)
    BY <1>14 DEF ClusterNext
  <2>2. SameTasks
    <3>1. PodStarts(q) \/ PodEvicted(q) => SameTasks
      BY <1>1 DEF PodStarts, PodEvicted, SameTasks, ClusterTypeOK, Pod
    <3>2. WorkerExits(q) => SameTasks
      BY <1>1 DEF WorkerExits, SameTasks, ClusterTypeOK, Pod
    <3>3. PodLost(q) => SameTasks
      BY <1>12 DEF PodLost
    <3> QED
      BY <2>1, <3>1, <3>2, <3>3
  <2> QED
    BY <1>10, <1>14, <2>2 DEF minosVars
<1>15. CASE Tick \/ UNCHANGED vars
  BY <1>3, <1>10, <1>15 DEF Tick, vars, clusterVars, minosVars
<1> QED
  BY <1>11, <1>13, <1>14, <1>15 DEF Next

-----------------------------------------------------------------------------
(***************************************************************************)
(* A recorded run stays on record, and entries are made from rows that     *)
(* name one.                                                               *)
(***************************************************************************)
LEMMA RecordsStay ==
  ASSUME RunsInv, OnceInv, [Next]_vars
  PROVE  \A t \in Tasks : tasks[t].run # NoRun => tasks'[t].run # NoRun
<1> DEFINE Stay == \A t \in Tasks : tasks[t].run # NoRun => tasks'[t].run # NoRun
<1> SUFFICES Stay
  OBVIOUS
<1>1. StoreTypeOK /\ [RegistryStep]_tasks
  BY StepsTheRegistry DEF RunsInv, WellTyped, TypeOK
<1>2. CASE TasksAge
  BY <1>1, <1>2 DEF TasksAge, Aged, StoreTypeOK, Row
<1>3. ASSUME NEW t \in Tasks, NEW to \in States, TransitionTask(t, to) PROVE Stay
  <2>1. Moved(tasks[t], to).run = tasks[t].run
    BY <1>1, <1>3, MovedRun DEF TransitionTask, StoreTypeOK
  <2> QED
    BY <1>1, <1>3, <2>1 DEF TransitionTask, StoreTypeOK
<1>4. ASSUME NEW t \in Tasks, InsertTask(t) PROVE Stay
  <2>1. tasks[t].run = NoRun
    <3>1. tasks[t].run # NoRun => tasks[t].run \in Runs /\ pods[tasks[t].run].task = t
      BY <1>1 DEF StoreTypeOK, Row, RunsInv, OwnRuns, RowsOwnRuns
    <3> QED
      BY <1>4, <3>1, NoTaskAssumption DEF InsertTask, OnceInv, PodsAfterDispatch
  <2> QED
    BY <1>1, <1>4, <2>1 DEF InsertTask, StoreTypeOK
<1>5. ASSUME NEW t \in Tasks, NEW r \in Runs, SetTaskRun(t, r) PROVE Stay
  BY <1>1, <1>5 DEF SetTaskRun, StoreTypeOK, Row, Runs, NoRun
<1>6. ASSUME NEW t \in Tasks, (\E p \in PRs : SetTaskPR(t, p)) \/ MarkTaskReminded(t) PROVE Stay
  BY <1>1, <1>6 DEF SetTaskPR, MarkTaskReminded, StoreTypeOK, Row
<1> QED
  BY <1>1, <1>2, <1>3, <1>4, <1>5, <1>6 DEF RegistryStep, Call

LEMMA StepKeepsEntriesAfterRows ==
  ASSUME RunsInv, OnceInv, EntriesAfterRows, [Next]_vars
  PROVE  EntriesAfterRows'
<1>1. ArgusTypeOK /\ ArgusTypeOK'
  BY StepKeepsWellTyped DEF RunsInv, WellTyped, TypeOK
<1>2. \A t \in Tasks : tasks[t].run # NoRun => tasks'[t].run # NoRun
  BY RecordsStay
<1>3. CASE Origins
  <2>1. ASSUME NEW t \in Tasks, NEW f, Origin(t, f), f.run # NoRun PROVE tasks[t].run # NoRun
    BY <2>1 DEF Origin, SameClock, EntriesAfterRows
  <2> QED
    BY <1>2, <1>3, <2>1 DEF Origins, EntriesAfterRows
<1>4. CASE Tick
  <2>1. \A e \in Entry : AgedEntry(e).run = e.run
    BY DEF AgedEntry, Entry
  <2>2. /\ \A t \in Tasks : tracked'[t].run = tracked[t].run /\ saved'[t].run = saved[t].run
        /\ beat'.task = beat.task /\ beat'.entry.run = beat.entry.run
    BY <1>1, <1>4, <2>1 DEF Tick, ArgusAges, ArgusTypeOK
  <2> QED
    BY <1>2, <2>2 DEF EntriesAfterRows
<1> QED
  BY <1>3, <1>4, ArgusOrigins, OriginsStay DEF Next, vars, argusVars

\* The entry being ended stays until it is untracked.
LEMMA StepKeepsEndTracked ==
  ASSUME RunsInv, RoundSound, EndTracked, [Next]_vars
  PROVE  EndTracked'
<1>1. ArgusTypeOK /\ ArgusAssigned
  BY DEF RunsInv, WellTyped, TypeOK, Assigned
<1>2. ASSUME argus'.pc \in {"move", "delete", "untrack"} => argus.pc \in {"move", "delete", "untrack"},
             argus'.task = argus.task, \A t \in Tasks : tracked'[t].run = tracked[t].run
      PROVE  EndTracked'
  BY <1>1, <1>2 DEF EndTracked, Tracked, ArgusAssigned
<1>3. ASSUME argus'.pc \in {"loop", "down"} PROVE EndTracked'
  BY <1>3 DEF EndTracked
<1>4. CASE StartRound \/ UntrackTask \/ ArgusCrash \/ ArgusStart
  <2>1. StartRound => argus'.pc = "loop"
    BY <1>1 DEF StartRound, ArgusTypeOK, Loop
  <2>2. UntrackTask => argus'.pc = "loop"
    BY <1>1 DEF UntrackTask, ArgusTypeOK, Loop
  <2>3. ArgusCrash \/ ArgusStart => argus'.pc \in {"loop", "down"}
    BY DEF ArgusCrash, ArgusStart, AtRest
  <2> QED
    BY <1>3, <1>4, <2>1, <2>2, <2>3
<1>5. CASE MoveTask \/ RemovePod
  <2>1. /\ argus.pc \in {"move", "delete"} /\ argus'.task = argus.task /\ UNCHANGED tracked
    BY <1>1, <1>5 DEF MoveTask, RemovePod, ArgusTypeOK, Loop
  <2> QED
    BY <1>2, <2>1
<1>6. ASSUME NEW t \in Tasks, Evaluate(t) PROVE EndTracked'
  <2>1. argus'.pc \in {"loop", "move", "delete"}
    BY <1>6 DEF Evaluate
  <2>2. CASE argus'.pc \in {"move", "delete"}
    <3>1. argus'.task = t /\ tracked'[t].run = tracked[t].run
      BY <1>1, <1>6, <2>2, EvaluateEndsOver
    <3> QED
      BY <1>6, <3>1 DEF Evaluate, RoundSound, EndTracked, Tracked
  <2> QED
    BY <1>3, <2>1, <2>2
<1>7. ASSUME NEW t \in Tasks, Heartbeat(t) PROVE EndTracked'
  BY <1>1, <1>2, <1>7 DEF Heartbeat, ArgusTypeOK, Entry
<1>8. CASE HeartbeatSaved \/ UNCHANGED argusVars
  BY <1>2, <1>8 DEF HeartbeatSaved, argusVars
<1>9. CASE Tick
  <2>1. \A e \in Entry : AgedEntry(e).run = e.run
    BY DEF AgedEntry, Entry
  <2> QED
    BY <1>1, <1>2, <1>9, <2>1 DEF Tick, ArgusAges, ArgusTypeOK
<1> QED
  BY <1>4, <1>5, <1>6, <1>7, <1>8, <1>9 DEF Next, ArgusNext, LoopStep, vars

LEMMA InitSidecarInv == Init => SidecarInv
<1> SUFFICES ASSUME Init PROVE SidecarInv
  OBVIOUS
<1>1. OnceInv
  BY DEF Init, ClusterInit, NoPod, MinosInit, Idle, OnceInv, OnePodEver, OneDispatchEver,
         PodsAfterDispatch, Dispatching
<1>2. EntriesAfterRows /\ EndTracked
  BY DEF Init, ArgusInit, AtRest, Nothing, NoBeat, NoEntry, EntriesAfterRows, EndTracked
<1> QED
  BY <1>1, <1>2, InitReviewInv DEF SidecarInv

LEMMA AlwaysSidecar ==
  ASSUME Sidecar
  PROVE  Spec => []SidecarInv
<1>1. SidecarInv /\ [Next]_vars => SidecarInv'
  BY StepKeepsReviewInv, StepKeepsOnce, StepKeepsEntriesAfterRows, StepKeepsEndTracked
  DEF SidecarInv, ReviewInv
<1> QED
  BY <1>1, InitSidecarInv, PTL DEF Spec

\* The run an entry is for and the run of the row are both the one pod of the task.
LEMMA SidecarMeansCurrentRun ==
  ASSUME SidecarInv
  PROVE  ArgusJudgesCurrentRun
<1> SUFFICES ASSUME argus.pc = "move"
             PROVE  tracked[argus.task].run = tasks[argus.task].run
  BY DEF ArgusJudgesCurrentRun
<1> DEFINE t == argus.task
<1>1. t \in Tasks /\ tracked[t].run # NoRun /\ tasks[t].run # NoRun
  BY DEF SidecarInv, ReviewInv, RunsInv, WellTyped, Assigned, ArgusAssigned, EndTracked, Tracked,
         EntriesAfterRows
<1>2. tracked[t].run \in Runs /\ tasks[t].run \in Runs
  BY <1>1 DEF SidecarInv, ReviewInv, RunsInv, WellTyped, TypeOK, ArgusTypeOK, Entry, StoreTypeOK, Row
<1>3. pods[tracked[t].run].task = t /\ pods[tasks[t].run].task = t
  BY <1>1 DEF SidecarInv, ReviewInv, EntriesForTheirTask, IsFor, RunsInv, OwnRuns, RowsOwnRuns
<1> QED
  BY <1>1, <1>2, <1>3, NoTaskAssumption DEF SidecarInv, OnceInv, OnePodEver

LEMMA SidecarMeansOnePod ==
  ASSUME SidecarInv
  PROVE  OneLivePod
<1> SUFFICES ASSUME NEW q \in Runs, NEW r \in Runs, Live(q), Live(r), pods[q].task = pods[r].task
             PROVE  q = r
  BY DEF OneLivePod
<1>1. pods[q].task # NoTask
  BY DEF Live, SidecarInv, ReviewInv, RunsInv, WellTyped, Assigned, PodsAssigned
<1> QED
  BY <1>1 DEF SidecarInv, OnceInv, OnePodEver

-----------------------------------------------------------------------------
(***************************************************************************)
(* One worker per task, without sidecars.  With overlapping dispatches,    *)
(* and with a call that fails or a Minos that dies half-way through a      *)
(* dispatch, this is false; without them it holds, however often Argus     *)
(* dies and whatever GitHub, the sweeper and k3s do.                       *)
(***************************************************************************)
Peace == OneDispatch /\ MaxFaults = 0 /\ MaxMinosCrashes = 0 /\ ~ Sidecar

Undisturbed ==
  /\ faults = 0 /\ minosCrashes = 0
  /\ minos = "up" /\ recon = NoWork
  /\ beat = NoBeat
  /\ tracked = IF argus.pc = "down" THEN Nothing ELSE saved

\* A task that is with run r, and stays with it until it is put up for review.
Begun         == {"running"} \cup Terminal
Settled(t, r) == ~ Busy(t) /\ tasks[t].run = r /\ tasks[t].state \in Begun

Dispatched(t, r) == \E h \in Handlers : HasRun(h) /\ handlers[h].task = t /\ handlers[h].run = r

LivePodsKnown ==
  \A r \in Runs : Live(r) => Settled(pods[r].task, r) \/ Dispatched(pods[r].task, r)

\* An entry that may still lead to a verdict is for the run of the row.
EntrySettled(t, e) == e.run # NoRun /\ ~ e.terminated => Settled(t, e.run)

EntriesSettled == \A t \in Tasks : EntrySettled(t, saved[t])

\* So is the one that led to it, until the row is moved.
EndSettled ==
  argus.pc = "move" \/ (argus.pc = "delete" /\ argus.how = "terminate") =>
    /\ Settled(argus.task, tracked[argus.task].run)
    /\ tracked[argus.task].terminated

TodoOpen == \A t \in argus.todo : ~ tracked[t].terminated

PeaceInv == /\ ClockInv /\ OverInv
            /\ Undisturbed
            /\ LivePodsKnown
            /\ EntriesSettled
            /\ EndSettled
            /\ TodoOpen


-----------------------------------------------------------------------------
(***************************************************************************)
(* Nothing fails and Minos stays up, so nothing is left of both processes  *)
(* but what they do when all goes well.                                    *)
(***************************************************************************)
LEMMA NothingFails ==
  ASSUME faults = 0
  PROVE  \A err : Spend(err) => err = "none" /\ UNCHANGED faults
  BY DEF Spend

LEMMA PeacefulMinos ==
  ASSUME Peace, PeaceInv, MinosNext
  PROVE  /\ \/ \E h \in Handlers : \E t \in Tasks : Commission(h, t) \/ Respawn(h, t)
            \/ \E h \in Handlers : HandlerStep(h)
            \/ \E t \in Tasks, to \in Terminal :
                 TransitionTask(t, to) /\ UNCHANGED <<handlers, pods>>
            \/ /\ \A t \in Tasks : tasks'[t].run = tasks[t].run /\ tasks'[t].state = tasks[t].state
               /\ UNCHANGED <<handlers, pods>>
         /\ UNCHANGED <<faults, minos, recon, minosCrashes>>
<1>1. /\ faults = 0 /\ minosCrashes = 0 /\ minos = "up" /\ \A t \in Tasks : recon[t] = "no"
      /\ StoreTypeOK
  BY DEF PeaceInv, Undisturbed, NoWork, ClockInv, RunsInv, WellTyped, TypeOK
<1>2. ~ MinosCrash /\ ~ Startup
  BY <1>1 DEF MinosCrash, Startup, MinosStart, MinosServes, ReconcileLook, ReconcileAct
<1>3. UNCHANGED tasks => \A t \in Tasks : tasks'[t].run = tasks[t].run /\ tasks'[t].state = tasks[t].state
  OBVIOUS
<1>4. ASSUME NEW h \in Handlers, NEW t \in Tasks, Commission(h, t) \/ Respawn(h, t)
      PROVE  UNCHANGED <<faults, minos, recon, minosCrashes>>
  BY <1>4 DEF Commission, Respawn, Dispatch, clusterVars
<1>5. ASSUME NEW h \in Handlers, HandlerStep(h)
      PROVE  UNCHANGED <<faults, minos, recon, minosCrashes>>
  BY <1>1, <1>5, NothingFails DEF HandlerStep, SpawnPod, SpawnFails, RecordRun, StartTask, Goto, Return
<1>6. ASSUME NEW r \in Runs, NEW p \in PRs, ReportPR(r, p)
      PROVE  /\ \A t \in Tasks : tasks'[t].run = tasks[t].run /\ tasks'[t].state = tasks[t].state
             /\ UNCHANGED <<handlers, pods, faults, minos, recon, minosCrashes>>
  <2>1. pods[r].task \in Tasks
    BY <1>6 DEF ReportPR, PeaceInv, ClockInv, RunsInv, WellTyped, TypeOK, ClusterTypeOK, Pod,
                Assigned, PodsAssigned
  <2> QED
    BY <1>1, <1>6, <2>1 DEF ReportPR, SetTaskPR, StoreTypeOK, Row, clusterVars, minosVars
<1>7. ASSUME NEW t \in Tasks, NEW merged \in BOOLEAN, PullRequestClosed(t, merged)
      PROVE  /\ \E to \in Terminal : TransitionTask(t, to)
             /\ UNCHANGED <<handlers, pods, faults, minos, recon, minosCrashes>>
  BY <1>7 DEF PullRequestClosed, Terminal, clusterVars, minosVars
<1>8. ASSUME NEW t \in Tasks, SweepAct(t)
      PROVE  /\ \/ TransitionTask(t, "failed")
                \/ \A u \in Tasks : tasks'[u].run = tasks[u].run /\ tasks'[u].state = tasks[u].state
             /\ UNCHANGED <<handlers, pods, faults, minos, recon, minosCrashes>>
  <2>1. MarkTaskReminded(t) =>
          \A u \in Tasks : tasks'[u].run = tasks[u].run /\ tasks'[u].state = tasks[u].state
    BY <1>1 DEF MarkTaskReminded, StoreTypeOK, Row
  <2> QED
    BY <1>1, <1>3, <1>8, <2>1, NothingFails DEF SweepAct, TryTransitionTask
<1>9. ASSUME SweepList
      PROVE  UNCHANGED <<tasks, handlers, pods, faults, minos, recon, minosCrashes>>
  BY <1>9 DEF SweepList, clusterVars
<1> QED
  BY <1>2, <1>3, <1>4, <1>5, <1>6, <1>7, <1>8, <1>9 DEF MinosNext, Sweeper, Terminal

\* The loop of Argus, without the branches for errors.
LEMMA PeacefulArgus ==
  ASSUME Peace, PeaceInv, ArgusNext
  PROVE  /\ UNCHANGED <<faults, beat>>
         /\ \/ /\ StartRound
               /\ saved' = tracked'
               /\ argus'.todo = {t \in Tasks : tracked'[t].run # NoRun /\ ~ tracked'[t].terminated}
               /\ \A t \in Tasks : \/ saved'[t] = saved[t]
                                   \/ t \in Discovered /\ saved'[t] = Fresh(t)
            \/ \E t \in Tasks :
                 /\ Evaluate(t)
                 /\ t \in argus.todo /\ saved' = tracked'
                 /\ argus'.todo = argus.todo \ {t}
                 /\ \A u \in Tasks \ {t} : saved'[u] = saved[u]
                 /\ saved'[t].run = saved[t].run
                 /\ saved'[t].terminated \/ argus'.pc = "loop"
            \/ MoveTask
            \/ RemovePod
            \/ UntrackTask /\ saved' = tracked' /\ saved' = [saved EXCEPT ![argus.task] = NoEntry]
            \/ ArgusCrash
            \/ /\ ArgusStart
               /\ saved' = tracked'
               /\ \A t \in Tasks : saved'[t] = NoEntry \/ saved'[t] = saved[t]
<1>1. /\ faults = 0 /\ beat = NoBeat
      /\ argus.pc # "down" => tracked = saved
      /\ ArgusTypeOK
  BY DEF PeaceInv, Undisturbed, ClockInv, RunsInv, WellTyped, TypeOK
<1>2. ~ HeartbeatSaved /\ \A t \in Tasks : ~ Heartbeat(t)
  BY <1>1 DEF HeartbeatSaved, Heartbeat, Peace
<1>3. CASE StartRound
  <2>1. /\ UNCHANGED <<faults, beat>>
        /\ tracked' = [t \in Tasks |-> IF t \in Discovered THEN Fresh(t) ELSE tracked[t]]
        /\ saved' = [t \in Tasks |-> IF t \in Discovered THEN Fresh(t) ELSE saved[t]]
    BY <1>1, <1>3, NothingFails DEF StartRound
  <2>2. tracked = saved
    BY <1>1, <1>3 DEF StartRound
  <2>3. argus'.todo = {t \in Tasks : tracked'[t].run # NoRun /\ ~ tracked'[t].terminated}
    BY <1>1, <1>3 DEF StartRound, ArgusTypeOK, Loop
  <2> QED
    BY <1>3, <2>1, <2>2, <2>3
<1>4. ASSUME NEW t \in Tasks, Evaluate(t)
      PROVE  /\ UNCHANGED <<faults, beat>>
             /\ t \in argus.todo /\ saved' = tracked'
             /\ argus'.todo = argus.todo \ {t}
             /\ \A u \in Tasks \ {t} : saved'[u] = saved[u]
             /\ saved'[t].run = saved[t].run
             /\ saved'[t].terminated \/ argus'.pc = "loop"
  <2> DEFINE e        == tracked[t]
             how      == Ending(e, pods[e.run].phase)
             after    == IF how = "none" THEN Noticed(e) ELSE [e EXCEPT !.terminated = TRUE]
  <2>1. /\ UNCHANGED <<faults, beat>> /\ t \in argus.todo /\ argus.pc = "loop"
        /\ tracked' = [tracked EXCEPT ![t] = after]
        /\ saved' = IF after = e THEN saved ELSE [saved EXCEPT ![t] = after]
        /\ argus' = [pc   |-> IF how = "none" THEN "loop"
                              ELSE IF how = "terminate" THEN "delete" ELSE "move",
                     todo |-> argus.todo \ {t},
                     task |-> IF how = "none" THEN NoTask ELSE t,
                     how  |-> how]
    BY <1>1, <1>4, NothingFails DEF Evaluate
  <2>2. tracked = saved
    BY <1>1, <2>1
  <2>3. after.run = e.run /\ (after.terminated \/ how = "none")
    BY <1>1, RewrittenEntrySameClock DEF ArgusTypeOK, Entry, SameClock
  <2> HIDE DEF how, after
  <2> QED
    BY <1>1, <2>1, <2>2, <2>3 DEF ArgusTypeOK
<1>5. CASE MoveTask \/ RemovePod
  BY <1>1, <1>5, NothingFails DEF MoveTask, RemovePod
<1>6. CASE UntrackTask
  BY <1>1, <1>6, NothingFails DEF UntrackTask
<1>7. CASE ArgusCrash
  BY <1>1, <1>7 DEF ArgusCrash, clusterVars
<1>8. CASE ArgusStart
  BY <1>1, <1>8, NothingFails DEF ArgusStart
<1> QED
  BY <1>2, <1>3, <1>4, <1>5, <1>6, <1>7, <1>8 DEF ArgusNext, LoopStep


-----------------------------------------------------------------------------
(***************************************************************************)
(* What is settled stays so under every step but one: hibernate.           *)
(***************************************************************************)
RowSettles(old, new) == new.run = old.run /\ (old.state \in Begun => new.state \in Begun)

SettledKept == \A t \in Tasks : \A r : Settled(t, r) => Settled(t, r)'

LEMMA RowsSettleKeep ==
  ASSUME \A t \in Tasks : Busy(t)' => Busy(t),
         \A t \in Tasks : ~ Busy(t) => RowSettles(tasks[t], tasks'[t])
  PROVE  SettledKept
  BY DEF SettledKept, Settled, RowSettles

LEMMA TryTransitionSettles ==
  ASSUME StoreTypeOK, NEW t \in Tasks, NEW to, to # "awaiting-review", TryTransitionTask(t, to)
  PROVE  \A u \in Tasks : RowSettles(tasks[u], tasks'[u])
<1>1. CASE UNCHANGED tasks
  BY <1>1 DEF RowSettles
<1>2. CASE TransitionTask(t, to)
  <2>1. RowSettles(tasks[t], Moved(tasks[t], to))
    BY <1>2, MovedRun DEF TransitionTask, StoreTypeOK, RowSettles, ValidTransition, Begun, Terminal
  <2> QED
    BY <1>2, <2>1 DEF TransitionTask, StoreTypeOK, RowSettles
<1> QED
  BY <1>1, <1>2 DEF TryTransitionTask

\* A handler changes the row of its own task only.
LEMMA HandlerStepLocal ==
  ASSUME PeaceInv, NEW h \in Handlers, HandlerStep(h)
  PROVE  /\ handlers[h].pc # "idle" /\ handlers[h].task \in Tasks
         /\ \A g \in Handlers \ {h} : handlers'[g] = handlers[g]
         /\ handlers'[h].pc = "idle" \/ handlers'[h].task = handlers[h].task
         /\ \A u \in Tasks \ {handlers[h].task} : tasks'[u] = tasks[u]
<1>1. StoreTypeOK /\ MinosTypeOK
  BY DEF PeaceInv, ClockInv, RunsInv, WellTyped, TypeOK
<1>2. handlers[h].pc # "idle"
  BY DEF HandlerStep, SpawnPod, SpawnFails, RecordRun, StartTask
<1>3. handlers[h].task \in Tasks
  BY <1>2 DEF PeaceInv, ClockInv, RunsInv, WellTyped, Assigned, HandlersAssigned
<1>4. ASSUME NEW pc, NEW r, Goto(h, pc, r)
      PROVE  /\ \A g \in Handlers \ {h} : handlers'[g] = handlers[g]
             /\ handlers'[h].task = handlers[h].task
  BY <1>1, <1>4 DEF Goto, MinosTypeOK, Handler
<1>5. ASSUME Return(h)
      PROVE  /\ \A g \in Handlers \ {h} : handlers'[g] = handlers[g]
             /\ handlers'[h].pc = "idle"
  BY <1>1, <1>5 DEF Return, Idle, MinosTypeOK
<1>6. ASSUME NEW to, TryTransitionTask(handlers[h].task, to)
      PROVE  \A u \in Tasks \ {handlers[h].task} : tasks'[u] = tasks[u]
  BY <1>1, <1>3, <1>6 DEF TryTransitionTask, TransitionTask, StoreTypeOK
<1>7. CASE SpawnPod(h)
  BY <1>2, <1>3, <1>4, <1>7 DEF SpawnPod
<1>8. CASE SpawnFails(h)
  BY <1>2, <1>3, <1>5, <1>6, <1>8 DEF SpawnFails
<1>9. CASE RecordRun(h)
  <2>1. SetTaskRun(handlers[h].task, handlers[h].run) =>
          \A u \in Tasks \ {handlers[h].task} : tasks'[u] = tasks[u]
    BY <1>1 DEF SetTaskRun, StoreTypeOK
  <2> QED
    BY <1>2, <1>3, <1>4, <1>5, <1>9, <2>1 DEF RecordRun
<1>10. CASE StartTask(h)
  BY <1>2, <1>3, <1>5, <1>6, <1>10 DEF StartTask
<1> QED
  BY <1>7, <1>8, <1>9, <1>10 DEF HandlerStep

LEMMA MinosKeepsSettled ==
  ASSUME Peace, PeaceInv, MinosNext
  PROVE  SettledKept
<1>1. StoreTypeOK /\ MinosTypeOK
  BY DEF PeaceInv, ClockInv, RunsInv, WellTyped, TypeOK
<1>2. UNCHANGED handlers => \A t \in Tasks : Busy(t)' => Busy(t)
  BY DEF Busy
<1>3. ASSUME NEW h \in Handlers, NEW t \in Tasks, Commission(h, t) \/ Respawn(h, t)
      PROVE  SettledKept
  <2>1. /\ handlers'[h].task = t
        /\ \A g \in Handlers \ {h} : handlers'[g] = handlers[g]
    BY <1>1, <1>3 DEF Commission, Respawn, Dispatch, Idle, MinosTypeOK
  <2>2. tasks[t].state \notin Begun
    BY <1>3 DEF Commission, InsertTask, Respawn, Begun, Terminal
  <2>3. \A u \in Tasks \ {t} : tasks'[u] = tasks[u]
    BY <1>1, <1>3 DEF Commission, InsertTask, Respawn, StoreTypeOK
  <2>4. \A u \in Tasks \ {t} : Busy(u)' => Busy(u)
    BY <2>1 DEF Busy
  <2> QED
    BY <2>2, <2>3, <2>4 DEF SettledKept, Settled
<1>4. ASSUME NEW h \in Handlers, HandlerStep(h) PROVE SettledKept
  <2>1. \A t \in Tasks : Busy(t)' => Busy(t)
    BY <1>4, HandlerStepLocal DEF Busy
  <2>2. \A t \in Tasks : ~ Busy(t) => RowSettles(tasks[t], tasks'[t])
    BY <1>4, HandlerStepLocal DEF Busy, RowSettles
  <2> QED
    BY <2>1, <2>2, RowsSettleKeep
<1>5. ASSUME NEW t \in Tasks, NEW to \in Terminal, TransitionTask(t, to), UNCHANGED handlers
      PROVE  SettledKept
  BY <1>1, <1>2, <1>5, TryTransitionSettles, RowsSettleKeep DEF TryTransitionTask, Terminal
<1>6. ASSUME \A t \in Tasks : tasks'[t].run = tasks[t].run /\ tasks'[t].state = tasks[t].state,
             UNCHANGED handlers
      PROVE  SettledKept
  BY <1>2, <1>6, RowsSettleKeep DEF RowSettles
<1> QED
  BY <1>3, <1>4, <1>5, <1>6, PeacefulMinos

-----------------------------------------------------------------------------
(***************************************************************************)
(* Every live pod is the one that its task is with, or its dispatch.       *)
(***************************************************************************)
LEMMA KnownStays ==
  ASSUME PeaceInv,
         \A r \in Runs : Live(r)' => Live(r) /\ pods'[r].task = pods[r].task,
         \A t \in Tasks, r \in Runs : Live(r) /\ pods[r].task = t /\ Settled(t, r) => Settled(t, r)',
         \A t \in Tasks, r \in Runs : Dispatched(t, r) => Dispatched(t, r)' \/ Settled(t, r)'
  PROVE  LivePodsKnown'
<1>1. \A r \in Runs : Live(r) => pods[r].task \in Tasks
  BY DEF Live, PeaceInv, ClockInv, RunsInv, WellTyped, TypeOK, ClusterTypeOK, Pod, Assigned, PodsAssigned
<1>2. ASSUME NEW r \in Runs, Live(r)'
      PROVE  Settled(pods[r].task, r)' \/ Dispatched(pods[r].task, r)'
  <2>1. PICK t \in Tasks : t = pods[r].task
    BY <1>1, <1>2
  <2>2. Live(r) /\ (Settled(t, r) \/ Dispatched(t, r))
    BY <1>2, <2>1 DEF PeaceInv, LivePodsKnown
  <2>3. Settled(t, r)' \/ Dispatched(t, r)'
    BY <2>1, <2>2
  <2>4. t = pods'[r].task
    BY <1>2, <2>1
  <2> QED
    BY <2>3, <2>4 DEF Settled, Busy, Dispatched, HasRun
<1> QED
  BY <1>2 DEF LivePodsKnown

LEMMA SpawnPodKeepsKnown ==
  ASSUME Peace, PeaceInv, NEW h \in Handlers, SpawnPod(h), SettledKept
  PROVE  LivePodsKnown'
<1>1. PICK q \in Runs : CreatePod(q, handlers[h].task) /\ Goto(h, "record", q)
  BY DEF SpawnPod
<1>2. handlers' = [handlers EXCEPT ![h] = [handlers[h] EXCEPT !.pc = "record", !.run = q]]
  BY <1>1 DEF Goto
<1>3. /\ handlers'[h].pc = "record" /\ handlers'[h].run = q
      /\ handlers'[h].task = handlers[h].task
  BY <1>2 DEF PeaceInv, ClockInv, RunsInv, WellTyped, TypeOK, MinosTypeOK, Handler
<1>4. /\ pods'[q].task = handlers[h].task
      /\ \A r \in Runs \ {q} : pods'[r] = pods[r]
  BY <1>1 DEF CreatePod, PeaceInv, ClockInv, RunsInv, WellTyped, TypeOK, ClusterTypeOK
<1>5. ASSUME NEW r \in Runs, Live(r)'
      PROVE  Settled(pods[r].task, r)' \/ Dispatched(pods[r].task, r)'
  <2>1. CASE r = q
    BY <1>3, <1>4, <2>1 DEF Dispatched, HasRun
  <2>2. CASE r # q
    <3>1. Live(r) /\ pods'[r] = pods[r]
      BY <1>4, <1>5, <2>2 DEF Live
    <3>2. pods[r].task \in Tasks
      BY <3>1 DEF Live, PeaceInv, ClockInv, RunsInv, WellTyped, TypeOK, ClusterTypeOK, Pod,
                  Assigned, PodsAssigned
    <3>3. ~ Dispatched(pods[r].task, r)
      BY DEF SpawnPod, Dispatched, HasRun, Peace, OneDispatch
    <3>4. PICK t \in Tasks : t = pods[r].task /\ Settled(t, r)
      BY <3>1, <3>2, <3>3 DEF PeaceInv, LivePodsKnown
    <3>5. Settled(t, r)' /\ t = pods'[r].task
      BY <3>1, <3>4 DEF SettledKept
    <3> QED
      BY <3>5 DEF Settled, Busy
  <2> QED
    BY <2>1, <2>2
<1> QED
  BY <1>5 DEF LivePodsKnown

\* A dispatch that ends leaves its task with its run.
LEMMA StartTaskSettles ==
  ASSUME Peace, PeaceInv, NEW h \in Handlers, StartTask(h), NEW t \in Tasks, NEW r \in Runs,
         Dispatched(t, r)
  PROVE  Settled(t, r)'
<1>1. /\ handlers[h].pc = "start" /\ handlers[h].task = t /\ handlers[h].run = r
      /\ \A g \in Handlers : g = h
  BY DEF StartTask, Dispatched, Peace, OneDispatch
<1>2. ~ Busy(t)'
  <2>1. handlers'[h].pc = "idle"
    BY DEF StartTask, Return, Idle, PeaceInv, ClockInv, RunsInv, WellTyped, TypeOK, MinosTypeOK
  <2> QED
    BY <1>1, <2>1 DEF Busy
<1>3. tasks[t].run = r /\ tasks[t].state \in States \ {"none"} /\ tasks[t] \in Row
  BY <1>1 DEF PeaceInv, ClockInv, StartsFresh, StartFresh, Peace, RunsInv, OwnRuns, DispatchSound,
              WellTyped, TypeOK, StoreTypeOK, Row
<1>4. TryTransitionTask(t, "running")
  BY <1>1, NothingFails DEF StartTask, PeaceInv, Undisturbed
<1>5. CASE TransitionTask(t, "running")
  <2>1. tasks'[t].run = r /\ tasks'[t].state = "running"
    BY <1>3, <1>5, MovedRun DEF TransitionTask, PeaceInv, ClockInv, RunsInv, WellTyped, TypeOK, StoreTypeOK
  <2> QED
    BY <1>2, <2>1 DEF Settled, Begun
<1>6. CASE ~ ValidTransition(tasks[t].state, "running") /\ UNCHANGED tasks
  <2>1. tasks[t].state \in Begun
    BY <1>3, <1>6 DEF ValidTransition, States, Begun
  <2> QED
    BY <1>2, <1>3, <1>6, <2>1 DEF Settled
<1> QED
  BY <1>4, <1>5, <1>6 DEF TryTransitionTask

LEMMA MinosKeepsKnown ==
  ASSUME Peace, PeaceInv, MinosNext
  PROVE  LivePodsKnown'
<1>1. SettledKept
  BY MinosKeepsSettled
<1>2. ASSUME UNCHANGED pods,
             \A t \in Tasks, r \in Runs : Dispatched(t, r) => Dispatched(t, r)' \/ Settled(t, r)'
      PROVE  LivePodsKnown'
  <2>1. \A r \in Runs : Live(r)' => Live(r) /\ pods'[r].task = pods[r].task
    BY <1>2 DEF Live
  <2> QED
    BY <1>1, <1>2, <2>1, KnownStays DEF SettledKept
<1>3. CASE UNCHANGED <<handlers, pods>>
  BY <1>2, <1>3 DEF Dispatched, HasRun
<1>4. ASSUME NEW h \in Handlers, NEW t \in Tasks, Commission(h, t) \/ Respawn(h, t)
      PROVE  LivePodsKnown'
  <2>1. UNCHANGED pods /\ handlers[h].pc = "idle"
    BY <1>4 DEF Commission, Respawn, Dispatch, clusterVars
  <2>2. \A u \in Tasks, r \in Runs : ~ Dispatched(u, r)
    BY <2>1 DEF Dispatched, HasRun, Peace, OneDispatch
  <2> QED
    BY <1>2, <2>1, <2>2
<1>5. ASSUME NEW h \in Handlers, HandlerStep(h) PROVE LivePodsKnown'
  <2>0. faults = 0 /\ MinosTypeOK
    BY DEF PeaceInv, Undisturbed, ClockInv, RunsInv, WellTyped, TypeOK
  <2>1. CASE SpawnPod(h)
    BY <1>1, <2>1, SpawnPodKeepsKnown
  <2>2. CASE SpawnFails(h)
    <3>1. UNCHANGED pods
      BY <2>0, <2>2, NothingFails DEF SpawnFails
    <3>2. \A u \in Tasks, r \in Runs : ~ Dispatched(u, r)
      BY <2>2 DEF SpawnFails, Dispatched, HasRun, Peace, OneDispatch
    <3> QED
      BY <1>2, <3>1, <3>2
  <2>3. CASE RecordRun(h)
    <3>1. Goto(h, "start", handlers[h].run) /\ UNCHANGED pods
      BY <2>0, <2>3, NothingFails DEF RecordRun
    <3>2. handlers' = [handlers EXCEPT ![h] = [handlers[h] EXCEPT !.pc = "start", !.run = handlers[h].run]]
      BY <3>1 DEF Goto
    <3>3. /\ handlers'[h].pc = "start" /\ handlers'[h].run = handlers[h].run
          /\ handlers'[h].task = handlers[h].task
      BY <2>0, <3>2 DEF MinosTypeOK, Handler
    <3>4. \A t \in Tasks, r \in Runs : Dispatched(t, r) => Dispatched(t, r)'
      BY <3>3 DEF Dispatched, HasRun, Peace, OneDispatch
    <3> QED
      BY <1>2, <3>1, <3>4
  <2>4. CASE StartTask(h)
    <3>1. UNCHANGED pods
      BY <2>4 DEF StartTask
    <3> QED
      BY <1>2, <2>4, <3>1, StartTaskSettles
  <2> QED
    BY <1>5, <2>1, <2>2, <2>3, <2>4 DEF HandlerStep
<1> QED
  BY <1>3, <1>4, <1>5, PeacefulMinos


-----------------------------------------------------------------------------
(***************************************************************************)
(* The steps.                                                              *)
(***************************************************************************)
LEMMA MinosKeepsPeace ==
  ASSUME Peace, PeaceInv, ClockInv', OverInv', MinosNext, UNCHANGED argusVars
  PROVE  PeaceInv'
<1>1. SettledKept /\ LivePodsKnown'
  BY MinosKeepsSettled, MinosKeepsKnown
<1>2. UNCHANGED <<argus, tracked, saved, beat>>
  BY DEF argusVars
<1>3. ArgusAssigned
  BY DEF PeaceInv, ClockInv, RunsInv, WellTyped, Assigned
<1>4. Undisturbed'
  BY <1>2, PeacefulMinos DEF PeaceInv, Undisturbed, NoBeat, Nothing, NoWork
<1>5. EntriesSettled'
  <2>1. ASSUME NEW t \in Tasks PROVE EntrySettled(t, saved[t])'
    <3>1. PICK e : e = saved[t]
      OBVIOUS
    <3>2. EntrySettled(t, e)'
      BY <1>1, <3>1 DEF SettledKept, PeaceInv, EntriesSettled, EntrySettled
    <3> QED
      BY <1>2, <3>1, <3>2 DEF EntrySettled, Settled, Busy
  <2> QED
    BY <2>1 DEF EntriesSettled
<1>6. EndSettled'
  <2>1. ASSUME NEW t \in Tasks, NEW r, t = argus.task, r = tracked[t].run, Settled(t, r)
        PROVE  Settled(argus.task, tracked[argus.task].run)'
    <3>1. Settled(t, r)'
      BY <1>1, <2>1 DEF SettledKept
    <3> QED
      BY <1>2, <2>1, <3>1 DEF Settled, Busy
  <2> QED
    BY <1>2, <1>3, <2>1 DEF PeaceInv, EndSettled, ArgusAssigned
<1>7. TodoOpen'
  BY <1>2 DEF PeaceInv, TodoOpen
<1> QED
  BY <1>1, <1>4, <1>5, <1>6, <1>7 DEF PeaceInv

\* Argus takes a row up for review when no pod of the task is left.
LEMMA MoveTaskKeepsPeace ==
  ASSUME Peace, PeaceInv, ClockInv', OverInv', MoveTask, UNCHANGED minosVars,
         UNCHANGED <<faults, beat>>
  PROVE  PeaceInv'
<1> DEFINE a == argus.task
<1>1. /\ a \in Tasks /\ StoreTypeOK /\ ArgusTypeOK
      /\ UNCHANGED <<pods, handlers, tracked, saved>>
      /\ argus.pc = "move" /\ tracked = saved
  BY DEF MoveTask, PeaceInv, Undisturbed, ClockInv, RunsInv, WellTyped, TypeOK, Assigned,
         ArgusAssigned, minosVars
<1>2. /\ Settled(a, tracked[a].run) /\ tracked[a].terminated
      /\ argus.how # "terminate" => Over(tracked[a].run)
  BY <1>1 DEF PeaceInv, EndSettled, OverInv, EndsOver
<1>3. \A t \in Tasks : Busy(t)' <=> Busy(t)
  BY <1>1 DEF Busy
<1>4. argus.how # "hibernate" => SettledKept
  BY <1>1, <1>3, TryTransitionSettles, RowsSettleKeep DEF MoveTask, RowSettles
<1>5. \A t \in Tasks \ {a} : \A r : Settled(t, r) => Settled(t, r)'
  <2>1. \A t \in Tasks \ {a} : tasks'[t] = tasks[t]
    BY <1>1 DEF MoveTask, TryTransitionTask, TransitionTask, StoreTypeOK
  <2> QED
    BY <1>3, <2>1 DEF Settled
<1>6. argus' = [argus EXCEPT !.pc = IF argus.how = "terminate" THEN "untrack" ELSE "delete"]
  BY DEF MoveTask
<1>7. /\ argus'.pc = IF argus.how = "terminate" THEN "untrack" ELSE "delete"
      /\ argus'.how = argus.how /\ argus'.task = a /\ argus'.todo = argus.todo
  BY <1>1, <1>6 DEF ArgusTypeOK, Loop
<1> HIDE DEF a
<1>8. Undisturbed'
  BY <1>1, <1>7 DEF PeaceInv, Undisturbed, NoBeat, Nothing, NoWork, minosVars
<1>9. LivePodsKnown'
  <2>1. \A r \in Runs : Live(r)' => Live(r) /\ pods'[r].task = pods[r].task
    BY <1>1 DEF Live
  <2>2. \A t \in Tasks, r \in Runs : Dispatched(t, r) => Dispatched(t, r)'
    BY <1>1 DEF Dispatched, HasRun
  <2>3. ASSUME NEW t \in Tasks, NEW r \in Runs, Live(r), Settled(t, r) PROVE Settled(t, r)'
    <3>1. CASE t # a
      BY <1>5, <2>3, <3>1
    <3>2. CASE argus.how # "hibernate"
      BY <1>4, <2>3, <3>2 DEF SettledKept
    <3>3. CASE t = a /\ argus.how = "hibernate"
      <4>1. r = tracked[a].run
        BY <1>2, <2>3, <3>3 DEF Settled
      <4> QED
        BY <1>2, <2>3, <3>3, <4>1 DEF Over, Live
    <3> QED
      BY <3>1, <3>2, <3>3
  <2> QED
    BY <2>1, <2>2, <2>3, KnownStays
<1>10. EntriesSettled'
  <2>1. ASSUME NEW t \in Tasks, saved[t].run # NoRun, ~ saved[t].terminated
        PROVE  \E r : r = saved[t].run /\ Settled(t, r)'
    <3>1. t # a
      BY <1>1, <1>2, <2>1
    <3>2. Settled(t, saved[t].run)
      BY <2>1 DEF PeaceInv, EntriesSettled, EntrySettled
    <3> QED
      BY <1>5, <3>1, <3>2
  <2> QED
    BY <1>1, <2>1 DEF EntriesSettled, EntrySettled, Settled, Busy
<1>11. EndSettled'
  BY <1>7 DEF EndSettled
<1>12. TodoOpen'
  BY <1>1, <1>7 DEF PeaceInv, TodoOpen
<1> QED
  BY <1>8, <1>9, <1>10, <1>11, <1>12 DEF PeaceInv

\* The other steps of Argus leave the rows alone.
LEMMA WatchKeepsPeace ==
  ASSUME Peace, PeaceInv, ClockInv', OverInv', ArgusNext, ~ MoveTask, UNCHANGED minosVars
  PROVE  PeaceInv'
<1>1. StoreTypeOK /\ ArgusTypeOK /\ ClusterOK /\ ArgusAssigned
  BY DEF PeaceInv, ClockInv, RunsInv, WellTyped, TypeOK, Assigned, ClusterOK
<1>2. UNCHANGED <<tasks, handlers>>
  BY DEF ArgusNext, LoopStep, StartRound, Evaluate, RemovePod, UntrackTask, Heartbeat,
         HeartbeatSaved, ArgusCrash, ArgusStart, minosVars
<1>3. \A t, r : Settled(t, r) <=> Settled(t, r)'
  BY <1>2 DEF Settled, Busy
<1>4. argus.pc # "down" => tracked = saved
  BY DEF PeaceInv, Undisturbed
<1>5. LivePodsKnown'
  <2>1. UNCHANGED pods \/ DeletePod(tracked[argus.task].run)
    BY DEF ArgusNext, LoopStep, StartRound, Evaluate, RemovePod, UntrackTask, Heartbeat,
           HeartbeatSaved, ArgusCrash, ArgusStart, clusterVars
  <2>2. \A r \in Runs : Live(r)' => Live(r) /\ pods'[r].task = pods[r].task
    BY <1>1, <2>1 DEF Live, DeletePod, ClusterOK, ClusterTypeOK, Pod
  <2>3. \A t \in Tasks, r \in Runs : Dispatched(t, r) => Dispatched(t, r)'
    BY <1>2 DEF Dispatched, HasRun
  <2> QED
    BY <1>3, <2>2, <2>3, KnownStays
<1>6. ASSUME \/ argus'.pc # "down" /\ saved' = tracked'
             \/ argus'.pc = "down" /\ tracked' = Nothing,
             UNCHANGED <<faults, beat>>,
             \A t \in Tasks : EntrySettled(t, saved'[t]),
             EndSettled', TodoOpen'
      PROVE  PeaceInv'
  <2>1. Undisturbed'
    BY <1>6 DEF PeaceInv, Undisturbed, NoBeat, Nothing, NoWork, minosVars
  <2>2. EntriesSettled'
    BY <1>2, <1>6 DEF EntriesSettled, EntrySettled, Settled, Busy
  <2> QED
    BY <1>5, <1>6, <2>1, <2>2 DEF PeaceInv
<1>7. \A t \in Tasks : EntrySettled(t, saved[t]) /\ EntrySettled(t, NoEntry)
  BY DEF PeaceInv, EntriesSettled, EntrySettled, NoEntry
<1>8. CASE /\ StartRound
           /\ saved' = tracked'
           /\ argus'.todo = {t \in Tasks : tracked'[t].run # NoRun /\ ~ tracked'[t].terminated}
           /\ \A t \in Tasks : \/ saved'[t] = saved[t]
                               \/ t \in Discovered /\ saved'[t] = Fresh(t)
           /\ UNCHANGED <<faults, beat>>
  <2>1. \A t \in Discovered : EntrySettled(t, Fresh(t))
    BY DEF Discovered, TasksIn, Fresh, NoEntry, EntrySettled, Settled, Begun, Busy, PeaceInv,
           ClockInv, StartsFresh, StartFresh, Peace
  <2>2. argus'.pc = "loop"
    BY <1>1, <1>8 DEF StartRound, ArgusTypeOK, Loop
  <2>3. EndSettled' /\ TodoOpen'
    BY <1>8, <2>2 DEF EndSettled, TodoOpen
  <2> QED
    BY <1>6, <1>7, <1>8, <2>1, <2>2, <2>3
<1>9. ASSUME NEW t \in Tasks,
             /\ Evaluate(t)
             /\ t \in argus.todo /\ saved' = tracked'
             /\ argus'.todo = argus.todo \ {t}
             /\ \A u \in Tasks \ {t} : saved'[u] = saved[u]
             /\ saved'[t].run = saved[t].run
             /\ saved'[t].terminated \/ argus'.pc = "loop"
             /\ UNCHANGED <<faults, beat>>
      PROVE  PeaceInv'
  <2>1. tracked = saved /\ argus'.pc \in {"loop", "move", "delete"}
    BY <1>4, <1>9 DEF Evaluate
  <2>2. Settled(t, saved[t].run)
    BY <1>9, <2>1 DEF PeaceInv, TodoOpen, OverInv, ReviewInv, RoundSound, Tracked,
                      EntriesSettled, EntrySettled
  <2>3. \A u \in Tasks : EntrySettled(u, saved'[u])
    BY <1>7, <1>9, <2>2 DEF EntrySettled
  <2>4. EndSettled'
    <3> SUFFICES ASSUME argus'.pc \in {"move", "delete"}
                 PROVE  /\ Settled(argus.task, tracked[argus.task].run)'
                        /\ tracked'[argus'.task].terminated
      BY DEF EndSettled
    <3>1. argus'.task = t /\ saved'[t].terminated
      BY <1>1, <1>9, EvaluateEndsOver DEF PeaceInv, OverInv, ReviewInv
    <3>2. tracked'[argus'.task].run = saved[t].run
      BY <1>9, <3>1
    <3> QED
      BY <1>2, <1>9, <2>2, <3>1, <3>2 DEF Settled, Busy
  <2>5. TodoOpen'
    BY <1>1, <1>9, <2>1 DEF PeaceInv, TodoOpen, ArgusTypeOK, Loop
  <2> QED
    BY <1>6, <1>9, <2>1, <2>3, <2>4, <2>5
<1>10. CASE RemovePod /\ UNCHANGED <<faults, beat>>
  <2>1. /\ UNCHANGED <<tracked, saved>> /\ argus.pc = "delete" /\ argus'.pc # "down"
        /\ argus'.pc = IF argus.how = "terminate" THEN "move" ELSE "untrack"
        /\ argus'.task = argus.task /\ argus'.todo = argus.todo
    BY <1>1, <1>10 DEF RemovePod, ArgusTypeOK, Loop
  <2>2. EndSettled'
    BY <1>2, <2>1 DEF PeaceInv, EndSettled, Settled, Busy
  <2>3. TodoOpen'
    BY <2>1 DEF PeaceInv, TodoOpen
  <2> QED
    BY <1>4, <1>6, <1>7, <1>10, <2>1, <2>2, <2>3
<1>11. CASE /\ UntrackTask /\ saved' = tracked' /\ saved' = [saved EXCEPT ![argus.task] = NoEntry]
            /\ UNCHANGED <<faults, beat>>
  <2>1. /\ argus.pc = "untrack" /\ argus.task \in Tasks /\ tracked = saved
        /\ argus'.pc = "loop" /\ argus'.todo = argus.todo
    BY <1>1, <1>4, <1>11 DEF UntrackTask, ArgusTypeOK, Loop, ArgusAssigned
  <2>2. \A t \in Tasks : saved'[t] = saved[t] \/ saved'[t] = NoEntry
    BY <1>1, <1>11, <2>1 DEF ArgusTypeOK
  <2>3. TodoOpen'
    BY <1>1, <1>11, <2>1, <2>2 DEF PeaceInv, TodoOpen, NoEntry, ArgusTypeOK, Loop
  <2>4. EndSettled'
    BY <2>1 DEF EndSettled
  <2> QED
    BY <1>6, <1>7, <1>11, <2>1, <2>2, <2>3, <2>4
<1>12. CASE ArgusCrash /\ UNCHANGED <<faults, beat>>
  BY <1>6, <1>7, <1>12 DEF ArgusCrash, AtRest, EndSettled, TodoOpen
<1>13. CASE /\ ArgusStart
            /\ saved' = tracked'
            /\ \A t \in Tasks : saved'[t] = NoEntry \/ saved'[t] = saved[t]
            /\ UNCHANGED <<faults, beat>>
  <2>1. argus'.pc = "loop" /\ argus'.todo = {}
    BY <1>13 DEF ArgusStart, AtRest
  <2> QED
    BY <1>6, <1>7, <1>13, <2>1 DEF EndSettled, TodoOpen
<1> QED
  BY <1>8, <1>9, <1>10, <1>11, <1>12, <1>13, PeacefulArgus

\* k3s makes no pod by itself, and the clock none.
LEMMA RestKeepsPeace ==
  ASSUME Peace, PeaceInv, ClockInv', OverInv',
         (ClusterNext /\ UNCHANGED <<tasks, minosVars, argusVars>>) \/ Tick \/ UNCHANGED vars
  PROVE  PeaceInv'
<1>1. StoreTypeOK /\ ArgusTypeOK /\ ClusterOK /\ ArgusAssigned
  BY DEF PeaceInv, ClockInv, RunsInv, WellTyped, TypeOK, Assigned, ClusterOK
<1>2. /\ UNCHANGED <<minosVars, argus, faults>>
      /\ \A r \in Runs : Live(r)' => Live(r) /\ pods'[r].task = pods[r].task
  <2>1. CASE ClusterNext /\ UNCHANGED <<tasks, minosVars, argusVars>>
    <3>1. PICK q \in Runs : PodStarts(q) \/ WorkerExits(q) \/ PodEvicted(q) \/ PodLost(q)
      BY <2>1 DEF ClusterNext
    <3>2. ~ PodLost(q)
      BY NothingFails DEF PodLost, PeaceInv, Undisturbed
    <3>3. CASE PodStarts(q)
      BY <1>1, <2>1, <3>3 DEF PodStarts, Live, ClusterOK, ClusterTypeOK, Pod, argusVars
    <3>4. CASE WorkerExits(q)
      BY <1>1, <2>1, <3>4 DEF WorkerExits, Live, ClusterOK, ClusterTypeOK, Pod, argusVars
    <3>5. CASE PodEvicted(q)
      BY <1>1, <2>1, <3>5 DEF PodEvicted, Live, ClusterOK, ClusterTypeOK, Pod, argusVars
    <3> QED
      BY <3>1, <3>2, <3>3, <3>4, <3>5
  <2>2. CASE Tick \/ UNCHANGED vars
    BY <2>2 DEF Tick, ArgusAges, vars, clusterVars, argusVars, Live
  <2> QED
    BY <2>1, <2>2
<1>3. /\ \A t \in Tasks : tasks'[t].run = tasks[t].run /\ tasks'[t].state = tasks[t].state
      /\ \A t \in Tasks : /\ saved'[t].run = saved[t].run
                          /\ saved'[t].terminated = saved[t].terminated
                          /\ tracked'[t].run = tracked[t].run
                          /\ tracked'[t].terminated = tracked[t].terminated
      /\ beat' = NoBeat
      /\ tracked' = IF argus.pc = "down" THEN Nothing ELSE saved'
  <2>1. tracked = (IF argus.pc = "down" THEN Nothing ELSE saved) /\ beat = NoBeat
    BY DEF PeaceInv, Undisturbed
  <2>2. CASE UNCHANGED <<tasks, argusVars>>
    BY <2>1, <2>2 DEF argusVars
  <2>3. CASE Tick
    <3>1. \A row \in Row : Aged(row).run = row.run /\ Aged(row).state = row.state
      BY DEF Aged, Row
    <3>2. \A e \in Entry : AgedEntry(e).run = e.run /\ AgedEntry(e).terminated = e.terminated
      BY DEF AgedEntry, Entry
    <3>3. AgedEntry(NoEntry) = NoEntry
      BY DEF AgedEntry, NoEntry
    <3>4. beat' = NoBeat
      BY <2>1, <2>3, <3>3 DEF Tick, ArgusAges, NoBeat
    <3>5. tracked' = IF argus.pc = "down" THEN Nothing ELSE saved'
      BY <2>1, <2>3, <3>3 DEF Tick, ArgusAges, Nothing
    <3> QED
      BY <1>1, <2>3, <3>1, <3>2, <3>4, <3>5 DEF Tick, TasksAge, ArgusAges, StoreTypeOK, ArgusTypeOK
  <2> QED
    BY <2>2, <2>3 DEF vars
<1>4. \A t \in Tasks : \A r : Settled(t, r) <=> Settled(t, r)'
  BY <1>2, <1>3 DEF Settled, Busy, minosVars
<1>5. LivePodsKnown'
  <2>1. \A t \in Tasks, r \in Runs : Dispatched(t, r) => Dispatched(t, r)'
    BY <1>2 DEF Dispatched, HasRun, minosVars
  <2> QED
    BY <1>2, <1>4, <2>1, KnownStays
<1>6. Undisturbed'
  BY <1>2, <1>3 DEF PeaceInv, Undisturbed, NoBeat, NoEntry, Nothing, NoWork, minosVars
<1>7. EntriesSettled'
  <2>1. ASSUME NEW t \in Tasks, saved'[t].run # NoRun, ~ saved'[t].terminated
        PROVE  \E r : r = saved'[t].run /\ Settled(t, r)'
    BY <1>3, <1>4, <2>1 DEF PeaceInv, EntriesSettled, EntrySettled
  <2> QED
    BY <2>1 DEF EntriesSettled, EntrySettled, Settled, Busy
<1>8. EndSettled'
  <2> SUFFICES ASSUME argus'.pc = "move" \/ (argus'.pc = "delete" /\ argus'.how = "terminate")
               PROVE  /\ Settled(argus.task, tracked[argus.task].run)'
                      /\ tracked'[argus'.task].terminated
    BY DEF EndSettled
  <2>1. /\ argus.task \in Tasks /\ argus' = argus
        /\ Settled(argus.task, tracked[argus.task].run)
        /\ tracked[argus.task].terminated
    BY <1>1, <1>2 DEF ArgusAssigned, PeaceInv, EndSettled
  <2>2. PICK t \in Tasks : t = argus.task
    BY <2>1
  <2>3. Settled(t, tracked[t].run) /\ tracked'[t].run = tracked[t].run
    BY <1>3, <2>1, <2>2
  <2>4. \E r : r = tracked[t].run /\ Settled(t, r)'
    BY <1>4, <2>3
  <2> QED
    BY <1>3, <2>1, <2>2, <2>3, <2>4 DEF Settled, Busy
<1>9. TodoOpen'
  BY <1>1, <1>2, <1>3 DEF PeaceInv, TodoOpen, ArgusTypeOK, Loop
<1> QED
  BY <1>5, <1>6, <1>7, <1>8, <1>9 DEF PeaceInv

LEMMA StepKeepsPeace == Peace => (PeaceInv /\ [Next]_vars => PeaceInv')
<1> SUFFICES ASSUME Peace, PeaceInv, [Next]_vars PROVE PeaceInv'
  OBVIOUS
<1>1. ClockInv' /\ OverInv'
  BY StepKeepsClockInv, StepKeepsOverInv DEF PeaceInv
<1>2. CASE MinosNext /\ UNCHANGED argusVars
  BY <1>1, <1>2, MinosKeepsPeace
<1>3. CASE ArgusNext /\ UNCHANGED minosVars
  BY <1>1, <1>3, MoveTaskKeepsPeace, WatchKeepsPeace, PeacefulArgus
<1> QED
  BY <1>1, <1>2, <1>3, RestKeepsPeace DEF Next

LEMMA InitPeace == Peace => (Init => PeaceInv)
<1> SUFFICES ASSUME Peace, Init PROVE PeaceInv
  OBVIOUS
<1>1. Undisturbed
  BY DEF Peace, Init, ClusterInit, MinosInit, ArgusInit, AtRest, Undisturbed
<1>2. LivePodsKnown
  BY DEF Init, ClusterInit, NoPod, Live, LivePodsKnown
<1>3. EntriesSettled /\ EndSettled /\ TodoOpen
  BY DEF Init, ArgusInit, AtRest, Nothing, NoEntry, EntriesSettled, EntrySettled, EndSettled, TodoOpen
<1> QED
  BY <1>1, <1>2, <1>3, InitClockInv, InitOverInv DEF PeaceInv

LEMMA AlwaysPeace ==
  ASSUME Peace
  PROVE  Spec => []PeaceInv
<1>1. PeaceInv /\ [Next]_vars => PeaceInv'
  BY StepKeepsPeace
<1>2. Init => PeaceInv
  BY InitPeace
<1> QED
  BY <1>1, <1>2, PTL DEF Spec

(***************************************************************************)
(* A task has at most one live pod, through any number of respawns and of  *)
(* deaths of Argus, if dispatches do not overlap and none is cut short; or *)
(* with a sidecar, whatever happens.  MCTwoRespawns.cfg shows what happens *)
(* when dispatches overlap.                                                *)
(***************************************************************************)
Orderly == OneDispatch /\ MaxFaults = 0 /\ MaxMinosCrashes = 0

LEMMA PeaceMeansOnePod ==
  ASSUME Peace, PeaceInv
  PROVE  OneLivePod
<1> SUFFICES ASSUME NEW q \in Runs, NEW r \in Runs, Live(q), Live(r),
                    pods[q].task = pods[r].task
             PROVE  q = r
  BY DEF OneLivePod
<1> DEFINE t == pods[r].task
<1>1. /\ Settled(t, q) \/ Dispatched(t, q)
      /\ Settled(t, r) \/ Dispatched(t, r)
  BY DEF PeaceInv, LivePodsKnown
<1> HIDE DEF t
<1>2. \A s \in Runs : Dispatched(t, s) => Busy(t)
  BY DEF Dispatched, HasRun, Busy
<1> QED
  BY <1>1, <1>2 DEF Settled, Dispatched, Peace, OneDispatch

THEOREM OneWorkerPerTask ==
  ASSUME Orderly \/ Sidecar
  PROVE  Spec => []OneLivePod
<1>1. CASE Sidecar
  <2>1. Spec => []SidecarInv
    BY <1>1, AlwaysSidecar
  <2> QED
    BY <2>1, SidecarMeansOnePod, PTL
<1>2. CASE ~ Sidecar
  <2>1. Peace
    BY <1>2 DEF Orderly, Peace
  <2>2. Spec => []PeaceInv
    BY <2>1, AlwaysPeace
  <2>3. PeaceInv => OneLivePod
    BY <2>1, PeaceMeansOnePod
  <2> QED
    BY <2>2, <2>3, PTL
<1> QED
  BY <1>1, <1>2

(***************************************************************************)
(* Under the same conditions Argus acts for the run the row names: a task  *)
(* is never hibernated or failed for an old pod, also after restarts, and  *)
(* also if a heartbeat saves its entry late.                               *)
(***************************************************************************)
THEOREM ArgusActsForCurrentRun ==
  ASSUME Orderly \/ Sidecar
  PROVE  Spec => []ArgusJudgesCurrentRun
<1>1. CASE Sidecar
  <2>1. Spec => []SidecarInv
    BY <1>1, AlwaysSidecar
  <2> QED
    BY <2>1, SidecarMeansCurrentRun, PTL
<1>2. CASE ~ Sidecar
  <2>1. Peace
    BY <1>2 DEF Orderly, Peace
  <2>2. Spec => []PeaceInv
    BY <2>1, AlwaysPeace
  <2>3. PeaceInv => ArgusJudgesCurrentRun
    BY DEF PeaceInv, EndSettled, Settled, ArgusJudgesCurrentRun
  <2> QED
    BY <2>2, <2>3, PTL
<1> QED
  BY <1>1, <1>2
=============================================================================
