--------------------------- MODULE Zakros_proofs ---------------------------
(***************************************************************************)
(* The control plane keeps the registry correct, for every number of       *)
(* tasks, handlers, runs, failing calls and crashes.                       *)
(*                                                                         *)
(* Every step of Minos or Argus is at most one call of the store, on a     *)
(* task that exists (StepsTheRegistry); so what TaskStore_proofs shows of  *)
(* any one call holds of the whole system.  That the task exists is the    *)
(* inductive part: an action picks its task in one step and uses it in a   *)
(* later one (Assigned).                                                   *)
(***************************************************************************)
EXTENDS Zakros, TaskStore_proofs

(***************************************************************************)
(* Who works on a task has one.                                            *)
(***************************************************************************)
PodsAssigned == \A r \in Runs : pods[r].phase = "none" <=> pods[r].task = NoTask

HandlersAssigned ==
  \A h \in Handlers :
    /\ handlers[h].pc # "idle" => handlers[h].task \in Tasks
    /\ handlers[h].pc \in {"record", "start"} => handlers[h].run \in Runs

ArgusAssigned ==
  /\ argus.pc \in {"move", "delete", "untrack"} => argus.task \in Tasks
  /\ beat.task = NoTask => beat = NoBeat

Assigned == PodsAssigned /\ HandlersAssigned /\ ArgusAssigned

-----------------------------------------------------------------------------
(***************************************************************************)
(* Every step is at most one call of the store.                            *)
(***************************************************************************)

LEMMA TryTransitionStepsTheRegistry ==
  ASSUME NEW t \in Tasks, NEW to \in States, TryTransitionTask(t, to)
  PROVE  [RegistryStep]_tasks
  BY DEF TryTransitionTask, RegistryStep, Call

\* The targets the callers name are states.
LEMMA Targets == {"running", "awaiting-review", "completed", "failed"} \subseteq States
  BY DEF States, Terminal

LEMMA MinosStepsTheRegistry ==
  ASSUME TypeOK, Assigned, MinosNext
  PROVE  [RegistryStep]_tasks
<1>1. ASSUME NEW h \in Handlers, NEW t \in Tasks, Commission(h, t) PROVE [RegistryStep]_tasks
  BY <1>1 DEF Commission, RegistryStep, Call
<1>2. ASSUME NEW h \in Handlers, NEW t \in Tasks, Respawn(h, t) PROVE [RegistryStep]_tasks
  BY <1>2 DEF Respawn
<1>3. ASSUME NEW h \in Handlers, HandlerStep(h) PROVE [RegistryStep]_tasks
  <2>1. handlers[h].pc # "idle" => handlers[h].task \in Tasks
    BY DEF Assigned, HandlersAssigned
  <2>2. CASE SpawnPod(h)
    BY <2>2 DEF SpawnPod
  <2>3. CASE SpawnFails(h)
    BY <2>1, <2>3, Targets, TryTransitionStepsTheRegistry DEF SpawnFails
  <2>4. CASE RecordRun(h)
    <3>1. handlers[h].task \in Tasks /\ handlers[h].run \in Runs
      BY <2>1, <2>4 DEF RecordRun, Assigned, HandlersAssigned
    <3> QED
      BY <3>1, <2>4 DEF RecordRun, RegistryStep, Call
  <2>5. CASE StartTask(h)
    BY <2>1, <2>5, Targets, TryTransitionStepsTheRegistry DEF StartTask
  <2> QED
    BY <1>3, <2>2, <2>3, <2>4, <2>5 DEF HandlerStep
<1>4. ASSUME NEW r \in Runs, NEW p \in PRs, ReportPR(r, p) PROVE [RegistryStep]_tasks
  <2>1. pods[r].task \in Tasks
    BY <1>4 DEF ReportPR, Assigned, PodsAssigned, TypeOK, ClusterTypeOK, Pod
  <2> QED
    BY <1>4, <2>1 DEF ReportPR, RegistryStep, Call
<1>5. ASSUME NEW t \in Tasks, NEW merged \in BOOLEAN, PullRequestClosed(t, merged)
      PROVE  [RegistryStep]_tasks
  BY <1>5, Targets DEF PullRequestClosed, RegistryStep, Call
<1>6. CASE Sweeper
  <2>1. CASE SweepList
    BY <2>1 DEF SweepList
  <2>2. ASSUME NEW t \in Tasks, SweepAct(t) PROVE [RegistryStep]_tasks
    BY <2>2, Targets, TryTransitionStepsTheRegistry DEF SweepAct, RegistryStep, Call
  <2> QED
    BY <1>6, <2>1, <2>2 DEF Sweeper
<1>7. CASE Startup
  <2>1. CASE MinosStart \/ MinosServes
    BY <2>1 DEF MinosStart, MinosServes
  <2>2. ASSUME NEW t \in Tasks, ReconcileLook(t) PROVE [RegistryStep]_tasks
    BY <2>2 DEF ReconcileLook
  <2>3. ASSUME NEW t \in Tasks, ReconcileAct(t) PROVE [RegistryStep]_tasks
    BY <2>3, Targets, TryTransitionStepsTheRegistry DEF ReconcileAct
  <2> QED
    BY <1>7, <2>1, <2>2, <2>3 DEF Startup
<1>8. CASE MinosCrash
  BY <1>8 DEF MinosCrash
<1> QED
  BY <1>1, <1>2, <1>3, <1>4, <1>5, <1>6, <1>7, <1>8 DEF MinosNext

LEMMA ArgusStepsTheRegistry ==
  ASSUME TypeOK, Assigned, ArgusNext
  PROVE  [RegistryStep]_tasks
<1>1. CASE MoveTask
  <2>1. argus.task \in Tasks
    BY <1>1 DEF MoveTask, Assigned, ArgusAssigned
  <2> QED
    BY <1>1, <2>1, Targets, TryTransitionStepsTheRegistry DEF MoveTask
<1>2. CASE UNCHANGED tasks
  BY <1>2
<1> QED
  BY <1>1, <1>2
  DEF ArgusNext, LoopStep, StartRound, Evaluate, RemovePod, UntrackTask, Heartbeat,
      HeartbeatSaved, ArgusCrash, ArgusStart

LEMMA StepsTheRegistry ==
  ASSUME TypeOK, Assigned, [Next]_vars
  PROVE  [RegistryStep]_tasks
  BY MinosStepsTheRegistry, ArgusStepsTheRegistry DEF Next, Tick, RegistryStep, vars

-----------------------------------------------------------------------------
(***************************************************************************)
(* The cluster.                                                            *)
(***************************************************************************)
ClusterOK == ClusterTypeOK /\ PodsAssigned

LEMMA SpendOK ==
  ASSUME ClusterTypeOK, NEW err, Spend(err)
  PROVE  faults' \in 0 .. MaxFaults
  BY MaxFaultsAssumption DEF ClusterTypeOK, Spend

LEMMA CreatePodOK ==
  ASSUME ClusterOK, NEW r \in Runs, NEW t \in Tasks, CreatePod(r, t)
  PROVE  pods' \in [Runs -> Pod] /\ PodsAssigned'
  BY NoTaskAssumption DEF ClusterOK, ClusterTypeOK, PodsAssigned, CreatePod, Pod, Phases, Exits

LEMMA DeletePodOK ==
  ASSUME ClusterOK, NEW r, DeletePod(r)
  PROVE  pods' \in [Runs -> Pod] /\ PodsAssigned'
<1> DEFINE phase(q) == IF q # r \/ pods[q].phase = "none" THEN pods[q].phase ELSE "gone"
<1>1. ASSUME NEW q \in Runs
      PROVE  /\ pods'[q] = [pods[q] EXCEPT !.phase = phase(q)]
             /\ phase(q) \in Phases
  <2>1. pods[q] = [pods[q] EXCEPT !.phase = pods[q].phase] /\ pods[q].phase \in Phases
    BY DEF ClusterOK, ClusterTypeOK, Pod
  <2> QED
    BY <2>1 DEF ClusterOK, ClusterTypeOK, DeletePod, Phases
<1> HIDE DEF phase
<1>2. pods' = [q \in Runs |-> pods'[q]]
  BY DEF ClusterOK, ClusterTypeOK, DeletePod
<1>3. \A q \in Runs : pods'[q] \in Pod
  BY <1>1 DEF ClusterOK, ClusterTypeOK, Pod
<1>4. \A q \in Runs : pods'[q].task = pods[q].task /\ pods'[q].phase = phase(q)
  BY <1>1 DEF ClusterOK, ClusterTypeOK, Pod
<1> QED
  BY <1>2, <1>3, <1>4 DEF ClusterOK, PodsAssigned, phase

LEMMA ClusterStepOK ==
  ASSUME ClusterOK, ClusterNext
  PROVE  ClusterOK'
<1> SUFFICES ASSUME NEW r \in Runs,
                    PodStarts(r) \/ WorkerExits(r) \/ PodEvicted(r) \/ PodLost(r)
             PROVE  ClusterOK'
  BY DEF ClusterNext
<1>1. CASE PodStarts(r)
  BY <1>1 DEF ClusterOK, ClusterTypeOK, PodsAssigned, PodStarts, Pod, Phases
<1>2. CASE WorkerExits(r)
  BY <1>2 DEF ClusterOK, ClusterTypeOK, PodsAssigned, WorkerExits, Pod, Phases, Exits
<1>3. CASE PodEvicted(r)
  BY <1>3 DEF ClusterOK, ClusterTypeOK, PodsAssigned, PodEvicted, Pod, Phases, Live
<1>4. CASE PodLost(r)
  BY <1>4, SpendOK, DeletePodOK DEF ClusterOK, ClusterTypeOK, PodLost
<1> QED
  BY <1>1, <1>2, <1>3, <1>4

-----------------------------------------------------------------------------
(***************************************************************************)
(* Minos.                                                                  *)
(***************************************************************************)
MinosOK == MinosTypeOK /\ HandlersAssigned

LEMMA MinosStepOK ==
  ASSUME ClusterOK, MinosOK, MinosNext
  PROVE  ClusterOK' /\ MinosOK'
<1> USE DEF MinosOK
<1>1. ASSUME NEW h \in Handlers, NEW t \in Tasks, Dispatch(h, t) PROVE MinosOK'
  BY <1>1 DEF Dispatch, Idle, Handler, MinosTypeOK, HandlersAssigned
<1>2. ASSUME NEW h \in Handlers, Return(h) PROVE MinosOK'
  BY <1>2 DEF Return, Idle, Handler, MinosTypeOK, HandlersAssigned
<1>3. ASSUME NEW h \in Handlers, NEW pc \in {"record", "start"}, NEW r \in Runs,
             handlers[h].pc # "idle", Goto(h, pc, r)
      PROVE  MinosOK'
  <2> DEFINE new == [handlers[h] EXCEPT !.pc = pc, !.run = r]
  <2>1. handlers' = [handlers EXCEPT ![h] = new]
    BY <1>3 DEF Goto
  <2>2. new \in Handler /\ new.pc = pc /\ new.run = r /\ new.task = handlers[h].task
    BY DEF MinosTypeOK, Handler
  <2>3. new.task \in Tasks
    BY <1>3, <2>2 DEF HandlersAssigned
  <2> QED
    BY <1>3, <2>1, <2>2, <2>3 DEF Goto, MinosTypeOK, HandlersAssigned
<1>4. UNCHANGED clusterVars => ClusterOK'
  BY DEF ClusterOK, ClusterTypeOK, PodsAssigned, clusterVars
<1>5. UNCHANGED pods /\ (\E err : Spend(err)) => ClusterOK'
  BY SpendOK DEF ClusterOK, ClusterTypeOK, PodsAssigned
<1>6. ASSUME NEW h \in Handlers, NEW t \in Tasks, Commission(h, t) \/ Respawn(h, t)
      PROVE  ClusterOK' /\ MinosOK'
  BY <1>6, <1>1, <1>4 DEF Commission, Respawn
<1>7. ASSUME NEW h \in Handlers, HandlerStep(h) PROVE ClusterOK' /\ MinosOK'
  <2>1. handlers[h].pc # "idle" => handlers[h].task \in Tasks
    BY DEF HandlersAssigned
  <2>2. CASE SpawnPod(h)
    BY <2>1, <2>2, <1>3, CreatePodOK DEF SpawnPod, ClusterOK, ClusterTypeOK
  <2>3. CASE SpawnFails(h)
    BY <2>1, <2>3, <1>2, <1>5, CreatePodOK, SpendOK DEF SpawnFails, ClusterOK, ClusterTypeOK
  <2>4. CASE RecordRun(h)
    <3>1. handlers[h].run \in Runs
      BY <2>4 DEF RecordRun, HandlersAssigned
    <3> QED
      BY <2>4, <3>1, <1>2, <1>3, <1>5 DEF RecordRun
  <2>5. CASE StartTask(h)
    BY <2>5, <1>2, <1>5 DEF StartTask
  <2> QED
    BY <1>7, <2>2, <2>3, <2>4, <2>5 DEF HandlerStep
<1>8. ASSUME NEW r \in Runs, NEW p \in PRs, ReportPR(r, p) PROVE ClusterOK' /\ MinosOK'
  BY <1>8, <1>4 DEF ReportPR, minosVars, MinosTypeOK, HandlersAssigned
<1>9. ASSUME NEW t \in Tasks, NEW merged \in BOOLEAN, PullRequestClosed(t, merged)
      PROVE  ClusterOK' /\ MinosOK'
  BY <1>9, <1>4 DEF PullRequestClosed, minosVars, MinosTypeOK, HandlersAssigned
<1>10. CASE Sweeper
  <2>1. CASE SweepList
    BY <2>1, <1>4 DEF SweepList, Due, MinosTypeOK, HandlersAssigned
  <2>2. ASSUME NEW t \in Tasks, SweepAct(t) PROVE ClusterOK' /\ MinosOK'
    BY <2>2, <1>5 DEF SweepAct, MinosTypeOK, HandlersAssigned
  <2> QED
    BY <1>10, <2>1, <2>2 DEF Sweeper
<1>11. CASE Startup
  <2>1. CASE MinosStart
    BY <2>1, <1>5 DEF MinosStart, MinosTypeOK, HandlersAssigned
  <2>2. CASE MinosServes
    BY <2>2, <1>4 DEF MinosServes, MinosTypeOK, HandlersAssigned
  <2>3. ASSUME NEW t \in Tasks, ReconcileLook(t) PROVE ClusterOK' /\ MinosOK'
    BY <2>3, <1>5 DEF ReconcileLook, Reconciled, MinosTypeOK, HandlersAssigned
  <2>4. ASSUME NEW t \in Tasks, ReconcileAct(t) PROVE ClusterOK' /\ MinosOK'
    BY <2>4, <1>5 DEF ReconcileAct, MinosTypeOK, HandlersAssigned
  <2> QED
    BY <1>11, <2>1, <2>2, <2>3, <2>4 DEF Startup
<1>12. CASE MinosCrash
  BY <1>12, <1>4, MaxMinosCrashesAssumption
  DEF MinosCrash, Idle, NoWork, Handler, MinosTypeOK, HandlersAssigned
<1> QED
  BY <1>6, <1>7, <1>8, <1>9, <1>10, <1>11, <1>12 DEF MinosNext

-----------------------------------------------------------------------------
(***************************************************************************)
(* Argus.                                                                  *)
(***************************************************************************)
ArgusOK == ArgusTypeOK /\ ArgusAssigned

LEMMA NoEntryOK == NoEntry \in Entry
  BY MaxAgeAssumption, ThresholdsAssumption DEF NoEntry, Entry

LEMMA FreshOK == ASSUME StoreTypeOK, NEW t \in Tasks PROVE Fresh(t) \in Entry
<1>1. tasks[t].run \in Runs \cup {NoRun} /\ tasks[t].age \in 0 .. MaxAge
  BY DEF StoreTypeOK, Row
<1>2. ASSUME NEW r \in Runs \cup {NoRun}, NEW w \in 0 .. MaxAge
      PROVE  [NoEntry EXCEPT !.run = r, !.wall = w] \in Entry
  BY NoEntryOK DEF Entry
<1> QED
  BY <1>1, <1>2 DEF Fresh

LEMMA AgedEntryOK == ASSUME NEW e \in Entry PROVE AgedEntry(e) \in Entry
<1>1. Older(e.wall) \in 0 .. MaxAge
  BY OlderInRange DEF Entry
<1>2. (IF e.silence < StallThreshold THEN e.silence + 1 ELSE e.silence) \in 0 .. StallThreshold
  BY ThresholdsAssumption DEF Entry
<1>3. ASSUME NEW w \in 0 .. MaxAge, NEW n \in 0 .. StallThreshold
      PROVE  [e EXCEPT !.wall = w, !.silence = n] \in Entry
  BY DEF Entry
<1> QED
  BY <1>1, <1>2, <1>3 DEF AgedEntry

\* The entry a rule leaves behind.
LEMMA EvaluatedOK ==
  ASSUME NEW e \in Entry
  PROVE  Noticed(e) \in Entry /\ [e EXCEPT !.terminated = TRUE] \in Entry
  BY DEF Noticed, Entry

LEMMA ArgusStepOK ==
  ASSUME StoreTypeOK, ClusterOK, ArgusOK, ArgusNext
  PROVE  ClusterOK' /\ ArgusOK'
<1> USE DEF ArgusOK
<1>1. UNCHANGED clusterVars => ClusterOK'
  BY DEF ClusterOK, ClusterTypeOK, PodsAssigned, clusterVars
<1>2. UNCHANGED pods /\ (\E err : Spend(err)) => ClusterOK'
  BY SpendOK DEF ClusterOK, ClusterTypeOK, PodsAssigned
<1>3. CASE StartRound
  <2> DEFINE new(err) == IF err = "list" THEN {} ELSE Discovered
  <2>1. PICK err \in {"none", "list", "save"} :
          /\ Spend(err)
          /\ tracked' = [t \in Tasks |-> IF t \in new(err) THEN Fresh(t) ELSE tracked[t]]
          /\ saved' = [t \in Tasks |-> IF t \in new(err) /\ err # "save" THEN Fresh(t)
                                      ELSE saved[t]]
    BY <1>3 DEF StartRound
  <2> HIDE DEF new
  <2>2. tracked' \in [Tasks -> Entry] /\ saved' \in [Tasks -> Entry]
    BY <2>1, FreshOK DEF ArgusTypeOK
  <2>3. argus' \in Loop /\ argus'.pc = "loop"
    BY <1>3 DEF StartRound, ArgusTypeOK, Loop
  <2>4. UNCHANGED <<pods, beat, argusCrashes>>
    BY <1>3 DEF StartRound
  <2> QED
    BY <1>2, <2>1, <2>2, <2>3, <2>4 DEF ArgusTypeOK, ArgusAssigned
<1>4. ASSUME NEW t \in Tasks, Evaluate(t) PROVE ClusterOK' /\ ArgusOK'
  <2>1. PICK err \in {"none", "phase", "save"}, how \in Ends \cup {"none"}, after \in Entry :
          /\ Spend(err)
          /\ tracked' = [tracked EXCEPT ![t] = after]
          /\ saved' = saved \/ saved' = [saved EXCEPT ![t] = after]
          /\ argus' = [pc   |-> IF how = "none" THEN "loop"
                                ELSE IF how = "terminate" THEN "delete" ELSE "move",
                       todo |-> argus.todo \ {t},
                       task |-> IF how = "none" THEN NoTask ELSE t,
                       how  |-> how]
    <3> DEFINE e == tracked[t]
               how(err) == Ending(e, IF err = "phase" THEN "unread" ELSE pods[e.run].phase)
               after(err) == IF how(err) = "none" THEN Noticed(e) ELSE [e EXCEPT !.terminated = TRUE]
    <3>1. PICK err \in {"none", "phase", "save"} :
          /\ Spend(err)
          /\ tracked' = [tracked EXCEPT ![t] = after(err)]
          /\ saved' = saved \/ saved' = [saved EXCEPT ![t] = after(err)]
          /\ argus' = [pc   |-> IF how(err) = "none" THEN "loop"
                                ELSE IF how(err) = "terminate" THEN "delete" ELSE "move",
                       todo |-> argus.todo \ {t},
                       task |-> IF how(err) = "none" THEN NoTask ELSE t,
                       how  |-> how(err)]
      BY <1>4 DEF Evaluate
    <3>2. how(err) \in Ends \cup {"none"}
      BY DEF Ending, Ends
    <3>3. after(err) \in Entry
      BY EvaluatedOK DEF ArgusTypeOK
    <3> HIDE DEF how, after
    <3> QED
      BY <3>1, <3>2, <3>3
  <2>2. argus' \in Loop
    BY <2>1 DEF ArgusTypeOK, Loop
  <2>3. argus'.pc \in {"move", "delete", "untrack"} => argus'.task \in Tasks
    BY <2>1
  <2>4. tracked' \in [Tasks -> Entry] /\ saved' \in [Tasks -> Entry]
    BY <2>1 DEF ArgusTypeOK
  <2> QED
    BY <1>2, <1>4, <2>1, <2>2, <2>3, <2>4 DEF Evaluate, ArgusTypeOK, ArgusAssigned
<1>5. CASE MoveTask
  BY <1>2, <1>5 DEF MoveTask, ArgusTypeOK, ArgusAssigned, Loop
<1>6. CASE RemovePod
  <2>1. ArgusOK'
    BY <1>6 DEF RemovePod, ArgusTypeOK, ArgusAssigned, Loop
  <2>2. ClusterOK'
    BY <1>2, <1>6, SpendOK, DeletePodOK DEF RemovePod, ClusterOK, ClusterTypeOK
  <2> QED
    BY <2>1, <2>2
<1>7. CASE UntrackTask
  BY <1>2, <1>7, NoEntryOK DEF UntrackTask, ArgusTypeOK, ArgusAssigned, Loop
<1>8. ASSUME NEW t \in Tasks, Heartbeat(t) PROVE ClusterOK' /\ ArgusOK'
  <2>1. [tracked[t] EXCEPT !.silence = 0] \in Entry
    BY ThresholdsAssumption DEF ArgusTypeOK, Entry
  <2>2. tracked' \in [Tasks -> Entry]
    BY <1>8, <2>1 DEF Heartbeat, ArgusTypeOK
  <2> QED
    BY <1>1, <1>8, <2>2, NoTaskAssumption DEF Heartbeat, ArgusTypeOK, ArgusAssigned
<1>9. CASE HeartbeatSaved
  <2>1. beat.task \in Tasks
    BY <1>9 DEF HeartbeatSaved, ArgusTypeOK, ArgusAssigned
  <2>2. [beat.entry EXCEPT !.terminated = TRUE] \in Entry
    BY EvaluatedOK DEF ArgusTypeOK
  <2>3. saved' \in [Tasks -> Entry]
    BY <1>9, <2>1, <2>2 DEF HeartbeatSaved, ArgusTypeOK
  <2> QED
    BY <1>2, <1>9, <2>3, NoEntryOK DEF HeartbeatSaved, ArgusTypeOK, ArgusAssigned, NoBeat
<1>10. CASE ArgusCrash
  BY <1>1, <1>10, NoEntryOK, MaxArgusCrashesAssumption
  DEF ArgusCrash, AtRest, Nothing, NoBeat, ArgusTypeOK, ArgusAssigned, Loop
<1>11. CASE ArgusStart
  <2>1. saved' \in [Tasks -> Entry] /\ tracked' \in [Tasks -> Entry]
    BY <1>11, NoEntryOK DEF ArgusStart, Nothing, ArgusTypeOK
  <2> QED
    BY <1>2, <1>11, <2>1 DEF ArgusStart, AtRest, ArgusTypeOK, ArgusAssigned, Loop
<1> QED
  BY <1>3, <1>4, <1>5, <1>6, <1>7, <1>8, <1>9, <1>10, <1>11 DEF ArgusNext, LoopStep

LEMMA ArgusAgesOK ==
  ASSUME ArgusOK, ArgusAges
  PROVE  ArgusOK'
<1> USE DEF ArgusOK
<1>1. tracked' \in [Tasks -> Entry] /\ saved' \in [Tasks -> Entry]
  BY AgedEntryOK DEF ArgusAges, ArgusTypeOK
<1>2. beat' \in [task : Tasks \cup {NoTask}, entry : Entry]
  BY AgedEntryOK DEF ArgusAges, ArgusTypeOK
<1>3. beat.task = NoTask => beat' = NoBeat
  <2> SUFFICES ASSUME beat = NoBeat PROVE beat' = NoBeat
    BY DEF ArgusAssigned
  <2>1. AgedEntry(NoEntry) = NoEntry
    BY DEF AgedEntry, NoEntry
  <2>2. beat' = [NoBeat EXCEPT !.entry = AgedEntry(NoBeat.entry)]
    BY DEF ArgusAges
  <2> QED
    BY <2>1, <2>2 DEF NoBeat
<1>4. beat'.task = beat.task
  BY DEF ArgusAges, ArgusTypeOK
<1> QED
  BY <1>1, <1>2, <1>3, <1>4 DEF ArgusAges, ArgusTypeOK, ArgusAssigned

-----------------------------------------------------------------------------
(***************************************************************************)
(* The whole.                                                              *)
(***************************************************************************)
WellTyped == TypeOK /\ Assigned

LEMMA InitWellTyped == Init => WellTyped
<1> SUFFICES ASSUME Init PROVE WellTyped
  OBVIOUS
<1>1. StoreTypeOK
  BY InitType DEF Init
<1>2. ClusterOK
  BY MaxFaultsAssumption DEF Init, ClusterInit, NoPod, Pod, Phases, Exits, ClusterOK, ClusterTypeOK, PodsAssigned
<1>3. MinosOK
  BY MaxMinosCrashesAssumption
  DEF Init, MinosInit, Idle, NoWork, Handler, MinosOK, MinosTypeOK, HandlersAssigned
<1>4. ArgusOK
  BY NoEntryOK, MaxArgusCrashesAssumption
  DEF Init, ArgusInit, AtRest, Nothing, NoBeat, Loop, ArgusOK, ArgusTypeOK, ArgusAssigned
<1>5. TokensTypeOK
  BY TokenLifeAssumption DEF Init, ClusterInit, TokensTypeOK
<1> QED
  BY <1>1, <1>2, <1>3, <1>4, <1>5 DEF WellTyped, TypeOK, Assigned, ClusterOK, MinosOK, ArgusOK

LEMMA StepKeepsTokens ==
  ASSUME TokensTypeOK, [Next]_vars
  PROVE  TokensTypeOK'
<1>1. CASE UNCHANGED tokens
  BY <1>1 DEF TokensTypeOK
<1>2. CASE TokensAge
  BY <1>2, TokenLifeAssumption DEF TokensAge, TokensTypeOK
<1> QED
  BY <1>1, <1>2 DEF Next, Tick, vars

LEMMA StepKeepsWellTyped == WellTyped /\ [Next]_vars => WellTyped'
<1> SUFFICES ASSUME WellTyped, [Next]_vars PROVE WellTyped'
  OBVIOUS
<1>1. StoreTypeOK'
  BY StepsTheRegistry, StepKeepsType DEF WellTyped, TypeOK
<1>2. StoreTypeOK /\ ClusterOK /\ MinosOK /\ ArgusOK
  BY DEF WellTyped, TypeOK, Assigned, ClusterOK, MinosOK, ArgusOK
<1>3. UNCHANGED clusterVars => ClusterOK'
  BY <1>2 DEF clusterVars, ClusterOK, ClusterTypeOK, PodsAssigned
<1>4. UNCHANGED minosVars => MinosOK'
  BY <1>2 DEF minosVars, MinosOK, MinosTypeOK, HandlersAssigned
<1>5. UNCHANGED argusVars => ArgusOK'
  BY <1>2 DEF argusVars, ArgusOK, ArgusTypeOK, ArgusAssigned
<1>6. ClusterOK' /\ MinosOK' /\ ArgusOK'
  BY <1>2, <1>3, <1>4, <1>5, MinosStepOK, ArgusStepOK, ClusterStepOK, ArgusAgesOK
  DEF Next, Tick, vars
<1>7. TokensTypeOK'
  BY StepKeepsTokens DEF WellTyped, TypeOK
<1> QED
  BY <1>1, <1>6, <1>7 DEF WellTyped, TypeOK, Assigned, ClusterOK, MinosOK, ArgusOK

LEMMA AlwaysWellTyped == Spec => []WellTyped
  BY InitWellTyped, StepKeepsWellTyped, PTL DEF Spec

(***************************************************************************)
(* The rows, the pods and the state of both processes are always well      *)
(* formed: no handler and no round of Argus ever works on a task or a run  *)
(* that does not exist.                                                    *)
(***************************************************************************)
THEOREM TypeCorrect == Spec => []TypeOK
<1>1. WellTyped => TypeOK
  BY DEF WellTyped
<1> QED
  BY <1>1, AlwaysWellTyped, PTL

LEMMA AlwaysStepsTheRegistry == Spec => [][RegistryStep]_tasks
<1>1. WellTyped /\ [Next]_vars => [RegistryStep]_tasks
  BY StepsTheRegistry DEF WellTyped
<1> QED
  BY <1>1, AlwaysWellTyped, PTL DEF Spec

(***************************************************************************)
(* Minos, Argus, Reconcile, the sweeper and the webhooks together never    *)
(* take a task off the documented state machine, whatever they interleave, *)
(* whichever call fails and whoever crashes.                               *)
(***************************************************************************)
THEOREM ControlPlaneImplementsTheLifecycle == Spec => ControlPlaneImplementsLifecycle
<1>1. Init => Lifecycle!Init
  BY InitIsLifecycleInit DEF Init
<1>2. WellTyped => StoreTypeOK
  BY DEF WellTyped, TypeOK
<1> QED
  BY <1>1, <1>2, AlwaysWellTyped, AlwaysStepsTheRegistry, StepIsLifecycleStep, PTL
  DEF Spec, ControlPlaneImplementsLifecycle, Lifecycle!Spec

(***************************************************************************)
(* In the whole system, too, a merged or closed pull request concerns one  *)
(* task at most.                                                           *)
(***************************************************************************)
THEOREM ControlPlanePRBoundOnce == Spec => []PRBoundOnce
<1>1. Init => PRBoundOnce
  BY InitPRBound DEF Init
<1>2. WellTyped => StoreTypeOK
  BY DEF WellTyped, TypeOK
<1> QED
  BY <1>1, <1>2, AlwaysWellTyped, AlwaysStepsTheRegistry, StepKeepsPRBound, PTL DEF Spec

(***************************************************************************)
(* In the whole system, too, the timestamps agree with the state of every  *)
(* task, through any number of respawns.                                   *)
(***************************************************************************)
THEOREM ControlPlaneStampsMatchState == Spec => []StampsMatchState
<1>1. Init => StampsMatchState
  BY InitStamps DEF Init
<1>2. WellTyped => StoreTypeOK
  BY DEF WellTyped, TypeOK
<1> QED
  BY <1>1, <1>2, AlwaysWellTyped, AlwaysStepsTheRegistry, StepKeepsStamps, PTL DEF Spec
=============================================================================
