------------------------------- MODULE Argus -------------------------------
(***************************************************************************)
(* Argus, the watcher (minos/argus, cmd/argus): a process of its own that  *)
(* shares the task rows and the cluster with Minos.  Its loop discovers    *)
(* running tasks and applies the rules to each pod it tracks; heartbeats   *)
(* arrive beside the loop; what is tracked is also saved, so that a        *)
(* restart finds it again.                                                 *)
(*                                                                         *)
(* Only the loop adds and removes tracked entries.  A heartbeat holds a    *)
(* pointer to one while it saves it.                                       *)
(***************************************************************************)
EXTENDS Cluster

CONSTANTS
  MaxWallClock,    \* budget of a run, in ticks; 0: none
  EscalationAt,    \* share of the budget at which to escalate; 0: never
  WarningAt,       \* share of the budget at which to warn; 0: never
  StallThreshold,  \* silence after which a pod is stalled; 0: no stall rule
  MaxArgusCrashes  \* bound: how often Argus dies

ASSUME ThresholdsAssumption ==
  /\ MaxWallClock \in Nat /\ EscalationAt \in Nat
  /\ WarningAt \in Nat    /\ StallThreshold \in Nat
ASSUME MaxArgusCrashesAssumption == MaxArgusCrashes \in Nat

VARIABLES
  argus,         \* the process and where its loop is
  tracked,       \* tracked[t]: what Argus.pods holds for task t
  saved,         \* saved[t]: the row of argus.task_states for task t
  beat,          \* the heartbeat whose entry is being saved
  argusCrashes   \* how many more times Argus may die

argusVars == <<argus, tracked, saved, beat, argusCrashes>>

(***************************************************************************)
(* An entry, argus.State.  wall counts ticks since StartedAt, silence      *)
(* ticks since LastHeartbeat, no further than the stall rule can tell.     *)
(***************************************************************************)
NoEntry == [run |-> NoRun, wall |-> 0, silence |-> 0, warned |-> FALSE,
            escalated |-> FALSE, terminated |-> FALSE]

Entry == [run : Runs \cup {NoRun}, wall : 0 .. MaxAge, silence : 0 .. StallThreshold,
          warned : BOOLEAN, escalated : BOOLEAN, terminated : BOOLEAN]

Nothing == [t \in Tasks |-> NoEntry]

(***************************************************************************)
(* pc    "down"; "loop" between the steps of a round; otherwise the next   *)
(*       call of hibernate, markFailed or terminate                        *)
(* todo  the entries this round has not evaluated yet                      *)
(* task  the task being ended, how: by which of the three functions        *)
(***************************************************************************)
Ends == {"hibernate", "fail", "terminate"}
Loop == [pc : {"down", "loop", "move", "delete", "untrack"}, todo : SUBSET Tasks,
         task : Tasks \cup {NoTask}, how : Ends \cup {"none"}]

AtRest(pc) == [pc |-> pc, todo |-> {}, task |-> NoTask, how |-> "none"]
NoBeat     == [task |-> NoTask, entry |-> NoEntry]

ArgusTypeOK ==
  /\ argus \in Loop
  /\ tracked \in [Tasks -> Entry]
  /\ saved \in [Tasks -> Entry]
  /\ beat \in [task : Tasks \cup {NoTask}, entry : Entry]
  /\ argusCrashes \in 0 .. MaxArgusCrashes

ArgusInit ==
  /\ argus = AtRest("loop")
  /\ tracked = Nothing
  /\ saved = Nothing
  /\ beat = NoBeat
  /\ argusCrashes = MaxArgusCrashes

Tracked(t) == tracked[t].run # NoRun

-----------------------------------------------------------------------------
(***************************************************************************)
(* The rules.  The pod is gone, pending, running, or its phase could not   *)
(* be read: none of these is looked at further.                            *)
(***************************************************************************)
OverBudget(e)    == MaxWallClock > 0 /\ e.wall >= MaxWallClock
Stalled(e)       == StallThreshold > 0 /\ e.silence >= StallThreshold
EscalationDue(e) == /\ MaxWallClock > 0 /\ EscalationAt > 0
                    /\ ~ e.escalated /\ e.wall >= EscalationAt
WarningDue(e)    == /\ MaxWallClock > 0 /\ WarningAt > 0
                    /\ ~ e.warned /\ e.wall >= WarningAt

\* Variant: a breach of the budget is treated like a failed pod.
EndingByFail(e, phase) ==
  IF phase = "Succeeded" THEN "hibernate"
  ELSE IF phase = "Failed" \/ OverBudget(e) \/ Stalled(e) THEN "fail"
  ELSE "none"

\* Variant: only pods that succeeded are over.
EndingOnSuccess(e, phase) ==
  IF phase = "Succeeded" THEN "hibernate"
  ELSE IF OverBudget(e) \/ Stalled(e) THEN "terminate"
  ELSE "none"

\* Variant: the rules wait for the pod to start.
EndingOnceStarted(e, phase) ==
  IF phase = "Succeeded" THEN "hibernate"
  ELSE IF phase = "Failed" THEN "fail"
  ELSE IF phase = "Running" /\ (OverBudget(e) \/ Stalled(e)) THEN "terminate"
  ELSE "none"

\* How the entry must end, given the phase that was read.
Ending(e, phase) ==
  IF phase = "Succeeded" THEN "hibernate"
  ELSE IF phase = "Failed" THEN "fail"
  ELSE IF OverBudget(e) \/ Stalled(e) THEN "terminate"
  ELSE "none"

\* What a round leaves of an entry that does not end.
Noticed(e) ==
  IF EscalationDue(e) THEN [e EXCEPT !.escalated = TRUE]
  ELSE IF WarningDue(e) THEN [e EXCEPT !.warned = TRUE]
  ELSE e

-----------------------------------------------------------------------------
(***************************************************************************)
(* The loop.                                                               *)
(***************************************************************************)

\* Variant: the clock starts when Argus first sees the run.
FreshFromNow(t) == [NoEntry EXCEPT !.run = tasks[t].run]

\* A running task is known by the id of the TASK: one that is tracked already
\* is left alone, whatever run the entry is for.
Fresh(t) == [NoEntry EXCEPT !.run = tasks[t].run, !.wall = tasks[t].age]

\* Variant: tasks in review are tracked as well, so that their pods are cleaned up.
DiscoveredInReview ==
  {t \in TasksIn({"running", "awaiting-review"}) : ~ Tracked(t) /\ tasks[t].run # NoRun}

Discovered == {t \in TasksIn({"running"}) : ~ Tracked(t) /\ tasks[t].run # NoRun}

\* discover, and the list of entries that evaluate will walk.  Entries that
\* were terminated are passed over.
StartRound ==
  /\ argus.pc = "loop"
  /\ argus.todo = {}
  /\ \E err \in {"none", "list", "save"} :
       LET new == IF err = "list" THEN {} ELSE Discovered
       IN  /\ Spend(err)
           /\ tracked' = [t \in Tasks |-> IF t \in new THEN Fresh(t) ELSE tracked[t]]
           /\ saved' = [t \in Tasks |-> IF t \in new /\ err # "save" THEN Fresh(t) ELSE saved[t]]
  /\ argus' = [argus EXCEPT !.todo = {t \in Tasks : tracked'[t].run # NoRun
                                                   /\ ~ tracked'[t].terminated}]
  /\ UNCHANGED <<tasks, pods, beat, argusCrashes>>

\* terminate deletes the pod first; the other two move the task first.
Evaluate(t) ==
  /\ argus.pc = "loop"
  /\ t \in argus.todo
  /\ \E err \in {"none", "phase", "save"} :
       LET e     == tracked[t]
           how   == Ending(e, IF err = "phase" THEN "unread" ELSE pods[e.run].phase)
           after == IF how = "none" THEN Noticed(e) ELSE [e EXCEPT !.terminated = TRUE]
       IN  /\ Spend(err)
           /\ tracked' = [tracked EXCEPT ![t] = after]
           /\ saved' = IF after = e \/ err = "save" THEN saved ELSE [saved EXCEPT ![t] = after]
           /\ argus' = [pc   |-> IF how = "none" THEN "loop"
                                 ELSE IF how = "terminate" THEN "delete" ELSE "move",
                        todo |-> argus.todo \ {t},
                        task |-> IF how = "none" THEN NoTask ELSE t,
                        how  |-> how]
  /\ UNCHANGED <<tasks, pods, beat, argusCrashes>>

\* TransitionTask.  The function goes on whatever the store answers.
MoveTask ==
  /\ argus.pc = "move"
  /\ \E err \in {"none", "store"} :
       /\ Spend(err)
       /\ IF err = "none"
          THEN TryTransitionTask(argus.task,
                                 IF argus.how = "hibernate" THEN "awaiting-review" ELSE "failed")
          ELSE UNCHANGED tasks
  /\ argus' = [argus EXCEPT !.pc = IF argus.how = "terminate" THEN "untrack" ELSE "delete"]
  /\ UNCHANGED <<pods, tracked, saved, beat, argusCrashes>>

\* DeletePod, of the run in the entry.
RemovePod ==
  /\ argus.pc = "delete"
  /\ \E err \in {"none", "k3s"} :
       /\ Spend(err)
       /\ IF err = "none" THEN DeletePod(tracked[argus.task].run) ELSE UNCHANGED pods
  /\ argus' = [argus EXCEPT !.pc = IF argus.how = "terminate" THEN "move" ELSE "untrack"]
  /\ UNCHANGED <<tasks, tracked, saved, beat, argusCrashes>>

\* Variant: only the saved row is removed.
UntrackRowOnly ==
  /\ argus.pc = "untrack"
  /\ saved' = [saved EXCEPT ![argus.task] = NoEntry]
  /\ argus' = [argus EXCEPT !.pc = "loop", !.task = NoTask, !.how = "none"]
  /\ UNCHANGED <<tasks, clusterVars, tracked, beat, argusCrashes>>

UntrackTask ==
  /\ argus.pc = "untrack"
  /\ tracked' = [tracked EXCEPT ![argus.task] = NoEntry]
  /\ \E err \in {"none", "store"} :
       /\ Spend(err)
       /\ saved' = IF err = "none" THEN [saved EXCEPT ![argus.task] = NoEntry] ELSE saved
  /\ argus' = [argus EXCEPT !.pc = "loop", !.task = NoTask, !.how = "none"]
  /\ UNCHANGED <<tasks, pods, beat, argusCrashes>>

-----------------------------------------------------------------------------
(***************************************************************************)
(* A heartbeat of the sidecar in any running pod of the task, with a token *)
(* that verifier.Require still accepts: one that has expired is answered   *)
(* with 401, which the sidecar logs.  The handler stamps the entry under   *)
(* the lock and saves it after the unlock.                                 *)
(***************************************************************************)
Beating(t) == {r \in Runs : pods[r].task = t /\ pods[r].phase = "Running" /\ tokens[r] > 0}

Heartbeat(t) ==
  /\ argus.pc # "down"
  /\ beat = NoBeat
  /\ Tracked(t)
  /\ Sidecar /\ Beating(t) # {}
  /\ tracked' = [tracked EXCEPT ![t].silence = 0]
  /\ beat' = [task |-> t, entry |-> tracked'[t]]
  /\ UNCHANGED <<tasks, clusterVars, argus, saved, argusCrashes>>

\* The entry was encoded at some moment after the stamp: it is written as it
\* was stamped, or as it is by now; an untracked entry is a terminated one.
HeartbeatSaved ==
  /\ beat # NoBeat
  /\ \E err \in {"none", "store"} :
       /\ Spend(err)
       /\ IF err = "store" THEN UNCHANGED saved
          ELSE \E e \in {beat.entry,
                         IF tracked[beat.task].run = beat.entry.run THEN tracked[beat.task]
                         ELSE [beat.entry EXCEPT !.terminated = TRUE]} :
                 saved' = [saved EXCEPT ![beat.task] = e]
  /\ beat' = NoBeat
  /\ UNCHANGED <<tasks, pods, argus, tracked, argusCrashes>>

-----------------------------------------------------------------------------
(***************************************************************************)
(* A crash loses the map, the round and the heartbeat; the saved rows      *)
(* stay.                                                                   *)
(***************************************************************************)
ArgusCrash ==
  /\ argus.pc # "down"
  /\ argusCrashes > 0
  /\ argusCrashes' = argusCrashes - 1
  /\ argus' = AtRest("down")
  /\ tracked' = Nothing
  /\ beat' = NoBeat
  /\ UNCHANGED <<tasks, clusterVars, saved>>

\* rehydrate drops a row if the phase of its pod can be read and is final.  A
\* pod that is gone gives an error instead, so its row is kept, and so is every
\* row when k3s does not answer; when the rows cannot be read none is loaded.
Dropped == {t \in Tasks : saved[t].run # NoRun /\ TerminalPhase(pods[saved[t].run].phase)}

ArgusStart ==
  /\ argus.pc = "down"
  /\ argus' = AtRest("loop")
  /\ \E err \in {"none", "phase", "load"} :
       LET drop == IF err = "none" THEN Dropped ELSE {}
       IN  /\ Spend(err)
           /\ saved' = [t \in Tasks |-> IF t \in drop THEN NoEntry ELSE saved[t]]
           /\ tracked' = IF err = "load" THEN Nothing ELSE saved'
  /\ UNCHANGED <<tasks, pods, beat, argusCrashes>>

-----------------------------------------------------------------------------
\* One tick of the clock, seen by the timestamps Argus keeps.
AgedEntry(e) ==
  IF e.run = NoRun THEN e
  ELSE [e EXCEPT !.wall = Older(@),
                 !.silence = IF @ < StallThreshold THEN @ + 1 ELSE @]

ArgusAges ==
  /\ tracked' = [t \in Tasks |-> AgedEntry(tracked[t])]
  /\ saved' = [t \in Tasks |-> AgedEntry(saved[t])]
  /\ beat' = [beat EXCEPT !.entry = AgedEntry(@)]
  /\ UNCHANGED <<argus, argusCrashes>>

LoopStep ==
  \/ StartRound \/ MoveTask \/ RemovePod \/ UntrackTask
  \/ \E t \in Tasks : Evaluate(t)

ArgusNext ==
  \/ LoopStep
  \/ \E t \in Tasks : Heartbeat(t)
  \/ HeartbeatSaved
  \/ ArgusCrash
  \/ ArgusStart
=============================================================================
