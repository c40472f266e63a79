-------------------------- MODULE TaskStore_proofs --------------------------
(***************************************************************************)
(* The task registry is correct for every set of tasks and pull requests   *)
(* and for every bound: what MCServices checks on a small instance.       *)
(*                                                                         *)
(* The lemmas are about one method of the store each: they say that it     *)
(* keeps the rows well formed and that it is a step of the task machine,   *)
(* or none.  The proofs about the control plane cite the same lemmas.      *)
(***************************************************************************)
EXTENDS TaskStore, TLAPS

(***************************************************************************)
(* Any change of the registry: one call of one method, by whoever, or the  *)
(* passing of time.  The clients of StoreSpec make such changes, and so    *)
(* do Minos and Argus; what this step keeps, they all keep.                *)
(***************************************************************************)
Call(t) ==
  \/ InsertTask(t)
  \/ \E to \in States : TransitionTask(t, to)
  \/ \E r \in Runs : SetTaskRun(t, r)
  \/ \E p \in PRs : SetTaskPR(t, p)
  \/ MarkTaskReminded(t)

RegistryStep == TasksAge \/ \E t \in Tasks : Call(t)

LEMMA ClientsStepTheRegistry == [StoreNext]_tasks => [RegistryStep]_tasks
  BY Zenon DEF StoreNext, Client, RegistryStep, Call

-----------------------------------------------------------------------------
(***************************************************************************)
(* Rows stay well formed.                                                  *)
(***************************************************************************)

\* A move along an edge ends in a well-formed row, in the target state.
LEMMA MovedRow ==
  ASSUME NEW row \in Row, NEW to, ValidTransition(row.state, to)
  PROVE  Moved(row, to) \in Row /\ Moved(row, to).state = to
<1>1. to \in States
  BY DEF ValidTransition, States, Terminal
<1>2. (row.finished \/ to \in Terminal) \in BOOLEAN
  BY Zenon
<1>3. (IF to = "running" THEN row.started + 1 ELSE row.started) \in Nat
  BY DEF Row
<1>4. ASSUME NEW started \in Nat, NEW finished \in BOOLEAN
      PROVE  [state |-> to, run |-> row.run, pr |-> row.pr, started |-> started,
              finished |-> finished, reminded |-> FALSE, age |-> 0] \in Row
  BY <1>1, MaxAgeAssumption DEF Row
<1> QED
  BY <1>2, <1>3, <1>4, Zenon DEF Moved

\* One more tick stays within the bound.
LEMMA OlderInRange == \A n \in 0 .. MaxAge : Older(n) \in 0 .. MaxAge
  BY MaxAgeAssumption DEF Older

LEMMA NewRowOK == NewRow \in Row
  BY MaxAgeAssumption DEF NewRow, Row, States

LEMMA InsertKeepsType ==
  ASSUME StoreTypeOK, NEW t \in Tasks, InsertTask(t)
  PROVE  StoreTypeOK'
  BY NewRowOK DEF StoreTypeOK, InsertTask, Row, States

LEMMA TransitionKeepsType ==
  ASSUME StoreTypeOK, NEW t \in Tasks, NEW to, TransitionTask(t, to)
  PROVE  StoreTypeOK'
<1>1. Moved(tasks[t], to) \in Row
  BY MovedRow DEF StoreTypeOK, TransitionTask
<1> QED
  BY <1>1 DEF StoreTypeOK, TransitionTask

LEMMA TryTransitionKeepsType ==
  ASSUME StoreTypeOK, NEW t \in Tasks, NEW to, TryTransitionTask(t, to)
  PROVE  StoreTypeOK'
  BY TransitionKeepsType DEF TryTransitionTask, StoreTypeOK

LEMMA SetRunKeepsType ==
  ASSUME StoreTypeOK, NEW t \in Tasks, NEW r \in Runs \cup {NoRun}, SetTaskRun(t, r)
  PROVE  StoreTypeOK'
  BY DEF StoreTypeOK, SetTaskRun, Row

LEMMA SetPRKeepsType ==
  ASSUME StoreTypeOK, NEW t \in Tasks, NEW p \in PRs, SetTaskPR(t, p)
  PROVE  StoreTypeOK'
  BY DEF StoreTypeOK, SetTaskPR, Row

LEMMA RemindKeepsType ==
  ASSUME StoreTypeOK, NEW t \in Tasks, MarkTaskReminded(t)
  PROVE  StoreTypeOK'
  BY DEF StoreTypeOK, MarkTaskReminded, Row

LEMMA AgeKeepsType ==
  ASSUME StoreTypeOK, TasksAge
  PROVE  StoreTypeOK'
<1>1. \A row \in Row : Aged(row) \in Row
  BY OlderInRange DEF Aged, Row
<1> QED
  BY <1>1 DEF StoreTypeOK, TasksAge

-----------------------------------------------------------------------------
(***************************************************************************)
(* Steps of the task machine.                                              *)
(***************************************************************************)

\* The documented edges are the ones the stores accept.
LEMMA EdgesAreValidTransitions ==
  \A from, to : ValidTransition(from, to) <=> <<from, to>> \in Lifecycle!Edges
  BY DEF ValidTransition, Lifecycle!Edges

LEMMA InsertIsLifecycleStep ==
  ASSUME StoreTypeOK, NEW t \in Tasks, InsertTask(t)
  PROVE  [Lifecycle!Next]_taskState
<1>1. taskState[t] = "none"
  BY DEF taskState, InsertTask
<1>2. taskState' = [taskState EXCEPT ![t] = "queued"]
  BY DEF taskState, InsertTask, StoreTypeOK, NewRow
<1> QED
  BY <1>1, <1>2 DEF Lifecycle!Next, Lifecycle!Insert

LEMMA TransitionIsLifecycleStep ==
  ASSUME StoreTypeOK, NEW t \in Tasks, NEW to, TransitionTask(t, to)
  PROVE  [Lifecycle!Next]_taskState
<1>1. <<taskState[t], to>> \in Lifecycle!Edges
  BY EdgesAreValidTransitions DEF taskState, TransitionTask
<1>2. to \in Lifecycle!TaskStates
  BY DEF TransitionTask, ValidTransition, Lifecycle!TaskStates, Lifecycle!TerminalStates
<1>3. taskState' = [taskState EXCEPT ![t] = to]
  <2>1. Moved(tasks[t], to).state = to
    BY MovedRow DEF StoreTypeOK, TransitionTask
  <2> QED
    BY <2>1 DEF taskState, TransitionTask, StoreTypeOK
<1> QED
  BY <1>1, <1>2, <1>3 DEF Lifecycle!Next, Lifecycle!Step

LEMMA TryTransitionIsLifecycleStep ==
  ASSUME StoreTypeOK, NEW t \in Tasks, NEW to, TryTransitionTask(t, to)
  PROVE  [Lifecycle!Next]_taskState
  BY TransitionIsLifecycleStep DEF TryTransitionTask, taskState

\* The other methods leave every state alone.
LEMMA SetRunKeepsState ==
  ASSUME StoreTypeOK, NEW t \in Tasks, NEW r, SetTaskRun(t, r)
  PROVE  UNCHANGED taskState
  BY DEF StoreTypeOK, SetTaskRun, taskState, Row

LEMMA SetPRKeepsState ==
  ASSUME StoreTypeOK, NEW t \in Tasks, NEW p, SetTaskPR(t, p)
  PROVE  UNCHANGED taskState
  BY DEF StoreTypeOK, SetTaskPR, taskState, Row

LEMMA RemindKeepsState ==
  ASSUME StoreTypeOK, NEW t \in Tasks, MarkTaskReminded(t)
  PROVE  UNCHANGED taskState
  BY DEF StoreTypeOK, MarkTaskReminded, taskState, Row

LEMMA AgeKeepsState ==
  ASSUME StoreTypeOK, TasksAge
  PROVE  UNCHANGED taskState
<1>1. \A t \in Tasks : Aged(tasks[t]).state = tasks[t].state
  BY DEF StoreTypeOK, Aged, Row
<1> QED
  BY <1>1 DEF TasksAge, taskState

-----------------------------------------------------------------------------
\* A step keeps the rows well formed.
LEMMA StepKeepsType == StoreTypeOK /\ [RegistryStep]_tasks => StoreTypeOK'
<1> SUFFICES ASSUME StoreTypeOK, [RegistryStep]_tasks
             PROVE  StoreTypeOK'
  OBVIOUS
<1>1. ASSUME NEW t \in Tasks, InsertTask(t) PROVE StoreTypeOK'
  BY <1>1, InsertKeepsType
<1>2. ASSUME NEW t \in Tasks, NEW to \in States, TransitionTask(t, to) PROVE StoreTypeOK'
  BY <1>2, TransitionKeepsType
<1>3. ASSUME NEW t \in Tasks, NEW r \in Runs, SetTaskRun(t, r) PROVE StoreTypeOK'
  BY <1>3, SetRunKeepsType
<1>4. ASSUME NEW t \in Tasks, NEW p \in PRs, SetTaskPR(t, p) PROVE StoreTypeOK'
  BY <1>4, SetPRKeepsType
<1>5. ASSUME NEW t \in Tasks, MarkTaskReminded(t) PROVE StoreTypeOK'
  BY <1>5, RemindKeepsType
<1>6. CASE TasksAge
  BY <1>6, AgeKeepsType
<1>7. CASE UNCHANGED tasks
  BY <1>7 DEF StoreTypeOK
<1> QED
  BY <1>1, <1>2, <1>3, <1>4, <1>5, <1>6, <1>7 DEF RegistryStep, Call

LEMMA InitType == StoreInit => StoreTypeOK
  BY NewRowOK DEF StoreInit, StoreTypeOK

(***************************************************************************)
(* Every row is well formed in every reachable state, whatever the clients *)
(* of the store call and in whatever order.                                *)
(***************************************************************************)
THEOREM StoreTypeCorrect == StoreSpec => []StoreTypeOK
  BY InitType, StepKeepsType, ClientsStepTheRegistry, PTL DEF StoreSpec

\* A step binds no pull request twice.
LEMMA StepKeepsPRBound ==
  StoreTypeOK /\ PRBoundOnce /\ [RegistryStep]_tasks => PRBoundOnce'
<1> SUFFICES ASSUME StoreTypeOK, PRBoundOnce, [RegistryStep]_tasks
             PROVE  PRBoundOnce'
  OBVIOUS
<1>1. ASSUME NEW t \in Tasks, InsertTask(t) PROVE PRBoundOnce'
  BY <1>1 DEF StoreTypeOK, PRBoundOnce, InsertTask, NewRow
<1>2. ASSUME NEW t \in Tasks, NEW to \in States, TransitionTask(t, to) PROVE PRBoundOnce'
  <2>1. Moved(tasks[t], to).pr = tasks[t].pr
    BY DEF StoreTypeOK, Moved, Row
  <2>2. \A u \in Tasks : tasks'[u].pr = tasks[u].pr
    BY <1>2, <2>1 DEF StoreTypeOK, TransitionTask
  <2> QED
    BY <2>2 DEF PRBoundOnce
<1>3. ASSUME NEW t \in Tasks, NEW r \in Runs, SetTaskRun(t, r) PROVE PRBoundOnce'
  <2>1. \A u \in Tasks : tasks'[u].pr = tasks[u].pr
    BY <1>3 DEF StoreTypeOK, SetTaskRun, Row
  <2> QED
    BY <2>1 DEF PRBoundOnce
<1>4. ASSUME NEW t \in Tasks, NEW p \in PRs, SetTaskPR(t, p) PROVE PRBoundOnce'
  <2>1. /\ tasks'[t].pr = p
        /\ \A u \in Tasks \ {t} : tasks'[u].pr = tasks[u].pr /\ tasks[u].pr # p
    BY <1>4 DEF StoreTypeOK, SetTaskPR, PRFree, Row
  <2> QED
    BY <2>1 DEF PRBoundOnce
<1>5. ASSUME NEW t \in Tasks, MarkTaskReminded(t) PROVE PRBoundOnce'
  <2>1. \A u \in Tasks : tasks'[u].pr = tasks[u].pr
    BY <1>5 DEF StoreTypeOK, MarkTaskReminded, Row
  <2> QED
    BY <2>1 DEF PRBoundOnce
<1>6. CASE TasksAge
  <2>1. \A u \in Tasks : Aged(tasks[u]).pr = tasks[u].pr
    BY DEF StoreTypeOK, Aged, Row
  <2>2. \A u \in Tasks : tasks'[u].pr = tasks[u].pr
    BY <1>6, <2>1 DEF TasksAge
  <2> QED
    BY <2>2 DEF PRBoundOnce
<1>7. CASE UNCHANGED tasks
  BY <1>7 DEF PRBoundOnce
<1> QED
  BY <1>1, <1>2, <1>3, <1>4, <1>5, <1>6, <1>7 DEF RegistryStep, Call

LEMMA InitPRBound == StoreInit => PRBoundOnce
  BY DEF StoreInit, PRBoundOnce, NewRow

(***************************************************************************)
(* No two tasks ever hold the same pull-request URL: SetTaskPR refuses a   *)
(* URL that another row has.                                               *)
(***************************************************************************)
THEOREM StorePRBoundOnce == StoreSpec => []PRBoundOnce
  BY InitPRBound, StoreTypeCorrect, StepKeepsPRBound, ClientsStepTheRegistry, PTL DEF StoreSpec

(***************************************************************************)
(* The timestamps agree with the state.  Per row: what is stamped by a     *)
(* move along an edge is what the new state asks for.                      *)
(***************************************************************************)
Stamped(row) ==
  /\ row.finished <=> row.state \in Terminal
  /\ row.state \in {"running", "awaiting-review", "completed"} => row.started > 0
  /\ row.state \in {"none", "queued"} => row.started = 0

LEMMA MovedStamped ==
  ASSUME NEW row \in Row, NEW to, ValidTransition(row.state, to), Stamped(row)
  PROVE  Stamped(Moved(row, to))
<1>1. /\ Moved(row, to).state = to
      /\ Moved(row, to).finished = (row.finished \/ to \in Terminal)
      /\ Moved(row, to).started = IF to = "running" THEN row.started + 1 ELSE row.started
  BY MovedRow DEF Moved, Row
<1>2. row.started \in Nat
  BY DEF Row
<1>3. row.state \notin Terminal /\ to \notin {"none", "queued"}
  BY DEF ValidTransition, Terminal
<1>4. to \in {"awaiting-review", "completed"} => row.started > 0
  BY DEF ValidTransition, Stamped
<1>5. Moved(row, to).finished <=> to \in Terminal
  <2>1. ~ row.finished
    BY <1>3 DEF Stamped
  <2> QED
    BY <1>1, <2>1, Zenon
<1>6. to \in {"running", "awaiting-review", "completed"} => Moved(row, to).started > 0
  BY <1>1, <1>2, <1>4
<1> QED
  BY <1>1, <1>3, <1>5, <1>6, Zenon DEF Stamped

LEMMA StepKeepsStamps ==
  StoreTypeOK /\ StampsMatchState /\ [RegistryStep]_tasks => StampsMatchState'
<1> SUFFICES ASSUME StoreTypeOK, StampsMatchState, [RegistryStep]_tasks
             PROVE  StampsMatchState'
  OBVIOUS
<1> DEFINE Inv == \A u \in Tasks : Stamped(tasks[u])
<1>0. Inv /\ (Inv' => StampsMatchState')
  BY DEF StampsMatchState, Stamped
<1> HIDE DEF Inv
<1> SUFFICES Inv'
  BY <1>0
<1>1. ASSUME NEW t \in Tasks, InsertTask(t) PROVE Inv'
  <2>1. Stamped([NewRow EXCEPT !.state = "queued"])
    BY DEF Stamped, NewRow, Terminal
  <2> QED
    BY <1>0, <1>1, <2>1 DEF Inv, InsertTask, StoreTypeOK
<1>2. ASSUME NEW t \in Tasks, NEW to \in States, TransitionTask(t, to) PROVE Inv'
  <2>1. Stamped(Moved(tasks[t], to))
    BY <1>0, <1>2, MovedStamped DEF Inv, TransitionTask, StoreTypeOK
  <2> QED
    BY <1>0, <1>2, <2>1 DEF Inv, TransitionTask, StoreTypeOK
<1>3. ASSUME \A u \in Tasks : /\ tasks'[u].state = tasks[u].state
                              /\ tasks'[u].started = tasks[u].started
                              /\ tasks'[u].finished = tasks[u].finished
      PROVE  Inv'
  BY <1>0, <1>3 DEF Inv, Stamped
<1>4. ASSUME NEW t \in Tasks, NEW r \in Runs, SetTaskRun(t, r) PROVE Inv'
  BY <1>3, <1>4 DEF SetTaskRun, StoreTypeOK, Row
<1>5. ASSUME NEW t \in Tasks, NEW p \in PRs, SetTaskPR(t, p) PROVE Inv'
  BY <1>3, <1>5 DEF SetTaskPR, StoreTypeOK, Row
<1>6. ASSUME NEW t \in Tasks, MarkTaskReminded(t) PROVE Inv'
  BY <1>3, <1>6 DEF MarkTaskReminded, StoreTypeOK, Row
<1>7. CASE TasksAge
  <2>1. \A u \in Tasks : /\ Aged(tasks[u]).state = tasks[u].state
                         /\ Aged(tasks[u]).started = tasks[u].started
                         /\ Aged(tasks[u]).finished = tasks[u].finished
    BY DEF StoreTypeOK, Aged, Row
  <2> QED
    BY <1>3, <1>7, <2>1 DEF TasksAge
<1>8. CASE UNCHANGED tasks
  BY <1>3, <1>8
<1> QED
  BY <1>1, <1>2, <1>4, <1>5, <1>6, <1>7, <1>8 DEF RegistryStep, Call

LEMMA InitStamps == StoreInit => StampsMatchState
<1>1. /\ ~ NewRow.finished
      /\ NewRow.state = "none"
      /\ NewRow.started = 0
  BY DEF NewRow
<1>2. StoreInit => \A t \in Tasks : tasks[t] = NewRow
  BY DEF StoreInit
<1>3. "none" \notin {"running", "awaiting-review", "completed"} /\ "none" \notin Terminal
  BY DEF Terminal
<1> QED
  BY <1>1, <1>2, <1>3, Zenon DEF StampsMatchState

(***************************************************************************)
(* finished_at is set on exactly the terminal rows and started_at on every *)
(* row past the queue, whatever the clients call.                          *)
(***************************************************************************)
THEOREM StoreStampsMatchState == StoreSpec => []StampsMatchState
  BY InitStamps, StepKeepsStamps, StoreTypeCorrect, ClientsStepTheRegistry, PTL DEF StoreSpec

-----------------------------------------------------------------------------
\* The machine's initial states and steps, seen through the state column.
LEMMA InitIsLifecycleInit == StoreInit => Lifecycle!Init
  BY DEF StoreInit, NewRow, Lifecycle!Init, taskState

LEMMA StepIsLifecycleStep ==
  StoreTypeOK /\ [RegistryStep]_tasks => [Lifecycle!Next]_taskState
<1> SUFFICES ASSUME StoreTypeOK, [RegistryStep]_tasks
             PROVE  [Lifecycle!Next]_taskState
  OBVIOUS
<1>1. ASSUME NEW t \in Tasks, InsertTask(t) PROVE [Lifecycle!Next]_taskState
  BY <1>1, InsertIsLifecycleStep
<1>2. ASSUME NEW t \in Tasks, NEW to \in States, TransitionTask(t, to)
      PROVE  [Lifecycle!Next]_taskState
  BY <1>2, TransitionIsLifecycleStep
<1>3. ASSUME NEW t \in Tasks, NEW r \in Runs, SetTaskRun(t, r) PROVE UNCHANGED taskState
  BY <1>3, SetRunKeepsState
<1>4. ASSUME NEW t \in Tasks, NEW p \in PRs, SetTaskPR(t, p) PROVE UNCHANGED taskState
  BY <1>4, SetPRKeepsState
<1>5. ASSUME NEW t \in Tasks, MarkTaskReminded(t) PROVE UNCHANGED taskState
  BY <1>5, RemindKeepsState
<1>6. CASE TasksAge
  BY <1>6, AgeKeepsState
<1>7. CASE UNCHANGED tasks
  BY <1>7 DEF taskState
<1> QED
  BY <1>1, <1>2, <1>3, <1>4, <1>5, <1>6, <1>7 DEF RegistryStep, Call

(***************************************************************************)
(* The store implements the task machine.                                  *)
(***************************************************************************)
THEOREM StoreImplementsLifecycle == StoreSpec => ImplementsLifecycle
<1>1. StoreInit => Lifecycle!Init
  BY InitIsLifecycleInit
<1> QED
  BY <1>1, StepIsLifecycleStep, StoreTypeCorrect, ClientsStepTheRegistry, PTL
  DEF StoreSpec, ImplementsLifecycle, Lifecycle!Spec
=============================================================================
