----------------------------- MODULE TaskStore -----------------------------
(***************************************************************************)
(* The task registry of Minos: the rows of minos.tasks and the methods of  *)
(* storage.Store that change them.  Every method is one atomic step, as in *)
(* memstore (one mutex) and in pgstore (one statement, or a transaction    *)
(* that locks the row with FOR UPDATE).                                    *)
(*                                                                         *)
(* Minos and Argus, two processes, share these rows; modules Minos and     *)
(* Argus extend this one.  StoreSpec is the store by itself, under clients *)
(* that call the methods in any order.                                     *)
(***************************************************************************)
EXTENDS Naturals

CONSTANTS
  Tasks,     \* the task ids that may be commissioned
  MaxRuns,   \* bound: how many runs (pods) are ever dispatched
  PRs,       \* the pull-request URLs that pods may report
  NoPR,      \* a NULL pr_url
  MaxAge     \* bound: ages are not counted beyond this

Runs  == 1 .. MaxRuns   \* run ids, in the order they are generated
NoRun == 0              \* a NULL run_id

ASSUME MaxRunsAssumption == MaxRuns \in Nat
ASSUME MaxAgeAssumption  == MaxAge \in Nat
ASSUME NoPRAssumption    == NoPR \notin PRs

VARIABLE tasks   \* tasks[t]: the row of task t

Terminal == {"completed", "failed"}
States   == {"none", "queued", "running", "awaiting-review"} \cup Terminal

(***************************************************************************)
(* run      run_id and pod_name, always written together: the pod name is  *)
(*          built from the task id and the run id                          *)
(* pr       pr_url                                                         *)
(* started  started_at, as the ordinal of the start that stamped it (0 is  *)
(*          NULL, and a later stamp is a larger number)                    *)
(* finished finished_at is not NULL                                        *)
(* reminded reminded_at is not NULL                                        *)
(* age      ticks since state_changed_at; for a running task these are     *)
(*          also the ticks since started_at, which has the same stamp      *)
(***************************************************************************)
Row == [state : States, run : Runs \cup {NoRun}, pr : PRs \cup {NoPR},
        started : Nat, finished : BOOLEAN, reminded : BOOLEAN, age : 0 .. MaxAge]

NewRow == [state |-> "none", run |-> NoRun, pr |-> NoPR, started |-> 0,
           finished |-> FALSE, reminded |-> FALSE, age |-> 0]

-----------------------------------------------------------------------------
(***************************************************************************)
(* The methods of storage.Store.                                           *)
(***************************************************************************)

\* Variant: a failed task may be started again.
ValidTransitionRetry(from, to) ==
  \/ from = "queued"          /\ to \in {"running", "failed"}
  \/ from = "running"         /\ to \in {"awaiting-review", "completed", "failed"}
  \/ from = "awaiting-review" /\ to \in {"running", "completed", "failed"}
  \/ from = "failed"          /\ to = "running"

ValidTransition(from, to) ==
  \/ from = "queued"          /\ to \in {"running", "failed"}
  \/ from = "running"         /\ to \in {"awaiting-review", "completed", "failed"}
  \/ from = "awaiting-review" /\ to \in {"running", "completed", "failed"}

\* The states a ListTasks call is asked for.
TasksIn(states) == {t \in Tasks : tasks[t].state \in states}

InsertTask(t) ==
  /\ tasks[t].state = "none"
  /\ tasks' = [tasks EXCEPT ![t] = [NewRow EXCEPT !.state = "queued"]]

\* Variant: finished_at is stamped for completed tasks only.
MovedUnfinished(row, to) ==
  [state    |-> to,
   run      |-> row.run,
   pr       |-> row.pr,
   started  |-> IF to = "running" THEN row.started + 1 ELSE row.started,
   finished |-> row.finished \/ to = "completed",
   reminded |-> FALSE,
   age      |-> 0]

\* Every transition restarts the age and clears the reminder.  Every start stamps
\* started_at, over an earlier stamp if there is one: both stores do so, although
\* storage.Store says that a respawn keeps the first (FirstStartKept).
Moved(row, to) ==
  [state    |-> to,
   run      |-> row.run,
   pr       |-> row.pr,
   started  |-> IF to = "running" THEN row.started + 1 ELSE row.started,
   finished |-> row.finished \/ to \in Terminal,
   reminded |-> FALSE,
   age      |-> 0]

TransitionTask(t, to) ==
  /\ ValidTransition(tasks[t].state, to)
  /\ tasks' = [tasks EXCEPT ![t] = Moved(@, to)]

\* Variant: the edge is not checked again under the row's lock.
TryTransitionUnchecked(t, to) == tasks' = [tasks EXCEPT ![t] = Moved(@, to)]

\* A caller that ignores ErrConflict: the row moves if the edge exists.
TryTransitionTask(t, to) ==
  \/ TransitionTask(t, to)
  \/ ~ ValidTransition(tasks[t].state, to) /\ UNCHANGED tasks

\* No check of the state, of the run it replaces, or of the caller's run.
SetTaskRun(t, r) == tasks' = [tasks EXCEPT ![t].run = r]

\* Variant: only live tasks count as owners of a pull request.
PRFreeOfLive(t, p) == \A u \in TasksIn(States \ Terminal) \ {t} : tasks[u].pr # p

PRFree(t, p) == \A u \in Tasks \ {t} : tasks[u].pr # p

SetTaskPR(t, p) ==
  /\ tasks[t].state # "none"
  /\ PRFree(t, p)
  /\ tasks' = [tasks EXCEPT ![t].pr = p]

MarkTaskReminded(t) == tasks' = [tasks EXCEPT ![t].reminded = TRUE]

\* One tick of the clock, up to the bound.
Older(n) == IF n < MaxAge THEN n + 1 ELSE n

\* Only the ages of running and of hibernated tasks are ever read.
Aged(row) ==
  IF row.state \in {"running", "awaiting-review"} THEN [row EXCEPT !.age = Older(@)] ELSE row

TasksAge == tasks' = [t \in Tasks |-> Aged(tasks[t])]

-----------------------------------------------------------------------------
StoreInit == tasks = [t \in Tasks |-> NewRow]

(***************************************************************************)
(* Clients of the store.  They only name tasks they have inserted; a task  *)
(* starts at most once per run that can be dispatched (the bound MaxRuns). *)
(***************************************************************************)
Client(t) ==
  /\ tasks[t].state # "none"
  /\ \/ \E to \in States : /\ to = "running" => tasks[t].started < MaxRuns
                           /\ TransitionTask(t, to)
     \/ \E r \in Runs : SetTaskRun(t, r)
     \/ \E p \in PRs : SetTaskPR(t, p)
     \/ MarkTaskReminded(t)

StoreNext ==
  \/ \E t \in Tasks : InsertTask(t) \/ Client(t)
  \/ TasksAge

StoreSpec == StoreInit /\ [][StoreNext]_tasks

-----------------------------------------------------------------------------
(***************************************************************************)
(* Every row is well formed.                                               *)
(***************************************************************************)
StoreTypeOK == tasks \in [Tasks -> Row]

(***************************************************************************)
(* A pull request belongs to one task: FindTaskByPRURL returns the first   *)
(* row it meets, so a URL bound twice would send a merge to either task.   *)
(***************************************************************************)
PRBoundOnce ==
  \A t, u \in Tasks : tasks[t].pr = tasks[u].pr /\ tasks[t].pr # NoPR => t = u

(***************************************************************************)
(* Which timestamps a row has agrees with its state: finished_at exactly   *)
(* on terminal rows, started_at on every row that has been past the queue. *)
(* Of which start started_at is, see FirstStartKept.                       *)
(***************************************************************************)
StampsMatchState ==
  \A t \in Tasks :
    /\ tasks[t].finished <=> tasks[t].state \in Terminal
    /\ tasks[t].state \in {"running", "awaiting-review", "completed"} => tasks[t].started > 0
    /\ tasks[t].state \in {"none", "queued"} => tasks[t].started = 0

(***************************************************************************)
(* What storage.Store says of a respawn: "keep first-ever start"           *)
(* (storage.go, at TransitionTask).  Argus relies on the opposite: it      *)
(* takes started_at for the start of the run it begins to watch.           *)
(***************************************************************************)
FirstStartKept ==
  [][\A t \in Tasks : tasks[t].started > 0 => tasks'[t].started = tasks[t].started]_tasks

(***************************************************************************)
(* The store implements the task machine: the abstract state of a task is  *)
(* the state column of its row.                                            *)
(***************************************************************************)
taskState == [t \in Tasks |-> tasks[t].state]

Lifecycle == INSTANCE TaskLifecycle WITH state <- taskState

ImplementsLifecycle == Lifecycle!Spec
=============================================================================
