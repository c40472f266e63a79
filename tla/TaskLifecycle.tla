--------------------------- MODULE TaskLifecycle ---------------------------
(***************************************************************************)
(* What the task registry promises: the life of every task, as the state   *)
(* machine that minos/storage documents and both of its stores enforce.    *)
(* Nothing else of the system is visible here.  TaskStore (the store by    *)
(* itself), Zakros (Minos, Argus, k3s and GitHub around it) and Worker     *)
(* (one task, seen from its pods) are shown to implement this module.      *)
(***************************************************************************)

CONSTANT Tasks          \* the tasks that may ever be commissioned

VARIABLE state          \* state[t]: the column minos.tasks.state of task t

(***************************************************************************)
(* "none" stands for a task that has no row yet.                           *)
(***************************************************************************)
TerminalStates == {"completed", "failed"}
TaskStates     == {"none", "queued", "running", "awaiting-review"} \cup TerminalStates

(***************************************************************************)
(* The edges of the machine.  There is none out of a terminal state.       *)
(***************************************************************************)
Edges ==
  {<<"queued", "running">>, <<"queued", "failed">>}
  \cup ({"running"} \X {"awaiting-review", "completed", "failed"})
  \cup ({"awaiting-review"} \X {"running", "completed", "failed"})

Init == state = [t \in Tasks |-> "none"]

Insert(t) ==
  /\ state[t] = "none"
  /\ state' = [state EXCEPT ![t] = "queued"]

Step(t) ==
  \E to \in TaskStates :
    /\ <<state[t], to>> \in Edges
    /\ state' = [state EXCEPT ![t] = to]

Next == \E t \in Tasks : Insert(t) \/ Step(t)

Spec == Init /\ [][Next]_state
=============================================================================
