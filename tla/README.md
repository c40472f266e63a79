# Zakros: a TLA+ model of the control plane

Zakros runs coding agents in pods. **Minos** accepts tasks (from chat, from
`minosctl`, from GitHub webhooks), dispatches a k3s pod for each run of a task and
respawns it when its pull request needs work. **Argus**, a separate process, watches
the pods, ends the runs that are over, over budget or silent, and hibernates tasks
whose pull request awaits a review. **Hermes**, inside Minos, brokers chat messages;
**Iris**, a pod of its own, answers those addressed to her. The other services hand
out credentials and keep memory.

This directory holds TLA+ modules translated from the Go source, configurations that
model-check them with TLC, and theorems about them checked by TLAPS.

1. [The system](#1-the-system): components, their state, how they interact.
2. [Modules](#2-modules): which module models what.
3. [Runs](#3-runs): what TLC checks, with which bounds, and what it shows.
4. [Proofs](#4-proofs).
5. [Where code and documentation disagree](#5-where-code-and-documentation-disagree).
6. [What is abstracted or left out](#6-what-is-abstracted-or-left-out).
7. [Plan](#7-plan).

## 1. The system

| Component | State | Operations that change it | Hard behaviours | Correct when |
|---|---|---|---|---|
| Task registry (`minos/storage`, memstore and pgstore) | rows of `minos.tasks`: state, run, pull request, four timestamps | `InsertTask`, `TransitionTask`, `SetTaskRun`, `SetTaskPR`, `MarkTaskReminded` | two processes and many goroutines act on rows they read earlier | the row lives the documented life; timestamps agree with it; a pull request has one owner |
| Commission, dispatch, respawn (`minos/core/commission.go`) | nothing but the handler's locals | insert, spawn the pod, record the run, start the task | four steps to k3s and Postgres, each may fail or be cut off; two respawns may overlap | a running task names its own pod; one live pod per task; a queued task leaves the queue |
| GitHub webhooks (`minos/core/api.go`) | a replay store | finish, respawn, record the pull request, store memory | deliveries at any time, several at once | a delivery acts on the task that owns the pull request |
| Hibernation sweeper (`minos/core/hibernate.go`) | none | remind, abandon | acts on a snapshot | a review does not wait for ever |
| Reconcile (`minos/core/reconcile.go`) | none | fail or hibernate running tasks after a restart | acts on stale phases; runs beside Argus | a task goes to review only if a worker succeeded |
| Argus (`minos/argus`, `cmd/argus`) | `pods` (memory), `argus.task_states` (Postgres) | discover, evaluate, hibernate, markFailed, terminate, heartbeats, rehydrate | crashes between steps; entries keyed by task while runs change; saves after the unlock | every run is watched, judged by its own pod and clock, and ends |
| Pods (`minos/dispatch/k3s`, `agents/sidecar/argus`) | Secret and Pod objects | `SpawnPod`, `DeletePod`, what the kubelet does | pods end, vanish, are evicted; a sidecar outlives the worker; two objects, made and deleted one after the other | a live pod is deleted by terminate only; a Secret lives as long as its pod |
| Hermes pull buffer (`hermes/core/pull.go`) | a ring of numbered messages, lost with Minos | push, next | overflow; numbers restart with the process | what is in the ring can be had |
| Iris (`agents/iris`) | a cursor and a batch (memory), the turns of conversations (Postgres) | poll, check, greet, append, run the model, reply | restarts of either side, failing calls half-way | no message answered twice, none passed over |
| Chat intake, pairing, bootstrap (`minos/core/intake.go`, `pairing.go`, `bootstrap.go`) | pairing requests; the locals of a handler | request, approve, revoke, grant, change a role; seed the configured identities | the caller is checked once, several statements before the change; restarts in between | what a command does is one method of the registry |
| Identity registry (`minos/identity`) | identities, roles, capability lists | insert, revoke, set role, add and remove capabilities | check and update are separate statements of a READ COMMITTED transaction | an active admin always remains; a revocation is final; no grant is lost |
| Webhook verification (`cerberus`) | seen delivery ids, in memory or in Postgres | verify, record | two clocks and two windows; marked as seen before it is handled | a request is let through once |
| Broker authentication (`pkg/brokerauth`, `pkg/jwt`) | seen token ids | verify, sweep | the check of the expiry and the sweep read the clock at different times | only what the claims allow; a single-use token once |
| Mnemosyne (`mnemosyne`) | run records | store | attribution of a late upload | a record is stored for the run that sent it |
| Worker entrypoint (`agents/claude-code`) | a git branch, a pull request | fetch credentials, clone, work, push, open, report, upload | any command may fail; two tokens run out; a respawn meets the branch of its predecessor | exit 0 means a pull request; no commit is lost |
| Credential brokers (`cmd/hecate`, `cmd/apollo`, `cmd/github-broker`) | none | hand out credentials, mint installation tokens, proxy requests | tokens expire while they are used | a pod gets what its claims allow |
| Project registry, secrets provider, surfaces, command line, audit, envelope, deployment | none that a step of the running system changes | - | - | - |

How they interact. Minos and Argus never call each other for the life of a task: they
share **the task rows** (Postgres) and **the cluster** (k3s), and each acts on what it
has read there. A worker calls Minos to report its pull request; the sidecar in its pod
calls Argus with heartbeats. GitHub calls Minos. Iris calls Minos for messages and for
commissions. Chat commands and the bootstrap change the identities that decide who may
give commands. That shared state, with no message or lock to order the two processes,
is where the hard part of this system lies. What a run does inside its pod meets the
same row from the other side: it pushes, opens the pull request, reports it, uploads its
record, while its task may be ended or respawned.

## 2. Modules

```
TaskLifecycle          the promise: the states of a task and its edges
   ^ implemented by
TaskStore              the rows and methods of storage.Store
   ^ extended by
Cluster                pods, phases, failing calls
   ^            ^
Minos          Argus   the two processes
   ^            ^
     Zakros            both, around one table and one cluster      MCZakros

PullBuffer             the ring of Hermes
   ^
Iris                   poller, handler, turns, restarts            MCIris

Registry               the promise: identities with atomic methods
   ^ implemented by
Access                 chat commands on Postgres, a statement at a time

Deliveries             webhooks, their verifiers and the replay store

BrokerAuth             claims, the decision, the store of used ids
   ^
Worker                 one task seen from its pods, to the merge

MCServices             TaskStore, Access, Deliveries, BrokerAuth, Worker, Iris
                       side by side
```

**TaskLifecycle** is the abstract specification, from the comments of
`minos/storage/storage.go`: per task one state, and the edges. **TaskStore** has one
operator per method that changes a row. `Moved` is the `UPDATE` of `TransitionTask`
(`pgstore.go:123`), which stamps `started_at`, `finished_at` and `state_changed_at` and
clears `reminded_at`. A method is one atomic step, because memstore holds a mutex and
pgstore locks the row or is a single statement. `StoreSpec` is the store under clients
that call anything in any order; `ImplementsLifecycle` is the refinement, with the
state column as the mapping.

**Cluster** is k3s as `minos/dispatch/k3s` sees it: pods by run, their phases, what
happens to them unasked (start, exit, eviction, removal by somebody else). It also
holds `faults`, the number of calls to k3s or Postgres that may still fail, and `tokens`:
how many ticks the token of each pod is still good for, which is what its heartbeats are
let in with.

**Minos** takes one action per call a handler makes. `handlers[h].pc` is the next call
of `dispatch()`: `SpawnPod` (or `SpawnFails`), `RecordRun`, `StartTask`. `Commission`
and `Respawn` enter it; `Respawn` carries the state check of `commission.go:293`, which
is then stale. `ReportPR` and `PullRequestClosed` are the one-step requests. The
sweeper lists and decides (`SweepList`), then acts on each task (`SweepAct`). A crash
clears all of these; `MinosStart`, `ReconcileLook`, `ReconcileAct` and `MinosServes`
are the way up. `MinosStart` leaves the state in which chat intake is already open, so
`Commission` is enabled during it, as in `server.go:200`.

**Argus** is the loop (`StartRound` is discover and the snapshot of evaluate,
`Evaluate(t)` the verdict on one entry) and the functions that carry a verdict out
(`MoveTask`, `RemovePod`, `UntrackTask`; terminate deletes before it moves, the other two
move first), heartbeats in two steps (`Heartbeat`, which needs a token that has not
expired, and `HeartbeatSaved`: the save comes after the unlock), `ArgusCrash`, and `ArgusStart`, which is rehydrate. `tracked` is
the map in memory, `saved` the table in Postgres.

**Zakros** composes the two with the cluster and the clock (`Tick` ages tasks,
entries and tokens together) and states the properties of the control plane.

**PullBuffer** is the ring: `Deliver`, `Collect`, `BrokerRestart`. **Iris** is the poll
loop (`Poll`, `Advance`) and `Handle` call by call. The turns are kept as the sets of
message numbers they carry, all that `AlreadyHandled` looks at. Messages get a name of
their own, `msg`, next to the number `seq` of the broker that delivered them, because
the numbers restart and the properties must tell the messages apart.

**Registry** is the identity registry the way memstore implements it, every method one
step under a mutex. **Access** is what a deployment runs: the goroutines that handle chat
messages (`chat[h].at` is the next statement of handler `h`), with the caller's row read
once (`ReceiveCommand`), `/pair` and `/minos approve` (`StorePairing`, `FindPairing`,
`InsertApproved`, `ForgetPairing`), and the transactions of `pgstore.go` statement by
statement (`BeginTx`, `CountAdmins`, `CommitTx`). `BeginTx` keeps what it read in
`chat[h].read`; READ COMMITTED locks nothing of it, so `CommitTx` may write back capability
lists that are stale. `MaxOpenTx` is the number of transactions open at once. A crash
rolls them back, and `Bootstrap` seeds the configured identities before Minos subscribes
to the surface again. `AccessImplementsRegistry` is the refinement, with the rows as the
mapping.

**Deliveries** has the verifiers, the replay store with either backend, and the handlers
behind them. Slack's timestamp check (`VerifySlack`) and the record in the store
(`HandleSlack`) are two steps, because the clock is read before the body and used after
it. A delivery of GitHub is recorded (`VerifyGithub`) before it is handled
(`HandleGithub`); a restart in between loses it (`DeliveriesLost`). The clock is counted
in ticks; `WindowCoversSkew` relates the three windows (in the code five minutes of skew
and 24 hours of memory).

**BrokerAuth** is the decision, as the operators `ComposeCapabilities` (what Minos puts
into a token) and `Admits` (what a service makes of it), and `MemReplayStore`, with the
two readings of the clock as two steps.

**Worker** follows one task from commission to merge as its pods see it: `CreateSecret`,
`CreateWorkerPod`, `RecordPod`, `StartRun` of the dispatch; then one action per command of
`entrypoint.sh` that can fail or be seen from outside; the branch and the pull request on
GitHub (`github`); the two callbacks; the run records; `RemovePod` and `RemoveSecret` of
`DeletePod`. Whether a call is let in is the decision of BrokerAuth, on the age of the pod's
token, which counts from the dispatch, also while the pod is pending; the token of the
clone counts from its mint. Argus appears as the one step that judges the run of the row,
since its own loop is in Argus; concurrent dispatches are in Minos. A fault is a call
that fails, a lost pod, or a dead process.

**MCServices** holds six parts that share no variable: initially `part` is chosen and
only that part acts, so that one run covers them all without multiplying their states.

The proofs are in modules of their own: **TaskStore_proofs**, **Zakros_proofs** (types and
refinement of the control plane), **Runs_proofs** (the rest about it), **Access_proofs**,
**Deliveries_proofs**, **Worker_proofs** (with BrokerAuth), **Iris_proofs** and
**Services_proofs** (MCServices from its parts).

A definition that says *Variant* in its comment is not used by any specification: it
is a plausible mistake in the definition after it, kept to show that the property it is
aimed at would notice (`PROJECT.json`, "mutants").

## 3. Runs

All in `PROJECT.json`; `tlc -config X.cfg M` repeats one.

| Run | Configuration | Question | Answer |
|---|---|---|---|
| `services` | MCServices | Six questions, one per part. Registry of tasks: under any calls, are rows well formed, stamps right, pull requests bound once, the task machine implemented? Identities: do statements add up to the atomic methods, does an admin remain, is a revocation final? Webhooks: is a request let through once, a redelivery only after its window? Brokers: is a single-use token good once? Pods: does exit 0 mean a pull request, is a branch frozen until it is merged, does each record go to its run, do Secrets follow their pods, can the first run do all it must? Iris: is anything answered twice or passed over? | yes to all, and no to the last: nothing is |
| `hostile` | MCHostile | One task, two concurrent dispatches, two failing calls or lost pods, both processes may crash. Do rows tell the truth about runs and results, is a run charged with no less than its age; does only terminate delete live pods; is the life of the task legal? | yes |
| `watchdog` | MCWatchdog | Budget 3, escalation 2, warning 1, stall 2, a beating sidecar whose token outlives the budget. Do notices or heartbeats, or a pod that does not start, keep a run from ending? | no |
| `progress` | MCProgress | Three runs of one task, one handler, sweeper on, no call fails, Argus may die at any point. Does the task ever have two live pods, does Argus ever move it on the evidence of a former run, or charge a run with anything but its age? Does the queue drain, does every review end, and as long as Argus stays up is every run watched and ended with its worker? | never; yes |
| `first_start` | MCFirstStart | The store under any clients: does `started_at` stay the first start of a task? | no, see 5.8 |
| `two_respawns` | MCTwoRespawns | Two reviews at the same time: one live pod? | no, see 5.1 |
| `sidecar` | MCSidecar | With a sidecar in the pod: is a run whose worker exited with zero safe from the rules that terminate runs? | no, see 5.2 |
| `argus_restart` | MCArgusRestart | Does the budget end every run although Argus restarts? | no, see 5.3 |
| `orphan` | MCOrphan | Is the pod of a finished task removed? | no, see 5.4 |
| `iris_restart` | MCIrisRestart | Does the cursor survive a restart of the broker? | no, see 5.5 |
| `admins` | MCAdmins | Two transactions open at once: does an admin remain? | no, see 5.6 |
| `review_loop` | MCReviewLoop | Two runs, no fault at all: can the run that a review starts do all it must? | no, see 5.7 |

What the less obvious properties say.

- `RunningHasOwnRun`: whatever is half done, a running task names a pod made for it.
  Reconcile and discover take `run_id` of a running row at its word.
- `ReviewHasSuccess`: a task is put up for review only if a worker of it exited with
  zero, although the verdict is carried out later, by a process that may meet a row
  that was respawned and a pod that is gone.
- `WallClockIsRunAge`: the entry charges the run with no less than its age, also if it
  was found late, reloaded by rehydrate, or the task had an earlier run; and to the tick
  if dispatches do not overlap. If they do, the `StartTask` that comes last restarts the
  row with the run of the other one: the row is younger than the entry, and the run may
  be ended early. The exact half stands on `started_at` being the start of the run, which
  is what the stores write and not what their interface says (5.8).
- `StampsMatchState` says that a row has the timestamps its state calls for. Which start
  `started_at` is, the last, is left to `FirstStartKept` and 5.8.
- `ArgusJudgesCurrentRun`: when Argus moves a task, the entry is for the run the row
  names. It holds with one dispatch at a time and without failing calls (`progress`):
  the entry is keyed by task, and it is the order "move, then untrack" against
  "respawn, then start" that keeps a stale entry from judging a new run.
- `LivePodDeletedOnlyByTerminate`: hibernate and markFailed find a pod that is over,
  also after anything that can happen between the verdict and the deletion.
- `ServedAtMostOnce`: the model, whose tools commission tasks, is run once per message
  whatever is re-read after a restart. `CursorSound` and `InboxDrains`: the cursor
  neither passes a message that was not handled nor stands still.
- `AccessImplementsRegistry`: between the check of the caller and the last statement of
  a command others may revoke, promote, pair or restart Minos. Each step is still one
  whole method of the registry or nothing, until two transactions clash. The run has one
  transaction open at a time (`MaxOpenTx = 1`), since with two the refinement and
  `AdminsNeverEnd` are false: run `admins` shows the second, and section 4 says for which
  overlaps, and no others, they are. So in `services` both are about stale callers,
  approvals, seeds and crashes, and not about the two counts of `pgstore.go:114` or the
  lost grant of `pgstore.go:204`.
- `SlackOnce`: a request that the memory has forgotten is too old by its own stamp, for
  every arrival, delay of the body and skew. `RedeliveredOnlyAfterWindow`: a delivery of
  GitHub carries no time, so the window alone stands between it and a second handling.
- `SuccessMeansPullRequest`: exit 0, and so a task that awaits a review, means that there
  is a pull request; unless a pod was orphaned, with the commit of the run in it. An orphan
  (`Orphans`) is a pod that lives on after its dispatch came to nothing: the next review
  starts another run on the same branch, and either may open the pull request for the
  commits of the other. It takes three pods to see that, more than the bound allows; the
  theorem covers any number.
- `RecordsNameTheirRun`: the record is stored for the run the row names on arrival, and
  that is the sender's although respawns move the row on.
- `UnmergedBranchIsFrozen`: while the branch of the task holds a commit that the base
  branch does not, no push changes it, since runs start from the base branch and never
  from the branch they push to. So no run takes a commit of another off the branch, and
  none adds to it either (5.7).
- `RunWatched` and `RunEndsWithWorker` speak of an Argus that stays up. One that dies
  between deleting a pod and untracking the task leaves a terminated entry in the table;
  the next one reloads it, and the next run of the task is passed over, as in 5.3.
- `FirstRunLands` compares two images: what Minos puts into the token and what the script
  asks for. `EveryRunLands` asks the same of respawned runs.

**Bounds.** `MaxRuns` bounds dispatches: two runs of one task are needed for a stale
entry or two pods, three for a stale verdict on a task respawned twice; that two tasks
compete for the loop is left to the theorems. `MaxAge` is where ages stop counting; it is at least the
largest threshold of the run, so every comparison has both outcomes. Two handlers are
all it takes for a race of dispatches. `MaxFaults = 2` lets a call and its clean-up fail
together. One crash of each process can fall at any point, also into the other's
recovery. A threshold of zero switches a rule off, as `argus.Config` allows;
`cmd/argus` always runs with `DefaultConfig`, whose stall rule is on, and so do
`hostile`, `watchdog` and `sidecar`. `progress` leaves both rules off, since
with them every run ends anyway and the question would answer itself; the theorems
`OneWorkerPerTask`, `ArgusActsForCurrentRun` and `WallClockFollowsRun` hold with any rules.
`TokenLife` is the life of a pod's token, two hours in the code, and matters where there is a
sidecar. In `watchdog` it is longer than the budget, so that heartbeats can go on to the
end. In `sidecar` it is shorter than the stall threshold: a run is silent for that long only
when its heartbeats are refused.

In `services`: two tasks and two pull requests, enough for one bound twice. Four people
(two configured admins, one to be paired, one system identity), two handlers, three
commands and two pairing tokens: a command can meet another, a crash and an approval of
the same request. Skew 1, window 3, stall 1 and five ticks satisfy `WindowCoversSkew` with
equality, and the clock passes the window. Two
token ids, four ticks. Two runs (a review needs a second), one fault at any point, a
bearer token of two ticks and a GitHub token of one, so that each can run out under each
command. Of Iris three messages in a ring of two that overflows, batches of two, one restart
of each side, one failing call; `iris_restart` has a larger ring.

**Fairness** (`Zakros!Fairness`). Handlers, the sweeper, the start of a process, the
loop of Argus, the save of a heartbeat and the clock are each weakly fair. In the code
they are goroutines that only wait for calls with timeouts and for tickers, and the
two services are restarted by systemd (`Restart=`). Nothing is assumed of users, GitHub,
the kubelet, or workers: a pod may stay Pending for ever, a worker may never exit.
Weak fairness is enough because each of these, once enabled, stays so until it moves;
that is also why the loop's steps form one action (`LoopStep`) and each handler's too.
`FairSpec` of Iris, and the same conjunct in `ServicesSpec`, assumes that the poll loop
keeps running and its calls return; its restarts and failures are bounded, so in the end
they stop. `InboxDrains` and `progress`
say nothing of a system whose calls fail for ever.

Deadlock is checked in the runs of MCZakros and MCIris: a tick, a listing that finds
nothing and an empty poll are always possible. The three configurations of MCServices
switch it off, because there the bounds stop a part: all commands are given, all pods are
used up, the clock stands at its end.

## 4. Proofs

For every value of the constants (assumptions: the named `ASSUME`s of the modules, all
evaluated by TLC too; bounds are naturals, model values differ from what they stand
beside, `Handlers` is finite).

| Theorem | Module | Says |
|---|---|---|
| `StoreTypeCorrect`, `StorePRBoundOnce`, `StoreStampsMatchState` | TaskStore_proofs | the invariants of the store under any clients |
| `StoreImplementsLifecycle` | TaskStore_proofs | the store refines TaskLifecycle |
| `TypeCorrect` | Zakros_proofs | `Spec => []TypeOK` of the whole control plane |
| `ControlPlanePRBoundOnce`, `ControlPlaneStampsMatchState` | Zakros_proofs | those invariants with both processes, crashes and failures |
| `ControlPlaneImplementsTheLifecycle` | Zakros_proofs | the control plane refines TaskLifecycle |
| `RunningTasksHaveOwnRuns` | Runs_proofs | `RunningHasOwnRun` |
| `ReviewedTasksSucceeded` | Runs_proofs | `ReviewHasSuccess` |
| `WallClockFollowsRun` | Runs_proofs | `WallClockIsRunAge` |
| `OnlyTerminateEndsLivePods` | Runs_proofs | `LivePodDeletedOnlyByTerminate` |
| `OneWorkerPerTask`, `ArgusActsForCurrentRun` | Runs_proofs | under `Orderly`, or with a sidecar (below): `OneLivePod`, `ArgusJudgesCurrentRun` |
| `SidecarKeepsTasksFromReview` | Runs_proofs | with a sidecar no task is ever awaiting review |
| `QueuedTasksAreDispatched`, `NoRunIsPassedOver` | Runs_proofs | the safety side of the queue and of the watch: `QueuedIsBusy`, `PassedOverIsEnding` (below) |
| `IrisTypeCorrect` | Iris_proofs | the ring keeps to its capacity; poller, turns and ring are well formed |
| `AnsweredOnce` | Iris_proofs | `ServedAtMostOnce` |
| `CursorPassesNone` | Iris_proofs | `CursorSound` |
| `RegistryTypeCorrect`, `RegistryKeepsAnAdmin`, `RegistryRevocationSticks` | Access_proofs | the atomic registry: types, `AdminsNeverEnd`, `RevocationSticks` |
| `AccessTypeCorrect`, `AccessRevocationSticks` | Access_proofs | the handlers on Postgres, any number of open transactions: types, `RevocationSticks` |
| `AccessImplementsUnlessClash` | Access_proofs | `AccessImplementsRegistry`, or at some moment two open transactions clash (`Clash`) |
| `LastAdminLostOnlyByRace` | Access_proofs | `AdminsNeverEnd`, or at some moment two demotions, or a demotion and a promotion of one person, are open at once (`AdminRace`) |
| `DeliveriesTypeCorrect`, `SlackRequestsOnce`, `RedeliveriesWait` | Deliveries_proofs | types, `SlackOnce`, `RedeliveredOnlyAfterWindow` |
| `AuthTypeCorrect`, `TokensAreSingleUse` | Worker_proofs | of BrokerAuth, which Worker extends: types, `SingleUse` |
| `WorkerTypeCorrect`, `RunsThatSucceedHavePullRequests` | Worker_proofs | types, `SuccessMeansPullRequest` |
| `RecordsGoToTheirRun` | Worker_proofs | `RecordsNameTheirRun` |
| `PodsHaveTheirSecrets` | Worker_proofs | `SecretsFollowPods` |
| `FirstRunCanLand` | Worker_proofs | under `GrantsScript` (below): `FirstRunLands` |
| `ReviewsCannotAmend` | Worker_proofs | `UnmergedBranchIsFrozen`: a branch with a commit that is not merged takes no push |
| `WorkersKeepTheLifecycle` | Worker_proofs | the row of Worker refines TaskLifecycle |
| `PartsKeepToThemselves`, `ServicesTypeCorrect` | Services_proofs | MCServices implements each of its parts; `ServicesTypeOK` |

How they go.

*One registry, two proofs for the price of one.* `RegistryStep` is the step that calls
one method of the store with arguments of the right type. Invariants of the store are
proved once, of `RegistryStep` (`StepKeepsType`, `StepKeepsPRBound`,
`StepKeepsStamps`, `StepIsLifecycleStep`). That every step of `StoreNext` is one is
`ClientsStepTheRegistry`; that every step of Minos, Argus and the clock is one, or leaves
the rows alone, is `StepsTheRegistry`. Both specifications inherit all four facts.
`StampsMatchState` and `PRBoundOnce` are inductive together with the type.

*Own runs.* `RunningHasOwnRun` is not inductive: `StartTask` makes a task running,
three steps after `dispatch` began, and relies on what the earlier steps left.
`OwnRuns` adds what a dispatch has established at each `pc` (`DispatchSound`: the row
exists, the pod is for this task, a run is recorded) and that any recorded run is of
the row's task, running or not. Pods never change their task and never become unmade
(`StepKeepsPods`), so what others do cannot spoil it.

*Earned verdicts.* `ReviewHasSuccess` is not inductive either: `MoveTask` and
`ReconcileAct` act on a phase read earlier, and by then the pod may be gone. The
invariant keeps the evidence instead: `SuccessIsExitZero` (a pod that is Succeeded had
a worker that exited with zero, and an exit code never changes),
`VerdictsEarned` (a pending hibernation or a pending `awaiting-review` of
Reconcile has such a pod), `EntriesForTheirTask` (a tracked, saved or beating entry
names a run of its own task) and `RoundSound` (the loop evaluates entries that exist).

*Clocks.* An entry that watches the run of its row was made from the row (`Fresh`), or
copied from an entry that was, and both age together; a row can only become younger, when
it starts. `Clocks` says so of the tracked, the saved and the beating entry. It needs
`RunsFresh`: until a dispatch has recorded a run, no row and no entry knows it. The exact
age needs `StartsFresh` too: the row that a dispatch is about to start is not running yet
and nobody watches the run, which is false once two dispatches of a task overlap.

*Pods that are over.* A pod that is over stays over (`OverKept`), so `EndsOver` only has
to say that hibernate and markFailed were chosen for such a pod, and that the entry that
names it stays in place until they are done.

*One worker.* There are two ways to it. `Orderly` is one dispatch at a time, no failing
calls and no crash of Minos; Argus may die at any point. Without a sidecar, `PeaceInv` says
that a live pod is known (`LivePodsKnown`): it is the pod of a dispatch under way, or its
task is `Settled` with it, which means that the row names the run and is running or at its
end. Every step keeps a task settled but one, the move to review of a hibernation, and that
one comes when the pod is over (`EndsOver`). A task that is settled is not respawned, so a
second pod cannot appear. Entries that may still lead to a verdict are for settled runs as
well (`EntriesSettled`, `EndSettled`), from which `ArgusJudgesCurrentRun` follows. All of
`Orderly` is needed: with a second handler, one failing call or one crash of Minos, TLC
finds a task with two live pods (for the second handler that is run `two_respawns`).

With a sidecar nothing of `Orderly` is needed, for a sobering reason: no pod ever succeeds,
so no task is put up for review (`ReviewsEarned`, part of the invariant of
`ReviewHasSuccess`), and only reviews start a second run. `SidecarInv` is that argument:
a task has one dispatch and one pod in its life (`OnceInv`), and entries, the resurrected
ones of late heartbeats included, name its run (`EntriesAfterRows`).

*What liveness rests on.* TLAPS cannot prove that something happens; it can prove that
nobody is left waiting on nothing. `QueuedIsBusy`: behind every queued task there is a
handler in the middle of its dispatch, unless a call has failed or Minos has died since the
start. `PassedOverIsEnding`: `Evaluate` passes over entries marked terminated, and until
Argus dies for the first time the only such entry is the one being ended, whatever fails;
after a restart it may be another (`argus_restart`). The fairness of the handlers and of the
loop then does the rest, which `progress` and `watchdog` check on their instances.

*Answered once.* `ServedAtMostOnce` speaks of the past; what keeps it true is ahead of
the handler. `SightSound`: an event in the ring or in the batch whose message was
answered has its number in the turns of its conversation, where `Check` finds it, and no
two such events carry the same message. `HandlerSound`: between the check and the model
the message at hand is unanswered, and its turn is stored before the model runs. Only
`RunLoop` answers, and it finds both. After a restart of Minos numbers repeat: an old
turn may hide a new message, but never the reverse, which is why the theorem needs no
assumption on restarts.

*The cursor.* With the first broker, messages are numbered as they arrive, the ring is in
order (`RingInOrder`, on which `Behind` and so `Collect` rest), batches have no gaps
(`BatchGapless`), and what is below the cursor, or below the head of the batch, has been
handed over (`BelowHanded`). `Advance` moves the cursor to the head of the batch, which
was handed over when it was checked; `Poll` starts a batch right above the cursor. A
second broker breaks this, as run `iris_restart` shows.

*The last admin.* In the registry a step that takes an admin away leaves another, by
counting (`AdminToSpare`, with the library's facts about finite sets). Access earns the same
by refinement. `AccessInv` says what a handler knows at each statement (`HandlerOK`: its
verb fits, and the target has a row, which rows never lose). What a transaction has read is
the problem: nothing locks it. `Clash` names the overlaps that matter, two open transactions
on one row or two that are about to take an admin away, and `FreshInv` is what holds until
there is one: the row a transaction has read is still the row, and if it takes an admin away
there is one to spare, because others that are open change other rows and take none, and all
that happens beside them are inserts, which only add admins. So `CommitTx` is `Revoke`,
`SetRole` or `AddCapability` of the registry, or changes nothing, and every other step is one
of its methods or a stutter. Nothing bounds the number of handlers or of open transactions:
the theorem is a disjunction, the promise or a clash. The last admin needs less than the
refinement (`SpareInv`: a demotion about to be written hits somebody who is no active admin,
or one of two), so that only a race of demotions can cost it; run `admins` is such a race.
That a revocation is final needs nothing of the kind: no statement writes "active" but the
insert.

*Windows.* `SlackOnce` rests on the evidence a pending request carries: the time it was
checked at is within `Skew` of its stamp and at most `Stall` old (`VerifiedInTime`), and so
is the time in the store (`RecordedInTime`). A copy that could still pass is therefore no
older than `2 * Skew + Stall` against the record, and the store has kept it; what was let
through is recorded, or too old (`AcceptedIsSeen`). `SingleUse` is the same in small: a used
token is held, or its expiry has gone by (`UsedIsHeld`).

*One current run.* In Worker all depends on `OneCurrentRun`: of the runs whose dispatch
went through at most one has a live pod, it is the one the row names, and nothing is being
dispatched meanwhile. It holds by `DispatchInOrder` (where the dispatch stands, and that
Argus removes dispatched pods only). It makes the record of a dispatched run go to that
run. `ScriptsFollowPods` ties the scripts to the pods. `BranchInOrder` follows the local
branch from the clone to the push, and says that past `gh pr create` there is a pull
request. `CommitsArrive`, under the assumption that no pod is orphaned, keeps the commit of
every run that got through on the branch; the lemmas show that an orphan is never lost
sight of, so that the assumption cannot come back once it has failed.

*Secrets.* The first half of `SecretsFollowPods` needs `SecretsKept`: where a deletion
stands, and that it begins with a pod that was seen to be over or to run. The second half is
about executions in which nothing has failed; `Tidy` says which of the two objects is there
at each step of a dispatch and of a deletion, and faults only fall (`FaultsOnlyFall`), so the
premise cannot become true again.

*The first run.* `GrantsScript` says that the endpoints which the configuration gives the
project include the two that `entrypoint.sh` calls; without it the run is refused, rightly. `GrantedScopesAreAdmitted` is then a fact about
`ComposeCapabilities` and `Admits`. The rest is `FirstAlone`: until the first pod is over
there is no other pod, the branch is not pushed before it pushes, and no pull request is
open before it opens one.

*Reviews.* `OwnCommitsOnly`: what a run pushes is the base branch and its own commit, and
a run whose commit is anywhere on GitHub is past its push. If the branch holds a commit that
is not in the base branch, it is that of another run, so the push is no fast-forward. Run
`review_loop` shows one such execution, the theorem that it cannot go otherwise.

*The whole.* A step of `ServicesNext` is a step of one part and leaves the variables of the
others alone, so `ServicesSpec` implies the specification of each part (`StepOfParts`), and
with it everything proved of the part by itself.

Only model-checked: the liveness properties, since TLAPS has no rule for weak fairness with
`ENABLED` here (`QueueDrains`, `RunWatched`, `RunEndsWithWorker`, `ReviewEnds`,
`BudgetEndsRun`, `InboxDrains`). Every invariant, action property and refinement that a
passing run checks is a theorem, under the assumptions named above; for `AdminsNeverEnd` and
`AccessImplementsRegistry` of Access the theorem is the disjunction above, of which the run,
with one transaction open at a time, sees the first half. `TypeOK` of Zakros is proved and no
run repeats it: its types say little, and its bound on ages is the model's own.

## 5. Where code and documentation disagree

1. **Two live pods** (`two_respawns`). `Respawn` checks the state, then dispatches;
   nothing claims the task in between, and the pod is spawned before the only step that
   can conflict. Two qualifying reviews handled together spawn a pod each; the loser's
   pod stays. `docs/architecture.md:836`: "A task cannot have two live pods."
2. **The sidecar keeps the pod alive** (`sidecar`). It is an ordinary container that
   loops until SIGTERM, in a pod that is over when *all* its containers are. After the
   worker has exited the phase stays Running, so Argus never sees Succeeded
   (`argus.go:423`) and the task is never put up for review: the theorem
   `SidecarKeepsTasksFromReview` says so of every execution. What ends the run is a rule.
   The budget may; if it does not, the sidecar's token, read once
   (`agents/sidecar/argus/main.go:34`), expires two hours after the dispatch
   (`commission.go:372`), `/argus/heartbeat` answers 401 (`cmd/argus/server.go:30`,
   `brokerauth.go:106`), and after five more minutes of silence the stall rule terminates
   the run and fails the task, although its worker exited with zero. The run checks
   `SuccessNotTerminated`, and the trace is that expiry.
3. **A task that runs for ever** (`argus_restart`). terminate marks the entry, deletes
   the pod, then fails the task. If Argus dies before the last step, rehydrate keeps the
   row, because a pod that is gone is an error of `PodPhase` and the row is dropped only
   without an error; evaluate passes over terminated entries and discover over tracked
   tasks. `argus.go:227` and `:245` say such rows are skipped and dropped.
4. **A pod nobody deletes** (`orphan`). A pull request is closed before Argus has
   discovered the run. `api.go:526` relies on "auto-discovers terminal-state
   transitions"; discover lists running tasks only.
5. **Messages skipped after a restart of Minos** (`iris_restart`). The poller resets its
   cursor when the instance id changes, but the answer that tells it so was selected
   with the old cursor. If it is not empty, the cursor moves past it at once and the
   messages below the old cursor are never handled, which is what the check at
   `poller.go:71` is there to prevent.
6. **No admin left** (`admins`). `SetRole` and `Revoke` count the active admins and then
   update, in a transaction with the default isolation, READ COMMITTED, and without a lock.
   Two admins demoted or revoked at the same time are both counted by both transactions,
   and both commit. `pgstore.go:98`: "Last-admin protection has to run inside a transaction
   so the count + update see a consistent snapshot"; `identity.go:19` promises atomic
   mutations to all callers. By the same gap one of two concurrent grants is lost
   (`pgstore.go:204`).
7. **A review cannot be answered** (`review_loop`). A respawned run clones the base branch
   (`entrypoint.sh:174`), makes the branch of the task anew (`:176`) and pushes it without
   force (`:212`): the branch is there since the first run, with a commit the new one does
   not contain, and the push is rejected. Past it, `gh pr create` (`:217`) refuses a second
   pull request. `docs/phase-1-plan.md:390` has the review loop as acceptance criterion.
   The theorem `ReviewsCannotAmend` says that until a merge no later push can succeed.
8. **Which start is `started_at`?** (`first_start`). `storage.go:77` says of a respawn
   "clears StartedAt? no — keep first-ever start". Both stores stamp it at every transition
   to running (`memstore.go:118`, `pgstore.go:149`), so a respawn overwrites it. The model
   does what the code does, and Argus relies on it: `discover` takes `started_at` for the
   start of the run (`argus.go:338`), and if the promise were kept, a respawned run would be
   charged with the whole life of its task and `WallClockIsRunAge` would lose its exact half.

Two more sentences of the source are not what the code does. No run is about them: the
first is about a method nobody calls, the second is a remark in a refusal.

- `identity.go:53` says that `RemoveCapability` "Returns idn.ErrLastAdmin if removing
  identity.manage from the last active admin would leave a no-admin state". Neither store
  checks anything of the kind (`identity/memstore/memstore.go:141`,
  `identity/pgstore/pgstore.go:181`). Minos does not call the method; of the two promises
  about the last admin, the model and `AdminsNeverEnd` have the one on role and status.
- `api.go:441` answers a duplicate delivery with "we've already processed this delivery".
  It was recorded before it was handled, so it may as well have failed, or been lost with
  the process; the redelivery is refused all the same (`RedeliveredOnlyAfterWindow`).

## 6. What is abstracted or left out

- Timestamps are ages that stop at `MaxAge`, or flags, or (for `started_at`) the ordinal
  of the start. `evaluate` takes the time once per round; the model reads an entry's age
  when it evaluates it, which is never earlier.
- The token of a pod counts from the creation of the pod, a little after its mint. In
  Zakros it guards the heartbeats. The callback of the pod that reports its pull request is
  behind the same token (`api.go:80`), and `ReportPR` leaves that out, which adds
  behaviours; Worker has it.
- A deleted pod is gone at once: the grace period of k3s is left out.
- An outage fails all calls of one kind in a step of Argus' loop that makes several
  (discover saving entries, rehydrate reading phases). Failures of a single one among
  them need two tasks and are not covered.
- In Minos, what touches no state that a modelled decision reads is left out: envelopes,
  posts to threads, the audit log. A failure before the first state change is no step;
  after it, it is one of the failures modelled. Memory uploads are in Worker.
- `TrackTask` of Argus has no caller outside its tests since Argus is a process of its
  own. The mutual health checks of Minos and Argus only log.
- The tools of Iris and what the model answers are one step, `RunLoop`; a commission
  from a tool is `Commission` of Minos. There is one Iris pod: its Deployment is of
  type Recreate (`deploy/templates/iris-deployment.yaml:34`). A call that fails may
  have been committed.
- A request of the poller that fails changes nothing and is no step of its own.
- Signatures of webhooks and tokens are taken to be valid: a request with a bad one
  changes nothing. Slack requests are acknowledged and audited, no more, as in the code.
- In Access, messages that are refused, that only query, or that are handed to
  `Commission` change no identity and are left out. Names are people, not pairs of surface
  and id; a capability list is a set.
- In Worker a commit is named by its run, a run changes something or nothing, and
  narration (`POST /post`) is best-effort. That `git diff` (`entrypoint.sh:199`) does not
  see untracked files, so that a run which only adds files commits nothing, is below its
  level.
- The credential brokers keep no state: every installation token is minted anew. How they
  proxy a request is left out.
- Of mnemosyne only the attribution of a record is modelled. Sanitising it and putting the
  last five into the context of the next run are functions of text.

Not modelled: the **project registry** is one row, written from the configuration at
every start and read-only afterwards. The **secrets provider** reads a file. **Discord and
Slack surfaces** translate messages. The **command line, audit, envelope and deployment**
format, validate and start things. None of them has a sequence of steps that could put its
state wrong.

## 7. Plan

What is left, in order of what could go wrong.

1. **Pods after a failed dispatch.** Worker shows what an orphaned pod does to the branch;
   Zakros shows that its task may stay queued. The comment at `commission.go:247` says that
   "startup reconciliation adopts or tombstones it", and Reconcile lists running tasks only.
   A composition of Worker with Minos, with concurrent dispatches, would put both into one
   state space; it is too large for one run and needs a coarser Argus.
2. **Proofs**: the steps that the liveness properties are made of, each as an action
   property (what a step of the loop or of a handler brings closer and nothing takes back);
   what remains of `OneLivePod` when a call fails (which pods are then not known to a row).
3. **Mnemosyne**: the last five records of a project in the context of the next run.
4. **Liveness of pairing**: a request that expired still occupies its person
   (`pairing.go:56`), because nothing calls `PairingSweep`.
5. **Iris beside Minos**: a commission from a tool as one step of Minos, with the reply
   that may be lost after it.
