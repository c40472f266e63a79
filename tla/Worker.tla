------------------------------- MODULE Worker -------------------------------
(***************************************************************************)
(* One task from commission to merge, seen from its pods: dispatch with    *)
(* the Secret that goes before every pod (minos/core, minos/dispatch/k3s), *)
(* the script that a worker pod runs (agents/claude-code/entrypoint.sh),   *)
(* the branch and the pull request on GitHub, the callbacks to Minos and   *)
(* the run records of mnemosyne.                                           *)
(*                                                                         *)
(* A review that asks for changes starts another run on the same branch.   *)
(* Concurrent dispatches and the loop of Argus are in modules Minos and    *)
(* Argus; here one dispatch runs at a time, and Argus (or Reconcile) takes *)
(* one step to judge the run the row names.  Best-effort narration (POST   *)
(* /post) changes nothing and is left out.                                 *)
(***************************************************************************)
EXTENDS BrokerAuth

CONSTANTS
  MaxPods,     \* bound: how many runs are dispatched
  GithubLife,  \* life of an installation token of GitHub, in ticks
  MaxFaults    \* bound: calls that fail, pods that are lost, processes that die

ASSUME MaxPodsAssumption    == MaxPods \in Nat \ {0}
ASSUME GithubLifeAssumption == GithubLife \in Nat \ {0}
ASSUME MaxFaultsAssumption  == MaxFaults \in Nat

VARIABLES
  task,         \* the row of the task
  dispatching,  \* where dispatch is, and for which run
  pods,         \* pods[r]: the pod of run r
  secrets,      \* the runs whose Secret exists
  removal,      \* removal[r]: what Argus has still to do once it has judged run r
  work,         \* work[r]: the script of run r
  github,       \* the base branch, the branch of the task, the pull request
  records,      \* mnemosyne.run_records: the run it is stored for, the run that sent it
  dispatched,   \* the runs whose dispatch went through
  faults        \* how many more faults may happen

clusterVars == <<pods, secrets, removal>>
workerVars  == <<task, dispatching, pods, secrets, removal, work, github, records, dispatched, faults>>

PodRuns == 1 .. MaxPods

(***************************************************************************)
(* at      the next command of the script                                  *)
(* why     why it died: a call failed, claude exited non-zero, there was   *)
(*         nothing to open a pull request for, a token had expired, a      *)
(*         service refused a valid token, the push was rejected, or a pull *)
(*         request was open already                                        *)
(* tree    the commits on the local branch, each named by its run          *)
(* age, githubAge  ticks since the two tokens were minted                  *)
(***************************************************************************)
Script == [at : {"fetch", "mint", "clone", "claude", "commit", "push", "open", "report",
                 "upload", "done", "dead"},
           why : {"", "call", "claude", "empty", "expired", "refused", "rejected", "exists"},
           tree : SUBSET PodRuns, age : 0 .. TokenLife, githubAge : 0 .. GithubLife]

NewScript == [at |-> "fetch", why |-> "", tree |-> {}, age |-> 0, githubAge |-> 0]

NoFault == UNCHANGED faults
Fault   == faults > 0 /\ faults' = faults - 1

\* The edges of the task machine that are walked here.
LegalMove(from, to) ==
  \/ from = "queued"          /\ to \in {"running", "failed"}
  \/ from = "running"         /\ to \in {"awaiting-review", "completed", "failed"}
  \/ from = "awaiting-review" /\ to \in {"running", "completed", "failed"}

\* A conflict leaves the row as it is.
MoveTo(state) == task' = IF LegalMove(task.state, state) THEN [task EXCEPT !.state = state] ELSE task

-----------------------------------------------------------------------------
(***************************************************************************)
(* Commission, respawn and dispatch.                                       *)
(***************************************************************************)
Unspawned == {r \in PodRuns : pods[r] = "unspawned" /\ r \notin secrets}

StartDispatch ==
  /\ dispatching.at = "idle"
  /\ \E r \in Unspawned :
       /\ \A q \in Unspawned : r <= q
       /\ dispatching' = [at |-> "secret", run |-> r]

CommissionTask ==
  /\ task.state = "none"
  /\ task' = [task EXCEPT !.state = "queued"]
  /\ StartDispatch
  /\ UNCHANGED <<clusterVars, work, github, records, dispatched, faults>>

\* A review or a mention finds the task by the URL its pod reported.
RespawnTask ==
  /\ task.state = "awaiting-review" /\ task.pr
  /\ StartDispatch
  /\ UNCHANGED <<task, clusterVars, work, github, records, dispatched, faults>>

GoOn(at)  == dispatching' = [dispatching EXCEPT !.at = at]
GiveUp    == GoOn("idle")
ThisRun   == dispatching.run

CreateSecret ==
  /\ dispatching.at = "secret"
  /\ \/ NoFault /\ secrets' = secrets \cup {ThisRun} /\ GoOn("pod") /\ UNCHANGED task
     \/ Fault /\ MoveTo("failed") /\ GiveUp /\ UNCHANGED secrets
  /\ UNCHANGED <<pods, removal, work, github, records, dispatched>>

\* When the pod is refused the Secret is deleted, if that works.
CreateWorkerPod ==
  /\ dispatching.at = "pod"
  /\ \/ /\ NoFault
        /\ pods' = [pods EXCEPT ![ThisRun] = "pending"]
        /\ GoOn("record")
        /\ UNCHANGED <<task, secrets>>
     \/ /\ Fault
        /\ pods' = [pods EXCEPT ![ThisRun] = "gone"]
        /\ secrets' \in {secrets, secrets \ {ThisRun}}
        /\ MoveTo("failed")
        /\ GiveUp
  /\ UNCHANGED <<removal, work, github, records, dispatched>>

\* Failures from here on leave pod and row as they are.
RecordPod ==
  /\ dispatching.at = "record"
  /\ \/ NoFault /\ task' = [task EXCEPT !.run = ThisRun] /\ GoOn("start")
     \/ Fault /\ GiveUp /\ UNCHANGED task
  /\ UNCHANGED <<clusterVars, work, github, records, dispatched>>

StartRun ==
  /\ dispatching.at = "start"
  /\ GiveUp
  /\ \/ /\ NoFault
        /\ MoveTo("running")
        /\ dispatched' = IF task'.state = "running" THEN dispatched \cup {ThisRun} ELSE dispatched
     \/ Fault /\ UNCHANGED <<task, dispatched>>
  /\ UNCHANGED <<clusterVars, work, github, records>>

MinosDies ==
  /\ dispatching.at # "idle"
  /\ Fault /\ GiveUp
  /\ UNCHANGED <<task, clusterVars, work, github, records, dispatched>>

-----------------------------------------------------------------------------
(***************************************************************************)
(* The script.  Every command runs under set -e, so the script ends at the *)
(* first one that fails.                                                   *)
(***************************************************************************)
At(r, command) == pods[r] = "running" /\ work[r].at = command

Then(r, command) == work' = [work EXCEPT ![r].at = command] /\ UNCHANGED pods

\* What a dead script had checked out, and its tokens, are forgotten.
Exits(r, why) ==
  /\ work' = [work EXCEPT ![r] = [NewScript EXCEPT !.at = "dead", !.why = why]]
  /\ pods' = [pods EXCEPT ![r] = "failed"]

Allowed(r, scopes) == \A s \in scopes : Admits(ComposeCapabilities, work[r].age, s)
Denied(r)          == IF work[r].age < TokenLife THEN "refused" ELSE "expired"
GithubFresh(r)     == work[r].githubAge < GithubLife

\* What the script leaves alone at every step but the ones below.
Elsewhere == UNCHANGED <<task, dispatching, secrets, removal, github, records, dispatched>>

\* A command that needs the pod's bearer token.
Asks(r, scopes, command) ==
  \/ Fault /\ Exits(r, "call")
  \/ NoFault /\ IF Allowed(r, scopes) THEN Then(r, command) ELSE Exits(r, Denied(r))

FetchCredentials(r) == At(r, "fetch") /\ Asks(r, HecateScopes, "mint") /\ Elsewhere

MintGithubToken(r) ==
  At(r, "mint") /\ Asks(r, {<<"github", "clone">>}, "clone") /\ Elsewhere

\* The base branch, and a new local branch on top of it; the branch that an
\* earlier run has pushed is not fetched.
Clone(r) ==
  /\ At(r, "clone")
  /\ \/ Fault /\ Exits(r, "call")
     \/ /\ NoFault
        /\ IF GithubFresh(r)
           THEN /\ work' = [work EXCEPT ![r].at = "claude", ![r].tree = github.base]
                /\ UNCHANGED pods
           ELSE Exits(r, "expired")
  /\ Elsewhere

RunClaude(r) ==
  /\ At(r, "claude")
  /\ \/ Asks(r, {<<"apollo", "messages">>}, "commit")
     \/ NoFault /\ Exits(r, "claude")
  /\ Elsewhere

\* With changes, or without.
CommitChanges(r) ==
  /\ At(r, "commit")
  /\ \E tree \in {work[r].tree, work[r].tree \cup {r}} :
       work' = [work EXCEPT ![r].at = "push", ![r].tree = tree]
  /\ NoFault /\ UNCHANGED pods /\ Elsewhere

\* Variant: the push is forced.
FastForwardForced(r) == TRUE

\* A push that does not contain what the branch holds is rejected.
FastForward(r) == ~ github.pushed \/ github.head \subseteq work[r].tree

Push(r) ==
  /\ At(r, "push")
  /\ \/ Fault /\ Exits(r, "call") /\ UNCHANGED github
     \/ /\ NoFault
        /\ CASE ~ GithubFresh(r) -> Exits(r, "expired") /\ UNCHANGED github
             [] GithubFresh(r) /\ ~ FastForward(r) -> Exits(r, "rejected") /\ UNCHANGED github
             [] OTHER -> /\ github' = [github EXCEPT !.head = work[r].tree, !.pushed = TRUE]
                         /\ Then(r, "open")
  /\ UNCHANGED <<task, dispatching, secrets, removal, records, dispatched>>

\* gh pr create refuses a second pull request for a branch, and one without
\* commits.
Refusal(r) ==
  CASE ~ GithubFresh(r)              -> "expired"
    [] github.pr = "open"            -> "exists"
    [] github.head \subseteq github.base -> "empty"
    [] OTHER                         -> ""

\* Variant: without pipefail the status of gh is lost in the pipe.
OpenPullRequestNoPipefail(r) ==
  /\ At(r, "open")
  /\ Fault \/ NoFault
  /\ Then(r, "report")
  /\ github' = IF NoFault /\ Refusal(r) = "" THEN [github EXCEPT !.pr = "open"] ELSE github
  /\ UNCHANGED <<task, dispatching, secrets, removal, records, dispatched>>

OpenPullRequest(r) ==
  /\ At(r, "open")
  /\ \/ Fault /\ Exits(r, "call") /\ UNCHANGED github
     \/ NoFault /\ Refusal(r) # "" /\ Exits(r, Refusal(r)) /\ UNCHANGED github
     \/ NoFault /\ Refusal(r) = "" /\ github' = [github EXCEPT !.pr = "open"] /\ Then(r, "report")
  /\ UNCHANGED <<task, dispatching, secrets, removal, records, dispatched>>

Callback(r) == Allowed(r, {<<"minos", "task.lifecycle">>})

\* Variant: Minos hibernates the task when it learns of the pull request.
ReportPullRequestHibernates(r) ==
  /\ At(r, "report")
  /\ task' = [task EXCEPT !.pr = TRUE, !.state = IF @ = "running" THEN "awaiting-review" ELSE @]
  /\ Then(r, "upload")
  /\ NoFault
  /\ UNCHANGED <<dispatching, secrets, removal, github, records, dispatched>>

\* POST /pr; whatever comes back, the script goes on, and Minos may have acted
\* on a call that failed.
ReportPullRequest(r) ==
  /\ At(r, "report")
  /\ \/ (NoFault \/ Fault) /\ Callback(r) /\ task' = [task EXCEPT !.pr = TRUE]
     \/ (Fault \/ (NoFault /\ ~ Callback(r))) /\ UNCHANGED task
  /\ Then(r, "upload")
  /\ UNCHANGED <<dispatching, secrets, removal, github, records, dispatched>>

Recorded(run) == \E rec \in records : rec.run = run

\* A second record for a run is refused (UNIQUE).
StoreRun(rec) == ~ Recorded(rec.run) /\ records' = records \cup {rec}

\* POST /memory: stored for the run the row names.
ReportMemory(r) == Callback(r) /\ StoreRun([run |-> task.run, by |-> r])

\* The last call; then exit 0, whatever came back.
UploadMemory(r) ==
  /\ At(r, "upload")
  /\ \/ (NoFault \/ Fault) /\ ReportMemory(r)
     \/ (Fault \/ (NoFault /\ ~ (Callback(r) /\ ~ Recorded(task.run)))) /\ UNCHANGED records
  /\ work' = [work EXCEPT ![r] = [NewScript EXCEPT !.at = "done"]]
  /\ pods' = [pods EXCEPT ![r] = "succeeded"]
  /\ UNCHANGED <<task, dispatching, secrets, removal, github, dispatched>>

ScriptStep(r) ==
  \/ FetchCredentials(r) \/ MintGithubToken(r) \/ Clone(r) \/ RunClaude(r) \/ CommitChanges(r)
  \/ Push(r) \/ OpenPullRequest(r) \/ ReportPullRequest(r) \/ UploadMemory(r)

-----------------------------------------------------------------------------
(***************************************************************************)
(* k3s, and DeletePod: first the pod, then the Secret, whatever became of  *)
(* the pod.                                                                *)
(***************************************************************************)
PodRunning(r) ==
  /\ pods[r] = "pending" /\ r \in secrets
  /\ pods' = [pods EXCEPT ![r] = "running"]
  /\ UNCHANGED <<task, dispatching, secrets, removal, work, github, records, dispatched, faults>>

PodEvictedByNode(r) ==
  /\ pods[r] \in {"pending", "running"}
  /\ Fault
  /\ Exits(r, "call")
  /\ Elsewhere

\* The script of a deleted pod stops where it is.
PodDeleted(r) ==
  \/ NoFault /\ pods' = [pods EXCEPT ![r] = "gone"]
  \/ Fault /\ UNCHANGED pods

\* Variant: the Secret is not deleted with the pod.
RemovePodAlone(r) ==
  /\ removal[r] = "pod"
  /\ PodDeleted(r)
  /\ removal' = [removal EXCEPT ![r] = "none"]
  /\ UNCHANGED <<task, dispatching, secrets, work, github, records, dispatched>>

RemovePod(r) ==
  /\ removal[r] = "pod"
  /\ PodDeleted(r)
  /\ removal' = [removal EXCEPT ![r] = "secret"]
  /\ UNCHANGED <<task, dispatching, secrets, work, github, records, dispatched>>

RemoveSecret(r) ==
  /\ removal[r] \in {"secret", "kill"}
  /\ removal' = [removal EXCEPT ![r] = IF @ = "secret" THEN "none" ELSE "row"]
  /\ \/ NoFault /\ secrets' = secrets \ {r}
     \/ Fault /\ UNCHANGED secrets
  /\ UNCHANGED <<task, dispatching, pods, work, github, records, dispatched>>

-----------------------------------------------------------------------------
(***************************************************************************)
(* Argus, and GitHub.                                                      *)
(***************************************************************************)
CurrentRun(r) == task.state = "running" /\ task.run = r /\ removal[r] = "none"

\* hibernate and markFailed: the row, then the pod.
RunJudged(r) ==
  /\ CurrentRun(r)
  /\ \/ pods[r] = "succeeded" /\ MoveTo("awaiting-review")
     \/ pods[r] = "failed" /\ MoveTo("failed")
  /\ removal' = [removal EXCEPT ![r] = "pod"]
  /\ UNCHANGED <<dispatching, pods, secrets, work, github, records, dispatched, faults>>

\* terminate: the pod, its Secret, then the row.
RunTerminated(r) ==
  /\ CurrentRun(r)
  /\ pods[r] \in {"pending", "running"}
  /\ PodDeleted(r)
  /\ removal' = [removal EXCEPT ![r] = "kill"]
  /\ UNCHANGED <<task, dispatching, secrets, work, github, records, dispatched>>

TerminatedRunFails(r) ==
  /\ removal[r] = "row"
  /\ removal' = [removal EXCEPT ![r] = "none"]
  /\ MoveTo("failed")
  /\ UNCHANGED <<dispatching, pods, secrets, work, github, records, dispatched, faults>>

\* Somebody merges or closes; the webhook finds the task if the URL is bound,
\* and may not arrive.
PullRequestEnds ==
  /\ github.pr = "open"
  /\ \E merged \in BOOLEAN :
       /\ github' = IF merged THEN [github EXCEPT !.pr = "merged", !.base = @ \cup github.head]
                              ELSE [github EXCEPT !.pr = "closed"]
       /\ \/ NoFault /\ task.pr /\ MoveTo(IF merged THEN "completed" ELSE "failed")
          \/ (Fault \/ (NoFault /\ ~ task.pr)) /\ UNCHANGED task
  /\ UNCHANGED <<dispatching, clusterVars, work, records, dispatched>>

Grown(script) ==
  [script EXCEPT !.age       = IF @ < TokenLife THEN @ + 1 ELSE @,
                 !.githubAge = IF @ < GithubLife /\ script.at \notin {"fetch", "mint"} THEN @ + 1 ELSE @]

\* The bearer token is minted before the pod is there.
TokensAge ==
  /\ work' = [r \in PodRuns |-> IF pods[r] \in {"pending", "running"} THEN Grown(work[r]) ELSE work[r]]
  /\ UNCHANGED <<task, dispatching, clusterVars, github, records, dispatched, faults>>

-----------------------------------------------------------------------------
WorkerInit ==
  /\ task = [state |-> "none", run |-> 0, pr |-> FALSE]
  /\ dispatching = [at |-> "idle", run |-> 1]
  /\ pods = [r \in PodRuns |-> "unspawned"]
  /\ secrets = {}
  /\ removal = [r \in PodRuns |-> "none"]
  /\ work = [r \in PodRuns |-> NewScript]
  /\ github = [base |-> {}, head |-> {}, pushed |-> FALSE, pr |-> "none"]
  /\ records = {}
  /\ dispatched = {}
  /\ faults = MaxFaults

DispatchStep ==
  \/ CommissionTask \/ RespawnTask
  \/ CreateSecret \/ CreateWorkerPod \/ RecordPod \/ StartRun \/ MinosDies

WorkerNext ==
  \/ DispatchStep
  \/ \E r \in PodRuns :
       \/ ScriptStep(r)
       \/ PodRunning(r) \/ PodEvictedByNode(r) \/ RemovePod(r) \/ RemoveSecret(r)
       \/ RunJudged(r) \/ RunTerminated(r) \/ TerminatedRunFails(r)
  \/ PullRequestEnds \/ TokensAge

WorkerSpec == WorkerInit /\ [][WorkerNext]_workerVars

-----------------------------------------------------------------------------
WorkerTypeOK ==
  /\ task \in [state : {"none", "queued", "running", "awaiting-review", "completed", "failed"},
               run : PodRuns \cup {0}, pr : BOOLEAN]
  /\ dispatching \in [at : {"idle", "secret", "pod", "record", "start"}, run : PodRuns]
  /\ pods \in [PodRuns -> {"unspawned", "pending", "running", "succeeded", "failed", "gone"}]
  /\ secrets \subseteq PodRuns
  /\ removal \in [PodRuns -> {"none", "pod", "secret", "kill", "row"}]
  /\ work \in [PodRuns -> Script]
  /\ github \in [base : SUBSET PodRuns, head : SUBSET PodRuns, pushed : BOOLEAN,
                 pr : {"none", "open", "merged", "closed"}]
  /\ records \subseteq [run : PodRuns \cup {0}, by : PodRuns]
  /\ dispatched \subseteq PodRuns
  /\ faults \in 0 .. MaxFaults

\* The runs whose pod is there although their dispatch has come to nothing: the
\* pod was made, and then a call failed or Minos died.
Orphans ==
  {r \in PodRuns : /\ pods[r] \notin {"unspawned", "gone"}
                   /\ r \notin dispatched
                   /\ ~ (dispatching.at \in {"record", "start"} /\ r = ThisRun)}

(***************************************************************************)
(* "Exit 0 on success (PR opened)" (entrypoint.sh): a run exits with zero  *)
(* only if there is a pull request, a task waits for a review only if      *)
(* there is one to review, and unless a pod was orphaned the commit of     *)
(* every such run is in it.  (Next to an orphan a second run works on the  *)
(* branch, and either may open the pull request of the other.)             *)
(***************************************************************************)
SuccessMeansPullRequest ==
  /\ \A r \in PodRuns : work[r].at = "done" => github.pr # "none"
  /\ task.state = "awaiting-review" => github.pr # "none"
  /\ Orphans = {} => \A r \in PodRuns : work[r].at = "done" => r \in github.head

(***************************************************************************)
(* All runs of a task push to one branch.  What one of them has pushed,    *)
(* and a reviewer may be looking at, no other run changes before it is     *)
(* merged, whether a review started it or it outlived a dispatch that      *)
(* failed: every run starts from the base branch, without the commits of   *)
(* the others, and does not force.  (This is also why a run that a review  *)
(* starts cannot land: see EveryRunLands.)                                 *)
(***************************************************************************)
UnmergedBranchIsFrozen ==
  [][github.pushed /\ ~ (github.head \subseteq github.base) => github'.head = github.head]_workerVars

(***************************************************************************)
(* A record is stored for the run that the row names when it arrives.      *)
(* Once the dispatch of a run has gone through this is the run that sends  *)
(* it, through any number of respawns: the row goes on to the next run     *)
(* only after the pod has exited, and the upload is its last call.  (A pod *)
(* that finished before its own dispatch would be stored for the run       *)
(* before it.)                                                             *)
(***************************************************************************)
RecordsNameTheirRun ==
  [][\A rec \in records' \ records : rec.by \in dispatched => rec.run = rec.by]_workerVars

(***************************************************************************)
(* A pod that waits for its Secret gets it, unless it is being deleted or  *)
(* its task has ended; and if nothing fails, a Secret, with the            *)
(* credentials in it, lives exactly as long as its pod.                    *)
(***************************************************************************)
SecretsFollowPods ==
  /\ \A r \in PodRuns :
       pods[r] = "pending" /\ r \notin secrets =>
         removal[r] # "none" \/ task.state \in {"completed", "failed"}
  /\ faults = MaxFaults /\ dispatching.at = "idle" =>
       \A r \in PodRuns :
         removal[r] = "none" => (r \in secrets <=> pods[r] \notin {"unspawned", "gone"})

Avoidable == {"refused", "rejected", "exists"}

(***************************************************************************)
(* What Minos puts into the token covers what the script asks for, and the *)
(* first run meets an empty branch: it fails only if a call fails, a token *)
(* runs out, or claude fails or changes nothing.                           *)
(***************************************************************************)
FirstRunLands == work[1].why \notin Avoidable

(***************************************************************************)
(* The same for the runs that a review starts: "Operator requests changes  *)
(* on the PR; Minos respawns a fresh pod; PR eventually merges" (the       *)
(* acceptance checkpoint in docs/phase-1-plan.md).                         *)
(***************************************************************************)
EveryRunLands == \A r \in PodRuns : work[r].why \notin Avoidable
=============================================================================
