--------------------------- MODULE Worker_proofs ---------------------------
(***************************************************************************)
(* What one task leaves on GitHub and in mnemosyne, for any number of      *)
(* runs, any lives of the tokens and any number of faults.  The argument   *)
(* is that at most one run whose dispatch went through has a live pod, and *)
(* that it is the run the row names.                                       *)
(*                                                                         *)
(* Then the Secrets, the first run, the runs that reviews start, and the   *)
(* row as a life of TaskLifecycle.  The last part is about module          *)
(* BrokerAuth, which Worker extends.                                       *)
(***************************************************************************)
EXTENDS Worker, TLAPS

Live(r) == pods[r] \in {"pending", "running"}

-----------------------------------------------------------------------------
(***************************************************************************)
(* The strengthened invariant.                                             *)
(***************************************************************************)

\* A pod that has not started has not touched its script, and one that has
\* succeeded is through with it.
ScriptsFollowPods ==
  \A r \in PodRuns :
    /\ pods[r] \in {"unspawned", "pending"} => work[r].at = "fetch"
    /\ pods[r] = "succeeded" => work[r].at = "done"

\* A dispatch is for a run that has no pod yet, of a task that does not run.
DispatchInOrder ==
  /\ dispatching.at # "idle" => task.state \notin {"none", "running"}
  /\ dispatching.at \in {"secret", "pod"} => pods[ThisRun] = "unspawned"
  /\ dispatching.at \in {"record", "start"} => pods[ThisRun] # "unspawned"
  /\ dispatching.at = "start" => task.run = ThisRun
  /\ \A r \in dispatched : pods[r] # "unspawned"
  /\ \A r \in PodRuns : removal[r] # "none" => r \in dispatched

\* The one dispatched run with a live pod is the run of the row.
OneCurrentRun ==
  /\ \A r \in dispatched :
       Live(r) => /\ task.run = r
                  /\ dispatching.at = "idle"
                  /\ task.state \notin {"none", "queued", "awaiting-review"}
  /\ task.state = "running" => task.run \in dispatched

\* Where the commits of the runs are while no pod was orphaned.
CommitsArrive ==
  Orphans = {} =>
    \A r \in PodRuns :
      /\ pods[r] = "running" /\ work[r].at = "open" => r \in github.head \/ github.head \subseteq github.base
      /\ work[r].at \in {"report", "upload", "done"} => r \in github.head

\* What is checked out, what is pushed, and the pull request.
BranchInOrder ==
  /\ ~ github.pushed => github.head = {}
  /\ \A r \in PodRuns :
       /\ work[r].at \in {"claude", "commit"} => work[r].tree \subseteq github.base
       /\ work[r].at = "push" => r \in work[r].tree \/ work[r].tree \subseteq github.base
       /\ work[r].at \in {"report", "upload", "done"} => github.pr # "none"
  /\ task.state = "awaiting-review" => github.pr # "none"

WorkerInv ==
  /\ WorkerTypeOK
  /\ ScriptsFollowPods
  /\ DispatchInOrder
  /\ OneCurrentRun
  /\ CommitsArrive
  /\ BranchInOrder

-----------------------------------------------------------------------------
(***************************************************************************)
(* What the pieces of the actions do.                                      *)
(***************************************************************************)
PodStates == {"unspawned", "pending", "running", "succeeded", "failed", "gone"}

LEMMA TypesOfParts ==
  ASSUME WorkerTypeOK
  PROVE  /\ task.state \in {"none", "queued", "running", "awaiting-review", "completed", "failed"}
         /\ task.run \in PodRuns \cup {0}
         /\ ThisRun \in PodRuns
         /\ \A r \in PodRuns : pods[r] \in PodStates /\ work[r] \in Script
         /\ faults \in Nat /\ PodRuns \subseteq Nat
<1>1. MaxFaults \in Nat /\ MaxPods \in Nat
  BY MaxFaultsAssumption, MaxPodsAssumption
<1> QED
  BY <1>1 DEF WorkerTypeOK, ThisRun, PodStates, PodRuns

LEMMA FaultsType ==
  ASSUME WorkerTypeOK, Fault \/ NoFault
  PROVE  faults' \in 0 .. MaxFaults
  BY MaxFaultsAssumption DEF WorkerTypeOK, Fault, NoFault

\* MoveTo changes the state at most, and never out of an end.
LEMMA MoveToEffect ==
  ASSUME WorkerTypeOK, NEW state \in {"running", "awaiting-review", "completed", "failed"}, MoveTo(state)
  PROVE  /\ task' \in [state : {"none", "queued", "running", "awaiting-review", "completed", "failed"},
                       run : PodRuns \cup {0}, pr : BOOLEAN]
         /\ task'.run = task.run
         /\ task'.state = task.state \/ (task'.state = state /\ LegalMove(task.state, state))
  BY DEF MoveTo, WorkerTypeOK

LEMMA NewScriptType == NewScript \in Script
  BY TokenLifeAssumption, GithubLifeAssumption DEF NewScript, Script

LEMMA ExitsEffect ==
  ASSUME WorkerTypeOK, NEW r \in PodRuns,
         NEW why \in {"call", "claude", "empty", "expired", "refused", "rejected", "exists"},
         Exits(r, why)
  PROVE  /\ work' \in [PodRuns -> Script]
         /\ pods' \in [PodRuns -> PodStates]
         /\ \A q \in PodRuns \ {r} : work'[q] = work[q] /\ pods'[q] = pods[q]
         /\ work'[r].at = "dead" /\ pods'[r] = "failed"
<1> DEFINE s == [NewScript EXCEPT !.at = "dead", !.why = why]
           d == [NewScript EXCEPT !.at = "dead"]
<1>1. d \in Script /\ d.at = "dead"
  BY NewScriptType DEF Script
<1>2. s \in Script /\ s.at = "dead"
  <2>1. s = [d EXCEPT !.why = why]
    OBVIOUS
  <2> HIDE DEF d
  <2> QED
    BY <1>1, <2>1 DEF Script
<1>3. work' = [work EXCEPT ![r] = s] /\ pods' = [pods EXCEPT ![r] = "failed"]
  BY Zenon DEF Exits
<1> HIDE DEF s
<1> QED
  BY <1>2, <1>3 DEF WorkerTypeOK, PodStates

LEMMA ThenEffect ==
  ASSUME WorkerTypeOK, NEW r \in PodRuns,
         NEW command \in {"mint", "clone", "claude", "commit", "push", "open", "report", "upload"},
         Then(r, command)
  PROVE  /\ work' \in [PodRuns -> Script]
         /\ pods' = pods
         /\ \A q \in PodRuns \ {r} : work'[q] = work[q]
         /\ work'[r].at = command /\ work'[r].tree = work[r].tree
<1> DEFINE s == [work[r] EXCEPT !.at = command]
<1>1. work[r] \in Script /\ work \in [PodRuns -> Script]
  BY DEF WorkerTypeOK
<1>2. s \in Script /\ s.at = command /\ s.tree = work[r].tree
  BY <1>1 DEF Script
<1>3. work' = [work EXCEPT ![r] = s] /\ pods' = pods
  BY Zenon DEF Then
<1> HIDE DEF s
<1> QED
  BY <1>1, <1>2, <1>3

LEMMA AsksEffect ==
  ASSUME WorkerTypeOK, NEW r \in PodRuns, NEW scopes,
         NEW command \in {"mint", "clone", "claude", "commit", "push", "open", "report", "upload"},
         Asks(r, scopes, command)
  PROVE  /\ Then(r, command) \/ Exits(r, "call") \/ Exits(r, "refused") \/ Exits(r, "expired")
         /\ Fault \/ NoFault
  BY DEF Asks, Denied

-----------------------------------------------------------------------------
(***************************************************************************)
(* The script, one step of one run.                                        *)
(***************************************************************************)

\* The two changes a script makes on GitHub.
BranchPushed(r)   == github' = [github EXCEPT !.head = work[r].tree, !.pushed = TRUE]
PullRequestOpened == github' = [github EXCEPT !.pr = "open"]

\* What a step does to its run, to the branch and to the pull request.
Outcome(r) ==
  \/ work'[r].at = "dead" /\ github' = github
  \/ work[r].at = "fetch" /\ work'[r].at = "mint" /\ github' = github
  \/ work[r].at = "mint" /\ work'[r].at = "clone" /\ github' = github
  \/ /\ work[r].at = "clone" /\ work'[r].at = "claude"
     /\ work'[r].tree = github.base /\ github' = github
  \/ /\ work[r].at = "claude" /\ work'[r].at = "commit"
     /\ work'[r].tree = work[r].tree /\ github' = github
  \/ /\ work[r].at = "commit" /\ work'[r].at = "push"
     /\ work'[r].tree \in {work[r].tree, work[r].tree \cup {r}} /\ github' = github
  \/ /\ work[r].at = "push" /\ work'[r].at = "open"
     /\ FastForward(r)
     /\ BranchPushed(r)
  \/ /\ work[r].at = "open" /\ work'[r].at = "report"
     /\ ~ (github.head \subseteq github.base)
     /\ PullRequestOpened
  \/ /\ work[r].at \in {"report", "upload"} /\ work'[r].at \in {"upload", "done"}
     /\ github' = github

\* What a step leaves alone, and how it may leave its pod.
ScriptFrame(r) ==
  /\ work' \in [PodRuns -> Script] /\ pods' \in [PodRuns -> PodStates]
  /\ pods[r] = "running"
  /\ \A q \in PodRuns \ {r} : work'[q] = work[q] /\ pods'[q] = pods[q]
  /\ \/ pods'[r] = "running"
     \/ pods'[r] = "failed" /\ work'[r].at = "dead"
     \/ pods'[r] = "succeeded" /\ work'[r].at = "done"

\* A step that ends the script, or goes on with the next command.
LEMMA ExitsFrame ==
  ASSUME WorkerTypeOK, NEW r \in PodRuns, pods[r] = "running",
         NEW why \in {"call", "claude", "empty", "expired", "refused", "rejected", "exists"},
         Exits(r, why)
  PROVE  ScriptFrame(r) /\ work'[r].at = "dead"
  BY ExitsEffect DEF ScriptFrame

LEMMA ThenFrame ==
  ASSUME WorkerTypeOK, NEW r \in PodRuns, pods[r] = "running",
         NEW command \in {"mint", "clone", "claude", "commit", "push", "open", "report", "upload"},
         Then(r, command)
  PROVE  ScriptFrame(r) /\ work'[r].at = command /\ work'[r].tree = work[r].tree
<1>1. pods \in [PodRuns -> PodStates]
  BY DEF WorkerTypeOK, PodStates
<1> QED
  BY <1>1, ThenEffect DEF ScriptFrame

LEMMA AsksFrame ==
  ASSUME WorkerTypeOK, NEW r \in PodRuns, pods[r] = "running", NEW scopes,
         NEW command \in {"mint", "clone", "claude", "commit", "push", "open", "report", "upload"},
         Asks(r, scopes, command)
  PROVE  /\ ScriptFrame(r)
         /\ \/ work'[r].at = "dead"
            \/ work'[r].at = command /\ work'[r].tree = work[r].tree
         /\ Fault \/ NoFault
  BY AsksEffect, ThenFrame, ExitsFrame

\* A step that sets position and tree of its script.
LEMMA SetFrame ==
  ASSUME WorkerTypeOK, NEW r \in PodRuns, pods[r] = "running", UNCHANGED pods,
         NEW s \in Script, work' = [work EXCEPT ![r] = s]
  PROVE  ScriptFrame(r) /\ work'[r] = s
  BY DEF ScriptFrame, WorkerTypeOK, PodStates

LEMMA TreeFrame ==
  ASSUME WorkerTypeOK, NEW r \in PodRuns, pods[r] = "running", UNCHANGED pods,
         NEW command \in {"claude", "push"}, NEW tree \in SUBSET PodRuns,
         work' = [work EXCEPT ![r].at = command, ![r].tree = tree]
  PROVE  ScriptFrame(r) /\ work'[r].at = command /\ work'[r].tree = tree
<1> DEFINE s == [work[r] EXCEPT !.at = command]
           t == [work[r] EXCEPT !.at = command, !.tree = tree]
<1>1. work[r] \in Script
  BY DEF WorkerTypeOK
<1>2. s \in Script /\ s.at = command
  BY <1>1 DEF Script
<1>3. t = [s EXCEPT !.tree = tree]
  OBVIOUS
<1>4. t \in Script /\ t.at = command /\ t.tree = tree
  <2> HIDE DEF s
  <2> QED
    BY <1>2, <1>3 DEF Script
<1>5. work' = [work EXCEPT ![r] = t]
  OBVIOUS
<1> HIDE DEF t
<1> QED
  BY <1>4, <1>5, SetFrame

TaskRow == [state : {"none", "queued", "running", "awaiting-review", "completed", "failed"},
            run : PodRuns \cup {0}, pr : BOOLEAN]

ScriptEffect(r) ==
  /\ ScriptFrame(r) /\ Outcome(r)
  /\ UNCHANGED <<dispatching, secrets, removal, dispatched>>
  /\ task' \in TaskRow /\ task'.state = task.state /\ task'.run = task.run
  /\ records' \subseteq [run : PodRuns \cup {0}, by : PodRuns]
  /\ faults' \in 0 .. MaxFaults

\* The commands that leave everything but their run alone.
LEMMA ElsewhereEffect ==
  ASSUME WorkerTypeOK, NEW r \in PodRuns, ScriptFrame(r), Outcome(r), Elsewhere, Fault \/ NoFault
  PROVE  ScriptEffect(r)
<1>1. task \in TaskRow /\ records \subseteq [run : PodRuns \cup {0}, by : PodRuns]
  BY DEF WorkerTypeOK, TaskRow
<1> QED
  BY <1>1, FaultsType DEF ScriptEffect, Elsewhere

LEMMA AskingCommands ==
  ASSUME WorkerTypeOK, NEW r \in PodRuns,
         FetchCredentials(r) \/ MintGithubToken(r) \/ RunClaude(r)
  PROVE  ScriptEffect(r)
<1>1. CASE FetchCredentials(r)
  <2>1. pods[r] = "running" /\ work[r].at = "fetch" /\ Asks(r, HecateScopes, "mint") /\ Elsewhere
    BY <1>1 DEF FetchCredentials, At
  <2>2. ScriptFrame(r) /\ work'[r].at \in {"dead", "mint"} /\ (Fault \/ NoFault)
    BY <2>1, AsksFrame
  <2> QED
    BY <2>1, <2>2, ElsewhereEffect DEF Outcome, Elsewhere
<1>2. CASE MintGithubToken(r)
  <2>1. /\ pods[r] = "running" /\ work[r].at = "mint"
        /\ Asks(r, {<<"github", "clone">>}, "clone") /\ Elsewhere
    BY <1>2 DEF MintGithubToken, At
  <2>2. ScriptFrame(r) /\ work'[r].at \in {"dead", "clone"} /\ (Fault \/ NoFault)
    BY <2>1, AsksFrame
  <2> QED
    BY <2>1, <2>2, ElsewhereEffect DEF Outcome, Elsewhere
<1>3. CASE RunClaude(r)
  <2>1. pods[r] = "running" /\ work[r].at = "claude" /\ Elsewhere
    BY <1>3 DEF RunClaude, At
  <2>2. CASE Asks(r, {<<"apollo", "messages">>}, "commit")
    <3>1. /\ ScriptFrame(r) /\ (Fault \/ NoFault)
          /\ \/ work'[r].at = "dead"
             \/ work'[r].at = "commit" /\ work'[r].tree = work[r].tree
      BY <2>1, <2>2, AsksFrame
    <3> QED
      BY <2>1, <3>1, ElsewhereEffect DEF Outcome, Elsewhere
  <2>3. CASE NoFault /\ Exits(r, "claude")
    <3>1. ScriptFrame(r) /\ work'[r].at = "dead"
      BY <2>1, <2>3, ExitsFrame
    <3> QED
      BY <2>1, <2>3, <3>1, ElsewhereEffect DEF Outcome, Elsewhere
  <2> QED
    BY <1>3, <2>2, <2>3 DEF RunClaude
<1> QED
  BY <1>1, <1>2, <1>3

LEMMA CloneAndCommit ==
  ASSUME WorkerTypeOK, NEW r \in PodRuns, Clone(r) \/ CommitChanges(r)
  PROVE  ScriptEffect(r)
<1>1. CASE Clone(r)
  <2>1. pods[r] = "running" /\ work[r].at = "clone" /\ Elsewhere /\ github.base \in SUBSET PodRuns
    BY <1>1 DEF Clone, At, WorkerTypeOK
  <2>2. CASE Exits(r, "call") /\ Fault
    BY <2>1, <2>2, ExitsFrame, ElsewhereEffect DEF Outcome, Elsewhere
  <2>3. CASE Exits(r, "expired") /\ NoFault
    BY <2>1, <2>3, ExitsFrame, ElsewhereEffect DEF Outcome, Elsewhere
  <2>4. CASE /\ work' = [work EXCEPT ![r].at = "claude", ![r].tree = github.base]
             /\ UNCHANGED pods /\ NoFault
    <3>1. ScriptFrame(r) /\ work'[r].at = "claude" /\ work'[r].tree = github.base
      BY <2>1, <2>4, TreeFrame
    <3> QED
      BY <2>1, <2>4, <3>1, ElsewhereEffect DEF Outcome, Elsewhere
  <2> QED
    BY <1>1, <2>2, <2>3, <2>4 DEF Clone
<1>2. CASE CommitChanges(r)
  <2>1. /\ pods[r] = "running" /\ work[r].at = "commit" /\ Elsewhere /\ NoFault /\ UNCHANGED pods
        /\ work[r].tree \in SUBSET PodRuns
    BY <1>2 DEF CommitChanges, At, WorkerTypeOK, Script
  <2>2. PICK tree \in {work[r].tree, work[r].tree \cup {r}} :
          work' = [work EXCEPT ![r].at = "push", ![r].tree = tree]
    BY <1>2 DEF CommitChanges
  <2>3. tree \in SUBSET PodRuns
    BY <2>1
  <2>4. ScriptFrame(r) /\ work'[r].at = "push" /\ work'[r].tree = tree
    BY <2>1, <2>2, <2>3, TreeFrame
  <2> QED
    BY <2>1, <2>4, ElsewhereEffect DEF Outcome, Elsewhere
<1> QED
  BY <1>1, <1>2

\* Push and gh pr create change GitHub; all else they leave alone.
LEMMA GithubEffect ==
  ASSUME WorkerTypeOK, NEW r \in PodRuns, ScriptFrame(r), Outcome(r), Fault \/ NoFault,
         UNCHANGED <<task, dispatching, secrets, removal, records, dispatched>>
  PROVE  ScriptEffect(r)
<1>1. task \in TaskRow /\ records \subseteq [run : PodRuns \cup {0}, by : PodRuns]
  BY DEF WorkerTypeOK, TaskRow
<1> QED
  BY <1>1, FaultsType DEF ScriptEffect

LEMMA PushEffect ==
  ASSUME WorkerTypeOK, NEW r \in PodRuns, Push(r)
  PROVE  ScriptEffect(r)
<1>1. /\ pods[r] = "running" /\ work[r].at = "push"
      /\ UNCHANGED <<task, dispatching, secrets, removal, records, dispatched>>
      /\ Fault \/ NoFault
  BY DEF Push, At
<1>2. CASE UNCHANGED github /\ (Exits(r, "call") \/ Exits(r, "expired") \/ Exits(r, "rejected"))
  <2>1. ScriptFrame(r) /\ work'[r].at = "dead"
    BY <1>1, <1>2, ExitsFrame
  <2> QED
    BY <1>1, <1>2, <2>1, GithubEffect DEF Outcome
<1>3. CASE /\ FastForward(r) /\ Then(r, "open")
           /\ github' = [github EXCEPT !.head = work[r].tree, !.pushed = TRUE]
  <2>1. ScriptFrame(r) /\ work'[r].at = "open"
    BY <1>1, <1>3, ThenFrame
  <2> QED
    BY <1>1, <1>3, <2>1, GithubEffect DEF Outcome, BranchPushed
<1>4. \/ UNCHANGED github /\ (Exits(r, "call") \/ Exits(r, "expired") \/ Exits(r, "rejected"))
      \/ /\ FastForward(r) /\ Then(r, "open")
         /\ github' = [github EXCEPT !.head = work[r].tree, !.pushed = TRUE]
  BY Zenon DEF Push
<1> QED
  BY <1>2, <1>3, <1>4

LEMMA OpenEffect ==
  ASSUME WorkerTypeOK, NEW r \in PodRuns, OpenPullRequest(r)
  PROVE  ScriptEffect(r)
<1>1. /\ pods[r] = "running" /\ work[r].at = "open"
      /\ UNCHANGED <<task, dispatching, secrets, removal, records, dispatched>>
      /\ Fault \/ NoFault
  BY DEF OpenPullRequest, At
<1>2. CASE Exits(r, "call") /\ UNCHANGED github
  <2>1. ScriptFrame(r) /\ work'[r].at = "dead"
    BY <1>1, <1>2, ExitsFrame
  <2> QED
    BY <1>1, <1>2, <2>1, GithubEffect DEF Outcome
<1>3. CASE Refusal(r) # "" /\ Exits(r, Refusal(r)) /\ UNCHANGED github
  <2>1. Refusal(r) \in {"expired", "exists", "empty"}
    BY <1>3 DEF Refusal
  <2>2. ScriptFrame(r) /\ work'[r].at = "dead"
    BY <1>1, <1>3, <2>1, ExitsFrame
  <2> QED
    BY <1>1, <1>3, <2>2, GithubEffect DEF Outcome
<1>4. CASE Refusal(r) = "" /\ github' = [github EXCEPT !.pr = "open"] /\ Then(r, "report")
  <2>1. ~ (github.head \subseteq github.base)
    BY <1>4 DEF Refusal
  <2>2. ScriptFrame(r) /\ work'[r].at = "report"
    BY <1>1, <1>4, ThenFrame
  <2> QED
    BY <1>1, <1>4, <2>1, <2>2, GithubEffect DEF Outcome, PullRequestOpened
<1> QED
  BY <1>2, <1>3, <1>4 DEF OpenPullRequest

LEMMA CallbackEffects ==
  ASSUME WorkerTypeOK, NEW r \in PodRuns, ReportPullRequest(r) \/ UploadMemory(r)
  PROVE  ScriptEffect(r)
<1>1. task \in TaskRow /\ records \subseteq [run : PodRuns \cup {0}, by : PodRuns]
  BY DEF WorkerTypeOK, TaskRow
<1>2. CASE ReportPullRequest(r)
  <2>1. /\ pods[r] = "running" /\ work[r].at = "report" /\ Then(r, "upload")
        /\ UNCHANGED <<dispatching, secrets, removal, github, records, dispatched>>
        /\ Fault \/ NoFault
        /\ task' = [task EXCEPT !.pr = TRUE] \/ task' = task
    BY <1>2 DEF ReportPullRequest, At
  <2>2. ScriptFrame(r) /\ work'[r].at = "upload"
    BY <2>1, ThenFrame
  <2>3. task' \in TaskRow /\ task'.state = task.state /\ task'.run = task.run
    BY <1>1, <2>1 DEF TaskRow
  <2> QED
    BY <1>1, <2>1, <2>2, <2>3, FaultsType DEF ScriptEffect, Outcome
<1>3. CASE UploadMemory(r)
  <2>1. /\ pods[r] = "running" /\ work[r].at = "upload"
        /\ work' = [work EXCEPT ![r] = [NewScript EXCEPT !.at = "done"]]
        /\ pods' = [pods EXCEPT ![r] = "succeeded"]
        /\ UNCHANGED <<task, dispatching, secrets, removal, github, dispatched>>
        /\ Fault \/ NoFault
        /\ records' = records \/ records' = records \cup {[run |-> task.run, by |-> r]}
    BY <1>3 DEF UploadMemory, At, ReportMemory, StoreRun
  <2> DEFINE s == [NewScript EXCEPT !.at = "done"]
  <2>2. s \in Script /\ s.at = "done"
    BY NewScriptType DEF Script
  <2>3. work' = [work EXCEPT ![r] = s]
    BY <2>1
  <2> HIDE DEF s
  <2>4. ScriptFrame(r) /\ work'[r].at = "done"
    BY <2>1, <2>2, <2>3 DEF ScriptFrame, WorkerTypeOK, PodStates
  <2>5. [run |-> task.run, by |-> r] \in [run : PodRuns \cup {0}, by : PodRuns]
    BY <1>1 DEF TaskRow
  <2> QED
    BY <1>1, <2>1, <2>4, <2>5, FaultsType DEF ScriptEffect, Outcome
<1> QED
  BY <1>2, <1>3

LEMMA ScriptStepEffect ==
  ASSUME WorkerTypeOK, NEW r \in PodRuns, ScriptStep(r)
  PROVE  ScriptEffect(r)
  BY AskingCommands, CloneAndCommit, PushEffect, OpenEffect, CallbackEffects DEF ScriptStep

-----------------------------------------------------------------------------
(***************************************************************************)
(* Steps of the script keep the invariant.                                 *)
(***************************************************************************)

\* With no orphan about, a live pod is alone.
LEMMA LiveIsAlone ==
  ASSUME WorkerInv, Orphans = {},
         NEW r \in PodRuns, Live(r), NEW q \in PodRuns, Live(q)
  PROVE  r = q
<1>1. \A i \in PodRuns :
        Live(i) => i \in dispatched \/ (dispatching.at \in {"record", "start"} /\ i = ThisRun)
  BY DEF Orphans, Live
<1>2. \A i \in dispatched : Live(i) => task.run = i /\ dispatching.at = "idle"
  BY DEF WorkerInv, OneCurrentRun
<1> QED
  BY <1>1, <1>2

LEMMA ScriptKeepsType ==
  ASSUME WorkerTypeOK, NEW r \in PodRuns, ScriptEffect(r)
  PROVE  WorkerTypeOK'
<1>1. github' \in [base : SUBSET PodRuns, head : SUBSET PodRuns, pushed : BOOLEAN,
                   pr : {"none", "open", "merged", "closed"}]
  <2>1. github \in [base : SUBSET PodRuns, head : SUBSET PodRuns, pushed : BOOLEAN,
                    pr : {"none", "open", "merged", "closed"}]
        /\ work[r].tree \in SUBSET PodRuns
    BY DEF WorkerTypeOK, Script
  <2>2. \/ github' = github
        \/ github' = [github EXCEPT !.head = work[r].tree, !.pushed = TRUE]
        \/ github' = [github EXCEPT !.pr = "open"]
    BY DEF ScriptEffect, Outcome, BranchPushed, PullRequestOpened
  <2>3. CASE github' = github
    BY <2>1, <2>3
  <2>4. CASE github' = [github EXCEPT !.head = work[r].tree, !.pushed = TRUE]
    BY <2>1, <2>4
  <2>5. CASE github' = [github EXCEPT !.pr = "open"]
    BY <2>1, <2>5
  <2> QED
    BY <2>2, <2>3, <2>4, <2>5
<1> QED
  BY <1>1 DEF WorkerTypeOK, ScriptEffect, ScriptFrame, TaskRow, PodStates

LEMMA ScriptKeepsPods ==
  ASSUME WorkerInv, NEW r \in PodRuns, ScriptEffect(r)
  PROVE  ScriptsFollowPods' /\ DispatchInOrder' /\ OneCurrentRun' /\ Orphans' = Orphans
<1>1. /\ pods[r] = "running"
      /\ \A q \in PodRuns \ {r} : work'[q] = work[q] /\ pods'[q] = pods[q]
      /\ \/ pods'[r] = "running"
         \/ pods'[r] = "failed"
         \/ pods'[r] = "succeeded" /\ work'[r].at = "done"
      /\ UNCHANGED <<dispatching, removal, dispatched>>
      /\ task'.state = task.state /\ task'.run = task.run
      /\ dispatched \subseteq PodRuns /\ ThisRun \in PodRuns /\ ThisRun' = ThisRun
  BY DEF ScriptEffect, ScriptFrame, WorkerInv, WorkerTypeOK, ThisRun
<1>2. ScriptsFollowPods'
  BY <1>1 DEF WorkerInv, ScriptsFollowPods
<1>3. DispatchInOrder'
  BY <1>1 DEF WorkerInv, DispatchInOrder
<1>4. OneCurrentRun'
  BY <1>1 DEF WorkerInv, OneCurrentRun, Live
<1>5. Orphans' = Orphans
  BY <1>1 DEF Orphans
<1> QED
  BY <1>2, <1>3, <1>4, <1>5

LEMMA GithubRecord ==
  ASSUME WorkerTypeOK, NEW tree \in SUBSET PodRuns
  PROVE  /\ [github EXCEPT !.head = tree, !.pushed = TRUE].head = tree
         /\ [github EXCEPT !.head = tree, !.pushed = TRUE].base = github.base
         /\ [github EXCEPT !.head = tree, !.pushed = TRUE].pr = github.pr
         /\ [github EXCEPT !.head = tree, !.pushed = TRUE].pushed
         /\ [github EXCEPT !.pr = "open"].head = github.head
         /\ [github EXCEPT !.pr = "open"].base = github.base
         /\ [github EXCEPT !.pr = "open"].pr = "open"
         /\ [github EXCEPT !.pr = "open"].pushed = github.pushed
<1>1. github \in [base : SUBSET PodRuns, head : SUBSET PodRuns, pushed : BOOLEAN,
                  pr : {"none", "open", "merged", "closed"}]
  BY DEF WorkerTypeOK
<1> QED
  BY <1>1

\* What the three kinds of steps do to GitHub.
LEMMA OutcomeGithub ==
  ASSUME WorkerInv, NEW r \in PodRuns, ScriptEffect(r)
  PROVE  /\ github.head \subseteq github'.head /\ github'.base = github.base
         /\ github'.pr = github.pr \/ github'.pr = "open"
         /\ ~ github'.pushed => ~ github.pushed /\ github'.head = github.head
         /\ \/ github' = github
            \/ github'.head = work[r].tree /\ work[r].at = "push" /\ work'[r].at = "open"
            \/ /\ work[r].at = "open" /\ work'[r].at = "report"
               /\ ~ (github.head \subseteq github.base)
               /\ github'.head = github.head /\ github'.pr = "open"
<1>1. work[r].tree \in SUBSET PodRuns /\ WorkerTypeOK
  BY DEF WorkerInv, WorkerTypeOK, Script
<1>2. CASE github' = github
  BY <1>2
<1>3. CASE /\ work[r].at = "push" /\ work'[r].at = "open" /\ FastForward(r)
           /\ github' = [github EXCEPT !.head = work[r].tree, !.pushed = TRUE]
  <2>1. /\ github'.head = work[r].tree /\ github'.base = github.base
        /\ github'.pr = github.pr /\ github'.pushed
    BY <1>1, <1>3, GithubRecord
  <2>2. github.head \subseteq work[r].tree
    BY <1>3 DEF FastForward, WorkerInv, BranchInOrder
  <2> QED
    BY <1>3, <2>1, <2>2
<1>4. CASE /\ work[r].at = "open" /\ work'[r].at = "report"
           /\ ~ (github.head \subseteq github.base)
           /\ github' = [github EXCEPT !.pr = "open"]
  <2>1. /\ github'.head = github.head /\ github'.base = github.base
        /\ github'.pr = "open" /\ github'.pushed = github.pushed
    BY <1>1, <1>4, GithubRecord
  <2> QED
    BY <1>4, <2>1
<1>5. \/ github' = github
      \/ /\ work[r].at = "push" /\ work'[r].at = "open" /\ FastForward(r)
         /\ github' = [github EXCEPT !.head = work[r].tree, !.pushed = TRUE]
      \/ /\ work[r].at = "open" /\ work'[r].at = "report"
         /\ ~ (github.head \subseteq github.base)
         /\ github' = [github EXCEPT !.pr = "open"]
  BY DEF ScriptEffect, Outcome, BranchPushed, PullRequestOpened
<1> QED
  BY <1>2, <1>3, <1>4, <1>5

\* What they do to their run.
LEMMA OutcomeRun ==
  ASSUME NEW r \in PodRuns, ScriptEffect(r)
  PROVE  \/ work'[r].at \in {"dead", "mint", "clone"}
         \/ work'[r].at = "claude" /\ work'[r].tree = github.base
         \/ work'[r].at = "commit" /\ work[r].at = "claude" /\ work'[r].tree = work[r].tree
         \/ /\ work'[r].at = "push" /\ work[r].at = "commit"
            /\ work'[r].tree \in {work[r].tree, work[r].tree \cup {r}}
         \/ work'[r].at = "open" /\ work[r].at = "push"
         \/ work'[r].at = "report" /\ work[r].at = "open"
         \/ work'[r].at \in {"upload", "done"} /\ work[r].at \in {"report", "upload"}
  BY DEF ScriptEffect, Outcome

LEMMA ScriptKeepsBranch ==
  ASSUME WorkerInv, NEW r \in PodRuns, ScriptEffect(r)
  PROVE  BranchInOrder'
<1>1. /\ github.head \subseteq github'.head /\ github'.base = github.base
      /\ github'.pr = github.pr \/ github'.pr = "open"
      /\ ~ github'.pushed => ~ github.pushed /\ github'.head = github.head
  BY OutcomeGithub
<1>2. work'[r].at = "report" => github'.pr = "open"
  <2>1. ASSUME PullRequestOpened PROVE github'.pr = "open"
    BY <2>1 DEF PullRequestOpened, WorkerInv, WorkerTypeOK
  <2> QED
    BY <2>1 DEF ScriptEffect, Outcome
<1>3. \A q \in PodRuns \ {r} : work'[q] = work[q]
  BY DEF ScriptEffect, ScriptFrame
<1>4. task'.state = task.state
  BY DEF ScriptEffect
<1>5. ASSUME NEW q \in PodRuns
      PROVE  /\ work'[q].at \in {"claude", "commit"} => work'[q].tree \subseteq github'.base
             /\ work'[q].at = "push" => q \in work'[q].tree \/ work'[q].tree \subseteq github'.base
             /\ work'[q].at \in {"report", "upload", "done"} => github'.pr # "none"
  <2>1. CASE q # r
    BY <1>1, <1>3, <2>1 DEF WorkerInv, BranchInOrder
  <2>2. CASE q = r
    BY <1>1, <1>2, <2>2, OutcomeRun DEF WorkerInv, BranchInOrder
  <2> QED
    BY <2>1, <2>2
<1> QED
  BY <1>1, <1>4, <1>5 DEF WorkerInv, BranchInOrder

LEMMA ScriptKeepsCommits ==
  ASSUME WorkerInv, NEW r \in PodRuns, ScriptEffect(r)
  PROVE  CommitsArrive'
<1> SUFFICES ASSUME Orphans' = {}, NEW q \in PodRuns
             PROVE  /\ pods'[q] = "running" /\ work'[q].at = "open"
                         => q \in github'.head \/ github'.head \subseteq github'.base
                    /\ work'[q].at \in {"report", "upload", "done"} => q \in github'.head
  BY DEF CommitsArrive
<1>1. Orphans = {}
  BY ScriptKeepsPods
<1>2. /\ pods[q] = "running" /\ work[q].at = "open" => q \in github.head \/ github.head \subseteq github.base
      /\ work[q].at \in {"report", "upload", "done"} => q \in github.head
  BY <1>1 DEF WorkerInv, CommitsArrive
<1>3. github.head \subseteq github'.head /\ github'.base = github.base
  BY OutcomeGithub
<1>4. pods[r] = "running"
  BY DEF ScriptEffect, ScriptFrame
<1>5. CASE q # r
  <2>1. work'[q] = work[q] /\ pods'[q] = pods[q]
    BY <1>5 DEF ScriptEffect, ScriptFrame
  <2>2. pods[q] # "running"
    BY <1>1, <1>4, <1>5, LiveIsAlone DEF Live
  <2> QED
    BY <1>2, <1>3, <2>1, <2>2
<1>6. CASE q = r
  <2>1. CASE work'[r].at = "open"
    <3>1. work[r].at = "push" /\ BranchPushed(r)
      BY <2>1 DEF ScriptEffect, Outcome
    <3>2. github'.head = work[r].tree
      BY <3>1, GithubRecord DEF BranchPushed, WorkerInv, WorkerTypeOK, Script
    <3> QED
      BY <1>3, <1>6, <2>1, <3>1, <3>2 DEF WorkerInv, BranchInOrder
  <2>2. CASE work'[r].at = "report"
    <3>1. work[r].at = "open" /\ ~ (github.head \subseteq github.base)
      BY <2>2 DEF ScriptEffect, Outcome
    <3> QED
      BY <1>2, <1>3, <1>4, <1>6, <2>2, <3>1
  <2>3. CASE work'[r].at \in {"upload", "done"}
    <3>1. work[r].at \in {"report", "upload"}
      BY <2>3, OutcomeRun
    <3> QED
      BY <1>2, <1>3, <1>6, <2>3, <3>1
  <2> QED
    BY <1>6, <2>1, <2>2, <2>3
<1> QED
  BY <1>5, <1>6

LEMMA ScriptInv ==
  ASSUME WorkerInv, NEW r \in PodRuns, ScriptStep(r)
  PROVE  WorkerInv'
<1>1. WorkerTypeOK
  BY DEF WorkerInv
<1>2. ScriptEffect(r)
  BY <1>1, ScriptStepEffect
<1> QED
  BY <1>1, <1>2, ScriptKeepsType, ScriptKeepsPods, ScriptKeepsBranch, ScriptKeepsCommits
  DEF WorkerInv

-----------------------------------------------------------------------------
(***************************************************************************)
(* The other steps leave what is checked out and pushed alone.             *)
(***************************************************************************)

\* Nothing but a death happens to a script, nothing but a merge or a close to
\* the pull request, and no orphan is lost sight of.
QuietOnGithub ==
  /\ github'.head = github.head /\ github'.pushed = github.pushed
  /\ github.base \subseteq github'.base
  /\ github.pr # "none" => github'.pr # "none"
  /\ \A r \in PodRuns :
       /\ work'[r].at = "dead" \/ (work'[r].at = work[r].at /\ work'[r].tree = work[r].tree)
       /\ pods'[r] = "running" => pods[r] = "running" \/ work'[r].at = "fetch"
  /\ Orphans \subseteq Orphans'

LEMMA QuietKeepsBranch ==
  ASSUME WorkerInv, QuietOnGithub,
         task'.state = "awaiting-review" => task.state = "awaiting-review" \/ github.pr # "none"
  PROVE  BranchInOrder' /\ CommitsArrive'
<1>1. BranchInOrder'
  <2>1. BranchInOrder
    BY DEF WorkerInv
  <2>2. ~ github'.pushed => github'.head = {}
    BY <2>1 DEF BranchInOrder, QuietOnGithub
  <2>3. task'.state = "awaiting-review" => github'.pr # "none"
    BY <2>1 DEF BranchInOrder, QuietOnGithub
  <2>4. ASSUME NEW r \in PodRuns
        PROVE  /\ work'[r].at \in {"claude", "commit"} => work'[r].tree \subseteq github'.base
               /\ work'[r].at = "push" => r \in work'[r].tree \/ work'[r].tree \subseteq github'.base
               /\ work'[r].at \in {"report", "upload", "done"} => github'.pr # "none"
    BY <2>1 DEF BranchInOrder, QuietOnGithub
  <2> QED
    BY <2>2, <2>3, <2>4 DEF BranchInOrder
<1>2. CommitsArrive'
  <2> SUFFICES ASSUME Orphans' = {}, NEW r \in PodRuns
               PROVE  /\ pods'[r] = "running" /\ work'[r].at = "open"
                           => r \in github'.head \/ github'.head \subseteq github'.base
                      /\ work'[r].at \in {"report", "upload", "done"} => r \in github'.head
    BY DEF CommitsArrive
  <2>1. Orphans = {}
    BY DEF QuietOnGithub
  <2> QED
    BY <2>1 DEF WorkerInv, CommitsArrive, QuietOnGithub
<1> QED
  BY <1>1, <1>2

\* Steps that leave scripts and GitHub alone altogether.
LEMMA FrameIsQuiet ==
  ASSUME WorkerInv, UNCHANGED <<work, github>>, Orphans \subseteq Orphans',
         \A r \in PodRuns : pods'[r] = "running" => pods[r] \in {"pending", "running"}
  PROVE  QuietOnGithub
<1>1. \A r \in PodRuns : pods[r] = "pending" => work[r].at = "fetch"
  BY DEF WorkerInv, ScriptsFollowPods
<1> QED
  BY <1>1 DEF QuietOnGithub

-----------------------------------------------------------------------------
(***************************************************************************)
(* Dispatch.                                                               *)
(***************************************************************************)
LEMMA StartDispatchEffect ==
  ASSUME WorkerTypeOK, StartDispatch
  PROVE  /\ dispatching.at = "idle"
         /\ dispatching' \in [at : {"idle", "secret", "pod", "record", "start"}, run : PodRuns]
         /\ dispatching'.at = "secret"
         /\ dispatching'.run \in PodRuns /\ pods[dispatching'.run] = "unspawned"
  BY DEF StartDispatch, Unspawned

LEMMA StartDispatchInv ==
  ASSUME WorkerInv, CommissionTask \/ RespawnTask
  PROVE  WorkerInv'
<1>1. WorkerTypeOK /\ StartDispatch
  BY DEF WorkerInv, CommissionTask, RespawnTask
<1>2. /\ dispatching.at = "idle" /\ dispatching'.at = "secret"
      /\ dispatching' \in [at : {"idle", "secret", "pod", "record", "start"}, run : PodRuns]
      /\ pods[ThisRun'] = "unspawned" /\ ThisRun' \in PodRuns
  BY <1>1, StartDispatchEffect DEF ThisRun
<1>3. /\ UNCHANGED <<clusterVars, work, github, records, dispatched, faults>>
      /\ task' \in TaskRow /\ task'.run = task.run
      /\ \/ task.state = "none" /\ task'.state = "queued"
         \/ task.state = "awaiting-review" /\ task'.state = "awaiting-review"
  BY <1>1 DEF CommissionTask, RespawnTask, TaskRow, WorkerTypeOK
<1>4. WorkerTypeOK'
  BY <1>1, <1>2, <1>3 DEF WorkerTypeOK, TaskRow, clusterVars
<1>5. ScriptsFollowPods' /\ DispatchInOrder' /\ OneCurrentRun'
  BY <1>2, <1>3
  DEF WorkerInv, ScriptsFollowPods, DispatchInOrder, OneCurrentRun, Live, clusterVars, ThisRun
<1>6. Orphans \subseteq Orphans'
  BY <1>2, <1>3 DEF Orphans, clusterVars, ThisRun
<1>7. QuietOnGithub
  BY <1>3, <1>6, FrameIsQuiet DEF clusterVars
<1> QED
  BY <1>3, <1>4, <1>5, <1>7, QuietKeepsBranch DEF WorkerInv

LEMMA GoOnEffect ==
  ASSUME WorkerTypeOK, NEW at \in {"idle", "pod", "record", "start"}, GoOn(at)
  PROVE  /\ dispatching' \in [at : {"idle", "secret", "pod", "record", "start"}, run : PodRuns]
         /\ dispatching'.at = at /\ dispatching'.run = dispatching.run
  BY DEF GoOn, WorkerTypeOK

LEMMA CreateSecretInv ==
  ASSUME WorkerInv, CreateSecret
  PROVE  WorkerInv'
<1>1. WorkerTypeOK /\ ThisRun \in PodRuns /\ dispatching.at = "secret"
  BY DEF WorkerInv, CreateSecret, WorkerTypeOK, ThisRun
<1>2. /\ UNCHANGED <<pods, removal, work, github, records, dispatched>>
      /\ Fault \/ NoFault
      /\ secrets' \subseteq PodRuns
  BY <1>1 DEF CreateSecret, WorkerTypeOK
<1>3. /\ dispatching' \in [at : {"idle", "secret", "pod", "record", "start"}, run : PodRuns]
      /\ dispatching'.at \in {"idle", "pod"} /\ ThisRun' = ThisRun
  BY <1>1, GoOnEffect DEF CreateSecret, GiveUp, ThisRun
<1>4. /\ task' \in TaskRow /\ task'.run = task.run
      /\ task'.state \in {task.state, "failed"}
  <2>1. CASE task' = task
    BY <1>1, <2>1 DEF WorkerTypeOK, TaskRow
  <2>2. CASE MoveTo("failed")
    BY <1>1, <2>2, MoveToEffect DEF TaskRow
  <2> QED
    BY <2>1, <2>2 DEF CreateSecret
<1>5. WorkerTypeOK'
  BY <1>1, <1>2, <1>3, <1>4, FaultsType DEF WorkerTypeOK, TaskRow
<1>6. ScriptsFollowPods' /\ DispatchInOrder' /\ OneCurrentRun'
  BY <1>1, <1>2, <1>3, <1>4
  DEF WorkerInv, ScriptsFollowPods, DispatchInOrder, OneCurrentRun, Live
<1>7. Orphans \subseteq Orphans'
  BY <1>1, <1>2, <1>3 DEF Orphans
<1>8. QuietOnGithub
  BY <1>2, <1>7, FrameIsQuiet
<1> QED
  BY <1>4, <1>5, <1>6, <1>8, QuietKeepsBranch DEF WorkerInv

LEMMA CreateWorkerPodInv ==
  ASSUME WorkerInv, CreateWorkerPod
  PROVE  WorkerInv'
<1>1. /\ WorkerTypeOK /\ ThisRun \in PodRuns /\ dispatching.at = "pod"
      /\ pods[ThisRun] = "unspawned" /\ ThisRun \notin dispatched
  BY DEF WorkerInv, CreateWorkerPod, WorkerTypeOK, ThisRun, DispatchInOrder
<1>2. /\ UNCHANGED <<removal, work, github, records, dispatched>>
      /\ Fault \/ NoFault
      /\ secrets' \subseteq PodRuns
  BY <1>1 DEF CreateWorkerPod, WorkerTypeOK
<1>3. /\ dispatching' \in [at : {"idle", "secret", "pod", "record", "start"}, run : PodRuns]
      /\ ThisRun' = ThisRun
      /\ \/ /\ dispatching'.at = "record"
            /\ pods' = [pods EXCEPT ![ThisRun] = "pending"]
         \/ /\ dispatching'.at = "idle"
            /\ pods' = [pods EXCEPT ![ThisRun] = "gone"]
  BY <1>1, GoOnEffect DEF CreateWorkerPod, GiveUp, ThisRun
<1>4. /\ task' \in TaskRow /\ task'.run = task.run
      /\ task'.state \in {task.state, "failed"}
  <2>1. CASE task' = task
    BY <1>1, <2>1 DEF WorkerTypeOK, TaskRow
  <2>2. CASE MoveTo("failed")
    BY <1>1, <2>2, MoveToEffect DEF TaskRow
  <2> QED
    BY <2>1, <2>2 DEF CreateWorkerPod
<1>5. /\ pods' \in [PodRuns -> PodStates]
      /\ \A q \in PodRuns \ {ThisRun} : pods'[q] = pods[q]
      /\ pods'[ThisRun] \in {"pending", "gone"}
      /\ dispatching'.at = "record" => pods'[ThisRun] = "pending"
  BY <1>1, <1>3 DEF WorkerTypeOK, PodStates
<1>6. dispatching'.at \in {"idle", "record"}
  BY <1>3
<1>7. WorkerTypeOK'
  BY <1>1, <1>2, <1>3, <1>4, <1>5, FaultsType DEF WorkerTypeOK, TaskRow, PodStates
<1>8. ScriptsFollowPods'
  BY <1>1, <1>2, <1>5 DEF WorkerInv, ScriptsFollowPods
<1>9. DispatchInOrder'
  BY <1>1, <1>2, <1>3, <1>4, <1>5, <1>6 DEF WorkerInv, WorkerTypeOK, DispatchInOrder
<1>10. OneCurrentRun'
  BY <1>1, <1>2, <1>4, <1>5, <1>6 DEF WorkerInv, WorkerTypeOK, OneCurrentRun, Live
<1>11. Orphans \subseteq Orphans'
  BY <1>1, <1>2, <1>3, <1>5, <1>6 DEF Orphans
<1>12. QuietOnGithub
  BY <1>2, <1>5, <1>11, FrameIsQuiet
<1> QED
  BY <1>4, <1>7, <1>8, <1>9, <1>10, <1>12, QuietKeepsBranch DEF WorkerInv

LEMMA RecordPodInv ==
  ASSUME WorkerInv, RecordPod \/ MinosDies
  PROVE  WorkerInv'
<1>1. WorkerTypeOK /\ ThisRun \in PodRuns /\ dispatching.at # "idle"
  BY DEF WorkerInv, RecordPod, MinosDies, WorkerTypeOK, ThisRun
<1>2. UNCHANGED <<clusterVars, work, github, records, dispatched>> /\ (Fault \/ NoFault)
  BY DEF RecordPod, MinosDies
<1>3. /\ dispatching' \in [at : {"idle", "secret", "pod", "record", "start"}, run : PodRuns]
      /\ ThisRun' = ThisRun
      /\ \/ dispatching'.at = "idle"
         \/ dispatching.at = "record" /\ dispatching'.at = "start" /\ task' = [task EXCEPT !.run = ThisRun]
  BY <1>1, GoOnEffect DEF RecordPod, MinosDies, GiveUp, ThisRun
<1>4. /\ task' \in TaskRow /\ task'.state = task.state
      /\ task' = [task EXCEPT !.run = ThisRun] => task'.run = ThisRun
  <2>1. CASE task' = task
    BY <1>1, <2>1 DEF WorkerTypeOK, TaskRow
  <2>2. CASE task' = [task EXCEPT !.run = ThisRun]
    BY <1>1, <2>2 DEF WorkerTypeOK, TaskRow
  <2> QED
    BY <2>1, <2>2 DEF RecordPod, MinosDies
<1>5. WorkerTypeOK'
  BY <1>1, <1>2, <1>3, <1>4, FaultsType DEF WorkerTypeOK, TaskRow, clusterVars
<1>6. ScriptsFollowPods' /\ DispatchInOrder' /\ OneCurrentRun'
  BY <1>1, <1>2, <1>3, <1>4
  DEF WorkerInv, ScriptsFollowPods, DispatchInOrder, OneCurrentRun, Live, clusterVars
<1>7. Orphans \subseteq Orphans'
  BY <1>1, <1>2, <1>3 DEF Orphans, clusterVars
<1>8. QuietOnGithub
  BY <1>2, <1>7, FrameIsQuiet DEF clusterVars
<1> QED
  BY <1>4, <1>5, <1>6, <1>8, QuietKeepsBranch DEF WorkerInv

LEMMA StartRunInv ==
  ASSUME WorkerInv, StartRun
  PROVE  WorkerInv'
<1>1. /\ WorkerTypeOK /\ ThisRun \in PodRuns /\ dispatching.at = "start"
      /\ task.state \notin {"none", "running"} /\ task.run = ThisRun /\ pods[ThisRun] # "unspawned"
  BY DEF WorkerInv, StartRun, WorkerTypeOK, ThisRun, DispatchInOrder
<1>2. UNCHANGED <<clusterVars, work, github, records>> /\ (Fault \/ NoFault)
  BY DEF StartRun
<1>3. /\ dispatching' \in [at : {"idle", "secret", "pod", "record", "start"}, run : PodRuns]
      /\ ThisRun' = ThisRun /\ dispatching'.at = "idle"
  BY <1>1, GoOnEffect DEF StartRun, GiveUp, ThisRun
<1>4. /\ task' \in TaskRow /\ task'.run = task.run
      /\ \/ task'.state = task.state /\ dispatched' = dispatched
         \/ task'.state = "running" /\ dispatched' = dispatched \cup {ThisRun}
  <2>1. CASE task' = task /\ dispatched' = dispatched
    BY <1>1, <2>1 DEF WorkerTypeOK, TaskRow
  <2>2. CASE /\ MoveTo("running")
             /\ dispatched' = IF task'.state = "running" THEN dispatched \cup {ThisRun} ELSE dispatched
    <3>1. /\ task' \in TaskRow /\ task'.run = task.run
          /\ task'.state = task.state \/ task'.state = "running"
      BY <1>1, <2>2, MoveToEffect DEF TaskRow
    <3> QED
      BY <1>1, <2>2, <3>1
  <2> QED
    BY <2>1, <2>2 DEF StartRun
<1>5. WorkerTypeOK'
  BY <1>1, <1>2, <1>3, <1>4, FaultsType DEF WorkerTypeOK, TaskRow, clusterVars
<1>6. ScriptsFollowPods'
  BY <1>2 DEF WorkerInv, ScriptsFollowPods, clusterVars
<1>7. DispatchInOrder'
  BY <1>1, <1>2, <1>3, <1>4 DEF WorkerInv, DispatchInOrder, clusterVars
<1>8. OneCurrentRun'
  <2>1. \A r \in dispatched : ~ Live(r)
    BY <1>1 DEF WorkerInv, OneCurrentRun
  <2> QED
    BY <1>1, <1>2, <1>3, <1>4, <2>1 DEF OneCurrentRun, Live, clusterVars
<1>9. Orphans \subseteq Orphans'
  BY <1>1, <1>2, <1>3, <1>4 DEF Orphans, clusterVars
<1>10. QuietOnGithub
  BY <1>2, <1>9, FrameIsQuiet DEF clusterVars
<1> QED
  BY <1>4, <1>5, <1>6, <1>7, <1>8, <1>10, QuietKeepsBranch DEF WorkerInv

-----------------------------------------------------------------------------
(***************************************************************************)
(* k3s.                                                                    *)
(***************************************************************************)
LEMMA PodRunningInv ==
  ASSUME WorkerInv, NEW r \in PodRuns, PodRunning(r)
  PROVE  WorkerInv'
<1>1. /\ WorkerTypeOK /\ pods[r] = "pending"
      /\ UNCHANGED <<task, dispatching, secrets, removal, work, github, records, dispatched, faults>>
      /\ pods' = [pods EXCEPT ![r] = "running"]
  BY DEF WorkerInv, PodRunning
<1>2. /\ pods' \in [PodRuns -> PodStates] /\ pods'[r] = "running"
      /\ \A q \in PodRuns \ {r} : pods'[q] = pods[q]
  BY <1>1 DEF WorkerTypeOK, PodStates
<1>3. ThisRun \in PodRuns /\ dispatched \subseteq PodRuns /\ ThisRun' = ThisRun
  BY <1>1 DEF WorkerTypeOK, ThisRun
<1>4. WorkerTypeOK'
  BY <1>1, <1>2 DEF WorkerTypeOK, PodStates
<1>5. ScriptsFollowPods' /\ DispatchInOrder' /\ OneCurrentRun'
  BY <1>1, <1>2, <1>3
  DEF WorkerInv, ScriptsFollowPods, DispatchInOrder, OneCurrentRun, Live
<1>6. Orphans \subseteq Orphans'
  BY <1>1, <1>2, <1>3 DEF Orphans
<1>7. QuietOnGithub
  BY <1>1, <1>2, <1>6, FrameIsQuiet
<1> QED
  BY <1>1, <1>4, <1>5, <1>7, QuietKeepsBranch DEF WorkerInv

LEMMA PodEvictedInv ==
  ASSUME WorkerInv, NEW r \in PodRuns, PodEvictedByNode(r)
  PROVE  WorkerInv'
<1>1. /\ WorkerTypeOK /\ pods[r] \in {"pending", "running"} /\ Fault /\ Exits(r, "call")
      /\ UNCHANGED <<task, dispatching, secrets, removal, github, records, dispatched>>
  BY DEF WorkerInv, PodEvictedByNode, Elsewhere
<1>2. /\ pods' \in [PodRuns -> PodStates] /\ pods'[r] = "failed"
      /\ work' \in [PodRuns -> Script] /\ work'[r].at = "dead"
      /\ \A q \in PodRuns \ {r} : pods'[q] = pods[q] /\ work'[q] = work[q]
  BY <1>1, ExitsEffect
<1>3. ThisRun \in PodRuns /\ dispatched \subseteq PodRuns /\ ThisRun' = ThisRun
  BY <1>1 DEF WorkerTypeOK, ThisRun
<1>4. WorkerTypeOK'
  BY <1>1, <1>2, FaultsType DEF WorkerTypeOK, PodStates
<1>5. ScriptsFollowPods' /\ DispatchInOrder' /\ OneCurrentRun'
  BY <1>1, <1>2, <1>3
  DEF WorkerInv, ScriptsFollowPods, DispatchInOrder, OneCurrentRun, Live
<1>6. Orphans \subseteq Orphans'
  BY <1>1, <1>2, <1>3 DEF Orphans
<1>7. QuietOnGithub
  BY <1>1, <1>2, <1>6 DEF QuietOnGithub
<1> QED
  BY <1>1, <1>4, <1>5, <1>7, QuietKeepsBranch DEF WorkerInv

LEMMA PodDeletedEffect ==
  ASSUME WorkerTypeOK, NEW r \in PodRuns, PodDeleted(r)
  PROVE  /\ pods' \in [PodRuns -> PodStates]
         /\ pods'[r] \in {pods[r], "gone"}
         /\ \A q \in PodRuns \ {r} : pods'[q] = pods[q]
         /\ Fault \/ NoFault
  BY DEF PodDeleted, WorkerTypeOK, PodStates

\* A pod that was dispatched may go, or stay; nothing else depends on it.
LEMMA PodGoesInv ==
  ASSUME WorkerInv, NEW r \in dispatched,
         pods' \in [PodRuns -> PodStates], pods'[r] \in {pods[r], "gone"},
         \A q \in PodRuns \ {r} : pods'[q] = pods[q],
         removal' \in [PodRuns -> {"none", "pod", "secret", "kill", "row"}],
         \A q \in PodRuns \ {r} : removal'[q] = removal[q],
         secrets' \subseteq PodRuns, Fault \/ NoFault,
         UNCHANGED <<task, dispatching, work, github, records, dispatched>>
  PROVE  WorkerInv'
<1>1. /\ WorkerTypeOK /\ r \in PodRuns /\ pods[r] # "unspawned"
      /\ ThisRun \in PodRuns /\ dispatched \subseteq PodRuns /\ ThisRun' = ThisRun
  BY DEF WorkerInv, WorkerTypeOK, DispatchInOrder, ThisRun
<1>2. WorkerTypeOK'
  BY <1>1, FaultsType DEF WorkerTypeOK, PodStates
<1>3. ScriptsFollowPods'
  BY <1>1 DEF WorkerInv, ScriptsFollowPods
<1>4. DispatchInOrder'
  BY <1>1 DEF WorkerInv, DispatchInOrder
<1>5. OneCurrentRun'
  BY <1>1 DEF WorkerInv, OneCurrentRun, Live
<1>6. Orphans \subseteq Orphans'
  BY <1>1 DEF Orphans
<1>7. QuietOnGithub
  BY <1>1, <1>6, FrameIsQuiet
<1> QED
  BY <1>2, <1>3, <1>4, <1>5, <1>7, QuietKeepsBranch DEF WorkerInv

LEMMA RemovalInv ==
  ASSUME WorkerInv, NEW r \in PodRuns,
         RemovePod(r) \/ RemoveSecret(r) \/ RunTerminated(r)
  PROVE  WorkerInv'
<1>1. /\ WorkerTypeOK
      /\ UNCHANGED <<task, dispatching, work, github, records, dispatched>>
  BY DEF WorkerInv, RemovePod, RemoveSecret, RunTerminated
<1>2. r \in dispatched
  <2>1. removal[r] # "none" \/ (task.state = "running" /\ task.run = r)
    BY DEF RemovePod, RemoveSecret, RunTerminated, CurrentRun
  <2> QED
    BY <2>1 DEF WorkerInv, DispatchInOrder, OneCurrentRun
<1>3. /\ removal' \in [PodRuns -> {"none", "pod", "secret", "kill", "row"}]
      /\ \A q \in PodRuns \ {r} : removal'[q] = removal[q]
  <2>1. PICK step \in {"none", "secret", "kill", "row"} : removal' = [removal EXCEPT ![r] = step]
    BY DEF RemovePod, RemoveSecret, RunTerminated
  <2> QED
    BY <1>1, <2>1 DEF WorkerTypeOK
<1>4. CASE PodDeleted(r) /\ secrets' = secrets
  <2>1. /\ pods' \in [PodRuns -> PodStates] /\ pods'[r] \in {pods[r], "gone"}
        /\ \A q \in PodRuns \ {r} : pods'[q] = pods[q]
        /\ Fault \/ NoFault
    BY <1>1, <1>4, PodDeletedEffect
  <2>2. secrets' \subseteq PodRuns
    BY <1>1, <1>4 DEF WorkerTypeOK
  <2> QED
    BY <1>1, <1>2, <1>3, <2>1, <2>2, PodGoesInv
<1>5. CASE RemoveSecret(r)
  <2>1. pods' = pods /\ secrets' \subseteq PodRuns /\ (Fault \/ NoFault)
    BY <1>1, <1>5 DEF RemoveSecret, WorkerTypeOK
  <2>2. pods' \in [PodRuns -> PodStates]
    BY <1>1, <2>1 DEF WorkerTypeOK, PodStates
  <2> QED
    BY <1>1, <1>2, <1>3, <2>1, <2>2, PodGoesInv
<1> QED
  BY <1>4, <1>5 DEF RemovePod, RunTerminated

-----------------------------------------------------------------------------
(***************************************************************************)
(* Argus, GitHub and time.                                                 *)
(***************************************************************************)

\* The state of the row may change to an end, or to awaiting review when the
\* run of the row has succeeded.
LEMMA RowMovesInv ==
  ASSUME WorkerInv, NEW state \in {"awaiting-review", "completed", "failed"},
         MoveTo(state) \/ task' = task,
         state = "awaiting-review" => task.state = "running" /\ pods[task.run] = "succeeded",
         QuietOnGithub, WorkerTypeOK', Fault \/ NoFault,
         UNCHANGED <<dispatching, pods, secrets, work, dispatched>>,
         \A r \in PodRuns : removal'[r] # "none" => r \in dispatched
  PROVE  WorkerInv'
<1>1. /\ WorkerTypeOK /\ dispatched \subseteq PodRuns /\ ThisRun' = ThisRun
      /\ task.run \in PodRuns \cup {0}
  BY DEF WorkerInv, WorkerTypeOK, ThisRun
<1>2. /\ task'.run = task.run
      /\ task'.state = task.state \/ (task'.state = state /\ task.state # "none")
  BY <1>1, MoveToEffect DEF LegalMove
<1>3. ScriptsFollowPods'
  BY DEF WorkerInv, ScriptsFollowPods
<1>4. DispatchInOrder'
  BY <1>1, <1>2 DEF WorkerInv, DispatchInOrder
<1>5. OneCurrentRun'
  BY <1>1, <1>2 DEF WorkerInv, OneCurrentRun, Live
<1>6. task'.state = "awaiting-review" => task.state = "awaiting-review" \/ github.pr # "none"
  <2>1. state = "awaiting-review" => task.run \in PodRuns /\ github.pr # "none"
    BY <1>1 DEF WorkerInv, OneCurrentRun, ScriptsFollowPods, BranchInOrder
  <2> QED
    BY <1>2, <2>1
<1> QED
  BY <1>3, <1>4, <1>5, <1>6, QuietKeepsBranch DEF WorkerInv

LEMMA MoveToType ==
  ASSUME WorkerTypeOK, NEW state \in {"awaiting-review", "completed", "failed"},
         MoveTo(state) \/ task' = task
  PROVE  task' \in TaskRow
  BY MoveToEffect DEF TaskRow, WorkerTypeOK

LEMMA JudgedInv ==
  ASSUME WorkerInv, NEW r \in PodRuns, RunJudged(r) \/ TerminatedRunFails(r)
  PROVE  WorkerInv'
<1>1. /\ WorkerTypeOK /\ ThisRun' = ThisRun
      /\ UNCHANGED <<dispatching, pods, secrets, work, github, records, dispatched, faults>>
  BY DEF WorkerInv, RunJudged, TerminatedRunFails, ThisRun
<1>2. PICK state \in {"awaiting-review", "failed"} :
        /\ MoveTo(state)
        /\ state = "awaiting-review" => task.state = "running" /\ pods[task.run] = "succeeded"
  BY DEF RunJudged, TerminatedRunFails, CurrentRun
<1>3. r \in dispatched
  BY DEF RunJudged, TerminatedRunFails, CurrentRun, WorkerInv, DispatchInOrder, OneCurrentRun
<1>4. /\ removal' \in [PodRuns -> {"none", "pod", "secret", "kill", "row"}]
      /\ \A q \in PodRuns \ {r} : removal'[q] = removal[q]
  BY <1>1 DEF RunJudged, TerminatedRunFails, WorkerTypeOK
<1>5. \A q \in PodRuns : removal'[q] # "none" => q \in dispatched
  BY <1>3, <1>4 DEF WorkerInv, DispatchInOrder
<1>6. Orphans' = Orphans
  BY <1>1 DEF Orphans
<1>7. QuietOnGithub
  BY <1>1, <1>6, FrameIsQuiet
<1>8. WorkerTypeOK'
  BY <1>1, <1>2, <1>4, MoveToType DEF WorkerTypeOK, TaskRow
<1> QED
  BY <1>1, <1>2, <1>5, <1>7, <1>8, RowMovesInv DEF NoFault

LEMMA PullRequestEndsInv ==
  ASSUME WorkerInv, PullRequestEnds
  PROVE  WorkerInv'
<1>1. /\ WorkerTypeOK /\ github.pr = "open" /\ ThisRun' = ThisRun
      /\ UNCHANGED <<dispatching, pods, secrets, removal, work, records, dispatched>>
      /\ Fault \/ NoFault
  BY DEF WorkerInv, PullRequestEnds, clusterVars, ThisRun
<1>2. PICK merged \in BOOLEAN :
        /\ github' = IF merged THEN [github EXCEPT !.pr = "merged", !.base = @ \cup github.head]
                               ELSE [github EXCEPT !.pr = "closed"]
        /\ MoveTo(IF merged THEN "completed" ELSE "failed") \/ task' = task
  BY DEF PullRequestEnds
<1>3. /\ github' \in [base : SUBSET PodRuns, head : SUBSET PodRuns, pushed : BOOLEAN,
                      pr : {"none", "open", "merged", "closed"}]
      /\ github'.head = github.head /\ github'.pushed = github.pushed
      /\ github.base \subseteq github'.base /\ github'.pr # "none"
  <2>1. github \in [base : SUBSET PodRuns, head : SUBSET PodRuns, pushed : BOOLEAN,
                    pr : {"none", "open", "merged", "closed"}]
    BY <1>1 DEF WorkerTypeOK
  <2>2. CASE merged
    <3>1. github' = [github EXCEPT !.pr = "merged", !.base = github.base \cup github.head]
      BY <1>2, <2>2
    <3> QED
      BY <2>1, <3>1
  <2>3. CASE ~ merged
    <3>1. github' = [github EXCEPT !.pr = "closed"]
      BY <1>2, <2>3
    <3> QED
      BY <2>1, <3>1
  <2> QED
    BY <2>2, <2>3
<1>4. PICK state \in {"completed", "failed"} : MoveTo(state) \/ task' = task
  <2>1. CASE merged
    BY <1>2, <2>1
  <2>2. CASE ~ merged
    BY <1>2, <2>2
  <2> QED
    BY <2>1, <2>2
<1>5. WorkerTypeOK'
  BY <1>1, <1>3, <1>4, MoveToType, FaultsType DEF WorkerTypeOK, TaskRow
<1>6. Orphans' = Orphans
  BY <1>1 DEF Orphans
<1>7. QuietOnGithub
  BY <1>1, <1>3, <1>6 DEF QuietOnGithub
<1>8. \A r \in PodRuns : removal'[r] # "none" => r \in dispatched
  BY <1>1 DEF WorkerInv, DispatchInOrder
<1> QED
  BY <1>1, <1>4, <1>5, <1>7, <1>8, RowMovesInv

LEMMA GrownScript ==
  ASSUME NEW script \in Script
  PROVE  /\ Grown(script) \in Script
         /\ Grown(script).at = script.at /\ Grown(script).tree = script.tree
<1> DEFINE age       == IF script.age < TokenLife THEN script.age + 1 ELSE script.age
           githubAge == IF script.githubAge < GithubLife /\ script.at \notin {"fetch", "mint"}
                        THEN script.githubAge + 1 ELSE script.githubAge
           older     == [script EXCEPT !.age = age]
<1>1. TokenLife \in Nat /\ GithubLife \in Nat
  BY TokenLifeAssumption, GithubLifeAssumption
<1>2. age \in 0 .. TokenLife /\ githubAge \in 0 .. GithubLife
  <2>1. script.age \in 0 .. TokenLife /\ script.githubAge \in 0 .. GithubLife
    BY DEF Script
  <2>2. age \in 0 .. TokenLife
    BY <1>1, <2>1
  <2>3. githubAge \in 0 .. GithubLife
    BY <1>1, <2>1
  <2> QED
    BY <2>2, <2>3
<1>3. Grown(script) = [older EXCEPT !.githubAge = githubAge]
  BY DEF Grown
<1> HIDE DEF age, githubAge
<1>4. older \in Script /\ older.at = script.at /\ older.tree = script.tree
  BY <1>2 DEF Script
<1> HIDE DEF older
<1> QED
  BY <1>2, <1>3, <1>4 DEF Script

LEMMA TokensAgeInv ==
  ASSUME WorkerInv, TokensAge
  PROVE  WorkerInv'
<1>1. /\ WorkerTypeOK /\ ThisRun' = ThisRun
      /\ UNCHANGED <<task, dispatching, pods, secrets, removal, github, records, dispatched, faults>>
      /\ \A r \in PodRuns : work[r] \in Script
  BY DEF WorkerInv, WorkerTypeOK, TokensAge, clusterVars, ThisRun
<1>2. ASSUME NEW r \in PodRuns
      PROVE  work'[r] \in Script /\ work'[r].at = work[r].at /\ work'[r].tree = work[r].tree
  <2>1. work'[r] = Grown(work[r]) \/ work'[r] = work[r]
    BY DEF TokensAge
  <2> QED
    BY <1>1, <2>1, GrownScript
<1>3. work' \in [PodRuns -> Script]
  BY <1>2 DEF TokensAge
<1>4. WorkerTypeOK'
  BY <1>1, <1>3 DEF WorkerTypeOK
<1>5. ScriptsFollowPods' /\ DispatchInOrder' /\ OneCurrentRun'
  BY <1>1, <1>2
  DEF WorkerInv, ScriptsFollowPods, DispatchInOrder, OneCurrentRun, Live
<1>6. Orphans' = Orphans
  BY <1>1 DEF Orphans
<1>7. QuietOnGithub
  BY <1>1, <1>2, <1>6 DEF QuietOnGithub
<1> QED
  BY <1>1, <1>4, <1>5, <1>7, QuietKeepsBranch DEF WorkerInv

-----------------------------------------------------------------------------
LEMMA WorkerInitInv == WorkerInit => WorkerInv
<1> SUFFICES ASSUME WorkerInit PROVE WorkerInv
  OBVIOUS
<1>1. /\ task.state = "none" /\ task.run = 0 /\ dispatching.at = "idle"
      /\ dispatched = {} /\ github.head = {} /\ secrets = {}
      /\ \A r \in PodRuns : /\ pods[r] = "unspawned" /\ removal[r] = "none"
                            /\ work[r].at = "fetch"
  BY DEF WorkerInit, NewScript
<1>2. WorkerTypeOK
  <2>1. 1 \in PodRuns /\ MaxFaults \in 0 .. MaxFaults
    BY MaxPodsAssumption, MaxFaultsAssumption DEF PodRuns
  <2> QED
    BY <2>1, NewScriptType DEF WorkerInit, WorkerTypeOK
<1> QED
  BY <1>1, <1>2
  DEF WorkerInv, ScriptsFollowPods, DispatchInOrder, OneCurrentRun, CommitsArrive, BranchInOrder

LEMMA WorkerStepInv == WorkerInv /\ [WorkerNext]_workerVars => WorkerInv'
<1> SUFFICES ASSUME WorkerInv, [WorkerNext]_workerVars PROVE WorkerInv'
  OBVIOUS
<1>1. CASE UNCHANGED workerVars
  BY <1>1
  DEF workerVars, WorkerInv, WorkerTypeOK, ScriptsFollowPods, DispatchInOrder, OneCurrentRun,
      CommitsArrive, BranchInOrder, Live, Orphans, ThisRun
<1>2. CASE DispatchStep
  BY <1>2, StartDispatchInv, CreateSecretInv, CreateWorkerPodInv, RecordPodInv, StartRunInv
  DEF DispatchStep
<1>3. ASSUME NEW r \in PodRuns,
             \/ ScriptStep(r)
             \/ PodRunning(r) \/ PodEvictedByNode(r) \/ RemovePod(r) \/ RemoveSecret(r)
             \/ RunJudged(r) \/ RunTerminated(r) \/ TerminatedRunFails(r)
      PROVE  WorkerInv'
  BY <1>3, ScriptInv, PodRunningInv, PodEvictedInv, RemovalInv, JudgedInv
<1> QED
  BY <1>1, <1>2, <1>3, PullRequestEndsInv, TokensAgeInv DEF WorkerNext

LEMMA WorkerInvariant == WorkerSpec => []WorkerInv
  BY WorkerInitInv, WorkerStepInv, PTL DEF WorkerSpec

-----------------------------------------------------------------------------
(***************************************************************************)
(* Rows, pods, Secrets, scripts and records stay well formed.              *)
(***************************************************************************)
THEOREM WorkerTypeCorrect == WorkerSpec => []WorkerTypeOK
<1>1. WorkerInv => WorkerTypeOK
  BY DEF WorkerInv
<1> QED
  BY <1>1, WorkerInvariant, PTL

(***************************************************************************)
(* Exit 0 of entrypoint.sh means a pull request, through any number of     *)
(* runs and failures, and with the run's own commit in it unless a pod was *)
(* orphaned.                                                               *)
(***************************************************************************)
THEOREM RunsThatSucceedHavePullRequests == WorkerSpec => []SuccessMeansPullRequest
<1>1. WorkerInv => SuccessMeansPullRequest
  BY DEF WorkerInv, BranchInOrder, CommitsArrive, SuccessMeansPullRequest
<1> QED
  BY <1>1, WorkerInvariant, PTL

(***************************************************************************)
(* A record of a dispatched run is stored for that run (api.go takes the   *)
(* run from the row, not from the caller): by then the row names no other. *)
(***************************************************************************)
THEOREM RecordsGoToTheirRun == WorkerSpec => RecordsNameTheirRun
<1>1. ASSUME WorkerInv, [WorkerNext]_workerVars, NEW rec \in records' \ records, rec.by \in dispatched
      PROVE  rec.run = rec.by
  <2>1. PICK r \in PodRuns : UploadMemory(r)
    BY <1>1
    DEF WorkerNext, DispatchStep, CommissionTask, RespawnTask, CreateSecret, CreateWorkerPod,
        RecordPod, StartRun, MinosDies, ScriptStep, FetchCredentials, MintGithubToken, Clone,
        RunClaude, CommitChanges, Push, OpenPullRequest, ReportPullRequest,
        PodRunning, PodEvictedByNode, Elsewhere, RemovePod, RemoveSecret,
        RunJudged, RunTerminated, TerminatedRunFails, PullRequestEnds, TokensAge, workerVars
  <2>2. pods[r] = "running" /\ rec = [run |-> task.run, by |-> r]
    BY <1>1, <2>1 DEF UploadMemory, At, ReportMemory, StoreRun
  <2>3. task.run = r
    BY <1>1, <2>2 DEF WorkerInv, OneCurrentRun, Live
  <2> QED
    BY <2>2, <2>3
<1>2. WorkerInv /\ [WorkerNext]_workerVars
        => [\A rec \in records' \ records : rec.by \in dispatched => rec.run = rec.by]_workerVars
  BY <1>1
<1> QED
  BY <1>2, WorkerInvariant, PTL DEF WorkerSpec, RecordsNameTheirRun

-----------------------------------------------------------------------------
(***************************************************************************)
(* Secrets.  A pod that is made has its Secret; it is taken away only when *)
(* its run is judged or terminated (SecretsKept).  As long as nothing has  *)
(* failed, where the deletion of a run stands says which of the two        *)
(* objects is still there (Tidy).                                          *)
(***************************************************************************)
Ended == task.state \in {"completed", "failed"}

SecretsKept ==
  /\ dispatching.at = "pod" => ThisRun \in secrets
  /\ task.state = "none" => dispatched = {}
  /\ \A r \in PodRuns :
       /\ removal[r] = "pod" => pods[r] \in {"succeeded", "failed"}
       /\ removal[r] = "secret" => pods[r] \in {"succeeded", "failed", "gone"}
       /\ pods[r] = "pending" /\ r \notin secrets => removal[r] # "none" \/ Ended

SecretFirst(r) == dispatching.at = "pod" /\ r = ThisRun

Tidy(r) ==
  /\ removal[r] \in {"none", "pod"} =>
       (r \in secrets <=> pods[r] \notin {"unspawned", "gone"} \/ SecretFirst(r))
  /\ removal[r] \in {"secret", "kill"} => r \in secrets /\ pods[r] = "gone"
  /\ removal[r] = "row" => r \notin secrets /\ pods[r] = "gone"

AllTidy == faults = MaxFaults => \A r \in PodRuns : Tidy(r)

SecretInv == WorkerInv /\ SecretsKept /\ AllTidy

\* Once there was a fault, the count of faults never gets back to its bound.
LEMMA FaultsOnlyFall ==
  ASSUME WorkerTypeOK, Fault \/ NoFault, faults' = MaxFaults
  PROVE  faults = MaxFaults /\ NoFault /\ ~ Fault
  BY MaxFaultsAssumption DEF WorkerTypeOK, Fault, NoFault

\* The state of the row under a move of somebody else than dispatch.
LEMMA MoveToEnds ==
  ASSUME WorkerTypeOK, NEW state \in {"running", "awaiting-review", "completed", "failed"}, MoveTo(state)
  PROVE  /\ Ended => task'.state = task.state
         /\ task'.state = "none" <=> task.state = "none"
         /\ task.state # "none" /\ state \in {"completed", "failed"} =>
              Ended' \/ (state = "completed" /\ task.state = "queued")
  BY MoveToEffect DEF MoveTo, LegalMove, Ended, WorkerTypeOK

\* Steps that leave the Secrets, the deletions and the dispatch alone, and
\* move pods only among the states in which they have a Secret.
LEMMA PodsMoveOn ==
  ASSUME SecretInv, Fault \/ NoFault,
         UNCHANGED <<secrets, removal, dispatching, dispatched>>,
         task'.state = "none" => task.state = "none",
         Ended => Ended',
         \A r \in PodRuns :
           \/ pods'[r] = pods[r]
           \/ /\ pods[r] \in {"pending", "running"}
              /\ pods'[r] \in {"running", "succeeded", "failed"}
  PROVE  SecretsKept' /\ AllTidy'
<1>1. WorkerTypeOK /\ ThisRun' = ThisRun
  BY DEF SecretInv, WorkerInv, ThisRun
<1>2. SecretsKept'
  BY <1>1 DEF SecretInv, SecretsKept
<1>3. AllTidy'
  <2> SUFFICES ASSUME faults' = MaxFaults, NEW r \in PodRuns PROVE Tidy(r)'
    BY DEF AllTidy
  <2>1. Tidy(r)
    BY <1>1, FaultsOnlyFall DEF SecretInv, AllTidy
  <2> QED
    BY <1>1, <2>1 DEF Tidy, SecretFirst
<1> QED
  BY <1>2, <1>3

LEMMA ScriptSecrets ==
  ASSUME SecretInv, NEW r \in PodRuns, ScriptStep(r)
  PROVE  SecretsKept' /\ AllTidy'
<1>1. WorkerTypeOK
  BY DEF SecretInv, WorkerInv
<1>2. ScriptEffect(r)
  BY <1>1, ScriptStepEffect
<1>3. Fault \/ NoFault
  BY Zenon DEF ScriptStep, FetchCredentials, MintGithubToken, Clone, RunClaude, CommitChanges, Asks,
               Push, OpenPullRequest, ReportPullRequest, UploadMemory
<1>4. \A q \in PodRuns : \/ pods'[q] = pods[q]
                         \/ pods[q] = "running" /\ pods'[q] \in {"succeeded", "failed"}
  BY <1>2 DEF ScriptEffect, ScriptFrame
<1> QED
  BY <1>2, <1>3, <1>4, PodsMoveOn DEF ScriptEffect, Ended

\* Steps of k3s, of the clock, and of GitHub.
LEMMA WorldSecrets ==
  ASSUME SecretInv,
         \/ \E r \in PodRuns : PodRunning(r) \/ PodEvictedByNode(r)
         \/ PullRequestEnds
         \/ TokensAge
         \/ UNCHANGED workerVars
  PROVE  SecretsKept' /\ AllTidy'
<1>1. WorkerTypeOK
  BY DEF SecretInv, WorkerInv
<1>2. ASSUME NEW r \in PodRuns, PodRunning(r) \/ PodEvictedByNode(r)
      PROVE  SecretsKept' /\ AllTidy'
  <2>1. \A q \in PodRuns : \/ pods'[q] = pods[q]
                           \/ /\ pods[q] \in {"pending", "running"}
                              /\ pods'[q] \in {"running", "succeeded", "failed"}
    BY <1>1, <1>2, ExitsEffect DEF PodRunning, PodEvictedByNode, WorkerTypeOK
  <2> QED
    BY <1>2, <2>1, PodsMoveOn DEF PodRunning, PodEvictedByNode, Elsewhere, NoFault, Ended
<1>3. CASE PullRequestEnds
  <2>1. PICK state \in {"completed", "failed"} : MoveTo(state) \/ task' = task
    BY <1>3 DEF PullRequestEnds
  <2>2. (Ended => Ended') /\ (task'.state = "none" => task.state = "none")
    BY <1>1, <2>1, MoveToEnds DEF Ended
  <2> QED
    BY <1>3, <2>2, PodsMoveOn DEF PullRequestEnds, clusterVars
<1>4. CASE TokensAge \/ UNCHANGED workerVars
  BY <1>4, PodsMoveOn DEF TokensAge, workerVars, clusterVars, NoFault, Ended
<1> QED
  BY <1>2, <1>3, <1>4

\* Steps of dispatch.  The run at hand has neither pod nor Secret to begin
\* with, then a Secret, then both.
LEMMA DispatchSecrets ==
  ASSUME SecretInv, DispatchStep
  PROVE  SecretsKept' /\ AllTidy'
<1>1. /\ WorkerTypeOK /\ ThisRun \in PodRuns /\ secrets \subseteq PodRuns
      /\ \A r \in PodRuns : removal[r] # "none" => r \in dispatched /\ pods[r] # "unspawned"
      /\ dispatching.at \in {"secret", "pod"} => pods[ThisRun] = "unspawned"
  BY DEF SecretInv, WorkerInv, DispatchInOrder, WorkerTypeOK, ThisRun
<1>2. CASE CommissionTask \/ RespawnTask
  <2>1. /\ UNCHANGED <<pods, secrets, removal, dispatched, faults>>
        /\ task.state # "none" => task' = task
        /\ task'.state # "none"
    BY <1>1, <1>2 DEF CommissionTask, RespawnTask, clusterVars, WorkerTypeOK
  <2>2. dispatching.at = "idle" /\ dispatching'.at = "secret"
    BY <1>1, <1>2, StartDispatchEffect DEF CommissionTask, RespawnTask
  <2>3. SecretsKept'
    BY <1>1, <2>1, <2>2 DEF SecretInv, SecretsKept, Ended
  <2>4. AllTidy'
    BY <2>1, <2>2 DEF SecretInv, AllTidy, Tidy, SecretFirst
  <2> QED
    BY <2>3, <2>4
<1>3. CASE CreateSecret
  <2>1. /\ UNCHANGED <<pods, removal, dispatched>> /\ ThisRun' = ThisRun
        /\ dispatching.at = "secret"
    BY <1>1, <1>3, GoOnEffect DEF CreateSecret, GiveUp, ThisRun
  <2>2. \/ /\ NoFault /\ secrets' = secrets \cup {ThisRun} /\ dispatching'.at = "pod" /\ task' = task
        \/ Fault /\ secrets' = secrets /\ dispatching'.at = "idle" /\ MoveTo("failed")
    BY <1>1, <1>3, GoOnEffect DEF CreateSecret, GiveUp
  <2>3. Ended => Ended'
    BY <1>1, <2>2, MoveToEnds DEF Ended
  <2>4. task'.state = "none" => task.state = "none"
    BY <1>1, <2>2, MoveToEnds
  <2>5. SecretsKept'
    BY <1>1, <2>1, <2>2, <2>3, <2>4 DEF SecretInv, SecretsKept
  <2>6. AllTidy'
    <3> SUFFICES ASSUME faults' = MaxFaults, NEW r \in PodRuns PROVE Tidy(r)'
      BY DEF AllTidy
    <3>1. Tidy(r) /\ ~ Fault
      BY <1>1, <2>2, FaultsOnlyFall DEF SecretInv, AllTidy
    <3> QED
      BY <1>1, <2>1, <2>2, <3>1 DEF Tidy, SecretFirst
  <2> QED
    BY <2>5, <2>6
<1>4. CASE CreateWorkerPod
  <2>1. UNCHANGED <<removal, dispatched>> /\ ThisRun' = ThisRun /\ dispatching.at = "pod"
    BY <1>1, <1>4, GoOnEffect DEF CreateWorkerPod, GiveUp, ThisRun
  <2>2. \/ /\ NoFault /\ pods' = [pods EXCEPT ![ThisRun] = "pending"]
           /\ dispatching'.at = "record" /\ UNCHANGED <<task, secrets>>
        \/ /\ Fault /\ pods' = [pods EXCEPT ![ThisRun] = "gone"]
           /\ dispatching'.at = "idle" /\ MoveTo("failed")
           /\ secrets' \in {secrets, secrets \ {ThisRun}}
    BY <1>1, <1>4, GoOnEffect DEF CreateWorkerPod, GiveUp
  <2>3. /\ Ended => Ended'
        /\ task'.state = "none" => task.state = "none"
    BY <1>1, <2>2, MoveToEnds DEF Ended
  <2>4. pods'[ThisRun] \in {"pending", "gone"} /\ \A r \in PodRuns \ {ThisRun} : pods'[r] = pods[r]
    BY <1>1, <2>2 DEF WorkerTypeOK
  <2>5. SecretsKept'
    <3>1. removal[ThisRun] = "none" /\ ThisRun \in secrets
      BY <1>1, <2>1 DEF SecretInv, SecretsKept
    <3>2. pods'[ThisRun] = "pending" => ThisRun \in secrets'
      BY <1>1, <2>2, <3>1 DEF WorkerTypeOK
    <3> QED
      BY <1>1, <2>1, <2>2, <2>3, <2>4, <3>1, <3>2 DEF SecretInv, SecretsKept
  <2>6. AllTidy'
    <3> SUFFICES ASSUME faults' = MaxFaults, NEW r \in PodRuns PROVE Tidy(r)'
      BY DEF AllTidy
    <3>1. Tidy(r) /\ ~ Fault /\ ThisRun \in secrets
      BY <1>1, <2>1, <2>2, FaultsOnlyFall DEF SecretInv, AllTidy, SecretsKept
    <3>2. pods'[ThisRun] = "pending"
      BY <1>1, <2>2, <3>1 DEF WorkerTypeOK
    <3> QED
      BY <1>1, <2>1, <2>2, <2>4, <3>1, <3>2 DEF Tidy, SecretFirst
  <2> QED
    BY <2>5, <2>6
<1>5. CASE RecordPod \/ StartRun \/ MinosDies
  <2>1. /\ UNCHANGED <<pods, secrets, removal>> /\ ThisRun' = ThisRun /\ (Fault \/ NoFault)
        /\ dispatching'.at \in {"idle", "start"}
        /\ dispatching.at = "pod" => Fault
    BY <1>1, <1>5, GoOnEffect DEF RecordPod, StartRun, MinosDies, GiveUp, ThisRun, clusterVars
  <2>2. /\ Ended => Ended'
        /\ task'.state = "none" => task.state = "none"
        /\ dispatched' = dispatched \/ task'.state = "running"
    <3>1. CASE task' = task /\ dispatched' = dispatched
      BY <3>1 DEF Ended
    <3>2. CASE RecordPod /\ task' = [task EXCEPT !.run = ThisRun]
      BY <1>1, <3>2 DEF RecordPod, Ended, WorkerTypeOK
    <3>3. CASE StartRun /\ MoveTo("running")
      BY <1>1, <3>3, MoveToEnds DEF StartRun, Ended
    <3> QED
      BY <1>5, <3>1, <3>2, <3>3 DEF RecordPod, StartRun, MinosDies
  <2>3. SecretsKept'
    BY <1>1, <2>1, <2>2 DEF SecretInv, SecretsKept
  <2>4. AllTidy'
    <3> SUFFICES ASSUME faults' = MaxFaults, NEW r \in PodRuns PROVE Tidy(r)'
      BY DEF AllTidy
    <3>1. Tidy(r) /\ ~ Fault
      BY <1>1, <2>1, FaultsOnlyFall DEF SecretInv, AllTidy
    <3> QED
      BY <1>1, <2>1, <3>1 DEF Tidy, SecretFirst
  <2> QED
    BY <2>3, <2>4
<1> QED
  BY <1>2, <1>3, <1>4, <1>5 DEF DispatchStep

\* Steps of Argus.  Each moves the deletion of its run one place on.
LEMMA DeletionSecrets ==
  ASSUME SecretInv, NEW r \in PodRuns,
         \/ RemovePod(r) \/ RemoveSecret(r)
         \/ RunJudged(r) \/ RunTerminated(r) \/ TerminatedRunFails(r)
  PROVE  SecretsKept' /\ AllTidy'
<1>1. /\ WorkerTypeOK /\ secrets \subseteq PodRuns
      /\ UNCHANGED <<dispatching, dispatched>> /\ ThisRun' = ThisRun
      /\ \A q \in PodRuns : q \in dispatched => pods[q] # "unspawned"
      /\ dispatching.at = "pod" => pods[ThisRun] = "unspawned"
      /\ Fault \/ NoFault
  BY DEF SecretInv, WorkerInv, WorkerTypeOK, DispatchInOrder, ThisRun, RemovePod, PodDeleted,
         RemoveSecret, RunJudged, RunTerminated, TerminatedRunFails, NoFault
<1>2. r \in dispatched
  BY DEF SecretInv, WorkerInv, DispatchInOrder, OneCurrentRun,
         RemovePod, RemoveSecret, RunJudged, RunTerminated, TerminatedRunFails, CurrentRun
<1>3. /\ \A q \in PodRuns \ {r} : pods'[q] = pods[q] /\ removal'[q] = removal[q]
      /\ \A q \in PodRuns \ {r} : q \in secrets' <=> q \in secrets
  BY <1>1 DEF RemovePod, PodDeleted, RemoveSecret, RunJudged, RunTerminated, TerminatedRunFails,
              WorkerTypeOK
<1>4. \/ /\ removal[r] = "pod" /\ removal'[r] = "secret" /\ UNCHANGED <<task, secrets>>
         /\ (NoFault /\ pods'[r] = "gone") \/ (Fault /\ pods' = pods)
      \/ /\ removal[r] = "secret" /\ removal'[r] = "none" /\ UNCHANGED <<task, pods>>
         /\ (NoFault /\ r \notin secrets') \/ (Fault /\ secrets' = secrets)
      \/ /\ removal[r] = "kill" /\ removal'[r] = "row" /\ UNCHANGED <<task, pods>>
         /\ (NoFault /\ r \notin secrets') \/ (Fault /\ secrets' = secrets)
      \/ /\ removal[r] = "none" /\ removal'[r] = "pod" /\ UNCHANGED <<pods, secrets>>
         /\ pods[r] \in {"succeeded", "failed"}
         /\ task.state = "running" /\ \E state \in {"awaiting-review", "failed"} : MoveTo(state)
      \/ /\ removal[r] = "none" /\ removal'[r] = "kill" /\ UNCHANGED <<task, secrets>>
         /\ pods[r] \in {"pending", "running"}
         /\ (NoFault /\ pods'[r] = "gone") \/ (Fault /\ pods' = pods)
      \/ /\ removal[r] = "row" /\ removal'[r] = "none" /\ UNCHANGED <<pods, secrets>>
         /\ MoveTo("failed")
  BY <1>1 DEF RemovePod, PodDeleted, RemoveSecret, RunJudged, RunTerminated, TerminatedRunFails,
              CurrentRun, WorkerTypeOK
<1>5. task.state # "none"
  BY <1>2 DEF SecretInv, SecretsKept
<1>6. /\ Ended => Ended'
      /\ task'.state # "none"
      /\ removal[r] = "row" => Ended'
  BY <1>1, <1>4, <1>5, MoveToEnds DEF Ended
<1>7. SecretsKept'
  <2>1. dispatching.at = "pod" => ThisRun \in secrets'
    <3> SUFFICES ASSUME dispatching.at = "pod" PROVE ThisRun \in secrets'
      OBVIOUS
    <3>1. ThisRun \in secrets /\ ThisRun \in PodRuns
      BY <1>1 DEF SecretInv, SecretsKept
    <3>2. ThisRun # r
      BY <1>1, <1>2
    <3> QED
      BY <1>3, <3>1, <3>2
  <2>2. ASSUME NEW q \in PodRuns
        PROVE  /\ removal'[q] = "pod" => pods'[q] \in {"succeeded", "failed"}
               /\ removal'[q] = "secret" => pods'[q] \in {"succeeded", "failed", "gone"}
               /\ pods'[q] = "pending" /\ q \notin secrets' => removal'[q] # "none" \/ Ended'
    <3>1. /\ removal[q] = "pod" => pods[q] \in {"succeeded", "failed"}
          /\ removal[q] = "secret" => pods[q] \in {"succeeded", "failed", "gone"}
          /\ pods[q] = "pending" /\ q \notin secrets => removal[q] # "none" \/ Ended
      BY DEF SecretInv, SecretsKept, Ended
    <3>2. CASE q # r
      BY <1>3, <1>6, <3>1, <3>2
    <3>3. CASE q = r
      BY <1>4, <1>6, <3>1, <3>3
    <3> QED
      BY <3>2, <3>3
  <2> QED
    BY <1>1, <1>6, <2>1, <2>2 DEF SecretsKept, Ended
<1>8. AllTidy'
  <2> SUFFICES ASSUME faults' = MaxFaults, NEW q \in PodRuns PROVE Tidy(q)'
    BY DEF AllTidy
  <2>1. Tidy(q) /\ Tidy(r) /\ ~ Fault
    BY <1>1, FaultsOnlyFall DEF SecretInv, AllTidy
  <2>2. CASE q # r
    BY <1>1, <1>3, <2>1, <2>2 DEF Tidy, SecretFirst
  <2>3. CASE q = r
    BY <1>1, <1>2, <1>4, <2>1, <2>3 DEF Tidy, SecretFirst, SecretInv, SecretsKept
  <2> QED
    BY <2>2, <2>3
<1> QED
  BY <1>7, <1>8

LEMMA SecretStepInv == SecretInv /\ [WorkerNext]_workerVars => SecretInv'
<1> SUFFICES ASSUME SecretInv, [WorkerNext]_workerVars PROVE SecretInv'
  OBVIOUS
<1>1. WorkerInv'
  BY WorkerStepInv DEF SecretInv
<1>2. SecretsKept' /\ AllTidy'
  BY DispatchSecrets, ScriptSecrets, WorldSecrets, DeletionSecrets DEF WorkerNext
<1> QED
  BY <1>1, <1>2 DEF SecretInv

LEMMA SecretInitInv == WorkerInit => SecretInv
<1> SUFFICES ASSUME WorkerInit PROVE SecretInv
  OBVIOUS
<1>1. /\ dispatching.at = "idle" /\ dispatched = {} /\ secrets = {}
      /\ \A r \in PodRuns : pods[r] = "unspawned" /\ removal[r] = "none"
  BY DEF WorkerInit
<1> QED
  BY <1>1, WorkerInitInv DEF SecretInv, SecretsKept, AllTidy, Tidy, SecretFirst

(***************************************************************************)
(* No pod waits for a Secret that will not come, through any faults, and   *)
(* without faults a Secret is there exactly while its pod is: SpawnPod and *)
(* DeletePod of the dispatcher, and Argus between them.                    *)
(***************************************************************************)
THEOREM PodsHaveTheirSecrets == WorkerSpec => []SecretsFollowPods
<1>1. SecretInv => SecretsFollowPods
  BY DEF SecretInv, SecretsKept, AllTidy, Tidy, SecretFirst, Ended, SecretsFollowPods
<1>2. WorkerSpec => []SecretInv
  BY SecretInitInv, SecretStepInv, PTL DEF WorkerSpec
<1> QED
  BY <1>1, <1>2, PTL

-----------------------------------------------------------------------------
(***************************************************************************)
(* The first run.  Until its pod is over it is alone: no other pod was     *)
(* made, nothing but itself has touched the branch, and there is no pull   *)
(* request before the one it opens.                                        *)
(***************************************************************************)
FirstOver == pods[1] \in {"succeeded", "failed", "gone"}

BeforePush == {"fetch", "mint", "clone", "claude", "commit", "push"}

FirstAlone ==
  ~ FirstOver =>
    /\ task.state # "awaiting-review"
    /\ dispatching.at # "idle" => ThisRun = 1
    /\ \A r \in PodRuns \ {1} : pods[r] = "unspawned"
    /\ work[1].at \in BeforePush => ~ github.pushed
    /\ work[1].at \in BeforePush \cup {"open"} => github.pr = "none"

NothingBefore == task.state = "none" => pods[1] = "unspawned" /\ secrets = {}

FirstInv == WorkerInv /\ FirstAlone /\ NothingBefore /\ FirstRunLands

\* The project grants the two endpoints that the script calls.
GrantsScript == {<<"github", "clone">>, <<"apollo", "messages">>} \subseteq Endpoints

LEMMA OneIsARun == 1 \in PodRuns
  BY MaxPodsAssumption DEF PodRuns

\* ComposeCapabilities names the service of every scope it grants.
LEMMA GrantedScopesAreAdmitted ==
  ASSUME NEW scopes, scopes \subseteq OwnScopes \cup HecateScopes \cup Endpoints,
         NEW age, age < TokenLife
  PROVE  \A s \in scopes : Admits(ComposeCapabilities, age, s)
<1> SUFFICES ASSUME NEW s \in scopes PROVE s[1] \in ComposeCapabilities.audience
  BY DEF Admits, ComposeCapabilities
<1>1. CASE s \in OwnScopes
  BY <1>1 DEF OwnScopes, ComposeCapabilities
<1>2. CASE s \in HecateScopes
  BY <1>2 DEF ComposeCapabilities
<1>3. CASE s \in Endpoints
  BY <1>3 DEF ComposeCapabilities
<1> QED
  BY <1>1, <1>2, <1>3

LEMMA ExitsWhy ==
  ASSUME WorkerTypeOK, NEW r \in PodRuns, NEW why, Exits(r, why)
  PROVE  work'[r].why = why
<1> DEFINE s == [NewScript EXCEPT !.at = "dead", !.why = why]
<1>1. s.why = why
  BY DEF NewScript
<1>2. work' = [work EXCEPT ![r] = s]
  BY Zenon DEF Exits
<1> HIDE DEF s
<1> QED
  BY <1>1, <1>2 DEF WorkerTypeOK

LEMMA ThenWhy ==
  ASSUME WorkerTypeOK, NEW r \in PodRuns, NEW command, Then(r, command)
  PROVE  work'[r].why = work[r].why
<1> DEFINE s == [work[r] EXCEPT !.at = command]
<1>1. s.why = work[r].why
  <2>1. work[r] \in Script
    BY DEF WorkerTypeOK
  <2> QED
    BY <2>1 DEF Script
<1>2. work' = [work EXCEPT ![r] = s]
  BY Zenon DEF Then
<1> HIDE DEF s
<1> QED
  BY <1>1, <1>2 DEF WorkerTypeOK

\* A command that asks for what the token grants is not refused.
LEMMA AsksWhy ==
  ASSUME WorkerTypeOK, NEW r \in PodRuns, NEW command,
         NEW scopes, scopes \subseteq OwnScopes \cup HecateScopes \cup Endpoints,
         Asks(r, scopes, command)
  PROVE  work'[r].why \in {work[r].why, "call", "expired"}
<1>1. work[r].age < TokenLife => Allowed(r, scopes)
  BY GrantedScopesAreAdmitted DEF Allowed
<1>2. ~ Allowed(r, scopes) => Denied(r) = "expired"
  BY <1>1 DEF Denied
<1>3. Then(r, command) \/ Exits(r, "call") \/ (~ Allowed(r, scopes) /\ Exits(r, Denied(r)))
  BY DEF Asks
<1> QED
  BY <1>2, <1>3, ThenWhy, ExitsWhy

\* What ends the script of the first run.
LEMMA FirstCommandWhy ==
  ASSUME FirstInv, GrantsScript, ScriptStep(1)
  PROVE  work'[1].why \notin Avoidable
<1>1. WorkerTypeOK /\ 1 \in PodRuns /\ work[1].why \notin Avoidable
  BY OneIsARun DEF FirstInv, WorkerInv, FirstRunLands
<1>2. CASE FetchCredentials(1) \/ MintGithubToken(1)
  <2>1. /\ HecateScopes \subseteq OwnScopes \cup HecateScopes \cup Endpoints
        /\ {<<"github", "clone">>} \subseteq OwnScopes \cup HecateScopes \cup Endpoints
    BY DEF GrantsScript
  <2>2. work'[1].why \in {work[1].why, "call", "expired"}
    BY <1>1, <1>2, <2>1, AsksWhy DEF FetchCredentials, MintGithubToken
  <2> QED
    BY <1>1, <2>2 DEF Avoidable
<1>3. CASE Clone(1) \/ CommitChanges(1)
  <2>1. CASE Exits(1, "call") \/ Exits(1, "expired")
    BY <1>1, <2>1, ExitsWhy DEF Avoidable
  <2>2. ASSUME NEW command, NEW tree, work' = [work EXCEPT ![1].at = command, ![1].tree = tree]
        PROVE  work'[1].why = work[1].why
    <3> DEFINE s == [work[1] EXCEPT !.at = command, !.tree = tree]
    <3>1. work[1] \in Script /\ work \in [PodRuns -> Script]
      BY <1>1 DEF WorkerTypeOK
    <3>2. s.why = work[1].why
      BY <3>1 DEF Script
    <3>3. work' = [work EXCEPT ![1] = s]
      BY <1>1, <2>2, <3>1
    <3> HIDE DEF s
    <3> QED
      BY <1>1, <3>1, <3>2, <3>3
  <2> QED
    BY <1>1, <1>3, <2>1, <2>2 DEF Clone, CommitChanges
<1>4. CASE RunClaude(1)
  <2>1. {<<"apollo", "messages">>} \subseteq OwnScopes \cup HecateScopes \cup Endpoints
    BY DEF GrantsScript
  <2>2. work'[1].why \in {work[1].why, "call", "expired", "claude"}
    BY <1>1, <1>4, <2>1, AsksWhy, ExitsWhy DEF RunClaude
  <2> QED
    BY <1>1, <2>2 DEF Avoidable
<1>5. CASE Push(1)
  <2>1. pods[1] = "running" /\ work[1].at = "push"
    BY <1>5 DEF Push, At
  <2>2. FastForward(1)
    BY <2>1 DEF FirstInv, FirstAlone, FirstOver, FastForward, BeforePush
  <2>3. Then(1, "open") \/ Exits(1, "call") \/ Exits(1, "expired")
    BY <1>5, <2>2, Zenon DEF Push
  <2> QED
    BY <1>1, <2>3, ThenWhy, ExitsWhy DEF Avoidable
<1>6. CASE OpenPullRequest(1)
  <2>1. pods[1] = "running" /\ work[1].at = "open"
    BY <1>6 DEF OpenPullRequest, At
  <2>2. github.pr = "none"
    BY <2>1 DEF FirstInv, FirstAlone, FirstOver
  <2>3. Refusal(1) \in {"expired", "empty", ""}
    BY <2>2, Zenon DEF Refusal
  <2>4. Then(1, "report") \/ Exits(1, "call") \/ (Refusal(1) # "" /\ Exits(1, Refusal(1)))
    BY <1>6, Zenon DEF OpenPullRequest
  <2> QED
    BY <1>1, <2>3, <2>4, ThenWhy, ExitsWhy DEF Avoidable
<1>7. CASE ReportPullRequest(1)
  BY <1>1, <1>7, ThenWhy DEF ReportPullRequest
<1>8. CASE UploadMemory(1)
  <2> DEFINE s == [NewScript EXCEPT !.at = "done"]
  <2>1. s.why = ""
    BY DEF NewScript
  <2>2. work' = [work EXCEPT ![1] = s]
    BY <1>8, Zenon DEF UploadMemory
  <2> HIDE DEF s
  <2>3. work'[1].why = ""
    BY <1>1, <2>1, <2>2 DEF WorkerTypeOK
  <2> QED
    BY <2>3 DEF Avoidable
<1> QED
  BY <1>2, <1>3, <1>4, <1>5, <1>6, <1>7, <1>8 DEF ScriptStep

\* A step of the first run pushes on its way from push to open, and opens the
\* pull request on its way from open to report.
LEMMA FirstScriptStep ==
  ASSUME FirstInv, GrantsScript, ScriptStep(1)
  PROVE  FirstAlone' /\ NothingBefore' /\ FirstRunLands'
<1>1. WorkerTypeOK /\ 1 \in PodRuns /\ ScriptEffect(1)
  BY OneIsARun, ScriptStepEffect DEF FirstInv, WorkerInv
<1>2. /\ ScriptFrame(1) /\ Outcome(1) /\ task'.state = task.state
      /\ UNCHANGED <<dispatching, secrets>> /\ ThisRun' = ThisRun
      /\ pods[1] = "running" /\ ~ FirstOver
  BY <1>1 DEF ScriptEffect, ScriptFrame, FirstOver, ThisRun
<1>3. FirstAlone'
  <2> SUFFICES ASSUME ~ FirstOver' PROVE FirstAlone'
    BY DEF FirstAlone
  <2>1. /\ task'.state # "awaiting-review"
        /\ dispatching'.at # "idle" => ThisRun' = 1
        /\ \A r \in PodRuns \ {1} : pods'[r] = "unspawned"
    BY <1>2 DEF FirstInv, FirstAlone, ScriptFrame
  <2>3. /\ work[1].at \in BeforePush => ~ github.pushed
        /\ work[1].at \in BeforePush \cup {"open"} => github.pr = "none"
    BY <1>2 DEF FirstInv, FirstAlone
  <2>5. /\ work'[1].at \in BeforePush => ~ github'.pushed
        /\ work'[1].at \in BeforePush \cup {"open"} => github'.pr = "none"
    <3>1. /\ github' = github \/ BranchPushed(1) \/ PullRequestOpened
          /\ BranchPushed(1) => github'.pr = github.pr
          /\ PullRequestOpened => github'.pushed = github.pushed
      BY <1>1, <1>2 DEF Outcome, BranchPushed, PullRequestOpened, WorkerTypeOK
    <3> QED
      BY <1>2, <2>3, <3>1 DEF Outcome, BeforePush
  <2> QED
    BY <2>1, <2>5 DEF FirstAlone
<1>4. NothingBefore'
  BY <1>2 DEF FirstInv, NothingBefore
<1> QED
  BY <1>3, <1>4, FirstCommandWhy DEF FirstRunLands

\* A script of another run runs only once the first is over.
LEMMA OtherScriptStep ==
  ASSUME FirstInv, NEW r \in PodRuns \ {1}, ScriptStep(r)
  PROVE  FirstAlone' /\ NothingBefore' /\ FirstRunLands'
<1>1. WorkerTypeOK /\ 1 \in PodRuns /\ ScriptEffect(r)
  BY OneIsARun, ScriptStepEffect DEF FirstInv, WorkerInv
<1>2. /\ pods'[1] = pods[1] /\ work'[1] = work[1] /\ task'.state = task.state /\ secrets' = secrets
      /\ pods[r] = "running"
  BY <1>1 DEF ScriptEffect, ScriptFrame
<1>3. FirstOver
  BY <1>2 DEF FirstInv, FirstAlone
<1> QED
  BY <1>2, <1>3 DEF FirstInv, FirstAlone, FirstOver, NothingBefore, FirstRunLands

\* Steps that leave the branch alone and the script of the first run where it
\* is.
QuietForFirst ==
  /\ github'.pushed = github.pushed /\ (github.pr = "none" => github'.pr = "none")
  /\ work'[1].at = work[1].at /\ work'[1].why = work[1].why

LEMMA QuietKeepsFirst ==
  ASSUME FirstInv, QuietForFirst,
         FirstOver => FirstOver',
         task'.state = "awaiting-review" => FirstOver' \/ task.state = "awaiting-review",
         ~ FirstOver' => /\ dispatching'.at # "idle" => ThisRun' = 1
                         /\ \A r \in PodRuns \ {1} : pods'[r] = "unspawned"
  PROVE  FirstAlone' /\ FirstRunLands'
<1>1. FirstAlone'
  BY DEF FirstInv, FirstAlone, QuietForFirst
<1> QED
  BY <1>1 DEF FirstInv, FirstRunLands, QuietForFirst

LEMMA FirstDispatch ==
  ASSUME FirstInv, DispatchStep
  PROVE  FirstAlone' /\ NothingBefore' /\ FirstRunLands'
<1>1. /\ WorkerTypeOK /\ 1 \in PodRuns /\ ThisRun \in PodRuns /\ QuietForFirst
      /\ PodRuns \subseteq Nat \ {0}
  BY OneIsARun, MaxPodsAssumption
  DEF FirstInv, WorkerInv, WorkerTypeOK, QuietForFirst, PodRuns, DispatchStep, CommissionTask,
      RespawnTask, CreateSecret, CreateWorkerPod, RecordPod, StartRun, MinosDies, ThisRun
<1>2. CASE CommissionTask
  <2>1. /\ UNCHANGED <<pods, secrets>> /\ task'.state = "queued"
        /\ task.state = "none" /\ StartDispatch
    BY <1>1, <1>2 DEF CommissionTask, clusterVars, WorkerTypeOK
  <2>2. 1 \in Unspawned
    BY <1>1, <2>1 DEF FirstInv, NothingBefore, Unspawned
  <2>3. ThisRun' = 1
    <3>1. PICK r \in Unspawned : /\ \A q \in Unspawned : r <= q
                                 /\ dispatching' = [at |-> "secret", run |-> r]
      BY <2>1 DEF StartDispatch
    <3>2. r \in PodRuns /\ r <= 1
      BY <2>2, <3>1 DEF Unspawned
    <3> QED
      BY <1>1, <3>1, <3>2 DEF ThisRun
  <2>4. \A r \in PodRuns \ {1} : ~ FirstOver => pods[r] = "unspawned"
    BY DEF FirstInv, FirstAlone
  <2>5. FirstOver' <=> FirstOver
    BY <2>1 DEF FirstOver
  <2> QED
    BY <1>1, <2>1, <2>3, <2>4, <2>5, QuietKeepsFirst DEF NothingBefore
<1>3. CASE RespawnTask
  <2>1. UNCHANGED <<pods, secrets, task>> /\ task.state = "awaiting-review"
    BY <1>3 DEF RespawnTask, clusterVars
  <2>2. FirstOver /\ FirstOver'
    BY <2>1 DEF FirstInv, FirstAlone, FirstOver
  <2> QED
    BY <1>1, <2>1, <2>2, QuietKeepsFirst DEF FirstInv, NothingBefore
<1>4. CASE CreateSecret \/ CreateWorkerPod \/ RecordPod \/ StartRun \/ MinosDies
  <2>1. /\ dispatching.at # "idle" /\ ThisRun' = ThisRun
        /\ task.state \notin {"none", "running"}
    <3>1. /\ dispatching.at # "idle"
          /\ GoOn("idle") \/ GoOn("pod") \/ GoOn("record") \/ GoOn("start")
      BY <1>4 DEF CreateSecret, CreateWorkerPod, RecordPod, StartRun, MinosDies, GiveUp
    <3>2. ThisRun' = ThisRun
      BY <1>1, <3>1, GoOnEffect DEF ThisRun
    <3> QED
      BY <3>1, <3>2 DEF FirstInv, WorkerInv, DispatchInOrder
  <2>2. ~ FirstOver => ThisRun = 1
    BY <2>1 DEF FirstInv, FirstAlone
  <2>3. task'.state \in {task.state, "failed", "running"}
    <3>1. CASE CreateSecret \/ CreateWorkerPod \/ StartRun
      <4>1. task' = task \/ MoveTo("failed") \/ MoveTo("running")
        BY <3>1 DEF CreateSecret, CreateWorkerPod, StartRun
      <4> QED
        BY <1>1, <4>1, MoveToEffect
    <3>2. CASE RecordPod \/ MinosDies
      BY <1>1, <3>2 DEF RecordPod, MinosDies, WorkerTypeOK
    <3> QED
      BY <1>4, <3>1, <3>2
  <2>4. \/ pods' = pods
        \/ pods[ThisRun] = "unspawned" /\ pods' = [pods EXCEPT ![ThisRun] = "pending"]
        \/ pods[ThisRun] = "unspawned" /\ pods' = [pods EXCEPT ![ThisRun] = "gone"]
    BY <1>4 DEF CreateSecret, CreateWorkerPod, RecordPod, StartRun, MinosDies, clusterVars,
               FirstInv, WorkerInv, DispatchInOrder
  <2>5. FirstOver => FirstOver'
    BY <1>1, <2>4 DEF FirstOver, WorkerTypeOK
  <2>6. ~ FirstOver' => \A r \in PodRuns \ {1} : pods'[r] = "unspawned"
    BY <1>1, <2>2, <2>4, <2>5 DEF FirstInv, FirstAlone, WorkerTypeOK
  <2> QED
    BY <1>1, <2>1, <2>2, <2>3, <2>5, <2>6, QuietKeepsFirst DEF NothingBefore
<1> QED
  BY <1>2, <1>3, <1>4 DEF DispatchStep

\* A task with a pod has left the state none, and so keeps out of it.
LEMMA NothingBeforeStays ==
  ASSUME FirstInv, NEW r \in PodRuns, pods[r] # "unspawned"
  PROVE  task.state # "none"
  BY OneIsARun DEF FirstInv, FirstAlone, FirstOver, NothingBefore

LEMMA FirstPodStep ==
  ASSUME FirstInv, NEW r \in PodRuns,
         \/ PodRunning(r) \/ RemovePod(r) \/ RemoveSecret(r)
         \/ RunJudged(r) \/ RunTerminated(r) \/ TerminatedRunFails(r)
  PROVE  FirstAlone' /\ NothingBefore' /\ FirstRunLands'
<1>1. /\ WorkerTypeOK /\ 1 \in PodRuns /\ QuietForFirst
      /\ UNCHANGED dispatching /\ ThisRun' = ThisRun
  BY OneIsARun DEF FirstInv, WorkerInv, QuietForFirst, PodRunning, RemovePod, RemoveSecret, RunJudged,
                  RunTerminated, TerminatedRunFails, ThisRun
<1>2. pods[r] # "unspawned"
  BY DEF PodRunning, RemovePod, RemoveSecret, RunJudged, RunTerminated, TerminatedRunFails,
         CurrentRun, FirstInv, WorkerInv, DispatchInOrder
<1>3. task.state # "none"
  BY <1>2, NothingBeforeStays
<1>4. \/ pods' = pods
      \/ pods' = [pods EXCEPT ![r] = "gone"]
      \/ pods[r] = "pending" /\ pods' = [pods EXCEPT ![r] = "running"]
  BY DEF PodRunning, RemovePod, RemoveSecret, RunJudged, RunTerminated, TerminatedRunFails, PodDeleted
<1>5. FirstOver => FirstOver'
  BY <1>1, <1>4 DEF FirstOver, WorkerTypeOK
<1>6. ~ FirstOver' => \A q \in PodRuns \ {1} : pods'[q] = "unspawned"
  BY <1>1, <1>2, <1>4, <1>5 DEF FirstInv, FirstAlone, WorkerTypeOK
<1>7. \/ task' = task
      \/ MoveTo("failed")
      \/ pods[r] = "succeeded" /\ pods' = pods /\ MoveTo("awaiting-review")
  BY DEF PodRunning, RemovePod, RemoveSecret, RunJudged, RunTerminated, TerminatedRunFails
<1>8. /\ task'.state # "none"
      /\ task'.state = "awaiting-review" => FirstOver' \/ task.state = "awaiting-review"
  <2>1. CASE task' = task \/ MoveTo("failed")
    BY <1>1, <1>3, <2>1, MoveToEffect
  <2>2. CASE pods[r] = "succeeded" /\ pods' = pods /\ MoveTo("awaiting-review")
    <3>1. FirstOver
      BY <2>2 DEF FirstInv, FirstAlone, FirstOver
    <3> QED
      BY <1>1, <1>3, <1>5, <2>2, <3>1, MoveToEffect
  <2> QED
    BY <1>7, <2>1, <2>2
<1>9. ~ FirstOver' => (dispatching'.at # "idle" => ThisRun' = 1)
  BY <1>1, <1>5 DEF FirstInv, FirstAlone
<1> QED
  BY <1>1, <1>5, <1>6, <1>8, <1>9, QuietKeepsFirst DEF NothingBefore

LEMMA FirstEviction ==
  ASSUME FirstInv, NEW r \in PodRuns, PodEvictedByNode(r)
  PROVE  FirstAlone' /\ NothingBefore' /\ FirstRunLands'
<1>1. /\ WorkerTypeOK /\ 1 \in PodRuns /\ Exits(r, "call") /\ pods[r] \in {"pending", "running"}
      /\ UNCHANGED <<task, secrets>>
  BY OneIsARun DEF FirstInv, WorkerInv, PodEvictedByNode, Elsewhere
<1>2. /\ \A q \in PodRuns \ {r} : work'[q] = work[q] /\ pods'[q] = pods[q]
      /\ pods'[r] = "failed" /\ work'[r].why = "call"
  BY <1>1, ExitsEffect, ExitsWhy
<1>3. FirstOver'
  BY <1>1, <1>2 DEF FirstOver, FirstInv, FirstAlone
<1>4. task'.state # "none"
  BY <1>1, NothingBeforeStays
<1> QED
  BY <1>1, <1>2, <1>3, <1>4 DEF FirstAlone, NothingBefore, FirstInv, FirstRunLands, Avoidable

LEMMA FirstWorldStep ==
  ASSUME FirstInv, PullRequestEnds \/ TokensAge \/ UNCHANGED workerVars
  PROVE  FirstAlone' /\ NothingBefore' /\ FirstRunLands'
<1>1. /\ WorkerTypeOK /\ 1 \in PodRuns /\ UNCHANGED <<dispatching, pods, secrets>>
      /\ ThisRun' = ThisRun /\ FirstOver' = FirstOver
      /\ ~ FirstOver => /\ dispatching.at # "idle" => ThisRun = 1
                        /\ \A r \in PodRuns \ {1} : pods[r] = "unspawned"
  BY OneIsARun DEF FirstInv, WorkerInv, FirstAlone, PullRequestEnds, TokensAge, workerVars,
                  clusterVars, ThisRun, FirstOver
<1>2. QuietForFirst
  <2>1. CASE PullRequestEnds
    BY <1>1, <2>1 DEF PullRequestEnds, QuietForFirst, WorkerTypeOK
  <2>2. CASE TokensAge
    <3>1. work[1] \in Script
      BY <1>1 DEF WorkerTypeOK
    <3>2. work'[1] = Grown(work[1]) \/ work'[1] = work[1]
      BY <1>1, <2>2 DEF TokensAge
    <3>3. Grown(work[1]).why = work[1].why
      BY <3>1 DEF Grown, Script
    <3> QED
      BY <2>2, <3>1, <3>2, <3>3, GrownScript DEF TokensAge, QuietForFirst
  <2>3. CASE UNCHANGED workerVars
    BY <2>3 DEF workerVars, QuietForFirst
  <2> QED
    BY <2>1, <2>2, <2>3
<1>3. task'.state \in {task.state, "completed", "failed"}
  <2>1. task' = task \/ MoveTo("completed") \/ MoveTo("failed")
    BY DEF PullRequestEnds, TokensAge, workerVars
  <2> QED
    BY <1>1, <2>1, MoveToEffect
<1> QED
  BY <1>1, <1>2, <1>3, QuietKeepsFirst DEF NothingBefore, FirstInv

LEMMA FirstStepInv ==
  ASSUME GrantsScript
  PROVE  FirstInv /\ [WorkerNext]_workerVars => FirstInv'
<1> SUFFICES ASSUME FirstInv, [WorkerNext]_workerVars PROVE FirstInv'
  OBVIOUS
<1>1. WorkerInv'
  BY WorkerStepInv DEF FirstInv
<1>2. FirstAlone' /\ NothingBefore' /\ FirstRunLands'
  BY FirstDispatch, FirstScriptStep, OtherScriptStep, FirstPodStep, FirstEviction, FirstWorldStep
  DEF WorkerNext
<1> QED
  BY <1>1, <1>2 DEF FirstInv

LEMMA FirstInitInv == WorkerInit => FirstInv
<1> SUFFICES ASSUME WorkerInit PROVE FirstInv
  OBVIOUS
<1>1. /\ task.state = "none" /\ dispatching.at = "idle" /\ secrets = {}
      /\ \A r \in PodRuns : pods[r] = "unspawned" /\ work[r] = NewScript
      /\ ~ github.pushed /\ github.pr = "none"
  BY DEF WorkerInit
<1>2. NewScript.why \notin Avoidable
  BY DEF NewScript, Avoidable
<1> QED
  BY <1>1, <1>2, OneIsARun, WorkerInitInv
  DEF FirstInv, FirstAlone, NothingBefore, FirstRunLands

(***************************************************************************)
(* In a project that grants the two endpoints of the script, the first run *)
(* of a task is never refused by a service that its token is for, its push *)
(* is never rejected, and no pull request is in its way: what Minos grants *)
(* (composeCapabilities, minos/core) covers what entrypoint.sh asks for,   *)
(* and nobody but the run touches the branch before it is over.            *)
(***************************************************************************)
THEOREM FirstRunCanLand ==
  ASSUME GrantsScript
  PROVE  WorkerSpec => []FirstRunLands
<1>1. FirstInv => FirstRunLands
  BY DEF FirstInv
<1>2. FirstInv /\ [WorkerNext]_workerVars => FirstInv'
  BY FirstStepInv
<1> QED
  BY <1>1, <1>2, FirstInitInv, PTL DEF WorkerSpec

-----------------------------------------------------------------------------
(***************************************************************************)
(* What a review asks for.  Every run starts on the base branch, and its   *)
(* own commit is the only one it adds.                                     *)
(***************************************************************************)
OwnCommitsOnly ==
  \A r \in PodRuns :
    /\ work[r].at = "push" => work[r].tree \subseteq github.base \cup {r}
    /\ r \in github.base \cup github.head => work[r].at \notin BeforePush

OwnInv == WorkerInv /\ OwnCommitsOnly

\* What Argus, k3s, Minos and GitHub do to scripts and branches.
LEMMA WorldLeavesBranch ==
  ASSUME WorkerInv, [WorkerNext]_workerVars, ~ \E r \in PodRuns : ScriptStep(r)
  PROVE  /\ github'.head = github.head /\ github.base \subseteq github'.base
         /\ github'.base \subseteq github.base \cup github.head
         /\ \A r \in PodRuns : \/ work'[r].at = "dead"
                               \/ work'[r].at = work[r].at /\ work'[r].tree = work[r].tree
<1>1. WorkerTypeOK
  BY DEF WorkerInv
<1>2. CASE PullRequestEnds
  <2>1. PICK merged \in BOOLEAN :
          github' = IF merged THEN [github EXCEPT !.pr = "merged", !.base = github.base \cup github.head]
                              ELSE [github EXCEPT !.pr = "closed"]
    BY <1>2 DEF PullRequestEnds
  <2>2. github'.head = github.head /\ github'.base \in {github.base, github.base \cup github.head}
    BY <1>1, <2>1 DEF WorkerTypeOK
  <2> QED
    BY <1>2, <2>2 DEF PullRequestEnds
<1>3. CASE TokensAge
  <2>1. \A r \in PodRuns : work[r] \in Script /\ work'[r] \in {work[r], Grown(work[r])}
    BY <1>1, <1>3 DEF TokensAge, WorkerTypeOK
  <2> QED
    BY <1>3, <2>1, GrownScript DEF TokensAge
<1>4. ASSUME NEW r \in PodRuns, PodEvictedByNode(r)
      PROVE  UNCHANGED github /\ \A q \in PodRuns : work'[q].at = "dead" \/ work'[q] = work[q]
  BY <1>1, <1>4, ExitsEffect DEF PodEvictedByNode, Elsewhere
<1>5. CASE UNCHANGED <<work, github>>
  BY <1>5
<1>6. \/ PullRequestEnds \/ TokensAge \/ (\E r \in PodRuns : PodEvictedByNode(r))
      \/ UNCHANGED <<work, github>>
  BY DEF WorkerNext, DispatchStep, CommissionTask, RespawnTask, CreateSecret, CreateWorkerPod,
         RecordPod, StartRun, MinosDies, PodRunning, RemovePod, RemoveSecret, RunJudged,
         RunTerminated, TerminatedRunFails, workerVars
<1> QED
  BY <1>2, <1>3, <1>4, <1>5, <1>6

LEMMA ScriptOwnCommits ==
  ASSUME OwnInv, NEW r \in PodRuns, ScriptStep(r)
  PROVE  /\ OwnCommitsOnly'
         /\ github.pushed /\ ~ (github.head \subseteq github.base) => github'.head = github.head
<1>1. ScriptEffect(r) /\ WorkerInv /\ OwnCommitsOnly
  BY ScriptStepEffect DEF OwnInv, WorkerInv
<1>2. \A q \in PodRuns \ {r} : work'[q] = work[q]
  BY <1>1 DEF ScriptEffect, ScriptFrame
<1>3. github'.base = github.base /\ github.head \subseteq github'.head
  BY <1>1, OutcomeGithub
<1>4. CASE work[r].at = "push" /\ work'[r].at = "open" /\ FastForward(r) /\ BranchPushed(r)
  <2>1. work[r].tree \in SUBSET PodRuns /\ WorkerTypeOK
    BY <1>1 DEF WorkerInv, WorkerTypeOK, Script
  <2>2. github'.head = work[r].tree
    BY <1>4, <2>1, GithubRecord DEF BranchPushed
  <2>3. work[r].tree \subseteq github.base \cup {r} /\ r \notin github.base \cup github.head
    BY <1>1, <1>4 DEF OwnCommitsOnly, BeforePush
  <2>4. OwnCommitsOnly'
    BY <1>1, <1>2, <1>3, <1>4, <2>2, <2>3 DEF OwnCommitsOnly, BeforePush
  <2>5. ~ github.pushed \/ github.head \subseteq work[r].tree
    BY <1>4 DEF FastForward
  <2> QED
    BY <2>3, <2>4, <2>5
<1>5. CASE ~ (work[r].at = "push" /\ work'[r].at = "open" /\ FastForward(r) /\ BranchPushed(r))
  <2>1. github'.head = github.head
    BY <1>1, <1>5, OutcomeGithub DEF ScriptEffect, Outcome
  <2>2. work'[r].at = "push" => work'[r].tree \subseteq github.base \cup {r}
    BY <1>1, OutcomeRun DEF WorkerInv, BranchInOrder
  <2>3. work[r].at \notin BeforePush => work'[r].at \notin BeforePush
    BY <1>1 DEF ScriptEffect, Outcome, BeforePush
  <2>4. OwnCommitsOnly'
    BY <1>1, <1>2, <1>3, <2>1, <2>2, <2>3 DEF OwnCommitsOnly
  <2> QED
    BY <2>1, <2>4
<1> QED
  BY <1>4, <1>5

LEMMA WorldOwnCommits ==
  ASSUME OwnInv, [WorkerNext]_workerVars, ~ \E r \in PodRuns : ScriptStep(r)
  PROVE  OwnCommitsOnly' /\ github'.head = github.head
<1>1. /\ github'.head = github.head /\ github.base \subseteq github'.base
      /\ github'.base \subseteq github.base \cup github.head
      /\ \A r \in PodRuns : \/ work'[r].at = "dead"
                            \/ work'[r].at = work[r].at /\ work'[r].tree = work[r].tree
  BY WorldLeavesBranch DEF OwnInv
<1>2. ASSUME NEW r \in PodRuns
      PROVE  /\ work'[r].at = "push" => work'[r].tree \subseteq github'.base \cup {r}
             /\ r \in github'.base \cup github'.head => work'[r].at \notin BeforePush
  BY <1>1 DEF OwnInv, OwnCommitsOnly, BeforePush
<1> QED
  BY <1>1, <1>2 DEF OwnCommitsOnly

LEMMA OwnInitInv == WorkerInit => OwnInv
<1> SUFFICES ASSUME WorkerInit PROVE OwnInv
  OBVIOUS
<1>1. github.base = {} /\ github.head = {} /\ \A r \in PodRuns : work[r].at = "fetch"
  BY DEF WorkerInit, NewScript
<1> QED
  BY <1>1, WorkerInitInv DEF OwnInv, OwnCommitsOnly

(***************************************************************************)
(* As long as a commit on the branch of the task is not merged, no push    *)
(* changes the branch, whatever fails and however many runs there are: the *)
(* script makes its commit on top of the base branch, and what the branch  *)
(* holds is not in it.  So the run that a review starts cannot amend the   *)
(* pull request that was reviewed (see MCReviewLoop.cfg).                  *)
(***************************************************************************)
THEOREM ReviewsCannotAmend == WorkerSpec => UnmergedBranchIsFrozen
<1>1. ASSUME OwnInv, [WorkerNext]_workerVars
      PROVE  /\ OwnInv'
             /\ github.pushed /\ ~ (github.head \subseteq github.base) => github'.head = github.head
  BY <1>1, WorkerStepInv, ScriptOwnCommits, WorldOwnCommits DEF OwnInv
<1>2. OwnInv /\ [WorkerNext]_workerVars
        => [github.pushed /\ ~ (github.head \subseteq github.base) => github'.head = github.head]_workerVars
  BY <1>1
<1> QED
  BY <1>1, <1>2, OwnInitInv, PTL DEF WorkerSpec, UnmergedBranchIsFrozen

-----------------------------------------------------------------------------
(***************************************************************************)
(* The row of the task, and the life that the registry promises every row. *)
(***************************************************************************)
RowLife == INSTANCE TaskLifecycle WITH Tasks <- {1}, state <- [t \in {1} |-> task.state]

RowImplementsLifecycle == RowLife!Spec

\* A step of the machine, or none.
RowGoesOn ==
  \/ task'.state = task.state
  \/ task.state = "none" /\ task'.state = "queued"
  \/ LegalMove(task.state, task'.state)

LEMMA RowStepIsLifeStep ==
  ASSUME RowGoesOn
  PROVE  [RowLife!Next]_([t \in {1} |-> task.state])
<1> DEFINE row == [t \in {1} |-> task.state]
<1>1. CASE task'.state = task.state
  BY <1>1
<1>2. CASE task.state = "none" /\ task'.state = "queued"
  <2>1. row[1] = "none" /\ row' = [row EXCEPT ![1] = "queued"]
    BY <1>2
  <2> QED
    BY <2>1 DEF RowLife!Next, RowLife!Insert
<1>3. CASE LegalMove(task.state, task'.state)
  <2>1. <<row[1], task'.state>> \in RowLife!Edges
    BY <1>3 DEF LegalMove, RowLife!Edges
  <2>2. task'.state \in RowLife!TaskStates
    BY <1>3 DEF LegalMove, RowLife!TaskStates, RowLife!TerminalStates
  <2>3. row' = [row EXCEPT ![1] = task'.state]
    OBVIOUS
  <2> QED
    BY <2>1, <2>2, <2>3 DEF RowLife!Next, RowLife!Step
<1> QED
  BY <1>1, <1>2, <1>3 DEF RowGoesOn

LEMMA MoveToGoesOn ==
  ASSUME WorkerTypeOK, NEW to \in {"running", "awaiting-review", "completed", "failed"}, MoveTo(to)
  PROVE  RowGoesOn
<1>1. CASE LegalMove(task.state, to)
  BY <1>1 DEF MoveTo, RowGoesOn, WorkerTypeOK
<1>2. CASE ~ LegalMove(task.state, to)
  BY <1>2 DEF MoveTo, RowGoesOn
<1> QED
  BY <1>1, <1>2

LEMMA StepGoesOn ==
  ASSUME WorkerTypeOK, [WorkerNext]_workerVars
  PROVE  RowGoesOn
<1>1. ASSUME NEW r \in PodRuns, ScriptStep(r) PROVE RowGoesOn
  BY <1>1, ScriptStepEffect DEF ScriptEffect, RowGoesOn
<1>2. CASE CommissionTask
  BY <1>2 DEF CommissionTask, RowGoesOn, WorkerTypeOK
<1>3. CASE RecordPod
  BY <1>3 DEF RecordPod, RowGoesOn, WorkerTypeOK
<1>4. CASE task' = task
  BY <1>4 DEF RowGoesOn
<1>5. CASE MoveTo("running") \/ MoveTo("awaiting-review") \/ MoveTo("completed") \/ MoveTo("failed")
  BY <1>5, MoveToGoesOn
<1>6. ASSUME PullRequestEnds PROVE task' = task \/ MoveTo("completed") \/ MoveTo("failed")
  BY <1>6 DEF PullRequestEnds
<1> QED
  BY <1>1, <1>2, <1>3, <1>4, <1>5, <1>6
  DEF WorkerNext, DispatchStep, RespawnTask, CreateSecret, CreateWorkerPod, StartRun, MinosDies,
      PodRunning, PodEvictedByNode, Elsewhere, RemovePod, RemoveSecret, RunJudged, RunTerminated,
      TerminatedRunFails, TokensAge, workerVars

(***************************************************************************)
(* Whatever scripts, callbacks, Argus, GitHub and failed calls do, the row *)
(* lives the life of TaskLifecycle: the third module that implements it,   *)
(* and the one that models the pods from inside.                           *)
(***************************************************************************)
THEOREM WorkersKeepTheLifecycle == WorkerSpec => RowImplementsLifecycle
<1>1. WorkerInit => RowLife!Init
  BY DEF WorkerInit, RowLife!Init
<1>2. WorkerTypeOK /\ [WorkerNext]_workerVars => [RowLife!Next]_([t \in {1} |-> task.state])
  BY StepGoesOn, RowStepIsLifeStep
<1> QED
  BY <1>1, <1>2, WorkerTypeCorrect, PTL DEF WorkerSpec, RowImplementsLifecycle, RowLife!Spec

-----------------------------------------------------------------------------
(***************************************************************************)
(* The other half of pkg/brokerauth: its replay store lets a token through *)
(* once while it is valid, for any number of tokens, any expiries and any  *)
(* delay between the verification of a request and its recording.          *)
(***************************************************************************)

\* A token that was used is in the store until its expiry has gone by.
UsedIsHeld == \A j \in Jtis : used[j] >= 1 => j \in held \/ clock > expires[j]

AuthInv == AuthTypeOK /\ UsedIsHeld

LEMMA AuthInitInv == AuthInit => AuthInv
  BY MaxClockAssumption, MaxReuseAssumption DEF AuthInit, AuthInv, AuthTypeOK, UsedIsHeld

LEMMA VerifyBearerInv ==
  ASSUME AuthInv, NEW j \in Jtis, VerifyBearer(j)
  PROVE  AuthInv'
  BY DEF AuthInv, AuthTypeOK, UsedIsHeld, VerifyBearer

LEMMA SeenBearerInv ==
  ASSUME AuthInv, NEW j \in Jtis, SeenBearer(j)
  PROVE  AuthInv'
<1> USE DEF AuthInv, AuthTypeOK
<1>1. /\ clock' = clock /\ expires' = expires
      /\ held' = (held \ Swept) \cup {j}
      /\ passing' = passing \ {j}
  BY DEF SeenBearer
<1>2. used' = used \/ (used[j] < MaxReuse /\ used' = [used EXCEPT ![j] = @ + 1])
  BY DEF SeenBearer
<1>3. used' \in [Jtis -> 0 .. MaxReuse]
  <2>1. CASE used' = used
    BY <2>1
  <2>2. CASE used[j] < MaxReuse /\ used' = [used EXCEPT ![j] = @ + 1]
    <3>1. used[j] + 1 \in 0 .. MaxReuse
      BY <2>2, MaxReuseAssumption
    <3> QED
      BY <2>2, <3>1
  <2> QED
    BY <1>2, <2>1, <2>2
<1>4. AuthTypeOK'
  BY <1>1, <1>3
<1>5. ASSUME NEW k \in Jtis, used'[k] >= 1
      PROVE  k \in held' \/ clock' > expires'[k]
  <2>1. CASE k = j
    BY <1>1, <2>1
  <2>2. CASE k # j
    <3>1. used[k] >= 1
      BY <1>2, <1>5, <2>2
    <3>2. k \in held \/ clock > expires[k]
      BY <3>1 DEF UsedIsHeld
    <3>3. k \in Swept => clock > expires[k]
      BY MaxClockAssumption DEF Swept
    <3> QED
      BY <1>1, <3>2, <3>3
  <2> QED
    BY <2>1, <2>2
<1> QED
  BY <1>4, <1>5 DEF UsedIsHeld

LEMMA AuthTickInv ==
  ASSUME AuthInv, AuthTick
  PROVE  AuthInv'
<1>1. AuthTypeOK'
  BY MaxClockAssumption DEF AuthInv, AuthTypeOK, AuthTick
<1>2. UsedIsHeld'
  BY MaxClockAssumption DEF AuthInv, AuthTypeOK, UsedIsHeld, AuthTick
<1> QED
  BY <1>1, <1>2 DEF AuthInv

LEMMA AuthStepInv == AuthInv /\ [AuthNext]_authVars => AuthInv'
<1> SUFFICES ASSUME AuthInv, [AuthNext]_authVars PROVE AuthInv'
  OBVIOUS
<1>1. CASE UNCHANGED authVars
  BY <1>1 DEF authVars, AuthInv, AuthTypeOK, UsedIsHeld
<1> QED
  BY <1>1, VerifyBearerInv, SeenBearerInv, AuthTickInv DEF AuthNext

LEMMA AuthInvariant == AuthSpec => []AuthInv
  BY AuthInitInv, AuthStepInv, PTL DEF AuthSpec

(***************************************************************************)
(* The replay store and its bookkeeping stay well formed.                  *)
(***************************************************************************)
THEOREM AuthTypeCorrect == AuthSpec => []AuthTypeOK
<1>1. AuthInv => AuthTypeOK
  BY DEF AuthInv
<1> QED
  BY <1>1, AuthInvariant, PTL

(***************************************************************************)
(* A token passes once while it is valid (MemReplayStore.Seen): the sweep  *)
(* drops only tokens that Verify refuses by then.                          *)
(***************************************************************************)
THEOREM TokensAreSingleUse == AuthSpec => SingleUse
<1>1. ASSUME AuthInv, [AuthNext]_authVars
      PROVE  [\A j \in Jtis : used[j] >= 1 /\ used'[j] # used[j] => clock > expires[j]]_authVars
  <2> SUFFICES ASSUME NEW k \in Jtis, used[k] >= 1, used'[k] # used[k]
               PROVE  clock > expires[k]
    BY <1>1
  <2>1. PICK j \in Jtis : SeenBearer(j)
    BY <1>1 DEF AuthNext, VerifyBearer, AuthTick, authVars
  <2>2. k = j /\ j \notin held \ Swept
    BY <2>1 DEF SeenBearer, AuthInv, AuthTypeOK
  <2>3. j \in held \/ clock > expires[j]
    BY <1>1, <2>2 DEF AuthInv, UsedIsHeld
  <2> QED
    BY <1>1, <2>2, <2>3, MaxClockAssumption DEF Swept, AuthInv, AuthTypeOK
<1> QED
  BY <1>1, AuthInvariant, PTL DEF AuthSpec, SingleUse
=============================================================================
