------------------------------- MODULE Deploys -------------------------------
(***************************************************************************)
(* Deploys from end to end: the CLI's jam deploy (crates/jam-cli), the     *)
(* driver that runs it for what was merged (scripts/auto-deploy.sh), the   *)
(* dashboard's deploy button (crates/jam-ui-server) and the strategies of  *)
(* the patch agent that replace a single process, a Python application or  *)
(* the CLI itself.  The swap of versions side by side is HotPatch; here it *)
(* is one step with the outcomes it can have.                              *)
(*                                                                         *)
(* A build is a number: twice the last commit that touched the target, one *)
(* more with uncommitted edits on top.  All builds of a target are at one  *)
(* path, target/release, whoever makes or reads them.                      *)
(***************************************************************************)
EXTENDS Integers, Sequences, FiniteSets, SequencesExt

CONSTANTS
  Targets,      \* DEPLOY_TARGETS in the order targets_for_changed_paths gives
  StrategyOf,   \* of each: "swap", "restart", "python" or "canonical"
  UiServer,     \* the target that is shipped with a bundle
  Cron,         \* the runs of auto-deploy.sh: a lock lets one at a time run
  Operators,    \* runs of jam deploy by hand
  Requests,     \* deploys asked of the dashboard
  TouchSets,    \* what a commit may touch: targets, and paths of no target
  Lists,        \* the lists of targets an operator may give
  Edited,       \* the targets an operator edits
  MaxCommits, MaxAsks, MaxDeployFaults, \* bounds
  DeployFaults  \* what may fail: "cli", "bundle", "agent", "swap", "death"

TargetSet == Range(Targets)

ASSUME DeployAssumption ==
  /\ Targets \in Seq(TargetSet) /\ Lists \subseteq Seq(TargetSet) /\ Edited \subseteq TargetSet
  /\ StrategyOf \in [TargetSet -> {"swap", "restart", "python", "canonical"}]
  /\ UiServer \in TargetSet
  /\ Cron \notin Operators \union Requests /\ Operators \intersect Requests = {}
  /\ MaxCommits \in Nat /\ MaxAsks \in Nat /\ MaxDeployFaults \in Nat
  /\ DeployFaults \subseteq {"cli", "bundle", "agent", "swap", "death"}

VARIABLES
  origin,   \* what each commit of origin/main touches
  tree,     \* the workspace: [head, edits]
  built,    \* built[s]: the build at target/release
  deploy,   \* runs of jam deploy and requests of the dashboard
  asks,     \* patch.staged envelopes published so far
  mark,     \* last-auto-deploy.sha: a commit, -1 for none; and the first it held
  staged,   \* patch.staged messages the agent has not read
  agentJob, \* [at, ask, seen]: what the agent is at, and the build it checked
  binary,   \* binary[s]: the build installed, Mixed when an install was cut short
  proc,     \* proc[s]: [up, build, checked, by]: what runs, what the agent had checked
  routed,   \* routed[s]: the version the manifest routes to
  answers,  \* patch.confirmed and its kind: [id, s, how, checked, hash, seen, got]
  bundle,   \* the UI's files: [src, new, dist, old], and whether two runs met
  deployFaults \* faults so far

treeVars == <<origin, tree, built>>
agentVars == <<agentJob, binary, proc, routed, answers>>
deployVars == <<treeVars, deploy, asks, mark, staged, agentVars, bundle, deployFaults>>

Clients == {Cron} \union Operators \union Requests
Mixed == -1
NoBundle == [build |-> Mixed, stray |-> FALSE]
IdleClient == [at |-> "idle", todo |-> <<>>, goal |-> 0, step |-> 0, id |-> 0, hash |-> 0,
               version |-> <<>>, done |-> {}]
NoAsk == [id |-> 0, s |-> Targets[1], hash |-> 0, version |-> <<>>, by |-> Cron]
AgentAtRest == [at |-> "idle", ask |-> NoAsk, seen |-> 0]

DeployInit ==
  /\ origin = <<>> /\ tree = [head |-> 0, edits |-> {}]
  /\ built = [s \in TargetSet |-> 0]
  /\ deploy = [c \in Clients |-> IdleClient] /\ asks = 0
  /\ mark = [last |-> -1, first |-> -1] /\ staged = <<>> /\ agentJob = AgentAtRest
  /\ binary = [s \in TargetSet |-> 0]
  /\ proc = [s \in TargetSet |-> [up |-> TRUE, build |-> 0, checked |-> 0, by |-> Cron]]
  /\ routed = [s \in TargetSet |-> <<"installed">>]
  /\ answers = {}
  /\ bundle = [src |-> NoBundle, new |-> NoBundle, dist |-> [build |-> 0, stray |-> FALSE],
               old |-> NoBundle, torn |-> FALSE]
  /\ deployFaults = 0

\* A step fails, as long as the model has faults left.
Fault(kind) ==
  /\ kind \in DeployFaults /\ deployFaults < MaxDeployFaults
  /\ deployFaults' = deployFaults + 1
Fine == UNCHANGED deployFaults

Strategy(s) == StrategyOf[s]
\* The source of s at a commit.
SourceAt(s, c) ==
  LET touching == {i \in 1..c : s \in origin[i]}
  IN 2 * (IF touching = {} THEN 0 ELSE CHOOSE i \in touching : \A j \in touching : i >= j)
Source(s) == SourceAt(s, tree.head) + IF s \in tree.edits THEN 1 ELSE 0
Now(c) == Head(deploy[c].todo)
Goes(c, at) == deploy' = [deploy EXCEPT ![c].at = at]

\* targets_for_changed_paths: no target twice, paths of no target left out.
TargetsFor(paths) ==
  LET among[n \in 0..Len(Targets)] ==
        IF n = 0 THEN <<>>
        ELSE IF Targets[n] \in paths THEN Append(among[n - 1], Targets[n]) ELSE among[n - 1]
  IN among[Len(Targets)]

\* compute_deploy_version: the workspace's version, and only with uncommitted
\* edits the commit and, where there is a binary, its hash.
DeployVersion(s) ==
  IF tree.edits = {} THEN <<"base">>
  ELSE IF Strategy(s) = "python" THEN <<"dirty", tree.head>>
  ELSE <<"dirty", tree.head, built'[s]>>

(***************************************************************************)
(* The workspace                                                           *)
(***************************************************************************)

\* A pull request is merged.
Merged ==
  /\ Len(origin) < MaxCommits
  /\ \E touched \in TouchSets : origin' = Append(origin, touched)
  /\ UNCHANGED <<tree, built, deploy, asks, mark, staged, agentVars, bundle, deployFaults>>

\* The operator edits the sources of a target.
EditSources ==
  /\ \E s \in Edited \ tree.edits : tree' = [tree EXCEPT !.edits = @ \union {s}]
  /\ UNCHANGED <<origin, built, deploy, asks, mark, staged, agentVars, bundle, deployFaults>>

(***************************************************************************)
(* jam deploy                                                              *)
(***************************************************************************)

Begin(c, todo, goal) ==
  deploy' = [deploy EXCEPT ![c] =
    [IdleClient EXCEPT !.at = IF todo = <<>> THEN "succeeded" ELSE "next", !.todo = todo,
                       !.goal = goal]]

\* auto-deploy.sh: main is fetched and merged, the first run only notes where
\* it is, and what has changed since the mark is deployed.
CronTick ==
  /\ deploy[Cron].at = "idle"
  /\ tree' = [tree EXCEPT !.head = Len(origin)]
  /\ IF mark.last = -1
       THEN mark' = [last |-> Len(origin), first |-> Len(origin)] /\ UNCHANGED deploy
       ELSE /\ mark.last # Len(origin) /\ UNCHANGED mark
            /\ LET since == UNION {origin[i] : i \in (mark.last + 1)..Len(origin)}
               IN Begin(Cron, TargetsFor(since), Len(origin))
  /\ UNCHANGED <<origin, built, asks, staged, agentVars, bundle, deployFaults>>

\* run_deploy by hand: a list, or --dirty.
OperatorDeploys(c) ==
  /\ c \in Operators /\ deploy[c].at = "idle"
  /\ \E todo \in Lists \union {TargetsFor(tree.edits)} : Begin(c, todo, 0)
  /\ UNCHANGED <<treeVars, asks, mark, staged, agentVars, bundle, deployFaults>>

\* Any error of run_deploy_inner ends the whole run.
CliFails(c) ==
  /\ c \notin Requests /\ deploy[c].at \in {"next", "hashing", "staging"}
  /\ Fault("cli") /\ Goes(c, "failed")
  /\ UNCHANGED <<treeVars, asks, mark, staged, agentVars, bundle>>

Syncing(c) == deploy[c].at = "syncing"
\* Another run has built the dashboard and has not asked for its deploy yet.
MeetsAnother(c) ==
  \E d \in Clients \ ({c} \union Requests) :
    deploy[d].at \in {"syncing", "hashing", "staging"} /\ Now(d) = UiServer

\* run_deploy_inner up to the bundle: cargo build, then the version.
Build(c) ==
  /\ deploy[c].at = "next" /\ Fine
  /\ LET s == Now(c)
     IN /\ built' = IF Strategy(s) = "python" THEN built ELSE [built EXCEPT ![s] = Source(s)]
        /\ deploy' = [deploy EXCEPT ![c].at = IF s = UiServer THEN "syncing" ELSE "hashing",
                                    ![c].step = 1, ![c].version = DeployVersion(s)]
        /\ bundle' = [bundle EXCEPT !.torn = @ \/ (s = UiServer /\ MeetsAnother(c))]
  /\ UNCHANGED <<origin, tree, asks, mark, staged, agentVars>>

\* mv and cp -r put what they move inside a directory that is there already.
Into(what, there) == IF there = NoBundle THEN what ELSE [there EXCEPT !.stray = TRUE]

\* Faulty variant: the new bundle is moved before the old one is out of the way.
SyncStepHasty(step) ==
  CASE step = 1 -> [bundle EXCEPT !.src = [build |-> Source(UiServer), stray |-> FALSE]]
    [] step = 2 -> [bundle EXCEPT !.new = NoBundle]
    [] step = 3 -> [bundle EXCEPT !.new = Into(bundle.src, bundle.new)]
    [] step = 4 -> [bundle EXCEPT !.old = NoBundle]
    [] step = 5 -> [bundle EXCEPT !.dist = Into(bundle.new, bundle.dist), !.new = NoBundle]
    [] step = 6 -> [bundle EXCEPT !.old = NoBundle]
    [] step = 7 -> bundle

\* sync_ui_bundle: npm run build, then the commands one after another.
SyncStep(step) ==
  CASE step = 1 -> [bundle EXCEPT !.src = [build |-> Source(UiServer), stray |-> FALSE]]
    [] step = 2 -> [bundle EXCEPT !.new = NoBundle]
    [] step = 3 -> [bundle EXCEPT !.new = Into(bundle.src, bundle.new)]
    [] step = 4 -> [bundle EXCEPT !.old = NoBundle]
    [] step = 5 -> [bundle EXCEPT !.old = IF bundle.dist = NoBundle THEN @
                                          ELSE Into(bundle.dist, bundle.old),
                                  !.dist = NoBundle]
    [] step = 6 -> [bundle EXCEPT !.dist = Into(bundle.new, bundle.dist), !.new = NoBundle]
    [] step = 7 -> [bundle EXCEPT !.old = NoBundle]

SyncBundle(c) ==
  /\ Syncing(c) /\ Fine
  /\ IF deploy[c].step = 6 /\ bundle.new = NoBundle
       THEN Goes(c, "failed") /\ UNCHANGED bundle
       ELSE /\ bundle' = SyncStep(deploy[c].step)
            /\ deploy' = [deploy EXCEPT ![c].step = @ + 1,
                            ![c].at = IF deploy[c].step = 7 THEN "hashing" ELSE @]
  /\ UNCHANGED <<treeVars, asks, mark, staged, agentVars>>

\* A command fails and the deploy with it; between the renames there is no dist.
SyncFails(c) ==
  /\ Syncing(c) /\ Fault("bundle") /\ Goes(c, "failed")
  /\ bundle' = [bundle EXCEPT !.torn = @ \/ bundle.dist = NoBundle]
  /\ UNCHANGED <<treeVars, asks, mark, staged, agentVars>>

\* publish_apply_and_wait reads the hash, connects and subscribes.
HashBuild(c) ==
  /\ deploy[c].at = "hashing" /\ Fine
  /\ deploy' = [deploy EXCEPT ![c].at = "staging",
                  ![c].hash = IF Strategy(Now(c)) = "python" THEN 0 ELSE built[Now(c)]]
  /\ UNCHANGED <<treeVars, asks, mark, staged, agentVars, bundle>>

\* deploy_handler: whatever is built, under a version of its hash.
UiAsks(c) ==
  /\ c \in Requests /\ deploy[c].at = "idle" /\ proc[UiServer].up /\ Fine
  /\ \E s \in TargetSet :
       deploy' = [deploy EXCEPT ![c] = [IdleClient EXCEPT
         !.at = "staging", !.todo = <<s>>,
         !.hash = IF Strategy(s) = "python" THEN 0 ELSE built[s],
         !.version = <<"ui", IF Strategy(s) = "python" THEN 0 ELSE built[s]>>]]
  /\ UNCHANGED <<treeVars, asks, mark, staged, agentVars, bundle>>

\* patch.staged is published, under a trace of its own.
PublishStaged(c) ==
  /\ deploy[c].at = "staging" /\ asks < MaxAsks /\ Fine
  /\ asks' = asks + 1
  /\ deploy' = [deploy EXCEPT ![c].at = "waiting", ![c].id = asks']
  /\ staged' = Append(staged, [id |-> asks', s |-> Now(c), hash |-> deploy[c].hash,
                               version |-> deploy[c].version, by |-> c])
  /\ UNCHANGED <<treeVars, mark, agentVars, bundle>>

\* Faulty variant: the trace of an envelope is not looked at.
AnswersOfService(c) == {a \in answers : a.s = Now(c)}

\* decode_envelope and decode_patch_event: of the own trace and service.  The
\* dashboard does not subscribe to patch.rolled-back-successfully.
AnswersTo(c) ==
  {a \in answers : /\ a.id = deploy[c].id /\ a.s = Now(c)
                   /\ c \in Requests => a.how # "rolled back"}

\* Faulty variant: a target that was not confirmed does not stop the run.
HearAnything(c) ==
  /\ deploy[c].at = "waiting" /\ Fine
  /\ \E a \in AnswersTo(c) :
       deploy' = [deploy EXCEPT ![c].todo = Tail(@), ![c].done = @ \union {deploy[c].id},
                    ![c].at = IF Len(deploy[c].todo) = 1 THEN "succeeded" ELSE "next"]
  /\ UNCHANGED <<treeVars, asks, mark, staged, agentVars, bundle>>

\* wait_for_apply_terminal, wait_for_deploy_terminal and the loop of run_deploy.
Hear(c) ==
  /\ deploy[c].at = "waiting" /\ Fine
  /\ \E a \in AnswersTo(c) :
       IF a.how = "confirmed"
         THEN deploy' = [deploy EXCEPT ![c].todo = Tail(@), ![c].done = @ \union {deploy[c].id},
                           ![c].at = IF Len(deploy[c].todo) = 1 THEN "succeeded" ELSE "next"]
         ELSE Goes(c, "failed")
  /\ UNCHANGED <<treeVars, asks, mark, staged, agentVars, bundle>>

WaitTimesOut(c) ==
  /\ deploy[c].at = "waiting" /\ Fine /\ Goes(c, "failed")
  /\ UNCHANGED <<treeVars, asks, mark, staged, agentVars, bundle>>

\* Faulty variant: the mark moves on whatever jam deploy exits with.
CronEndsAnyway ==
  /\ deploy[Cron].at \in {"succeeded", "failed"}
  /\ mark' = [mark EXCEPT !.last = deploy[Cron].goal]
  /\ deploy' = [deploy EXCEPT ![Cron] = IdleClient]
  /\ UNCHANGED <<treeVars, asks, staged, agentVars, bundle, deployFaults>>

\* Only after success is the mark moved to the commit the tick began with.
CronEnds ==
  /\ deploy[Cron].at \in {"succeeded", "failed"}
  /\ mark' = [mark EXCEPT !.last = IF deploy[Cron].at = "succeeded" THEN deploy[Cron].goal ELSE @]
  /\ deploy' = [deploy EXCEPT ![Cron] = IdleClient]
  /\ UNCHANGED <<treeVars, asks, staged, agentVars, bundle, deployFaults>>

(***************************************************************************)
(* The patch agent                                                         *)
(***************************************************************************)

clientVars == <<treeVars, asks, mark, bundle>>
AgentAt(at) == agentJob.at = at
AgentMoves(at) == agentJob' = [agentJob EXCEPT !.at = at]
AgentRests == agentJob' = AgentAtRest
Job == agentJob.ask

\* process_patch_staged: one message after another.
TakeStagedAsk ==
  /\ AgentAt("idle") /\ staged # <<>>
  /\ staged' = Tail(staged)
  /\ agentJob' = [at |-> IF Strategy(Head(staged).s) = "swap" THEN "swapping" ELSE "checking",
                  ask |-> Head(staged), seen |-> 0]
  /\ UNCHANGED <<clientVars, deploy, binary, proc, routed, answers, deployFaults>>

\* Faulty variant: the declared hash is not compared.
CheckNothing ==
  /\ AgentAt("checking")
  /\ agentJob' = [agentJob EXCEPT !.at = "installing",
                    !.seen = IF Strategy(Job.s) = "python" THEN 0 ELSE built[Job.s]]
  /\ UNCHANGED <<clientVars, deploy, staged, binary, proc, routed, answers, deployFaults>>

\* The file must have the declared hash; an error is logged and told to nobody.
CheckStaged ==
  /\ AgentAt("checking")
  /\ IF Strategy(Job.s) # "python" /\ built[Job.s] # Job.hash THEN AgentRests
     ELSE agentJob' = [agentJob EXCEPT !.at = "installing", !.seen = Job.hash]
  /\ UNCHANGED <<clientVars, deploy, staged, binary, proc, routed, answers, deployFaults>>

\* install_via_atomic_rename reads the file again and replaces the target at
\* once; a Python tree is copied, then installed.
InstallBuild ==
  /\ AgentAt("installing") /\ Fine
  /\ binary' = [binary EXCEPT ![Job.s] =
                  IF Strategy(Job.s) = "python" THEN Source(Job.s) ELSE built[Job.s]]
  /\ AgentMoves(CASE Strategy(Job.s) = "restart" -> "stopping"
                  [] Strategy(Job.s) = "python" -> "restarting"
                  [] Strategy(Job.s) = "canonical" -> "telling")
  /\ UNCHANGED <<clientVars, deploy, staged, proc, routed, answers>>

\* What a Python install that was cut short leaves.
CutShort ==
  binary' = IF AgentAt("installing") /\ Strategy(Job.s) = "python"
              THEN [binary EXCEPT ![Job.s] = Mixed] ELSE binary

InstallFails ==
  /\ AgentAt("installing") /\ Fault("agent") /\ CutShort /\ AgentRests
  /\ UNCHANGED <<clientVars, deploy, staged, proc, routed, answers>>

\* process-compose stop: with the dashboard's server end the requests it holds.
StopProcess ==
  /\ AgentAt("stopping") /\ Fine
  /\ proc' = [proc EXCEPT ![Job.s].up = FALSE] /\ AgentMoves("starting")
  /\ deploy' = [c \in Clients |->
       IF Job.s = UiServer /\ c \in Requests /\ deploy[c].at \in {"staging", "waiting"}
         THEN [deploy[c] EXCEPT !.at = "lost"] ELSE deploy[c]]
  /\ UNCHANGED <<clientVars, staged, binary, routed, answers>>

\* process-compose start, or restart: whatever is installed now.
StartProcess ==
  /\ agentJob.at \in {"starting", "restarting"} /\ Fine
  /\ proc' = [proc EXCEPT ![Job.s] = [up |-> TRUE, build |-> binary[Job.s],
                                          checked |-> agentJob.seen, by |-> Job.by]]
  /\ AgentMoves("awaiting")
  /\ UNCHANGED <<clientVars, deploy, staged, binary, routed, answers>>

\* A call of process-compose fails, or the process does not stay up.
ProcessFails ==
  /\ agentJob.at \in {"stopping", "starting", "restarting", "awaiting"} /\ Fault("agent")
  /\ \/ UNCHANGED proc
     \/ agentJob.at \in {"restarting", "awaiting"} /\ proc' = [proc EXCEPT ![Job.s].up = FALSE]
  /\ AgentRests
  /\ UNCHANGED <<clientVars, deploy, staged, binary, routed, answers>>

\* wait_for_process_running
AwaitRunning ==
  /\ AgentAt("awaiting") /\ proc[Job.s].up /\ Fine /\ AgentMoves("telling")
  /\ UNCHANGED <<clientVars, deploy, staged, binary, proc, routed, answers>>

Told(how, checked, seen, got) ==
  answers' = answers \union
    {[id |-> Job.id, s |-> Job.s, how |-> how, checked |-> checked, hash |-> Job.hash,
      seen |-> seen, got |-> got]}

ConfirmDeploy ==
  /\ AgentAt("telling") /\ AgentRests
  /\ \/ Fine /\ Told("confirmed", TRUE, agentJob.seen, binary[Job.s])
     \/ Fault("agent") /\ UNCHANGED answers
  /\ UNCHANGED <<clientVars, deploy, staged, binary, proc, routed>>

\* apply_staged_patch and what follows patch.applied: the version that is
\* routed to already is confirmed without a check and without a change.
SwapVersions ==
  /\ AgentAt("swapping") /\ AgentRests
  /\ LET s == Job.s
         there == proc' = [proc EXCEPT ![s] = [up |-> TRUE, build |-> built[s],
                                              checked |-> Job.hash, by |-> Job.by]]
                  /\ routed' = [routed EXCEPT ![s] = Job.version]
         same  == UNCHANGED <<proc, routed>>
     IN IF built[s] # Job.hash THEN Fine /\ same /\ UNCHANGED answers
        ELSE IF routed[s] = Job.version
          THEN Fine /\ same /\ Told("confirmed", FALSE, Job.hash, proc[s].build)
        ELSE \/ Fine /\ there /\ Told("confirmed", TRUE, Job.hash, built[s])
             \/ Fault("swap") /\ same /\ (UNCHANGED answers \/ Told("rolled back", TRUE, 0, 0))
             \/ Fault("swap") /\ there /\ Told("failed", TRUE, 0, 0)
  /\ UNCHANGED <<clientVars, deploy, staged, binary>>

\* The agent dies and is started again: its job and its subscription are gone.
AgentIsLost ==
  /\ Fault("death") /\ agentJob.at # "idle"
  /\ CutShort /\ AgentRests /\ staged' = <<>>
  /\ UNCHANGED <<clientVars, deploy, proc, routed, answers>>

DeployAgentStep ==
  \/ TakeStagedAsk \/ CheckStaged \/ InstallBuild \/ InstallFails \/ StopProcess
  \/ StartProcess \/ ProcessFails \/ AwaitRunning \/ ConfirmDeploy \/ SwapVersions
  \/ AgentIsLost

ClientStep(c) ==
  \/ OperatorDeploys(c) \/ CliFails(c) \/ Build(c) \/ SyncBundle(c) \/ SyncFails(c)
  \/ HashBuild(c) \/ UiAsks(c) \/ PublishStaged(c) \/ Hear(c) \/ WaitTimesOut(c)

DeployNext ==
  \/ Merged \/ EditSources \/ CronTick \/ CronEnds
  \/ \E c \in Clients : ClientStep(c)
  \/ DeployAgentStep

DeploySpec == DeployInit /\ [][DeployNext]_deployVars
-----------------------------------------------------------------------------

DeployTypeOK ==
  /\ \A c \in Clients : deploy[c].at \in
       {"idle", "next", "syncing", "hashing", "staging", "waiting", "succeeded", "failed", "lost"}
  /\ agentJob.at \in {"idle", "swapping", "checking", "installing", "stopping", "starting",
                      "restarting", "awaiting", "telling"}
  /\ tree.head \in 0..Len(origin) /\ tree.edits \subseteq TargetSet
  /\ mark.last \in -1..Len(origin) /\ asks \in 0..MaxAsks

\* A deploy that was confirmed after a check installed what its request
\* declared, or a later build of the same target that replaced the file while
\* the agent was copying it; and who reports a success was told of it under
\* the trace it asked with, however many deploys of the target are under way
\* (patch_ops.rs:231-389, jam-cli main.rs:1290-1428).
ConfirmedIsDeclared ==
  /\ \A a \in answers : a.how = "confirmed" /\ a.checked =>
       /\ a.seen = a.hash /\ a.got >= a.seen
  /\ \A c \in Clients, id \in 1..asks : id \in deploy[c].done =>
       \E a \in answers : a.id = id /\ a.how = "confirmed"

\* What a commit since the first mark touched and the mark has passed.
Passed == (UNION {origin[i] : i \in (mark.first + 1)..mark.last}) \intersect TargetSet
RunsCommit(s) ==
  SourceAt(s, mark.last) <= IF Strategy(s) = "canonical" THEN binary[s] ELSE proc[s].build

\* Once the mark has passed a commit, the single processes and binaries it
\* touched have been replaced by a build of it, whatever failed, timed out or
\* was deployed by hand in between (auto-deploy.sh:16-27).
SinglesFollowMark == \A s \in Passed : Strategy(s) # "swap" => RunsCommit(s)

\* The same of every target: the mark is the last commit that was deployed.
MarkIsDeployed == \A s \in Passed : RunsCommit(s)

\* The dashboard's server never serves a bundle older than the build the agent
\* had checked before it started it for jam deploy, nor a bundle with another
\* inside, as long as no two syncs met and none failed between its renames; a
\* build that replaces the file after the check may be ahead of its bundle
\* (jam-cli main.rs:3846-3860, 3973).
BundleServed ==
  ~bundle.torn =>
    /\ ~bundle.dist.stray
    /\ bundle.dist = NoBundle => \E c \in Clients : Syncing(c) /\ deploy[c].step = 6
    /\ proc[UiServer].up /\ proc[UiServer].by \notin Requests /\ bundle.dist # NoBundle =>
         bundle.dist.build >= proc[UiServer].checked

DeploySafety == ConfirmedIsDeclared /\ SinglesFollowMark /\ BundleServed

\* Deploys of one target of each strategy, for TLC.
MCTargets == <<"cli", "repo", "ui-server", "maestro">>
MCStrategyOf ==
  [s \in {"cli", "repo", "ui-server", "maestro"} |->
     CASE s = "cli" -> "canonical" [] s = "repo" -> "swap"
       [] s = "ui-server" -> "restart" [] s = "maestro" -> "python"]
MCTouchSets == {{}, {"repo", "ui-server"}, {"ui-server"}, {"cli", "maestro"}}
MCLists == {<<"ui-server">>}
=============================================================================
