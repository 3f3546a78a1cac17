# TLA+ models of jamboree

jamboree runs coding agents ("Pickers") on tasks. A planner, maestro, or an
operator asks for a task; the worktree service makes a worktree, the session
service starts a Picker in it, what the Picker commits becomes a pull request,
and a row of small daemons watch the PR, the sessions, the clock, the trunk and
the bus. The services are Rust crates that talk over NATS: requests
`tool.<service>.<method>`, events `journal.<event type>`. Services and daemons
are deployed into a running system, by hot patch or by replacement.

This directory holds models of the parts in which order, concurrency and failure
decide whether the system is right, the TLC runs that check them, and the
proofs of what should hold for every size.

## Inventory

**I** interleavings, **F** failure of a step, **O** order or loss of messages,
**C** crash and restart, **T** timeouts and retries.

| part | state | operations | hard | what makes it correct | module |
|---|---|---|---|---|---|
| jam-task-core | the aggregate of a task | `apply` of 12 events | O | the status moves along a fixed graph and ends once; its fields agree with it | TaskAggregate, TaskStatus |
| jam-task-store | SQLite: log, keys, projection, snapshots | `append`, `load`, collection of keys | I C T | the tables agree, a message is stored once, a load is a replay | TaskStore, TaskStream |
| jam-task-lifecycle | the store, one node file per task | append, node update, pre-checks, continuation, PR | I O C T | events are stored as what they are; continuations are bounded; a PR is asked for only when there is reason | TaskLifecycle, PreChecks |
| jam-pr-poller | a record per PR | replay, subscription, poll | F C O | every change told once, no merge lost | PrPoller |
| jam-svc-session | the map of active sessions, processes, files | spawn, resume, watch, full stop, archive, purge, drain; readers; messages | I F T C | one end told per Picker, a stopped one opens no PR, output and usage are its own | PickerSession, PickerOutput, PickerMessages |
| jam-svc-message, ui (outbox) | statuses of messages | queue, interrupt, full stop; display | O T | a status never goes back, a late message reaches nobody | PickerMessages |
| jam-svc-worktree | worktrees and branches, fetch cursor | create | I F C | who gets a worktree gets a prepared one; no fetch comes too soon | Worktrees |
| jam-svc-repo | the file of handled artifacts | open-pr; read, reply, mark, review | I F T | the PR answered holds the commits pushed; a mark is kept | PullRequests, ReviewArtifacts |
| jam-patch-agent | staged and active patches, the lock | stage, apply, check, roll back, replace | I F C | a route has a process; a patch is confirmed, undone or an incident | HotPatch, Deploys |
| jam-nats | routing manifest in KV, a cache per caller | refresh, resolve | I O | the cache follows the route | RoutedCalls, HotPatch |
| tool services' loop (jam-svc-supervise and others) | requests under way | take, answer, drain | I | what was taken is answered before the process ends | RoutedCalls |
| jam-svc-supervise, jam-cli pause | pause flag and record | pause, resume, spawn | I F | a paused dispatch spawns nothing | DispatchPause |
| jam-cli deploy, auto-deploy.sh, jam-ui-server deploy | mark, builds, bundle | build, request, wait | I F T | what is reported deployed is what was declared | Deploys |
| jam-cli setup, canonical-worktree; the canonical Tempyr worktree | branch, checkout, a node per task | create, recreate, replay | I O F | the nodes rebuilt are those the daemon would have written; commits of people stay | CanonicalGraph |
| jam-journal, jam-nats-bridge, jam-journal-reconciler | files of the day, session store | append, acknowledge, ingest, rebuild | C O F | what was acknowledged is on disk, each event has one message | JournalPipeline |
| jam-svc-observe | cache of snapshots; the quota fold | compile, delta, invalidate, derive | I O | a snapshot shows what was so, a delta misses nothing, a quota is not shown better than it is | SnapshotCache, WorldFacts, QuotaLedger |
| jam-svc-search | Brave's cooldown, a crawl | search, extract, crawl | I F | private queries stay private unless the backend is fixed, cooldowns are kept | SearchService |
| jam-svc-research | files of a research | request | F C T | what is called completed is stored | ResearchRuns |
| jam-clock-watcher, jam-harness-watcher, jam-skill-suspicion | what was told | look, tell | I C | an alarm has a cause, a cause an alarm | Watchdogs |
| jam-ntfy-bridge | topic, install id | post to the phone | F T C | once, in order, one topic | NtfyBridge |
| jam-stall-detector | per session: activity, tool calls | observe, tick | O C | a reported stall was one, told once | Watchdogs |
| jam-trunk-fetcher | worktrees, trunk's head | fetch, count, tell | O C F | moves in order, staleness told when it changes | Watchdogs |
| jam-tempyr-write-reconciler, jam-tempyr-pr-reconciler | pending writes; none | retry; find candidates | T F C | one outcome, true; no reference overlooked | TempyrReconcilers |
| jam-svc-knowledge, jam-svc-evolve | inotify watches; none | watch, tell; evolve | I | a change that was seen is told; the skill that was named is evolved | SkillWatch, SkillEvolution |

How they interact: the session service journals `picker.spawned` and
`picker.exited`, the repo service `pr.opened`, the poller `pr.merged`,
`pr.review-received`, `pr.ci.status-changed` and `pr.merge-conflict-detected`;
jam-task-lifecycle subscribes to `journal.>`, stores what concerns a task and
reacts by asking the session service for continuations or the repo service for
a PR. jam-nats-bridge writes the same events to the files that daemons replay
when they start and that jam-svc-observe folds into snapshots. Tool calls go by
the routing manifest, which the patch agent rewrites under the callers. Messages
on plain NATS are lost to who is not subscribed; only jam-nats-bridge has a
durable consumer.

## How the modules are built

    TaskAggregate   the aggregate as data and operators, with lemmas (no variables)
      TaskStream    abstract store: one stream per task      -- implements TaskStatus
      TaskStore     SQLite and append_to_store               -- implements TaskStream
        TaskStoreProofs      theorems about the store
      TaskLifecycle the daemon's handlers over TaskStream
        LifecycleProofs      theorems about the stream and the daemon
    TaskStatus      the graph of statuses
    PreChecks, PrPoller, PickerSession, ...   one module per component, as above
        PickerProofs         PickerSession, PickerMessages, PickerOutput,
                             Worktrees, PullRequests, PrPoller
        ServicesProofs       the other parts of MCServices, and all of them together
        ToolsProofs          invariants of the tools: SearchService, ResearchRuns,
                             TempyrReconcilers, PreChecks, WorldFacts, ReviewArtifacts,
                             CanonicalGraph
        DeploysProofs        Deploys
        DaemonsProofs        the other parts of MCDaemons, and all of them together
    MCTaskStore, MCTaskLifecycle                           one component for TLC
    MCServices, MCDaemons, MCSettled                        many components for TLC

A module has the component's state as variables, one action per handler or per
stretch of a handler between two awaits, and the environment as actions of its
own (GitHub, git, the kernel, a Picker, an operator). Each call that may fail
does so when its name is in the module's set of faults (`PickerFaults`,
`RoutingFaults`, ...) so that a run says which faults it allows. Deaths, retries
and input are bounded by constants whose names begin with `Max`.

**The composites.** MCServices, MCDaemons and MCSettled put modules that share no
variable into one run: the variable `part` names the component that this
behaviour runs, `Only(p)` keeps the others as they start. The states checked are
the sum and not the product of the components' states, and each property says
of every part what its own module's run would say. Components that do interact
are in one module instead (the message service, the session service and the
outbox in PickerMessages; bridge, journal and reconciler in JournalPipeline; CLI,
driver, dashboard and patch agent in Deploys) or are built one over the
other (TaskLifecycle over TaskStream).

**The store.** `Apply` of TaskAggregate is `TaskAggregate::apply`,
`ComputeTransition` and `ApplyFields` its halves, `RecordMetadata` the branch for
finished tasks. TaskStore has the four tables and, for each process, how far
its append has come. `Receive` is the first load of `append_to_store` with the
translation of the message, `ReadVersion` the second load, `Begin` the reads of a
transaction, `Commit` its writes. Between any two of these another process may
commit, keys may be collected or the process may die. A deferred SQLite
transaction whose snapshot was overtaken fails at its first write with
SQLITE_BUSY_SNAPSHOT: `Overtake` marks it, `Rollback` is the error. `MeetConflict` and
`Retranslate` are the one retry after a version conflict; `OutdateSnapshot` is a
snapshot that no longer parses, for which a load replays from scratch.

**The lifecycle daemon.** A published message waits in `inbox`; a record of
`handlers` is one that is being handled, with its place in `handle_message`:
`Store`, then `JudgeExit`, `OpenPrAnswered`, `AskAfterFeedback`, `GoOn`, `GiveUp`,
`Resume`, then `ReadNode`, `TruncateNode`, `WriteNode`. A handler in a place of
`Holding` has a worker thread. The runtime is tokio's with as many workers as the
machine has cores; every run has two, so that handlers interleave at each step and
messages are taken in any order. `sessions` and `handoff` are
the session service as this daemon meets it, `prs` is GitHub. The commands of
`JudgeExit` are a choice there and steps of their own in PreChecks, where the
worktree's Picker, or another, works between two of them.

**Pickers.** In PickerSession every request and every watcher is a task of its
own; they meet at the record of the session in the map, whose lock none keeps
across an await: a step is what happens under one lock. PickerOutput has the two
readers, the usage log that the next launch truncates and the exit watcher that
reads it. A record is in the map before its watcher is started (`Register`,
`StartWatcher`), and a purge tells task.abandoned and then session.purged.
PickerMessages follows one message from the command to the outbox.

**Worktrees and PRs.** In Worktrees several repositories share the fetch cursor and the
two mutexes; a fetch may fail, a trunk may not be found, a directory may be without
its `.git`. PullRequests is open-pr with its four commands and GitHub between them.

**Patches.** HotPatch is staged versions, the lock, the manifest and its history,
installation, health checks, drain and rollback, each with its errors before and
after the swap; RoutedCalls is the same manifest seen by callers with caches; Deploys is everything around the swap: builds at one path,
hashes, bundles, the wait for the outcome, and the strategies that do not swap.

**Reading side.** JournalPipeline writes a line in two writes, which a death may
cut. SnapshotCache has requests that compile and answer while events and
invalidations arrive; WorldFacts is what one compilation makes of files that
grow under it; QuotaLedger folds usage, signals and refills into windows.

**The canonical graph.** CanonicalGraph has git's branches, the checkout, the journal's
files and the nodes. `DaemonApplies` is `Transition::apply` of jam-task-lifecycle,
`ReplayApplies` is `apply_replayed_event` of jam-cli, two readings of one journal;
a command is a sequence of steps (`RemoveTree`, `AddTree`, `PrepareDirectory`,
`ReadJournal`, `ReplayLine`) between which the daemon and the bridge act.

The other modules follow one daemon's loop each; their header says what is
around it. `told`, `journaled`, `heard` and the like are history for properties.

## Runs

| run | instance | shows |
|---|---|---|
| task_store | 2 processes and 4 messages of one task in any order, or 1 process and 6 messages of two Pickers; snapshot every 2 events | `StoreSafety`: projection and log agree, a load is a replay, the retry stores what fits (`ProjectionInSync`, `LoadIsReplay`, `RetryIsFresh`); `KeyOnce`: a message is stored once, for ever; `StreamImplemented`: loads implement TaskStream; `AloneMatchesJournal`: one process counts continuations in the phase the task was in and knows the current session, whatever comes late |
| task_lifecycle | 2 workers, cap 2, 1 PR, 1 poller event, all faults; 2 Pickers with handlers that overlap everywhere, or 3 and 1 death with handlers that begin in order | never two Pickers in a worktree; `CapHolds`: no more Pickers before a PR than the cap, no failed task that did not ask as often; `UnreadableWhileWritten`: until the daemon dies a file that does not parse is being written |
| task_lifecycle_settled | 2 workers, 2 Pickers and 1 resumed by an operator, no fault, fair | every end of a Picker leads to a PR, a Picker or a finished task, where spawns are stored before ends |
| services | eleven parts, every fault | the table below |
| daemons | twenty-two parts, every fault | the table below |
| settled | seven parts, fair, with the faults they outlive | the liveness table below |
| pr_poller_dropped, task_lifecycle_threads, task_lifecycle_resume, dispatch_pause, deploys_mark, pre_checks | the smallest that shows it | refuted: see "What the runs found" |

What the properties of **services** say, by part:

| part | property |
|---|---|
| trees | `PreparedWhenAnswered` (who gets a worktree gets a prepared one, unless a preparation of it was cut short before); `FetchOncePerWindow` (no fetch within the window of the last) |
| pickers | `EndToldOnce` (exit or kill, not both), `StoppedOpensNoPr`, `PurgedIsDead`, `SpawnToldFirst` |
| messages | `DeliveredIsWritten`, `LateMessageRejected`; `ShownOnlyGrows` (the outbox never shows less than before) |
| output | `FirstOutputOnce`, `NumbersUnique`, `UsageNotOfNext`, `ExhaustedIsOwn` |
| pulls | `PushedIsProposed`, `AnsweredIsTold` |
| patches | `RouteHasProcess`; `ManifestMovesLocked` |
| routing | `CacheFollows`, `TakenIsAnswered`, `FailedWasReplaced` (only calls to a replaced version fail) |
| journal | `AckedIsWritten`, `MessageOnce`, `EndsStay`, `RebuildIsComplete` |
| dispatch | `PauseHolds` |
| snapshots | `DeltaNeverMisses` |
| quotas | `SignalNotDowngraded`, `FullWindowIsExhausted` |

and of **daemons**:

| part | property |
|---|---|
| stream | `StatusGraph` (TaskStream implements TaskStatus), `TerminalIsFinal`, `TerminalOutcome`, `ReviewHasPr`: every order of up to 7 events |
| poller | `OnlyChangesTold`, `ReviewsAccounted`, `ActedOncePerCause` (one update-branch per head, one merge per PR; one conflict per head in each life) |
| prechecks | `ChecksAreTrue` |
| world | `WorldIsTold`, `ReadyIsSound` |
| reviews | `ReadIsCurrent`, `MarksAreKept` |
| graph | `GraphRestored` (two programs make the same node of one journal), `EditsKept` |
| driver, operator, dashboard | `ConfirmedIsDeclared`, `SinglesFollowMark`, `BundleServed` |
| search, crawl, research | `SearchSafety`, `CooldownKept`; `CrawlSafety`; `CompletedIsStored` |
| writes, merges | `OutcomeIsTrue`; `CandidatesFollow` |
| knowledge, evolution | `ChangeIsTold`; `EvolvedIsNamed` |
| clock, harness, suspicion | `ClockIsReal`, `DriftIsReal`, `SuspectedOnce` |
| ntfy, stalls, trunk | `NotifiedOnce`; `StallIsReal`; `StalenessIsTold` |

Each is stated in full above its definition, with the code it is about.

**Bounds.** They are set so that each case happens that a property is about,
and the mutants of PROJECT.json show that it does: a change of the code that breaks
the property is found within these bounds.

* Stream: seven events reach every status, from each a late event, and a second
  Picker or PR after the first. The keys bound the length; they are spent in
  one order, for in the stream alone they are alike; in the run daemons searches
  begin in one order too.
* Store: two processes are enough for every pair of steps to race; four
  messages contain one whose meaning depends on another. `SnapshotEvery` is 20 in
  the code and 2 here, so that snapshots, tails and replays from scratch occur.
* Lifecycle: the cap is 2 instead of 5 and there is one Picker more than it lets
  the daemon launch, so that a bound exceeded would show. Pickers that the daemon
  launches differ in name only: they, like the store's processes, are symmetric
  in these two safety runs. Two workers and `MaxBacklog` 2 let every two handlers
  overlap, in the half of the behaviours that has two Pickers, no operator and no
  death; in the other handlers begin in order and hold a worker one at a time
  (MCTaskLifecycle). The theorems are about every overlap.
* Pickers of `services`: the session service ends under one Picker at most
  (`EndsUnderOne`); two Pickers interleave without that. `PickerSafetyHolds` is
  about both at once.
* Poller: one PR, opened once, three changes of it, two deaths, the second of which may be in
  the poll after a restart. PRs are independent: `records` has an entry each.
* Calls that run at once (creates, open-pr, searches, deploys, marks, callers of
  a snapshot) are two, and three where the code has a winner, a loser and one
  that comes later: worktree creation with its fetch, and the cooldown, whose
  defect needs two calls under way while a third asks.
* Clocks go beyond the longest age, window or cooldown compared, and ages stop at it.
* Thresholds and page sizes are 1 or 2 with one item more than fits: the loop
  length, the dead ends of a skill, `ListPage`, `ThreadPage`, `AnswerSize`.
* Faults may strike anywhere unless counted: deploys allow one fault (and
  without faults the operator, and for one commit), review artifacts one,
  pre-checks one failing command or one commit made meanwhile, world one line
  that is delivered again. A worktree under the pre-checks has at most one
  defect to begin with, whatever its commits are.
* Canonical graph: the daemon and the bridge meet a command in every way around two
  events of one task. Four events are told to a worktree that is set up, with
  any of them handled in any order or not at all, before one command; a task
  of which something is told after its end is not looked at there, for the
  property leaves it out.
* Parts whose start is open (what a skill file says, which page links to which,
  which backends are configured) have every start, each only where it runs.

Deadlock is not checked: every instance ends, by its bounds, where nothing more
can happen.

**Fairness.** Weak unless said otherwise, and none of people, GitHub, providers,
the planner or a Picker.

| part | fair | because | shows |
|---|---|---|---|
| pickers | `Watch`, `Serve` of each Picker | each is a task of its own | `EndIsTold` |
| messages | `Timeout`, `Answered`, `PublishStatus` of each message | a timer of the browser, a reply, the next line of a handler | `PendingEnds` |
| patches | `AgentStep` | one loop, every wait in it has a timeout | `PatchSettles` |
| journal | `Bridge` | a durable consumer redelivers; the supervisor restarts the bridge | `EventReachesDisk` |
| snapshots | `Journaled`, `Invalidate`, `GrowOld`, `ReadFacts` or `Answer` of each caller | the bridge above, a subscription, time, a request | `SnapshotCatchesUp` |
| poller | `Load`, `Subscribe`, `PollStep`; strongly `Fetch`, `HandleOpened` | the interval ticks for ever and `select!` chooses at random between branches that are ready: a poll in between disables the other again and again | `MergeSettled`, through two deaths |
| research | `ResearchStep` of each run | polls are counted, waits have timeouts | `ResearchEnds` |
| task_lifecycle_settled | `DaemonStep` | the daemon does not stop while a message waits; its requests have timeouts | `ExitIsSettled` |

`settled` leaves out the faults that leave something for a human by design
(a failed publish of an exit, an agent that dies in a patch, an unrecoverable
remote): the properties' own comments name what else they except. `ExitIsSettled`
is about spawns that are stored before the end or the PR of their Picker
(`StoredInOrder`). Handlers run at once, so the code does not make sure of that: a
spawn stored after the PR makes the task Active once more with nobody at work.

## What the runs found

* `pr_poller_dropped`: a merged PR's status is journaled as closed, then the call
  for its touched paths fails. `poll_records` drops every record with status
  closed, so `pr.merged` is not journaled until a restart replays the record.
  A replay keeps closed PRs that have no merge: `MergeSettled` holds through deaths.
* `task_lifecycle_threads`: the guard that keeps a merged node merged looks at a
  status that was read before another handler wrote "merged". The runtime is
  multi-threaded and nothing locks the file. The run has the same two workers as
  `task_lifecycle`, whose properties hold all the same.
* `task_lifecycle_resume`: PR feedback asks for a continuation in the name of
  "synthetic:<task>"; the session service takes the harness from that prefix
  and refuses. No review reaches a Picker by itself, but each counts toward the
  cap. `OnePickerPerWorktree` holds thanks to that refusal only: its mutant,
  which accepts the placeholder, has two Pickers in a worktree.
* `dispatch_pause`: after an incident the patch agent pauses dispatch under keys
  that nobody reads.
* `deploys_mark`: in a clean workspace every build has the same version, and a
  version that is routed to already is confirmed without a change. The second
  merged change of a swapped service is never deployed, and the mark passes it.
* `pre_checks`: each `--not` of `git rev-list` turns the sense of what follows, so
  the second name of the trunk is counted in. A branch without commits of its
  own passes as ready.

Seen in the models too, without a run of its own. Some contradict a document,
which is named; the rest is what the code does and a reader should know.

*Tasks and PRs.*
`pr.opened` between the poller's replay and its subscription is missed until it
restarts; one that comes again for a tracked PR replaces its record, and the
next poll journals its status and CI again: the poller's properties are about
PRs opened once (`OpenedOnce`). The ETag of a PR is stored before what is new in it is
journaled (main.rs:561). When the publish of new comments fails, the next poll gets
a 304 and they are not told until the PR changes again: `ReviewsAccounted` says
that they are owed, not when they are told. A replay does not rebuild the head
whose conflict was told (main.rs:412), so a restarted poller tells it again and
another Picker is asked for; `ActedOncePerCause` is about conflicts in one life.
A task that was abandoned and that an operator then resumes (ui-server
main.rs:1107) is continued without bound: a finished task counts no
continuations (aggregate.rs:151), so `can_continue` (:531) stays true, and the
"guards against runaway continuation loops" of post_picker.rs:277 do not hold.
The proofs of the cap below are for tasks that no operator resumes.
A second process on the store's database may store a PR between the two loads
of `append_to_store` without a conflict, hence without a retry:
`AloneMatchesJournal` is about one process, whose mutex spans both.
The store says PostPicker while a continuation works (adapter.rs:21). The
continuation that reaches the cap is refused already, one less than
`dec-post-picker-coordination.md` says. A non-zero exit makes the node "failed",
final for the node and not for the store.
In the pre-checks a failing `git status` counts as a clean tree; a failing remote
or default-branch command sends the PR to the configured repository or base; a
title longer than jam-svc-repo allows passes; and while the store is down the
continuations are counted in today's journal only.
Auto-merge is armed before `pr.opened` is journaled; an empty list of checks
counts as passed. The two looks that `prepare-merge` and `request-human-merge`
take at GitHub may disagree; they only advise, and GitHub decides.

*Sessions.* The end of a Picker that gets a signal is not told; Pickers that
outlive the service, or whose `picker.spawned` could not be published, belong to
nobody; a purge may remove a worktree that another Picker uses; a worktree whose
preparation failed is handed out by the next call. All repositories share one
cursor of the last fetch, which moves also when the fetch failed (jam-svc-worktree
main.rs:511-559): within the window a branch of another repository, or of the one
whose fetch failed, is cut from older refs than
comp-worktree-create-protocol.md:20-22 promises. `FetchOncePerWindow` says only
that no fetch is made too soon, `BranchedFresh` that the refs are those of the
window; a proof has it for one repository that answers, and no run asks for it
of several. A message published after a full stop's command may
still be written to the Picker ("`kill` takes precedence", comp-jam-svc-message.md). A full stop uses the unversioned subject, which a
patched service does not serve.

*Patches and deploys.* A caller that meets a stale route refreshes beside the loop
that follows the manifest; its store may come last with an older manifest
(routing_manifest.rs:220), which stays until the next swap. `CacheFollows` is about
all other refreshes. The first patch of a service never drains its unversioned
process. A rolled-back version may stay routed to (comp-rollback-flow.md:27), two
processes may share a prefix (comp-atomic-swap-procedure.md:18) and the lock of an
agent that died does not come free (:26). Errors of the strategies that do not swap are only
logged, so the client waits until its timeout; a process whose start fails stays
stopped; a file rebuilt between the agent's check and its copy is installed under the
declared name; a deploy of the dashboard's server ends the request that asked
for it; concurrent bundle syncs nest directories; a change in a shared crate
deploys nothing and the mark moves on; one failed service ends auto-deploy.sh's
loop, whose header says that it goes on.

*Journal and reading side.* A write error of the disk is acknowledged; a line cut
by a death does not parse (writer.rs:216) and ends a rebuild; an event known to
the session store may lack its message after a death. A spawn by the dashboard
ignores the pause (ui-server main.rs:1043). A delta may miss what another
caller's refresh brought when callers overlap (api-world-snapshot-delta.md), and
the cache may keep for its TTL what was compiled before a heard event was in the
files (comp-world-snapshot-cache.md).
The API budget is not charged for every use (comp-jam-svc-observe.md:65).
In a snapshot the end of an earlier Picker marks the newer session ended;
redelivered lines count reviews twice and move a merged PR back to open; the
picker file is read before the PR file. compute-readiness is never NotReady and
ignores CI, staleness and reviews (api-compute-readiness.md:18); one write that
failed for good keeps every task at ReadyWithWarnings, and once the trunk fetcher
has told of staleness mergeability is unknown for good. Review artifacts are read one
page deep; all summaries are listed as Open; marking "Open" does not unresolve
a thread; a reply that timed out may be posted twice.

*Canonical graph.* The replay of jam-cli lacks the guard that keeps a finished node in
the daemon (jam-task-lifecycle/src/main.rs:462): after a late spawn or PR it makes a
merged task live again, which `EndIsLast` excepts, although
comp-canonical-tempyr-worktree.md:34 says "no data loss". A node the daemon writes
between the removal and the new checkout makes the directory anew: git refuses
the path, the next recreate cannot remove it, and `jam setup` takes it for the
worktree. A recreate that failed after the removal is a first creation when it is
tried again and keeps the branch's task files, and a line that does not parse ends
it with the nodes gone. Edits that people have not committed are removed. Where the
branch exists locally the worktree is made of it (jam-cli/src/main.rs:2892), without
what was pushed to the remote beside it: `EditsKept` asks for those only where
there is no local branch.

*Daemons and tools.* A success or an older call clears or moves back Brave's
cooldown (comp-search-router.md:31), which `CooldownKept` excepts; a restart forgets
it. Configured to one backend the search service sends private queries there too
(jam-svc-search/src/main.rs:724); Firecrawl's answers
without pages are followed without bound. Two research requests of one trace
and scope share their files; a failed one is never journaled as ended.
jam-ntfy-bridge truncates between bytes of a letter and ends there; an empty
install-id file refuses every start. The stall detector makes a dead Picker's
session anew from late output, which `StallIsReal` counts as another life of it, and a
session that only calls tools is idle to it. Trunk's move is not told when another service fetched it; a
`worktree.created` between replay and subscription is missed. A Tempyr write is
run again when its outcome could not be told; a `pr.merged` without paths ends
the PR reconciler and every replay after it. jam-svc-knowledge does not watch a
directory made again under an old name, nor a file that
was in a new directory before its watch: `ChangeIsTold` is about what changes under
a watch. An earlier unreadable skill fails an evolution whose skill
comes later. Harness and skill alarms come again after a restart.

## Proofs

A theorem is for every value of the constants that the named `ASSUME`s of its
modules allow: the bounds of the runs play no part, any number of tasks,
sessions, PRs, callers, processes, faults and deaths is covered. Every safety
and step property of the runs task_store, task_lifecycle and services is proved,
and in daemons all but `GraphRestored` and the types of the graph.

| property of a run | theorem | holds beyond the assumptions if |
|---|---|---|
| `StoreTypeOK`, `StoreSafety`, `KeyOnce`, `StreamImplemented` | TaskStoreProofs: `StoreTypeCorrect`, `StoreSafetyHolds`, `KeyOnceHolds`, `StreamImplementedHolds` | |
| `AloneMatchesJournal` | TaskStoreProofs: `AloneMatchesJournalHolds` | the journal has no ContinuationDispatched |
| `StreamTypeOK`, `TerminalOutcome`, `ReviewHasPr`, `TerminalIsFinal`, `StatusGraph` | LifecycleProofs: `StreamTypeCorrect`, `...Holds` | |
| `LifecycleTypeOK` | LifecycleProofs: `LifecycleTypeCorrect` | |
| `OnePickerPerWorktree`, `CapHolds` | LifecycleProofs: `OnePickerHolds`, `CapHoldsAlways` | no operator resumes |
| `UnreadableWhileWritten` | LifecycleProofs: `UnreadableWhileWrittenHolds`, for any number of worker threads | |
| `PickerSafety` | PickerProofs: `PickerSafetyHolds` | |
| `PickerIoSafety`, `ReadersSafety`, `ServicesSteps`, `ServicesTypeOK` | ServicesProofs: `...Hold(s)`, `ServicesTypeCorrect`, of the composed run | |
| `PreparedWhenAnswered`, `FetchOncePerWindow` | PickerProofs: `...Holds` | |
| `BranchedFresh`, in no run | PickerProofs: `BranchedFreshHolds` | one repository with an origin, its fetches succeed, its trunk is found (`OneOrigin`) |
| `PullSafety`; `OnlyChangesTold`, `ReviewsAccounted`, `ActedOncePerCause` | PickerProofs: `...Holds` | |
| `RouteHasProcess`, `RoutedSafety`, `JournalSafety` | ServicesProofs: `...Holds` | |
| `DaemonsSafety`, `CooldownKept` | DaemonsProofs: `...Holds`, of the composed run | searches in the composed run begin in one order (see below) |
| `DeploySafety`, part of `DaemonsSafety` | DeploysProofs: `DeploySafetyHolds`, of deploys alone | |
| `DaemonsTypeOK` but for the graph | DaemonsProofs: `DaemonsTypeCorrect`; PickerProofs: `PollerTypeCorrect`; LifecycleProofs: `StreamTypeCorrect` | |

The last column names what the code needs to keep the promise. The daemon
translates no message to a ContinuationDispatched (adapter.rs); only the
aggregate knows that event. What breaks with operators and with several
repositories is under "What the runs found".

**Store.** `StoreInv` joins to the types that a load is the replay of the log,
that the projection is in step, and two facts about a process under way:
`RetryFits` (a second attempt expects a version the stream had when the first
failed, and if it still has it, its event was translated at that head) and `WriteFits`
(a transaction nobody has overtaken writes an event that the head accepts). They
are what SQLITE_BUSY_SNAPSHOT gives the code. `KeyOnce` needs none of this: the
unique index is enough by itself (`KeyInv`). A replay is a recursive
function over the log, so what is proved of it needs induction: `SetInduction`
is about a set of numbers and not an operator, from `LeastNumber` (a set of
numbers that is not empty has a least member: `WFMin` and
`NatLessThanWellFounded` of the library). By it a replay unfolds (`ReplayUnfolds`),
streams that begin alike are replayed alike (`UnfoldsAlike`), and one event
more is one event applied (`ReplayAppend`). `CardInv` adds for a process that is
alone that its event is translated at the head, from which the phase of each
continuation and the session of a living task follow, event by event.

**Refinement.** TaskStore implements TaskStream: a commit is one `Append` there,
all else a stutter. TaskStream implements TaskStatus: `ApplyMovesAlongGraph` lists the
moves that an event can make. `TerminalOutcome` is not inductive by itself: that a
merged task has a PR needs that a task in review has one, and `ReviewHasPr` that no
merge is recorded of the PR of a task that is still in review; `StreamInv` joins
these to the types.

**Lifecycle.** `WrittenInductive`: a node that is truncated is in the hands of a
handler that is about to write it, and two of them write whole files, one
after the other.
`TurnInv`: what leads to the next Picker is a running Picker, the message of its
end, the continuation it asks for, or the handler of one of these, and there is at
most one of all of them. `FailedInv`: what was counted was stored, and whoever
fails a task saw the cap. `BeforePrInv`, while there is no PR: each Picker asks
for a continuation once, a task that is over has no turn left, and the Pickers
started are at most one more than the continuations counted.

**Pickers.** `PickerInv` relates what launch, watcher, full stop and purge of one
session know: the mark made under the lock lets either the watcher or a stop
report the end, and neither gives its part back. `MessageInv`: a message travels in
the mailbox of its mode, no status says more than happened, and what is late is
not about to be written. `OutputInv`: a line is in the pipe, with a reader or
numbered; a number is in the log or held by one reader; a session is launched
when all exits before it are told.

**Repository.** `TreeInv`: a raw worktree belongs to the request that prepares it
or was spoilt; with `FreshInv`, refs are never older than the cursor. `RepoInv`:
an open PR shows what was pushed last, and what a call has found (a push, a
number) stays true under any command of another call or
one that comes late. `PollerInv`: a record, wherever it is (the map, the
poll under way, what a replay of the journal gives), agrees with the history of
what was told; every publish moves both or ends the poll; a PR whose merge
was told is closed everywhere. It is for PRs opened once, however often others are.

**Patches, routing, journal, readers.** `PatchInv`: where the agent may touch
manifest or processes it has the lock; a candidate is not the route and runs; what
it drains is another version. `RoutedInv`: nothing of the callers is ahead of the
manifest, and the cache is current when no update waits. `PipelineInv`: what is
about to be acknowledged is on disk; who inserts a message inserted its key,
after its session; of what was on disk when the reconciler starts, all is in the
store or ahead of its cursor. `DispatchInv`: while a pause binds anybody both keys
say paused and no resume is under way. `SnapshotInv`: when callers take turns, every
snapshot known was taken before the one about to be answered. `QuotaInv`:
what is folded keeps the last signal and the times of the uses; the fold is taken
apart like the replay.

**Tools.** `SearchInv`: while the last Brave call failed the cooldown is as that
call set it. `CrawlInv`: what is taken or queued is each page once, nearest
first (`NearestFirst`, `SeenInv`), and no page within k links of the root is passed
over as long as nothing nearer waits (`DepthInv`), so a crawl that stops at its limit
has the nearest pages. `ResearchInv`: a file is the run's own and whole once the run is
past it, unless another of its trace and scope has come between, which is what
reading back finds. `WriteInv`: the outcome at hand is not told yet by this life of
the process. `SyncInv`: what is left to tell, and, in a replay, how much of the
journal is behind it. `PreCheckInv`: what the checks have found past each step is
true of a worktree that nobody disturbs. `WorldInv`: a compilation under way has read a
beginning of each file, and counts the writes that failed in it. `WorldReadInv`: of each
file it has read, what it found is so of the lines up to one of them, not before those
that were there when it began (`ReadSoFar`), and of the others it has found nothing
(`Unread`). What a fold makes of a file is compared line by line with what the lines say
without it (`UpTo`), which needs that they come in the order in which the services
publish (`InOrder`): a Picker ends once and after it was spawned, a write is settled
once. `ReviewInv`: a thread is resolved
for a mark that is in the file or about to be (`ResolvedInv`). `EditsInv`: what people
have committed is on the local branch, or else on the one it is made of.

**Watching daemons.** `DriftInv`: what a check read of pin and binary is what was so at some
moment of it, and what differed throughout still differs. `SuspectInv`: what is new
differs from all that was published. `NtfyInv`: the topic is the one configured, or that of the
file once it is there; what waits is newer than what the phone has. `StallInv`: for each Picker there is a
place in its output up to which the detector has heard, and the session counts the
calls of one tool since a place before it (`Waits`, `Counts`); who may still be
told silent has entered the map once more than it was told (`SilenceInv`). `TrunkInv`: what
the fetcher knows of a worktree is what it told last (`KnownIsTold`), what
arrived is known of nobody yet, moves end where the next begins or before. `SkillWatchInv`:
a change that is not told is in the channel, or in the kernel's queue under a directory that
is watched. `ScanInv`: what goes by the name throughout is among the files to look at.

**Deploys.** `DeployInv` has a part for each promise. `DoneInv`: who reports a success was
told of it. `AgentInv`: of what the agent works on, the order *asked for, checked,
installed, running* is one of builds that do not get older; nothing is installed that
was not built, nothing built that was not in the sources. `HashInv`: a client
about to ask has a hash of a build, not of one to come. `CronInv`: for each target that
the commits ahead of the mark touch, the driver's run still has it to do, or waits for an
answer that can only be given once the build of its commit runs, or that build runs
(`CronRunOK`), and so the mark may pass (`MarkShips`). It is about single processes
and binaries: for swapped services it is false (`MarkIsDeployed`). `UiInv`: until two syncs meet,
one client at most is at the dashboard, and whoever is between build and publication has
made a bundle as new as what it asks to be started.

**Composition.** A step of MCServices is a step of one part and a stutter of the
others (`PartSteps`), so the composed specification implements each part's
(`PartSpecs`), and what is proved of a part holds in the run, for any sizes. In
DaemonsProofs the invariants of the parts are joined in one, `DaemonsInv`, which `PartSteps`
carries from step to step.

**Assumptions.** Besides sizes that are numbers and sets of faults that are among those
modelled, they are: the three lists that a loop of the code goes along, skill files of a
directory, nodes of the graph and names of the trunk, have each member once; no
run of research is called "none", no session id stands for no Picker, and no write to the
graph is called as a dead end is; the driver, operators and requests of the dashboard
are different clients, and what they ask for are targets, the dashboard's server one of them.

Not proved: liveness and what needs ENABLED, which are out of the provers' reach
(`ExitIsSettled`, all of the run settled, the refuted properties); and of the run
daemons `GraphRestored` with the types of the graph, which are model-checked. The nodes
that are rebuilt are a fold of the journal's lines in the order of `SortSeq`; both take
an operator as a parameter, which the provers cannot instantiate.

## Abstractions

* Texts, timestamps, harness names, branches: no property tells them apart. Where
  one does the conversion is modelled: the truncation of a notification by the
  width of its letters, the form of a PR's title by whether it has one.
* In a module that is not about the bus a publish is in the journal at once or
  lost; JournalPipeline, PickerMessages and Watchdogs have the bus.
* In TaskLifecycle reviews stand for failing CI and merge conflicts too, which
  are handled alike. The task is requested and stored when it starts.
* In PrPoller a draft is a status like another, and any record may be polled
  whenever the poller is free. A PR's body has a revision, which is its ETag.
* WorldFacts is one task and the files that concern it; its `WorldIsTold` is of
  lines written once. ReviewArtifacts is one PR. JournalPipeline is the files of
  one day in the order of their names.
* Errors other than the modelled ones (a disk that is full, a file that is not a
  database) end in the same `Err` branches.

## Not modelled

* Within modelled crates: the command lines, environment and sandbox of harnesses
  and the dashboard's queries of jam-svc-session and jam-ui-server;
  worktree-diff and find-conflicts, which only read; pr-status, which forwards to
  gh; prepare-merge and request-human-merge, which read GitHub and advise or notify
  a human; notify-human; what the CLI prints; the views of the ui; the redaction of
  secrets in jam-journal; paths, hashes and contracts of jam-tools-core; the thin
  client of jam-nats.
* jam-setup (one-off checks of an installation), jam-events (types generated from
  schemas), jam-trace (immutable ids), jam-secrets (reads files), jam-untrusted
  (wraps text): no state that changes after it is read.
* maestro: prompts; the order of its calls is a language model's.
* tools, scripts and evolution but for auto-deploy.sh: generators, installation,
  experiments.

## Plan

What is left to prove of the run daemons is `GraphRestored` of CanonicalGraph: the
handlers' nodes and the replay's, event by event, with sort and fold written as
recursive functions.
