------------------------------- MODULE MCDaemons -------------------------------
(***************************************************************************)
(* The safety of the daemons that watch something and of the services that *)
(* bring text in from outside, with every fault of the calls they make.    *)
(* They share no variable: as in MCServices a behaviour runs the component *)
(* that `part` names and leaves the others as they start.                  *)
(***************************************************************************)
EXTENDS SearchService, ResearchRuns, Watchdogs, NtfyBridge,
        TempyrReconcilers, SkillWatch, SkillEvolution, PrPoller,
        Deploys, TaskStream, PreChecks, WorldFacts, ReviewArtifacts, CanonicalGraph

CONSTANTS p0, e1, i1, a1, a2, a3

VARIABLE part

Parts == {"search", "crawl", "research", "clock", "harness", "suspicion", "ntfy", "stalls",
          "trunk", "writes", "merges", "knowledge", "evolution", "poller",
          "driver", "operator", "dashboard", "stream", "prechecks", "world",
          "reviews", "graph"}

daemonVars == <<searchVars, crawlVars, researchVars, watchVars, ntfyVars, stallVars,
                trunkVars, writeVars, prSyncVars, skillWatchVars, evolveVars, vars,
                deployVars, streamVars, preCheckVars, worldVars,
                reviewVars, graphVars, part>>

Only(p) ==
  /\ part = p /\ UNCHANGED part
  /\ IF p = "search" THEN TRUE ELSE UNCHANGED searchVars
  /\ IF p = "crawl" THEN TRUE ELSE UNCHANGED crawlVars
  /\ IF p = "research" THEN TRUE ELSE UNCHANGED researchVars
  /\ IF p \in {"clock", "harness", "suspicion"} THEN TRUE ELSE UNCHANGED watchVars
  /\ IF p = "ntfy" THEN TRUE ELSE UNCHANGED ntfyVars
  /\ IF p = "stalls" THEN TRUE ELSE UNCHANGED stallVars
  /\ IF p = "trunk" THEN TRUE ELSE UNCHANGED trunkVars
  /\ IF p = "writes" THEN TRUE ELSE UNCHANGED writeVars
  /\ IF p = "merges" THEN TRUE ELSE UNCHANGED prSyncVars
  /\ IF p = "knowledge" THEN TRUE ELSE UNCHANGED skillWatchVars
  /\ IF p = "evolution" THEN TRUE ELSE UNCHANGED evolveVars
  /\ IF p = "poller" THEN TRUE ELSE UNCHANGED vars
  /\ IF p \in {"driver", "operator", "dashboard"} THEN TRUE ELSE UNCHANGED deployVars
  /\ IF p = "stream" THEN TRUE ELSE UNCHANGED streamVars
  /\ IF p = "prechecks" THEN TRUE ELSE UNCHANGED preCheckVars
  /\ IF p = "world" THEN TRUE ELSE UNCHANGED worldVars
  /\ IF p = "reviews" THEN TRUE ELSE UNCHANGED reviewVars
  /\ IF p = "graph" THEN TRUE ELSE UNCHANGED graphVars

\* A worktree in which at most one thing is amiss, whatever its commits are.
Sound == [there |-> TRUE, dirty |-> FALSE, title |-> "good", body |-> "good", origin |-> "own",
          default |-> "own"]
Defects == {field \in DOMAIN Sound : worktree[field] # Sound[field]}
OneDefect == Cardinality(Defects) + exitCode <= 1
NoDefect ==
  Defects = {} /\ exitCode = 0 /\ worktree.from = 0 /\ worktree.own = 0 /\ \A r \in Trunks : refs[r] = NoRef

GraphIsBare == baseRef = "none" /\ ~gitRefs["local"].there /\ ~gitRefs["origin/branch"].there

\* Which backends there are matters to the automatic choice alone.
HasMatters == configured.mode # "auto" => configured.has = {"brave", configured.mode}

\* What a component finds when it starts is left open only where it runs.
DaemonsInit ==
  /\ part \in Parts
  /\ GraphInit /\ (part # "graph" => GraphIsBare)
  /\ PreCheckInit /\ IF part = "prechecks" THEN OneDefect ELSE NoDefect
  /\ SearchInit /\ HasMatters
  /\ (part # "search" => configured.mode = "auto" /\ configured.has = {"brave"})
  /\ CrawlInit /\ (part # "crawl" => links = [p \in Pages |-> <<>>])
  /\ ResearchInit /\ (part # "research" => ~graph /\ \A r \in Runs : run[r].id = i1)
  /\ PrSyncInit /\ (part # "merges" => \A n \in Range(NodeOrder) : names[n] = {})
  /\ EvolveInit /\ (part # "evolution" => \A f \in AllSkills : scope[f] = "none")
  /\ WorldInit /\ (part # "world" => rooted /\ github = "none")
  /\ NtfyInit /\ (part # "ntfy" => ownTopic = "none")
  /\ WatchInit /\ StallInit /\ TrunkInit /\ WriteInit /\ SkillWatchInit /\ Init
  /\ DeployInit /\ StreamInit /\ ReviewInit

\* Deploys by the driver with everything that may fail, a fault being
\* left out beside a third patch; by hand and by the dashboard next to it for one commit.
Acting(clients) == \A c \in Clients \ clients : deploy'[c] = deploy[c]
OneCommit == Len(origin') <= 1 /\ asks' <= 2
DriverOnly == Acting({Cron}) /\ UNCHANGED tree.edits /\ asks' + deployFaults' <= 3
ByHand == Acting({Cron} \union Operators) /\ OneCommit /\ UNCHANGED deployFaults
ByDashboard == Acting({Cron} \union Requests) /\ OneCommit /\ UNCHANGED tree.edits

\* Links matter only to the crawl that follows them.
LinksMatter ==
  crawl'.at \in {"extracting", "job", "collecting"} => \A p \in Pages : links[p] = <<>>

\* Keys are spent, searches begin, Pickers are spawned and writes are made in one
\* order: in the stream, in the search and in a snapshot alone they are alike.
NextKey == spent' \ spent \subseteq {CHOOSE k \in Keys : k \notin spent}
NextSearch ==
  \A s \in Searches : search[s].at = "idle" /\ search'[s].at # "idle" =>
    s = CHOOSE first \in Searches : search[first].at = "idle"

NextFirst(f, type, ids) ==
  \A x \in ids : ~Has(f, Line(type, x)) /\ Has(f, Line(type, x))' =>
    x = CHOOSE first \in ids : ~Has(f, Line(type, first))
NextLine ==
  NextFirst("picker", "picker.spawned", Pickers) /\ NextFirst("tempyr", "tempyr.write-pending", GraphWrites)

\* A third search comes where Brave is the only backend.
ThirdIsBrave ==
  Cardinality({s \in Searches : search'[s].at # "idle"}) > 2 => configured.has = {"brave"}

\* Two events meet a command in every way.  Of more, none after the end of the
\* task: they come to a worktree that is set up, and one command rebuilds them.
Tied(events) == \E i \in 1..(Len(events) - 1) : events[i].at = events[i + 1].at
FewEventsMeet ==
  /\ published' # <<>> => baseRef = "none" /\ ~gitRefs["origin/branch"].there
  /\ written' # written => published = <<>>
  /\ Len(published') <= filed' + 1
  /\ Len(published') > 2 =>
       /\ gitRefs["local"].has = {} /\ ~torn' /\ ~Tied(published')
       /\ \/ UNCHANGED command /\ command.kind = "ensure" /\ command.at = "done"
             /\ \A t \in GraphTasks : EndIsLast(t)'
          \/ command'.kind # "ensure" /\ command'.count = 2 /\ command'.at # "failed"
             /\ UNCHANGED <<published, filed, unhandled>>

DaemonsNext ==
  \/ Only("search") /\ SearchNext /\ NextSearch /\ ThirdIsBrave
  \/ Only("crawl") /\ CrawlNext /\ LinksMatter
  \/ Only("research") /\ ResearchNext
  \/ Only("clock") /\ ClockNext
  \/ Only("harness") /\ HarnessNext
  \/ Only("suspicion") /\ SkillNext
  \/ Only("ntfy") /\ NtfyNext
  \/ Only("stalls") /\ StallNext
  \/ Only("trunk") /\ TrunkNext
  \/ Only("writes") /\ WriteNext
  \/ Only("merges") /\ PrSyncNext
  \/ Only("knowledge") /\ SkillWatchNext
  \/ Only("evolution") /\ EvolveNext
  \/ Only("poller") /\ Next
  \/ Only("driver") /\ DeployNext /\ DriverOnly
  \/ Only("operator") /\ DeployNext /\ ByHand
  \/ Only("dashboard") /\ DeployNext /\ ByDashboard
  \/ Only("stream") /\ StreamNext /\ NextKey
  \/ Only("prechecks") /\ PreCheckNext /\ works' + failures' <= 1
  \/ Only("world") /\ WorldNext /\ NextLine
  \/ Only("reviews") /\ ReviewNext /\ reviewAsks' + reviewFaults' <= 2
  \/ Only("graph") /\ GraphNext /\ FewEventsMeet

DaemonsSpec == DaemonsInit /\ [][DaemonsNext]_daemonVars

\* Two research providers, one polled; a first skill that dead ends name alone
\* and one named with it; bodies with letters of two widths; the trunk names as
\* the code lists the first of them; two comments with threads and a review
\* without a text.
MCKindOf == (a1 :> "thread") @@ (a2 :> "thread") @@ (a3 :> "summary")
MCBlank == {a3}
MCCandidates == <<"tavily", "sonar">>
MCTagsOf == [e \in Entries |-> IF e = e1 THEN {"a"} ELSE {"a", "b"}]
MCSkillOrder == <<"a", "b">>
MCBodies == {<<1, 1>>, <<1, 2, 1>>, <<2, 2>>}
MCNodeOrder == <<"m", "n">>
MCSkillFiles == <<"f", "g", "h">>
MCLinkings ==
  {(p0 :> first) @@ rest : first \in {l \in SeqOf(Pages, 2) : IsInjective(l)},
                           rest \in [Pages \ {p0} -> SeqOf(Pages, 1)]}
MCStemOf == [f \in {"f", "g", "h"} |-> IF f = "g" THEN "a" ELSE f]

\* The state of every component keeps its type.
DaemonsTypeOK ==
  /\ SearchTypeOK /\ CrawlTypeOK /\ ResearchTypeOK /\ WatchTypeOK /\ NtfyTypeOK /\ StallTypeOK
  /\ TrunkTypeOK /\ WriteTypeOK /\ PrSyncTypeOK /\ SkillWatchTypeOK /\ EvolveTypeOK /\ TypeOK
  /\ DeployTypeOK /\ PreCheckTypeOK /\ WorldTypeOK /\ ReviewTypeOK
  /\ GraphTypeOK

\* What is brought in from outside is what was asked for, what is told of it is
\* so, and an alarm has a cause, is given once and is not left out: searches,
\* crawls, research, skills, writes to the graph, the checks before a PR, what a
\* snapshot says of a task and of its readiness, review artifacts, what people
\* commit to the graph, the clock, the harness, dead ends, stalls, trees, messages
\* to the phone, deploys.
DaemonsSafety ==
  /\ SearchSafety /\ CrawlSafety /\ CompletedIsStored
  /\ ChangeIsTold /\ EvolvedIsNamed /\ OutcomeIsTrue /\ CandidatesFollow
  /\ ChecksAreTrue /\ WorldIsTold /\ ReadyIsSound /\ ReadIsCurrent /\ MarksAreKept /\ EditsKept
  /\ ClockIsReal /\ DriftIsReal /\ SuspectedOnce
  /\ NotifiedOnce /\ StallIsReal /\ StalenessIsTold /\ DeploySafety
===============================================================================
