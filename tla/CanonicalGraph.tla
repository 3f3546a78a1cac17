---------------------------- MODULE CanonicalGraph ----------------------------
(***************************************************************************)
(* The canonical Tempyr worktree: the long-lived checkout in which the     *)
(* lifecycle daemon keeps one node per task, and the commands of           *)
(* crates/jam-cli that create it (jam setup), make it anew and rebuild the *)
(* nodes from the journal (canonical-worktree recreate, replay-tasks).     *)
(* The daemon goes on handling events meanwhile, and the bridge goes on    *)
(* filing them.  How two writes of one node meet is in TaskLifecycle.      *)
(***************************************************************************)
EXTENDS Integers, Sequences, FiniteSets, SequencesExt

CONSTANTS
  GraphTasks,       \* tasks that may have a node
  MaxPublished,     \* lifecycle events
  MaxCommands,      \* runs of the command line
  GraphFaults       \* what may fail: "git", "line"

ASSUME GraphAssumption ==
  /\ MaxPublished \in Nat /\ MaxCommands \in Nat \ {0}
  /\ GraphFaults \subseteq {"git", "line"}

VARIABLES
  gitRefs,     \* git: whether a name is there, and the commits it has
  baseRef,     \* JAM_TEMPYR_BASE_REF, or "none"
  written,     \* edits on its branch: the local one, or the pushed one without it
  checkout,    \* the path: "absent", a worktree or a stray directory; its commits
  nodes,       \* the task files below it
  published,   \* lifecycle events in the order in which they were made
  filed,       \* how many of them the bridge has appended to the journal
  torn,        \* a line of the journal was cut by a death of the bridge
  unhandled,   \* events the daemon has received and not applied
  command      \* the run of the command line

graphVars == <<gitRefs, baseRef, written, checkout, nodes, published, filed, torn,
               unhandled, command>>

Missing == [there |-> FALSE, has |-> {}]
Having(commits) == [there |-> TRUE, has |-> commits]
NoNode == [status |-> "none"]

\* The commits of the graph: one with a task file in it, one of people's edits.
Commits == {"tasks", "edits"}
GitNames == {"local", "origin/branch", "origin/trunk"}

Types == {"task.requested", "picker.spawned", "picker.exited", "pr.opened", "pr.merged",
          "task.failed", "task.abandoned"}
Over == {"merged", "failed", "abandoned"}

\* load_or_new of a task without a file; a file as somebody committed it.
NewNode == [status |-> "backlog", outcome |-> "none", session |-> 0, pr |-> FALSE]
Committed == [status |-> "in-review", outcome |-> "picker-exited-zero", session |-> 0,
              pr |-> TRUE]
CheckedOut(commits) ==
  [t \in GraphTasks |-> IF "tasks" \in commits THEN Committed ELSE NoNode]
NoNodes == [t \in GraphTasks |-> NoNode]
Loaded(node) == IF node = NoNode THEN NewNode ELSE node

\* How the exit of a Picker is written when it does decide the status.
Finished(node, e) ==
  IF e.zero THEN [node EXCEPT !.status = "picker-completed", !.outcome = "picker-exited-zero"]
  ELSE [node EXCEPT !.status = "failed", !.outcome = "picker-exited-nonzero"]

EndedNode(node, e) ==
  [node EXCEPT !.status = IF e.type = "task.failed" THEN "failed" ELSE "abandoned",
               !.outcome = e.type]

\* Transition::apply of the daemon: nothing moves a node that is over, but a
\* merge, and an end moves one that ended otherwise.
DaemonApplies(node, e) ==
  LET over == node.status \in Over
  IN CASE e.type = "picker.spawned" ->
            [node EXCEPT !.session = e.session, !.status = IF over THEN @ ELSE "in-progress"]
       [] e.type = "picker.exited" ->
            LET told == [node EXCEPT !.session = e.session]
            IN IF over \/ node.status = "in-review" THEN told ELSE Finished(told, e)
       [] e.type = "pr.opened" ->
            [node EXCEPT !.pr = TRUE, !.status = IF over THEN @ ELSE "in-review"]
       [] e.type = "pr.merged" ->
            [node EXCEPT !.pr = TRUE, !.status = "merged", !.outcome = "merged"]
       [] OTHER -> IF node.status = "merged" THEN node ELSE EndedNode(node, e)

\* Faulty variant: the exit of a Picker is written whatever the node says.
ReplayUnguarded(node, e) ==
  IF e.type = "picker.exited" THEN Finished([node EXCEPT !.session = e.session], e)
  ELSE IF e.type = "task.requested" THEN [node EXCEPT !.status = "backlog"]
  ELSE DaemonApplies(node, e)

\* apply_replayed_event of the command line: it knows the request as well, and
\* only the exit of a Picker looks at the status.
ReplayApplies(node, e) ==
  CASE e.type = "task.requested" -> [node EXCEPT !.status = "backlog"]
    [] e.type = "picker.spawned" ->
         [node EXCEPT !.status = "in-progress", !.session = e.session]
    [] e.type = "picker.exited" ->
         LET told == [node EXCEPT !.session = e.session]
         IN IF node.status \in {"in-review", "merged"} THEN told ELSE Finished(told, e)
    [] e.type = "pr.opened" -> [node EXCEPT !.status = "in-review", !.pr = TRUE]
    [] e.type = "pr.merged" ->
         [node EXCEPT !.status = "merged", !.outcome = "merged", !.pr = TRUE]
    [] OTHER -> EndedNode(node, e)

\* The files of a day in the order of their names, and the one an event goes to.
JournalNames == <<"picker", "pr", "task">>
FileOf(e) ==
  CASE e.type \in {"picker.spawned", "picker.exited"} -> "picker"
    [] e.type \in {"pr.opened", "pr.merged"} -> "pr"
    [] OTHER -> "task"
LinesIn(name) ==
  LET in(e) == FileOf(e) = name IN SelectSeq(SubSeq(published, 1, filed), in)

Rank(e) ==
  CASE e.type = "task.requested" -> 0 [] e.type = "picker.spawned" -> 1
    [] e.type = "picker.exited" -> 2 [] e.type = "pr.opened" -> 3
    [] e.type = "pr.merged" -> 4 [] OTHER -> 5

\* Faulty variant: the time alone decides.
SortedByTime(lines) == SortSeq(lines, LAMBDA a, b : a.at < b.at)

\* By time, then, as no event carries a number, by the place in a life.
Sorted(lines) ==
  SortSeq(lines, LAMBDA a, b : a.at < b.at \/ (a.at = b.at /\ Rank(a) < Rank(b)))
-----------------------------------------------------------------------------

NoCommand == [at |-> "none", kind |-> "none", replacing |-> FALSE, file |-> 0, lines |-> <<>>,
              quiet |-> FALSE, count |-> 0]
GoesOnAt(pc) == command' = [command EXCEPT !.at = pc]
AtRest == command.at \in {"none", "done", "failed"}

\* What else happens to the graph while a command runs is noted in it.
Disturbed == command' = [command EXCEPT !.quiet = FALSE]

GraphInit ==
  /\ baseRef \in {"none", "origin/trunk"}
  /\ \E own \in {Missing, Having({}), Having(Commits)},
        pushed \in {Missing, Having({"edits"})} :
       /\ gitRefs = [n \in GitNames |-> CASE n = "local" -> own [] n = "origin/branch" -> pushed
                                       [] OTHER -> Having({})]
       /\ written = IF own.there THEN own.has ELSE pushed.has
  /\ checkout = [path |-> "absent", commits |-> {}]
  /\ nodes = NoNodes
  /\ published = <<>> /\ filed = 0 /\ torn = FALSE /\ unhandled = {}
  /\ command = NoCommand

SpawnsOf(t) == {e \in Range(published) : e.task = t /\ e.type = "picker.spawned"}
ToldOf(t) == {e.type : e \in {x \in Range(published) : x.task = t}}

\* What the services may say next of a task: it is asked for first, sessions
\* are numbered as they are spawned, a PR is of a Picker and a merge of a PR.
MayBeSaid(e) ==
  LET t == e.task
      running == {s.session : s \in SpawnsOf(t)}
  IN CASE e.type = "task.requested" -> ToldOf(t) = {}
       [] "task.requested" \notin ToldOf(t) -> FALSE
       [] e.type = "picker.spawned" -> e.session = Cardinality(running) + 1
       [] e.type = "picker.exited" -> e.session \in running
       [] e.type = "pr.opened" -> running # {} /\ e.session = 0
       [] e.type = "pr.merged" -> "pr.opened" \in ToldOf(t) /\ e.session = 0
       [] OTHER -> e.session = 0

\* Two events of one instant have no cause in each other and come in order.
Instant(e) ==
  IF published = <<>> THEN e.at = 1
  ELSE \/ e.at = Last(published).at + 1
       \/ e.at = Last(published).at /\ Rank(Last(published)) < Rank(e)

PublishEvent(e) ==
  /\ Len(published) < MaxPublished /\ MayBeSaid(e) /\ Instant(e)
  /\ published' = Append(published, e)
  /\ unhandled' = unhandled \union {Len(published) + 1}
  /\ Disturbed
  /\ UNCHANGED <<gitRefs, baseRef, written, checkout, nodes, filed, torn>>

FileEvent ==
  /\ filed < Len(published) /\ filed' = filed + 1
  /\ \/ UNCHANGED torn
     \/ "line" \in GraphFaults /\ torn' = TRUE
  /\ Disturbed
  /\ UNCHANGED <<gitRefs, baseRef, written, checkout, nodes, published, unhandled>>

\* apply_lifecycle_event: the directory is made when it is missing, also where
\* a command has just removed the worktree.
HandleEvent(i) ==
  LET e == published[i]
  IN /\ i \in unhandled
     /\ unhandled' = unhandled \ {i}
     /\ IF e.type = "task.requested" THEN UNCHANGED <<nodes, checkout>>
        ELSE /\ nodes' = [nodes EXCEPT ![e.task] = DaemonApplies(Loaded(@), e)]
             /\ checkout' = IF checkout.path = "absent"
                              THEN [path |-> "stray", commits |-> {}] ELSE checkout
     /\ Disturbed
     /\ UNCHANGED <<gitRefs, baseRef, written, published, filed, torn>>

\* The daemon restarts; what it was sent meanwhile is not sent again.
DaemonRestarts ==
  /\ unhandled # {} /\ unhandled' = {}
  /\ UNCHANGED <<gitRefs, baseRef, written, checkout, nodes, published, filed, torn, command>>

\* People commit to nodes and specs, on the branch that is checked out.
PeopleCommit ==
  /\ checkout.path = "worktree" /\ "edits" \notin gitRefs["local"].has
  /\ gitRefs' = [gitRefs EXCEPT !["local"].has = @ \union {"edits"}]
  /\ checkout' = [checkout EXCEPT !.commits = @ \union {"edits"}]
  /\ written' = written \union {"edits"}
  /\ UNCHANGED <<baseRef, nodes, published, filed, torn, unhandled, command>>
-----------------------------------------------------------------------------

\* Nothing is left for the bridge to file when the command starts.
BeginCommand(kind) ==
  LET there == checkout.path # "absent"
      first == CASE kind = "ensure" -> IF there THEN "done" ELSE "add"
                 [] kind = "recreate" -> IF there THEN "remove" ELSE "add"
                 [] OTHER -> IF there THEN "read" ELSE "failed"
  IN /\ AtRest /\ command.count < MaxCommands
     /\ command' = [NoCommand EXCEPT !.at = first, !.kind = kind,
                      !.replacing = there /\ kind = "recreate",
                      !.quiet = filed = Len(published), !.count = command.count + 1]
     /\ UNCHANGED <<gitRefs, baseRef, written, checkout, nodes, published, filed, torn,
                    unhandled>>

\* git worktree remove --force, which knows only worktrees.
RemoveTree ==
  /\ command.at = "remove" /\ checkout.path # "stray"
  /\ checkout' = [path |-> "absent", commits |-> {}] /\ nodes' = NoNodes
  /\ GoesOnAt("add")
  /\ UNCHANGED <<gitRefs, baseRef, written, published, filed, torn, unhandled>>

\* Faulty variant: the trunk comes before the branch that was pushed.
BaseTrunkFirst ==
  IF baseRef # "none" THEN baseRef
  ELSE IF gitRefs["origin/trunk"].there THEN "origin/trunk" ELSE "origin/branch"

\* resolve_canonical_base_ref.
Base ==
  IF baseRef # "none" THEN baseRef
  ELSE IF gitRefs["origin/branch"].there THEN "origin/branch" ELSE "origin/trunk"

\* Faulty variant: the branch is always started again.
BranchAnew == gitRefs[Base]

\* add_canonical_worktree: the local branch, or a new one made of the base.
BranchToUse == IF gitRefs["local"].there THEN gitRefs["local"] ELSE gitRefs[Base]

\* git worktree add, into a path that must not be there.
AddTree ==
  /\ command.at = "add" /\ checkout.path = "absent"
  /\ gitRefs' = [gitRefs EXCEPT !["local"] = BranchToUse]
  /\ checkout' = [path |-> "worktree", commits |-> BranchToUse.has]
  /\ nodes' = CheckedOut(BranchToUse.has)
  /\ GoesOnAt("directory")
  /\ UNCHANGED <<baseRef, written, published, filed, torn, unhandled>>

\* Faulty variant: the task files go whenever the worktree is made.
ClearsAlways == TRUE

\* Only what replaces a worktree clears the task files of its branch.
Clears == command.replacing

PrepareDirectory ==
  /\ command.at = "directory"
  /\ nodes' = IF command.kind = "recreate" /\ Clears THEN NoNodes ELSE nodes
  /\ GoesOnAt(IF command.kind = "ensure" THEN "done" ELSE "read")
  /\ UNCHANGED <<gitRefs, baseRef, written, checkout, published, filed, torn, unhandled>>

\* One file after the other is read as it is by then; all are sorted at the end.
ReadJournal ==
  LET next == command.file + 1
      all  == command.lines \o LinesIn(JournalNames[next])
  IN /\ command.at = "read" /\ ~torn
     /\ command' = IF next < Len(JournalNames)
                     THEN [command EXCEPT !.file = next, !.lines = all]
                     ELSE [command EXCEPT !.at = "apply", !.file = 0, !.lines = Sorted(all)]
     /\ UNCHANGED <<gitRefs, baseRef, written, checkout, nodes, published, filed, torn,
                    unhandled>>

ReplayLine ==
  /\ command.at = "apply" /\ command.lines # <<>>
  /\ LET e == Head(command.lines)
     IN nodes' = [nodes EXCEPT ![e.task] = ReplayApplies(Loaded(@), e)]
  /\ command' = [command EXCEPT !.lines = Tail(@)]
  /\ UNCHANGED <<gitRefs, baseRef, written, checkout, published, filed, torn, unhandled>>

FinishReplay ==
  /\ command.at = "apply" /\ command.lines = <<>>
  /\ GoesOnAt("done")
  /\ UNCHANGED <<gitRefs, baseRef, written, checkout, nodes, published, filed, torn, unhandled>>

\* A step that cannot be done ends the command where it is: git refuses a
\* directory that is no worktree and a path that is taken, a line that does
\* not parse stops the replay, and any call of git may fail.
CommandFails ==
  /\ \/ command.at = "remove" /\ checkout.path = "stray"
     \/ command.at = "add" /\ checkout.path # "absent"
     \/ command.at = "read" /\ torn
     \/ command.at \in {"remove", "add"} /\ "git" \in GraphFaults
  /\ GoesOnAt("failed")
  /\ UNCHANGED <<gitRefs, baseRef, written, checkout, nodes, published, filed, torn, unhandled>>

GraphEvents ==
  [task: GraphTasks, type: Types, session: 0..2, zero: BOOLEAN, at: 1..MaxPublished]

\* Only an exit has a code, and only a Picker a session.
WellFormed(e) ==
  /\ e.zero => e.type = "picker.exited"
  /\ e.session # 0 <=> e.type \in {"picker.spawned", "picker.exited"}

GraphNext ==
  \/ \E e \in GraphEvents : WellFormed(e) /\ PublishEvent(e)
  \/ FileEvent \/ (\E i \in unhandled : HandleEvent(i)) \/ DaemonRestarts \/ PeopleCommit
  \/ \E kind \in {"ensure", "recreate", "replay"} : BeginCommand(kind)
  \/ RemoveTree \/ AddTree \/ PrepareDirectory \/ ReadJournal \/ ReplayLine \/ FinishReplay
  \/ CommandFails

GraphSpec == GraphInit /\ [][GraphNext]_graphVars
-----------------------------------------------------------------------------

Nodes ==
  [status: Over \union {"backlog", "in-progress", "picker-completed", "in-review"},
   outcome: {"none", "picker-exited-zero", "picker-exited-nonzero", "merged", "task.failed",
             "task.abandoned"},
   session: 0..2, pr: BOOLEAN]

GraphTypeOK ==
  /\ \A n \in GitNames : gitRefs[n] = Missing \/ gitRefs[n].has \subseteq Commits
  /\ checkout \in [path: {"absent", "worktree", "stray"}, commits: SUBSET Commits]
  /\ \A t \in GraphTasks : nodes[t] = NoNode \/ nodes[t] \in Nodes
  /\ Range(published) \subseteq GraphEvents /\ filed \in 0..Len(published)
  /\ unhandled \subseteq DOMAIN published
  /\ command.at \in {"none", "remove", "add", "directory", "read", "apply", "done", "failed"}

HistoryOf(t) == LET is(e) == e.task = t IN SelectSeq(published, is)

\* The node as the daemon would have written it from the events in their order,
\* on a task that was asked for.
AsHandled(start, events) ==
  LET step(node, e) ==
        IF e.type = "task.requested" THEN [node EXCEPT !.status = "backlog"]
        ELSE DaemonApplies(node, e)
  IN FoldLeft(step, Loaded(start), events)

\* An end of the task, if it has one, is the last that is told of it.
EndIsLast(t) ==
  \A i \in 1..(Len(HistoryOf(t)) - 1) :
    AsHandled(NoNode, SubSeq(HistoryOf(t), 1, i)).status \notin Over

\* The commands and the daemon are two programs that write one node.  A command
\* that ends well, next to which nothing was told, filed or handled, leaves each
\* node as the daemon would have written it from the whole journal, whatever the
\* daemon had missed, or handled in another order; except of a task of which
\* something is told after its end.  A node without events is as checked out when
\* the worktree is made, and gone when it is replaced
\* (jam-cli/src/main.rs:2834-2890 and 3002-3190).  What an older write left in a
\* field that no later event decides is left by a replay alone.
GraphRestored ==
  command.at = "done" /\ command.kind # "ensure" /\ command.quiet =>
    \A t \in GraphTasks :
      LET start    == IF command.replacing THEN NoNode ELSE CheckedOut(checkout.commits)[t]
          rebuilt  == AsHandled(start, HistoryOf(t))
          known(n) == <<n.status, n.session>>
      IN IF HistoryOf(t) = <<>>
           THEN command.kind = "recreate" => nodes[t] = start
           ELSE EndIsLast(t) =>
                  IF command.kind = "recreate" THEN nodes[t] = rebuilt
                  ELSE nodes[t] # NoNode /\ known(nodes[t]) = known(rebuilt)

\* What people have committed to the local branch of the graph is in the worktree
\* whenever there is one, however often it is made anew, and what they pushed is
\* when there was no local branch to use.  Edits pushed beside a local branch
\* are not asked for: git worktree add takes the local one as it is
\* (jam-cli/src/main.rs:2889-2931).
EditsKept ==
  checkout.path = "worktree" /\ baseRef = "none" => written \subseteq checkout.commits
===============================================================================
