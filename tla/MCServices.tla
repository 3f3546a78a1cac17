------------------------------ MODULE MCServices ------------------------------
(***************************************************************************)
(* The safety of the daemons around the task store, each with every fault  *)
(* of the calls it makes.  The modules share no variable, so a product of  *)
(* them would multiply states and show nothing more: a behaviour runs the  *)
(* one that `part` names and leaves the others as they start.              *)
(***************************************************************************)
EXTENDS Worktrees, PickerSession, PickerMessages, PickerOutput, PullRequests,
        HotPatch, RoutedCalls, JournalPipeline, DispatchPause, SnapshotCache,
        QuotaLedger

CONSTANTS r1, r2

VARIABLE part

Parts == {"trees", "pickers", "messages", "output", "pulls", "patches", "routing",
          "journal", "dispatch", "snapshots", "quotas"}

servicesVars == <<treeVars, pickerVars, messageVars, outputVars, repoVars, patchVars,
                  routedVars, journalVars, dispatchVars, snapshotVars, quotaVars, part>>

Only(p) ==
  /\ part = p /\ UNCHANGED part
  /\ IF p = "trees" THEN TRUE ELSE UNCHANGED treeVars
  /\ IF p = "pickers" THEN TRUE ELSE UNCHANGED pickerVars
  /\ IF p = "messages" THEN TRUE ELSE UNCHANGED messageVars
  /\ IF p = "output" THEN TRUE ELSE UNCHANGED outputVars
  /\ IF p = "pulls" THEN TRUE ELSE UNCHANGED repoVars
  /\ IF p = "patches" THEN TRUE ELSE UNCHANGED patchVars
  /\ IF p = "routing" THEN TRUE ELSE UNCHANGED routedVars
  /\ IF p = "journal" THEN TRUE ELSE UNCHANGED journalVars
  /\ IF p = "dispatch" THEN TRUE ELSE UNCHANGED dispatchVars
  /\ IF p = "snapshots" THEN TRUE ELSE UNCHANGED snapshotVars
  /\ IF p = "quotas" THEN TRUE ELSE UNCHANGED quotaVars

ServicesInit ==
  /\ TreeInit /\ PickerInit /\ MessageInit /\ OutputInit /\ PullsInit /\ PatchInit
  /\ RoutedInit /\ JournalInit /\ DispatchInit /\ SnapshotInit /\ QuotaInit
  /\ part \in Parts
  /\ part # "dispatch" =>
       \A t \in Toggles : toggle[t].by = "agent"
  /\ part # "snapshots" => serial
  /\ part # "quotas" => settings = {}

\* Two Pickers share the worktree and nothing else: the second is launched
\* beside the first, which alone is stopped, and the service does not end under
\* both.
TwoShareATree ==
  \A s \in Pickers : s # (CHOOSE lowest \in Pickers : TRUE) =>
    /\ stop'[s] = "none"
    /\ launch'[s] # "none" => deaths' = 0

\* Of three stagings, a request to roll back and a death of the agent one is
\* left out.
FourOfFive == stagings' + askings' + agentDeaths' <= 4

ServicesNext ==
  \/ Only("trees") /\ TreeNext
  \/ Only("pickers") /\ PickerNext /\ TwoShareATree
  \/ Only("messages") /\ MessageNext
  \/ Only("output") /\ OutputNext
  \/ Only("pulls") /\ PullsNext
  \/ Only("patches") /\ PatchNext /\ FourOfFive
  \/ Only("routing") /\ RoutedNext
  \/ Only("journal") /\ JournalNext
  \/ Only("dispatch") /\ DispatchNext
  \/ Only("snapshots") /\ SnapshotNext
  \/ Only("quotas") /\ QuotaNext

ServicesSpec == ServicesInit /\ [][ServicesNext]_servicesVars

\* Two tasks of two repositories, one with an origin, a queued and an
\* interrupting message, a Picker that exits while its task fails.
MCProjectOf == [t \in {"t1", "t2"} |-> IF t = "t1" THEN r1 ELSE r2]
MCModeOf == [m \in {"a", "b"} |-> IF m = "a" THEN "queue" ELSE "interrupt"]
MCGroupOf == [e \in {"exited", "failed"} |-> IF e = "failed" THEN "task" ELSE "picker"]
MCSessionOf == [e \in {"exited", "failed"} |-> "s1"]
MCGroupOrder == <<"picker", "task">>

\* The state of every component keeps its type.
ServicesTypeOK ==
  /\ TreeTypeOK /\ PickerTypeOK /\ MessageTypeOK /\ OutputTypeOK /\ PullsTypeOK
  /\ PatchTypeOK /\ RoutedTypeOK /\ JournalTypeOK /\ DispatchTypeOK /\ SnapshotTypeOK

\* What is written to a Picker and what it says arrive as what they are.
PickerIoSafety == MessageSafety /\ OutputSafety

\* Who decides from stored state gets what it says: a spawn sees the pause, a
\* delta misses nothing, a quota is not shown better than it is.
ReadersSafety == PauseHolds /\ DeltaNeverMisses /\ QuotaSafety

\* What no step may do: fetch twice in a window, take a message's status back,
\* move the routing manifest without its lock.
ServicesSteps == FetchOncePerWindow /\ ShownOnlyGrows /\ ManifestMovesLocked
===============================================================================
