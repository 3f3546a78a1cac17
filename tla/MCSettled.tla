------------------------------ MODULE MCSettled -------------------------------
(***************************************************************************)
(* What must come about: the components that promise an end of what they   *)
(* have begun, each under the fairness its scheduling gives and with the   *)
(* faults it outlives.  As in MCServices a behaviour runs the component    *)
(* that `part` names and leaves the others as they start.                  *)
(***************************************************************************)
EXTENDS PickerSession, PickerMessages, HotPatch, JournalPipeline, SnapshotCache,
        PrPoller, ResearchRuns

CONSTANT i1

VARIABLE part

Parts == {"pickers", "messages", "patches", "journal", "snapshots", "poller",
          "research"}

settledVars == <<pickerVars, messageVars, patchVars, journalVars, snapshotVars, vars,
                 researchVars, part>>

Only(p) ==
  /\ part = p /\ UNCHANGED part
  /\ IF p = "pickers" THEN TRUE ELSE UNCHANGED pickerVars
  /\ IF p = "messages" THEN TRUE ELSE UNCHANGED messageVars
  /\ IF p = "patches" THEN TRUE ELSE UNCHANGED patchVars
  /\ IF p = "journal" THEN TRUE ELSE UNCHANGED journalVars
  /\ IF p = "snapshots" THEN TRUE ELSE UNCHANGED snapshotVars
  /\ IF p = "poller" THEN TRUE ELSE UNCHANGED vars
  /\ IF p = "research" THEN TRUE ELSE UNCHANGED researchVars

SettledInit ==
  /\ PickerInit /\ MessageInit /\ PatchInit /\ JournalInit /\ SnapshotInit /\ Init
  /\ part \in Parts
  /\ part # "snapshots" => serial
  /\ ResearchInit /\ (part # "research" => ~graph /\ \A r \in Runs : run[r].id = i1)

SettledNext ==
  \/ Only("pickers") /\ PickerNext
  \/ Only("messages") /\ MessageNext
  \/ Only("patches") /\ PatchNext
  \/ Only("journal") /\ JournalNext
  \/ Only("snapshots") /\ SnapshotNext
  \/ Only("poller") /\ Next
  \/ Only("research") /\ ResearchNext

\* Only the poller has something to do before anything happens: the others'
\* fairness asks nothing of them while they stay as they start.
SettledSpec ==
  /\ SettledInit /\ [][SettledNext]_settledVars
  /\ PickerFairness
  /\ MessageFairness
  /\ PatchFairness
  /\ JournalFairness
  /\ SnapshotFairness
  /\ ResearchFairness
  /\ WF_vars(part = "poller" /\ Load) /\ FairnessOnceLoaded

MCCandidates == <<"tavily", "sonar">>
MCModeOf == [m \in {"a", "b"} |-> IF m = "a" THEN "queue" ELSE "interrupt"]
MCGroupOf == [e \in {"exited", "failed"} |-> IF e = "failed" THEN "task" ELSE "picker"]
MCSessionOf == [e \in {"exited", "failed"} |-> "s1"]
MCGroupOrder == <<"picker", "task">>
===============================================================================
