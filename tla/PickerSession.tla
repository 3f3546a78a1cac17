---------------------------- MODULE PickerSession ----------------------------
(***************************************************************************)
(* The session service (crates/jam-svc-session) and the Pickers of one     *)
(* task, which all work in the task's one worktree: launches (spawn and    *)
(* resume), the watcher of each Picker's end with its hand-off to a PR,    *)
(* full stops, archive and purge, and the end of the service.              *)
(* Every request is a task of its own; they meet in the map of active      *)
(* sessions, whose lock none of them keeps across an await.                *)
(***************************************************************************)
EXTENDS FiniteSets, Naturals

CONSTANTS
  Pickers,      \* session ids
  PickerFaults, \* what may fail: "launch", "publish", "disk", "signal"
  MaxDeaths     \* bound: ends of the service

ASSUME PickerFaultsAssumption ==
  PickerFaults \subseteq {"launch", "publish", "disk", "signal"}
ASSUME DeathsAssumption == MaxDeaths \in Nat

VARIABLES
  launch,   \* spawn-picker or resume-picker, by session
  proc,     \* the Picker's process: "none", "running", or how it ended
  record,   \* its record in the map of active sessions
  watcher,  \* its exit watcher
  stop,     \* its full-stop request
  purge,    \* its purge-session request
  published, \* journal events and PRs of the session
  present,  \* the worktree exists
  branched, \* the task's branch exists
  deaths

pickerVars == <<launch, proc, record, watcher, stop, purge, published, present,
                branched, deaths>>
world == <<present, branched, deaths>>

Dead == {"zero", "nonzero", "signal"}
Completed == {"Exited", "Killed"}
Idle == {"none", "failed", "done"}

PickerInit ==
  /\ launch = [s \in Pickers |-> "none"]
  /\ proc = [s \in Pickers |-> "none"]
  /\ record = [s \in Pickers |-> "absent"]
  /\ watcher = [s \in Pickers |-> "none"]
  /\ stop = [s \in Pickers |-> "none"]
  /\ purge = [s \in Pickers |-> "none"]
  /\ published = [s \in Pickers |-> {}]
  /\ present = FALSE /\ branched = FALSE
  /\ deaths = 0

May(fault, ok) == ok \/ fault \in PickerFaults
Tells(s, event) == published' = [published EXCEPT ![s] = @ \union {event}]
\* A publish that fails is logged, or ends the request.
TellsIf(ok, s, event) == IF ok THEN Tells(s, event) ELSE UNCHANGED published

(***************************************************************************)
(* Launches.                                                               *)
(***************************************************************************)

\* spawn_picker up to the answer of the worktree service: a worktree that is
\* there is used again, a new one needs the branch to be free.
SpawnPicker(s) ==
  /\ launch[s] = "none"
  /\ present \/ ~branched
  /\ launch' = [launch EXCEPT ![s] = "worktree"]
  /\ present' = TRUE /\ branched' = TRUE
  /\ UNCHANGED <<proc, record, watcher, stop, purge, published, deaths>>

\* resume_picker: the path is derived from the task; whether another Picker is
\* at work there is not looked at.
ResumePicker(s) ==
  /\ launch[s] = "none"
  /\ present
  /\ launch' = [launch EXCEPT ![s] = "worktree"]
  /\ UNCHANGED <<proc, record, watcher, stop, purge, published, world>>

\* launch_picker up to command.spawn.
LaunchProcess(s, ok) ==
  /\ launch[s] = "worktree"
  /\ May("launch", ok) \/ ~present
  /\ ok => present
  /\ launch' = [launch EXCEPT ![s] = IF ok THEN "launched" ELSE "failed"]
  /\ proc' = IF ok THEN [proc EXCEPT ![s] = "running"] ELSE proc
  /\ UNCHANGED <<record, watcher, stop, purge, published, world>>

\* Faulty variant: a publish that fails is logged.
PublishSpawnedLogged(s, ok) ==
  /\ launch[s] = "launched"
  /\ May("publish", ok)
  /\ TellsIf(ok, s, "spawned")
  /\ launch' = [launch EXCEPT ![s] = "told"]
  /\ UNCHANGED <<proc, record, watcher, stop, purge, world>>

\* publish_picker_spawned: a failure ends the request and leaves the process.
PublishSpawned(s, ok) ==
  /\ launch[s] = "launched"
  /\ May("publish", ok)
  /\ TellsIf(ok, s, "spawned")
  /\ launch' = [launch EXCEPT ![s] = IF ok THEN "told" ELSE "failed"]
  /\ UNCHANGED <<proc, record, watcher, stop, purge, world>>

\* The record enters the map; from here on others find the session.
Register(s) ==
  /\ launch[s] = "told"
  /\ launch' = [launch EXCEPT ![s] = "registered"]
  /\ record' = [record EXCEPT ![s] = "Running"]
  /\ UNCHANGED <<proc, watcher, stop, purge, published, world>>

\* watch_picker_exit, once the subscriptions of watch_picker_messages stand.
StartWatcher(s) ==
  /\ launch[s] = "registered"
  /\ launch' = [launch EXCEPT ![s] = "done"]
  /\ watcher' = [watcher EXCEPT ![s] = "waiting"]
  /\ UNCHANGED <<proc, record, stop, purge, published, world>>

PickerEnds(s, how) ==
  /\ proc[s] = "running"
  /\ May("signal", how # "signal") \/ stop[s] = "grace"
  /\ proc' = [proc EXCEPT ![s] = how]
  /\ UNCHANGED <<launch, record, watcher, stop, purge, published, world>>

(***************************************************************************)
(* watch_picker_exit                                                       *)
(***************************************************************************)

\* Faulty variant: the end is published whatever the record says.
SeeExitAlways(s) ==
  /\ watcher[s] = "waiting" /\ proc[s] \in Dead
  /\ watcher' = [watcher EXCEPT ![s] = "reporting"]
  /\ record' = [record EXCEPT ![s] = IF @ = "Running" THEN "Exited"
                                     ELSE IF @ = "Killing" THEN "Killed" ELSE @]
  /\ UNCHANGED <<launch, proc, stop, purge, published, world>>

\* child.wait returned; under the lock, the watcher publishes exactly when no
\* full stop has marked the session.
SeeExit(s) ==
  /\ watcher[s] = "waiting" /\ proc[s] \in Dead
  /\ watcher' = [watcher EXCEPT ![s] = IF record[s] = "Running" THEN "reporting" ELSE "done"]
  /\ record' = [record EXCEPT ![s] = IF @ = "Running" THEN "Exited"
                                     ELSE IF @ = "absent" THEN @ ELSE "Killed"]
  /\ UNCHANGED <<launch, proc, stop, purge, published, world>>

\* Faulty variant: only a success is told.
ReportSuccess(s, ok) ==
  /\ watcher[s] = "reporting"
  /\ May("publish", ok)
  /\ TellsIf(ok /\ proc[s] = "zero", s, "exited")
  /\ watcher' = [watcher EXCEPT ![s] = IF proc[s] = "zero" THEN "handing" ELSE "done"]
  /\ UNCHANGED <<launch, proc, record, stop, purge, world>>

\* publish_exit_for_status: an end by a signal has no code and no event; a
\* failed publish is only logged.
ReportExit(s, ok) ==
  /\ watcher[s] = "reporting"
  /\ May("publish", ok)
  /\ TellsIf(ok /\ proc[s] # "signal", s, "exited")
  /\ watcher' = [watcher EXCEPT ![s] = IF proc[s] = "zero" THEN "handing" ELSE "done"]
  /\ UNCHANGED <<launch, proc, record, stop, purge, world>>

\* maybe_open_pr_for_successful_picker up to the request: commits and metadata
\* are read in the worktree.
PrepareHandoff(s) ==
  /\ watcher[s] = "handing"
  /\ \/ present /\ watcher' = [watcher EXCEPT ![s] = "opening"]
     \/ watcher' = [watcher EXCEPT ![s] = "done"]
  /\ UNCHANGED <<launch, proc, record, stop, purge, published, world>>

OpenHandoffPr(s, ok) ==
  /\ watcher[s] = "opening"
  /\ TellsIf(ok, s, "pr")
  /\ watcher' = [watcher EXCEPT ![s] = "done"]
  /\ UNCHANGED <<launch, proc, record, stop, purge, world>>

(***************************************************************************)
(* full_stop_picker                                                        *)
(***************************************************************************)

\* Faulty variant: any session that is known can be marked.
MarkKillingAny(s) ==
  /\ stop[s] \in Idle /\ record[s] # "absent"
  /\ stop' = [stop EXCEPT ![s] = "marked"]
  /\ record' = [record EXCEPT ![s] = "Killing"]
  /\ UNCHANGED <<launch, proc, watcher, purge, published, world>>

MarkKilling(s) ==
  /\ stop[s] \in Idle /\ record[s] = "Running"
  /\ stop' = [stop EXCEPT ![s] = "marked"]
  /\ record' = [record EXCEPT ![s] = "Killing"]
  /\ UNCHANGED <<launch, proc, watcher, purge, published, world>>

\* terminate_process_group: kill -TERM fails when the process is gone.
Terminate(s) ==
  /\ stop[s] = "marked"
  /\ \/ stop' = [stop EXCEPT ![s] = "grace"]
     \/ proc[s] \in Dead /\ stop' = [stop EXCEPT ![s] = "failed"]
  /\ UNCHANGED <<launch, proc, record, watcher, purge, published, world>>

\* ... and after the grace period a process that lives is killed; one that
\* ends between the look and the kill makes it fail.
GraceOver(s) ==
  /\ stop[s] = "grace"
  /\ proc' = [proc EXCEPT ![s] = IF @ = "running" THEN "signal" ELSE @]
  /\ \/ stop' = [stop EXCEPT ![s] = "terminated"]
     \/ proc[s] \in Dead /\ stop' = [stop EXCEPT ![s] = "failed"]
  /\ UNCHANGED <<launch, record, watcher, purge, published, world>>

\* write_killed_marker in the worktree, the snapshot, mark_session_killed.
MarkKilled(s, ok) ==
  /\ stop[s] = "terminated"
  /\ May("disk", ok) \/ ~present
  /\ ok => present
  /\ stop' = [stop EXCEPT ![s] = IF ok THEN "killed" ELSE "failed"]
  /\ record' = IF ok /\ record[s] # "absent" THEN [record EXCEPT ![s] = "Killed"] ELSE record
  /\ UNCHANGED <<launch, proc, watcher, purge, published, world>>

PublishKilled(s, ok) ==
  /\ stop[s] = "killed"
  /\ May("publish", ok)
  /\ TellsIf(ok, s, "killed")
  /\ stop' = [stop EXCEPT ![s] = IF ok THEN "abandoning" ELSE "failed"]
  /\ UNCHANGED <<launch, proc, record, watcher, purge, world>>

PublishAbandoned(s, ok) ==
  /\ stop[s] = "abandoning"
  /\ May("publish", ok)
  /\ TellsIf(ok, s, "abandoned")
  /\ stop' = [stop EXCEPT ![s] = IF ok THEN "done" ELSE "failed"]
  /\ UNCHANGED <<launch, proc, record, watcher, purge, world>>

(***************************************************************************)
(* archive_session and purge_session                                       *)
(***************************************************************************)

\* Faulty variant: a session that is being killed counts as completed.
RemovableKilling(s) == record[s] \in Completed \union {"Killing"}

\* remove_completed_session
Removable(s) == record[s] \in Completed

Archive(s, ok) ==
  /\ Removable(s)
  /\ May("publish", ok)
  /\ record' = [record EXCEPT ![s] = "absent"]
  /\ TellsIf(ok, s, "archived")
  /\ UNCHANGED <<launch, proc, watcher, stop, purge, world>>

Purge(s) ==
  /\ Removable(s)
  /\ record' = [record EXCEPT ![s] = "absent"]
  /\ purge' = [purge EXCEPT ![s] = "removed"]
  /\ UNCHANGED <<launch, proc, watcher, stop, published, world>>

\* remove_worktree_dir, unless the worktree is to be kept; its failure ends the
\* request, the record being gone.
PurgeWorktree(s, ok) ==
  /\ purge[s] = "removed"
  /\ May("disk", ok)
  /\ present' \in IF ok THEN {FALSE, present} ELSE {present}
  /\ purge' = [purge EXCEPT ![s] = IF ok THEN "abandoning" ELSE "failed"]
  /\ UNCHANGED <<launch, proc, record, watcher, stop, published, branched, deaths>>

\* publish_task_abandoned, then publish_session_purged; the first to fail ends
\* the request.
PublishPurgeAbandons(s, ok) ==
  /\ purge[s] = "abandoning"
  /\ May("publish", ok)
  /\ TellsIf(ok, s, "abandoned")
  /\ purge' = [purge EXCEPT ![s] = IF ok THEN "telling" ELSE "failed"]
  /\ UNCHANGED <<launch, proc, record, watcher, stop, world>>

PublishPurged(s, ok) ==
  /\ purge[s] = "telling"
  /\ May("publish", ok)
  /\ TellsIf(ok, s, "purged")
  /\ purge' = [purge EXCEPT ![s] = IF ok THEN "done" ELSE "failed"]
  /\ UNCHANGED <<launch, proc, record, watcher, stop, world>>

(***************************************************************************)
(* The end of the service.                                                 *)
(***************************************************************************)

Cut(request) == [s \in Pickers |-> IF request[s] \in Idle THEN request[s] ELSE "failed"]

\* run: a signal ends the service at once, a drain when no request is active;
\* neither waits for watchers.  Records and watchers are lost, processes stay,
\* and the next service knows none of them.
ServiceEnds ==
  /\ deaths < MaxDeaths
  /\ deaths' = deaths + 1
  /\ launch' = Cut(launch) /\ stop' = Cut(stop) /\ purge' = Cut(purge)
  /\ record' = [s \in Pickers |-> "absent"]
  /\ watcher' = [s \in Pickers |-> IF watcher[s] = "none" THEN "none" ELSE "done"]
  /\ UNCHANGED <<proc, published, present, branched>>

Watch(s) ==
  \/ SeeExit(s) \/ PrepareHandoff(s)
  \/ \E ok \in BOOLEAN : ReportExit(s, ok) \/ OpenHandoffPr(s, ok)

Serve(s) ==
  \/ Register(s) \/ StartWatcher(s) \/ Terminate(s) \/ GraceOver(s)
  \/ \E ok \in BOOLEAN :
       \/ LaunchProcess(s, ok) \/ PublishSpawned(s, ok)
       \/ MarkKilled(s, ok) \/ PublishKilled(s, ok) \/ PublishAbandoned(s, ok)
       \/ PurgeWorktree(s, ok) \/ PublishPurgeAbandons(s, ok) \/ PublishPurged(s, ok)

PickerNext ==
  \/ \E s \in Pickers :
       \/ SpawnPicker(s) \/ ResumePicker(s) \/ MarkKilling(s) \/ Purge(s)
       \/ \E ok \in BOOLEAN : Archive(s, ok)
       \/ \E how \in Dead : PickerEnds(s, how)
       \/ Serve(s) \/ Watch(s)
  \/ ServiceEnds

PickerSpec == PickerInit /\ [][PickerNext]_pickerVars

\* The runtime goes on with what is ready; calls of the service end.
PickerFairness ==
  \A s \in Pickers : WF_pickerVars(Watch(s)) /\ WF_pickerVars(Serve(s))

FairPickerSpec == PickerSpec /\ PickerFairness
-----------------------------------------------------------------------------

PickerTypeOK ==
  /\ launch \in [Pickers -> Idle \union {"worktree", "launched", "told", "registered"}]
  /\ proc \in [Pickers -> Dead \union {"none", "running"}]
  /\ record \in [Pickers -> Completed \union {"absent", "Running", "Killing"}]
  /\ watcher \in [Pickers -> {"none", "waiting", "reporting", "handing", "opening", "done"}]
  /\ stop \in [Pickers -> Idle \union {"marked", "grace", "terminated", "killed", "abandoning"}]
  /\ purge \in [Pickers -> Idle \union {"removed", "abandoning", "telling"}]
  /\ published \in [Pickers -> SUBSET {"spawned", "exited", "killed", "abandoned", "archived",
                                 "purged", "pr"}]
  /\ \A s \in Pickers : record[s] \in {"Running", "Killing"} =>
       watcher[s] = "waiting" \/ launch[s] = "registered"
  /\ present \in BOOLEAN /\ branched \in BOOLEAN
  /\ deaths \in 0..MaxDeaths

\* The end of a Picker is told as an exit or as a kill and never as both, in
\* whatever order its watcher and a full stop find it (the status under the
\* lock decides, watch_picker_exit and mark_session_killing).
EndToldOnce == \A s \in Pickers : ~({"exited", "killed"} \subseteq published[s])

\* A Picker that an operator stopped is never handed off to a PR, also when it
\* exits with success during the grace period or the stop fails half way.
StoppedOpensNoPr ==
  \A s \in Pickers : stop[s] # "none" =>
    watcher[s] \notin {"handing", "opening"} /\ "pr" \notin published[s]

\* api-purge-session.md: "Running or killing sessions are refused": a session
\* is purged only when its process is gone (remove_completed_session).
PurgedIsDead == \A s \in Pickers : purge[s] # "none" => proc[s] \in Dead

\* Nothing is told of a session whose start was not: a reader of the journal
\* finds the session of every event (launch_picker).
SpawnToldFirst == \A s \in Pickers : published[s] # {} => "spawned" \in published[s]

\* While the service lives and its publishes succeed, the end of every Picker
\* that it watches is told, unless a full stop of it failed: one that races
\* the end of the process leaves it untold.
EndIsTold ==
  \A s \in Pickers :
    (watcher[s] = "waiting" /\ proc[s] \in Dead) ~>
      (published[s] \intersect {"exited", "killed"} # {} \/ stop[s] = "failed" \/ deaths > 0)

\* Exit, full stop and purge of one Picker, in any interleaving, agree on how it
\* ended: told once, no PR after a stop, nothing purged alive, nothing told of
\* a Picker before its start (main.rs:3212-3375, 4060-4266).
PickerSafety == EndToldOnce /\ StoppedOpensNoPr /\ PurgedIsDead /\ SpawnToldFirst
=============================================================================
